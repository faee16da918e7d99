------------------------------ MODULE Planning ------------------------------
(***************************************************************************)
(* The planning (apps/reservations/planning.py): the reservations of a     *)
(* window of days drawn as bars, a row for each car and one more for what  *)
(* has no car yet in each category, the bars of a row in lanes.  Days are  *)
(* numbers; the columns of the window are counted from 1.                  *)
(***************************************************************************)
EXTENDS Integers, Sequences

CONSTANTS
    Vehicle, Category,
    NoVehicle,    \* a null vehicle_id
    CategoryOf,   \* vehicle -> category
    Any           \* a field of the filter that is left empty

Lengths == {7, 14, 31}
DefaultLength == 14

\* normalize_length
Normal(length) == IF length \in Lengths THEN length ELSE DefaultLength

\* An office that is not the user's makes the form invalid, and none of it counts.
Valid(form, own) ==
    /\ form.office \in own \cup {Any}
    /\ form.category \in Category \cup {Any}
    /\ form.length \in Lengths \cup {Any}

\* With nothing asked: two weeks from today, all the offices of the user.
Window(form, own, today) ==
    IF Valid(form, own)
    THEN [start |-> IF form.start = Any THEN today ELSE form.start,
          length |-> IF form.length = Any THEN DefaultLength ELSE Normal(form.length),
          offices |-> IF form.office = Any THEN own ELSE {form.office},
          category |-> form.category]
    ELSE [start |-> today, length |-> DefaultLength, offices |-> own, category |-> Any]

LastDay(w) == w.start + w.length - 1

-----------------------------------------------------------------------------
(* The bars *)

Larger(a, b) == IF a > b THEN a ELSE b
Smaller(a, b) == IF a < b THEN a ELSE b

First(r, w) == Larger(r.from - w.start, 0)
Last(r, w) == Smaller(r.to - w.start, w.length - 1)

\* A bar, or none when the reservation only touches the edge of the window.
Drawn(r, w) == Last(r, w) >= 0 /\ First(r, w) <= w.length - 1
Bar(r, w) ==
    [start |-> First(r, w) + 1, span |-> Last(r, w) - First(r, w) + 1,
     cut_start |-> r.from < w.start, cut_end |-> r.to > LastDay(w)]

End(bar) == bar.start + bar.span - 1

-----------------------------------------------------------------------------
(* The lanes.  `ends` is the last column of each one so far. *)

\* The order in which they are placed: by column, the longer ones first.
Sorted(bars) ==
    \A i, j \in DOMAIN bars :
        i < j => \/ bars[i].start < bars[j].start
                 \/ bars[i].start = bars[j].start /\ bars[i].span >= bars[j].span

Open(ends, bar) == {i \in DOMAIN ends : ends[i] < bar.start}
LaneFor(ends, bar) ==
    IF Open(ends, bar) = {} THEN Len(ends) + 1
    ELSE CHOOSE i \in Open(ends, bar) : \A j \in Open(ends, bar) : i <= j

Place(ends, bar) ==
    IF Open(ends, bar) = {} THEN Append(ends, End(bar))
    ELSE [ends EXCEPT ![LaneFor(ends, bar)] = End(bar)]

EndsAfter(bars) ==
    LET ends[n \in 0 .. Len(bars)] == IF n = 0 THEN <<>> ELSE Place(ends[n - 1], bars[n])
    IN ends

\* The lane of each bar.
Lanes(bars) == [n \in DOMAIN bars |-> LaneFor(EndsAfter(bars)[n - 1], bars[n])]

-----------------------------------------------------------------------------
(* The rows *)

InPlanning == {"pending", "confirmed", "in_progress", "finished"}
Asked(category, w) == w.category = Any \/ category = w.category

\* The query of the reservations.
Seen(reservations, w) ==
    {r \in reservations : /\ r.office \in w.offices /\ r.status \in InPlanning
                          /\ r.from <= LastDay(w) /\ r.to >= w.start
                          /\ Asked(r.category, w)}

\* The cars of the offices that are active, and any other a reservation in sight has.
Cars(fleet, seen, w) ==
    {v \in Vehicle : /\ fleet[v].active /\ fleet[v].office \in w.offices
                     /\ Asked(CategoryOf[v], w)}
    \cup ({r.vehicle : r \in seen} \ {NoVehicle})

\* build_planning, a group for each category: a row for each of its cars, and one more for
\* what waits for a car if that leaves any bar.
Rows(fleet, reservations, w) ==
    LET seen == Seen(reservations, w)
        waiting(c) == {r \in seen : r.vehicle = NoVehicle /\ r.category = c /\ Drawn(r, w)}
    IN {[group |-> CategoryOf[v], vehicle |-> v,
         of |-> {r \in seen : r.vehicle = v /\ Drawn(r, w)}] : v \in Cars(fleet, seen, w)}
       \cup {[group |-> c, vehicle |-> NoVehicle, of |-> waiting(c)] :
                c \in {k \in Category : waiting(k) # {}}}

=============================================================================
