------------------------------ MODULE MCRental ------------------------------
(* Small instances of Rental: a reservation for today, one for later, two cars
   and one maintenance record; and what Fines promises, on rentals of two cars. *)
EXTENDS Rental, TLC

Fine == INSTANCE Fines

CONSTANTS c1, c2, r1, r2, v1, v2, m1

TodayAndLater == [r \in Reservation |-> IF r = r1 THEN "today" ELSE "later"]
FirstCar == [m \in Record |-> v1]
SymClerks == Permutations(Clerk)
SymCars == Permutations(Vehicle)

-----------------------------------------------------------------------------
(* Fines.  The car leaves in 1, and is back early, late or not yet; the next
   client is waiting for it, or already has it if it is back. *)

First == {[id |-> 1, vehicle |-> 1, customer |-> c, pickup |-> 1, return |-> 3, out |-> 1,
           back |-> b, status |-> IF b = Fine!Null THEN "in_progress" ELSE "finished"] :
              c \in {Fine!Null, 1}, b \in {Fine!Null, 2, 5}}
Waiting == [id |-> 2, vehicle |-> 1, customer |-> 2, pickup |-> 4, return |-> 6,
            out |-> Fine!Null, back |-> Fine!Null, status |-> "confirmed"]
Books == {{f, Waiting} : f \in First}
         \cup {{f, [Waiting EXCEPT !.out = f.back, !.status = "in_progress"]} :
                  f \in {r \in First : r.back # Fine!Null}}
Notices == [vehicle : {1, 2}, offense_at : {2, 5}, notified_on : {Fine!Null, 7}, identify_by : {Fine!Null, 9}]

\* A fine is pinned on a rental that had the car at that moment, and on one only
\* (find_reservation): never on a client who is waiting for it or has given it back.
ASSUME FoundHadTheCar ==
    \A book \in Books, at \in 0 .. 6 :
        LET found == Fine!FindReservation(book, 1, at)
        IN /\ Cardinality(found) <= 1
           /\ \A r \in found : r.out # Fine!Null /\ r.out <= at /\ (r.back # Fine!Null => at <= r.back)

\* The fines that n steps can leave.
Reached[n \in 0 .. 4] ==
    IF n = 0 THEN UNION {Fine!Registered(f, b) : f \in Notices, b \in Books}
    ELSE Reached[n - 1] \cup UNION {Fine!Next(fine, b, Notices, {8}) : fine \in Reached[n - 1], b \in Books}

\* Whatever the order of the steps, a fine reported or found has a driver, and one
\* that was invoiced is over: it is not matched, reported, called late or offered
\* to invoice again, not even after its form is edited.
ASSUME InvoicedFinesAreOver ==
    \A fine \in Reached[4] :
        /\ fine.status \in Fine!FineStatus
        /\ fine.status \in {"matched", "identified"} => fine.driver # Fine!Null
        /\ fine.status = "charged" => fine.invoice # Fine!Null
        /\ fine.invoice # Fine!Null =>
              /\ fine.status \in {"charged", "closed"}
              /\ ~Fine!OffersInvoice(fine) /\ ~Fine!Overdue(fine, 100)

\* A fine whose notification is known has a deadline, the one typed or 20 days after it.
ASSUME NotifiedFinesHaveADeadline ==
    \A fine \in Reached[4] : fine.notified_on # Fine!Null => fine.identify_by # Fine!Null

=============================================================================
