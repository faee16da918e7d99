-------------------------------- MODULE Fines --------------------------------
(***************************************************************************)
(* Traffic fines (apps/operations/fines.py): a fine arrives for a plate    *)
(* and a moment, the rental that had the car is looked up, its customer is *)
(* reported to the authority and pays for it with a free invoice.          *)
(*                                                                         *)
(* A fine is a record and a step of a clerk yields the fine it leaves.     *)
(* Moments and days are numbers; Null is an empty date, an empty reference *)
(* and the blank driver.  Each step works on the locked row or saves what  *)
(* it read in the same request: what goes wrong here is the order of the   *)
(* steps, and they come in any order.                                      *)
(***************************************************************************)
EXTENDS Integers, FiniteSets

Null == -1
DaysToIdentify == 20

HasLeft == {"in_progress", "finished"}
Unidentified == {"received", "matched", "no_match"}
FineStatus == Unidentified \cup {"identified", "charged", "closed"}

-----------------------------------------------------------------------------
(* Who had the car *)

\* Coalesce: the real time, or the agreed one while there is none.
Since(r) == IF r.out = Null THEN r.pickup ELSE r.out
Until(r) == IF r.back = Null THEN r.return ELSE r.back

HadCar(reservations, car, at) ==
    {r \in reservations : /\ r.vehicle = car /\ r.status \in HasLeft
                          /\ Since(r) <= at /\ at <= Until(r)}

\* find_reservation: the first by "-desde"; of two that left at once, either.
FindReservation(reservations, car, at) ==
    LET had == HadCar(reservations, car, at)
    IN {r \in had : \A s \in had : Since(s) <= Since(r)}

-----------------------------------------------------------------------------
(* The steps *)

\* _asignar without a rental, or with one that has no customer.
Unassigned(fine, id) ==
    [fine EXCEPT !.reservation = id, !.driver = Null, !.status = "no_match"]

AssignTo(fine, r) ==
    IF r.customer = Null THEN Unassigned(fine, r.id)
    ELSE [fine EXCEPT !.reservation = r.id, !.driver = r.customer,
                      !.status = IF fine.status \in Unidentified THEN "matched" ELSE fine.status]

\* _asignar: every fine it can leave.
Assigned(fine, reservations) ==
    LET found == FindReservation(reservations, fine.vehicle, fine.offense_at)
    IN IF found = {} THEN {Unassigned(fine, Null)} ELSE {AssignTo(fine, r) : r \in found}

\* What register_fine fills in, of a new fine and of an edited one.
WithDeadline(fine) ==
    IF fine.identify_by = Null /\ fine.notified_on # Null
    THEN [fine EXCEPT !.identify_by = fine.notified_on + DaysToIdentify]
    ELSE fine

Blank(form) ==
    [vehicle |-> form.vehicle, offense_at |-> form.offense_at,
     notified_on |-> form.notified_on, identify_by |-> form.identify_by,
     status |-> "received", reservation |-> Null, driver |-> Null, invoice |-> Null]

Registered(form, reservations) == Assigned(WithDeadline(Blank(form)), reservations)

\* The form of an existing fine: the rental and the driver stay as they were found.
Edited(fine, form) ==
    WithDeadline([fine EXCEPT !.vehicle = form.vehicle, !.offense_at = form.offense_at,
                              !.notified_on = form.notified_on,
                              !.identify_by = form.identify_by])

Rematched(fine, reservations) ==
    IF fine.status \in {"charged", "closed"} THEN {} ELSE Assigned(fine, reservations)

Identified(fine) ==
    IF fine.driver # Null /\ fine.status \in {"matched", "received"}
    THEN {[fine EXCEPT !.status = "identified"]} ELSE {}

Charged(fine, invoice) == [fine EXCEPT !.invoice = invoice, !.status = "charged"]
Closed(fine) == [fine EXCEPT !.status = "closed"]

Overdue(fine, today) ==
    fine.identify_by # Null /\ fine.status \in Unidentified /\ fine.identify_by < today

\* TrafficFineDetailView: whether the screen offers to invoice the customer.
OffersInvoice(fine) == fine.driver # Null /\ fine.invoice = Null

\* The screens of a fine.  The invoice screen, once open, can be sent whatever has
\* happened since, so Charged has no guard of its own.
Next(fine, reservations, forms, invoices) ==
    UNION {Rematched(fine, reservations), Identified(fine), {Closed(fine)},
           {Edited(fine, f) : f \in forms}, {Charged(fine, i) : i \in invoices}}

=============================================================================
