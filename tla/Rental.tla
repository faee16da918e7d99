------------------------------- MODULE Rental -------------------------------
(***************************************************************************)
(* A rental between its booking and its return: the reservation state      *)
(* machine, the check-in and check-out that drive it, and the situation of *)
(* the cars, which the counter, the fleet screens, the workshop and the    *)
(* web write at the same time.                                             *)
(*                                                                         *)
(* A service that locks a row before it reads it is one action.  A request *)
(* that decides on something it read before the lock is two: the read puts *)
(* what it saw in `job`, the second step acts on it.  Dates are left out:  *)
(* a reservation is for today or for later, and so is a block.  Invoices   *)
(* are left out too: only a finished rental has one, and nothing leaves    *)
(* that status.                                                            *)
(***************************************************************************)
EXTENDS Integers, FiniteSets

CONSTANTS
    Clerk, Reservation, Vehicle, Record,
    NoVehicle,     \* a null vehicle_id
    Slot,          \* reservation -> "today" or "later"
    VehicleOf,     \* maintenance record -> its car
    AfterCheckOut, \* VEHICLE_STATUS_AFTER_CHECKOUT
    MaxBlocks      \* bound: blocks of the calendar at a time

Days == {"today", "later"}

ASSUME RentalAssumption ==
    /\ NoVehicle \notin Vehicle
    /\ Slot \in [Reservation -> Days]
    /\ VehicleOf \in [Record -> Vehicle]
    /\ AfterCheckOut \in {"cleaning", "available"}
    /\ {"free", "calendar"} \cap Record = {}
    /\ IsFiniteSet(Reservation) /\ IsFiniteSet(Vehicle)

VARIABLES
    status,    \* reservation -> its status
    car,       \* reservation -> vehicle
    reassign,  \* reservation -> needs_reassignment
    handed,    \* reservation -> CheckIn.vehicle, NoVehicle before the check-in
    returned,  \* reservation -> CheckOut.vehicle, NoVehicle before the check-out
    shape,     \* vehicle -> its status; RESERVED is never written, and what
               \* holds of CLEANING holds of BLOCKED
    fleet,     \* vehicle -> is_active
    blocks,    \* <<vehicle, day>> -> "free", the record that blocks it, or
               \* "calendar" for a block that belongs to no record
    record,    \* maintenance record -> its status
    job        \* clerk -> the request it has read for and not written yet

vars == <<status, car, reassign, handed, returned, shape, fleet, blocks, record, job>>
reservations == <<status, car, reassign, handed, returned>>
cars == <<shape, fleet>>
workshop == <<blocks, record>>

Statuses == {"pending", "confirmed", "in_progress", "finished", "cancelled", "no_show"}
Consuming == {"pending", "confirmed", "in_progress"}
Manual == {"available", "workshop", "cleaning", "retired"}
Shapes == Manual \cup {"rented"}
RecordStatuses == {"scheduled", "in_workshop", "done", "cancelled"}
Car == Vehicle \cup {NoVehicle}

\* TRANSITIONS
Diagram ==
    {<<"pending", "confirmed">>, <<"pending", "cancelled">>,
     <<"confirmed", "in_progress">>, <<"confirmed", "cancelled">>,
     <<"confirmed", "no_show">>,
     <<"in_progress", "finished">>, <<"in_progress", "cancelled">>}

Idle == [kind |-> "idle"]
DeskJob == [kind: {"checkin", "checkout"}, res: Reservation, car: Vehicle]
WebJob == [kind: {"web"}, res: Reservation]
FormJob == [kind: {"form"}, veh: Vehicle, shape: Shapes, fleet: BOOLEAN]
AnnulJob == [kind: {"annul"}, rec: Record, shape: Shapes, blocked: BOOLEAN]
EditJob == [kind: {"edit"}, rec: Record, status: RecordStatuses, blocked: BOOLEAN]

TypeOK ==
    /\ status \in [Reservation -> Statuses]
    /\ car \in [Reservation -> Car] /\ reassign \in [Reservation -> BOOLEAN]
    /\ handed \in [Reservation -> Car] /\ returned \in [Reservation -> Car]
    /\ shape \in [Vehicle -> Shapes] /\ fleet \in [Vehicle -> BOOLEAN]
    /\ blocks \in [Vehicle \X Days -> {"free", "calendar"} \cup Record]
    /\ record \in [Record -> RecordStatuses]
    /\ job \in [Clerk -> {Idle} \cup DeskJob \cup WebJob \cup FormJob
                           \cup AnnulJob \cup EditJob]

\* Reservations are born PENDING, with or without a car.
Init ==
    /\ status = [r \in Reservation |-> "pending"]
    /\ car = [r \in Reservation |-> NoVehicle]
    /\ reassign = [r \in Reservation |-> FALSE]
    /\ handed = [r \in Reservation |-> NoVehicle]
    /\ returned = [r \in Reservation |-> NoVehicle]
    /\ shape = [v \in Vehicle |-> "available"]
    /\ fleet = [v \in Vehicle |-> TRUE]
    /\ blocks = [b \in Vehicle \X Days |-> "free"]
    /\ record = [m \in Record |-> "scheduled"]
    /\ job = [c \in Clerk |-> Idle]

Start(c, request) == job[c] = Idle /\ job' = [job EXCEPT ![c] = request]
Done(c) == job' = [job EXCEPT ![c] = Idle]

\* The request fails or the browser goes away: nothing was written.
GiveUp(c) ==
    /\ job[c] # Idle
    /\ Done(c)
    /\ UNCHANGED <<reservations, cars, workshop>>

\* The row of a record is locked by whoever is annulling it, and its block with it.
RecordFree(m) == \A c \in Clerk : job[c].kind = "annul" => job[c].rec # m
BlockedNow(v) == blocks[<<v, "today">>] # "free"

-----------------------------------------------------------------------------
(* The state machine *)

\* transition: the row is reloaded behind its lock, so the jump starts from the
\* status it has now.
Move(r, to) ==
    /\ <<status[r], to>> \in Diagram
    /\ status' = [status EXCEPT ![r] = to]

\* The jumps that change nothing else.  liberar_vehiculo finds no RESERVED car
\* to free, and a cancelled rental in progress keeps its car as it is.
Transition(r, to) ==
    /\ to \in {"confirmed", "cancelled", "no_show"}
    /\ Move(r, to)
    /\ UNCHANGED <<car, reassign, handed, returned, cars, workshop, job>>

\* cancel of the booking API: looks at the status, then asks for the jump.
ReadForWebCancel(c, r) ==
    /\ status[r] \in {"pending", "confirmed"}
    /\ Start(c, [kind |-> "web", res |-> r])
    /\ UNCHANGED <<reservations, cars, workshop>>

WebCancel(c) ==
    /\ job[c].kind = "web"
    /\ Move(job[c].res, "cancelled")
    /\ Done(c)
    /\ UNCHANGED <<car, reassign, handed, returned, cars, workshop>>

-----------------------------------------------------------------------------
(* The car of a reservation *)

\* assign_vehicle: neither it nor the screen asks for a status.
Assign(r, v) ==
    /\ fleet[v] /\ shape[v] # "retired"
    /\ blocks[<<v, Slot[r]>>] = "free"
    /\ \A q \in Reservation \ {r} :
          ~(status[q] \in Consuming /\ car[q] = v /\ Slot[q] = Slot[r])
    /\ car' = [car EXCEPT ![r] = v]
    /\ reassign' = [reassign EXCEPT ![r] = FALSE]
    /\ UNCHANGED <<status, handed, returned, cars, workshop, job>>

\* release_vehicle, and apply_change when it drops the car.
Release(r) ==
    /\ car[r] # NoVehicle
    /\ car' = [car EXCEPT ![r] = NoVehicle]
    /\ reassign' = [reassign EXCEPT ![r] = TRUE]
    /\ UNCHANGED <<status, handed, returned, cars, workshop, job>>

\* _soltar_reservas and mark_for_reassignment
Drop(rs) ==
    /\ car' = [r \in Reservation |-> IF r \in rs THEN NoVehicle ELSE car[r]]
    /\ reassign' = [r \in Reservation |-> r \in rs \/ reassign[r]]
    /\ UNCHANGED <<status, handed, returned>>

Booked(v) == {r \in Reservation : status[r] \in {"pending", "confirmed"} /\ car[r] = v}

-----------------------------------------------------------------------------
(* Check-in and check-out: the request reads the reservation without a lock, and
   the act names the car that was on it. *)

ReadForCheckIn(c, r) ==
    /\ car[r] # NoVehicle /\ handed[r] = NoVehicle
    /\ Start(c, [kind |-> "checkin", res |-> r, car |-> car[r]])
    /\ UNCHANGED <<reservations, cars, workshop>>

\* Mutant: the car that is already out is not refused.
HandOut(v) == fleet[v] /\ shape' = [shape EXCEPT ![v] = "rented"]
StartRental(v) ==
    /\ shape[v] # "rented" /\ fleet[v]
    /\ shape' = [shape EXCEPT ![v] = "rented"]

\* Mutant: the reservation is left as it was when a precondition fails, with the
\* act already saved.
CheckInWithoutTransaction(c) ==
    LET r == job[c].res
    IN /\ job[c].kind = "checkin"
       /\ handed[r] = NoVehicle
       /\ handed' = [handed EXCEPT ![r] = job[c].car]
       /\ Done(c)
       /\ UNCHANGED <<status, shape, car, reassign, returned, fleet, workshop>>
\* perform_check_in: one act per reservation; record_pickup and transition go
\* with the reservation as it is now.
CheckIn(c) ==
    LET r == job[c].res
    IN /\ job[c].kind = "checkin"
       /\ handed[r] = NoVehicle
       /\ car[r] # NoVehicle /\ ~reassign[r]
       /\ Move(r, "in_progress")
       /\ StartRental(car[r])
       /\ handed' = [handed EXCEPT ![r] = job[c].car]
       /\ Done(c)
       /\ UNCHANGED <<car, reassign, returned, fleet, workshop>>

\* Mutant: a rental without a car is received too, without any.
ReadForCheckOutOnlyReservation(c, r) ==
    /\ handed[r] # NoVehicle /\ returned[r] = NoVehicle
    /\ Start(c, [kind |-> "checkout", res |-> r, car |-> car[r]])
    /\ UNCHANGED <<reservations, cars, workshop>>
\* Mutant: only the rentals that still have the car of the act are received.
ReadForCheckOutByAct(c, r) ==
    /\ handed[r] # NoVehicle /\ handed[r] = car[r] /\ returned[r] = NoVehicle
    /\ Start(c, [kind |-> "checkout", res |-> r, car |-> handed[r]])
    /\ UNCHANGED <<reservations, cars, workshop>>
\* A rental whose reservation has no car is not received: the car of the act stands in for
\* it, but compute_checkout_charges reads the tank of the reservation's and fails there.
ReadForCheckOut(c, r) ==
    /\ handed[r] # NoVehicle /\ returned[r] = NoVehicle
    /\ car[r] # NoVehicle
    /\ Start(c, [kind |-> "checkout", res |-> r, car |-> car[r]])
    /\ UNCHANGED <<reservations, cars, workshop>>

\* Mutant: the return closes the reservation and forgets the car.
KeepRented(r) == shape
\* finish_rental, for the car the reservation has now.
AfterRental(r) ==
    IF car[r] = NoVehicle THEN shape ELSE [shape EXCEPT ![car[r]] = "cleaning"]

\* perform_check_out.  _devolver_a_flota makes the car of the act available
\* when the configuration says so; a refusal there undoes the whole return.
CheckOut(c) ==
    LET r == job[c].res
        v == job[c].car
    IN /\ job[c].kind = "checkout"
       /\ returned[r] = NoVehicle
       /\ car[r] # NoVehicle => shape[car[r]] = "rented"
       /\ Move(r, "finished")
       /\ returned' = [returned EXCEPT ![r] = v]
       /\ \/ /\ AfterCheckOut = "cleaning"
             /\ shape' = AfterRental(r)
          \/ /\ AfterCheckOut = "available"
             /\ AfterRental(r)[v] # "rented" /\ ~BlockedNow(v)
             /\ shape' = [AfterRental(r) EXCEPT ![v] = "available"]
       /\ Done(c)
       /\ UNCHANGED <<car, reassign, handed, fleet, workshop>>

-----------------------------------------------------------------------------
(* The fleet *)

\* Mutant: the situation of a rented car can be set by hand.
SetAnyStatus(v, s) ==
    /\ s \in Manual
    /\ s = "available" => ~BlockedNow(v)
    /\ shape' = [shape EXCEPT ![v] = s]
    /\ UNCHANGED <<reservations, fleet, workshop, job>>
\* set_vehicle_status
SetStatus(v, s) ==
    /\ s \in Manual
    /\ shape[v] # "rented"
    /\ s = "available" => ~BlockedNow(v)
    /\ shape' = [shape EXCEPT ![v] = s]
    /\ UNCHANGED <<reservations, fleet, workshop, job>>

\* set_vehicle_active(False) and mark_for_reassignment: of today's reservations,
\* those whose pickup time has passed keep the car.
Retire(v, passed) ==
    /\ shape[v] # "rented"
    /\ fleet' = [fleet EXCEPT ![v] = FALSE]
    /\ shape' = [shape EXCEPT ![v] = "retired"]
    /\ \A r \in passed : Slot[r] = "today"
    /\ Drop(Booked(v) \ passed)
    /\ UNCHANGED <<workshop, job>>

\* set_vehicle_active(True), whatever the car is doing.
Reinstate(v) ==
    /\ fleet' = [fleet EXCEPT ![v] = TRUE]
    /\ shape' = [shape EXCEPT ![v] = "available"]
    /\ UNCHANGED <<reservations, workshop, job>>

\* save_block
SaveBlock(v, day) ==
    /\ fleet[v]
    /\ blocks[<<v, day>>] = "free"
    /\ Cardinality({b \in DOMAIN blocks : blocks[b] = "calendar"}) < MaxBlocks
    /\ blocks' = [blocks EXCEPT ![<<v, day>>] = "calendar"]
    /\ UNCHANGED <<reservations, cars, record, job>>

\* delete_block from the calendar, or the end of the block
DeleteBlock(v, day) ==
    /\ blocks[<<v, day>>] # "free"
    /\ RecordFree(blocks[<<v, day>>])
    /\ blocks' = [blocks EXCEPT ![<<v, day>>] = "free"]
    /\ UNCHANGED <<reservations, cars, record, job>>

\* The edit of a block, its dates as the form read them.
MoveBlock(v, day, to) ==
    /\ blocks[<<v, day>>] # "free" /\ blocks[<<v, to>>] = "free"
    /\ blocks' = [blocks EXCEPT ![<<v, to>>] = blocks[<<v, day>>], ![<<v, day>>] = "free"]
    /\ UNCHANGED <<reservations, cars, record, job>>

\* The request that edits a car reads its row, and then saves every column of it,
\* the status included.
ReadForm(c, v) ==
    /\ Start(c, [kind |-> "form", veh |-> v, shape |-> shape[v], fleet |-> fleet[v]])
    /\ UNCHANGED <<reservations, cars, workshop>>

\* save_vehicle
SaveForm(c) ==
    /\ job[c].kind = "form"
    /\ shape' = [shape EXCEPT ![job[c].veh] = job[c].shape]
    /\ fleet' = [fleet EXCEPT ![job[c].veh] = job[c].fleet]
    /\ Done(c)
    /\ UNCHANGED <<reservations, workshop>>

-----------------------------------------------------------------------------
(* The workshop *)

HasBlock(m) == \E b \in DOMAIN blocks : blocks[b] = m
WithoutBlock(m, left) ==
    [b \in Vehicle \X Days |-> IF blocks[b] = m THEN left ELSE blocks[b]]

\* start_workshop of a record that immobilizes, for today or for a later day.
StartWorkshop(m, day) ==
    LET v == VehicleOf[m]
    IN /\ RecordFree(m) /\ record[m] = "scheduled"
       /\ shape[v] # "rented"
       /\ blocks[<<v, day>>] = "free"
       /\ blocks' = [blocks EXCEPT ![<<v, day>>] = m]
       /\ Drop({r \in Booked(v) : Slot[r] = day})
       /\ shape' = IF day = "today" THEN [shape EXCEPT ![v] = "workshop"] ELSE shape
       /\ record' = [record EXCEPT ![m] = "in_workshop"]
       /\ UNCHANGED <<fleet, job>>

\* start_workshop of a record that leaves the car in service
StartService(m) ==
    /\ RecordFree(m) /\ record[m] = "scheduled"
    /\ shape[VehicleOf[m]] # "rented"
    /\ record' = [record EXCEPT ![m] = "in_workshop"]
    /\ UNCHANGED <<reservations, cars, blocks, job>>

\* finish_workshop
FinishWorkshop(m) ==
    LET v == VehicleOf[m]
    IN /\ RecordFree(m) /\ record[m] \in {"scheduled", "in_workshop"}
       /\ blocks' = WithoutBlock(m, "free")
       /\ shape' = IF shape[v] = "workshop" /\ blocks'[<<v, "today">>] = "free"
                   THEN [shape EXCEPT ![v] = "available"] ELSE shape
       /\ record' = [record EXCEPT ![m] = "done"]
       /\ UNCHANGED <<reservations, fleet, job>>

\* cancel_record reads the car without locking it.
ReadForAnnul(c, m) ==
    /\ RecordFree(m) /\ record[m] # "done"
    /\ Start(c, [kind |-> "annul", rec |-> m, shape |-> shape[VehicleOf[m]],
                 blocked |-> HasBlock(m)])
    /\ UNCHANGED <<reservations, cars, workshop>>

Annul(c) ==
    LET m == job[c].rec
        v == VehicleOf[m]
    IN /\ job[c].kind = "annul"
       /\ record' = [record EXCEPT ![m] = "cancelled"]
       /\ blocks' = WithoutBlock(m, "free")
       /\ shape' = IF /\ job[c].blocked /\ job[c].shape = "workshop"
                      /\ blocks'[<<v, "today">>] = "free"
                   THEN [shape EXCEPT ![v] = "available"] ELSE shape
       /\ Done(c)
       /\ UNCHANGED <<reservations, fleet>>

\* The request that edits a record saves every column it read, too.
ReadRecord(c, m) ==
    /\ Start(c, [kind |-> "edit", rec |-> m, status |-> record[m], blocked |-> HasBlock(m)])
    /\ UNCHANGED <<reservations, cars, workshop>>

\* Mutant: the form saves the status and leaves the link to the block as it is.
SaveRecordStatus(c) ==
    LET m == job[c].rec
    IN /\ job[c].kind = "edit"
       /\ RecordFree(m)
       /\ job[c].status \in {"done", "cancelled"} => record[m] = job[c].status
       /\ record' = [record EXCEPT ![m] = job[c].status]
       /\ Done(c)
       /\ UNCHANGED <<reservations, cars, blocks>>
\* save_record: a block that has been deleted meanwhile breaks the foreign key;
\* one that has been created meanwhile is nobody's from now on.
SaveRecord(c) ==
    LET m == job[c].rec
    IN /\ job[c].kind = "edit"
       /\ RecordFree(m)
       /\ job[c].status \in {"done", "cancelled"} => record[m] = job[c].status
       /\ job[c].blocked => HasBlock(m)
       /\ record' = [record EXCEPT ![m] = job[c].status]
       /\ blocks' = IF job[c].blocked THEN blocks ELSE WithoutBlock(m, "calendar")
       /\ Done(c)
       /\ UNCHANGED <<reservations, cars>>

-----------------------------------------------------------------------------

(* The screens: each picks the row the user sees and asks the service, which
   decides. *)

\* The target comes from the diagram as it was drawn; Transition decides again.
TransitionScreen == \E r \in Reservation, to \in Statuses : Transition(r, to)
AssignScreen == \E r \in Reservation, v \in Vehicle : Assign(r, v)
ReleaseScreen == \E r \in Reservation : Release(r)
DeskForms == \E c \in Clerk, r \in Reservation : ReadForCheckIn(c, r) \/ ReadForCheckOut(c, r)

Counter ==
    \/ TransitionScreen \/ AssignScreen \/ ReleaseScreen \/ DeskForms
    \/ \E c \in Clerk : CheckIn(c) \/ CheckOut(c) \/ GiveUp(c)

Web == \E c \in Clerk : WebCancel(c) \/ \E r \in Reservation : ReadForWebCancel(c, r)

\* Only the situations that are set by hand are offered.
StatusScreen == \E v \in Vehicle, s \in Manual : SetStatus(v, s)
ToggleScreen ==
    \/ \E v \in Vehicle, passed \in SUBSET Reservation : Retire(v, passed)
    \/ \E v \in Vehicle : ~fleet[v] /\ Reinstate(v)
\* Only active cars are offered, and the blocks of a car do not overlap.
BlockForm == \E v \in Vehicle, day \in Days : SaveBlock(v, day)
EditBlockForm == \E v \in Vehicle, day, to \in Days : MoveBlock(v, day, to)
DeleteBlockScreen == \E v \in Vehicle, day \in Days : DeleteBlock(v, day)

StartScreen == \E m \in Record : StartService(m) \/ \E day \in Days : StartWorkshop(m, day)
FinishScreen == \E m \in Record : FinishWorkshop(m)
AnnulScreen == \E c \in Clerk, m \in Record : ReadForAnnul(c, m)

FleetScreens ==
    \/ StatusScreen \/ ToggleScreen
    \/ BlockForm \/ EditBlockForm \/ DeleteBlockScreen
    \/ StartScreen \/ FinishScreen

Forms ==
    \/ AnnulScreen
    \/ \E c \in Clerk : SaveForm(c) \/ SaveRecord(c) \/ Annul(c)
    \/ \E c \in Clerk, v \in Vehicle : ReadForm(c, v)
    \/ \E c \in Clerk, m \in Record : ReadRecord(c, m)

\* The button is drawn for the cars out of the fleet; an old list still has it.
StaleClick == \E v \in Vehicle : fleet[v] /\ Reinstate(v)

FreshNext == Counter \/ Web \/ FleetScreens \/ Forms
Next == FreshNext \/ StaleClick
Spec == Init /\ [][Next]_vars

\* The same system when three habits are kept: lists are fresh, a form is saved
\* before anything else is, and nobody changes the car of a rental that is out.
FormsAtOnce ==
    \A c \in Clerk : job[c].kind \in {"form", "edit", "annul"} => job'[c] # job[c]
CarsStay ==
    \A r \in Reservation :
        status[r] = "in_progress" /\ status'[r] = "in_progress" => car'[r] = car[r]
CarefulSpec == Init /\ [][FreshNext /\ FormsAtOnce /\ CarsStay]_vars

\* Requests end, and the counter repeats a return until it goes through.
Returning(r) == \E c \in Clerk : ReadForCheckOut(c, r)
Return(r) == \E c \in Clerk : job[c].kind = "checkout" /\ job[c].res = r /\ CheckOut(c)
Fairness ==
    /\ \A c \in Clerk : WF_vars(FreshNext /\ job[c] # Idle /\ job'[c] = Idle)
    /\ \A r \in Reservation : SF_vars(Returning(r)) /\ SF_vars(Return(r))
FairSpec == CarefulSpec /\ Fairness

-----------------------------------------------------------------------------
(* Properties *)

\* Whatever stale screens and requests do, the papers of a reservation agree
\* with its status: nothing was handed over before the rental, an act of delivery
\* for every rental that is out, an act of return for the finished ones only.
PapersFollowStatus ==
    \A r \in Reservation :
        /\ status[r] \in {"pending", "confirmed", "no_show"} => handed[r] = NoVehicle
        /\ status[r] \in {"in_progress", "finished"} => handed[r] # NoVehicle
        /\ returned[r] # NoVehicle <=> status[r] = "finished"

\* A block that belongs to a record stands for a car that is in the workshop: it
\* is on that car, it is the only one, and the record has been neither finished
\* nor annulled nor set back by a form that was read before.
WorkshopBlocks ==
    \A b \in DOMAIN blocks : blocks[b] \in Record =>
        LET m == blocks[b]
        IN /\ b[1] = VehicleOf[m]
           /\ record[m] = "in_workshop"
           /\ \A d \in DOMAIN blocks : blocks[d] = m => d = b

OutNow == {r \in Reservation : status[r] = "in_progress"}
\* Handed over and not received back: on the road, or cancelled there.
NotBack == {r \in Reservation : handed[r] # NoVehicle /\ returned[r] = NoVehicle}

\* Every rental that is out has a car of its own, and that car shows as rented.
OutIsRented ==
    \A r \in OutNow : /\ car[r] # NoVehicle /\ shape[car[r]] = "rented"
                      /\ \A q \in OutNow \ {r} : car[q] # car[r]

\* A car shows as rented for exactly one delivery that has no return yet: the
\* fleet never loses a car, and never shows two where one was handed over.
RentedOncePerDelivery ==
    Cardinality({v \in Vehicle : shape[v] = "rented"}) = Cardinality(NotBack)

\* A rental that is out ends, if the counter insists on receiving it.
EveryRentalEnds ==
    \A r \in Reservation : status[r] = "in_progress" ~> status[r] # "in_progress"

\* A car shows as rented from the check-in until the check-out of the reservation
\* that has it: no other request of the counter, the fleet or the workshop takes
\* that from it.
RentedUntilReturned ==
    [][\A v \in Vehicle :
          shape[v] = "rented" /\ shape'[v] # "rented" =>
              \E r \in Reservation : /\ returned[r] = NoVehicle /\ returned'[r] # NoVehicle
                                     /\ car[r] = v]_vars

=============================================================================
