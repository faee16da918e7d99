---------------------------- MODULE Availability ----------------------------
(***************************************************************************)
(* The capacity of a category inside a pool of offices, and the writers    *)
(* that compete for it: apps/availability/services.py, the fleet changes   *)
(* of apps/fleet and the reservation changes that take or give back a car. *)
(*                                                                         *)
(* Every writer is one database transaction under READ COMMITTED.  The     *)
(* transactions that read first and write later (reserve_capacity,         *)
(* update_reservation_period, assign_vehicle) are two actions: Count or    *)
(* Check takes the row locks and reads what is committed, Commit writes    *)
(* and lets the locks go.  Acquiring a lock and reading under it are one   *)
(* step because nobody can see a lock that is held and not yet used.  The  *)
(* transactions whose reads are all behind their locks are one action.     *)
(* A refusal rolls back and leaves nothing, so it is no step.              *)
(***************************************************************************)
EXTENDS Integers, FiniteSets

CONSTANTS
    Clerk,        \* concurrent requests: employees at the counter, the web API
    Reservation,  \* rows of the reservations table, unused ones included
    Vehicle, Category, Office, Pool,
    NoVehicle,    \* a null vehicle_id
    CategoryOf,   \* vehicle -> category; regrading a car is left out
    PoolOf,       \* office -> pool; an office without a pool is its own
    Home,         \* vehicle -> office where it starts
    Horizon,      \* bound: the instants of the calendar are 0 .. Horizon
    Rotation,     \* VEHICLE_ROTATION_MINUTES, in instants
    Requests,     \* bound: the bookings that may be asked for
    FirstRow,     \* any booking: what a row that is not sold yet holds
    FirstBlocks,  \* the blocks on the calendar at the start
    MaxBlocks     \* bound: blocks on the calendar at the same time

VARIABLES
    status,   \* reservation -> "unsold", "booked" (PENDING or CONFIRMED),
              \* "out" (IN_PROGRESS) or "closed" (the three final statuses)
    row,      \* reservation -> its committed row
    office,   \* vehicle -> current_office
    active,   \* vehicle -> is_active and not RETIRED: it counts as fleet
    blocks,   \* the committed VehicleBlock rows
    job       \* clerk -> the transaction it has open

vars == <<status, row, office, active, blocks, job>>

Instant == 0 .. Horizon
Booking == [category: Category, pickup: Office, return: Office,
            from: Instant, to: Instant,
            vehicle: Vehicle \cup {NoVehicle}, overbooked: BOOLEAN]
Block == [vehicle: Vehicle, from: Instant, to: Instant]
Transaction == [kind: {"sale", "change", "assignment"}, res: Reservation,
                want: Booking, seen: SUBSET Reservation]
Idle == [kind |-> "idle"]

ASSUME ConstantsAssumption ==
    /\ CategoryOf \in [Vehicle -> Category]
    /\ PoolOf \in [Office -> Pool]
    /\ Home \in [Vehicle -> Office]
    /\ IsFiniteSet(Reservation) /\ IsFiniteSet(Vehicle)
    /\ NoVehicle \notin Vehicle
    /\ Horizon \in Nat
    /\ Rotation \in Nat
    /\ MaxBlocks \in Nat
    \* it is not a commitment of the book either
    /\ NoVehicle \notin [category: Category, pool: Pool, from: 0 .. (Horizon + Rotation),
                         until: 0 .. (Horizon + Rotation), authorised: BOOLEAN]
    /\ FirstRow \in Booking
    /\ Requests \subseteq {b \in Booking : b.from < b.to}
    /\ FirstBlocks \subseteq Block

Statuses == {"unsold", "booked", "out", "closed"}
Consuming == {"booked", "out"}

TypeOK ==
    /\ status \in [Reservation -> Statuses]
    /\ row \in [Reservation -> Booking]
    /\ office \in [Vehicle -> Office]
    /\ active \in [Vehicle -> BOOLEAN]
    /\ blocks \subseteq Block
    /\ job \in [Clerk -> Transaction \cup {Idle}]

Init ==
    /\ status = [r \in Reservation |-> "unsold"]
    /\ row = [r \in Reservation |-> FirstRow]
    /\ office = Home
    /\ active = [v \in Vehicle |-> TRUE]
    /\ blocks = FirstBlocks
    /\ job = [c \in Clerk |-> Idle]

-----------------------------------------------------------------------------
(* Reading the calendar *)

\* occupancy_period of a booking, [from, to + rotation), against [lo, hi).
Overlaps(b, lo, hi) == b.from < hi /\ lo < b.to + Rotation

BlocksOver(v, lo, hi) == {k \in blocks : k.vehicle = v /\ k.from < hi /\ lo < k.to}

Fleet(cat, pool) ==
    {v \in Vehicle : CategoryOf[v] = cat /\ PoolOf[office[v]] = pool /\ active[v]}

Blocked(cat, pool, lo, hi) == {v \in Fleet(cat, pool) : BlocksOver(v, lo, hi) # {}}

\* A car that comes back to the pool is taken for its period; one that is to be
\* returned elsewhere is taken from its pickup on.
Occupies(b, pool, lo, hi) ==
    IF PoolOf[b.return] = pool THEN Overlaps(b, lo, hi) ELSE b.from < hi

\* Mutant: the period that is asked for forgets the rotation at its end.
RivalsWithoutRotation(b, except) ==
    {r \in Reservation \ except :
        /\ status[r] \in Consuming
        /\ row[r].category = b.category
        /\ PoolOf[row[r].pickup] = PoolOf[b.pickup]
        /\ Occupies(row[r], PoolOf[b.pickup], b.from, b.to)}
\* The reservations that compete with booking b, other than those in `except`.
Rivals(b, except) ==
    LET pool == PoolOf[b.pickup]
    IN {r \in Reservation \ except :
            /\ status[r] \in Consuming
            /\ row[r].category = b.category
            /\ PoolOf[row[r].pickup] = pool
            /\ Occupies(row[r], pool, b.from, b.to + Rotation)}

\* total_fleet - occupied, where a reservation on a blocked car counts once.
Free(b, except) ==
    LET pool == PoolOf[b.pickup]
        blocked == Blocked(b.category, pool, b.from, b.to + Rotation)
    IN Cardinality(Fleet(b.category, pool)) - Cardinality(blocked)
         - Cardinality({r \in Rivals(b, except) : row[r].vehicle \notin blocked})

\* Reservations that already have car v somewhere in the period of b.
Conflicts(v, b, except) ==
    {r \in Reservation \ except :
        /\ status[r] \in Consuming
        /\ row[r].vehicle = v
        /\ Overlaps(row[r], b.from, b.to + Rotation)}

\* _comprobar_vehiculo
VehicleFits(v, b, except) ==
    /\ active[v]
    /\ Conflicts(v, b, except) = {}
    /\ BlocksOver(v, b.from, b.to + Rotation) = {}

-----------------------------------------------------------------------------
(* What the counter is shown, each answer with a query of its own *)

\* get_available_vehicles.  exclude() looks each half of its condition on the blocks up by
\* itself: a car with one block before the period and another after it is not listed either.
AvailableVehicles(b, except) ==
    {v \in Fleet(b.category, PoolOf[b.pickup]) :
        /\ Conflicts(v, b, except) = {}
        /\ ~ /\ \E k \in blocks : k.vehicle = v /\ k.from < b.to + Rotation
             /\ \E k \in blocks : k.vehicle = v /\ b.from < k.to}

\* get_available_categories
AvailableCategories(b) == {cat \in Category : Free([b EXCEPT !.category = cat], {}) > 0}

\* VehicleOption: the first reason why the car is no use for the period, if there is one.
Reason(v, b, except, expired) ==
    IF ~active[v] THEN "out of the fleet"
    ELSE IF Conflicts(v, b, except) # {} THEN "committed"
    ELSE IF BlocksOver(v, b.from, b.to + Rotation) # {} THEN "blocked"
    ELSE IF v \in expired THEN "papers"
    ELSE "none"

\* vehicle_options: every car of the category in the pool; `expired` are the cars whose
\* inspection or insurance has run out.
VehicleOptions(b, except, expired) ==
    [v \in {u \in Vehicle : CategoryOf[u] = b.category /\ PoolOf[office[u]] = PoolOf[b.pickup]}
        |-> Reason(v, b, except, expired)]

\* What the counter asks for: any period that ends after it starts, given as two dates or
\* as a date and some days, returned where it is picked up unless another office is given;
\* never a car, nor a sale above the capacity.
CounterBookings == {b \in Booking : b.from < b.to /\ b.vehicle = NoVehicle /\ ~b.overbooked}

\* The numbers next to the form, while it is filled in.
Preview(b) == [free |-> Free(b, {}), cars |-> Cardinality(AvailableVehicles(b, {}))]

-----------------------------------------------------------------------------
(* Locks: whoever has a transaction open holds the row of its reservation,
   and a transaction that counts holds the CategoryLock of its scope. *)

Counting == {"sale", "change"}
\* Mutant: the lock is keyed by the office instead of by the pool.
ScopeByOffice(b) == <<b.category, b.pickup>>
ScopeOf(b) == <<b.category, PoolOf[b.pickup]>>

\* Mutant: the count does not queue for the CategoryLock.
ScopeNotLocked(b) == TRUE
ScopeFree(b) ==
    \A c \in Clerk : job[c].kind \in Counting => ScopeOf(job[c].want) # ScopeOf(b)
RowFree(r) == \A c \in Clerk : job[c].kind # "idle" => job[c].res # r

Open(c, kind, r, b, seen) ==
    job' = [job EXCEPT ![c] = [kind |-> kind, res |-> r, want |-> b, seen |-> seen]]

-----------------------------------------------------------------------------
(* reserve_capacity *)

CountForSale(c, r, b) ==
    /\ job[c] = Idle
    /\ status[r] = "unsold" /\ RowFree(r)
    /\ ScopeFree(b)
    /\ b.vehicle # NoVehicle => VehicleFits(b.vehicle, b, {})
    /\ Free(b, {}) > 0 \/ b.overbooked
    /\ Open(c, "sale", r, b, Rivals(b, {}))
    /\ UNCHANGED <<status, row, office, active, blocks>>

\* Mutant: no exclusion constraint, only the check before the write.
NoConstraint(r, b) == TRUE
\* The exclusion constraint reservations_vehiculo_sin_solapes.
ConstraintHolds(r, b) ==
    b.vehicle # NoVehicle => Conflicts(b.vehicle, b, {r}) = {}

CommitSale(c) ==
    LET r == job[c].res
        b == job[c].want
    IN /\ job[c].kind = "sale"
       /\ ConstraintHolds(r, b)
       /\ status' = [status EXCEPT ![r] = "booked"]
       /\ row' = [row EXCEPT ![r] = b]
       /\ job' = [job EXCEPT ![c] = Idle]
       /\ UNCHANGED <<office, active, blocks>>

(* apply_change, with the update_reservation_period it ends in: new dates or a
   new category of a live reservation (a closed one is nobody's rival).  The car
   is dropped on request, or when it is not of the new category. *)
CountForChange(c, r, from, to, cat, drop) ==
    LET car == IF drop \/ (row[r].vehicle # NoVehicle /\ CategoryOf[row[r].vehicle] # cat)
               THEN NoVehicle ELSE row[r].vehicle
        b == [row[r] EXCEPT !.from = from, !.to = to, !.category = cat, !.vehicle = car]
    IN /\ job[c] = Idle
       /\ status[r] \in Consuming /\ RowFree(r)
       /\ ScopeFree(b)
       /\ car # NoVehicle => VehicleFits(car, b, {r})
       /\ Free(b, {r}) > 0
       /\ Open(c, "change", r, b, Rivals(b, {r}))
       /\ UNCHANGED <<status, row, office, active, blocks>>

CommitChange(c) ==
    LET r == job[c].res
        b == job[c].want
    IN /\ job[c].kind = "change"
       /\ ConstraintHolds(r, b)
       /\ row' = [row EXCEPT ![r] = b]
       /\ job' = [job EXCEPT ![c] = Idle]
       /\ UNCHANGED <<status, office, active, blocks>>

(* assign_vehicle: the row is locked, the scope and the car are not. *)
CheckAssignment(c, r, v) ==
    /\ job[c] = Idle
    /\ status[r] \in Consuming /\ RowFree(r)
    /\ CategoryOf[v] = row[r].category
    /\ VehicleFits(v, row[r], {r})
    /\ Open(c, "assignment", r, [row[r] EXCEPT !.vehicle = v], {})
    /\ UNCHANGED <<status, row, office, active, blocks>>

CommitAssignment(c) ==
    LET r == job[c].res
        b == job[c].want
    IN /\ job[c].kind = "assignment"
       /\ ConstraintHolds(r, [row[r] EXCEPT !.vehicle = b.vehicle])
       /\ row' = [row EXCEPT ![r].vehicle = b.vehicle]
       /\ job' = [job EXCEPT ![c] = Idle]
       /\ UNCHANGED <<status, office, active, blocks>>

\* Any of them may still fail after its reads: the constraint, a price that
\* cannot be computed, a lost connection.  Nothing of it stays.
Rollback(c) ==
    /\ job[c].kind # "idle"
    /\ job' = [job EXCEPT ![c] = Idle]
    /\ UNCHANGED <<status, row, office, active, blocks>>

-----------------------------------------------------------------------------
(* The rest of a reservation's life, as far as the calendar sees it *)

\* release_vehicle
ReleaseVehicle(r) ==
    /\ status[r] \in Consuming /\ RowFree(r)
    /\ row[r].vehicle # NoVehicle
    /\ row' = [row EXCEPT ![r].vehicle = NoVehicle]
    /\ UNCHANGED <<status, office, active, blocks, job>>

\* The transition to IN_PROGRESS, with a car.
HandOver(r) ==
    /\ status[r] = "booked" /\ RowFree(r)
    /\ row[r].vehicle # NoVehicle
    /\ status' = [status EXCEPT ![r] = "out"]
    /\ UNCHANGED <<row, office, active, blocks, job>>

\* A closed reservation is never read by the calendar again: its row is left
\* out of the model, whatever it kept.
Close(r) ==
    /\ status' = [status EXCEPT ![r] = "closed"]
    /\ row' = [row EXCEPT ![r] = FirstRow]

\* The transitions to CANCELLED and NO_SHOW (liberar_vehiculo), and the
\* cancellation of a rental in progress, which leaves the car where it was.
CallOff(r) ==
    /\ status[r] \in Consuming /\ RowFree(r)
    /\ Close(r)
    /\ UNCHANGED <<office, active, blocks, job>>

\* perform_check_out: FINISHED, and the car is now where it was returned.
HandBack(r, o) ==
    LET v == row[r].vehicle
    IN /\ status[r] = "out" /\ RowFree(r)
       /\ v # NoVehicle
       /\ Close(r)
       /\ office' = [office EXCEPT ![v] = o]
       /\ UNCHANGED <<active, blocks, job>>

-----------------------------------------------------------------------------
(* The fleet *)

\* RENTED.  A rental cancelled on the road leaves it too; not refusing that car
\* here only adds steps.
Rented(v) == \E r \in Reservation : status[r] = "out" /\ row[r].vehicle = v

CanBlock(v, from, to) ==
    /\ from < to
    /\ Cardinality(blocks) < MaxBlocks
    /\ BlocksOver(v, from, to) = {}   \* fleet_block_sin_solapes

\* save_block, from the calendar
SaveBlock(v, from, to) ==
    /\ active[v]
    /\ CanBlock(v, from, to)
    /\ blocks' = blocks \cup {[vehicle |-> v, from |-> from, to |-> to]}
    /\ UNCHANGED <<status, row, office, active, job>>

\* delete_block, and finish_workshop or cancel_record as the calendar sees them.
DeleteBlock(k) ==
    /\ k \in blocks
    /\ blocks' = blocks \ {k}
    /\ UNCHANGED <<status, row, office, active, job>>

Drop(rs) ==
    row' = [r \in Reservation |->
              IF r \in rs THEN [row[r] EXCEPT !.vehicle = NoVehicle] ELSE row[r]]

\* start_workshop of a record that immobilizes.  _soltar_reservas compares
\* against the rental, without the rotation that follows it; a car that was
\* RETIRED is in the WORKSHOP from now on, and fleet again.
StartWorkshop(v, from, to) ==
    LET affected == {r \in Reservation : /\ status[r] = "booked"
                                         /\ row[r].vehicle = v
                                         /\ row[r].from < to /\ from < row[r].to}
    IN /\ ~Rented(v)
       /\ CanBlock(v, from, to)
       /\ \A r \in affected : RowFree(r)
       /\ blocks' = blocks \cup {[vehicle |-> v, from |-> from, to |-> to]}
       /\ Drop(affected)
       /\ active' \in {active, [active EXCEPT ![v] = TRUE]}
       /\ UNCHANGED <<status, office, job>>

\* set_vehicle_active(False) with mark_for_reassignment, at instant `now`.
Retire(v, now) ==
    LET affected == {r \in Reservation : /\ status[r] = "booked"
                                         /\ row[r].vehicle = v
                                         /\ row[r].from >= now}
    IN /\ active[v]
       /\ ~Rented(v)
       /\ \A r \in affected : RowFree(r)
       /\ active' = [active EXCEPT ![v] = FALSE]
       /\ Drop(affected)
       /\ UNCHANGED <<status, office, blocks, job>>

\* set_vehicle_status(RETIRED), or a stale edit form: the car leaves the fleet and
\* the reservations that have it keep it.
LeaveFleet(v) ==
    /\ active[v]
    /\ active' = [active EXCEPT ![v] = FALSE]
    /\ UNCHANGED <<status, row, office, blocks, job>>

\* set_vehicle_active(True), and set_vehicle_status of a RETIRED car
Reinstate(v) ==
    /\ ~active[v]
    /\ active' = [active EXCEPT ![v] = TRUE]
    /\ UNCHANGED <<status, row, office, blocks, job>>

\* save_vehicle with another current_office
Move(v, o) ==
    /\ office[v] # o
    /\ office' = [office EXCEPT ![v] = o]
    /\ UNCHANGED <<status, row, active, blocks, job>>

-----------------------------------------------------------------------------

\* The screen of the counter; a car or an authorised excess are asked of the service.
SaleScreen(c, r) == \E b \in Requests \cap CounterBookings : CountForSale(c, r, b)

\* Everything that takes, moves or gives back a booking.
Sales ==
    \/ \E c \in Clerk, r \in Reservation, b \in Requests :
          \/ b \notin CounterBookings /\ CountForSale(c, r, b)
          \/ \E drop \in BOOLEAN : CountForChange(c, r, b.from, b.to, b.category, drop)
    \/ \E c \in Clerk, r \in Reservation : SaleScreen(c, r)
    \/ \E c \in Clerk, r \in Reservation, v \in Vehicle : CheckAssignment(c, r, v)
    \/ \E c \in Clerk : \/ CommitSale(c) \/ CommitChange(c)
                        \/ CommitAssignment(c) \/ Rollback(c)
    \/ \E r \in Reservation : ReleaseVehicle(r) \/ HandOver(r) \/ CallOff(r)

Returns(o) == \E r \in Reservation : HandBack(r, o)

FleetChanges ==
    \/ \E v \in Vehicle, from, to \in Instant :
          SaveBlock(v, from, to) \/ StartWorkshop(v, from, to)
    \/ \E k \in blocks : DeleteBlock(k)
    \/ \E v \in Vehicle : \/ LeaveFleet(v) \/ Reinstate(v)
                          \/ \E now \in Instant : Retire(v, now)
    \/ \E v \in Vehicle, o \in Office : Move(v, o)

Next == Sales \/ (\E o \in Office : Returns(o)) \/ FleetChanges
Spec == Init /\ [][Next]_vars

\* The same system while the fleet stays as it is: every car comes back to the
\* pool it was in and nobody touches a car or a block.
SalesOnly == Sales \/ \E o \in Office, r \in Reservation :
                        HandBack(r, o) /\ PoolOf[o] = PoolOf[office[row[r].vehicle]]
SalesSpec == Init /\ [][SalesOnly]_vars

-----------------------------------------------------------------------------
(* Properties *)

\* Two transactions never count the same category of the same pool at the same
\* time, and never have the same reservation open: what the CategoryLock row
\* and the row of the reservation are locked for.
LocksExclude ==
    \A c, d \in Clerk :
        c # d /\ job[c].kind # "idle" /\ job[d].kind # "idle" =>
            /\ job[c].res # job[d].res
            /\ job[c].kind \in Counting /\ job[d].kind \in Counting =>
                 ScopeOf(job[c].want) # ScopeOf(job[d].want)

\* What a transaction counted is still everything that competes with it when it
\* commits: no reservation has come into its category, pool and period behind
\* its back, whatever the others sold, moved or reassigned in between.  Without
\* this, two clerks each see the last car free and both sell it.
CountStillHolds ==
    \A c \in Clerk :
        job[c].kind \in Counting => Rivals(job[c].want, {job[c].res}) \subseteq job[c].seen

\* One car is never committed to two live reservations at the same instant,
\* although assign_vehicle checks it without any lock on the car.
NoCarPromisedTwice ==
    \A r \in Reservation :
        status[r] \in Consuming /\ row[r].vehicle # NoVehicle =>
            Conflicts(row[r].vehicle, row[r], {r}) = {}

CalendarInstant == 0 .. (Horizon + Rotation)

\* The live reservations that have a car of the category out of the pool at t.
Committed(cat, pool, t) ==
    {r \in Reservation :
        /\ status[r] \in Consuming
        /\ row[r].category = cat /\ PoolOf[row[r].pickup] = pool
        /\ Overlaps(row[r], t, t + 1)}

Usable(cat, pool, t) == Fleet(cat, pool) \ Blocked(cat, pool, t, t + 1)

\* With a fleet that does not change, a pool is never short of cars by more
\* than the sales somebody authorised above its capacity (`overbooked`).
NeverOversold ==
    \A cat \in Category, pool \in Pool, t \in CalendarInstant :
        LET taken == Committed(cat, pool, t)
        IN Cardinality(taken) <= Cardinality(Usable(cat, pool, t))
                                   + Cardinality({r \in taken : row[r].overbooked})

\* The abstract book this engine keeps: a row while it consumes capacity, with
\* the rotation it pays at the end; the car of a booking is none of its business.
Book == INSTANCE CategoryCalendar WITH
    LastInstant <- Horizon + Rotation,
    NoSale <- NoVehicle,
    sold <- [r \in Reservation |->
               IF status[r] \in Consuming
               THEN [category |-> row[r].category, pool |-> PoolOf[row[r].pickup],
                     from |-> row[r].from, until |-> row[r].to + Rotation,
                     authorised |-> row[r].overbooked]
               ELSE NoVehicle],
    cars <- [k \in Category \X Pool \X CalendarInstant |->
               Cardinality(Usable(k[1], k[2], k[3]))]

\* While the fleet does not change, the transactions behind the CategoryLock
\* implement that book: each sale and each change of dates or category is one
\* step that leaves enough cars at every instant it covers.
KeepsTheBook == Book!Spec

=============================================================================
