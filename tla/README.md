# RentFlow: TLA+ models, model checking and proofs

RentFlow (`apps/`, Django 5.2 on PostgreSQL with Celery and Redis) runs a rent-a-car
company: it sells bookings against a calendar of cars, hands cars over and takes them
back, sends them to the workshop, prices, charges and invoices rentals, and talks to
payment gateways, to the police register and to a booking web. This directory holds
TLA+ models of the parts where several requests, or several steps of one, can go wrong
together, the TLC configurations that check them on small instances, and TLAPS proofs
of what holds on all instances.

- [The system](#the-system): components, state, operations, what is hard about them
- [The modules](#the-modules): what each models and how it maps to the code
- [The runs](#the-runs): what each checks, with its bounds, and what it shows
- [The proofs](#the-proofs)
- [Observations](#observations): behaviours of the code a reader should know of
- [What is not modelled](#what-is-not-modelled) and [the plan](#the-plan)

To run them: `tlc -workers 2 -config RentalRaces.cfg MCRental.tla`, `tlapm RentalProofs.tla`.

## The system

Everything is a Django service called by a view, by the booking API or by a Celery task.
The database is PostgreSQL at READ COMMITTED, `ATOMIC_REQUESTS` is off, services are
`@transaction.atomic`, and a row that matters is locked with `SELECT ... FOR UPDATE`.
So a service is a transaction: it can be interleaved with others between any two of its
statements, sees what has been committed when each statement starts, waits for rows others
have locked, and leaves nothing behind if it fails. What makes the system hard is always
the same question: *was the thing that was decided upon read behind the lock it is
written behind?*

| Component | State | Operations | Hard because |
|---|---|---|---|
| Availability engine (`availability/services.py`) | reservations that consume capacity, the fleet of a pool, blocks, `CategoryLock` rows | `reserve_capacity`, `update_reservation_period`, `assign_vehicle` | the count and the write are apart; one lock per (category, pool); one-way rentals; the fleet changes without taking that lock |
| Reservation life cycle (`reservations/state_machine.py`, `operations/services.py`) | status, car and acts of a reservation | `transition`, `perform_check_in`, `perform_check_out` | forms are opened, and sent later; three tables must agree on which car is out |
| Fleet and workshop (`fleet/services.py`, `fleet/maintenance.py`) | situation and `is_active` of a car, blocks, maintenance records | manual changes, retirement, blocks, `start_workshop`, `finish_workshop`, `cancel_record`, edit forms | part of the situation is derived, several writers, two orders of locking |
| Reservation services (`reservations/services.py`, `invoiced.py`) | dates, price, extras, drivers | `apply_change`, `set_manual_price`, `add_extra`, `add_driver` ... | everything is forbidden once invoiced, and the invoice may be being written; a price agreed by hand must not be lost |
| Planning board (`reservations/planning.py`) | none: a view of the reservations | bars, lanes, rows | half days, windows, rentals that touch |
| Invoices (`billing/services.py`, `verifactu.py`) | series and counters, invoices, the Verifactu chain | `issue_invoice`, `rectify_invoice`, `issue_manual_invoice` | numbers without gaps, a chain across series, immutable results |
| Payments (`billing/services.py`, `billing/online.py`) | ledger of payments, links, provider references | `register_payment`, `refund`, checkout, notifications, deposits | the money moves at a gateway that repeats, delays and reorders what it says |
| Booking API (`booking_api/`), customers (`customers/`) | idempotency keys, customers | create, cancel, payment link; customer forms and the blacklist | two requests with one key; locks taken in the opposite order of the counter; rows two sides write |
| SES reports (`compliance/`) | one report per rental | `prepare`, `send`, retries and a sweep | HTTP inside a transaction, redelivery, data that come late |
| E-mails, contracts (`notifications/`, `contracts/`) | e-mails, contracts and the messages of Celery | queue on commit, send, print, retry, remind | redelivery, retries, a crash between two steps |
| Prices (`pricing/services/`), charges (`operations/charges.py`) | none: pure functions | days, seasons, rates, tiers, discounts, fees | boundaries and rounding |
| Price catalogue (`pricing/services/catalog.py`) | rates with their tiers, seasons | save, copy, activate | forms saved over one another while quotes read |
| Fines (`operations/fines.py`) | one row per fine | register, match, identify, charge, close | the steps come in any order, some without a guard |
| Reports (`reports/services.py`) | none | revenue, occupancy | days and months that touch |

They meet in few places. A sale (API or counter) goes through the availability engine.
Check-in and check-out move the reservation (state machine), the car (fleet), the charges
(invoicing) and queue contracts, e-mails and reports. The workshop and the retirement of a
car take it off reservations the engine counted. An issued invoice closes a reservation for
every other service.

What makes each part correct:

- *availability*: no car is promised twice, no category of a pool is sold beyond its fleet
  and what somebody authorised, what a transaction counted stays true until it commits;
- *life cycle*: papers that agree with the status, a rental that is out
  has a car that shows as rented, every rental ends, every car comes back;
- *workshop*: a block of a record stands for a car that is in the workshop, on that car and once;
- *invoicing*: series without gaps, one invoice in force, invoiced for what is owed and
  unchanged afterwards, one chain;
- *payments*: what a gateway charged is recorded once, and nothing else is; a deposit is settled
  in the books as it is at the bank; every charge is answered;
- *booking API*: one booking per key, whatever is repeated; every request is answered; the web
  does not overwrite what the counter knows of a customer;
- *queues*: everything is sent, or somebody is told; nothing is sent twice without a cause; what
  was declared stays as proof;
- *prices*: every length of rental has one price in every rate, whatever is being edited; ties
  are foreseen; discounts stop at zero; worse returns and later cancellations are not cheaper.

## The modules

| Module | Uses | What it models |
|---|---|---|
| `CategoryCalendar` | | the abstract promise of a sale: a book of commitments that admits only what fits |
| `Availability` | `INSTANCE CategoryCalendar` | the engine: transactions in two steps, locks, the exclusion constraint, fleet changes, what the counter is shown |
| `Planning` | | the planning board, as functions |
| `Rental` | | life cycle, check-in and check-out, fleet screens, workshop, web cancellation |
| `Fines` | | whose rental had the car, and the steps of a fine, as functions |
| `Invoicing` | | charges, extras, price, invoices, numbering, chain |
| `Reports` | | revenue and occupancy, as functions |
| `Payments` | | the ledger of a reservation: counter payments and refunds, payment links, gateways, notifications, deposits |
| `Bookings` | | the abstract promise of the API: one booking per key |
| `BookingApi` | `INSTANCE Bookings` | requests lock by lock, beside a counter that sells, edits and marks customers |
| `Celery` | | the task queue (external): at least once, retries, redelivery |
| `Mail` | `Celery` | e-mails, contracts and reminders as tasks |
| `Declaration` | | the abstract promise of the reports: what is kept as proof was taken |
| `SesReports` | `Celery`, `INSTANCE Declaration` | reports, the POST inside the transaction, the sweep, drivers and edits |
| `Pricing` | | days, seasons, rates, tiers, extras, supplements, discounts, rounding |
| `Charges` | `Pricing` | charges of a return, cancellation fee |
| `Catalog` | `Pricing` | the catalogue being edited while quotes read it |
| `MC*` | each its module | constants of the runs, symmetries, and checks of the pure functions (`ASSUME`) |
| `*Proofs` | each its module and `TLAPS` | proofs |

Operators that `Mutant:` introduces are plausible mistakes of the code, kept next to the
definition they spoil. Replacing the definition by one of them must break a property: that
is how each property is known to depend on the code it is about.

### How a transaction is modelled

A service whose reads all happen behind the locks it takes is one action. A service that
reads first is two or more: the first puts what it read in `job[clerk]` and the later ones
act on it, so that anything the others can commit meanwhile is explored. A lock is a guard
over `job`: nobody takes a step that needs a row another open transaction holds. Refusals
are steps that do not exist (nothing is written), and `Rollback`, `GiveUp` let any open
transaction disappear at any moment: a failure, a lost connection, a closed browser.

### `Availability`

`row` is the committed reservation (category, pickup and return office, period, car,
`allow_overbooking`), `status` its place in the life cycle as far as capacity is concerned,
`office`, `active` and `blocks` the fleet. `CountForSale`/`CommitSale` are `reserve_capacity`
(through `create_quick_reservation`), `CountForChange`/`CommitChange` are `apply_change` with
`update_reservation_period`, `CheckAssignment`/`CommitAssignment` are `assign_vehicle`.
`ScopeFree` is `CategoryLock`, keyed by category and pool; `RowFree` the `FOR UPDATE` on the
reservation; `ConstraintHolds` the exclusion constraint
`reservations_vehiculo_sin_solapes`, which PostgreSQL checks when it writes. `Free`,
`Rivals` and `Occupies` are `check_category_availability`: fleet minus blocked minus
occupied, with the rotation after each booking and the rule that a car that goes to another
pool is gone from its pickup on. The rest of the life (`HandOver`, `CallOff`, `HandBack`)
and the fleet (`StartWorkshop`, `Retire`, `LeaveFleet`, `Move` ...) are there as rivals of
those transactions. `AvailableCategories`, `AvailableVehicles`, `VehicleOptions` and `Reason` are the lists
the counter chooses from (`SaleScreen`, `Preview`), each with its own query.

`CategoryCalendar` is what the engine is for: `sold` and `cars`, and three steps. `KeepsTheBook`
(the refinement mapping `Book` at the end of `Availability`) says that the engine implements it.

### `Rental`

Reservations for `today` or `later`, cars, maintenance records. Requests that decide on a
screen they read earlier are two actions: check-in and check-out (`CheckIn.vehicle` is the
car that was read, the rest is done with the car the reservation has *now*), the web
cancellation, the edit forms (which save every column they read) and the annulment of a
record. `Move` is `transition`, which reloads the row behind a lock, so its guard is on the
status of the moment. `StaleClick` is the activate button of an old list. The operators that end in
`Screen` are the views: what they look at before they call the service.

`Spec` allows everything the screens allow. `CarefulSpec` keeps three habits: lists are
fresh (no `StaleClick`), a form is saved before anything else happens, and nobody changes
the car of a rental that is on the road. They are assumptions about the people at the
counter, not guarantees of the code: `OutIsRented`, `RentedOncePerDelivery` and
`RentedUntilReturned` need each of them (see the [observations](#observations)).

### `Invoicing`

`charges` counts the `ReservationCharge` rows (each of one unit), `owed` is `charges_total`,
`price` the rest of `grand_total`. A charge (`OpenCharge`, `SumCharges`, `CommitCharge`) looks
for an invoice, adds up the rows it sees and saves the sum, all without a lock until the
save. `AddExtra`, `SetExtraQuantity`, `RemoveExtra`, `RecalculatePrice` and `SetManualPrice` look for the
invoice behind the lock, and for an agreed price that nobody has agreed to lose (`Warn`: the screen is
shown again with a warning to confirm); `OpenChange`/`CommitChange` is `apply_change`, which
looks before the lock. An invoice is three
steps: `Begin*` (locks and checks of the service, the reading of the clock),
`TakeNumber` (`_siguiente_numero`, from here on the series is held) and `Write`
(`_huella_anterior`, the row and the commit; the advisory lock of the chain is taken
and let go inside this step, so it needs no variable). `invoices` is in the order of
the commits, which is the order of the ids under that lock.

### `Payments`

`rows` is the table of payments in the order it was written, `link` the `OnlinePayment` rows,
`job` the open requests. A counter payment is two steps: `OpenPayment` or `OpenRefund` looks at
the totals (`Accepts`: not more than the pending amount, not more deposit than is held) and
`WritePayment` writes the row; nothing is locked in between. Links are created, opened
(`StartCheckout`: a new attempt at each click, the link keeps the reference of the last),
cancelled, and expired in bulk. `attempt` is what the gateways know and the code does not:
an attempt ends paid, held, refused or expired (`Outcome`), a hold lapses (`Lapse`), and its
notification is delivered at any time, any number of times, in any order (`ReadNotice` finds
the link without a lock; `ConfirmCharge`, `ConfirmRefusal`, `CloseSession`, `IgnoreNotice` are
the branches behind the lock; `DropNotice` is a Redsys order nobody has any more). Stripe
sends the token of the link, Redsys the order, and a deposit is captured by intent at Stripe
and by the last order at Redsys: `Addressee` and `Operation`.

Capturing and releasing a deposit is `CallGateway` (the bank does it, for good), `CheckReturn`
(`register_payment` compares what goes back with what is held) and `SettleDeposit`; `Rollback`
can undo what the database has at any of them, never what the bank did. The types of payment
are reduced to the four that the totals tell apart; a link whose time has passed and is not
marked yet takes no checkout, as an expired one.

### `BookingApi` and `Bookings`

`request[q].at` is the next thing a request does: its form (`View`), the look for its key
outside any transaction (`Lookup`), and one transaction that takes the customer's row
(`CustomerStep`, `InsertCustomer`), the lock of the group (`Capacity`) and the entry in the
unique index of the keys (`InsertKey`), and keeps them until `Commit`. `RowTaken`,
`GroupTaken` and `KeyBeingInserted` are those locks, read off the requests that hold them. An
`IntegrityError` ends the transaction and looks for the key again (`AfterLosing`, `Again`). The web
sends a key as often as it likes, with the same body or another; answers and connections
are lost (`Lost`). At the counter a form saves what it read (`OpenForm`, `SaveForm`), `Mark` is the
blacklist, and a sale takes the group first and needs the customer at its commit
(`SaleTakesGroup`, `SaleCommits`): PostgreSQL undoes one of two that wait for each other
(`DeadlockVictim`). `Bookings` is the promise, and `OneBookingPerKey` the refinement.

### `Celery`, `Mail`

A message is acknowledged when its task ends and handed out again when its worker dies, so `tasks`
keeps, of each message, where its worker is and what it has read. No task of `Mail` runs in
a transaction: each step (`StartSend`, `Hand` or `Refuse`, `SaveSent` or `SaveFailed`; `StartBuild`,
`PrintContract`, `MailContract`, `EnqueueContractMail`; `StartSweep`, `Remind`, `EnqueueReminder`) is a
commit, `WorkerLost` may fall between any two, and `EnqueueFails` is the process that is
lost between its commit and its `on_commit`. `ClickRetry` and `Requeue` are the retry button, which
writes the row it read. `Beat` adds a sweep whatever became of the former: after some hours without
workers several wait, and run side by side over what each of them lists. `handed`, `excuses`, `lost`,
`bare`, `again` and `overlaps` (the times a sweep listed a reservation that was still on the list of
another) are history, for the properties.

### `SesReports` and `Declaration`

`content[r]` is what the reservation says now (customer, drivers, payments), `report[r]` the row,
`sending[r]` the transaction that has it locked while the POST is out. `OpenPost`, `Answer`
and `CommitSend` are `send`; `SendBreaks` undoes it before or after the Ministry took the
report. `TaskSends` with `AfterSend` is the task and its retries, `StartSweep`, `SweepOne`, `SweepSends`
the sweep (one at a time, which is a bound: several may wait after hours without workers, but each does
the same to a row, behind its lock and after another look), `Revalidate` and `ClerkSends` the screen. `AddDriver`, `RemoveDriver` and `Edit` change
what a report would say. `Missing` is `missing_fields`, over the persons and fields it asks of.
`Declaration` is the promise, `KeepsProof` the refinement.

### `Pricing`, `Charges`, `Catalog`

`Pricing` is the engine as operators over cents and minutes: `RentalDays`, `SeasonOf`, `Applicable`,
`Specificity`, `Winners` (the rates `resolve_rate` cannot tell apart), `Allocation` of the days
to tiers, `RentalLines` ... `DiscountLines`, `Breakdown`; `HalfUp` rounds as `redondear`. `Conflict` is
`find_rate_conflicts` for a pair. `Charges` is `operations/charges.py` and the cancellation fee; fuel is
counted in hundredths of a litre, so that nothing is approximated.

In `Catalog` two editors open forms of rates (`OpenForm`, `NewForm`, `StartCopy`), write them in the
order of the code (`WriteRate` validates what is in the transaction, `CommitRate`,
then `SaveRelations`, outside it) and may stop anywhere (`Break`); the other buttons
are single steps. A quote reads the season, the rate and the tiers in three queries.

### `Planning`, `Reports`, `Fines`

Functions over small records, with no state of their own. Each is instantiated by the MC module of the
part it belongs to, whose run evaluates its checks: `LanesAreFew` (`MCAvailability`);
`MonthsShareTheDays`, `PeriodsAreMonths`, `StartedDaysCount`, `RevenueAddsUp`, `OccupancyAddsUp` (`MCInvoicing`;
a reservation and the stay it makes keep the id of their row, so that two that are alike count twice);
`FoundHadTheCar`, `InvoicedFinesAreOver`, `NotifiedFinesHaveADeadline` (`MCRental`, over every order of up to
four steps of a fine); `KilometresAreCounted`, `CentsAreNearest`, `DaysAreCounted`, `ChargesAddUp`,
`FeesAreOfADay` (`MCCatalog`, for `Charges`). They compare each function with a direct definition of
what it means: days counted one by one, the cent that is nearest, the fullest day of the board. Most are also
theorems for every input: [the proofs](#the-proofs) name them.

## The runs

All of them finish within three minutes on two cores. Deadlock is not checked: a
company may have nothing left to do once every reservation is closed or a bound is reached.

| Run | Checks | What it shows |
|---|---|---|
| `sales` | `NeverOversold`, `NoCarPromisedTwice`, `KeepsTheBook` | two clerks, three reservations, two cars in a pool of two offices, a rotation of one instant, with authorised overbooking: with a fleet that stays as it is the pool is never short, and the engine implements the abstract book |
| `fleet` | `CountStillHolds` | two categories, two pools, one-way returns, and every writer of the fleet: nothing comes behind the back of a transaction that counted |
| `rental_races` | `TypeOK`, `PapersFollowStatus`, `WorkshopBlocks` | two open requests of any kind on one reservation, one car and one record, all screens around them, cars coming back as available |
| `rental_handovers` | `OutIsRented`, `RentedOncePerDelivery`, `RentedUntilReturned` | `CarefulSpec`: two reservations, two cars, reassigned at any moment before they leave: what is out and what shows as rented are the same, until the return |
| `rental_returns` | `EveryRentalEnds` | liveness under `FairSpec` |
| `invoicing` | `TypeOK`, `Gapless`, `OneInForce`, `ChainReachesTheFirst`, `AgreedPriceIsKept`, `InvoiceMatchesReservation` | two clerks, three invoices, charges, extras and prices changing under them: numbers and chain, no agreed price lost without a confirmation, every invoice for what is owed when it is written |
| `payments` | `TypeOK`, `RecordedOnce`, `OnlyRealMoney`, `DepositsAreSettled` | two requests at a time over a rental link (Stripe), a deposit link of two (Redsys), two attempts and one counter payment: money of the gateways enters the books once, and leaves them as the bank did it |
| `payments_answers` | `EveryChargeIsAnswered` | liveness under `FairSpec`, one request at a time |
| `mail` | `TypeOK`, `DuplicatesHaveACause`, `RemindedOnce`, `ContractMailsCarryIt`, `EveryMailEnds` | two e-mails, a contract and the hourly sweep with one fault and one click, or two sweeps that have piled up with one fault: what is sent twice, what is reminded twice, what goes without its PDF and what is never sent have the causes the properties name, and no other |
| `ses` | `TypeOK`, `DeclaredOnce`, `KeepsProof`, `EveryReportArrives` | one rental with three messages, two faults and two edits: task, sweep and clerk on the same report |
| `booking_api` | `TypeOK`, `OneBookingPerKey`, `TheCounterIsHeard`, `EveryRequestIsAnswered` | two requests with the same or different keys, bodies and customers, one lost answer, one visit of the counter |
| `catalog` | `TypeOK`, `EveryDayIsPricedOnce`, `PricedByTheDay`, `DiscountsStopAtZero`, `TiesAreForeseen` | two editors over three rates and two seasons, while three kinds of quote are read query by query |

**Bounds.** Two open transactions are enough for the races here: every lock and every check is
between pairs. Three reservations over two cars are the smallest market where the last car can be
sold twice while another is taken; two instants and a rotation of one make periods that
touch, overlap and overlap only through the rotation. One reservation, one car and one
record put every writer of `Rental` on the same rows, and two of each make a car change hands.
Three invoices give an original, its rectification and a new one, or a chain with a fork;
two charges, a lost update; `MaxTicks` readings of the clock, one per invoice. Two attempts
make a second click on one link or one on each; a deposit of two can be captured in part, and
the counter payment uses up the balance the rental link asks for. Two e-mails let a contract's
be queued while another is being sent again; four messages, a redelivery beside a retry, the sweep and a
click (`MaxOpen` keeps beat and the services from adding to a queue that is full). Two sweeps are enough to
run side by side (`MaxSweeps`); they pile up in the behaviours where nobody asks for a contract or for an
e-mail a second time (`Narrow` in `MCMail`), which no sweep looks at: what sweeps and those share is the queue and
the sending of a row, and both are there in either half. Three messages of one
report are a task, the sweep and what the sweep queued; two edits make a report incomplete and
complete again. Three rates are two that tie and one that is created or copied; two
edits, one over the other; a table of two tiers can be left with a gap, an overlap or a second open end.
`Horizon`, `Requests`, `MaxBlocks`, `Prices`, `MaxQuantity`, `MaxCharges`, `MaxInvoices`, `MaxTicks`,
`Amounts`, `MaxTyped`, `MaxAttempts`, `MaxTasks`, `MaxOpen`, `MaxSweeps`, `MaxEmails`, `MaxContracts`, `MaxClicks`,
`MaxFaults`, `MaxEdits`, `MaxRequests`, `MaxCounter` are the bounds, and appear only in
guards. The proofs hold for all their values (for `MaxTasks`, from what the others let exist). `payments_answers` has one request at a
time, since what it asks is whether a confirmation can be refused for ever, not how two of them mix.

**Fairness.** In `FairSpec` of `Rental`, every open request ends (it is one HTTP request:
weak fairness of "some step closes it"). A counter that tries to receive a rental goes on
trying (strong fairness of the two halves of the check-out, since other requests can get in
between). The code does not force anybody to receive a car; the property is about what
the system *allows* a patient counter to do. In `FairSpec` of `Payments` requests end (weak fairness),
and a gateway that has not been answered notifies again and finds the database up at last
(strong fairness of the notification and of its answer): both gateways repeat what is
not answered with 200. In `Mail` the workers do not all stop while there is a message to work on (weak
fairness of a step of some message that is not a sweep: a task that hangs is killed by its time limit, which is
`WorkerLost`, and `MaxFaults` bounds those; rows, clicks and retries are finite, so every message comes to its
end), and a sweep that wrote the row of an e-mail goes on to its task (weak fairness). Beat is
not asked to keep its timetable. In `SesReports` the messages
and the sweep are under strong fairness, because each waits for a row that others take in
turn, and PostgreSQL queues those who wait. In `BookingApi` requests and sales are under strong fairness for
the same reason, and the deadlock detector under weak fairness.

## The proofs

TLAPS checks them for any number of clerks, reservations, cars, series, rates, instants, links, webs, e-mails
and reports, and for any bounds, from the assumptions named in the modules (`ConstantsAssumption`,
`RentalAssumption`, `InvoicingAssumption`, `PaymentsAssumption`, `BookingApiAssumption`, `CeleryAssumption`,
`MailAssumption`, `SesAssumption`, `CatalogAssumption`, `ChargesAssumption`). Those say that constants have their
types, that null is not a row, that what forms offer is what they accept, that tables that are counted are finite,
and that there is a number for every message there can be (`MaxTasks`, which only names messages, is not less than
what `MaxOpen`, `MaxSweeps` and the other bounds let exist). A proof module has the theorems of one part, and those of the
functions that belong with it: `Planning` is in `AvailabilityProofs`, `Fines` in `RentalProofs`, `Reports` in
`InvoicingProofs`, `Pricing` and `Charges` in `CatalogProofs`.

Every theorem about `Spec` holds under every interleaving that the module has, and so under `FairSpec`.

- `AvailabilityProofs`: `TypeCorrect`, `LocksAreExclusive`, `CountsStayTrue`,
  `CarsArePromisedOnce`. `CountStillHolds` is inductive together with `LocksExclude` and the
  types. The argument is in one lemma per writer: a row that enters
  `Rivals(want, ...)` of an open transaction can only be written by another one that counts
  in the same scope, which its `CategoryLock` excludes, or by itself. `NoCarPromisedTwice`
  needs nothing of the locks: the constraint at each commit and the fact that no other
  step lengthens a period or gives a car.
  - The refinement, for `SalesSpec`: `SalesKeepTheBook`. `SalesInv` adds to the above that no promised car is
    blocked (`CarsAreFree`) and that an open transaction may be trusted at its commit (`Trustworthy`): its row
    is what it read and, unless the sale was authorised, there is room at *every* instant of the period.
    The engine counts once over the whole period, and `TheCountIsEnough` shows that this is
    enough at each instant: a rival that is not counted has a car that is blocked at some other instant. Room
    stays while others commit because they hold another scope (`CategoryLock`), and a commit is then one
    step of the book (`StepIsOfTheBook`).
  - `BookIsNeverShort`: what fits at every instant it covers leaves no instant short, by cardinalities of finite
    sets. With the refinement it gives `SalesNeverOversell`: the property of the engine is proved of
    the book, and the engine has it because it implements the book.
  - `ListedCarsAreTaken` and `UsableCarsAreListed` say what the list of cars the clerk chooses from is worth when the
    assignment is then made in the same state.
  - `BarsAreTheDays`, `WhatIsFoundIsDrawn`, `LanesNeverOverlap`, `LanesAreAsFewAsNeeded`, `DrawnOnce`, for the planning
    board. The lanes are a recursive function over the bars, and nothing is known of such a function before one
    that satisfies its equations is shown to exist (`SomeRun`, `LanesAreOfTheLoop`). The inductions are
    made by hand: of the steps after which the invariant would fail there is a least one (`LeastOf`, from
    the well-foundedness of `<` on the naturals), and placing one more bar cannot have been it. The
    invariant is that the bars of a lane are apart (`Apart`) and, when the bars are sorted, that there is
    a column which one bar of every lane crosses (`Needed`): a lane is only opened when all the
    others end after the new bar starts, and all their last bars started before it. The numbers of bars and
    of lanes are then compared by an injection of the bars of a column into the lanes.
- `RentalProofs`: `RentalTypes`, `PapersAgree`, `BlocksFollowTheWorkshop`. `PapersFollowStatus` is
  inductive with the types: acts are only written in the transaction that moves the status.
  `WorkshopBlocks` needs `EditsInTheWorkshop`: a form that was read with a block was read in the
  workshop, so saving it late cannot part the block from its record.
  Under `CarefulSpec`, `WhatIsOutIsRented`, `OneRentedCarPerDelivery` and `RentedUntilItsReturn`: the invariant
  is the two properties together with `RentedIsActive` and `FormsAreFresh` (what a form or an annulment is about
  to act on is what the car is now). As many cars are rented as rentals are out because a check-in adds one to both
  sides, a check-out takes one from both, and no other step may change either.
- `InvoicingProofs`: `InvoicingTypes`, `NumbersHaveNoGaps`, `OneInvoiceInForce`,
  `ChainIsConnected`, `InvoicesMatch`, `AgreedPricesAreKept`. The invariant `IInv` adds to the properties
  what the open transactions hold (`Locks`: one per reservation, per original and per series) and
  what they read and still holds (`StillHolds`: no invoice in force, the sum that was
  invoiced, the next number). It also carries `HasLast`, that the table has a latest
  invoice: without it the `CHOOSE` in `Last` would say nothing.
- `PaymentsProofs`: `PaymentsAreTyped`, `PaidOnce`, `MoneyIsReal`, `DepositsMatchTheGateway`. A notification that is
  being answered is true (`NoticeIsTrue`: it carries an attempt that ended, made for its link), although it may be an
  old one or a copy; the references that links keep are of attempts of their own (`References`, and
  `Operations` for the one a deposit is captured by). Between the call to the bank and the writing, the row says the hold
  is there and the bank says it is not: `Settling` says that this is the only gap, that its size is what the request is
  about to write, and `OneSettles` that one request has it.
- `BookingApiProofs`: `BookingApiIsTyped`, `BookingsHearTheCounter`, and the refinement, `ApiKeepsItsPromise`. The step
  that books in `Bookings` is the commit: a request that has reached it has its key to itself in the index and the
  key is nobody's (`Winners`), so key and reservation appear together. Every other step is one of the counter's or a
  stutter. `Origins` gives what a repeated key is answered: the request that won, which has ended. The customer
  stays as the counter left it because the row is held from the look to the commit, by one (`Holding`, `OneHolder`).
- `SesReportsProofs`: `ReportsAreTyped`, `EachRentalIsDeclaredOnce`, and the refinement, `TheProofIsKept`. While a
  report is being posted its row is locked, so it is complete, not sent and what the row says (`Posting`). `Account`
  says that the Ministry took it as many times as there are excuses, and once more if the row says so or is about to.
  The queue matters in one way: a task that commits is still there (`Posters`), and there is always a number for
  one more message (`Numbers`).
- `MailProofs`: `MailsAreTyped`, `EveryDuplicateHasACause`, `EachPickupIsRemindedOnce`, `EveryContractIsAttached`. The
  invariant has a part for each thing a message is about. `Queue`: a worker is at a step of its own task, of a row that
  is there. `Reminding`: the reminders of a reservation, and the sweeps that have it still to do, are together one
  at most and one more for each overlap, so what a sweep has on its list has been paid for. `Printing`: the contract that goes with an
  e-mail is ready, or was built again since. `Accounts`: whoever may yet hand a row to the provider has been paid for
  beforehand, with an excuse or with the one time that needs none. `DuplicatesHaveACause` bounds what has happened;
  what makes it inductive is to count those who may still do it.
- `CatalogProofs`, the catalogue: `CatalogTypes`, `DaysArePricedOnce`, `TiesAreForetold`, `DiscountsAreBounded`,
  `PricesAreByTheDay`. The invariant is the types with
  `TablesCover` (every committed table), `WrittenCover` (every table a transaction has
  validated and not committed, while it holds its row), `NewOnce` (an identifier that is being inserted is
  nobody else's) and `Copies` (a copy has the tiers of a table that covered). `TiersPriceEveryDayOnce` (what
  `validate_tiers` accepts prices every length once, by the last tier that starts by then) and `TiesAreConflicts` then
  give the first properties in every state. A price that is read meanwhile in three queries is of a request and of a
  rate that is still there (`Reads`: no step takes a rate away), so it is right when it comes (`Answers`).
  - What a price is, for any table, length, supplements, extras and discounts: `PricesAreFair` (the discounts take no
    more than the rental) and `AllocationsAreByTheDay` (flat or progressive, the parts are the days, each at its
    price). Sums, parts, discounts and charges are folds, and each fold is an induction made by hand. A fold of the
    community modules chooses a function that recurs over a set; `FoldExists` shows there is one and
    `FoldIsPath` that its values on 1..k are a path from the base, one step each. What follows is about paths:
    two running sums that start together stay together (`SumIs`), what is left of the rental and what the
    discounts have taken come to its base after every discount (`TakeKeepsAccount`), and the parts sold so far
    are the days before the next tier (`OneTierMore`). The tiers of a finite table can be put in order
    (`TiersAreListed`, by the size of the table), and in order they are a chain without holes (`TierListIsChain`).
  - Of the return and the cancellation: `WorseIsNotCheaper` (more kilometres, less fuel or a later return never cost
    less), `ReturnsCostTheirCharges` (the lines come to the kilometres, the fuel, the days and what was typed by
    hand, with the tax of each), `CancellingLaterIsNotCheaper`, `FeesAreOfADayAtMost`. Of the days and the cents:
    `DaysAreJustEnough`, `LaterIsNotShorter`, `LateDaysAreThoseThatLack` (the days of a rental are the fewest that hold
    it but for the courtesy, and what is charged for being late is what a longer rental would have had),
    `CentsAreNearestOnBothSides`.
- In `RentalProofs`, the fines: `InvoicedFinesStayOver`, for any number of steps in any order and whatever becomes
  of the reservations meanwhile; `FineIsRight` is the invariant of one step, and `StepByStep` the induction. And
  `WhoHadTheCarIsFound`: somebody is found if somebody had the car (of finitely many, one left last, `LastToLeave`).
- In `InvoicingProofs`, the reports: `RevenueAddsUp`, `MonthsShareTheDays`, `OccupancyAddsUp`, `StartedDaysCount`. A sum
  over a set takes out its members in an order nobody knows. `AddsUp` is a sum that may take out any of them first:
  there is one for every finite set (`SumExists`, a member at a time), and that of the community modules is no
  other (`OneSum`). The days of a period by month, and the rentals by car, are then seen to add up: each of them
  is a measure that loses what a member had when the member is taken out. `OccupancyAddsUp` is about the rows of the
table: each reservation makes a stay of its own, since ids differ (`SumRenamed`), and those that the filter of
`occupancy_by_month` leaves out have no day in its months.

Every safety property that a run checks is a theorem. Only checked by TLC are liveness
(`EveryRentalEnds`, `EveryChargeIsAnswered`, `EveryMailEnds`, `EveryReportArrives`, `EveryRequestIsAnswered`), which
the prover does not reach, and what `ASSUME` compares in the MC modules where no theorem says it. No recursive
operator is used.

What the proofs taught about the models: `SalesOnly` let a car assigned from another pool change pools at its
return, with which the fleet does not stay as it is; a message that finds no free number cannot be queued, so
`MaxTasks` has a floor, and a lower one silently keeps from the queue what the code puts there; nothing said that null is not
one of the records it is compared with; what a request asks for had no type, and a price is only a number if it has
one (`IsRequest`). The folds of `Pricing` and `Charges` have a named operator as their step, and the tiers in
order are chosen by their order and not by a sort, since the prover knows nothing of `SelectSeq` or `SortSeq`; `Reports`
adds up functions, since no lemma can be instantiated with an operator.

## Observations

Behaviours of the code met while modelling, all of them behaviours of the modules as they stand. Where
a document or a comment says otherwise, it is quoted.

**Availability and planning.**
- `docs/decisiones/ADR-001-disponibilidad.md` says that a one-way rental takes its car "desde la recogida y
  sin fecha de fin" and "Preferimos no prometer un coche que no vamos a tener", but
  `check_category_availability` compares a *new* one-way with its own period only: the last car can
  be sold today to a rental that ends in another pool although tomorrow's booking counts on it.
- A car is assigned by a transaction that checked the blocks before the car entered the workshop and
  commits after: the booking keeps a car that is in the workshop (`CheckAssignment`, `StartWorkshop`).
- `get_available_vehicles` excludes blocks with two conditions Django looks up one by one: a
  car with a block before the period and another after it is missing from the preview.
- An office outside the user's in the filter of the planning board invalidates the whole form, and all
  own offices are shown (`Window`).

**Life cycle, fleet and workshop.**
- `state_machine.py:144` says of a rental cancelled on the road that the situation of its car "lo arreglara la
  devolucion", but `perform_check_out` ends in `transition(FINISHED)`, which a cancelled
  reservation refuses: its car shows as rented for ever.
- `set_vehicle_active(active=True)` does not look at the situation of the car: the activate
  button of a list drawn before a car was reinstated and rented makes a rented car
  available, and its check-out is refused from then on (`StaleClick`). `save_vehicle` writes every
  column the request read: an edit that was read before a check-in and is saved after it does the
  same (`SaveForm`). That is why `OutIsRented`, `RentedOncePerDelivery` and `RentedUntilReturned` are checked
  under `CarefulSpec`.
- `save_record` writes back the status it read, and reopens a record finished meanwhile; an edit read
  before the car entered the workshop leaves a block that belongs to no record (`SaveRecord`).
- `set_vehicle_status` can set RETIRED without touching `is_active`, and AVAILABLE on a car that is
  out of the fleet.
- `start_rental` hands over a car that is being cleaned, in the workshop or blocked;
  `UNAVAILABLE_STATUSES` is used by nothing.
- With `VEHICLE_STATUS_AFTER_CHECKOUT=available` a current block on the car makes every return
  fail until the block ends (`CheckOut`).
- `perform_check_out` takes `reservation.vehicle or entrega.vehicle`, but `compute_checkout_charges` reads
  `reservation.vehicle.tank_liters` before anything is committed: a rental whose reservation lost its car while it was
  out cannot be received, and the request fails with an `AttributeError` (`ReadForCheckOut`). A car that was changed
  meanwhile is received as the new one, or refused, as the reservation has it.
- `cancel` of the booking API compares the status on the row the view read; `transition` reloads it
  and accepts a rental in progress, so the web can cancel one that went out in between (`WebCancel`).

**Reservations and invoices.**
- Two charges written at once leave `charges_total` with one of them. `issue_invoice` then refuses
  the reservation, so the invoice is missing rather than wrong: that is the part of it
  `InvoiceMatchesReservation` checks.
- `add_manual_charge` looks for the invoice without a lock: a charge can be added behind it.
  `apply_change`, `release_vehicle`, `add_driver` and `remove_driver` look for it before they lock the
  reservation and not again: a reservation invoiced meanwhile is repriced (`OpenChange`, `CommitChange`).
- The screens of dates and category never send `confirm_manual_override`; a confirmation given
  for one agreed price also gives up a newer one; `set_extra_quantity` on a line removed meanwhile
  reports success.
- `validate_licence` ("vigente durante todo el alquiler") is called when a driver is added and
  never again: extending the rental does not look, and the licence of the customer is not looked at.
- `verifactu.py:6` says "Cada registro de factura lleva la huella del anterior dentro de la suya", but
  `fecha_registro` is read before queueing for the chain: two invoices can carry the same previous
  one. `ChainReachesTheFirst` is what remains true.
- The kind and the activity of a series are looked at on the object of the form, before its lock: an
  invoice can be issued in a series deactivated meanwhile.
- `included_km` of a reservation is written by no screen, nor from the rate's `included_km_per_day`: every
  rental the applications create has unlimited kilometres, and `ExtraKm` charges nothing.
- A car that is returned and taken again on one day counts twice in the occupancy, which is compared
  with the cars active today: the rate may exceed 100%.

**Payments.**
- `billing/services.py:78` says "Un cobro que confirma una pasarela ya se ha cobrado de verdad", but
  `start_checkout` keeps only the last Redsys order: a charge of an earlier one is answered "ok" and
  recorded nowhere (`DropNotice`), and so is a second paid attempt at a settled link (`IgnoreNotice`).
- `refund` compares each refund with the payment and not with what was refunded of it before: a
  payment can be refunded twice (`OpenRefund`). The same check of the deposit held is made without a
  lock, so two returns of one deposit can both pass it.
- A deposit that was held online and has been given back at the counter can be captured at the bank
  and then refused by `register_payment`: the transaction is undone, the capture is not
  (`CheckReturn`, `Rollback`). So is any capture whose transaction fails after the call to the bank.

**Queues.**
- An e-mail that cannot be rendered stays QUEUED after the last retry, though the comment says "`send`
  ya lo dejo como fallido": rendering is outside the `try`. A process lost between a commit and its
  `on_commit` leaves an e-mail QUEUED, or a contract PENDING, for ever.
- A failed attempt saved late overwrites SENT; a contract printed again after it was READY replaces one that
  may have been handed out, or turns it into FAILED (`BuildBreaks`).
- Reminders are queued for reservations cancelled since the list was read. The hourly entry of beat has no
  `expires`, and the time limit of a task bounds how long it runs and not how long it waits: after hours without
  workers the sweeps that piled up run side by side, list the same reservations and remind them once each.
  `RemindedOnce` says that there is no other way to a second reminder.
- A simulated SES report is never swept once the service is enabled, a rejected one is never sent
  again by itself, ACCEPTED is never written, and a crash after the POST sends a report twice. An
  exception at one report of the sweep leaves the rest for the next.
- A driver added without a birth date makes a report that was ready incomplete at the next sweep.

**Booking API and customers.**
- Two new keys with the same new customer at once: one of them fails with a 500, since the
  `IntegrityError` is not about the key.
- A request takes the customer and then the group; a sale takes the group and checks the customer
  at its commit: PostgreSQL aborts one of them with a 500 (`DeadlockVictim`).
- Offices and extras are checked before the key: a retry can be refused although its booking
  exists. A retried key is also given a reservation cancelled since.
- The form of a customer writes every column back: it can undo a blacklist mark or what the API filled in.
  The blacklist is documented as a warning and not a prohibition; `create_quick_reservation` refuses it.
- An extra repeated in one request makes two lines of price and one row, and passes `max_quantity`.

**Prices.**
- The internal Django admin edits tiers without validation. `find_rate_conflicts` skips rates of different
  seasons, of which two can tie although it says "Es exactamente lo que provocaria un AmbiguousRate".
- The season of the return is resolved only to warn, and its ambiguity refuses the quote.
- A discount of 100% over several progressive lines can leave a total of -0.01: it is the taxes
  that are rounded apart; `DiscountsStopAtZero` is about the base.
- The edit of a rate saves every column and can reactivate one deactivated meanwhile; its
  categories are saved outside the transaction; `set_season_active` looks for rates that a form
  may be about to save.
- `CancellationPolicy.STRICT` reads "se cobra el primer dia" and charges nothing seven days ahead. The fee of
  one day can exceed a discounted total.
- The minimum of the kilometres in the check-out form is set after the field was built and is not
  validated; a clock that went back counts as 0.

**Fines.**
- `attach_invoice` and `close_fine` look at no status: the invoice screen open in two tabs charges twice
  (the invoice and its link to the fine are two transactions).
- `rematch` after the driver was identified changes the driver, though `operations/models.py:354` says
  "Datos del conductor tal como se comunican al organismo".
- A rental that is late is found only once it is back, one cancelled on the road never, and a form
  that corrects the plate leaves the former driver until somebody asks to match again (`Edited`).

## What is not modelled

- Offices, users, permissions, settings, audit log: forms over single rows and an append-only log. Dashboard,
  templates, PDF layout, translations, exports, deployment: read-only, no state of the system.
- Inside what is modelled: damages, photos and signatures; regrading a
  car to another category and moving a block or record to another car through their forms; the edition of
  invoice series, extras, supplements and discounts; deactivation and scanned documents of
  customers; the text of invoices and the huella itself (two
  invoices have the same previous one or not). `Invoicing` and `Payments` count money in small units:
  prices, taxes and roundings are in `Pricing` and `Charges`. Draft reservations (`DRAFT`) are created by
  tests only and `VehicleStatus.RESERVED` is never written.
- Lock-order cycles of the workshop (entry: car then reservations; check-in: reservation then car).
  PostgreSQL aborts one of the two, which the models allow at any step.
- Two requests for one fine at once: each works on a locked row, or saves what it read in the same
  request; the functions of `Fines` are composed one after another.
- External code (PostgreSQL, Celery, the gateways, the Ministry, the mail provider) is modelled by what the
  code relies on.

## The plan

The models and runs are those that were planned, and the theorems cover every safety property. What could be added:

1. That the fleet of today bounds the days of the occupancy report: the code counts against the cars that are active
   now, so it only holds while no car was retired after a rental, and a theorem would have to say so.
2. `PerDay` and `Rate`, the averages of the reports, which nothing but a screen uses.
3. The book while the fleet changes. `SalesSpec` keeps the fleet as it is, since a car that leaves its pool or enters the
   workshop leaves bookings that counted on it (see [Observations](#observations)); what is promised then is a
   weaker book, with the changes of the fleet among its steps.
