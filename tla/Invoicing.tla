------------------------------ MODULE Invoicing ------------------------------
(***************************************************************************)
(* What a reservation owes and the invoices it gets: apps/billing/services *)
(* (issue, rectify, free invoices, numbering and the Verifactu chain) with *)
(* the writers of the amounts an invoice adds up: the price of the rental, *)
(* sold by the rates or agreed by hand, its extras and the charges of its  *)
(* return, each from the screen of the reservation that changes it.        *)
(*                                                                         *)
(* Each writer is a transaction under READ COMMITTED, in the steps between *)
(* which another can commit.  A transaction that fails leaves nothing.     *)
(* Permissions, fiscal data and the text of the lines are left out; what   *)
(* the rates say is any price at any time; there is one extra, of price 1, *)
(* and every charge is of one unit: both are counted.                      *)
(***************************************************************************)
EXTENDS Integers, Sequences, FiniteSets

CONSTANTS
    Clerk, Reservation,
    NoReservation,       \* a null reservation_id: a free invoice
    Ordinary, Rectifying,\* the active series of each kind
    Prices,              \* bound: what a rental may cost without its extras
    MaxQuantity,         \* max_quantity of the extra
    MaxCharges,          \* bound: charges of a reservation
    MaxInvoices,         \* bound: invoices issued
    MaxTicks             \* bound: readings of the clock

Series == Ordinary \cup Rectifying

ASSUME InvoicingAssumption ==
    /\ NoReservation \notin Reservation
    /\ Ordinary \cap Rectifying = {}
    /\ Prices \subseteq Nat \ {0}
    /\ MaxQuantity \in Nat
    /\ MaxCharges \in Nat /\ MaxInvoices \in Nat /\ MaxTicks \in Nat

VARIABLES
    finished,  \* reservation -> it is FINISHED
    price,     \* reservation -> what its price_breakdown adds up to, but the extras
    extras,    \* reservation -> quantity of its ReservationExtra, 0 for no row
    manual,    \* reservation -> is_price_manual
    charges,   \* reservation -> how many ReservationCharge rows it has
    owed,      \* reservation -> charges_total
    counter,   \* series -> last_number
    invoices,  \* the invoices in the order they were written; an id is a place here
    clock,     \* the last time anybody read
    job        \* clerk -> the transaction, or the warning, it has open

sold == <<price, extras, manual>>
amounts == <<finished, sold, charges, owed>>
vars == <<amounts, counter, invoices, clock, job>>
ledger == <<counter, invoices>>

Invoice == [series: Series, number: Nat, at: Nat,
            prev: Nat,        \* the invoice whose huella it carries, 0 for none
            res: Reservation \cup {NoReservation},
            rectifies: Nat,   \* 0 for an ordinary one
            total: Int]

Idle == [kind |-> "idle"]
ChargeJob == [kind: {"charge", "checkout"}, res: Reservation, new: {0, 1},
              sum: Nat \cup {-1}]
ChangeJob == [kind: {"change"}, res: Reservation]
\* A modal with the price that would be lost, and a button that confirms it.
Warning(r) == [kind |-> "warned", res |-> r]
Warned == {Warning(r) : r \in Reservation}
IssueJob == [kind: {"invoice", "free", "rectify"}, series: Series, at: Nat,
             res: Reservation \cup {NoReservation}, rectifies: Nat, total: Int,
             number: Nat]

TypeOK ==
    /\ finished \in [Reservation -> BOOLEAN]
    /\ price \in [Reservation -> Prices]
    /\ extras \in [Reservation -> Nat]
    /\ manual \in [Reservation -> BOOLEAN]
    /\ charges \in [Reservation -> Nat]
    /\ owed \in [Reservation -> Nat]
    /\ counter \in [Series -> Nat]
    /\ invoices \in Seq(Invoice)
    /\ clock \in Nat
    /\ job \in [Clerk -> {Idle} \cup ChargeJob \cup ChangeJob \cup Warned \cup IssueJob]

\* Reservations with their price frozen and the car on the road.
Init ==
    /\ finished = [r \in Reservation |-> FALSE]
    /\ price \in [Reservation -> Prices]
    /\ extras = [r \in Reservation |-> 0]
    /\ manual = [r \in Reservation |-> FALSE]
    /\ charges = [r \in Reservation |-> 0]
    /\ owed = [r \in Reservation |-> 0]
    /\ counter = [s \in Series |-> 0]
    /\ invoices = << >>
    /\ clock = 0
    /\ job = [c \in Clerk |-> Idle]

Ids == 1 .. Len(invoices)
\* in_force: ordinary invoices that no rectification has annulled.
InForce(r) ==
    {i \in Ids : /\ invoices[i].res = r
                 /\ invoices[i].rectifies = 0
                 /\ \A k \in Ids : invoices[k].rectifies # i}
Issuing == {"invoice", "free", "rectify"}

\* issue_invoice holds the reservation from its first step.
RowFree(r) == \A c \in Clerk : job[c].kind = "invoice" => job[c].res # r

Done(c) == job' = [job EXCEPT ![c] = Idle]
Rollback(c) ==
    /\ job[c] # Idle
    /\ Done(c)
    /\ UNCHANGED <<amounts, ledger, clock>>

-----------------------------------------------------------------------------
(* Charges.  Neither service locks the reservation: each looks for an invoice,
   writes its rows, adds up the rows it can see and saves the sum. *)

\* perform_check_out and add_manual_charge, up to ensure_not_invoiced
OpenCharge(c, r, kind, new) ==
    /\ job[c] = Idle
    /\ InForce(r) = {}
    /\ kind = "checkout" => ~finished[r]
    /\ kind = "charge" => new = 1
    /\ charges[r] + new <= MaxCharges
    /\ job' = [job EXCEPT ![c] = [kind |-> kind, res |-> r, new |-> new, sum |-> -1]]
    /\ UNCHANGED <<amounts, ledger, clock>>

\* _refrescar_total_de_cargos: the committed rows and its own
SumCharges(c) ==
    /\ job[c].kind \in {"charge", "checkout"} /\ job[c].sum = -1
    /\ charges[job[c].res] + job[c].new <= MaxCharges
    /\ job' = [job EXCEPT ![c].sum = charges[job[c].res] + job[c].new]
    /\ UNCHANGED <<amounts, ledger, clock>>

\* Mutant: the total is saved before it is added up.
CommitChargeUnsummed(c) ==
    LET r == job[c].res
    IN /\ job[c].kind \in {"charge", "checkout"}
       /\ RowFree(r)
       /\ job[c].kind = "checkout" => ~finished[r]
       /\ charges' = [charges EXCEPT ![r] = @ + job[c].new]
       /\ owed' = [owed EXCEPT ![r] = job[c].sum]
       /\ finished' = [finished EXCEPT ![r] = @ \/ job[c].kind = "checkout"]
       /\ Done(c)
       /\ UNCHANGED <<sold, ledger, clock>>
\* The save of charges_total waits for the row of the reservation; the check-out
\* goes on to FINISHED, which the reservation takes once.
CommitCharge(c) ==
    LET r == job[c].res
    IN /\ job[c].kind \in {"charge", "checkout"} /\ job[c].sum # -1
       /\ RowFree(r)
       /\ job[c].kind = "checkout" => ~finished[r]
       /\ charges' = [charges EXCEPT ![r] = @ + job[c].new]
       /\ owed' = [owed EXCEPT ![r] = job[c].sum]
       /\ finished' = [finished EXCEPT ![r] = @ \/ job[c].kind = "checkout"]
       /\ Done(c)
       /\ UNCHANGED <<sold, ledger, clock>>

-----------------------------------------------------------------------------
(* The price of the rental.  Every screen of the desk takes the reservation, asks
   the rates for a price and writes it with the extras, in one step behind the
   lock; a price agreed by hand is replaced by who was warned of it. *)

Total(r) == price[r] + extras[r] + charges[r]

\* _recalcular and _aplicar_desglose
SellAt(r, p, q, agreed) ==
    /\ RowFree(r)
    /\ InForce(r) = {}
    /\ price' = [price EXCEPT ![r] = p]
    /\ extras' = [extras EXCEPT ![r] = q]
    /\ manual' = [manual EXCEPT ![r] = agreed]
    /\ UNCHANGED <<finished, charges, owed, ledger, clock>>

\* ManualPriceWouldBeLost, and the modal of the recalculation, which says it first
Warn(c, r) ==
    /\ job[c] = Idle
    /\ manual[r]
    /\ job' = [job EXCEPT ![c] = Warning(r)]
    /\ UNCHANGED <<amounts, ledger, clock>>

\* _comprobar_precio_manual: confirm_manual travels with the warning only.
Sell(c, r, p, q) ==
    /\ job[c] \in {Idle, Warning(r)}
    /\ manual[r] => job[c] = Warning(r)
    /\ SellAt(r, p, q, FALSE)
    /\ Done(c)

AddExtra(c, r, p, q) ==
    /\ extras[r] = 0
    /\ q \in 1 .. MaxQuantity
    /\ Sell(c, r, p, q)

\* The line may be gone since its screen was painted: only the price is made again.
SetExtraQuantity(c, r, p, q) ==
    /\ q \in 1 .. MaxQuantity
    /\ Sell(c, r, p, IF extras[r] = 0 THEN 0 ELSE q)

RemoveExtra(c, r, p) == Sell(c, r, p, 0)
RecalculatePrice(c, r, p) == Sell(c, r, p, extras[r])

SetManualPrice(c, r, p) ==
    /\ job[c] = Idle
    /\ SellAt(r, p, extras[r], TRUE)
    /\ UNCHANGED job

\* apply_change looks for the invoice before the lock, and in any status.
OpenChange(c, r) ==
    /\ job[c] = Idle
    /\ InForce(r) = {}
    /\ job' = [job EXCEPT ![c] = [kind |-> "change", res |-> r]]
    /\ UNCHANGED <<amounts, ledger, clock>>

\* Mutant: the price agreed by hand is not looked at again behind the lock.
CommitChangeUnwarned(c, p) ==
    LET r == job[c].res
    IN /\ job[c].kind = "change"
       /\ RowFree(r)
       /\ price' = [price EXCEPT ![r] = p]
       /\ manual' = [manual EXCEPT ![r] = FALSE]
       /\ Done(c)
       /\ UNCHANGED <<finished, extras, charges, owed, ledger, clock>>
\* The screens of the dates and the category show the warning and cannot confirm.
CommitChange(c, p) ==
    LET r == job[c].res
    IN /\ job[c].kind = "change"
       /\ RowFree(r)
       /\ ~manual[r]
       /\ price' = [price EXCEPT ![r] = p]
       /\ Done(c)
       /\ UNCHANGED <<finished, extras, manual, charges, owed, ledger, clock>>

-----------------------------------------------------------------------------
(* Issuing.  _crear_factura reads the clock first, then queues for its series
   and last for the chain. *)

Begin(c, kind, s, r, rectified, total) ==
    /\ job[c] = Idle
    /\ clock < MaxTicks
    /\ clock' = clock + 1
    /\ job' = [job EXCEPT ![c] =
                 [kind |-> kind, series |-> s, at |-> clock', res |-> r,
                  rectifies |-> rectified, total |-> total, number |-> 0]]
    /\ UNCHANGED <<amounts, ledger>>

\* Mutant: the reservation is read without locking it.
BeginInvoiceWithoutLock(c, r, s) ==
    /\ finished[r] /\ InForce(r) = {}
    /\ s \in Ordinary
    /\ owed[r] = charges[r]
    /\ Begin(c, "invoice", s, r, 0, Total(r))
\* Mutant: the lines are not compared with what the reservation owes.
BeginInvoiceUnchecked(c, r, s) ==
    /\ finished[r]
    /\ RowFree(r)
    /\ InForce(r) = {}
    /\ s \in Ordinary
    /\ Begin(c, "invoice", s, r, 0, Total(r))
\* issue_invoice
BeginInvoice(c, r, s) ==
    /\ finished[r]
    /\ RowFree(r)
    /\ InForce(r) = {}
    /\ s \in Ordinary
    /\ owed[r] = charges[r]   \* the lines add up to grand_total
    /\ Begin(c, "invoice", s, r, 0, Total(r))

\* issue_manual_invoice
BeginFree(c, s, total) ==
    /\ s \in Ordinary
    /\ Begin(c, "free", s, NoReservation, 0, total)

\* Mutant: the original is read without locking it.
OriginalNotLocked(i) == TRUE
OriginalFree(i) == \A c \in Clerk : job[c].kind = "rectify" => job[c].rectifies # i

\* rectify_invoice: the same lines in negative
BeginRectify(c, i, s) ==
    /\ i \in Ids
    /\ OriginalFree(i)
    /\ invoices[i].rectifies = 0
    /\ \A k \in Ids : invoices[k].rectifies # i
    /\ s \in Rectifying
    /\ Begin(c, "rectify", s, invoices[i].res, i, -invoices[i].total)

\* Mutant: the counter is read without queueing for the series.
SeriesNotLocked(s) == TRUE
SeriesFree(s) ==
    \A c \in Clerk : job[c].kind \in Issuing /\ job[c].number # 0 => job[c].series # s

\* _siguiente_numero; the counter is saved, for the others to see at the commit.
TakeNumber(c) ==
    /\ job[c].kind \in Issuing /\ job[c].number = 0
    /\ SeriesFree(job[c].series)
    /\ Len(invoices) < MaxInvoices
    /\ job' = [job EXCEPT ![c].number = counter[job[c].series] + 1]
    /\ UNCHANGED <<amounts, ledger, clock>>

\* Mutant: the chain is that of the series.
LastOfSeries(s) ==
    CHOOSE i \in {0} \cup {k \in Ids : invoices[k].series = s} :
        \A k \in Ids : invoices[k].series = s =>
            i # 0 /\ (invoices[k].at < invoices[i].at \/ (invoices[k].at = invoices[i].at /\ k <= i))
IsLast(i) ==
    \A k \in Ids : i # 0 /\ (\/ invoices[k].at < invoices[i].at
                             \/ invoices[k].at = invoices[i].at /\ k <= i)
\* _huella_anterior: the last by fecha_registro and, at the same instant, by id,
\* of any series; 0 when there is none.
Last(s) == CHOOSE i \in {0} \cup Ids : IsLast(i)

\* The chain is locked from here to the end, which is the same step.
Write(c) ==
    LET j == job[c]
    IN /\ j.kind \in Issuing /\ j.number # 0
       /\ invoices' = Append(invoices,
              [series |-> j.series, number |-> j.number, at |-> j.at,
               prev |-> Last(j.series), res |-> j.res,
               rectifies |-> j.rectifies, total |-> j.total])
       /\ counter' = [counter EXCEPT ![j.series] = j.number]
       /\ Done(c)
       /\ UNCHANGED <<amounts, clock>>

-----------------------------------------------------------------------------

Charging ==
    \/ \E c \in Clerk, r \in Reservation, kind \in {"charge", "checkout"}, new \in {0, 1} :
          OpenCharge(c, r, kind, new)
    \/ \E c \in Clerk : SumCharges(c) \/ CommitCharge(c)

AddExtraScreen(c) ==
    \E r \in Reservation, p \in Prices, q \in 1 .. MaxQuantity : AddExtra(c, r, p, q)
ExtraLineScreen(c) ==
    \E r \in Reservation, p \in Prices :
       \/ RemoveExtra(c, r, p)
       \/ \E q \in 1 .. MaxQuantity : SetExtraQuantity(c, r, p, q)
ManualPriceScreen(c) == \E r \in Reservation, p \in Prices : SetManualPrice(c, r, p)
RecalculateScreen(c) ==
    \E r \in Reservation : Warn(c, r) \/ \E p \in Prices : RecalculatePrice(c, r, p)
ChangeScreen(c) ==
    \/ \E r \in Reservation : OpenChange(c, r)
    \/ \E p \in Prices : CommitChange(c, p)

Pricing ==
    \E c \in Clerk : \/ AddExtraScreen(c) \/ ExtraLineScreen(c) \/ ManualPriceScreen(c)
                     \/ RecalculateScreen(c) \/ ChangeScreen(c)

IssueScreen(c) == \E r \in Reservation, s \in Ordinary : BeginInvoice(c, r, s)
FreeInvoiceScreen(c) == \E s \in Ordinary, total \in Prices : BeginFree(c, s, total)
RectifyScreen(c) == \E i \in Ids, s \in Rectifying : BeginRectify(c, i, s)

Invoices ==
    \E c \in Clerk : \/ IssueScreen(c) \/ FreeInvoiceScreen(c) \/ RectifyScreen(c)
                     \/ TakeNumber(c) \/ Write(c)

Next == Charging \/ Pricing \/ Invoices \/ \E c \in Clerk : Rollback(c)
Spec == Init /\ [][Next]_vars

-----------------------------------------------------------------------------
(* Properties *)

\* The numbers of a series are 1, 2, 3 ... in the order the invoices were
\* written: none is missing after a failure and none is used twice.
Gapless ==
    \A s \in Series :
        LET own == {i \in Ids : invoices[i].series = s}
        IN /\ {invoices[i].number : i \in own} = 1 .. counter[s]
           /\ \A i, k \in own : i < k => invoices[i].number < invoices[k].number

\* A reservation has at most one invoice in force, and an invoice at most one
\* rectification, whoever issues and rectifies at the same time.
OneInForce ==
    /\ \A r \in Reservation : \A i, k \in InForce(r) : i = k
    /\ \A i, k \in Ids :
          invoices[i].rectifies # 0 /\ invoices[i].rectifies = invoices[k].rectifies => i = k

\* An invoice is written for exactly what the reservation owes at that moment,
\* its price, its extras and the charges it has, although it was added up steps
\* before.
InvoiceMatchesReservation ==
    [][\A c \in Clerk :
          LET r == job[c].res
          IN job[c].kind = "invoice" /\ invoices' # invoices /\ job'[c] # job[c] =>
               /\ job[c].total = Total(r)
               /\ owed[r] = charges[r]]_vars

\* Every invoice but the first carries the huella of one written before it, so
\* from any invoice the chain leads back to the first.
ChainReachesTheFirst ==
    \A i \in Ids : /\ invoices[i].prev < i
                   /\ invoices[i].prev = 0 => i = 1

\* A price agreed by hand is given up only by a clerk who had it announced and
\* confirmed it, whoever changes dates, extras or prices of the reservation meanwhile.
AgreedPriceIsKept ==
    [][\A r \in Reservation :
          manual[r] /\ ~manual'[r] => \E c \in Clerk : job[c] = Warning(r) /\ job'[c] = Idle]_vars

=============================================================================
