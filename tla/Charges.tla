-------------------------------- MODULE Charges --------------------------------
(***************************************************************************)
(* What a rental costs besides its price: the charges of a return          *)
(* (apps/operations/charges, which compute_checkout_charges adds up) and   *)
(* the fee of a cancellation (apps/reservations/state_machine).            *)
(*                                                                         *)
(* Fuel is counted in hundredths of a litre and levels in hundredths of a  *)
(* tank, so that what is missing is exact; a charge that is not due is one *)
(* of quantity 0.  Concepts are left out.                                  *)
(***************************************************************************)
EXTENDS Pricing

CONSTANTS
    KmPrice,       \* EXTRA_KM_PRICE
    LitrePrice,    \* FUEL_PRICE_PER_LITER
    DefaultTank    \* DEFAULT_TANK_LITERS

ASSUME ChargesAssumption ==
    /\ KmPrice \in Nat /\ LitrePrice \in Nat /\ DefaultTank \in Nat \ {0}
    /\ TaxRate \in Nat

FuelLevel == {0, 12, 25, 38, 50, 62, 75, 88, 100}
FuelPolicy == {"full_full", "full_empty", "same_level"}

\* What the acts of delivery and return say of a rental, and what was agreed of it.
Return == [included : Nat \cup {None}, out : Nat, back : Nat,
           policy : FuelPolicy, levelOut : FuelLevel, levelBack : FuelLevel,
           tank : Nat,               \* 0 when nobody has written it
           daily : Nat, from : Int, planned : Int, actual : Int]

\* extra_km_charge: without a limit no distance is too long, and a clock that has gone
\* backwards is one that has not moved.
ExtraKm(done) ==
    LET driven == IF done.back > done.out THEN done.back - done.out ELSE 0
    IN IF done.included = None \/ driven <= done.included THEN 0 ELSE driven - done.included

\* fuel_charge
MissingFuel(done) ==
    LET tank == IF done.tank = 0 THEN DefaultTank ELSE done.tank
    IN IF done.policy = "full_empty" \/ done.levelOut <= done.levelBack THEN 0
       ELSE tank * (done.levelOut - done.levelBack)

DaysTooLate(done) == LateDays(done.from, done.planned, done.actual)

\* build_line
Charge(base) == Line(base, TaxRate)
KmCharge(done) == Charge(ExtraKm(done) * KmPrice)
FuelCharge(done) == Charge(HalfUp(MissingFuel(done) * LitrePrice, 100))
LateCharge(done) == Charge(DaysTooLate(done) * done.daily)

Due(quantity, charge) == IF quantity = 0 THEN <<>> ELSE <<charge>>

\* What is typed by hand is a base, and an empty box is no charge.
WriteCharge(lines, amount) == IF amount = 0 THEN lines ELSE Append(lines, Charge(amount))
ManualCharges(typed) == FoldLeft(WriteCharge, <<>>, typed)

CheckoutCharges(done, typed) ==
    Due(ExtraKm(done), KmCharge(done)) \o Due(MissingFuel(done), FuelCharge(done))
    \o Due(DaysTooLate(done), LateCharge(done)) \o ManualCharges(typed)

\* What the three add up to for the client, with its tax.
Paid(charge) == charge.base + charge.tax
ReturnCost(done) == Paid(KmCharge(done)) + Paid(FuelCharge(done)) + Paid(LateCharge(done))

-----------------------------------------------------------------------------
(* Cancelling *)

CancellationPolicy == {"flexible", "moderate", "strict", "non_refundable"}
HoursWithoutFee == [policy \in {"flexible", "moderate", "strict"} |->
    CASE policy = "flexible" -> 24 [] policy = "moderate" -> 72 [] policy = "strict" -> 168]

\* Halves to the even cent: the rounding of quantize when none is named.
HalfEven(n, d) ==
    LET down == n \div d
        rest == 2 * (n % d)
    IN IF rest > d \/ (rest = d /\ down % 2 = 1) THEN down + 1 ELSE down

Booked == [policy : CancellationPolicy, from : Int, base : Nat, days : Nat \ {0}, total : Nat]

OneDay(sold) == HalfEven(sold.base, sold.days)

\* cancellation_fee_for, of what was sold and whether the car has gone.
CancellationFee(sold, gone, at) ==
    IF sold.policy = "non_refundable" THEN sold.total
    ELSE IF ~gone /\ sold.from - at >= 60 * HoursWithoutFee[sold.policy] THEN 0
    ELSE OneDay(sold)

=============================================================================
