----------------------------- MODULE CatalogProofs -----------------------------
(***************************************************************************)
(* First, what the operators of Pricing and Charges compute, for every     *)
(* length of rental, every table of tiers, every price and every return:   *)
(* the days are counted as the contract says, the tiers that               *)
(* validate_tiers accepts give each length one price, a worse return is    *)
(* never cheaper, and neither is cancelling later; the discounts stop at   *)
(* zero, a rental costs what its days cost one by one, and a return costs  *)
(* the sum of its charges.                                                 *)
(*                                                                         *)
(* The sums, the parts of a rental, its discounts and its charges are      *)
(* folds, and a fold chooses a function that recurs as it does. FoldExists *)
(* is that there is one, by induction over the length, and FoldIsPath that *)
(* its values on 1..k are a path of the steps: what each step keeps, the   *)
(* fold keeps. So SumOfTwo adds two columns of lines,                      *)
(* DiscountsTakeWhatThereIs has what is left and what is taken come to the *)
(* rental, and ProgressiveIsByTheDay has the parts come to their days.     *)
(*                                                                         *)
(* Then the catalogue: whatever forms are saved over one another, and for  *)
(* any number of rates, tiers, seasons and editors, it is well typed,      *)
(* every rate prices every length of rental once, no tie of two rates of a *)
(* season is unforeseen, and a price that is read meanwhile is right       *)
(* (Reads and Answers are what that takes).                                *)
(*                                                                         *)
(* The tiers of a rate are right because save_rate looks at them all while *)
(* it has the row; that would not last if two transactions could write the *)
(* tiers of one rate. Those who edit a rate wait for its row, and nobody   *)
(* else knows the number of a rate that is being created or copied:        *)
(* NewOnce carries that, and WrittenCover what save_rate has looked at.    *)
(***************************************************************************)
EXTENDS Catalog, Charges, WellFoundedInduction, FiniteSetTheorems, TLAPS

-----------------------------------------------------------------------------
(* Numbers *)

\* A set of numbers that is not empty has a least one.
LEMMA LeastNumber ==
    ASSUME NEW S \in SUBSET Nat, S # {}
    PROVE  \E n \in S : \A m \in S : n <= m
<1>1. PICK n \in S : \A m \in S : ~ (<<m, n>> \in OpToRel(<, Nat))
    BY NatLessThanWellFounded, WFMin
<1>2. ASSUME NEW m \in S PROVE n <= m
    <2>1. <<m, n>> \notin OpToRel(<, Nat) BY <1>1
    <2>2. m \in Nat /\ n \in Nat OBVIOUS
    <2>3. ~ (m < n) BY <2>1, <2>2 DEF OpToRel
    <2> QED BY <2>2, <2>3
<1> QED BY <1>2

-----------------------------------------------------------------------------
(* Days *)

LEMMA DaysAndMinutes ==
    ASSUME NEW n \in Int
    PROVE  /\ n \div DayMinutes \in Int
           /\ n % DayMinutes \in 0..(DayMinutes - 1)
           /\ n = (n \div DayMinutes) * DayMinutes + (n % DayMinutes)
    BY DEF DayMinutes

\* "Dias enteros, y uno mas si lo que sobra pasa del margen de cortesia" (rental_days): the
\* days that are charged are enough for the rental with its margin, and one less is not,
\* unless it is the day that is always charged.
THEOREM DaysAreJustEnough ==
    ASSUME NEW from \in Int, NEW to \in Int
    PROVE  LET days == RentalDays(from, to)
           IN /\ days \in Nat \ {0}
              /\ to - from <= days * DayMinutes + Courtesy
              /\ days > 1 => to - from > (days - 1) * DayMinutes + Courtesy
<1> DEFINE length == to - from
           full == length \div DayMinutes
           over == length % DayMinutes
<1>1. full \in Int /\ over \in 0..1439 /\ length = full * 1440 + over
    BY DaysAndMinutes DEF DayMinutes
<1>2. Courtesy \in 0..1439
    BY PricingAssumption
<1>3. RentalDays(from, to) = IF full + (IF over > Courtesy THEN 1 ELSE 0) < 1 THEN 1
                             ELSE full + (IF over > Courtesy THEN 1 ELSE 0)
    BY DEF RentalDays
<1> HIDE DEF full, over
<1>4. CASE over > Courtesy
    BY <1>1, <1>2, <1>3, <1>4 DEF DayMinutes
<1>5. CASE ~ (over > Courtesy)
    BY <1>1, <1>2, <1>3, <1>5 DEF DayMinutes
<1> QED BY <1>4, <1>5, <1>1, <1>2

\* A later return is never cheaper in days.
THEOREM LaterIsNotShorter ==
    ASSUME NEW from \in Int, NEW to \in Int, NEW later \in Int, to <= later
    PROVE  RentalDays(from, to) <= RentalDays(from, later)
<1>1. /\ RentalDays(from, to) \in Nat \ {0}
      /\ RentalDays(from, to) > 1 =>
            to - from > (RentalDays(from, to) - 1) * DayMinutes + Courtesy
    BY DaysAreJustEnough
<1>2. /\ RentalDays(from, later) \in Nat \ {0}
      /\ later - from <= RentalDays(from, later) * DayMinutes + Courtesy
    BY DaysAreJustEnough
<1> QED BY <1>1, <1>2, PricingAssumption DEF DayMinutes

\* late_return_charge never takes days back, and charges none while the return fits in the
\* days that were sold and their margin; once it does not, it charges those that make it fit.
THEOREM LateDaysAreThoseThatLack ==
    ASSUME NEW from \in Int, NEW planned \in Int, NEW actual \in Int
    PROVE  LET sold == RentalDays(from, planned)
           IN /\ LateDays(from, planned, actual) \in Nat
              /\ actual - from <= (sold + LateDays(from, planned, actual)) * DayMinutes + Courtesy
              /\ LateDays(from, planned, actual) = 0
                    <=> actual - from <= sold * DayMinutes + Courtesy
<1> DEFINE sold == RentalDays(from, planned)
           used == RentalDays(from, actual)
<1>1. /\ sold \in Nat \ {0}
      /\ planned - from <= sold * DayMinutes + Courtesy
    BY DaysAreJustEnough
<1>2. /\ used \in Nat \ {0}
      /\ actual - from <= used * DayMinutes + Courtesy
      /\ used > 1 => actual - from > (used - 1) * DayMinutes + Courtesy
    BY DaysAreJustEnough
<1>3. planned <= actual => sold <= used
    BY LaterIsNotShorter
<1>4. LateDays(from, planned, actual) =
         IF actual <= planned THEN 0 ELSE IF used - sold <= 0 THEN 0 ELSE used - sold
    BY DEF LateDays
<1> HIDE DEF sold, used
<1> QED BY <1>1, <1>2, <1>3, <1>4, PricingAssumption DEF DayMinutes, sold

-----------------------------------------------------------------------------
(* Tiers *)

IsTiers(ts) == \A i \in DOMAIN ts : ts[i] \in TierShape

\* After a tier that is not the last in the order of the days there is a next one.
LEMMA NextTier ==
    ASSUME NEW ts, IsTiers(ts), NEW i \in DOMAIN ts, NEW j \in DOMAIN ts,
           ts[i].min < ts[j].min
    PROVE  \E k \in DOMAIN ts : Follows(ts, i, k) /\ ts[k].min <= ts[j].min
<1> DEFINE later == {k \in DOMAIN ts : ts[i].min < ts[k].min}
           starts == {ts[k].min : k \in later}
<1>1. \A k \in DOMAIN ts : ts[k].min \in Nat
    BY DEF IsTiers, TierShape
<1>2. ts[j].min \in starts
    OBVIOUS
<1>3. PICK n \in starts : \A m \in starts : n <= m
    <2>1. starts \in SUBSET Nat /\ starts # {}
        BY <1>1, <1>2
    <2> HIDE DEF starts
    <2> QED BY <2>1, LeastNumber
<1>4. PICK k \in later : n = ts[k].min
    BY <1>3
<1>5. ASSUME NEW m \in DOMAIN ts PROVE ts[m].min <= ts[i].min \/ n <= ts[m].min
    <2>1. CASE ts[i].min < ts[m].min BY <1>3, <2>1
    <2>2. CASE ~ (ts[i].min < ts[m].min) BY <1>1, <2>2
    <2> QED BY <2>1, <2>2
<1> QED BY <1>2, <1>3, <1>4, <1>5 DEF Follows

\* Two tiers never cover one day.
LEMMA OneTierAtMost ==
    ASSUME NEW ts, IsTiers(ts), TiersCover(ts), NEW d \in Nat \ {0},
           NEW i \in DOMAIN ts, NEW j \in DOMAIN ts,
           Covers(ts[i], d), Covers(ts[j], d)
    PROVE  i = j
<1>1. \A k \in DOMAIN ts : ts[k].min \in Nat /\ ts[k].max \in Nat
    BY DEF IsTiers, TierShape
<1>2. ASSUME NEW a \in DOMAIN ts, NEW b \in DOMAIN ts, Covers(ts[a], d), Covers(ts[b], d),
             ts[a].min < ts[b].min
      PROVE  FALSE
    <2>1. PICK k \in DOMAIN ts : Follows(ts, a, k) /\ ts[k].min <= ts[b].min
        BY <1>2, NextTier
    <2>2. ts[a].max # Open /\ ts[k].min = ts[a].max + 1
        BY <2>1 DEF TiersCover
    <2>3. d <= ts[a].max /\ ts[b].min <= d
        BY <1>2, <2>2 DEF Covers
    <2> QED BY <1>1, <2>1, <2>2, <2>3
<1>3. ts[i].min = ts[j].min
    BY <1>1, <1>2
<1> QED BY <1>3 DEF TiersCover

\* Every day has a tier: the last of those that start by then.
LEMMA OneTierAtLeast ==
    ASSUME NEW ts, IsTiers(ts), TiersCover(ts), NEW d \in Nat \ {0}
    PROVE  \E i \in DOMAIN ts : Covers(ts[i], d)
<1> DEFINE begun == {k \in DOMAIN ts : ts[k].min <= d}
           since == {d - ts[k].min : k \in begun}
<1>1. \A k \in DOMAIN ts : ts[k].min \in Nat /\ ts[k].max \in Nat
    BY DEF IsTiers, TierShape
<1>2. PICK n \in since : \A m \in since : n <= m
    <2>1. PICK k \in DOMAIN ts : ts[k].min = 1
        BY DEF TiersCover
    <2>2. since \in SUBSET Nat
        BY <1>1
    <2>3. k \in begun
        BY <2>1
    <2>4. since # {}
        BY <2>3
    <2> HIDE DEF since
    <2> QED BY <2>2, <2>4, LeastNumber
<1>3. PICK i \in begun : n = d - ts[i].min
    BY <1>2
<1>4. ASSUME NEW k \in DOMAIN ts, ts[i].min < ts[k].min PROVE d < ts[k].min
    <2> SUFFICES ASSUME ts[k].min <= d PROVE FALSE
        BY <1>1
    <2>1. n <= d - ts[k].min
        BY <1>2
    <2> QED BY <1>1, <1>3, <1>4, <2>1
<1>5. CASE \E j \in DOMAIN ts : ts[i].min < ts[j].min
    <2>1. PICK k \in DOMAIN ts : Follows(ts, i, k)
        BY <1>3, <1>5, NextTier
    <2>2. ts[k].min = ts[i].max + 1
        BY <2>1, <1>3 DEF TiersCover
    <2>3. d < ts[k].min
        BY <1>4, <2>1 DEF Follows
    <2> QED BY <1>1, <1>3, <2>2, <2>3 DEF Covers
<1>6. CASE \A j \in DOMAIN ts : ts[j].min <= ts[i].min
    <2>1. ts[i].max = Open
        BY <1>3, <1>6 DEF TiersCover
    <2> QED BY <1>3, <2>1 DEF Covers
<1> QED BY <1>1, <1>3, <1>5, <1>6

\* "Los tramos de una tarifa tienen que cubrir la recta de dias entera y sin pisarse": the
\* tables that validate_tiers accepts have one tier for every length of rental, and no other.
THEOREM TiersPriceEveryDayOnce ==
    ASSUME NEW ts, IsTiers(ts), TiersCover(ts), NEW d \in Nat \ {0}
    PROVE  \E i \in DOMAIN ts : Covers(ts[i], d) /\ \A j \in DOMAIN ts : Covers(ts[j], d) => j = i
BY OneTierAtLeast, OneTierAtMost

-----------------------------------------------------------------------------
(* Rates *)

\* What resolve_rate compares and find_rate_conflicts looks at.
IsRate(r) ==
    /\ r.active \in BOOLEAN
    /\ r.priority \in Int /\ r.least \in Nat /\ r.most \in Nat \cup {None}
    /\ r.from \in Int \cup {None} /\ r.to \in Int \cup {None}

LEMMA SpecificityIsANumber ==
    ASSUME NEW r
    PROVE  Specificity(r) \in Nat
<1>1. /\ (IF r.season # None THEN 4 ELSE 0) \in Nat
      /\ (IF r.offices # {} THEN 2 ELSE 0) \in Nat
      /\ (IF r.most # None \/ r.least > 1 THEN 1 ELSE 0) \in Nat
      /\ (IF OneOf(r.categories) THEN 1 ELSE 0) \in Nat
    OBVIOUS
<1> QED BY <1>1 DEF Specificity

\* Two rates that win together are a conflict that the screen of conflicts shows, if both are
\* of one season or of none.
THEOREM TiesAreConflicts ==
    ASSUME NEW rates, NEW q, NEW now, q.from \in Int, q.to \in Int,
           \A r \in DOMAIN rates : IsRate(rates[r]),
           NEW a \in Winners(rates, q, now), NEW b \in Winners(rates, q, now),
           rates[a].season = rates[b].season
    PROVE  Conflict(rates[a], rates[b])
<1> DEFINE days == RentalDays(q.from, q.to)
           day == Date(q.from)
<1>1. days \in Nat /\ day \in Int
    BY DaysAreJustEnough, DaysAndMinutes DEF Date
<1>2. /\ a \in Applicable(rates, q, now) /\ b \in Applicable(rates, q, now)
      /\ NoBetter(rates[b], rates[a]) /\ NoBetter(rates[a], rates[b])
    BY DEF Winners
<1>3. /\ a \in DOMAIN rates /\ b \in DOMAIN rates
      /\ rates[a].active /\ rates[b].active
      /\ q.category \in rates[a].categories /\ q.category \in rates[b].categories
      /\ rates[a].channel = rates[b].channel
      /\ rates[a].offices = {} \/ q.office \in rates[a].offices
      /\ rates[b].offices = {} \/ q.office \in rates[b].offices
      /\ CoversDate(rates[a], day) /\ CoversDate(rates[b], day)
      /\ CoversDays(rates[a], days) /\ CoversDays(rates[b], days)
    BY <1>2 DEF Applicable
<1>4. IsRate(rates[a]) /\ IsRate(rates[b])
    BY <1>3
<1> HIDE DEF days, day
<1>5. rates[a].priority = rates[b].priority /\ Specificity(rates[a]) = Specificity(rates[b])
    BY <1>2, <1>4, SpecificityIsANumber DEF NoBetter, IsRate
<1>6. RangesMeet(rates[a].from, rates[a].to, rates[b].from, rates[b].to)
    BY <1>1, <1>3, <1>4 DEF RangesMeet, CoversDate, IsRate
<1>7. CommonDays(rates[a], rates[b])
    BY <1>1, <1>3, <1>4 DEF CommonDays, CoversDays, IsRate
<1>8. ShareOffices(rates[a], rates[b]) /\ rates[a].categories \cap rates[b].categories # {}
    BY <1>3 DEF ShareOffices
<1> QED BY <1>3, <1>5, <1>6, <1>7, <1>8 DEF Conflict

-----------------------------------------------------------------------------
(* Charges *)

LEMMA ProductsGrow ==
    ASSUME NEW a \in Nat, NEW b \in Nat, a <= b, NEW c \in Nat
    PROVE  /\ a * c \in Nat /\ b * c \in Nat
           /\ a * c <= b * c
OBVIOUS

LEMMA CentsGrow ==
    ASSUME NEW n \in Nat, NEW m \in Nat, n <= m
    PROVE  /\ HalfUp(n, 100) \in Nat /\ HalfUp(m, 100) \in Nat
           /\ HalfUp(n, 100) <= HalfUp(m, 100)
<1>1. HalfUp(n, 100) = (2 * n + 100) \div 200 /\ HalfUp(m, 100) = (2 * m + 100) \div 200
    BY DEF HalfUp
<1>2. QED BY <1>1

\* A charge of a larger base is not cheaper, with its tax.
LEMMA ChargesGrow ==
    ASSUME NEW n \in Nat, NEW m \in Nat, n <= m
    PROVE  /\ Paid(Charge(n)) \in Nat /\ Paid(Charge(m)) \in Nat
           /\ Paid(Charge(n)) <= Paid(Charge(m))
<1>1. TaxRate \in Nat BY ChargesAssumption
<1>2. n * TaxRate \in Nat /\ m * TaxRate \in Nat /\ n * TaxRate <= m * TaxRate
    BY <1>1, ProductsGrow
<1>3. /\ Percent(n, TaxRate) \in Nat /\ Percent(m, TaxRate) \in Nat
      /\ Percent(n, TaxRate) <= Percent(m, TaxRate)
    BY <1>2, CentsGrow DEF Percent
<1>4. /\ Paid(Charge(n)) = n + Percent(n, TaxRate)
      /\ Paid(Charge(m)) = m + Percent(m, TaxRate)
    BY DEF Paid, Charge, Line
<1>5. QED BY <1>3, <1>4

\* The same rental, brought back with no less distance, no more fuel and no earlier.
Worse(a, b) ==
    /\ b = [a EXCEPT !.back = b.back, !.levelBack = b.levelBack, !.actual = b.actual]
    /\ a.back <= b.back /\ b.levelBack <= a.levelBack /\ a.actual <= b.actual

LEMMA LevelsAreNumbers == FuelLevel \subseteq Nat
BY DEF FuelLevel

LEMMA DistanceGrows ==
    ASSUME NEW a \in Return, NEW b \in Return, Worse(a, b)
    PROVE  ExtraKm(a) \in Nat /\ ExtraKm(b) \in Nat /\ ExtraKm(a) <= ExtraKm(b)
<1>1. b.included = a.included /\ b.out = a.out BY DEF Worse, Return
<1>2. /\ a.out \in Nat /\ a.back \in Nat /\ b.back \in Nat /\ a.back <= b.back
      /\ a.included \in Nat \cup {None}
    BY DEF Worse, Return
<1>3. CASE a.included = None BY <1>1, <1>3 DEF ExtraKm
<1>4. CASE a.included # None
    <2>1. a.included \in Nat BY <1>2, <1>4
    <2>2. QED BY <1>1, <1>2, <1>4, <2>1 DEF ExtraKm
<1>5. QED BY <1>3, <1>4

LEMMA FuelGrows ==
    ASSUME NEW a \in Return, NEW b \in Return, Worse(a, b)
    PROVE  MissingFuel(a) \in Nat /\ MissingFuel(b) \in Nat /\ MissingFuel(a) <= MissingFuel(b)
<1> DEFINE tank == IF a.tank = 0 THEN DefaultTank ELSE a.tank
           less == IF a.levelOut <= a.levelBack THEN 0 ELSE a.levelOut - a.levelBack
           more == IF b.levelOut <= b.levelBack THEN 0 ELSE b.levelOut - b.levelBack
<1>1. b.policy = a.policy /\ b.tank = a.tank /\ b.levelOut = a.levelOut BY DEF Worse, Return
<1>2. /\ a.levelOut \in Nat /\ a.levelBack \in Nat /\ b.levelBack \in Nat
      /\ b.levelBack <= a.levelBack /\ a.tank \in Nat
    BY LevelsAreNumbers DEF Worse, Return
<1>3. tank \in Nat BY <1>2, ChargesAssumption
<1>4. less \in Nat /\ more \in Nat /\ less <= more BY <1>1, <1>2
<1>5. tank * less \in Nat /\ tank * more \in Nat /\ tank * less <= tank * more
    <2>1. less * tank <= more * tank /\ less * tank \in Nat /\ more * tank \in Nat
        BY <1>3, <1>4, ProductsGrow
    <2>2. tank * less = less * tank /\ tank * more = more * tank BY <1>3, <1>4
    <2>3. QED BY <2>1, <2>2
<1>6. CASE a.policy = "full_empty" BY <1>1, <1>6 DEF MissingFuel
<1>7. CASE a.policy # "full_empty"
    <2>1. MissingFuel(a) = tank * less BY <1>3, <1>7, <1>2 DEF MissingFuel
    <2>2. MissingFuel(b) = tank * more BY <1>1, <1>2, <1>3, <1>7 DEF MissingFuel
    <2>3. QED BY <1>5, <2>1, <2>2
<1>8. QED BY <1>6, <1>7

LEMMA LatenessGrows ==
    ASSUME NEW a \in Return, NEW b \in Return, Worse(a, b)
    PROVE  /\ DaysTooLate(a) \in Nat /\ DaysTooLate(b) \in Nat
           /\ DaysTooLate(a) <= DaysTooLate(b)
<1>1. b.from = a.from /\ b.planned = a.planned BY DEF Worse, Return
<1>2. /\ a.from \in Int /\ a.planned \in Int /\ a.actual \in Int /\ b.actual \in Int
      /\ a.actual <= b.actual
    BY DEF Worse, Return
<1>3. /\ RentalDays(a.from, a.planned) \in Nat
      /\ RentalDays(a.from, a.actual) \in Nat /\ RentalDays(a.from, b.actual) \in Nat
    BY <1>2, DaysAreJustEnough
<1>4. RentalDays(a.from, a.actual) <= RentalDays(a.from, b.actual)
    BY <1>2, LaterIsNotShorter
<1>5. QED BY <1>1, <1>2, <1>3, <1>4 DEF DaysTooLate, LateDays

\* A client who brings the car back with more kilometres, less fuel or later pays no less,
\* whatever the cents are rounded to (compute_checkout_charges).
THEOREM WorseIsNotCheaper ==
    ASSUME NEW a \in Return, NEW b \in Return, Worse(a, b)
    PROVE  ReturnCost(a) <= ReturnCost(b)
<1>1. b.daily = a.daily /\ a.daily \in Nat BY DEF Worse, Return
<1>2. /\ Paid(KmCharge(a)) \in Nat /\ Paid(KmCharge(b)) \in Nat
      /\ Paid(KmCharge(a)) <= Paid(KmCharge(b))
    <2>1. KmPrice \in Nat BY ChargesAssumption
    <2>2. /\ ExtraKm(a) * KmPrice \in Nat /\ ExtraKm(b) * KmPrice \in Nat
          /\ ExtraKm(a) * KmPrice <= ExtraKm(b) * KmPrice
        BY <2>1, DistanceGrows, ProductsGrow
    <2>3. QED BY <2>2, ChargesGrow DEF KmCharge
<1>3. /\ Paid(FuelCharge(a)) \in Nat /\ Paid(FuelCharge(b)) \in Nat
      /\ Paid(FuelCharge(a)) <= Paid(FuelCharge(b))
    <2>1. LitrePrice \in Nat BY ChargesAssumption
    <2>2. /\ MissingFuel(a) * LitrePrice \in Nat /\ MissingFuel(b) * LitrePrice \in Nat
          /\ MissingFuel(a) * LitrePrice <= MissingFuel(b) * LitrePrice
        BY <2>1, FuelGrows, ProductsGrow
    <2>3. QED BY <2>2, CentsGrow, ChargesGrow DEF FuelCharge
<1>4. /\ Paid(LateCharge(a)) \in Nat /\ Paid(LateCharge(b)) \in Nat
      /\ Paid(LateCharge(a)) <= Paid(LateCharge(b))
    <2>1. /\ DaysTooLate(a) * a.daily \in Nat /\ DaysTooLate(b) * a.daily \in Nat
          /\ DaysTooLate(a) * a.daily <= DaysTooLate(b) * a.daily
        BY <1>1, LatenessGrows, ProductsGrow
    <2>2. QED BY <1>1, <2>1, ChargesGrow DEF LateCharge
<1>5. QED BY <1>2, <1>3, <1>4 DEF ReturnCost

\* redondear takes the nearest cent, and what it takes from one side it takes from the other:
\* a line that is taken back is worth what it was charged.
THEOREM CentsAreNearestOnBothSides ==
    ASSUME NEW hundredths \in Int
    PROVE  /\ 100 * HalfUp(hundredths, 100) - hundredths \in (-50)..50
           /\ HalfUp(hundredths, 100) + HalfUp(0 - hundredths, 100) = 0
<1>1. CASE hundredths > 0
    <2>1. HalfUp(hundredths, 100) = (2 * hundredths + 100) \div 200
        BY <1>1 DEF HalfUp
    <2>2. HalfUp(0 - hundredths, 100) = -((100 - 2 * (0 - hundredths)) \div 200)
        BY <1>1 DEF HalfUp
    <2>3. 100 - 2 * (0 - hundredths) = 2 * hundredths + 100
        OBVIOUS
    <2>4. 100 * ((2 * hundredths + 100) \div 200) - hundredths \in (-50)..50
        BY <1>1
    <2> QED BY <2>1, <2>2, <2>3, <2>4
<1>2. CASE hundredths = 0
    <2>1. HalfUp(0, 100) = 0
        BY DEF HalfUp
    <2>2. hundredths = 0 /\ 0 - hundredths = 0
        BY <1>2
    <2>3. 100 * HalfUp(hundredths, 100) - hundredths = 0
        BY <2>1, <2>2
    <2>4. HalfUp(hundredths, 100) + HalfUp(0 - hundredths, 100) = 0
        BY <2>1, <2>2
    <2> QED BY <2>3, <2>4
<1>3. CASE hundredths < 0
    <2>1. HalfUp(hundredths, 100) = -((100 - 2 * hundredths) \div 200)
        BY <1>3 DEF HalfUp
    <2>2. HalfUp(0 - hundredths, 100) = (2 * (0 - hundredths) + 100) \div 200
        BY <1>3 DEF HalfUp
    <2>3. 2 * (0 - hundredths) + 100 = 100 - 2 * hundredths
        OBVIOUS
    <2>4. 100 * ((100 - 2 * hundredths) \div 200) + hundredths \in (-50)..50
        BY <1>3
    <2> QED BY <2>1, <2>2, <2>3, <2>4
<1> QED BY <1>1, <1>2, <1>3

-----------------------------------------------------------------------------
(* Cancelling *)

LEMMA OneDayIsANumber ==
    ASSUME NEW sold \in Booked
    PROVE  OneDay(sold) \in Nat
<1>1. sold.base \in Nat /\ sold.days \in Nat \ {0} BY DEF Booked
<1>2. sold.base \div sold.days \in Nat BY <1>1
<1>3. QED BY <1>1, <1>2 DEF OneDay, HalfEven

\* Who cancels later pays no less: a fee that is due stays due, and the car going out never
\* lowers it (cancellation_fee_for).
THEOREM CancellingLaterIsNotCheaper ==
    ASSUME NEW sold \in Booked, NEW at \in Int, NEW later \in Int, at <= later,
           NEW gone \in BOOLEAN, NEW goneThen \in BOOLEAN, gone => goneThen
    PROVE  CancellationFee(sold, gone, at) <= CancellationFee(sold, goneThen, later)
<1>1. OneDay(sold) \in Nat BY OneDayIsANumber
<1>2. sold.total \in Nat /\ sold.from \in Int /\ sold.policy \in CancellationPolicy BY DEF Booked
<1>3. CASE sold.policy = "non_refundable" BY <1>2, <1>3 DEF CancellationFee
<1>4. CASE sold.policy # "non_refundable"
    <2>1. sold.policy \in {"flexible", "moderate", "strict"}
        BY <1>2, <1>4 DEF CancellationPolicy
    <2>2. HoursWithoutFee[sold.policy] \in Int BY <2>1 DEF HoursWithoutFee
    <2>3. CASE ~gone /\ sold.from - at >= 60 * HoursWithoutFee[sold.policy]
        <3>1. CancellationFee(sold, gone, at) = 0 BY <1>4, <2>3 DEF CancellationFee
        <3>2. CancellationFee(sold, goneThen, later) \in {0, OneDay(sold)}
            BY <1>4 DEF CancellationFee
        <3>3. QED BY <1>1, <3>1, <3>2
    <2>4. CASE ~(~gone /\ sold.from - at >= 60 * HoursWithoutFee[sold.policy])
        <3>1. ~(~goneThen /\ sold.from - later >= 60 * HoursWithoutFee[sold.policy])
            BY <1>2, <2>2, <2>4
        <3>2. /\ CancellationFee(sold, gone, at) = OneDay(sold)
              /\ CancellationFee(sold, goneThen, later) = OneDay(sold)
            BY <1>4, <2>4, <3>1 DEF CancellationFee
        <3>3. QED BY <1>1, <3>2
    <2>5. QED BY <2>3, <2>4
<1>5. QED BY <1>3, <1>4

\* Division with a remainder.
LEMMA Division ==
    ASSUME NEW n \in Nat, NEW d \in Nat \ {0}
    PROVE  n \div d \in Nat /\ n % d \in 0..(d - 1) /\ n = d * (n \div d) + (n % d)
OBVIOUS

\* The fee of a cancellation is nothing, everything, or the nearest cent to a day of the base
\* (cancellation_fee_for).
THEOREM FeesAreOfADayAtMost ==
    ASSUME NEW sold \in Booked, NEW gone \in BOOLEAN, NEW at \in Int
    PROVE  LET fee == CancellationFee(sold, gone, at)
           IN \/ sold.policy = "non_refundable" /\ fee = sold.total
              \/ fee = 0
              \/ 2 * (fee * sold.days - sold.base) \in (-sold.days)..sold.days
<1> DEFINE n == sold.base
           d == sold.days
           down == n \div d
           over == n % d
<1>1. n \in Nat /\ d \in Nat \ {0}
    BY DEF Booked
<1>2. down \in Nat /\ over \in 0..(d - 1) /\ n = d * down + over
    BY <1>1, Division
<1>3. OneDay(sold) = IF 2 * over > d \/ (2 * over = d /\ down % 2 = 1) THEN down + 1 ELSE down
    BY DEF OneDay, HalfEven
<1> HIDE DEF down, over, n, d
<1>4. d * down \in Int /\ down * d = d * down /\ (down + 1) * d = d * down + d
    BY <1>1, <1>2
<1>5. 2 * (OneDay(sold) * d - n) \in (-d)..d
    <2>1. CASE 2 * over > d \/ (2 * over = d /\ down % 2 = 1)
        <3>1. OneDay(sold) * d - n = d - over
            BY <1>1, <1>2, <1>3, <1>4, <2>1
        <3>2. 2 * over >= d
            BY <1>1, <1>2, <2>1
        <3> QED BY <1>1, <1>2, <3>1, <3>2
    <2>2. CASE ~ (2 * over > d \/ (2 * over = d /\ down % 2 = 1))
        <3>1. OneDay(sold) * d - n = -over
            BY <1>1, <1>2, <1>3, <1>4, <2>2
        <3>2. 2 * over <= d
            BY <1>1, <1>2, <2>2
        <3> QED BY <1>1, <1>2, <3>1, <3>2
    <2> QED BY <2>1, <2>2
<1>6. \/ CancellationFee(sold, gone, at) \in {0, OneDay(sold)}
      \/ sold.policy = "non_refundable" /\ CancellationFee(sold, gone, at) = sold.total
    <2>1. CASE sold.policy = "non_refundable"
        BY <2>1 DEF CancellationFee
    <2>2. CASE sold.policy # "non_refundable"
        <3> DEFINE free == ~gone /\ sold.from - at >= 60 * HoursWithoutFee[sold.policy]
        <3>1. CancellationFee(sold, gone, at) = IF free THEN 0 ELSE OneDay(sold)
            BY <2>2 DEF CancellationFee
        <3> HIDE DEF free
        <3> QED BY <3>1
    <2> QED BY <2>1, <2>2
<1> QED BY <1>5, <1>6 DEF n, d

-----------------------------------------------------------------------------
(* Folds *)

\* The greatest of some numbers from 1 to n.
LEMMA GreatestOne ==
    ASSUME NEW n \in Nat, NEW s \in SUBSET (1..n), s # {}
    PROVE  Max(s) \in s /\ \A m \in s : m <= Max(s)
<1> DEFINE below == {n - m : m \in s}
<1>1. PICK least \in below : \A m \in below : least <= m
    <2>1. \A m \in s : n - m \in Nat
        OBVIOUS
    <2>2. PICK m \in s : TRUE
        OBVIOUS
    <2>3. below \in SUBSET Nat
        BY <2>1
    <2>4. n - m \in below
        BY <2>2
    <2> HIDE DEF below
    <2> QED BY <2>3, <2>4, LeastNumber
<1>2. PICK g \in s : least = n - g
    BY <1>1
<1>3. ASSUME NEW m \in s PROVE g >= m
    <2>1. n - m \in below
        OBVIOUS
    <2>2. n - g <= n - m
        BY <1>1, <1>2, <2>1
    <2>3. n \in Int /\ g \in Int /\ m \in Int
        OBVIOUS
    <2> HIDE DEF below
    <2> QED BY <2>2, <2>3
<1>4. \E x \in s : \A y \in s : x >= y
    BY <1>2, <1>3
<1>5. Max(s) \in s /\ \A y \in s : Max(s) >= y
    BY <1>4 DEF Max
<1> QED BY <1>5

LEMMA GreatestOfPrefix ==
    ASSUME NEW k \in Nat \ {0}
    PROVE  /\ 1..k # {} /\ Max(1..k) = k
           /\ (1..k) \ {Max(1..k)} = 1..(k - 1)
<1>1. Max(1..k) \in 1..k /\ \A m \in 1..k : m <= Max(1..k)
    <2>1. 1..k # {} /\ 1..k \in SUBSET (1..k)
        OBVIOUS
    <2> QED BY <2>1, GreatestOne
<1>2. Max(1..k) = k
    BY <1>1
<1> QED BY <1>2

\* What the recursion of a fold asks of the function it defines: of a set of positions it
\* takes the last first.
Recurs(g, n, base, step) ==
    \A s \in SUBSET (1..n) :
        g[s] = IF s = {} THEN base ELSE step[<<g[s \ {Max(s)}], Max(s)>>]

LEMMA OneMoreStep ==
    ASSUME NEW n \in Nat, NEW k \in Nat, k < n, NEW A, NEW base \in A,
           NEW step \in [A \X (1..n) -> A],
           NEW g \in [SUBSET (1..k) -> A], Recurs(g, k, base, step)
    PROVE  \E h \in [SUBSET (1..(k + 1)) -> A] : Recurs(h, k + 1, base, step)
<1> DEFINE last == k + 1
           h == [s \in SUBSET (1..last) |->
                    IF last \in s THEN step[<<g[s \ {last}], last>>] ELSE g[s]]
<1>1. ASSUME NEW s \in SUBSET (1..last) PROVE s \ {last} \in SUBSET (1..k)
    OBVIOUS
<1>2. h \in [SUBSET (1..last) -> A]
    <2> SUFFICES ASSUME NEW s \in SUBSET (1..last) PROVE h[s] \in A
        OBVIOUS
    <2>1. CASE last \in s
        <3>1. g[s \ {last}] \in A
            BY <1>1
        <3> QED BY <2>1, <3>1
    <2>2. CASE last \notin s
        <3>1. s \in SUBSET (1..k)
            BY <2>2
        <3> QED BY <2>2, <3>1
    <2> QED BY <2>1, <2>2
<1>3. ASSUME NEW s \in SUBSET (1..last)
      PROVE  h[s] = IF s = {} THEN base ELSE step[<<h[s \ {Max(s)}], Max(s)>>]
    <2>1. CASE last \in s
        <3>1. Max(s) = last
            <4>1. last \in Nat /\ s # {}
                BY <2>1
            <4>2. Max(s) \in s /\ last <= Max(s)
                BY <2>1, <4>1, GreatestOne
            <4>3. Max(s) \in 1..last
                BY <4>2
            <4> QED BY <4>2, <4>3
        <3>2. h[s] = step[<<g[s \ {last}], last>>]
            BY <2>1
        <3>3. h[s \ {last}] = g[s \ {last}]
            BY <1>1
        <3> HIDE DEF h
        <3> QED BY <2>1, <3>1, <3>2, <3>3
    <2>2. CASE last \notin s
        <3>1. s \in SUBSET (1..k) /\ h[s] = g[s]
            BY <2>2
        <3>2. CASE s = {}
            BY <3>1, <3>2 DEF Recurs
        <3>3. CASE s # {}
            <4>1. Max(s) \in s
                BY <3>1, <3>3, GreatestOne
            <4>2. h[s \ {Max(s)}] = g[s \ {Max(s)}]
                BY <2>2
            <4>3. g[s] = step[<<g[s \ {Max(s)}], Max(s)>>]
                BY <3>1, <3>3 DEF Recurs
            <4> HIDE DEF h
            <4> QED BY <3>1, <3>3, <4>2, <4>3
        <3> QED BY <3>2, <3>3
    <2> QED BY <2>1, <2>2
<1> HIDE DEF h
<1>4. Recurs(h, k + 1, base, step)
    BY <1>3 DEF Recurs
<1> QED BY <1>2, <1>4

\* There is such a function.
LEMMA FoldExists ==
    ASSUME NEW n \in Nat, NEW A, NEW base \in A, NEW step \in [A \X (1..n) -> A]
    PROVE  \E g \in [SUBSET (1..n) -> A] : Recurs(g, n, base, step)
<1> DEFINE Has(k) == \E g \in [SUBSET (1..k) -> A] : Recurs(g, k, base, step)
           missing == {k \in 0..n : ~Has(k)}
<1>1. Has(0)
    <2> DEFINE g == [s \in SUBSET (1..0) |-> base]
    <2>1. 1..0 = {}
        OBVIOUS
    <2>2. g \in [SUBSET (1..0) -> A] /\ Recurs(g, 0, base, step)
        BY <2>1 DEF Recurs
    <2> QED BY <2>2
<1>2. ASSUME NEW k \in Nat, k < n, Has(k) PROVE Has(k + 1)
    <2>1. PICK g \in [SUBSET (1..k) -> A] : Recurs(g, k, base, step)
        BY <1>2
    <2> QED BY <1>2, <2>1, OneMoreStep
<1> HIDE DEF Has
<1>3. missing = {}
    <2> SUFFICES ASSUME missing # {} PROVE FALSE
        OBVIOUS
    <2>1. PICK k \in missing : \A m \in missing : k <= m
        <3>1. missing \in SUBSET Nat
            OBVIOUS
        <3> QED BY <3>1, LeastNumber
    <2>2. k # 0
        BY <1>1, <2>1
    <2>3. k - 1 \in Nat /\ k - 1 < n /\ k - 1 \in 0..n /\ (k - 1) + 1 = k
        BY <2>2
    <2>4. Has(k - 1)
        BY <2>1, <2>3
    <2>5. Has((k - 1) + 1)
        BY <1>2, <2>3, <2>4
    <2> QED BY <2>1, <2>3, <2>5
<1>4. Has(n)
    BY <1>3
<1> QED BY <1>4 DEF Has

\* What is folded so far, position by position.
IsPath(P, n, A, base, step) ==
    /\ P \in [0..n -> A] /\ P[0] = base
    /\ \A k \in 1..n : P[k] = step[<<P[k - 1], k>>]

LEMMA OnePath ==
    ASSUME NEW n \in Nat, NEW A, NEW base, NEW step,
           NEW P, IsPath(P, n, A, base, step), NEW Q, IsPath(Q, n, A, base, step)
    PROVE  P = Q
<1> DEFINE apart == {k \in 0..n : P[k] # Q[k]}
<1>1. apart = {}
    <2> SUFFICES ASSUME apart # {} PROVE FALSE
        OBVIOUS
    <2>1. PICK k \in apart : \A m \in apart : k <= m
        <3>1. apart \in SUBSET Nat
            OBVIOUS
        <3> HIDE DEF apart
        <3> QED BY <3>1, LeastNumber
    <2>2. k # 0
        BY <2>1 DEF IsPath
    <2>3. k \in 1..n /\ k - 1 \in 0..n /\ k - 1 \notin apart
        BY <2>1, <2>2
    <2>4. P[k - 1] = Q[k - 1]
        BY <2>3
    <2> QED BY <2>1, <2>3, <2>4 DEF IsPath
<1>2. \A k \in 0..n : P[k] = Q[k]
    BY <1>1
<1> QED BY <1>2 DEF IsPath

\* A function that recurs as a fold does, as far as the steps are those that are named.
LEMMA FoldIsPath ==
    ASSUME NEW n \in Nat, NEW A, NEW base \in A, NEW step \in [A \X (1..n) -> A],
           NEW g, g[{}] = base,
           \A k \in 1..n : g[1..(k - 1)] \in A => g[1..k] = step[<<g[1..(k - 1)], k>>]
    PROVE  IsPath([k \in 0..n |-> g[1..k]], n, A, base, step)
<1> DEFINE P == [k \in 0..n |-> g[1..k]]
           out == {k \in 0..n : P[k] \notin A}
<1>1. P[0] = base
    <2>1. 1..0 = {} /\ 0 \in 0..n
        OBVIOUS
    <2> QED BY <2>1
<1>2. \A k \in 1..n : P[k - 1] \in A => P[k] = step[<<P[k - 1], k>>]
    <2> SUFFICES ASSUME NEW k \in 1..n, P[k - 1] \in A PROVE P[k] = step[<<P[k - 1], k>>]
        OBVIOUS
    <2>1. k \in 0..n /\ k - 1 \in 0..n
        OBVIOUS
    <2>2. P[k] = g[1..k] /\ P[k - 1] = g[1..(k - 1)]
        BY <2>1
    <2> HIDE DEF P
    <2> QED BY <2>2
<1>3. DOMAIN P = 0..n /\ P = [k \in 0..n |-> P[k]]
    OBVIOUS
<1> HIDE DEF P
<1>4. out = {}
    <2> SUFFICES ASSUME out # {} PROVE FALSE
        OBVIOUS
    <2>1. PICK k \in out : \A m \in out : k <= m
        <3>1. out \in SUBSET Nat
            OBVIOUS
        <3> HIDE DEF out
        <3> QED BY <3>1, LeastNumber
    <2>2. k # 0
        BY <1>1, <2>1
    <2>3. k \in 1..n /\ k - 1 \in 0..n /\ k - 1 \notin out
        BY <2>1, <2>2
    <2>4. P[k - 1] \in A
        BY <2>3
    <2>5. P[k] \in A
        BY <1>2, <2>3, <2>4
    <2> QED BY <2>1, <2>5
<1>5. \A k \in 0..n : P[k] \in A
    BY <1>4
<1>6. P \in [0..n -> A]
    BY <1>3, <1>5
<1>7. \A k \in 1..n : P[k] = step[<<P[k - 1], k>>]
    BY <1>2, <1>5
<1>8. IsPath(P, n, A, base, step)
    BY <1>1, <1>6, <1>7 DEF IsPath
<1> QED BY <1>8 DEF P

-----------------------------------------------------------------------------
(* Sums *)

\* The sum of the first numbers, as it grows.
Running(P, s, n) ==
    P \in [0..n -> Int] /\ P[0] = 0 /\ \A k \in 1..n : P[k] = P[k - 1] + s[k]

LEMMA SumRuns ==
    ASSUME NEW n \in Nat, NEW s \in [1..n -> Int]
    PROVE  \E P : Running(P, s, n) /\ Sum(s) = P[n]
<1> DEFINE step == [x \in Int \X (1..n) |-> x[1] + s[x[2]]]
           Sums(g) == g = [set \in SUBSET DOMAIN s |->
                              IF set = {} THEN 0
                              ELSE g[set \ {Max(set)}] + s[Max(set)]]
           all == CHOOSE g : Sums(g)
           P == [k \in 0..n |-> all[1..k]]
<1>1. Sum(s) = all[1..n]
    BY DEF Sum, FoldLeft, MapThenFoldSet
<1>2. step \in [Int \X (1..n) -> Int]
    OBVIOUS
<1>3. \A k \in Int, m \in 1..n : step[<<k, m>>] = k + s[m]
    OBVIOUS
<1> HIDE DEF step
<1>4. \E g : Sums(g)
    <2>1. PICK g \in [SUBSET (1..n) -> Int] : Recurs(g, n, 0, step)
        <3>1. 0 \in Int
            OBVIOUS
        <3> QED BY <1>2, <3>1, FoldExists
    <2>2. ASSUME NEW set \in SUBSET (1..n)
          PROVE  g[set] = IF set = {} THEN 0 ELSE g[set \ {Max(set)}] + s[Max(set)]
        <3>1. CASE set = {}
            BY <2>1, <3>1 DEF Recurs
        <3>2. CASE set # {}
            <4>1. Max(set) \in 1..n
                BY <3>2, GreatestOne
            <4>2. g[set \ {Max(set)}] \in Int
                OBVIOUS
            <4> QED BY <1>3, <2>1, <3>2, <4>1, <4>2 DEF Recurs
        <3> QED BY <3>1, <3>2
    <2>3. Sums(g)
        BY <2>2
    <2> QED BY <2>3
<1>5. Sums(all)
    BY <1>4
<1> HIDE DEF all
<1>6. all[{}] = 0
    BY <1>5
<1>7. \A k \in 1..n : all[1..k] = all[1..(k - 1)] + s[k]
    <2> SUFFICES ASSUME NEW k \in 1..n PROVE all[1..k] = all[1..(k - 1)] + s[k]
        OBVIOUS
    <2>1. 1..k \in SUBSET DOMAIN s
        OBVIOUS
    <2>2. 1..k # {} /\ Max(1..k) = k /\ (1..k) \ {Max(1..k)} = 1..(k - 1)
        <3>1. k \in Nat \ {0}
            OBVIOUS
        <3> QED BY <3>1, GreatestOfPrefix
    <2>3. all[1..k] = all[(1..k) \ {Max(1..k)}] + s[Max(1..k)]
        BY <1>5, <2>1, <2>2
    <2> QED BY <2>2, <2>3
<1>8. IsPath(P, n, Int, 0, step)
    <2>1. \A k \in 1..n : all[1..(k - 1)] \in Int => all[1..k] = step[<<all[1..(k - 1)], k>>]
        BY <1>3, <1>7
    <2>2. 0 \in Int
        OBVIOUS
    <2> QED BY <1>2, <1>6, <2>1, <2>2, FoldIsPath
<1>9. Running(P, s, n)
    <2>1. P \in [0..n -> Int] /\ P[0] = 0
        BY <1>8 DEF IsPath
    <2>2. ASSUME NEW k \in 1..n PROVE P[k] = P[k - 1] + s[k]
        <3>1. k - 1 \in 0..n
            OBVIOUS
        <3>2. P[k - 1] \in Int
            BY <2>1, <3>1
        <3> HIDE DEF P
        <3> QED BY <1>3, <1>8, <3>2 DEF IsPath
    <2> HIDE DEF P
    <2> QED BY <2>1, <2>2 DEF Running
<1>10. P[n] = all[1..n]
    OBVIOUS
<1> QED BY <1>1, <1>9, <1>10

LEMMA SumIs ==
    ASSUME NEW n \in Nat, NEW s \in [1..n -> Int], NEW P, Running(P, s, n)
    PROVE  Sum(s) = P[n]
<1> DEFINE step == [x \in Int \X (1..n) |-> x[1] + s[x[2]]]
<1>1. \A k \in Int, m \in 1..n : step[<<k, m>>] = k + s[m]
    OBVIOUS
<1> HIDE DEF step
<1>2. ASSUME NEW Q, Running(Q, s, n) PROVE IsPath(Q, n, Int, 0, step)
    <2>1. ASSUME NEW k \in 1..n PROVE Q[k] = step[<<Q[k - 1], k>>]
        <3>1. k - 1 \in 0..n
            OBVIOUS
        <3>2. Q[k - 1] \in Int
            BY <1>2, <3>1 DEF Running
        <3> QED BY <1>1, <1>2, <3>2 DEF Running
    <2> QED BY <1>2, <2>1 DEF Running, IsPath
<1>3. PICK Q : Running(Q, s, n) /\ Sum(s) = Q[n]
    BY SumRuns
<1>4. P = Q
    BY <1>2, <1>3, OnePath
<1> QED BY <1>3, <1>4

LEMMA SumIsANumber ==
    ASSUME NEW n \in Nat, NEW s \in [1..n -> Int]
    PROVE  Sum(s) \in Int
<1>1. PICK P : Running(P, s, n) /\ Sum(s) = P[n]
    BY SumRuns
<1> QED BY <1>1 DEF Running

\* The sum of two rows of numbers, one after the other.
LEMMA SumOfTwo ==
    ASSUME NEW n \in Nat, NEW m \in Nat, NEW s \in [1..n -> Int], NEW t \in [1..m -> Int],
           NEW u \in [1..(n + m) -> Int],
           \A k \in 1..n : u[k] = s[k], \A k \in 1..m : u[n + k] = t[k]
    PROVE  Sum(u) = Sum(s) + Sum(t)
<1>1. PICK P : Running(P, s, n) /\ Sum(s) = P[n]
    BY SumRuns
<1>2. PICK Q : Running(Q, t, m) /\ Sum(t) = Q[m]
    BY SumRuns
<1> DEFINE R == [k \in 0..(n + m) |-> IF k <= n THEN P[k] ELSE P[n] + Q[k - n]]
<1>3. /\ P \in [0..n -> Int] /\ P[0] = 0 /\ \A k \in 1..n : P[k] = P[k - 1] + s[k]
      /\ Q \in [0..m -> Int] /\ Q[0] = 0 /\ \A k \in 1..m : Q[k] = Q[k - 1] + t[k]
    BY <1>1, <1>2 DEF Running
<1>4. R \in [0..(n + m) -> Int]
    <2> SUFFICES ASSUME NEW k \in 0..(n + m) PROVE R[k] \in Int
        OBVIOUS
    <2>1. CASE k <= n BY <1>3, <2>1
    <2>2. CASE ~ (k <= n)
        <3>1. k - n \in 0..m /\ n \in 0..n
            BY <2>2
        <3>2. P[n] \in Int /\ Q[k - n] \in Int
            BY <1>3, <3>1
        <3> QED BY <2>2, <3>2
    <2> QED BY <2>1, <2>2
<1>5. R[0] = 0
    BY <1>3
<1>6. ASSUME NEW k \in 1..(n + m) PROVE R[k] = R[k - 1] + u[k]
    <2>1. CASE k <= n
        <3>1. k \in 1..n /\ k - 1 \in 0..(n + m) /\ k - 1 <= n /\ k \in 0..(n + m)
            BY <2>1
        <3>2. R[k] = P[k] /\ R[k - 1] = P[k - 1] /\ u[k] = s[k]
            BY <3>1
        <3> HIDE DEF R
        <3> QED BY <1>3, <3>1, <3>2
    <2>2. CASE k = n + 1
        <3>1. k \in 0..(n + m) /\ k - 1 = n /\ k - n = 1 /\ 1 \in 1..m /\ ~ (k <= n)
            BY <2>2
        <3>2. R[k] = P[n] + Q[1] /\ R[k - 1] = P[n]
            BY <3>1
        <3>3. u[k] = t[1] /\ Q[1] = Q[1 - 1] + t[1]
            BY <1>3, <2>2, <3>1
        <3>4. t[1] \in Int /\ P[n] \in Int
            BY <1>3, <3>1
        <3> HIDE DEF R
        <3> QED BY <1>3, <3>2, <3>3, <3>4
    <2>3. CASE k > n + 1
        <3> DEFINE j == k - n
        <3>1. /\ j \in 1..m /\ n + j = k /\ ~ (k <= n) /\ ~ (k - 1 <= n) /\ (k - 1) - n = j - 1
              /\ k \in 0..(n + m) /\ k - 1 \in 0..(n + m) /\ j - 1 \in 0..m /\ n \in 0..n
            BY <2>3
        <3>2. R[k] = P[n] + Q[j] /\ R[k - 1] = P[n] + Q[j - 1]
            BY <3>1
        <3> HIDE DEF R, j
        <3>3. u[k] = t[j] /\ Q[j] = Q[j - 1] + t[j]
            BY <1>3, <3>1
        <3>4. t[j] \in Int /\ P[n] \in Int /\ Q[j - 1] \in Int
            BY <1>3, <3>1
        <3> QED BY <3>2, <3>3, <3>4
    <2> QED BY <2>1, <2>2, <2>3
<1>7. R[n + m] = P[n] + Q[m]
    <2>1. CASE m = 0
        <3>1. R[n + m] = P[n] /\ P[n] \in Int
            BY <1>3, <2>1
        <3> HIDE DEF R
        <3> QED BY <1>3, <2>1, <3>1
    <2>2. CASE m # 0
        <3>1. ~ (n + m <= n) /\ (n + m) - n = m /\ n + m \in 0..(n + m)
            BY <2>2
        <3> QED BY <3>1
    <2> QED BY <2>1, <2>2
<1> HIDE DEF R
<1>8. Running(R, u, n + m)
    BY <1>4, <1>5, <1>6 DEF Running
<1>9. n + m \in Nat
    OBVIOUS
<1>10. Sum(u) = R[n + m]
    BY <1>8, <1>9, SumIs
<1> QED BY <1>1, <1>2, <1>7, <1>10

LEMMA SumOfNaturals ==
    ASSUME NEW n \in Nat, NEW s \in [1..n -> Nat]
    PROVE  Sum(s) \in Nat
<1>1. s \in [1..n -> Int]
    OBVIOUS
<1>2. PICK P : Running(P, s, n) /\ Sum(s) = P[n]
    BY <1>1, SumRuns
<1> DEFINE bad == {k \in 0..n : P[k] \notin Nat}
<1>3. bad = {}
    <2> SUFFICES ASSUME bad # {} PROVE FALSE
        OBVIOUS
    <2>1. PICK k \in bad : \A m \in bad : k <= m
        <3>1. bad \in SUBSET Nat
            OBVIOUS
        <3> HIDE DEF bad
        <3> QED BY <3>1, LeastNumber
    <2>2. k # 0
        BY <1>2, <2>1 DEF Running
    <2>3. k \in 1..n /\ k - 1 \in 0..n /\ k - 1 \notin bad
        BY <2>1, <2>2
    <2>4. P[k - 1] \in Nat /\ P[k] \notin Nat /\ s[k] \in Nat
        BY <2>1, <2>3
    <2>5. P[k] = P[k - 1] + s[k]
        BY <1>2, <2>3 DEF Running
    <2> QED BY <2>4, <2>5
<1> QED BY <1>2, <1>3

LEMMA SumOfNone ==
    ASSUME NEW s \in [1..0 -> Int]
    PROVE  Sum(s) = 0
<1>1. 0 \in Nat
    OBVIOUS
<1>2. PICK P : Running(P, s, 0) /\ Sum(s) = P[0]
    BY <1>1, SumRuns
<1> QED BY <1>2 DEF Running

LEMMA SumOfOne ==
    ASSUME NEW s \in [1..1 -> Int]
    PROVE  Sum(s) = s[1]
<1>1. 1 \in Nat
    OBVIOUS
<1>2. PICK P : Running(P, s, 1) /\ Sum(s) = P[1]
    BY <1>1, SumRuns
<1>3. P[0] = 0 /\ P[1] = P[1 - 1] + s[1] /\ s[1] \in Int
    BY <1>2 DEF Running
<1> QED BY <1>2, <1>3

-----------------------------------------------------------------------------
(* Lines *)

LineShape == [base : Int, tax : Int]

LEMMA CentsAreNumbers ==
    ASSUME NEW amount \in Int, NEW share \in Nat
    PROVE  Percent(amount, share) \in Int
<1>1. amount * share \in Int
    OBVIOUS
<1>2. ASSUME NEW n \in Int PROVE HalfUp(n, 100) \in Int
    BY DEF HalfUp
<1> QED BY <1>1, <1>2 DEF Percent

LEMMA LinesAreLines ==
    ASSUME NEW base \in Int, NEW tax \in Nat
    PROVE  Line(base, tax) \in LineShape /\ Line(base, tax).base = base
BY CentsAreNumbers DEF Line, LineShape

\* A line has two columns, "base" and "tax".
Column(lines, of) == [n \in DOMAIN lines |-> lines[n][of]]
Total(lines, of) == Sum(Column(lines, of))

LEMMA TotalsAreSums ==
    ASSUME NEW lines
    PROVE  BaseOf(lines) = Total(lines, "base") /\ TaxOf(lines) = Total(lines, "tax")
BY DEF BaseOf, TaxOf, Total, Column

LEMMA ColumnsAreNumbers ==
    ASSUME NEW lines \in Seq(LineShape), NEW of \in {"base", "tax"}
    PROVE  Len(lines) \in Nat /\ Column(lines, of) \in [1..Len(lines) -> Int]
<1>1. Len(lines) \in Nat /\ DOMAIN lines = 1..Len(lines)
    OBVIOUS
<1>2. ASSUME NEW n \in 1..Len(lines) PROVE lines[n][of] \in Int
    <2>1. lines[n] \in LineShape
        BY <1>1
    <2> QED BY <2>1 DEF LineShape
<1> QED BY <1>1, <1>2 DEF Column

\* What two rows of lines come to, one after the other, is what both do.
LEMMA TotalsAdd ==
    ASSUME NEW s \in Seq(LineShape), NEW t \in Seq(LineShape), NEW of \in {"base", "tax"}
    PROVE  Total(s \o t, of) = Total(s, of) + Total(t, of)
<1>1. /\ s \o t \in Seq(LineShape) /\ Len(s \o t) = Len(s) + Len(t)
      /\ \A k \in 1..Len(s) : (s \o t)[k] = s[k]
      /\ \A k \in 1..Len(t) : (s \o t)[Len(s) + k] = t[k]
    OBVIOUS
<1> DEFINE u == s \o t
<1> HIDE DEF u
<1>2. /\ u \in Seq(LineShape) /\ Len(u) = Len(s) + Len(t)
      /\ \A k \in 1..Len(s) : u[k] = s[k]
      /\ \A k \in 1..Len(t) : u[Len(s) + k] = t[k]
    BY <1>1 DEF u
<1>3. /\ Len(s) \in Nat /\ Column(s, of) \in [1..Len(s) -> Int]
      /\ Len(t) \in Nat /\ Column(t, of) \in [1..Len(t) -> Int]
      /\ Column(u, of) \in [1..(Len(s) + Len(t)) -> Int]
    BY <1>2, ColumnsAreNumbers
<1>4. ASSUME NEW k \in 1..Len(s) PROVE Column(u, of)[k] = Column(s, of)[k]
    <2>1. k \in DOMAIN u /\ k \in DOMAIN s
        BY <1>2, <1>3
    <2> QED BY <1>2, <2>1 DEF Column
<1>5. ASSUME NEW k \in 1..Len(t) PROVE Column(u, of)[Len(s) + k] = Column(t, of)[k]
    <2>1. Len(s) + k \in DOMAIN u /\ k \in DOMAIN t
        BY <1>2, <1>3
    <2>2. /\ Column(u, of)[Len(s) + k] = u[Len(s) + k][of]
          /\ Column(t, of)[k] = t[k][of]
        BY <2>1 DEF Column
    <2> QED BY <1>2, <2>2
<1>6. Sum(Column(u, of)) = Sum(Column(s, of)) + Sum(Column(t, of))
    BY <1>3, <1>4, <1>5, SumOfTwo
<1> QED BY <1>6 DEF Total, u

LEMMA TotalOfOne ==
    ASSUME NEW line \in LineShape, NEW of \in {"base", "tax"}
    PROVE  Total(<<line>>, of) = line[of]
<1> DEFINE one == Column(<<line>>, of)
<1>1. <<line>> \in Seq(LineShape) /\ Len(<<line>>) = 1 /\ DOMAIN <<line>> = 1..1
    OBVIOUS
<1>2. one \in [1..1 -> Int] /\ one[1] = line[of]
    <2>1. one \in [1..1 -> Int]
        BY <1>1, ColumnsAreNumbers
    <2>2. one[1] = <<line>>[1][of]
        BY <1>1 DEF Column
    <2> QED BY <2>1, <2>2
<1> HIDE DEF one
<1>3. Sum(one) = one[1]
    BY <1>2, SumOfOne
<1> QED BY <1>2, <1>3 DEF Total, one

LEMMA LinesAdd ==
    ASSUME NEW s \in Seq(LineShape), NEW t \in Seq(LineShape)
    PROVE  /\ s \o t \in Seq(LineShape)
           /\ BaseOf(s \o t) = BaseOf(s) + BaseOf(t)
           /\ TaxOf(s \o t) = TaxOf(s) + TaxOf(t)
BY TotalsAdd, TotalsAreSums

LEMMA LinesComeToNumbers ==
    ASSUME NEW lines \in Seq(LineShape)
    PROVE  BaseOf(lines) \in Int /\ TaxOf(lines) \in Int
<1>1. ASSUME NEW of \in {"base", "tax"} PROVE Total(lines, of) \in Int
    BY ColumnsAreNumbers, SumIsANumber DEF Total
<1> QED BY <1>1, TotalsAreSums

LEMMA OneLineMore ==
    ASSUME NEW lines \in Seq(LineShape), NEW line \in LineShape
    PROVE  /\ Append(lines, line) \in Seq(LineShape)
           /\ BaseOf(Append(lines, line)) = BaseOf(lines) + line.base
           /\ TaxOf(Append(lines, line)) = TaxOf(lines) + line.tax
<1>1. Append(lines, line) = lines \o <<line>> /\ <<line>> \in Seq(LineShape)
    OBVIOUS
<1>2. BaseOf(<<line>>) = line.base /\ TaxOf(<<line>>) = line.tax
    BY TotalOfOne, TotalsAreSums
<1> QED BY <1>1, <1>2, LinesAdd

LEMMA NoLines == <<>> \in Seq(LineShape) /\ BaseOf(<<>>) = 0 /\ TaxOf(<<>>) = 0
<1>1. <<>> \in Seq(LineShape) /\ Len(<<>>) = 0
    OBVIOUS
<1>2. ASSUME NEW of \in {"base", "tax"} PROVE Total(<<>>, of) = 0
    BY <1>1, ColumnsAreNumbers, SumOfNone DEF Total
<1> QED BY <1>1, <1>2, TotalsAreSums

-----------------------------------------------------------------------------
(* A price and its discounts *)

LEMMA AmountsAreNumbers ==
    ASSUME NEW charge, charge.amount \in Nat, charge.percent \in BOOLEAN, NEW base \in Int
    PROVE  Amount(charge, base) \in Int
BY CentsAreNumbers DEF Amount

\* The supplements are lines.
LEMMA SupplementsAreLines ==
    ASSUME NEW q, NEW base \in Int
    PROVE  SupplementLines(q, base) \in Seq(LineShape)
<1> DEFINE n == Len(Supplement)
           A == Seq(LineShape)
           step == [x \in A \X (1..n) |-> Supply(x[1], Supplement[x[2]], q, base)]
           Folds(g) == g = [set \in SUBSET DOMAIN Supplement |->
                               IF set = {} THEN <<>>
                               ELSE Supply(g[set \ {Max(set)}], Supplement[Max(set)], q, base)]
           all == CHOOSE g : Folds(g)
           P == [k \in 0..n |-> all[1..k]]
<1>1. SupplementLines(q, base) = all[1..n]
    BY PricingAssumption DEF SupplementLines, FoldLeft, MapThenFoldSet
<1>2. n \in Nat /\ DOMAIN Supplement = 1..n
    BY PricingAssumption
<1>3. <<>> \in A
    BY NoLines
<1>4. ASSUME NEW lines \in A, NEW k \in 1..n PROVE Supply(lines, Supplement[k], q, base) \in A
    <2>1. /\ Supplement[k].amount \in Nat /\ Supplement[k].percent \in BOOLEAN
          /\ Supplement[k].tax \in Nat
        BY <1>2, PricingAssumption DEF IsSupplement
    <2>2. Line(Amount(Supplement[k], base), Supplement[k].tax) \in LineShape
        BY <2>1, AmountsAreNumbers, LinesAreLines
    <2> QED BY <2>2, OneLineMore DEF Supply
<1>5. step \in [A \X (1..n) -> A]
    BY <1>4
<1>6. \A lines \in A, k \in 1..n : step[<<lines, k>>] = Supply(lines, Supplement[k], q, base)
    OBVIOUS
<1> HIDE DEF step, n, A
<1>7. \E g : Folds(g)
    <2>1. PICK g \in [SUBSET (1..n) -> A] : Recurs(g, n, <<>>, step)
        BY <1>2, <1>3, <1>5, FoldExists
    <2>2. ASSUME NEW set \in SUBSET (1..n)
          PROVE  g[set] = IF set = {} THEN <<>>
                          ELSE Supply(g[set \ {Max(set)}], Supplement[Max(set)], q, base)
        <3>1. CASE set = {}
            BY <2>1, <3>1 DEF Recurs
        <3>2. CASE set # {}
            <4>1. Max(set) \in 1..n
                BY <1>2, <3>2, GreatestOne
            <4>2. g[set \ {Max(set)}] \in A
                OBVIOUS
            <4> QED BY <1>6, <2>1, <3>2, <4>1, <4>2 DEF Recurs
        <3> QED BY <3>1, <3>2
    <2>3. Folds(g)
        BY <1>2, <2>2
    <2> QED BY <2>3
<1>8. Folds(all)
    BY <1>7
<1> HIDE DEF all
<1>9. all[{}] = <<>>
    BY <1>8
<1>10. \A k \in 1..n : all[1..(k - 1)] \in A => all[1..k] = step[<<all[1..(k - 1)], k>>]
    <2> SUFFICES ASSUME NEW k \in 1..n, all[1..(k - 1)] \in A
                 PROVE  all[1..k] = step[<<all[1..(k - 1)], k>>]
        OBVIOUS
    <2>1. 1..k \in SUBSET DOMAIN Supplement /\ k \in Nat \ {0}
        BY <1>2
    <2>2. 1..k # {} /\ Max(1..k) = k /\ (1..k) \ {Max(1..k)} = 1..(k - 1)
        BY <2>1, GreatestOfPrefix
    <2>3. all[1..k] = Supply(all[(1..k) \ {Max(1..k)}], Supplement[Max(1..k)], q, base)
        BY <1>8, <2>1, <2>2
    <2> QED BY <1>6, <2>2, <2>3
<1>11. IsPath(P, n, A, <<>>, step)
    BY <1>2, <1>3, <1>5, <1>9, <1>10, FoldIsPath
<1>12. P[n] \in A /\ P[n] = all[1..n]
    BY <1>2, <1>11 DEF IsPath
<1> QED BY <1>1, <1>12 DEF A

\* What is left of the rental and what the discounts have taken.
Account(base) ==
    {acc \in [left : Int, lines : Seq(LineShape)] :
        acc.left \in 0..base /\ acc.left - BaseOf(acc.lines) = base}

\* A discount takes what is left, at most.
LEMMA TakeKeepsAccount ==
    ASSUME NEW base \in Nat, NEW acc \in Account(base), NEW amount \in Int
    PROVE  Take(acc, amount) \in Account(base)
<1> DEFINE off == Least(amount, acc.left)
           line == Line(-off, TaxRate)
           lines == Append(acc.lines, line)
<1>1. /\ acc.left \in 0..base /\ acc.lines \in Seq(LineShape)
      /\ acc.left - BaseOf(acc.lines) = base
    BY DEF Account
<1>2. off \in Int /\ off <= acc.left
    BY <1>1 DEF Least
<1>3. CASE off <= 0
    BY <1>3 DEF Take
<1>4. CASE ~ (off <= 0)
    <2>1. Take(acc, amount) = [left |-> acc.left - off, lines |-> lines]
        BY <1>4 DEF Take
    <2> HIDE DEF off
    <2>2. TaxRate \in Nat /\ -off \in Int
        BY <1>2, ChargesAssumption
    <2>3. line \in LineShape /\ line.base = -off
        BY <2>2, LinesAreLines
    <2> HIDE DEF line
    <2>4. lines \in Seq(LineShape) /\ BaseOf(lines) = BaseOf(acc.lines) + line.base
        BY <1>1, <2>3, OneLineMore
    <2>5. BaseOf(acc.lines) \in Int
        BY <1>1, LinesComeToNumbers
    <2> HIDE DEF lines
    <2>6. acc.left - off \in 0..base /\ (acc.left - off) - BaseOf(lines) = base
        BY <1>1, <1>2, <1>4, <2>3, <2>4, <2>5
    <2>7. acc.left - off \in Int
        BY <2>6
    <2> QED BY <2>1, <2>4, <2>6, <2>7 DEF Account
<1> QED BY <1>3, <1>4

\* Discounts of any kind, together, take no more than there is.
LEMMA DiscountsTakeWhatThereIs ==
    ASSUME NEW q, NEW days, NEW base \in Nat
    PROVE  /\ DiscountLines(q, days, base) \in Seq(LineShape)
           /\ -BaseOf(DiscountLines(q, days, base)) \in 0..base
<1> DEFINE n == Len(Discount)
           A == Account(base)
           first == [left |-> base, lines |-> <<>>]
           step == [x \in A \X (1..n) |-> Deduct(x[1], Discount[x[2]], q, days, base)]
           Folds(g) == g = [set \in SUBSET DOMAIN Discount |->
                               IF set = {} THEN first
                               ELSE Deduct(g[set \ {Max(set)}], Discount[Max(set)], q, days, base)]
           all == CHOOSE g : Folds(g)
           P == [k \in 0..n |-> all[1..k]]
<1>1. DiscountLines(q, days, base) = all[1..n].lines
    BY PricingAssumption DEF DiscountLines, FoldLeft, MapThenFoldSet
<1>2. n \in Nat /\ DOMAIN Discount = 1..n
    BY PricingAssumption
<1>3. first \in A
    <2>1. base - 0 = base /\ base \in 0..base
        OBVIOUS
    <2> QED BY <2>1, NoLines DEF Account
<1>4. ASSUME NEW acc \in A, NEW k \in 1..n PROVE Deduct(acc, Discount[k], q, days, base) \in A
    <2>1. Discount[k].amount \in Nat /\ Discount[k].percent \in BOOLEAN
        BY <1>2, PricingAssumption DEF IsDiscount
    <2>2. Amount(Discount[k], base) \in Int
        BY <2>1, AmountsAreNumbers
    <2> QED BY <2>2, TakeKeepsAccount DEF Deduct
<1>5. step \in [A \X (1..n) -> A]
    BY <1>4
<1>6. \A acc \in A, k \in 1..n : step[<<acc, k>>] = Deduct(acc, Discount[k], q, days, base)
    OBVIOUS
<1> HIDE DEF step, n, A, first
<1>7. \E g : Folds(g)
    <2>1. PICK g \in [SUBSET (1..n) -> A] : Recurs(g, n, first, step)
        BY <1>2, <1>3, <1>5, FoldExists
    <2>2. ASSUME NEW set \in SUBSET (1..n)
          PROVE  g[set] = IF set = {} THEN first
                          ELSE Deduct(g[set \ {Max(set)}], Discount[Max(set)], q, days, base)
        <3>1. CASE set = {}
            BY <2>1, <3>1 DEF Recurs
        <3>2. CASE set # {}
            <4>1. Max(set) \in 1..n
                BY <1>2, <3>2, GreatestOne
            <4>2. g[set \ {Max(set)}] \in A
                OBVIOUS
            <4> QED BY <1>6, <2>1, <3>2, <4>1, <4>2 DEF Recurs
        <3> QED BY <3>1, <3>2
    <2>3. Folds(g)
        BY <1>2, <2>2
    <2> QED BY <2>3
<1>8. Folds(all)
    BY <1>7
<1> HIDE DEF all
<1>9. all[{}] = first
    BY <1>8
<1>10. \A k \in 1..n : all[1..(k - 1)] \in A => all[1..k] = step[<<all[1..(k - 1)], k>>]
    <2> SUFFICES ASSUME NEW k \in 1..n, all[1..(k - 1)] \in A
                 PROVE  all[1..k] = step[<<all[1..(k - 1)], k>>]
        OBVIOUS
    <2>1. 1..k \in SUBSET DOMAIN Discount /\ k \in Nat \ {0}
        BY <1>2
    <2>2. 1..k # {} /\ Max(1..k) = k /\ (1..k) \ {Max(1..k)} = 1..(k - 1)
        BY <2>1, GreatestOfPrefix
    <2>3. all[1..k] = Deduct(all[(1..k) \ {Max(1..k)}], Discount[Max(1..k)], q, days, base)
        BY <1>8, <2>1, <2>2
    <2> QED BY <1>6, <2>2, <2>3
<1>11. IsPath(P, n, A, first, step)
    BY <1>2, <1>3, <1>5, <1>9, <1>10, FoldIsPath
<1>12. P[n] \in A /\ P[n] = all[1..n]
    BY <1>2, <1>11 DEF IsPath
<1> DEFINE acc == all[1..n]
<1>13. acc \in Account(base)
    BY <1>12 DEF A
<1> HIDE DEF acc
<1>14. acc.lines \in Seq(LineShape) /\ acc.left \in 0..base /\ acc.left - BaseOf(acc.lines) = base
    BY <1>13 DEF Account
<1>15. BaseOf(acc.lines) \in Int
    BY <1>14, LinesComeToNumbers
<1>16. -BaseOf(acc.lines) \in 0..base
    BY <1>14, <1>15
<1> QED BY <1>1, <1>14, <1>16 DEF acc

PartShape == [days : Nat, price : Nat]

\* The days that are sold cost something or nothing.
LEMMA RentalIsPaid ==
    ASSUME NEW parts \in Seq(PartShape)
    PROVE  RentalLines(parts) \in Seq(LineShape) /\ BaseOf(RentalLines(parts)) \in Nat
<1> DEFINE n == Len(parts)
           lines == RentalLines(parts)
<1>1. n \in Nat /\ DOMAIN parts = 1..n /\ TaxRate \in Nat
    BY ChargesAssumption
<1>2. ASSUME NEW k \in 1..n
      PROVE  /\ parts[k].days * parts[k].price \in Nat
             /\ Line(parts[k].days * parts[k].price, TaxRate) \in LineShape
             /\ Line(parts[k].days * parts[k].price, TaxRate).base = parts[k].days * parts[k].price
    <2>1. parts[k] \in PartShape
        BY <1>1
    <2>2. parts[k].days \in Nat /\ parts[k].price \in Nat
        BY <2>1 DEF PartShape
    <2>3. parts[k].days * parts[k].price \in Nat
        BY <2>2
    <2>4. parts[k].days * parts[k].price \in Int
        BY <2>3
    <2> QED BY <1>1, <2>3, <2>4, LinesAreLines
<1>3. lines = [k \in 1..n |-> Line(parts[k].days * parts[k].price, TaxRate)]
    BY <1>1 DEF RentalLines
<1> HIDE DEF lines, n
<1>4. lines \in [1..n -> LineShape]
    BY <1>2, <1>3
<1>5. lines \in Seq(LineShape) /\ DOMAIN lines = 1..n
    BY <1>1, <1>4
<1>6. Column(lines, "base") \in [1..n -> Nat]
    <2> SUFFICES ASSUME NEW k \in 1..n PROVE lines[k].base \in Nat
        BY <1>5 DEF Column
    <2> QED BY <1>2, <1>3
<1>7. Sum(Column(lines, "base")) \in Nat
    BY <1>1, <1>6, SumOfNaturals
<1> QED BY <1>5, <1>7, TotalsAreSums DEF Total, lines

LEMMA ExtrasAreLines ==
    ASSUME NEW extras \in Seq([code : DOMAIN Extra, units : Int]), NEW days \in Nat
    PROVE  [k \in DOMAIN extras |-> ExtraLine(extras[k], days)] \in Seq(LineShape)
<1>1. Len(extras) \in Nat /\ DOMAIN extras = 1..Len(extras)
    OBVIOUS
<1>2. ASSUME NEW k \in 1..Len(extras) PROVE ExtraLine(extras[k], days) \in LineShape
    <2> DEFINE asked == extras[k]
               extra == Extra[asked.code]
               units == Least(IF asked.units < 1 THEN 1 ELSE asked.units, extra.most)
               daily == extra.price * days
               unit  == IF extra.kind # "per_day" THEN extra.price
                        ELSE IF extra.cap # None /\ daily > extra.cap THEN extra.cap ELSE daily
               often == IF extra.kind = "per_reservation" THEN 1 ELSE units
    <2>1. asked.code \in DOMAIN Extra /\ asked.units \in Int
        <3> DEFINE wish == [code : DOMAIN Extra, units : Int]
        <3>1. extras \in Seq(wish)
            OBVIOUS
        <3> HIDE DEF wish
        <3>2. asked \in wish
            BY <1>1, <3>1
        <3> HIDE DEF asked
        <3> QED BY <3>2 DEF wish
    <2>2. /\ extra.price \in Nat /\ extra.tax \in Nat /\ extra.most \in Nat
          /\ extra.cap \in Nat \cup {None}
        BY <2>1, PricingAssumption DEF IsExtra
    <2>3. ExtraLine(asked, days) = Line(unit * often, extra.tax)
        BY DEF ExtraLine
    <2> HIDE DEF asked, extra
    <2>4. units \in Int
        BY <2>1, <2>2 DEF Least
    <2>5. daily \in Nat
        BY <2>2
    <2> HIDE DEF daily, units
    <2>6. unit \in Int /\ often \in Int
        BY <2>2, <2>4, <2>5
    <2> HIDE DEF unit, often
    <2>7. unit * often \in Int
        BY <2>6
    <2> QED BY <2>2, <2>3, <2>7, LinesAreLines DEF asked
<1> QED BY <1>1, <1>2

\* What a discount may never do to a price, and what it adds up to.
Fair(price) ==
    /\ price.discounts \in 0..price.base
    /\ price.taxable = price.base + price.extras + price.supplements - price.discounts

\* "Nunca dejan la base del alquiler por debajo de cero" (_lineas_de_descuentos): whatever the
\* discounts are, they take no more than the rental, and what is added to it is always paid.
THEOREM PricesAreFair ==
    ASSUME NEW q, q.from \in Int, q.to \in Int,
           q.extras \in Seq([code : DOMAIN Extra, units : Int]), NEW parts \in Seq(PartShape)
    PROVE  Fair(Breakdown(q, parts))
<1> DEFINE days == RentalDays(q.from, q.to)
           rental == RentalLines(parts)
           base == BaseOf(rental)
           extras == [n \in DOMAIN q.extras |-> ExtraLine(q.extras[n], days)]
           added == SupplementLines(q, base)
           off == DiscountLines(q, days, base)
           price == Breakdown(q, parts)
<1>1. /\ price.base = base /\ price.extras = BaseOf(extras) /\ price.supplements = BaseOf(added)
      /\ price.discounts = -BaseOf(off) /\ price.taxable = BaseOf(rental \o extras \o added \o off)
    BY DEF Breakdown
<1> HIDE DEF price
<1>2. days \in Nat
    BY DaysAreJustEnough
<1> HIDE DEF days
<1>3. rental \in Seq(LineShape) /\ base \in Nat
    BY RentalIsPaid
<1> HIDE DEF rental
<1>4. extras \in Seq(LineShape)
    BY <1>2, ExtrasAreLines
<1>5. base \in Int
    BY <1>3
<1> HIDE DEF extras, base
<1>6. added \in Seq(LineShape)
    BY <1>5, SupplementsAreLines
<1>7. off \in Seq(LineShape) /\ -BaseOf(off) \in 0..base
    BY <1>3, DiscountsTakeWhatThereIs
<1> HIDE DEF added, off
<1>8. rental \o extras \in Seq(LineShape) /\ BaseOf(rental \o extras) = BaseOf(rental) + BaseOf(extras)
    BY <1>3, <1>4, LinesAdd
<1> DEFINE two == rental \o extras
<1> HIDE DEF two
<1>9. two \o added \in Seq(LineShape) /\ BaseOf(two \o added) = BaseOf(two) + BaseOf(added)
    BY <1>6, <1>8, LinesAdd DEF two
<1> DEFINE three == two \o added
<1> HIDE DEF three
<1>10. BaseOf(three \o off) = BaseOf(three) + BaseOf(off)
    BY <1>7, <1>9, LinesAdd DEF three
<1>11. /\ BaseOf(extras) \in Int /\ BaseOf(added) \in Int /\ BaseOf(off) \in Int
       /\ BaseOf(rental) = base
    BY <1>4, <1>6, <1>7, LinesComeToNumbers DEF base
<1>12. BaseOf(three \o off) = base + BaseOf(extras) + BaseOf(added) - (-BaseOf(off))
    BY <1>5, <1>8, <1>9, <1>10, <1>11 DEF two, three
<1>13. price.taxable = BaseOf(three \o off)
    BY <1>1 DEF two, three
<1> QED BY <1>1, <1>7, <1>12, <1>13 DEF Fair, price

-----------------------------------------------------------------------------
(* The charges of a return *)

\* A charge that is not due costs nothing.
LEMMA DueOrNothing ==
    ASSUME NEW quantity \in Nat, NEW base \in Nat, quantity = 0 => base = 0
    PROVE  LET lines == Due(quantity, Charge(base))
           IN lines \in Seq(LineShape) /\ BaseOf(lines) + TaxOf(lines) = Paid(Charge(base))
<1> DEFINE charge == Charge(base)
<1>1. charge \in LineShape
    BY ChargesAssumption, LinesAreLines DEF Charge
<1>2. CASE quantity = 0
    <2>1. Percent(0, TaxRate) = 0
        BY ChargesAssumption DEF Percent, HalfUp
    <2>2. Paid(charge) = 0
        BY <1>2, <2>1 DEF Paid, Charge, Line
    <2> QED BY <1>2, <2>2, NoLines DEF Due
<1>3. CASE quantity # 0
    <2> HIDE DEF charge
    <2>1. <<charge>> = Append(<<>>, charge)
        OBVIOUS
    <2>2. BaseOf(<<charge>>) = BaseOf(<<>>) + charge.base /\ TaxOf(<<charge>>) = TaxOf(<<>>) + charge.tax
        BY <1>1, <2>1, NoLines, OneLineMore
    <2>3. charge.base \in Int /\ charge.tax \in Int
        BY <1>1 DEF LineShape
    <2>4. BaseOf(<<charge>>) + TaxOf(<<charge>>) = Paid(charge)
        BY <2>2, <2>3, NoLines DEF Paid
    <2>5. <<charge>> \in Seq(LineShape)
        BY <1>1
    <2> QED BY <1>3, <2>4, <2>5 DEF Due, charge
<1> QED BY <1>2, <1>3

\* What is typed by hand is charged, each amount with its tax.
PaidByHand(typed) == [n \in DOMAIN typed |-> Paid(Charge(typed[n]))]

LEMMA ManualChargesAddUp ==
    ASSUME NEW typed \in Seq(Nat)
    PROVE  LET lines == ManualCharges(typed)
           IN lines \in Seq(LineShape) /\ BaseOf(lines) + TaxOf(lines) = Sum(PaidByHand(typed))
<1> DEFINE n == Len(typed)
           A == Seq(LineShape)
           step == [x \in A \X (1..n) |-> WriteCharge(x[1], typed[x[2]])]
           Folds(g) == g = [set \in SUBSET DOMAIN typed |->
                               IF set = {} THEN <<>>
                               ELSE WriteCharge(g[set \ {Max(set)}], typed[Max(set)])]
           all == CHOOSE g : Folds(g)
           P == [k \in 0..n |-> all[1..k]]
           W == [k \in 0..n |-> BaseOf(P[k]) + TaxOf(P[k])]
           paid == PaidByHand(typed)
<1>1. n \in Nat /\ DOMAIN typed = 1..n /\ \A k \in 1..n : typed[k] \in Nat
    OBVIOUS
<1>2. ManualCharges(typed) = all[1..n]
    BY <1>1 DEF ManualCharges, FoldLeft, MapThenFoldSet
<1>3. <<>> \in A
    BY NoLines
<1>4. ASSUME NEW lines \in A, NEW k \in 1..n
      PROVE  /\ WriteCharge(lines, typed[k]) \in A
             /\ BaseOf(WriteCharge(lines, typed[k])) + TaxOf(WriteCharge(lines, typed[k]))
                   = BaseOf(lines) + TaxOf(lines) + paid[k]
             /\ paid[k] \in Int
    <2> DEFINE charge == Charge(typed[k])
    <2>1. charge \in LineShape /\ paid[k] = charge.base + charge.tax
        BY <1>1, ChargesAssumption, LinesAreLines DEF Charge, PaidByHand, Paid
    <2>2. charge.base \in Int /\ charge.tax \in Int
        BY <2>1 DEF LineShape
    <2>3. BaseOf(lines) \in Int /\ TaxOf(lines) \in Int
        BY LinesComeToNumbers
    <2>4. CASE typed[k] = 0
        <3>1. Percent(0, TaxRate) = 0
            BY ChargesAssumption DEF Percent, HalfUp
        <3>2. charge.base = 0 /\ charge.tax = 0
            BY <2>4, <3>1 DEF Charge, Line
        <3> QED BY <2>1, <2>3, <2>4, <3>2 DEF WriteCharge
    <2>5. CASE typed[k] # 0
        <3> HIDE DEF charge
        <3>1. WriteCharge(lines, typed[k]) = Append(lines, charge)
            BY <2>5 DEF WriteCharge, charge
        <3> QED BY <2>1, <2>2, <2>3, <3>1, OneLineMore
    <2> QED BY <2>1, <2>2, <2>4, <2>5
<1>5. step \in [A \X (1..n) -> A]
    BY <1>4
<1>6. \A lines \in A, k \in 1..n : step[<<lines, k>>] = WriteCharge(lines, typed[k])
    OBVIOUS
<1> HIDE DEF step, n, A, paid
<1>7. \E g : Folds(g)
    <2>1. PICK g \in [SUBSET (1..n) -> A] : Recurs(g, n, <<>>, step)
        BY <1>1, <1>3, <1>5, FoldExists
    <2>2. ASSUME NEW set \in SUBSET (1..n)
          PROVE  g[set] = IF set = {} THEN <<>>
                          ELSE WriteCharge(g[set \ {Max(set)}], typed[Max(set)])
        <3>1. CASE set = {}
            BY <2>1, <3>1 DEF Recurs
        <3>2. CASE set # {}
            <4>1. Max(set) \in 1..n
                BY <1>1, <3>2, GreatestOne
            <4>2. g[set \ {Max(set)}] \in A
                OBVIOUS
            <4> QED BY <1>6, <2>1, <3>2, <4>1, <4>2 DEF Recurs
        <3> QED BY <3>1, <3>2
    <2>3. Folds(g)
        BY <1>1, <2>2
    <2> QED BY <2>3
<1>8. Folds(all)
    BY <1>7
<1> HIDE DEF all
<1>9. all[{}] = <<>>
    BY <1>8
<1>10. \A k \in 1..n : all[1..(k - 1)] \in A => all[1..k] = step[<<all[1..(k - 1)], k>>]
    <2> SUFFICES ASSUME NEW k \in 1..n, all[1..(k - 1)] \in A
                 PROVE  all[1..k] = step[<<all[1..(k - 1)], k>>]
        OBVIOUS
    <2>1. 1..k \in SUBSET DOMAIN typed /\ k \in Nat \ {0}
        BY <1>1
    <2>2. 1..k # {} /\ Max(1..k) = k /\ (1..k) \ {Max(1..k)} = 1..(k - 1)
        BY <2>1, GreatestOfPrefix
    <2>3. all[1..k] = WriteCharge(all[(1..k) \ {Max(1..k)}], typed[Max(1..k)])
        BY <1>8, <2>1, <2>2
    <2> QED BY <1>6, <2>2, <2>3
<1>11. IsPath(P, n, A, <<>>, step)
    BY <1>1, <1>3, <1>5, <1>9, <1>10, FoldIsPath
<1>12. P[n] = all[1..n]
    BY <1>1
<1> HIDE DEF P
<1>13. P \in [0..n -> A] /\ P[0] = <<>>
    BY <1>11 DEF IsPath
<1>14. ASSUME NEW k \in 1..n PROVE P[k] = WriteCharge(P[k - 1], typed[k]) /\ P[k - 1] \in A
    <2>1. k - 1 \in 0..n
        BY <1>1
    <2>2. P[k - 1] \in A
        BY <1>13, <2>1
    <2> QED BY <1>6, <1>11, <2>2 DEF IsPath
<1>15. \A k \in 0..n : W[k] \in Int
    <2> SUFFICES ASSUME NEW k \in 0..n PROVE W[k] \in Int
        OBVIOUS
    <2>1. P[k] \in Seq(LineShape)
        BY <1>13 DEF A
    <2>2. BaseOf(P[k]) \in Int /\ TaxOf(P[k]) \in Int
        BY <2>1, LinesComeToNumbers
    <2> QED BY <2>2
<1>16. ASSUME NEW k \in 1..n PROVE W[k] = W[k - 1] + paid[k]
    <2>1. k \in 0..n /\ k - 1 \in 0..n
        BY <1>1
    <2>2. BaseOf(P[k]) + TaxOf(P[k]) = BaseOf(P[k - 1]) + TaxOf(P[k - 1]) + paid[k]
        BY <1>4, <1>14
    <2> QED BY <2>1, <2>2
<1>17. W[0] = 0 /\ W[n] = BaseOf(P[n]) + TaxOf(P[n]) /\ W \in [0..n -> Int]
    <2>1. 0 \in 0..n /\ n \in 0..n
        BY <1>1
    <2>2. W[0] = BaseOf(<<>>) + TaxOf(<<>>)
        BY <1>13, <2>1
    <2>3. W[n] = BaseOf(P[n]) + TaxOf(P[n])
        BY <2>1
    <2>4. W \in [0..n -> Int]
        BY <1>15
    <2> HIDE DEF W
    <2> QED BY <2>2, <2>3, <2>4, NoLines
<1> HIDE DEF W
<1>18. Running(W, paid, n)
    BY <1>16, <1>17 DEF Running
<1>19. paid \in [1..n -> Int]
    <2>1. \A k \in 1..n : paid[k] \in Int
        BY <1>3, <1>4
    <2> QED BY <1>1, <2>1 DEF paid, PaidByHand
<1>20. Sum(paid) = W[n]
    BY <1>1, <1>18, <1>19, SumIs
<1>21. P[n] \in Seq(LineShape)
    BY <1>1, <1>13 DEF A
<1> QED BY <1>2, <1>12, <1>17, <1>20, <1>21 DEF paid

\* The return costs the sum of its charges, with the tax of each: none is lost on the way to
\* the client, and none is charged twice (compute_checkout_charges).
THEOREM ReturnsCostTheirCharges ==
    ASSUME NEW done \in Return, NEW typed \in Seq(Nat)
    PROVE  LET lines == CheckoutCharges(done, typed)
           IN BaseOf(lines) + TaxOf(lines) = ReturnCost(done) + Sum(PaidByHand(typed))
<1> DEFINE km == Due(ExtraKm(done), KmCharge(done))
           fuel == Due(MissingFuel(done), FuelCharge(done))
           late == Due(DaysTooLate(done), LateCharge(done))
           manual == ManualCharges(typed)
           Cost(lines) == BaseOf(lines) + TaxOf(lines)
<1>1. /\ ExtraKm(done) \in Nat /\ MissingFuel(done) \in Nat /\ DaysTooLate(done) \in Nat
    <2>1. [done EXCEPT !.back = done.back, !.levelBack = done.levelBack, !.actual = done.actual]
             = done
        BY DEF Return
    <2>2. done.back \in Nat /\ done.levelBack \in Nat /\ done.actual \in Int
        BY LevelsAreNumbers DEF Return
    <2>3. Worse(done, done)
        BY <2>1, <2>2 DEF Worse
    <2> QED BY <2>3, DistanceGrows, FuelGrows, LatenessGrows
<1>2. KmPrice \in Nat /\ LitrePrice \in Nat /\ done.daily \in Nat
    BY ChargesAssumption DEF Return
<1>3. km \in Seq(LineShape) /\ Cost(km) = Paid(KmCharge(done))
    <2>1. ExtraKm(done) * KmPrice \in Nat
        BY <1>1, <1>2
    <2>2. ExtraKm(done) = 0 => ExtraKm(done) * KmPrice = 0
        BY <1>2
    <2> QED BY <1>1, <2>1, <2>2, DueOrNothing DEF KmCharge
<1>4. fuel \in Seq(LineShape) /\ Cost(fuel) = Paid(FuelCharge(done))
    <2>1. MissingFuel(done) * LitrePrice \in Nat
        BY <1>1, <1>2
    <2>2. HalfUp(MissingFuel(done) * LitrePrice, 100) \in Nat
        BY <2>1, CentsGrow
    <2>3. MissingFuel(done) = 0 => HalfUp(MissingFuel(done) * LitrePrice, 100) = 0
        <3>1. HalfUp(0, 100) = 0
            BY DEF HalfUp
        <3>2. MissingFuel(done) = 0 => MissingFuel(done) * LitrePrice = 0
            BY <1>2
        <3> QED BY <3>1, <3>2
    <2> QED BY <1>1, <2>2, <2>3, DueOrNothing DEF FuelCharge
<1>5. late \in Seq(LineShape) /\ Cost(late) = Paid(LateCharge(done))
    <2>1. DaysTooLate(done) * done.daily \in Nat
        BY <1>1, <1>2
    <2>2. DaysTooLate(done) = 0 => DaysTooLate(done) * done.daily = 0
        BY <1>2
    <2> QED BY <1>1, <2>1, <2>2, DueOrNothing DEF LateCharge
<1>6. manual \in Seq(LineShape) /\ Cost(manual) = Sum(PaidByHand(typed))
    BY ManualChargesAddUp
<1>7. CheckoutCharges(done, typed) = ((km \o fuel) \o late) \o manual
    BY DEF CheckoutCharges
<1>8. ASSUME NEW s \in Seq(LineShape), NEW t \in Seq(LineShape)
      PROVE  s \o t \in Seq(LineShape) /\ Cost(s \o t) = Cost(s) + Cost(t)
    BY LinesAdd, LinesComeToNumbers
<1> HIDE DEF km, fuel, late, manual, Cost
<1>9. km \o fuel \in Seq(LineShape) /\ Cost(km \o fuel) = Cost(km) + Cost(fuel)
    BY <1>3, <1>4, <1>8
<1>10. /\ (km \o fuel) \o late \in Seq(LineShape)
       /\ Cost((km \o fuel) \o late) = Cost(km) + Cost(fuel) + Cost(late)
    BY <1>5, <1>8, <1>9
<1>11. Cost(((km \o fuel) \o late) \o manual) = Cost(km) + Cost(fuel) + Cost(late) + Cost(manual)
    BY <1>6, <1>8, <1>10
<1>12. Cost(CheckoutCharges(done, typed)) = ReturnCost(done) + Sum(PaidByHand(typed))
    BY <1>3, <1>4, <1>5, <1>6, <1>7, <1>11 DEF ReturnCost
<1> QED BY <1>12 DEF Cost

-----------------------------------------------------------------------------
(* The tiers in order *)

Sorted(list) ==
    \A m, n \in DOMAIN list : m < n => list[m] # list[n] /\ list[m].min <= list[n].min

\* A set of n tiers has a list, or there is none with n that has not.
Listed(set) == \E list \in [1..Cardinality(set) -> set] : Sorted(list)
Unlisted(n) == \E set \in SUBSET TierShape : IsFiniteSet(set) /\ Cardinality(set) = n /\ ~Listed(set)

\* The first of some tiers.
LEMMA FirstTier ==
    ASSUME NEW set \in SUBSET TierShape, set # {}
    PROVE  \E first \in set : \A other \in set : first.min <= other.min
<1> DEFINE starts == {tier.min : tier \in set}
<1>1. starts \in SUBSET Nat /\ starts # {}
    BY DEF TierShape
<1>2. PICK least \in starts : \A m \in starts : least <= m
    <2> HIDE DEF starts
    <2> QED BY <1>1, LeastNumber
<1>3. PICK first \in set : first.min = least
    BY <1>2
<1> QED BY <1>2, <1>3

LEMMA ListOfNone ==
    ASSUME NEW set, IsFiniteSet(set), Cardinality(set) = 0
    PROVE  Listed(set)
<1> DEFINE none == [k \in 1..0 |-> k]
<1>1. none \in [1..0 -> set] /\ DOMAIN none = {}
    OBVIOUS
<1> HIDE DEF none
<1>2. Sorted(none)
    BY <1>1 DEF Sorted
<1> QED BY <1>1, <1>2 DEF Listed

LEMMA ListOfOneMore ==
    ASSUME NEW set \in SUBSET TierShape, NEW n \in Nat \ {0},
           IsFiniteSet(set), Cardinality(set) = n, ~Unlisted(n - 1)
    PROVE  Listed(set)
<1>1. set # {}
    BY FS_EmptySet
<1>2. PICK first \in set : \A other \in set : first.min <= other.min
    BY <1>1, FirstTier
<1> DEFINE rest == set \ {first}
<1>3. IsFiniteSet(rest) /\ Cardinality(rest) = n - 1 /\ rest \in SUBSET TierShape
    BY FS_RemoveElement
<1>4. PICK list \in [1..(n - 1) -> rest] : Sorted(list)
    BY <1>3 DEF Unlisted, Listed
<1> DEFINE more == [k \in 1..n |-> IF k = 1 THEN first ELSE list[k - 1]]
<1>5. \A k \in 2..n : k - 1 \in 1..(n - 1) /\ k \in 1..n /\ k # 1
    OBVIOUS
<1>6. /\ more[1] = first /\ DOMAIN more = 1..n
      /\ \A k \in 2..n : more[k] = list[k - 1]
    BY <1>5
<1>7. more \in [1..n -> set]
    <2> SUFFICES ASSUME NEW k \in 1..n PROVE more[k] \in set
        OBVIOUS
    <2>1. CASE k = 1
        BY <2>1
    <2>2. CASE k # 1
        <3>1. k \in 2..n
            BY <2>2
        <3> QED BY <1>4, <1>5, <1>6, <3>1
    <2> QED BY <2>1, <2>2
<1> HIDE DEF more
<1>8. Sorted(more)
    <2> SUFFICES ASSUME NEW i \in 1..n, NEW j \in 1..n, i < j
                 PROVE  more[i] # more[j] /\ more[i].min <= more[j].min
        BY <1>6 DEF Sorted
    <2>1. j \in 2..n /\ j - 1 \in 1..(n - 1)
        OBVIOUS
    <2>2. more[j] = list[j - 1] /\ list[j - 1] \in rest
        BY <1>4, <1>6, <2>1
    <2>3. CASE i = 1
        BY <1>2, <1>6, <2>2, <2>3
    <2>4. CASE i # 1
        <3>1. i \in 2..n /\ i - 1 \in 1..(n - 1) /\ i - 1 < j - 1
            BY <2>4
        <3>2. more[i] = list[i - 1]
            BY <1>6, <3>1
        <3>3. list[i - 1] # list[j - 1] /\ list[i - 1].min <= list[j - 1].min
            BY <1>4, <2>1, <3>1 DEF Sorted
        <3> QED BY <2>2, <3>2, <3>3
    <2> QED BY <2>3, <2>4
<1> QED BY <1>7, <1>8 DEF Listed

\* Every finite set of tiers can be put in the order of its days.
LEMMA TiersAreListed ==
    ASSUME NEW set \in SUBSET TierShape, IsFiniteSet(set)
    PROVE  Listed(set)
<1> DEFINE bad == {n \in Nat : Unlisted(n)}
<1>1. bad = {}
    <2> SUFFICES ASSUME bad # {} PROVE FALSE
        OBVIOUS
    <2>1. PICK n \in bad : \A m \in bad : n <= m
        <3>1. bad \in SUBSET Nat
            OBVIOUS
        <3> HIDE DEF bad
        <3> QED BY <3>1, LeastNumber
    <2>2. PICK one \in SUBSET TierShape : IsFiniteSet(one) /\ Cardinality(one) = n /\ ~Listed(one)
        BY <2>1 DEF Unlisted
    <2>3. n # 0
        BY <2>2, ListOfNone
    <2>4. n \in Nat \ {0} /\ n - 1 \in Nat /\ n - 1 \notin bad
        BY <2>1, <2>3
    <2>5. ~Unlisted(n - 1)
        BY <2>4
    <2> QED BY <2>2, <2>4, <2>5, ListOfOneMore
<1>2. Cardinality(set) \in Nat
    BY FS_CardinalityType
<1>3. ~Unlisted(Cardinality(set))
    BY <1>1, <1>2
<1> QED BY <1>3 DEF Unlisted

Rows(ts) == {ts[i] : i \in DOMAIN ts}

\* TierList has all the tiers of a table, in order.
LEMMA TierListIsSorted ==
    ASSUME NEW ts, Rows(ts) \in SUBSET TierShape, IsFiniteSet(Rows(ts))
    PROVE  /\ Cardinality(Rows(ts)) \in Nat
           /\ TierList(ts) \in [1..Cardinality(Rows(ts)) -> Rows(ts)]
           /\ Sorted(TierList(ts))
           /\ \A tier \in Rows(ts) : \E k \in 1..Cardinality(Rows(ts)) : TierList(ts)[k] = tier
<1> DEFINE set == Rows(ts)
           n == Cardinality(set)
           list == TierList(ts)
<1>1. n \in Nat
    BY FS_CardinalityType
<1>2. Listed(set)
    BY TiersAreListed
<1>3. list \in [1..n -> set] /\ Sorted(list)
    <2>1. list = CHOOSE l \in [1..n -> set] : Sorted(l)
        BY DEF TierList, Rows, Sorted
    <2>2. \E l \in [1..n -> set] : Sorted(l)
        BY <1>2 DEF Listed
    <2> HIDE DEF n, set, list
    <2> QED BY <2>1, <2>2
<1> HIDE DEF list
<1>4. \A a, b \in 1..n : list[a] = list[b] => a = b
    <2> SUFFICES ASSUME NEW a \in 1..n, NEW b \in 1..n, a # b PROVE list[a] # list[b]
        OBVIOUS
    <2>1. a < b \/ b < a
        OBVIOUS
    <2> QED BY <1>3, <2>1 DEF Sorted
<1>5. list \in Injection(1..n, set)
    BY <1>3, <1>4 DEF Injection, IsInjective
<1>6. Cardinality(1..n) = n /\ IsFiniteSet(1..n)
    BY <1>1, FS_Interval
<1>7. list \in Surjection(1..n, set)
    BY <1>5, <1>6, FS_Injection
<1>8. \A tier \in set : \E k \in 1..n : list[k] = tier
    BY <1>7 DEF Surjection
<1> QED BY <1>1, <1>3, <1>8 DEF list

\* A list of tiers that follow one another, from the first day on for ever.
Chain(list, n) ==
    /\ n \in Nat \ {0} /\ list \in [1..n -> TierShape]
    /\ list[1].min = 1 /\ list[n].max = Open
    /\ \A k \in 1..n : list[k].min >= 1 /\ (list[k].max = Open \/ list[k].max >= list[k].min)
    /\ \A k \in 2..n : list[k - 1].max # Open /\ list[k].min = list[k - 1].max + 1

LEMMA TierListIsChain ==
    ASSUME NEW ts, Rows(ts) \in SUBSET TierShape, IsFiniteSet(Rows(ts)), TiersCover(ts)
    PROVE  Chain(TierList(ts), Cardinality(Rows(ts)))
<1> DEFINE set == Rows(ts)
           n == Cardinality(set)
           list == TierList(ts)
<1>1. /\ n \in Nat /\ list \in [1..n -> set] /\ Sorted(list)
      /\ \A tier \in set : \E k \in 1..n : list[k] = tier
    BY TierListIsSorted
<1>2. \A i \in DOMAIN ts : ts[i] \in TierShape /\ \E k \in 1..n : list[k] = ts[i]
    BY <1>1 DEF Rows
<1>3. \A k \in 1..n : \E i \in DOMAIN ts : list[k] = ts[i]
    BY <1>1 DEF Rows
<1>4. list \in [1..n -> TierShape]
    BY <1>1
<1> HIDE DEF list, n, set
<1>5. \A k \in 1..n : list[k].min \in Nat /\ list[k].max \in Nat
    BY <1>4 DEF TierShape
\* In order, and no two start on one day.
<1>6. ASSUME NEW a \in 1..n, NEW b \in 1..n, a < b PROVE list[a].min < list[b].min
    <2>1. list[a] # list[b] /\ list[a].min <= list[b].min
        BY <1>1, <1>6 DEF Sorted
    <2>2. PICK i \in DOMAIN ts : list[a] = ts[i]
        BY <1>3
    <2>3. PICK j \in DOMAIN ts : list[b] = ts[j]
        BY <1>3
    <2>4. ts[i].min # ts[j].min
        BY <2>1, <2>2, <2>3 DEF TiersCover
    <2> QED BY <1>5, <2>1, <2>2, <2>3, <2>4
<1>7. n \in Nat \ {0}
    <2>1. PICK i \in DOMAIN ts : TRUE
        BY DEF TiersCover
    <2>2. PICK k \in 1..n : list[k] = ts[i]
        BY <1>2
    <2> QED BY <1>1
<1>8. list[1].min = 1
    <2>1. PICK i \in DOMAIN ts : ts[i].min = 1
        BY DEF TiersCover
    <2>2. PICK k \in 1..n : list[k] = ts[i]
        BY <1>2
    <2>3. 1 \in 1..n
        BY <1>7
    <2>4. PICK j \in DOMAIN ts : list[1] = ts[j]
        BY <1>3, <2>3
    <2>5. list[1].min >= 1
        BY <2>4 DEF TiersCover
    <2>6. CASE k = 1
        BY <2>1, <2>2, <2>6
    <2>7. CASE k # 1
        <3>1. 1 < k
            BY <2>7
        <3>2. list[1].min < list[k].min
            BY <1>6, <2>3, <3>1
        <3> QED BY <1>5, <2>1, <2>2, <2>3, <2>5, <3>2
    <2> QED BY <2>6, <2>7
<1>9. list[n].max = Open
    <2>1. n \in 1..n
        BY <1>7
    <2>2. PICK i \in DOMAIN ts : list[n] = ts[i]
        BY <1>3, <2>1
    <2>3. ASSUME NEW j \in DOMAIN ts PROVE ts[j].min <= ts[i].min
        <3>1. PICK k \in 1..n : list[k] = ts[j]
            BY <1>2
        <3>2. k = n \/ k < n
            BY <1>7
        <3> QED BY <1>5, <1>6, <2>1, <2>2, <3>1, <3>2
    <2> QED BY <2>2, <2>3 DEF TiersCover
<1>10. ASSUME NEW k \in 1..n
       PROVE  list[k].min >= 1 /\ (list[k].max = Open \/ list[k].max >= list[k].min)
    <2>1. PICK i \in DOMAIN ts : list[k] = ts[i]
        BY <1>3
    <2> QED BY <2>1 DEF TiersCover
<1>11. ASSUME NEW k \in 2..n
       PROVE  list[k - 1].max # Open /\ list[k].min = list[k - 1].max + 1
    <2>1. k - 1 \in 1..n /\ k \in 1..n /\ k - 1 < k
        BY <1>7
    <2>2. PICK i \in DOMAIN ts : list[k - 1] = ts[i]
        BY <1>3, <2>1
    <2>3. PICK j \in DOMAIN ts : list[k] = ts[j]
        BY <1>3, <2>1
    <2>4. ts[i].min < ts[j].min
        BY <1>6, <2>1, <2>2, <2>3
    <2>5. ASSUME NEW other \in DOMAIN ts
          PROVE  ts[other].min <= ts[i].min \/ ts[j].min <= ts[other].min
        <3>1. PICK m \in 1..n : list[m] = ts[other]
            BY <1>2
        <3>2. m = k - 1 \/ m < k - 1 \/ m = k \/ k < m
            BY <2>1
        <3> QED BY <1>5, <1>6, <2>1, <2>2, <2>3, <3>1, <3>2
    <2>6. Follows(ts, i, j)
        BY <2>4, <2>5 DEF Follows
    <2> QED BY <2>2, <2>3, <2>6 DEF TiersCover
<1> QED BY <1>4, <1>7, <1>8, <1>9, <1>10, <1>11 DEF Chain, list, n, set

\* A day has one price: that of its tier.
LEMMA PriceOfTier ==
    ASSUME NEW ts, Rows(ts) \in SUBSET TierShape, TiersCover(ts),
           NEW tier \in Rows(ts), NEW d \in Nat \ {0}, Covers(tier, d)
    PROVE  PriceOf(ts, d) = tier.price
<1>1. IsTiers(ts)
    BY DEF IsTiers, Rows
<1>2. PICK i \in DOMAIN ts : tier = ts[i]
    BY DEF Rows
<1>3. \A other \in Rows(ts) : Covers(other, d) => other = tier
    BY <1>1, <1>2, OneTierAtMost DEF Rows
<1>4. (CHOOSE other \in Rows(ts) : Covers(other, d)) = tier
    BY <1>3
<1> QED BY <1>4 DEF PriceOf, Rows

-----------------------------------------------------------------------------
(* Days at one price *)

\* Over days of one price the sum grows by as much each.
LEMMA SumOfEqual ==
    ASSUME NEW n \in Nat, NEW s \in [1..n -> Int], NEW P, Running(P, s, n), NEW c \in Int,
           NEW a \in 0..n, NEW b \in a..n, \A d \in (a + 1)..b : s[d] = c
    PROVE  P[b] = P[a] + (b - a) * c
<1> DEFINE bad == {k \in 0..(b - a) : P[a + k] # P[a] + k * c}
<1>1. P \in [0..n -> Int] /\ \A k \in 1..n : P[k] = P[k - 1] + s[k]
    BY DEF Running
<1>2. a \in Nat /\ b \in Nat /\ a <= b /\ b <= n /\ b - a \in Nat /\ P[a] \in Int
    BY <1>1
<1>3. bad = {}
    <2> SUFFICES ASSUME bad # {} PROVE FALSE
        OBVIOUS
    <2>1. PICK k \in bad : \A m \in bad : k <= m
        <3>1. bad \in SUBSET Nat
            BY <1>2
        <3> HIDE DEF bad
        <3> QED BY <3>1, LeastNumber
    <2>2. k # 0
        <3>1. a + 0 = a /\ 0 * c = 0
            BY <1>2
        <3>2. P[a + 0] = P[a] + 0 * c
            BY <1>2, <3>1
        <3> QED BY <2>1, <3>2
    <2>3. k \in Nat /\ k \in 1..(b - a)
        BY <1>2, <2>1, <2>2
    <2>4. k - 1 \in 0..(b - a) /\ ~ (k <= k - 1)
        BY <1>2, <2>3
    <2>5. k - 1 \notin bad
        BY <2>1, <2>4
    <2>6. a + k \in 1..n /\ a + k \in (a + 1)..b /\ (a + k) - 1 = a + (k - 1)
        BY <1>2, <2>3
    <2>7. P[a + (k - 1)] = P[a] + (k - 1) * c
        BY <2>4, <2>5
    <2>8. P[a + k] = P[a + (k - 1)] + c
        BY <1>1, <2>6
    <2>9. (k - 1) * c + c = k * c /\ (k - 1) * c \in Int
        BY <2>3
    <2>10. P[a + k] = P[a] + k * c
        BY <1>2, <2>7, <2>8, <2>9
    <2> QED BY <2>1, <2>10
<1>4. b - a \in 0..(b - a) /\ a + (b - a) = b
    BY <1>2
<1>5. b - a \notin bad
    BY <1>3
<1>6. P[a + (b - a)] = P[a] + (b - a) * c
    BY <1>4, <1>5
<1> QED BY <1>4, <1>6

-----------------------------------------------------------------------------
(* The parts of a rental *)

\* One part more is one line more, and its days.
LEMMA OnePartMore ==
    ASSUME NEW parts \in Seq(PartShape), NEW part \in PartShape
    PROVE  /\ Append(parts, part) \in Seq(PartShape)
           /\ BaseOf(RentalLines(Append(parts, part)))
                 = BaseOf(RentalLines(parts)) + part.days * part.price
           /\ DaysOf(Append(parts, part)) = DaysOf(parts) + part.days
           /\ DaysOf(parts) \in Int
<1> DEFINE n == Len(parts)
           more == Append(parts, part)
           line == Line(part.days * part.price, TaxRate)
           days(some) == [k \in DOMAIN some |-> some[k].days]
           last == [k \in 1..1 |-> part.days]
<1>1. /\ n \in Nat /\ DOMAIN parts = 1..n
      /\ more \in Seq(PartShape) /\ DOMAIN more = 1..(n + 1) /\ more[n + 1] = part
      /\ \A k \in 1..n : more[k] = parts[k]
    OBVIOUS
<1>2. part.days \in Nat /\ part.price \in Nat /\ part.days * part.price \in Int
    BY DEF PartShape
<1>3. line \in LineShape /\ line.base = part.days * part.price
    BY <1>2, ChargesAssumption, LinesAreLines
<1>4. RentalLines(parts) \in Seq(LineShape) /\ RentalLines(more) \in Seq(LineShape)
    BY <1>1, RentalIsPaid
<1> HIDE DEF line
<1>5. RentalLines(more) = Append(RentalLines(parts), line)
    <2> DEFINE a == RentalLines(more)
               b == RentalLines(parts)
               c == Append(b, line)
    <2>1. DOMAIN a = 1..(n + 1) /\ DOMAIN b = 1..n
        BY <1>1 DEF RentalLines
    <2>2. ASSUME NEW k \in 1..n PROVE a[k] = b[k]
        <3>1. k \in 1..(n + 1)
            BY <1>1
        <3> HIDE DEF more
        <3> QED BY <1>1, <3>1 DEF RentalLines
    <2>3. a[n + 1] = line
        <3>1. n + 1 \in 1..(n + 1)
            BY <1>1
        <3> HIDE DEF more
        <3> QED BY <1>1, <3>1 DEF RentalLines, line
    <2> HIDE DEF a, b, more, n
    <2>4. Len(b) = n /\ a \in Seq(LineShape) /\ b \in Seq(LineShape)
        BY <1>1, <1>4, <2>1 DEF a, b
    <2>5. /\ c \in Seq(LineShape) /\ Len(c) = n + 1 /\ c[n + 1] = line
          /\ \A k \in 1..n : c[k] = b[k]
        BY <1>3, <2>4
    <2> HIDE DEF c
    <2>6. \A k \in 1..(n + 1) : a[k] = c[k]
        BY <1>1, <2>2, <2>3, <2>5
    <2>7. Len(a) = n + 1
        BY <1>1, <2>1, <2>4
    <2>8. a = c
        BY <2>4, <2>5, <2>6, <2>7
    <2> QED BY <2>8 DEF a, b, c
<1>6. BaseOf(RentalLines(more)) = BaseOf(RentalLines(parts)) + line.base
    BY <1>3, <1>4, <1>5, OneLineMore
<1>7. /\ days(parts) \in [1..n -> Int] /\ days(more) \in [1..(n + 1) -> Int]
      /\ last \in [1..1 -> Int]
    <2>1. ASSUME NEW k \in 1..(n + 1) PROVE more[k].days \in Int
        <3>1. more[k] \in PartShape
            BY <1>1
        <3> QED BY <3>1 DEF PartShape
    <2>2. ASSUME NEW k \in 1..n PROVE parts[k].days \in Int
        <3>1. parts[k] \in PartShape
            BY <1>1
        <3> QED BY <3>1 DEF PartShape
    <2> QED BY <1>1, <1>2, <2>1, <2>2
<1>8. Sum(days(more)) = Sum(days(parts)) + Sum(last)
    <2> DEFINE u == days(more)
               s == days(parts)
    <2>1. \A k \in 1..n : u[k] = s[k]
        BY <1>1
    <2>2. \A k \in 1..1 : u[n + k] = last[k]
        BY <1>1
    <2>3. 1 \in Nat
        OBVIOUS
    <2> HIDE DEF u, s, last, n
    <2> QED BY <1>1, <1>7, <2>1, <2>2, <2>3, SumOfTwo DEF u, s
<1>9. Sum(last) = part.days
    <2>1. last[1] = part.days
        OBVIOUS
    <2> HIDE DEF last
    <2> QED BY <1>7, <2>1, SumOfOne
<1>10. Sum(days(parts)) \in Int
    BY <1>1, <1>7, SumIsANumber
<1>11. DaysOf(more) = Sum(days(more)) /\ DaysOf(parts) = Sum(days(parts))
    BY DEF DaysOf
<1> HIDE DEF days, last
<1> QED BY <1>1, <1>3, <1>6, <1>8, <1>9, <1>10, <1>11

LEMMA NoParts ==
    /\ <<>> \in Seq(PartShape) /\ BaseOf(RentalLines(<<>>)) = 0 /\ DaysOf(<<>>) = 0
<1> DEFINE none == [k \in DOMAIN <<>> |-> <<>>[k].days]
<1>1. RentalLines(<<>>) = <<>>
    BY DEF RentalLines
<1>2. none \in [1..0 -> Int]
    OBVIOUS
<1>3. Sum(none) = 0
    <2> HIDE DEF none
    <2> QED BY <1>2, SumOfNone
<1>4. DaysOf(<<>>) = Sum(none)
    BY DEF DaysOf
<1> QED BY <1>1, <1>3, <1>4, NoLines

\* Days of one price are paid all alike.
LEMMA SumOfAlike ==
    ASSUME NEW days \in Nat, NEW c \in Nat
    PROVE  Sum([d \in 1..days |-> c]) = days * c
<1> DEFINE s == [d \in 1..days |-> c]
<1>1. s \in [1..days -> Int] /\ \A d \in (0 + 1)..days : s[d] = c
    OBVIOUS
<1> HIDE DEF s
<1>2. PICK P : Running(P, s, days) /\ Sum(s) = P[days]
    BY <1>1, SumRuns
<1>3. c \in Int /\ 0 \in 0..days /\ days \in 0..days
    OBVIOUS
<1>4. P[days] = P[0] + (days - 0) * c
    BY <1>1, <1>2, <1>3, SumOfEqual
<1>5. P[0] = 0
    BY <1>2 DEF Running
<1>6. days - 0 = days /\ days * c \in Nat
    OBVIOUS
<1> QED BY <1>2, <1>4, <1>5, <1>6 DEF s

\* At the price of the whole length, a rental has one part.
LEMMA FlatIsByTheDay ==
    ASSUME NEW ts, Rows(ts) \in SUBSET TierShape, IsFiniteSet(Rows(ts)), TiersCover(ts),
           NEW days \in Nat \ {0}
    PROVE  /\ FlatAllocation(ts, days) \in Seq(PartShape) /\ FlatAllocation(ts, days) # <<>>
           /\ BaseOf(RentalLines(FlatAllocation(ts, days)))
                 = Sum([d \in 1..days |-> PriceOf(ts, days)])
<1> DEFINE list == TierList(ts)
           n == Cardinality(Rows(ts))
           fit == {k \in DOMAIN list : Covers(list[k], days)}
<1>1. /\ n \in Nat /\ list \in [1..n -> Rows(ts)]
      /\ \A tier \in Rows(ts) : \E k \in 1..n : list[k] = tier
    BY TierListIsSorted
<1>2. FlatAllocation(ts, days) = IF fit = {} THEN <<>> ELSE <<Part(list[Min(fit)], days)>>
    BY DEF FlatAllocation
<1> HIDE DEF list, n
<1>3. PICK i \in DOMAIN ts : Covers(ts[i], days)
    <2>1. IsTiers(ts)
        BY DEF IsTiers, Rows
    <2> QED BY <2>1, OneTierAtLeast
<1>4. PICK k \in 1..n : list[k] = ts[i]
    BY <1>1 DEF Rows
<1>5. k \in fit
    BY <1>1, <1>3, <1>4
<1>6. Min(fit) \in fit
    <2>1. fit \in SUBSET Nat
        BY <1>1
    <2> HIDE DEF fit
    <2>2. \E x \in fit : \A y \in fit : x <= y
        BY <1>5, <2>1, LeastNumber
    <2> QED BY <2>2 DEF Min
<1> DEFINE tier == list[Min(fit)]
<1>7. tier \in Rows(ts) /\ Covers(tier, days)
    <2>1. Min(fit) \in 1..n
        BY <1>1, <1>6
    <2> QED BY <1>1, <1>6, <2>1
<1> HIDE DEF tier, fit
<1>8. PriceOf(ts, days) = tier.price /\ tier.price \in Nat
    BY <1>7, PriceOfTier DEF TierShape
<1> DEFINE part == Part(tier, days)
<1>9. part \in PartShape /\ part.days = days /\ part.price = tier.price
    BY <1>8 DEF Part, PartShape
<1> HIDE DEF part
<1>10. FlatAllocation(ts, days) = <<part>>
    BY <1>2, <1>5 DEF tier, part
<1>11. <<part>> = Append(<<>>, part)
    OBVIOUS
<1>12. /\ Append(<<>>, part) \in Seq(PartShape)
       /\ BaseOf(RentalLines(Append(<<>>, part)))
             = BaseOf(RentalLines(<<>>)) + part.days * part.price
    BY <1>9, NoParts, OnePartMore
<1>13. BaseOf(RentalLines(<<part>>)) = days * tier.price
    <2>1. days * tier.price \in Nat
        BY <1>8
    <2> QED BY <1>9, <1>11, <1>12, <2>1, NoParts
<1>14. Sum([d \in 1..days |-> PriceOf(ts, days)]) = days * tier.price
    BY <1>8, SumOfAlike
<1>15. <<part>> # <<>>
    OBVIOUS
<1> QED BY <1>10, <1>11, <1>12, <1>13, <1>14, <1>15

\* The days that the first k tiers of a list have had.
Shared(list, k, days) ==
    IF k = 0 THEN 0
    ELSE IF list[k].max = Open \/ days < list[k].max THEN days ELSE list[k].max

\* A tier has the days from where the earlier ones left them.
LEMMA TiersShareTheDays ==
    ASSUME NEW list, NEW n, Chain(list, n), NEW days \in Nat \ {0}, NEW k \in 1..n
    PROVE  LET before == Shared(list, k - 1, days)
               after == Shared(list, k, days)
           IN /\ before \in 0..days /\ after \in before..days
              /\ DaysWithin(list[k], days) = after - before
              /\ \A d \in (before + 1)..after : Covers(list[k], d)
<1>1. /\ n \in Nat \ {0} /\ k \in 1..n /\ list[1].min = 1
      /\ list[k].min >= 1 /\ (list[k].max = Open \/ list[k].max >= list[k].min)
    BY DEF Chain
<1>2. list[k].min \in Nat /\ list[k].max \in Nat
    <2>1. list[k] \in TierShape
        BY DEF Chain
    <2> QED BY <2>1 DEF TierShape
<1> DEFINE after == Shared(list, k, days)
           before == Shared(list, k - 1, days)
<1>3. after = IF list[k].max = Open \/ days < list[k].max THEN days ELSE list[k].max
    BY <1>1 DEF Shared
<1>4. before = IF days < list[k].min THEN days ELSE list[k].min - 1
    <2>1. CASE k = 1
        BY <1>1, <2>1 DEF Shared
    <2>2. CASE k # 1
        <3>1. k \in 2..n /\ k - 1 \in 1..n /\ k - 1 # 0
            BY <1>1, <2>2
        <3>2. list[k - 1].max # Open /\ list[k].min = list[k - 1].max + 1
            BY <3>1 DEF Chain
        <3>3. list[k - 1].max \in Nat
            <4>1. list[k - 1] \in TierShape
                BY <3>1 DEF Chain
            <4> QED BY <4>1 DEF TierShape
        <3>4. before = IF list[k - 1].max = Open \/ days < list[k - 1].max THEN days
                       ELSE list[k - 1].max
            BY <3>1 DEF Shared
        <3> HIDE DEF before
        <3> QED BY <3>2, <3>3, <3>4
    <2> QED BY <2>1, <2>2
<1> HIDE DEF before, after
<1>5. before \in 0..days /\ after \in before..days
    BY <1>1, <1>2, <1>3, <1>4
<1>6. DaysWithin(list[k], days) = after - before
    BY <1>1, <1>2, <1>3, <1>4 DEF DaysWithin
<1>7. \A d \in (before + 1)..after : Covers(list[k], d)
    BY <1>1, <1>2, <1>3, <1>4 DEF Covers
<1> QED BY <1>5, <1>6, <1>7 DEF before, after

LEMMA SharesArePaths ==
    ASSUME NEW ts, NEW n, Chain(TierList(ts), n), NEW days \in Nat \ {0}
    PROVE  \E P :
              /\ P \in [0..n -> Seq(PartShape)] /\ P[0] = <<>>
              /\ \A k \in 1..n : P[k] = Share(P[k - 1], TierList(ts)[k], days)
              /\ ProgressiveAllocation(ts, days) = IF DaysOf(P[n]) = days THEN P[n] ELSE <<>>
<1> DEFINE A == Seq(PartShape)
           list == TierList(ts)
           step == [x \in A \X (1..n) |-> Share(x[1], list[x[2]], days)]
           Folds(g) == g = [set \in SUBSET DOMAIN list |->
                               IF set = {} THEN <<>>
                               ELSE Share(g[set \ {Max(set)}], list[Max(set)], days)]
           all == CHOOSE g : Folds(g)
           P == [k \in 0..n |-> all[1..k]]
<1>1. n \in Nat \ {0} /\ n \in Nat /\ list \in [1..n -> TierShape] /\ DOMAIN list = 1..n
    BY DEF Chain
<1>2. ProgressiveAllocation(ts, days) = IF DaysOf(all[1..n]) = days THEN all[1..n] ELSE <<>>
    BY <1>1 DEF ProgressiveAllocation, FoldLeft, MapThenFoldSet
<1> HIDE DEF list
<1>3. <<>> \in A
    BY NoParts
<1>4. ASSUME NEW parts \in A, NEW k \in 1..n PROVE Share(parts, list[k], days) \in A
    <2> DEFINE within == DaysWithin(list[k], days)
               part == Part(list[k], within)
    <2>1. list[k].price \in Nat
        <3>1. list[k] \in TierShape
            BY <1>1
        <3> QED BY <3>1 DEF TierShape
    <2>2. within \in Int
        <3>1. DaysWithin(TierList(ts)[k], days)
                 = Shared(TierList(ts), k, days) - Shared(TierList(ts), k - 1, days)
            BY TiersShareTheDays
        <3>2. Shared(TierList(ts), k, days) \in Int /\ Shared(TierList(ts), k - 1, days) \in Int
            BY TiersShareTheDays
        <3> QED BY <3>1, <3>2 DEF list
    <2>3. Share(parts, list[k], days) = IF within > 0 THEN Append(parts, part) ELSE parts
        BY DEF Share
    <2> HIDE DEF within
    <2>4. CASE within > 0
        <3>1. part \in PartShape
            BY <2>1, <2>2, <2>4 DEF Part, PartShape
        <3> HIDE DEF part
        <3> QED BY <2>3, <2>4, <3>1, OnePartMore
    <2> QED BY <2>3, <2>4
<1>5. step \in [A \X (1..n) -> A]
    BY <1>4
<1>6. \A parts \in A, k \in 1..n : step[<<parts, k>>] = Share(parts, list[k], days)
    OBVIOUS
<1> HIDE DEF step, A
<1>7. \E g : Folds(g)
    <2>1. PICK g \in [SUBSET (1..n) -> A] : Recurs(g, n, <<>>, step)
        BY <1>1, <1>3, <1>5, FoldExists
    <2>2. ASSUME NEW set \in SUBSET (1..n)
          PROVE  g[set] = IF set = {} THEN <<>>
                          ELSE Share(g[set \ {Max(set)}], list[Max(set)], days)
        <3>1. CASE set = {}
            BY <2>1, <3>1 DEF Recurs
        <3>2. CASE set # {}
            <4>1. Max(set) \in 1..n
                BY <1>1, <3>2, GreatestOne
            <4>2. g[set \ {Max(set)}] \in A
                OBVIOUS
            <4> QED BY <1>6, <2>1, <3>2, <4>1, <4>2 DEF Recurs
        <3> QED BY <3>1, <3>2
    <2>3. Folds(g)
        BY <1>1, <2>2
    <2> QED BY <2>3
<1>8. Folds(all)
    BY <1>7
<1> HIDE DEF all
<1>9. all[{}] = <<>>
    BY <1>8
<1>10. \A k \in 1..n : all[1..(k - 1)] \in A => all[1..k] = step[<<all[1..(k - 1)], k>>]
    <2> SUFFICES ASSUME NEW k \in 1..n, all[1..(k - 1)] \in A
                 PROVE  all[1..k] = step[<<all[1..(k - 1)], k>>]
        OBVIOUS
    <2>1. 1..k \in SUBSET DOMAIN list /\ k \in Nat \ {0}
        BY <1>1
    <2>2. 1..k # {} /\ Max(1..k) = k /\ (1..k) \ {Max(1..k)} = 1..(k - 1)
        BY <2>1, GreatestOfPrefix
    <2>3. all[1..k] = Share(all[(1..k) \ {Max(1..k)}], list[Max(1..k)], days)
        BY <1>8, <2>1, <2>2
    <2> QED BY <1>6, <2>2, <2>3
<1>11. IsPath(P, n, A, <<>>, step)
    BY <1>1, <1>3, <1>5, <1>9, <1>10, FoldIsPath
<1>12. P[n] = all[1..n]
    BY <1>1
<1> HIDE DEF P
<1>13. P \in [0..n -> A] /\ P[0] = <<>>
    BY <1>11 DEF IsPath
<1>14. ASSUME NEW k \in 1..n PROVE P[k] = Share(P[k - 1], list[k], days)
    <2>1. k - 1 \in 0..n
        BY <1>1
    <2>2. P[k - 1] \in A
        BY <1>13, <2>1
    <2> QED BY <1>6, <1>11, <2>2 DEF IsPath
<1> QED BY <1>2, <1>12, <1>13, <1>14 DEF A, list

LEMMA PricesAreNumbers ==
    ASSUME NEW ts, Rows(ts) \in SUBSET TierShape, TiersCover(ts), NEW days \in Nat
    PROVE  [d \in 1..days |-> PriceOf(ts, d)] \in [1..days -> Int]
<1> SUFFICES ASSUME NEW d \in 1..days PROVE PriceOf(ts, d) \in Int
    OBVIOUS
<1>1. IsTiers(ts) /\ d \in Nat \ {0}
    BY DEF IsTiers, Rows
<1>2. PICK i \in DOMAIN ts : Covers(ts[i], d)
    BY <1>1, OneTierAtLeast
<1>3. ts[i] \in Rows(ts) /\ ts[i] \in TierShape
    BY DEF Rows
<1>4. PriceOf(ts, d) = ts[i].price
    BY <1>1, <1>2, <1>3, PriceOfTier
<1> QED BY <1>3, <1>4 DEF TierShape

\* The days of a tier are of its price.
LEMMA DaysOfATier ==
    ASSUME NEW ts, Rows(ts) \in SUBSET TierShape, TiersCover(ts), NEW tier \in Rows(ts),
           NEW days \in Nat, NEW W, Running(W, [d \in 1..days |-> PriceOf(ts, d)], days),
           NEW before \in 0..days, NEW after \in before..days,
           \A d \in (before + 1)..after : Covers(tier, d)
    PROVE  W[after] = W[before] + (after - before) * tier.price
<1> DEFINE prices == [d \in 1..days |-> PriceOf(ts, d)]
           price == tier.price
<1>1. prices \in [1..days -> Int]
    BY PricesAreNumbers
<1>2. price \in Int
    BY DEF TierShape
<1>3. ASSUME NEW d \in (before + 1)..after PROVE prices[d] = price
    <2>1. d \in 1..days /\ d \in Nat \ {0}
        OBVIOUS
    <2>2. PriceOf(ts, d) = tier.price
        BY <2>1, PriceOfTier
    <2> QED BY <2>1, <2>2
<1> HIDE DEF prices, price
<1>4. Running(W, prices, days)
    BY DEF prices
<1>5. W[after] = W[before] + (after - before) * price
    BY ONLY <1>1, <1>2, <1>3, <1>4, SumOfEqual
<1> QED BY <1>5 DEF price

\* What the first k tiers have had, and what it costs, W being the days added up one by one.
PaidUpTo(P, W, list, k, days) ==
    DaysOf(P[k]) = Shared(list, k, days) /\ BaseOf(RentalLines(P[k])) = W[Shared(list, k, days)]

LEMMA OneTierMore ==
    ASSUME NEW ts, NEW n, Rows(ts) \in SUBSET TierShape, TiersCover(ts),
           Chain(TierList(ts), n), \A k \in 1..n : TierList(ts)[k] \in Rows(ts),
           NEW days \in Nat \ {0}, NEW P \in [0..n -> Seq(PartShape)],
           \A k \in 1..n : P[k] = Share(P[k - 1], TierList(ts)[k], days),
           NEW W, Running(W, [d \in 1..days |-> PriceOf(ts, d)], days),
           NEW k \in 1..n, PaidUpTo(P, W, TierList(ts), k - 1, days)
    PROVE  PaidUpTo(P, W, TierList(ts), k, days)
<1> DEFINE list == TierList(ts)
           tier == list[k]
           before == Shared(list, k - 1, days)
           after == Shared(list, k, days)
           part == Part(tier, after - before)
<1>1. /\ before \in 0..days /\ after \in before..days /\ DaysWithin(tier, days) = after - before
      /\ \A d \in (before + 1)..after : Covers(tier, d)
    BY TiersShareTheDays
<1>2. tier \in Rows(ts) /\ tier.price \in Nat
    BY DEF TierShape
<1>3. n \in Nat /\ k - 1 \in 0..n
    BY DEF Chain
<1>4. P[k - 1] \in Seq(PartShape)
    BY <1>3
<1>5. P[k] = IF after - before > 0 THEN Append(P[k - 1], part) ELSE P[k - 1]
    BY <1>1 DEF Share
<1>6. DaysOf(P[k - 1]) = before /\ BaseOf(RentalLines(P[k - 1])) = W[before]
    BY DEF PaidUpTo
<1> HIDE DEF list, tier, before, after
<1>7. before \in Nat /\ after \in Nat /\ after - before \in Nat
    BY <1>1
<1>8. CASE ~ (after - before > 0)
    <2>1. after = before
        BY <1>1, <1>7, <1>8
    <2> QED BY <1>5, <1>6, <1>8, <2>1 DEF PaidUpTo, after, list
<1>9. CASE after - before > 0
    <2>1. part \in PartShape /\ part.days = after - before /\ part.price = tier.price
        BY <1>2, <1>7 DEF Part, PartShape
    <2> HIDE DEF part
    <2>2. /\ BaseOf(RentalLines(P[k])) = W[before] + (after - before) * tier.price
          /\ DaysOf(P[k]) = before + (after - before)
        BY <1>4, <1>5, <1>6, <1>9, <2>1, OnePartMore
    <2>3. W[after] = W[before] + (after - before) * tier.price
        BY <1>1, <1>2, DaysOfATier
    <2>4. DaysOf(P[k]) = after
        BY <1>7, <2>2
    <2> QED BY <2>2, <2>3, <2>4 DEF PaidUpTo, after, list
<1> QED BY <1>8, <1>9

\* Tier by tier, a rental costs what its days cost one by one.
LEMMA ProgressiveIsByTheDay ==
    ASSUME NEW ts, Rows(ts) \in SUBSET TierShape, IsFiniteSet(Rows(ts)), TiersCover(ts),
           NEW days \in Nat \ {0}
    PROVE  /\ ProgressiveAllocation(ts, days) \in Seq(PartShape)
           /\ ProgressiveAllocation(ts, days) # <<>>
           /\ BaseOf(RentalLines(ProgressiveAllocation(ts, days)))
                 = Sum([d \in 1..days |-> PriceOf(ts, d)])
<1> DEFINE list == TierList(ts)
           n == Cardinality(Rows(ts))
           prices == [d \in 1..days |-> PriceOf(ts, d)]
<1>1. Chain(list, n) /\ \A k \in 1..n : list[k] \in Rows(ts)
    BY TierListIsSorted, TierListIsChain
<1> HIDE DEF n
<1>2. n \in Nat \ {0} /\ n \in Nat
    BY <1>1 DEF Chain
<1>3. PICK P : /\ P \in [0..n -> Seq(PartShape)] /\ P[0] = <<>>
               /\ \A k \in 1..n : P[k] = Share(P[k - 1], TierList(ts)[k], days)
               /\ ProgressiveAllocation(ts, days) = IF DaysOf(P[n]) = days THEN P[n] ELSE <<>>
    BY <1>1, SharesArePaths
<1>4. prices \in [1..days -> Int]
    BY PricesAreNumbers
<1>5. PICK W : Running(W, prices, days) /\ Sum(prices) = W[days]
    <2> HIDE DEF prices
    <2>1. days \in Nat
        OBVIOUS
    <2> QED BY <1>4, <2>1, SumRuns
<1> DEFINE bad == {k \in 0..n : ~PaidUpTo(P, W, list, k, days)}
<1>6. PaidUpTo(P, W, list, 0, days)
    <2>1. W[0] = 0 /\ Shared(list, 0, days) = 0
        BY <1>5 DEF Running, Shared
    <2> QED BY <1>3, <2>1, NoParts DEF PaidUpTo
<1>7. bad = {}
    <2> SUFFICES ASSUME bad # {} PROVE FALSE
        OBVIOUS
    <2>1. PICK k \in bad : \A m \in bad : k <= m
        <3>1. bad \in SUBSET Nat
            BY <1>2
        <3> HIDE DEF bad
        <3> QED BY <3>1, LeastNumber
    <2>2. k # 0
        BY <1>6, <2>1
    <2>3. k \in 1..n /\ k - 1 \in 0..n /\ k - 1 \notin bad
        BY <1>2, <2>1, <2>2
    <2>4. PaidUpTo(P, W, list, k - 1, days)
        BY <2>3
    <2>5. PaidUpTo(P, W, list, k, days)
        BY <1>1, <1>3, <1>5, <2>3, <2>4, OneTierMore
    <2> QED BY <2>1, <2>5
<1>8. n \in 0..n /\ PaidUpTo(P, W, list, n, days)
    BY <1>2, <1>7
<1>9. Shared(list, n, days) = days
    BY <1>1, <1>2 DEF Chain, Shared
<1>10. DaysOf(P[n]) = days /\ BaseOf(RentalLines(P[n])) = W[days]
    BY <1>8, <1>9 DEF PaidUpTo
<1>11. ProgressiveAllocation(ts, days) = P[n] /\ P[n] \in Seq(PartShape)
    BY <1>3, <1>8, <1>10
<1>12. P[n] # <<>>
    BY <1>10, NoParts
<1> QED BY <1>5, <1>10, <1>11, <1>12

\* "El reparto tiene que sumar los dias exactos" (tier_allocation): over a table that
\* validate_tiers accepts there are always parts for the days of a rental, and they come to
\* what its days cost one by one.
THEOREM AllocationsAreByTheDay ==
    ASSUME NEW ts, Rows(ts) \in SUBSET TierShape, IsFiniteSet(Rows(ts)), TiersCover(ts),
           NEW mode, NEW days \in Nat \ {0}
    PROVE  LET parts == Allocation(mode, ts, days)
           IN /\ parts \in Seq(PartShape) /\ parts # <<>>
              /\ BaseOf(RentalLines(parts)) = DayByDay(mode, ts, days)
<1>1. CASE mode = "progressive"
    <2>1. Allocation(mode, ts, days) = ProgressiveAllocation(ts, days)
        BY <1>1 DEF Allocation
    <2>2. DayByDay(mode, ts, days) = Sum([d \in 1..days |-> PriceOf(ts, d)])
        BY <1>1 DEF DayByDay
    <2> QED BY <2>1, <2>2, ProgressiveIsByTheDay
<1>2. CASE mode # "progressive"
    <2>1. Allocation(mode, ts, days) = FlatAllocation(ts, days)
        BY <1>2 DEF Allocation
    <2>2. DayByDay(mode, ts, days) = Sum([d \in 1..days |-> PriceOf(ts, days)])
        BY <1>2 DEF DayByDay
    <2> QED BY <2>1, <2>2, FlatIsByTheDay
<1> QED BY <1>1, <1>2

-----------------------------------------------------------------------------
(* The catalogue: the invariant *)

\* The tiers of every rate have been accepted.
TablesCover == \A r \in DOMAIN tiers : TiersCover(tiers[r])

\* What a transaction has looked at is what it will commit.
WrittenCover ==
    \A e \in Editor :
       form[e].at = "written" => TiersCover(After(TiersOf(form[e].rate), form[e].writes))

\* The number of a new rate has one form; a copy is of a rate that there is.
NewOnce ==
    \A e, f \in Editor :
       /\ form[e].at # "closed" /\ form[f].at # "closed" /\ form[e].rate = form[f].rate =>
             e = f \/ form[e].rate \in DOMAIN rate
Copies ==
    \A e \in Editor :
       form[e].at = "copy" => form[e].rate \notin DOMAIN rate /\ form[e].of \in DOMAIN rate

Inv == TypeOK /\ TablesCover /\ WrittenCover /\ NewOnce /\ Copies

-----------------------------------------------------------------------------
(* Tables *)

LEMMA AfterIsTable ==
    ASSUME NEW ts, IsTable(ts, TierChoices), NEW writes, IsTable(writes, TierChoices \cup {Gone})
    PROVE  IsTable(After(ts, writes), TierChoices)
<1> DEFINE left == (DOMAIN ts \cup DOMAIN writes) \ {k \in DOMAIN writes : writes[k] = Gone}
<1>1. DOMAIN After(ts, writes) = left
    BY DEF After
<1>2. ASSUME NEW i \in left PROVE After(ts, writes)[i] \in TierChoices
    BY <1>2 DEF After, IsTable
<1> QED BY <1>1, <1>2 DEF IsTable

LEMMA ChangedIsTable ==
    ASSUME NEW ts, IsTable(ts, TierChoices), NEW set \in SUBSET TierChoices,
           NEW plan \in [DOMAIN ts -> set \cup {Gone}]
    PROVE  IsTable(Changed(ts, plan), TierChoices \cup {Gone})
BY DEF IsTable, Changed

LEMMA InsertedIsTable ==
    ASSUME edits \in Nat, edits < MaxEdits, NEW added \in SUBSET TierChoices
    PROVE  IsTable(Inserted(added), TierChoices)
<1> DEFINE new == {<<edits + 1, tier.min>> : tier \in added}
<1>1. DOMAIN Inserted(added) = new
    BY DEF Inserted
<1>2. new \subseteq RowNumber
    <2>1. \A tier \in added : tier.min \in Nat
        BY CatalogAssumption DEF TierShape
    <2>2. edits + 1 \in 0..MaxEdits
        BY CatalogAssumption
    <2> QED BY <2>1, <2>2 DEF RowNumber
<1>3. ASSUME NEW i \in new PROVE Inserted(added)[i] \in TierChoices
    <2>1. \E tier \in added : i = <<edits + 1, tier.min>>
        OBVIOUS
    <2>2. Inserted(added)[i] = CHOOSE tier \in added : i = <<edits + 1, tier.min>>
        BY DEF Inserted
    <2> QED BY <2>1, <2>2
<1> QED BY <1>1, <1>2, <1>3 DEF IsTable

LEMMA BothAreTable ==
    ASSUME NEW rows, NEW f, NEW g, IsTable(f, rows), IsTable(g, rows)
    PROVE  IsTable(Join(f, g), rows)
BY DEF IsTable, Join

\* What a form writes is rows of tiers and rows to delete.
LEMMA FormSetIsTables ==
    ASSUME edits \in Nat, edits < MaxEdits, NEW ts, IsTable(ts, TierChoices),
           NEW writes \in FormSet(ts)
    PROVE  IsTable(writes, TierChoices \cup {Gone})
<1>1. PICK set \in Partitions :
         \E plan \in {p \in [DOMAIN ts -> set \cup {Gone}] :
                         \A i, j \in DOMAIN ts : p[i] = p[j] => i = j \/ p[i] = Gone} :
            writes = Join(Changed(ts, plan), Inserted(set \ {plan[i] : i \in DOMAIN ts}))
    BY DEF FormSet
<1>2. PICK plan \in [DOMAIN ts -> set \cup {Gone}] :
         writes = Join(Changed(ts, plan), Inserted(set \ {plan[i] : i \in DOMAIN ts}))
    BY <1>1
<1>3. set \in SUBSET TierChoices
    BY DEF Partitions
<1>4. IsTable(Changed(ts, plan), TierChoices \cup {Gone})
    BY <1>3, ChangedIsTable
<1>5. IsTable(Inserted(set \ {plan[i] : i \in DOMAIN ts}), TierChoices \cup {Gone})
    <2>1. set \ {plan[i] : i \in DOMAIN ts} \in SUBSET TierChoices
        BY <1>3
    <2>2. IsTable(Inserted(set \ {plan[i] : i \in DOMAIN ts}), TierChoices)
        BY <2>1, InsertedIsTable
    <2> QED BY <2>2 DEF IsTable
<1> QED BY <1>2, <1>4, <1>5, BothAreTable

-----------------------------------------------------------------------------
(* Init *)

LEMMA InitInv == Init => Inv
<1> SUFFICES ASSUME Init PROVE Inv
    OBVIOUS
<1>1. PICK start \in Initial : /\ rate = [r \in DOMAIN start |-> start[r].row]
                              /\ tiers = [r \in DOMAIN start |-> start[r].tiers]
    BY DEF Init
<1>2. /\ DOMAIN start \subseteq Rate
      /\ \A r \in DOMAIN start :
            /\ start[r].row \in Row
            /\ IsTable(start[r].tiers, TierChoices) /\ TiersCover(start[r].tiers)
    BY CatalogAssumption DEF Row
<1>3. /\ DOMAIN rate = DOMAIN start /\ DOMAIN tiers = DOMAIN start
      /\ \A r \in DOMAIN start : rate[r] = start[r].row /\ tiers[r] = start[r].tiers
    BY <1>1
<1>4. DOMAIN form = Editor /\ \A e \in Editor : form[e] = Closed
    BY DEF Init
<1>5. season \in [Season -> SeasonShape] /\ edits \in 0..MaxEdits
    BY CatalogAssumption DEF Init
<1>6. \A e \in Editor : IsForm(form[e]) /\ form[e].at = "closed"
    BY <1>4 DEF IsForm, Closed
<1>7. TypeOK
    BY <1>2, <1>3, <1>4, <1>5, <1>6 DEF TypeOK
<1>8. TablesCover
    BY <1>2, <1>3 DEF TablesCover
<1> QED BY <1>6, <1>7, <1>8 DEF Inv, WrittenCover, NewOnce, Copies

-----------------------------------------------------------------------------
(* Steps *)

\* What a form is, by how far it has come.
LEMMA FormKinds ==
    ASSUME TypeOK, NEW e \in Editor
    PROVE  /\ form[e].at \in {"closed", "read", "written", "relations", "copy"}
           /\ form[e].at = "closed" => form[e] = Closed
           /\ form[e].at \in {"read", "written", "relations"} =>
                 /\ DOMAIN form[e] = {"at", "rate", "row", "lists", "writes"}
                 /\ form[e].rate \in Rate /\ form[e].row \in Row /\ form[e].lists \in Marked
                 /\ IsTable(form[e].writes, TierChoices \cup {Gone})
           /\ form[e].at = "copy" =>
                 /\ DOMAIN form[e] = {"at", "rate", "of", "row"}
                 /\ form[e].rate \in Rate /\ form[e].of \in Rate /\ form[e].row \in Row
<1>1. IsForm(form[e])
    BY DEF TypeOK
<1>2. CASE form[e] = Closed
    BY <1>2 DEF Closed
<1>3. CASE form[e].at \in {"read", "written", "relations"}
    BY <1>1, <1>3 DEF IsForm, Closed
<1>4. CASE form[e].at = "copy"
    BY <1>1, <1>4 DEF IsForm, Closed
<1> QED BY <1>1, <1>2, <1>3, <1>4 DEF IsForm

LEMMA TiersOfIsTable ==
    ASSUME TypeOK, NEW r
    PROVE  IsTable(TiersOf(r), TierChoices)
<1>1. CASE r \in DOMAIN tiers
    BY <1>1 DEF TypeOK, TiersOf
<1>2. CASE r \notin DOMAIN tiers
    BY <1>2 DEF TiersOf, IsTable
<1> QED BY <1>1, <1>2

\* A form is opened.
LEMMA OpensKeeps ==
    ASSUME Inv, NEW e \in Editor, NEW r \in Rate, form[e] = Closed,
           NEW active \in BOOLEAN, NEW lists \in Marked, NEW writes,
           IsTable(writes, TierChoices \cup {Gone}),
           r \in DOMAIN rate \/ ~Named(r),
           Edit, Opens(e, r, active, lists, writes), UNCHANGED <<rate, tiers, season>>
    PROVE  Inv'
<1>1. PICK t \in Typed :
         form' = [form EXCEPT ![e] =
            [at |-> "read", rate |-> r, lists |-> t.lists, writes |-> writes,
             row |-> [active |-> active, columns |-> t.columns, lists |-> lists]]]
    BY DEF Opens
<1> DEFINE new == [at |-> "read", rate |-> r, lists |-> t.lists, writes |-> writes,
                   row |-> [active |-> active, columns |-> t.columns, lists |-> lists]]
<1>2. IsForm(new)
    <2>1. t.columns \in ColumnShape /\ t.lists \in Marked
        BY CatalogAssumption DEF Marked
    <2>2. [active |-> active, columns |-> t.columns, lists |-> lists] \in Row
        BY <2>1 DEF Row
    <2> QED BY <2>1, <2>2 DEF IsForm
<1>3. new.at = "read" /\ new.rate = r
    OBVIOUS
<1>4. DOMAIN form = Editor /\ DOMAIN form' = Editor
    BY <1>1 DEF Inv, TypeOK
<1>5. form'[e] = new /\ \A f \in Editor \ {e} : form'[f] = form[f]
    BY <1>1, <1>4
<1> HIDE DEF new
<1>6. TypeOK'
    <2>1. \A f \in Editor : IsForm(form'[f])
        BY <1>2, <1>5 DEF Inv, TypeOK
    <2>2. edits' \in 0..MaxEdits
        BY CatalogAssumption DEF Edit, Inv, TypeOK
    <2> QED BY <1>3, <1>4, <1>5, <2>1, <2>2 DEF Inv, TypeOK
<1>7. TablesCover'
    BY DEF Inv, TablesCover
<1>8. WrittenCover'
    BY <1>3, <1>5 DEF Inv, WrittenCover, TiersOf
<1>9. NewOnce'
    BY <1>3, <1>5 DEF Inv, NewOnce, Named
<1>10. Copies'
    BY <1>3, <1>5 DEF Inv, Copies
<1> QED BY <1>6, <1>7, <1>8, <1>9, <1>10 DEF Inv

LEMMA OpenFormKeeps == ASSUME Inv, NEW e \in Editor, NEW r \in Rate, OpenForm(e, r) PROVE Inv'
<1>1. PICK writes \in FormSet(tiers[r]) : Opens(e, r, rate[r].active, rate[r].lists, writes)
    BY DEF OpenForm
<1>2. /\ r \in DOMAIN rate /\ form[e] = Closed /\ Edit /\ edits \in Nat /\ edits < MaxEdits
      /\ UNCHANGED <<rate, tiers, season>>
    BY DEF OpenForm, Edit, Inv, TypeOK
<1>3. IsTable(tiers[r], TierChoices) /\ rate[r] \in Row
    BY <1>2 DEF Inv, TypeOK
<1>4. IsTable(writes, TierChoices \cup {Gone})
    BY <1>2, <1>3, FormSetIsTables
<1>5. rate[r].active \in BOOLEAN /\ rate[r].lists \in Marked
    BY <1>3 DEF Row
<1> QED BY <1>1, <1>2, <1>4, <1>5, OpensKeeps

LEMMA NewFormKeeps == ASSUME Inv, NEW e \in Editor, NEW r \in Rate, NewForm(e, r) PROVE Inv'
<1>1. PICK writes \in FormSet(<<>>) : Opens(e, r, TRUE, Unmarked, writes)
    BY DEF NewForm
<1>2. /\ ~Named(r) /\ form[e] = Closed /\ Edit /\ edits \in Nat /\ edits < MaxEdits
      /\ UNCHANGED <<rate, tiers, season>>
    BY DEF NewForm, Edit, Inv, TypeOK
<1>3. IsTable(<<>>, TierChoices)
    BY DEF IsTable
<1>4. IsTable(writes, TierChoices \cup {Gone})
    BY <1>2, <1>3, FormSetIsTables
<1>5. Unmarked \in Marked
    BY DEF Marked
<1> QED BY <1>1, <1>2, <1>4, <1>5, OpensKeeps

\* The row is taken by one transaction, and only with tiers that it accepts.
LEMMA WriteRateKeeps == ASSUME Inv, NEW e \in Editor, WriteRate(e) PROVE Inv'
<1> DEFINE f == form[e]
           new == [f EXCEPT !.at = "written"]
           fine == Accepts(After(TiersOf(f.rate), f.writes))
<1>1. /\ f.at = "read" /\ RowFree(f.rate)
      /\ form' = [form EXCEPT ![e] = IF fine THEN new ELSE Closed]
      /\ UNCHANGED <<rate, tiers, season, edits>>
    BY DEF WriteRate
<1>2. DOMAIN form = Editor /\ DOMAIN form' = Editor
    BY <1>1 DEF Inv, TypeOK
<1>3. /\ form'[e] = IF fine THEN new ELSE Closed
      /\ \A g \in Editor \ {e} : form'[g] = form[g]
    BY <1>1, <1>2
<1>4. /\ DOMAIN f = {"at", "rate", "row", "lists", "writes"}
      /\ f.rate \in Rate /\ f.row \in Row /\ f.lists \in Marked
      /\ IsTable(f.writes, TierChoices \cup {Gone})
    BY <1>1, FormKinds DEF Inv
<1>5. /\ DOMAIN new = DOMAIN f
      /\ new.at = "written" /\ new.rate = f.rate /\ new.row = f.row /\ new.lists = f.lists
      /\ new.writes = f.writes
    BY <1>4
<1> HIDE DEF new, f, fine
<1>6. IsForm(new)
    BY <1>4, <1>5 DEF IsForm
<1>7. IsForm(Closed) /\ Closed.at = "closed"
    BY DEF IsForm, Closed
<1>8. TypeOK'
    <2>1. \A g \in Editor : IsForm(form'[g])
        BY <1>3, <1>6, <1>7 DEF Inv, TypeOK
    <2>2. ASSUME NEW g \in Editor, NEW h \in Editor, form'[g].at = "written", form'[h].at = "written",
                 form'[g].rate = form'[h].rate
          PROVE  g = h
        BY <1>1, <1>3, <1>5, <1>7, <2>2 DEF Inv, TypeOK, RowFree, f
    <2> QED BY <1>1, <1>2, <2>1, <2>2 DEF Inv, TypeOK
<1>9. TablesCover'
    BY <1>1 DEF Inv, TablesCover
<1>10. WrittenCover'
    <2>1. fine => TiersCover(After(TiersOf(new.rate), new.writes))
        BY <1>5 DEF fine, Accepts
    <2> QED BY <1>1, <1>3, <1>7, <2>1 DEF Inv, WrittenCover, TiersOf
<1>11. NewOnce'
    BY <1>1, <1>3, <1>5, <1>7 DEF Inv, NewOnce, f
<1>12. Copies'
    BY <1>1, <1>3, <1>5, <1>7 DEF Inv, Copies
<1> QED BY <1>8, <1>9, <1>10, <1>11, <1>12 DEF Inv

\* What was looked at is committed, and nobody else was writing the tiers of this rate.
LEMMA CommitRateKeeps == ASSUME Inv, NEW e \in Editor, CommitRate(e) PROVE Inv'
<1> DEFINE f == form[e]
           new == [f EXCEPT !.at = "relations"]
           row == [f.row EXCEPT !.lists = IF f.rate \in DOMAIN rate THEN rate[f.rate].lists
                                          ELSE Unmarked]
           table == After(TiersOf(f.rate), f.writes)
<1>1. /\ f.at = "written"
      /\ rate' = With(rate, f.rate, row) /\ tiers' = With(tiers, f.rate, table)
      /\ form' = [form EXCEPT ![e].at = "relations"]
      /\ UNCHANGED <<season, edits>>
    BY DEF CommitRate
<1>2. DOMAIN form = Editor /\ DOMAIN form' = Editor
    BY <1>1 DEF Inv, TypeOK
<1>3. form'[e] = new /\ \A g \in Editor \ {e} : form'[g] = form[g]
    BY <1>1, <1>2
<1>4. /\ DOMAIN f = {"at", "rate", "row", "lists", "writes"}
      /\ f.rate \in Rate /\ f.row \in Row /\ f.lists \in Marked
      /\ IsTable(f.writes, TierChoices \cup {Gone})
    BY <1>1, FormKinds DEF Inv
<1>5. /\ DOMAIN new = DOMAIN f
      /\ new.at = "relations" /\ new.rate = f.rate /\ new.row = f.row /\ new.lists = f.lists
      /\ new.writes = f.writes
    BY <1>4
<1>6. row \in Row
    <2>1. (IF f.rate \in DOMAIN rate THEN rate[f.rate].lists ELSE Unmarked) \in Marked
        <3>1. f.rate \in DOMAIN rate => rate[f.rate].lists \in Marked
            BY DEF Inv, TypeOK, Row
        <3> QED BY <3>1 DEF Marked
    <2> HIDE DEF f
    <2> QED BY <1>4, <2>1 DEF Row
<1>7. IsTable(table, TierChoices)
    BY <1>4, TiersOfIsTable, AfterIsTable DEF Inv
<1>8. TiersCover(table)
    BY <1>1 DEF Inv, WrittenCover
<1> HIDE DEF new, f, row, table
<1>9. /\ DOMAIN rate' = DOMAIN rate \cup {f.rate} /\ DOMAIN tiers' = DOMAIN tiers \cup {f.rate}
      /\ \A r \in DOMAIN rate' : rate'[r] = IF r = f.rate THEN row ELSE rate[r]
      /\ \A r \in DOMAIN tiers' : tiers'[r] = IF r = f.rate THEN table ELSE tiers[r]
    BY <1>1 DEF With
<1>10. IsForm(new)
    BY <1>4, <1>5 DEF IsForm
<1>11. TypeOK'
    <2>1. \A g \in Editor : IsForm(form'[g])
        BY <1>3, <1>10 DEF Inv, TypeOK
    <2>2. \A g, h \in Editor :
             form'[g].at = "written" /\ form'[h].at = "written" /\ form'[g].rate = form'[h].rate
                => g = h
        BY <1>3, <1>5 DEF Inv, TypeOK
    <2>3. /\ DOMAIN rate' \subseteq Rate /\ \A r \in DOMAIN rate' : rate'[r] \in Row
          /\ DOMAIN tiers' = DOMAIN rate'
          /\ \A r \in DOMAIN tiers' : IsTable(tiers'[r], TierChoices)
        BY <1>4, <1>6, <1>7, <1>9 DEF Inv, TypeOK
    <2> QED BY <1>1, <1>2, <2>1, <2>2, <2>3 DEF Inv, TypeOK
<1>12. TablesCover'
    BY <1>8, <1>9 DEF Inv, TablesCover
<1>13. WrittenCover'
    <2> SUFFICES ASSUME NEW g \in Editor, form'[g].at = "written"
                 PROVE  TiersCover(After(IF form'[g].rate \in DOMAIN tiers' THEN tiers'[form'[g].rate]
                                         ELSE <<>>, form'[g].writes))
        BY DEF WrittenCover, TiersOf
    <2>1. form'[g] = form[g] /\ form[g].rate # f.rate
        BY <1>1, <1>3, <1>5 DEF Inv, TypeOK, f
    <2>2. (IF form[g].rate \in DOMAIN tiers' THEN tiers'[form[g].rate] ELSE <<>>)
             = TiersOf(form[g].rate)
        BY <1>9, <2>1 DEF TiersOf
    <2>3. TiersCover(After(TiersOf(form[g].rate), form[g].writes))
        BY <2>1 DEF Inv, WrittenCover
    <2> QED BY <2>1, <2>2, <2>3
<1>14. NewOnce'
    BY <1>1, <1>3, <1>5, <1>9 DEF Inv, NewOnce, f
<1>15. Copies'
    <2> SUFFICES ASSUME NEW g \in Editor, form'[g].at = "copy"
                 PROVE  form'[g].rate \notin DOMAIN rate' /\ form'[g].of \in DOMAIN rate'
        BY DEF Copies
    <2>1. g # e /\ form'[g] = form[g]
        BY <1>3, <1>5
    <2>2. form[g].rate # f.rate
        BY <1>1, <2>1 DEF Inv, Copies, NewOnce, f
    <2> QED BY <1>9, <2>1, <2>2 DEF Inv, Copies
<1> QED BY <1>11, <1>12, <1>13, <1>14, <1>15 DEF Inv

LEMMA SaveRelationsKeeps == ASSUME Inv, NEW e \in Editor, SaveRelations(e) PROVE Inv'
<1> DEFINE f == form[e]
<1>1. /\ f.at = "relations"
      /\ rate' = [rate EXCEPT ![f.rate].lists = f.lists]
      /\ form' = [form EXCEPT ![e] = Closed]
      /\ UNCHANGED <<tiers, season, edits>>
    BY DEF SaveRelations
<1>2. DOMAIN form' = Editor /\ form'[e] = Closed /\ \A g \in Editor \ {e} : form'[g] = form[g]
    BY <1>1 DEF Inv, TypeOK
<1>3. IsForm(Closed) /\ Closed.at = "closed"
    BY DEF IsForm, Closed
<1>4. f.lists \in Marked
    BY <1>1, FormKinds DEF Inv
<1>5. DOMAIN rate' = DOMAIN rate /\ \A r \in DOMAIN rate : rate'[r] \in Row
    <2>1. \A r \in DOMAIN rate : rate[r] \in Row
        BY DEF Inv, TypeOK
    <2>2. \A r \in DOMAIN rate : rate'[r] = IF r = f.rate THEN [rate[r] EXCEPT !.lists = f.lists]
                                           ELSE rate[r]
        BY <1>1
    <2> HIDE DEF f
    <2> QED BY <1>1, <1>4, <2>1, <2>2 DEF Row
<1>6. TypeOK'
    BY <1>1, <1>2, <1>3, <1>5 DEF Inv, TypeOK
<1>7. TablesCover'
    BY <1>1 DEF Inv, TablesCover
<1>8. WrittenCover'
    BY <1>1, <1>2, <1>3 DEF Inv, WrittenCover, TiersOf
<1>9. NewOnce'
    BY <1>2, <1>3, <1>5 DEF Inv, NewOnce
<1>10. Copies'
    BY <1>2, <1>3, <1>5 DEF Inv, Copies
<1> QED BY <1>6, <1>7, <1>8, <1>9, <1>10 DEF Inv

LEMMA BreakKeeps == ASSUME Inv, NEW e \in Editor, Break(e) PROVE Inv'
<1>1. form' = [form EXCEPT ![e] = Closed] /\ UNCHANGED <<rate, tiers, season, edits>>
    BY DEF Break
<1>2. DOMAIN form' = Editor /\ form'[e] = Closed /\ \A g \in Editor \ {e} : form'[g] = form[g]
    BY <1>1 DEF Inv, TypeOK
<1>3. IsForm(Closed) /\ Closed.at = "closed"
    BY DEF IsForm, Closed
<1>4. TypeOK'
    BY <1>1, <1>2, <1>3 DEF Inv, TypeOK
<1>5. WrittenCover'
    BY <1>1, <1>2, <1>3 DEF Inv, WrittenCover, TiersOf
<1> QED BY <1>1, <1>2, <1>3, <1>4, <1>5 DEF Inv, TablesCover, NewOnce, Copies

LEMMA StartCopyKeeps ==
    ASSUME Inv, NEW e \in Editor, NEW r \in Rate, NEW copy \in Rate, StartCopy(e, r, copy)
    PROVE  Inv'
<1> DEFINE new == [at |-> "copy", rate |-> copy, of |-> r, row |-> rate[r]]
<1>1. /\ r \in DOMAIN rate /\ copy \notin DOMAIN rate /\ ~Named(copy) /\ Edit
      /\ form' = [form EXCEPT ![e] = new]
      /\ UNCHANGED <<rate, tiers, season>>
    BY DEF StartCopy
<1>2. DOMAIN form' = Editor /\ form'[e] = new /\ \A g \in Editor \ {e} : form'[g] = form[g]
    BY <1>1 DEF Inv, TypeOK
<1>3. new.at = "copy" /\ new.rate = copy /\ new.of = r
    OBVIOUS
<1>4. IsForm(new)
    BY <1>1 DEF Inv, TypeOK, IsForm
<1> HIDE DEF new
<1>5. edits' \in 0..MaxEdits
    BY <1>1, CatalogAssumption DEF Edit, Inv, TypeOK
<1>6. TypeOK'
    BY <1>1, <1>2, <1>3, <1>4, <1>5 DEF Inv, TypeOK
<1>7. WrittenCover'
    BY <1>1, <1>2, <1>3 DEF Inv, WrittenCover, TiersOf
<1>8. NewOnce'
    BY <1>1, <1>2, <1>3 DEF Inv, NewOnce, Named
<1>9. Copies'
    BY <1>1, <1>2, <1>3 DEF Inv, Copies
<1> QED BY <1>1, <1>6, <1>7, <1>8, <1>9 DEF Inv, TablesCover

\* A copy has the tiers of a rate that is there, and nobody else has its number.
LEMMA CommitCopyKeeps == ASSUME Inv, NEW e \in Editor, CommitCopy(e) PROVE Inv'
<1> DEFINE f == form[e]
           row == [f.row EXCEPT !.active = FALSE, !.lists = rate[f.of].lists]
<1>1. /\ f.at = "copy"
      /\ rate' = With(rate, f.rate, row) /\ tiers' = With(tiers, f.rate, tiers[f.of])
      /\ form' = [form EXCEPT ![e] = Closed]
      /\ UNCHANGED <<season, edits>>
    BY DEF CommitCopy
<1>2. DOMAIN form' = Editor /\ form'[e] = Closed /\ \A g \in Editor \ {e} : form'[g] = form[g]
    BY <1>1 DEF Inv, TypeOK
<1>3. IsForm(Closed) /\ Closed.at = "closed"
    BY DEF IsForm, Closed
<1>4. f.rate \in Rate /\ f.rate \notin DOMAIN rate /\ f.of \in DOMAIN rate /\ f.row \in Row
    BY <1>1, FormKinds DEF Inv, Copies
<1>5. row \in Row
    <2>1. rate[f.of].lists \in Marked
        BY <1>4 DEF Inv, TypeOK, Row
    <2> HIDE DEF f
    <2> QED BY <1>4, <2>1 DEF Row
<1> HIDE DEF f, row
<1>6. IsTable(tiers[f.of], TierChoices) /\ TiersCover(tiers[f.of])
    BY <1>4 DEF Inv, TypeOK, TablesCover
<1>7. /\ DOMAIN rate' = DOMAIN rate \cup {f.rate} /\ DOMAIN tiers' = DOMAIN tiers \cup {f.rate}
      /\ \A r \in DOMAIN rate' : rate'[r] = IF r = f.rate THEN row ELSE rate[r]
      /\ \A r \in DOMAIN tiers' : tiers'[r] = IF r = f.rate THEN tiers[f.of] ELSE tiers[r]
    BY <1>1 DEF With
<1>8. TypeOK'
    <2>1. /\ DOMAIN rate' \subseteq Rate /\ \A r \in DOMAIN rate' : rate'[r] \in Row
          /\ DOMAIN tiers' = DOMAIN rate'
          /\ \A r \in DOMAIN tiers' : IsTable(tiers'[r], TierChoices)
        BY <1>4, <1>5, <1>6, <1>7 DEF Inv, TypeOK
    <2> QED BY <1>1, <1>2, <1>3, <2>1 DEF Inv, TypeOK
<1>9. TablesCover'
    BY <1>6, <1>7 DEF Inv, TablesCover
<1>10. \A g \in Editor : form'[g].at # "closed" => form'[g] = form[g] /\ form[g].rate # f.rate
    BY <1>1, <1>2, <1>3, <1>4 DEF Inv, NewOnce, f
<1>11. WrittenCover'
    <2> SUFFICES ASSUME NEW g \in Editor, form'[g].at = "written"
                 PROVE  TiersCover(After(IF form'[g].rate \in DOMAIN tiers' THEN tiers'[form'[g].rate]
                                         ELSE <<>>, form'[g].writes))
        BY DEF WrittenCover, TiersOf
    <2>1. form'[g] = form[g] /\ form[g].rate # f.rate
        BY <1>2, <1>3, <1>10
    <2>2. (IF form[g].rate \in DOMAIN tiers' THEN tiers'[form[g].rate] ELSE <<>>)
             = TiersOf(form[g].rate)
        BY <1>7, <2>1 DEF TiersOf
    <2>3. TiersCover(After(TiersOf(form[g].rate), form[g].writes))
        BY <2>1 DEF Inv, WrittenCover
    <2> QED BY <2>1, <2>2, <2>3
<1>12. NewOnce'
    BY <1>7, <1>10 DEF Inv, NewOnce
<1>13. Copies'
    BY <1>7, <1>10 DEF Inv, Copies
<1> QED BY <1>8, <1>9, <1>11, <1>12, <1>13 DEF Inv

LEMMA SetRateActiveKeeps == ASSUME Inv, NEW r \in Rate, SetRateActive(r) PROVE Inv'
<1>1. /\ r \in DOMAIN rate /\ Edit
      /\ rate' = [rate EXCEPT ![r].active = ~@]
      /\ UNCHANGED <<tiers, season, form>>
    BY DEF SetRateActive
<1>2. DOMAIN rate' = DOMAIN rate /\ \A s \in DOMAIN rate : rate'[s] \in Row
    <2>1. \A s \in DOMAIN rate : rate[s] \in Row
        BY DEF Inv, TypeOK
    <2>2. \A s \in DOMAIN rate : rate'[s] = IF s = r THEN [rate[s] EXCEPT !.active = ~@] ELSE rate[s]
        BY <1>1
    <2>3. [rate[r] EXCEPT !.active = ~@] \in Row
        BY <1>1, <2>1 DEF Row
    <2> QED BY <1>1, <2>1, <2>2, <2>3
<1>3. edits' \in 0..MaxEdits
    BY <1>1, CatalogAssumption DEF Edit, Inv, TypeOK
<1>4. TypeOK'
    BY <1>1, <1>2, <1>3 DEF Inv, TypeOK
<1>5. WrittenCover'
    BY <1>1 DEF Inv, WrittenCover, TiersOf
<1> QED BY <1>1, <1>2, <1>4, <1>5 DEF Inv, TablesCover, NewOnce, Copies

\* A season has its own table.
LEMMA SeasonKeeps ==
    ASSUME Inv, Edit, NEW s \in Season, NEW row \in SeasonShape,
           season' = [season EXCEPT ![s] = row], UNCHANGED <<rate, tiers, form>>
    PROVE  Inv'
<1>1. season' \in [Season -> SeasonShape]
    BY DEF Inv, TypeOK
<1>2. edits' \in 0..MaxEdits
    BY CatalogAssumption DEF Edit, Inv, TypeOK
<1>3. TypeOK'
    BY <1>1, <1>2 DEF Inv, TypeOK
<1>4. WrittenCover'
    BY DEF Inv, WrittenCover, TiersOf
<1> QED BY <1>3, <1>4 DEF Inv, TablesCover, NewOnce, Copies

\* A price only reads.
LEMMA ReadingKeeps == ASSUME Inv, UNCHANGED <<rate, tiers, season, form, edits>> PROVE Inv'
<1>1. TypeOK'
    BY DEF Inv, TypeOK
<1>2. WrittenCover'
    BY DEF Inv, WrittenCover, TiersOf
<1> QED BY <1>1, <1>2 DEF Inv, TablesCover, NewOnce, Copies

LEMMA NextInv == ASSUME Inv, [Next]_vars PROVE Inv'
<1>1. CASE Pricer \/ UNCHANGED vars
    <2>1. UNCHANGED <<rate, tiers, season, form, edits>>
        BY <1>1 DEF Pricer, vars, Still, Ask, ReadSeason, PriceByHand, ReadRate, ReadTiers, Leave
    <2> QED BY <2>1, ReadingKeeps
<1>2. CASE Screens
    <2>1. CASE \E e \in Editor :
                  \/ \E r \in Rate : OpenForm(e, r) \/ NewForm(e, r)
                  \/ \E r, copy \in Rate : StartCopy(e, r, copy)
        BY <2>1, OpenFormKeeps, NewFormKeeps, StartCopyKeeps
    <2>2. CASE \E e \in Editor :
                  WriteRate(e) \/ CommitRate(e) \/ SaveRelations(e) \/ CommitCopy(e) \/ Break(e)
        BY <2>2, WriteRateKeeps, CommitRateKeeps, SaveRelationsKeeps, CommitCopyKeeps, BreakKeeps
    <2>3. CASE \E r \in Rate : SetRateActive(r)
        BY <2>3, SetRateActiveKeeps
    <2>4. ASSUME NEW s \in Season, SetSeasonActive(s) PROVE Inv'
        <3>1. season[s] \in SeasonShape
            BY DEF Inv, TypeOK
        <3>2. [season[s] EXCEPT !.active = ~@] \in SeasonShape
            BY <3>1 DEF SeasonShape
        <3>3. /\ season' = [season EXCEPT ![s] = [season[s] EXCEPT !.active = ~@]]
              /\ Edit /\ UNCHANGED <<rate, tiers, form>>
            BY <2>4 DEF SetSeasonActive
        <3> QED BY <3>2, <3>3, SeasonKeeps
    <2>5. ASSUME NEW s \in Season, SaveSeason(s) PROVE Inv'
        <3>1. PICK row \in SeasonRows :
                 season' = [season EXCEPT ![s] = [row EXCEPT !.active = season[s].active]]
            BY <2>5 DEF SaveSeason
        <3>2. season[s] \in SeasonShape /\ row \in SeasonShape
            BY CatalogAssumption DEF Inv, TypeOK
        <3>3. [row EXCEPT !.active = season[s].active] \in SeasonShape
            BY <3>2 DEF SeasonShape
        <3>4. Edit /\ UNCHANGED <<rate, tiers, form>>
            BY <2>5 DEF SaveSeason
        <3> QED BY <3>1, <3>3, <3>4, SeasonKeeps
    <2> QED BY <1>2, <2>1, <2>2, <2>3, <2>4, <2>5 DEF Screens, Toggles
<1> QED BY <1>1, <1>2 DEF Next

-----------------------------------------------------------------------------
(* A price *)

\* What is known of the price that is being worked out: it is of a request, its rate goes on
\* being there, and what is answered is right.
Reads ==
    /\ quote.at \in {"silent", "season", "rate", "tiers", "answered"}
    /\ quote.at \in {"season", "rate", "tiers"} => quote.q \in Requests
    /\ quote.at = "tiers" => quote.rate \in DOMAIN tiers
Answers ==
    quote.at = "answered" =>
       /\ quote.outcome # "no tier"
       /\ quote.outcome = "priced" =>
             /\ Fair(quote.price)
             /\ quote.mode # None =>
                   quote.price.base = DayByDay(quote.mode, quote.table, quote.price.days)

LEMMA RequestsAreRequests ==
    ASSUME NEW q \in Requests
    PROVE  /\ q.from \in Int /\ q.to \in Int
           /\ q.extras \in Seq([code : DOMAIN Extra, units : Int])
           /\ q.byHand \in Nat \cup {None}
           /\ RentalDays(q.from, q.to) \in Nat \ {0}
<1>1. IsRequest(q)
    BY CatalogAssumption
<1>2. q.from \in Int /\ q.to \in Int
    BY <1>1 DEF IsRequest
<1> QED BY <1>1, <1>2, DaysAreJustEnough DEF IsRequest

LEMMA TablesHaveRows ==
    ASSUME NEW ts, IsTable(ts, TierChoices)
    PROVE  Rows(ts) \in SUBSET TierShape /\ IsFiniteSet(Rows(ts))
<1>1. Rows(ts) \in SUBSET TierChoices
    BY DEF Rows, IsTable
<1> QED BY <1>1, FS_Subset, CatalogAssumption

\* No rate is ever deleted.
LEMMA RatesStay == ASSUME [Next]_vars PROVE DOMAIN tiers \subseteq DOMAIN tiers'
<1>1. CASE UNCHANGED vars
    BY <1>1 DEF vars
<1>2. CASE Pricer
    BY <1>2 DEF Pricer, Still, Ask, ReadSeason, PriceByHand, ReadRate, ReadTiers, Leave
<1>3. CASE Screens
    <2>1. ASSUME NEW e \in Editor, NEW r \in Rate, OpenForm(e, r) \/ NewForm(e, r)
          PROVE  UNCHANGED tiers
        BY <2>1 DEF OpenForm, NewForm
    <2>2. ASSUME NEW e \in Editor, NEW r \in Rate, NEW copy \in Rate, StartCopy(e, r, copy)
          PROVE  UNCHANGED tiers
        BY <2>2 DEF StartCopy
    <2>3. ASSUME NEW e \in Editor, WriteRate(e) \/ SaveRelations(e) \/ Break(e)
          PROVE  UNCHANGED tiers
        BY <2>3 DEF WriteRate, SaveRelations, Break
    <2>4. ASSUME NEW e \in Editor, CommitRate(e) \/ CommitCopy(e)
          PROVE  DOMAIN tiers \subseteq DOMAIN tiers'
        BY <2>4 DEF CommitRate, CommitCopy, With
    <2>5. ASSUME Toggles \/ \E s \in Season : SaveSeason(s) PROVE UNCHANGED tiers
        BY <2>5 DEF Toggles, SetRateActive, SetSeasonActive, SaveSeason
    <2> QED BY <1>3, <2>1, <2>2, <2>3, <2>4, <2>5 DEF Screens
<1> QED BY <1>1, <1>2, <1>3 DEF Next

LEMMA EditingKeepsQuote == ASSUME Screens \/ UNCHANGED vars PROVE UNCHANGED quote
<1>1. CASE UNCHANGED vars
    BY <1>1 DEF vars
<1>2. CASE Screens
    BY <1>2 DEF Screens, Toggles, OpenForm, NewForm, StartCopy, WriteRate, CommitRate,
                SaveRelations, CommitCopy, Break, SetRateActive, SetSeasonActive, SaveSeason
<1> QED BY <1>1, <1>2

\* What is priced is fair, and by the day if it is by a table.
LEMMA PricedIsRight ==
    ASSUME NEW q \in Requests, quote.q = q, NEW mode, NEW table, NEW parts \in Seq(PartShape),
           mode # None => BaseOf(RentalLines(parts)) = DayByDay(mode, table, RentalDays(q.from, q.to)),
           Priced(mode, table, parts)
    PROVE  Reads' /\ Answers'
<1> DEFINE price == Breakdown(q, parts)
<1>1. Fair(price)
    BY RequestsAreRequests, PricesAreFair
<1>2. price.base = BaseOf(RentalLines(parts)) /\ price.days = RentalDays(q.from, q.to)
    BY DEF Breakdown
<1>3. quote' = [at |-> "answered", q |-> q, outcome |-> "priced", mode |-> mode, table |-> table,
                price |-> price]
    BY DEF Priced
<1> HIDE DEF price
<1>4. /\ quote'.at = "answered" /\ quote'.outcome = "priced" /\ quote'.mode = mode
      /\ quote'.table = table /\ quote'.price = price
    BY <1>3
<1> QED BY <1>1, <1>2, <1>4 DEF Reads, Answers

LEMMA ReadTiersReads == ASSUME Inv, Reads, ReadTiers PROVE Reads' /\ Answers'
<1> DEFINE q == quote.q
           ts == tiers[quote.rate]
           parts == Allocation(quote.mode, ts, RentalDays(q.from, q.to))
<1>1. quote.at = "tiers" /\ q \in Requests /\ quote.rate \in DOMAIN tiers
    BY DEF ReadTiers, Reads
<1>2. IsTable(ts, TierChoices) /\ TiersCover(ts)
    BY <1>1 DEF Inv, TypeOK, TablesCover
<1> HIDE DEF ts
<1>3. RentalDays(q.from, q.to) \in Nat \ {0}
    BY <1>1, RequestsAreRequests
<1>4. /\ parts \in Seq(PartShape) /\ parts # <<>>
      /\ BaseOf(RentalLines(parts)) = DayByDay(quote.mode, ts, RentalDays(q.from, q.to))
    BY <1>2, <1>3, TablesHaveRows, AllocationsAreByTheDay
<1>5. Priced(quote.mode, ts, parts)
    BY <1>4 DEF ReadTiers, ts
<1> HIDE DEF parts
<1> QED BY <1>1, <1>4, <1>5, PricedIsRight

LEMMA PriceByHandReads == ASSUME Reads, PriceByHand PROVE Reads' /\ Answers'
<1> DEFINE q == quote.q
           part == [days |-> RentalDays(q.from, q.to), price |-> q.byHand]
<1>1. quote.at = "rate" /\ q \in Requests /\ q.byHand # None /\ Priced(None, <<>>, <<part>>)
    BY DEF PriceByHand, Reads
<1>2. part \in PartShape
    BY <1>1, RequestsAreRequests DEF PartShape
<1> HIDE DEF part
<1>3. <<part>> \in Seq(PartShape)
    BY <1>2
<1> QED BY <1>1, <1>3, PricedIsRight

LEMMA RefusalReads ==
    ASSUME NEW refusal \in {"ambiguous season", "no rate", "ambiguous rate"}, Answer(refusal)
    PROVE  Reads' /\ Answers'
<1>1. quote'.at = "answered" /\ quote'.outcome = refusal
    BY DEF Answer
<1> QED BY <1>1 DEF Reads, Answers

LEMMA QuoteKeeps == ASSUME Inv, Reads, Answers, [Next]_vars PROVE Reads' /\ Answers'
<1>1. CASE Screens \/ UNCHANGED vars
    BY <1>1, EditingKeepsQuote, RatesStay DEF Reads, Answers
<1>2. CASE Ask
    <2>1. PICK q \in Requests : quote' = [at |-> "season", q |-> q]
        BY <1>2 DEF Ask
    <2> QED BY <2>1 DEF Reads, Answers
<1>3. CASE ReadSeason
    <2>1. quote.q \in Requests
        BY <1>3 DEF ReadSeason, Reads
    <2>2. \/ Answer("ambiguous season")
          \/ \E mine : quote' = [at |-> "rate", q |-> quote.q, season |-> mine]
        BY <1>3 DEF ReadSeason
    <2>3. CASE Answer("ambiguous season")
        BY <2>3, RefusalReads
    <2>4. CASE \E mine : quote' = [at |-> "rate", q |-> quote.q, season |-> mine]
        <3>1. PICK mine : quote' = [at |-> "rate", q |-> quote.q, season |-> mine]
            BY <2>4
        <3>2. quote'.at = "rate" /\ quote'.q = quote.q
            BY <3>1
        <3> QED BY <2>1, <3>2 DEF Reads, Answers
    <2> QED BY <2>2, <2>3, <2>4
<1>4. CASE PriceByHand
    BY <1>4, PriceByHandReads
<1>5. CASE ReadRate
    <2>1. quote.q \in Requests
        BY <1>5 DEF ReadRate, Reads
    <2>2. \/ Answer("no rate")
          \/ Answer("ambiguous rate")
          \/ \E r \in Winners(Rates, quote.q, quote.season) :
                quote' = [at |-> "tiers", q |-> quote.q, rate |-> r, mode |-> Rates[r].mode]
        BY <1>5 DEF ReadRate
    <2>3. CASE Answer("no rate") \/ Answer("ambiguous rate")
        BY <2>3, RefusalReads
    <2>4. ASSUME NEW r \in Winners(Rates, quote.q, quote.season),
                 quote' = [at |-> "tiers", q |-> quote.q, rate |-> r, mode |-> Rates[r].mode]
          PROVE  Reads' /\ Answers'
        <3>1. r \in DOMAIN rate
            BY DEF Winners, Applicable, Rates
        <3>2. r \in DOMAIN tiers'
            BY <3>1, RatesStay DEF Inv, TypeOK
        <3> QED BY <2>1, <2>4, <3>2 DEF Reads, Answers
    <2> QED BY <2>2, <2>3, <2>4
<1>6. CASE ReadTiers
    BY <1>6, ReadTiersReads
<1>7. CASE Leave
    BY <1>7 DEF Leave, Silent, Reads, Answers
<1> QED BY <1>1, <1>2, <1>3, <1>4, <1>5, <1>6, <1>7 DEF Next, Pricer

LEMMA InitQuote == ASSUME Init PROVE Reads /\ Answers
BY DEF Init, Silent, Reads, Answers

-----------------------------------------------------------------------------
(* Theorems *)

LEMMA SpecInv == Spec => []Inv
BY InitInv, NextInv, PTL DEF Spec

LEMMA SpecQuote == Spec => [](Reads /\ Answers)
<1>1. Init => Reads /\ Answers
    BY InitQuote
<1>2. Inv /\ (Reads /\ Answers) /\ [Next]_vars => (Reads /\ Answers)'
    BY QuoteKeeps
<1> QED BY <1>1, <1>2, SpecInv, PTL DEF Spec

\* Every reachable state of the catalogue is well typed, and a transaction that writes a rate
\* has its row to itself.
THEOREM CatalogTypes == Spec => []TypeOK
<1>1. Inv => TypeOK
    BY DEF Inv
<1> QED BY <1>1, SpecInv, PTL

\* However many forms are saved over one another, one tier of each rate has the price of a
\* rental of any length, and no other.
THEOREM DaysArePricedOnce == Spec => []EveryDayIsPricedOnce
<1>1. ASSUME Inv PROVE EveryDayIsPricedOnce
    <2> SUFFICES ASSUME NEW r \in DOMAIN tiers, NEW d \in Days PROVE PricedOnce(tiers[r], d)
        BY DEF EveryDayIsPricedOnce
    <2>1. d \in Nat \ {0}
        BY CatalogAssumption
    <2>2. TiersCover(tiers[r])
        BY <1>1 DEF Inv, TablesCover
    <2>3. IsTiers(tiers[r])
        BY <1>1, CatalogAssumption DEF Inv, TypeOK, IsTable, IsTiers
    <2> QED BY <2>1, <2>2, <2>3, TiersPriceEveryDayOnce DEF PricedOnce
<1> QED BY <1>1, SpecInv, PTL

\* The rates as resolve_rate reads them.
LEMMA RatesAreRates ==
    ASSUME TypeOK
    PROVE  DOMAIN Rates = DOMAIN rate /\ \A r \in DOMAIN rate : IsRate(Rates[r])
<1> SUFFICES ASSUME NEW r \in DOMAIN rate PROVE IsRate(Rates[r])
    BY DEF Rates
<1> DEFINE row == rate[r]
           columns == row.columns
           known == {"mode", "season", "priority", "least", "most", "from", "to", "channel"}
<1>1. row \in Row
    BY DEF TypeOK
<1>2. row.active \in BOOLEAN /\ columns \in ColumnShape /\ row.lists \in Marked
    BY <1>1 DEF Row
<1>3. DOMAIN columns = known
    BY <1>2 DEF ColumnShape
<1>4. Rates[r] = Join([active |-> row.active], Join(columns, row.lists))
    BY DEF Rates, Seen
<1> HIDE DEF row, columns
<1>5. \A k \in known : Join(columns, row.lists)[k] = columns[k]
    BY <1>3 DEF Join
<1>6. \A k \in known : Rates[r][k] = columns[k]
    BY <1>3, <1>4, <1>5 DEF Join
<1>7. Rates[r].active = row.active
    BY <1>4 DEF Join
<1> QED BY <1>2, <1>6, <1>7 DEF IsRate, ColumnShape

\* Whatever is edited, no request can meet a tie of two rates of one season that the screen
\* of conflicts does not show.
THEOREM TiesAreForetold == Spec => []TiesAreForeseen
<1>1. ASSUME Inv PROVE TiesAreForeseen
    <2>1. DOMAIN Rates = DOMAIN rate /\ \A r \in DOMAIN rate : IsRate(Rates[r])
        BY <1>1, RatesAreRates DEF Inv
    <2>2. \A q \in Requests : q.from \in Int /\ q.to \in Int
        BY CatalogAssumption DEF IsRequest
    <2> SUFFICES ASSUME NEW q \in Requests,
                        NEW a \in Winners(Rates, q, SeasonOf(season, Date(q.from))),
                        NEW b \in Winners(Rates, q, SeasonOf(season, Date(q.from))),
                        a # b, Rates[a].season = Rates[b].season
                 PROVE  <<a, b>> \in Conflicts
        BY DEF TiesAreForeseen
    <2>3. Conflict(Rates[a], Rates[b])
        BY <2>1, <2>2, TiesAreConflicts
    <2>4. a \in DOMAIN rate /\ b \in DOMAIN rate
        BY <2>1 DEF Winners, Applicable
    <2> QED BY <2>3, <2>4 DEF Conflicts
<1> QED BY <1>1, SpecInv, PTL

\* "Nunca dejan la base del alquiler por debajo de cero": whatever is edited while a price is
\* worked out, its discounts take no more than the rental, and the rest is always paid.
THEOREM DiscountsAreBounded == Spec => []DiscountsStopAtZero
<1>1. Answers => DiscountsStopAtZero
    BY DEF Answers, Fair, DiscountsStopAtZero
<1> QED BY <1>1, SpecQuote, PTL

\* A price that is read while its rate is being edited finds its tiers, and is what its days
\* cost one by one.
THEOREM PricesAreByTheDay == Spec => []PricedByTheDay
<1>1. Answers => PricedByTheDay
    BY DEF Answers, PricedByTheDay
<1> QED BY <1>1, SpecQuote, PTL

=============================================================================
