------------------------------ MODULE MCCatalog ------------------------------
(* A small instance of Catalog: two rates that sell the same group, and a third that may be
   created or copied; two people edit them while prices are asked for. *)
EXTENDS Catalog, Charges

At(day, hour, minute) == day * 1440 + hour * 60 + minute

Pool1 == "centre" :> "island" @@ "port" :> "island" @@ "north" :> None
Extra1 == "seat" :> [kind |-> "per_day", price |-> 500, most |-> 2, cap |-> 1200, tax |-> 21]
          @@ "gps" :> [kind |-> "per_reservation", price |-> 999, most |-> 1, cap |-> None, tax |-> 21]
Added(kind, percent, amount, from, to, offices) ==
    [kind |-> kind, percent |-> percent, amount |-> amount, tax |-> 21, from |-> from, to |-> to,
     offices |-> offices]
Supplement1 == << Added("one_way", FALSE, 3000, None, None, {}),
                  Added("young_driver", TRUE, 15, None, 24, {}),
                  Added("airport", FALSE, 1250, None, None, {"port"}),
                  Added("after_hours", TRUE, 7, 480, 1200, {}) >>
Less(code, percent, amount, least) ==
    [code |-> code, percent |-> percent, amount |-> amount, least |-> least, categories |-> {},
     from |-> None, to |-> None]
Discount1 == << Less(None, TRUE, 33, 3), Less("friend", FALSE, 5000, None),
                Less(None, TRUE, 50, None) >>

Tier(min, max, price) == [min |-> min, max |-> max, price |-> price]
Tiers1 == {Tier(1, Open, 4999), Tier(1, 2, 6000), Tier(3, Open, 4005)}

Cols(mode, high, least) ==
    [mode |-> mode, season |-> high, priority |-> 0, least |-> least, most |-> None,
     from |-> None, to |-> None, channel |-> "counter"]
Marks(categories, offices) == [categories |-> categories, offices |-> offices]
Typed1 == {[columns |-> Cols("flat", "high", 2), lists |-> Marks({"small"}, {})],
           [columns |-> Cols("progressive", "high", 1),
            lists |-> Marks({"small", "large"}, {"centre"})]}
Span(active, from, to, priority) ==
    [active |-> active, from |-> from, to |-> to, priority |-> priority]
SeasonRows1 == {Span(TRUE, 0, 9, 0), Span(TRUE, 3, 5, 1)}

Sold(columns, lists) == [active |-> TRUE, columns |-> columns, lists |-> lists]
Initial1 ==
    {1 :> [row |-> Sold(Cols("flat", None, 1), Marks({"small"}, {})),
           tiers |-> <<0, 1>> :> Tier(1, Open, 4999)]
     @@ 2 :> [row |-> Sold(t.columns, t.lists),
              tiers |-> <<0, 1>> :> Tier(1, 2, 6000) @@ <<0, 3>> :> Tier(3, Open, 4005)] :
        t \in Typed1}

Wants(from, to, back, age, code, extras, byHand) ==
    [from |-> from, to |-> to, category |-> "small", office |-> "centre", back |-> back,
     channel |-> "counter", age |-> age, code |-> code, extras |-> extras, byHand |-> byHand]
Requests1 == {
    Wants(At(1, 9, 0), At(2, 9, 59), "port", None, None, <<>>, None),
    Wants(At(2, 21, 0), At(6, 22, 0), "north", 22, "friend",
          <<[code |-> "seat", units |-> 5], [code |-> "gps", units |-> 3]>>, None),
    Wants(At(4, 12, 0), At(4, 14, 0), "centre", 40, "friend", <<>>, 2500)}
Calendars1 == {"high" :> Span(TRUE, 0, 9, 0) @@ "bridge" :> Span(FALSE, 3, 5, 1)}
Symmetric == Permutations(Editor)

-----------------------------------------------------------------------------
(* The charges of a return and the fee of a cancellation, against what they mean: the
   kilometres and days one by one, and the cents that are nearest. *)
Brought(included, back, policy, level, tank, actual) ==
    [included |-> included, out |-> 10000, back |-> back, policy |-> policy,
     levelOut |-> 88, levelBack |-> level, tank |-> tank, daily |-> 4500,
     from |-> At(1, 9, 0), planned |-> At(3, 9, 0), actual |-> actual]
Returns1 == {Brought(included, back, policy, level, tank, actual) :
                included \in {None, 0, 100}, back \in {9990, 10000, 10099, 10100, 10101, 10137},
                policy \in FuelPolicy, level \in {0, 50, 88, 100}, tank \in {0, 43},
                actual \in {At(2, 9, 0), At(3, 9, 59), At(3, 10, 0), At(5, 12, 0)}}

Nearest(cents, hundredths) ==
    100 * cents - hundredths <= 50 /\ hundredths - 100 * cents < 50

\* What is charged is the kilometres driven beyond the included ones (extra_km_charge).
ASSUME KilometresAreCounted ==
    \A done \in Returns1 :
       ExtraKm(done) = Cardinality({km \in (done.out + 1)..done.back :
                                      done.included # None /\ km - done.out > done.included})

\* The fuel that is missing costs the nearest cent (fuel_charge).
ASSUME CentsAreNearest ==
    \A done \in Returns1 : Nearest(FuelCharge(done).base, MissingFuel(done) * LitrePrice)

\* A day late is a day that began after the courtesy (late_return_charge).
ASSUME DaysAreCounted ==
    \A done \in Returns1 :
       DaysTooLate(done) = Cardinality({d \in 1..9 :
          /\ done.planned + (d - 1) * DayMinutes + Courtesy < done.actual
          /\ done.planned < done.actual})

\* The return costs the sum of its charges, with the taxes of each (compute_checkout_charges).
ASSUME ChargesAddUp ==
    \A done \in Returns1 :
       LET lines == CheckoutCharges(done, <<0, 2500>>)
       IN ReturnCost(done) + Paid(Charge(2500)) = BaseOf(lines) + TaxOf(lines)

Booked1 == [policy : CancellationPolicy, from : {At(10, 9, 0)}, base : {0, 4001, 12003},
            days : {1, 2, 8}, total : {14524}]

\* A fee is nothing, the nearest cent to a day of the base, or everything (cancellation_fee_for).
ASSUME FeesAreOfADay ==
    \A sold \in Booked1, gone \in BOOLEAN, at \in {At(1, 0, 0), At(7, 9, 0), At(9, 9, 1), At(11, 0, 0)} :
       LET fee == CancellationFee(sold, gone, at)
       IN IF sold.policy = "non_refundable" THEN fee = sold.total
          ELSE fee = 0 \/ 2 * (fee * sold.days - sold.base) \in (-sold.days)..sold.days

=============================================================================
