-------------------------------- MODULE Pricing --------------------------------
(***************************************************************************)
(* What a rental costs (apps/pricing/services: duration, rates, tiers and  *)
(* engine), as operators over the tables of a catalogue.                   *)
(*                                                                         *)
(* Instants are minutes and dates the days they fall on; money is cents    *)
(* and percentages are whole.  The tiers of a rate are a table, row number *)
(* -> tier, as RateTier is.  Names, warnings and the record that goes to   *)
(* the screen are left out.                                                *)
(***************************************************************************)
EXTENDS Integers, FiniteSets, Sequences, SequencesExt

CONSTANTS
    Pool,         \* office -> its pool, or None
    Extra,        \* code -> [kind, price, most, cap, tax]; a cap may be None
    Supplement,   \* sequence of [kind, percent, amount, tax, from, to, offices]
    Discount,     \* sequence, by name, of [code, percent, amount, least, categories, from, to]
    Courtesy,     \* RENTAL_COURTESY_MINUTES
    TaxRate,      \* DEFAULT_TAX_RATE
    None

\* What is charged besides the days, as its tables keep it and its forms accept it.
IsExtra(extra) ==
    /\ extra.kind \in {"once", "per_day", "per_reservation"}
    /\ extra.price \in Nat /\ extra.tax \in Nat /\ extra.most \in Nat
    /\ extra.cap \in Nat \cup {None}
IsSupplement(supplement) ==
    supplement.amount \in Nat /\ supplement.percent \in BOOLEAN /\ supplement.tax \in Nat
ExtraTyped(extra) ==
    extra.cap # None => extra.kind = "per_day" /\ extra.price <= extra.cap

\* `from` and `to` are ages, or opening hours.
SupplementTyped(supplement) ==
    /\ supplement.kind = "young_driver" =>
          supplement.to # None /\ (supplement.from = None \/ supplement.from <= supplement.to)
    /\ supplement.kind = "after_hours" => None \notin {supplement.from, supplement.to}
    /\ supplement.kind = "airport" => supplement.offices # {}

\* Those without a code are granted to anybody; a code is of one discount.
IsDiscount(discount) ==
    /\ discount.amount \in Nat /\ discount.percent \in BOOLEAN
    /\ discount.least \in Nat \cup {None}
    /\ {discount.from, discount.to} \subseteq Int \cup {None}
    /\ discount.code # None => \E i \in DOMAIN Discount : {i} = {j \in DOMAIN Discount :
                                                            Discount[j].code = discount.code}
DiscountTyped(discount) ==
    /\ discount.percent => discount.amount <= 100
    /\ None \notin {discount.from, discount.to} => discount.from <= discount.to

ASSUME PricingAssumption ==
    /\ Courtesy \in 0..1439
    /\ \A code \in DOMAIN Extra : IsExtra(Extra[code]) /\ ExtraTyped(Extra[code])
    /\ Len(Supplement) \in Nat /\ DOMAIN Supplement = 1..Len(Supplement)
    /\ \A n \in DOMAIN Supplement : IsSupplement(Supplement[n]) /\ SupplementTyped(Supplement[n])
    /\ Len(Discount) \in Nat /\ DOMAIN Discount = 1..Len(Discount)
    /\ \A n \in DOMAIN Discount : IsDiscount(Discount[n]) /\ DiscountTyped(Discount[n])

-----------------------------------------------------------------------------
(* Days *)

DayMinutes == 1440
Date(at) == at \div DayMinutes
TimeOfDay(at) == at % DayMinutes

\* rental_days: whole days, and one more when what is left over is beyond the margin.
RentalDays(from, to) ==
    LET full == (to - from) \div DayMinutes
        over == (to - from) % DayMinutes
        days == full + (IF over > Courtesy THEN 1 ELSE 0)
    IN IF days < 1 THEN 1 ELSE days

\* late_return_charge: the days of more that a late return is charged.
LateDays(from, planned, actual) ==
    IF actual <= planned THEN 0
    ELSE LET more == RentalDays(from, actual) - RentalDays(from, planned)
         IN IF more <= 0 THEN 0 ELSE more

-----------------------------------------------------------------------------
(* Tiers *)

Open == 0     \* a null max_days: the tier goes on for ever

TierShape == [min : Nat, max : Nat, price : Nat]

Covers(tier, days) == tier.min <= days /\ (tier.max = Open \/ days <= tier.max)

\* Mutant: the first day of the tier is not counted.
DaysAfterFirst(tier, days) ==
    IF days < tier.min THEN 0
    ELSE (IF tier.max = Open \/ days < tier.max THEN days ELSE tier.max) - tier.min
DaysWithin(tier, days) ==
    IF days < tier.min THEN 0
    ELSE (IF tier.max = Open \/ days < tier.max THEN days ELSE tier.max) - tier.min + 1

\* j comes after i in the order of the days, with nothing between them.
Follows(ts, i, j) ==
    /\ ts[i].min < ts[j].min
    /\ \A k \in DOMAIN ts : ts[k].min <= ts[i].min \/ ts[j].min <= ts[k].min

\* validate_tiers finds no problem.
TiersCover(ts) ==
    /\ DOMAIN ts # {}
    /\ \A i \in DOMAIN ts : ts[i].min >= 1 /\ (ts[i].max = Open \/ ts[i].max >= ts[i].min)
    /\ \E i \in DOMAIN ts : ts[i].min = 1
    /\ \A i, j \in DOMAIN ts : ts[i].min = ts[j].min => i = j
    /\ \A i, j \in DOMAIN ts :
          Follows(ts, i, j) => ts[i].max # Open /\ ts[j].min = ts[i].max + 1
    /\ \A i \in DOMAIN ts : (\A j \in DOMAIN ts : ts[j].min <= ts[i].min) => ts[i].max = Open

Part(tier, days) == [days |-> days, price |-> tier.price]

\* The tiers in the order of their days.
TierList(ts) ==
    LET set == {ts[i] : i \in DOMAIN ts}
    IN CHOOSE list \in [1..Cardinality(set) -> set] :
          \A m, n \in DOMAIN list : m < n => list[m] # list[n] /\ list[m].min <= list[n].min

Sum(amounts) == FoldLeft(LAMBDA sum, n : sum + n, 0, amounts)
DaysOf(parts) == Sum([n \in DOMAIN parts |-> parts[n].days])

\* tier_allocation: how the days are shared among the tiers; the empty sequence when there
\* is no tier for them.
FlatAllocation(ts, days) ==
    LET list == TierList(ts)
        fit == {n \in DOMAIN list : Covers(list[n], days)}
    IN IF fit = {} THEN <<>> ELSE <<Part(list[Min(fit)], days)>>

\* One more tier, when some of the days fall in it.
Share(parts, tier, days) ==
    LET within == DaysWithin(tier, days)
    IN IF within > 0 THEN Append(parts, Part(tier, within)) ELSE parts

ProgressiveAllocation(ts, days) ==
    LET parts == FoldLeft(LAMBDA some, tier : Share(some, tier, days), <<>>, TierList(ts))
    IN IF DaysOf(parts) = days THEN parts ELSE <<>>

Allocation(mode, ts, days) ==
    IF mode = "progressive" THEN ProgressiveAllocation(ts, days) ELSE FlatAllocation(ts, days)

-----------------------------------------------------------------------------
(* Seasons and rates *)

InSeason(row, date) == row.active /\ row.from <= date /\ date <= row.to

\* resolve_season: the season of a date, None, or "ambiguous".
SeasonOf(seasons, date) ==
    LET here == {s \in DOMAIN seasons : InSeason(seasons[s], date)}
        best == {s \in here : \A t \in here : seasons[t].priority <= seasons[s].priority}
    IN IF here = {} THEN None
       ELSE IF \E s, t \in best : s # t THEN "ambiguous"
       ELSE CHOOSE s \in best : TRUE

OneOf(set) == \E x \in set : set = {x}

Specificity(rate) ==
    (IF rate.season # None THEN 4 ELSE 0) + (IF rate.offices # {} THEN 2 ELSE 0)
    + (IF rate.most # None \/ rate.least > 1 THEN 1 ELSE 0)
    + (IF OneOf(rate.categories) THEN 1 ELSE 0)

CoversDate(rate, date) ==
    (rate.from = None \/ rate.from <= date) /\ (rate.to = None \/ date <= rate.to)
CoversDays(rate, days) == rate.least <= days /\ (rate.most = None \/ days <= rate.most)

Applicable(rates, q, season) ==
    LET days == RentalDays(q.from, q.to)
    IN {r \in DOMAIN rates :
           /\ rates[r].active
           /\ q.category \in rates[r].categories /\ rates[r].channel = q.channel
           /\ rates[r].offices = {} \/ q.office \in rates[r].offices
           /\ CoversDate(rates[r], Date(q.from)) /\ CoversDays(rates[r], days)
           /\ rates[r].season = None \/ rates[r].season = season}

NoBetter(a, b) == \/ a.priority < b.priority
                  \/ a.priority = b.priority /\ Specificity(a) <= Specificity(b)

\* resolve_rate: those that win; more than one is an AmbiguousRate.
Winners(rates, q, season) ==
    LET fit == Applicable(rates, q, season)
    IN {r \in fit : \A other \in fit : NoBetter(rates[other], rates[r])}

\* find_rate_conflicts: what the screen of conflicts says of two rates.
RangesMeet(from1, to1, from2, to2) ==
    /\ ~(to1 # None /\ from2 # None /\ to1 < from2)
    /\ ~(to2 # None /\ from1 # None /\ to2 < from1)

CommonDays(a, b) ==
    LET first == IF a.least < b.least THEN b.least ELSE a.least
    IN (a.most = None \/ first <= a.most) /\ (b.most = None \/ first <= b.most)

\* Mutant: rates of all the offices are compared with each other only.
SameOfficesOnly(a, b) == a.offices = b.offices
ShareOffices(a, b) == a.offices = {} \/ b.offices = {} \/ a.offices \cap b.offices # {}

Conflict(a, b) ==
    /\ a.active /\ b.active /\ a.channel = b.channel /\ a.season = b.season
    /\ a.priority = b.priority /\ Specificity(a) = Specificity(b)
    /\ RangesMeet(a.from, a.to, b.from, b.to) /\ CommonDays(a, b)
    /\ ShareOffices(a, b) /\ a.categories \cap b.categories # {}

-----------------------------------------------------------------------------
(* Lines *)

\* redondear: to the cent, halves away from zero.
HalfUp(n, d) == IF n >= 0 THEN (2 * n + d) \div (2 * d) ELSE -((d - 2 * n) \div (2 * d))
Percent(amount, rate) == HalfUp(amount * rate, 100)

Line(base, rate) == [base |-> base, tax |-> Percent(base, rate)]
BaseOf(lines) == Sum([n \in DOMAIN lines |-> lines[n].base])
TaxOf(lines) == Sum([n \in DOMAIN lines |-> lines[n].tax])

RentalLines(parts) ==
    [n \in DOMAIN parts |-> Line(parts[n].days * parts[n].price, TaxRate)]

Least(a, b) == IF a < b THEN a ELSE b

\* The cap is of a unit; what is charged by reservation is charged once.
ExtraLine(asked, days) ==
    LET extra == Extra[asked.code]
        units == Least(IF asked.units < 1 THEN 1 ELSE asked.units, extra.most)
        daily == extra.price * days
        unit  == IF extra.kind # "per_day" THEN extra.price
                 ELSE IF extra.cap # None /\ daily > extra.cap THEN extra.cap ELSE daily
    IN Line(unit * (IF extra.kind = "per_reservation" THEN 1 ELSE units), extra.tax)

SamePool(a, b) == a = b \/ (Pool[a] # None /\ Pool[a] = Pool[b])

Applies(supplement, q) ==
    CASE supplement.kind = "one_way" -> ~SamePool(q.office, q.back)
      [] supplement.kind = "young_driver" ->
            /\ q.age # None
            /\ (supplement.from = None \/ supplement.from <= q.age)
            /\ q.age <= (IF supplement.to = None THEN 200 ELSE supplement.to)
      [] supplement.kind = "airport" -> {q.office, q.back} \cap supplement.offices # {}
      [] supplement.kind = "after_hours" ->
            /\ supplement.from # None /\ supplement.to # None
            /\ \E at \in {q.from, q.to} :
                  TimeOfDay(at) \notin supplement.from..supplement.to

Amount(charge, base) == IF charge.percent THEN Percent(base, charge.amount) ELSE charge.amount

Supply(lines, supplement, q, base) ==
    IF Applies(supplement, q) THEN Append(lines, Line(Amount(supplement, base), supplement.tax))
                              ELSE lines
SupplementLines(q, base) ==
    FoldLeft(LAMBDA lines, supplement : Supply(lines, supplement, q, base), <<>>, Supplement)

Grants(discount, q, days) ==
    /\ CoversDate(discount, Date(q.from))
    /\ discount.least = None \/ days >= discount.least
    /\ discount.categories = {} \/ q.category \in discount.categories
    /\ discount.code = None \/ discount.code = q.code

\* Each discount takes what the earlier ones left of the rental, at most.
\* Mutant: each may take the whole rental.
TakeAll(acc, amount) ==
    IF amount <= 0 THEN acc
    ELSE [left |-> acc.left, lines |-> Append(acc.lines, Line(-amount, TaxRate))]
Take(acc, amount) ==
    LET off == Least(amount, acc.left)
    IN IF off <= 0 THEN acc
       ELSE [left |-> acc.left - off, lines |-> Append(acc.lines, Line(-off, TaxRate))]

Deduct(acc, discount, q, days, base) ==
    IF Grants(discount, q, days) THEN Take(acc, Amount(discount, base)) ELSE acc
DiscountLines(q, days, base) ==
    LET off == FoldLeft(LAMBDA acc, discount : Deduct(acc, discount, q, days, base),
                        [left |-> base, lines |-> <<>>], Discount)
    IN off.lines

\* calculate_reservation_price, once the rate is known: `parts` are the days and their
\* prices, of the tiers or forced by hand.
Breakdown(q, parts) ==
    LET days == RentalDays(q.from, q.to)
        rental == RentalLines(parts)
        base == BaseOf(rental)
        extras == [n \in DOMAIN q.extras |-> ExtraLine(q.extras[n], days)]
        added == SupplementLines(q, base)
        off == DiscountLines(q, days, base)
        lines == rental \o extras \o added \o off
    IN [days |-> days, base |-> base, extras |-> BaseOf(extras), supplements |-> BaseOf(added),
        discounts |-> -BaseOf(off), taxable |-> BaseOf(lines), tax |-> TaxOf(lines)]

=============================================================================
