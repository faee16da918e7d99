-------------------------------- MODULE Catalog --------------------------------
(***************************************************************************)
(* The rates, their tiers and the seasons, edited from their screens while *)
(* the counter and the webs ask for prices (apps/pricing: catalog, forms   *)
(* and views, with the modal forms of core/crud.py).                       *)
(*                                                                         *)
(* The form of a rate reads the row and its tiers, is validated, and is    *)
(* saved by a transaction that takes the row, writes and looks at all the  *)
(* tiers again; the categories and offices come in another one.  A price   *)
(* is read in three queries.  The internal admin, which validates nothing, *)
(* is left out, and so are the single-row screens of extras, supplements   *)
(* and discounts: here those are constants.                                *)
(***************************************************************************)
EXTENDS Pricing

CONSTANTS
    Rate, Season, Editor,
    Typed,        \* what may be typed in the form of a rate: its columns and its lists
    SeasonRows,   \* what may be typed in the form of a season
    TierChoices,  \* the tiers that may be typed
    Initial,      \* the rates and tiers to start from, in a set
    Calendars,    \* and the seasons
    Requests,     \* the prices that are asked for
    Days,         \* the lengths of rental the properties look at
    Gone,         \* a tier that is marked to be deleted
    MaxEdits      \* bound: forms, copies and clicks

ColumnShape == [mode : {"flat", "progressive"}, season : Season \cup {None}, priority : Int,
                least : Nat, most : Nat \cup {None}, from : Int \cup {None},
                to : Int \cup {None}, channel : {"counter", "web", "partner"}]
SeasonShape == [active : BOOLEAN, from : Int, to : Int, priority : Int]
Unmarked == [categories |-> {}, offices |-> {}]
Marked == {t.lists : t \in Typed} \cup {Unmarked}

RowNumber == (0..MaxEdits) \X Nat     \* the edit that inserted it, and its first day then
Join(f, g) == [x \in DOMAIN f \cup DOMAIN g |-> IF x \in DOMAIN f THEN f[x] ELSE g[x]]
IsTable(ts, rows) == DOMAIN ts \subseteq RowNumber /\ \A i \in DOMAIN ts : ts[i] \in rows

\* What every screen that asks for a price makes sure of.
IsRequest(q) ==
    /\ q.from \in Int /\ q.to \in Int /\ q.from < q.to
    /\ q.channel \in {"counter", "web", "partner"}
    /\ q.age \in 16..110 \cup {None}
    /\ q.extras \in Seq([code : DOMAIN Extra, units : Int])
    /\ q.byHand \in Nat \cup {None}

ASSUME CatalogAssumption ==
    /\ \A t \in Typed : t.columns \in ColumnShape /\ DOMAIN t.lists = {"categories", "offices"}
    /\ Calendars \subseteq [Season -> SeasonShape]
    /\ SeasonRows \subseteq SeasonShape
    /\ MaxEdits \in Nat
    /\ TierChoices \subseteq TierShape /\ IsFiniteSet(TierChoices)
    /\ Days \subseteq Nat \ {0}
    /\ \A q \in Requests : IsRequest(q)
    /\ Gone \notin TierChoices
    /\ \A start \in Initial :
          /\ DOMAIN start \subseteq Rate
          /\ \A r \in DOMAIN start :
                /\ start[r].row \in [active : BOOLEAN, columns : ColumnShape, lists : Marked]
                /\ IsTable(start[r].tiers, TierChoices) /\ TiersCover(start[r].tiers)

VARIABLES
    rate,     \* rate -> its row, for those there are
    tiers,    \* rate -> its tiers: the number of a row -> the row
    season,   \* season -> its row
    form,     \* editor -> the form or the copy it is saving
    quote,    \* the price that is being worked out
    edits

vars == <<rate, tiers, season, form, quote, edits>>

Closed == [at |-> "closed"]
Silent == [at |-> "silent"]

\* A row of Rate as its form sees it; the lists of categories and offices are tables of
\* their own, empty until they are saved.
Row == [active : BOOLEAN, columns : ColumnShape, lists : Marked]
Seen(row) == Join([active |-> row.active], Join(row.columns, row.lists))
Rates == [r \in DOMAIN rate |-> Seen(rate[r])]

IsForm(f) ==
    \/ f = Closed
    \/ /\ DOMAIN f = {"at", "rate", "row", "lists", "writes"}
       /\ f.at \in {"read", "written", "relations"}
       /\ f.rate \in Rate /\ f.row \in Row /\ f.lists \in Marked
       /\ IsTable(f.writes, TierChoices \cup {Gone})
    \/ DOMAIN f = {"at", "rate", "of", "row"} /\ f.at = "copy" /\ {f.rate, f.of} \subseteq Rate
       /\ f.row \in Row

\* The types, and that a transaction has a row to itself.
TypeOK ==
    /\ DOMAIN rate \subseteq Rate /\ \A r \in DOMAIN rate : rate[r] \in Row
    /\ DOMAIN tiers = DOMAIN rate /\ \A r \in DOMAIN tiers : IsTable(tiers[r], TierChoices)
    /\ season \in [Season -> SeasonShape]
    /\ DOMAIN form = Editor /\ \A e \in Editor : IsForm(form[e])
    /\ \A e, f \in Editor :
          form[e].at = "written" /\ form[f].at = "written" /\ form[e].rate = form[f].rate => e = f
    /\ edits \in 0..MaxEdits

Init ==
    /\ \E start \in Initial : /\ rate = [r \in DOMAIN start |-> start[r].row]
                              /\ tiers = [r \in DOMAIN start |-> start[r].tiers]
    /\ season \in Calendars
    /\ form = [e \in Editor |-> Closed]
    /\ quote = Silent
    /\ edits = 0

-----------------------------------------------------------------------------
(* Editing a rate *)

Edit == edits < MaxEdits /\ edits' = edits + 1

\* An UPDATE of a rate waits for the transaction that has updated it.
\* Mutant: it does not.
NobodyWaits(r) == TRUE
RowFree(r) == \A e \in Editor : form[e].at = "written" => form[e].rate # r

Named(r) == \E e \in Editor : form[e].at # "closed" /\ form[e].rate = r

\* The rows of a table once the rows of `writes` are updated, inserted and deleted; to
\* update a row that somebody has deleted is to insert it.
After(ts, writes) ==
    [i \in (DOMAIN ts \cup DOMAIN writes) \ {k \in DOMAIN writes : writes[k] = Gone} |->
        IF i \in DOMAIN writes THEN writes[i] ELSE ts[i]]

\* What the formset accepts to write over the table it was built from: the rows that
\* change, those that are marked to be deleted, and new ones.
Changed(ts, plan) == [i \in {k \in DOMAIN ts : plan[k] # ts[k]} |-> plan[i]]
Inserted(added) == [i \in {<<edits + 1, tier.min>> : tier \in added} |->
                       CHOOSE tier \in added : i = <<edits + 1, tier.min>>]
Partitions == {set \in SUBSET TierChoices : TiersCover([tier \in set |-> tier])}
FormSet(ts) ==
    UNION {{Join(Changed(ts, plan), Inserted(set \ {plan[i] : i \in DOMAIN ts})) :
              plan \in {p \in [DOMAIN ts -> set \cup {Gone}] :
                  \A i, j \in DOMAIN ts : p[i] = p[j] => i = j \/ p[i] = Gone}} :
           set \in Partitions}

Opens(e, r, active, lists, writes) ==
    \E t \in Typed :
       form' = [form EXCEPT ![e] =
           [at |-> "read", rate |-> r, lists |-> t.lists, writes |-> writes,
            row |-> [active |-> active, columns |-> t.columns, lists |-> lists]]]

\* RateUpdateView: the row and the tiers of the moment, and what is typed over them.
OpenForm(e, r) ==
    /\ form[e] = Closed /\ r \in DOMAIN rate /\ Edit
    /\ \E writes \in FormSet(tiers[r]) : Opens(e, r, rate[r].active, rate[r].lists, writes)
    /\ UNCHANGED <<rate, tiers, season, quote>>

\* RateCreateView
NewForm(e, r) ==
    /\ form[e] = Closed /\ r \notin DOMAIN rate /\ ~Named(r) /\ Edit
    /\ \E writes \in FormSet(<<>>) : Opens(e, r, TRUE, Unmarked, writes)
    /\ UNCHANGED <<rate, tiers, season, quote>>

TiersOf(r) == IF r \in DOMAIN tiers THEN tiers[r] ELSE <<>>

\* save_rate: the row, the rows of its tiers, and then all that there are.
\* Mutant: those are not looked at again.
NotAgain(ts) == TRUE
Accepts(ts) == TiersCover(ts)

WriteRate(e) ==
    /\ form[e].at = "read" /\ RowFree(form[e].rate)
    /\ form' = [form EXCEPT ![e] =
           IF Accepts(After(TiersOf(form[e].rate), form[e].writes)) THEN [@ EXCEPT !.at = "written"]
           ELSE Closed]
    /\ UNCHANGED <<rate, tiers, season, quote, edits>>

With(f, r, x) == [s \in DOMAIN f \cup {r} |-> IF s = r THEN x ELSE f[s]]

\* All the columns are written as the form has them; the lists are other tables.
CommitRate(e) ==
    LET f == form[e]
        lists == IF f.rate \in DOMAIN rate THEN rate[f.rate].lists ELSE Unmarked
    IN /\ f.at = "written"
       /\ rate' = With(rate, f.rate, [f.row EXCEPT !.lists = lists])
       /\ tiers' = With(tiers, f.rate, After(TiersOf(f.rate), f.writes))
       /\ form' = [form EXCEPT ![e].at = "relations"]
       /\ UNCHANGED <<season, quote, edits>>

\* save_m2m of ModalFormMixin.form_valid
SaveRelations(e) ==
    /\ form[e].at = "relations"
    /\ rate' = [rate EXCEPT ![form[e].rate].lists = form[e].lists]
    /\ form' = [form EXCEPT ![e] = Closed]
    /\ UNCHANGED <<tiers, season, quote, edits>>

\* A process is lost, or a constraint refuses one of its statements; what had only read is
\* as if it had never come.
Break(e) ==
    /\ form[e].at \in {"written", "relations"}
    /\ form' = [form EXCEPT ![e] = Closed]
    /\ UNCHANGED <<rate, tiers, season, quote, edits>>

\* duplicate_rate reads the row, and later its lists and tiers.
StartCopy(e, r, copy) ==
    /\ form[e] = Closed /\ r \in DOMAIN rate /\ copy \notin DOMAIN rate /\ ~Named(copy) /\ Edit
    /\ form' = [form EXCEPT ![e] = [at |-> "copy", rate |-> copy, of |-> r, row |-> rate[r]]]
    /\ UNCHANGED <<rate, tiers, season, quote>>

CommitCopy(e) ==
    LET f == form[e]
    IN /\ f.at = "copy"
       /\ rate' = With(rate, f.rate, [f.row EXCEPT !.active = FALSE, !.lists = rate[f.of].lists])
       /\ tiers' = With(tiers, f.rate, tiers[f.of])
       /\ form' = [form EXCEPT ![e] = Closed]
       /\ UNCHANGED <<season, quote, edits>>

SetRateActive(r) ==
    /\ r \in DOMAIN rate /\ RowFree(r) /\ Edit
    /\ rate' = [rate EXCEPT ![r].active = ~@]
    /\ UNCHANGED <<tiers, season, form, quote>>

-----------------------------------------------------------------------------
(* Seasons *)

SetSeasonActive(s) ==
    /\ Edit
    /\ season[s].active =>
          \A r \in DOMAIN rate : ~(rate[r].active /\ rate[r].columns.season = s)
    /\ season' = [season EXCEPT ![s].active = ~@]
    /\ UNCHANGED <<rate, tiers, form, quote>>

SaveSeason(s) ==
    /\ Edit
    /\ \E row \in SeasonRows : season' = [season EXCEPT ![s] = [row EXCEPT !.active = season[s].active]]
    /\ UNCHANGED <<rate, tiers, form, quote>>

-----------------------------------------------------------------------------
(* A price *)

Still == UNCHANGED <<rate, tiers, season, form, edits>>

Ask ==
    /\ quote = Silent
    /\ \E q \in Requests : quote' = [at |-> "season", q |-> q]
    /\ Still

Answer(outcome) == quote' = [at |-> "answered", q |-> quote.q, outcome |-> outcome]

\* The season of the return is looked for too, only to warn.
ReadSeason ==
    LET q == quote.q
        mine == SeasonOf(season, Date(q.from))
        other == IF Date(q.from) < Date(q.to) /\ mine # None THEN SeasonOf(season, Date(q.to))
                 ELSE None
    IN /\ quote.at = "season"
       /\ IF "ambiguous" \in {mine, other} THEN Answer("ambiguous season")
          ELSE quote' = [at |-> "rate", q |-> q, season |-> mine]
       /\ Still

Priced(mode, table, parts) ==
    quote' = [at |-> "answered", q |-> quote.q, outcome |-> "priced", mode |-> mode,
              table |-> table, price |-> Breakdown(quote.q, parts)]

\* A price by hand needs no rate.
PriceByHand ==
    LET q == quote.q
    IN /\ quote.at = "rate" /\ q.byHand # None
       /\ Priced(None, <<>>, <<[days |-> RentalDays(q.from, q.to), price |-> q.byHand]>>)
       /\ Still

ReadRate ==
    LET won == Winners(Rates, quote.q, quote.season)
    IN /\ quote.at = "rate" /\ quote.q.byHand = None
       /\ \/ won = {} /\ Answer("no rate")
          \/ won # {} /\ ~OneOf(won) /\ Answer("ambiguous rate")
          \/ \E r \in won :
                /\ won = {r}
                /\ quote' = [at |-> "tiers", q |-> quote.q, rate |-> r, mode |-> Rates[r].mode]
       /\ Still

\* The tiers are a query of their own, and may be newer than the rate.
ReadTiers ==
    LET q == quote.q
        parts == Allocation(quote.mode, tiers[quote.rate], RentalDays(q.from, q.to))
    IN /\ quote.at = "tiers"
       /\ IF parts = <<>> THEN Answer("no tier") ELSE Priced(quote.mode, tiers[quote.rate], parts)
       /\ Still

Leave == quote # Silent /\ quote' = Silent /\ Still

-----------------------------------------------------------------------------
\* The buttons that activate and deactivate.
Toggles ==
    \/ \E r \in Rate : SetRateActive(r)
    \/ \E s \in Season : SetSeasonActive(s)

Screens ==
    \/ \E e \in Editor :
          \/ \E r \in Rate : OpenForm(e, r) \/ NewForm(e, r)
          \/ \E r, copy \in Rate : StartCopy(e, r, copy)
          \/ WriteRate(e) \/ CommitRate(e) \/ SaveRelations(e) \/ CommitCopy(e) \/ Break(e)
    \/ Toggles
    \/ \E s \in Season : SaveSeason(s)

Pricer == Ask \/ ReadSeason \/ PriceByHand \/ ReadRate \/ ReadTiers \/ Leave

Next == Screens \/ Pricer
Spec == Init /\ [][Next]_vars

-----------------------------------------------------------------------------
(* Properties *)

\* "Los tramos de una tarifa tienen que cubrir la recta de dias entera y sin pisarse"
\* (services/tiers.py), however many forms are saved over one another: whatever the length
\* of a rental, one tier of a rate has its price, and no other.
PricedOnce(ts, d) ==
    \E i \in DOMAIN ts : Covers(ts[i], d) /\ \A j \in DOMAIN ts : Covers(ts[j], d) => j = i
EveryDayIsPricedOnce == \A r \in DOMAIN tiers : \A d \in Days : PricedOnce(tiers[r], d)

\* A price that is read while its rate is being edited always finds its tiers, and what
\* tier_allocation adds up is what its days cost one by one: each at the price of its own
\* tier, or all at that of the whole length.
PriceOf(ts, d) == (CHOOSE tier \in {ts[i] : i \in DOMAIN ts} : Covers(tier, d)).price
DayByDay(mode, ts, days) ==
    Sum([d \in 1..days |-> PriceOf(ts, IF mode = "progressive" THEN d ELSE days)])
PricedByTheDay ==
    quote.at = "answered" =>
       /\ quote.outcome # "no tier"
       /\ quote.outcome = "priced" /\ quote.mode # None =>
             quote.price.base = DayByDay(quote.mode, quote.table, quote.price.days)

\* "Nunca dejan la base del alquiler por debajo de cero" (_lineas_de_descuentos): discounts
\* of any kind, together, take no more than the rental; what is added to it is always paid.
DiscountsStopAtZero ==
    quote.at = "answered" /\ quote.outcome = "priced" =>
       LET price == quote.price
       IN /\ price.discounts \in 0..price.base
          /\ price.taxable = price.base + price.extras + price.supplements - price.discounts

\* What the screen of conflicts lists.
Conflicts == {pair \in (DOMAIN rate) \X (DOMAIN rate) :
                 pair[1] # pair[2] /\ Conflict(Rates[pair[1]], Rates[pair[2]])}

\* The screen of conflicts has foreseen every tie of two rates of one season that a request
\* can meet: "Es exactamente lo que provocaria un AmbiguousRate en el mostrador" (RateConflict).
TiesAreForeseen ==
    LET rates == Rates
    IN \A q \in Requests :
          \A a, b \in Winners(rates, q, SeasonOf(season, Date(q.from))) :
             a # b /\ rates[a].season = rates[b].season => <<a, b>> \in Conflicts

=============================================================================
