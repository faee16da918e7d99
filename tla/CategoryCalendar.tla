-------------------------- MODULE CategoryCalendar --------------------------
(***************************************************************************)
(* What the availability engine promises, without locks, transactions or   *)
(* cars: a book of commitments per category and pool, in which a booking   *)
(* enters or moves only if the cars suffice at every instant it covers, or *)
(* somebody authorised it when it was sold.                                *)
(***************************************************************************)
EXTENDS Integers, FiniteSets

CONSTANTS
    Reservation, Category, Pool,
    LastInstant,   \* the instants are 0 .. LastInstant
    NoSale         \* what the book holds for a reservation that takes no car

VARIABLES
    sold,   \* reservation -> its commitment or NoSale
    cars    \* <<category, pool, instant>> -> cars that can be handed over then

Instant == 0 .. LastInstant
Commitment == [category: Category, pool: Pool, from: Instant, until: Instant,
               authorised: BOOLEAN]

TypeOK ==
    /\ sold \in [Reservation -> Commitment \cup {NoSale}]
    /\ cars \in [Category \X Pool \X Instant -> Nat]

Covers(s, cat, pool, t) ==
    s # NoSale /\ s.category = cat /\ s.pool = pool /\ s.from <= t /\ t < s.until

Taken(cat, pool, t) == {r \in Reservation : Covers(sold[r], cat, pool, t)}
Authorised(cat, pool, t) == {r \in Taken(cat, pool, t) : sold[r].authorised}

\* After the step, every instant of commitment s has a car for each booking.
FitsNow(s) ==
    \A t \in Instant :
        Covers(s, s.category, s.pool, t) =>
            Cardinality(Taken(s.category, s.pool, t)') <= cars[<<s.category, s.pool, t>>]

Init ==
    /\ sold = [r \in Reservation |-> NoSale]
    /\ cars \in [Category \X Pool \X Instant -> Nat]

Sell(r, s) ==
    /\ sold[r] = NoSale
    /\ sold' = [sold EXCEPT ![r] = s]
    /\ s.authorised \/ FitsNow(s)
    /\ UNCHANGED cars

Reschedule(r, s) ==
    /\ sold[r] # NoSale
    /\ s.authorised = sold[r].authorised
    /\ sold' = [sold EXCEPT ![r] = s]
    /\ FitsNow(s)
    /\ UNCHANGED cars

GiveBack(r) ==
    /\ sold' = [sold EXCEPT ![r] = NoSale]
    /\ UNCHANGED cars

Next == \E r \in Reservation :
            \/ GiveBack(r)
            \/ \E s \in Commitment \cap {sold'[r]} : Sell(r, s) \/ Reschedule(r, s)

vars == <<sold, cars>>
Spec == Init /\ [][Next]_vars

\* A pool is never short of cars by more than the sales that were authorised
\* above its capacity.
NeverShort ==
    \A cat \in Category, pool \in Pool, t \in Instant :
        Cardinality(Taken(cat, pool, t))
            <= cars[<<cat, pool, t>>] + Cardinality(Authorised(cat, pool, t))

=============================================================================
