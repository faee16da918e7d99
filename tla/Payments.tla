------------------------------- MODULE Payments -------------------------------
(***************************************************************************)
(* The money of a reservation: the table of payments, which the counter    *)
(* and the confirmations of the gateways write, and the payment links that *)
(* clients pay at Stripe or Redsys (apps/billing: services and online).    *)
(*                                                                         *)
(* What the gateway did is `attempt`, and is external: it charges once per *)
(* checkout, and tells what happened when it likes, as often as it likes   *)
(* and in any order, until it is answered and sometimes after.  A service  *)
(* that fails leaves nothing in the database; what it asked of the gateway *)
(* stays done.  Permissions, offices, methods and texts are left out.      *)
(***************************************************************************)
EXTENDS Integers, Sequences, FiniteSetsExt

CONSTANTS
    Clerk,         \* the requests that may be open at a time
    Reservation,
    Link,          \* OnlinePayment rows
    NoLink,
    Hold,          \* the links that ask for a deposit: is_hold
    Stripe,        \* the links of Stripe; the others are of Redsys
    ResOf,         \* link -> its reservation
    AmountOf,      \* link -> its amount
    Owed,          \* reservation -> grand_total
    Amounts,       \* bound: what may be typed at the counter
    MaxTyped,      \* bound: payments of the counter
    MaxAttempts    \* bound: checkouts

ASSUME PaymentsAssumption ==
    /\ NoLink \notin Link
    /\ Hold \subseteq Link /\ Stripe \subseteq Link
    /\ ResOf \in [Link -> Reservation]
    /\ AmountOf \in [Link -> Nat \ {0}]
    /\ Owed \in [Reservation -> Nat]
    /\ Amounts \subseteq Nat \ {0}
    /\ MaxTyped \in Nat /\ MaxAttempts \in Nat

VARIABLES
    rows,     \* the payments, in the order they were written; an id is a place here
    link,     \* link -> its OnlinePayment row
    attempt,  \* the checkouts the gateways have opened; a reference is a place here
    job       \* clerk -> the request it has open

vars == <<rows, link, attempt, job>>

RentalTypes == {"payment", "refund"}     \* advances and charges are as payments here
DepositTypes == {"deposit", "deposit_return"}
OutgoingTypes == {"refund", "deposit_return"}

\* `ref` is the operation of the gateway an online payment comes from, 0 at the counter.
Payment == [res: Reservation, type: RentalTypes \cup DepositTypes, amount: Int,
            link: Link \cup {NoLink}, ref: Nat]

Open == {"created", "pending"}
Settled == {"paid", "authorized", "captured", "released"}
OnlineStatus == Open \cup Settled \cup {"failed", "cancelled", "expired"}
\* "none" is a link that has not been created.
OnlinePayment == [status: OnlineStatus \cup {"none"},
                  ref: Nat, intent: Nat, payment: Nat, captured: Nat]

\* The card was charged, or the deposit held on it, whatever came later.
Charged == {"paid", "held", "captured", "released", "lapsed"}
Outcomes == Charged \cup {"refused", "expired"}
Attempt == [link: Link, state: Outcomes \cup {"open"}, taken: Nat, told: BOOLEAN]

Idle == [kind |-> "idle"]
RegisterJob == [kind: {"register"}, row: Payment]
NoticeJob == [kind: {"notice"}, link: Link, ref: Nat]
SettleJob == [kind: {"settle"}, link: Link, amount: Nat, checked: BOOLEAN]

TypeOK ==
    /\ rows \in Seq(Payment)
    /\ \A i \in DOMAIN rows : IF rows[i].type \in OutgoingTypes THEN rows[i].amount < 0
                                                              ELSE rows[i].amount > 0
    /\ link \in [Link -> OnlinePayment]
    /\ attempt \in Seq(Attempt)
    /\ job \in [Clerk -> {Idle} \cup RegisterJob \cup NoticeJob \cup SettleJob]

Init ==
    /\ rows = << >>
    /\ link = [l \in Link |-> [status |-> "none", ref |-> 0, intent |-> 0,
                              payment |-> 0, captured |-> 0]]
    /\ attempt = << >>
    /\ job = [c \in Clerk |-> Idle]

Start(c, request) == job[c] = Idle /\ job' = [job EXCEPT ![c] = request]
Done(c) == job' = [job EXCEPT ![c] = Idle]

\* The transaction fails at any point, the gateway's answer to it included.
Rollback(c) ==
    /\ job[c] # Idle
    /\ Done(c)
    /\ UNCHANGED <<rows, link, attempt>>

\* total, over the payments of a reservation
Total(r, types) ==
    MapThenSumSet(LAMBDA i : rows[i].amount,
                  {i \in DOMAIN rows : rows[i].res = r /\ rows[i].type \in types})
PaidAmount(r) == Total(r, RentalTypes)
DepositHeld(r) == Total(r, DepositTypes)
PendingAmount(r) == Max({Owed[r] - PaidAmount(r), 0})

-----------------------------------------------------------------------------
(* The counter.  Nothing is locked: register_payment looks at the totals it can
   see and writes its row. *)

\* What register_payment asks of a movement before it writes it.
Accepts(r, type, amount, allowed) ==
    /\ type = "deposit_return" => amount <= DepositHeld(r)
    /\ type = "payment" => allowed \/ amount <= PendingAmount(r)

\* Mutant: the amount is written as it was typed.
Typed(type, amount) == amount
\* _normalizar_importe
Signed(type, amount) == IF type \in OutgoingTypes THEN -amount ELSE amount
Row(r, type, amount, l, ref) ==
    [res |-> r, type |-> type, amount |-> Signed(type, amount), link |-> l, ref |-> ref]

\* register_payment; allowed is an overpayment somebody with permission confirms.
OpenPayment(c, r, type, amount, allowed) ==
    /\ Accepts(r, type, amount, allowed)
    /\ Start(c, [kind |-> "register", row |-> Row(r, type, amount, NoLink, 0)])
    /\ UNCHANGED <<rows, link, attempt>>

\* refund: against the payment, and a deposit also against what is held.
OpenRefund(c, i, amount) ==
    LET type == IF rows[i].type \in DepositTypes THEN "deposit_return" ELSE "refund"
    IN /\ rows[i].amount > 0
       /\ amount <= rows[i].amount
       /\ Accepts(rows[i].res, type, amount, FALSE)
       /\ Start(c, [kind |-> "register", row |-> Row(rows[i].res, type, amount, NoLink, 0)])
       /\ UNCHANGED <<rows, link, attempt>>

WritePayment(c) ==
    /\ job[c].kind = "register"
    /\ Cardinality({i \in DOMAIN rows : rows[i].link = NoLink}) < MaxTyped
    /\ rows' = Append(rows, job[c].row)
    /\ Done(c)
    /\ UNCHANGED <<link, attempt>>

-----------------------------------------------------------------------------
(* Links *)

\* The row of a link, taken FOR UPDATE.
LinkFree(l) == \A c \in Clerk : job[c].kind = "settle" => job[c].link # l

CreateLink(l) ==
    /\ link[l].status = "none"
    /\ l \in Hold \/ AmountOf[l] <= PendingAmount(ResOf[l])
    /\ link' = [link EXCEPT ![l].status = "created"]
    /\ UNCHANGED <<rows, attempt, job>>

Checkout(l) == [link |-> l, state |-> "open", taken |-> 0, told |-> FALSE]

\* A new session, or a new order, at each click of the client.  One whose row could
\* not be saved is never given to the client.
StartCheckout(l) ==
    /\ LinkFree(l)
    /\ link[l].status \in Open
    /\ Len(attempt) < MaxAttempts
    /\ attempt' = Append(attempt, Checkout(l))
    /\ link' = [link EXCEPT ![l].status = "pending", ![l].ref = Len(attempt')]
    /\ UNCHANGED <<rows, job>>

CancelLink(l) ==
    /\ LinkFree(l)
    /\ link[l].status \in Open
    /\ link' = [link EXCEPT ![l].status = "cancelled"]
    /\ UNCHANGED <<rows, attempt, job>>

\* expire_old_links, for the links whose time has passed: one of them takes no
\* checkout (is_open) from then until it is marked, which is no step here.
ExpireOldLinks(old) ==
    /\ \A l \in old : link[l].status \in Open
    /\ link' = [l \in Link |->
                  IF l \in old THEN [link[l] EXCEPT !.status = "expired"] ELSE link[l]]
    /\ UNCHANGED <<rows, attempt, job>>

-----------------------------------------------------------------------------
(* The gateways, external: a checkout that is open ends in one way, and a hold
   that nobody captures lapses by itself. *)

\* What the session, or the form, asks for: to hold the amount or to charge it.
Asked(l) == IF l \in Hold THEN "held" ELSE "paid"

Outcome(a, state) ==
    /\ attempt[a].state = "open"
    /\ state \in {Asked(attempt[a].link), "refused", "expired"}
    /\ state = "expired" => attempt[a].link \in Stripe
    /\ attempt' = [attempt EXCEPT ![a].state = state]
    /\ UNCHANGED <<rows, link, job>>

Lapse(a) ==
    /\ attempt[a].state = "held"
    /\ attempt' = [attempt EXCEPT ![a].state = "lapsed"]
    /\ UNCHANGED <<rows, link, job>>

-----------------------------------------------------------------------------
(* Notifications *)

\* The link a notification is about: Stripe sends the token, Redsys the order.
Addressee(a, l) ==
    IF attempt[a].link \in Stripe THEN attempt[a].link = l
    ELSE l \notin Stripe /\ link[l].ref = a

\* handle_stripe_event and handle_redsys_notification, up to the lock.
ReadNotice(c, a) ==
    /\ attempt[a].state \in Outcomes
    /\ \E l \in Link : /\ Addressee(a, l)
                       /\ Start(c, [kind |-> "notice", link |-> l, ref |-> a])
    /\ UNCHANGED <<rows, link, attempt>>

\* Nobody has that order any more: the answer is "ok" all the same.
DropNotice(a) ==
    /\ attempt[a].state \in Outcomes
    /\ \A l \in Link : ~Addressee(a, l)
    /\ attempt' = [attempt EXCEPT ![a].told = TRUE]
    /\ UNCHANGED <<rows, link, job>>

Answer(c) ==
    /\ attempt' = [attempt EXCEPT ![job[c].ref].told = TRUE]
    /\ Done(c)

\* Mutant: a notification is taken as new whatever the status of the row.
AnyNotice(c) ==
    /\ job[c].kind = "notice"
    /\ LinkFree(job[c].link)
\* _confirmar, behind the lock: settled links have nothing to be told.
FreshNotice(c) ==
    /\ job[c].kind = "notice"
    /\ LinkFree(job[c].link)
    /\ link[job[c].link].status \notin Settled

\* Mutant: the status of the payment is not looked at in the notification.
ConfirmAnything(c) ==
    LET l == job[c].link
        a == job[c].ref
        type == IF l \in Hold THEN "deposit" ELSE "payment"
    IN /\ FreshNotice(c)
       /\ rows' = Append(rows, Row(ResOf[l], type, AmountOf[l], l, a))
       /\ link' = [link EXCEPT ![l].status = IF l \in Hold THEN "authorized" ELSE "paid",
                               ![l].intent = IF l \in Stripe THEN a ELSE @,
                               ![l].payment = Len(rows')]
       /\ Answer(c)
\* Mutant: what the gateway charged is checked like a payment of the counter.
ConfirmIfPending(c) ==
    LET l == job[c].link
        a == job[c].ref
        type == IF l \in Hold THEN "deposit" ELSE "payment"
    IN /\ FreshNotice(c)
       /\ attempt[a].state \in Charged
       /\ Accepts(ResOf[l], type, AmountOf[l], FALSE)
       /\ rows' = Append(rows, Row(ResOf[l], type, AmountOf[l], l, a))
       /\ link' = [link EXCEPT ![l].status = IF l \in Hold THEN "authorized" ELSE "paid",
                               ![l].intent = IF l \in Stripe THEN a ELSE @,
                               ![l].payment = Len(rows')]
       /\ Answer(c)
\* _confirmar with _apuntar_cobro, which asks nothing of the totals.
ConfirmCharge(c) ==
    LET l == job[c].link
        a == job[c].ref
        type == IF l \in Hold THEN "deposit" ELSE "payment"
    IN /\ FreshNotice(c)
       /\ attempt[a].state \in Charged
       /\ rows' = Append(rows, Row(ResOf[l], type, AmountOf[l], l, a))
       /\ link' = [link EXCEPT ![l].status = IF l \in Hold THEN "authorized" ELSE "paid",
                               ![l].intent = IF l \in Stripe THEN a ELSE @,
                               ![l].payment = Len(rows')]
       /\ Answer(c)

\* Redsys: the payment was refused, whatever had become of the link.
ConfirmRefusal(c) ==
    LET l == job[c].link
    IN /\ FreshNotice(c)
       /\ l \notin Stripe /\ attempt[job[c].ref].state = "refused"
       /\ link' = [link EXCEPT ![l].status = "failed"]
       /\ Answer(c)
       /\ UNCHANGED rows

\* Stripe: a session that expired, or whose payment failed, closes an open link.
CloseSession(c) ==
    LET l == job[c].link
        state == attempt[job[c].ref].state
    IN /\ FreshNotice(c)
       /\ l \in Stripe /\ state \in {"refused", "expired"}
       /\ link[l].status \in Open
       /\ link' = [link EXCEPT ![l].status = IF state = "expired" THEN "expired" ELSE "failed"]
       /\ Answer(c)
       /\ UNCHANGED rows

\* What is left: repeated notifications, and sessions of links already closed.
IgnoreNotice(c) ==
    LET l == job[c].link
    IN /\ job[c].kind = "notice" /\ LinkFree(l)
       /\ \/ link[l].status \in Settled
          \/ /\ l \in Stripe /\ attempt[job[c].ref].state \notin Charged
             /\ link[l].status \notin Open
       /\ Answer(c)
       /\ UNCHANGED <<rows, link>>

-----------------------------------------------------------------------------
(* Deposits held on a card *)

\* Stripe is asked about the intent that was confirmed, Redsys about the last order.
Operation(l) == IF l \in Stripe THEN link[l].intent ELSE link[l].ref

\* An operation that the gateway refuses is an error, and nothing else is done.
Grants(a) == attempt[a].state = "held"

\* capture_deposit for an amount and release_deposit for 0, up to the answer of
\* the gateway, which refuses what it does not hold.
CallGateway(c, l, amount) ==
    LET a == Operation(l)
    IN /\ LinkFree(l)
       /\ link[l].status = "authorized"
       /\ amount <= AmountOf[l]
       /\ Grants(a)
       /\ attempt' = [attempt EXCEPT ![a].state = IF amount = 0 THEN "released" ELSE "captured",
                                     ![a].taken = amount]
       /\ Start(c, [kind |-> "settle", link |-> l, amount |-> amount, checked |-> FALSE])
       /\ UNCHANGED <<rows, link>>

\* What is not captured goes back as a deposit return, if that much is held.
CheckReturn(c) ==
    LET l == job[c].link
    IN /\ job[c].kind = "settle" /\ ~job[c].checked
       /\ job[c].amount < AmountOf[l] =>
             Accepts(ResOf[l], "deposit_return", AmountOf[l] - job[c].amount, FALSE)
       /\ job' = [job EXCEPT ![c].checked = TRUE]
       /\ UNCHANGED <<rows, link, attempt>>

\* Mutant: the whole deposit is written back, captured or not.
ReturnAll(l, amount) == Append(rows, Row(ResOf[l], "deposit_return", AmountOf[l], l, Operation(l)))
Returned(l, amount) ==
    IF amount = AmountOf[l] THEN rows
    ELSE Append(rows, Row(ResOf[l], "deposit_return", AmountOf[l] - amount, l, Operation(l)))

SettleDeposit(c) ==
    LET l == job[c].link
        amount == job[c].amount
    IN /\ job[c].kind = "settle" /\ job[c].checked
       /\ rows' = Returned(l, amount)
       /\ link' = [link EXCEPT ![l].status = IF amount = 0 THEN "released" ELSE "captured",
                               ![l].captured = amount]
       /\ Done(c)
       /\ UNCHANGED attempt

-----------------------------------------------------------------------------

PaymentScreen(c) ==
    \E r \in Reservation, type \in RentalTypes \cup DepositTypes, amount \in Amounts,
       allowed \in BOOLEAN : OpenPayment(c, r, type, amount, allowed)
RefundScreen(c) == \E i \in DOMAIN rows, amount \in Amounts : OpenRefund(c, i, amount)
Counter == \E c \in Clerk : PaymentScreen(c) \/ RefundScreen(c) \/ WritePayment(c)

LinkScreen == \E l \in Link : CreateLink(l)
PayPage == \E l \in Link : StartCheckout(l)
CaptureScreen(c) ==
    \E l \in Hold : \E amount \in 1 .. AmountOf[l] : CallGateway(c, l, amount)
\* release and cancel, the two buttons of a link
LinkButtons(c) == (\E l \in Link : CancelLink(l)) \/ \E l \in Hold : CallGateway(c, l, 0)
Links == LinkScreen \/ PayPage \/ \E old \in SUBSET Link \ {{}} : ExpireOldLinks(old)

Gateways == \E a \in DOMAIN attempt : Lapse(a) \/ \E state \in Outcomes : Outcome(a, state)

\* The two webhooks, which answer when the notification has been applied.
Webhook(c) ==
    \/ \E a \in DOMAIN attempt : ReadNotice(c, a)
    \/ ConfirmCharge(c) \/ ConfirmRefusal(c) \/ CloseSession(c) \/ IgnoreNotice(c)
Notices == (\E c \in Clerk : Webhook(c)) \/ \E a \in DOMAIN attempt : DropNotice(a)

Deposits ==
    \E c \in Clerk : \/ CaptureScreen(c) \/ LinkButtons(c)
                     \/ CheckReturn(c) \/ SettleDeposit(c)

Next == Counter \/ Links \/ Gateways \/ Notices \/ Deposits \/ \E c \in Clerk : Rollback(c)
Spec == Init /\ [][Next]_vars

\* Requests end, a gateway repeats a notification until it is answered, and the
\* database does not fail for ever.
Hearing(a) == DropNotice(a) \/ \E c \in Clerk : ReadNotice(c, a)
Answering(a) ==
    \E c \in Clerk : /\ job[c].kind = "notice" /\ job[c].ref = a
                     /\ \/ ConfirmCharge(c) \/ ConfirmRefusal(c)
                        \/ CloseSession(c) \/ IgnoreNotice(c)
Fairness ==
    /\ \A c \in Clerk : WF_vars(Rollback(c) \/ WritePayment(c) \/ SettleDeposit(c))
    /\ \A a \in 1 .. MaxAttempts :
          /\ SF_vars(a \in DOMAIN attempt /\ ~attempt[a].told /\ Hearing(a))
          /\ SF_vars(a \in DOMAIN attempt /\ Answering(a))
FairSpec == Spec /\ Fairness

-----------------------------------------------------------------------------
(* Properties *)

Online(l) == {i \in DOMAIN rows : rows[i].link = l}

\* However often and in whatever order a gateway repeats itself, and whatever has
\* become of the link meanwhile, a link has one payment if it is settled and none
\* otherwise: a late refusal never undoes it, a second confirmation never repeats it.
RecordedOnce ==
    \A l \in Link :
        {i \in Online(l) : rows[i].amount > 0} =
            IF link[l].status \in Settled THEN {link[l].payment} ELSE {}

\* Every online payment in the books is one a gateway charged or held, for that
\* link and its whole amount.
OnlyRealMoney ==
    \A l \in Link : \A i \in Online(l) :
        rows[i].amount > 0 =>
            /\ rows[i].amount = AmountOf[l] /\ rows[i].res = ResOf[l]
            /\ attempt[rows[i].ref].link = l
            /\ attempt[rows[i].ref].state \in Charged

DepositIsSettled(l) ==
    LET returns == {i \in Online(l) : rows[i].amount < 0}
        taken == attempt[Operation(l)].taken
    IN IF link[l].status \in {"captured", "released"}
       THEN /\ attempt[Operation(l)].state = link[l].status
            /\ link[l].captured = taken
            /\ \A i \in returns : rows[i].amount = taken - AmountOf[l]
            /\ \A i, k \in returns : i = k
            /\ returns = {} <=> taken = AmountOf[l]
       ELSE returns = {}

\* A deposit that shows as captured or released is so at the gateway, for the
\* same amount, and the books hold that amount and no more: what was not captured
\* has gone back once, although the call and the writing can fail apart.
DepositsAreSettled == \A l \in Hold : DepositIsSettled(l)

\* What a gateway charged is answered some day, whatever the books say: nothing
\* makes a confirmation be refused again and again.
EveryChargeIsAnswered ==
    \A a \in 1 .. MaxAttempts :
        a \in DOMAIN attempt /\ attempt[a].state \in Charged
            ~> a \in DOMAIN attempt /\ attempt[a].told

=============================================================================
