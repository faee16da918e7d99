------------------------------ MODULE BookingApi ------------------------------
(***************************************************************************)
(* The reservations that enter through the API of the webs                 *)
(* (apps/booking_api), beside a counter that sells to, edits and marks the *)
(* same customers.                                                         *)
(*                                                                         *)
(* A request is answered in steps: its form, a look for its key outside    *)
(* any transaction, and then one transaction that takes the row of the     *)
(* customer, the lock of the group of the category and the entry of the    *)
(* key in a unique index, in that order, and keeps all three to its end.   *)
(* What it writes is seen when it commits.  The prices, and the count of   *)
(* the cars of a group, are other modules': here a group has places.       *)
(***************************************************************************)
EXTENDS Naturals, FiniteSets

CONSTANTS
    Key,            \* the pairs of a client and an idempotency key
    Body,           \* what a request may ask for; its fingerprint tells bodies apart
    Customer, Group,
    Places,         \* group -> the reservations it has room for
    Nobody,
    MaxRequests,    \* bound
    MaxFaults,      \* bound: lost processes and connections
    MaxCounter      \* bound: sales, edits and marks of the counter

Request == 1..MaxRequests
BodyShape == [customer : Customer, group : Group, phone : BOOLEAN, pays : BOOLEAN]

ASSUME BookingApiAssumption ==
    /\ Body \subseteq BodyShape
    /\ Places \in [Group -> Nat]
    /\ {MaxRequests, MaxFaults, MaxCounter} \subseteq Nat
    /\ Nobody \notin Request /\ Nobody \notin Customer
    /\ Nobody \notin [key : Key, body : Body]

VARIABLES
    request,    \* request -> how far it is
    customer,   \* customer -> its row
    origin,     \* ApiReservation: key -> the request whose reservation it is
    status,     \* request -> its Reservation
    offered,    \* what the company still sells: extras and offices, categories and gateways
    clerk,      \* the transactions of the counter: a sale and the edit of a customer
    sold,       \* group -> reservations of the counter
    faults, visits

vars == <<request, customer, origin, status, offered, clerk, sold, faults, visits>>

\* `at` is the next thing the request does; a request that is "locked" found the row of its
\* customer, one that "inserted" it wrote it; `fill`, the contact it will complete.
Stages == {"unsent", "view", "lookup", "customer", "insert", "capacity", "key", "commit", "again", "done"}
Outcomes == {"none", "booked", "replayed", "conflict", "refused", "error", "lost"}
State == [at : Stages, key : Key \cup {Nobody}, body : Body \cup {Nobody},
          row : {"none", "locked", "inserted"}, fill : BOOLEAN,
          outcome : Outcomes, given : Request \cup {Nobody}]

Phone == {"none", "web", "counter"}     \* who wrote the contact that a row has
Row == [known : BOOLEAN, phone : Phone, barred : BOOLEAN]
NoRow == [known |-> FALSE, phone |-> "none", barred |-> FALSE]

\* The sale holds the lock of `group`, and its insert names `who`; `copy` is what the form
\* of `who` read.
Idle == [doing |-> "nothing", who |-> Nobody, group |-> Nobody, copy |-> NoRow]
Clerk == [doing : {"selling"}, who : Customer, group : Group, copy : {NoRow}]
         \cup [doing : {"editing"}, who : Customer, group : {Nobody}, copy : Row]
         \cup {Idle}

\* The types, and the rows that the requests hold.
TypeOK ==
    /\ request \in [Request -> State]
    /\ customer \in [Customer -> Row]
    /\ origin \in [Key -> Request \cup {Nobody}]
    /\ status \in [Request -> {"none", "pending", "cancelled"}]
    /\ offered \subseteq {"extras", "category"}
    /\ clerk \in [{"sale", "edit"} -> Clerk]
    /\ sold \in [Group -> Nat]
    /\ faults \in 0..MaxFaults /\ visits \in 0..MaxCounter
    \* Only an open transaction holds a row.
    /\ \A q \in Request :
          request[q].row # "none" => request[q].at \in {"capacity", "key", "commit"}

Unsent == [at |-> "unsent", key |-> Nobody, body |-> Nobody, row |-> "none", fill |-> FALSE,
           outcome |-> "none", given |-> Nobody]

Init ==
    /\ request = [q \in Request |-> Unsent]
    /\ customer \in [Customer -> {NoRow, [NoRow EXCEPT !.known = TRUE],
                                  [NoRow EXCEPT !.known = TRUE, !.phone = "counter"]}]
    /\ origin = [k \in Key |-> Nobody]
    /\ status = [q \in Request |-> "none"]
    /\ offered = {"extras", "category"}
    /\ clerk = [c \in {"sale", "edit"} |-> Idle]
    /\ sold = [g \in Group |-> 0]
    /\ faults = 0 /\ visits = 0

-----------------------------------------------------------------------------
(* What an open transaction holds *)

At(q, stages) == request[q].at \in stages
Needs(q) == request[q].body

\* SELECT ... FOR UPDATE of the row of an existing customer.
\* Mutant: the row is read without taking it.
RowNeverTaken(c) == FALSE
RowTaken(c) ==
    \E q \in Request : /\ At(q, {"capacity", "key", "commit"}) /\ request[q].row = "locked"
                       /\ Needs(q).customer = c

\* An INSERT waits for another one of the same unique value.
BeingInserted(c) ==
    \E q \in Request : /\ At(q, {"capacity", "key", "commit"}) /\ request[q].row = "inserted"
                       /\ Needs(q).customer = c
KeyBeingInserted(k) == \E q \in Request : At(q, {"commit"}) /\ request[q].key = k

GroupTaken(g) ==
    \/ \E q \in Request : At(q, {"key", "commit"}) /\ Needs(q).group = g
    \/ clerk["sale"].group = g

Pending(g) == {q \in Request : status[q] = "pending" /\ request[q].body.group = g}
Room(g) == Cardinality(Pending(g)) + sold[g] < Places[g]

-----------------------------------------------------------------------------
(* A request *)

Goes(q, stage) == request' = [request EXCEPT ![q].at = stage]

\* The transaction, if there is one, is undone with all it wrote.
Ends(q, outcome, given) ==
    request' = [request EXCEPT ![q].at = "done", ![q].row = "none", ![q].fill = FALSE,
                               ![q].outcome = outcome, ![q].given = given]

Still == UNCHANGED <<customer, origin, status, offered, clerk, sold, faults, visits>>

\* The web sends a request, new or one that it has sent before.
Send(q) ==
    /\ At(q, {"unsent"}) /\ \A p \in Request : p < q => ~At(p, {"unsent"})
    /\ \E k \in Key, b \in Body :
          request' = [request EXCEPT ![q].at = "view", ![q].key = k, ![q].body = b]
    /\ Still

\* ReservationCreateView: forms, offices and extras come before the look for the key.
View(q) ==
    /\ At(q, {"view"})
    /\ IF "extras" \in offered THEN Goes(q, "lookup") ELSE Ends(q, "refused", Nobody)
    /\ Still

\* Mutant: the fingerprint is not compared.
AnyBody(q, p) == TRUE
SameRequest(q, p) == Needs(p) = Needs(q)

Replay(q) ==
    LET p == origin[request[q].key]
    IN IF SameRequest(q, p) THEN Ends(q, "replayed", p) ELSE Ends(q, "conflict", Nobody)

Lookup(q) ==
    /\ At(q, {"lookup"})
    /\ IF origin[request[q].key] # Nobody THEN Replay(q) ELSE Goes(q, "customer")
    /\ Still

\* After an IntegrityError: the loser gives what the winner made.
\* Mutant: it tries once more.
TriesOnceMore(q) == IF origin[request[q].key] # Nobody THEN Goes(q, "customer")
                    ELSE Ends(q, "error", Nobody)
AfterLosing(q) == IF origin[request[q].key] # Nobody THEN Replay(q) ELSE Ends(q, "error", Nobody)

Again(q) == At(q, {"again"}) /\ AfterLosing(q) /\ Still

\* Mutant: its transaction is not undone.
LosesHalf(q) == Goes(q, "again")
Loses(q) == request' = [request EXCEPT ![q].at = "again", ![q].row = "none", ![q].fill = FALSE]

\* _cliente
CustomerStep(q) ==
    LET row == customer[Needs(q).customer]
    IN /\ At(q, {"customer"})
       /\ \/ /\ "category" \notin offered     \* too soon, or no category or no gateway
             /\ Ends(q, "refused", Nobody)
          \/ /\ "category" \in offered /\ row.known /\ ~RowTaken(Needs(q).customer)
             /\ IF row.barred THEN Ends(q, "refused", Nobody)
                ELSE request' = [request EXCEPT
                         ![q].at = "capacity", ![q].row = "locked",
                         ![q].fill = Needs(q).phone /\ row.phone = "none"]
          \/ /\ "category" \in offered /\ ~row.known
             /\ Goes(q, "insert")
       /\ Still

\* save_customer of one that was not there, whom another may have written meanwhile.
InsertCustomer(q) ==
    LET c == Needs(q).customer
    IN /\ At(q, {"insert"}) /\ ~BeingInserted(c)
       /\ IF customer[c].known THEN Loses(q)
          ELSE request' = [request EXCEPT ![q].at = "capacity", ![q].row = "inserted",
                                          ![q].fill = Needs(q).phone]
       /\ Still

\* create_quick_reservation: the count is made with the group locked.
Capacity(q) ==
    /\ At(q, {"capacity"}) /\ ~GroupTaken(Needs(q).group)
    /\ IF Room(Needs(q).group) THEN Goes(q, "key") ELSE Ends(q, "refused", Nobody)
    /\ Still

\* The index of ApiReservation.  Mutant: the pair is not unique.
NeverLoses(q) == Goes(q, "commit")
WinsOrLoses(q) == IF origin[request[q].key] # Nobody THEN Loses(q) ELSE Goes(q, "commit")
InsertKey(q) ==
    /\ At(q, {"key"}) /\ ~KeyBeingInserted(request[q].key)
    /\ WinsOrLoses(q) /\ Still

\* payment_link refuses the amount, and the whole booking is undone.
LinkRefused(q) == At(q, {"commit"}) /\ Needs(q).pays /\ Ends(q, "refused", Nobody) /\ Still

Written(q) ==
    LET row == customer[Needs(q).customer]
    IN [row EXCEPT !.known = TRUE, !.phone = IF request[q].fill THEN "web" ELSE @]

Fault == faults < MaxFaults /\ faults' = faults + 1

Commit(q) ==
    /\ At(q, {"commit"})
    /\ customer' = [customer EXCEPT ![Needs(q).customer] = Written(q)]
    /\ origin' = [origin EXCEPT ![request[q].key] = q]
    /\ status' = [status EXCEPT ![q] = "pending"]
    /\ \/ Ends(q, "booked", q) /\ UNCHANGED faults
       \/ Ends(q, "lost", Nobody) /\ Fault       \* the answer does not arrive
    /\ UNCHANGED <<offered, clerk, sold, visits>>

\* The process, or the connection to the database, is lost.
Lost(q) ==
    /\ ~At(q, {"unsent", "done"}) /\ Fault
    /\ Ends(q, "lost", Nobody)
    /\ UNCHANGED <<customer, origin, status, offered, clerk, sold, visits>>

\* The web cancels one of its reservations.
Cancel(q) ==
    /\ status[q] = "pending"
    /\ status' = [status EXCEPT ![q] = "cancelled"]
    /\ UNCHANGED <<request, customer, origin, offered, clerk, sold, faults, visits>>

-----------------------------------------------------------------------------
(* The counter *)

Visit == visits < MaxCounter /\ visits' = visits + 1

Withdraw(what) ==
    /\ what \in offered /\ offered' = offered \ {what}
    /\ UNCHANGED <<request, customer, origin, status, clerk, sold, faults, visits>>

\* save_customer of a new one
Register(c) ==
    /\ ~customer[c].known /\ ~BeingInserted(c) /\ Visit
    /\ customer' = [customer EXCEPT ![c] = [NoRow EXCEPT !.known = TRUE, !.phone = "counter"]]
    /\ UNCHANGED <<request, origin, status, offered, clerk, sold, faults>>

\* set_blacklisted; an UPDATE waits for whoever has taken the row.
Mark(c) ==
    /\ customer[c].known /\ ~RowTaken(c) /\ Visit
    /\ customer' = [customer EXCEPT ![c].barred = ~@]
    /\ UNCHANGED <<request, origin, status, offered, clerk, sold, faults>>

\* The form of a customer reads the row and writes all of it back.
OpenForm(c) ==
    /\ clerk["edit"] = Idle /\ customer[c].known /\ Visit
    /\ clerk' = [clerk EXCEPT !["edit"] = [doing |-> "editing", who |-> c, group |-> Nobody,
                                           copy |-> customer[c]]]
    /\ UNCHANGED <<request, customer, origin, status, offered, sold, faults>>

SaveForm ==
    LET form == clerk["edit"]
    IN /\ form # Idle /\ ~RowTaken(form.who)
       /\ \E phone \in {form.copy.phone, "counter"} :
             customer' = [customer EXCEPT ![form.who] = [form.copy EXCEPT !.phone = phone]]
       /\ clerk' = [clerk EXCEPT !["edit"] = Idle]
       /\ UNCHANGED <<request, origin, status, offered, sold, faults, visits>>

\* A sale of the counter takes the group, and checks at its commit, as the foreign keys of
\* Django are deferred, that the customer is there: FOR KEY SHARE waits for FOR UPDATE.
SaleTakesGroup(c, g) ==
    /\ clerk["sale"] = Idle /\ customer[c].known /\ ~customer[c].barred
    /\ ~GroupTaken(g) /\ Room(g) /\ Visit
    /\ clerk' = [clerk EXCEPT !["sale"] = [doing |-> "selling", who |-> c, group |-> g,
                                           copy |-> NoRow]]
    /\ UNCHANGED <<request, customer, origin, status, offered, sold, faults>>

SaleCommits ==
    LET sale == clerk["sale"]
    IN /\ sale # Idle /\ ~RowTaken(sale.who)
       /\ sold' = [sold EXCEPT ![sale.group] = @ + 1]
       /\ clerk' = [clerk EXCEPT !["sale"] = Idle]
       /\ UNCHANGED <<request, customer, origin, status, offered, faults, visits>>

\* PostgreSQL undoes one of two transactions that wait for each other.
Embraced(q) ==
    /\ At(q, {"capacity"}) /\ request[q].row = "locked"
    /\ clerk["sale"].who = Needs(q).customer /\ clerk["sale"].group = Needs(q).group

DeadlockVictim(q) ==
    /\ Embraced(q)
    /\ \/ Ends(q, "error", Nobody) /\ UNCHANGED clerk
       \/ clerk' = [clerk EXCEPT !["sale"] = Idle] /\ UNCHANGED request
    /\ UNCHANGED <<customer, origin, status, offered, sold, faults, visits>>

-----------------------------------------------------------------------------
Serve(q) ==
    \/ View(q) \/ Lookup(q) \/ CustomerStep(q) \/ InsertCustomer(q) \/ Capacity(q)
    \/ InsertKey(q) \/ LinkRefused(q) \/ Commit(q) \/ Again(q)

Counter ==
    \/ \E c \in Customer : \/ Register(c) \/ Mark(c) \/ OpenForm(c)
                           \/ \E g \in Group : SaleTakesGroup(c, g)
    \/ SaveForm \/ SaleCommits
    \/ \E what \in {"extras", "category"} : Withdraw(what)

Next ==
    \/ \E q \in Request : Send(q) \/ Serve(q) \/ Lost(q) \/ Cancel(q) \/ DeadlockVictim(q)
    \/ Counter

Spec == Init /\ [][Next]_vars

\* A request and a sale go on whenever they may; no lock passes them over for ever.
Fairness ==
    /\ \A q \in Request : SF_vars(Serve(q)) /\ WF_vars(DeadlockVictim(q))
    /\ SF_vars(SaleCommits)

FairSpec == Spec /\ Fairness

-----------------------------------------------------------------------------
(* Properties *)

\* Whatever a web repeats, and however its requests and lost answers overlap, a key makes
\* at most one reservation, a request that is given one is given that of its key and only
\* if it asked for the same, and no reservation is left of a request that lost.
Promise == INSTANCE Bookings WITH
    asked <- [q \in Request |-> IF At(q, {"unsent"}) THEN Nobody
                                ELSE [key |-> request[q].key, body |-> request[q].body]],
    booked <- origin,
    sold <- {q \in Request : status[q] # "none"},
    given <- [q \in Request |-> request[q].given]
OneBookingPerKey == Promise!Spec

\* A booking of the API stands on the customer as the counter left it: when it commits,
\* the customer is not marked and what the counter wrote is not overwritten.
TheCounterIsHeard ==
    [][\A q \in Request :
          LET c == Needs(q).customer
          IN status[q] = "none" /\ status'[q] = "pending" =>
                /\ ~customer[c].barred
                /\ customer[c].phone # "none" => customer'[c].phone = customer[c].phone]_vars

\* Every request is answered, though it waits for the rows, groups and keys of others and
\* though the counter takes the locks in the opposite order.
EveryRequestIsAnswered ==
    \A q \in Request : ~At(q, {"unsent"}) ~> At(q, {"done"})

=============================================================================
