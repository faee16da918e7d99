---------------------------- MODULE BookingApiProofs ----------------------------
(***************************************************************************)
(* The API keeps its promise and hears the counter, for any number of      *)
(* webs, keys, customers and groups, and however many processes are lost.  *)
(*                                                                         *)
(* The step that books is the commit: by then the request has its key to   *)
(* itself in the index, and the key nobody's (Winners), so the reservation *)
(* and the key appear together; and whoever finds the key taken finds the  *)
(* request that took it, which has ended and asked for what it says        *)
(* (Origins).  The customer is as the counter left it because the row is   *)
(* held, by one request (OneHolder), from the look at the mark and at the  *)
(* contact to the commit (Holding), and no form brings a customer back to  *)
(* what it was before it existed (Forms).                                  *)
(***************************************************************************)
EXTENDS BookingApi, TLAPS

-----------------------------------------------------------------------------
(* The invariant *)

\* What has been sent stays what it was; what has not ended has been given nothing.
Sent ==
    \A q \in Request :
        /\ IF At(q, {"unsent"}) THEN request[q] = Unsent
                                ELSE request[q].key \in Key /\ request[q].body \in Body
        /\ ~At(q, {"done"}) => request[q].given = Nobody /\ status[q] = "none"

Origins ==
    \A k \in Key : origin[k] # Nobody =>
        At(origin[k], {"done"}) /\ request[origin[k]].key = k

Winners ==
    \A q \in Request : At(q, {"commit"}) =>
        /\ origin[request[q].key] = Nobody
        /\ \A p \in Request : At(p, {"commit"}) /\ request[p].key = request[q].key => p = q

Holds(q) == request[q].row # "none"

\* What the row of a customer is while a request has it.
Holding ==
    \A q \in Request :
        /\ At(q, {"capacity", "key", "commit"}) <=> Holds(q)
        /\ Holds(q) => LET row == customer[Needs(q).customer]
                       IN /\ row.known <=> request[q].row = "locked"
                          /\ ~row.barred
                          /\ request[q].fill => row.phone = "none"

OneHolder ==
    \A p, q \in Request :
        Holds(p) /\ Holds(q) /\ Needs(p).customer = Needs(q).customer => p = q

\* A customer that is not there has no row; the form that is open is of one that is.
Forms ==
    /\ \A c \in Customer : ~customer[c].known => customer[c] = NoRow
    /\ LET form == clerk["edit"]
       IN form # Idle => /\ form.who \in Customer /\ customer[form.who].known
                         /\ form.copy \in Row /\ form.copy.known

Inv == TypeOK /\ Sent /\ Origins /\ Winners /\ Holding /\ OneHolder /\ Forms

-----------------------------------------------------------------------------
(* What the promise is about *)

Asks == [q \in Request |-> IF At(q, {"unsent"}) THEN Nobody
                          ELSE [key |-> request[q].key, body |-> request[q].body]]
Gives == [q \in Request |-> request[q].given]
Sales == {q \in Request : status[q] # "none"}

\* Nothing that a web can see.
Unseen == Asks' = Asks /\ origin' = origin /\ Sales' = Sales /\ Gives' = Gives

LEMMA UnseenIsStutter == Unseen => [Promise!Next]_(Promise!vars)
BY DEF Unseen, Asks, Gives, Sales, Promise!vars

-----------------------------------------------------------------------------
(* A request moves *)

\* The step of one request that writes nothing: it ends, goes on with what it holds, or
\* takes the row of its customer.
LEMMA RequestStep ==
    ASSUME Inv, NEW q \in Request, ~At(q, {"unsent", "done"}),
           NEW new \in State, request' = [request EXCEPT ![q] = new],
           new.key = request[q].key, new.body = request[q].body, new.at # "unsent",
           new.at # "done" => new.given = Nobody,
           new.at \in {"capacity", "key", "commit"} <=> new.row # "none",
           new.row # "none" =>
              /\ LET row == customer[Needs(q).customer]
                 IN /\ row.known <=> new.row = "locked"
                    /\ ~row.barred
                    /\ new.fill => row.phone = "none"
              /\ \A p \in Request \ {q} : Holds(p) => Needs(p).customer # Needs(q).customer,
           new.at = "commit" =>
              /\ origin[new.key] = Nobody
              /\ \A p \in Request \ {q} : At(p, {"commit"}) => request[p].key # new.key,
           customer' = customer, origin' = origin, status' = status, offered' = offered,
           clerk' = clerk, sold' = sold, visits' = visits, faults' \in 0..MaxFaults
    PROVE  /\ Inv'
           /\ Asks' = Asks /\ origin' = origin /\ Sales' = Sales
           /\ new.given = Nobody => Gives' = Gives
<1>1. /\ DOMAIN request = Request /\ DOMAIN request' = Request
      /\ request'[q] = new /\ \A p \in Request \ {q} : request'[p] = request[p]
    BY DEF Inv, TypeOK
<1>2. TypeOK'
    <2>1. request' \in [Request -> State]
        BY DEF Inv, TypeOK
    <2>2. \A p \in Request : request'[p].row # "none" => request'[p].at \in {"capacity", "key", "commit"}
        BY <1>1 DEF Inv, TypeOK
    <2> QED BY <2>1, <2>2 DEF Inv, TypeOK
<1>3. Sent'
    <2> SUFFICES ASSUME NEW p \in Request
                 PROVE  /\ IF request'[p].at \in {"unsent"} THEN request'[p] = Unsent
                            ELSE request'[p].key \in Key /\ request'[p].body \in Body
                        /\ request'[p].at \notin {"done"} =>
                              request'[p].given = Nobody /\ status[p] = "none"
        BY DEF Sent, At
    <2>1. CASE p = q
        BY <1>1, <2>1 DEF Inv, Sent, At
    <2>2. CASE p # q
        BY <1>1, <2>2 DEF Inv, Sent, At
    <2> QED BY <2>1, <2>2
<1>4. Origins'
    BY <1>1 DEF Inv, Origins, At, TypeOK
<1>5. Winners'
    <2> SUFFICES ASSUME NEW p \in Request, request'[p].at \in {"commit"}
                 PROVE  /\ origin[request'[p].key] = Nobody
                        /\ \A r \in Request : request'[r].at \in {"commit"} /\
                              request'[r].key = request'[p].key => r = p
        BY DEF Winners, At
    <2> QED BY <1>1 DEF Inv, Winners, At
<1>6. Holding'
    <2> SUFFICES ASSUME NEW p \in Request
                 PROVE  /\ request'[p].at \in {"capacity", "key", "commit"} <=> request'[p].row # "none"
                        /\ request'[p].row # "none" =>
                              LET row == customer[request'[p].body.customer]
                              IN /\ row.known <=> request'[p].row = "locked"
                                 /\ ~row.barred
                                 /\ request'[p].fill => row.phone = "none"
        BY DEF Holding, Holds, At, Needs
    <2>1. CASE p = q
        BY <1>1, <2>1 DEF Needs
    <2>2. CASE p # q
        BY <1>1, <2>2 DEF Inv, Holding, Holds, At, Needs
    <2> QED BY <2>1, <2>2
<1>7. OneHolder'
    BY <1>1 DEF Inv, OneHolder, Holds, Needs
<1>8. Forms'
    BY DEF Inv, Forms
<1>9. Asks' = Asks
    BY <1>1 DEF Asks, At
<1>10. new.given = Nobody => Gives' = Gives
    BY <1>1 DEF Inv, Sent, At, Gives
<1>11. Sales' = Sales
    BY DEF Sales
<1> QED BY <1>2, <1>3, <1>4, <1>5, <1>6, <1>7, <1>8, <1>9, <1>10, <1>11 DEF Inv

\* The request goes on with what it holds.
LEMMA GoesOn ==
    ASSUME Inv, NEW q \in Request, ~At(q, {"unsent", "done"}),
           NEW stage \in Stages \ {"unsent", "done"}, Goes(q, stage), Still,
           stage \in {"capacity", "key", "commit"} <=> Holds(q),
           stage = "commit" =>
              /\ origin[request[q].key] = Nobody
              /\ \A p \in Request \ {q} : At(p, {"commit"}) => request[p].key # request[q].key
    PROVE  Inv' /\ Unseen
<1> DEFINE new == [request[q] EXCEPT !.at = stage]
<1>1. request[q] \in State
    BY DEF Inv, TypeOK
<1>2. /\ new \in State /\ new.at = stage /\ new.key = request[q].key /\ new.body = request[q].body
      /\ new.row = request[q].row /\ new.fill = request[q].fill /\ new.given = request[q].given
    BY <1>1 DEF State
<1>3. request' = [request EXCEPT ![q] = new]
    BY DEF Goes
<1> HIDE DEF new
<1>4. new.given = Nobody
    BY <1>2 DEF Inv, Sent, At
<1>5. new.row # "none" =>
         /\ LET row == customer[Needs(q).customer]
            IN /\ row.known <=> new.row = "locked"
               /\ ~row.barred
               /\ new.fill => row.phone = "none"
         /\ \A p \in Request \ {q} : Holds(p) => Needs(p).customer # Needs(q).customer
    BY <1>2 DEF Inv, Holding, OneHolder, Holds
<1>6. new.at \in {"capacity", "key", "commit"} <=> new.row # "none"
    BY <1>2 DEF Holds
<1>7. new.at = "commit" =>
         /\ origin[new.key] = Nobody
         /\ \A p \in Request \ {q} : At(p, {"commit"}) => request[p].key # new.key
    BY <1>2
<1>8. new.at # "unsent" /\ new.at # "done"
    BY <1>2
<1>9. /\ customer' = customer /\ origin' = origin /\ status' = status /\ offered' = offered
      /\ clerk' = clerk /\ sold' = sold /\ visits' = visits /\ faults' \in 0..MaxFaults
    BY DEF Still, Inv, TypeOK
<1> QED BY <1>2, <1>3, <1>4, <1>5, <1>6, <1>7, <1>8, <1>9, RequestStep DEF Unseen

\* The request lets go of all it had, and is over or has lost.
LEMMA LetsGo ==
    ASSUME Inv, NEW q \in Request, ~At(q, {"unsent", "done"}),
           NEW new \in State, request' = [request EXCEPT ![q] = new],
           new.key = request[q].key, new.body = request[q].body,
           new.at \in {"again", "done"}, new.row = "none", new.at = "again" => new.given = Nobody,
           customer' = customer, origin' = origin, status' = status, offered' = offered,
           clerk' = clerk, sold' = sold, visits' = visits, faults' \in 0..MaxFaults
    PROVE  /\ Inv'
           /\ Asks' = Asks /\ origin' = origin /\ Sales' = Sales
           /\ new.given = Nobody => Gives' = Gives
<1>1. new.at # "unsent" /\ new.at # "commit" /\ new.at \notin {"capacity", "key", "commit"}
    OBVIOUS
<1>2. new.at # "done" => new.given = Nobody
    OBVIOUS
<1> QED BY <1>1, <1>2, RequestStep

LEMMA EndsStep ==
    ASSUME Inv, NEW q \in Request, ~At(q, {"unsent", "done"}),
           NEW outcome \in Outcomes, NEW given \in Request \cup {Nobody}, Ends(q, outcome, given),
           customer' = customer, origin' = origin, status' = status, offered' = offered,
           clerk' = clerk, sold' = sold, visits' = visits, faults' \in 0..MaxFaults
    PROVE  /\ Inv' /\ request'[q].given = given /\ \A p \in Request \ {q} : request'[p] = request[p]
           /\ Asks' = Asks /\ Sales' = Sales
           /\ given = Nobody => Unseen
<1> DEFINE new == [request[q] EXCEPT !.at = "done", !.row = "none", !.fill = FALSE,
                                     !.outcome = outcome, !.given = given]
<1>1. request[q] \in State
    BY DEF Inv, TypeOK
<1>2. /\ new \in State /\ new.at = "done" /\ new.key = request[q].key
      /\ new.body = request[q].body /\ new.row = "none" /\ new.given = given
    BY <1>1 DEF State, Stages
<1>3. request' = [request EXCEPT ![q] = new]
    BY DEF Ends
<1> HIDE DEF new
<1>4. request'[q] = new /\ \A p \in Request \ {q} : request'[p] = request[p]
    BY <1>3 DEF Inv, TypeOK
<1>5. /\ Inv' /\ Asks' = Asks /\ Sales' = Sales
      /\ new.given = Nobody => Gives' = Gives
    BY <1>2, <1>3, LetsGo
<1> QED BY <1>2, <1>4, <1>5 DEF Unseen

LEMMA LosesStep ==
    ASSUME Inv, NEW q \in Request, ~At(q, {"unsent", "done"}), Loses(q), Still
    PROVE  Inv' /\ Unseen
<1> DEFINE new == [request[q] EXCEPT !.at = "again", !.row = "none", !.fill = FALSE]
<1>1. request[q] \in State
    BY DEF Inv, TypeOK
<1>2. /\ new \in State /\ new.at = "again" /\ new.key = request[q].key
      /\ new.body = request[q].body /\ new.row = "none" /\ new.given = request[q].given
    BY <1>1 DEF State, Stages
<1>3. request' = [request EXCEPT ![q] = new]
    BY DEF Loses
<1> HIDE DEF new
<1>4. new.given = Nobody
    BY <1>2 DEF Inv, Sent, At
<1>5. /\ customer' = customer /\ origin' = origin /\ status' = status /\ offered' = offered
      /\ clerk' = clerk /\ sold' = sold /\ visits' = visits /\ faults' \in 0..MaxFaults
    BY DEF Still, Inv, TypeOK
<1> QED BY <1>2, <1>3, <1>4, <1>5, LetsGo DEF Unseen

\* A step that answers nobody yet, in a request.
LEMMA RefusalStep ==
    ASSUME Inv, NEW q \in Request, ~At(q, {"unsent", "done"}),
           NEW outcome \in Outcomes, Ends(q, outcome, Nobody), Still
    PROVE  Inv' /\ Unseen
<1>1. /\ customer' = customer /\ origin' = origin /\ status' = status /\ offered' = offered
      /\ clerk' = clerk /\ sold' = sold /\ visits' = visits /\ faults' \in 0..MaxFaults
    BY DEF Still, Inv, TypeOK
<1> QED BY <1>1, EndsStep

\* A repeated request is given what the first one made, if it asked for the same.
LEMMA ReplayStep ==
    ASSUME Inv, NEW q \in Request, ~At(q, {"unsent", "done"}),
           origin[request[q].key] # Nobody, Replay(q), Still
    PROVE  Inv' /\ [Promise!Next]_(Promise!vars)
<1> DEFINE k == request[q].key
           p == origin[k]
<1>1. k \in Key /\ request[q].body \in Body
    BY DEF Inv, Sent, At
<1>2. p \in Request /\ At(p, {"done"}) /\ request[p].key = k /\ request[p].body \in Body
    BY <1>1 DEF Inv, TypeOK, Origins, Sent, At
<1>3. /\ customer' = customer /\ origin' = origin /\ status' = status /\ offered' = offered
      /\ clerk' = clerk /\ sold' = sold /\ visits' = visits /\ faults' \in 0..MaxFaults
    BY DEF Still, Inv, TypeOK
<1>4. CASE SameRequest(q, p)
    <2>1. Ends(q, "replayed", p)
        BY <1>4 DEF Replay
    <2>2. /\ Inv' /\ request'[q].given = p /\ \A r \in Request \ {q} : request'[r] = request[r]
          /\ Asks' = Asks /\ Sales' = Sales
        <3>1. "replayed" \in Outcomes
            BY DEF Outcomes
        <3> HIDE DEF p, k
        <3> QED BY <1>2, <1>3, <2>1, <3>1, EndsStep
    <2>3. Gives' = [Gives EXCEPT ![q] = p]
        <3> HIDE DEF p
        <3> QED BY <2>2 DEF Gives
    <2>4. Asks[q] = [key |-> k, body |-> request[q].body]
          /\ Asks[p] = [key |-> k, body |-> request[p].body]
        BY <1>2 DEF Asks, At
    <2>5. Asks[q] # Nobody
        BY <1>1, <2>4, BookingApiAssumption
    <2>6. Gives[q] = Nobody
        BY DEF Gives, Inv, Sent, At
    <2>7. Asks[p].body = Asks[q].body /\ Asks[q].key = k
        BY <1>4, <2>4 DEF SameRequest, Needs
    <2>8. Promise!Give(q)
        BY <1>3, <2>2, <2>3, <2>5, <2>6, <2>7 DEF Promise!Give, Asks, Gives, Sales
    <2> QED BY <2>2, <2>8 DEF Promise!Next
<1>5. CASE ~SameRequest(q, p)
    <2>1. Ends(q, "conflict", Nobody) /\ "conflict" \in Outcomes
        BY <1>5 DEF Replay, Outcomes
    <2> QED BY <2>1, RefusalStep, UnseenIsStutter
<1> QED BY <1>4, <1>5

-----------------------------------------------------------------------------
(* The steps of a request *)

LEMMA ViewKeeps == ASSUME Inv, NEW q \in Request, View(q) PROVE Inv' /\ Unseen
<1>1. /\ ~At(q, {"unsent", "done"}) /\ ~Holds(q) /\ Still
      /\ "lookup" \in Stages \ {"unsent", "done"} /\ "refused" \in Outcomes
    BY DEF View, Inv, Holding, At, Stages, Outcomes
<1>2. CASE Goes(q, "lookup")
    BY <1>1, <1>2, GoesOn
<1>3. CASE Ends(q, "refused", Nobody)
    BY <1>1, <1>3, RefusalStep
<1> QED BY <1>2, <1>3 DEF View

LEMMA LookupKeeps ==
    ASSUME Inv, NEW q \in Request, Lookup(q) PROVE Inv' /\ [Promise!Next]_(Promise!vars)
<1>1. /\ ~At(q, {"unsent", "done"}) /\ ~Holds(q) /\ Still
      /\ "customer" \in Stages \ {"unsent", "done"}
    BY DEF Lookup, Inv, Holding, At, Stages
<1>2. CASE origin[request[q].key] # Nobody /\ Replay(q)
    BY <1>1, <1>2, ReplayStep
<1>3. CASE Goes(q, "customer")
    BY <1>1, <1>3, GoesOn, UnseenIsStutter
<1> QED BY <1>2, <1>3 DEF Lookup

LEMMA AgainKeeps ==
    ASSUME Inv, NEW q \in Request, Again(q) PROVE Inv' /\ [Promise!Next]_(Promise!vars)
<1>1. ~At(q, {"unsent", "done"}) /\ Still /\ "error" \in Outcomes
    BY DEF Again, At, Outcomes
<1>2. CASE origin[request[q].key] # Nobody /\ Replay(q)
    BY <1>1, <1>2, ReplayStep
<1>3. CASE Ends(q, "error", Nobody)
    BY <1>1, <1>3, RefusalStep, UnseenIsStutter
<1> QED BY <1>2, <1>3 DEF Again, AfterLosing

\* The row is taken: nobody has it, and it is neither marked nor, if a contact is to be
\* filled, with one.
LEMMA TakesRow ==
    ASSUME Inv, NEW q \in Request, At(q, {"customer", "insert"}),
           NEW row \in {"locked", "inserted"}, NEW fill \in BOOLEAN,
           request' = [request EXCEPT ![q].at = "capacity", ![q].row = row, ![q].fill = fill],
           Still,
           customer[Needs(q).customer].known <=> row = "locked",
           ~customer[Needs(q).customer].barred,
           fill => customer[Needs(q).customer].phone = "none",
           \A p \in Request \ {q} : Holds(p) => Needs(p).customer # Needs(q).customer
    PROVE  Inv' /\ Unseen
<1> DEFINE new == [request[q] EXCEPT !.at = "capacity", !.row = row, !.fill = fill]
<1>1. request[q] \in State
    BY DEF Inv, TypeOK
<1>2. /\ new \in State /\ new.at = "capacity" /\ new.key = request[q].key
      /\ new.body = request[q].body /\ new.row = row /\ new.fill = fill
      /\ new.given = request[q].given
    BY <1>1 DEF State, Stages
<1>3. request' = [request EXCEPT ![q] = new]
    OBVIOUS
<1> HIDE DEF new
<1>4. ~At(q, {"unsent", "done"}) /\ new.given = Nobody
    BY <1>2 DEF Inv, Sent, At
<1>5. new.row # "none" =>
         /\ LET r == customer[Needs(q).customer]
            IN /\ r.known <=> new.row = "locked"
               /\ ~r.barred
               /\ new.fill => r.phone = "none"
         /\ \A p \in Request \ {q} : Holds(p) => Needs(p).customer # Needs(q).customer
    BY <1>2
<1>6. new.at \in {"capacity", "key", "commit"} <=> new.row # "none"
    BY <1>2
<1>7. new.at # "commit" /\ new.at # "unsent"
    BY <1>2
<1>8. /\ customer' = customer /\ origin' = origin /\ status' = status /\ offered' = offered
      /\ clerk' = clerk /\ sold' = sold /\ visits' = visits /\ faults' \in 0..MaxFaults
    BY DEF Still, Inv, TypeOK
<1> QED BY <1>2, <1>3, <1>4, <1>5, <1>6, <1>7, <1>8, RequestStep DEF Unseen

LEMMA CustomerStepKeeps == ASSUME Inv, NEW q \in Request, CustomerStep(q) PROVE Inv' /\ Unseen
<1> DEFINE c == Needs(q).customer
           row == customer[c]
           fill == Needs(q).phone /\ row.phone = "none"
<1>1. /\ At(q, {"customer"}) /\ ~At(q, {"unsent", "done"}) /\ ~Holds(q) /\ Still
      /\ At(q, {"customer", "insert"})
      /\ "insert" \in Stages \ {"unsent", "done"} /\ "refused" \in Outcomes
    BY DEF CustomerStep, Inv, Holding, At, Stages, Outcomes
<1>2. CASE Ends(q, "refused", Nobody)
    BY <1>1, <1>2, RefusalStep
<1>3. CASE Goes(q, "insert")
    BY <1>1, <1>3, GoesOn
<1>4. CASE /\ row.known /\ ~RowTaken(c) /\ ~row.barred
           /\ request' = [request EXCEPT ![q].at = "capacity", ![q].row = "locked", ![q].fill = fill]
    <2>1. ASSUME NEW p \in Request \ {q}, Holds(p), Needs(p).customer = c PROVE FALSE
        <3>1. request[p].row = "locked" /\ At(p, {"capacity", "key", "commit"})
            BY <1>4, <2>1 DEF Inv, Holding
        <3> QED BY <1>4, <2>1, <3>1 DEF RowTaken
    <2>2. fill \in BOOLEAN /\ (fill => row.phone = "none")
        OBVIOUS
    <2> HIDE DEF fill
    <2> QED BY <1>1, <1>4, <2>1, <2>2, TakesRow
<1> QED BY <1>2, <1>3, <1>4 DEF CustomerStep

LEMMA InsertCustomerKeeps == ASSUME Inv, NEW q \in Request, InsertCustomer(q) PROVE Inv' /\ Unseen
<1> DEFINE c == Needs(q).customer
           fill == Needs(q).phone
<1>1. /\ At(q, {"insert"}) /\ ~At(q, {"unsent", "done"}) /\ Still
      /\ At(q, {"customer", "insert"}) /\ ~BeingInserted(c)
    BY DEF InsertCustomer, At
<1>2. CASE Loses(q)
    BY <1>1, <1>2, LosesStep
<1>3. CASE /\ ~customer[c].known
           /\ request' = [request EXCEPT ![q].at = "capacity", ![q].row = "inserted", ![q].fill = fill]
    <2>1. c \in Customer /\ fill \in BOOLEAN
        BY <1>1, BookingApiAssumption DEF Inv, Sent, At, Needs, BodyShape
    <2>2. customer[c].phone = "none" /\ ~customer[c].barred
        BY <1>3, <2>1 DEF Inv, Forms, NoRow
    <2>3. ASSUME NEW p \in Request \ {q}, Holds(p), Needs(p).customer = c PROVE FALSE
        <3>1. request[p].row # "locked" /\ At(p, {"capacity", "key", "commit"})
            BY <1>3, <2>3 DEF Inv, Holding
        <3>2. request[p].row \in {"none", "locked", "inserted"}
            BY DEF Inv, TypeOK, State
        <3> QED BY <1>1, <2>3, <3>1, <3>2 DEF BeingInserted, Holds
    <2> HIDE DEF fill
    <2> QED BY <1>1, <1>3, <2>1, <2>2, <2>3, TakesRow
<1> QED BY <1>2, <1>3 DEF InsertCustomer

LEMMA CapacityKeeps == ASSUME Inv, NEW q \in Request, Capacity(q) PROVE Inv' /\ Unseen
<1>1. /\ ~At(q, {"unsent", "done"}) /\ Holds(q) /\ Still
      /\ "key" \in Stages \ {"unsent", "done"} /\ "refused" \in Outcomes
    BY DEF Capacity, Inv, Holding, At, Stages, Outcomes
<1>2. CASE Goes(q, "key")
    BY <1>1, <1>2, GoesOn
<1>3. CASE Ends(q, "refused", Nobody)
    BY <1>1, <1>3, RefusalStep
<1> QED BY <1>2, <1>3 DEF Capacity

\* The entry in the index: nobody else has it open, and nobody has written it.
LEMMA InsertKeyKeeps == ASSUME Inv, NEW q \in Request, InsertKey(q) PROVE Inv' /\ Unseen
<1>1. /\ ~At(q, {"unsent", "done"}) /\ Holds(q) /\ Still
      /\ "commit" \in Stages \ {"unsent", "done"}
    BY DEF InsertKey, Inv, Holding, At, Stages
<1>2. CASE origin[request[q].key] = Nobody /\ Goes(q, "commit")
    <2>1. \A p \in Request \ {q} : At(p, {"commit"}) => request[p].key # request[q].key
        BY DEF InsertKey, KeyBeingInserted
    <2> QED BY <1>1, <1>2, <2>1, GoesOn
<1>3. CASE Loses(q)
    BY <1>1, <1>3, LosesStep
<1> QED BY <1>2, <1>3 DEF InsertKey, WinsOrLoses

LEMMA LinkRefusedKeeps == ASSUME Inv, NEW q \in Request, LinkRefused(q) PROVE Inv' /\ Unseen
<1>1. ~At(q, {"unsent", "done"}) /\ "refused" \in Outcomes
    BY DEF LinkRefused, At, Outcomes
<1> QED BY <1>1, RefusalStep DEF LinkRefused

LEMMA LostKeeps == ASSUME Inv, NEW q \in Request, Lost(q) PROVE Inv' /\ Unseen
<1>1. ~At(q, {"unsent", "done"}) /\ Ends(q, "lost", Nobody) /\ "lost" \in Outcomes
    BY DEF Lost, Outcomes
<1>2. /\ customer' = customer /\ origin' = origin /\ status' = status /\ offered' = offered
      /\ clerk' = clerk /\ sold' = sold /\ visits' = visits
    BY DEF Lost
<1>3. faults' \in 0..MaxFaults
    BY BookingApiAssumption DEF Lost, Fault, Inv, TypeOK
<1> QED BY <1>1, <1>2, <1>3, EndsStep

\* The form arrives: a request is asked for.
LEMMA SendKeeps == ASSUME Inv, NEW q \in Request, Send(q) PROVE Inv' /\ [Promise!Next]_(Promise!vars)
<1>1. PICK k \in Key, b \in Body :
         request' = [request EXCEPT ![q].at = "view", ![q].key = k, ![q].body = b]
    BY DEF Send
<1>2. request[q] = Unsent
    BY DEF Send, Inv, Sent
<1> DEFINE new == [Unsent EXCEPT !.at = "view", !.key = k, !.body = b]
<1>3. request' = [request EXCEPT ![q] = new]
    BY <1>1, <1>2
<1>4. /\ new \in State /\ new.at = "view" /\ new.key = k /\ new.body = b
      /\ new.row = "none" /\ new.given = Nobody
    BY DEF Unsent, State, Stages, Outcomes
<1> HIDE DEF new
<1>5. /\ DOMAIN request = Request /\ DOMAIN request' = Request
      /\ request'[q] = new /\ \A p \in Request \ {q} : request'[p] = request[p]
    BY <1>3 DEF Inv, TypeOK
<1>6. UNCHANGED <<customer, origin, status, offered, clerk, sold, faults, visits>>
    BY DEF Send, Still
<1>7. request[q].row = "none" /\ request[q].at = "unsent" /\ request[q].given = Nobody
    BY <1>2 DEF Unsent
<1>8. TypeOK'
    <2>1. request' \in [Request -> State]
        BY <1>3, <1>4 DEF Inv, TypeOK
    <2>2. \A p \in Request : request'[p].row # "none" => request'[p].at \in {"capacity", "key", "commit"}
        BY <1>4, <1>5 DEF Inv, TypeOK
    <2> QED BY <1>6, <2>1, <2>2 DEF Inv, TypeOK
<1>9. Sent'
    BY <1>4, <1>5, <1>6, <1>7 DEF Inv, Sent, At
<1>10. Origins'
    BY <1>5, <1>6, <1>7 DEF Inv, Origins, At, TypeOK
<1>11. Winners'
    BY <1>4, <1>5, <1>6 DEF Inv, Winners, At
<1>12. Holding'
    <2> SUFFICES ASSUME NEW p \in Request
                 PROVE  /\ request'[p].at \in {"capacity", "key", "commit"} <=> request'[p].row # "none"
                        /\ request'[p].row # "none" =>
                              LET row == customer'[request'[p].body.customer]
                              IN /\ row.known <=> request'[p].row = "locked"
                                 /\ ~row.barred
                                 /\ request'[p].fill => row.phone = "none"
        BY DEF Holding, Holds, At, Needs
    <2>1. CASE p = q
        BY <1>4, <1>5, <2>1
    <2>2. CASE p # q
        BY <1>5, <1>6, <2>2 DEF Inv, Holding, Holds, At, Needs
    <2> QED BY <2>1, <2>2
<1>13. OneHolder'
    BY <1>4, <1>5 DEF Inv, OneHolder, Holds, Needs
<1>14. Forms'
    BY <1>6 DEF Inv, Forms
<1>15. Promise!Ask(q)
    <2>1. Asks[q] = Nobody
        BY <1>7 DEF Asks, At
    <2>2. [key |-> k, body |-> b] \in Promise!Asked
        BY BookingApiAssumption DEF Promise!Asked
    <2>3. Asks' = [Asks EXCEPT ![q] = [key |-> k, body |-> b]]
        BY <1>4, <1>5 DEF Asks, At
    <2>4. Gives' = Gives
        BY <1>4, <1>5, <1>7 DEF Gives
    <2>5. Sales' = Sales
        BY <1>6 DEF Sales
    <2> QED BY <1>6, <2>1, <2>2, <2>3, <2>4, <2>5 DEF Promise!Ask, Asks, Gives, Sales
<1> QED BY <1>8, <1>9, <1>10, <1>11, <1>12, <1>13, <1>14, <1>15 DEF Inv, Promise!Next

\* The booking, its key and its customer appear together, whether or not the answer arrives.
LEMMA CommitKeeps == ASSUME Inv, NEW q \in Request, Commit(q) PROVE Inv' /\ [Promise!Next]_(Promise!vars)
<1> DEFINE c == Needs(q).customer
           k == request[q].key
<1>1. /\ request[q].at = "commit" /\ Holds(q)
      /\ customer' = [customer EXCEPT ![c] = Written(q)]
      /\ origin' = [origin EXCEPT ![k] = q]
      /\ status' = [status EXCEPT ![q] = "pending"]
      /\ UNCHANGED <<offered, clerk, sold, visits>>
      /\ faults' \in 0..MaxFaults
    BY BookingApiAssumption DEF Commit, Fault, At, Inv, TypeOK, Holding
<1>2. PICK outcome \in {"booked", "lost"}, given \in {q, Nobody} : Ends(q, outcome, given)
    BY BookingApiAssumption DEF Commit
<1> DEFINE new == [request[q] EXCEPT !.at = "done", !.row = "none", !.fill = FALSE,
                                     !.outcome = outcome, !.given = given]
<1>3. request[q] \in State
    BY DEF Inv, TypeOK
<1>4. /\ new \in State /\ new.at = "done" /\ new.key = k /\ new.body = request[q].body
      /\ new.row = "none" /\ new.given = given
    BY <1>3 DEF State, Stages, Outcomes
<1>5. request' = [request EXCEPT ![q] = new]
    BY <1>2 DEF Ends
<1> HIDE DEF new
<1>6. /\ DOMAIN request = Request /\ DOMAIN request' = Request
      /\ request'[q] = new /\ \A p \in Request \ {q} : request'[p] = request[p]
    BY <1>5 DEF Inv, TypeOK
<1>7. k \in Key /\ request[q].body \in Body /\ c \in Customer /\ request[q].given = Nobody
    BY <1>1, BookingApiAssumption DEF Inv, Sent, At, Needs, BodyShape
<1> DEFINE written == Written(q)
<1>8. /\ written \in Row /\ written.known
      /\ written.barred = customer[c].barred
    <2>1. customer[c] \in Row
        BY <1>7 DEF Inv, TypeOK
    <2> HIDE DEF c
    <2> QED BY <2>1 DEF Written, Row, Phone, c
<1> HIDE DEF c, k, written
<1>9. /\ customer' \in [Customer -> Row]
      /\ customer'[c] = written /\ \A d \in Customer \ {c} : customer'[d] = customer[d]
    BY <1>1, <1>7, <1>8 DEF Inv, TypeOK, written
<1>10. origin[k] = Nobody
    BY <1>1 DEF Inv, Winners, At, k
<1>11. /\ origin' \in [Key -> Request \cup {Nobody}]
       /\ origin'[k] = q /\ \A j \in Key \ {k} : origin'[j] = origin[j]
    BY <1>1, <1>7 DEF Inv, TypeOK
<1>12. /\ status' \in [Request -> {"none", "pending", "cancelled"}]
       /\ status'[q] = "pending" /\ \A p \in Request \ {q} : status'[p] = status[p]
    BY <1>1 DEF Inv, TypeOK
<1>13. TypeOK'
    <2>1. request' \in [Request -> State]
        BY <1>4, <1>5 DEF Inv, TypeOK
    <2>2. \A p \in Request : request'[p].row # "none" => request'[p].at \in {"capacity", "key", "commit"}
        BY <1>4, <1>6 DEF Inv, TypeOK
    <2> QED BY <1>1, <1>9, <1>11, <1>12, <2>1, <2>2 DEF Inv, TypeOK
<1>14. Sent'
    BY <1>4, <1>6, <1>7, <1>12 DEF Inv, Sent, At, k
<1>15. Origins'
    <2> SUFFICES ASSUME NEW j \in Key, origin'[j] # Nobody
                 PROVE  request'[origin'[j]].at \in {"done"} /\ request'[origin'[j]].key = j
        BY DEF Origins, At
    <2>1. CASE j = k
        BY <1>4, <1>6, <1>11, <2>1
    <2>2. CASE j # k
        <3>1. origin[j] \in Request /\ At(origin[j], {"done"}) /\ request[origin[j]].key = j
            BY <1>11, <2>2 DEF Inv, Origins, TypeOK
        <3> QED BY <1>1, <1>6, <1>11, <2>2, <3>1 DEF At
    <2> QED BY <2>1, <2>2
<1>16. Winners'
    <2> SUFFICES ASSUME NEW p \in Request, request'[p].at \in {"commit"}
                 PROVE  /\ origin'[request'[p].key] = Nobody
                        /\ \A r \in Request : request'[r].at \in {"commit"} /\
                              request'[r].key = request'[p].key => r = p
        BY DEF Winners, At
    <2>1. p # q /\ request'[p] = request[p] /\ At(p, {"commit"})
        BY <1>4, <1>6 DEF At
    <2>2. request[p].key # k /\ request[p].key \in Key
        BY <1>1, <2>1 DEF Inv, Winners, Sent, At, k
    <2> QED BY <1>4, <1>6, <1>11, <2>1, <2>2 DEF Inv, Winners, At
<1>17. ASSUME NEW p \in Request, request'[p].row # "none"
       PROVE  /\ p # q /\ request'[p] = request[p]
              /\ Holds(p) /\ Needs(p).customer \in Customer \ {c}
    <2>1. p # q /\ request'[p] = request[p] /\ Holds(p)
        BY <1>4, <1>6, <1>17 DEF Holds
    <2>2. Needs(p).customer # c
        BY <1>1, <2>1 DEF Inv, OneHolder, c
    <2>3. Needs(p).customer \in Customer
        BY <2>1, BookingApiAssumption DEF Inv, TypeOK, Holds, Sent, At, Needs, BodyShape
    <2> QED BY <2>1, <2>2, <2>3
<1>18. Holding'
    <2> SUFFICES ASSUME NEW p \in Request
                 PROVE  /\ request'[p].at \in {"capacity", "key", "commit"} <=> request'[p].row # "none"
                        /\ request'[p].row # "none" =>
                              LET row == customer'[request'[p].body.customer]
                              IN /\ row.known <=> request'[p].row = "locked"
                                 /\ ~row.barred
                                 /\ request'[p].fill => row.phone = "none"
        BY DEF Holding, Holds, At, Needs
    <2>1. CASE p = q
        BY <1>4, <1>6, <2>1
    <2>2. CASE p # q /\ request'[p].row # "none"
        BY <1>6, <1>9, <1>17, <2>2 DEF Inv, Holding, Holds, At, Needs
    <2>3. CASE p # q /\ request'[p].row = "none"
        BY <1>6, <2>3 DEF Inv, Holding, Holds, At, Needs
    <2> QED BY <2>1, <2>2, <2>3
<1>19. OneHolder'
    <2> SUFFICES ASSUME NEW p \in Request, NEW r \in Request,
                        request'[p].row # "none", request'[r].row # "none",
                        request'[p].body.customer = request'[r].body.customer
                 PROVE  p = r
        BY DEF OneHolder, Holds, Needs
    <2> QED BY <1>17 DEF Inv, OneHolder, Needs
<1>20. Forms'
    BY <1>1, <1>8, <1>9 DEF Inv, Forms
<1>21. Asks' = Asks
    BY <1>1, <1>4, <1>6 DEF Asks, At, k
<1>22. Sales' = Sales \cup {q}
    BY <1>12 DEF Sales
<1>23. Asks[q] = [key |-> k, body |-> request[q].body]
    BY <1>1 DEF Asks, At, k
<1>24. Asks[q] # Nobody /\ Asks[q].key = k
    BY <1>7, <1>23, BookingApiAssumption
<1>25. CASE given = q
    <2>1. Gives' = [Gives EXCEPT ![q] = q]
        BY <1>4, <1>6, <1>25 DEF Gives
    <2>2. Promise!BookAndGive(q)
        BY <1>1, <1>10, <1>21, <1>22, <1>24, <2>1 DEF Promise!BookAndGive, Asks, Gives, Sales, k
    <2> QED BY <1>13, <1>14, <1>15, <1>16, <1>18, <1>19, <1>20, <2>2 DEF Inv, Promise!Next
<1>26. CASE given = Nobody
    <2>1. Gives' = Gives
        BY <1>4, <1>6, <1>7, <1>26 DEF Gives
    <2>2. Promise!Book(q)
        BY <1>1, <1>10, <1>21, <1>22, <1>24, <2>1 DEF Promise!Book, Asks, Gives, Sales, k
    <2> QED BY <1>13, <1>14, <1>15, <1>16, <1>18, <1>19, <1>20, <2>2 DEF Inv, Promise!Next
<1> QED BY <1>2, <1>25, <1>26

\* What a web cancels it still has bought.
LEMMA CancelKeeps == ASSUME Inv, NEW q \in Request, Cancel(q) PROVE Inv' /\ Unseen
<1>1. /\ status[q] = "pending" /\ status' = [status EXCEPT ![q] = "cancelled"]
      /\ request' = request /\ customer' = customer /\ origin' = origin /\ offered' = offered
      /\ clerk' = clerk /\ sold' = sold /\ faults' = faults /\ visits' = visits
    BY DEF Cancel
<1>2. /\ status' \in [Request -> {"none", "pending", "cancelled"}]
      /\ status'[q] = "cancelled" /\ \A p \in Request \ {q} : status'[p] = status[p]
    BY <1>1 DEF Inv, TypeOK
<1>3. At(q, {"done"})
    BY <1>1 DEF Inv, Sent
<1>4. TypeOK'
    BY <1>1, <1>2 DEF Inv, TypeOK
<1>5. Sent'
    BY <1>1, <1>2, <1>3 DEF Inv, Sent, At
<1>6. Origins' /\ Winners' /\ Holding' /\ OneHolder' /\ Forms'
    BY <1>1 DEF Inv, Origins, Winners, Holding, OneHolder, Forms, Holds, At, Needs
<1>7. Unseen
    BY <1>1, <1>2 DEF Unseen, Asks, Gives, Sales, At
<1> QED BY <1>4, <1>5, <1>6, <1>7 DEF Inv

-----------------------------------------------------------------------------
(* The steps of the counter *)

\* The counter writes a customer that no request holds.
LEMMA CounterWrites ==
    ASSUME Inv, NEW c \in Customer, NEW row \in Row, row.known,
           customer' = [customer EXCEPT ![c] = row],
           \A q \in Request : Holds(q) => Needs(q).customer # c,
           request' = request, origin' = origin, status' = status, offered' = offered,
           sold' = sold, faults' = faults, visits' \in 0..MaxCounter,
           clerk' \in [{"sale", "edit"} -> Clerk], clerk'["edit"] \in {clerk["edit"], Idle}
    PROVE  Inv' /\ Unseen
<1>1. /\ customer' \in [Customer -> Row]
      /\ customer'[c] = row /\ \A d \in Customer \ {c} : customer'[d] = customer[d]
    BY DEF Inv, TypeOK
<1>2. TypeOK'
    BY <1>1 DEF Inv, TypeOK
<1>3. Sent' /\ Origins' /\ Winners' /\ OneHolder'
    BY DEF Inv, Sent, Origins, Winners, OneHolder, Holds, At, Needs
<1>4. Holding'
    <2> SUFFICES ASSUME NEW p \in Request
                 PROVE  /\ At(p, {"capacity", "key", "commit"}) <=> Holds(p)
                        /\ Holds(p) =>
                              LET r == customer'[Needs(p).customer]
                              IN /\ r.known <=> request[p].row = "locked"
                                 /\ ~r.barred
                                 /\ request[p].fill => r.phone = "none"
        BY DEF Holding, Holds, At, Needs
    <2>1. CASE Holds(p)
        <3>1. Needs(p).customer \in Customer \ {c}
            BY <2>1, BookingApiAssumption DEF Inv, Holding, Holds, Sent, At, Needs, BodyShape
        <3> QED BY <1>1, <2>1, <3>1 DEF Inv, Holding
    <2>2. CASE ~Holds(p)
        BY <2>2 DEF Inv, Holding
    <2> QED BY <2>1, <2>2
<1>5. Forms'
    <2>1. \A d \in Customer : ~customer'[d].known => customer'[d] = NoRow
        BY <1>1 DEF Inv, Forms
    <2>2. clerk'["edit"] # Idle => /\ clerk'["edit"].who \in Customer
                                   /\ customer'[clerk'["edit"].who].known
                                   /\ clerk'["edit"].copy \in Row /\ clerk'["edit"].copy.known
        BY <1>1 DEF Inv, Forms
    <2> QED BY <2>1, <2>2 DEF Forms
<1>6. Unseen
    BY DEF Unseen, Asks, Gives, Sales, At
<1> QED BY <1>2, <1>3, <1>4, <1>5, <1>6 DEF Inv

\* Who is known is held only by who found it; who is not, only by who inserts it.
LEMMA NobodyHolds ==
    ASSUME Inv, NEW c \in Customer,
           IF customer[c].known THEN ~RowTaken(c) ELSE ~BeingInserted(c)
    PROVE  \A q \in Request : Holds(q) => Needs(q).customer # c
<1> SUFFICES ASSUME NEW q \in Request, Holds(q), Needs(q).customer = c PROVE FALSE
    OBVIOUS
<1>1. /\ At(q, {"capacity", "key", "commit"})
      /\ customer[c].known <=> request[q].row = "locked"
    BY DEF Inv, Holding
<1>2. request[q].row \in {"locked", "inserted"}
    BY DEF Inv, TypeOK, State, Holds
<1> QED BY <1>1, <1>2 DEF RowTaken, BeingInserted

LEMMA RegisterKeeps == ASSUME Inv, NEW c \in Customer, Register(c) PROVE Inv' /\ Unseen
<1> DEFINE row == [NoRow EXCEPT !.known = TRUE, !.phone = "counter"]
<1>1. row \in Row /\ row.known
    BY DEF NoRow, Row, Phone
<1>2. /\ customer' = [customer EXCEPT ![c] = row] /\ request' = request /\ origin' = origin
      /\ status' = status /\ offered' = offered /\ clerk' = clerk /\ sold' = sold
      /\ faults' = faults
    BY DEF Register
<1>3. visits' \in 0..MaxCounter /\ clerk' \in [{"sale", "edit"} -> Clerk]
    BY <1>2, BookingApiAssumption DEF Register, Visit, Inv, TypeOK
<1>4. \A q \in Request : Holds(q) => Needs(q).customer # c
    BY NobodyHolds DEF Register
<1> HIDE DEF row
<1> QED BY <1>1, <1>2, <1>3, <1>4, CounterWrites

LEMMA MarkKeeps == ASSUME Inv, NEW c \in Customer, Mark(c) PROVE Inv' /\ Unseen
<1> DEFINE row == [customer[c] EXCEPT !.barred = ~@]
<1>1. row \in Row /\ row.known
    <2>1. customer[c] \in Row /\ customer[c].known
        BY DEF Mark, Inv, TypeOK
    <2> QED BY <2>1 DEF Row
<1>2. /\ customer' = [customer EXCEPT ![c] = row] /\ request' = request /\ origin' = origin
      /\ status' = status /\ offered' = offered /\ clerk' = clerk /\ sold' = sold
      /\ faults' = faults
    BY DEF Mark, Inv, TypeOK
<1>3. visits' \in 0..MaxCounter /\ clerk' \in [{"sale", "edit"} -> Clerk]
    BY <1>2, BookingApiAssumption DEF Mark, Visit, Inv, TypeOK
<1>4. \A q \in Request : Holds(q) => Needs(q).customer # c
    BY NobodyHolds DEF Mark
<1> HIDE DEF row
<1> QED BY <1>1, <1>2, <1>3, <1>4, CounterWrites

LEMMA SaveFormKeeps == ASSUME Inv, SaveForm PROVE Inv' /\ Unseen
<1> DEFINE form == clerk["edit"]
           c == form.who
<1>1. /\ c \in Customer /\ customer[c].known /\ form.copy \in Row /\ form.copy.known
      /\ ~RowTaken(c) /\ clerk' = [clerk EXCEPT !["edit"] = Idle]
      /\ request' = request /\ origin' = origin /\ status' = status /\ offered' = offered
      /\ sold' = sold /\ faults' = faults /\ visits' = visits
    BY DEF SaveForm, Inv, Forms
<1>2. PICK phone \in {form.copy.phone, "counter"} :
         customer' = [customer EXCEPT ![c] = [form.copy EXCEPT !.phone = phone]]
    BY DEF SaveForm
<1> DEFINE row == [form.copy EXCEPT !.phone = phone]
<1>3. row \in Row /\ row.known
    <2> HIDE DEF form
    <2> QED BY <1>1, <1>2 DEF Row, Phone
<1>4. customer' = [customer EXCEPT ![c] = row]
    BY <1>2
<1>5. /\ clerk' \in [{"sale", "edit"} -> Clerk] /\ clerk'["edit"] = Idle
      /\ visits' \in 0..MaxCounter
    BY <1>1 DEF Inv, TypeOK, Clerk
<1>6. \A q \in Request : Holds(q) => Needs(q).customer # c
    <2> HIDE DEF c
    <2> QED BY <1>1, NobodyHolds
<1> HIDE DEF row, c
<1> QED BY <1>1, <1>3, <1>4, <1>5, <1>6, CounterWrites

\* The counter opens or closes one of its transactions.
LEMMA ClerkStep ==
    ASSUME Inv, clerk' \in [{"sale", "edit"} -> Clerk],
           clerk'["edit"] # clerk["edit"] =>
              LET form == clerk'["edit"]
              IN form.who \in Customer /\ customer[form.who].known /\ form.copy = customer[form.who],
           sold' \in [Group -> Nat], visits' \in 0..MaxCounter, offered' \subseteq offered,
           request' = request, customer' = customer, origin' = origin, status' = status,
           faults' = faults
    PROVE  Inv' /\ Unseen
<1>1. TypeOK'
    BY DEF Inv, TypeOK
<1>2. Sent' /\ Origins' /\ Winners' /\ OneHolder' /\ Holding'
    BY DEF Inv, Sent, Origins, Winners, OneHolder, Holding, Holds, At, Needs
<1>3. Forms'
    <2>1. customer \in [Customer -> Row]
        BY DEF Inv, TypeOK
    <2> QED BY <2>1 DEF Inv, Forms
<1>4. Unseen
    BY DEF Unseen, Asks, Gives, Sales, At
<1> QED BY <1>1, <1>2, <1>3, <1>4 DEF Inv

LEMMA OpenFormKeeps == ASSUME Inv, NEW c \in Customer, OpenForm(c) PROVE Inv' /\ Unseen
<1> DEFINE form == [doing |-> "editing", who |-> c, group |-> Nobody, copy |-> customer[c]]
<1>1. /\ clerk' = [clerk EXCEPT !["edit"] = form] /\ customer[c].known
      /\ request' = request /\ customer' = customer /\ origin' = origin /\ status' = status
      /\ offered' = offered /\ sold' = sold /\ faults' = faults
    BY DEF OpenForm
<1>2. form \in Clerk /\ form.who = c /\ form.copy = customer[c]
    BY DEF Inv, TypeOK, Clerk
<1> HIDE DEF form
<1>3. clerk' \in [{"sale", "edit"} -> Clerk] /\ clerk'["edit"] = form
    BY <1>1, <1>2 DEF Inv, TypeOK
<1>4. visits' \in 0..MaxCounter /\ sold' \in [Group -> Nat] /\ offered' \subseteq offered
    BY <1>1, BookingApiAssumption DEF OpenForm, Visit, Inv, TypeOK
<1> QED BY <1>1, <1>2, <1>3, <1>4, ClerkStep

LEMMA SaleTakesGroupKeeps ==
    ASSUME Inv, NEW c \in Customer, NEW g \in Group, SaleTakesGroup(c, g) PROVE Inv' /\ Unseen
<1> DEFINE sale == [doing |-> "selling", who |-> c, group |-> g, copy |-> NoRow]
<1>1. /\ clerk' = [clerk EXCEPT !["sale"] = sale]
      /\ request' = request /\ customer' = customer /\ origin' = origin /\ status' = status
      /\ offered' = offered /\ sold' = sold /\ faults' = faults
    BY DEF SaleTakesGroup
<1>2. sale \in Clerk
    BY DEF Clerk
<1> HIDE DEF sale
<1>3. clerk' \in [{"sale", "edit"} -> Clerk] /\ clerk'["edit"] = clerk["edit"]
    BY <1>1, <1>2 DEF Inv, TypeOK
<1>4. visits' \in 0..MaxCounter /\ sold' \in [Group -> Nat] /\ offered' \subseteq offered
    BY <1>1, BookingApiAssumption DEF SaleTakesGroup, Visit, Inv, TypeOK
<1> QED BY <1>1, <1>3, <1>4, ClerkStep

LEMMA SaleCommitsKeeps == ASSUME Inv, SaleCommits PROVE Inv' /\ Unseen
<1> DEFINE sale == clerk["sale"]
<1>1. /\ sold' = [sold EXCEPT ![sale.group] = @ + 1]
      /\ clerk' = [clerk EXCEPT !["sale"] = Idle]
      /\ request' = request /\ customer' = customer /\ origin' = origin /\ status' = status
      /\ offered' = offered /\ visits' = visits /\ faults' = faults
    BY DEF SaleCommits
<1>2. clerk' \in [{"sale", "edit"} -> Clerk] /\ clerk'["edit"] = clerk["edit"]
    BY <1>1 DEF Inv, TypeOK, Clerk
<1>3. visits' \in 0..MaxCounter /\ offered' \subseteq offered
    BY <1>1 DEF Inv, TypeOK
<1>4. sold' \in [Group -> Nat]
    <2>1. sold \in [Group -> Nat]
        BY DEF Inv, TypeOK
    <2> DEFINE g == sale.group
    <2>2. sold' = [sold EXCEPT ![g] = @ + 1]
        BY <1>1
    <2> HIDE DEF g
    <2>3. CASE g \in Group
        BY <2>1, <2>2, <2>3
    <2>4. CASE g \notin Group
        BY <2>1, <2>2, <2>4
    <2> QED BY <2>3, <2>4
<1> QED BY <1>1, <1>2, <1>3, <1>4, ClerkStep

LEMMA WithdrawKeeps == ASSUME Inv, NEW what, Withdraw(what) PROVE Inv' /\ Unseen
<1>1. /\ offered' \subseteq offered
      /\ request' = request /\ customer' = customer /\ origin' = origin /\ status' = status
      /\ clerk' = clerk /\ sold' = sold /\ visits' = visits /\ faults' = faults
    BY DEF Withdraw
<1>2. /\ clerk' \in [{"sale", "edit"} -> Clerk] /\ sold' \in [Group -> Nat]
      /\ visits' \in 0..MaxCounter
    BY <1>1 DEF Inv, TypeOK
<1> QED BY <1>1, <1>2, ClerkStep

LEMMA DeadlockVictimKeeps == ASSUME Inv, NEW q \in Request, DeadlockVictim(q) PROVE Inv' /\ Unseen
<1>1. /\ customer' = customer /\ origin' = origin /\ status' = status /\ offered' = offered
      /\ sold' = sold /\ faults' = faults /\ visits' = visits
    BY DEF DeadlockVictim
<1>2. CASE Ends(q, "error", Nobody) /\ UNCHANGED clerk
    <2>1. ~At(q, {"unsent", "done"}) /\ "error" \in Outcomes
        BY DEF DeadlockVictim, Embraced, At, Outcomes
    <2>2. Still
        BY <1>1, <1>2 DEF Still
    <2> QED BY <1>2, <2>1, <2>2, RefusalStep
<1>3. CASE clerk' = [clerk EXCEPT !["sale"] = Idle] /\ UNCHANGED request
    <2>1. /\ clerk' \in [{"sale", "edit"} -> Clerk] /\ clerk'["edit"] = clerk["edit"]
          /\ sold' \in [Group -> Nat] /\ visits' \in 0..MaxCounter /\ offered' \subseteq offered
        BY <1>1, <1>3 DEF Inv, TypeOK, Clerk
    <2> QED BY <1>1, <1>3, <2>1, ClerkStep
<1> QED BY <1>2, <1>3 DEF DeadlockVictim

-----------------------------------------------------------------------------
(* Every state *)

LEMMA InitInv == ASSUME Init PROVE Inv
<1>1. TypeOK
    <2>1. Unsent \in State
        BY DEF Unsent, State, Stages, Outcomes
    <2>2. Idle \in Clerk
        BY DEF Clerk
    <2>3. customer \in [Customer -> Row]
        <3> DEFINE first == {NoRow, [NoRow EXCEPT !.known = TRUE],
                             [NoRow EXCEPT !.known = TRUE, !.phone = "counter"]}
        <3>1. first \subseteq Row
            <4>1. NoRow \in Row
                BY DEF NoRow, Row, Phone
            <4>2. [NoRow EXCEPT !.known = TRUE] \in Row
                BY DEF NoRow, Row, Phone
            <4>3. [NoRow EXCEPT !.known = TRUE, !.phone = "counter"] \in Row
                BY DEF NoRow, Row, Phone
            <4> QED BY <4>1, <4>2, <4>3
        <3>2. customer \in [Customer -> first]
            BY DEF Init
        <3> HIDE DEF first
        <3> QED BY <3>1, <3>2
    <2> QED BY <2>1, <2>2, <2>3, BookingApiAssumption DEF Init, TypeOK, Unsent
<1>2. Sent /\ Origins /\ Winners /\ Holding /\ OneHolder
    BY DEF Init, Sent, Origins, Winners, Holding, OneHolder, Holds, At, Unsent
<1>3. Forms
    BY DEF Init, Forms, NoRow
<1> QED BY <1>1, <1>2, <1>3 DEF Inv

LEMMA InitPromise == ASSUME Init PROVE Promise!Init
BY DEF Init, Promise!Init, At, Unsent

\* One step of the program is one of the promise, or nothing that it tells apart.
LEMMA NextInv == Inv /\ [Next]_vars => Inv' /\ [Promise!Next]_(Promise!vars)
<1> SUFFICES ASSUME Inv, [Next]_vars PROVE Inv' /\ [Promise!Next]_(Promise!vars)
    OBVIOUS
<1>1. ASSUME NEW q \in Request, Send(q) PROVE Inv' /\ [Promise!Next]_(Promise!vars)
    BY <1>1, SendKeeps
<1>2. ASSUME NEW q \in Request, Serve(q) PROVE Inv' /\ [Promise!Next]_(Promise!vars)
    <2>1. CASE View(q)
        BY <2>1, ViewKeeps, UnseenIsStutter
    <2>2. CASE Lookup(q)
        BY <2>2, LookupKeeps
    <2>3. CASE CustomerStep(q)
        BY <2>3, CustomerStepKeeps, UnseenIsStutter
    <2>4. CASE InsertCustomer(q)
        BY <2>4, InsertCustomerKeeps, UnseenIsStutter
    <2>5. CASE Capacity(q)
        BY <2>5, CapacityKeeps, UnseenIsStutter
    <2>6. CASE InsertKey(q)
        BY <2>6, InsertKeyKeeps, UnseenIsStutter
    <2>7. CASE LinkRefused(q)
        BY <2>7, LinkRefusedKeeps, UnseenIsStutter
    <2>8. CASE Commit(q)
        BY <2>8, CommitKeeps
    <2>9. CASE Again(q)
        BY <2>9, AgainKeeps
    <2> QED BY <1>2, <2>1, <2>2, <2>3, <2>4, <2>5, <2>6, <2>7, <2>8, <2>9 DEF Serve
<1>3. ASSUME NEW q \in Request, Lost(q) \/ Cancel(q) \/ DeadlockVictim(q)
      PROVE  Inv' /\ [Promise!Next]_(Promise!vars)
    BY <1>3, LostKeeps, CancelKeeps, DeadlockVictimKeeps, UnseenIsStutter
<1>4. ASSUME NEW c \in Customer,
             \/ Register(c) \/ Mark(c) \/ OpenForm(c)
             \/ \E g \in Group : SaleTakesGroup(c, g)
      PROVE  Inv' /\ Unseen
    BY <1>4, RegisterKeeps, MarkKeeps, OpenFormKeeps, SaleTakesGroupKeeps
<1>5. ASSUME Counter PROVE Inv' /\ [Promise!Next]_(Promise!vars)
    BY <1>4, <1>5, SaveFormKeeps, SaleCommitsKeeps, WithdrawKeeps, UnseenIsStutter DEF Counter
<1>6. CASE UNCHANGED vars
    <2>1. Inv'
        BY <1>6 DEF vars, Inv, TypeOK, Sent, Origins, Winners, Holding, OneHolder, Forms,
                    Holds, At, Needs
    <2>2. Unseen
        BY <1>6 DEF vars, Unseen, Asks, Gives, Sales, At
    <2> QED BY <2>1, <2>2, UnseenIsStutter
<1> QED BY <1>1, <1>2, <1>3, <1>5, <1>6 DEF Next

LEMMA SpecInv == Spec => []Inv
<1> QED BY InitInv, NextInv, PTL DEF Spec

\* The types, and that only an open transaction holds the row of a customer.
THEOREM BookingApiIsTyped == Spec => []TypeOK
<1>1. Inv => TypeOK
    BY DEF Inv
<1> QED BY <1>1, SpecInv, PTL

\* A key makes at most one reservation, and appears with it; whoever repeats the key is given
\* that reservation if it asks for the same, and nothing is left of a request that lost: the
\* API implements Bookings.
THEOREM ApiKeepsItsPromise == Spec => OneBookingPerKey
<1>1. Init => Promise!Init
    BY InitPromise
<1> QED BY <1>1, SpecInv, NextInv, PTL DEF Spec, OneBookingPerKey, Promise!Spec

-----------------------------------------------------------------------------
(* What the counter wrote *)

Heard ==
    \A q \in Request :
        LET c == Needs(q).customer
        IN status[q] = "none" /\ status'[q] = "pending" =>
              /\ ~customer[c].barred
              /\ customer[c].phone # "none" => customer'[c].phone = customer[c].phone

\* Only the commit books, and its request has the row.
LEMMA CommitHears == ASSUME Inv, NEW q \in Request, Commit(q) PROVE Heard
<1> DEFINE c == Needs(q).customer
<1>1. /\ customer' = [customer EXCEPT ![c] = Written(q)] /\ Holds(q)
      /\ status' = [status EXCEPT ![q] = "pending"]
    BY DEF Commit, Inv, Holding, At
<1>2. \A p \in Request : status[p] = "none" /\ status'[p] = "pending" => p = q
    BY <1>1 DEF Inv, TypeOK
<1>3. c \in Customer /\ customer[c] \in Row
    BY <1>1, BookingApiAssumption DEF Inv, TypeOK, Holds, Sent, At, Needs, BodyShape
<1>4. ~customer[c].barred /\ (request[q].fill => customer[c].phone = "none")
    BY <1>1 DEF Inv, Holding
<1>5. customer'[c] = Written(q)
    BY <1>1, <1>3 DEF Inv, TypeOK
<1>6. customer[c].phone # "none" => customer'[c].phone = customer[c].phone
    BY <1>3, <1>4, <1>5 DEF Written, Row
<1> QED BY <1>2, <1>4, <1>6 DEF Heard

\* When a booking commits, its customer is not marked, and the contact that the counter
\* wrote stays.
THEOREM BookingsHearTheCounter == Spec => TheCounterIsHeard
<1>1. Inv /\ [Next]_vars => [Heard]_vars
    <2> SUFFICES ASSUME Inv, [Next]_vars PROVE Heard \/ UNCHANGED vars
        OBVIOUS
    <2>1. CASE \E q \in Request : Commit(q)
        BY <2>1, CommitHears
    <2>2. CASE \E q \in Request : Cancel(q)
        BY <2>2 DEF Cancel, Heard, Inv, TypeOK
    <2>3. ASSUME status' = status PROVE Heard
        BY <2>3 DEF Heard
    <2>4. CASE Next /\ ~(\E q \in Request : Commit(q) \/ Cancel(q))
        <3>1. status' = status
            BY <2>4 DEF Next, Serve, Counter, Send, View, Lookup, CustomerStep, InsertCustomer,
                        Capacity, InsertKey, LinkRefused, Again, Still, Lost, DeadlockVictim,
                        Register, Mark, OpenForm, SaleTakesGroup, SaveForm, SaleCommits, Withdraw
        <3> QED BY <2>3, <3>1
    <2> QED BY <2>1, <2>2, <2>4
<1> QED BY <1>1, SpecInv, PTL DEF Spec, TheCounterIsHeard, Heard

=============================================================================
