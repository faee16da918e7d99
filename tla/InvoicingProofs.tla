--------------------------- MODULE InvoicingProofs ---------------------------
(***************************************************************************)
(* Proofs about Invoicing, for any number of clerks, reservations, series  *)
(* and invoices.  The inductive invariant says what the transactions that  *)
(* are open hold: their locks, and what they read behind them.             *)
(*                                                                         *)
(* Then Reports, for any calendar and any rentals.  A sum over a set takes *)
(* its members out in an order that nobody knows; AddsUp is a sum that may *)
(* take out any of them, which exists (SumExists) and which is the same as *)
(* that of the community modules (SumIsTheSum).                            *)
(***************************************************************************)
EXTENDS Invoicing, Reports, FiniteSetTheorems, WellFoundedInduction, TLAPS

\* What a clerk has open that writes no invoice.
Quiet == {Idle} \cup ChargeJob \cup ChangeJob \cup Warned

Numbered(j) == j.kind \in Issuing /\ j.number # 0

\* FOR UPDATE on the reservation, on the invoice to rectify and on the series.
Locks ==
    \A c, d \in Clerk :
        /\ job[c].kind = "invoice" /\ job[d].kind = "invoice" /\ job[c].res = job[d].res => c = d
        /\ (/\ job[c].kind = "rectify" /\ job[d].kind = "rectify"
            /\ job[c].rectifies = job[d].rectifies) => c = d
        /\ Numbered(job[c]) /\ Numbered(job[d]) /\ job[c].series = job[d].series => c = d

\* What an issuing transaction read is still so.
StillHolds(j) ==
    /\ j.kind = "invoice" =>
          /\ j.res \in Reservation /\ j.rectifies = 0
          /\ InForce(j.res) = {}
          /\ j.total = Total(j.res)
          /\ owed[j.res] = charges[j.res]
    /\ j.kind = "free" => j.res = NoReservation /\ j.rectifies = 0
    /\ j.kind = "rectify" =>
          /\ j.rectifies \in Ids
          /\ \A k \in Ids : invoices[k].rectifies # j.rectifies
    /\ Numbered(j) => j.number = counter[j.series] + 1

HasLast == \E i \in {0} \cup Ids : IsLast(i)

IInv ==
    /\ TypeOK
    /\ Locks
    /\ \A c \in Clerk : StillHolds(job[c])
    /\ HasLast
    /\ Gapless
    /\ OneInForce
    /\ ChainReachesTheFirst

-----------------------------------------------------------------------------

\* At the start there is nothing issued and nobody is issuing.
LEMMA InitHolds == Init => IInv
<1>. SUFFICES ASSUME Init PROVE IInv
  OBVIOUS
<1>1. TypeOK
  BY InvoicingAssumption DEF Init, TypeOK, Series
<1>2. Ids = {} /\ \A c \in Clerk : job[c].kind = "idle"
  BY DEF Init, Ids, Idle
<1>3. Locks /\ \A c \in Clerk : StillHolds(job[c])
  <2>1. \A c \in Clerk : /\ job[c].kind \notin Issuing
                         /\ job[c].kind \notin {"invoice", "free", "rectify"}
    BY <1>2 DEF Issuing
  <2>2. Locks
    BY <2>1 DEF Locks, Numbered
  <2>3. \A c \in Clerk : StillHolds(job[c])
    BY <2>1 DEF StillHolds, Numbered
  <2>. QED
    BY <2>2, <2>3
<1>4. HasLast
  BY <1>2 DEF HasLast, IsLast
<1>5. Gapless
  BY <1>2 DEF Gapless, Init
<1>6. OneInForce /\ ChainReachesTheFirst
  BY <1>2 DEF OneInForce, ChainReachesTheFirst, InForce
<1>. QED
  BY <1>1, <1>3, <1>4, <1>5, <1>6 DEF IInv

\* A step that issues nothing, and changes the amounts of no reservation that is
\* being invoiced, keeps the invariant.
LEMMA QuietStep ==
    ASSUME IInv, NEW c \in Clerk, NEW j \in Quiet,
           job' = [job EXCEPT ![c] = j],
           UNCHANGED <<counter, invoices, clock>>,
           finished' \in [Reservation -> BOOLEAN], price' \in [Reservation -> Prices],
           extras' \in [Reservation -> Nat], manual' \in [Reservation -> BOOLEAN],
           charges' \in [Reservation -> Nat], owed' \in [Reservation -> Nat],
           \A r \in Reservation : ~RowFree(r) =>
               /\ price'[r] = price[r] /\ extras'[r] = extras[r]
               /\ charges'[r] = charges[r] /\ owed'[r] = owed[r]
    PROVE  IInv'
<1>1. TypeOK'
  BY DEF IInv, TypeOK, Quiet
<1>2. \A d \in Clerk : d # c => job'[d] = job[d]
  BY DEF IInv, TypeOK
<1>3. job'[c].kind \notin Issuing
  <2>1. j.kind \notin Issuing
    BY DEF Quiet, Issuing, Idle, ChargeJob, ChangeJob, Warned, Warning
  <2>. QED
    BY <2>1 DEF IInv, TypeOK
<1>4. Locks'
  <2>1. job'[c].kind \notin {"invoice", "rectify"} /\ ~Numbered(job'[c])
    BY <1>3 DEF Issuing, Numbered
  <2>2. SUFFICES ASSUME NEW a \in Clerk, NEW b \in Clerk, a # b
        PROVE  /\ ~(job'[a].kind = "invoice" /\ job'[b].kind = "invoice" /\ job'[a].res = job'[b].res)
               /\ ~(/\ job'[a].kind = "rectify" /\ job'[b].kind = "rectify"
                    /\ job'[a].rectifies = job'[b].rectifies)
               /\ ~(Numbered(job'[a]) /\ Numbered(job'[b]) /\ job'[a].series = job'[b].series)
    BY DEF Locks, Numbered, Issuing
  <2>3. CASE a = c \/ b = c
    BY <2>1, <2>3
  <2>4. CASE a # c /\ b # c
    <3>1. job'[a] = job[a] /\ job'[b] = job[b]
      BY <1>2, <2>4
    <3>. QED
      BY <3>1, <2>2 DEF IInv, Locks
  <2>. QED
    BY <2>3, <2>4
<1>5. ASSUME NEW d \in Clerk PROVE StillHolds(job[d])'
  <2>1. CASE d = c
    BY <1>3, <2>1 DEF StillHolds, Issuing, Numbered
  <2>2. CASE d # c
    <3>1. job'[d] = job[d] /\ StillHolds(job[d])
      BY <1>2, <2>2 DEF IInv
    <3>2. job[d].kind = "invoice" => ~RowFree(job[d].res)
      BY DEF RowFree
    <3>. QED
      BY <3>1, <3>2 DEF StillHolds, Total, InForce, Ids
  <2>. QED
    BY <2>1, <2>2
<1>6. HasLast' /\ ChainReachesTheFirst'
  BY DEF IInv, HasLast, IsLast, ChainReachesTheFirst, Ids
<1>7. Gapless'
  BY DEF IInv, Gapless, Ids
<1>8. OneInForce'
  BY DEF IInv, OneInForce, InForce, Ids
<1>. QED
  BY <1>1, <1>4, <1>5, <1>6, <1>7, <1>8 DEF IInv

\* The kind of a transaction tells which records it may be.
LEMMA Kinds ==
    ASSUME TypeOK, NEW c \in Clerk
    PROVE  /\ job[c].kind \in {"charge", "checkout"} => job[c] \in ChargeJob
           /\ job[c].kind = "change" => job[c] \in ChangeJob
           /\ job[c].kind \in Issuing => job[c] \in IssueJob
<1>1. job[c] \in Quiet \cup IssueJob
  BY DEF TypeOK, Quiet
<1>2. CASE job[c] = Idle
  BY <1>2 DEF Idle, Issuing
<1>3. CASE job[c] \in ChargeJob
  BY <1>3 DEF ChargeJob, Issuing
<1>4. CASE job[c] \in ChangeJob
  BY <1>4 DEF ChangeJob, Issuing
<1>5. CASE job[c] \in Warned
  BY <1>5 DEF Warned, Warning, Issuing
<1>6. CASE job[c] \in IssueJob
  BY <1>6 DEF IssueJob, Issuing
<1>. QED
  BY <1>1, <1>2, <1>3, <1>4, <1>5, <1>6 DEF Quiet

LEMMA ChargingKeeps == IInv /\ Charging => IInv'
<1>. SUFFICES ASSUME IInv, Charging PROVE IInv'
  OBVIOUS
<1>1. ASSUME NEW c \in Clerk, NEW r \in Reservation, NEW kind \in {"charge", "checkout"},
             NEW new \in {0, 1}, OpenCharge(c, r, kind, new)
      PROVE  IInv'
  <2>1. [kind |-> kind, res |-> r, new |-> new, sum |-> -1] \in Quiet
    BY DEF Quiet, ChargeJob
  <2>. QED
    BY <1>1, <2>1, QuietStep DEF OpenCharge, amounts, sold, ledger, IInv, TypeOK
<1>2. ASSUME NEW c \in Clerk, SumCharges(c) PROVE IInv'
  <2>1. job[c] \in ChargeJob
    BY <1>2, Kinds DEF SumCharges, IInv
  <2>2. charges[job[c].res] + job[c].new \in Nat
    BY <2>1 DEF IInv, TypeOK, ChargeJob
  <2>3. [job[c] EXCEPT !.sum = charges[job[c].res] + job[c].new] \in Quiet
    BY <2>1, <2>2 DEF Quiet, ChargeJob
  <2>4. job' = [job EXCEPT ![c] = [job[c] EXCEPT !.sum = charges[job[c].res] + job[c].new]]
    BY <1>2 DEF SumCharges
  <2>. QED
    BY <1>2, <2>3, <2>4, QuietStep DEF SumCharges, amounts, sold, ledger, IInv, TypeOK
<1>3. ASSUME NEW c \in Clerk, CommitCharge(c) PROVE IInv'
  <2>1. job[c] \in ChargeJob
    BY <1>3, Kinds DEF CommitCharge, IInv
  <2>2. job[c].res \in Reservation /\ job[c].new \in Nat /\ job[c].sum \in Nat
    BY <1>3, <2>1 DEF CommitCharge, ChargeJob
  <2>3. /\ finished' \in [Reservation -> BOOLEAN] /\ price' \in [Reservation -> Prices]
        /\ extras' \in [Reservation -> Nat] /\ manual' \in [Reservation -> BOOLEAN]
        /\ charges' \in [Reservation -> Nat] /\ owed' \in [Reservation -> Nat]
    BY <1>3, <2>2 DEF CommitCharge, sold, IInv, TypeOK
  <2>4. \A r \in Reservation : ~RowFree(r) =>
            /\ price'[r] = price[r] /\ extras'[r] = extras[r]
            /\ charges'[r] = charges[r] /\ owed'[r] = owed[r]
    BY <1>3, <2>2 DEF CommitCharge, sold, IInv, TypeOK
  <2>5. Idle \in Quiet
    BY DEF Quiet
  <2>. QED
    BY <1>3, <2>3, <2>4, <2>5, QuietStep DEF CommitCharge, Done, sold, ledger
<1>. QED
  BY <1>1, <1>2, <1>3 DEF Charging

\* A new price is saved behind the lock, and so of nothing that is being invoiced.
LEMMA SellingKeeps ==
    ASSUME IInv, NEW c \in Clerk, NEW j \in Quiet, job' = [job EXCEPT ![c] = j],
           NEW r \in Reservation, NEW p \in Prices, NEW q \in Nat, NEW agreed \in BOOLEAN,
           SellAt(r, p, q, agreed)
    PROVE  IInv'
<1>1. /\ price' \in [Reservation -> Prices] /\ extras' \in [Reservation -> Nat]
      /\ manual' \in [Reservation -> BOOLEAN]
      /\ \A o \in Reservation : o # r => price'[o] = price[o] /\ extras'[o] = extras[o]
  BY DEF SellAt, IInv, TypeOK
<1>2. RowFree(r) /\ UNCHANGED <<finished, charges, owed, counter, invoices, clock>>
  BY DEF SellAt, ledger
<1>. QED
  BY <1>1, <1>2, QuietStep DEF IInv, TypeOK

LEMMA PricingKeeps == IInv /\ Pricing => IInv'
<1>. SUFFICES ASSUME IInv, NEW c \in Clerk,
                     \/ AddExtraScreen(c) \/ ExtraLineScreen(c) \/ ManualPriceScreen(c)
                     \/ RecalculateScreen(c) \/ ChangeScreen(c)
              PROVE  IInv'
  BY DEF Pricing
<1>1. Idle \in Quiet /\ \A r \in Reservation : Warning(r) \in Quiet /\ extras[r] \in Nat
  BY DEF Quiet, Warned, IInv, TypeOK
<1>2. \A q \in 1 .. MaxQuantity : q \in Nat
  BY InvoicingAssumption
<1>3. ASSUME NEW r \in Reservation, NEW p \in Prices, NEW q \in Nat, Sell(c, r, p, q)
      PROVE  IInv'
  BY <1>1, <1>3, SellingKeeps DEF Sell, Done
<1>4. CASE AddExtraScreen(c)
  BY <1>2, <1>3, <1>4 DEF AddExtraScreen, AddExtra
<1>5. CASE ExtraLineScreen(c)
  BY <1>2, <1>3, <1>5 DEF ExtraLineScreen, RemoveExtra, SetExtraQuantity
<1>6. ASSUME NEW r \in Reservation, NEW p \in Prices, SetManualPrice(c, r, p) PROVE IInv'
  <2>1. job' = [job EXCEPT ![c] = Idle]
    BY <1>6 DEF SetManualPrice, IInv, TypeOK
  <2>. QED
    BY <1>1, <1>6, <2>1, SellingKeeps DEF SetManualPrice
<1>7. ASSUME NEW r \in Reservation, Warn(c, r) PROVE IInv'
  BY <1>1, <1>7, QuietStep DEF Warn, amounts, sold, ledger, IInv, TypeOK
<1>8. CASE RecalculateScreen(c)
  BY <1>1, <1>3, <1>7, <1>8 DEF RecalculateScreen, RecalculatePrice
<1>9. ASSUME NEW r \in Reservation, OpenChange(c, r) PROVE IInv'
  <2>1. [kind |-> "change", res |-> r] \in Quiet
    BY DEF Quiet, ChangeJob
  <2>. QED
    BY <1>9, <2>1, QuietStep DEF OpenChange, amounts, sold, ledger, IInv, TypeOK
<1>10. ASSUME NEW p \in Prices, CommitChange(c, p) PROVE IInv'
  <2>1. job[c].res \in Reservation
    BY <1>10, Kinds DEF CommitChange, IInv, ChangeJob
  <2>2. /\ price' \in [Reservation -> Prices] /\ RowFree(job[c].res)
        /\ \A q \in Reservation : q # job[c].res => price'[q] = price[q]
    BY <1>10, <2>1 DEF CommitChange, IInv, TypeOK
  <2>. QED
    BY <1>1, <1>10, <2>2, QuietStep DEF CommitChange, Done, ledger, IInv, TypeOK
<1>. QED
  BY <1>4, <1>5, <1>6, <1>8, <1>9, <1>10 DEF ManualPriceScreen, ChangeScreen

LEMMA RollbackKeeps == ASSUME IInv, NEW c \in Clerk, Rollback(c) PROVE IInv'
<1>1. Idle \in Quiet
  BY DEF Quiet
<1>. QED
  BY <1>1, QuietStep DEF Rollback, Done, amounts, sold, ledger, IInv, TypeOK


\* A transaction that begins to issue holds what the guards of its service gave it.
LEMMA BeginKeeps ==
    ASSUME IInv, NEW c \in Clerk, NEW kind \in Issuing, NEW s \in Series,
           NEW r \in Reservation \cup {NoReservation}, NEW i \in Nat, NEW total \in Int,
           Begin(c, kind, s, r, i, total),
           kind = "invoice" => /\ r \in Reservation /\ i = 0 /\ RowFree(r) /\ InForce(r) = {}
                               /\ total = Total(r) /\ owed[r] = charges[r],
           kind = "free" => r = NoReservation /\ i = 0,
           kind = "rectify" => /\ i \in Ids /\ OriginalFree(i)
                               /\ \A k \in Ids : invoices[k].rectifies # i
    PROVE  IInv'
<1> DEFINE j == [kind |-> kind, series |-> s, at |-> clock + 1, res |-> r,
                 rectifies |-> i, total |-> total, number |-> 0]
<1>1. /\ j \in IssueJob /\ clock + 1 \in Nat
  BY DEF IssueJob, Issuing, IInv, TypeOK
<1>2. job' = [job EXCEPT ![c] = j] /\ clock' = clock + 1
      /\ UNCHANGED <<finished, price, extras, manual, charges, owed, counter, invoices>>
  BY DEF Begin, amounts, sold, ledger
<1> HIDE DEF j
<1>3. TypeOK'
  BY <1>1, <1>2 DEF IInv, TypeOK
<1>4. job'[c] = j /\ \A d \in Clerk : d # c => job'[d] = job[d]
  BY <1>2 DEF IInv, TypeOK
<1>5. /\ j.kind = kind /\ j.res = r /\ j.rectifies = i /\ j.total = total
      /\ j.series = s /\ ~Numbered(j)
  BY DEF j, Numbered
<1>6. Locks'
  <2>1. \A d \in Clerk :
            /\ j.kind = "invoice" /\ job[d].kind = "invoice" => job[d].res # j.res
            /\ j.kind = "rectify" /\ job[d].kind = "rectify" => job[d].rectifies # j.rectifies
    BY <1>5 DEF RowFree, OriginalFree
  <2>. QED
    BY <2>1, <1>4, <1>5 DEF IInv, Locks, Numbered
<1>7. ASSUME NEW d \in Clerk PROVE StillHolds(job[d])'
  <2>1. CASE d = c
    BY <2>1, <1>2, <1>4, <1>5 DEF StillHolds, Total, InForce, Ids, Numbered
  <2>2. CASE d # c
    BY <2>2, <1>2, <1>4 DEF IInv, StillHolds, Total, InForce, Ids, Numbered
  <2>. QED
    BY <2>1, <2>2
<1>8. HasLast' /\ ChainReachesTheFirst'
  BY <1>2 DEF IInv, HasLast, IsLast, ChainReachesTheFirst, Ids
<1>9. Gapless' /\ OneInForce'
  <2>1. Gapless'
    BY <1>2 DEF IInv, Gapless, Ids
  <2>2. OneInForce'
    <3>1. OneInForce /\ Ids' = Ids /\ \A o \in Reservation : InForce(o)' = InForce(o)
      BY <1>2 DEF IInv, InForce, Ids
    <3>. QED
      BY <3>1, <1>2 DEF OneInForce
  <2>. QED
    BY <2>1, <2>2
<1>. QED
  BY <1>3, <1>6, <1>7, <1>8, <1>9 DEF IInv

LEMMA BeginningKeeps ==
    ASSUME IInv, NEW c \in Clerk, NEW s \in Series,
           \/ \E r \in Reservation : BeginInvoice(c, r, s)
           \/ \E total \in Prices : BeginFree(c, s, total)
           \/ \E i \in Ids : BeginRectify(c, i, s)
    PROVE  IInv'
<1>1. ASSUME NEW r \in Reservation, BeginInvoice(c, r, s) PROVE IInv'
  <2>1. Total(r) \in Int
    <3>1. price[r] \in Prices /\ extras[r] \in Nat /\ charges[r] \in Nat
      BY DEF IInv, TypeOK
    <3>2. price[r] \in Nat
      BY <3>1, InvoicingAssumption
    <3>. QED
      BY <3>1, <3>2 DEF Total
  <2>. QED
    BY <1>1, <2>1, BeginKeeps DEF BeginInvoice, Issuing
<1>2. ASSUME NEW total \in Prices, BeginFree(c, s, total) PROVE IInv'
  <2>1. total \in Int
    BY InvoicingAssumption
  <2>. QED
    BY <1>2, <2>1, BeginKeeps DEF BeginFree, Issuing
<1>3. ASSUME NEW i \in Ids, BeginRectify(c, i, s) PROVE IInv'
  <2>1. invoices[i] \in Invoice /\ i \in Nat
    BY DEF IInv, TypeOK, Ids
  <2>2. invoices[i].res \in Reservation \cup {NoReservation} /\ -invoices[i].total \in Int
    BY <2>1 DEF Invoice
  <2>. QED
    BY <1>3, <2>1, <2>2, BeginKeeps DEF BeginRectify, Issuing
<1>. QED
  BY <1>1, <1>2, <1>3


\* The series is held: nobody else has a number of it.
LEMMA TakeNumberKeeps == ASSUME IInv, NEW c \in Clerk, TakeNumber(c) PROVE IInv'
<1> DEFINE n == counter[job[c].series] + 1
<1> DEFINE j == [job[c] EXCEPT !.number = n]
<1>1. job[c] \in IssueJob /\ job[c].kind \in Issuing
  BY Kinds DEF TakeNumber, IInv
<1>2. n \in Nat \ {0}
  BY <1>1 DEF IssueJob, IInv, TypeOK
<1>3. job' = [job EXCEPT ![c] = j]
      /\ UNCHANGED <<finished, price, extras, manual, charges, owed, counter, invoices, clock>>
  BY DEF TakeNumber, amounts, sold, ledger
<1>4. /\ j \in IssueJob /\ j.kind = job[c].kind /\ j.res = job[c].res
      /\ j.rectifies = job[c].rectifies /\ j.total = job[c].total
      /\ j.series = job[c].series /\ j.number = n
  BY <1>1, <1>2 DEF IssueJob
<1> HIDE DEF j
<1>5. TypeOK'
  BY <1>3, <1>4 DEF IInv, TypeOK
<1>6. job'[c] = j /\ \A d \in Clerk : d # c => job'[d] = job[d]
  BY <1>3 DEF IInv, TypeOK
<1>7. Locks'
  <2>1. \A d \in Clerk : d # c => ~(Numbered(job[d]) /\ job[d].series = j.series)
    BY <1>4 DEF TakeNumber, SeriesFree, Numbered
  <2>2. \A d \in Clerk : d # c =>
            /\ ~(j.kind = "invoice" /\ job[d].kind = "invoice" /\ job[d].res = j.res)
            /\ ~(j.kind = "rectify" /\ job[d].kind = "rectify" /\ job[d].rectifies = j.rectifies)
    BY <1>4 DEF IInv, Locks
  <2>. QED
    BY <2>1, <2>2, <1>6 DEF IInv, Locks, Numbered
<1>8. ASSUME NEW d \in Clerk PROVE StillHolds(job[d])'
  <2>1. CASE d = c
    <3>1. StillHolds(job[c])
      BY DEF IInv
    <3>. QED
      BY <2>1, <3>1, <1>3, <1>4, <1>6 DEF StillHolds, Total, InForce, Ids, Numbered
  <2>2. CASE d # c
    BY <2>2, <1>3, <1>6 DEF IInv, StillHolds, Total, InForce, Ids, Numbered
  <2>. QED
    BY <2>1, <2>2
<1>9. HasLast' /\ ChainReachesTheFirst'
  BY <1>3 DEF IInv, HasLast, IsLast, ChainReachesTheFirst, Ids
<1>10. Gapless'
  BY <1>3 DEF IInv, Gapless, Ids
<1>11. OneInForce'
  BY <1>3 DEF IInv, OneInForce, InForce, Ids
<1>. QED
  BY <1>5, <1>7, <1>8, <1>9, <1>10, <1>11 DEF IInv

\* The new invoice goes to the end and leaves the others alone.
LEMMA WriteAppends ==
    ASSUME IInv, NEW c \in Clerk, Write(c)
    PROVE  LET new == invoices'[Len(invoices) + 1]
           IN /\ Ids' = Ids \cup {Len(invoices) + 1}
              /\ \A i \in Ids : invoices'[i] = invoices[i]
              /\ invoices' \in Seq(Invoice)
              /\ new \in Invoice
              /\ new.series = job[c].series /\ new.number = job[c].number
              /\ new.res = job[c].res /\ new.rectifies = job[c].rectifies
              /\ new.prev \in {0} \cup Ids
              /\ new.prev = 0 => Ids = {}
<1> DEFINE j == job[c]
<1> DEFINE prev == Last(j.series)
<1> DEFINE new == [series |-> j.series, number |-> j.number, at |-> j.at,
                   prev |-> prev, res |-> j.res, rectifies |-> j.rectifies, total |-> j.total]
<1>1. j \in IssueJob
  BY Kinds DEF Write, IInv
<1>2. prev \in {0} \cup Ids /\ IsLast(prev)
  <2>1. \E i \in {0} \cup Ids : IsLast(i)
    BY DEF IInv, HasLast
  <2>. QED
    BY <2>1 DEF Last
<1>3. prev = 0 => Ids = {}
  BY <1>2 DEF IsLast
<1>4. new \in Invoice
  BY <1>1, <1>2 DEF IssueJob, Invoice, Ids
<1>5. invoices' = Append(invoices, new) /\ invoices \in Seq(Invoice)
  BY DEF Write, IInv, TypeOK
<1> HIDE DEF prev
<1>6. /\ new.series = j.series /\ new.number = j.number /\ new.res = j.res
      /\ new.rectifies = j.rectifies /\ new.prev = prev
  OBVIOUS
<1> HIDE DEF new, j
<1>7. /\ Len(invoices') = Len(invoices) + 1
      /\ invoices'[Len(invoices) + 1] = new
      /\ \A i \in 1 .. Len(invoices) : invoices'[i] = invoices[i]
      /\ invoices' \in Seq(Invoice)
  BY <1>4, <1>5
<1>8. Ids' = Ids \cup {Len(invoices) + 1}
  BY <1>5, <1>7 DEF Ids
<1>. QED
  BY <1>2, <1>3, <1>4, <1>6, <1>7, <1>8 DEF Ids, j


LEMMA WriteKeeps == ASSUME IInv, NEW c \in Clerk, Write(c) PROVE IInv'
<1>0. Len(invoices) \in Nat
  BY DEF IInv, TypeOK
<1>. SUFFICES ASSUME NEW n \in Nat, n = Len(invoices) + 1 PROVE IInv'
  BY <1>0
<1> DEFINE j == job[c]
<1>1. /\ Ids' = Ids \cup {n}
      /\ \A i \in Ids : invoices'[i] = invoices[i] /\ invoices'[i] \in Invoice
      /\ invoices' \in Seq(Invoice)
      /\ invoices'[n] \in Invoice
      /\ invoices'[n].series = j.series /\ invoices'[n].number = j.number
      /\ invoices'[n].res = j.res /\ invoices'[n].rectifies = j.rectifies
      /\ invoices'[n].prev \in {0} \cup Ids
      /\ invoices'[n].prev = 0 => Ids = {}
  BY WriteAppends DEF IInv, TypeOK, Ids
<1>2. n \in Nat /\ n \notin Ids /\ n # 0 /\ \A i \in Ids : i \in Nat /\ i # 0 /\ i < n
  BY DEF Ids, IInv, TypeOK
<1>3. j \in IssueJob /\ j.kind \in Issuing /\ Numbered(j)
  BY Kinds DEF Write, IInv, Numbered
<1>4. j.series \in Series /\ j.rectifies \in Nat /\ j.number \in Nat
  BY <1>3 DEF IssueJob
<1>5. /\ job' = [job EXCEPT ![c] = Idle]
      /\ counter' = [counter EXCEPT ![j.series] = j.number]
      /\ UNCHANGED <<finished, price, extras, manual, charges, owed, clock>>
  BY DEF Write, Done, amounts, sold
<1>6. job'[c] = Idle /\ \A d \in Clerk : d # c => job'[d] = job[d]
  BY <1>5 DEF IInv, TypeOK
<1>7. ~Numbered(Idle) /\ Idle.kind \notin {"invoice", "free", "rectify"}
  BY DEF Numbered, Idle, Issuing
<1>8. StillHolds(j)
  BY DEF IInv
<1>9. j.number = counter[j.series] + 1
  BY <1>3, <1>8 DEF StillHolds
<1> HIDE DEF j
<1>10. TypeOK'
  <2>1. counter' \in [Series -> Nat]
    BY <1>4, <1>5 DEF IInv, TypeOK
  <2>2. job' \in [Clerk -> {Idle} \cup ChargeJob \cup ChangeJob \cup Warned \cup IssueJob]
    BY <1>5 DEF IInv, TypeOK
  <2>. QED
    BY <1>1, <1>5, <2>1, <2>2 DEF IInv, TypeOK
<1>11. Locks'
  BY <1>6, <1>7 DEF IInv, Locks, Numbered
<1>12. ASSUME NEW r \in Reservation PROVE InForce(r)' \subseteq InForce(r) \cup {n}
  BY <1>1 DEF InForce
<1>13. ASSUME NEW r \in Reservation, n \in InForce(r)'
       PROVE  j.kind = "invoice" /\ j.res = r
  <2>1. j.res = r /\ j.rectifies = 0
    BY <1>1, <1>13 DEF InForce
  <2>2. j.kind # "free"
    BY <2>1, <1>8, InvoicingAssumption DEF StillHolds
  <2>3. j.kind # "rectify"
    BY <2>1, <1>2, <1>8 DEF StillHolds
  <2>. QED
    BY <2>1, <2>2, <2>3, <1>3 DEF Issuing
<1>14. ASSUME NEW d \in Clerk PROVE StillHolds(job[d])'
  <2>1. CASE d = c
    BY <2>1, <1>6, <1>7 DEF StillHolds
  <2>2. CASE d # c
    <3>1. job'[d] = job[d] /\ StillHolds(job[d])
      BY <2>2, <1>6 DEF IInv
    <3>2. ASSUME job[d].kind = "invoice"
          PROVE  /\ job[d].res \in Reservation /\ job[d].rectifies = 0
                 /\ InForce(job[d].res)' = {}
                 /\ job[d].total = Total(job[d].res)'
                 /\ owed'[job[d].res] = charges'[job[d].res]
      <4>1. /\ job[d].res \in Reservation /\ InForce(job[d].res) = {} /\ job[d].rectifies = 0
            /\ job[d].total = Total(job[d].res)
            /\ owed[job[d].res] = charges[job[d].res]
        BY <3>1, <3>2 DEF StillHolds
      <4>2. ~(j.kind = "invoice" /\ j.res = job[d].res)
        BY <2>2, <3>2 DEF IInv, Locks, j
      <4>3. n \notin InForce(job[d].res)'
        BY <3>1, <4>1, <4>2, <1>13
      <4>4. InForce(job[d].res)' = {}
        BY <3>1, <4>1, <4>3, <1>12
      <4>5. Total(job[d].res)' = Total(job[d].res)
        BY <3>1, <4>1, <1>5 DEF Total
      <4>. QED
        BY <4>1, <4>4, <4>5, <1>5
    <3>3. ASSUME job[d].kind = "rectify"
          PROVE  /\ job[d].rectifies \in Ids'
                 /\ \A k \in Ids' : invoices'[k].rectifies # job[d].rectifies
      <4>1. job[d].rectifies \in Ids /\ \A k \in Ids : invoices[k].rectifies # job[d].rectifies
        BY <3>1, <3>3 DEF StillHolds
      <4>2. j.rectifies # job[d].rectifies
        <5>1. CASE j.kind = "rectify"
          BY <5>1, <2>2, <3>3 DEF IInv, Locks, j
        <5>2. CASE j.kind # "rectify"
          <6>1. j.rectifies = 0
            BY <5>2, <1>3, <1>8 DEF StillHolds, Issuing
          <6>. QED
            BY <6>1, <4>1, <1>2
        <5>. QED
          BY <5>1, <5>2
      <4>. QED
        BY <4>1, <4>2, <1>1
    <3>4. ASSUME Numbered(job[d]) PROVE job[d].number = counter'[job[d].series] + 1
      <4>1. job[d].series # j.series
        BY <2>2, <3>4, <1>3 DEF IInv, Locks, j
      <4>2. job[d].number = counter[job[d].series] + 1
        BY <3>1, <3>4 DEF StillHolds
      <4>3. job[d].series \in Series
        BY <3>4, Kinds DEF IInv, Numbered, IssueJob
      <4>. QED
        BY <4>1, <4>2, <4>3, <1>5 DEF IInv, TypeOK
    <3>. QED
      BY <3>1, <3>2, <3>3, <3>4 DEF StillHolds, Numbered
  <2>. QED
    BY <2>1, <2>2
<1>15. HasLast'
  <2>1. PICK i \in {0} \cup Ids : IsLast(i)
    BY DEF IInv, HasLast
  <2>2. invoices'[n].at \in Nat /\ \A k \in Ids : invoices[k].at \in Nat
    BY <1>1 DEF Invoice
  <2>3. CASE i # 0 /\ invoices'[n].at < invoices[i].at
    <3>1. IsLast(i)'
      BY <2>1, <2>2, <2>3, <1>1, <1>2 DEF IsLast
    <3>. QED
      BY <3>1, <2>1, <1>1 DEF HasLast
  <2>4. CASE ~(i # 0 /\ invoices'[n].at < invoices[i].at)
    <3>1. ASSUME NEW k \in Ids'
          PROVE  n # 0 /\ (\/ invoices'[k].at < invoices'[n].at
                           \/ invoices'[k].at = invoices'[n].at /\ k <= n)
      <4>1. CASE k = n
        BY <4>1, <1>2
      <4>2. CASE k \in Ids
        <5>1. i # 0 /\ invoices[k].at <= invoices[i].at /\ i \in Ids
          BY <4>2, <2>1, <2>2 DEF IsLast
        <5>. QED
          BY <5>1, <4>2, <2>2, <2>4, <1>1, <1>2
      <4>. QED
        BY <4>1, <4>2, <1>1
    <3>2. IsLast(n)'
      BY <3>1 DEF IsLast
    <3>. QED
      BY <3>2, <1>1 DEF HasLast
  <2>. QED
    BY <2>3, <2>4
<1>16. Gapless'
  <2>. SUFFICES ASSUME NEW s \in Series
       PROVE  LET own == {i \in Ids' : invoices'[i].series = s}
              IN /\ {invoices'[i].number : i \in own} = 1 .. counter'[s]
                 /\ \A i, k \in own : i < k => invoices'[i].number < invoices'[k].number
    BY DEF Gapless
  <2> DEFINE before == {i \in Ids : invoices[i].series = s}
  <2>1. /\ {invoices[i].number : i \in before} = 1 .. counter[s]
        /\ \A i, k \in before : i < k => invoices[i].number < invoices[k].number
        /\ counter[s] \in Nat
    BY DEF IInv, Gapless, TypeOK
  <2>2. CASE s # j.series
    <3>1. {i \in Ids' : invoices'[i].series = s} = before /\ counter'[s] = counter[s]
      BY <2>2, <1>1, <1>5 DEF IInv, TypeOK
    <3>2. {invoices'[i].number : i \in before} = {invoices[i].number : i \in before}
      BY <1>1
    <3>. QED
      BY <3>1, <3>2, <2>1, <1>1
  <2>3. CASE s = j.series
    <3>1. /\ {i \in Ids' : invoices'[i].series = s} = before \cup {n}
          /\ counter'[s] = counter[s] + 1 /\ invoices'[n].number = counter[s] + 1
      BY <2>3, <1>1, <1>4, <1>5, <1>9 DEF IInv, TypeOK
    <3>2. \A i \in before : invoices'[i] = invoices[i]
      BY <1>1
    <3>3. {invoices'[i].number : i \in before \cup {n}} = (1 .. counter[s]) \cup {counter[s] + 1}
      BY <3>1, <3>2, <2>1
    <3>4. (1 .. counter[s]) \cup {counter[s] + 1} = 1 .. counter'[s]
      BY <3>1, <2>1
    <3>5. \A i \in before : invoices[i].number \in 1 .. counter[s]
      BY <2>1
    <3>6. \A i, k \in before \cup {n} : i < k => invoices'[i].number < invoices'[k].number
      <4>. SUFFICES ASSUME NEW i \in before \cup {n}, NEW k \in before \cup {n}, i < k
           PROVE  invoices'[i].number < invoices'[k].number
        OBVIOUS
      <4>1. CASE i \in before /\ k \in before
        BY <4>1, <3>2, <2>1
      <4>2. CASE i \in before /\ k = n
        BY <4>2, <3>1, <3>2, <3>5, <2>1
      <4>3. i # n
        BY <1>2
      <4>. QED
        BY <4>1, <4>2, <4>3
    <3>. QED
      BY <3>1, <3>3, <3>4, <3>6
  <2>. QED
    BY <2>2, <2>3
<1>17. OneInForce'
  <2>1. ASSUME NEW r \in Reservation PROVE \A i, k \in InForce(r)' : i = k
    <3>1. CASE n \in InForce(r)'
      <4>1. InForce(r) = {}
        BY <3>1, <1>8, <1>13 DEF StillHolds
      <4>. QED
        BY <4>1, <1>12
    <3>2. CASE n \notin InForce(r)'
      <4>1. InForce(r)' \subseteq InForce(r)
        BY <3>2, <1>12
      <4>. QED
        BY <4>1 DEF IInv, OneInForce
    <3>. QED
      BY <3>1, <3>2
  <2>2. ASSUME NEW i \in Ids', NEW k \in Ids',
               invoices'[i].rectifies # 0, invoices'[i].rectifies = invoices'[k].rectifies
        PROVE  i = k
    <3>1. CASE i \in Ids /\ k \in Ids
      <4>1. invoices[i].rectifies # 0 /\ invoices[i].rectifies = invoices[k].rectifies
        BY <3>1, <2>2, <1>1
      <4>. QED
        BY <4>1, <3>1 DEF IInv, OneInForce
    <3>2. ASSUME j.rectifies # 0 PROVE \A q \in Ids : invoices[q].rectifies # j.rectifies
      BY <3>2, <1>3, <1>8 DEF StillHolds, Issuing
    <3>. QED
      BY <3>1, <3>2, <2>2, <1>1
  <2>. QED
    BY <2>1, <2>2 DEF OneInForce
<1>18. ChainReachesTheFirst'
  <2>. SUFFICES ASSUME NEW i \in Ids'
       PROVE  invoices'[i].prev < i /\ (invoices'[i].prev = 0 => i = 1)
    BY DEF ChainReachesTheFirst
  <2>1. CASE i \in Ids
    BY <2>1, <1>1 DEF IInv, ChainReachesTheFirst
  <2>2. CASE i = n
    <3>1. ASSUME Ids = {} PROVE n = 1
      <4>1. Len(invoices) # 0 => 1 \in Ids
        BY <1>0 DEF Ids
      <4>. QED
        BY <3>1, <4>1
    <3>2. invoices'[n].prev < n
      <4>1. invoices'[n].prev = 0 \/ invoices'[n].prev \in Ids
        BY <1>1
      <4>2. 0 < n
        BY <1>2
      <4>. QED
        BY <4>1, <4>2, <1>2
    <3>3. invoices'[n].prev = 0 => n = 1
      BY <3>1, <1>1
    <3>. QED
      BY <2>2, <3>2, <3>3
  <2>. QED
    BY <2>1, <2>2, <1>1
<1>. QED
  BY <1>10, <1>11, <1>14, <1>15, <1>16, <1>17, <1>18 DEF IInv

-----------------------------------------------------------------------------

LEMMA StepHolds == IInv /\ [Next]_vars => IInv'
<1>. SUFFICES ASSUME IInv, [Next]_vars PROVE IInv'
  OBVIOUS
<1>1. CASE Charging
  BY <1>1, ChargingKeeps
<1>2. CASE Pricing
  BY <1>2, PricingKeeps
<1>3. CASE Invoices
  BY <1>3, BeginningKeeps, TakeNumberKeeps, WriteKeeps
     DEF Series, Invoices, IssueScreen, FreeInvoiceScreen, RectifyScreen
<1>4. ASSUME NEW c \in Clerk, Rollback(c) PROVE IInv'
  BY <1>4, RollbackKeeps
<1>5. CASE UNCHANGED vars
  <2>1. UNCHANGED <<finished, price, extras, manual, charges, owed, counter, invoices, clock, job>>
    BY <1>5 DEF vars, amounts, sold
  <2>2. TypeOK' /\ Locks' /\ HasLast' /\ ChainReachesTheFirst'
    BY <2>1 DEF IInv, TypeOK, Locks, Numbered, HasLast, IsLast, ChainReachesTheFirst, Ids
  <2>3. \A c \in Clerk : StillHolds(job[c])'
    BY <2>1 DEF IInv, StillHolds, Total, InForce, Ids, Numbered
  <2>4. Gapless' /\ OneInForce'
    BY <2>1 DEF IInv, Gapless, OneInForce, InForce, Ids
  <2>. QED
    BY <2>2, <2>3, <2>4 DEF IInv
<1>. QED
  BY <1>1, <1>2, <1>3, <1>4, <1>5 DEF Next

LEMMA Invariance == Spec => []IInv
BY InitHolds, StepHolds, PTL DEF Spec

\* Every reachable state of the amounts and the ledger is well typed.
THEOREM InvoicingTypes == Spec => []TypeOK
<1>1. IInv => TypeOK
  BY DEF IInv
<1>. QED
  BY <1>1, Invariance, PTL

\* The numbers of every series have no gap and no repetition, whoever issues and
\* whatever fails: the row of the series is held from reading its counter on.
THEOREM NumbersHaveNoGaps == Spec => []Gapless
<1>1. IInv => Gapless
  BY DEF IInv
<1>. QED
  BY <1>1, Invariance, PTL

\* No reservation has two invoices in force and no invoice two rectifications.
THEOREM OneInvoiceInForce == Spec => []OneInForce
<1>1. IInv => OneInForce
  BY DEF IInv
<1>. QED
  BY <1>1, Invariance, PTL

\* Whatever the clocks of the transactions say, the chain leads from every
\* invoice back to the first one.
THEOREM ChainIsConnected == Spec => []ChainReachesTheFirst
<1>1. IInv => ChainReachesTheFirst
  BY DEF IInv
<1>. QED
  BY <1>1, Invariance, PTL

\* What is invoiced is what was owed when the invoice was written: the lock on
\* the reservation keeps the writers of its amounts away meanwhile.
THEOREM InvoicesMatch == Spec => InvoiceMatchesReservation
<1> DEFINE Matches ==
      \A c \in Clerk :
          LET r == job[c].res
          IN job[c].kind = "invoice" /\ invoices' # invoices /\ job'[c] # job[c] =>
               /\ job[c].total = Total(r)
               /\ owed[r] = charges[r]
<1>1. IInv => Matches
  BY DEF IInv, StillHolds
<1>. QED
  BY <1>1, Invariance, PTL DEF InvoiceMatchesReservation

\* Whoever changes a reservation, the price agreed for it goes only by the hand of a
\* clerk who was warned of it.
THEOREM AgreedPricesAreKept == Spec => AgreedPriceIsKept
<1> DEFINE Confirmed(r) == \E c \in Clerk : job[c] = Warning(r) /\ job'[c] = Idle
<1> DEFINE Kept == \A r \in Reservation : manual[r] /\ ~manual'[r] => Confirmed(r)
<1>1. ASSUME IInv, [Next]_vars PROVE Kept
  <2>1. ASSUME NEW c \in Clerk, NEW r \in Reservation, NEW p \in Prices, NEW q \in Nat,
               Sell(c, r, p, q)
        PROVE  Kept
    <3>1. /\ job' = [job EXCEPT ![c] = Idle] /\ manual' = [manual EXCEPT ![r] = FALSE]
          /\ manual[r] => job[c] = Warning(r)
      BY <2>1 DEF Sell, SellAt, Done
    <3>2. job'[c] = Idle /\ \A o \in Reservation : o # r => manual'[o] = manual[o]
      BY <3>1, <1>1 DEF IInv, TypeOK
    <3>. QED
      BY <3>1, <3>2
  <2>2. ASSUME NEW c \in Clerk, NEW r \in Reservation, NEW p \in Prices,
               SetManualPrice(c, r, p)
        PROVE  Kept
    <3>1. \A o \in Reservation : manual'[o] = manual[o] \/ manual'[o] = TRUE
      BY <2>2, <1>1 DEF SetManualPrice, SellAt, IInv, TypeOK
    <3>. QED
      BY <3>1
  <2>3. ASSUME UNCHANGED manual PROVE Kept
    BY <2>3
  <2>4. \A r \in Reservation : extras[r] \in Nat
    BY <1>1 DEF IInv, TypeOK
  <2>5. \A q \in 1 .. MaxQuantity : q \in Nat
    BY InvoicingAssumption
  <2> HIDE DEF Kept
  <2>6. CASE Charging
    BY <2>6, <2>3 DEF Charging, OpenCharge, SumCharges, CommitCharge, amounts, sold
  <2>7. ASSUME NEW c \in Clerk, AddExtraScreen(c) PROVE Kept
    BY <2>7, <2>1, <2>5 DEF AddExtraScreen, AddExtra
  <2>8. ASSUME NEW c \in Clerk, ExtraLineScreen(c) PROVE Kept
    BY <2>8, <2>1, <2>5 DEF ExtraLineScreen, RemoveExtra, SetExtraQuantity
  <2>9. ASSUME NEW c \in Clerk, RecalculateScreen(c) PROVE Kept
    BY <2>9, <2>1, <2>3, <2>4 DEF RecalculateScreen, RecalculatePrice, Warn, amounts, sold
  <2>10. ASSUME NEW c \in Clerk, ChangeScreen(c) PROVE Kept
    BY <2>10, <2>3 DEF ChangeScreen, OpenChange, CommitChange, amounts, sold
  <2>11. CASE Pricing
    BY <2>11, <2>2, <2>7, <2>8, <2>9, <2>10 DEF Pricing, ManualPriceScreen
  <2>12. CASE Invoices
    BY <2>12, <2>3 DEF Invoices, IssueScreen, FreeInvoiceScreen, RectifyScreen, BeginInvoice,
                       BeginFree, BeginRectify, Begin, TakeNumber, Write, amounts, sold
  <2>13. ASSUME NEW c \in Clerk, Rollback(c) PROVE Kept
    BY <2>13, <2>3 DEF Rollback, amounts, sold
  <2>14. CASE UNCHANGED vars
    BY <2>14, <2>3 DEF vars, amounts, sold
  <2>. QED
    BY <1>1, <2>6, <2>11, <2>12, <2>13, <2>14 DEF Next
<1>. QED
  BY <1>1, Invariance, PTL DEF AgreedPriceIsKept, Spec

-----------------------------------------------------------------------------
(* Sums over a set *)

\* g adds v up over every part of a set, whichever member is taken out first.
AddsUp(g, set, v) ==
    /\ g \in [SUBSET set -> Int] /\ g[{}] = 0
    /\ \A part \in SUBSET set : \A x \in part : g[part] = v[x] + g[part \ {x}]

\* Of some finite sets there is one with the fewest members.
LEMMA SmallestSet ==
    ASSUME NEW sets, sets # {}, \A s \in sets : IsFiniteSet(s)
    PROVE  \E s \in sets : \A t \in sets : ~ (Cardinality(t) < Cardinality(s))
<1> DEFINE sizes == {Cardinality(s) : s \in sets}
           R == OpToRel(<, Nat)
<1>1. \A s \in sets : Cardinality(s) \in Nat
    BY FS_CardinalityType
<1>2. sizes \subseteq Nat /\ sizes # {}
    BY <1>1
<1>3. \A x \in Nat, y \in Nat : y < x => <<y, x>> \in R
    BY DEF OpToRel
<1>4. IsWellFoundedOn(R, Nat)
    BY NatLessThanWellFounded
<1> HIDE DEF R, sizes
<1>5. PICK n \in sizes : \A m \in sizes : ~ (<<m, n>> \in R)
    BY <1>2, <1>4, WFMin
<1>6. PICK s \in sets : n = Cardinality(s)
    BY DEF sizes
<1>7. ASSUME NEW t \in sets, Cardinality(t) < Cardinality(s) PROVE FALSE
    <2>1. Cardinality(t) \in sizes
        BY DEF sizes
    <2>2. Cardinality(t) \in Nat /\ n \in Nat /\ Cardinality(t) < n
        BY <1>1, <1>6, <1>7
    <2> QED BY <1>3, <1>5, <2>1, <2>2
<1> QED BY <1>7

\* A sum over a set is a sum over the set without one member, and that member.
LEMMA OneMoreSum ==
    ASSUME NEW set, NEW x \in set, NEW v \in [set -> Int],
           NEW g, AddsUp(g, set \ {x}, v)
    PROVE  \E h : AddsUp(h, set, v)
<1> DEFINE h == [part \in SUBSET set |->
                    IF x \in part THEN v[x] + g[part \ {x}] ELSE g[part]]
<1>0. g \in [SUBSET (set \ {x}) -> Int] /\ g[{}] = 0
    BY DEF AddsUp
<1>1. \A part \in SUBSET set : part \ {x} \in SUBSET (set \ {x})
    OBVIOUS
<1>2. \A part \in SUBSET set : x \notin part => part \in SUBSET (set \ {x})
    OBVIOUS
<1>3. v[x] \in Int
    OBVIOUS
<1>4. h \in [SUBSET set -> Int]
    <2>1. ASSUME NEW part \in SUBSET set
          PROVE  (IF x \in part THEN v[x] + g[part \ {x}] ELSE g[part]) \in Int
        <3>1. g[part \ {x}] \in Int
            BY <1>0, <1>1
        <3>2. x \notin part => g[part] \in Int
            BY <1>0, <1>2
        <3> QED BY <1>3, <3>1, <3>2
    <2> QED BY <2>1
<1>5. h[{}] = 0
    BY <1>0
<1>6. ASSUME NEW part \in SUBSET set, NEW y \in part
      PROVE  h[part] = v[y] + h[part \ {y}]
    <2>1. part \ {y} \in SUBSET set /\ v[y] \in Int
        OBVIOUS
    <2>2. CASE y = x
        <3>1. x \notin part \ {x}
            OBVIOUS
        <3>2. h[part \ {x}] = g[part \ {x}] /\ h[part] = v[x] + g[part \ {x}]
            BY <2>1, <2>2, <3>1
        <3> HIDE DEF h
        <3> QED BY <2>2, <3>2
    <2>3. CASE y # x /\ x \in part
        <3>1. y \in part \ {x} /\ (part \ {x}) \ {y} = (part \ {y}) \ {x}
            BY <2>3
        <3>2. g[part \ {x}] = v[y] + g[(part \ {x}) \ {y}]
            BY <1>1, <3>1 DEF AddsUp
        <3>3. g[(part \ {y}) \ {x}] \in Int
            BY <1>0, <1>1, <2>1
        <3>4. h[part] = v[x] + g[part \ {x}] /\ h[part \ {y}] = v[x] + g[(part \ {y}) \ {x}]
            BY <2>1, <2>3
        <3>5. h[part] = v[x] + (v[y] + g[(part \ {y}) \ {x}])
            BY <3>1, <3>2, <3>4
        <3> HIDE DEF h
        <3> QED BY <1>3, <2>1, <3>3, <3>4, <3>5
    <2>4. CASE x \notin part
        <3>1. h[part] = g[part] /\ h[part \ {y}] = g[part \ {y}]
            BY <2>1, <2>4
        <3>2. g[part] = v[y] + g[part \ {y}]
            BY <1>2, <2>4 DEF AddsUp
        <3> QED BY <3>1, <3>2
    <2> QED BY <2>2, <2>3, <2>4
<1> HIDE DEF h
<1> QED BY <1>4, <1>5, <1>6 DEF AddsUp

\* The numbers of a finite set have a sum.
LEMMA SumExists ==
    ASSUME NEW set, IsFiniteSet(set), NEW v \in [set -> Int]
    PROVE  \E g : AddsUp(g, set, v)
<1> DEFINE bad == {part \in SUBSET set : ~ \E g : AddsUp(g, part, v)}
<1> SUFFICES ASSUME bad # {} PROVE FALSE
    OBVIOUS
<1>1. \A part \in SUBSET set : IsFiniteSet(part)
    BY FS_Subset
<1>2. PICK part \in bad : \A other \in bad : ~ (Cardinality(other) < Cardinality(part))
    <2>1. \A s \in bad : IsFiniteSet(s)
        BY <1>1
    <2> HIDE DEF bad
    <2> QED BY <2>1, SmallestSet
<1>3. part # {}
    <2>1. SUBSET {} = {{}}
        OBVIOUS
    <2>2. AddsUp([s \in SUBSET {} |-> 0], {}, v)
        BY <2>1 DEF AddsUp
    <2> QED BY <2>2
<1>4. PICK x \in part : TRUE
    BY <1>3
<1>5. Cardinality(part \ {x}) < Cardinality(part)
    BY <1>1, <1>4, FS_RemoveElement, FS_CardinalityType
<1>6. part \ {x} \in SUBSET set
    OBVIOUS
<1>7. part \ {x} \notin bad
    BY <1>2, <1>5
<1>8. PICK g : AddsUp(g, part \ {x}, v)
    BY <1>6, <1>7
<1>9. [y \in part |-> v[y]] \in [part -> Int]
    OBVIOUS
<1> DEFINE w == [y \in part |-> v[y]]
<1>10. AddsUp(g, part \ {x}, w)
    BY <1>8 DEF AddsUp
<1>11. \E h : AddsUp(h, part, w)
    <2> HIDE DEF w
    <2> QED BY <1>4, <1>9, <1>10, OneMoreSum DEF w
<1>12. PICK h : AddsUp(h, part, w)
    BY <1>11
<1>13. AddsUp(h, part, v)
    BY <1>12 DEF AddsUp
<1> QED BY <1>13

\* h adds v up too, over every part of a set by taking out some member.
Tallies(h, set, v) ==
    /\ h[{}] = 0
    /\ \A part \in SUBSET set : part # {} => \E x \in part : h[part] = v[x] + h[part \ {x}]

\* There is one sum.
LEMMA OneSum ==
    ASSUME NEW set, IsFiniteSet(set), NEW v, NEW g, AddsUp(g, set, v), NEW h, Tallies(h, set, v)
    PROVE  h[set] = g[set]
<1> DEFINE bad == {part \in SUBSET set : h[part] # g[part]}
<1> SUFFICES ASSUME bad # {} PROVE FALSE
    OBVIOUS
<1>1. \A part \in SUBSET set : IsFiniteSet(part)
    BY FS_Subset
<1>2. PICK part \in bad : \A other \in bad : ~ (Cardinality(other) < Cardinality(part))
    <2>1. \A s \in bad : IsFiniteSet(s)
        BY <1>1
    <2> HIDE DEF bad
    <2> QED BY <2>1, SmallestSet
<1>3. part # {} /\ part \in SUBSET set
    BY DEF AddsUp, Tallies
<1>4. PICK x \in part : h[part] = v[x] + h[part \ {x}]
    BY <1>3 DEF Tallies
<1>5. Cardinality(part \ {x}) < Cardinality(part)
    BY <1>1, <1>3, <1>4, FS_RemoveElement, FS_CardinalityType
<1>6. part \ {x} \in SUBSET set
    BY <1>3
<1>7. h[part \ {x}] = g[part \ {x}]
    BY <1>2, <1>5, <1>6
<1>8. g[part] = v[x] + g[part \ {x}]
    BY <1>3, <1>4 DEF AddsUp
<1> QED BY <1>4, <1>7, <1>8

\* The sum of the community modules is that sum.
LEMMA SumIsTheSum ==
    ASSUME NEW set, IsFiniteSet(set), NEW v \in [set -> Int], NEW g, AddsUp(g, set, v)
    PROVE  SumFunction(v) = g[set]
<1> DEFINE Any(part) == CHOOSE x \in part : TRUE
           Folds(f) == f = [part \in SUBSET set |->
                               IF part = {} THEN 0 ELSE v[Any(part)] + f[part \ {Any(part)}]]
           all == CHOOSE f : Folds(f)
<1>1. SumFunction(v) = all[set]
    BY DEF SumFunction, SumFunctionOnSet, FoldFunctionOnSet, MapThenFoldSet
<1>2. \A part : part # {} => Any(part) \in part
    OBVIOUS
<1> HIDE DEF Any
<1>3. Folds(g)
    <2>1. ASSUME NEW part \in SUBSET set
          PROVE  g[part] = IF part = {} THEN 0 ELSE v[Any(part)] + g[part \ {Any(part)}]
        BY <1>2 DEF AddsUp
    <2>2. g = [part \in SUBSET set |-> g[part]]
        BY DEF AddsUp
    <2> QED BY <2>1, <2>2
<1>4. Folds(all)
    BY <1>3
<1> HIDE DEF all
<1>5. all[{}] = 0
    BY <1>4
<1>6. \A part \in SUBSET set : part # {} => \E x \in part : all[part] = v[x] + all[part \ {x}]
    BY <1>2, <1>4
<1> HIDE DEF Folds
<1>7. Tallies(all, set, v)
    BY <1>5, <1>6 DEF Tallies
<1>8. all[set] = g[set]
    BY <1>7, OneSum
<1> QED BY <1>1, <1>8

\* The sum of a part of a set.
LEMMA SumOfPart ==
    ASSUME NEW set, IsFiniteSet(set), NEW v \in [set -> Int], NEW g, AddsUp(g, set, v),
           NEW part \in SUBSET set, NEW w \in [part -> Int], \A x \in part : w[x] = v[x]
    PROVE  SumFunction(w) = g[part]
<1> DEFINE h == [some \in SUBSET part |-> g[some]]
<1>1. IsFiniteSet(part)
    BY FS_Subset
<1>2. \A some \in SUBSET part : some \in SUBSET set
    OBVIOUS
<1>3. AddsUp(h, part, w)
    <2>1. h \in [SUBSET part -> Int] /\ h[{}] = 0
        BY <1>2 DEF AddsUp
    <2>2. ASSUME NEW some \in SUBSET part, NEW x \in some PROVE h[some] = w[x] + h[some \ {x}]
        <3>1. some \ {x} \in SUBSET part
            OBVIOUS
        <3>2. h[some] = g[some] /\ h[some \ {x}] = g[some \ {x}]
            BY <3>1
        <3>3. g[some] = v[x] + g[some \ {x}]
            BY <1>2 DEF AddsUp
        <3> QED BY <3>2, <3>3
    <2> HIDE DEF h
    <2> QED BY <2>1, <2>2 DEF AddsUp
<1>4. SumFunction(w) = h[part]
    <2> HIDE DEF h
    <2> QED BY <1>1, <1>3, SumIsTheSum
<1> QED BY <1>4

\* The sums of two parts that have nothing in common.
LEMMA PartsAddUp ==
    ASSUME NEW set, IsFiniteSet(set), NEW v \in [set -> Int], NEW g, AddsUp(g, set, v),
           NEW a \in SUBSET set, NEW b \in SUBSET set, a \cap b = {}
    PROVE  g[a \cup b] = g[a] + g[b]
<1> DEFINE bad == {part \in SUBSET b : g[a \cup part] # g[a] + g[part]}
<1> SUFFICES ASSUME bad # {} PROVE FALSE
    OBVIOUS
<1>1. \A part \in SUBSET b : IsFiniteSet(part)
    BY FS_Subset
<1>2. PICK part \in bad : \A other \in bad : ~ (Cardinality(other) < Cardinality(part))
    <2>1. \A s \in bad : IsFiniteSet(s)
        BY <1>1
    <2> HIDE DEF bad
    <2> QED BY <2>1, SmallestSet
<1>3. g[a] \in Int /\ g[{}] = 0
    BY DEF AddsUp
<1>4. part # {}
    <2>1. a \cup {} = a
        OBVIOUS
    <2>2. g[a \cup part] # g[a] + g[part]
        OBVIOUS
    <2> HIDE DEF bad
    <2>3. CASE part = {}
        <3>1. g[a] # g[a] + g[{}]
            BY <2>1, <2>2, <2>3
        <3> QED BY <1>3, <3>1
    <2> QED BY <2>3
<1>5. PICK x \in part : TRUE
    BY <1>4
<1>6. part \ {x} \in SUBSET b
    OBVIOUS
<1>7. Cardinality(part \ {x}) < Cardinality(part)
    BY <1>1, <1>5, FS_RemoveElement, FS_CardinalityType
<1>8. g[a \cup (part \ {x})] = g[a] + g[part \ {x}]
    BY <1>2, <1>6, <1>7
<1>9. /\ part \in SUBSET set /\ a \cup part \in SUBSET set /\ x \in a \cup part
      /\ (a \cup part) \ {x} = a \cup (part \ {x})
    OBVIOUS
<1>10. g[part] = v[x] + g[part \ {x}] /\ g[a \cup part] = v[x] + g[a \cup (part \ {x})]
    <2>1. \A some \in SUBSET set : \A y \in some : g[some] = v[y] + g[some \ {y}]
        BY DEF AddsUp
    <2>2. g[part] = v[x] + g[part \ {x}]
        BY ONLY <1>5, <1>9, <2>1
    <2>3. g[a \cup part] = v[x] + g[(a \cup part) \ {x}]
        BY ONLY <1>9, <2>1
    <2> QED BY <1>9, <2>2, <2>3
<1>11. g[part \ {x}] \in Int /\ v[x] \in Int
    BY <1>9 DEF AddsUp
<1> QED BY <1>3, <1>8, <1>10, <1>11

\* w has for each key the sum of those that have it.
SumsGroups(w, keys, g, set, key) ==
    /\ key \in [set -> keys] /\ w \in [keys -> Int]
    /\ \A k \in keys : w[k] = g[{x \in set : key[x] = k}]

\* The sum of the groups of a set, each by its sum, is the sum of the set.
LEMMA GroupsAddUp ==
    ASSUME NEW set, IsFiniteSet(set), NEW v \in [set -> Int], NEW g, AddsUp(g, set, v),
           NEW keys, IsFiniteSet(keys), NEW key, NEW w, SumsGroups(w, keys, g, set, key)
    PROVE  SumFunction(w) = g[set]
<1> DEFINE Having(some) == {x \in set : key[x] \in some}
           h == [some \in SUBSET keys |-> g[Having(some)]]
<1>0. /\ key \in [set -> keys] /\ w \in [keys -> Int]
      /\ \A k \in keys : w[k] = g[{x \in set : key[x] = k}]
    BY DEF SumsGroups
<1>1. \A some \in SUBSET keys : Having(some) \in SUBSET set
    OBVIOUS
<1>2. h \in [SUBSET keys -> Int]
    BY <1>1 DEF AddsUp
<1>3. h[{}] = 0
    <2>1. Having({}) = {}
        OBVIOUS
    <2> QED BY <2>1 DEF AddsUp
<1>4. ASSUME NEW some \in SUBSET keys, NEW k \in some PROVE h[some] = w[k] + h[some \ {k}]
    <2> DEFINE a == {x \in set : key[x] = k}
               b == Having(some \ {k})
    <2>1. a \in SUBSET set /\ b \in SUBSET set /\ a \cap b = {} /\ Having(some) = a \cup b
        OBVIOUS
    <2>2. h[some] = g[Having(some)] /\ h[some \ {k}] = g[b] /\ w[k] = g[a]
        BY <1>0
    <2> HIDE DEF a, b, h, Having
    <2>3. a \in SUBSET set /\ b \in SUBSET set /\ a \cap b = {}
        BY <2>1
    <2>4. g[a \cup b] = g[a] + g[b]
        BY ONLY IsFiniteSet(set), v \in [set -> Int], AddsUp(g, set, v), <2>3, PartsAddUp
    <2> QED BY <2>1, <2>2, <2>4
<1>5. Having(keys) = set /\ h[keys] = g[Having(keys)]
    BY <1>0
<1> HIDE DEF h, Having
<1>6. AddsUp(h, keys, w)
    BY <1>2, <1>3, <1>4 DEF AddsUp
<1>7. SumFunction(w) = h[keys]
    BY <1>0, <1>6, SumIsTheSum
<1> QED BY <1>5, <1>7

-----------------------------------------------------------------------------
(* What each car has earned *)

\* A day that has started counts as a day, a day that has not does not, and there is always
\* one (rented_days).
THEOREM StartedDaysCount ==
    ASSUME NEW r, r.pickup \in Int, r.return \in Int, r.pickup < r.return
    PROVE  /\ RentedDays(r) \in Nat \ {0}
           /\ (RentedDays(r) - 1) * 24 < r.return - r.pickup
           /\ r.return - r.pickup <= RentedDays(r) * 24
<1> DEFINE hours == r.return - r.pickup
           days == -((-hours) \div 24)
<1>1. hours \in Nat \ {0}
    OBVIOUS
<1>2. RentedDays(r) = Bigger(1, days)
    BY DEF RentedDays
<1> HIDE DEF hours
<1>3. (-hours) \div 24 \in Int /\ 24 * ((-hours) \div 24) <= -hours /\ -hours < 24 * ((-hours) \div 24) + 24
    BY <1>1
<1>4. days \in Int /\ (days - 1) * 24 < hours /\ hours <= days * 24
    BY <1>1, <1>3
<1>5. days >= 1
    BY <1>1, <1>4
<1> HIDE DEF days
<1>6. RentedDays(r) = days
    BY <1>2, <1>4, <1>5 DEF Bigger
<1> QED BY <1>4, <1>5, <1>6 DEF hours

\* Counting is adding ones.
LEMMA CountingAddsUp ==
    ASSUME NEW set, IsFiniteSet(set)
    PROVE  AddsUp([part \in SUBSET set |-> Cardinality(part)], set, [x \in set |-> 1])
<1> DEFINE g == [part \in SUBSET set |-> Cardinality(part)]
           v == [x \in set |-> 1]
<1>1. \A part \in SUBSET set : IsFiniteSet(part) /\ Cardinality(part) \in Nat
    BY FS_Subset, FS_CardinalityType
<1>2. g \in [SUBSET set -> Int] /\ g[{}] = 0
    BY <1>1, FS_EmptySet
<1>3. ASSUME NEW part \in SUBSET set, NEW x \in part PROVE g[part] = v[x] + g[part \ {x}]
    <2>1. Cardinality(part \ {x}) = Cardinality(part) - 1
        BY <1>1, FS_RemoveElement
    <2>2. g[part] = Cardinality(part) /\ g[part \ {x}] = Cardinality(part \ {x}) /\ v[x] = 1
        OBVIOUS
    <2> QED BY <1>1, <2>1, <2>2
<1> HIDE DEF g, v
<1>4. AddsUp(g, set, v)
    BY <1>2, <1>3 DEF AddsUp
<1> QED BY <1>4 DEF g, v

\* A rental is in the row of its car, and in no other.
LEMMA RowsAreOfCars ==
    ASSUME NEW counted, NEW r \in counted, NEW s \in counted
    PROVE  VehicleRevenue(counted, s.vehicle) = VehicleRevenue(counted, r.vehicle)
              <=> s.vehicle = r.vehicle
<1>1. \A v : VehicleRevenue(counted, v).vehicle = v
    BY DEF VehicleRevenue
<1> QED BY <1>1

\* There are as many rows as cars.
LEMMA OneRowPerCar ==
    ASSUME NEW counted, IsFiniteSet(counted)
    PROVE  /\ IsFiniteSet(RevenueRows(counted))
           /\ Cardinality(RevenueRows(counted)) = Cardinality({r.vehicle : r \in counted})
<1> DEFINE cars == {r.vehicle : r \in counted}
           rows == RevenueRows(counted)
           row == [v \in cars |-> VehicleRevenue(counted, v)]
           car == [r \in counted |-> r.vehicle]
<1>1. IsFiniteSet(cars)
    <2>1. car \in Surjection(counted, cars)
        BY DEF Surjection
    <2> HIDE DEF car, cars
    <2> QED BY <2>1, FS_Surjection
<1>2. row \in Surjection(cars, rows)
    <2>1. rows = {VehicleRevenue(counted, v) : v \in cars}
        BY DEF RevenueRows
    <2> QED BY <2>1 DEF Surjection
<1>3. row \in Injection(cars, rows)
    <2>1. \A v \in cars : row[v].vehicle = v
        BY DEF VehicleRevenue
    <2>2. row \in [cars -> rows]
        BY <1>2 DEF Surjection
    <2> HIDE DEF row, rows, cars
    <2> QED BY <2>1, <2>2 DEF Injection, IsInjective
<1> HIDE DEF row, rows, cars
<1>4. IsFiniteSet(rows) /\ Cardinality(rows) = Cardinality(cars)
    BY <1>1, <1>2, <1>3, FS_Surjection
<1> QED BY <1>4 DEF rows, cars

\* A column that has, for each car, the sum of its rentals adds up to that of all of them.
LEMMA ColumnAddsUp ==
    ASSUME NEW counted, IsFiniteSet(counted), NEW v \in [counted -> Int], NEW g, AddsUp(g, counted, v),
           NEW column, column = [row \in RevenueRows(counted) |-> column[row]],
           \A r \in counted : column[VehicleRevenue(counted, r.vehicle)]
                                 = g[{s \in counted : s.vehicle = r.vehicle}]
    PROVE  SumFunction(column) = g[counted]
<1> DEFINE keys == RevenueRows(counted)
           key == [r \in counted |-> VehicleRevenue(counted, r.vehicle)]
<1>1. IsFiniteSet(keys)
    BY OneRowPerCar
<1>2. key \in [counted -> keys]
    BY DEF RevenueRows
<1>3. \A k \in keys : \E r \in counted : k = key[r] /\ k = VehicleRevenue(counted, r.vehicle)
    BY DEF RevenueRows
<1>4. ASSUME NEW k \in keys PROVE column[k] = g[{x \in counted : key[x] = k}] /\ column[k] \in Int
    <2>1. PICK r \in counted : k = VehicleRevenue(counted, r.vehicle)
        BY <1>3
    <2>2. {x \in counted : key[x] = k} = {s \in counted : s.vehicle = r.vehicle}
        BY <2>1, RowsAreOfCars
    <2>3. g[{s \in counted : s.vehicle = r.vehicle}] \in Int
        BY DEF AddsUp
    <2> QED BY <2>1, <2>2, <2>3
<1> HIDE DEF keys, key
<1>5. column \in [keys -> Int]
    BY <1>4 DEF keys
<1>6. SumsGroups(column, keys, g, counted, key)
    BY <1>2, <1>4, <1>5 DEF SumsGroups
<1> QED
    BY ONLY IsFiniteSet(counted), v \in [counted -> Int], AddsUp(g, counted, v),
            <1>1, <1>6, GroupsAddUp

\* The head of the report of what the cars earn adds up to the rentals it is about, each of
\* them counted once, by whatever cars they were made (revenue_rows, summarize).
THEOREM RevenueAddsUp ==
    ASSUME NEW counted, IsFiniteSet(counted),
           \A r \in counted : r.pickup \in Int /\ r.return \in Int /\ r.total \in Int
    PROVE  LET summary == RevenueSummary(RevenueRows(counted))
           IN /\ summary.vehicles = Cardinality({r.vehicle : r \in counted})
              /\ summary.reservations = Cardinality(counted)
              /\ summary.days = SumFunction([r \in counted |-> RentedDays(r)])
              /\ summary.revenue = SumFunction([r \in counted |-> r.total])
<1> DEFINE rows == RevenueRows(counted)
           Mine(r) == {s \in counted : s.vehicle = r.vehicle}
           Row(r) == VehicleRevenue(counted, r.vehicle)
<1>1. \A r \in counted :
         /\ Row(r) \in rows
         /\ Row(r).reservations = Cardinality(Mine(r))
         /\ Row(r).days = SumFunction([s \in Mine(r) |-> RentedDays(s)])
         /\ Row(r).revenue = SumFunction([s \in Mine(r) |-> s.total])
    BY DEF RevenueRows, VehicleRevenue
<1>2. SumFunction([row \in rows |-> row.reservations]) = Cardinality(counted)
    <2> DEFINE g == [part \in SUBSET counted |-> Cardinality(part)]
               v == [r \in counted |-> 1]
               column == [row \in rows |-> row.reservations]
    <2>1. AddsUp(g, counted, v)
        BY CountingAddsUp
    <2>2. v \in [counted -> Int]
        OBVIOUS
    <2>3. \A r \in counted : column[Row(r)] = g[Mine(r)]
        BY <1>1
    <2>4. column = [row \in rows |-> column[row]]
        OBVIOUS
    <2>5. g[counted] = Cardinality(counted)
        OBVIOUS
    <2> HIDE DEF g, v, column
    <2>6. SumFunction(column) = g[counted]
        BY <2>1, <2>2, <2>3, <2>4, ColumnAddsUp
    <2> QED BY <2>5, <2>6 DEF column
<1>3. SumFunction([row \in rows |-> row.days]) = SumFunction([r \in counted |-> RentedDays(r)])
    <2> DEFINE v == [r \in counted |-> RentedDays(r)]
               column == [row \in rows |-> row.days]
    <2>1. v \in [counted -> Int]
        BY DEF RentedDays, Bigger
    <2>2. PICK g : AddsUp(g, counted, v)
        <3> HIDE DEF v
        <3> QED BY <2>1, SumExists
    <2>3. ASSUME NEW r \in counted PROVE column[Row(r)] = g[Mine(r)]
        <3> DEFINE w == [s \in Mine(r) |-> RentedDays(s)]
        <3>1. /\ Mine(r) \in SUBSET counted /\ w \in [Mine(r) -> Int]
              /\ \A s \in Mine(r) : w[s] = v[s]
            BY DEF RentedDays, Bigger
        <3>2. column[Row(r)] = SumFunction(w)
            BY <1>1
        <3> HIDE DEF v, w, Mine
        <3>3. SumFunction(w) = g[Mine(r)]
            BY <2>1, <2>2, <3>1, SumOfPart
        <3> QED BY <3>2, <3>3
    <2>4. column = [row \in rows |-> column[row]]
        OBVIOUS
    <2> HIDE DEF v, column
    <2>5. SumFunction(column) = g[counted]
        BY <2>1, <2>2, <2>3, <2>4, ColumnAddsUp
    <2>6. SumFunction(v) = g[counted]
        BY <2>1, <2>2, SumIsTheSum
    <2> QED BY <2>5, <2>6 DEF column, v
<1>4. SumFunction([row \in rows |-> row.revenue]) = SumFunction([r \in counted |-> r.total])
    <2> DEFINE v == [r \in counted |-> r.total]
               column == [row \in rows |-> row.revenue]
    <2>1. v \in [counted -> Int]
        OBVIOUS
    <2>2. PICK g : AddsUp(g, counted, v)
        <3> HIDE DEF v
        <3> QED BY <2>1, SumExists
    <2>3. ASSUME NEW r \in counted PROVE column[Row(r)] = g[Mine(r)]
        <3> DEFINE w == [s \in Mine(r) |-> s.total]
        <3>1. /\ Mine(r) \in SUBSET counted /\ w \in [Mine(r) -> Int]
              /\ \A s \in Mine(r) : w[s] = v[s]
            OBVIOUS
        <3>2. column[Row(r)] = SumFunction(w)
            BY <1>1
        <3> HIDE DEF v, w, Mine
        <3>3. SumFunction(w) = g[Mine(r)]
            BY <2>1, <2>2, <3>1, SumOfPart
        <3> QED BY <3>2, <3>3
    <2>4. column = [row \in rows |-> column[row]]
        OBVIOUS
    <2> HIDE DEF v, column
    <2>5. SumFunction(column) = g[counted]
        BY <2>1, <2>2, <2>3, <2>4, ColumnAddsUp
    <2>6. SumFunction(v) = g[counted]
        BY <2>1, <2>2, SumIsTheSum
    <2> QED BY <2>5, <2>6 DEF column, v
<1> QED BY <1>2, <1>3, <1>4, OneRowPerCar DEF RevenueSummary

-----------------------------------------------------------------------------
(* How much the fleet is used *)

\* The months from one to another, in order.
Calendar(first, last) ==
    /\ first \in Int /\ last \in Int /\ first < last
    /\ FirstDay \in [first .. last -> Int]
    /\ \A m \in first .. last, n \in first .. last : m < n => FirstDay[m] < FirstDay[n]

IsIn(day, m) == FirstDay[m] <= day /\ day < FirstDay[m + 1]

\* Every day is in a month.
LEMMA SomeMonth ==
    ASSUME NEW first, NEW last, Calendar(first, last), NEW day \in Int,
           FirstDay[first] <= day, day < FirstDay[last]
    PROVE  \E m \in first .. (last - 1) : IsIn(day, m)
<1> DEFINE later == {n \in Nat : first + n \in first .. last /\ day < FirstDay[first + n]}
           R == OpToRel(<, Nat)
<1>1. /\ first \in Int /\ last \in Int /\ first < last
      /\ \A m \in first .. last : FirstDay[m] \in Int
    BY DEF Calendar
<1>2. last - first \in later
    <2>1. last - first \in Nat /\ first + (last - first) = last
        BY <1>1
    <2> QED BY <1>1, <2>1
<1>3. \A x \in Nat, y \in Nat : y < x => <<y, x>> \in R
    BY DEF OpToRel
<1>4. IsWellFoundedOn(R, Nat)
    BY NatLessThanWellFounded
<1>5. later \in SUBSET Nat
    OBVIOUS
<1> HIDE DEF R
<1>6. PICK n \in later : \A k \in later : ~ (<<k, n>> \in R)
    <2> HIDE DEF later
    <2> QED BY <1>2, <1>4, <1>5, WFMin
<1>7. n \in Nat /\ first + n \in first .. last /\ day < FirstDay[first + n]
    OBVIOUS
<1>8. n # 0
    BY <1>1, <1>7
<1>9. n - 1 \in Nat /\ first + (n - 1) \in first .. (last - 1) /\ first + (n - 1) \in first .. last
    BY <1>1, <1>7, <1>8
<1>10. n - 1 \notin later
    <2>1. <<n - 1, n>> \in R
        BY <1>3, <1>7, <1>9
    <2> QED BY <1>6, <2>1
<1>11. FirstDay[first + (n - 1)] <= day
    BY <1>1, <1>9, <1>10
<1>12. (first + (n - 1)) + 1 = first + n
    BY <1>1, <1>7
<1> QED BY <1>7, <1>9, <1>11, <1>12 DEF IsIn

\* And in no other.
LEMMA OneMonth ==
    ASSUME NEW first, NEW last, Calendar(first, last), NEW day \in Int,
           NEW m \in first .. (last - 1), IsIn(day, m)
    PROVE  MonthOf(day) = m
<1> DEFINE Fits(n) == FirstDay[n] <= day /\ (n + 1 \in DOMAIN FirstDay => day < FirstDay[n + 1])
<1>1. /\ first \in Int /\ last \in Int /\ first < last /\ DOMAIN FirstDay = first .. last
      /\ \A n \in first .. last : FirstDay[n] \in Int
      /\ \A k \in first .. last, n \in first .. last : k < n => FirstDay[k] < FirstDay[n]
    BY DEF Calendar
<1>2. m \in DOMAIN FirstDay /\ m + 1 \in DOMAIN FirstDay /\ m \in Int
    BY <1>1
<1>3. Fits(m)
    BY <1>2 DEF IsIn
<1>4. ASSUME NEW n \in DOMAIN FirstDay, Fits(n) PROVE n = m
    <2>1. n \in first .. last /\ n \in Int
        BY <1>1
    <2>2. CASE n > m
        <3>1. m + 1 <= n
            BY <1>2, <2>1, <2>2
        <3>2. FirstDay[m + 1] <= FirstDay[n]
            <4>1. CASE m + 1 = n
                BY <1>1, <1>2, <2>1, <4>1
            <4>2. CASE m + 1 < n
                BY <1>1, <1>2, <2>1, <4>2
            <4> QED BY <1>2, <2>1, <3>1, <4>1, <4>2
        <3>3. day < FirstDay[m + 1] /\ FirstDay[n] <= day
            BY <1>4 DEF IsIn
        <3> QED BY <1>1, <1>2, <2>1, <3>2, <3>3
    <2>3. CASE n < m
        <3>1. n + 1 \in first .. last /\ n + 1 <= m
            BY <1>1, <1>2, <2>1, <2>3
        <3>2. FirstDay[n + 1] <= FirstDay[m]
            <4>1. CASE n + 1 = m
                BY <1>1, <1>2, <3>1, <4>1
            <4>2. CASE n + 1 < m
                BY <1>1, <1>2, <3>1, <4>2
            <4> QED BY <1>2, <3>1, <4>1, <4>2
        <3>3. day < FirstDay[n + 1] /\ FirstDay[m] <= day
            BY <1>1, <1>4, <3>1 DEF IsIn
        <3> QED BY <1>1, <1>2, <3>1, <3>2, <3>3
    <2> QED BY <1>2, <2>1, <2>2, <2>3
<1>5. MonthOf(day) = CHOOSE n \in DOMAIN FirstDay : Fits(n)
    BY DEF MonthOf
<1> HIDE DEF Fits
<1> QED BY <1>2, <1>3, <1>4, <1>5

LEMMA MonthOfADay ==
    ASSUME NEW first, NEW last, Calendar(first, last), NEW day \in Int,
           FirstDay[first] <= day, day < FirstDay[last]
    PROVE  MonthOf(day) \in first .. (last - 1) /\ IsIn(day, MonthOf(day))
<1>1. PICK m \in first .. (last - 1) : IsIn(day, m)
    BY SomeMonth
<1>2. MonthOf(day) = m
    BY <1>1, OneMonth
<1> QED BY <1>1, <1>2

\* A period, inside the calendar.
Period(first, last) ==
    {p \in [id : Int, from : Int, to : Int] :
        FirstDay[first] <= p.from /\ p.from <= p.to /\ p.to < FirstDay[last]}
Length(p) == p.to - p.from + 1
Share(p, m) == Bigger(Overlap(p, m), 0)
DaysOfMonths(p, months) == {day \in p.from .. p.to : MonthOf(day) \in months}

\* The share of a month is the days of the period that are in the month.
LEMMA SharesAreDays ==
    ASSUME NEW first, NEW last, Calendar(first, last), NEW p \in Period(first, last),
           NEW m \in first .. (last - 1)
    PROVE  /\ IsFiniteSet(DaysOfMonths(p, {m}))
           /\ Share(p, m) = Cardinality(DaysOfMonths(p, {m}))
           /\ Share(p, m) \in 0 .. DaysIn(m)
           /\ Share(p, m) = 0 <=> FirstDay[m + 1] <= p.from \/ p.to < FirstDay[m]
<1> DEFINE lo == Bigger(p.from, FirstDay[m])
           hi == Lesser(p.to, FirstDay[m + 1] - 1)
<1>1. /\ first \in Int /\ last \in Int /\ first < last
      /\ \A n \in first .. last : FirstDay[n] \in Int
      /\ \A k \in first .. last, n \in first .. last : k < n => FirstDay[k] < FirstDay[n]
    BY DEF Calendar
<1>2. /\ p.from \in Int /\ p.to \in Int /\ FirstDay[first] <= p.from /\ p.from <= p.to
      /\ p.to < FirstDay[last]
    BY DEF Period
<1>3. /\ m \in first .. last /\ m + 1 \in first .. last /\ m \in Int
      /\ FirstDay[m] \in Int /\ FirstDay[m + 1] \in Int /\ FirstDay[m] < FirstDay[m + 1]
    BY <1>1
<1>4. ASSUME NEW day \in p.from .. p.to PROVE MonthOf(day) = m <=> IsIn(day, m)
    <2>1. day \in Int /\ FirstDay[first] <= day /\ day < FirstDay[last]
        <3>1. first \in first .. last /\ last \in first .. last
            BY <1>1
        <3> QED BY <1>1, <1>2, <3>1
    <2> QED BY <2>1, OneMonth, MonthOfADay
<1>5. lo \in Int /\ hi \in Int
    BY <1>2, <1>3 DEF Bigger, Lesser
<1>6. DaysOfMonths(p, {m}) = lo .. hi
    <2>1. DaysOfMonths(p, {m}) = {day \in p.from .. p.to : IsIn(day, m)}
        BY <1>4 DEF DaysOfMonths
    <2>2. {day \in p.from .. p.to : IsIn(day, m)} = lo .. hi
        BY <1>2, <1>3 DEF IsIn, Bigger, Lesser
    <2> QED BY <2>1, <2>2
<1>7. Share(p, m) = IF lo > hi THEN 0 ELSE hi - lo + 1
    <2>1. Overlap(p, m) = hi - lo + 1
        BY DEF Overlap
    <2> HIDE DEF lo, hi
    <2> QED BY <1>5, <2>1 DEF Share, Bigger
<1>8. IsFiniteSet(lo .. hi) /\ Cardinality(lo .. hi) = IF lo > hi THEN 0 ELSE hi - lo + 1
    <2> HIDE DEF lo, hi
    <2> QED BY <1>5, FS_Interval
<1>9. Share(p, m) \in 0 .. DaysIn(m)
    BY <1>2, <1>3, <1>7 DEF DaysIn, Bigger, Lesser
<1>10. Share(p, m) = 0 <=> FirstDay[m + 1] <= p.from \/ p.to < FirstDay[m]
    BY <1>2, <1>3, <1>7 DEF Bigger, Lesser
<1> QED BY <1>6, <1>7, <1>8, <1>9, <1>10

\* A sum of sums is the sum of both.
LEMMA SumOfSums ==
    ASSUME NEW set, IsFiniteSet(set), NEW v \in [set -> Int], NEW w \in [set -> Int]
    PROVE  SumFunction([x \in set |-> v[x] + w[x]]) = SumFunction(v) + SumFunction(w)
<1>1. PICK g : AddsUp(g, set, v)
    BY SumExists
<1>2. PICK h : AddsUp(h, set, w)
    BY SumExists
<1> DEFINE both == [x \in set |-> v[x] + w[x]]
           f == [part \in SUBSET set |-> g[part] + h[part]]
<1>3. AddsUp(f, set, both)
    <2>1. \A part \in SUBSET set : g[part] \in Int /\ h[part] \in Int
        BY <1>1, <1>2 DEF AddsUp
    <2>2. f \in [SUBSET set -> Int] /\ f[{}] = 0
        BY <1>1, <1>2, <2>1 DEF AddsUp
    <2>3. ASSUME NEW part \in SUBSET set, NEW x \in part PROVE f[part] = both[x] + f[part \ {x}]
        <3>1. part \ {x} \in SUBSET set /\ x \in set
            OBVIOUS
        <3>2. g[part] = v[x] + g[part \ {x}] /\ h[part] = w[x] + h[part \ {x}]
            BY <1>1, <1>2 DEF AddsUp
        <3>3. /\ f[part] = g[part] + h[part] /\ f[part \ {x}] = g[part \ {x}] + h[part \ {x}]
              /\ both[x] = v[x] + w[x] /\ v[x] \in Int /\ w[x] \in Int
            BY <3>1
        <3> HIDE DEF f, both
        <3> QED BY <2>1, <3>1, <3>2, <3>3
    <2> HIDE DEF f, both
    <2> QED BY <2>2, <2>3 DEF AddsUp
<1>4. both \in [set -> Int] /\ f[set] = g[set] + h[set]
    OBVIOUS
<1> HIDE DEF both, f
<1>5. SumFunction(both) = f[set]
    BY <1>3, <1>4, SumIsTheSum
<1>6. SumFunction(v) = g[set]
    BY <1>1, SumIsTheSum
<1>7. SumFunction(w) = h[set]
    BY <1>2, SumIsTheSum
<1> QED BY <1>4, <1>5, <1>6, <1>7 DEF both

\* A sum of zeros.
LEMMA SumOfZeros ==
    ASSUME NEW set, IsFiniteSet(set)
    PROVE  SumFunction([x \in set |-> 0]) = 0
<1> DEFINE v == [x \in set |-> 0]
           g == [part \in SUBSET set |-> 0]
<1>1. AddsUp(g, set, v)
    BY DEF AddsUp
<1>2. v \in [set -> Int] /\ g[set] = 0
    OBVIOUS
<1> HIDE DEF v, g
<1>3. SumFunction(v) = 0
    BY <1>1, <1>2, SumIsTheSum
<1> QED BY <1>3 DEF v

\* The shares of some months are the days of the period that are in them.
LEMMA SharesAddUp ==
    ASSUME NEW first, NEW last, Calendar(first, last), NEW p \in Period(first, last),
           NEW months \in SUBSET (first .. (last - 1))
    PROVE  /\ [m \in months |-> Share(p, m)] \in [months -> Int]
           /\ SumFunction([m \in months |-> Share(p, m)]) = Cardinality(DaysOfMonths(p, months))
<1> DEFINE v == [m \in months |-> Share(p, m)]
           g == [part \in SUBSET months |-> Cardinality(DaysOfMonths(p, part))]
<1>0. IsFiniteSet(months)
    <2>1. first \in Int /\ last - 1 \in Int
        BY DEF Calendar
    <2> QED BY <2>1, FS_Interval, FS_Subset
<1>1. \A part : IsFiniteSet(DaysOfMonths(p, part)) /\ Cardinality(DaysOfMonths(p, part)) \in Nat
    <2> SUFFICES ASSUME NEW part
                 PROVE  /\ IsFiniteSet(DaysOfMonths(p, part))
                        /\ Cardinality(DaysOfMonths(p, part)) \in Nat
        OBVIOUS
    <2>1. p.from \in Int /\ p.to \in Int
        BY DEF Period
    <2>2. DaysOfMonths(p, part) \in SUBSET (p.from .. p.to)
        BY DEF DaysOfMonths
    <2> QED BY <2>1, <2>2, FS_Interval, FS_Subset, FS_CardinalityType
<1>2. \A m \in months : Share(p, m) = Cardinality(DaysOfMonths(p, {m}))
    BY SharesAreDays
<1>3. v \in [months -> Int]
    <2>1. ASSUME NEW m \in months PROVE Share(p, m) \in Int
        <3>1. Cardinality(DaysOfMonths(p, {m})) \in Nat
            BY <1>1
        <3> QED BY <1>2, <3>1
    <2> QED BY <2>1
<1>4. g \in [SUBSET months -> Int] /\ g[{}] = 0
    <2>1. DaysOfMonths(p, {}) = {}
        BY DEF DaysOfMonths
    <2> QED BY <1>1, <2>1, FS_EmptySet
<1>5. ASSUME NEW part \in SUBSET months, NEW m \in part PROVE g[part] = v[m] + g[part \ {m}]
    <2> DEFINE a == DaysOfMonths(p, {m})
               b == DaysOfMonths(p, part \ {m})
    <2>1. DaysOfMonths(p, part) = a \cup b /\ a \cap b = {}
        BY DEF DaysOfMonths
    <2>2. IsFiniteSet(a) /\ IsFiniteSet(b) /\ Cardinality(a) \in Nat /\ Cardinality(b) \in Nat
        BY <1>1
    <2>3. /\ g[part] = Cardinality(DaysOfMonths(p, part)) /\ g[part \ {m}] = Cardinality(b)
          /\ v[m] = Cardinality(a)
        BY <1>2
    <2> HIDE DEF a, b, g, v
    <2>4. Cardinality(a \cup b) = Cardinality(a) + Cardinality(b) - Cardinality(a \cap b)
        BY <2>2, FS_Union
    <2>5. Cardinality(a \cap b) = 0
        BY <2>1, FS_EmptySet
    <2>6. Cardinality(a \cup b) = Cardinality(a) + Cardinality(b)
        BY ONLY <2>2, <2>4, <2>5
    <2> QED BY <2>1, <2>2, <2>3, <2>6
<1>6. g[months] = Cardinality(DaysOfMonths(p, months))
    OBVIOUS
<1> HIDE DEF g, v
<1>7. AddsUp(g, months, v)
    BY <1>4, <1>5 DEF AddsUp
<1>8. SumFunction(v) = g[months]
    BY <1>0, <1>3, <1>7, SumIsTheSum
<1> QED BY <1>3, <1>6, <1>8 DEF v

\* The shares of a month, of one period more.
OneMore(periods, p, m) ==
    /\ Occupied(periods, m) \in Int
    /\ Occupied(periods, m) = Share(p, m) + Occupied(periods \ {p}, m)
    /\ Occupied({p}, m) = Share(p, m)

LEMMA OneMorePeriod ==
    ASSUME NEW first, NEW last, Calendar(first, last), NEW m \in first .. (last - 1),
           NEW periods \in SUBSET Period(first, last), IsFiniteSet(periods), NEW p \in periods
    PROVE  OneMore(periods, p, m)
<1> DEFINE v == [q \in periods |-> Share(q, m)]
           rest == [q \in periods \ {p} |-> Share(q, m)]
           one == [q \in {p} |-> Share(q, m)]
<1>1. /\ Occupied(periods, m) = SumFunction(v) /\ Occupied(periods \ {p}, m) = SumFunction(rest)
      /\ Occupied({p}, m) = SumFunction(one)
    BY DEF Occupied, Share
<1>2. \A q \in periods : Share(q, m) \in Int
    <2> SUFFICES ASSUME NEW q \in periods PROVE Share(q, m) \in Int
        OBVIOUS
    <2>1. Share(q, m) \in 0 .. DaysIn(m)
        BY SharesAreDays
    <2> QED BY <2>1
<1>3. /\ v \in [periods -> Int] /\ rest \in [(periods \ {p}) -> Int] /\ one \in [{p} -> Int]
      /\ \A q \in periods \ {p} : rest[q] = v[q]
      /\ \A q \in {p} : one[q] = v[q]
      /\ v[p] = Share(p, m)
    BY <1>2
<1> HIDE DEF v, rest, one
<1>4. PICK g : AddsUp(g, periods, v)
    BY <1>3, SumExists
<1>5. SumFunction(v) = g[periods]
    BY <1>3, <1>4, SumIsTheSum
<1>6. SumFunction(rest) = g[periods \ {p}]
    BY <1>3, <1>4, SumOfPart
<1>7. SumFunction(one) = g[{p}]
    <2>1. {p} \in SUBSET periods
        OBVIOUS
    <2> QED BY <1>3, <1>4, <2>1, SumOfPart
<1>8. g[periods] = v[p] + g[periods \ {p}] /\ g[periods] \in Int /\ g[periods \ {p}] \in Int
    BY <1>4 DEF AddsUp
<1>9. g[{p}] = v[p]
    <2>1. {p} \ {p} = {} /\ {p} \in SUBSET periods /\ v[p] \in Int
        BY <1>3
    <2>2. g[{p}] = v[p] + g[{p} \ {p}] /\ g[{}] = 0
        BY <1>4, <2>1 DEF AddsUp
    <2> QED BY <2>1, <2>2
<1> QED BY <1>1, <1>3, <1>5, <1>6, <1>7, <1>8, <1>9 DEF OneMore

\* What some months have is what the periods are: each day of each of them that is in the
\* months counts once.
LEMMA PeriodsAddUp ==
    ASSUME NEW first, NEW last, Calendar(first, last),
           NEW months \in SUBSET (first .. (last - 1)),
           NEW periods \in SUBSET Period(first, last), IsFiniteSet(periods)
    PROVE  SumFunction([m \in months |-> Occupied(periods, m)])
              = SumFunction([p \in periods |-> Cardinality(DaysOfMonths(p, months))])
<1> DEFINE v == [p \in periods |-> Cardinality(DaysOfMonths(p, months))]
           By(part) == [m \in months |-> Occupied(part, m)]
           g == [part \in SUBSET periods |-> SumFunction(By(part))]
<1>0. IsFiniteSet(months)
    <2>1. first \in Int /\ last - 1 \in Int
        BY DEF Calendar
    <2> QED BY <2>1, FS_Interval, FS_Subset
<1>1. \A part \in SUBSET periods : IsFiniteSet(part)
    BY FS_Subset
<1>2. By({}) = [m \in months |-> 0]
    <2>1. \A m : Occupied({}, m) = SumFunction([p \in {} |-> 0])
        <3> SUFFICES ASSUME NEW m PROVE Occupied({}, m) = SumFunction([p \in {} |-> 0])
            OBVIOUS
        <3>1. [p \in {} |-> Bigger(Overlap(p, m), 0)] = [p \in {} |-> 0]
            OBVIOUS
        <3> QED BY <3>1 DEF Occupied
    <2>2. SumFunction([p \in {} |-> 0]) = 0
        BY FS_EmptySet, SumOfZeros
    <2> QED BY <2>1, <2>2
<1>3. ASSUME NEW part \in SUBSET periods PROVE By(part) \in [months -> Int]
    <2>1. CASE part = {}
        BY <1>2, <2>1
    <2>2. CASE part # {}
        <3>1. PICK p \in part : TRUE
            BY <2>2
        <3>2. ASSUME NEW m \in months PROVE Occupied(part, m) \in Int
            <4>1. part \in SUBSET Period(first, last) /\ m \in first .. (last - 1)
                OBVIOUS
            <4> QED BY <1>1, <3>1, <4>1, OneMorePeriod DEF OneMore
        <3> QED BY <3>2
    <2> QED BY <2>1, <2>2
<1>4. ASSUME NEW part \in SUBSET periods, NEW p \in part
      PROVE  g[part] = v[p] + g[part \ {p}]
    <2> DEFINE share == [m \in months |-> Share(p, m)]
               rest == By(part \ {p})
    <2>1. /\ part \in SUBSET Period(first, last) /\ p \in Period(first, last)
          /\ part \ {p} \in SUBSET periods /\ p \in periods
        OBVIOUS
    <2>2. share \in [months -> Int] /\ SumFunction(share) = Cardinality(DaysOfMonths(p, months))
        BY <2>1, SharesAddUp
    <2>3. rest \in [months -> Int]
        BY <1>3, <2>1
    <2>4. By(part) = [m \in months |-> share[m] + rest[m]]
        <3>1. ASSUME NEW m \in months
              PROVE  Occupied(part, m) = Share(p, m) + Occupied(part \ {p}, m)
            <4>1. IsFiniteSet(part) /\ m \in first .. (last - 1)
                BY <1>1
            <4>2. part \in SUBSET Period(first, last) /\ p \in part
                BY <2>1
            <4> HIDE DEF share, rest, By, g, v
            <4>3. OneMore(part, p, m)
                BY <4>1, <4>2, OneMorePeriod
            <4> QED BY <4>3 DEF OneMore
        <3> QED BY <3>1
    <2>5. /\ g[part] = SumFunction(By(part)) /\ g[part \ {p}] = SumFunction(rest)
          /\ v[p] = Cardinality(DaysOfMonths(p, months))
        BY <2>1
    <2> HIDE DEF share, rest, By, g, v
    <2>6. SumFunction([m \in months |-> share[m] + rest[m]]) = SumFunction(share) + SumFunction(rest)
        BY <1>0, <2>2, <2>3, SumOfSums
    <2> QED BY <2>2, <2>4, <2>5, <2>6
<1>5. g \in [SUBSET periods -> Int] /\ g[{}] = 0
    <2>1. ASSUME NEW part \in SUBSET periods PROVE SumFunction(By(part)) \in Int
        <3>1. By(part) \in [months -> Int]
            BY <1>3
        <3> HIDE DEF By
        <3>2. PICK h : AddsUp(h, months, By(part))
            BY <1>0, <3>1, SumExists
        <3>3. SumFunction(By(part)) = h[months] /\ h[months] \in Int
            BY <1>0, <3>1, <3>2, SumIsTheSum DEF AddsUp
        <3> QED BY <3>3
    <2>2. SumFunction(By({})) = 0
        BY <1>0, <1>2, SumOfZeros
    <2> HIDE DEF By
    <2> QED BY <2>1, <2>2
<1>6. v \in [periods -> Int]
    <2>1. ASSUME NEW p \in periods PROVE Cardinality(DaysOfMonths(p, months)) \in Int
        <3>1. p.from \in Int /\ p.to \in Int
            BY DEF Period
        <3>2. DaysOfMonths(p, months) \in SUBSET (p.from .. p.to)
            BY DEF DaysOfMonths
        <3>3. IsFiniteSet(p.from .. p.to)
            BY <3>1, FS_Interval
        <3>4. IsFiniteSet(DaysOfMonths(p, months))
            BY <3>2, <3>3, FS_Subset
        <3> QED BY <3>4, FS_CardinalityType
    <2> QED BY <2>1
<1>7. g[periods] = SumFunction(By(periods))
    OBVIOUS
<1> HIDE DEF g, v, By
<1>8. AddsUp(g, periods, v)
    BY <1>4, <1>5 DEF AddsUp
<1>9. SumFunction(v) = g[periods]
    BY <1>6, <1>8, SumIsTheSum
<1> QED BY <1>7, <1>9 DEF v, By

\* The months start one after the other.
LEMMA MonthsFollow ==
    ASSUME NEW first, NEW last, Calendar(first, last),
           NEW m \in first .. last, NEW n \in first .. last, m <= n
    PROVE  FirstDay[m] \in Int /\ FirstDay[n] \in Int /\ FirstDay[m] <= FirstDay[n]
<1>1. m \in Int /\ n \in Int /\ FirstDay[m] \in Int /\ FirstDay[n] \in Int
    BY DEF Calendar
<1>2. CASE m = n
    BY <1>1, <1>2
<1>3. CASE m < n
    <2>1. FirstDay[m] < FirstDay[n]
        BY <1>3 DEF Calendar
    <2> QED BY <1>1, <2>1
<1> QED BY <1>1, <1>2, <1>3

\* A later day is not of an earlier month.
LEMMA MonthsPass ==
    ASSUME NEW first, NEW last, Calendar(first, last), NEW day \in Int, NEW next \in Int,
           FirstDay[first] <= day, day <= next, next < FirstDay[last]
    PROVE  MonthOf(day) <= MonthOf(next)
<1>1. /\ first \in Int /\ last \in Int /\ FirstDay[first] \in Int /\ FirstDay[last] \in Int
    BY DEF Calendar
<1>2. FirstDay[first] <= next /\ day < FirstDay[last]
    BY <1>1
<1> DEFINE m == MonthOf(day)
           n == MonthOf(next)
<1>3. m \in first .. (last - 1) /\ IsIn(day, m)
    BY <1>2, MonthOfADay
<1>4. n \in first .. (last - 1) /\ IsIn(next, n)
    BY <1>2, MonthOfADay
<1> HIDE DEF m, n
<1>5. ASSUME n < m PROVE FALSE
    <2>1. n + 1 \in first .. last /\ m \in first .. last /\ n + 1 <= m
        BY <1>1, <1>3, <1>4, <1>5
    <2>2. FirstDay[n + 1] \in Int /\ FirstDay[m] \in Int /\ FirstDay[n + 1] <= FirstDay[m]
        BY <2>1, MonthsFollow
    <2> QED BY <1>3, <1>4, <2>2 DEF IsIn
<1>6. m <= n
    BY <1>1, <1>3, <1>4, <1>5
<1> QED BY <1>6 DEF m, n

\* "El reparto por meses se hace con los dias que el coche estuvo fuera": a rental is shared out
\* among the months it touches, none of its days is lost or counted twice, and no month
\* has more days than the calendar gives it (months_between, occupancy_rows).
THEOREM MonthsShareTheDays ==
    ASSUME NEW first, NEW last, Calendar(first, last), NEW p \in Period(first, last)
    PROVE  LET months == MonthsBetween(p.from, p.to)
           IN /\ SumFunction([m \in months |-> Occupied({p}, m)]) = Length(p)
              /\ \A m \in months : Occupied({p}, m) \in 1 .. DaysIn(m)
              /\ \A m \in (first .. (last - 1)) \ months : Occupied({p}, m) = 0
<1> DEFINE a == MonthOf(p.from)
           b == MonthOf(p.to)
           months == MonthsBetween(p.from, p.to)
<1>1. /\ p.from \in Int /\ p.to \in Int /\ FirstDay[first] <= p.from /\ p.from <= p.to
      /\ p.to < FirstDay[last]
    BY DEF Period
<1>2. first \in Int /\ last \in Int /\ FirstDay[first] \in Int /\ FirstDay[last] \in Int
    BY DEF Calendar
<1>3. p.from < FirstDay[last] /\ FirstDay[first] <= p.to
    BY <1>1, <1>2
<1>4. /\ a \in first .. (last - 1) /\ IsIn(p.from, a)
      /\ b \in first .. (last - 1) /\ IsIn(p.to, b)
    BY <1>1, <1>3, MonthOfADay
<1>5. months = a .. b
    BY DEF MonthsBetween
<1> HIDE DEF a, b
<1>6. months \in SUBSET (first .. (last - 1))
    BY <1>2, <1>4, <1>5
<1>7. DaysOfMonths(p, months) = p.from .. p.to
    <2>1. ASSUME NEW day \in p.from .. p.to PROVE MonthOf(day) \in a .. b
        <3>1. /\ day \in Int /\ FirstDay[first] <= day /\ day < FirstDay[last]
              /\ p.from <= day /\ day <= p.to
            BY <1>1, <1>2
        <3>2. MonthOf(day) \in first .. (last - 1)
            BY <3>1, MonthOfADay
        <3>3. a <= MonthOf(day)
            BY <1>1, <3>1, MonthsPass DEF a
        <3>4. MonthOf(day) <= b
            BY <1>1, <3>1, MonthsPass DEF b
        <3> QED BY <1>2, <1>4, <3>2, <3>3, <3>4
    <2> QED BY <1>5, <2>1 DEF DaysOfMonths
<1>8. \A m \in first .. (last - 1) : Occupied({p}, m) = Share(p, m)
    <2> SUFFICES ASSUME NEW m \in first .. (last - 1) PROVE Occupied({p}, m) = Share(p, m)
        OBVIOUS
    <2>1. {p} \in SUBSET Period(first, last) /\ IsFiniteSet({p}) /\ p \in {p}
        BY FS_Singleton
    <2>2. OneMore({p}, p, m)
        BY <2>1, OneMorePeriod
    <2> QED BY <2>2 DEF OneMore
<1>9. SumFunction([m \in months |-> Occupied({p}, m)]) = Length(p)
    <2>1. [m \in months |-> Occupied({p}, m)] = [m \in months |-> Share(p, m)]
        BY <1>6, <1>8
    <2>2. SumFunction([m \in months |-> Share(p, m)]) = Cardinality(DaysOfMonths(p, months))
        BY <1>6, SharesAddUp
    <2>3. Cardinality(p.from .. p.to) = Length(p)
        BY <1>1, FS_Interval DEF Length
    <2> QED BY <1>7, <2>1, <2>2, <2>3
<1>10. ASSUME NEW m \in first .. (last - 1)
       PROVE  /\ Share(p, m) \in 0 .. DaysIn(m)
              /\ m \in months <=> Share(p, m) # 0
    <2>1. /\ Share(p, m) \in 0 .. DaysIn(m)
          /\ Share(p, m) = 0 <=> FirstDay[m + 1] <= p.from \/ p.to < FirstDay[m]
        BY SharesAreDays
    <2>2. /\ m \in first .. last /\ m + 1 \in first .. last /\ m \in Int
          /\ a \in first .. last /\ a + 1 \in first .. last /\ a \in Int
          /\ b \in first .. last /\ b + 1 \in first .. last /\ b \in Int
        BY <1>2, <1>4
    <2>3. /\ FirstDay[a] \in Int /\ FirstDay[a + 1] \in Int /\ FirstDay[b] \in Int
          /\ FirstDay[b + 1] \in Int /\ FirstDay[m] \in Int /\ FirstDay[m + 1] \in Int
        BY <2>2 DEF Calendar
    <2>4. FirstDay[a] <= p.from /\ p.from < FirstDay[a + 1] /\ FirstDay[b] <= p.to /\ p.to < FirstDay[b + 1]
        BY <1>4 DEF IsIn
    <2>5. CASE m < a
        <3>1. m + 1 <= a
            BY <2>2, <2>5
        <3>2. FirstDay[m + 1] <= FirstDay[a]
            BY <2>2, <3>1, MonthsFollow
        <3>3. FirstDay[m + 1] <= p.from
            BY <1>1, <2>3, <2>4, <3>2
        <3> QED BY <1>5, <2>1, <2>2, <2>5, <3>3
    <2>6. CASE b < m
        <3>1. b + 1 <= m
            BY <2>2, <2>6
        <3>2. FirstDay[b + 1] <= FirstDay[m]
            BY <2>2, <3>1, MonthsFollow
        <3>3. p.to < FirstDay[m]
            BY <1>1, <2>3, <2>4, <3>2
        <3> QED BY <1>5, <2>1, <2>2, <2>6, <3>3
    <2>7. CASE a <= m /\ m <= b
        <3>1. FirstDay[m] <= FirstDay[b]
            BY <2>2, <2>7, MonthsFollow
        <3>2. a + 1 <= m + 1
            BY <2>2, <2>7
        <3>3. FirstDay[a + 1] <= FirstDay[m + 1]
            BY <2>2, <3>2, MonthsFollow
        <3>4. ~ (FirstDay[m + 1] <= p.from) /\ ~ (p.to < FirstDay[m])
            BY <1>1, <2>3, <2>4, <3>1, <3>3
        <3>5. m \in a .. b
            BY <2>2, <2>7
        <3> QED BY <1>5, <2>1, <3>4, <3>5
    <2> QED BY <2>2, <2>5, <2>6, <2>7
<1>11. ASSUME NEW m \in months PROVE Occupied({p}, m) \in 1 .. DaysIn(m)
    <2>1. m \in first .. (last - 1)
        BY <1>6
    <2>2. Share(p, m) \in 0 .. DaysIn(m) /\ Share(p, m) # 0
        BY <1>10, <2>1
    <2>3. Occupied({p}, m) = Share(p, m)
        BY <1>8, <2>1
    <2> QED BY <2>2, <2>3
<1>12. ASSUME NEW m \in (first .. (last - 1)) \ months PROVE Occupied({p}, m) = 0
    BY <1>8, <1>10
<1> QED BY <1>9, <1>11, <1>12

\* A sum is that over the part of the set that is not zero, whatever its members are called.
LEMMA SumRenamed ==
    ASSUME NEW set, IsFiniteSet(set), NEW v \in [set -> Int], NEW part \in SUBSET set,
           NEW f, \A x \in part, y \in part : f[x] = f[y] => x = y,
           NEW w \in [{f[x] : x \in part} -> Int],
           \A x \in part : w[f[x]] = v[x], \A x \in set \ part : v[x] = 0
    PROVE  IsFiniteSet({f[x] : x \in part}) /\ SumFunction(v) = SumFunction(w)
<1> DEFINE image == {f[x] : x \in part}
           Named(some) == {f[x] : x \in some \cap part}
           called == [x \in part |-> f[x]]
<1>1. IsFiniteSet(image)
    <2>1. called \in Surjection(part, image)
        BY DEF Surjection
    <2>2. IsFiniteSet(part)
        BY FS_Subset
    <2> HIDE DEF called, image
    <2> QED BY <2>1, <2>2, FS_Surjection
<1>2. PICK g : AddsUp(g, image, w)
    <2> HIDE DEF image
    <2>1. w \in [image -> Int]
        BY DEF image
    <2> QED BY <1>1, <2>1, SumExists
<1> DEFINE h == [some \in SUBSET set |-> g[Named(some)]]
<1>3. /\ g \in [SUBSET image -> Int] /\ g[{}] = 0
      /\ \A some \in SUBSET image : \A y \in some : g[some] = w[y] + g[some \ {y}]
    <2> HIDE DEF image
    <2> QED BY <1>2 DEF AddsUp
<1>4. h \in [SUBSET set -> Int] /\ h[{}] = 0
    <2>1. \A some : Named(some) \in SUBSET image
        OBVIOUS
    <2>2. Named({}) = {}
        OBVIOUS
    <2> HIDE DEF image, Named
    <2> QED BY <1>3, <2>1, <2>2
<1>5. ASSUME NEW some \in SUBSET set, NEW x \in some PROVE h[some] = v[x] + h[some \ {x}]
    <2>1. some \ {x} \in SUBSET set /\ Named(some) \in SUBSET image /\ x \in set
        OBVIOUS
    <2>2. h[some] = g[Named(some)] /\ h[some \ {x}] = g[Named(some \ {x})]
        BY <2>1
    <2>3. g[Named(some)] \in Int
        BY <1>3, <2>1
    <2>4. CASE x \in part
        <3>1. Named(some \ {x}) = Named(some) \ {f[x]} /\ f[x] \in Named(some)
            BY <2>4
        <3>2. g[Named(some)] = w[f[x]] + g[Named(some) \ {f[x]}]
            BY <1>3, <2>1, <3>1
        <3> HIDE DEF h, image, Named
        <3> QED BY <2>2, <2>4, <3>1, <3>2
    <2>5. CASE x \notin part
        <3>1. Named(some \ {x}) = Named(some)
            BY <2>5
        <3>2. v[x] = 0
            BY <2>1, <2>5
        <3> HIDE DEF h, image, Named
        <3> QED BY <2>2, <2>3, <3>1, <3>2
    <2> QED BY <2>4, <2>5
<1>6. h[set] = g[image]
    <2>1. Named(set) = image
        OBVIOUS
    <2> HIDE DEF Named, image
    <2> QED BY <2>1
<1> HIDE DEF h, Named
<1>7. SumFunction(v) = h[set]
    <2>1. AddsUp(h, set, v)
        BY <1>4, <1>5 DEF AddsUp
    <2> QED BY <2>1, SumIsTheSum
<1>8. SumFunction(w) = g[image]
    <2>1. w \in [image -> Int]
        OBVIOUS
    <2> HIDE DEF image
    <2> QED BY <1>1, <1>2, <2>1, SumIsTheSum
<1> QED BY <1>1, <1>6, <1>7, <1>8

\* The reservations of the table: each has an id of its own, and its car is out within the
\* calendar.
Table(reservations, first, last) ==
    /\ IsFiniteSet(reservations)
    /\ \A r \in reservations, s \in reservations : r.id = s.id => r = s
    /\ \A r \in reservations :
          /\ r.id \in Int /\ r.pickup \in Int /\ r.return \in Int /\ r.pickup <= r.return
          /\ FirstDay[first] * 24 <= r.pickup /\ r.return < FirstDay[last] * 24

\* A stay is a period of the calendar, and of one reservation.
LEMMA StaysArePeriods ==
    ASSUME NEW first, NEW last, Calendar(first, last),
           NEW reservations, Table(reservations, first, last), NEW r \in reservations
    PROVE  /\ Stay(r) \in Period(first, last) /\ Stay(r).id = r.id
           /\ \A day \in Int : (day * 24 <= r.pickup) <=> (day <= Stay(r).from)
           /\ \A day \in Int : (r.return < day * 24) <=> (Stay(r).to < day)
<1>1. /\ r.id \in Int /\ r.pickup \in Int /\ r.return \in Int /\ r.pickup <= r.return
      /\ FirstDay[first] * 24 <= r.pickup /\ r.return < FirstDay[last] * 24
    BY DEF Table
<1>2. FirstDay[first] \in Int /\ FirstDay[last] \in Int
    BY DEF Calendar
<1>3. /\ Stay(r).id = r.id /\ Stay(r).from = r.pickup \div 24 /\ Stay(r).to = r.return \div 24
      /\ Stay(r) = [id |-> r.id, from |-> r.pickup \div 24, to |-> r.return \div 24]
    BY DEF Stay
<1>4. r.pickup \div 24 \in Int /\ r.return \div 24 \in Int
    BY <1>1
<1>5. r.pickup \div 24 <= r.return \div 24
    BY <1>1
<1>6. /\ \A day \in Int : (day * 24 <= r.pickup) <=> (day <= r.pickup \div 24)
      /\ \A day \in Int : (r.return < day * 24) <=> (r.return \div 24 < day)
    BY <1>1
<1>7. FirstDay[first] <= r.pickup \div 24 /\ r.return \div 24 < FirstDay[last]
    BY <1>1, <1>2, <1>6
<1>8. Stay(r) \in Period(first, last)
    BY <1>1, <1>3, <1>4, <1>5, <1>7 DEF Period
<1> QED BY <1>3, <1>6, <1>8

\* What the months of the report have is what its rentals were: each day that the car of one
\* was out, and that is in those months, counts once, and two cars out on the same day count
\* it twice. No rental with a day in them is left out (occupancy_by_month, occupancy_rows).
THEOREM OccupancyAddsUp ==
    ASSUME NEW first, NEW last, Calendar(first, last), NEW from \in Int, NEW to \in Int,
           FirstDay[first] <= from, from <= to, to < FirstDay[last],
           NEW reservations, Table(reservations, first, last), NEW vehicles
    PROVE  LET months == MonthsBetween(from, to)
               out == {r \in reservations : r.vehicle # "none" /\ r.status \in Productive}
               report == OccupancyByMonth(reservations, vehicles, from, to)
           IN SumFunction([m \in months |-> report[m].rented])
                 = SumFunction([r \in out |-> Cardinality(DaysOfMonths(Stay(r), months))])
<1> DEFINE a == MonthOf(from)
           b == MonthOf(to)
           months == MonthsBetween(from, to)
           out == {r \in reservations : r.vehicle # "none" /\ r.status \in Productive}
           touching == Touching(reservations, FirstDay[a], FirstDay[b + 1] - 1)
           stays == {Stay(r) : r \in touching}
           report == OccupancyByMonth(reservations, vehicles, from, to)
           v == [r \in out |-> Cardinality(DaysOfMonths(Stay(r), months))]
           w == [p \in stays |-> Cardinality(DaysOfMonths(p, months))]
<1>1. first \in Int /\ last \in Int /\ FirstDay[first] \in Int /\ FirstDay[last] \in Int
    BY DEF Calendar
<1>2. a \in first .. (last - 1) /\ b \in first .. (last - 1) /\ a <= b
    <2>1. FirstDay[first] <= to /\ from < FirstDay[last]
        BY <1>1
    <2> QED BY <2>1, MonthOfADay, MonthsPass
<1>3. months = a .. b /\ months \in SUBSET (first .. (last - 1))
    BY <1>1, <1>2 DEF MonthsBetween
<1>4. touching \in SUBSET out /\ out \in SUBSET reservations
    BY DEF Touching
<1>5. IsFiniteSet(out) /\ IsFiniteSet(touching)
    BY <1>4, FS_Subset DEF Table
<1>6. stays \in SUBSET Period(first, last)
    BY <1>4, StaysArePeriods
<1>7. \A p \in Period(first, last) : Cardinality(DaysOfMonths(p, months)) \in Int
    <2> SUFFICES ASSUME NEW p \in Period(first, last)
                 PROVE  Cardinality(DaysOfMonths(p, months)) \in Int
        OBVIOUS
    <2>1. p.from \in Int /\ p.to \in Int
        BY DEF Period
    <2>2. DaysOfMonths(p, months) \in SUBSET (p.from .. p.to)
        BY DEF DaysOfMonths
    <2>3. IsFiniteSet(DaysOfMonths(p, months))
        BY <2>1, <2>2, FS_Interval, FS_Subset
    <2> QED BY <2>3, FS_CardinalityType
<1>8. ASSUME NEW r \in out \ touching PROVE DaysOfMonths(Stay(r), months) = {}
    <2>1. /\ Stay(r) \in Period(first, last)
          /\ \A day \in Int : (day * 24 <= r.pickup) <=> (day <= Stay(r).from)
          /\ \A day \in Int : (r.return < day * 24) <=> (Stay(r).to < day)
        BY <1>4, StaysArePeriods
    <2>2. /\ Stay(r).from \in Int /\ Stay(r).to \in Int
          /\ FirstDay[first] <= Stay(r).from /\ Stay(r).to < FirstDay[last]
        BY <2>1 DEF Period
    <2>3. FirstDay[a] \in Int /\ FirstDay[b + 1] \in Int
        <3>1. a \in first .. last /\ b + 1 \in first .. last
            BY <1>1, <1>2
        <3> QED BY <3>1 DEF Calendar
    <2>4. FirstDay[b + 1] <= Stay(r).from \/ Stay(r).to < FirstDay[a]
        <3>1. r.pickup \in Int /\ r.return \in Int
            BY <1>4 DEF Table
        <3>2. ~ (r.pickup < ((FirstDay[b + 1] - 1) + 1) * 24) \/ ~ (FirstDay[a] * 24 <= r.return)
            BY <1>8 DEF Touching
        <3>3. FirstDay[b + 1] * 24 <= r.pickup \/ r.return < FirstDay[a] * 24
            <4> HIDE DEF a, b
            <4> QED BY <2>3, <3>1, <3>2
        <3>4. (FirstDay[b + 1] * 24 <= r.pickup) <=> (FirstDay[b + 1] <= Stay(r).from)
            BY <2>1, <2>3
        <3>5. (r.return < FirstDay[a] * 24) <=> (Stay(r).to < FirstDay[a])
            BY <2>1, <2>3
        <3> HIDE DEF a, b
        <3> QED BY <3>3, <3>4, <3>5
    <2>5. ASSUME NEW day \in Stay(r).from .. Stay(r).to, MonthOf(day) \in a .. b PROVE FALSE
        <3> DEFINE m == MonthOf(day)
        <3>1. /\ day \in Int /\ FirstDay[first] <= day /\ day < FirstDay[last]
              /\ Stay(r).from <= day /\ day <= Stay(r).to
            BY <1>1, <2>2
        <3>2. m \in first .. (last - 1) /\ IsIn(day, m)
            BY <3>1, MonthOfADay
        <3>3. FirstDay[m] <= day /\ day < FirstDay[m + 1]
            BY <3>2 DEF IsIn
        <3>4. /\ m \in first .. last /\ m + 1 \in first .. last /\ a \in first .. last
              /\ b + 1 \in first .. last /\ a <= m /\ m + 1 <= b + 1
            BY <1>1, <1>2, <2>5, <3>2
        <3> HIDE DEF m, a, b
        <3>5. FirstDay[m] \in Int /\ FirstDay[a] <= FirstDay[m]
            BY <3>4, MonthsFollow
        <3>6. FirstDay[m + 1] \in Int /\ FirstDay[m + 1] <= FirstDay[b + 1]
            BY <3>4, MonthsFollow
        <3> QED BY <2>2, <2>3, <2>4, <3>1, <3>3, <3>5, <3>6
    <2> QED BY <1>3, <2>5 DEF DaysOfMonths
<1>9. IsFiniteSet(stays) /\ SumFunction(v) = SumFunction(w)
    <2> DEFINE f == [r \in touching |-> Stay(r)]
    <2>1. \A r \in touching, s \in touching : f[r] = f[s] => r = s
        <3>1. \A r \in touching : f[r].id = r.id
            BY DEF Stay
        <3>2. \A r \in touching, s \in touching : r.id = s.id => r = s
            BY <1>4 DEF Table
        <3> HIDE DEF f, touching
        <3> QED BY <3>1, <3>2
    <2>2. stays = {f[r] : r \in touching}
        OBVIOUS
    <2>3. w \in [stays -> Int]
        BY <1>6, <1>7
    <2>4. v \in [out -> Int]
        BY <1>4, <1>7, StaysArePeriods
    <2>5. \A r \in touching : w[f[r]] = v[r]
        BY <1>4
    <2>6. \A r \in out \ touching : v[r] = 0
        BY <1>8, FS_EmptySet
    <2> HIDE DEF v, w, f, stays, touching, out
    <2>7. w \in [{f[r] : r \in touching} -> Int]
        BY <2>2, <2>3
    <2>8. IsFiniteSet({f[r] : r \in touching}) /\ SumFunction(v) = SumFunction(w)
        BY <1>4, <1>5, <2>1, <2>4, <2>5, <2>6, <2>7, SumRenamed
    <2> QED BY <2>2, <2>8
<1>10. SumFunction([m \in months |-> Occupied(stays, m)]) = SumFunction(w)
    <2>1. w = [p \in stays |-> Cardinality(DaysOfMonths(p, months))]
        OBVIOUS
    <2> HIDE DEF stays, months, w
    <2>2. IsFiniteSet(stays)
        BY <1>9
    <2>3. Calendar(first, last) /\ months \in SUBSET (first .. (last - 1))
        BY <1>3
    <2>4. SumFunction([m \in months |-> Occupied(stays, m)])
             = SumFunction([p \in stays |-> Cardinality(DaysOfMonths(p, months))])
        BY ONLY <1>6, <2>2, <2>3, PeriodsAddUp
    <2> QED BY <2>1, <2>4
<1>11. [m \in months |-> report[m].rented] = [m \in months |-> Occupied(stays, m)]
    <2>1. report = [m \in months |-> MonthOccupancy(stays, vehicles, m)]
        BY DEF OccupancyByMonth
    <2>2. \A m : MonthOccupancy(stays, vehicles, m).rented = Occupied(stays, m)
        BY DEF MonthOccupancy
    <2> HIDE DEF report, stays, months
    <2> QED BY <2>1, <2>2
<1> QED BY <1>9, <1>10, <1>11

=============================================================================
