----------------------------- MODULE PaymentsProofs -----------------------------
(***************************************************************************)
(* The books agree with the gateways, for any number of requests, links    *)
(* and checkouts: a settled link has one payment, every online payment is  *)
(* money that was charged, and a captured or released deposit is so at     *)
(* the gateway, with the rest returned once.                               *)
(*                                                                         *)
(* The properties are not inductive by themselves.  A notification carries *)
(* an attempt that has ended and that was made for its link (NoticeIsTrue); the *)
(* last order of a link is one of its own (References), and so is what     *)
(* capture_deposit asks the gateway about (Operations); and between the    *)
(* call and the writing, the row of the link says the hold is still there, *)
(* the gateway says it is not, and nobody else may take the row (Settling).*)
(***************************************************************************)
EXTENDS Payments, TLAPS

-----------------------------------------------------------------------------
(* The invariant *)

NoticeIsTrue(c) ==
    job[c].kind = "notice" =>
        /\ job[c].ref \in DOMAIN attempt
        /\ attempt[job[c].ref].state \in Outcomes
        /\ attempt[job[c].ref].link = job[c].link
        /\ job[c].link \notin Stripe => link[job[c].link].ref # 0

MovementIsSigned(c) ==
    job[c].kind = "register" =>
        /\ job[c].row.link = NoLink
        /\ IF job[c].row.type \in OutgoingTypes THEN job[c].row.amount < 0
                                                ELSE job[c].row.amount > 0

References ==
    \A l \in Link : link[l].ref # 0 =>
        link[l].ref \in DOMAIN attempt /\ attempt[link[l].ref].link = l

OnHold == {"authorized", "captured", "released"}
Operations ==
    \A l \in Link : link[l].status \in OnHold =>
        Operation(l) \in DOMAIN attempt /\ attempt[Operation(l)].link = l

Settling(c) ==
    job[c].kind = "settle" =>
        LET l == job[c].link
            amount == job[c].amount
        IN /\ l \in Hold /\ link[l].status = "authorized"
           /\ amount <= AmountOf[l]
           /\ attempt[Operation(l)].state = IF amount = 0 THEN "released" ELSE "captured"
           /\ attempt[Operation(l)].taken = amount

JobIsRight(c) == NoticeIsTrue(c) /\ MovementIsSigned(c) /\ Settling(c)

OneSettles ==
    \A c, d \in Clerk :
        job[c].kind = "settle" /\ job[d].kind = "settle" /\ job[c].link = job[d].link => c = d

RowsHaveAttempts ==
    \A i \in DOMAIN rows :
        rows[i].link \in Link /\ rows[i].amount > 0 => rows[i].ref \in DOMAIN attempt

Jobs == (\A c \in Clerk : JobIsRight(c)) /\ OneSettles
Books == RecordedOnce /\ RowsHaveAttempts /\ OnlyRealMoney /\ DepositsAreSettled
Inv == TypeOK /\ Jobs /\ References /\ Operations /\ Books

-----------------------------------------------------------------------------
(* What a step finds *)

\* What a request is, by its kind.
LEMMA JobKinds ==
    ASSUME TypeOK, NEW c \in Clerk
    PROVE  /\ job[c].kind \in {"idle", "register", "notice", "settle"}
           /\ job[c].kind = "register" => job[c] \in RegisterJob /\ job[c].row \in Payment
           /\ job[c].kind = "notice" =>
                 job[c] \in NoticeJob /\ job[c].link \in Link /\ job[c].ref \in Nat
           /\ job[c].kind = "settle" =>
                 job[c] \in SettleJob /\ job[c].link \in Link /\ job[c].amount \in Nat
<1>1. job[c] \in {Idle} \cup RegisterJob \cup NoticeJob \cup SettleJob
    BY DEF TypeOK
<1>2. CASE job[c] = Idle
    BY <1>2 DEF Idle
<1>3. CASE job[c] \in RegisterJob
    BY <1>3 DEF RegisterJob
<1>4. CASE job[c] \in NoticeJob
    BY <1>4 DEF NoticeJob
<1>5. CASE job[c] \in SettleJob
    BY <1>5 DEF SettleJob
<1> QED BY <1>1, <1>2, <1>3, <1>4, <1>5

\* A request that is opened or closed leaves the others alone.
LEMMA JobMoves ==
    ASSUME TypeOK, NEW c \in Clerk, NEW new \in {Idle} \cup RegisterJob \cup NoticeJob \cup SettleJob,
           job' = [job EXCEPT ![c] = new]
    PROVE  /\ job' \in [Clerk -> {Idle} \cup RegisterJob \cup NoticeJob \cup SettleJob]
           /\ job'[c] = new /\ \A d \in Clerk \ {c} : job'[d] = job[d]
BY DEF TypeOK

\* The row written is a payment with the sign of its type.
LEMMA RowIsSigned ==
    ASSUME NEW r \in Reservation, NEW type \in RentalTypes \cup DepositTypes,
           NEW amount \in Nat \ {0}, NEW l \in Link \cup {NoLink}, NEW ref \in Nat
    PROVE  /\ Row(r, type, amount, l, ref) \in Payment
           /\ Row(r, type, amount, l, ref).type = type
           /\ Row(r, type, amount, l, ref).link = l
           /\ Row(r, type, amount, l, ref).ref = ref
           /\ Row(r, type, amount, l, ref).res = r
           /\ Row(r, type, amount, l, ref).amount =
                 IF type \in OutgoingTypes THEN -amount ELSE amount
BY DEF Row, Signed, Payment

-----------------------------------------------------------------------------
(* Types *)

\* The rows of the payments, as TypeOK wants them.
Signs(book) ==
    \A i \in DOMAIN book : IF book[i].type \in OutgoingTypes THEN book[i].amount < 0
                                                           ELSE book[i].amount > 0

LEMMA AppendIsBook ==
    ASSUME TypeOK, NEW row \in Payment,
           IF row.type \in OutgoingTypes THEN row.amount < 0 ELSE row.amount > 0,
           rows' = Append(rows, row)
    PROVE  /\ rows' \in Seq(Payment) /\ Signs(rows')
           /\ Len(rows) \in Nat /\ Len(rows') = Len(rows) + 1
           /\ DOMAIN rows = 1 .. Len(rows) /\ DOMAIN rows' = 1 .. Len(rows) + 1
           /\ \A i \in DOMAIN rows : rows'[i] = rows[i]
           /\ rows'[Len(rows) + 1] = row
           /\ \A l : {i \in DOMAIN rows' : rows'[i].link = l} =
                       Online(l) \cup IF row.link = l THEN {Len(rows) + 1} ELSE {}
<1>1. rows \in Seq(Payment) /\ Signs(rows)
    BY DEF TypeOK, Signs
<1>2. /\ rows' \in Seq(Payment) /\ Len(rows) \in Nat /\ Len(rows') = Len(rows) + 1
      /\ DOMAIN rows = 1 .. Len(rows) /\ DOMAIN rows' = 1 .. Len(rows) + 1
      /\ \A i \in DOMAIN rows : rows'[i] = rows[i]
      /\ rows'[Len(rows) + 1] = row
    BY <1>1
<1>3. Signs(rows')
    BY <1>1, <1>2 DEF Signs
<1>4. ASSUME NEW l
      PROVE  {i \in DOMAIN rows' : rows'[i].link = l} =
                Online(l) \cup IF row.link = l THEN {Len(rows) + 1} ELSE {}
    BY <1>2 DEF Online
<1> QED BY <1>2, <1>3, <1>4

\* What the gateways keep of a checkout: the link never, and once it has ended
\* neither that nor whether it was charged; what was captured or released stays so.
Kept(before, after) ==
    /\ after \in Seq(Attempt)
    /\ \A a \in DOMAIN before :
          /\ a \in DOMAIN after
          /\ after[a].link = before[a].link
          /\ before[a].state \in Outcomes => after[a].state \in Outcomes
          /\ before[a].state \in Charged => after[a].state \in Charged
          /\ before[a].state \in {"captured", "released"} =>
                after[a].state = before[a].state /\ after[a].taken = before[a].taken

LEMMA NothingKept == ASSUME TypeOK, attempt' = attempt PROVE Kept(attempt, attempt')
BY DEF TypeOK, Kept

LEMMA PutInSeq ==
    ASSUME NEW S, NEW s \in Seq(S), NEW i \in DOMAIN s, NEW x \in S
    PROVE  /\ [s EXCEPT ![i] = x] \in Seq(S) /\ DOMAIN [s EXCEPT ![i] = x] = DOMAIN s
           /\ \A k \in DOMAIN s : [s EXCEPT ![i] = x][k] = IF k = i THEN x ELSE s[k]
OBVIOUS

\* A notification that was answered.
LEMMA ToldKept ==
    ASSUME TypeOK, NEW a \in DOMAIN attempt,
           attempt' = [attempt EXCEPT ![a].told = TRUE]
    PROVE  Kept(attempt, attempt')
<1> DEFINE new == [attempt[a] EXCEPT !.told = TRUE]
<1>1. attempt \in Seq(Attempt) /\ attempt[a] \in Attempt
    BY DEF TypeOK
<1>2. /\ new \in Attempt /\ new.link = attempt[a].link /\ new.state = attempt[a].state
      /\ new.taken = attempt[a].taken
    BY <1>1 DEF Attempt
<1> HIDE DEF new
<1> DEFINE after == [attempt EXCEPT ![a] = new]
<1>3. attempt' = after
    BY DEF new
<1>4. attempt' \in Seq(Attempt) /\ DOMAIN attempt' = DOMAIN attempt
    <2>1. after \in Seq(Attempt) /\ DOMAIN after = DOMAIN attempt
        BY <1>1, <1>2, PutInSeq
    <2> HIDE DEF after
    <2> QED BY <1>3, <2>1, Zenon
<1>5. \A b \in DOMAIN attempt : attempt'[b] = IF b = a THEN new ELSE attempt[b]
    BY <1>1, <1>2, <1>3, PutInSeq
<1> QED BY <1>2, <1>4, <1>5 DEF Kept

\* A checkout that ends, or that was held and is so no more.
LEMMA StateKept ==
    ASSUME TypeOK, NEW a \in DOMAIN attempt, NEW new \in Attempt,
           new.link = attempt[a].link, new.state \in Outcomes,
           attempt[a].state = "open" \/ (attempt[a].state = "held" /\ new.state \in Charged),
           attempt' = [attempt EXCEPT ![a] = new]
    PROVE  /\ Kept(attempt, attempt')
           /\ attempt'[a] = new /\ \A b \in DOMAIN attempt \ {a} : attempt'[b] = attempt[b]
<1>1. attempt \in Seq(Attempt)
    BY DEF TypeOK
<1>2. /\ attempt' \in Seq(Attempt) /\ DOMAIN attempt' = DOMAIN attempt
      /\ \A b \in DOMAIN attempt : attempt'[b] = IF b = a THEN new ELSE attempt[b]
    BY <1>1, PutInSeq
<1>3. Kept(attempt, attempt')
    BY <1>2 DEF Kept, Charged, Outcomes
<1> QED BY <1>2, <1>3

-----------------------------------------------------------------------------
(* What a step leaves true *)

\* A request that stays open, or ends, stays right while its link stays as it was.
LEMMA JobStays ==
    ASSUME Inv, Kept(attempt, attempt'), NEW d \in Clerk,
           job'[d] = job[d] \/ job'[d] = Idle,
           job[d].kind = "settle" => link'[job[d].link] = link[job[d].link],
           \A l \in Link : link[l].ref # 0 => link'[l].ref # 0
    PROVE  JobIsRight(d)'
<1>1. CASE job'[d] = Idle
    BY <1>1 DEF Idle, JobIsRight, NoticeIsTrue, MovementIsSigned, Settling
<1>2. CASE job'[d] = job[d]
    <2>1. NoticeIsTrue(d)'
        <3> SUFFICES ASSUME job[d].kind = "notice"
                     PROVE  NoticeIsTrue(d)'
            BY <1>2 DEF NoticeIsTrue
        <3>1. /\ job[d].link \in Link /\ job[d].ref \in DOMAIN attempt
              /\ attempt[job[d].ref].state \in Outcomes
              /\ attempt[job[d].ref].link = job[d].link
              /\ job[d].link \notin Stripe => link[job[d].link].ref # 0
            BY JobKinds DEF Inv, Jobs, JobIsRight, NoticeIsTrue
        <3> QED BY <1>2, <3>1 DEF NoticeIsTrue, Kept
    <2>2. MovementIsSigned(d)'
        BY <1>2 DEF Inv, Jobs, JobIsRight, MovementIsSigned
    <2>3. Settling(d)'
        <3> SUFFICES ASSUME job[d].kind = "settle"
                     PROVE  Settling(d)'
            BY <1>2 DEF Settling
        <3> DEFINE l == job[d].link
        <3>1. /\ l \in Link /\ l \in Hold /\ link[l].status = "authorized"
              /\ job[d].amount <= AmountOf[l]
              /\ attempt[Operation(l)].state = IF job[d].amount = 0 THEN "released" ELSE "captured"
              /\ attempt[Operation(l)].taken = job[d].amount
            BY JobKinds DEF Inv, Jobs, JobIsRight, Settling
        <3>2. link'[l] = link[l]
            OBVIOUS
        <3>3. Operation(l)' = Operation(l)
            BY <1>2, <3>2 DEF Operation
        <3>4. Operation(l) \in DOMAIN attempt
            BY <3>1 DEF Inv, Operations, OnHold
        <3>5. /\ attempt'[Operation(l)].state = attempt[Operation(l)].state
              /\ attempt'[Operation(l)].taken = attempt[Operation(l)].taken
            BY <3>1, <3>4 DEF Kept
        <3>6. job'[d].link = l /\ job'[d].amount = job[d].amount
            BY <1>2
        <3> QED BY <3>1, <3>2, <3>3, <3>5, <3>6 DEF Settling
    <2> QED BY <2>1, <2>2, <2>3 DEF JobIsRight
<1> QED BY <1>1, <1>2

\* Links that are not settled may move among themselves; the books say nothing of them.
LEMMA BooksStay ==
    ASSUME Inv, Kept(attempt, attempt'), rows' = rows,
           \A l \in Link : \/ link'[l] = link[l]
                           \/ link[l].status \notin Settled /\ link'[l].status \notin Settled
    PROVE  Operations' /\ Books'
<1>1. Operations'
    <2> SUFFICES ASSUME NEW l \in Link, link'[l].status \in OnHold
                 PROVE  Operation(l)' \in DOMAIN attempt' /\ attempt'[Operation(l)'].link = l
        BY DEF Operations
    <2>1. link'[l] = link[l]
        BY DEF OnHold, Settled
    <2>2. Operation(l)' = Operation(l)
        BY <2>1 DEF Operation
    <2>3. Operation(l) \in DOMAIN attempt /\ attempt[Operation(l)].link = l
        BY <2>1 DEF Inv, Operations
    <2> QED BY <2>2, <2>3 DEF Kept
<1>2. RecordedOnce'
    <2> SUFFICES ASSUME NEW l \in Link
                 PROVE  {i \in Online(l) : rows[i].amount > 0} =
                           IF link'[l].status \in Settled THEN {link'[l].payment} ELSE {}
        BY DEF RecordedOnce, Online
    <2>1. {i \in Online(l) : rows[i].amount > 0} =
             IF link[l].status \in Settled THEN {link[l].payment} ELSE {}
        BY DEF Inv, Books, RecordedOnce
    <2> QED BY <2>1
<1>3. RowsHaveAttempts'
    BY DEF Inv, Books, RowsHaveAttempts, Kept
<1>4. OnlyRealMoney'
    <2> SUFFICES ASSUME NEW l \in Link, NEW i \in Online(l), rows[i].amount > 0
                 PROVE  /\ rows[i].amount = AmountOf[l] /\ rows[i].res = ResOf[l]
                        /\ attempt'[rows[i].ref].link = l
                        /\ attempt'[rows[i].ref].state \in Charged
        BY DEF OnlyRealMoney, Online
    <2>1. rows[i].ref \in DOMAIN attempt
        BY DEF Inv, Books, RowsHaveAttempts, Online
    <2> QED BY <2>1 DEF Inv, Books, OnlyRealMoney, Kept
<1>5. DepositsAreSettled'
    <2> SUFFICES ASSUME NEW l \in Hold PROVE DepositIsSettled(l)'
        BY DEF DepositsAreSettled, DepositIsSettled
    <2>1. l \in Link /\ DepositIsSettled(l)
        BY PaymentsAssumption DEF Inv, Books, DepositsAreSettled, DepositIsSettled
    <2>2. CASE link'[l] = link[l]
        <3>1. Operation(l)' = Operation(l)
            BY <2>2 DEF Operation
        <3>2. CASE link[l].status \in {"captured", "released"}
            <4>1. Operation(l) \in DOMAIN attempt
                BY <2>1, <3>2 DEF Inv, Operations, OnHold
            <4>2. attempt[Operation(l)].state = link[l].status
                BY <2>1, <3>2 DEF DepositIsSettled
            <4>3. /\ attempt'[Operation(l)].state = attempt[Operation(l)].state
                  /\ attempt'[Operation(l)].taken = attempt[Operation(l)].taken
                BY <3>2, <4>1, <4>2 DEF Kept
            <4> QED BY <2>1, <2>2, <3>1, <3>2, <4>3 DEF DepositIsSettled, Online
        <3>3. CASE link[l].status \notin {"captured", "released"}
            BY <2>1, <2>2, <3>3 DEF DepositIsSettled, Online
        <3> QED BY <3>2, <3>3
    <2>3. CASE link[l].status \notin Settled /\ link'[l].status \notin Settled
        BY <2>1, <2>3 DEF DepositIsSettled, Online, Settled
    <2> QED BY <2>1, <2>2, <2>3
<1> QED BY <1>1, <1>2, <1>3, <1>4, <1>5 DEF Books

\* One request moves, the others stay or end.
LEMMA JobsStay ==
    ASSUME Inv, Kept(attempt, attempt'), NEW c \in Clerk, JobIsRight(c)',
           \A d \in Clerk \ {c} :
              /\ job'[d] = job[d] \/ job'[d] = Idle
              /\ job[d].kind = "settle" => link'[job[d].link] = link[job[d].link],
           job'[c].kind = "settle" =>
              \A d \in Clerk \ {c} : job[d].kind = "settle" => job[d].link # job'[c].link,
           \A l \in Link : link[l].ref # 0 => link'[l].ref # 0
    PROVE  Jobs'
<1>1. ASSUME NEW d \in Clerk PROVE JobIsRight(d)'
    <2>1. CASE d = c
        BY <2>1 DEF JobIsRight, NoticeIsTrue, MovementIsSigned, Settling, Operation
    <2>2. CASE d # c
        BY <2>2, JobStays
    <2> QED BY <2>1, <2>2
<1>2. \A d \in Clerk \ {c} : job'[d].kind = "settle" => job'[d] = job[d]
    BY DEF Idle
<1>3. OneSettles'
    BY <1>2 DEF Inv, Jobs, OneSettles
<1> QED BY <1>1, <1>3 DEF Jobs

LEMMA ReferencesStay ==
    ASSUME Inv, Kept(attempt, attempt'), \A l \in Link : link'[l].ref = link[l].ref
    PROVE  References'
<1> SUFFICES ASSUME NEW l \in Link, link[l].ref # 0
             PROVE  link[l].ref \in DOMAIN attempt' /\ attempt'[link[l].ref].link = l
    BY DEF References
<1>1. link[l].ref \in DOMAIN attempt /\ attempt[link[l].ref].link = l
    BY DEF Inv, References
<1> QED BY <1>1 DEF Kept

\* A step that writes no payment and touches no link: requests come and go, and the
\* gateways go on.
LEMMA QuietStep ==
    ASSUME Inv, Kept(attempt, attempt'), rows' = rows, link' = link, NEW c \in Clerk,
           NEW new \in {Idle} \cup RegisterJob \cup NoticeJob \cup SettleJob,
           job' = [job EXCEPT ![c] = new], JobIsRight(c)',
           new.kind = "settle" =>
              \A d \in Clerk \ {c} : job[d].kind = "settle" => job[d].link # new.link
    PROVE  Inv'
<1>0. /\ job' \in [Clerk -> {Idle} \cup RegisterJob \cup NoticeJob \cup SettleJob]
      /\ job'[c] = new /\ \A d \in Clerk \ {c} : job'[d] = job[d]
    BY JobMoves DEF Inv
<1>1. TypeOK'
    BY <1>0 DEF Inv, TypeOK, Kept
<1>2. Jobs'
    BY <1>0, JobsStay
<1>3. References'
    BY ReferencesStay
<1>4. \A l \in Link : \/ link'[l] = link[l]
                      \/ link[l].status \notin Settled /\ link'[l].status \notin Settled
    OBVIOUS
<1>5. Operations' /\ Books'
    BY <1>4, BooksStay
<1> QED BY <1>1, <1>2, <1>3, <1>5 DEF Inv

\* A row of a link.
LEMMA LinkMoves ==
    ASSUME TypeOK, NEW l \in Link, NEW new \in OnlinePayment, link' = [link EXCEPT ![l] = new]
    PROVE  /\ link' \in [Link -> OnlinePayment]
           /\ link'[l] = new /\ \A k \in Link \ {l} : link'[k] = link[k]
BY DEF TypeOK

\* A step that moves links that nobody is settling, and may end a request.
LEMMA LinkStep ==
    ASSUME Inv, Kept(attempt, attempt'), rows' = rows,
           link' \in [Link -> OnlinePayment],
           \A l \in Link : \/ link'[l] = link[l]
                           \/ link[l].status \notin Settled /\ link'[l].status \notin Settled,
           \A l \in Link : link[l].ref # 0 => link'[l].ref # 0,
           References',
           job' = job \/ \E c \in Clerk : job' = [job EXCEPT ![c] = Idle]
    PROVE  Inv'
<1>1. /\ job' \in [Clerk -> {Idle} \cup RegisterJob \cup NoticeJob \cup SettleJob]
      /\ \A d \in Clerk : job'[d] = job[d] \/ job'[d] = Idle
    BY JobMoves DEF Inv, TypeOK
<1>2. TypeOK'
    BY <1>1 DEF Inv, TypeOK, Kept
<1>3. \A d \in Clerk : JobIsRight(d)'
    <2>1. ASSUME NEW d \in Clerk, job[d].kind = "settle"
          PROVE  link'[job[d].link] = link[job[d].link]
        <3>1. job[d].link \in Link /\ link[job[d].link].status = "authorized"
            BY <2>1, JobKinds DEF Inv, Jobs, JobIsRight, Settling
        <3> QED BY <3>1 DEF Settled
    <2> QED BY <1>1, <2>1, JobStays
<1>4. OneSettles'
    <2>1. \A d \in Clerk : job'[d].kind = "settle" => job'[d] = job[d]
        BY <1>1 DEF Idle
    <2> QED BY <2>1 DEF Inv, Jobs, OneSettles
<1>5. Operations' /\ Books'
    BY BooksStay
<1> QED BY <1>2, <1>3, <1>4, <1>5 DEF Inv, Jobs

-----------------------------------------------------------------------------
(* Steps *)

LEMMA IdleIsRight == ASSUME NEW c \in Clerk, job'[c] = Idle PROVE JobIsRight(c)'
BY DEF JobIsRight, NoticeIsTrue, MovementIsSigned, Settling, Idle

LEMMA RollbackKeeps == ASSUME Inv, NEW c \in Clerk, Rollback(c) PROVE Inv'
<1>1. job' = [job EXCEPT ![c] = Idle] /\ rows' = rows /\ link' = link /\ attempt' = attempt
    BY DEF Rollback, Done
<1>2. Kept(attempt, attempt')
    BY <1>1, NothingKept DEF Inv
<1>3. JobIsRight(c)'
    BY <1>1, JobMoves, IdleIsRight DEF Inv
<1>4. Idle.kind # "settle"
    BY DEF Idle
<1> QED BY <1>1, <1>2, <1>3, <1>4, QuietStep

\* A movement of the counter that is accepted.
LEMMA MovementKeeps ==
    ASSUME Inv, NEW c \in Clerk, NEW r \in Reservation, NEW type \in RentalTypes \cup DepositTypes,
           NEW amount \in Amounts, UNCHANGED <<rows, link, attempt>>,
           Start(c, [kind |-> "register", row |-> Row(r, type, amount, NoLink, 0)])
    PROVE  Inv'
<1> DEFINE new == [kind |-> "register", row |-> Row(r, type, amount, NoLink, 0)]
<1>1. amount \in Nat \ {0}
    BY PaymentsAssumption
<1>2. /\ new \in RegisterJob /\ new.kind = "register" /\ new.row.link = NoLink
      /\ IF new.row.type \in OutgoingTypes THEN new.row.amount < 0 ELSE new.row.amount > 0
    BY <1>1, RowIsSigned DEF RegisterJob
<1> HIDE DEF new
<1>3. job' = [job EXCEPT ![c] = new] /\ rows' = rows /\ link' = link /\ attempt' = attempt
    BY DEF Start, new
<1>4. /\ job' \in [Clerk -> {Idle} \cup RegisterJob \cup NoticeJob \cup SettleJob]
      /\ job'[c] = new /\ \A d \in Clerk \ {c} : job'[d] = job[d]
    BY <1>2, <1>3, JobMoves DEF Inv
<1>5. JobIsRight(c)'
    BY <1>2, <1>4 DEF JobIsRight, NoticeIsTrue, MovementIsSigned, Settling
<1>6. Kept(attempt, attempt')
    BY <1>3, NothingKept DEF Inv
<1> QED BY <1>2, <1>3, <1>5, <1>6, QuietStep

LEMMA OpenRefundKeeps ==
    ASSUME Inv, NEW c \in Clerk, NEW i \in DOMAIN rows, NEW amount \in Amounts,
           OpenRefund(c, i, amount)
    PROVE  Inv'
<1> DEFINE type == IF rows[i].type \in DepositTypes THEN "deposit_return" ELSE "refund"
<1>1. rows[i].res \in Reservation
    <2>1. rows[i] \in Payment
        BY DEF Inv, TypeOK
    <2> QED BY <2>1 DEF Payment
<1>2. type \in RentalTypes \cup DepositTypes
    BY DEF RentalTypes, DepositTypes
<1>3. /\ Start(c, [kind |-> "register", row |-> Row(rows[i].res, type, amount, NoLink, 0)])
      /\ UNCHANGED <<rows, link, attempt>>
    BY DEF OpenRefund
<1> HIDE DEF type
<1> QED BY <1>1, <1>2, <1>3, MovementKeeps

LEMMA OpenPaymentKeeps ==
    ASSUME Inv, NEW c \in Clerk, NEW r \in Reservation, NEW type \in RentalTypes \cup DepositTypes,
           NEW amount \in Amounts, NEW allowed \in BOOLEAN, OpenPayment(c, r, type, amount, allowed)
    PROVE  Inv'
BY MovementKeeps DEF OpenPayment

\* The gateways, while nobody answers them: the books and the links stay.
LEMMA GatewayStep ==
    ASSUME Inv, Kept(attempt, attempt'), rows' = rows, link' = link,
           job' = job \/ \E c \in Clerk : job' = [job EXCEPT ![c] = Idle]
    PROVE  Inv'
<1>1. References'
    BY ReferencesStay
<1>2. \A l \in Link : \/ link'[l] = link[l]
                      \/ link[l].status \notin Settled /\ link'[l].status \notin Settled
    OBVIOUS
<1>3. link' \in [Link -> OnlinePayment]
    BY DEF Inv, TypeOK
<1> QED BY <1>1, <1>2, <1>3, LinkStep

LEMMA OutcomeKeeps ==
    ASSUME Inv, NEW a \in DOMAIN attempt, NEW state \in Outcomes, Outcome(a, state)
    PROVE  Inv'
<1> DEFINE new == [attempt[a] EXCEPT !.state = state]
<1>1. /\ attempt[a].state = "open" /\ attempt' = [attempt EXCEPT ![a] = new]
      /\ rows' = rows /\ link' = link /\ job' = job
    BY DEF Outcome
<1>2. attempt[a] \in Attempt
    BY DEF Inv, TypeOK
<1>3. new \in Attempt /\ new.link = attempt[a].link /\ new.state = state
    BY <1>2 DEF Attempt
<1> HIDE DEF new
<1>4. Kept(attempt, attempt')
    BY <1>1, <1>3, StateKept DEF Inv
<1> QED BY <1>1, <1>4, GatewayStep

LEMMA LapseKeeps == ASSUME Inv, NEW a \in DOMAIN attempt, Lapse(a) PROVE Inv'
<1> DEFINE new == [attempt[a] EXCEPT !.state = "lapsed"]
<1>1. /\ attempt[a].state = "held" /\ attempt' = [attempt EXCEPT ![a] = new]
      /\ rows' = rows /\ link' = link /\ job' = job
    BY DEF Lapse
<1>2. attempt[a] \in Attempt /\ "lapsed" \in Charged /\ "lapsed" \in Outcomes
    BY DEF Inv, TypeOK, Charged, Outcomes
<1>3. new \in Attempt /\ new.link = attempt[a].link /\ new.state = "lapsed"
    BY <1>2 DEF Attempt
<1> HIDE DEF new
<1>4. Kept(attempt, attempt')
    BY <1>1, <1>2, <1>3, StateKept DEF Inv
<1> QED BY <1>1, <1>4, GatewayStep

LEMMA DropNoticeKeeps == ASSUME Inv, NEW a \in DOMAIN attempt, DropNotice(a) PROVE Inv'
<1>1. /\ attempt' = [attempt EXCEPT ![a].told = TRUE]
      /\ rows' = rows /\ link' = link /\ job' = job
    BY DEF DropNotice
<1>2. Kept(attempt, attempt')
    BY <1>1, ToldKept DEF Inv
<1> QED BY <1>1, <1>2, GatewayStep

\* A notification is read: a link of Stripe is the one the session was made for, and a
\* link of Redsys has it as its last order.
LEMMA ReadNoticeKeeps == ASSUME Inv, NEW c \in Clerk, NEW a \in DOMAIN attempt, ReadNotice(c, a) PROVE Inv'
<1>1. PICK l \in Link : /\ Addressee(a, l)
                        /\ job' = [job EXCEPT ![c] = [kind |-> "notice", link |-> l, ref |-> a]]
    BY DEF ReadNotice, Start
<1> DEFINE new == [kind |-> "notice", link |-> l, ref |-> a]
<1>2. attempt[a].state \in Outcomes /\ rows' = rows /\ link' = link /\ attempt' = attempt
    BY DEF ReadNotice
<1>3. a \in Nat \ {0}
    BY DEF Inv, TypeOK
<1>4. attempt[a].link = l /\ (l \notin Stripe => link[l].ref # 0)
    BY <1>1, <1>3 DEF Addressee, Inv, References
<1>5. new \in NoticeJob /\ new.kind = "notice" /\ new.link = l /\ new.ref = a
    BY <1>3 DEF NoticeJob
<1> HIDE DEF new
<1>6. job' = [job EXCEPT ![c] = new]
    BY <1>1 DEF new
<1>7. job'[c] = new
    BY <1>5, <1>6, JobMoves DEF Inv
<1>8. JobIsRight(c)'
    BY <1>2, <1>4, <1>5, <1>7 DEF JobIsRight, NoticeIsTrue, MovementIsSigned, Settling
<1>9. Kept(attempt, attempt')
    BY <1>2, NothingKept DEF Inv
<1> QED BY <1>2, <1>5, <1>6, <1>8, <1>9, QuietStep

\* The answer to a notification.
LEMMA AnswerKept ==
    ASSUME Inv, NEW c \in Clerk, job[c].kind = "notice", Answer(c)
    PROVE  Kept(attempt, attempt') /\ job' = [job EXCEPT ![c] = Idle]
<1>1. job[c].ref \in DOMAIN attempt
    BY DEF Inv, Jobs, JobIsRight, NoticeIsTrue
<1> QED BY <1>1, ToldKept DEF Answer, Done, Inv

LEMMA IgnoreNoticeKeeps == ASSUME Inv, NEW c \in Clerk, IgnoreNotice(c) PROVE Inv'
<1>1. job[c].kind = "notice" /\ Answer(c) /\ rows' = rows /\ link' = link
    BY DEF IgnoreNotice
<1> QED BY <1>1, AnswerKept, GatewayStep

\* The status of a link that is not settled.
LEMMA StatusStep ==
    ASSUME Inv, Kept(attempt, attempt'), rows' = rows, NEW l \in Link, NEW status \in OnlineStatus \ Settled,
           link[l].status \notin Settled, link' = [link EXCEPT ![l].status = status],
           job' = job \/ \E c \in Clerk : job' = [job EXCEPT ![c] = Idle]
    PROVE  Inv'
<1> DEFINE new == [link[l] EXCEPT !.status = status]
<1>1. link[l] \in OnlinePayment
    BY DEF Inv, TypeOK
<1>2. new \in OnlinePayment /\ new.status = status /\ new.ref = link[l].ref
    BY <1>1 DEF OnlinePayment
<1> HIDE DEF new
<1>3. link' = [link EXCEPT ![l] = new]
    BY DEF new
<1>4. /\ link' \in [Link -> OnlinePayment]
      /\ link'[l] = new /\ \A k \in Link \ {l} : link'[k] = link[k]
    BY <1>2, <1>3, LinkMoves DEF Inv
<1>5. \A k \in Link : link'[k].ref = link[k].ref
    BY <1>2, <1>4
<1>6. References'
    BY <1>5, ReferencesStay
<1>7. \A k \in Link : \/ link'[k] = link[k]
                      \/ link[k].status \notin Settled /\ link'[k].status \notin Settled
    BY <1>2, <1>4
<1> QED BY <1>4, <1>5, <1>6, <1>7, LinkStep

LEMMA CreateLinkKeeps == ASSUME Inv, NEW l \in Link, CreateLink(l) PROVE Inv'
<1>1. /\ link[l].status = "none" /\ link' = [link EXCEPT ![l].status = "created"]
      /\ rows' = rows /\ attempt' = attempt /\ job' = job
    BY DEF CreateLink
<1>2. "none" \notin Settled /\ "created" \in OnlineStatus \ Settled
    BY DEF OnlineStatus, Settled, Open
<1> QED BY <1>1, <1>2, NothingKept, StatusStep DEF Inv

LEMMA CancelLinkKeeps == ASSUME Inv, NEW l \in Link, CancelLink(l) PROVE Inv'
<1>1. /\ link[l].status \in Open /\ link' = [link EXCEPT ![l].status = "cancelled"]
      /\ rows' = rows /\ attempt' = attempt /\ job' = job
    BY DEF CancelLink
<1>2. Open \cap Settled = {} /\ "cancelled" \in OnlineStatus \ Settled
    BY DEF OnlineStatus, Settled, Open
<1> QED BY <1>1, <1>2, NothingKept, StatusStep DEF Inv

LEMMA ConfirmRefusalKeeps == ASSUME Inv, NEW c \in Clerk, ConfirmRefusal(c) PROVE Inv'
<1>1. /\ job[c].kind = "notice" /\ link[job[c].link].status \notin Settled
      /\ link' = [link EXCEPT ![job[c].link].status = "failed"]
      /\ Answer(c) /\ rows' = rows
    BY DEF ConfirmRefusal, FreshNotice
<1>2. job[c].link \in Link /\ "failed" \in OnlineStatus \ Settled
    BY <1>1, JobKinds DEF Inv, OnlineStatus, Settled
<1> QED BY <1>1, <1>2, AnswerKept, StatusStep

LEMMA CloseSessionKeeps == ASSUME Inv, NEW c \in Clerk, CloseSession(c) PROVE Inv'
<1> DEFINE status == IF attempt[job[c].ref].state = "expired" THEN "expired" ELSE "failed"
<1>1. /\ job[c].kind = "notice" /\ link[job[c].link].status \notin Settled
      /\ link' = [link EXCEPT ![job[c].link].status = status]
      /\ Answer(c) /\ rows' = rows
    BY DEF CloseSession, FreshNotice
<1>2. job[c].link \in Link /\ status \in OnlineStatus \ Settled
    BY <1>1, JobKinds DEF Inv, OnlineStatus, Settled
<1> HIDE DEF status
<1> QED BY <1>1, <1>2, AnswerKept, StatusStep

LEMMA ExpireOldLinksKeeps == ASSUME Inv, NEW old \in SUBSET Link, ExpireOldLinks(old) PROVE Inv'
<1>1. /\ \A l \in old : link[l].status \in Open
      /\ link' = [l \in Link |-> IF l \in old THEN [link[l] EXCEPT !.status = "expired"] ELSE link[l]]
      /\ rows' = rows /\ attempt' = attempt /\ job' = job
    BY DEF ExpireOldLinks
<1>2. Kept(attempt, attempt')
    BY <1>1, NothingKept DEF Inv
<1>3. \A l \in Link : link[l] \in OnlinePayment
    BY DEF Inv, TypeOK
<1>4. ASSUME NEW l \in Link
      PROVE  /\ link'[l] \in OnlinePayment /\ link'[l].ref = link[l].ref
             /\ \/ link'[l] = link[l]
                \/ link[l].status \notin Settled /\ link'[l].status \notin Settled
    <2>1. CASE l \in old
        <3>1. link'[l] = [link[l] EXCEPT !.status = "expired"] /\ link[l].status \in Open
            BY <1>1, <2>1
        <3>2. Open \cap Settled = {} /\ "expired" \in OnlineStatus \ Settled
            BY DEF OnlineStatus, Settled, Open
        <3> QED BY <1>3, <3>1, <3>2 DEF OnlinePayment
    <2>2. CASE l \notin old
        BY <1>1, <1>3, <2>2
    <2> QED BY <2>1, <2>2
<1>5. link' \in [Link -> OnlinePayment]
    BY <1>1, <1>4
<1>6. References'
    BY <1>2, <1>4, ReferencesStay
<1> QED BY <1>1, <1>2, <1>4, <1>5, <1>6, LinkStep

\* A new checkout is the last order of its link, and its own.
LEMMA StartCheckoutKeeps == ASSUME Inv, NEW l \in Link, StartCheckout(l) PROVE Inv'
<1> DEFINE n == Len(attempt) + 1
           new == [link[l] EXCEPT !.status = "pending", !.ref = n]
<1>1. /\ link[l].status \in Open
      /\ attempt' = Append(attempt, Checkout(l))
      /\ link' = [link EXCEPT ![l].status = "pending", ![l].ref = Len(attempt')]
      /\ rows' = rows /\ job' = job
    BY DEF StartCheckout
<1>2. attempt \in Seq(Attempt) /\ Checkout(l) \in Attempt /\ Checkout(l).link = l
    BY DEF Inv, TypeOK, Checkout, Attempt
<1>3. /\ attempt' \in Seq(Attempt) /\ Len(attempt') = n /\ n \in DOMAIN attempt'
      /\ n \in Nat \ {0} /\ attempt'[n].link = l
      /\ \A a \in DOMAIN attempt : a \in DOMAIN attempt' /\ attempt'[a] = attempt[a]
    BY <1>1, <1>2
<1>4. Kept(attempt, attempt')
    BY <1>3 DEF Kept
<1> HIDE DEF n
<1>5. link[l] \in OnlinePayment
    BY DEF Inv, TypeOK
<1>6. new \in OnlinePayment /\ new.status = "pending" /\ new.ref = n
    BY <1>3, <1>5 DEF OnlinePayment, OnlineStatus, Open
<1>7. link' = [link EXCEPT ![l] = new]
    BY <1>1, <1>3
<1> HIDE DEF new
<1>8. /\ link' \in [Link -> OnlinePayment]
      /\ link'[l] = new /\ \A k \in Link \ {l} : link'[k] = link[k]
    BY <1>6, <1>7, LinkMoves DEF Inv
<1>9. References'
    <2> SUFFICES ASSUME NEW k \in Link, link'[k].ref # 0
                 PROVE  link'[k].ref \in DOMAIN attempt' /\ attempt'[link'[k].ref].link = k
        BY DEF References
    <2>1. CASE k = l
        BY <1>3, <1>6, <1>8, <2>1
    <2>2. CASE k # l
        BY <1>3, <1>8, <2>2 DEF Inv, References
    <2> QED BY <2>1, <2>2
<1>10. \A k \in Link : \/ link'[k] = link[k]
                       \/ link[k].status \notin Settled /\ link'[k].status \notin Settled
    BY <1>1, <1>6, <1>8 DEF Open, Settled
<1>11. \A k \in Link : link[k].ref # 0 => link'[k].ref # 0
    BY <1>3, <1>6, <1>8
<1> QED BY <1>1, <1>4, <1>8, <1>9, <1>10, <1>11, LinkStep

\* What the books say of a link.
BooksOf(l) ==
    /\ {i \in Online(l) : rows[i].amount > 0} =
          IF link[l].status \in Settled THEN {link[l].payment} ELSE {}
    /\ \A i \in Online(l) : rows[i].amount > 0 =>
          /\ rows[i].amount = AmountOf[l] /\ rows[i].res = ResOf[l]
          /\ attempt[rows[i].ref].link = l
          /\ attempt[rows[i].ref].state \in Charged
    /\ l \in Hold => DepositIsSettled(l)

LEMMA BooksAreOfLinks == Books <=> RowsHaveAttempts /\ \A l \in Link : BooksOf(l)
BY PaymentsAssumption DEF Books, BooksOf, RecordedOnce, OnlyRealMoney, DepositsAreSettled

\* A link that nobody touches, and that no new row is of.
LEMMA BooksOfOthersStay ==
    ASSUME Inv, Kept(attempt, attempt'), NEW l \in Link, link'[l] = link[l],
           {i \in DOMAIN rows' : rows'[i].link = l} = Online(l),
           \A i \in Online(l) : rows'[i] = rows[i]
    PROVE  BooksOf(l)'
<1>1. BooksOf(l) /\ RowsHaveAttempts
    BY BooksAreOfLinks DEF Inv
<1>2. Online(l)' = Online(l)
    BY DEF Online
<1>3. {i \in Online(l) : rows'[i].amount > 0} = {i \in Online(l) : rows[i].amount > 0}
    OBVIOUS
<1>4. \A i \in Online(l) : rows'[i].amount > 0 =>
         /\ rows'[i].amount = AmountOf[l] /\ rows'[i].res = ResOf[l]
         /\ attempt'[rows'[i].ref].link = l
         /\ attempt'[rows'[i].ref].state \in Charged
    BY <1>1 DEF BooksOf, RowsHaveAttempts, Kept, Online
<1>5. l \in Hold => DepositIsSettled(l)'
    <2> DEFINE a == Operation(l)
    <2> SUFFICES ASSUME l \in Hold PROVE DepositIsSettled(l)'
        OBVIOUS
    <2>1. Operation(l)' = a
        BY DEF Operation
    <2>2. {i \in Online(l) : rows'[i].amount < 0} = {i \in Online(l) : rows[i].amount < 0}
        OBVIOUS
    <2>3. CASE link[l].status \in {"captured", "released"}
        <3>1. a \in DOMAIN attempt
            BY <2>3 DEF Inv, Operations, OnHold
        <3>2. attempt[a].state = link[l].status
            BY <1>1, <2>3 DEF BooksOf, DepositIsSettled
        <3>3. attempt'[a].state = attempt[a].state /\ attempt'[a].taken = attempt[a].taken
            BY <2>3, <3>1, <3>2 DEF Kept
        <3> QED BY <1>1, <1>2, <2>1, <2>2, <2>3, <3>3 DEF BooksOf, DepositIsSettled
    <2>4. CASE link[l].status \notin {"captured", "released"}
        BY <1>1, <1>2, <2>2, <2>4 DEF BooksOf, DepositIsSettled
    <2> QED BY <2>3, <2>4
<1> QED BY <1>1, <1>2, <1>3, <1>4, <1>5 DEF BooksOf

\* A payment of the counter is of no link.
LEMMA WritePaymentKeeps == ASSUME Inv, NEW c \in Clerk, WritePayment(c) PROVE Inv'
<1> DEFINE row == job[c].row
<1>1. /\ job[c].kind = "register" /\ rows' = Append(rows, row)
      /\ job' = [job EXCEPT ![c] = Idle] /\ link' = link /\ attempt' = attempt
    BY DEF WritePayment, Done
<1>2. row \in Payment /\ IF row.type \in OutgoingTypes THEN row.amount < 0 ELSE row.amount > 0
    BY <1>1, JobKinds DEF Inv, Jobs, JobIsRight, MovementIsSigned
<1>3. row.link \notin Link
    BY <1>1, PaymentsAssumption DEF Inv, Jobs, JobIsRight, MovementIsSigned
<1> HIDE DEF row
<1>4. /\ rows' \in Seq(Payment) /\ Signs(rows') /\ Len(rows) \in Nat
      /\ DOMAIN rows = 1 .. Len(rows) /\ DOMAIN rows' = 1 .. Len(rows) + 1
      /\ \A i \in DOMAIN rows : rows'[i] = rows[i]
      /\ rows'[Len(rows) + 1] = row
      /\ \A l : {i \in DOMAIN rows' : rows'[i].link = l} =
                  Online(l) \cup IF row.link = l THEN {Len(rows) + 1} ELSE {}
    BY <1>1, <1>2, AppendIsBook DEF Inv
<1>5. Kept(attempt, attempt')
    BY <1>1, NothingKept DEF Inv
<1>6. /\ job' \in [Clerk -> {Idle} \cup RegisterJob \cup NoticeJob \cup SettleJob]
      /\ job'[c] = Idle /\ \A d \in Clerk \ {c} : job'[d] = job[d]
    BY <1>1, JobMoves DEF Inv
<1>7. TypeOK'
    BY <1>1, <1>4, <1>6 DEF Inv, TypeOK, Signs
<1>8. Jobs'
    <2>1. JobIsRight(c)' /\ job'[c].kind # "settle"
        BY <1>6, IdleIsRight DEF Idle
    <2> QED BY <1>1, <1>5, <1>6, <2>1, JobsStay
<1>9. References' /\ Operations'
    BY <1>1 DEF Inv, References, Operations, Operation
<1>10. RowsHaveAttempts'
    BY <1>1, <1>3, <1>4 DEF Inv, Books, RowsHaveAttempts
<1>11. ASSUME NEW l \in Link PROVE BooksOf(l)'
    <2>1. {i \in DOMAIN rows' : rows'[i].link = l} = Online(l)
        BY <1>3, <1>4
    <2>2. \A i \in Online(l) : rows'[i] = rows[i]
        BY <1>4 DEF Online
    <2> QED BY <1>1, <1>5, <2>1, <2>2, BooksOfOthersStay
<1>12. (RowsHaveAttempts /\ \A l \in Link : BooksOf(l))'
    BY <1>10, <1>11
<1>13. Books'
    BY <1>12, BooksAreOfLinks, PTL
<1> QED BY <1>7, <1>8, <1>9, <1>13 DEF Inv

\* The first confirmation of a charge: the link had no payment and now has this one.
LEMMA ConfirmChargeKeeps == ASSUME Inv, NEW c \in Clerk, ConfirmCharge(c) PROVE Inv'
<1> DEFINE l == job[c].link
           a == job[c].ref
           n == Len(rows) + 1
           type == IF l \in Hold THEN "deposit" ELSE "payment"
           row == Row(ResOf[l], type, AmountOf[l], l, a)
           status == IF l \in Hold THEN "authorized" ELSE "paid"
           intent == IF l \in Stripe THEN a ELSE link[l].intent
           new == [link[l] EXCEPT !.status = status, !.intent = intent, !.payment = n]
<1>1. /\ job[c].kind = "notice" /\ link[l].status \notin Settled
      /\ attempt[a].state \in Charged
      /\ rows' = Append(rows, row)
      /\ link' = [link EXCEPT ![l].status = status,
                              ![l].intent = IF l \in Stripe THEN a ELSE @,
                              ![l].payment = Len(rows')]
      /\ Answer(c)
    BY DEF ConfirmCharge, FreshNotice
<1>2. l \in Link /\ a \in Nat
    BY <1>1, JobKinds DEF Inv
<1>3. a \in DOMAIN attempt /\ attempt[a].link = l /\ (l \notin Stripe => link[l].ref # 0)
    BY <1>1 DEF Inv, Jobs, JobIsRight, NoticeIsTrue
<1>4. Kept(attempt, attempt') /\ job' = [job EXCEPT ![c] = Idle]
    BY <1>1, AnswerKept
<1>5. type \in {"deposit", "payment"} /\ ResOf[l] \in Reservation /\ AmountOf[l] \in Nat \ {0}
    BY <1>2, PaymentsAssumption
<1>6. /\ row \in Payment /\ row.type \notin OutgoingTypes /\ row.amount = AmountOf[l]
      /\ row.amount > 0 /\ row.link = l /\ row.ref = a /\ row.res = ResOf[l]
    <2> HIDE DEF type, l, a
    <2> QED BY <1>2, <1>5, RowIsSigned DEF RentalTypes, DepositTypes, OutgoingTypes
<1> HIDE DEF row, type
<1>7. /\ rows' \in Seq(Payment) /\ Signs(rows') /\ Len(rows) \in Nat /\ Len(rows') = n
      /\ DOMAIN rows = 1 .. Len(rows) /\ DOMAIN rows' = 1 .. Len(rows) + 1
      /\ \A i \in DOMAIN rows : rows'[i] = rows[i]
      /\ rows'[n] = row
      /\ \A k : {i \in DOMAIN rows' : rows'[i].link = k} =
                  Online(k) \cup IF row.link = k THEN {n} ELSE {}
    BY <1>1, <1>6, AppendIsBook DEF Inv
<1>8. link[l] \in OnlinePayment
    BY <1>2 DEF Inv, TypeOK
<1>9. /\ new \in OnlinePayment /\ new.status = status /\ new.ref = link[l].ref
      /\ new.intent = intent /\ new.payment = n
    <2> HIDE DEF l, a
    <2>1. intent \in Nat
        BY <1>2, <1>8 DEF OnlinePayment
    <2>2. status \in Settled /\ status \in OnlineStatus
        BY DEF Settled, OnlineStatus
    <2>3. n \in Nat
        BY <1>7
    <2> HIDE DEF intent, status, n
    <2> QED BY <1>8, <2>1, <2>2, <2>3 DEF OnlinePayment
<1>10. link' = [link EXCEPT ![l] = new]
    BY <1>1, <1>7, <1>8
<1> HIDE DEF new, n
<1>11. /\ link' \in [Link -> OnlinePayment]
       /\ link'[l] = new /\ \A k \in Link \ {l} : link'[k] = link[k]
    BY <1>2, <1>9, <1>10, LinkMoves DEF Inv
<1>12. /\ job' \in [Clerk -> {Idle} \cup RegisterJob \cup NoticeJob \cup SettleJob]
       /\ job'[c] = Idle /\ \A d \in Clerk \ {c} : job'[d] = job[d]
    BY <1>4, JobMoves DEF Inv
<1>13. TypeOK'
    BY <1>4, <1>7, <1>11, <1>12 DEF Inv, TypeOK, Signs, Kept
<1>14. \A k \in Link : link'[k].ref = link[k].ref
    BY <1>9, <1>11
<1>15. Jobs'
    <2>1. JobIsRight(c)' /\ job'[c].kind # "settle"
        BY <1>12, IdleIsRight DEF Idle
    <2>2. ASSUME NEW d \in Clerk \ {c}, job[d].kind = "settle"
          PROVE  link'[job[d].link] = link[job[d].link]
        <3>1. job[d].link \in Link /\ link[job[d].link].status = "authorized"
            BY <2>2, JobKinds DEF Inv, Jobs, JobIsRight, Settling
        <3>2. job[d].link # l
            BY <1>1, <3>1 DEF Settled
        <3> QED BY <1>11, <3>1, <3>2
    <2> QED BY <1>4, <1>12, <1>14, <2>1, <2>2, JobsStay
<1>16. References'
    BY <1>4, <1>14, ReferencesStay
<1>17. Operations'
    <2> SUFFICES ASSUME NEW k \in Link, link'[k].status \in OnHold
                 PROVE  Operation(k)' \in DOMAIN attempt' /\ attempt'[Operation(k)'].link = k
        BY DEF Operations
    <2>1. CASE k = l
        <3>1. CASE l \in Stripe
            BY <1>3, <1>4, <1>9, <1>11, <2>1, <3>1 DEF Operation, Kept
        <3>2. CASE l \notin Stripe
            <4>1. link[l].ref \in DOMAIN attempt /\ attempt[link[l].ref].link = l
                BY <1>2, <1>3, <3>2 DEF Inv, References
            <4> QED BY <1>4, <1>9, <1>11, <2>1, <3>2, <4>1 DEF Operation, Kept
        <3> QED BY <3>1, <3>2
    <2>2. CASE k # l
        <3>1. link'[k] = link[k]
            BY <1>11, <2>2
        <3>2. Operation(k) \in DOMAIN attempt /\ attempt[Operation(k)].link = k
            BY <3>1 DEF Inv, Operations
        <3> QED BY <1>4, <3>1, <3>2 DEF Operation, Kept
    <2> QED BY <2>1, <2>2
<1>18. RowsHaveAttempts'
    <2> SUFFICES ASSUME NEW i \in DOMAIN rows', rows'[i].link \in Link, rows'[i].amount > 0
                 PROVE  rows'[i].ref \in DOMAIN attempt'
        BY DEF RowsHaveAttempts
    <2>1. CASE i = n
        BY <1>3, <1>4, <1>6, <1>7, <2>1 DEF Kept
    <2>2. CASE i \in DOMAIN rows
        BY <1>4, <1>7, <2>2 DEF Inv, Books, RowsHaveAttempts, Kept
    <2> QED BY <1>7, <2>1, <2>2 DEF n
<1>19. ASSUME NEW k \in Link PROVE BooksOf(k)'
    <2>1. CASE k # l
        <3>1. {i \in DOMAIN rows' : rows'[i].link = k} = Online(k)
            BY <1>6, <1>7, <2>1
        <3>2. \A i \in Online(k) : rows'[i] = rows[i]
            BY <1>7 DEF Online
        <3> QED BY <1>4, <1>11, <2>1, <3>1, <3>2, BooksOfOthersStay
    <2>2. CASE k = l
        <3>1. BooksOf(l) /\ RowsHaveAttempts
            BY <1>2, BooksAreOfLinks DEF Inv
        <3>2. {i \in Online(l) : rows[i].amount > 0} = {}
            BY <1>1, <3>1 DEF BooksOf
        <3>3. Online(k)' = Online(l) \cup {n}
            BY <1>6, <1>7, <2>2 DEF Online
        <3>4. \A i \in Online(l) : rows'[i] = rows[i] /\ ~(rows[i].amount > 0)
            BY <1>7, <3>2 DEF Online
        <3>5. link'[k].status \in Settled /\ link'[k].payment = n
              /\ link'[k].status \notin {"captured", "released"}
            BY <1>9, <1>11, <2>2 DEF Settled
        <3>6. {i \in Online(k)' : rows'[i].amount > 0} = {n}
            BY <1>6, <1>7, <3>3, <3>4
        <3>7. ASSUME NEW i \in Online(k)', rows'[i].amount > 0
              PROVE  /\ rows'[i].amount = AmountOf[k] /\ rows'[i].res = ResOf[k]
                     /\ attempt'[rows'[i].ref].link = k
                     /\ attempt'[rows'[i].ref].state \in Charged
            <4> HIDE DEF l, a
            <4>1. i = n /\ rows'[i] = row
                BY <1>7, <3>6, <3>7
            <4>2. attempt'[a].link = l /\ attempt'[a].state \in Charged
                BY <1>1, <1>3, <1>4 DEF Kept
            <4> QED BY <1>6, <2>2, <4>1, <4>2
        <3>8. k \in Hold => DepositIsSettled(k)'
            <4> SUFFICES ASSUME k \in Hold PROVE DepositIsSettled(k)'
                OBVIOUS
            <4>1. {i \in Online(l) : rows[i].amount < 0} = {}
                BY <1>1, <2>2, <3>1 DEF BooksOf, DepositIsSettled, Settled
            <4>2. {i \in Online(k)' : rows'[i].amount < 0} = {}
                <5> HIDE DEF l, a
                <5> QED BY <1>5, <1>6, <1>7, <3>3, <3>4, <4>1
            <4> QED BY <3>5, <4>2 DEF DepositIsSettled
        <3> QED BY <3>5, <3>6, <3>7, <3>8 DEF BooksOf
    <2> QED BY <2>1, <2>2
<1>20. (RowsHaveAttempts /\ \A k \in Link : BooksOf(k))'
    BY <1>18, <1>19
<1>21. Books'
    BY <1>20, BooksAreOfLinks, PTL
<1> QED BY <1>13, <1>15, <1>16, <1>17, <1>21 DEF Inv

\* The gateway has done it, and the row, which is still "authorized", is taken.
LEMMA CallGatewayKeeps ==
    ASSUME Inv, NEW c \in Clerk, NEW l \in Hold, NEW amount \in 0 .. AmountOf[l],
           CallGateway(c, l, amount)
    PROVE  Inv'
<1> DEFINE a == Operation(l)
           state == IF amount = 0 THEN "released" ELSE "captured"
           done == [attempt[a] EXCEPT !.state = state, !.taken = amount]
           new == [kind |-> "settle", link |-> l, amount |-> amount, checked |-> FALSE]
<1>1. /\ LinkFree(l) /\ link[l].status = "authorized" /\ attempt[a].state = "held"
      /\ attempt' = [attempt EXCEPT ![a].state = state, ![a].taken = amount]
      /\ job' = [job EXCEPT ![c] = new] /\ rows' = rows /\ link' = link
    BY DEF CallGateway, Grants, Start
<1>2. l \in Link /\ AmountOf[l] \in Nat /\ amount \in Nat /\ amount <= AmountOf[l]
    BY PaymentsAssumption
<1>3. a \in DOMAIN attempt /\ attempt[a].link = l
    BY <1>1, <1>2 DEF Inv, Operations, OnHold
<1>4. Operation(l)' = a
    BY <1>1 DEF Operation
<1> HIDE DEF a
<1>5. attempt[a] \in Attempt
    BY <1>3 DEF Inv, TypeOK
<1>6. /\ done \in Attempt /\ done.link = attempt[a].link
      /\ done.state = state /\ done.taken = amount /\ state \in Charged /\ state \in Outcomes
    BY <1>2, <1>5 DEF Attempt, Charged, Outcomes
<1>7. attempt' = [attempt EXCEPT ![a] = done]
    BY <1>1
<1> HIDE DEF done
<1>8. Kept(attempt, attempt') /\ attempt'[a] = done
    <2>1. done.state \in Outcomes /\ done.state \in Charged
        BY <1>6
    <2> HIDE DEF state
    <2> QED BY <1>1, <1>3, <1>6, <1>7, <2>1, StateKept DEF Inv
<1>9. /\ new \in SettleJob /\ new.kind = "settle" /\ new.link = l /\ new.amount = amount
    BY <1>2 DEF SettleJob
<1> HIDE DEF new
<1>10. job'[c] = new
    BY <1>1, <1>9, JobMoves DEF Inv
<1>11. JobIsRight(c)'
    <2>1. Settling(c)'
        BY <1>1, <1>2, <1>4, <1>6, <1>8, <1>9, <1>10 DEF Settling
    <2> QED BY <1>9, <1>10, <2>1 DEF JobIsRight, NoticeIsTrue, MovementIsSigned
<1>12. \A d \in Clerk \ {c} : job[d].kind = "settle" => job[d].link # new.link
    BY <1>1, <1>9 DEF LinkFree
<1> QED BY <1>1, <1>8, <1>9, <1>11, <1>12, QuietStep

LEMMA CheckReturnKeeps == ASSUME Inv, NEW c \in Clerk, CheckReturn(c) PROVE Inv'
<1> DEFINE new == [job[c] EXCEPT !.checked = TRUE]
<1>1. /\ job[c].kind = "settle" /\ job' = [job EXCEPT ![c] = new]
      /\ rows' = rows /\ link' = link /\ attempt' = attempt
    BY DEF CheckReturn
<1>2. job[c] \in SettleJob
    BY <1>1, JobKinds DEF Inv
<1>3. /\ new \in SettleJob /\ new.kind = "settle"
      /\ new.link = job[c].link /\ new.amount = job[c].amount
    BY <1>2 DEF SettleJob
<1> HIDE DEF new
<1>4. job'[c] = new
    BY <1>1, <1>3, JobMoves DEF Inv
<1>5. Kept(attempt, attempt')
    BY <1>1, NothingKept DEF Inv
<1>6. JobIsRight(c)'
    <2> DEFINE l == job[c].link
    <2>1. Settling(c)
        BY DEF Inv, Jobs, JobIsRight
    <2>2. Operation(l)' = Operation(l)
        BY <1>1, <1>3, <1>4 DEF Operation
    <2>3. Settling(c)'
        BY <1>1, <1>3, <1>4, <2>1, <2>2 DEF Settling
    <2> QED BY <1>3, <1>4, <2>3 DEF JobIsRight, NoticeIsTrue, MovementIsSigned
<1>7. \A d \in Clerk \ {c} : job[d].kind = "settle" => job[d].link # new.link
    BY <1>1, <1>3 DEF Inv, Jobs, OneSettles
<1> QED BY <1>1, <1>3, <1>5, <1>6, <1>7, QuietStep

\* What was captured is written, and the rest returned, once: nobody else was settling
\* this link and nothing had been returned.
LEMMA SettleDepositKeeps == ASSUME Inv, NEW c \in Clerk, SettleDeposit(c) PROVE Inv'
<1> DEFINE l == job[c].link
           amount == job[c].amount
           n == Len(rows) + 1
           a == Operation(l)
           row == Row(ResOf[l], "deposit_return", AmountOf[l] - amount, l, a)
           status == IF amount = 0 THEN "released" ELSE "captured"
           new == [link[l] EXCEPT !.status = status, !.captured = amount]
<1>1. /\ job[c].kind = "settle" /\ rows' = IF amount = AmountOf[l] THEN rows ELSE Append(rows, row)
      /\ link' = [link EXCEPT ![l] = new]
      /\ job' = [job EXCEPT ![c] = Idle] /\ attempt' = attempt
    BY DEF SettleDeposit, Returned, Done
<1>2. l \in Link /\ amount \in Nat
    BY <1>1, JobKinds DEF Inv
<1>3. /\ l \in Hold /\ link[l].status = "authorized" /\ amount <= AmountOf[l]
      /\ attempt[a].state = status /\ attempt[a].taken = amount
    BY <1>1 DEF Inv, Jobs, JobIsRight, Settling
<1>4. ResOf[l] \in Reservation /\ AmountOf[l] \in Nat \ {0}
    BY <1>2, PaymentsAssumption
<1>5. a \in Nat /\ a \in DOMAIN attempt /\ attempt[a].link = l
    BY <1>2, <1>3 DEF Inv, TypeOK, Operations, OnHold
<1>6. link[l] \in OnlinePayment
    BY <1>2 DEF Inv, TypeOK
<1> HIDE DEF l, amount, a
<1>7. /\ new \in OnlinePayment /\ new.status = status /\ new.ref = link[l].ref
      /\ new.intent = link[l].intent /\ new.payment = link[l].payment /\ new.captured = amount
    BY <1>2, <1>6 DEF OnlinePayment, OnlineStatus, Settled
<1> HIDE DEF new
<1>8. /\ link' \in [Link -> OnlinePayment]
      /\ link'[l] = new /\ \A k \in Link \ {l} : link'[k] = link[k]
    BY <1>1, <1>2, <1>7, LinkMoves DEF Inv
<1>9. /\ job' \in [Clerk -> {Idle} \cup RegisterJob \cup NoticeJob \cup SettleJob]
      /\ job'[c] = Idle /\ \A d \in Clerk \ {c} : job'[d] = job[d]
    BY <1>1, JobMoves DEF Inv
<1>10. Kept(attempt, attempt')
    BY <1>1, NothingKept DEF Inv
<1>11. amount # AmountOf[l] =>
         /\ row \in Payment /\ row.type \in OutgoingTypes /\ row.amount = amount - AmountOf[l]
         /\ row.amount < 0 /\ row.link = l
    <2> SUFFICES ASSUME amount # AmountOf[l]
                 PROVE  /\ row \in Payment /\ row.type \in OutgoingTypes
                        /\ row.amount = amount - AmountOf[l] /\ row.amount < 0 /\ row.link = l
        OBVIOUS
    <2>1. AmountOf[l] - amount \in Nat \ {0}
        BY <1>2, <1>3, <1>4
    <2>2. "deposit_return" \in RentalTypes \cup DepositTypes /\ "deposit_return" \in OutgoingTypes
        BY DEF RentalTypes, DepositTypes, OutgoingTypes
    <2>3. /\ row \in Payment /\ row.type = "deposit_return" /\ row.link = l
          /\ row.amount = -(AmountOf[l] - amount)
        BY <1>2, <1>4, <1>5, <2>1, <2>2, RowIsSigned
    <2> HIDE DEF row
    <2> QED BY <1>2, <1>4, <2>1, <2>2, <2>3
<1> HIDE DEF row
<1>12. /\ rows' \in Seq(Payment) /\ Signs(rows')
       /\ \A i \in DOMAIN rows : i \in DOMAIN rows' /\ rows'[i] = rows[i]
       /\ \A k \in Link \ {l} : {i \in DOMAIN rows' : rows'[i].link = k} = Online(k)
       /\ {i \in DOMAIN rows' : rows'[i].link = l} =
             Online(l) \cup IF amount = AmountOf[l] THEN {} ELSE {n}
       /\ amount # AmountOf[l] => n \notin DOMAIN rows /\ rows'[n] = row
       /\ \A i \in DOMAIN rows' : i \in DOMAIN rows \/ (amount # AmountOf[l] /\ i = n)
    <2>1. CASE amount = AmountOf[l]
        <3>1. rows' = rows
            BY <1>1, <2>1
        <3> QED BY <2>1, <3>1 DEF Inv, TypeOK, Signs, Online
    <2>2. CASE amount # AmountOf[l]
        <3>1. rows' = Append(rows, row)
            BY <1>1, <2>2
        <3>2. /\ rows' \in Seq(Payment) /\ Signs(rows')
              /\ Len(rows) \in Nat /\ Len(rows') = Len(rows) + 1
              /\ DOMAIN rows = 1 .. Len(rows) /\ DOMAIN rows' = 1 .. Len(rows) + 1
              /\ \A i \in DOMAIN rows : rows'[i] = rows[i]
              /\ rows'[Len(rows) + 1] = row
              /\ \A k : {i \in DOMAIN rows' : rows'[i].link = k} =
                          Online(k) \cup IF row.link = k THEN {Len(rows) + 1} ELSE {}
            BY <1>11, <2>2, <3>1, AppendIsBook DEF Inv
        <3>3. row.link = l
            BY <1>11, <2>2
        <3> QED BY <2>2, <3>2, <3>3
    <2> QED BY <2>1, <2>2
<1> HIDE DEF n
<1>13. TypeOK'
    BY <1>1, <1>8, <1>9, <1>12 DEF Inv, TypeOK, Signs
<1>14. \A k \in Link : link'[k].ref = link[k].ref
    BY <1>7, <1>8
<1>15. Jobs'
    <2>1. JobIsRight(c)' /\ job'[c].kind # "settle"
        BY <1>9, IdleIsRight DEF Idle
    <2>2. ASSUME NEW d \in Clerk \ {c}, job[d].kind = "settle"
          PROVE  link'[job[d].link] = link[job[d].link]
        <3>1. job[d].link \in Link
            BY <2>2, JobKinds DEF Inv
        <3>2. job[d].link # l
            BY <1>1, <2>2 DEF Inv, Jobs, OneSettles, l
        <3> QED BY <1>8, <3>1, <3>2
    <2> QED BY <1>9, <1>10, <1>14, <2>1, <2>2, JobsStay
<1>16. References'
    BY <1>10, <1>14, ReferencesStay
<1>17. \A k \in Link : Operation(k)' = Operation(k)
    BY <1>7, <1>8 DEF Operation
<1>18. Operations'
    <2> SUFFICES ASSUME NEW k \in Link, link'[k].status \in OnHold
                 PROVE  Operation(k)' \in DOMAIN attempt' /\ attempt'[Operation(k)'].link = k
        BY DEF Operations
    <2>1. link[k].status \in OnHold
        BY <1>3, <1>8 DEF OnHold
    <2>2. Operation(k) \in DOMAIN attempt /\ attempt[Operation(k)].link = k
        BY <2>1 DEF Inv, Operations
    <2>3. Operation(k)' = Operation(k)
        BY <1>7, <1>8 DEF Operation
    <2> QED BY <1>1, <2>2, <2>3
<1>19. RowsHaveAttempts'
    BY <1>1, <1>2, <1>4, <1>11, <1>12 DEF Inv, Books, RowsHaveAttempts
<1>20. ASSUME NEW k \in Link PROVE BooksOf(k)'
    <2>1. CASE k # l
        <3>1. {i \in DOMAIN rows' : rows'[i].link = k} = Online(k)
            BY <1>12, <2>1
        <3>2. \A i \in Online(k) : rows'[i] = rows[i]
            BY <1>12 DEF Online
        <3> QED BY <1>8, <1>10, <2>1, <3>1, <3>2, BooksOfOthersStay
    <2>2. CASE k = l
        <3>1. BooksOf(l)
            BY <1>2, BooksAreOfLinks DEF Inv
        <3>2. Online(k)' = Online(l) \cup IF amount = AmountOf[l] THEN {} ELSE {n}
            BY <1>12, <2>2 DEF Online
        <3>3. \A i \in Online(l) : rows'[i] = rows[i]
            BY <1>12 DEF Online
        <3>4. {i \in Online(l) : rows[i].amount < 0} = {}
            BY <1>3, <3>1 DEF BooksOf, DepositIsSettled
        <3>5. amount # AmountOf[l] =>
                 rows'[n].amount < 0 /\ ~(rows'[n].amount > 0) /\ rows'[n].amount = amount - AmountOf[l]
            BY <1>2, <1>4, <1>11, <1>12
        <3>6. {i \in Online(k)' : rows'[i].amount > 0} = {i \in Online(l) : rows[i].amount > 0}
            BY <3>2, <3>3, <3>5
        <3>7. {i \in Online(k)' : rows'[i].amount > 0} =
                 IF link'[k].status \in Settled THEN {link'[k].payment} ELSE {}
            BY <1>3, <1>7, <1>8, <2>2, <3>1, <3>6 DEF BooksOf, Settled
        <3>8. ASSUME NEW i \in Online(k)', rows'[i].amount > 0
              PROVE  /\ rows'[i].amount = AmountOf[k] /\ rows'[i].res = ResOf[k]
                     /\ attempt'[rows'[i].ref].link = k
                     /\ attempt'[rows'[i].ref].state \in Charged
            <4>1. i \in Online(l) /\ rows[i].amount > 0
                BY <3>6, <3>8
            <4> QED BY <1>1, <2>2, <3>1, <3>3, <4>1 DEF BooksOf
        <3>9. DepositIsSettled(k)'
            <4> DEFINE returns == IF amount = AmountOf[l] THEN {} ELSE {n}
            <4>1. {i \in Online(k)' : rows'[i].amount < 0} = returns
                BY <3>2, <3>3, <3>4, <3>5
            <4>2. Operation(k)' = a
                BY <1>17, <2>2 DEF a
            <4>3. attempt'[a].taken = amount /\ attempt'[a].state = status
                BY <1>1, <1>3
            <4>4. \A i \in returns : rows'[i].amount = amount - AmountOf[k]
                BY <2>2, <3>5
            <4>5. (\A i, j \in returns : i = j) /\ (returns = {} <=> amount = AmountOf[k])
                BY <2>2
            <4>6. link'[k].status = status /\ link'[k].captured = amount
                BY <1>7, <1>8, <2>2
            <4> HIDE DEF returns
            <4> QED BY <4>1, <4>2, <4>3, <4>4, <4>5, <4>6 DEF DepositIsSettled
        <3> QED BY <3>7, <3>8, <3>9 DEF BooksOf
    <2> QED BY <2>1, <2>2
<1>21. (RowsHaveAttempts /\ \A k \in Link : BooksOf(k))'
    BY <1>19, <1>20
<1>22. Books'
    BY <1>21, BooksAreOfLinks, PTL
<1> QED BY <1>13, <1>15, <1>16, <1>18, <1>22 DEF Inv

-----------------------------------------------------------------------------
(* The theorems *)

LEMMA InitInv == Init => Inv
<1> SUFFICES ASSUME Init PROVE Inv
    OBVIOUS
<1>1. /\ rows = << >> /\ attempt = << >> /\ DOMAIN rows = {}
      /\ \A c \in Clerk : job[c] = Idle
      /\ \A l \in Link : link[l].status = "none" /\ link[l].ref = 0
    BY DEF Init
<1>2. TypeOK
    <2>1. link \in [Link -> OnlinePayment]
        BY DEF Init, OnlinePayment
    <2>2. job \in [Clerk -> {Idle} \cup RegisterJob \cup NoticeJob \cup SettleJob]
        BY DEF Init
    <2> QED BY <1>1, <2>1, <2>2 DEF TypeOK
<1>3. Jobs
    BY <1>1 DEF Jobs, JobIsRight, OneSettles, NoticeIsTrue, MovementIsSigned, Settling, Idle
<1>4. References /\ Operations
    BY <1>1 DEF References, Operations, OnHold
<1>5. RowsHaveAttempts
    BY <1>1 DEF RowsHaveAttempts
<1>6. \A l \in Link : BooksOf(l)
    BY <1>1 DEF BooksOf, DepositIsSettled, Online, Settled
<1> QED BY <1>2, <1>3, <1>4, <1>5, <1>6, BooksAreOfLinks DEF Inv

\* What each part of Next comes to.
LEMMA CounterKeeps == ASSUME Inv, Counter PROVE Inv'
<1>1. ASSUME NEW c \in Clerk, PaymentScreen(c) PROVE Inv'
    BY <1>1, OpenPaymentKeeps DEF PaymentScreen
<1>2. ASSUME NEW c \in Clerk, RefundScreen(c) PROVE Inv'
    BY <1>2, OpenRefundKeeps DEF RefundScreen
<1> QED BY <1>1, <1>2, WritePaymentKeeps DEF Counter

LEMMA LinksKeeps == ASSUME Inv, Links PROVE Inv'
BY CreateLinkKeeps, StartCheckoutKeeps, ExpireOldLinksKeeps DEF Links, LinkScreen, PayPage

LEMMA GatewaysKeeps == ASSUME Inv, Gateways PROVE Inv'
BY LapseKeeps, OutcomeKeeps DEF Gateways

LEMMA NoticesKeeps == ASSUME Inv, Notices PROVE Inv'
<1>1. ASSUME NEW c \in Clerk, Webhook(c) PROVE Inv'
    BY <1>1, ReadNoticeKeeps, ConfirmChargeKeeps, ConfirmRefusalKeeps, CloseSessionKeeps,
       IgnoreNoticeKeeps DEF Webhook
<1> QED BY <1>1, DropNoticeKeeps DEF Notices

LEMMA DepositsKeeps == ASSUME Inv, Deposits PROVE Inv'
<1>1. ASSUME NEW l \in Hold PROVE l \in Link /\ AmountOf[l] \in Nat
    BY <1>1, PaymentsAssumption
<1>2. ASSUME NEW c \in Clerk, CaptureScreen(c) PROVE Inv'
    <2>1. PICK l \in Hold : \E amount \in 1 .. AmountOf[l] : CallGateway(c, l, amount)
        BY <1>2 DEF CaptureScreen
    <2>2. PICK amount \in 1 .. AmountOf[l] : CallGateway(c, l, amount)
        BY <2>1
    <2>3. amount \in 0 .. AmountOf[l]
        BY <1>1
    <2> QED BY <2>2, <2>3, CallGatewayKeeps
<1>3. ASSUME NEW c \in Clerk, LinkButtons(c) PROVE Inv'
    <2>1. CASE \E l \in Link : CancelLink(l)
        BY <2>1, CancelLinkKeeps
    <2>2. CASE \E l \in Hold : CallGateway(c, l, 0)
        <3>1. PICK l \in Hold : CallGateway(c, l, 0)
            BY <2>2
        <3>2. 0 \in 0 .. AmountOf[l]
            BY <1>1
        <3> QED BY <3>1, <3>2, CallGatewayKeeps
    <2> QED BY <1>3, <2>1, <2>2 DEF LinkButtons
<1> QED BY <1>2, <1>3, CheckReturnKeeps, SettleDepositKeeps DEF Deposits

LEMMA NextInv == Inv /\ [Next]_vars => Inv'
<1> SUFFICES ASSUME Inv, [Next]_vars PROVE Inv'
    OBVIOUS
<1>1. CASE Next
    BY <1>1, CounterKeeps, LinksKeeps, GatewaysKeeps, NoticesKeeps, DepositsKeeps, RollbackKeeps
       DEF Next
<1>2. CASE UNCHANGED vars
    <2>1. rows' = rows /\ link' = link /\ attempt' = attempt /\ job' = job
        BY <1>2 DEF vars
    <2>2. Kept(attempt, attempt')
        BY <2>1, NothingKept DEF Inv
    <2> QED BY <2>1, <2>2, GatewayStep
<1> QED BY <1>1, <1>2

LEMMA SpecInv == Spec => []Inv
BY InitInv, NextInv, PTL DEF Spec

\* The tables have the types of the models, and every payment the sign of its type.
THEOREM PaymentsAreTyped == Spec => []TypeOK
<1>1. Inv => TypeOK
    BY DEF Inv
<1> QED BY <1>1, SpecInv, PTL

\* handle_stripe_event and handle_redsys_notification may be called any number of times
\* and in any order, against links in any state: a link has one payment if it is settled
\* and none otherwise.
THEOREM PaidOnce == Spec => []RecordedOnce
<1>1. Inv => RecordedOnce
    BY DEF Inv, Books
<1> QED BY <1>1, SpecInv, PTL

\* Every online payment in the books is money of that link that a gateway charged or held.
THEOREM MoneyIsReal == Spec => []OnlyRealMoney
<1>1. Inv => OnlyRealMoney
    BY DEF Inv, Books
<1> QED BY <1>1, SpecInv, PTL

\* capture_deposit and release_deposit call the gateway before they write: whatever fails
\* in between, what shows as settled was settled there, for the same amount, and the rest
\* was returned once.
THEOREM DepositsMatchTheGateway == Spec => []DepositsAreSettled
<1>1. Inv => DepositsAreSettled
    BY DEF Inv, Books
<1> QED BY <1>1, SpecInv, PTL
=============================================================================
