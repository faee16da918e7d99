------------------------- MODULE AvailabilityProofs -------------------------
(***************************************************************************)
(* Proofs about Availability, for any number of clerks, reservations,      *)
(* vehicles, offices and instants.  While anything may happen to the       *)
(* fleet: types, locks, the count a transaction commits with, one car for  *)
(* one reservation.  While the fleet stays as it is: the transactions are  *)
(* steps of the book of CategoryCalendar, which is never short of cars.    *)
(* At the end, what is only read: the lists of the counter and Planning.   *)
(***************************************************************************)
EXTENDS Availability, Sequences, FiniteSetTheorems, WellFoundedInduction, TLAPS

CONSTANT Any   \* a field of the filter of the planning that is left empty

\* A transaction that is open carries a reservation, a booking and a count.
LEMMA OpenTransaction ==
    ASSUME TypeOK, NEW c \in Clerk, job[c].kind # "idle"
    PROVE  job[c] \in Transaction
  BY DEF TypeOK, Idle

LEMMA RequestIsBooking == \A b \in Requests : b \in Booking
  BY ConstantsAssumption

-----------------------------------------------------------------------------
(* Types *)

LEMMA InitTypeOK == Init => TypeOK
  BY ConstantsAssumption DEF Init, TypeOK, Statuses

LEMMA StepTypeOK == TypeOK /\ [Next]_vars => TypeOK'
  <1> SUFFICES ASSUME TypeOK, Next PROVE TypeOK'
    BY DEF TypeOK, vars
  <1> USE ConstantsAssumption
  <1>1. ASSUME NEW c \in Clerk, NEW r \in Reservation, NEW b \in Requests, CountForSale(c, r, b)
        PROVE  TypeOK'
    <2>1. Rivals(b, {}) \subseteq Reservation
      BY DEF Rivals
    <2>2. [kind |-> "sale", res |-> r, want |-> b, seen |-> Rivals(b, {})] \in Transaction
      BY <2>1, RequestIsBooking DEF Transaction
    <2>. QED
      BY <1>1, <2>2 DEF CountForSale, Open, TypeOK
  <1>2. ASSUME NEW c \in Clerk, NEW r \in Reservation, NEW b \in Requests, NEW drop \in BOOLEAN,
               CountForChange(c, r, b.from, b.to, b.category, drop)
        PROVE  TypeOK'
    <2> DEFINE car == IF drop \/ (row[r].vehicle # NoVehicle /\ CategoryOf[row[r].vehicle] # b.category)
                      THEN NoVehicle ELSE row[r].vehicle
               n == [row[r] EXCEPT !.from = b.from, !.to = b.to,
                                   !.category = b.category, !.vehicle = car]
    <2>1. Rivals(n, {r}) \subseteq Reservation
      BY DEF Rivals
    <2>2. n \in Booking
      BY RequestIsBooking DEF TypeOK, Booking
    <2>3. [kind |-> "change", res |-> r, want |-> n, seen |-> Rivals(n, {r})] \in Transaction
      BY <2>1, <2>2 DEF Transaction
    <2>. QED
      BY <1>2, <2>3 DEF CountForChange, Open, TypeOK
  <1>3. ASSUME NEW c \in Clerk, NEW r \in Reservation, NEW v \in Vehicle, CheckAssignment(c, r, v)
        PROVE  TypeOK'
    <2>1. [row[r] EXCEPT !.vehicle = v] \in Booking
      BY DEF TypeOK, Booking
    <2>2. [kind |-> "assignment", res |-> r, want |-> [row[r] EXCEPT !.vehicle = v],
           seen |-> {}] \in Transaction
      BY <2>1 DEF Transaction
    <2>. QED
      BY <1>3, <2>2 DEF CheckAssignment, Open, TypeOK
  <1>4. ASSUME NEW c \in Clerk, CommitSale(c) PROVE TypeOK'
    <2>1. job[c] \in Transaction
      BY <1>4, OpenTransaction DEF CommitSale
    <2>. QED
      BY <1>4, <2>1 DEF CommitSale, TypeOK, Transaction, Statuses
  <1>5. ASSUME NEW c \in Clerk, CommitChange(c) PROVE TypeOK'
    <2>1. job[c] \in Transaction
      BY <1>5, OpenTransaction DEF CommitChange
    <2>. QED
      BY <1>5, <2>1 DEF CommitChange, TypeOK, Transaction
  <1>6. ASSUME NEW c \in Clerk, CommitAssignment(c) PROVE TypeOK'
    <2>1. job[c] \in Transaction
      BY <1>6, OpenTransaction DEF CommitAssignment
    <2>2. job[c].want.vehicle \in Vehicle \cup {NoVehicle} /\ job[c].res \in Reservation
      BY <2>1 DEF Transaction, Booking
    <2>3. row' \in [Reservation -> Booking]
      <3>1. [row[job[c].res] EXCEPT !.vehicle = job[c].want.vehicle] \in Booking
        BY <2>2 DEF TypeOK, Booking
      <3>. QED
        BY <1>6, <2>2, <3>1 DEF CommitAssignment, TypeOK
    <2>. QED
      BY <1>6, <2>3 DEF CommitAssignment, TypeOK
  <1>7. ASSUME NEW c \in Clerk, Rollback(c) PROVE TypeOK'
    BY <1>7 DEF Rollback, TypeOK
  <1>8. ASSUME NEW r \in Reservation, ReleaseVehicle(r) PROVE TypeOK'
    <2>1. row' \in [Reservation -> Booking]
      BY <1>8 DEF ReleaseVehicle, TypeOK, Booking
    <2>. QED
      BY <1>8, <2>1 DEF ReleaseVehicle, TypeOK
  <1>9. ASSUME NEW r \in Reservation, HandOver(r) PROVE TypeOK'
    BY <1>9 DEF HandOver, TypeOK, Statuses
  <1>10. ASSUME NEW r \in Reservation, CallOff(r) PROVE TypeOK'
    BY <1>10 DEF CallOff, Close, TypeOK, Statuses
  <1>11. ASSUME NEW r \in Reservation, NEW o \in Office, HandBack(r, o) PROVE TypeOK'
    BY <1>11 DEF HandBack, Close, TypeOK, Statuses
  <1>12. ASSUME FleetChanges PROVE TypeOK'
    <2>1. ASSUME NEW rs, Drop(rs) PROVE row' \in [Reservation -> Booking]
      BY <2>1 DEF Drop, TypeOK, Booking
    <2>2. ASSUME NEW v \in Vehicle, NEW from \in Instant, NEW to \in Instant, SaveBlock(v, from, to)
          PROVE  TypeOK'
      BY <2>2 DEF SaveBlock, TypeOK, Block
    <2>3. ASSUME NEW v \in Vehicle, NEW from \in Instant, NEW to \in Instant, StartWorkshop(v, from, to)
          PROVE  TypeOK'
      <3>1. active' \in [Vehicle -> BOOLEAN]
        BY <2>3 DEF StartWorkshop, TypeOK
      <3>2. row' \in [Reservation -> Booking]
        BY <2>3, <2>1 DEF StartWorkshop
      <3>. QED
        BY <2>3, <3>1, <3>2 DEF StartWorkshop, TypeOK, Block
    <2>4. ASSUME NEW k \in blocks, DeleteBlock(k) PROVE TypeOK'
      BY <2>4 DEF DeleteBlock, TypeOK
    <2>5. ASSUME NEW v \in Vehicle, Reinstate(v) PROVE TypeOK'
      BY <2>5 DEF Reinstate, TypeOK
    <2>6. ASSUME NEW v \in Vehicle, NEW now \in Instant, Retire(v, now) PROVE TypeOK'
      BY <2>6, <2>1 DEF Retire, TypeOK
    <2>7. ASSUME NEW v \in Vehicle, NEW o \in Office, Move(v, o) PROVE TypeOK'
      BY <2>7 DEF Move, TypeOK
    <2>8. ASSUME NEW v \in Vehicle, LeaveFleet(v) PROVE TypeOK'
      BY <2>8 DEF LeaveFleet, TypeOK
    <2>. QED
      BY <1>12, <2>2, <2>3, <2>4, <2>5, <2>6, <2>7, <2>8 DEF FleetChanges
  <1>. QED
    BY <1>1, <1>2, <1>3, <1>4, <1>5, <1>6, <1>7, <1>8, <1>9, <1>10, <1>11, <1>12
       DEF Next, Sales, SaleScreen, Returns

\* The variables keep their types.
THEOREM TypeCorrect == Spec => []TypeOK
  BY InitTypeOK, StepTypeOK, PTL DEF Spec

-----------------------------------------------------------------------------
(* Locks *)

\* Closing, handing over, reassigning or touching the fleet opens no
\* transaction: whoever has one keeps it or ends it.
LEMMA NobodyOpens ==
    ASSUME LocksExclude,
           \A c \in Clerk : job'[c] = job[c] \/ job'[c] = Idle
    PROVE  LocksExclude'
  BY DEF LocksExclude, Idle, ScopeOf, Counting

\* A transaction that opens under free locks excludes the others.
LEMMA OneOpens ==
    ASSUME TypeOK, LocksExclude,
           NEW c \in Clerk, NEW kind, NEW r, NEW b, NEW seen,
           RowFree(r),
           kind \in Counting => ScopeFree(b),
           Open(c, kind, r, b, seen)
    PROVE  LocksExclude'
  <1>1. /\ job'[c] = [kind |-> kind, res |-> r, want |-> b, seen |-> seen]
        /\ \A d \in Clerk \ {c} : job'[d] = job[d]
    BY DEF Open, TypeOK
  <1>2. SUFFICES ASSUME NEW d \in Clerk, NEW e \in Clerk, d # e,
                        job'[d].kind # "idle", job'[e].kind # "idle"
                 PROVE  /\ job'[d].res # job'[e].res
                        /\ job'[d].kind \in Counting /\ job'[e].kind \in Counting =>
                             ScopeOf(job'[d].want) # ScopeOf(job'[e].want)
    BY DEF LocksExclude, ScopeOf, Counting
  <1>3. CASE d = c
    BY <1>1, <1>2, <1>3 DEF RowFree, ScopeFree
  <1>4. CASE e = c
    BY <1>1, <1>2, <1>4 DEF RowFree, ScopeFree
  <1>5. CASE d # c /\ e # c
    BY <1>1, <1>2, <1>5 DEF LocksExclude
  <1>. QED
    BY <1>3, <1>4, <1>5

LEMMA StepLocksExclude == TypeOK /\ LocksExclude /\ [Next]_vars => LocksExclude'
  <1> SUFFICES ASSUME TypeOK, LocksExclude, [Next]_vars PROVE LocksExclude'
    OBVIOUS
  <1>1. ASSUME NEW c \in Clerk, NEW r \in Reservation, NEW b \in Requests, CountForSale(c, r, b)
        PROVE  LocksExclude'
    BY <1>1, OneOpens DEF CountForSale
  <1>2. ASSUME NEW c \in Clerk, NEW r \in Reservation, NEW b \in Requests, NEW drop \in BOOLEAN,
               CountForChange(c, r, b.from, b.to, b.category, drop)
        PROVE  LocksExclude'
    BY <1>2, OneOpens DEF CountForChange
  <1>3. ASSUME NEW c \in Clerk, NEW r \in Reservation, NEW v \in Vehicle, CheckAssignment(c, r, v)
        PROVE  LocksExclude'
    BY <1>3, OneOpens DEF CheckAssignment, Counting
  <1>4. ASSUME \A c \in Clerk : job'[c] = job[c] \/ job'[c] = Idle
        PROVE  LocksExclude'
    BY <1>4, NobodyOpens
  <1>5. ASSUME NEW c \in Clerk,
               CommitSale(c) \/ CommitChange(c) \/ CommitAssignment(c) \/ Rollback(c)
        PROVE  \A d \in Clerk : job'[d] = job[d] \/ job'[d] = Idle
    BY <1>5 DEF CommitSale, CommitChange, CommitAssignment, Rollback, TypeOK
  <1>6. ASSUME NEW r \in Reservation,
               \/ ReleaseVehicle(r) \/ HandOver(r) \/ CallOff(r)
               \/ \E o \in Office : HandBack(r, o)
        PROVE  job' = job
    BY <1>6 DEF ReleaseVehicle, HandOver, CallOff, HandBack
  <1>7. ASSUME FleetChanges PROVE job' = job
    BY <1>7 DEF FleetChanges, SaveBlock, StartWorkshop, DeleteBlock, LeaveFleet,
         Reinstate, Retire, Move
  <1>8. CASE UNCHANGED vars
    BY <1>8, <1>4 DEF vars
  <1>. QED
    BY <1>1, <1>2, <1>3, <1>4, <1>5, <1>6, <1>7, <1>8 DEF Next, Sales, SaleScreen, Returns

\* Two open transactions never share a reservation, nor a category of a pool
\* when both count it.
THEOREM LocksAreExclusive == Spec => []LocksExclude
  <1>1. Init => LocksExclude
    BY DEF Init, LocksExclude, Idle
  <1>. QED
    BY <1>1, StepLocksExclude, TypeCorrect, PTL DEF Spec

-----------------------------------------------------------------------------
(* The count that a transaction commits with *)

\* If every row that is live after the step was live before it with the same
\* dates, category and offices, nobody gains a rival.
LEMMA NoNewRivals ==
    ASSUME NEW b, NEW except,
           \A r \in Reservation : status'[r] \in Consuming =>
              /\ status[r] \in Consuming
              /\ row'[r].category = row[r].category
              /\ row'[r].pickup = row[r].pickup
              /\ row'[r].return = row[r].return
              /\ row'[r].from = row[r].from
              /\ row'[r].to = row[r].to
    PROVE  Rivals(b, except)' \subseteq Rivals(b, except)
  BY DEF Rivals, Occupies, Overlaps

LEMMA NoNewRivalsForAnybody ==
    ASSUME CountStillHolds,
           \A c \in Clerk : job'[c] = job[c] \/ job'[c] = Idle,
           \A r \in Reservation : status'[r] \in Consuming =>
              /\ status[r] \in Consuming
              /\ row'[r].category = row[r].category
              /\ row'[r].pickup = row[r].pickup
              /\ row'[r].return = row[r].return
              /\ row'[r].from = row[r].from
              /\ row'[r].to = row[r].to
    PROVE  CountStillHolds'
  BY NoNewRivals DEF CountStillHolds, Rivals, Occupies, Overlaps, Idle, Counting

\* The rows only change for one reservation, and its new row competes in a
\* scope that nobody else is counting.
LEMMA WrittenUnderTheLock ==
    ASSUME TypeOK, LocksExclude, CountStillHolds,
           NEW c \in Clerk, job[c].kind \in Counting,
           row' = [row EXCEPT ![job[c].res] = job[c].want],
           \A r \in Reservation : r # job[c].res => status'[r] = status[r],
           job' = [job EXCEPT ![c] = Idle]
    PROVE  CountStillHolds'
  <1> DEFINE r == job[c].res
             b == job[c].want
  <1>1. job[c] \in Transaction
    BY OpenTransaction DEF Counting
  <1>2. SUFFICES ASSUME NEW d \in Clerk, (job[d].kind \in Counting)',
                        NEW x \in Rivals(job[d].want, {job[d].res})'
                 PROVE  x \in job'[d].seen
    BY DEF CountStillHolds
  <1>3. d # c /\ job'[d] = job[d]
    BY <1>2 DEF Idle, Counting, TypeOK
  <1>4. ScopeOf(job[d].want) # ScopeOf(b)
    BY <1>2, <1>3 DEF LocksExclude, Counting
  <1>5. /\ x \in Reservation \ {job[d].res}
        /\ status'[x] \in Consuming
        /\ row'[x].category = job[d].want.category
        /\ PoolOf[row'[x].pickup] = PoolOf[job[d].want.pickup]
    BY <1>2, <1>3 DEF Rivals
  <1>6. x # r
    <2>1. SUFFICES ASSUME x = r PROVE FALSE
      OBVIOUS
    <2>2. row'[x] = b
      BY <2>1, <1>1 DEF TypeOK, Transaction
    <2>. QED
      BY <2>2, <1>5, <1>4 DEF ScopeOf
  <1>7. row'[x] = row[x] /\ status'[x] = status[x]
    BY <1>5, <1>6 DEF TypeOK
  <1>8. x \in Rivals(job[d].want, {job[d].res})
    BY <1>2, <1>3, <1>5, <1>7 DEF Rivals, Occupies, Overlaps
  <1>. QED
    BY <1>8, <1>3, <1>2 DEF CountStillHolds

\* A transaction that counts now has seen everything that competes now.
LEMMA FreshCount ==
    ASSUME TypeOK, CountStillHolds,
           NEW c \in Clerk, NEW kind, NEW r, NEW b, NEW seen,
           UNCHANGED <<status, row>>,
           kind \in Counting => Rivals(b, {r}) \subseteq seen,
           Open(c, kind, r, b, seen)
    PROVE  CountStillHolds'
  <1>1. /\ job'[c] = [kind |-> kind, res |-> r, want |-> b, seen |-> seen]
        /\ \A d \in Clerk \ {c} : job'[d] = job[d]
    BY DEF Open, TypeOK
  <1>2. SUFFICES ASSUME NEW d \in Clerk, (job[d].kind \in Counting)'
                 PROVE  (Rivals(job[d].want, {job[d].res}) \subseteq job[d].seen)'
    BY DEF CountStillHolds
  <1>3. CASE d = c
    <2>1. /\ kind \in Counting
          /\ job'[d].want = b /\ job'[d].res = r /\ job'[d].seen = seen
      BY <1>1, <1>2, <1>3
    <2>2. Rivals(job[d].want, {job[d].res})' \subseteq Rivals(b, {r})
      BY <2>1 DEF Rivals, Occupies, Overlaps
    <2>. QED
      BY <2>1, <2>2
  <1>4. CASE d # c
    <2>1. job'[d] = job[d] /\ job[d].kind \in Counting
      BY <1>1, <1>2, <1>4
    <2>2. Rivals(job[d].want, {job[d].res})' \subseteq Rivals(job[d].want, {job[d].res})
      BY <2>1 DEF Rivals, Occupies, Overlaps
    <2>. QED
      BY <2>1, <2>2 DEF CountStillHolds
  <1>. QED
    BY <1>3, <1>4

LEMMA StepCountStillHolds ==
    TypeOK /\ LocksExclude /\ CountStillHolds /\ [Next]_vars => CountStillHolds'
  <1> SUFFICES ASSUME TypeOK, LocksExclude, CountStillHolds, [Next]_vars
               PROVE  CountStillHolds'
    OBVIOUS
  <1> DEFINE Kept(r) == /\ status[r] \in Consuming
                        /\ row'[r].category = row[r].category
                        /\ row'[r].pickup = row[r].pickup
                        /\ row'[r].return = row[r].return
                        /\ row'[r].from = row[r].from
                        /\ row'[r].to = row[r].to
  <1>0. ASSUME \A c \in Clerk : job'[c] = job[c] \/ job'[c] = Idle,
               \A r \in Reservation : status'[r] \in Consuming => Kept(r)
        PROVE  CountStillHolds'
    BY <1>0, NoNewRivalsForAnybody
  <1>1. ASSUME NEW c \in Clerk, NEW r \in Reservation, NEW b \in Requests, CountForSale(c, r, b)
        PROVE  CountStillHolds'
    <2>1. Rivals(b, {r}) \subseteq Rivals(b, {})
      BY DEF Rivals
    <2>. QED
      BY <1>1, <2>1, FreshCount DEF CountForSale
  <1>2. ASSUME NEW c \in Clerk, NEW r \in Reservation, NEW b \in Requests, NEW drop \in BOOLEAN,
               CountForChange(c, r, b.from, b.to, b.category, drop)
        PROVE  CountStillHolds'
    BY <1>2, FreshCount DEF CountForChange
  <1>3. ASSUME NEW c \in Clerk, NEW r \in Reservation, NEW v \in Vehicle, CheckAssignment(c, r, v)
        PROVE  CountStillHolds'
    BY <1>3, FreshCount DEF CheckAssignment, Counting
  <1>4. ASSUME NEW c \in Clerk, CommitSale(c) PROVE CountStillHolds'
    <2>1. \A r \in Reservation : r # job[c].res => status'[r] = status[r]
      BY <1>4 DEF CommitSale, TypeOK
    <2>. QED
      BY <1>4, <2>1, WrittenUnderTheLock DEF CommitSale, Counting
  <1>5. ASSUME NEW c \in Clerk, CommitChange(c) PROVE CountStillHolds'
    BY <1>5, WrittenUnderTheLock DEF CommitChange, Counting
  <1>6. ASSUME NEW c \in Clerk, CommitAssignment(c) \/ Rollback(c) PROVE CountStillHolds'
    <2>1. \A d \in Clerk : job'[d] = job[d] \/ job'[d] = Idle
      BY <1>6 DEF CommitAssignment, Rollback, TypeOK
    <2>2. \A r \in Reservation : status'[r] \in Consuming => Kept(r)
      BY <1>6 DEF CommitAssignment, Rollback, TypeOK, Booking
    <2>. QED
      BY <2>1, <2>2, <1>0
  <1>7. ASSUME NEW r \in Reservation,
               \/ ReleaseVehicle(r) \/ HandOver(r) \/ CallOff(r)
               \/ \E o \in Office : HandBack(r, o)
        PROVE  CountStillHolds'
    <2>1. job' = job
      BY <1>7 DEF ReleaseVehicle, HandOver, CallOff, HandBack
    <2>2. \A x \in Reservation : status'[x] \in Consuming => Kept(x)
      BY <1>7 DEF ReleaseVehicle, HandOver, CallOff, HandBack, Close, TypeOK, Booking, Consuming
    <2>. QED
      BY <2>1, <2>2, <1>0
  <1>8. ASSUME FleetChanges PROVE CountStillHolds'
    <2>1. job' = job /\ status' = status
      BY <1>8 DEF FleetChanges, SaveBlock, StartWorkshop, DeleteBlock, LeaveFleet,
         Reinstate, Retire, Move
    <2>2. row' = row \/ \E rs : Drop(rs)
      BY <1>8 DEF FleetChanges, SaveBlock, StartWorkshop, DeleteBlock, LeaveFleet,
         Reinstate, Retire, Move
    <2>3. \A x \in Reservation : status'[x] \in Consuming => Kept(x)
      BY <2>1, <2>2 DEF Drop, TypeOK, Booking
    <2>. QED
      BY <2>1, <2>3, <1>0
  <1>9. CASE UNCHANGED vars
    BY <1>9, <1>0 DEF vars
  <1>. QED
    BY <1>1, <1>2, <1>3, <1>4, <1>5, <1>6, <1>7, <1>8, <1>9 DEF Next, Sales, SaleScreen, Returns

\* Whatever the others sell, move, reassign, retire or block in between, what a
\* transaction counted is still everything that competes with it.
THEOREM CountsStayTrue == Spec => []CountStillHolds
  <1>1. Init => CountStillHolds
    BY DEF Init, CountStillHolds, Idle, Counting
  <1>. QED
    BY <1>1, StepCountStillHolds, TypeCorrect, LocksAreExclusive, PTL DEF Spec

-----------------------------------------------------------------------------
(* One car, one reservation at a time *)

\* A row written under the exclusion constraint clashes with nobody, and nobody
\* with it: overlapping is symmetric.
LEMMA WrittenUnderTheConstraint ==
    ASSUME TypeOK, NoCarPromisedTwice,
           NEW r \in Reservation, NEW b \in Booking,
           ConstraintHolds(r, b),
           row' = [row EXCEPT ![r] = b],
           \A x \in Reservation : x # r => status'[x] = status[x]
    PROVE  NoCarPromisedTwice'
  <1>1. SUFFICES ASSUME NEW x \in Reservation, NEW y \in Reservation \ {x},
                        status'[x] \in Consuming, row'[x].vehicle # NoVehicle,
                        status'[y] \in Consuming, row'[y].vehicle = row'[x].vehicle,
                        row'[y].from < row'[x].to + Rotation,
                        row'[x].from < row'[y].to + Rotation
                 PROVE  FALSE
    BY DEF NoCarPromisedTwice, Conflicts, Overlaps
  <1>2. row'[r] = b /\ \A z \in Reservation \ {r} : row'[z] = row[z]
    BY DEF TypeOK
  <1>3. CASE x = r
    BY <1>1, <1>2, <1>3 DEF ConstraintHolds, Conflicts, Overlaps
  <1>4. CASE y = r
    BY <1>1, <1>2, <1>4 DEF ConstraintHolds, Conflicts, Overlaps
  <1>5. CASE x # r /\ y # r
    BY <1>1, <1>2, <1>5 DEF NoCarPromisedTwice, Conflicts, Overlaps
  <1>. QED
    BY <1>3, <1>4, <1>5

\* Rows that end, or that lose their car, clash with nobody either.
LEMMA OnlyFewerPromises ==
    ASSUME TypeOK, NoCarPromisedTwice,
           \A r \in Reservation : status'[r] \in Consuming /\ row'[r].vehicle # NoVehicle =>
              status[r] \in Consuming /\ row'[r] = row[r]
    PROVE  NoCarPromisedTwice'
  BY DEF NoCarPromisedTwice, Conflicts, Overlaps

LEMMA StepNoCarPromisedTwice == TypeOK /\ NoCarPromisedTwice /\ [Next]_vars => NoCarPromisedTwice'
  <1> SUFFICES ASSUME TypeOK, NoCarPromisedTwice, [Next]_vars PROVE NoCarPromisedTwice'
    OBVIOUS
  <1>1. ASSUME NEW c \in Clerk, CommitSale(c) \/ CommitChange(c) PROVE NoCarPromisedTwice'
    <2>1. job[c] \in Transaction
      BY <1>1, OpenTransaction DEF CommitSale, CommitChange
    <2>2. job[c].res \in Reservation /\ job[c].want \in Booking
      BY <2>1 DEF Transaction
    <2>3. \A x \in Reservation : x # job[c].res => status'[x] = status[x]
      BY <1>1 DEF CommitSale, CommitChange, TypeOK
    <2>. QED
      BY <1>1, <2>2, <2>3, WrittenUnderTheConstraint DEF CommitSale, CommitChange
  <1>2. ASSUME NEW c \in Clerk, CommitAssignment(c) PROVE NoCarPromisedTwice'
    <2> DEFINE r == job[c].res
               b == [row[r] EXCEPT !.vehicle = job[c].want.vehicle]
    <2>1. job[c] \in Transaction
      BY <1>2, OpenTransaction DEF CommitAssignment
    <2>2. r \in Reservation /\ b \in Booking
      BY <2>1 DEF Transaction, Booking, TypeOK
    <2>3. row' = [row EXCEPT ![r] = b]
      BY <1>2, <2>2 DEF CommitAssignment, TypeOK
    <2>. QED
      BY <1>2, <2>2, <2>3, WrittenUnderTheConstraint DEF CommitAssignment
  <1>3. ASSUME NEW c \in Clerk, Rollback(c) PROVE NoCarPromisedTwice'
    BY <1>3, OnlyFewerPromises DEF Rollback
  <1>4. ASSUME NEW c \in Clerk, NEW r \in Reservation, NEW b \in Requests,
               \/ CountForSale(c, r, b)
               \/ \E drop \in BOOLEAN : CountForChange(c, r, b.from, b.to, b.category, drop)
        PROVE  NoCarPromisedTwice'
    BY <1>4, OnlyFewerPromises DEF CountForSale, CountForChange
  <1>5. ASSUME NEW c \in Clerk, NEW r \in Reservation, NEW v \in Vehicle, CheckAssignment(c, r, v)
        PROVE  NoCarPromisedTwice'
    BY <1>5, OnlyFewerPromises DEF CheckAssignment
  <1>6. ASSUME NEW r \in Reservation, ReleaseVehicle(r) PROVE NoCarPromisedTwice'
    <2>1. row'[r].vehicle = NoVehicle
      BY <1>6 DEF ReleaseVehicle, TypeOK, Booking
    <2>. QED
      BY <1>6, <2>1, OnlyFewerPromises DEF ReleaseVehicle, TypeOK
  <1>7. ASSUME NEW r \in Reservation, HandOver(r) PROVE NoCarPromisedTwice'
    BY <1>7, OnlyFewerPromises DEF HandOver, TypeOK, Consuming
  <1>8. ASSUME NEW r \in Reservation, CallOff(r) \/ \E o \in Office : HandBack(r, o)
        PROVE  NoCarPromisedTwice'
    BY <1>8, OnlyFewerPromises DEF CallOff, HandBack, Close, TypeOK, Consuming
  <1>9. ASSUME FleetChanges PROVE NoCarPromisedTwice'
    <2>1. status' = status
      BY <1>9 DEF FleetChanges, SaveBlock, StartWorkshop, DeleteBlock, LeaveFleet,
         Reinstate, Retire, Move
    <2>2. row' = row \/ \E rs : Drop(rs)
      BY <1>9 DEF FleetChanges, SaveBlock, StartWorkshop, DeleteBlock, LeaveFleet,
         Reinstate, Retire, Move
    <2>3. \A x \in Reservation : row'[x].vehicle # NoVehicle => row'[x] = row[x]
      BY <2>2 DEF Drop, TypeOK, Booking
    <2>. QED
      BY <2>1, <2>3, OnlyFewerPromises
  <1>10. CASE UNCHANGED vars
    BY <1>10, OnlyFewerPromises DEF vars
  <1>. QED
    BY <1>1, <1>2, <1>3, <1>4, <1>5, <1>6, <1>7, <1>8, <1>9, <1>10 DEF Next, Sales, SaleScreen, Returns

\* No two live reservations hold one car at the same instant.
THEOREM CarsArePromisedOnce == Spec => []NoCarPromisedTwice
  <1>1. Init => NoCarPromisedTwice
    BY DEF Init, NoCarPromisedTwice, Consuming
  <1>. QED
    BY <1>1, StepNoCarPromisedTwice, TypeCorrect, PTL DEF Spec

-----------------------------------------------------------------------------
(* While the fleet stays as it is *)

LEMMA SalesAreSteps == [SalesOnly]_vars => [Next]_vars
  BY DEF SalesOnly, Next, Returns

LEMMA SalesInvariants == SalesSpec => [](TypeOK /\ LocksExclude /\ NoCarPromisedTwice)
  <1>1. Init => LocksExclude
    BY DEF Init, LocksExclude, Idle
  <1>2. Init => NoCarPromisedTwice
    BY DEF Init, NoCarPromisedTwice, Consuming
  <1>. QED
    BY <1>1, <1>2, SalesAreSteps, InitTypeOK, StepTypeOK, StepLocksExclude, StepNoCarPromisedTwice,
       PTL DEF SalesSpec

\* The steps of SalesOnly: those that read (or give up), those that write what was read, and
\* those of a reservation on its own.
Reads(c) ==
    \/ \E r \in Reservation, b \in Requests :
          \/ CountForSale(c, r, b)
          \/ \E drop \in BOOLEAN : CountForChange(c, r, b.from, b.to, b.category, drop)
    \/ \E r \in Reservation, v \in Vehicle : CheckAssignment(c, r, v)
    \/ Rollback(c)
Writes(c) == CommitSale(c) \/ CommitChange(c) \/ CommitAssignment(c)
GoesOn(r) == ReleaseVehicle(r) \/ HandOver(r) \/ CallOff(r)
Returned(r) == \E o \in Office : HandBack(r, o) /\ PoolOf[o] = PoolOf[office[row[r].vehicle]]

LEMMA SalesStep ==
    ASSUME [SalesOnly]_vars
    PROVE  \/ \E c \in Clerk : Reads(c)
           \/ \E c \in Clerk : Writes(c)
           \/ \E r \in Reservation : GoesOn(r)
           \/ \E r \in Reservation : Returned(r)
           \/ UNCHANGED vars
  BY DEF SalesOnly, Sales, SaleScreen, Reads, Writes, GoesOn, Returned

LEMMA ReadsChangeNothing ==
    ASSUME NEW c \in Clerk, Reads(c)
    PROVE  status' = status /\ row' = row /\ office' = office /\ active' = active /\ blocks' = blocks
  <1>1. ASSUME NEW r \in Reservation, NEW b \in Requests, CountForSale(c, r, b)
        PROVE  status' = status /\ row' = row /\ office' = office /\ active' = active /\ blocks' = blocks
    BY <1>1 DEF CountForSale
  <1>2. ASSUME NEW r \in Reservation, NEW b \in Requests, NEW drop \in BOOLEAN,
               CountForChange(c, r, b.from, b.to, b.category, drop)
        PROVE  status' = status /\ row' = row /\ office' = office /\ active' = active /\ blocks' = blocks
    BY <1>2 DEF CountForChange
  <1>3. CASE Rollback(c) \/ \E r \in Reservation, v \in Vehicle : CheckAssignment(c, r, v)
    BY <1>3 DEF CheckAssignment, Rollback
  <1>. QED
    BY <1>1, <1>2, <1>3 DEF Reads

LEMMA SalesKeepTheFleet ==
    ASSUME [SalesOnly]_vars
    PROVE  /\ blocks' = blocks /\ active' = active
           /\ office' = office \/ \E r \in Reservation : Returned(r)
  <1>1. CASE \E c \in Clerk : Reads(c)
    BY <1>1, ReadsChangeNothing
  <1>2. CASE \E c \in Clerk : Writes(c)
    BY <1>2 DEF Writes, CommitSale, CommitChange, CommitAssignment
  <1>3. CASE \E r \in Reservation : GoesOn(r)
    BY <1>3 DEF GoesOn, ReleaseVehicle, HandOver, CallOff
  <1>4. CASE \E r \in Reservation : Returned(r)
    BY <1>4 DEF Returned, HandBack
  <1>5. CASE UNCHANGED vars
    BY <1>5 DEF vars
  <1>. QED
    BY <1>1, <1>2, <1>3, <1>4, <1>5, SalesStep

LEMMA FleetStays ==
    ASSUME TypeOK, [SalesOnly]_vars
    PROVE  /\ blocks' = blocks
           /\ \A cat, pool, lo, hi : /\ Fleet(cat, pool)' = Fleet(cat, pool)
                                     /\ Blocked(cat, pool, lo, hi)' = Blocked(cat, pool, lo, hi)
           /\ \A cat, pool, t : Usable(cat, pool, t)' = Usable(cat, pool, t)
  <1>1. blocks' = blocks /\ active' = active
    BY SalesKeepTheFleet
  <1>2. \A v \in Vehicle : PoolOf[office'[v]] = PoolOf[office[v]]
    <2>1. ASSUME NEW r \in Reservation, Returned(r)
          PROVE  \A v \in Vehicle : PoolOf[office'[v]] = PoolOf[office[v]]
      BY <2>1 DEF Returned, HandBack, TypeOK
    <2>. QED
      BY <2>1, SalesKeepTheFleet
  <1>3. \A cat, pool : Fleet(cat, pool)' = Fleet(cat, pool)
    BY <1>1, <1>2 DEF Fleet
  <1>4. \A cat, pool, lo, hi : Blocked(cat, pool, lo, hi)' = Blocked(cat, pool, lo, hi)
    BY <1>1, <1>3 DEF Blocked, BlocksOver
  <1>5. \A cat, pool, t : Usable(cat, pool, t)' = Usable(cat, pool, t)
    BY <1>3, <1>4 DEF Usable
  <1>. QED
    BY <1>1, <1>3, <1>4, <1>5

\* A row that is live after a step was live before it, in the same place and at the same
\* time, with the same car or one less, unless a transaction that is now over wrote it.
LEMMA RowsChangeByTransactions ==
    ASSUME TypeOK, [SalesOnly]_vars, NEW x \in Reservation, status'[x] \in Consuming
    PROVE  \/ /\ status[x] \in Consuming
              /\ \/ row'[x] = row[x]
                 \/ row'[x] = [row[x] EXCEPT !.vehicle = NoVehicle]
           \/ \E c \in Clerk :
                 /\ job[c] \in Transaction /\ job[c].res = x /\ job'[c] = Idle
                 /\ \/ CommitSale(c) /\ row'[x] = job[c].want
                    \/ CommitChange(c) /\ status'[x] = status[x] /\ row'[x] = job[c].want
                    \/ /\ CommitAssignment(c) /\ status'[x] = status[x]
                       /\ row'[x] = [row[x] EXCEPT !.vehicle = job[c].want.vehicle]
  <1>1. CASE status' = status /\ row' = row
    BY <1>1
  <1>2. ASSUME NEW c \in Clerk, CommitSale(c) \/ CommitChange(c) \/ CommitAssignment(c)
        PROVE  \/ status'[x] = status[x] /\ row'[x] = row[x]
               \/ /\ job[c] \in Transaction /\ job[c].res = x /\ job'[c] = Idle
                  /\ \/ CommitSale(c) /\ row'[x] = job[c].want
                     \/ CommitChange(c) /\ status'[x] = status[x] /\ row'[x] = job[c].want
                     \/ /\ CommitAssignment(c) /\ status'[x] = status[x]
                        /\ row'[x] = [row[x] EXCEPT !.vehicle = job[c].want.vehicle]
    <2>1. job[c] \in Transaction
      BY <1>2, OpenTransaction DEF CommitSale, CommitChange, CommitAssignment
    <2>2. job'[c] = Idle
      BY <1>2 DEF CommitSale, CommitChange, CommitAssignment, TypeOK
    <2>3. CASE CommitSale(c)
      BY <2>1, <2>2, <2>3 DEF CommitSale, TypeOK
    <2>4. CASE CommitChange(c)
      BY <2>1, <2>2, <2>4 DEF CommitChange, TypeOK
    <2>5. CASE CommitAssignment(c)
      BY <2>1, <2>2, <2>5 DEF CommitAssignment, TypeOK
    <2>. QED
      BY <1>2, <2>3, <2>4, <2>5
  <1>3. ASSUME NEW c \in Clerk, Reads(c)
        PROVE  status' = status /\ row' = row
    BY <1>3, ReadsChangeNothing
  <1>4. ASSUME NEW r \in Reservation, ReleaseVehicle(r)
        PROVE  /\ status[x] \in Consuming
               /\ row'[x] = row[x] \/ row'[x] = [row[x] EXCEPT !.vehicle = NoVehicle]
    BY <1>4 DEF ReleaseVehicle, TypeOK
  <1>5. ASSUME NEW r \in Reservation, HandOver(r)
        PROVE  status[x] \in Consuming /\ row'[x] = row[x]
    BY <1>5 DEF HandOver, TypeOK, Consuming
  <1>6. ASSUME NEW r \in Reservation, CallOff(r) \/ Returned(r)
        PROVE  status[x] \in Consuming /\ row'[x] = row[x]
    BY <1>6 DEF CallOff, Returned, HandBack, Close, TypeOK, Consuming
  <1>7. CASE UNCHANGED vars
    BY <1>1, <1>7 DEF vars
  <1>8. CASE \E c \in Clerk : Writes(c)
    BY <1>2, <1>8 DEF Writes
  <1>9. CASE \E r \in Reservation : GoesOn(r) \/ Returned(r)
    BY <1>4, <1>5, <1>6, <1>9 DEF GoesOn
  <1>. QED
    BY <1>1, <1>3, <1>7, <1>8, <1>9, SalesStep

\* What a transaction has open is only written by itself.
LEMMA RowIsHeld ==
    ASSUME TypeOK, LocksExclude, [SalesOnly]_vars,
           NEW c \in Clerk, job[c].kind # "idle", job'[c] = job[c]
    PROVE  status'[job[c].res] = status[job[c].res] /\ row'[job[c].res] = row[job[c].res]
  <1> DEFINE r == job[c].res
  <1>0. job[c] \in Transaction /\ r \in Reservation
    <2>1. job[c] \in Transaction
      BY OpenTransaction
    <2>. QED
      BY <2>1 DEF Transaction
  <1>1. ASSUME NEW d \in Clerk, CommitSale(d) \/ CommitChange(d) \/ CommitAssignment(d)
        PROVE  status'[r] = status[r] /\ row'[r] = row[r]
    <2>1. job'[d] = Idle /\ job[d].kind # "idle"
      BY <1>1 DEF CommitSale, CommitChange, CommitAssignment, TypeOK
    <2>2. d # c
      BY <2>1 DEF Idle
    <2>3. job[d].res # r
      BY <2>1, <2>2 DEF LocksExclude
    <2>. QED
      BY <1>0, <1>1, <2>3 DEF CommitSale, CommitChange, CommitAssignment, TypeOK
  <1>2. ASSUME NEW x \in Reservation, GoesOn(x) \/ Returned(x)
        PROVE  status'[r] = status[r] /\ row'[r] = row[r]
    <2>1. x # r
      BY <1>2 DEF GoesOn, Returned, ReleaseVehicle, HandOver, CallOff, HandBack, RowFree
    <2>. QED
      BY <1>0, <1>2, <2>1
         DEF GoesOn, Returned, ReleaseVehicle, HandOver, CallOff, HandBack, Close, TypeOK
  <1>3. CASE UNCHANGED vars
    BY <1>3 DEF vars
  <1>. QED
    BY <1>1, <1>2, <1>3, ReadsChangeNothing, SalesStep DEF Writes

-----------------------------------------------------------------------------
(* What is counted fits *)

\* A car is not blocked while it is promised, or asked for.
CarsAreFree ==
    \A r \in Reservation :
        status[r] \in Consuming /\ row[r].vehicle # NoVehicle =>
            BlocksOver(row[r].vehicle, row[r].from, row[r].to + Rotation) = {}
WantIsFree(j) ==
    j.want.vehicle # NoVehicle =>
        BlocksOver(j.want.vehicle, j.want.from, j.want.to + Rotation) = {}

\* The row is still what the transaction read.
ReadsItsRow(j) ==
    /\ j.kind = "sale" => status[j.res] = "unsold"
    /\ j.kind = "change" => /\ status[j.res] \in Consuming
                            /\ j.want.overbooked = row[j.res].overbooked
    /\ j.kind = "assignment" => /\ status[j.res] \in Consuming
                                /\ j.want.from = row[j.res].from /\ j.want.to = row[j.res].to

\* There is a car for one more, other than r, at every instant of booking b.
Others(b, r, t) == Committed(b.category, PoolOf[b.pickup], t) \ {r}
HasRoom(b, r) ==
    \A t \in CalendarInstant :
        Overlaps(b, t, t + 1) =>
            Cardinality(Others(b, r, t)) < Cardinality(Usable(b.category, PoolOf[b.pickup], t))
Promised(j) == j.kind = "change" \/ (j.kind = "sale" /\ ~j.want.overbooked)

Trustworthy(j) == WantIsFree(j) /\ ReadsItsRow(j) /\ (Promised(j) => HasRoom(j.want, j.res))
SalesInv == CarsAreFree /\ \A c \in Clerk : job[c].kind # "idle" => Trustworthy(job[c])

\* The count is over the whole period, and what it takes for free is free at each instant: a
\* rival that is not counted has a car that is blocked at some other instant, of its own.
LEMMA TheCountIsEnough ==
    ASSUME TypeOK, NoCarPromisedTwice, CarsAreFree,
           NEW b \in Booking, NEW r, NEW except \in SUBSET {r}, Free(b, except) > 0
    PROVE  HasRoom(b, r)
  <1>. SUFFICES ASSUME NEW t \in CalendarInstant, Overlaps(b, t, t + 1)
                PROVE  Cardinality(Others(b, r, t))
                         < Cardinality(Usable(b.category, PoolOf[b.pickup], t))
    BY DEF HasRoom
  <1>. DEFINE pool == PoolOf[b.pickup]
              fleet == Fleet(b.category, pool)
              blocked == Blocked(b.category, pool, b.from, b.to + Rotation)
              now == Blocked(b.category, pool, t, t + 1)
              counted == {x \in Rivals(b, except) : row[x].vehicle \notin blocked}
              others == Others(b, r, t)
              hidden == {x \in others : row[x].vehicle \in blocked}
  <1>1. /\ t \in Int /\ b.from \in Int /\ b.to \in Int /\ Rotation \in Nat
        /\ b.from <= t /\ t < b.to + Rotation
    BY ConstantsAssumption DEF CalendarInstant, Booking, Instant, Overlaps
  <1>2. \A x \in Reservation : row[x] \in Booking /\ row[x].from \in Int /\ row[x].to \in Int
    BY ConstantsAssumption DEF TypeOK, Booking, Instant
  <1>3. \A k \in blocks : k.from \in Int /\ k.to \in Int
    BY ConstantsAssumption DEF TypeOK, Block, Instant
  <1>4. fleet \subseteq Vehicle /\ blocked \subseteq fleet /\ now \subseteq blocked
    BY <1>1, <1>3 DEF Fleet, Blocked, BlocksOver
  <1>5. \A x \in others :
            /\ x \in Rivals(b, except) /\ x \in Reservation /\ status[x] \in Consuming
            /\ row[x].from <= t /\ t < row[x].to + Rotation
    BY <1>1, <1>2 DEF Others, Committed, Rivals, Occupies, Overlaps
  <1>6. IsFiniteSet(fleet) /\ IsFiniteSet(blocked) /\ IsFiniteSet(now)
    BY <1>4, ConstantsAssumption, FS_Subset
  <1>7. IsFiniteSet(counted)
    <2>1. counted \in SUBSET Reservation
      BY DEF Rivals
    <2>. QED
      BY <2>1, ConstantsAssumption, FS_Subset
  <1>8. \A x \in hidden : row[x].vehicle \in blocked \ now
    <2>. SUFFICES ASSUME NEW x \in hidden, row[x].vehicle \in now
                  PROVE  FALSE
      OBVIOUS
    <2>1. row[x].vehicle \in Vehicle
      BY <1>4
    <2>2. BlocksOver(row[x].vehicle, row[x].from, row[x].to + Rotation) = {}
      BY <1>5, <2>1, ConstantsAssumption DEF CarsAreFree
    <2>3. BlocksOver(row[x].vehicle, t, t + 1) # {}
      BY DEF Blocked
    <2>4. BlocksOver(row[x].vehicle, t, t + 1) \subseteq
              BlocksOver(row[x].vehicle, row[x].from, row[x].to + Rotation)
      BY <1>1, <1>2, <1>3, <1>5 DEF BlocksOver
    <2>. QED
      BY <2>2, <2>3, <2>4
  <1>9. \A x, y \in hidden : row[x].vehicle = row[y].vehicle => x = y
    <2>. SUFFICES ASSUME NEW x \in hidden, NEW y \in hidden, x # y, row[x].vehicle = row[y].vehicle
                  PROVE  FALSE
      OBVIOUS
    <2>1. row[x].vehicle # NoVehicle
      BY <1>4, ConstantsAssumption
    <2>2. y \in Conflicts(row[x].vehicle, row[x], {x})
      BY <1>1, <1>2, <1>5 DEF Conflicts, Overlaps
    <2>. QED
      BY <1>5, <2>1, <2>2 DEF NoCarPromisedTwice
  <1>10. Cardinality(hidden) <= Cardinality(blocked \ now) /\ IsFiniteSet(hidden)
    <2>. DEFINE f == [x \in hidden |-> row[x].vehicle]
    <2>1. IsFiniteSet(blocked \ now)
      BY <1>6, FS_Difference
    <2>2. f \in Injection(hidden, blocked \ now)
      <3>. HIDE DEF hidden, blocked, now
      <3>. QED
        BY <1>8, <1>9 DEF Injection, IsInjective
    <2>. HIDE DEF f, hidden, blocked, now
    <2>. QED
      BY <2>1, <2>2, FS_Injection
  <1>11. others \subseteq counted \cup hidden
    BY <1>5
  <1>12. Usable(b.category, pool, t) = fleet \ now
    BY DEF Usable
  <1>13. Cardinality(fleet) - Cardinality(blocked) - Cardinality(counted) > 0
    BY DEF Free
  <1>. HIDE DEF others, hidden, counted, now, blocked, fleet, pool
  <1>14. /\ Cardinality(blocked \ now) = Cardinality(blocked) - Cardinality(now)
         /\ Cardinality(fleet \ now) = Cardinality(fleet) - Cardinality(now)
    <2>1. blocked \cap now = now /\ fleet \cap now = now
      BY <1>4
    <2>2. /\ Cardinality(blocked \ now) = Cardinality(blocked) - Cardinality(blocked \cap now)
          /\ Cardinality(fleet \ now) = Cardinality(fleet) - Cardinality(fleet \cap now)
      BY <1>6, FS_Difference
    <2>. QED
      BY <2>1, <2>2
  <1>15. Cardinality(others) <= Cardinality(counted) + Cardinality(hidden)
    <2>1. /\ IsFiniteSet(counted \cup hidden)
          /\ Cardinality(counted \cup hidden) =
                 Cardinality(counted) + Cardinality(hidden) - Cardinality(counted \cap hidden)
      BY <1>7, <1>10, FS_Union
    <2>2. IsFiniteSet(others) /\ Cardinality(others) <= Cardinality(counted \cup hidden)
      BY <1>11, <2>1, FS_Subset
    <2>3. IsFiniteSet(counted \cap hidden)
      BY <1>7, FS_Subset
    <2>. QED
      BY <1>7, <1>10, <2>1, <2>2, <2>3, FS_CardinalityType
  <1>16. IsFiniteSet(others)
    BY <1>7, <1>10, <1>11, FS_Union, FS_Subset
  <1>17. /\ Cardinality(others) \in Nat /\ Cardinality(counted) \in Nat /\ Cardinality(hidden) \in Nat
         /\ Cardinality(fleet) \in Nat /\ Cardinality(blocked) \in Nat /\ Cardinality(now) \in Nat
    BY <1>6, <1>7, <1>10, <1>16, FS_CardinalityType
  <1>18. Cardinality(others) < Cardinality(fleet \ now)
    BY <1>10, <1>13, <1>14, <1>15, <1>17
  <1>. QED
    BY <1>12, <1>18 DEF others, pool

\* What is true of a transaction when it has just read.
Opened(c) ==
    /\ job'[c] \in Transaction
    /\ status' = status /\ row' = row
    /\ WantIsFree(job'[c]) /\ ReadsItsRow(job'[c])
    /\ Promised(job'[c]) => \E except \in SUBSET {job'[c].res} : Free(job'[c].want, except) > 0

LEMMA ReadsOpen ==
    ASSUME TypeOK, NEW c \in Clerk, Reads(c), NEW d \in Clerk
    PROVE  job'[d] = job[d] \/ job'[d] = Idle \/ Opened(d)
  <1>1. ASSUME d # c PROVE job'[d] = job[d]
    <2>1. ASSUME NEW r \in Reservation, NEW b \in Requests, CountForSale(c, r, b)
          PROVE  job'[d] = job[d]
      BY <1>1, <2>1 DEF CountForSale, Open, TypeOK
    <2>2. ASSUME NEW r \in Reservation, NEW b \in Requests, NEW drop \in BOOLEAN,
                 CountForChange(c, r, b.from, b.to, b.category, drop)
          PROVE  job'[d] = job[d]
      BY <1>1, <2>2 DEF CountForChange, Open, TypeOK
    <2>3. ASSUME NEW r \in Reservation, NEW v \in Vehicle, CheckAssignment(c, r, v)
          PROVE  job'[d] = job[d]
      BY <1>1, <2>3 DEF CheckAssignment, Open, TypeOK
    <2>4. CASE Rollback(c)
      BY <1>1, <2>4 DEF Rollback, TypeOK
    <2>. QED
      BY <2>1, <2>2, <2>3, <2>4 DEF Reads
  <1>2. CASE Rollback(c)
    BY <1>1, <1>2 DEF Rollback, TypeOK
  <1>3. ASSUME NEW r \in Reservation, NEW b \in Requests, CountForSale(c, r, b)
        PROVE  Opened(c)
    <2>. DEFINE j == [kind |-> "sale", res |-> r, want |-> b, seen |-> Rivals(b, {})]
    <2>1. job'[c] = j /\ status' = status /\ row' = row
      BY <1>3 DEF CountForSale, Open, TypeOK
    <2>2. j \in Transaction
      <3>1. Rivals(b, {}) \subseteq Reservation
        BY DEF Rivals
      <3>. QED
        BY <3>1, RequestIsBooking DEF Transaction
    <2>3. WantIsFree(j)
      BY <1>3 DEF WantIsFree, CountForSale, VehicleFits
    <2>4. ReadsItsRow(j)
      BY <1>3 DEF ReadsItsRow, CountForSale
    <2>5. Promised(j) => \E except \in SUBSET {j.res} : Free(j.want, except) > 0
      BY <1>3 DEF Promised, CountForSale
    <2>. HIDE DEF j
    <2>. QED
      BY <2>1, <2>2, <2>3, <2>4, <2>5 DEF Opened
  <1>4. ASSUME NEW r \in Reservation, NEW b \in Requests, NEW drop \in BOOLEAN,
               CountForChange(c, r, b.from, b.to, b.category, drop)
        PROVE  Opened(c)
    <2>. DEFINE car == IF drop \/ (row[r].vehicle # NoVehicle /\ CategoryOf[row[r].vehicle] # b.category)
                       THEN NoVehicle ELSE row[r].vehicle
                n == [row[r] EXCEPT !.from = b.from, !.to = b.to,
                                    !.category = b.category, !.vehicle = car]
                j == [kind |-> "change", res |-> r, want |-> n, seen |-> Rivals(n, {r})]
    <2>1. job'[c] = j /\ status' = status /\ row' = row
      BY <1>4 DEF CountForChange, Open, TypeOK
    <2>2. n \in Booking /\ n.vehicle = car /\ n.overbooked = row[r].overbooked
      BY RequestIsBooking DEF TypeOK, Booking
    <2>3. /\ status[r] \in Consuming /\ Free(n, {r}) > 0
          /\ car # NoVehicle => BlocksOver(car, n.from, n.to + Rotation) = {}
      BY <1>4 DEF CountForChange, VehicleFits
    <2>. HIDE DEF n, car
    <2>4. j \in Transaction
      <3>1. Rivals(n, {r}) \subseteq Reservation
        BY DEF Rivals
      <3>. QED
        BY <2>2, <3>1 DEF Transaction
    <2>5. WantIsFree(j)
      BY <2>2, <2>3 DEF WantIsFree
    <2>6. ReadsItsRow(j)
      BY <2>2, <2>3 DEF ReadsItsRow
    <2>7. \E except \in SUBSET {j.res} : Free(j.want, except) > 0
      BY <2>3
    <2>. HIDE DEF j
    <2>. QED
      BY <2>1, <2>4, <2>5, <2>6, <2>7 DEF Opened
  <1>5. ASSUME NEW r \in Reservation, NEW v \in Vehicle, CheckAssignment(c, r, v)
        PROVE  Opened(c)
    <2>. DEFINE n == [row[r] EXCEPT !.vehicle = v]
                j == [kind |-> "assignment", res |-> r, want |-> n, seen |-> {}]
    <2>1. job'[c] = j /\ status' = status /\ row' = row
      BY <1>5 DEF CheckAssignment, Open, TypeOK
    <2>2. n \in Booking /\ n.vehicle = v /\ n.from = row[r].from /\ n.to = row[r].to
      BY DEF TypeOK, Booking
    <2>3. status[r] \in Consuming /\ BlocksOver(v, row[r].from, row[r].to + Rotation) = {}
      BY <1>5 DEF CheckAssignment, VehicleFits
    <2>. HIDE DEF n
    <2>4. j \in Transaction
      BY <2>2 DEF Transaction
    <2>5. WantIsFree(j) /\ ReadsItsRow(j) /\ ~Promised(j)
      BY <2>2, <2>3 DEF WantIsFree, ReadsItsRow, Promised
    <2>. HIDE DEF j
    <2>. QED
      BY <2>1, <2>4, <2>5 DEF Opened
  <1>. QED
    BY <1>1, <1>2, <1>3, <1>4, <1>5 DEF Reads

LEMMA JobsMove ==
    ASSUME TypeOK, [SalesOnly]_vars, NEW d \in Clerk
    PROVE  job'[d] = job[d] \/ job'[d] = Idle \/ Opened(d)
  <1>1. CASE \E c \in Clerk : Reads(c)
    BY <1>1, ReadsOpen
  <1>2. CASE \E c \in Clerk : Writes(c)
    BY <1>2 DEF Writes, CommitSale, CommitChange, CommitAssignment, TypeOK
  <1>3. CASE \E r \in Reservation : GoesOn(r) \/ Returned(r)
    BY <1>3 DEF GoesOn, Returned, ReleaseVehicle, HandOver, CallOff, HandBack
  <1>4. CASE UNCHANGED vars
    BY <1>4 DEF vars
  <1>. QED
    BY <1>1, <1>2, <1>3, <1>4, SalesStep

\* Nobody comes into a scope that somebody else is counting.
LEMMA NobodyComes ==
    ASSUME TypeOK, LocksExclude, [SalesOnly]_vars,
           NEW c \in Clerk, job[c].kind \in Counting, job'[c] = job[c], NEW t
    PROVE  Others(job[c].want, job[c].res, t)' \subseteq Others(job[c].want, job[c].res, t)
  <1>. DEFINE b == job[c].want
  <1>. SUFFICES ASSUME NEW x \in Reservation, x # job[c].res, status'[x] \in Consuming,
                       row'[x].category = b.category, PoolOf[row'[x].pickup] = PoolOf[b.pickup],
                       row'[x].from < t + 1, t < row'[x].to + Rotation
                PROVE  x \in Others(b, job[c].res, t)
    BY DEF Others, Committed, Overlaps
  <1>1. ASSUME status[x] \in Consuming,
               row'[x].category = row[x].category, row'[x].pickup = row[x].pickup,
               row'[x].from = row[x].from, row'[x].to = row[x].to
        PROVE  x \in Others(b, job[c].res, t)
    BY <1>1 DEF Others, Committed, Overlaps
  <1>2. ASSUME NEW v, row'[x] = [row[x] EXCEPT !.vehicle = v], status[x] \in Consuming
        PROVE  x \in Others(b, job[c].res, t)
    <2>1. row[x] \in Booking
      BY DEF TypeOK
    <2>. QED
      BY <1>1, <1>2, <2>1 DEF Booking
  <1>3. ASSUME NEW d \in Clerk, job[d] \in Transaction, job'[d] = Idle,
               CommitSale(d) \/ CommitChange(d), row'[x] = job[d].want
        PROVE  FALSE
    <2>1. d # c
      BY <1>3 DEF Idle, Counting
    <2>2. ScopeOf(job[d].want) # ScopeOf(b)
      BY <1>3, <2>1 DEF CommitSale, CommitChange, LocksExclude, Counting
    <2>. QED
      BY <1>3, <2>2 DEF ScopeOf
  <1>. QED
    BY <1>1, <1>2, <1>3, RowsChangeByTransactions

LEMMA SalesInvHolds ==
    ASSUME TypeOK, LocksExclude, NoCarPromisedTwice, SalesInv, [SalesOnly]_vars
    PROVE  SalesInv'
  <1>1. /\ blocks' = blocks
        /\ \A cat, pool, t : Usable(cat, pool, t)' = Usable(cat, pool, t)
    BY FleetStays
  <1>2. CarsAreFree'
    <2>. SUFFICES ASSUME NEW x \in Reservation, status'[x] \in Consuming, row'[x].vehicle # NoVehicle
                  PROVE  BlocksOver(row'[x].vehicle, row'[x].from, row'[x].to + Rotation) = {}
      BY <1>1 DEF CarsAreFree, BlocksOver
    <2>1. row[x] \in Booking
      BY DEF TypeOK
    <2>2. CASE status[x] \in Consuming /\ row'[x] = row[x]
      BY <2>2 DEF SalesInv, CarsAreFree
    <2>3. row'[x] # [row[x] EXCEPT !.vehicle = NoVehicle]
      BY <2>1 DEF Booking
    <2>4. ASSUME NEW c \in Clerk, job[c].kind # "idle", row'[x] = job[c].want
          PROVE  BlocksOver(row'[x].vehicle, row'[x].from, row'[x].to + Rotation) = {}
      BY <2>4 DEF SalesInv, Trustworthy, WantIsFree
    <2>5. ASSUME NEW c \in Clerk, CommitAssignment(c), job[c].res = x,
                 row'[x] = [row[x] EXCEPT !.vehicle = job[c].want.vehicle]
          PROVE  BlocksOver(row'[x].vehicle, row'[x].from, row'[x].to + Rotation) = {}
      <3>1. /\ row'[x].vehicle = job[c].want.vehicle
            /\ row'[x].from = row[x].from /\ row'[x].to = row[x].to
        BY <2>1, <2>5 DEF Booking
      <3>2. job[c].want.from = row[x].from /\ job[c].want.to = row[x].to
        BY <2>5 DEF CommitAssignment, SalesInv, Trustworthy, ReadsItsRow
      <3>. QED
        BY <2>5, <3>1, <3>2 DEF CommitAssignment, SalesInv, Trustworthy, WantIsFree
    <2>. QED
      BY <2>2, <2>3, <2>4, <2>5, RowsChangeByTransactions DEF CommitSale, CommitChange
  <1>3. ASSUME NEW c \in Clerk, job'[c] = job[c], job[c].kind # "idle"
        PROVE  Trustworthy(job[c])'
    <2>. DEFINE j == job[c]
    <2>1. Trustworthy(j) /\ j \in Transaction
      BY <1>3, OpenTransaction DEF SalesInv
    <2>2. WantIsFree(j)'
      BY <1>1, <1>3, <2>1 DEF Trustworthy, WantIsFree, BlocksOver
    <2>3. ReadsItsRow(j)'
      BY <1>3, <2>1, RowIsHeld DEF Trustworthy, ReadsItsRow
    <2>4. ASSUME Promised(j)
          PROVE  HasRoom(j.want, j.res)'
      <3>1. j.kind \in Counting /\ HasRoom(j.want, j.res)
        BY <2>1, <2>4 DEF Promised, Counting, Trustworthy
      <3>. SUFFICES ASSUME NEW t \in CalendarInstant, Overlaps(j.want, t, t + 1)
                    PROVE  Cardinality(Others(j.want, j.res, t)')
                             < Cardinality(Usable(j.want.category, PoolOf[j.want.pickup], t))
        BY <1>1, <1>3 DEF HasRoom, Overlaps, CalendarInstant
      <3>2. Cardinality(Others(j.want, j.res, t))
              < Cardinality(Usable(j.want.category, PoolOf[j.want.pickup], t))
        BY <3>1 DEF HasRoom
      <3>3. Others(j.want, j.res, t)' \subseteq Others(j.want, j.res, t)
        BY <1>3, <3>1, NobodyComes
      <3>4. Others(j.want, j.res, t) \subseteq Reservation
        BY DEF Others, Committed
      <3>5. Usable(j.want.category, PoolOf[j.want.pickup], t) \subseteq Vehicle
        BY DEF Usable, Fleet
      <3>6. /\ IsFiniteSet(Others(j.want, j.res, t))
            /\ IsFiniteSet(Usable(j.want.category, PoolOf[j.want.pickup], t))
        BY <3>4, <3>5, ConstantsAssumption, FS_Subset
      <3>7. /\ IsFiniteSet(Others(j.want, j.res, t)')
            /\ Cardinality(Others(j.want, j.res, t)') <= Cardinality(Others(j.want, j.res, t))
        BY <3>3, <3>6, FS_Subset
      <3>. QED
        BY <3>2, <3>6, <3>7, FS_CardinalityType
    <2>. QED
      BY <1>3, <2>2, <2>3, <2>4 DEF Trustworthy, Promised
  <1>4. ASSUME NEW c \in Clerk, Opened(c)
        PROVE  Trustworthy(job[c])'
    <2>. DEFINE j == job'[c]
    <2>1. j \in Transaction /\ j.want \in Booking /\ status' = status /\ row' = row
      BY <1>4 DEF Opened, Transaction
    <2>2. WantIsFree(job[c])'
      BY <1>1, <1>4 DEF Opened, WantIsFree, BlocksOver
    <2>3. ReadsItsRow(job[c])'
      BY <1>4 DEF Opened, ReadsItsRow
    <2>4. Promised(j) => HasRoom(j.want, j.res)
      BY <1>4, <2>1, TheCountIsEnough DEF Opened, SalesInv
    <2>5. HasRoom(j.want, j.res) => HasRoom(job[c].want, job[c].res)'
      BY <1>1, <2>1 DEF HasRoom, Others, Committed, Overlaps
    <2>. QED
      BY <2>2, <2>3, <2>4, <2>5 DEF Trustworthy, Promised
  <1>5. ASSUME NEW c \in Clerk, job'[c].kind # "idle"
        PROVE  Trustworthy(job[c])'
    BY <1>3, <1>4, <1>5, JobsMove DEF Idle
  <1>. QED
    BY <1>2, <1>5 DEF SalesInv

LEMMA InitSalesInv == Init => SalesInv
  BY DEF Init, SalesInv, CarsAreFree, Consuming, Idle

LEMMA SalesAreTrustworthy == SalesSpec => []SalesInv
  <1>1. TypeOK /\ LocksExclude /\ NoCarPromisedTwice /\ SalesInv /\ [SalesOnly]_vars => SalesInv'
    BY SalesInvHolds
  <1>. QED
    BY <1>1, InitSalesInv, SalesInvariants, PTL DEF SalesSpec

-----------------------------------------------------------------------------
(* The book *)

\* What the book holds for a row, and the rows and the cars as the book sees them.
Held(s, w) ==
    IF s \in Consuming
    THEN [category |-> w.category, pool |-> PoolOf[w.pickup],
          from |-> w.from, until |-> w.to + Rotation, authorised |-> w.overbooked]
    ELSE NoVehicle
Sold == [r \in Reservation |-> Held(status[r], row[r])]
Cars == [k \in Category \X Pool \X CalendarInstant |-> Cardinality(Usable(k[1], k[2], k[3]))]

LEMMA HeldIsACommitment ==
    ASSUME NEW s, NEW w \in Booking
    PROVE  /\ s \in Consuming => /\ Held(s, w) \in Book!Commitment
                                 /\ Held(s, w) # NoVehicle
                                 /\ Held(s, w).authorised = w.overbooked
           /\ s \notin Consuming => Held(s, w) = NoVehicle
  <1>1. /\ w.category \in Category /\ PoolOf[w.pickup] \in Pool /\ w.overbooked \in BOOLEAN
        /\ w.from \in 0 .. (Horizon + Rotation) /\ w.to + Rotation \in 0 .. (Horizon + Rotation)
    BY ConstantsAssumption DEF Booking, Instant
  <1>2. s \in Consuming =>
            Held(s, w) \in Book!Commitment /\ Held(s, w).authorised = w.overbooked
    BY <1>1 DEF Held, Book!Commitment, Book!Instant
  <1>3. NoVehicle \notin Book!Commitment
    BY ConstantsAssumption DEF Book!Commitment, Book!Instant
  <1>. QED
    BY <1>2, <1>3 DEF Held

LEMMA TakenIsCommitted ==
    TypeOK => \A cat, pool : \A t \in CalendarInstant :
                  Book!Taken(cat, pool, t) = Committed(cat, pool, t)
  <1>. SUFFICES ASSUME TypeOK, NEW cat, NEW pool, NEW t \in CalendarInstant
                PROVE  Book!Taken(cat, pool, t) = Committed(cat, pool, t)
    OBVIOUS
  <1>1. ASSUME NEW r \in Reservation
        PROVE  Book!Covers(Held(status[r], row[r]), cat, pool, t)
                 <=> /\ status[r] \in Consuming
                     /\ row[r].category = cat /\ PoolOf[row[r].pickup] = pool
                     /\ Overlaps(row[r], t, t + 1)
    <2>1. row[r] \in Booking /\ row[r].from \in Int /\ row[r].to \in Int /\ t \in Int /\ Rotation \in Int
      BY ConstantsAssumption DEF TypeOK, Booking, Instant, CalendarInstant
    <2>2. CASE status[r] \notin Consuming
      BY <2>1, <2>2, HeldIsACommitment DEF Book!Covers
    <2>3. CASE status[r] \in Consuming
      <3>1. Held(status[r], row[r]) # NoVehicle
        BY <2>1, <2>3, HeldIsACommitment
      <3>. QED
        BY <2>1, <2>3, <3>1 DEF Book!Covers, Held, Overlaps
    <2>. QED
      BY <2>2, <2>3
  <1>2. Book!Taken(cat, pool, t)
          = {r \in Reservation : Book!Covers(Held(status[r], row[r]), cat, pool, t)}
    BY DEF Book!Taken, Held
  <1>. QED
    BY <1>1, <1>2 DEF Committed

LEMMA TakenIsCommittedNext ==
    TypeOK' => \A cat, pool : \A t \in CalendarInstant :
                   Book!Taken(cat, pool, t)' = Committed(cat, pool, t)'
  <1>1. (TypeOK => \A cat, pool : \A t \in CalendarInstant :
                      Book!Taken(cat, pool, t) = Committed(cat, pool, t))'
    BY TakenIsCommitted, PTL
  <1>. QED
    BY <1>1 DEF CalendarInstant

LEMMA BookCountsTheSame == \A S : Book!Cardinality(S) = Cardinality(S)
  BY DEF Book!Cardinality, Cardinality

\* The steps of the book, over the two functions it reads.
LEMMA StepsOfTheBook ==
    ASSUME Cars' = Cars
    PROVE  /\ Sold' = Sold => UNCHANGED Book!vars
           /\ \A r \in Reservation :
                 Sold' = [Sold EXCEPT ![r] = NoVehicle] => Book!Next
           /\ \A r \in Reservation, s \in Book!Commitment :
                 /\ Sold' = [Sold EXCEPT ![r] = s]
                 /\ \/ Sold[r] = NoVehicle /\ (s.authorised \/ Book!FitsNow(s))
                    \/ Sold[r] # NoVehicle /\ s.authorised = Sold[r].authorised /\ Book!FitsNow(s)
                 => Book!Next
  <1>1. Sold' = Sold => UNCHANGED Book!vars
    BY DEF Sold, Held, Cars, Book!vars
  <1>2. ASSUME NEW r \in Reservation, Sold' = [Sold EXCEPT ![r] = NoVehicle]
        PROVE  Book!Next
    <2>1. Book!GiveBack(r)
      BY <1>2 DEF Book!GiveBack, Sold, Held, Cars
    <2>. QED
      BY <2>1 DEF Book!Next
  <1>3. ASSUME NEW r \in Reservation, NEW s \in Book!Commitment,
               Sold' = [Sold EXCEPT ![r] = s],
               \/ Sold[r] = NoVehicle /\ (s.authorised \/ Book!FitsNow(s))
               \/ Sold[r] # NoVehicle /\ s.authorised = Sold[r].authorised /\ Book!FitsNow(s)
        PROVE  Book!Next
    <2>1. Book!Sell(r, s) \/ Book!Reschedule(r, s)
      BY <1>3 DEF Book!Sell, Book!Reschedule, Sold, Held, Cars
    <2>2. Sold'[r] = s
      BY <1>3 DEF Sold
    <2>3. s \in Book!Commitment \cap {Sold'[r]}
      BY <2>2
    <2>. QED
      BY <2>1, <2>3 DEF Book!Next, Sold, Held
  <1>. QED
    BY <1>1, <1>2, <1>3

\* Where there was room for one more, the book fits after one more has come.
LEMMA RoomIsEnough ==
    ASSUME TypeOK, TypeOK', NEW b \in Booking, NEW r \in Reservation, HasRoom(b, r),
           NEW k \in Consuming,
           \A x \in Reservation \ {r} : status'[x] = status[x] /\ row'[x] = row[x]
    PROVE  Book!FitsNow(Held(k, b))
  <1>. DEFINE s == Held(k, b)
              cat == b.category
              pool == PoolOf[b.pickup]
  <1>1. s.category = cat /\ s.pool = pool /\ s.from = b.from /\ s.until = b.to + Rotation
    BY DEF Held
  <1>2. cat \in Category /\ pool \in Pool /\ b.from \in Int /\ b.to \in Int
    BY ConstantsAssumption DEF Booking, Instant
  <1>3. ASSUME NEW t \in CalendarInstant, Book!Covers(s, cat, pool, t)
        PROVE  Cardinality(Book!Taken(cat, pool, t)') <= Cardinality(Usable(cat, pool, t))
    <2>1. t \in Int /\ Rotation \in Int
      BY ConstantsAssumption DEF CalendarInstant
    <2>2. Overlaps(b, t, t + 1)
      BY <1>1, <1>2, <1>3, <2>1 DEF Book!Covers, Overlaps
    <2>3. Cardinality(Others(b, r, t)) < Cardinality(Usable(cat, pool, t))
      BY <2>2 DEF HasRoom
    <2>4. Book!Taken(cat, pool, t)' = Committed(cat, pool, t)'
      BY TakenIsCommittedNext
    <2>5. Committed(cat, pool, t)' \subseteq Others(b, r, t) \cup {r}
      BY DEF Committed, Others, Overlaps
    <2>6. Others(b, r, t) \subseteq Reservation /\ Usable(cat, pool, t) \subseteq Vehicle
      BY DEF Others, Committed, Usable, Fleet
    <2>7. IsFiniteSet(Others(b, r, t)) /\ IsFiniteSet(Usable(cat, pool, t))
      BY <2>6, ConstantsAssumption, FS_Subset
    <2>8. r \notin Others(b, r, t)
      BY DEF Others
    <2>9. /\ IsFiniteSet(Others(b, r, t) \cup {r})
          /\ Cardinality(Others(b, r, t) \cup {r}) = Cardinality(Others(b, r, t)) + 1
      BY <2>7, <2>8, FS_AddElement
    <2>10. /\ IsFiniteSet(Committed(cat, pool, t)')
           /\ Cardinality(Committed(cat, pool, t)') <= Cardinality(Others(b, r, t) \cup {r})
      BY <2>5, <2>9, FS_Subset
    <2>11. /\ Cardinality(Others(b, r, t)) \in Nat /\ Cardinality(Usable(cat, pool, t)) \in Nat
           /\ Cardinality(Committed(cat, pool, t)') \in Nat
      BY <2>7, <2>10, FS_CardinalityType
    <2>. QED
      BY <2>3, <2>4, <2>9, <2>10, <2>11
  <1>4. \A t \in CalendarInstant : Cars[<<cat, pool, t>>] = Cardinality(Usable(cat, pool, t))
    BY <1>2 DEF Cars
  <1>5. Book!Instant = CalendarInstant
    BY DEF Book!Instant, CalendarInstant
  <1>6. Book!FitsNow(s)
    <2>. HIDE DEF s
    <2>. SUFFICES ASSUME NEW t \in CalendarInstant, Book!Covers(s, s.category, s.pool, t)
                  PROVE  Cardinality(Book!Taken(s.category, s.pool, t)')
                           <= Cars[<<s.category, s.pool, t>>]
      BY <1>5, BookCountsTheSame DEF Book!FitsNow, Cars
    <2>1. Cardinality(Book!Taken(cat, pool, t)') <= Cars[<<cat, pool, t>>]
      BY <1>1, <1>3, <1>4
    <2>. QED
      BY <1>1, <2>1
  <1>. QED
    BY <1>6

LEMMA StepIsOfTheBook ==
    ASSUME TypeOK, TypeOK', LocksExclude, NoCarPromisedTwice, SalesInv, [SalesOnly]_vars
    PROVE  [Book!Next]_(Book!vars)
  <1>1. Cars' = Cars
    <2>1. \A cat, pool, t : Usable(cat, pool, t)' = Usable(cat, pool, t)
      BY FleetStays
    <2>. QED
      BY <2>1 DEF Cars, CalendarInstant
  <1>2. Sold = [r \in Reservation |-> Held(status[r], row[r])]
        /\ Sold' = [r \in Reservation |-> Held(status'[r], row'[r])]
    BY DEF Sold, Held
  <1>3. ASSUME \A x \in Reservation : Held(status'[x], row'[x]) = Held(status[x], row[x])
        PROVE  UNCHANGED Book!vars
    BY <1>1, <1>2, <1>3, StepsOfTheBook
  <1>4. ASSUME NEW r \in Reservation, NEW s,
               Held(status'[r], row'[r]) = s,
               \A x \in Reservation \ {r} : status'[x] = status[x] /\ row'[x] = row[x]
        PROVE  Sold' = [Sold EXCEPT ![r] = s]
    BY <1>2, <1>4
  <1>5. CASE \E c \in Clerk : Reads(c)
    <2>1. status' = status /\ row' = row
      BY <1>5, ReadsChangeNothing
    <2>. QED
      BY <2>1, <1>3
  <1>6. ASSUME NEW c \in Clerk, CommitSale(c)
        PROVE  Book!Next
    <2>. DEFINE r == job[c].res
                b == job[c].want
                s == Held("booked", b)
    <2>1. job[c] \in Transaction /\ r \in Reservation /\ b \in Booking /\ job[c].kind = "sale"
      BY <1>6, OpenTransaction DEF CommitSale, Transaction
    <2>2. status[r] = "unsold" /\ (b.overbooked \/ HasRoom(b, r))
      BY <2>1 DEF SalesInv, Trustworthy, ReadsItsRow, Promised
    <2>3. /\ status'[r] = "booked" /\ row'[r] = b
          /\ \A x \in Reservation \ {r} : status'[x] = status[x] /\ row'[x] = row[x]
      BY <1>6, <2>1 DEF CommitSale, TypeOK
    <2>4. "booked" \in Consuming /\ "unsold" \notin Consuming
      BY DEF Consuming
    <2>5. Sold' = [Sold EXCEPT ![r] = s]
      BY <1>4, <2>1, <2>3
    <2>6. Sold[r] = NoVehicle
      BY <1>2, <2>1, <2>2, <2>4 DEF Held
    <2>7. s \in Book!Commitment /\ s.authorised = b.overbooked
      BY <2>1, <2>4, HeldIsACommitment
    <2>8. HasRoom(b, r) => Book!FitsNow(s)
      BY <2>1, <2>3, <2>4, RoomIsEnough
    <2>. HIDE DEF s
    <2>. QED
      BY <1>1, <2>1, <2>2, <2>5, <2>6, <2>7, <2>8, StepsOfTheBook
  <1>7. ASSUME NEW c \in Clerk, CommitChange(c)
        PROVE  Book!Next
    <2>. DEFINE r == job[c].res
                b == job[c].want
                s == Held(status[r], b)
    <2>1. job[c] \in Transaction /\ r \in Reservation /\ b \in Booking /\ job[c].kind = "change"
      BY <1>7, OpenTransaction DEF CommitChange, Transaction
    <2>2. status[r] \in Consuming /\ b.overbooked = row[r].overbooked /\ HasRoom(b, r)
      BY <2>1 DEF SalesInv, Trustworthy, ReadsItsRow, Promised
    <2>3. /\ status'[r] = status[r] /\ row'[r] = b
          /\ \A x \in Reservation \ {r} : status'[x] = status[x] /\ row'[x] = row[x]
      BY <1>7, <2>1 DEF CommitChange, TypeOK
    <2>4. Sold' = [Sold EXCEPT ![r] = s]
      BY <1>4, <2>1, <2>3
    <2>5. Sold[r] # NoVehicle /\ Sold[r].authorised = row[r].overbooked
      BY <1>2, <2>1, <2>2, HeldIsACommitment DEF TypeOK
    <2>6. s \in Book!Commitment /\ s.authorised = b.overbooked
      BY <2>1, <2>2, HeldIsACommitment
    <2>7. Book!FitsNow(s)
      BY <2>1, <2>2, <2>3, RoomIsEnough
    <2>. HIDE DEF s
    <2>. QED
      BY <1>1, <2>1, <2>2, <2>4, <2>5, <2>6, <2>7, StepsOfTheBook
  <1>8. ASSUME NEW r \in Reservation, NEW v,
               row' = [row EXCEPT ![r].vehicle = v], status' = status
        PROVE  UNCHANGED Book!vars
    <2>1. ASSUME NEW x \in Reservation
          PROVE  Held(status'[x], row'[x]) = Held(status[x], row[x])
      <3>1. row[x] \in Booking /\ row[r] \in Booking
        BY DEF TypeOK
      <3>2. /\ row'[x].category = row[x].category /\ row'[x].pickup = row[x].pickup
            /\ row'[x].from = row[x].from /\ row'[x].to = row[x].to
            /\ row'[x].overbooked = row[x].overbooked
        BY <1>8, <3>1 DEF TypeOK, Booking
      <3>. QED
        BY <1>8, <3>2 DEF Held
    <2>. QED
      BY <1>3, <2>1
  <1>9. ASSUME NEW c \in Clerk, CommitAssignment(c)
        PROVE  UNCHANGED Book!vars
    <2>1. job[c] \in Transaction /\ job[c].res \in Reservation
      BY <1>9, OpenTransaction DEF CommitAssignment, Transaction
    <2>. QED
      BY <1>8, <1>9, <2>1 DEF CommitAssignment
  <1>10. ASSUME NEW r \in Reservation, ReleaseVehicle(r)
         PROVE  UNCHANGED Book!vars
    BY <1>8, <1>10 DEF ReleaseVehicle
  <1>11. ASSUME NEW r \in Reservation, HandOver(r)
         PROVE  UNCHANGED Book!vars
    BY <1>3, <1>11 DEF HandOver, Held, Consuming, TypeOK
  <1>12. ASSUME NEW r \in Reservation, CallOff(r) \/ Returned(r)
         PROVE  Book!Next
    <2>1. /\ status'[r] = "closed"
          /\ \A x \in Reservation \ {r} : status'[x] = status[x] /\ row'[x] = row[x]
      BY <1>12 DEF CallOff, Returned, HandBack, Close, TypeOK
    <2>2. Held(status'[r], row'[r]) = NoVehicle
      BY <2>1 DEF Held, Consuming
    <2>3. Sold' = [Sold EXCEPT ![r] = NoVehicle]
      BY <1>4, <2>1, <2>2
    <2>. QED
      BY <1>1, <2>3, StepsOfTheBook
  <1>13. CASE UNCHANGED vars
    BY <1>3, <1>13 DEF vars
  <1>. QED
    BY <1>5, <1>6, <1>7, <1>9, <1>10, <1>11, <1>12, <1>13, SalesStep DEF Writes, GoesOn

LEMMA InitIsOfTheBook == Init => Book!Init
  <1>. SUFFICES ASSUME Init
                PROVE  Book!Init
    OBVIOUS
  <1>1. Sold = [r \in Reservation |-> NoVehicle]
    BY DEF Init, Sold, Held, Consuming
  <1>2. Cars \in [Category \X Pool \X CalendarInstant -> Nat]
    <2>1. ASSUME NEW k \in Category \X Pool \X CalendarInstant
          PROVE  Cardinality(Usable(k[1], k[2], k[3])) \in Nat
      <3>1. Usable(k[1], k[2], k[3]) \subseteq Vehicle
        BY DEF Usable, Fleet
      <3>. QED
        BY <3>1, ConstantsAssumption, FS_Subset, FS_CardinalityType
    <2>. QED
      BY <2>1 DEF Cars
  <1>3. Book!Instant = CalendarInstant
    BY DEF Book!Instant, CalendarInstant
  <1>. QED
    BY <1>1, <1>2, <1>3 DEF Book!Init, Sold, Held, Cars

\* While nobody touches a car or a block, whatever the clerks sell, move, assign and give back
\* at the same time, and for any fleet, each of their transactions is one step of the book: a
\* booking comes in or moves only where the cars suffice at every instant it covers, or when
\* it was authorised above them.
THEOREM SalesKeepTheBook == SalesSpec => KeepsTheBook
  <1>1. TypeOK /\ TypeOK' /\ LocksExclude /\ NoCarPromisedTwice /\ SalesInv /\ [SalesOnly]_vars
          => [Book!Next]_(Book!vars)
    BY StepIsOfTheBook
  <1>. QED
    BY <1>1, InitIsOfTheBook, SalesInvariants, SalesAreTrustworthy, PTL
       DEF SalesSpec, KeepsTheBook, Book!Spec

\* The book over one function, from the reservations to what is held for them.
TakenIn(s, cat, pool, t) == {r \in Reservation : Book!Covers(s[r], cat, pool, t)}
AuthorisedIn(s, cat, pool, t) == {r \in TakenIn(s, cat, pool, t) : s[r].authorised}
Enough(s, supply, cat, pool, t) ==
    Cardinality(TakenIn(s, cat, pool, t)) <= supply + Cardinality(AuthorisedIn(s, cat, pool, t))

LEMMA TakenIsFinite ==
    ASSUME NEW s, NEW cat, NEW pool, NEW t
    PROVE  /\ IsFiniteSet(TakenIn(s, cat, pool, t))
           /\ IsFiniteSet(AuthorisedIn(s, cat, pool, t))
           /\ Cardinality(TakenIn(s, cat, pool, t)) \in Nat
           /\ Cardinality(AuthorisedIn(s, cat, pool, t)) \in Nat
  <1>1. TakenIn(s, cat, pool, t) \subseteq Reservation
    BY DEF TakenIn
  <1>2. AuthorisedIn(s, cat, pool, t) \subseteq Reservation
    BY <1>1 DEF AuthorisedIn
  <1>. QED
    BY <1>1, <1>2, ConstantsAssumption, FS_Subset, FS_CardinalityType

\* Writing c in the place of r changes who is taken at an instant by r alone: the pool stays
\* within its cars if r is not taken then, if all of them fit, or if r is new and authorised.
LEMMA WritingOneKeepsEnough ==
    ASSUME NEW cat, NEW pool, NEW t, NEW supply \in Nat, NEW r \in Reservation, NEW c,
           NEW old \in [Reservation -> Book!Commitment \cup {NoVehicle}],
           NEW new, new = [old EXCEPT ![r] = c],
           Enough(old, supply, cat, pool, t),
           \/ ~Book!Covers(c, cat, pool, t)
           \/ Cardinality(TakenIn(new, cat, pool, t)) <= supply
           \/ c.authorised /\ old[r] = NoVehicle
    PROVE  Enough(new, supply, cat, pool, t)
  <1>. DEFINE taken == TakenIn(old, cat, pool, t)
              authorised == AuthorisedIn(old, cat, pool, t)
              taken2 == TakenIn(new, cat, pool, t)
              authorised2 == AuthorisedIn(new, cat, pool, t)
  <1>1. \A q \in Reservation : new[q] = IF q = r THEN c ELSE old[q]
    OBVIOUS
  <1>2. /\ IsFiniteSet(taken) /\ Cardinality(taken) \in Nat
        /\ IsFiniteSet(authorised) /\ Cardinality(authorised) \in Nat
        /\ Cardinality(taken2) \in Nat /\ Cardinality(authorised2) \in Nat
        /\ Cardinality(taken) <= supply + Cardinality(authorised)
    BY TakenIsFinite DEF Enough
  <1>3. CASE ~Book!Covers(c, cat, pool, t)
    <2>1. taken2 = taken \ {r} /\ authorised2 = authorised \ {r} /\ (r \in authorised => r \in taken)
      BY <1>1, <1>3 DEF TakenIn, AuthorisedIn
    <2>2. /\ Cardinality(taken \ {r}) =
               IF r \in taken THEN Cardinality(taken) - 1 ELSE Cardinality(taken)
          /\ Cardinality(authorised \ {r}) =
               IF r \in authorised THEN Cardinality(authorised) - 1 ELSE Cardinality(authorised)
      BY <1>2, FS_RemoveElement
    <2>. HIDE DEF taken, authorised, taken2, authorised2
    <2>3. Cardinality(taken2) <= supply + Cardinality(authorised2)
      BY <1>2, <2>1, <2>2
    <2>. QED
      BY <2>3 DEF Enough, taken2, authorised2
  <1>4. CASE Cardinality(taken2) <= supply
    <2>. HIDE DEF taken2, authorised2
    <2>1. Cardinality(taken2) <= supply + Cardinality(authorised2)
      BY <1>2, <1>4
    <2>. QED
      BY <2>1 DEF Enough, taken2, authorised2
  <1>5. CASE Book!Covers(c, cat, pool, t) /\ c.authorised /\ old[r] = NoVehicle
    <2>1. r \notin taken /\ r \notin authorised
      BY <1>5 DEF TakenIn, AuthorisedIn, Book!Covers
    <2>2. taken2 = taken \cup {r}
      BY <1>1, <1>5 DEF TakenIn
    <2>3. authorised2 = authorised \cup {r}
      <3>1. \A q \in taken : q \in Reservation /\ new[q] = old[q]
        BY <1>1, <2>1 DEF TakenIn
      <3>2. new[r].authorised
        BY <1>1, <1>5
      <3>3. authorised2 = {q \in taken \cup {r} : new[q].authorised}
        BY <2>2 DEF AuthorisedIn
      <3>4. authorised = {q \in taken : old[q].authorised}
        BY DEF AuthorisedIn
      <3>. HIDE DEF taken, authorised, authorised2
      <3>. QED
        BY <3>1, <3>2, <3>3, <3>4, Zenon
    <2>4. /\ Cardinality(taken \cup {r}) = Cardinality(taken) + 1
          /\ Cardinality(authorised \cup {r}) = Cardinality(authorised) + 1
      BY <1>2, <2>1, FS_AddElement
    <2>. HIDE DEF taken, authorised, taken2, authorised2
    <2>5. Cardinality(taken2) <= supply + Cardinality(authorised2)
      BY <1>2, <2>2, <2>3, <2>4
    <2>. QED
      BY <2>5 DEF Enough, taken2, authorised2
  <1>. QED
    BY <1>3, <1>4, <1>5

\* What the actions of the book say, over Sold and Cars.
LEMMA ReadingTheBook ==
    /\ Book!TypeOK <=> /\ Sold \in [Reservation -> Book!Commitment \cup {NoVehicle}]
                       /\ Cars \in [Category \X Pool \X CalendarInstant -> Nat]
    /\ \A cat, pool, t : /\ Book!Taken(cat, pool, t) = TakenIn(Sold, cat, pool, t)
                         /\ Book!Authorised(cat, pool, t) = AuthorisedIn(Sold, cat, pool, t)
    /\ Book!NeverShort <=>
          \A cat \in Category, pool \in Pool, t \in CalendarInstant :
              Enough(Sold, Cars[<<cat, pool, t>>], cat, pool, t)
  <1>1. Book!Instant = CalendarInstant
    BY DEF Book!Instant, CalendarInstant
  <1>2. Book!TypeOK <=> /\ Sold \in [Reservation -> Book!Commitment \cup {NoVehicle}]
                        /\ Cars \in [Category \X Pool \X CalendarInstant -> Nat]
    BY <1>1 DEF Book!TypeOK, Sold, Held, Cars
  <1>3. \A cat, pool, t : Book!Taken(cat, pool, t) = TakenIn(Sold, cat, pool, t)
    BY DEF Book!Taken, TakenIn, Sold, Held
  <1>4. \A cat, pool, t : Book!Authorised(cat, pool, t) = AuthorisedIn(Sold, cat, pool, t)
    BY <1>3 DEF Book!Authorised, AuthorisedIn, Sold, Held
  <1>5. Book!NeverShort <=>
          \A cat \in Category, pool \in Pool, t \in CalendarInstant :
              Enough(Sold, Cars[<<cat, pool, t>>], cat, pool, t)
    BY <1>1, <1>3, <1>4, BookCountsTheSame DEF Book!NeverShort, Enough, Cars
  <1>. QED
    BY <1>2, <1>3, <1>4, <1>5

LEMMA BookStartsEnough == Book!Init => Book!TypeOK /\ Book!NeverShort
  <1>. SUFFICES ASSUME Book!Init
                PROVE  Book!TypeOK /\ Book!NeverShort
    OBVIOUS
  <1>1. Sold = [r \in Reservation |-> NoVehicle]
    BY DEF Book!Init, Sold, Held
  <1>2. Cars \in [Category \X Pool \X CalendarInstant -> Nat]
    BY DEF Book!Init, Book!Instant, CalendarInstant, Cars
  <1>3. ASSUME NEW cat \in Category, NEW pool \in Pool, NEW t \in CalendarInstant
        PROVE  Enough(Sold, Cars[<<cat, pool, t>>], cat, pool, t)
    <2>1. TakenIn(Sold, cat, pool, t) = {}
      BY <1>1 DEF TakenIn, Book!Covers
    <2>2. AuthorisedIn(Sold, cat, pool, t) = {}
      BY <2>1 DEF AuthorisedIn
    <2>3. Cars[<<cat, pool, t>>] \in Nat
      BY <1>2
    <2>. QED
      BY <2>1, <2>2, <2>3, FS_EmptySet DEF Enough
  <1>. QED
    BY <1>1, <1>2, <1>3, ReadingTheBook

LEMMA BookStaysEnough ==
    Book!TypeOK /\ Book!NeverShort /\ [Book!Next]_(Book!vars) => Book!TypeOK' /\ Book!NeverShort'
  <1>. SUFFICES ASSUME Book!TypeOK, Book!NeverShort, [Book!Next]_(Book!vars)
                PROVE  Book!TypeOK' /\ Book!NeverShort'
    OBVIOUS
  <1>1. /\ Sold \in [Reservation -> Book!Commitment \cup {NoVehicle}]
        /\ Cars \in [Category \X Pool \X CalendarInstant -> Nat]
        /\ \A cat \in Category, pool \in Pool, t \in CalendarInstant :
               Enough(Sold, Cars[<<cat, pool, t>>], cat, pool, t)
    BY ReadingTheBook
  \* Every step of the book writes one row, and leaves the cars.
  <1>2. \/ Sold' = Sold /\ Cars' = Cars
        \/ \E r \in Reservation, c \in Book!Commitment \cup {NoVehicle} :
              /\ Sold' = [Sold EXCEPT ![r] = c] /\ Cars' = Cars
              /\ \/ c = NoVehicle
                 \/ Book!FitsNow(c)
                 \/ c.authorised /\ Sold[r] = NoVehicle
    <2>1. CASE UNCHANGED Book!vars
      BY <2>1 DEF Book!vars, Sold, Held, Cars
    <2>2. ASSUME NEW r \in Reservation, Book!GiveBack(r)
          PROVE  Sold' = [Sold EXCEPT ![r] = NoVehicle] /\ Cars' = Cars
      BY <2>2 DEF Book!GiveBack, Sold, Held, Cars
    <2>3. ASSUME NEW r \in Reservation, NEW c, Book!Sell(r, c) \/ Book!Reschedule(r, c)
          PROVE  /\ Sold' = [Sold EXCEPT ![r] = c] /\ Cars' = Cars
                 /\ Book!FitsNow(c) \/ (c.authorised /\ Sold[r] = NoVehicle)
      BY <2>3 DEF Book!Sell, Book!Reschedule, Sold, Held, Cars
    <2>. QED
      BY <2>1, <2>2, <2>3 DEF Book!Next
  <1>3. ASSUME NEW cat \in Category, NEW pool \in Pool, NEW t \in CalendarInstant
        PROVE  Enough(Sold', Cars'[<<cat, pool, t>>], cat, pool, t)
    <2>. DEFINE supply == Cars[<<cat, pool, t>>]
    <2>1. supply \in Nat /\ Enough(Sold, supply, cat, pool, t)
      BY <1>1
    <2>2. ASSUME NEW r \in Reservation, NEW c \in Book!Commitment \cup {NoVehicle},
                 Sold' = [Sold EXCEPT ![r] = c], Cars' = Cars,
                 c = NoVehicle \/ Book!FitsNow(c) \/ (c.authorised /\ Sold[r] = NoVehicle)
          PROVE  Enough(Sold', supply, cat, pool, t)
      <3>1. c = NoVehicle => ~Book!Covers(c, cat, pool, t)
        BY DEF Book!Covers
      <3>2. ASSUME Book!FitsNow(c), Book!Covers(c, cat, pool, t)
            PROVE  Cardinality(TakenIn(Sold', cat, pool, t)) <= supply
        <4>1. c.category = cat /\ c.pool = pool
          BY <3>2 DEF Book!Covers
        <4>2. Book!Instant = CalendarInstant
          BY DEF Book!Instant, CalendarInstant
        <4>3. Cardinality(Book!Taken(c.category, c.pool, t)') <= Cars[<<c.category, c.pool, t>>]
          BY <3>2, <4>1, <4>2, BookCountsTheSame DEF Book!FitsNow, Cars
        <4>4. Book!Taken(cat, pool, t)' = TakenIn(Sold', cat, pool, t)
          BY DEF Book!Taken, TakenIn, Sold, Held
        <4>5. Book!Taken(c.category, c.pool, t)' = TakenIn(Sold', cat, pool, t)
          BY <4>1, <4>4
        <4>. QED
          BY <4>1, <4>3, <4>5
      <3>. HIDE DEF supply
      <3>. QED
        BY <1>1, <2>1, <2>2, <3>1, <3>2, WritingOneKeepsEnough
    <2>. QED
      BY <1>2, <2>1, <2>2
  <1>4. /\ Sold' \in [Reservation -> Book!Commitment \cup {NoVehicle}]
        /\ Cars' \in [Category \X Pool \X CalendarInstant -> Nat]
    BY <1>1, <1>2
  <1>5. (/\ Book!TypeOK <=> /\ Sold \in [Reservation -> Book!Commitment \cup {NoVehicle}]
                            /\ Cars \in [Category \X Pool \X CalendarInstant -> Nat]
         /\ Book!NeverShort <=>
              \A cat \in Category, pool \in Pool, t \in CalendarInstant :
                  Enough(Sold, Cars[<<cat, pool, t>>], cat, pool, t))'
    BY ReadingTheBook, PTL
  <1>6. (\A cat \in Category, pool \in Pool, t \in CalendarInstant :
             Enough(Sold, Cars[<<cat, pool, t>>], cat, pool, t))'
    BY <1>3 DEF Enough, TakenIn, AuthorisedIn, CalendarInstant
  <1>7. (/\ Sold \in [Reservation -> Book!Commitment \cup {NoVehicle}]
         /\ Cars \in [Category \X Pool \X CalendarInstant -> Nat])'
    BY <1>4 DEF Book!Commitment, Book!Instant, CalendarInstant
  <1>. QED
    BY <1>5, <1>6, <1>7

\* However many reservations and cars there are, a pool is short at no instant of the book by
\* more than the sales that were authorised above its capacity.
THEOREM BookIsNeverShort == Book!Spec => []Book!NeverShort
  BY BookStartsEnough, BookStaysEnough, PTL DEF Book!Spec

\* With a fleet that does not change, a pool is never short of cars by more than the sales that
\* somebody authorised above its capacity, whatever the clerks do at the same time.
THEOREM SalesNeverOversell == SalesSpec => []NeverOversold
  <1>1. TypeOK /\ Book!NeverShort => NeverOversold
    <2>. SUFFICES ASSUME TypeOK, Book!NeverShort,
                         NEW cat \in Category, NEW pool \in Pool, NEW t \in CalendarInstant
                  PROVE  LET taken == Committed(cat, pool, t)
                         IN Cardinality(taken) <= Cardinality(Usable(cat, pool, t))
                                            + Cardinality({r \in taken : row[r].overbooked})
      BY DEF NeverOversold
    <2>1. TakenIn(Sold, cat, pool, t) = Committed(cat, pool, t)
      BY TakenIsCommitted, ReadingTheBook
    <2>2. AuthorisedIn(Sold, cat, pool, t) = {r \in Committed(cat, pool, t) : row[r].overbooked}
      BY <2>1 DEF AuthorisedIn, Committed, Sold, Held
    <2>3. Cars[<<cat, pool, t>>] = Cardinality(Usable(cat, pool, t))
      BY DEF Cars
    <2>4. Enough(Sold, Cars[<<cat, pool, t>>], cat, pool, t)
      BY ReadingTheBook
    <2>. QED
      BY <2>1, <2>2, <2>3, <2>4 DEF Enough
  <1>. QED
    BY <1>1, SalesKeepTheBook, BookIsNeverShort, SalesInvariants, PTL DEF KeepsTheBook

-----------------------------------------------------------------------------
(* The lists of the counter *)

\* The list of the free cars, the list with a reason next to each car and the check that
\* assign_vehicle makes read the calendar with three queries, and they agree: a car that is
\* listed is taken.
THEOREM ListedCarsAreTaken ==
    ASSUME NEW b \in Booking, NEW except \in SUBSET Reservation, NEW expired \in SUBSET Vehicle,
           NEW v \in Vehicle,
           \/ v \in AvailableVehicles(b, except)
           \/ /\ v \in DOMAIN VehicleOptions(b, except, expired)
              /\ VehicleOptions(b, except, expired)[v] = "none"
    PROVE  VehicleFits(v, b, except)
  <1>1. CASE v \in AvailableVehicles(b, except)
    BY <1>1 DEF AvailableVehicles, Fleet, VehicleFits, BlocksOver
  <1>2. CASE /\ v \in DOMAIN VehicleOptions(b, except, expired)
             /\ VehicleOptions(b, except, expired)[v] = "none"
    <2>1. Reason(v, b, except, expired) = "none"
      BY <1>2 DEF VehicleOptions
    <2>. QED
      BY <2>1 DEF Reason, VehicleFits
  <1>. QED
    BY <1>1, <1>2

\* No car that assign_vehicle would take is hidden from the list with the reasons: what is
\* marked there is a car it refuses, or one whose papers have run out.
THEOREM UsableCarsAreListed ==
    ASSUME NEW b \in Booking, NEW except \in SUBSET Reservation, NEW expired \in SUBSET Vehicle,
           NEW v \in Vehicle \ expired,
           CategoryOf[v] = b.category, PoolOf[office[v]] = PoolOf[b.pickup],
           VehicleFits(v, b, except)
    PROVE  VehicleOptions(b, except, expired)[v] = "none"
  <1>1. Reason(v, b, except, expired) = "none"
    BY DEF Reason, VehicleFits
  <1>. QED
    BY <1>1 DEF VehicleOptions

-----------------------------------------------------------------------------
(* The planning: a bar is the days of its reservation, the bars of a lane never overlap, and
   no reservation is drawn twice. *)

Plan == INSTANCE Planning

\* What a bar is made of: its columns, and whether the window cuts it.
Shape == [start: Int, span: Nat \ {0}, cut_start: BOOLEAN, cut_end: BOOLEAN]

\* _barras: the columns a bar covers are the days of the window on which the reservation
\* has a car, from its pickup to its return, and none outside the window.
THEOREM BarsAreTheDays ==
    ASSUME NEW w, w.start \in Int, w.length \in Nat \ {0},
           NEW r, r.from \in Int, r.to \in Int, r.from <= r.to,
           Plan!Drawn(r, w), NEW day \in Int
    PROVE  LET bar == Plan!Bar(r, w)
           IN /\ bar.start \in 1 .. w.length /\ bar.span \in 1 .. w.length
              /\ bar.start <= day - w.start + 1 /\ day - w.start + 1 <= Plan!End(bar)
                    <=> r.from <= day /\ day <= r.to /\ w.start <= day /\ day <= Plan!LastDay(w)
BY DEF Plan!Drawn, Plan!Bar, Plan!End, Plan!First, Plan!Last, Plan!Larger, Plan!Smaller,
       Plan!LastDay

\* A reservation the query finds always leaves a bar.
THEOREM WhatIsFoundIsDrawn ==
    ASSUME NEW w, w.start \in Int, w.length \in Nat \ {0},
           NEW reservations, NEW r \in Plan!Seen(reservations, w),
           r.from \in Int, r.to \in Int
    PROVE  Plan!Drawn(r, w)
BY DEF Plan!Seen, Plan!Drawn, Plan!First, Plan!Last, Plan!Larger, Plan!Smaller, Plan!LastDay

-----------------------------------------------------------------------------
(* The lanes *)

\* The first n bars have been placed: no two bars of a lane overlap, and none of them ends
\* after what its lane says.
Apart(n, bars, lane, ends) ==
    /\ \A i \in 1 .. n : lane[i] \in DOMAIN ends /\ Plan!End(bars[i]) <= ends[lane[i]]
    /\ \A i, j \in 1 .. n : i < j /\ lane[i] = lane[j] => Plan!End(bars[i]) < bars[j].start

\* A set of naturals has a least element.
LEMMA LeastOf ==
    ASSUME NEW S \in SUBSET Nat, S # {}
    PROVE  \E x \in S : \A y \in S : x <= y
  <1> DEFINE R == OpToRel(<, Nat)
  <1>1. \A x, y \in Nat : y < x => <<y, x>> \in R
    BY DEF OpToRel
  <1>2. IsWellFoundedOn(R, Nat)
    BY NatLessThanWellFounded
  <1> HIDE DEF R
  <1>3. PICK x \in S : \A y \in S : ~ (<<y, x>> \in R)
    BY <1>2, WFMin
  <1>4. ASSUME NEW y \in S PROVE x <= y
    <2>1. x \in Nat /\ y \in Nat /\ ~ (<<y, x>> \in R)
      BY <1>3
    <2>2. ~ (y < x)
      BY <1>1, <2>1
    <2>. QED
      BY <2>1, <2>2
  <1>. QED
    BY <1>4

\* The lane of a new bar is an open one, or the next.
LEMMA LaneIsOpen ==
    ASSUME NEW ends \in Seq(Int), NEW bar \in Shape
    PROVE  \/ Plan!Open(ends, bar) = {} /\ Plan!LaneFor(ends, bar) = Len(ends) + 1
           \/ Plan!Open(ends, bar) # {} /\ Plan!LaneFor(ends, bar) \in Plan!Open(ends, bar)
  <1>1. CASE Plan!Open(ends, bar) = {}
    BY <1>1 DEF Plan!LaneFor
  <1>2. CASE Plan!Open(ends, bar) # {}
    <2>1. Plan!Open(ends, bar) \in SUBSET Nat
      BY DEF Plan!Open
    <2>2. \E i \in Plan!Open(ends, bar) : \A j \in Plan!Open(ends, bar) : i <= j
      BY <1>2, <2>1, LeastOf
    <2>. QED
      BY <1>2, <2>2 DEF Plan!LaneFor
  <1>. QED
    BY <1>1, <1>2

\* One turn of the loop of _repartir_en_carriles.
LEMMA PlacingKeepsApart ==
    ASSUME NEW bars \in Seq(Shape), NEW lane, NEW ends \in Seq(Int),
           NEW n \in Nat, n + 1 \in DOMAIN bars,
           Apart(n, bars, lane, ends),
           lane[n + 1] = Plan!LaneFor(ends, bars[n + 1])
    PROVE  /\ Plan!Place(ends, bars[n + 1]) \in Seq(Int)
           /\ Apart(n + 1, bars, lane, Plan!Place(ends, bars[n + 1]))
  <1> DEFINE bar == bars[n + 1]
             next == Plan!Place(ends, bar)
             k == Plan!LaneFor(ends, bar)
  <1>0. \A i \in 1 .. n + 1 : bars[i].start \in Int /\ bars[i].span \in Nat \ {0}
    <2>1. n + 1 \in 1 .. Len(bars)
      OBVIOUS
    <2>2. Len(bars) \in Nat /\ n + 1 <= Len(bars)
      BY <2>1
    <2>3. \A i \in 1 .. n + 1 : i \in 1 .. Len(bars)
      BY <2>2
    <2>4. \A i \in 1 .. Len(bars) : bars[i] \in Shape
      OBVIOUS
    <2>5. \A i \in 1 .. n + 1 : bars[i] \in Shape
      BY <2>3, <2>4
    <2>. QED
      BY <2>5 DEF Shape
  <1>1. bar \in Shape /\ bar.start \in Int /\ Plan!End(bar) \in Int
    <2>1. bar \in Shape
      OBVIOUS
    <2>. QED
      BY <1>0, <2>1 DEF Plan!End
  <1>2. \A i \in 1 .. n : Plan!End(bars[i]) \in Int
    BY <1>0 DEF Plan!End
  <1>3. /\ next \in Seq(Int)
        /\ k \in DOMAIN next /\ next[k] = Plan!End(bar)
        /\ \A l \in DOMAIN ends : l \in DOMAIN next /\ (l # k => next[l] = ends[l])
        /\ \A l \in DOMAIN ends : l = k => ends[l] < bar.start
    <2>1. CASE Plan!Open(ends, bar) = {} /\ k = Len(ends) + 1
      BY <2>1, <1>1 DEF Plan!Place
    <2>2. CASE Plan!Open(ends, bar) # {} /\ k \in Plan!Open(ends, bar)
      <3>1. k \in DOMAIN ends /\ ends[k] < bar.start
        BY <2>2 DEF Plan!Open
      <3>2. next = [ends EXCEPT ![k] = Plan!End(bar)]
        BY <2>2 DEF Plan!Place
      <3>. QED
        BY <3>1, <3>2, <1>1
    <2>. QED
      BY <1>1, <2>1, <2>2, LaneIsOpen
  <1> HIDE DEF bar, next, k
  <1>4. lane[n + 1] = k
    BY DEF k, bar
  <1>5. ASSUME NEW i \in 1 .. n
        PROVE  /\ lane[i] \in DOMAIN next
               /\ lane[i] # k => Plan!End(bars[i]) <= next[lane[i]]
               /\ lane[i] = k => Plan!End(bars[i]) < bar.start
    <2>1. lane[i] \in DOMAIN ends /\ Plan!End(bars[i]) <= ends[lane[i]]
      BY DEF Apart
    <2>2. ends[lane[i]] \in Int /\ Plan!End(bars[i]) \in Int
      BY <1>2, <2>1
    <2>3. CASE lane[i] # k
      BY <1>3, <2>1, <2>3
    <2>4. CASE lane[i] = k
      <3>1. ends[lane[i]] < bar.start /\ lane[i] \in DOMAIN next
        BY <1>3, <2>1, <2>4
      <3>. QED
        BY <1>1, <2>1, <2>2, <2>4, <3>1
    <2>. QED
      BY <2>3, <2>4
  <1>6. \A i, j \in 1 .. n + 1 : i < j /\ lane[i] = lane[j] => Plan!End(bars[i]) < bars[j].start
    <2>1. SUFFICES ASSUME NEW i \in 1 .. n, NEW j \in 1 .. n + 1, i < j, lane[i] = lane[j]
                   PROVE  Plan!End(bars[i]) < bars[j].start
      OBVIOUS
    <2>2. CASE j = n + 1
      BY <2>1, <2>2, <1>4, <1>5 DEF bar
    <2>3. CASE j \in 1 .. n
      BY <2>1, <2>3 DEF Apart
    <2>. QED
      BY <2>2, <2>3
  <1>7. \A i \in 1 .. n + 1 : lane[i] \in DOMAIN next /\ Plan!End(bars[i]) <= next[lane[i]]
    <2>1. SUFFICES ASSUME NEW i \in 1 .. n + 1
                   PROVE  lane[i] \in DOMAIN next /\ Plan!End(bars[i]) <= next[lane[i]]
      OBVIOUS
    <2>2. CASE i = n + 1
      BY <2>2, <1>1, <1>3, <1>4 DEF bar
    <2>3. CASE i \in 1 .. n
      <3>1. CASE lane[i] # k
        BY <2>3, <3>1, <1>5
      <3>2. CASE lane[i] = k
        <4>1. /\ Plan!End(bars[i]) < bar.start
              /\ lane[i] \in DOMAIN next /\ next[lane[i]] = Plan!End(bar)
          BY <2>3, <3>2, <1>3, <1>5
        <4>2. bar.start <= Plan!End(bar)
          BY <1>0, <1>1 DEF Plan!End, bar
        <4>. QED
          BY <2>3, <1>1, <1>2, <4>1, <4>2
      <3>. QED
        BY <3>1, <3>2
    <2>. QED
      BY <2>2, <2>3
  <1>. QED
    BY <1>3, <1>6, <1>7 DEF Apart, next, bar

\* The loop of _repartir_en_carriles over the first m bars: where each lane ends after n of
\* them.
RunsOver(ends, bars, m) ==
    /\ ends[0] = <<>>
    /\ \A n \in 1 .. m : ends[n] = Plan!Place(ends[n - 1], bars[n])

\* The loop runs to the end of any bars.
LEMMA SomeRun ==
    ASSUME NEW bars \in Seq(Shape), NEW m \in 0 .. Len(bars)
    PROVE  \E ends : RunsOver(ends, bars, m)
  <1> DEFINE Bad == {k \in 0 .. Len(bars) : ~ \E ends : RunsOver(ends, bars, k)}
  <1>0. Len(bars) \in Nat
    OBVIOUS
  <1>1. SUFFICES ASSUME Bad # {} PROVE FALSE
    OBVIOUS
  <1>2. Bad \in SUBSET Nat
    BY <1>0
  <1>3. PICK k \in Bad : \A y \in Bad : k <= y
    <2> HIDE DEF Bad
    <2>. QED
      BY <1>1, <1>2, LeastOf
  <1>4. k # 0
    <2>1. RunsOver([n \in {0} |-> <<>>], bars, 0)
      BY DEF RunsOver
    <2>. QED
      BY <2>1
  <1>5. k \in Nat \ {0} /\ k <= Len(bars) /\ k - 1 \in 0 .. Len(bars) /\ ~ (k <= k - 1)
    BY <1>0, <1>4
  <1>6. k - 1 \notin Bad
    BY <1>3, <1>5
  <1>7. PICK ends : RunsOver(ends, bars, k - 1)
    BY <1>5, <1>6
  <1> DEFINE more == [n \in 0 .. k |-> IF n = k THEN Plan!Place(ends[k - 1], bars[k]) ELSE ends[n]]
  <1>8. RunsOver(more, bars, k)
    <2>1. more[0] = <<>>
      BY <1>5, <1>7 DEF RunsOver
    <2>2. ASSUME NEW n \in 1 .. k PROVE more[n] = Plan!Place(more[n - 1], bars[n])
      <3>1. n \in 0 .. k /\ n - 1 \in 0 .. k /\ n - 1 # k
        BY <1>5
      <3>2. more[n - 1] = ends[n - 1]
        BY <3>1
      <3>3. CASE n = k
        BY <3>1, <3>2, <3>3
      <3>4. CASE n # k
        <4>1. n \in 1 .. (k - 1)
          BY <1>5, <3>4
        <4>2. ends[n] = Plan!Place(ends[n - 1], bars[n])
          BY <1>7, <4>1 DEF RunsOver
        <4>3. more[n] = ends[n]
          BY <3>1, <3>4
        <4>. QED
          BY <3>2, <4>2, <4>3
      <3>. QED
        BY <3>3, <3>4
    <2> HIDE DEF more
    <2>. QED
      BY <2>1, <2>2 DEF RunsOver
  <1>9. k \in 0 .. Len(bars) /\ ~ \E f : RunsOver(f, bars, k)
    BY <1>3
  <1>. QED
    BY <1>8, <1>9

\* EndsAfter is that loop, and Lanes what it gives each bar.
LEMMA LanesAreOfTheLoop ==
    ASSUME NEW bars \in Seq(Shape)
    PROVE  /\ RunsOver(Plan!EndsAfter(bars), bars, Len(bars))
           /\ \A n \in 1 .. Len(bars) :
                 Plan!Lanes(bars)[n] = Plan!LaneFor(Plan!EndsAfter(bars)[n - 1], bars[n])
  <1> DEFINE m == Len(bars)
             Loop(f) == f = [n \in 0 .. m |-> IF n = 0 THEN <<>> ELSE Plan!Place(f[n - 1], bars[n])]
             all == CHOOSE f : Loop(f)
  <1>0. m \in Nat /\ DOMAIN bars = 1 .. m
    OBVIOUS
  <1>1. Plan!EndsAfter(bars) = all
    BY DEF Plan!EndsAfter
  <1> HIDE DEF m
  <1>2. PICK ends : RunsOver(ends, bars, m)
    <2>1. m \in 0 .. Len(bars)
      BY <1>0 DEF m
    <2>. QED
      BY <2>1, SomeRun
  <1>3. Loop([n \in 0 .. m |-> ends[n]])
    <2> DEFINE f == [n \in 0 .. m |-> ends[n]]
    <2>1. ASSUME NEW n \in 0 .. m
          PROVE  f[n] = IF n = 0 THEN <<>> ELSE Plan!Place(f[n - 1], bars[n])
      <3>1. CASE n = 0
        BY <1>0, <1>2, <3>1 DEF RunsOver
      <3>2. CASE n # 0
        <4>1. n \in 1 .. m /\ n - 1 \in 0 .. m
          BY <1>0, <3>2
        <4>2. f[n - 1] = ends[n - 1] /\ f[n] = ends[n]
          BY <4>1
        <4>. QED
          BY <1>2, <3>2, <4>1, <4>2 DEF RunsOver
      <3>. QED
        BY <3>1, <3>2
    <2>2. f = [n \in 0 .. m |-> f[n]]
      OBVIOUS
    <2> HIDE DEF f
    <2>3. f = [n \in 0 .. m |-> IF n = 0 THEN <<>> ELSE Plan!Place(f[n - 1], bars[n])]
      BY <2>1, <2>2
    <2>. QED
      BY <2>3 DEF f
  <1>4. Loop(all)
    BY <1>3
  <1> HIDE DEF all
  <1>5. RunsOver(all, bars, m)
    <2>1. all[0] = <<>>
      BY <1>0, <1>4
    <2>2. ASSUME NEW n \in 1 .. m PROVE all[n] = Plan!Place(all[n - 1], bars[n])
      <3>1. n \in 0 .. m /\ n # 0
        BY <1>0
      <3>. QED
        BY <1>4, <3>1
    <2>. QED
      BY <2>1, <2>2 DEF RunsOver
  <1>6. \A n \in 1 .. m : Plan!Lanes(bars)[n] = Plan!LaneFor(Plan!EndsAfter(bars)[n - 1], bars[n])
    BY <1>0 DEF Plan!Lanes
  <1>. QED
    BY <1>1, <1>5, <1>6 DEF m

Crosses(bar, col) == bar.start <= col /\ col <= Plan!End(bar)

\* After the first n bars every lane ends where one of them does, and there is a column that
\* needs all the lanes: one of its bars is in each.
Needed(n, bars, lane, ends) ==
    /\ \A l \in DOMAIN ends : \E i \in 1 .. n : lane[i] = l /\ Plan!End(bars[i]) = ends[l]
    /\ n # 0 => \E col \in Int :
                   \A l \in DOMAIN ends : \E i \in 1 .. n : lane[i] = l /\ Crosses(bars[i], col)

\* One turn of the loop: a lane is only opened when a bar crosses the ends of all the others.
LEMMA PlacingIsNeeded ==
    ASSUME NEW bars \in Seq(Shape), Plan!Sorted(bars), NEW lane, NEW ends \in Seq(Int),
           NEW n \in Nat, n + 1 \in DOMAIN bars,
           Needed(n, bars, lane, ends),
           lane[n + 1] = Plan!LaneFor(ends, bars[n + 1])
    PROVE  Needed(n + 1, bars, lane, Plan!Place(ends, bars[n + 1]))
  <1> DEFINE bar == bars[n + 1]
             next == Plan!Place(ends, bar)
             k == Plan!LaneFor(ends, bar)
  <1>0. \A i \in 1 .. n + 1 : /\ i \in DOMAIN bars /\ bars[i] \in Shape
                              /\ bars[i].start \in Int /\ bars[i].span \in Nat \ {0}
                              /\ Plan!End(bars[i]) \in Int /\ bars[i].start <= Plan!End(bars[i])
    <2>1. n + 1 \in 1 .. Len(bars)
      OBVIOUS
    <2>2. Len(bars) \in Nat /\ n + 1 <= Len(bars)
      BY <2>1
    <2>3. \A i \in 1 .. n + 1 : i \in 1 .. Len(bars)
      BY <2>2
    <2>4. \A i \in 1 .. Len(bars) : bars[i] \in Shape /\ i \in DOMAIN bars
      OBVIOUS
    <2>5. \A i \in 1 .. n + 1 : bars[i] \in Shape /\ i \in DOMAIN bars
      BY <2>3, <2>4
    <2>. QED
      BY <2>5 DEF Shape, Plan!End
  <1>1. /\ n + 1 \in 1 .. n + 1 /\ bar \in Shape /\ bar.start \in Int /\ Plan!End(bar) \in Int
        /\ bar.start <= Plan!End(bar)
    BY <1>0
  <1>2. ASSUME NEW i \in 1 .. n PROVE i \in 1 .. n + 1 /\ bars[i].start <= bar.start
    <2>1. i \in 1 .. n + 1 /\ i < n + 1
      OBVIOUS
    <2>2. bars[i].start < bar.start \/ bars[i].start = bar.start
      BY <1>0, <1>1, <2>1 DEF Plan!Sorted
    <2>. QED
      BY <1>0, <1>1, <2>1, <2>2
  <1>3. /\ Plan!Open(ends, bar) = {} =>
              /\ k = Len(ends) + 1 /\ next = Append(ends, Plan!End(bar))
        /\ Plan!Open(ends, bar) # {} =>
              /\ k \in DOMAIN ends /\ next = [ends EXCEPT ![k] = Plan!End(bar)]
    <2>1. CASE Plan!Open(ends, bar) = {} /\ k = Len(ends) + 1
      BY <2>1 DEF Plan!Place
    <2>2. CASE Plan!Open(ends, bar) # {} /\ k \in Plan!Open(ends, bar)
      BY <2>2 DEF Plan!Place, Plan!Open
    <2>. QED
      BY <1>1, <2>1, <2>2, LaneIsOpen
  <1>4. lane[n + 1] = k
    OBVIOUS
  <1>5. \A l \in DOMAIN ends : ends[l] \in Int
    OBVIOUS
  <1>6. ASSUME NEW l \in DOMAIN next
        PROVE  \/ l = k /\ next[l] = Plan!End(bar)
               \/ l # k /\ l \in DOMAIN ends /\ next[l] = ends[l]
    <2>1. CASE Plan!Open(ends, bar) = {}
      <3>1. k = Len(ends) + 1 /\ next = Append(ends, Plan!End(bar))
        BY <1>3, <2>1
      <3> HIDE DEF next, k, bar
      <3>. QED
        BY <3>1
    <2>2. CASE Plan!Open(ends, bar) # {}
      <3>1. k \in DOMAIN ends /\ next = [ends EXCEPT ![k] = Plan!End(bar)]
        BY <1>3, <2>2
      <3> HIDE DEF next, k, bar
      <3>. QED
        BY <3>1
    <2>. QED
      BY <2>1, <2>2
  <1>7. ASSUME Plan!Open(ends, bar) # {}
        PROVE  DOMAIN next = DOMAIN ends /\ DOMAIN ends # {}
    <2>1. k \in DOMAIN ends /\ next = [ends EXCEPT ![k] = Plan!End(bar)]
      BY <1>3, <1>7
    <2> HIDE DEF next, k, bar
    <2>. QED
      BY <2>1
  <1> HIDE DEF next, k
  <1>8. \A l \in DOMAIN ends : \E i \in 1 .. n : lane[i] = l /\ Plan!End(bars[i]) = ends[l]
    BY DEF Needed
  <1>9. ASSUME NEW l \in DOMAIN next
        PROVE  \E i \in 1 .. n + 1 : lane[i] = l /\ Plan!End(bars[i]) = next[l]
    <2>1. CASE l = k /\ next[l] = Plan!End(bar)
      BY <1>1, <1>4, <2>1
    <2>2. CASE l \in DOMAIN ends /\ next[l] = ends[l]
      BY <1>2, <1>8, <2>2
    <2>. QED
      BY <1>6, <2>1, <2>2
  <1>10. CASE Plan!Open(ends, bar) = {}
    <2>1. ASSUME NEW l \in DOMAIN next
          PROVE  \E i \in 1 .. n + 1 : lane[i] = l /\ Crosses(bars[i], bar.start)
      <3>1. CASE l = k
        BY <1>1, <1>4, <3>1 DEF Crosses
      <3>2. CASE l \in DOMAIN ends
        <4>1. ~ (ends[l] < bar.start)
          BY <1>10, <3>2 DEF Plan!Open
        <4>2. PICK i \in 1 .. n : lane[i] = l /\ Plan!End(bars[i]) = ends[l]
          BY <1>8, <3>2
        <4>3. bars[i].start <= bar.start /\ bar.start <= Plan!End(bars[i])
          BY <1>1, <1>2, <1>5, <3>2, <4>1, <4>2
        <4>. QED
          BY <1>2, <4>2, <4>3 DEF Crosses
      <3>. QED
        BY <1>6, <3>1, <3>2
    <2>. QED
      BY <1>1, <1>9, <2>1 DEF Needed, next
  <1>11. CASE Plan!Open(ends, bar) # {}
    <2>1. n # 0
      <3>1. PICK l \in DOMAIN ends : TRUE
        BY <1>7, <1>11
      <3>2. \E i \in 1 .. n : TRUE
        BY <1>8, <3>1
      <3>. QED
        BY <3>2
    <2>2. PICK col \in Int :
             \A l \in DOMAIN ends : \E i \in 1 .. n : lane[i] = l /\ Crosses(bars[i], col)
      BY <2>1 DEF Needed
    <2>3. \A l \in DOMAIN next : \E i \in 1 .. n + 1 : lane[i] = l /\ Crosses(bars[i], col)
      BY <1>2, <1>7, <1>11, <2>2
    <2>. QED
      BY <1>9, <2>3 DEF Needed, next
  <1>. QED
    BY <1>10, <1>11

\* The lanes at the end of the loop: the bars of each are apart, and each is needed.
LEMMA LanesAreApartAndNeeded ==
    ASSUME NEW bars \in Seq(Shape)
    PROVE  LET m == Len(bars)
               ends == Plan!EndsAfter(bars)[m]
           IN /\ ends \in Seq(Int)
              /\ Apart(m, bars, Plan!Lanes(bars), ends)
              /\ Plan!Sorted(bars) => Needed(m, bars, Plan!Lanes(bars), ends)
  <1> DEFINE m == Len(bars)
             ends == Plan!EndsAfter(bars)
             lane == Plan!Lanes(bars)
             Good(n) == /\ ends[n] \in Seq(Int)
                        /\ Apart(n, bars, lane, ends[n])
                        /\ Plan!Sorted(bars) => Needed(n, bars, lane, ends[n])
             Bad == {n \in 0 .. m : ~ Good(n)}
  <1>0. m \in Nat /\ DOMAIN bars = 1 .. m
    OBVIOUS
  <1>1. RunsOver(ends, bars, m) /\ \A n \in 1 .. m : lane[n] = Plan!LaneFor(ends[n - 1], bars[n])
    BY LanesAreOfTheLoop
  <1> HIDE DEF m, ends, lane
  <1>2. Good(0)
    BY <1>1 DEF RunsOver, Apart, Needed
  <1>3. ASSUME NEW n \in Nat, n + 1 <= m, Good(n) PROVE Good(n + 1)
    <2>1. n + 1 \in 1 .. m /\ n + 1 - 1 = n /\ n + 1 \in DOMAIN bars
      BY <1>0, <1>3
    <2>2. ends[n + 1] = Plan!Place(ends[n], bars[n + 1]) /\ lane[n + 1] = Plan!LaneFor(ends[n], bars[n + 1])
      BY <1>1, <2>1 DEF RunsOver
    <2>3. ends[n + 1] \in Seq(Int) /\ Apart(n + 1, bars, lane, ends[n + 1])
      BY <1>3, <2>1, <2>2, PlacingKeepsApart
    <2>4. ASSUME Plan!Sorted(bars) PROVE Needed(n + 1, bars, lane, ends[n + 1])
      BY <1>3, <2>1, <2>2, <2>4, PlacingIsNeeded
    <2>. QED
      BY <2>3, <2>4
  <1> HIDE DEF Good
  <1>4. Bad = {}
    <2>1. SUFFICES ASSUME Bad # {} PROVE FALSE
      OBVIOUS
    <2>2. Bad \in SUBSET Nat
      BY <1>0
    <2>3. PICK k \in Bad : \A y \in Bad : k <= y
      BY <2>1, <2>2, LeastOf
    <2>4. k \in Nat /\ k <= m /\ ~ Good(k) /\ k # 0
      BY <1>0, <1>2, <2>3
    <2>5. k - 1 \in Nat /\ (k - 1) + 1 = k /\ k - 1 \in 0 .. m /\ ~ (k <= k - 1)
      BY <1>0, <2>4
    <2>6. Good(k - 1)
      BY <2>3, <2>5
    <2>7. Good((k - 1) + 1)
      BY <1>3, <2>4, <2>5, <2>6
    <2>. QED
      BY <2>4, <2>5, <2>7
  <1>5. Good(m)
    BY <1>0, <1>4
  <1>. QED
    BY <1>5 DEF Good, m, ends, lane

\* _repartir_en_carriles: whatever reservations share a row, and in whatever order they are
\* placed, the bars of a lane never overlap.
THEOREM LanesNeverOverlap ==
    ASSUME NEW bars \in Seq(Shape)
    PROVE  \A i, j \in DOMAIN bars :
               i < j /\ Plan!Lanes(bars)[i] = Plan!Lanes(bars)[j] =>
                   Plan!End(bars[i]) < bars[j].start
  <1>1. DOMAIN bars = 1 .. Len(bars)
    OBVIOUS
  <1>. QED
    BY <1>1, LanesAreApartAndNeeded DEF Apart

\* A row is as tall as it has to be: sorted as build_planning sorts them, no column is crossed
\* by more bars than there are lanes, and some column is crossed by one bar of each.  No lane
\* is left empty.
THEOREM LanesAreAsFewAsNeeded ==
    ASSUME NEW bars \in Seq(Shape), Plan!Sorted(bars)
    PROVE  LET lane == Plan!Lanes(bars)
               used == {lane[n] : n \in DOMAIN bars}
               crossing(col) == {n \in DOMAIN bars : Crosses(bars[n], col)}
           IN /\ \A col \in Int : Cardinality(crossing(col)) <= Cardinality(used)
              /\ bars # <<>> =>
                    \E col \in Int : Cardinality(crossing(col)) = Cardinality(used)
              /\ used = 1 .. Cardinality(used)
  <1> DEFINE m == Len(bars)
             lane == Plan!Lanes(bars)
             ends == Plan!EndsAfter(bars)[m]
             used == {lane[n] : n \in DOMAIN bars}
             crossing(col) == {n \in DOMAIN bars : Crosses(bars[n], col)}
             laneOf(col) == [n \in crossing(col) |-> lane[n]]
  <1>0. m \in Nat /\ DOMAIN bars = 1 .. m
    OBVIOUS
  <1>1. \A n \in DOMAIN bars : bars[n].start \in Int /\ Plan!End(bars[n]) \in Int
    <2>1. \A n \in 1 .. Len(bars) : bars[n] \in Shape
      OBVIOUS
    <2>. QED
      BY <1>0, <2>1 DEF Shape, Plan!End
  <1>2. ends \in Seq(Int) /\ Apart(m, bars, lane, ends) /\ Needed(m, bars, lane, ends)
    BY LanesAreApartAndNeeded
  <1>3. bars # <<>> => m # 0
    OBVIOUS
  <1>9. bars = <<>> \/ bars # <<>>
    OBVIOUS
  <1> HIDE DEF m, lane, ends
  <1>4. used = 1 .. Cardinality(used) /\ IsFiniteSet(used)
    <2>1. DOMAIN ends = 1 .. Len(ends) /\ Len(ends) \in Nat
      BY <1>2
    <2>2. used = DOMAIN ends
      <3>1. ASSUME NEW n \in DOMAIN bars PROVE lane[n] \in DOMAIN ends
        BY <1>0, <1>2 DEF Apart
      <3>2. ASSUME NEW l \in DOMAIN ends PROVE l \in used
        BY <1>0, <1>2 DEF Needed
      <3>. QED
        BY <3>1, <3>2
    <2>3. used = 1 .. Len(ends)
      BY <2>1, <2>2
    <2>4. IsFiniteSet(1 .. Len(ends)) /\ Cardinality(1 .. Len(ends)) = Len(ends)
      <3> DEFINE last == Len(ends)
      <3>1. last \in Nat
        BY <2>1
      <3> HIDE DEF last
      <3>2. IsFiniteSet(1 .. last) /\ Cardinality(1 .. last) = last
        BY <3>1, FS_Interval
      <3>. QED
        BY <3>2 DEF last
    <2> HIDE DEF used
    <2>. QED
      BY <2>3, <2>4
  <1>5. ASSUME NEW col \in Int PROVE laneOf(col) \in Injection(crossing(col), used)
    <2>1. laneOf(col) \in [crossing(col) -> used]
      OBVIOUS
    <2>2. ASSUME NEW a \in crossing(col), NEW b \in crossing(col), lane[a] = lane[b]
          PROVE  a = b
      <3>1. ASSUME NEW i \in DOMAIN bars, NEW j \in DOMAIN bars, i < j, lane[i] = lane[j]
            PROVE  ~ (Crosses(bars[i], col) /\ Crosses(bars[j], col))
        <4>1. Plan!End(bars[i]) < bars[j].start
          BY <1>0, <1>2, <3>1 DEF Apart
        <4>. QED
          BY <1>1, <4>1 DEF Crosses
      <3>2. a \in Int /\ b \in Int /\ (a < b \/ b < a \/ a = b)
        BY <1>0
      <3>. QED
        BY <2>2, <3>1, <3>2
    <2>3. IsInjective(laneOf(col))
      BY <2>2 DEF IsInjective
    <2>. QED
      BY <2>1, <2>3 DEF Injection
  <1>6. ASSUME NEW col \in Int PROVE Cardinality(crossing(col)) <= Cardinality(used)
    <2> HIDE DEF crossing, used, laneOf
    <2>. QED
      BY <1>4, <1>5, FS_Injection
  <1>7. ASSUME bars # <<>>
        PROVE  \E col \in Int : Cardinality(crossing(col)) = Cardinality(used)
    <2>1. PICK col \in Int :
             \A l \in DOMAIN ends : \E i \in 1 .. m : lane[i] = l /\ Crosses(bars[i], col)
      BY <1>2, <1>3, <1>7 DEF Needed
    <2>2. \A l \in used : l \in DOMAIN ends
      BY <1>0, <1>2 DEF Apart
    <2>3. \A l \in used : \E n \in crossing(col) : laneOf(col)[n] = l
      BY <1>0, <2>1, <2>2
    <2>4. laneOf(col) \in Surjection(crossing(col), used)
      BY <1>5, <2>3 DEF Surjection, Injection
    <2>5. laneOf(col) \in Injection(crossing(col), used)
      BY <1>5
    <2> HIDE DEF crossing, used, laneOf
    <2>. QED
      BY <1>4, <2>4, <2>5, FS_Injection
  <1>. QED
    BY <1>4, <1>6, <1>7 DEF lane

-----------------------------------------------------------------------------
(* The rows *)

\* build_planning: every reservation that is found is drawn in one row and no other, its
\* car's when it has one, whatever office or category that car is of.
THEOREM DrawnOnce ==
    ASSUME NoVehicle \notin Vehicle,
           NEW w, w.start \in Int, w.length \in Nat \ {0}, NEW fleet, NEW reservations,
           NEW r \in Plan!Seen(reservations, w),
           r.from \in Int, r.to \in Int, r.vehicle \in Vehicle \cup {NoVehicle},
           r.category \in Category
    PROVE  LET rows == Plan!Rows(fleet, reservations, w)
           IN /\ \E strip \in rows : r \in strip.of /\ strip.vehicle = r.vehicle
              /\ \A p, q \in rows : r \in p.of /\ r \in q.of => p = q
  <1> DEFINE seen == Plan!Seen(reservations, w)
             drawn(v) == {x \in seen : x.vehicle = v /\ Plan!Drawn(x, w)}
             waiting(c) == {x \in seen : x.vehicle = NoVehicle /\ x.category = c /\ Plan!Drawn(x, w)}
             rowOf(v) == [group |-> CategoryOf[v], vehicle |-> v, of |-> drawn(v)]
             rowFor(c) == [group |-> c, vehicle |-> NoVehicle, of |-> waiting(c)]
             rows == Plan!Rows(fleet, reservations, w)
  <1>1. Plan!Drawn(r, w)
    BY WhatIsFoundIsDrawn
  <1>2. rows = {rowOf(v) : v \in Plan!Cars(fleet, seen, w)}
               \cup {rowFor(c) : c \in {k \in Category : waiting(k) # {}}}
    BY DEF Plan!Rows
  <1>3. r.vehicle # NoVehicle => r.vehicle \in Plan!Cars(fleet, seen, w)
    BY DEF Plan!Cars
  <1> HIDE DEF rows
  <1>4. \E strip \in rows : r \in strip.of /\ strip.vehicle = r.vehicle
    <2>1. CASE r.vehicle # NoVehicle
      <3>1. rowOf(r.vehicle) \in rows
        BY <1>2, <1>3, <2>1
      <3>. QED
        BY <1>1, <3>1
    <2>2. CASE r.vehicle = NoVehicle
      <3>1. r \in waiting(r.category)
        BY <1>1, <2>2
      <3>2. rowFor(r.category) \in rows
        BY <1>2, <3>1
      <3>. QED
        BY <2>2, <3>1, <3>2
    <2>. QED
      BY <2>1, <2>2
  <1>5. ASSUME NEW strip \in rows, r \in strip.of
        PROVE  strip = IF r.vehicle = NoVehicle THEN rowFor(r.category) ELSE rowOf(r.vehicle)
    <2>1. CASE \E v \in Plan!Cars(fleet, seen, w) : strip = rowOf(v)
      <3>1. PICK v \in Plan!Cars(fleet, seen, w) : strip = rowOf(v)
        BY <2>1
      <3>2. r.vehicle = v
        BY <1>5, <3>1
      <3>3. v # NoVehicle
        BY <3>1 DEF Plan!Cars
      <3>. QED
        BY <3>1, <3>2, <3>3
    <2>2. CASE \E c \in Category : strip = rowFor(c)
      <3>1. PICK c \in Category : strip = rowFor(c)
        BY <2>2
      <3>2. r.vehicle = NoVehicle /\ r.category = c
        BY <1>5, <3>1
      <3>. QED
        BY <3>1, <3>2
    <2>. QED
      BY <1>2, <2>1, <2>2
  <1>. QED
    BY <1>4, <1>5 DEF rows

=============================================================================
