----------------------------- MODULE RentalProofs -----------------------------
(***************************************************************************)
(* Proofs about Rental, for any number of reservations, cars, records and  *)
(* concurrent requests; and about Fines, for any reservations and any      *)
(* number of steps of a fine.                                              *)
(***************************************************************************)
EXTENDS Rental, FiniteSetTheorems, WellFoundedInduction, TLAPS

\* Starting or ending a request keeps the table of requests well typed.
LEMMA JobsAreTyped ==
    ASSUME TypeOK, NEW c \in Clerk,
           NEW request \in {Idle} \cup DeskJob \cup WebJob \cup FormJob
                             \cup AnnulJob \cup EditJob,
           job' = [job EXCEPT ![c] = request]
    PROVE  job' \in [Clerk -> {Idle} \cup DeskJob \cup WebJob \cup FormJob
                                 \cup AnnulJob \cup EditJob]
BY DEF TypeOK

\* Taking a car off some reservations keeps the reservations well typed.
LEMMA DropIsTyped ==
    ASSUME TypeOK, NEW rs, Drop(rs)
    PROVE  /\ car' \in [Reservation -> Car]
           /\ reassign' \in [Reservation -> BOOLEAN]
           /\ UNCHANGED <<status, handed, returned>>
BY DEF Drop, TypeOK, Car

LEMMA InitTypes == Init => TypeOK
BY RentalAssumption DEF Init, TypeOK, Statuses, Car, Shapes, Manual, Days, RecordStatuses, Idle

LEMMA CounterTypes == TypeOK /\ Counter => TypeOK'
<1>. SUFFICES ASSUME TypeOK, Counter PROVE TypeOK'
  OBVIOUS
<1>1. ASSUME NEW r \in Reservation, NEW to \in Statuses, Transition(r, to) PROVE TypeOK'
  BY <1>1 DEF Transition, Move, TypeOK, cars, workshop
<1>2. ASSUME NEW r \in Reservation, Release(r) PROVE TypeOK'
  BY <1>2 DEF Release, TypeOK, cars, workshop, Car
<1>3. ASSUME NEW r \in Reservation, NEW v \in Vehicle, Assign(r, v) PROVE TypeOK'
  BY <1>3 DEF Assign, TypeOK, cars, workshop, Car
<1>4. ASSUME NEW c \in Clerk, NEW r \in Reservation, ReadForCheckIn(c, r) PROVE TypeOK'
  <2>1. [kind |-> "checkin", res |-> r, car |-> car[r]] \in DeskJob
    BY <1>4 DEF ReadForCheckIn, TypeOK, Car, DeskJob
  <2>2. job' \in [Clerk -> {Idle} \cup DeskJob \cup WebJob \cup FormJob \cup AnnulJob \cup EditJob]
    BY <1>4, <2>1, JobsAreTyped DEF ReadForCheckIn, Start
  <2>. QED
    BY <1>4, <2>2 DEF ReadForCheckIn, TypeOK, reservations, cars, workshop
<1>5. ASSUME NEW c \in Clerk, NEW r \in Reservation, ReadForCheckOut(c, r) PROVE TypeOK'
  <2>1. [kind |-> "checkout", res |-> r, car |-> car[r]] \in DeskJob
    BY <1>5 DEF ReadForCheckOut, TypeOK, Car, DeskJob
  <2>2. job' \in [Clerk -> {Idle} \cup DeskJob \cup WebJob \cup FormJob \cup AnnulJob \cup EditJob]
    BY <1>5, <2>1, JobsAreTyped DEF ReadForCheckOut, Start
  <2>. QED
    BY <1>5, <2>2 DEF ReadForCheckOut, TypeOK, reservations, cars, workshop
<1>6. ASSUME NEW c \in Clerk, CheckIn(c) PROVE TypeOK'
  <2>1. job[c] \in DeskJob
    BY <1>6 DEF CheckIn, TypeOK, Idle, DeskJob, WebJob, FormJob, AnnulJob, EditJob
  <2>2. job' \in [Clerk -> {Idle} \cup DeskJob \cup WebJob \cup FormJob \cup AnnulJob \cup EditJob]
    BY <1>6, JobsAreTyped DEF CheckIn, Done
  <2>3. status' \in [Reservation -> Statuses] /\ handed' \in [Reservation -> Car]
    BY <1>6, <2>1 DEF CheckIn, Move, TypeOK, Statuses, Car, DeskJob
  <2>4. shape' \in [Vehicle -> Shapes]
    BY <1>6, <2>1 DEF CheckIn, StartRental, TypeOK, Shapes, Car, DeskJob
  <2>. QED
    BY <1>6, <2>2, <2>3, <2>4 DEF CheckIn, TypeOK, workshop
<1>7. ASSUME NEW c \in Clerk, CheckOut(c) PROVE TypeOK'
  <2>1. job[c] \in DeskJob
    BY <1>7 DEF CheckOut, TypeOK, Idle, DeskJob, WebJob, FormJob, AnnulJob, EditJob
  <2>2. job' \in [Clerk -> {Idle} \cup DeskJob \cup WebJob \cup FormJob \cup AnnulJob \cup EditJob]
    BY <1>7, JobsAreTyped DEF CheckOut, Done
  <2>3. status' \in [Reservation -> Statuses] /\ returned' \in [Reservation -> Car]
    BY <1>7, <2>1 DEF CheckOut, Move, TypeOK, Statuses, Car, DeskJob
  <2>4. AfterRental(job[c].res) \in [Vehicle -> Shapes]
    BY <2>1 DEF AfterRental, TypeOK, Shapes, Manual, Car, DeskJob
  <2>5. shape' \in [Vehicle -> Shapes]
    BY <1>7, <2>1, <2>4 DEF CheckOut, Shapes, Manual, DeskJob
  <2>. QED
    BY <1>7, <2>2, <2>3, <2>5 DEF CheckOut, TypeOK, workshop
<1>8. ASSUME NEW c \in Clerk, GiveUp(c) PROVE TypeOK'
  <2>1. job' \in [Clerk -> {Idle} \cup DeskJob \cup WebJob \cup FormJob \cup AnnulJob \cup EditJob]
    BY <1>8, JobsAreTyped DEF GiveUp, Done
  <2>. QED
    BY <1>8, <2>1 DEF GiveUp, TypeOK, reservations, cars, workshop
<1>. QED
  BY <1>1, <1>2, <1>3, <1>4, <1>5, <1>6, <1>7, <1>8 DEF Counter, TransitionScreen, AssignScreen, ReleaseScreen, DeskForms

LEMMA WebTypes == TypeOK /\ Web => TypeOK'
<1>. SUFFICES ASSUME TypeOK, Web PROVE TypeOK'
  OBVIOUS
<1>1. ASSUME NEW c \in Clerk, WebCancel(c) PROVE TypeOK'
  <2>1. job' \in [Clerk -> {Idle} \cup DeskJob \cup WebJob \cup FormJob \cup AnnulJob \cup EditJob]
    BY <1>1, JobsAreTyped DEF WebCancel, Done
  <2>. QED
    BY <1>1, <2>1 DEF WebCancel, Move, TypeOK, Statuses, cars, workshop
<1>2. ASSUME NEW c \in Clerk, NEW r \in Reservation, ReadForWebCancel(c, r) PROVE TypeOK'
  <2>1. [kind |-> "web", res |-> r] \in WebJob
    BY DEF WebJob
  <2>2. job' \in [Clerk -> {Idle} \cup DeskJob \cup WebJob \cup FormJob \cup AnnulJob \cup EditJob]
    BY <1>2, <2>1, JobsAreTyped DEF ReadForWebCancel, Start
  <2>. QED
    BY <1>2, <2>2 DEF ReadForWebCancel, TypeOK, reservations, cars, workshop
<1>. QED
  BY <1>1, <1>2 DEF Web

LEMMA ReinstateTypes ==
    ASSUME TypeOK, NEW v \in Vehicle, Reinstate(v) PROVE TypeOK'
BY DEF Reinstate, TypeOK, reservations, workshop, Shapes, Manual

LEMMA FleetTypes == TypeOK /\ FleetScreens => TypeOK'
<1>. SUFFICES ASSUME TypeOK, FleetScreens PROVE TypeOK'
  OBVIOUS
<1>1. ASSUME NEW v \in Vehicle, NEW s \in Manual, SetStatus(v, s) PROVE TypeOK'
  BY <1>1 DEF SetStatus, TypeOK, reservations, workshop, Shapes
<1>2. ASSUME NEW v \in Vehicle, NEW passed \in SUBSET Reservation, Retire(v, passed) PROVE TypeOK'
  <2>1. Drop(Booked(v) \ passed)
    BY <1>2 DEF Retire
  <2>2. /\ car' \in [Reservation -> Car] /\ reassign' \in [Reservation -> BOOLEAN]
        /\ UNCHANGED <<status, handed, returned>>
    BY <2>1, DropIsTyped
  <2>. QED
    BY <1>2, <2>2 DEF Retire, TypeOK, workshop, Shapes, Manual
<1>3. ASSUME NEW v \in Vehicle, NEW day \in Days, SaveBlock(v, day) PROVE TypeOK'
  BY <1>3 DEF SaveBlock, TypeOK, reservations, cars
<1>4. ASSUME NEW v \in Vehicle, NEW day \in Days, DeleteBlock(v, day) PROVE TypeOK'
  BY <1>4 DEF DeleteBlock, TypeOK, reservations, cars
<1>5. ASSUME NEW v \in Vehicle, NEW day \in Days, NEW to \in Days, MoveBlock(v, day, to)
      PROVE  TypeOK'
  <2>1. blocks[<<v, day>>] \in {"free", "calendar"} \cup Record
    BY DEF TypeOK
  <2>. QED
    BY <1>5, <2>1 DEF MoveBlock, TypeOK, reservations, cars
<1>6. ASSUME NEW m \in Record, FinishWorkshop(m) PROVE TypeOK'
  <2>1. VehicleOf[m] \in Vehicle
    BY RentalAssumption
  <2>2. shape' \in [Vehicle -> Shapes]
    BY <1>6, <2>1 DEF FinishWorkshop, TypeOK, Shapes, Manual
  <2>3. blocks' \in [Vehicle \X Days -> {"free", "calendar"} \cup Record]
    BY <1>6 DEF FinishWorkshop, WithoutBlock, TypeOK
  <2>4. record' \in [Record -> RecordStatuses]
    BY <1>6 DEF FinishWorkshop, TypeOK, RecordStatuses
  <2>. QED
    BY <1>6, <2>2, <2>3, <2>4 DEF FinishWorkshop, TypeOK, reservations
<1>7. ASSUME NEW m \in Record, StartService(m) PROVE TypeOK'
  BY <1>7 DEF StartService, TypeOK, reservations, cars, RecordStatuses
<1>8. ASSUME NEW m \in Record, NEW day \in Days, StartWorkshop(m, day) PROVE TypeOK'
  <2>1. VehicleOf[m] \in Vehicle
    BY RentalAssumption
  <2>2. shape' \in [Vehicle -> Shapes]
    BY <1>8, <2>1 DEF StartWorkshop, TypeOK, Shapes, Manual
  <2>3. blocks' \in [Vehicle \X Days -> {"free", "calendar"} \cup Record]
    BY <1>8, <2>1 DEF StartWorkshop, TypeOK
  <2>4. record' \in [Record -> RecordStatuses]
    BY <1>8 DEF StartWorkshop, TypeOK, RecordStatuses
  <2>5. Drop({r \in Booked(VehicleOf[m]) : Slot[r] = day})
    BY <1>8 DEF StartWorkshop
  <2>6. /\ car' \in [Reservation -> Car] /\ reassign' \in [Reservation -> BOOLEAN]
        /\ UNCHANGED <<status, handed, returned>>
    BY <2>5, DropIsTyped
  <2>. QED
    BY <1>8, <2>2, <2>3, <2>4, <2>6 DEF StartWorkshop, TypeOK
<1>. QED
  BY <1>1, <1>2, <1>3, <1>4, <1>5, <1>6, <1>7, <1>8, ReinstateTypes DEF FleetScreens, StatusScreen, ToggleScreen, BlockForm, EditBlockForm, DeleteBlockScreen,
          StartScreen, FinishScreen

LEMMA FormTypes == TypeOK /\ Forms => TypeOK'
<1>. SUFFICES ASSUME TypeOK, Forms PROVE TypeOK'
  OBVIOUS
<1>1. ASSUME NEW c \in Clerk, SaveForm(c) PROVE TypeOK'
  <2>1. job[c] \in FormJob
    BY <1>1 DEF SaveForm, TypeOK, Idle, DeskJob, WebJob, FormJob, AnnulJob, EditJob
  <2>2. job' \in [Clerk -> {Idle} \cup DeskJob \cup WebJob \cup FormJob \cup AnnulJob \cup EditJob]
    BY <1>1, JobsAreTyped DEF SaveForm, Done
  <2>. QED
    BY <1>1, <2>1, <2>2 DEF SaveForm, TypeOK, reservations, workshop, FormJob
<1>2. ASSUME NEW c \in Clerk, SaveRecord(c) PROVE TypeOK'
  <2>1. job[c] \in EditJob
    BY <1>2 DEF SaveRecord, TypeOK, Idle, DeskJob, WebJob, FormJob, AnnulJob, EditJob
  <2>2. job' \in [Clerk -> {Idle} \cup DeskJob \cup WebJob \cup FormJob \cup AnnulJob \cup EditJob]
    BY <1>2, JobsAreTyped DEF SaveRecord, Done
  <2>3. blocks' \in [Vehicle \X Days -> {"free", "calendar"} \cup Record]
    BY <1>2 DEF SaveRecord, WithoutBlock, TypeOK
  <2>4. record' \in [Record -> RecordStatuses]
    BY <1>2, <2>1 DEF SaveRecord, TypeOK, EditJob
  <2>. QED
    BY <1>2, <2>2, <2>3, <2>4 DEF SaveRecord, TypeOK, reservations, cars
<1>3. ASSUME NEW c \in Clerk, Annul(c) PROVE TypeOK'
  <2>1. job[c] \in AnnulJob
    BY <1>3 DEF Annul, TypeOK, Idle, DeskJob, WebJob, FormJob, AnnulJob, EditJob
  <2>2. job' \in [Clerk -> {Idle} \cup DeskJob \cup WebJob \cup FormJob \cup AnnulJob \cup EditJob]
    BY <1>3, JobsAreTyped DEF Annul, Done
  <2>3. blocks' \in [Vehicle \X Days -> {"free", "calendar"} \cup Record]
    BY <1>3 DEF Annul, WithoutBlock, TypeOK
  <2>4. record' \in [Record -> RecordStatuses]
    BY <1>3, <2>1 DEF Annul, TypeOK, RecordStatuses, AnnulJob
  <2>5. shape' \in [Vehicle -> Shapes]
    BY <1>3 DEF Annul, TypeOK, Shapes, Manual
  <2>. QED
    BY <1>3, <2>2, <2>3, <2>4, <2>5 DEF Annul, TypeOK, reservations
<1>4. ASSUME NEW c \in Clerk, NEW v \in Vehicle, ReadForm(c, v) PROVE TypeOK'
  <2>1. [kind |-> "form", veh |-> v, shape |-> shape[v], fleet |-> fleet[v]] \in FormJob
    BY DEF TypeOK, FormJob
  <2>2. job' \in [Clerk -> {Idle} \cup DeskJob \cup WebJob \cup FormJob \cup AnnulJob \cup EditJob]
    BY <1>4, <2>1, JobsAreTyped DEF ReadForm, Start
  <2>. QED
    BY <1>4, <2>2 DEF ReadForm, TypeOK, reservations, cars, workshop
<1>5. ASSUME NEW c \in Clerk, NEW m \in Record, ReadRecord(c, m) PROVE TypeOK'
  <2>1. [kind |-> "edit", rec |-> m, status |-> record[m], blocked |-> HasBlock(m)] \in EditJob
    BY DEF TypeOK, EditJob, HasBlock
  <2>2. job' \in [Clerk -> {Idle} \cup DeskJob \cup WebJob \cup FormJob \cup AnnulJob \cup EditJob]
    BY <1>5, <2>1, JobsAreTyped DEF ReadRecord, Start
  <2>. QED
    BY <1>5, <2>2 DEF ReadRecord, TypeOK, reservations, cars, workshop
<1>6. ASSUME NEW c \in Clerk, NEW m \in Record, ReadForAnnul(c, m) PROVE TypeOK'
  <2>1. [kind |-> "annul", rec |-> m, shape |-> shape[VehicleOf[m]],
         blocked |-> HasBlock(m)] \in AnnulJob
    BY RentalAssumption DEF TypeOK, AnnulJob, HasBlock
  <2>2. job' \in [Clerk -> {Idle} \cup DeskJob \cup WebJob \cup FormJob \cup AnnulJob \cup EditJob]
    BY <1>6, <2>1, JobsAreTyped DEF ReadForAnnul, Start
  <2>. QED
    BY <1>6, <2>2 DEF ReadForAnnul, TypeOK, reservations, cars, workshop
<1>. QED
  BY <1>1, <1>2, <1>3, <1>4, <1>5, <1>6 DEF Forms, AnnulScreen

LEMMA StepTypes == TypeOK /\ [Next]_vars => TypeOK'
<1>. SUFFICES ASSUME TypeOK, [Next]_vars PROVE TypeOK'
  OBVIOUS
<1>1. CASE StaleClick
  BY <1>1, ReinstateTypes DEF StaleClick
<1>2. CASE UNCHANGED vars
  BY <1>2 DEF vars, TypeOK
<1>. QED
  BY <1>1, <1>2, CounterTypes, WebTypes, FleetTypes, FormTypes DEF Next, FreshNext

(* Every reachable state of the rental desk, the fleet and the workshop is well
   typed, whatever the requests that overlap. *)
THEOREM RentalTypes == Spec => []TypeOK
BY InitTypes, StepTypes, PTL DEF Spec

-----------------------------------------------------------------------------
(* The papers of a rental and its status.  Only four actions touch either. *)

\* Every other action leaves the statuses and the acts alone.
LEMMA OthersLeaveThePapers ==
    ASSUME Next,
           ~\E q \in Reservation, to \in Statuses : Transition(q, to),
           ~\E c \in Clerk : CheckIn(c) \/ CheckOut(c) \/ WebCancel(c)
    PROVE  UNCHANGED <<status, handed, returned>>
<1>1. CASE Counter
  <2>1. ASSUME NEW q \in Reservation, Release(q) PROVE UNCHANGED <<status, handed, returned>>
    BY <2>1 DEF Release
  <2>2. ASSUME NEW q \in Reservation, NEW v \in Vehicle, Assign(q, v)
        PROVE  UNCHANGED <<status, handed, returned>>
    BY <2>2 DEF Assign
  <2>3. ASSUME NEW c \in Clerk, NEW q \in Reservation, ReadForCheckIn(c, q) \/ ReadForCheckOut(c, q)
        PROVE  UNCHANGED <<status, handed, returned>>
    BY <2>3 DEF ReadForCheckIn, ReadForCheckOut, reservations
  <2>4. ASSUME NEW c \in Clerk, GiveUp(c) PROVE UNCHANGED <<status, handed, returned>>
    BY <2>4 DEF GiveUp, reservations
  <2>. QED
    BY <1>1, <2>1, <2>2, <2>3, <2>4 DEF Counter, TransitionScreen, AssignScreen, ReleaseScreen, DeskForms
<1>2. CASE Web
  BY <1>2 DEF Web, ReadForWebCancel, reservations
<1>3. CASE FleetScreens \/ StaleClick
  BY <1>3 DEF FleetScreens, StatusScreen, ToggleScreen, BlockForm, EditBlockForm, DeleteBlockScreen,
          StartScreen, FinishScreen, StaleClick, SetStatus, Retire, Reinstate, SaveBlock, DeleteBlock,
              MoveBlock, FinishWorkshop, StartService, StartWorkshop, Drop, reservations
<1>4. CASE Forms
  BY <1>4 DEF Forms, AnnulScreen, SaveForm, SaveRecord, Annul, ReadForm, ReadRecord, ReadForAnnul, reservations
<1>. QED
  BY <1>1, <1>2, <1>3, <1>4 DEF Next, FreshNext

LEMMA StepPapers == TypeOK /\ PapersFollowStatus /\ [Next]_vars => PapersFollowStatus'
<1>. SUFFICES ASSUME TypeOK, PapersFollowStatus, [Next]_vars PROVE PapersFollowStatus'
  OBVIOUS
<1>1. ASSUME NEW r \in Reservation, NEW to \in Statuses, Transition(r, to)
      PROVE  PapersFollowStatus'
  BY <1>1 DEF Transition, Move, Diagram, PapersFollowStatus, TypeOK
<1>2. ASSUME NEW c \in Clerk, CheckIn(c) PROVE PapersFollowStatus'
  <2>1. job[c] \in DeskJob
    BY <1>2 DEF CheckIn, TypeOK, Idle, DeskJob, WebJob, FormJob, AnnulJob, EditJob
  <2>2. job[c].res \in Reservation /\ job[c].car # NoVehicle
    BY <2>1, RentalAssumption DEF DeskJob
  <2>3. status[job[c].res] = "confirmed"
    BY <1>2 DEF CheckIn, Move, Diagram
  <2>. QED
    BY <1>2, <2>2, <2>3 DEF CheckIn, Move, PapersFollowStatus, TypeOK
<1>3. ASSUME NEW c \in Clerk, CheckOut(c) PROVE PapersFollowStatus'
  <2>1. job[c] \in DeskJob
    BY <1>3 DEF CheckOut, TypeOK, Idle, DeskJob, WebJob, FormJob, AnnulJob, EditJob
  <2>2. job[c].res \in Reservation /\ job[c].car # NoVehicle
    BY <2>1, RentalAssumption DEF DeskJob
  <2>3. status[job[c].res] = "in_progress"
    BY <1>3 DEF CheckOut, Move, Diagram
  <2>. QED
    BY <1>3, <2>2, <2>3 DEF CheckOut, Move, PapersFollowStatus, TypeOK
<1>4. ASSUME NEW c \in Clerk, WebCancel(c) PROVE PapersFollowStatus'
  BY <1>4 DEF WebCancel, Move, Diagram, PapersFollowStatus, TypeOK
<1>5. CASE UNCHANGED <<status, handed, returned>>
  BY <1>5 DEF PapersFollowStatus
<1>. QED
  BY <1>1, <1>2, <1>3, <1>4, <1>5, OthersLeaveThePapers DEF vars, PapersFollowStatus

(* The papers of a reservation agree with its status: nobody is on the road
   without an act of delivery, and an act of return belongs to a finished rental,
   for any number of overlapping requests. *)
THEOREM PapersAgree == Spec => []PapersFollowStatus
<1>1. Init => PapersFollowStatus
  BY DEF Init, PapersFollowStatus
<1>. QED
  BY <1>1, InitTypes, StepTypes, StepPapers, PTL DEF Spec

-----------------------------------------------------------------------------
(* The blocks of the workshop.  The form of a record that had a block when it
   was read puts the record back where it was then: in the workshop. *)

EditsInTheWorkshop ==
    \A c \in Clerk : job[c].kind = "edit" /\ job[c].blocked => job[c].status = "in_workshop"

BlocksInv == TypeOK /\ WorkshopBlocks /\ EditsInTheWorkshop

\* Steps that leave the workshop alone and read no record.
LEMMA WorkshopAlone ==
    ASSUME BlocksInv, UNCHANGED <<blocks, record>>,
           \A c \in Clerk : job'[c] = job[c] \/ job'[c].kind # "edit"
    PROVE  WorkshopBlocks' /\ EditsInTheWorkshop'
BY DEF BlocksInv, WorkshopBlocks, EditsInTheWorkshop

\* Steps that take, at most, the blocks of a record off it, with no new request.
LEMMA BlocksLetGo ==
    ASSUME BlocksInv, NEW m \in Record, NEW left \in {"free", "calendar"},
           blocks' = WithoutBlock(m, left),
           \A n \in Record \ {m} : record'[n] = record[n],
           \A c \in Clerk : job'[c] = job[c] \/ job'[c].kind # "edit"
    PROVE  WorkshopBlocks' /\ EditsInTheWorkshop'
<1>1. left \notin Record
  BY RentalAssumption
<1>2. EditsInTheWorkshop'
  BY DEF BlocksInv, EditsInTheWorkshop
<1>3. ASSUME NEW b \in Vehicle \X Days, blocks'[b] \in Record
      PROVE  blocks'[b] = blocks[b] /\ blocks[b] # m
  BY <1>1, <1>3 DEF WithoutBlock, BlocksInv, TypeOK
<1>4. DOMAIN blocks' = Vehicle \X Days /\ DOMAIN blocks = Vehicle \X Days
  BY DEF WithoutBlock, BlocksInv, TypeOK
<1>5. WorkshopBlocks'
  <2>. SUFFICES ASSUME NEW b \in Vehicle \X Days, blocks'[b] \in Record
                PROVE  /\ b[1] = VehicleOf[blocks'[b]]
                       /\ record'[blocks'[b]] = "in_workshop"
                       /\ \A d \in Vehicle \X Days : blocks'[d] = blocks'[b] => d = b
    BY <1>4 DEF WorkshopBlocks
  <2>1. blocks'[b] = blocks[b] /\ blocks[b] # m
    BY <1>3
  <2>2. \A d \in Vehicle \X Days : blocks'[d] = blocks'[b] => blocks[d] = blocks[b]
    BY <1>3, <2>1
  <2>. QED
    BY <1>4, <2>1, <2>2 DEF BlocksInv, WorkshopBlocks
<1>. QED
  BY <1>2, <1>5

LEMMA StepBlocks == BlocksInv /\ [Next]_vars => WorkshopBlocks' /\ EditsInTheWorkshop'
<1>. SUFFICES ASSUME BlocksInv, [Next]_vars PROVE WorkshopBlocks' /\ EditsInTheWorkshop'
  OBVIOUS
<1>. USE DEF workshop
<1>0. TypeOK /\ DOMAIN blocks = Vehicle \X Days /\ {"free", "calendar"} \cap Record = {}
  BY RentalAssumption DEF BlocksInv, TypeOK
<1>1. CASE Counter \/ Web
  <2>1. UNCHANGED <<blocks, record>>
    BY <1>1 DEF Counter, TransitionScreen, AssignScreen, ReleaseScreen, DeskForms, Web, Transition, Release, Assign, ReadForCheckIn, ReadForCheckOut,
                CheckIn, CheckOut, GiveUp, WebCancel, ReadForWebCancel
  <2>2. ASSUME NEW c \in Clerk, Done(c) PROVE \A k \in Clerk : job'[k] = job[k] \/ job'[k].kind # "edit"
    BY <2>2, <1>0 DEF Done, Idle, TypeOK
  <2>3. ASSUME NEW c \in Clerk, NEW request, Start(c, request), request.kind # "edit"
        PROVE  \A k \in Clerk : job'[k] = job[k] \/ job'[k].kind # "edit"
    BY <2>3, <1>0 DEF Start, TypeOK
  <2>4. ASSUME NEW c \in Clerk, NEW r \in Reservation,
               ReadForCheckIn(c, r) \/ ReadForCheckOut(c, r) \/ ReadForWebCancel(c, r)
        PROVE  \A k \in Clerk : job'[k] = job[k] \/ job'[k].kind # "edit"
    BY <2>3, <2>4 DEF ReadForCheckIn, ReadForCheckOut, ReadForWebCancel
  <2>5. \A k \in Clerk : job'[k] = job[k] \/ job'[k].kind # "edit"
    BY <1>1, <2>2, <2>4 DEF Counter, TransitionScreen, AssignScreen, ReleaseScreen, DeskForms, Web, Transition, Release, Assign, CheckIn, CheckOut, GiveUp, WebCancel
  <2>. QED
    BY <2>1, <2>5, WorkshopAlone
<1>2. CASE UNCHANGED vars \/ StaleClick
  <2>1. UNCHANGED <<blocks, record, job>>
    BY <1>2 DEF vars, StaleClick, Reinstate
  <2>. QED
    BY <2>1, WorkshopAlone
<1>3. CASE FleetScreens
  <2>1. ASSUME NEW v \in Vehicle,
               \/ \E s \in Manual : SetStatus(v, s)
               \/ \E passed \in SUBSET Reservation : Retire(v, passed)
               \/ Reinstate(v)
        PROVE  WorkshopBlocks' /\ EditsInTheWorkshop'
    BY <2>1, WorkshopAlone DEF SetStatus, Retire, Reinstate
  <2>2. ASSUME NEW v \in Vehicle, NEW day \in Days, SaveBlock(v, day) \/ DeleteBlock(v, day)
        PROVE  WorkshopBlocks' /\ EditsInTheWorkshop'
    <3>1. PICK what \in {"free", "calendar"} : blocks' = [blocks EXCEPT ![<<v, day>>] = what]
      BY <2>2 DEF SaveBlock, DeleteBlock
    <3>2. UNCHANGED <<record, job>>
      BY <2>2 DEF SaveBlock, DeleteBlock
    <3>. QED
      BY <1>0, <3>1, <3>2 DEF BlocksInv, WorkshopBlocks, EditsInTheWorkshop
  <2>3. ASSUME NEW v \in Vehicle, NEW day \in Days, NEW to \in Days, MoveBlock(v, day, to)
        PROVE  WorkshopBlocks' /\ EditsInTheWorkshop'
    <3>1. UNCHANGED <<record, job>>
      BY <2>3 DEF MoveBlock
    <3>2. /\ DOMAIN blocks' = Vehicle \X Days
          /\ blocks'[<<v, day>>] = "free" /\ blocks'[<<v, to>>] = blocks[<<v, day>>]
          /\ \A b \in Vehicle \X Days :
                 b # <<v, day>> /\ b # <<v, to>> => blocks'[b] = blocks[b]
      BY <1>0, <2>3 DEF MoveBlock
    <3>3. ASSUME NEW b \in Vehicle \X Days, blocks'[b] \in Record
          PROVE  /\ b = <<v, to>> => blocks'[b] = blocks[<<v, day>>]
                 /\ b # <<v, to>> => blocks'[b] = blocks[b] /\ b # <<v, day>>
      BY <1>0, <3>2, <3>3
    <3>4. ASSUME NEW b \in Vehicle \X Days, blocks'[b] \in Record
          PROVE  /\ b[1] = VehicleOf[blocks'[b]]
                 /\ record'[blocks'[b]] = "in_workshop"
      <4>1. CASE b = <<v, to>>
        <5>1. <<v, day>> \in DOMAIN blocks /\ <<v, day>>[1] = b[1]
          BY <1>0, <4>1
        <5>. QED
          BY <3>1, <3>3, <3>4, <4>1, <5>1 DEF BlocksInv, WorkshopBlocks
      <4>2. CASE b # <<v, to>>
        BY <1>0, <3>1, <3>3, <3>4, <4>2 DEF BlocksInv, WorkshopBlocks
      <4>. QED
        BY <4>1, <4>2
    <3>5. ASSUME NEW b \in Vehicle \X Days, NEW d \in Vehicle \X Days,
                 blocks'[b] \in Record, blocks'[d] = blocks'[b]
          PROVE  d = b
      <4>1. <<v, day>> \in Vehicle \X Days
        OBVIOUS
      <4>. QED
        BY <1>0, <3>3, <3>5, <4>1 DEF BlocksInv, WorkshopBlocks
    <3>. QED
      BY <3>1, <3>2, <3>4, <3>5 DEF BlocksInv, WorkshopBlocks, EditsInTheWorkshop
  <2>4. ASSUME NEW m \in Record, FinishWorkshop(m) PROVE WorkshopBlocks' /\ EditsInTheWorkshop'
    <3>1. blocks' = WithoutBlock(m, "free") /\ UNCHANGED job
      BY <2>4 DEF FinishWorkshop
    <3>2. \A n \in Record \ {m} : record'[n] = record[n]
      BY <1>0, <2>4 DEF FinishWorkshop, TypeOK
    <3>. QED
      BY <3>1, <3>2, BlocksLetGo
  <2>5. ASSUME NEW m \in Record, StartService(m) PROVE WorkshopBlocks' /\ EditsInTheWorkshop'
    BY <1>0, <2>5 DEF StartService, BlocksInv, WorkshopBlocks, EditsInTheWorkshop, TypeOK
  <2>6. ASSUME NEW m \in Record, NEW day \in Days, StartWorkshop(m, day)
        PROVE  WorkshopBlocks' /\ EditsInTheWorkshop'
    <3>1. /\ UNCHANGED job
          /\ record[m] = "scheduled" /\ record' = [record EXCEPT ![m] = "in_workshop"]
          /\ blocks' = [blocks EXCEPT ![<<VehicleOf[m], day>>] = m]
      BY <2>6 DEF StartWorkshop
    <3>2. <<VehicleOf[m], day>> \in Vehicle \X Days /\ <<VehicleOf[m], day>>[1] = VehicleOf[m]
      BY RentalAssumption
    <3>3. \A b \in Vehicle \X Days : blocks[b] # m
      BY <1>0, <3>1 DEF BlocksInv, WorkshopBlocks
    <3>4. \A n \in Record : record'[n] = IF n = m THEN "in_workshop" ELSE record[n]
      BY <1>0, <3>1 DEF TypeOK
    <3>5. \A b \in Vehicle \X Days :
             blocks'[b] = IF b = <<VehicleOf[m], day>> THEN m ELSE blocks[b]
      BY <1>0, <3>1
    <3>. QED
      BY <1>0, <3>1, <3>2, <3>3, <3>4, <3>5 DEF BlocksInv, WorkshopBlocks, EditsInTheWorkshop
  <2>. QED
    BY <1>3, <2>1, <2>2, <2>3, <2>4, <2>5, <2>6 DEF FleetScreens, StatusScreen, ToggleScreen, BlockForm, EditBlockForm, DeleteBlockScreen,
          StartScreen, FinishScreen
<1>4. CASE Forms
  <2>1. ASSUME NEW c \in Clerk, SaveForm(c) PROVE WorkshopBlocks' /\ EditsInTheWorkshop'
    <3>1. \A k \in Clerk : job'[k] = job[k] \/ job'[k].kind # "edit"
      BY <1>0, <2>1 DEF SaveForm, Done, Idle, TypeOK
    <3>. QED
      BY <2>1, <3>1, WorkshopAlone DEF SaveForm
  <2>2. ASSUME NEW c \in Clerk, SaveRecord(c) PROVE WorkshopBlocks' /\ EditsInTheWorkshop'
    <3>1. \A k \in Clerk : job'[k] = job[k] \/ job'[k].kind # "edit"
      BY <1>0, <2>2 DEF SaveRecord, Done, Idle, TypeOK
    <3>2. job[c] \in EditJob
      BY <1>0, <2>2 DEF SaveRecord, TypeOK, Idle, DeskJob, WebJob, FormJob, AnnulJob, EditJob
    <3>3. job[c].rec \in Record
      BY <3>2 DEF EditJob
    <3>4. \A n \in Record :
             record'[n] = IF n = job[c].rec THEN job[c].status ELSE record[n]
      BY <1>0, <2>2 DEF SaveRecord, TypeOK
    <3>5. CASE job[c].blocked
      <4>1. job[c].status = "in_workshop"
        BY <2>2, <3>5 DEF SaveRecord, BlocksInv, EditsInTheWorkshop
      <4>2. UNCHANGED blocks
        BY <2>2, <3>5 DEF SaveRecord
      <4>3. WorkshopBlocks'
        BY <3>4, <4>1, <4>2 DEF BlocksInv, WorkshopBlocks
      <4>. QED
        BY <3>1, <4>3 DEF BlocksInv, EditsInTheWorkshop
    <3>6. CASE ~job[c].blocked
      <4>1. blocks' = WithoutBlock(job[c].rec, "calendar")
        BY <2>2, <3>6 DEF SaveRecord
      <4>. QED
        BY <3>1, <3>3, <3>4, <4>1, BlocksLetGo
    <3>. QED
      BY <3>5, <3>6
  <2>3. ASSUME NEW c \in Clerk, Annul(c) PROVE WorkshopBlocks' /\ EditsInTheWorkshop'
    <3>1. \A k \in Clerk : job'[k] = job[k] \/ job'[k].kind # "edit"
      BY <1>0, <2>3 DEF Annul, Done, Idle, TypeOK
    <3>2. job[c] \in AnnulJob
      BY <1>0, <2>3 DEF Annul, TypeOK, Idle, DeskJob, WebJob, FormJob, AnnulJob, EditJob
    <3>3. job[c].rec \in Record
      BY <3>2 DEF AnnulJob
    <3>4. \A n \in Record \ {job[c].rec} : record'[n] = record[n]
      BY <1>0, <2>3 DEF Annul, TypeOK
    <3>5. blocks' = WithoutBlock(job[c].rec, "free")
      BY <2>3 DEF Annul
    <3>. QED
      BY <3>1, <3>3, <3>4, <3>5, BlocksLetGo
  <2>4. ASSUME NEW c \in Clerk, NEW v \in Vehicle, ReadForm(c, v)
        PROVE  WorkshopBlocks' /\ EditsInTheWorkshop'
    <3>1. \A k \in Clerk : job'[k] = job[k] \/ job'[k].kind # "edit"
      BY <1>0, <2>4 DEF ReadForm, Start, TypeOK
    <3>. QED
      BY <2>4, <3>1, WorkshopAlone DEF ReadForm
  <2>5. ASSUME NEW c \in Clerk, NEW m \in Record, ReadRecord(c, m)
        PROVE  WorkshopBlocks' /\ EditsInTheWorkshop'
    <3>1. UNCHANGED <<blocks, record>>
      BY <2>5 DEF ReadRecord
    <3>2. HasBlock(m) => record[m] = "in_workshop"
      BY DEF HasBlock, BlocksInv, WorkshopBlocks
    <3>. DEFINE request == [kind |-> "edit", rec |-> m, status |-> record[m],
                            blocked |-> HasBlock(m)]
    <3>3. request.blocked => request.status = "in_workshop"
      BY <3>2
    <3>4. job' = [job EXCEPT ![c] = request]
      BY <2>5 DEF ReadRecord, Start
    <3>. HIDE DEF request
    <3>5. \A k \in Clerk : job'[k] = IF k = c THEN request ELSE job[k]
      BY <1>0, <3>4 DEF TypeOK
    <3>. QED
      BY <3>1, <3>3, <3>5 DEF BlocksInv, WorkshopBlocks, EditsInTheWorkshop
  <2>6. ASSUME NEW c \in Clerk, NEW m \in Record, ReadForAnnul(c, m)
        PROVE  WorkshopBlocks' /\ EditsInTheWorkshop'
    <3>1. \A k \in Clerk : job'[k] = job[k] \/ job'[k].kind # "edit"
      BY <1>0, <2>6 DEF ReadForAnnul, Start, TypeOK
    <3>. QED
      BY <2>6, <3>1, WorkshopAlone DEF ReadForAnnul
  <2>. QED
    BY <1>4, <2>1, <2>2, <2>3, <2>4, <2>5, <2>6 DEF Forms, AnnulScreen
<1>. QED
  BY <1>1, <1>2, <1>3, <1>4 DEF Next, FreshNext

(* A block of the calendar that belongs to a maintenance record stands for a car
   that is in the workshop, on that car and once, whatever forms of the record
   are saved late. *)
THEOREM BlocksFollowTheWorkshop == Spec => []WorkshopBlocks
<1>1. Init => WorkshopBlocks /\ EditsInTheWorkshop
  BY RentalAssumption DEF Init, Idle, WorkshopBlocks, EditsInTheWorkshop
<1>2. BlocksInv /\ [Next]_vars => BlocksInv'
  BY StepTypes, StepBlocks DEF BlocksInv
<1>3. Init => BlocksInv
  BY <1>1, InitTypes DEF BlocksInv
<1>4. BlocksInv => WorkshopBlocks
  BY DEF BlocksInv
<1>. QED
  BY <1>2, <1>3, <1>4, PTL DEF Spec

-----------------------------------------------------------------------------
(* The cars that are out, when lists are fresh, a form is saved before anything
   else is, and the car of a rental is not changed while it is out. *)

RentedIsActive == \A v \in Vehicle : shape[v] = "rented" => fleet[v]

\* What a form or an annulment is about to act on is what the car is now.
FormsAreFresh ==
    \A c \in Clerk :
        /\ job[c].kind = "form" =>
              job[c].shape = shape[job[c].veh] /\ job[c].fleet = fleet[job[c].veh]
        /\ job[c].kind = "annul" => job[c].shape = shape[VehicleOf[job[c].rec]]

RentedNow == {v \in Vehicle : shape[v] = "rented"}

HandoversInv ==
    /\ TypeOK /\ PapersFollowStatus /\ OutIsRented /\ RentedOncePerDelivery
    /\ RentedIsActive /\ FormsAreFresh

\* What RentedUntilReturned says of a step.
Kept ==
    \A v \in Vehicle :
        shape[v] = "rented" /\ shape'[v] # "rented" =>
            \E r \in Reservation : /\ returned[r] = NoVehicle /\ returned'[r] # NoVehicle
                                   /\ car[r] = v

\* A step that opens no form leaves those that were open saved or abandoned.
LEMMA FormsStayFresh == ASSUME TypeOK, FreshNext, FormsAtOnce PROVE FormsAreFresh'
<1>. DEFINE Watched == {"form", "annul"}
<1>0. job \in [Clerk -> {Idle} \cup DeskJob \cup WebJob \cup FormJob \cup AnnulJob \cup EditJob]
  BY DEF TypeOK
<1>1. ASSUME \A k \in Clerk : job'[k] = job[k] \/ job'[k].kind \notin Watched
      PROVE  FormsAreFresh'
  <2>1. \A k \in Clerk : job'[k].kind \notin Watched
    BY <1>1 DEF FormsAtOnce
  <2>. QED
    BY <2>1 DEF FormsAreFresh
<1>2. ASSUME NEW c \in Clerk, Done(c) PROVE FormsAreFresh'
  <2>1. \A k \in Clerk : job'[k] = job[k] \/ job'[k].kind \notin Watched
    BY <1>0, <1>2 DEF Done, Idle
  <2>. QED
    BY <1>1, <2>1
<1>3. ASSUME NEW c \in Clerk, NEW request, Start(c, request), request.kind \notin Watched
      PROVE  FormsAreFresh'
  <2>1. \A k \in Clerk : job'[k] = job[k] \/ job'[k].kind \notin Watched
    BY <1>0, <1>3 DEF Start
  <2>. QED
    BY <1>1, <2>1
<1>4. ASSUME UNCHANGED job PROVE FormsAreFresh'
  BY <1>1, <1>4
<1>5. CASE Counter
  <2>1. ASSUME NEW c \in Clerk, NEW r \in Reservation, ReadForCheckIn(c, r) \/ ReadForCheckOut(c, r)
        PROVE  FormsAreFresh'
    BY <1>3, <2>1 DEF ReadForCheckIn, ReadForCheckOut
  <2>. QED
    BY <1>2, <1>4, <1>5, <2>1 DEF Counter, TransitionScreen, AssignScreen, ReleaseScreen, DeskForms,
          Transition, Assign, Release, CheckIn, CheckOut, GiveUp
<1>6. CASE Web
  <2>1. ASSUME NEW c \in Clerk, NEW r \in Reservation, ReadForWebCancel(c, r) PROVE FormsAreFresh'
    BY <1>3, <2>1 DEF ReadForWebCancel
  <2>. QED
    BY <1>2, <1>6, <2>1 DEF Web, WebCancel
<1>7. CASE FleetScreens
  <2>1. UNCHANGED job
    BY <1>7 DEF FleetScreens, StatusScreen, ToggleScreen, BlockForm, EditBlockForm, DeleteBlockScreen,
          StartScreen, FinishScreen, SetStatus, Retire, Reinstate, SaveBlock, DeleteBlock, MoveBlock,
          FinishWorkshop, StartService, StartWorkshop
  <2>. QED
    BY <1>4, <2>1
<1>8. CASE Forms
  <2>1. ASSUME NEW c \in Clerk, SaveForm(c) \/ SaveRecord(c) \/ Annul(c) PROVE FormsAreFresh'
    BY <1>2, <2>1 DEF SaveForm, SaveRecord, Annul
  <2>2. ASSUME NEW c \in Clerk, NEW m \in Record, ReadRecord(c, m) PROVE FormsAreFresh'
    BY <1>3, <2>2 DEF ReadRecord
  <2>3. ASSUME NEW c \in Clerk, NEW request, Start(c, request), UNCHANGED <<shape, fleet>>,
               request.kind = "form" =>
                  request.shape = shape[request.veh] /\ request.fleet = fleet[request.veh],
               request.kind = "annul" => request.shape = shape[VehicleOf[request.rec]]
        PROVE  FormsAreFresh'
    <3>1. job'[c] = request /\ \A k \in Clerk \ {c} : job'[k] = job[k]
      BY <1>0, <2>3 DEF Start
    <3>2. \A k \in Clerk \ {c} : job'[k].kind \notin Watched
      BY <3>1 DEF FormsAtOnce
    <3>. QED
      BY <2>3, <3>1, <3>2 DEF FormsAreFresh
  <2>4. ASSUME NEW c \in Clerk, NEW v \in Vehicle, ReadForm(c, v) PROVE FormsAreFresh'
    <3>. DEFINE request == [kind |-> "form", veh |-> v, shape |-> shape[v], fleet |-> fleet[v]]
    <3>1. /\ request.kind = "form" /\ request.veh = v
          /\ request.shape = shape[v] /\ request.fleet = fleet[v]
      OBVIOUS
    <3>2. Start(c, request) /\ UNCHANGED <<shape, fleet>>
      BY <2>4 DEF ReadForm, cars
    <3>. HIDE DEF request
    <3>. QED
      BY <2>3, <3>1, <3>2
  <2>5. ASSUME NEW c \in Clerk, NEW m \in Record, ReadForAnnul(c, m) PROVE FormsAreFresh'
    <3>. DEFINE request == [kind |-> "annul", rec |-> m, shape |-> shape[VehicleOf[m]],
                            blocked |-> HasBlock(m)]
    <3>1. request.kind = "annul" /\ request.rec = m /\ request.shape = shape[VehicleOf[m]]
      OBVIOUS
    <3>2. Start(c, request) /\ UNCHANGED <<shape, fleet>>
      BY <2>5 DEF ReadForAnnul, cars
    <3>. HIDE DEF request
    <3>. QED
      BY <2>3, <3>1, <3>2
  <2>. QED
    BY <1>8, <2>1, <2>2, <2>4, <2>5 DEF Forms, AnnulScreen
<1>. QED
  BY <1>5, <1>6, <1>7, <1>8 DEF FreshNext

\* Only a check-in and a check-out change which cars show as rented.
LEMMA OthersLeaveTheRented ==
    ASSUME HandoversInv, FreshNext, ~\E c \in Clerk : CheckIn(c) \/ CheckOut(c)
    PROVE  \A v \in Vehicle : /\ shape'[v] = "rented" <=> shape[v] = "rented"
                              /\ shape'[v] = "rented" => fleet'[v]
<1>. DEFINE Goal == \A v \in Vehicle : /\ shape'[v] = "rented" <=> shape[v] = "rented"
                                       /\ shape'[v] = "rented" => fleet'[v]
<1>0. /\ TypeOK /\ RentedIsActive
      /\ shape \in [Vehicle -> Shapes] /\ fleet \in [Vehicle -> BOOLEAN]
  BY DEF HandoversInv, TypeOK
<1>1. ASSUME UNCHANGED <<shape, fleet>> PROVE Goal
  BY <1>0, <1>1 DEF RentedIsActive
<1>2. ASSUME NEW v \in Vehicle, shape[v] # "rented", NEW s, s # "rented",
             shape' = [shape EXCEPT ![v] = s],
             \A u \in Vehicle \ {v} : fleet'[u] = fleet[u]
      PROVE  Goal
  BY <1>0, <1>2 DEF RentedIsActive
<1>3. CASE Counter \/ Web
  <2>1. UNCHANGED <<shape, fleet>>
    BY <1>3 DEF Counter, TransitionScreen, AssignScreen, ReleaseScreen, DeskForms, Web, Transition,
          Release, Assign, ReadForCheckIn, ReadForCheckOut, GiveUp, WebCancel, ReadForWebCancel, cars
  <2>. QED
    BY <1>1, <2>1
<1>4. CASE FleetScreens
  <2>1. ASSUME NEW v \in Vehicle, NEW s \in Manual, SetStatus(v, s) PROVE Goal
    BY <1>2, <2>1 DEF SetStatus, Manual
  <2>2. ASSUME NEW v \in Vehicle, NEW passed \in SUBSET Reservation, Retire(v, passed) PROVE Goal
    BY <1>0, <1>2, <2>2 DEF Retire
  <2>3. ASSUME NEW v \in Vehicle, ~fleet[v], Reinstate(v) PROVE Goal
    BY <1>0, <1>2, <2>3 DEF Reinstate, RentedIsActive
  <2>4. ASSUME NEW m \in Record, FinishWorkshop(m) PROVE Goal
    <3>1. VehicleOf[m] \in Vehicle
      BY RentalAssumption
    <3>2. CASE UNCHANGED shape
      BY <1>1, <2>4, <3>2 DEF FinishWorkshop
    <3>3. CASE shape[VehicleOf[m]] = "workshop" /\ shape' = [shape EXCEPT ![VehicleOf[m]] = "available"]
      BY <1>2, <2>4, <3>1, <3>3 DEF FinishWorkshop
    <3>. QED
      BY <2>4, <3>2, <3>3 DEF FinishWorkshop
  <2>5. ASSUME NEW m \in Record, NEW day \in Days, StartWorkshop(m, day) PROVE Goal
    <3>1. VehicleOf[m] \in Vehicle
      BY RentalAssumption
    <3>2. CASE UNCHANGED shape
      BY <1>1, <2>5, <3>2 DEF StartWorkshop
    <3>3. CASE shape' = [shape EXCEPT ![VehicleOf[m]] = "workshop"]
      BY <1>2, <2>5, <3>1, <3>3 DEF StartWorkshop
    <3>. QED
      BY <2>5, <3>2, <3>3 DEF StartWorkshop
  <2>6. ASSUME BlockForm \/ EditBlockForm \/ DeleteBlockScreen \/ \E m \in Record : StartService(m)
        PROVE  Goal
    <3>1. UNCHANGED <<shape, fleet>>
      BY <2>6 DEF BlockForm, EditBlockForm, DeleteBlockScreen, SaveBlock, DeleteBlock, MoveBlock,
            StartService, cars
    <3>. QED
      BY <1>1, <3>1
  <2>. QED
    BY <1>4, <2>1, <2>2, <2>3, <2>4, <2>5, <2>6 DEF FleetScreens, StatusScreen, ToggleScreen,
          StartScreen, FinishScreen
<1>5. CASE Forms
  <2>1. ASSUME NEW c \in Clerk, SaveForm(c) PROVE Goal
    <3>1. job[c] \in FormJob
      BY <1>0, <2>1 DEF SaveForm, TypeOK, Idle, DeskJob, WebJob, FormJob, AnnulJob, EditJob
    <3>2. job[c].veh \in Vehicle
      BY <3>1 DEF FormJob
    <3>3. job[c].shape = shape[job[c].veh] /\ job[c].fleet = fleet[job[c].veh]
      BY <2>1 DEF SaveForm, HandoversInv, FormsAreFresh
    <3>4. shape' = shape /\ fleet' = fleet
      BY <1>0, <2>1, <3>2, <3>3 DEF SaveForm
    <3>. QED
      BY <1>1, <3>4
  <2>2. ASSUME NEW c \in Clerk, Annul(c) PROVE Goal
    <3>1. job[c] \in AnnulJob
      BY <1>0, <2>2 DEF Annul, TypeOK, Idle, DeskJob, WebJob, FormJob, AnnulJob, EditJob
    <3>. DEFINE v == VehicleOf[job[c].rec]
    <3>2. v \in Vehicle
      BY <3>1, RentalAssumption DEF AnnulJob
    <3>3. job[c].shape = shape[v]
      BY <2>2 DEF Annul, HandoversInv, FormsAreFresh
    <3>4. CASE UNCHANGED shape
      BY <1>1, <2>2, <3>4 DEF Annul
    <3>5. CASE job[c].shape = "workshop" /\ shape' = [shape EXCEPT ![v] = "available"]
      BY <1>2, <2>2, <3>2, <3>3, <3>5 DEF Annul
    <3>. QED
      BY <2>2, <3>4, <3>5 DEF Annul
  <2>3. ASSUME \/ AnnulScreen
               \/ \E c \in Clerk : SaveRecord(c)
               \/ \E c \in Clerk, v \in Vehicle : ReadForm(c, v)
               \/ \E c \in Clerk, m \in Record : ReadRecord(c, m)
        PROVE  Goal
    <3>1. UNCHANGED <<shape, fleet>>
      BY <2>3 DEF AnnulScreen, ReadForAnnul, SaveRecord, ReadForm, ReadRecord, cars
    <3>. QED
      BY <1>1, <3>1
  <2>. QED
    BY <1>5, <2>1, <2>2, <2>3 DEF Forms
<1>. QED
  BY <1>3, <1>4, <1>5 DEF FreshNext

\* A step that hands over and receives nothing.
LEMMA QuietStep ==
    ASSUME HandoversInv, CarsStay, UNCHANGED <<handed, returned>>,
           \A r \in Reservation : status'[r] = "in_progress" => status[r] = "in_progress",
           \A v \in Vehicle : shape'[v] = "rented" <=> shape[v] = "rented"
    PROVE  OutIsRented' /\ RentedOncePerDelivery' /\ Kept
<1>1. OutIsRented'
  <2>1. \A r \in OutNow' : r \in OutNow /\ car'[r] = car[r]
    BY DEF OutNow, CarsStay
  <2>2. \A r \in OutNow : car[r] \in Vehicle
    BY DEF HandoversInv, OutIsRented, TypeOK, Car, OutNow
  <2>. QED
    BY <2>1, <2>2 DEF HandoversInv, OutIsRented
<1>2. RentedNow' = RentedNow /\ NotBack' = NotBack
  BY DEF RentedNow, NotBack
<1>3. RentedOncePerDelivery'
  BY <1>2 DEF HandoversInv, RentedOncePerDelivery, RentedNow
<1>. QED
  BY <1>1, <1>3 DEF Kept

LEMMA RentedAndOutAreFinite == IsFiniteSet(RentedNow) /\ IsFiniteSet(NotBack)
BY RentalAssumption, FS_Subset DEF RentedNow, NotBack

\* The car that goes out was not out; the delivery is the first of its reservation.
LEMMA CheckInHands ==
    ASSUME HandoversInv, NEW c \in Clerk, CheckIn(c)
    PROVE  OutIsRented' /\ RentedOncePerDelivery' /\ RentedIsActive' /\ Kept
<1>. DEFINE r == job[c].res
            v == car[r]
<1>0. TypeOK
  BY DEF HandoversInv
<1>1. r \in Reservation /\ job[c].car \in Vehicle
  BY <1>0 DEF CheckIn, TypeOK, Idle, DeskJob, WebJob, FormJob, AnnulJob, EditJob
<1>2. v \in Vehicle
  BY <1>0, <1>1 DEF CheckIn, TypeOK, Car
<1>3. /\ shape[v] # "rented" /\ fleet[v] /\ shape' = [shape EXCEPT ![v] = "rented"]
      /\ status[r] = "confirmed" /\ status' = [status EXCEPT ![r] = "in_progress"]
      /\ handed[r] = NoVehicle /\ handed' = [handed EXCEPT ![r] = job[c].car]
      /\ car' = car /\ returned' = returned /\ fleet' = fleet
  BY DEF CheckIn, StartRental, Move, Diagram
<1>4. returned[r] = NoVehicle
  BY <1>1, <1>3 DEF HandoversInv, PapersFollowStatus
<1>5. OutNow' = OutNow \cup {r}
  BY <1>0, <1>1, <1>3 DEF OutNow, TypeOK
<1>6. RentedNow' = RentedNow \cup {v} /\ v \notin RentedNow
  BY <1>0, <1>2, <1>3 DEF RentedNow, TypeOK
<1>7. NotBack' = NotBack \cup {r} /\ r \notin NotBack
  BY <1>0, <1>1, <1>3, <1>4, RentalAssumption DEF NotBack, TypeOK
<1>8. OutIsRented'
  <2>1. \A q \in OutNow : car[q] \in Vehicle /\ shape[car[q]] = "rented" /\ car[q] # v
    BY <1>0, <1>3 DEF HandoversInv, OutIsRented, OutNow, TypeOK, Car
  <2>. SUFFICES ASSUME NEW p \in OutNow'
                PROVE  /\ car'[p] # NoVehicle /\ shape'[car'[p]] = "rented"
                       /\ \A q \in OutNow' \ {p} : car'[q] # car'[p]
    BY DEF OutIsRented
  <2>2. CASE p = r
    BY <1>0, <1>2, <1>3, <1>5, <2>1, <2>2, RentalAssumption DEF TypeOK
  <2>3. CASE p \in OutNow /\ p # r
    <3>1. shape'[car[p]] = "rented" /\ car[p] # NoVehicle
      BY <1>0, <1>3, <2>1, <2>3, RentalAssumption DEF TypeOK
    <3>2. \A q \in OutNow \ {p} : car[q] # car[p]
      BY <2>3 DEF HandoversInv, OutIsRented
    <3>. QED
      BY <1>3, <1>5, <2>1, <2>3, <3>1, <3>2
  <2>. QED
    BY <1>5, <2>2, <2>3
<1>9. RentedOncePerDelivery'
  <2>1. /\ Cardinality(RentedNow') = Cardinality(RentedNow) + 1
        /\ Cardinality(NotBack') = Cardinality(NotBack) + 1
    BY <1>6, <1>7, RentedAndOutAreFinite, FS_AddElement
  <2>. QED
    BY <2>1 DEF HandoversInv, RentedOncePerDelivery, RentedNow
<1>10. RentedIsActive'
  BY <1>0, <1>2, <1>3 DEF HandoversInv, RentedIsActive, TypeOK
<1>11. Kept
  BY <1>0, <1>2, <1>3 DEF Kept, TypeOK
<1>. QED
  BY <1>8, <1>9, <1>10, <1>11

\* The car that comes back is that of the reservation, and no other stops showing as rented.
LEMMA CheckOutReceives ==
    ASSUME HandoversInv, NEW c \in Clerk, CheckOut(c)
    PROVE  OutIsRented' /\ RentedOncePerDelivery' /\ RentedIsActive' /\ Kept
<1>. DEFINE r == job[c].res
            v == car[r]
<1>0. TypeOK
  BY DEF HandoversInv
<1>1. r \in Reservation /\ job[c].car \in Vehicle
  BY <1>0 DEF CheckOut, TypeOK, Idle, DeskJob, WebJob, FormJob, AnnulJob, EditJob
<1>2. /\ status[r] = "in_progress" /\ status' = [status EXCEPT ![r] = "finished"]
      /\ returned[r] = NoVehicle /\ returned' = [returned EXCEPT ![r] = job[c].car]
      /\ car' = car /\ handed' = handed /\ fleet' = fleet
  BY DEF CheckOut, Move, Diagram
<1>3. r \in OutNow /\ v \in Vehicle /\ shape[v] = "rented"
  BY <1>0, <1>1, <1>2 DEF OutNow, HandoversInv, OutIsRented, TypeOK, Car
<1>4. AfterRental(r) = [shape EXCEPT ![v] = "cleaning"]
  BY <1>3, RentalAssumption DEF AfterRental
<1>5. \A u \in Vehicle : shape'[u] = "rented" <=> shape[u] = "rented" /\ u # v
  <2>. DEFINE after == [shape EXCEPT ![v] = "cleaning"]
  <2>0. after \in [Vehicle -> Shapes]
    BY <1>0 DEF TypeOK, Shapes, Manual
  <2>1. \A u \in Vehicle : after[u] = "rented" <=> shape[u] = "rented" /\ u # v
    BY <1>0, <1>3 DEF TypeOK
  <2>2. \/ shape' = after
        \/ after[job[c].car] # "rented" /\ shape' = [after EXCEPT ![job[c].car] = "available"]
    BY <1>4 DEF CheckOut
  <2>. HIDE DEF after
  <2>. QED
    BY <1>1, <2>0, <2>1, <2>2
<1>6. OutNow' = OutNow \ {r}
  BY <1>0, <1>1, <1>2 DEF OutNow, TypeOK
<1>7. RentedNow' = RentedNow \ {v} /\ v \in RentedNow
  BY <1>3, <1>5 DEF RentedNow
<1>8. NotBack' = NotBack \ {r} /\ r \in NotBack
  BY <1>0, <1>1, <1>2, RentalAssumption DEF NotBack, TypeOK, HandoversInv, PapersFollowStatus
<1>9. OutIsRented'
  <2>1. \A q \in OutNow \ {r} : car[q] \in Vehicle /\ shape[car[q]] = "rented" /\ car[q] # v
    BY <1>0, <1>3 DEF HandoversInv, OutIsRented, OutNow, TypeOK, Car
  <2>2. \A q \in OutNow' : shape'[car[q]] = "rented"
    BY <1>5, <1>6, <2>1
  <2>. QED
    BY <1>2, <1>6, <2>2 DEF HandoversInv, OutIsRented
<1>10. RentedOncePerDelivery'
  <2>1. /\ Cardinality(RentedNow') = Cardinality(RentedNow) - 1
        /\ Cardinality(NotBack') = Cardinality(NotBack) - 1
    BY <1>7, <1>8, RentedAndOutAreFinite, FS_RemoveElement
  <2>. QED
    BY <2>1 DEF HandoversInv, RentedOncePerDelivery, RentedNow
<1>11. RentedIsActive'
  BY <1>2, <1>5 DEF HandoversInv, RentedIsActive
<1>12. Kept
  <2>1. returned'[r] # NoVehicle
    BY <1>0, <1>1, <1>2, RentalAssumption DEF TypeOK
  <2>. QED
    BY <1>1, <1>2, <1>5, <2>1 DEF Kept
<1>. QED
  BY <1>9, <1>10, <1>11, <1>12

LEMMA CarefulStep ==
    HandoversInv /\ [FreshNext /\ FormsAtOnce /\ CarsStay]_vars => HandoversInv' /\ [Kept]_vars
<1>. SUFFICES ASSUME HandoversInv, [FreshNext /\ FormsAtOnce /\ CarsStay]_vars
              PROVE  HandoversInv' /\ [Kept]_vars
  OBVIOUS
<1>0. TypeOK /\ PapersFollowStatus
  BY DEF HandoversInv
<1>1. CASE UNCHANGED vars
  <2>1. TypeOK' /\ PapersFollowStatus'
    BY <1>0, <1>1, StepTypes, StepPapers
  <2>2. OutIsRented' /\ RentedOncePerDelivery' /\ RentedIsActive' /\ FormsAreFresh'
    BY <1>1 DEF vars, HandoversInv, OutIsRented, RentedOncePerDelivery, RentedIsActive,
          FormsAreFresh, OutNow, NotBack
  <2>. QED
    BY <1>1, <2>1, <2>2 DEF HandoversInv
<1>2. CASE FreshNext /\ FormsAtOnce /\ CarsStay
  <2>1. TypeOK' /\ PapersFollowStatus' /\ FormsAreFresh'
    BY <1>0, <1>2, StepTypes, StepPapers, FormsStayFresh DEF Next
  <2>2. CASE \E c \in Clerk : CheckIn(c) \/ CheckOut(c)
    <3>1. OutIsRented' /\ RentedOncePerDelivery' /\ RentedIsActive' /\ Kept
      BY <2>2, CheckInHands, CheckOutReceives
    <3>. QED
      BY <2>1, <3>1 DEF HandoversInv
  <2>3. CASE ~\E c \in Clerk : CheckIn(c) \/ CheckOut(c)
    <3>1. \A v \in Vehicle : /\ shape'[v] = "rented" <=> shape[v] = "rented"
                             /\ shape'[v] = "rented" => fleet'[v]
      BY <1>2, <2>3, OthersLeaveTheRented
    <3>2. /\ UNCHANGED <<handed, returned>>
          /\ \A r \in Reservation : status'[r] = "in_progress" => status[r] = "in_progress"
      <4>1. ASSUME NEW r \in Reservation, NEW to \in Statuses, Transition(r, to)
            PROVE  /\ UNCHANGED <<handed, returned>>
                   /\ \A q \in Reservation : status'[q] = "in_progress" => status[q] = "in_progress"
        BY <1>0, <4>1 DEF Transition, Move, TypeOK
      <4>2. ASSUME NEW c \in Clerk, WebCancel(c)
            PROVE  /\ UNCHANGED <<handed, returned>>
                   /\ \A q \in Reservation : status'[q] = "in_progress" => status[q] = "in_progress"
        BY <1>0, <4>2 DEF WebCancel, Move, TypeOK
      <4>. QED
        BY <1>2, <2>3, <4>1, <4>2, OthersLeaveThePapers DEF Next
    <3>3. OutIsRented' /\ RentedOncePerDelivery' /\ Kept
      BY <1>2, <3>1, <3>2, QuietStep
    <3>4. RentedIsActive'
      BY <3>1 DEF RentedIsActive
    <3>. QED
      BY <2>1, <3>3, <3>4 DEF HandoversInv
  <2>. QED
    BY <2>2, <2>3
<1>. QED
  BY <1>1, <1>2

LEMMA CarefulInv == CarefulSpec => []HandoversInv
<1>1. Init => HandoversInv
  <2>. SUFFICES ASSUME Init PROVE HandoversInv
    OBVIOUS
  <2>1. TypeOK
    BY InitTypes
  <2>2. OutNow = {} /\ RentedNow = {} /\ NotBack = {}
    BY DEF Init, OutNow, RentedNow, NotBack
  <2>3. PapersFollowStatus /\ OutIsRented /\ RentedIsActive /\ FormsAreFresh
    BY <2>2 DEF Init, PapersFollowStatus, OutIsRented, RentedIsActive, FormsAreFresh, Idle
  <2>4. RentedOncePerDelivery
    BY <2>2 DEF RentedOncePerDelivery, RentedNow
  <2>. QED
    BY <2>1, <2>3, <2>4 DEF HandoversInv
<1>. QED
  BY <1>1, CarefulStep, PTL DEF CarefulSpec

(* With the three habits of CarefulSpec, every rental that is out has a car of its
   own, and that car shows as rented. *)
THEOREM WhatIsOutIsRented == CarefulSpec => []OutIsRented
<1>1. HandoversInv => OutIsRented
  BY DEF HandoversInv
<1>. QED
  BY <1>1, CarefulInv, PTL

(* With the same habits, a car shows as rented for exactly one delivery that has no
   return yet, rentals cancelled on the road included. *)
THEOREM OneRentedCarPerDelivery == CarefulSpec => []RentedOncePerDelivery
<1>1. HandoversInv => RentedOncePerDelivery
  BY DEF HandoversInv
<1>. QED
  BY <1>1, CarefulInv, PTL

(* With the same habits, nothing but the check-out of its reservation takes "rented"
   from a car. *)
THEOREM RentedUntilItsReturn == CarefulSpec => RentedUntilReturned
<1>1. [Kept]_vars <=> [\A v \in Vehicle :
          shape[v] = "rented" /\ shape'[v] # "rented" =>
              \E r \in Reservation : /\ returned[r] = NoVehicle /\ returned'[r] # NoVehicle
                                     /\ car[r] = v]_vars
  BY DEF Kept
<1>. QED
  BY <1>1, CarefulInv, CarefulStep, PTL DEF CarefulSpec, RentedUntilReturned

-----------------------------------------------------------------------------
(* Fines *)

Fine == INSTANCE Fines

Form == [vehicle : Int, offense_at : Int, notified_on : Nat \cup {Fine!Null},
         identify_by : Nat \cup {Fine!Null}]
FineShape == [vehicle : Int, offense_at : Int, notified_on : Nat \cup {Fine!Null},
              identify_by : Nat \cup {Fine!Null}, status : Fine!FineStatus,
              reservation : Int, driver : Int, invoice : Int]

\* What a book of reservations is, as far as a fine looks at it.
IsBook(book) ==
    IsFiniteSet(book) /\ \A r \in book : /\ r.id \in Int /\ r.customer \in Int
                                         /\ Fine!Since(r) \in Int

\* A fine reported or found has a driver, one that was invoiced is over, and one that was
\* notified has a deadline.
FineIsRight(fine) ==
    /\ fine \in FineShape
    /\ fine.status \in {"matched", "identified"} => fine.driver # Fine!Null
    /\ fine.status = "charged" => fine.invoice # Fine!Null
    /\ fine.invoice # Fine!Null => fine.status \in {"charged", "closed"}
    /\ fine.notified_on # Fine!Null => fine.identify_by # Fine!Null

\* The deadline is filled in when a fine is kept.
LEMMA DeadlinesAreFilledIn ==
    ASSUME NEW fine \in FineShape
    PROVE  LET kept == Fine!WithDeadline(fine)
           IN /\ kept \in FineShape
              /\ kept.status = fine.status /\ kept.driver = fine.driver /\ kept.invoice = fine.invoice
              /\ kept.reservation = fine.reservation
              /\ kept.notified_on # Fine!Null => kept.identify_by # Fine!Null
BY DEF FineShape, Fine!WithDeadline, Fine!Null, Fine!DaysToIdentify

\* Who is found, or nobody.
LEMMA AssignmentsAreRight ==
    ASSUME NEW fine, FineIsRight(fine), fine.status \notin {"charged", "closed"},
           NEW book, IsBook(book), NEW left \in Fine!Assigned(fine, book)
    PROVE  FineIsRight(left)
<1>1. fine \in FineShape /\ fine.invoice = Fine!Null
    BY DEF FineIsRight
<1>2. ASSUME NEW id \in Int PROVE FineIsRight(Fine!Unassigned(fine, id))
    BY <1>1 DEF FineIsRight, FineShape, Fine!Unassigned, Fine!FineStatus, Fine!Unidentified, Fine!Null
<1>3. ASSUME NEW r \in book PROVE FineIsRight(Fine!AssignTo(fine, r))
    <2>1. r.id \in Int /\ r.customer \in Int
        BY DEF IsBook
    <2>2. CASE r.customer = Fine!Null
        BY <1>2, <2>1, <2>2 DEF Fine!AssignTo
    <2>3. CASE r.customer # Fine!Null
        BY <1>1, <2>1, <2>3 DEF FineIsRight, FineShape, Fine!AssignTo, Fine!FineStatus, Fine!Unidentified
    <2> QED BY <2>2, <2>3
<1>4. Fine!FindReservation(book, fine.vehicle, fine.offense_at) \subseteq book
    BY DEF Fine!FindReservation, Fine!HadCar
<1>5. Fine!Null \in Int
    BY DEF Fine!Null
<1> QED BY <1>2, <1>3, <1>4, <1>5 DEF Fine!Assigned

\* Every fine is registered right.
LEMMA RegistersRight ==
    ASSUME NEW form \in Form, NEW book, IsBook(book), NEW fine \in Fine!Registered(form, book)
    PROVE  FineIsRight(fine)
<1>1. Fine!Blank(form) \in FineShape
    BY DEF Form, FineShape, Fine!Blank, Fine!Null, Fine!FineStatus, Fine!Unidentified
<1>2. Fine!Blank(form).status = "received" /\ Fine!Blank(form).invoice = Fine!Null
    BY DEF Fine!Blank
<1>3. FineIsRight(Fine!WithDeadline(Fine!Blank(form)))
    BY <1>1, <1>2, DeadlinesAreFilledIn DEF FineIsRight
<1>4. Fine!WithDeadline(Fine!Blank(form)).status = "received"
    BY <1>1, <1>2, DeadlinesAreFilledIn
<1> QED BY <1>3, <1>4, AssignmentsAreRight DEF Fine!Registered

\* Every step leaves a fine right, and who pays an invoiced one is not changed any more.
LEMMA StepsAreRight ==
    ASSUME NEW fine, FineIsRight(fine), NEW book, IsBook(book), NEW forms \in SUBSET Form,
           NEW invoices \in SUBSET (Int \ {Fine!Null}),
           NEW left \in Fine!Next(fine, book, forms, invoices)
    PROVE  /\ FineIsRight(left)
           /\ fine.invoice # Fine!Null =>
                 /\ left.invoice # Fine!Null
                 /\ left.driver = fine.driver /\ left.reservation = fine.reservation
<1>1. CASE left \in Fine!Rematched(fine, book)
    <2>1. fine.status \notin {"charged", "closed"} /\ left \in Fine!Assigned(fine, book)
        BY <1>1 DEF Fine!Rematched
    <2> QED BY <2>1, AssignmentsAreRight DEF FineIsRight
<1>2. CASE left \in Fine!Identified(fine)
    BY <1>2 DEF Fine!Identified, FineIsRight, FineShape, Fine!FineStatus
<1>3. CASE left = Fine!Closed(fine)
    BY <1>3 DEF Fine!Closed, FineIsRight, FineShape, Fine!FineStatus
<1>4. CASE \E f \in forms : left = Fine!Edited(fine, f)
    <2>1. PICK f \in forms : left = Fine!Edited(fine, f)
        BY <1>4
    <2> DEFINE typed == [fine EXCEPT !.vehicle = f.vehicle, !.offense_at = f.offense_at,
                                     !.notified_on = f.notified_on,
                                     !.identify_by = f.identify_by]
    <2>2. f \in Form
        OBVIOUS
    <2>3. /\ typed \in FineShape /\ typed.status = fine.status /\ typed.driver = fine.driver
          /\ typed.invoice = fine.invoice /\ typed.reservation = fine.reservation
        BY <2>2 DEF FineIsRight, FineShape, Form
    <2>4. left = Fine!WithDeadline(typed)
        BY <2>1 DEF Fine!Edited
    <2> HIDE DEF typed
    <2> QED BY <2>3, <2>4, DeadlinesAreFilledIn DEF FineIsRight
<1>5. CASE \E i \in invoices : left = Fine!Charged(fine, i)
    BY <1>5 DEF Fine!Charged, FineIsRight, FineShape, Fine!FineStatus
<1> QED BY <1>1, <1>2, <1>3, <1>4, <1>5 DEF Fine!Next

\* The life of a fine: it is registered, and then somebody takes a step, any step, with the
\* reservations as they are by then.
Life(fine, n) ==
    /\ \E form \in Form : \E book : IsBook(book) /\ fine[0] \in Fine!Registered(form, book)
    /\ \A k \in 1..n :
          \E book : /\ IsBook(book)
                    /\ fine[k] \in Fine!Next(fine[k - 1], book, Form, Int \ {Fine!Null})

\* What holds first, and after each step if it did before, holds all along.
LEMMA StepByStep ==
    ASSUME NEW m \in Nat, NEW n \in Nat, NEW holds, holds[m] = TRUE,
           \A k \in (m + 1)..n : holds[k - 1] = TRUE => holds[k] = TRUE
    PROVE  \A k \in m..n : holds[k] = TRUE
<1> DEFINE bad == {k \in m..n : holds[k] # TRUE}
<1> SUFFICES ASSUME bad # {} PROVE FALSE
    OBVIOUS
<1> DEFINE R == OpToRel(<, Nat)
<1>1. IsWellFoundedOn(R, Nat) /\ bad \in SUBSET Nat
    <2>1. \A k \in m..n : k \in Nat
        OBVIOUS
    <2>2. bad \subseteq Nat
        BY <2>1
    <2> HIDE DEF bad
    <2> QED BY <2>2, NatLessThanWellFounded
<1>2. \A x \in Nat, y \in Nat : y < x => <<y, x>> \in R
    BY DEF OpToRel
<1> HIDE DEF R
<1>3. PICK k \in bad : \A j \in bad : ~ (<<j, k>> \in R)
    BY <1>1, WFMin
<1>4. k # m /\ k \in m..n
    OBVIOUS
<1>5. k - 1 \in m..n /\ k \in (m + 1)..n
    BY <1>4
<1>6. k - 1 \notin bad
    <2>1. k - 1 \in Nat /\ k \in Nat /\ k - 1 < k
        BY <1>4, <1>5
    <2>2. <<k - 1, k>> \in R
        BY <1>2, <2>1
    <2> QED BY <1>3, <2>2
<1> QED BY <1>5, <1>6

\* Whatever the order of the steps and however many there are, a fine that is reported or found
\* has a driver, one that is notified has a deadline, and one that was invoiced is over: it is
\* not called late or offered to invoice again, and who pays for it does not change, not
\* even after its form is edited (register_fine, rematch, identify_driver, attach_invoice,
\* close_fine).
THEOREM InvoicedFinesStayOver ==
    ASSUME NEW n \in Nat, NEW fine, Life(fine, n)
    PROVE  \A k \in 0..n :
              /\ FineIsRight(fine[k])
              /\ fine[k].invoice # Fine!Null =>
                    /\ ~Fine!OffersInvoice(fine[k])
                    /\ \A today \in Int : ~Fine!Overdue(fine[k], today)
                    /\ \A m \in k..n : /\ fine[m].invoice # Fine!Null
                                       /\ fine[m].driver = fine[k].driver
                                       /\ fine[m].reservation = fine[k].reservation
<1> DEFINE right == [k \in 0..n |-> FineIsRight(fine[k])]
<1>1. \A k \in 0..n : right[k] = FineIsRight(fine[k])
    OBVIOUS
<1>2. FineIsRight(fine[0])
    BY RegistersRight DEF Life
<1>3. ASSUME NEW k \in 1..n, FineIsRight(fine[k - 1])
      PROVE  /\ FineIsRight(fine[k])
             /\ fine[k - 1].invoice # Fine!Null =>
                   /\ fine[k].invoice # Fine!Null /\ fine[k].driver = fine[k - 1].driver
                   /\ fine[k].reservation = fine[k - 1].reservation
    BY <1>3, StepsAreRight DEF Life
<1>4. ASSUME NEW k \in 0..n PROVE FineIsRight(fine[k])
    <2>1. right[0] = TRUE
        BY <1>1, <1>2
    <2>2. \A j \in (0 + 1)..n : right[j - 1] = TRUE => right[j] = TRUE
        BY <1>1, <1>3
    <2> HIDE DEF right
    <2>3. \A j \in 0..n : right[j] = TRUE
        BY <2>1, <2>2, StepByStep
    <2> QED BY <1>1, <2>3
<1>5. ASSUME NEW k \in 0..n, fine[k].invoice # Fine!Null
      PROVE  ~Fine!OffersInvoice(fine[k]) /\ \A today \in Int : ~Fine!Overdue(fine[k], today)
    BY <1>4, <1>5 DEF FineIsRight, Fine!OffersInvoice, Fine!Overdue, Fine!Unidentified
<1>6. ASSUME NEW k \in 0..n, fine[k].invoice # Fine!Null, NEW m \in k..n
      PROVE  /\ fine[m].invoice # Fine!Null /\ fine[m].driver = fine[k].driver
             /\ fine[m].reservation = fine[k].reservation
    <2> DEFINE Same(j) == /\ fine[j].invoice # Fine!Null /\ fine[j].driver = fine[k].driver
                          /\ fine[j].reservation = fine[k].reservation
               same == [j \in 0..n |-> Same(j)]
    <2>1. \A j \in 0..n : same[j] = Same(j)
        OBVIOUS
    <2>2. same[k] = TRUE
        BY <1>6
    <2>3. ASSUME NEW j \in (k + 1)..n, Same(j - 1) PROVE Same(j)
        <3>1. j \in 1..n /\ j - 1 \in 0..n
            OBVIOUS
        <3> QED BY <1>3, <1>4, <2>3, <3>1
    <2>4. \A j \in (k + 1)..n : same[j - 1] = TRUE => same[j] = TRUE
        <3> SUFFICES ASSUME NEW j \in (k + 1)..n, same[j - 1] = TRUE PROVE same[j] = TRUE
            OBVIOUS
        <3>1. j \in 0..n /\ j - 1 \in 0..n
            OBVIOUS
        <3> HIDE DEF Same, same
        <3> QED BY <2>1, <2>3, <3>1
    <2>5. k \in Nat
        OBVIOUS
    <2> HIDE DEF same, Same
    <2>6. \A j \in k..n : same[j] = TRUE
        BY <2>2, <2>4, <2>5, StepByStep
    <2>7. Same(m)
        BY <2>1, <2>6
    <2> QED BY <2>7 DEF Same
<1> QED BY <1>4, <1>5, <1>6

\* Of some rentals, one left last.
LEMMA LastToLeave ==
    ASSUME NEW had, IsFiniteSet(had), had # {}, \A r \in had : Fine!Since(r) \in Int
    PROVE  \E r \in had : \A s \in had : Fine!Since(s) <= Fine!Since(r)
<1> DEFINE Later(r) == {s \in had : Fine!Since(r) < Fine!Since(s)}
           ranks == {Cardinality(Later(r)) : r \in had}
           R == OpToRel(<, Nat)
<1>1. \A r \in had : IsFiniteSet(Later(r)) /\ Cardinality(Later(r)) \in Nat
    <2> SUFFICES ASSUME NEW r \in had PROVE IsFiniteSet(Later(r)) /\ Cardinality(Later(r)) \in Nat
        OBVIOUS
    <2>1. Later(r) \in SUBSET had
        OBVIOUS
    <2> QED BY <2>1, FS_Subset, FS_CardinalityType
<1>2. \A x \in Nat, y \in Nat : y < x => <<y, x>> \in R
    BY DEF OpToRel
<1>3. IsWellFoundedOn(R, Nat)
    BY NatLessThanWellFounded
<1>4. ranks \subseteq Nat /\ ranks # {}
    BY <1>1
<1> HIDE DEF R, ranks
<1>5. PICK x \in ranks : \A y \in ranks : ~ (<<y, x>> \in R)
    BY <1>3, <1>4, WFMin
<1>6. PICK r \in had : x = Cardinality(Later(r))
    BY DEF ranks
<1>7. ASSUME NEW s \in had, Fine!Since(r) < Fine!Since(s) PROVE FALSE
    <2>1. Later(s) \in SUBSET Later(r)
        BY <1>7
    <2>2. s \in Later(r) /\ s \notin Later(s)
        BY <1>7
    <2> HIDE DEF Later
    <2>3. Cardinality(Later(s)) <= Cardinality(Later(r)) /\ Cardinality(Later(s)) # Cardinality(Later(r))
        BY <1>1, <2>1, <2>2, FS_Subset
    <2>4. Cardinality(Later(s)) \in ranks
        BY DEF ranks
    <2>5. Cardinality(Later(s)) \in Nat /\ Cardinality(Later(r)) \in Nat
        BY <1>1
    <2>6. Cardinality(Later(s)) < x /\ x \in Nat
        BY <1>6, <2>3, <2>5
    <2>7. <<Cardinality(Later(s)), x>> \in R
        BY <1>2, <2>5, <2>6
    <2> QED BY <1>5, <2>4, <2>7
<1> QED BY <1>7

\* Two rentals of one car are never out at the same time.
OneAtATime(book) ==
    \A r, s \in book :
        r # s /\ r.vehicle = s.vehicle /\ {r.status, s.status} \subseteq Fine!HasLeft =>
            Fine!Until(r) < Fine!Since(s) \/ Fine!Until(s) < Fine!Since(r)

\* If a rental had the car, one is found, that had it; and no other, while a car is with one
\* client at a time (find_reservation).
THEOREM WhoHadTheCarIsFound ==
    ASSUME NEW book, IsBook(book), NEW plate, NEW at \in Int
    PROVE  LET had == Fine!HadCar(book, plate, at)
               found == Fine!FindReservation(book, plate, at)
           IN /\ found \subseteq had /\ (had # {} => found # {})
              /\ OneAtATime(book) /\ (\A r \in book : Fine!Until(r) \in Int) =>
                    \A r, s \in found : r = s
<1> DEFINE had == Fine!HadCar(book, plate, at)
           found == Fine!FindReservation(book, plate, at)
<1>1. had \in SUBSET book /\ found \subseteq had
    BY DEF Fine!HadCar, Fine!FindReservation
<1>2. ASSUME had # {} PROVE found # {}
    <2>1. IsFiniteSet(had) /\ \A r \in had : Fine!Since(r) \in Int
        BY <1>1, FS_Subset DEF IsBook
    <2> HIDE DEF had
    <2>2. \E r \in had : \A s \in had : Fine!Since(s) <= Fine!Since(r)
        BY <1>2, <2>1, LastToLeave
    <2> QED BY <2>2 DEF Fine!FindReservation, had
<1>3. ASSUME OneAtATime(book), \A r \in book : Fine!Until(r) \in Int, NEW r \in found, NEW s \in found
      PROVE  r = s
    <2>1. /\ r \in book /\ r.vehicle = plate /\ r.status \in Fine!HasLeft
          /\ Fine!Since(r) <= at /\ at <= Fine!Until(r)
        BY DEF Fine!HadCar, Fine!FindReservation
    <2>2. /\ s \in book /\ s.vehicle = plate /\ s.status \in Fine!HasLeft
          /\ Fine!Since(s) <= at /\ at <= Fine!Until(s)
        BY DEF Fine!HadCar, Fine!FindReservation
    <2>3. Fine!Since(r) \in Int /\ Fine!Since(s) \in Int /\ Fine!Until(r) \in Int /\ Fine!Until(s) \in Int
        BY <1>3, <2>1, <2>2 DEF IsBook
    <2>4. r # s => Fine!Until(r) < Fine!Since(s) \/ Fine!Until(s) < Fine!Since(r)
        BY <1>3, <2>1, <2>2 DEF OneAtATime
    <2> QED BY <2>1, <2>2, <2>3, <2>4
<1> QED BY <1>1, <1>2, <1>3

=============================================================================
