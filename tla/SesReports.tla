------------------------------ MODULE SesReports ------------------------------
(***************************************************************************)
(* The reports of the rentals to SES.Hospedajes (apps/compliance): they    *)
(* are prepared when the car is handed over, and sent to the Ministry by   *)
(* a task that retries, by a sweep every half hour and by hand.            *)
(*                                                                         *)
(* `send` keeps its transaction, and the lock of the row, open during the  *)
(* POST; `prepare` waits for that lock.  The Ministry is external: it      *)
(* takes or rejects what it is sent, and its answer may be lost.           *)
(***************************************************************************)
EXTENDS Celery

CONSTANTS
    Rental,       \* a set of numbers: the reservations whose car was handed over
    Payload,      \* what a reservation may say when its report is prepared
    NoPayload,
    MaxEdits,     \* bound: times what a reservation says is changed
    MaxFaults     \* bound: lost workers, connections and answers, failures of the database

(* What build_payload gathers of a reservation.  A person has the fields of `has`. *)
ContractFields == {"start", "office", "payment"}
VehicleFields == {"plate", "brand", "model", "colour"}
PersonFields == {"number", "birth", "licence", "nationality", "sex", "address", "city",
                 "country", "support", "second surname", "phone", "mail"}
Person == [role: {"holder", "driver"}, document: {"dni", "nie", "passport", "other"},
           spanish: BOOLEAN, has: SUBSET PersonFields]
PayloadShape == [code: BOOLEAN, contract: SUBSET ContractFields,
                 vehicle: SUBSET VehicleFields, people: SUBSET Person]

ASSUME SesAssumption ==
    /\ Rental \subseteq Nat
    /\ \A p \in Payload : p \in PayloadShape
    /\ NoPayload \notin Payload
    /\ DOMAIN MaxRetries = {"send", "sweep"}
    /\ MaxEdits \in Nat /\ MaxFaults \in Nat
    /\ IsFiniteSet(Rental) /\ MaxTasks >= MaxOpen + 2 * Cardinality(Rental)

VARIABLES
    content,    \* rental -> what its reservation says now
    report,     \* rental -> its SesSubmission
    sending,    \* rental -> the transaction of `send` that holds its row
    ministry,   \* external: rental -> what the Ministry has taken
    enabled,    \* SES_ENABLED
    edits, faults

vars == <<tasks, content, report, sending, ministry, enabled, edits, faults>>

SesStatus == {"incomplete", "ready", "sent", "rejected", "error"}    \* ACCEPTED is never written
SesSubmission == [status: SesStatus \cup {"none"}, xml: Payload \cup {NoPayload},
                  simulated: BOOLEAN]
\* `times` and `excuses` are history: the times it took a report of the rental, and what
\* may explain more than one.
Ministry == [told: SUBSET Payload, times: Nat, excuses: Nat]

NoOne == [by |-> "none", task |-> 0, answer |-> "none"]
Answers == {"taken", "rejected", "broken"}
Transaction == [by: {"clerk", "task"}, task: 0..MaxTasks, answer: Answers \cup {"none"}]

TypeOK ==
    /\ WellFormed(tasks, {"promised", "sending", "broken", "sweeping"})
    /\ content \in [Rental -> Payload]
    /\ report \in [Rental -> SesSubmission]
    /\ sending \in [Rental -> Transaction \cup {NoOne}]
    /\ ministry \in [Rental -> Ministry]
    /\ enabled \in BOOLEAN /\ edits \in 0..MaxEdits /\ faults \in 0..MaxFaults

Init ==
    /\ tasks = {}
    /\ content \in [Rental -> Payload]
    /\ report = [r \in Rental |-> [status |-> "none", xml |-> NoPayload, simulated |-> FALSE]]
    /\ sending = [r \in Rental |-> NoOne]
    /\ ministry = [r \in Rental |-> [told |-> {}, times |-> 0, excuses |-> 0]]
    /\ enabled \in BOOLEAN
    /\ edits = 0 /\ faults = 0

Fault == faults < MaxFaults /\ faults' = faults + 1

-----------------------------------------------------------------------------
(* missing_fields *)

Required(p) ==
    {"number", "birth", "licence"} \cup
    IF p.role = "driver" THEN {}
    ELSE {"document", "nationality", "sex", "address", "city", "country"}
         \cup (IF p.document \in {"dni", "nie"} THEN {"support"} ELSE {})
         \cup (IF p.spanish THEN {"second surname"} ELSE {})

PersonMissing(p) ==
    LET has == p.has \cup (IF p.document = "other" THEN {} ELSE {"document"})
    IN (Required(p) \ has) \cup
       (IF p.role = "holder" /\ p.has \cap {"phone", "mail"} = {} THEN {"contact"} ELSE {})

Missing(payload) ==
    (IF payload.code THEN {} ELSE {"code"})
    \cup (ContractFields \ payload.contract)
    \cup (VehicleFields \ payload.vehicle)
    \cup (IF \E p \in payload.people : p.role = "holder" THEN {} ELSE {"holder"})
    \cup UNION {PersonMissing(p) : p \in payload.people}

Complete(payload) == Missing(payload) = {}

-----------------------------------------------------------------------------
(* prepare *)

Sent(r) == report[r].status = "sent"

\* Mutant: the row is not taken FOR UPDATE.
TakenForGranted(r) == TRUE
RowFree(r) == sending[r] = NoOne

\* The row prepare leaves; that of a report already sent is left as it is.
Prepared(r) ==
    IF Sent(r) THEN report[r]
    ELSE [report[r] EXCEPT !.xml = content[r],
                           !.status = IF Complete(content[r]) THEN "ready" ELSE "incomplete"]

\* prepare_and_queue, in the transaction of the check-in.
CheckIn(r) ==
    /\ report[r].status = "none"
    /\ report' = [report EXCEPT ![r] = Prepared(r)]
    /\ tasks' = IF report'[r].status = "ready" THEN With(tasks, "send", r, "promised") ELSE tasks
    /\ UNCHANGED <<content, sending, ministry, enabled, edits, faults>>

\* on_commit; the process may be lost before it.
Enqueue(t) ==
    /\ t.at = "promised"
    /\ \/ tasks' = Step(tasks, t, "queue", {}) /\ UNCHANGED faults
       \/ tasks' = Ended(tasks, t) /\ Fault
    /\ UNCHANGED <<content, report, sending, ministry, enabled, edits>>

\* SesActionView, "revalidar"
Revalidate(r) ==
    /\ report[r].status # "none" /\ RowFree(r)
    /\ report' = [report EXCEPT ![r] = Prepared(r)]
    /\ UNCHANGED <<tasks, content, sending, ministry, enabled, edits, faults>>

Change(r, payload) ==
    /\ edits < MaxEdits
    /\ edits' = edits + 1
    /\ payload \in Payload \ {content[r]}
    /\ content' = [content EXCEPT ![r] = payload]
    /\ UNCHANGED <<tasks, report, sending, ministry, enabled, faults>>

\* What the report says of a driver: nothing but a number, a birth date and a licence is
\* ever asked of one, and only the licence must be there.
DriverFields == {"number", "birth", "licence"}
Drivers(payload) == {p \in payload.people : p.role = "driver"}
Licensed(driver) == "licence" \in driver.has
FromForm(driver) == driver.has \subseteq DriverFields /\ Licensed(driver)

\* add_driver and remove_driver, at any moment until the invoice: a report that was
\* complete may have to wait for a birth date again.
AddDriver(r) ==
    \E payload \in Payload : \E d \in Drivers(payload) \ Drivers(content[r]) :
        /\ FromForm(d)
        /\ payload = [content[r] EXCEPT !.people = @ \cup {d}]
        /\ Change(r, payload)

RemoveDriver(r) ==
    \E d \in Drivers(content[r]) : Change(r, [content[r] EXCEPT !.people = @ \ {d}])

\* Somebody completes or changes the customer, the car or the payments.
Edit(r) ==
    \E payload \in Payload : Drivers(payload) = Drivers(content[r]) /\ Change(r, payload)

\* The real service is configured, and not taken back.
TurnOn ==
    /\ ~enabled /\ enabled' = TRUE
    /\ UNCHANGED <<tasks, content, report, sending, ministry, edits, faults>>

-----------------------------------------------------------------------------
(* send *)

\* With the lock taken: what is sent goes out, with the transaction open.
Sendable(r) == ~Sent(r) /\ report[r].status # "incomplete"
OpenPost(r, by, task) ==
    /\ RowFree(r) /\ Sendable(r) /\ enabled
    /\ sending' = [sending EXCEPT ![r] = [by |-> by, task |-> task, answer |-> "none"]]

\* Without real sending, nothing leaves and the report is READY and simulated.
Simulate(r) ==
    /\ RowFree(r) /\ Sendable(r) /\ ~enabled
    /\ report' = [report EXCEPT ![r].status = "ready", ![r].simulated = TRUE]

\* SesActionView, "enviar"
ClerkSends(r) ==
    /\ report[r].status # "none"
    /\ \/ OpenPost(r, "clerk", 0) /\ UNCHANGED report
       \/ Simulate(r) /\ UNCHANGED sending
    /\ UNCHANGED <<tasks, content, ministry, enabled, edits, faults>>

\* send_ses_submission
TaskSends(t) ==
    /\ t.name = "send" /\ t.at = "queue" /\ RowFree(t.obj)
    /\ \/ /\ OpenPost(t.obj, "task", t.id)
          /\ tasks' = Step(tasks, t, "sending", {}) /\ UNCHANGED report
       \/ Simulate(t.obj) /\ tasks' = Ended(tasks, t) /\ UNCHANGED sending
       \* already sent, or something is missing again: the task ends, or fails for good
       \/ ~Sendable(t.obj) /\ tasks' = Ended(tasks, t) /\ UNCHANGED <<report, sending>>
    /\ UNCHANGED <<content, ministry, enabled, edits, faults>>

Take(r, excuses) ==
    ministry' = [ministry EXCEPT ![r] = [told |-> @.told \cup {report[r].xml},
                                         times |-> @.times + 1, excuses |-> @.excuses + excuses]]

\* The POST; without an answer nobody knows whether the Ministry took it.
Answer(r) ==
    /\ sending[r] # NoOne /\ sending[r].answer = "none"
    /\ \E a \in Answers :
          /\ sending' = [sending EXCEPT ![r].answer = a]
          /\ \/ a = "taken" /\ Take(r, 0) /\ UNCHANGED faults
             \/ a = "rejected" /\ UNCHANGED <<ministry, faults>>
             \/ a = "broken" /\ Fault /\ (UNCHANGED ministry \/ Take(r, 1))
    /\ UNCHANGED <<tasks, content, report, enabled, edits>>

TaskOf(r) == CHOOSE t \in tasks : t.name = "send" /\ t.id = sending[r].task

\* Mutant: an answer that was not heard is taken for a yes.
SavedWhateverCame(row, answer) ==
    IF answer = "rejected" THEN [row EXCEPT !.status = "rejected", !.simulated = FALSE]
    ELSE [row EXCEPT !.status = "sent", !.simulated = FALSE]
Saved(row, answer) ==
    CASE answer = "taken" -> [row EXCEPT !.status = "sent", !.simulated = FALSE]
      [] answer = "rejected" -> [row EXCEPT !.status = "rejected", !.simulated = FALSE]
      [] answer = "broken" -> [row EXCEPT !.status = "error"]

\* The row is saved, the audit log written and the transaction committed.  The row is
\* that of the lock: nobody has changed it since.
CommitSend(r) ==
    /\ sending[r].answer \in Answers
    /\ report' = [report EXCEPT ![r] = Saved(@, sending[r].answer)]
    /\ sending' = [sending EXCEPT ![r] = NoOne]
    /\ tasks' = IF sending[r].by = "clerk" THEN tasks
                ELSE IF sending[r].answer = "broken" THEN Step(tasks, TaskOf(r), "broken", {})
                ELSE Ended(tasks, TaskOf(r))
    /\ UNCHANGED <<content, ministry, enabled, edits, faults>>

\* The transaction is undone, before or after the POST: a lost worker's message goes
\* back to the queue, and an exception ends the task.
SendBreaks(r) ==
    /\ sending[r] # NoOne /\ Fault
    /\ sending' = [sending EXCEPT ![r] = NoOne]
    /\ ministry' = [ministry EXCEPT ![r].excuses =
                        IF sending[r].answer = "taken" THEN @ + 1 ELSE @]
    /\ IF sending[r].by = "task"
       THEN \/ tasks' = Redelivered(tasks, TaskOf(r))
            \/ tasks' = Ended(tasks, TaskOf(r))
       ELSE UNCHANGED tasks
    /\ UNCHANGED <<content, report, enabled, edits>>

\* self.retry(), of the status that `send` returned
AfterSend(t) ==
    /\ t.at = "broken"
    /\ tasks' = IF CanRetry(t) THEN Retried(tasks, t) ELSE Ended(tasks, t)
    /\ UNCHANGED <<content, report, sending, ministry, enabled, edits, faults>>

-----------------------------------------------------------------------------
(* retry_pending_ses *)

\* Bound: one sweep at a time.  Several may wait for a worker; each does the same to a row,
\* behind its lock and after another look.
Beat ==
    /\ ~\E t \in tasks : t.name = "sweep"
    /\ Room(tasks)
    /\ tasks' = With(tasks, "sweep", 0, "queue")
    /\ UNCHANGED <<content, report, sending, ministry, enabled, edits, faults>>

\* The list is read once; what the Ministry rejected is not in it.
Pending == {r \in Rental : report[r].status \in {"incomplete", "error", "ready"}}

StartSweep(t) ==
    /\ t.name = "sweep" /\ t.at = "queue"
    /\ tasks' = IF Pending = {} THEN Ended(tasks, t) ELSE Step(tasks, t, "sweeping", Pending)
    /\ UNCHANGED <<content, report, sending, ministry, enabled, edits, faults>>

\* Mutant: only what was simulated is sent.
SweepReady(row) == row.status = "ready" /\ row.simulated
SweepSends(row) == row.status = "ready" /\ ~row.simulated

SweepOne(t, r) ==
    LET left == [t EXCEPT !.seen = @ \ {r}]
        rest == Ended(tasks, t) \cup (IF left.seen = {} THEN {} ELSE {left})
    IN /\ t.at = "sweeping" /\ r \in t.seen /\ RowFree(r)
       /\ report' = [report EXCEPT ![r] = Prepared(r)]
       /\ \/ tasks' = (IF SweepSends(report'[r]) THEN With(rest, "send", r, "queue") ELSE rest)
             /\ UNCHANGED faults
          \/ tasks' = Ended(tasks, t) /\ Fault    \* the broker fails, and the sweep with it
       /\ UNCHANGED <<content, sending, ministry, enabled, edits>>

Sweep(t) == \E r \in t.seen : SweepOne(t, r)

-----------------------------------------------------------------------------
Work(t) == Enqueue(t) \/ TaskSends(t) \/ AfterSend(t) \/ StartSweep(t) \/ Sweep(t)
Post(r) == Answer(r) \/ CommitSend(r)

Next ==
    \/ \E r \in Rental : \/ CheckIn(r) \/ Revalidate(r) \/ ClerkSends(r)
                         \/ AddDriver(r) \/ RemoveDriver(r) \/ Edit(r)
                         \/ Post(r) \/ SendBreaks(r)
    \/ \E t \in tasks : Work(t)
    \/ Beat \/ TurnOn

Spec == Init /\ [][Next]_vars

\* Workers and requests finish what they start, and beat keeps its timetable.  The row is
\* taken by one transaction after another, and none of them waits for it for ever.
Fairness ==
    /\ \A i \in 1..MaxTasks : SF_vars(\E t \in tasks : t.name = "send" /\ t.id = i /\ Work(t))
    /\ SF_vars(\E t \in tasks : t.name = "sweep" /\ Work(t))
    /\ \A r \in Rental : WF_vars(Post(r))
    /\ WF_vars(Beat)

FairSpec == Spec /\ Fairness

-----------------------------------------------------------------------------
(* Properties *)

\* The report a rental keeps as sent is, and stays, one the Ministry took, and nothing
\* incomplete is ever sent to it: prepare does not touch a report that was sent, nor one
\* that is on its way.
Proof == INSTANCE Declaration WITH
    told <- [r \in Rental |-> ministry[r].told],
    proof <- [r \in Rental |-> IF Sent(r) THEN report[r].xml ELSE NoPayload],
    NoProof <- NoPayload
KeepsProof == Proof!Spec

\* A rental is declared twice only if an answer was lost or a transaction was undone
\* after the Ministry had taken the report: two tasks, a clerk and the sweep at once
\* never send it twice.
DeclaredOnce == \A r \in Rental : ministry[r].times <= 1 + ministry[r].excuses

\* Whatever is lost, a report whose reservation ends up complete reaches the Ministry
\* (or was simulated once, or rejected: then it waits for a clerk).
EveryReportArrives ==
    \A r \in Rental :
        <>[]Complete(content[r]) =>
            ((report[r].status # "none")
                 ~> (Sent(r) \/ report[r].simulated \/ report[r].status = "rejected"))

=============================================================================
