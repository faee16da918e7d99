--------------------------------- MODULE Mail ---------------------------------
(***************************************************************************)
(* What reaches the customer by e-mail (apps/notifications) and the        *)
(* contracts that are printed behind the web (apps/contracts), as the      *)
(* tasks of one queue.                                                     *)
(*                                                                         *)
(* No task runs in a transaction: each step is a commit of its own, and a  *)
(* worker may be lost between any two.  The transactions of the web that   *)
(* ask for an e-mail or a contract are one step here, and the on_commit    *)
(* that puts the task in the queue is another.  Texts, languages, subjects *)
(* and what a contract prints are left out.                                *)
(***************************************************************************)
EXTENDS Celery, Sequences

CONSTANTS
    Reservation,    \* a set of numbers
    NoAddress,      \* the reservations whose customer has no e-mail
    SwitchedOff,    \* the kinds that CompanySettings turns off
    MaxEmails, MaxContracts,    \* bounds
    MaxSweeps,      \* bound: sweeps alive at once
    MaxFaults,      \* bound: lost workers and answers, failures of the broker or the database
    MaxClicks       \* bound: times somebody asks for an e-mail again

ASSUME MailAssumption ==
    /\ Reservation \subseteq Nat /\ NoAddress \subseteq Reservation
    /\ DOMAIN MaxRetries = {"send", "build", "sweep"}
    /\ {MaxEmails, MaxContracts, MaxSweeps, MaxFaults, MaxClicks} \subseteq Nat
    /\ MaxSweeps <= MaxTasks
    /\ MaxTasks >= MaxOpen + MaxEmails + MaxClicks

VARIABLES
    email,      \* the rows of EmailLog, by id
    contract,   \* the rows of Contract, by id
    due,        \* the reservations that are confirmed and picked up within the hours
    overlaps,   \* history: the times a sweep listed a reservation that was on another's list
    faults, clicks

vars == <<tasks, email, contract, due, overlaps, faults, clicks>>

EmailKind == {"contract", "reminder", "confirmation"}    \* the last, for any other
EmailStatus == {"queued", "sent", "failed", "skipped"}
\* History: `handed`, the times the provider took it; `excuses`, what may explain more
\* than one; `lost`, nobody is left to send it; `bare`, it went without its contract.
EmailLog == [kind: EmailKind, res: Reservation, contract: Nat, status: EmailStatus,
             handed: Nat, excuses: Nat, lost: BOOLEAN, bare: BOOLEAN]

ContractStatus == {"pending", "ready", "failed"}
\* History: `again`, it was built once READY.
Contract == [res: Reservation, status: ContractStatus, again: BOOLEAN]

Steps == {"promised", "read", "render", "handed", "refused", "raised",
          "print", "printed", "mailing", "sweeping"}

TypeOK ==
    /\ WellFormed(tasks, Steps)
    /\ email \in Seq(EmailLog)
    /\ contract \in Seq(Contract)
    /\ due \subseteq Reservation /\ overlaps \in [Reservation -> Nat]
    /\ faults \in 0..MaxFaults /\ clicks \in 0..MaxClicks

Init ==
    /\ tasks = {}
    /\ email = << >> /\ contract = << >>
    /\ due = {} /\ overlaps = [r \in Reservation |-> 0]
    /\ faults = 0 /\ clicks = 0

Fault == faults < MaxFaults /\ faults' = faults + 1
Unseen == UNCHANGED <<due, overlaps, clicks>>    \* what no task writes

-----------------------------------------------------------------------------
(* The web *)

\* The row queue_email leaves.
Letter(r, kind, c) ==
    [kind |-> kind, res |-> r, contract |-> c,
     status |-> IF r \in NoAddress THEN "skipped" ELSE "queued",
     handed |-> 0, excuses |-> 0, lost |-> FALSE, bare |-> FALSE]

\* Some service queues an e-mail and its transaction commits.
QueueEmail(r) ==
    /\ "confirmation" \notin SwitchedOff
    /\ Len(email) < MaxEmails /\ Room(tasks)
    /\ email' = Append(email, Letter(r, "confirmation", 0))
    /\ tasks' = IF r \in NoAddress THEN tasks
                ELSE With(tasks, "send", Len(email'), "promised")
    /\ UNCHANGED <<contract, due, overlaps, faults, clicks>>

\* request_contract; that there are terms, a customer and no invoice is taken for granted.
RequestContract(r) ==
    /\ Len(contract) < MaxContracts /\ Room(tasks)
    /\ contract' = Append(contract, [res |-> r, status |-> "pending", again |-> FALSE])
    /\ tasks' = With(tasks, "build", Len(contract'), "promised")
    /\ UNCHANGED <<email, due, overlaps, faults, clicks>>

\* on_commit
Enqueue(t) ==
    /\ t.at = "promised"
    /\ tasks' = Step(tasks, t, "queue", {})
    /\ UNCHANGED <<email, contract, due, overlaps, faults, clicks>>

\* The row is there and its task never gets to the queue.
EnqueueFails(t) ==
    /\ t.at = "promised"
    /\ Fault
    /\ tasks' = Ended(tasks, t)
    /\ email' = IF t.name = "send" THEN [email EXCEPT ![t.obj].lost = TRUE] ELSE email
    /\ UNCHANGED <<contract, due, overlaps, clicks>>

\* EmailRetryView reads the row...
ClickRetry(e) ==
    /\ email[e].status = "failed"
    /\ clicks < MaxClicks
    /\ clicks' = clicks + 1
    /\ tasks' = With(tasks, "send", e, "read")
    /\ UNCHANGED <<email, contract, due, overlaps, faults>>

Sending(t, e) == t.name = "send" /\ t.obj = e /\ t.at # "read"

\* ...and writes it without another look.
Requeue(t) ==
    /\ t.at = "read"
    /\ tasks' = Step(tasks, t, "promised", {})
    /\ email' = [email EXCEPT ![t.obj].status = "queued",
                              ![t.obj].excuses =
                                  IF \/ email[t.obj].status # "failed"
                                     \/ \E s \in tasks : Sending(s, t.obj)
                                  THEN @ + 1 ELSE @]
    /\ UNCHANGED <<contract, due, overlaps, faults, clicks>>

Reminders(r) == {e \in DOMAIN email : email[e].kind = "reminder" /\ email[e].res = r}

\* Time passes, the reservation is confirmed, or cancelled (nothing looks at it any more
\* once it has been reminded).
DueChanges(r) ==
    /\ Reminders(r) = {}
    /\ due' = IF r \in due THEN due \ {r} ELSE due \cup {r}
    /\ UNCHANGED <<tasks, email, contract, overlaps, faults, clicks>>

-----------------------------------------------------------------------------
(* send_email_task *)

\* Mutant: the row is sent whatever its status.
SendAnything(e) == TRUE
Sendable(e) == email[e].status = "queued"

StartSend(t) ==
    /\ t.name = "send" /\ t.at = "queue"
    /\ tasks' = IF Sendable(t.obj) THEN Step(tasks, t, "render", {}) ELSE Ended(tasks, t)
    /\ Unseen /\ UNCHANGED <<email, contract, faults>>

\* render_email is outside the try: nothing is written.
RenderFails(t) ==
    /\ t.at = "render"
    /\ tasks' = Step(tasks, t, "raised", {})
    /\ Unseen /\ UNCHANGED <<email, contract, faults>>

\* _adjuntos: a contract that is not ready is silently left out.
Attached(e) == email[e].contract # 0 => contract[email[e].contract].status = "ready"

\* The provider takes the message; the answer may be lost.
Hand(t) ==
    /\ t.at = "render"
    /\ \/ /\ tasks' = Step(tasks, t, "handed", {})
          /\ email' = [email EXCEPT ![t.obj].handed = @ + 1,
                                    ![t.obj].bare = @ \/ ~Attached(t.obj)]
          /\ UNCHANGED faults
       \/ /\ tasks' = Step(tasks, t, "refused", {})
          /\ email' = [email EXCEPT ![t.obj].handed = @ + 1, ![t.obj].excuses = @ + 1,
                                    ![t.obj].bare = @ \/ ~Attached(t.obj)]
          /\ Fault
    /\ Unseen /\ UNCHANGED contract

Refuse(t) ==
    /\ t.at = "render"
    /\ tasks' = Step(tasks, t, "refused", {})
    /\ Unseen /\ UNCHANGED <<email, contract, faults>>

SaveFailed(t) ==
    /\ t.at = "refused"
    /\ tasks' = Step(tasks, t, "raised", {})
    /\ email' = [email EXCEPT ![t.obj].status = "failed"]
    /\ Unseen /\ UNCHANGED <<contract, faults>>

\* Another task, or somebody's click, is about the same row.
Rivals(t) == \E s \in tasks \ {t} : s.name = "send" /\ s.obj = t.obj

\* The row is saved, and the audit log after it; the worker may be lost before it
\* acknowledges the message.
SaveSent(t) ==
    /\ t.at = "handed"
    /\ \/ /\ tasks' = Ended(tasks, t)
          /\ email' = [email EXCEPT ![t.obj].status = "sent"]
          /\ UNCHANGED faults
       \/ /\ tasks' = Redelivered(tasks, t)
          /\ email' = [email EXCEPT ![t.obj].status = "sent",
                                    ![t.obj].excuses = IF Rivals(t) THEN @ + 1 ELSE @]
          /\ Fault
       \/ /\ tasks' = Step(tasks, t, "raised", {})
          /\ email' = [email EXCEPT ![t.obj].status = "sent", ![t.obj].excuses = @ + 1]
          /\ Fault
    /\ Unseen /\ UNCHANGED contract

\* Mutant: the row is put back before the retries are counted.
RaisedThenCounted(t) ==
    /\ t.name = "send" /\ t.at = "raised"
    /\ tasks' = IF CanRetry(t) THEN Retried(tasks, t) ELSE Ended(tasks, t)
    /\ email' = [email EXCEPT ![t.obj].status = "queued"]
    /\ Unseen /\ UNCHANGED <<contract, faults>>

\* The except of the task.
SendRaised(t) ==
    /\ t.name = "send" /\ t.at = "raised"
    /\ IF CanRetry(t)
       THEN /\ tasks' = Retried(tasks, t)
            /\ email' = [email EXCEPT ![t.obj].status = "queued"]
       ELSE /\ tasks' = Ended(tasks, t)
            \* it never was rendered: the row is still QUEUED
            /\ email' = [email EXCEPT ![t.obj].lost = @ \/ email[t.obj].status = "queued"]
    /\ Unseen /\ UNCHANGED <<contract, faults>>

-----------------------------------------------------------------------------
(* generate_contract *)

StartBuild(t) ==
    /\ t.name = "build" /\ t.at = "queue"
    /\ tasks' = Step(tasks, t, "print", {})
    /\ contract' = [contract EXCEPT ![t.obj].again = @ \/ contract[t.obj].status = "ready"]
    /\ Unseen /\ UNCHANGED <<email, faults>>

\* Mutant: the contract is not READY when its e-mail is queued.
PrintUnsaved(t) ==
    /\ t.at = "print"
    /\ tasks' = Step(tasks, t, "printed", {})
    /\ Unseen /\ UNCHANGED <<email, contract, faults>>

PrintContract(t) ==
    /\ t.at = "print"
    /\ \/ /\ contract' = [contract EXCEPT ![t.obj].status = "ready"]
          /\ tasks' = Step(tasks, t, "printed", {})
       \/ /\ contract' = [contract EXCEPT ![t.obj].status = "failed"]
          /\ tasks' = Step(tasks, t, "raised", {})
    /\ Unseen /\ UNCHANGED <<email, faults>>

\* queue_email outside a transaction: the row first, the task next.
MailContract(t) ==
    LET r == contract[t.obj].res
    IN /\ t.at = "printed"
       /\ IF "contract" \in SwitchedOff
          THEN tasks' = Ended(tasks, t) /\ UNCHANGED email
          ELSE /\ Len(email) < MaxEmails
               /\ email' = Append(email, Letter(r, "contract", t.obj))
               /\ tasks' = IF r \in NoAddress THEN Ended(tasks, t)
                           ELSE Step(tasks, t, "mailing", {Len(email')})
       /\ Unseen /\ UNCHANGED <<contract, faults>>

\* A worker between the row of an e-mail and its task: which row.
Mailing(t) == CHOOSE e \in t.seen : TRUE

EnqueueContractMail(t) ==
    /\ t.name = "build" /\ t.at = "mailing"
    /\ tasks' = With(Ended(tasks, t), "send", Mailing(t), "queue")
    /\ Unseen /\ UNCHANGED <<email, contract, faults>>

\* The database or the broker fails after the contract was printed.
BuildBreaks(t) ==
    /\ t.name = "build" /\ t.at \in {"printed", "mailing"}
    /\ Fault
    /\ tasks' = Step(tasks, t, "raised", {})
    /\ email' = IF t.at = "mailing" THEN [email EXCEPT ![Mailing(t)].lost = TRUE] ELSE email
    /\ Unseen /\ UNCHANGED contract

\* autoretry_for
BuildRaised(t) ==
    /\ t.name = "build" /\ t.at = "raised"
    /\ tasks' = IF CanRetry(t) THEN Retried(tasks, t) ELSE Ended(tasks, t)
    /\ Unseen /\ UNCHANGED <<email, contract, faults>>

-----------------------------------------------------------------------------
(* send_pickup_reminders.  Beat sends a message every hour whatever became of the last:
   CELERY_TASK_TIME_LIMIT only ends one that runs, and the entry of CELERY_BEAT_SCHEDULE
   does not expire.  After a night without workers there are as many in the queue as hours
   went by, and they run side by side. *)

Sweeps == {t \in tasks : t.name = "sweep"}

Beat ==
    /\ Cardinality(Sweeps) < MaxSweeps /\ Cardinality(tasks \ Sweeps) < MaxOpen
    /\ tasks' = With(tasks, "sweep", 0, "queue")
    /\ UNCHANGED <<email, contract, due, overlaps, faults, clicks>>

\* Mutant: nobody looks whether it was sent.
AllDue == due
NeedingReminder == {r \in due : Reminders(r) = {}}

\* The sweeps that have r still to remind.
Listed(r) == {t \in Sweeps : r \in t.seen}

StartSweep(t) ==
    /\ t.name = "sweep" /\ t.at = "queue"
    /\ tasks' = IF NeedingReminder = {} THEN Ended(tasks, t)
                ELSE Step(tasks, t, "sweeping", NeedingReminder)
    /\ overlaps' = [r \in Reservation |->
                       IF r \in NeedingReminder /\ Listed(r) # {} THEN overlaps[r] + 1
                       ELSE overlaps[r]]
    /\ UNCHANGED <<due, clicks, email, contract, faults>>

\* The next of the list, which may not be due any more; obj keeps the row until its
\* task is in the queue.
Remind(t) ==
    /\ t.at = "sweeping" /\ t.obj = 0 /\ t.seen # {}
    /\ LET r == CHOOSE r \in t.seen : TRUE
           left == [t EXCEPT !.seen = @ \ {r}]
       IN IF "reminder" \in SwitchedOff
          THEN tasks' = Ended(tasks, t) \cup {left} /\ UNCHANGED email
          ELSE /\ Len(email) < MaxEmails
               /\ email' = Append(email, Letter(r, "reminder", 0))
               /\ tasks' = Ended(tasks, t) \cup
                           {IF r \in NoAddress THEN left ELSE [left EXCEPT !.obj = Len(email')]}
    /\ Unseen /\ UNCHANGED <<contract, faults>>

EnqueueReminder(t) ==
    /\ t.at = "sweeping" /\ t.obj # 0
    /\ tasks' = With(Ended(tasks, t) \cup {[t EXCEPT !.obj = 0]}, "send", t.obj, "queue")
    /\ Unseen /\ UNCHANGED <<email, contract, faults>>

EndSweep(t) ==
    /\ t.at = "sweeping" /\ t.obj = 0 /\ t.seen = {}
    /\ tasks' = Ended(tasks, t)
    /\ Unseen /\ UNCHANGED <<email, contract, faults>>

\* An exception ends the sweep, which is not retried.
SweepBreaks(t) ==
    /\ t.at = "sweeping"
    /\ Fault
    /\ tasks' = Ended(tasks, t)
    /\ email' = IF t.obj = 0 THEN email ELSE [email EXCEPT ![t.obj].lost = TRUE]
    /\ Unseen /\ UNCHANGED contract

\* The worker is lost wherever it was.
WorkerLost(t) ==
    /\ t.at \notin {"queue", "promised", "read"}
    /\ Fault
    /\ tasks' = Redelivered(Ended(tasks, t), [t EXCEPT !.obj = IF t.name = "sweep" THEN 0 ELSE @])
    /\ email' = CASE t.at = "handed" -> [email EXCEPT ![t.obj].excuses = @ + 1]
                  [] t.at = "mailing" -> [email EXCEPT ![Mailing(t)].lost = TRUE]
                  [] t.at = "sweeping" /\ t.obj # 0 -> [email EXCEPT ![t.obj].lost = TRUE]
                  [] OTHER -> email
    /\ Unseen /\ UNCHANGED contract

-----------------------------------------------------------------------------
\* A worker takes the next step of its task, whatever comes of it.
Work(t) ==
    \/ StartSend(t) \/ RenderFails(t) \/ Hand(t) \/ Refuse(t)
    \/ SaveFailed(t) \/ SaveSent(t) \/ SendRaised(t)
    \/ StartBuild(t) \/ PrintContract(t) \/ MailContract(t) \/ EnqueueContractMail(t) \/ BuildRaised(t)
    \/ StartSweep(t) \/ Remind(t) \/ EnqueueReminder(t) \/ EndSweep(t)
    \/ Enqueue(t) \/ Requeue(t)

Next ==
    \/ \E r \in Reservation : QueueEmail(r) \/ RequestContract(r)
                              \/ DueChanges(r)
    \/ \E e \in DOMAIN email : ClickRetry(e)
    \/ Beat
    \/ \E t \in tasks : \/ Work(t) \/ EnqueueFails(t) \/ BuildBreaks(t)
                        \/ SweepBreaks(t) \/ WorkerLost(t)

Spec == Init /\ [][Next]_vars

\* Workers never all stop while there is a message to work on (a task that does not end is
\* killed by its time limit and counted as a fault): as the rows, the clicks and the retries
\* are finite in number, each message comes to its end.  A sweep that wrote the row of an
\* e-mail goes on to its task; that beat keeps its timetable is not asked for.
Fairness ==
    /\ WF_vars(\E t \in tasks : t.name # "sweep" /\ Work(t))
    /\ WF_vars(\E t \in tasks : EnqueueReminder(t))

FairSpec == Spec /\ Fairness

-----------------------------------------------------------------------------
(* Properties *)

\* A customer gets an e-mail twice only when something went wrong that the queue cannot
\* see through: the answer of the provider was lost, the worker or the audit log failed
\* after the message was out, or somebody asked again for a row that was already on its
\* way.  A message handed out twice is harmless alone, and not when another task of the
\* same row may put it back.
DuplicatesHaveACause == \A e \in DOMAIN email : email[e].handed <= 1 + email[e].excuses

\* However often the sweep runs, fails and is run again, the reminder of a reservation is
\* queued once, and once more for each time that a sweep listed it while another one had it
\* on its list: nothing else repeats it.
RemindedOnce == \A r \in Reservation : Cardinality(Reminders(r)) <= 1 + overlaps[r]

\* An e-mail with a contract goes without its PDF only if a contract that was ready was
\* built again, by a task that was handed out twice, and that failed.
ContractMailsCarryIt ==
    \A e \in DOMAIN email : email[e].bare => contract[email[e].contract].again

\* Every e-mail that waits to be sent ends as sent or failed, whatever the provider does,
\* unless its task was lost with the process that had to queue it or every retry failed
\* to render it: those stay QUEUED, with no task, and nothing looks for them.
EveryMailEnds ==
    \A e \in 1..MaxEmails :
        (e \in DOMAIN email /\ email[e].status = "queued")
            ~> (e \in DOMAIN email /\ (email[e].status # "queued" \/ email[e].lost))

=============================================================================
