--------------------------- MODULE SesReportsProofs ---------------------------
(***************************************************************************)
(* The reports reach the Ministry as promised, for any number of rentals,  *)
(* of tries and of lost workers and answers.                               *)
(*                                                                         *)
(* While a report is on its way its row is locked, so what is being sent   *)
(* is complete, is not sent yet and is what the row says (Posting); the    *)
(* times that the Ministry took a report are then accounted for one by one *)
(* (Account).  The tasks matter in one way only: whoever commits finds its *)
(* own (Posters), and there is always a number for one more (Numbers), as  *)
(* a rental waits at most once to be checked in and once to be swept.      *)
(***************************************************************************)
EXTENDS SesReports, FiniteSetTheorems, WellFoundedInduction, TLAPS

-----------------------------------------------------------------------------
(* The invariant *)

Ats == {"promised", "sending", "broken", "sweeping"}
Of(queue, name) == {t \in queue : t.name = name}
Sends(queue) == Cardinality(Of(queue, "send"))

\* A message is about a rental, and a worker has it at one of the steps of its task.
Fits(t) ==
    /\ t.name = "send" => t.obj \in Rental /\ t.at # "sweeping"
    /\ t.name = "sweep" => t.at \in {"queue", "sweeping"} /\ t.seen \subseteq Rental

Shape(queue) ==
    /\ WellFormed(queue, Ats) /\ IsFiniteSet(queue)
    /\ \A t \in queue : Fits(t)
    /\ \A s, t \in Of(queue, "sweep") : s = t

\* Only what was prepared is sent.
Known == \A t \in Of(tasks, "send") : report[t.obj].status # "none"

\* The transaction of a task has its task.
Posts(t, r) == t.name = "send" /\ t.id = sending[r].task /\ t.at = "sending" /\ t.obj = r
Posters == \A r \in Rental : sending[r].by = "task" => \E t \in tasks : Posts(t, r)

\* The messages that there may be yet.
NotYet == {r \in Rental : report[r].status = "none"}
Waiting == Cardinality(NotYet)
Numbers ==
    /\ Sends(tasks) + Waiting <= MaxTasks
    /\ \A t \in Of(tasks, "sweep") :
          /\ t.at = "queue" => Sends(tasks) + Waiting + Cardinality(Rental) <= MaxTasks
          /\ t.at = "sweeping" => Sends(tasks) + Waiting + Cardinality(t.seen) <= MaxTasks

QueueInv == Shape(tasks) /\ Known /\ Posters /\ Numbers

\* What is tried and not incomplete is complete.
Reports ==
    \A r \in Rental : report[r].status \notin {"none", "incomplete"} =>
                          report[r].xml \in Payload /\ Complete(report[r].xml)

\* What is on its way.
Posting ==
    \A r \in Rental :
        /\ sending[r] # NoOne => report[r].status \notin {"none", "incomplete", "sent"}
        /\ sending[r].answer = "taken" => report[r].xml \in ministry[r].told

\* Each time but one has its excuse, and that one has been, or will be, written down.
Account ==
    \A r \in Rental :
        ministry[r].times <= ministry[r].excuses +
                             (IF Sent(r) \/ sending[r].answer = "taken" THEN 1 ELSE 0)

RowTypes ==
    /\ content \in [Rental -> Payload]
    /\ report \in [Rental -> SesSubmission]
    /\ sending \in [Rental -> Transaction \cup {NoOne}]
    /\ ministry \in [Rental -> Ministry]

RowInv == RowTypes /\ Reports /\ Posting /\ Account

Bounds == enabled \in BOOLEAN /\ edits \in 0..MaxEdits /\ faults \in 0..MaxFaults

Inv == QueueInv /\ RowInv /\ Bounds

-----------------------------------------------------------------------------
(* The queue *)

LEMMA LeastNumber ==
    ASSUME NEW S \in SUBSET Nat, S # {}
    PROVE  \E n \in S : \A m \in S : n <= m
<1>1. PICK n \in S : \A m \in S : ~ (<<m, n>> \in OpToRel(<, Nat))
    BY NatLessThanWellFounded, WFMin
<1>2. ASSUME NEW m \in S PROVE n <= m
    <2>1. <<m, n>> \notin OpToRel(<, Nat)
        BY <1>1
    <2>2. m \in Nat /\ n \in Nat
        OBVIOUS
    <2>3. ~ (m < n)
        BY <2>1, <2>2 DEF OpToRel
    <2> QED BY <2>2, <2>3
<1> QED BY <1>2

\* While there are fewer messages of a task than numbers, one more gets a number of its own.
LEMMA WithIsNew ==
    ASSUME NEW queue, NEW ats, WellFormed(queue, ats), IsFiniteSet(queue),
           NEW name \in DOMAIN MaxRetries, NEW obj \in Nat, NEW at \in ats \cup {"queue"},
           Cardinality(Of(queue, name)) < MaxTasks
    PROVE  \E m \in Message(ats) :
              /\ With(queue, name, obj, at) = queue \cup {m}
              /\ m.name = name /\ m.obj = obj /\ m.at = at /\ m.seen = {} /\ m.tries = 0
              /\ \A t \in queue : t.name = name => t.id # m.id
<1> DEFINE mine == Of(queue, name)
           ids == {t.id : t \in mine}
           free == FreeIds(queue, name)
           i == CHOOSE i \in free : \A j \in free : i <= j
           m == [id |-> i, name |-> name, obj |-> obj, tries |-> 0, at |-> at, seen |-> {}]
<1>1. free = (1..MaxTasks) \ ids
    BY DEF FreeIds, Of
<1>2. free # {}
    <2> SUFFICES ASSUME free = {} PROVE FALSE
        OBVIOUS
    <2>1. IsFiniteSet(mine)
        BY FS_Subset DEF Of
    <2>2. [t \in mine |-> t.id] \in Surjection(mine, ids)
        BY DEF Surjection
    <2>3. IsFiniteSet(ids) /\ Cardinality(ids) <= Cardinality(mine)
        <3> HIDE DEF mine, ids
        <3> QED BY <2>1, <2>2, FS_Surjection
    <2>4. 1..MaxTasks \subseteq ids
        BY <1>1
    <2>5. Cardinality(1..MaxTasks) <= Cardinality(ids)
        BY <2>3, <2>4, FS_Subset
    <2>6. Cardinality(1..MaxTasks) = MaxTasks /\ MaxTasks \in Nat
        BY FS_Interval, CeleryAssumption
    <2>7. Cardinality(mine) \in Nat /\ Cardinality(ids) \in Nat
        BY <2>1, <2>3, FS_CardinalityType
    <2>8. Cardinality(mine) < MaxTasks
        OBVIOUS
    <2> HIDE DEF mine, ids
    <2> QED BY <2>3, <2>5, <2>6, <2>7, <2>8
<1>3. i \in free
    <2>1. free \in SUBSET Nat
        BY <1>1
    <2> HIDE DEF free
    <2> QED BY <1>2, <2>1, LeastNumber
<1>4. i \in 1..MaxTasks /\ i \notin ids
    BY <1>1, <1>3
<1>5. With(queue, name, obj, at) = queue \cup {m}
    BY DEF With
<1> HIDE DEF i, free
<1>6. m \in Message(ats)
    BY <1>4 DEF Message
<1>7. \A t \in queue : t.name = name => t.id # m.id
    BY <1>4 DEF Of
<1> QED BY <1>5, <1>6, <1>7

LEMMA CountsAreNumbers ==
    ASSUME NEW queue, IsFiniteSet(queue)
    PROVE  \A name : IsFiniteSet(Of(queue, name)) /\ Cardinality(Of(queue, name)) \in Nat
BY FS_Subset, FS_CardinalityType DEF Of

LEMMA ShapeEnded ==
    ASSUME NEW queue, Shape(queue), NEW t \in queue
    PROVE  /\ Shape(Ended(queue, t))
           /\ Sends(Ended(queue, t)) = IF t.name = "send" THEN Sends(queue) - 1 ELSE Sends(queue)
<1>1. Shape(Ended(queue, t))
    <2>1. IsFiniteSet(Ended(queue, t))
        BY FS_RemoveElement DEF Shape, Ended
    <2> QED BY <2>1 DEF Shape, Ended, WellFormed, Of
<1>2. IsFiniteSet(Of(queue, "send"))
    BY CountsAreNumbers DEF Shape
<1>3. Of(Ended(queue, t), "send") = Of(queue, "send") \ {t}
    BY DEF Of, Ended
<1>4. t \in Of(queue, "send") <=> t.name = "send"
    BY DEF Of
<1> QED BY <1>1, <1>2, <1>3, <1>4, FS_RemoveElement DEF Sends

LEMMA ShapeAdded ==
    ASSUME NEW queue, Shape(queue), NEW m \in Message(Ats), Fits(m),
           m.tries <= MaxRetries[m.name],
           \A t \in queue : t.name = m.name => t.id # m.id,
           m.name = "sweep" => Of(queue, "sweep") = {}
    PROVE  /\ Shape(queue \cup {m})
           /\ Sends(queue \cup {m}) = IF m.name = "send" THEN Sends(queue) + 1 ELSE Sends(queue)
<1>1. Shape(queue \cup {m})
    <2>1. IsFiniteSet(queue \cup {m})
        BY FS_AddElement DEF Shape
    <2>2. WellFormed(queue \cup {m}, Ats)
        BY DEF Shape, WellFormed
    <2>3. \A s, t \in Of(queue \cup {m}, "sweep") : s = t
        BY DEF Shape, Of
    <2> QED BY <2>1, <2>2, <2>3 DEF Shape
<1>2. IsFiniteSet(Of(queue, "send"))
    BY CountsAreNumbers DEF Shape
<1>3. m.name = "send" => Of(queue \cup {m}, "send") = Of(queue, "send") \cup {m} /\ m \notin Of(queue, "send")
    BY DEF Of
<1>4. m.name # "send" => Of(queue \cup {m}, "send") = Of(queue, "send")
    BY DEF Of
<1> QED BY <1>1, <1>2, <1>3, <1>4, FS_AddElement DEF Sends

\* A message that is still there, at another step.
LEMMA ShapeMoved ==
    ASSUME NEW queue, Shape(queue), NEW t \in queue, NEW m \in Message(Ats), Fits(m),
           m.id = t.id, m.name = t.name, m.tries <= MaxRetries[t.name]
    PROVE  /\ Shape(Ended(queue, t) \cup {m})
           /\ Sends(Ended(queue, t) \cup {m}) = Sends(queue)
<1> DEFINE rest == Ended(queue, t)
<1>1. /\ Shape(rest)
      /\ Sends(rest) = IF t.name = "send" THEN Sends(queue) - 1 ELSE Sends(queue)
    BY ShapeEnded
<1>2. \A s \in rest : s.name = m.name => s.id # m.id
    BY DEF Ended, Shape, WellFormed
<1>3. ASSUME m.name = "sweep" PROVE Of(rest, "sweep") = {}
    <2> SUFFICES ASSUME NEW s \in queue, s # t, s.name = "sweep" PROVE FALSE
        BY DEF Of, Ended
    <2>1. s \in Of(queue, "sweep") /\ t \in Of(queue, "sweep")
        BY <1>3 DEF Of
    <2> QED BY <2>1 DEF Shape
<1>4. Sends(queue) \in Nat
    BY CountsAreNumbers DEF Shape, Sends
<1> HIDE DEF rest
<1>5. /\ Shape(rest \cup {m})
      /\ Sends(rest \cup {m}) = IF m.name = "send" THEN Sends(rest) + 1 ELSE Sends(rest)
    BY <1>1, <1>2, <1>3, ShapeAdded
<1> QED BY <1>1, <1>4, <1>5 DEF rest

\* Step: at another step, with another list.
LEMMA StepMoves ==
    ASSUME NEW queue, Shape(queue), NEW t \in queue, NEW at \in Ats \cup {"queue"},
           NEW seen \in SUBSET Rental,
           t.name = "send" => at # "sweeping",
           t.name = "sweep" => at \in {"queue", "sweeping"}
    PROVE  /\ Shape(Step(queue, t, at, seen)) /\ Sends(Step(queue, t, at, seen)) = Sends(queue)
           /\ \E m \in Message(Ats) :
                 /\ Step(queue, t, at, seen) = Ended(queue, t) \cup {m} /\ Fits(m)
                 /\ m.id = t.id /\ m.name = t.name /\ m.obj = t.obj /\ m.tries = t.tries
                 /\ m.at = at /\ m.seen = seen
<1> DEFINE m == [t EXCEPT !.at = at, !.seen = seen]
<1>1. t \in Message(Ats) /\ t.tries <= MaxRetries[t.name] /\ Fits(t)
    BY DEF Shape, WellFormed
<1>2. /\ m \in Message(Ats) /\ m.id = t.id /\ m.name = t.name /\ m.obj = t.obj
      /\ m.tries = t.tries /\ m.at = at /\ m.seen = seen
    BY <1>1, SesAssumption DEF Message
<1>3. Step(queue, t, at, seen) = Ended(queue, t) \cup {m}
    BY DEF Step, Ended
<1> HIDE DEF m
<1>4. Fits(m)
    BY <1>1, <1>2 DEF Fits
<1>5. Shape(Ended(queue, t) \cup {m}) /\ Sends(Ended(queue, t) \cup {m}) = Sends(queue)
    BY <1>1, <1>2, <1>4, ShapeMoved
<1> QED BY <1>2, <1>3, <1>4, <1>5

-----------------------------------------------------------------------------
(* The rows *)

Told == [r \in Rental |-> ministry[r].told]
Kept == [r \in Rental |-> IF Sent(r) THEN report[r].xml ELSE NoPayload]
Unseen == Told' = Told /\ Kept' = Kept

LEMMA UnseenIsStutter == Unseen => [Proof!Next]_<<Told, Kept>>
BY DEF Unseen

LEMMA RowsKept ==
    ASSUME RowInv, report' = report, sending' = sending, ministry' = ministry,
           content' \in [Rental -> Payload]
    PROVE  RowInv' /\ Unseen /\ NotYet' = NotYet
<1>1. RowInv'
    BY DEF RowInv, RowTypes, Reports, Posting, Account, Sent
<1>2. Unseen /\ NotYet' = NotYet
    BY DEF Unseen, Told, Kept, Sent, NotYet
<1> QED BY <1>1, <1>2

\* Another report of a rental, that keeps what was sent.
LEMMA RowRewritten ==
    ASSUME RowInv, NEW r \in Rental, NEW row \in SesSubmission,
           report' = [report EXCEPT ![r] = row],
           content' = content, sending' = sending, ministry' = ministry,
           RowFree(r), row.status # "none",
           row.status # "incomplete" => row.xml \in Payload /\ Complete(row.xml),
           row.status = "sent" \/ Sent(r) => row = report[r]
    PROVE  RowInv' /\ Unseen /\ NotYet' = NotYet \ {r}
<1>1. /\ report' \in [Rental -> SesSubmission] /\ report'[r] = row
      /\ \A q \in Rental : q # r => report'[q] = report[q]
    BY DEF RowInv, RowTypes
<1>2. RowTypes'
    BY <1>1 DEF RowInv, RowTypes
<1>3. Reports'
    BY <1>1 DEF RowInv, Reports
<1>4. \A q \in Rental : Sent(q)' <=> Sent(q)
    BY <1>1 DEF Sent
<1>5. Posting'
    BY <1>1 DEF RowInv, Posting, RowFree, NoOne
<1>6. Account'
    BY <1>1, <1>4 DEF RowInv, Account, Sent
<1>7. Told' = Told
    BY DEF Told
<1>8. Kept' = Kept
    BY <1>1 DEF Kept, Sent
<1>9. NotYet' = NotYet \ {r}
    BY <1>1 DEF NotYet
<1> QED BY <1>2, <1>3, <1>5, <1>6, <1>7, <1>8, <1>9 DEF RowInv, Unseen

LEMMA PrepareKeeps ==
    ASSUME RowInv, NEW r \in Rental, RowFree(r), report' = [report EXCEPT ![r] = Prepared(r)],
           content' = content, sending' = sending, ministry' = ministry
    PROVE  RowInv' /\ Unseen /\ NotYet' = NotYet \ {r}
<1>1. content[r] \in Payload /\ report[r] \in SesSubmission
    BY DEF RowInv, RowTypes
<1>2. Prepared(r) \in SesSubmission
    BY <1>1 DEF Prepared, SesSubmission, SesStatus
<1>3. Sent(r) => Prepared(r) = report[r]
    BY DEF Prepared
<1>4. ~Sent(r) => /\ Prepared(r).xml = content[r]
                  /\ Prepared(r).status =
                         IF Complete(content[r]) THEN "ready" ELSE "incomplete"
    BY <1>1 DEF Prepared, SesSubmission
<1>5. Sent(r) => report[r].xml \in Payload /\ Complete(report[r].xml)
    BY DEF RowInv, Reports, Sent
<1> DEFINE row == Prepared(r)
<1>6. row.status # "none" /\ (row.status # "incomplete" => row.xml \in Payload /\ Complete(row.xml))
    BY <1>1, <1>3, <1>4, <1>5 DEF Sent
<1>7. row.status = "sent" \/ Sent(r) => row = report[r]
    BY <1>3, <1>4
<1>8. report' = [report EXCEPT ![r] = row] /\ row \in SesSubmission
    BY <1>2
<1> HIDE DEF row
<1> QED BY <1>6, <1>7, <1>8, RowRewritten

LEMMA SimulateKeeps ==
    ASSUME RowInv, NEW r \in Rental, Simulate(r), report[r].status # "none",
           content' = content, sending' = sending, ministry' = ministry
    PROVE  RowInv' /\ Unseen /\ NotYet' = NotYet
<1> DEFINE row == [report[r] EXCEPT !.status = "ready", !.simulated = TRUE]
<1>1. report[r] \in SesSubmission
    BY DEF RowInv, RowTypes
<1>2. row \in SesSubmission /\ row.status = "ready" /\ row.xml = report[r].xml
    BY <1>1 DEF SesSubmission, SesStatus
<1>3. ~Sent(r) /\ RowFree(r) /\ report[r].xml \in Payload /\ Complete(report[r].xml)
    BY DEF Simulate, Sendable, RowInv, Reports
<1>4. report' = [report EXCEPT ![r] = row]
    BY <1>1 DEF Simulate, RowInv, RowTypes
<1>5. r \notin NotYet
    BY DEF NotYet
<1> HIDE DEF row
<1>6. RowInv' /\ Unseen /\ NotYet' = NotYet \ {r}
    BY <1>2, <1>3, <1>4, RowRewritten
<1> QED BY <1>5, <1>6

LEMMA OpenPostKeeps ==
    ASSUME RowInv, NEW r \in Rental, NEW by \in {"clerk", "task"}, NEW task \in 0..MaxTasks,
           OpenPost(r, by, task), report[r].status # "none",
           content' = content, report' = report, ministry' = ministry
    PROVE  RowInv' /\ Unseen /\ NotYet' = NotYet
<1> DEFINE post == [by |-> by, task |-> task, answer |-> "none"]
<1>1. post \in Transaction /\ post.answer = "none"
    BY DEF Transaction
<1>2. /\ sending' \in [Rental -> Transaction \cup {NoOne}] /\ sending'[r] = post
      /\ \A q \in Rental : q # r => sending'[q] = sending[q]
    BY <1>1 DEF OpenPost, RowInv, RowTypes
<1> HIDE DEF post
<1>3. RowTypes'
    BY <1>2 DEF RowInv, RowTypes
<1>4. Reports'
    BY DEF RowInv, Reports
<1>5. sending[r] = NoOne /\ ~Sent(r) /\ report[r].status # "incomplete"
    BY DEF OpenPost, RowFree, Sendable
<1>6. Posting'
    BY <1>1, <1>2, <1>5 DEF RowInv, Posting, Sent
<1>7. Account'
    BY <1>1, <1>2, <1>5 DEF RowInv, Account, Sent, NoOne
<1>8. Unseen /\ NotYet' = NotYet
    BY DEF Unseen, Told, Kept, Sent, NotYet
<1> QED BY <1>3, <1>4, <1>6, <1>7, <1>8 DEF RowInv

\* The answer that a transaction waits for; an answer that is not heard is excused.
LEMMA AnswerKeeps ==
    ASSUME RowInv, NEW r \in Rental, Answer(r)
    PROVE  RowInv' /\ [Proof!Next]_<<Told, Kept>> /\ NotYet' = NotYet
<1>1. PICK a \in Answers :
          /\ sending' = [sending EXCEPT ![r].answer = a]
          /\ \/ a = "taken" /\ Take(r, 0)
             \/ a = "rejected" /\ ministry' = ministry
             \/ a = "broken" /\ (ministry' = ministry \/ Take(r, 1))
    BY DEF Answer
<1>2. content' = content /\ report' = report /\ sending[r] # NoOne /\ sending[r].answer = "none"
    BY DEF Answer
<1>3. sending[r] \in Transaction
    BY <1>2 DEF RowInv, RowTypes
<1> DEFINE post == [sending[r] EXCEPT !.answer = a]
<1>4. post \in Transaction /\ post.answer = a
    BY <1>3 DEF Transaction
<1>5. /\ sending' \in [Rental -> Transaction \cup {NoOne}] /\ sending'[r] = post
      /\ \A q \in Rental : q # r => sending'[q] = sending[q]
    BY <1>1, <1>4 DEF RowInv, RowTypes
<1> HIDE DEF post
<1>6. /\ report[r].status \notin {"none", "incomplete", "sent"}
      /\ report[r].xml \in Payload /\ Complete(report[r].xml)
    BY <1>2 DEF RowInv, Posting, Reports
<1>7. ministry[r] \in Ministry /\ ministry[r].times \in Nat /\ ministry[r].excuses \in Nat
    BY DEF RowInv, RowTypes, Ministry
<1>8. NotYet' = NotYet /\ Kept' = Kept
    BY <1>2 DEF NotYet, Kept, Sent
<1>9. Reports'
    BY <1>2 DEF RowInv, Reports
<1>10. CASE ministry' = ministry /\ a # "taken"
    <2>1. RowTypes'
        BY <1>2, <1>5, <1>10 DEF RowInv, RowTypes
    <2>2. Posting'
        BY <1>2, <1>4, <1>5, <1>10 DEF RowInv, Posting
    <2>3. Account'
        BY <1>2, <1>4, <1>5, <1>10 DEF RowInv, Account, Sent
    <2>4. Unseen
        BY <1>8, <1>10 DEF Unseen, Told
    <2> QED BY <1>8, <1>9, <2>1, <2>2, <2>3, <2>4, UnseenIsStutter DEF RowInv
<1>11. ASSUME NEW n \in {0, 1}, Take(r, n), a = "taken" \/ n = 1
       PROVE  RowInv' /\ [Proof!Next]_<<Told, Kept>>
    <2> DEFINE row == [told |-> ministry[r].told \cup {report[r].xml},
                       times |-> ministry[r].times + 1, excuses |-> ministry[r].excuses + n]
    <2>1. row \in Ministry
        BY <1>6, <1>7 DEF Ministry
    <2>2. /\ ministry' = [ministry EXCEPT ![r] = row]
          /\ row.told = ministry[r].told \cup {report[r].xml}
          /\ row.times = ministry[r].times + 1 /\ row.excuses = ministry[r].excuses + n
        BY <1>11 DEF Take, RowInv, RowTypes
    <2> HIDE DEF row
    <2>3. /\ ministry' \in [Rental -> Ministry] /\ ministry'[r] = row
          /\ \A q \in Rental : q # r => ministry'[q] = ministry[q]
        BY <2>1, <2>2 DEF RowInv, RowTypes
    <2>4. RowTypes'
        BY <1>2, <1>5, <2>3 DEF RowInv, RowTypes
    <2>5. Posting'
        BY <1>2, <1>4, <1>5, <1>6, <2>2, <2>3 DEF RowInv, Posting
    <2>6. Account'
        <3> SUFFICES ASSUME NEW q \in Rental
                     PROVE  ministry'[q].times <= ministry'[q].excuses +
                                (IF Sent(q)' \/ sending'[q].answer = "taken" THEN 1 ELSE 0)
            BY DEF Account
        <3>1. CASE q # r
            BY <1>2, <1>5, <2>3, <3>1 DEF RowInv, Account, Sent
        <3>2. CASE q = r
            <4>1. ministry[r].times <= ministry[r].excuses
                BY <1>2, <1>6, <1>7 DEF RowInv, Account, Sent
            <4>2. sending'[r].answer = a
                BY <1>4, <1>5
            <4> QED BY <1>7, <1>11, <2>2, <2>3, <3>2, <4>1, <4>2
        <3> QED BY <3>1, <3>2
    <2>7. Told' = [Told EXCEPT ![r] = @ \cup {report[r].xml}]
        BY <2>2, <2>3 DEF Told
    <2>8. Proof!Tell(r)
        BY <1>6, <1>8, <2>7 DEF Proof!Tell, Told, Kept
    <2> QED BY <1>9, <2>4, <2>5, <2>6, <2>8 DEF RowInv, Proof!Next
<1> QED BY <1>1, <1>8, <1>10, <1>11

\* The row half of CommitSend: what is kept as sent is what the Ministry took.
LEMMA SavedKeeps ==
    ASSUME RowInv, NEW r \in Rental, sending[r].answer \in Answers,
           report' = [report EXCEPT ![r] = Saved(@, sending[r].answer)],
           sending' = [sending EXCEPT ![r] = NoOne],
           content' = content, ministry' = ministry
    PROVE  RowInv' /\ [Proof!Next]_<<Told, Kept>> /\ NotYet' = NotYet
<1> DEFINE answer == sending[r].answer
           row == Saved(report[r], answer)
<1>1. report[r] \in SesSubmission /\ answer \in Answers
    BY DEF RowInv, RowTypes
<1>2. sending[r] # NoOne
    BY DEF NoOne, Answers
<1>3. /\ report[r].status \notin {"none", "incomplete", "sent"}
      /\ report[r].xml \in Payload /\ Complete(report[r].xml)
      /\ answer = "taken" => report[r].xml \in ministry[r].told
    BY <1>2 DEF RowInv, Posting, Reports
<1>4. row \in SesSubmission /\ row.xml = report[r].xml
    BY <1>1 DEF Saved, SesSubmission, SesStatus, Answers
<1>5. row.status \in {"sent", "rejected", "error"} /\ (row.status = "sent" <=> answer = "taken")
    BY <1>1 DEF Saved, SesSubmission, Answers
<1>6. report' = [report EXCEPT ![r] = row]
    BY DEF RowInv, RowTypes
<1> HIDE DEF row
<1>7. /\ report' \in [Rental -> SesSubmission] /\ report'[r] = row
      /\ \A q \in Rental : q # r => report'[q] = report[q]
    BY <1>4, <1>6 DEF RowInv, RowTypes
<1>8. /\ sending' \in [Rental -> Transaction \cup {NoOne}] /\ sending'[r] = NoOne
      /\ \A q \in Rental : q # r => sending'[q] = sending[q]
    BY DEF RowInv, RowTypes
<1>9. RowTypes'
    BY <1>7, <1>8 DEF RowInv, RowTypes
<1>10. Reports'
    BY <1>3, <1>4, <1>7 DEF RowInv, Reports
<1>11. Posting'
    BY <1>7, <1>8 DEF RowInv, Posting, NoOne
<1>12. Account'
    <2> SUFFICES ASSUME NEW q \in Rental
                 PROVE  ministry[q].times <= ministry[q].excuses +
                            (IF report'[q].status = "sent" \/ sending'[q].answer = "taken"
                             THEN 1 ELSE 0)
        BY DEF Account, Sent
    <2>1. ministry[q].times <= ministry[q].excuses +
              (IF Sent(q) \/ sending[q].answer = "taken" THEN 1 ELSE 0)
        BY DEF RowInv, Account
    <2> QED BY <1>3, <1>5, <1>7, <1>8, <2>1 DEF Sent, NoOne
<1>13. NotYet' = NotYet
    BY <1>3, <1>5, <1>7 DEF NotYet
<1>14. Told' = Told
    BY DEF Told
<1>15. CASE answer = "taken"
    <2>1. Kept[r] = NoPayload
        BY <1>3 DEF Kept, Sent
    <2>2. Kept' = [Kept EXCEPT ![r] = report[r].xml]
        BY <1>4, <1>5, <1>7, <1>15 DEF Kept, Sent
    <2>3. Proof!Keep(r)
        BY <1>3, <1>14, <1>15, <2>1, <2>2 DEF Proof!Keep, Told, Kept
    <2> QED BY <1>9, <1>10, <1>11, <1>12, <1>13, <2>3 DEF RowInv, Proof!Next
<1>16. CASE answer # "taken"
    <2>1. \A q \in Rental : Sent(q)' <=> Sent(q)
        BY <1>3, <1>5, <1>7, <1>16 DEF Sent
    <2>2. Kept' = Kept
        BY <1>4, <1>7, <2>1 DEF Kept
    <2> QED BY <1>9, <1>10, <1>11, <1>12, <1>13, <1>14, <2>2, UnseenIsStutter DEF RowInv, Unseen
<1> QED BY <1>15, <1>16

\* The row half of SendBreaks: a report that was taken has its excuse.
LEMMA UndoneKeeps ==
    ASSUME RowInv, NEW r \in Rental, sending[r] # NoOne,
           sending' = [sending EXCEPT ![r] = NoOne],
           ministry' = [ministry EXCEPT ![r].excuses =
                            IF sending[r].answer = "taken" THEN @ + 1 ELSE @],
           content' = content, report' = report
    PROVE  RowInv' /\ Unseen /\ NotYet' = NotYet
<1> DEFINE n == IF sending[r].answer = "taken" THEN 1 ELSE 0
           row == [ministry[r] EXCEPT !.excuses = @ + n]
<1>1. ministry[r] \in Ministry /\ n \in {0, 1}
    BY DEF RowInv, RowTypes
<1>2. /\ row \in Ministry /\ row.told = ministry[r].told /\ row.times = ministry[r].times
      /\ row.excuses = ministry[r].excuses + n
    BY <1>1 DEF Ministry
<1>3. ministry' = [ministry EXCEPT ![r] = row]
    <2>1. (IF sending[r].answer = "taken" THEN ministry[r].excuses + 1 ELSE ministry[r].excuses)
              = ministry[r].excuses + n
        BY <1>1 DEF Ministry
    <2> QED BY <2>1 DEF RowInv, RowTypes
<1> HIDE DEF row
<1>4. /\ ministry' \in [Rental -> Ministry] /\ ministry'[r] = row
      /\ \A q \in Rental : q # r => ministry'[q] = ministry[q]
    BY <1>2, <1>3 DEF RowInv, RowTypes
<1>5. /\ sending' \in [Rental -> Transaction \cup {NoOne}] /\ sending'[r] = NoOne
      /\ \A q \in Rental : q # r => sending'[q] = sending[q]
    BY DEF RowInv, RowTypes
<1>6. RowTypes'
    BY <1>4, <1>5 DEF RowInv, RowTypes
<1>7. Reports'
    BY DEF RowInv, Reports
<1>8. Posting'
    BY <1>2, <1>4, <1>5 DEF RowInv, Posting, NoOne
<1>9. Account'
    <2> SUFFICES ASSUME NEW q \in Rental
                 PROVE  ministry'[q].times <= ministry'[q].excuses +
                            (IF Sent(q) \/ sending'[q].answer = "taken" THEN 1 ELSE 0)
        BY DEF Account, Sent
    <2>1. ministry[q].times <= ministry[q].excuses +
              (IF Sent(q) \/ sending[q].answer = "taken" THEN 1 ELSE 0)
        BY DEF RowInv, Account
    <2>2. ministry[r].times \in Nat /\ ministry[r].excuses \in Nat
        BY <1>1 DEF Ministry
    <2>3. CASE q = r
        BY <1>2, <1>4, <2>1, <2>2, <2>3
    <2>4. CASE q # r
        BY <1>4, <1>5, <2>1, <2>4
    <2> QED BY <2>3, <2>4
<1>10. Told' = Told
    BY <1>2, <1>4 DEF Told
<1>11. Kept' = Kept /\ NotYet' = NotYet
    BY DEF Kept, Sent, NotYet
<1> QED BY <1>6, <1>7, <1>8, <1>9, <1>10, <1>11 DEF RowInv, Unseen

-----------------------------------------------------------------------------
(* What a step leaves of the queue *)

LEMMA WaitingIsCounted ==
    /\ IsFiniteSet(NotYet) /\ Waiting \in Nat /\ Waiting <= Cardinality(Rental)
    /\ Cardinality(Rental) \in Nat
<1>1. NotYet \subseteq Rental
    BY DEF NotYet
<1> QED BY <1>1, SesAssumption, FS_Subset, FS_CardinalityType DEF Waiting

LEMMA OneWaitsLess ==
    ASSUME NEW r, NotYet' = NotYet \ {r}
    PROVE  Waiting' = IF r \in NotYet THEN Waiting - 1 ELSE Waiting
BY WaitingIsCounted, FS_RemoveElement DEF Waiting

LEMMA SendsAreCounted ==
    ASSUME NEW queue, Shape(queue)
    PROVE  Sends(queue) \in Nat /\ Sends(queue) <= Cardinality(queue)
<1>1. Of(queue, "send") \subseteq queue
    BY DEF Of
<1> QED BY <1>1, FS_Subset, FS_CardinalityType DEF Shape, Sends

\* Whoever sends keeps its task, if the transactions stay.
LEMMA PostersStay ==
    ASSUME Posters, sending' = sending, \A t \in tasks : t.at = "sending" => t \in tasks'
    PROVE  Posters'
BY DEF Posters, Posts

\* A step after which there are no more messages, to come or in the queue, and no new sweep.
LEMMA NumbersStay ==
    ASSUME QueueInv, Shape(tasks'), Waiting' \in Nat,
           Sends(tasks') + Waiting' <= Sends(tasks) + Waiting,
           \A m \in Of(tasks', "sweep") : m \in tasks
    PROVE  Numbers'
<1>1. Sends(tasks) \in Nat /\ Sends(tasks') \in Nat /\ Waiting \in Nat
    BY SendsAreCounted, WaitingIsCounted DEF QueueInv
<1>2. \A m \in Of(tasks', "sweep") : m \in Of(tasks, "sweep")
    BY DEF Of
<1>3. /\ Sends(tasks) + Waiting <= MaxTasks /\ MaxTasks \in Nat
      /\ Cardinality(Rental) \in Nat
    BY CeleryAssumption, WaitingIsCounted DEF QueueInv, Numbers
<1>4. Sends(tasks') + Waiting' <= MaxTasks
    BY <1>1, <1>3
<1>5. ASSUME NEW m \in Of(tasks', "sweep"), m.at = "queue"
      PROVE  Sends(tasks') + Waiting' + Cardinality(Rental) <= MaxTasks
    <2>1. Sends(tasks) + Waiting + Cardinality(Rental) <= MaxTasks
        BY <1>2, <1>5 DEF QueueInv, Numbers
    <2> QED BY <1>1, <1>3, <2>1
<1>6. ASSUME NEW m \in Of(tasks', "sweep"), m.at = "sweeping"
      PROVE  Sends(tasks') + Waiting' + Cardinality(m.seen) <= MaxTasks
    <2>1. Sends(tasks) + Waiting + Cardinality(m.seen) <= MaxTasks
        BY <1>2, <1>6 DEF QueueInv, Numbers
    <2>2. m.seen \subseteq Rental
        BY <1>2 DEF QueueInv, Shape, Fits, Of
    <2>3. Cardinality(m.seen) \in Nat
        BY <2>2, SesAssumption, FS_Subset, FS_CardinalityType
    <2> QED BY <1>1, <1>3, <2>1, <2>3
<1> QED BY <1>4, <1>5, <1>6 DEF Numbers

LEMMA KnownStays ==
    ASSUME QueueInv, Shape(tasks'), NotYet' \subseteq NotYet,
           \A m \in Of(tasks', "send") :
               m.obj \notin NotYet' \/ \E t \in Of(tasks, "send") : t.obj = m.obj
    PROVE  Known'
<1> SUFFICES ASSUME NEW m \in Of(tasks', "send") PROVE report'[m.obj].status # "none"
    BY DEF Known
<1>1. m.obj \in Rental
    BY DEF Shape, Fits, Of
<1>2. \A t \in Of(tasks, "send") : t.obj \notin NotYet
    BY DEF QueueInv, Known, NotYet
<1> QED BY <1>1, <1>2 DEF NotYet

\* The queue stays as it is.
LEMMA QueueStays ==
    ASSUME QueueInv, tasks' = tasks, NotYet' = NotYet
    PROVE  Shape(tasks') /\ Known' /\ Numbers'
<1>1. Shape(tasks')
    BY DEF QueueInv
<1>2. Waiting' = Waiting
    BY DEF Waiting
<1>3. Sends(tasks) \in Nat /\ Waiting \in Nat
    BY SendsAreCounted, WaitingIsCounted DEF QueueInv
<1>4. Numbers'
    BY <1>1, <1>2, <1>3, NumbersStay DEF Of
<1>5. Known'
    BY <1>1, KnownStays
<1> QED BY <1>1, <1>4, <1>5

\* A task ends.
LEMMA TaskEnds ==
    ASSUME QueueInv, NEW t \in tasks, tasks' = Ended(tasks, t), NotYet' = NotYet
    PROVE  Shape(tasks') /\ Known' /\ Numbers'
<1>1. Shape(tasks') /\ (Sends(tasks') = Sends(tasks) \/ Sends(tasks') = Sends(tasks) - 1)
    BY ShapeEnded DEF QueueInv
<1>2. Waiting' = Waiting
    BY DEF Waiting
<1>3. Sends(tasks) \in Nat /\ Waiting \in Nat
    BY SendsAreCounted, WaitingIsCounted DEF QueueInv
<1>4. \A name : Of(tasks', name) \subseteq Of(tasks, name)
    BY DEF Of, Ended
<1>5. \A m \in Of(tasks', "sweep") : m \in tasks
    BY <1>4 DEF Of
<1>6. Numbers'
    BY <1>1, <1>2, <1>3, <1>5, NumbersStay
<1>7. Known'
    BY <1>1, <1>4, KnownStays
<1> QED BY <1>1, <1>6, <1>7

\* A task that sends goes on.
LEMMA TaskGoesOn ==
    ASSUME QueueInv, NEW t \in tasks, t.name = "send", NotYet' = NotYet,
           NEW m \in Message(Ats), Fits(m), m.id = t.id, m.name = t.name, m.obj = t.obj,
           m.tries <= MaxRetries[t.name], tasks' = Ended(tasks, t) \cup {m}
    PROVE  Shape(tasks') /\ Known' /\ Numbers'
<1>1. Shape(tasks') /\ Sends(tasks') = Sends(tasks)
    BY ShapeMoved DEF QueueInv
<1>2. Waiting' = Waiting
    BY DEF Waiting
<1>3. Sends(tasks) \in Nat /\ Waiting \in Nat
    BY SendsAreCounted, WaitingIsCounted DEF QueueInv
<1>4. \A s \in Of(tasks', "sweep") : s \in tasks
    BY DEF Of, Ended
<1>5. Numbers'
    <2>1. Waiting' \in Nat /\ Sends(tasks') + Waiting' <= Sends(tasks) + Waiting
        BY <1>1, <1>2, <1>3
    <2> QED BY <1>1, <1>4, <2>1, NumbersStay
<1>6. t \in Of(tasks, "send")
    BY DEF Of
<1>7. \A s \in Of(tasks', "send") : \E u \in Of(tasks, "send") : u.obj = s.obj
    BY <1>6 DEF Of, Ended
<1>8. Known'
    BY <1>1, <1>7, KnownStays
<1> QED BY <1>1, <1>5, <1>8

LEMMA SendSteps ==
    ASSUME QueueInv, NEW t \in tasks, t.name = "send", NotYet' = NotYet,
           NEW at \in {"queue", "sending", "broken"}, tasks' = Step(tasks, t, at, {})
    PROVE  /\ Shape(tasks') /\ Known' /\ Numbers'
           /\ \E m \in tasks' : m.id = t.id /\ m.name = t.name /\ m.obj = t.obj /\ m.at = at
<1>1. /\ Shape(tasks) /\ {} \in SUBSET Rental /\ at \in Ats \cup {"queue"}
      /\ t.name = "send" => at # "sweeping"
      /\ t.name = "sweep" => at \in {"queue", "sweeping"}
    BY DEF QueueInv, Ats
<1>2. PICK m \in Message(Ats) :
          /\ tasks' = Ended(tasks, t) \cup {m} /\ Fits(m)
          /\ m.id = t.id /\ m.name = t.name /\ m.obj = t.obj /\ m.tries = t.tries
          /\ m.at = at
    BY <1>1, StepMoves
<1>3. m.tries <= MaxRetries[t.name]
    BY <1>2 DEF QueueInv, Shape, WellFormed
<1> QED BY <1>2, <1>3, TaskGoesOn

\* A message more.
LEMMA SendAdded ==
    ASSUME NEW queue, Shape(queue), NEW r \in Rental, NEW at \in {"queue", "promised"},
           Sends(queue) < MaxTasks
    PROVE  \E m \in Message(Ats) :
              /\ With(queue, "send", r, at) = queue \cup {m} /\ m.name = "send" /\ m.obj = r
              /\ Shape(queue \cup {m}) /\ Sends(queue \cup {m}) = Sends(queue) + 1
<1>1. /\ WellFormed(queue, Ats) /\ IsFiniteSet(queue) /\ r \in Nat /\ at \in Ats \cup {"queue"}
      /\ "send" \in DOMAIN MaxRetries /\ Cardinality(Of(queue, "send")) < MaxTasks
    BY SesAssumption DEF Shape, Ats, Sends
<1>2. PICK m \in Message(Ats) :
          /\ With(queue, "send", r, at) = queue \cup {m}
          /\ m.name = "send" /\ m.obj = r /\ m.at = at /\ m.seen = {} /\ m.tries = 0
          /\ \A t \in queue : t.name = "send" => t.id # m.id
    BY <1>1, WithIsNew
<1>3. Fits(m) /\ m.tries <= MaxRetries[m.name]
    BY <1>2, SesAssumption, CeleryAssumption DEF Fits
<1>4. Shape(queue \cup {m}) /\ Sends(queue \cup {m}) = Sends(queue) + 1
    BY <1>2, <1>3, ShapeAdded
<1> QED BY <1>2, <1>4

-----------------------------------------------------------------------------
(* The steps *)

LEMMA CheckInKeeps ==
    ASSUME Inv, NEW r \in Rental, CheckIn(r) PROVE Inv' /\ [Proof!Next]_<<Told, Kept>>
<1>1. /\ report[r].status = "none" /\ report' = [report EXCEPT ![r] = Prepared(r)]
      /\ content' = content /\ sending' = sending /\ ministry' = ministry
      /\ enabled' = enabled /\ edits' = edits /\ faults' = faults
      /\ tasks' = tasks \/ tasks' = With(tasks, "send", r, "promised")
    BY DEF CheckIn
<1>2. RowFree(r)
    BY <1>1 DEF Inv, RowInv, Posting, RowFree
<1>3. RowInv' /\ Unseen /\ NotYet' = NotYet \ {r}
    BY <1>1, <1>2, PrepareKeeps DEF Inv
<1>4. r \in NotYet /\ Waiting' = Waiting - 1
    BY <1>1, <1>3, OneWaitsLess DEF NotYet
<1>5. IsFiniteSet(NotYet) /\ Waiting \in Nat /\ Waiting >= 1
    <2>1. Waiting # 0
        BY <1>4, WaitingIsCounted, FS_EmptySet DEF Waiting
    <2> QED BY <2>1, WaitingIsCounted
<1>6. Waiting' \in Nat /\ Shape(tasks) /\ Sends(tasks) \in Nat
    BY <1>4, <1>5, SendsAreCounted DEF Inv, QueueInv
<1>7. CASE tasks' = tasks
    <2>1. Sends(tasks') + Waiting' <= Sends(tasks) + Waiting
        BY <1>4, <1>5, <1>6, <1>7
    <2>2. Shape(tasks') /\ \A m \in Of(tasks', "sweep") : m \in tasks
        BY <1>6, <1>7 DEF Of
    <2>3. Numbers'
        BY <1>6, <2>1, <2>2, NumbersStay DEF Inv
    <2>4. Known'
        BY <1>3, <1>7, <2>2, KnownStays DEF Inv
    <2>5. Posters'
        BY <1>1, <1>7, PostersStay DEF Inv, QueueInv
    <2> QED BY <1>1, <1>3, <2>2, <2>3, <2>4, <2>5, UnseenIsStutter DEF Inv, QueueInv, Bounds
<1>8. CASE tasks' = With(tasks, "send", r, "promised")
    <2>1. Sends(tasks) < MaxTasks
        BY <1>5, <1>6, CeleryAssumption DEF Inv, QueueInv, Numbers
    <2>2. PICK m \in Message(Ats) :
              /\ tasks' = tasks \cup {m} /\ m.name = "send" /\ m.obj = r
              /\ Shape(tasks') /\ Sends(tasks') = Sends(tasks) + 1
        <3>1. "promised" \in {"queue", "promised"}
            OBVIOUS
        <3>2. PICK m \in Message(Ats) :
                  /\ With(tasks, "send", r, "promised") = tasks \cup {m}
                  /\ m.name = "send" /\ m.obj = r
                  /\ Shape(tasks \cup {m}) /\ Sends(tasks \cup {m}) = Sends(tasks) + 1
            BY <1>6, <2>1, <3>1, SendAdded
        <3>3. tasks' = tasks \cup {m}
            BY <1>8, <3>2
        <3> QED BY <3>2, <3>3
    <2>3. \A s \in Of(tasks', "sweep") : s \in tasks
        BY <2>2 DEF Of
    <2>4. Sends(tasks') + Waiting' <= Sends(tasks) + Waiting
        BY <1>4, <1>5, <1>6, <2>2
    <2>5. Numbers'
        BY <1>6, <2>2, <2>3, <2>4, NumbersStay DEF Inv
    <2>6. \A s \in Of(tasks', "send") : s.obj \notin NotYet' \/ \E t \in Of(tasks, "send") : t.obj = s.obj
        BY <1>3, <2>2 DEF Of
    <2>7. Known'
        BY <1>3, <2>2, <2>6, KnownStays DEF Inv
    <2>8. Posters'
        BY <1>1, <2>2, PostersStay DEF Inv, QueueInv
    <2> QED BY <1>1, <1>3, <2>2, <2>5, <2>7, <2>8, UnseenIsStutter DEF Inv, QueueInv, Bounds
<1> QED BY <1>1, <1>7, <1>8

LEMMA RevalidateKeeps ==
    ASSUME Inv, NEW r \in Rental, Revalidate(r) PROVE Inv' /\ [Proof!Next]_<<Told, Kept>>
<1>1. /\ RowFree(r) /\ report[r].status # "none" /\ report' = [report EXCEPT ![r] = Prepared(r)]
      /\ content' = content /\ sending' = sending /\ ministry' = ministry
      /\ enabled' = enabled /\ edits' = edits /\ faults' = faults /\ tasks' = tasks
    BY DEF Revalidate
<1>2. RowInv' /\ Unseen /\ NotYet' = NotYet \ {r}
    BY <1>1, PrepareKeeps DEF Inv
<1>3. NotYet' = NotYet
    BY <1>1, <1>2 DEF NotYet
<1>4. Shape(tasks') /\ Known' /\ Numbers'
    BY <1>1, <1>3, QueueStays DEF Inv
<1>5. Posters'
    BY <1>1, PostersStay DEF Inv, QueueInv
<1> QED BY <1>1, <1>2, <1>4, <1>5, UnseenIsStutter DEF Inv, QueueInv, Bounds

LEMMA ChangeKeeps ==
    ASSUME Inv, NEW r \in Rental, NEW payload, Change(r, payload)
    PROVE  Inv' /\ [Proof!Next]_<<Told, Kept>>
<1>1. /\ payload \in Payload /\ content' = [content EXCEPT ![r] = payload]
      /\ report' = report /\ sending' = sending /\ ministry' = ministry /\ tasks' = tasks
      /\ edits < MaxEdits /\ edits' = edits + 1 /\ enabled' = enabled /\ faults' = faults
    BY DEF Change
<1>2. content' \in [Rental -> Payload]
    BY <1>1 DEF Inv, RowInv, RowTypes
<1>3. RowInv' /\ Unseen /\ NotYet' = NotYet
    BY <1>1, <1>2, RowsKept DEF Inv
<1>4. Shape(tasks') /\ Known' /\ Numbers'
    BY <1>1, <1>3, QueueStays DEF Inv
<1>5. Posters'
    BY <1>1, PostersStay DEF Inv, QueueInv
<1>6. Bounds'
    BY <1>1, SesAssumption DEF Inv, Bounds
<1> QED BY <1>3, <1>4, <1>5, <1>6, UnseenIsStutter DEF Inv, QueueInv

LEMMA TurnOnKeeps == ASSUME Inv, TurnOn PROVE Inv' /\ [Proof!Next]_<<Told, Kept>>
<1>1. /\ content' = content /\ report' = report /\ sending' = sending /\ ministry' = ministry
      /\ tasks' = tasks /\ enabled' = TRUE /\ edits' = edits /\ faults' = faults
    BY DEF TurnOn
<1>2. RowInv' /\ Unseen /\ NotYet' = NotYet
    BY <1>1, RowsKept DEF Inv, RowInv, RowTypes
<1>3. Shape(tasks') /\ Known' /\ Numbers'
    BY <1>1, <1>2, QueueStays DEF Inv
<1>4. Posters'
    BY <1>1, PostersStay DEF Inv, QueueInv
<1> QED BY <1>1, <1>2, <1>3, <1>4, UnseenIsStutter DEF Inv, QueueInv, Bounds

LEMMA FaultCounts == ASSUME Bounds, Fault PROVE faults' \in 0..MaxFaults
BY SesAssumption DEF Bounds, Fault

LEMMA ClerkSendsKeeps ==
    ASSUME Inv, NEW r \in Rental, ClerkSends(r) PROVE Inv' /\ [Proof!Next]_<<Told, Kept>>
<1>1. /\ report[r].status # "none" /\ tasks' = tasks /\ content' = content /\ ministry' = ministry
      /\ enabled' = enabled /\ edits' = edits /\ faults' = faults
    BY DEF ClerkSends
<1>2. CASE OpenPost(r, "clerk", 0) /\ report' = report
    <2>1. 0 \in 0..MaxTasks
        BY CeleryAssumption
    <2>2. RowInv' /\ Unseen /\ NotYet' = NotYet
        BY <1>1, <1>2, <2>1, OpenPostKeeps DEF Inv
    <2>3. Shape(tasks') /\ Known' /\ Numbers'
        BY <1>1, <2>2, QueueStays DEF Inv
    <2>4. sending' = [sending EXCEPT ![r] = [by |-> "clerk", task |-> 0, answer |-> "none"]]
        BY <1>2 DEF OpenPost
    <2>5. sending'[r].by = "clerk" /\ \A q \in Rental : q # r => sending'[q] = sending[q]
        BY <2>4 DEF Inv, RowInv, RowTypes
    <2>6. Posters'
        BY <1>1, <2>5 DEF Inv, QueueInv, Posters, Posts
    <2> QED BY <1>1, <2>2, <2>3, <2>6, UnseenIsStutter DEF Inv, QueueInv, Bounds
<1>3. CASE Simulate(r) /\ sending' = sending
    <2>1. RowInv' /\ Unseen /\ NotYet' = NotYet
        BY <1>1, <1>3, SimulateKeeps DEF Inv
    <2>2. Shape(tasks') /\ Known' /\ Numbers'
        BY <1>1, <2>1, QueueStays DEF Inv
    <2>3. Posters'
        BY <1>1, <1>3, PostersStay DEF Inv, QueueInv
    <2> QED BY <1>1, <2>1, <2>2, <2>3, UnseenIsStutter DEF Inv, QueueInv, Bounds
<1> QED BY <1>2, <1>3 DEF ClerkSends

LEMMA AnswerStep ==
    ASSUME Inv, NEW r \in Rental, Answer(r) PROVE Inv' /\ [Proof!Next]_<<Told, Kept>>
<1>1. RowInv' /\ [Proof!Next]_<<Told, Kept>> /\ NotYet' = NotYet
    BY AnswerKeeps DEF Inv
<1>2. /\ tasks' = tasks /\ enabled' = enabled /\ edits' = edits /\ (faults' = faults \/ Fault)
      /\ \E a \in Answers : sending' = [sending EXCEPT ![r].answer = a]
    BY DEF Answer
<1>3. Shape(tasks') /\ Known' /\ Numbers'
    BY <1>1, <1>2, QueueStays DEF Inv
<1>4. \A q \in Rental : sending'[q].by = sending[q].by /\ sending'[q].task = sending[q].task
    <2>1. sending[r] # NoOne
        BY DEF Answer
    <2>2. sending[r] \in Transaction
        BY <2>1 DEF Inv, RowInv, RowTypes
    <2> QED BY <1>2, <2>2 DEF Inv, RowInv, RowTypes, Transaction
<1>5. Posters'
    BY <1>2, <1>4 DEF Inv, QueueInv, Posters, Posts
<1>6. Bounds'
    BY <1>2, FaultCounts DEF Inv, Bounds
<1> QED BY <1>1, <1>3, <1>5, <1>6 DEF Inv, QueueInv

\* Whoever commits finds its own task.
LEMMA PosterIsFound ==
    ASSUME QueueInv, NEW r \in Rental, sending[r].by = "task"
    PROVE  TaskOf(r) \in tasks /\ Posts(TaskOf(r), r)
<1>1. PICK t \in tasks : Posts(t, r)
    BY DEF QueueInv, Posters
<1>2. \A s \in tasks : s.name = "send" /\ s.id = sending[r].task => s = t
    BY <1>1 DEF QueueInv, Shape, WellFormed, Posts
<1>3. TaskOf(r) = t
    BY <1>1, <1>2 DEF TaskOf, Posts
<1> QED BY <1>1, <1>3

\* A transaction is over, and its task has left the step of sending.
LEMMA PostersLeft ==
    ASSUME QueueInv, NEW r \in Rental, sending \in [Rental -> Transaction \cup {NoOne}],
           sending' = [sending EXCEPT ![r] = NoOne],
           \/ tasks' = tasks
           \/ \E t \in tasks : Posts(t, r) /\ Ended(tasks, t) \subseteq tasks'
    PROVE  Posters'
<1> SUFFICES ASSUME NEW q \in Rental, sending'[q].by = "task"
             PROVE  \E s \in tasks' : s.name = "send" /\ s.id = sending'[q].task
                                      /\ s.at = "sending" /\ s.obj = q
    BY DEF Posters, Posts
<1>1. q # r /\ sending'[q] = sending[q]
    BY DEF NoOne
<1>2. PICK s \in tasks : Posts(s, q)
    BY <1>1 DEF QueueInv, Posters
<1>3. s \in tasks'
    BY <1>1, <1>2 DEF Posts, Ended
<1> QED BY <1>1, <1>2, <1>3 DEF Posts

LEMMA CommitSendKeeps ==
    ASSUME Inv, NEW r \in Rental, CommitSend(r) PROVE Inv' /\ [Proof!Next]_<<Told, Kept>>
<1>1. /\ sending[r].answer \in Answers /\ report' = [report EXCEPT ![r] = Saved(@, sending[r].answer)]
      /\ sending' = [sending EXCEPT ![r] = NoOne]
      /\ content' = content /\ ministry' = ministry
      /\ enabled' = enabled /\ edits' = edits /\ faults' = faults
    BY DEF CommitSend
<1>2. RowInv' /\ [Proof!Next]_<<Told, Kept>> /\ NotYet' = NotYet
    BY <1>1, SavedKeeps DEF Inv
<1>3. sending[r].by \in {"clerk", "task"}
    BY <1>1 DEF Inv, RowInv, RowTypes, Transaction, NoOne, Answers
<1>4. CASE sending[r].by = "clerk"
    <2>1. tasks' = tasks
        BY <1>4 DEF CommitSend
    <2>2. Shape(tasks') /\ Known' /\ Numbers'
        BY <1>2, <2>1, QueueStays DEF Inv
    <2>3. Posters'
        BY <1>1, <2>1, PostersLeft DEF Inv, RowInv, RowTypes
    <2> QED BY <1>1, <1>2, <2>2, <2>3 DEF Inv, QueueInv, Bounds
<1>5. CASE sending[r].by = "task"
    <2>1. TaskOf(r) \in tasks /\ Posts(TaskOf(r), r)
        BY <1>5, PosterIsFound DEF Inv
    <2> DEFINE t == TaskOf(r)
    <2>2. tasks' = Step(tasks, t, "broken", {}) \/ tasks' = Ended(tasks, t)
        BY <1>5 DEF CommitSend
    <2>3. t \in tasks /\ Posts(t, r) /\ t.name = "send"
        BY <2>1 DEF Posts
    <2> HIDE DEF t
    <2>4. Shape(tasks') /\ Known' /\ Numbers'
        <3>1. CASE tasks' = Step(tasks, t, "broken", {})
            BY <1>2, <2>3, <3>1, SendSteps DEF Inv
        <3>2. CASE tasks' = Ended(tasks, t)
            BY <1>2, <2>3, <3>2, TaskEnds DEF Inv
        <3> QED BY <2>2, <3>1, <3>2
    <2>5. Ended(tasks, t) \subseteq tasks'
        BY <2>2 DEF Ended, Step
    <2>6. Posters'
        BY <1>1, <2>3, <2>5, PostersLeft DEF Inv, RowInv, RowTypes
    <2> QED BY <1>1, <1>2, <2>4, <2>6 DEF Inv, QueueInv, Bounds
<1> QED BY <1>3, <1>4, <1>5

LEMMA SendBreaksKeeps ==
    ASSUME Inv, NEW r \in Rental, SendBreaks(r) PROVE Inv' /\ [Proof!Next]_<<Told, Kept>>
<1>1. /\ sending[r] # NoOne /\ sending' = [sending EXCEPT ![r] = NoOne]
      /\ ministry' = [ministry EXCEPT ![r].excuses =
                          IF sending[r].answer = "taken" THEN @ + 1 ELSE @]
      /\ content' = content /\ report' = report /\ enabled' = enabled /\ edits' = edits
      /\ faults' \in 0..MaxFaults
    BY FaultCounts DEF SendBreaks, Inv
<1>2. RowInv' /\ Unseen /\ NotYet' = NotYet
    BY <1>1, UndoneKeeps DEF Inv
<1>3. Bounds'
    BY <1>1 DEF Inv, Bounds
<1>4. CASE sending[r].by # "task"
    <2>1. tasks' = tasks
        BY <1>4 DEF SendBreaks
    <2>2. Shape(tasks') /\ Known' /\ Numbers'
        BY <1>2, <2>1, QueueStays DEF Inv
    <2>3. Posters'
        BY <1>1, <2>1, PostersLeft DEF Inv, RowInv, RowTypes
    <2> QED BY <1>2, <1>3, <2>2, <2>3, UnseenIsStutter DEF Inv, QueueInv
<1>5. CASE sending[r].by = "task"
    <2>1. TaskOf(r) \in tasks /\ Posts(TaskOf(r), r)
        BY <1>5, PosterIsFound DEF Inv
    <2> DEFINE t == TaskOf(r)
    <2>2. tasks' = Step(tasks, t, "queue", {}) \/ tasks' = Ended(tasks, t)
        BY <1>5 DEF SendBreaks, Redelivered
    <2>3. t \in tasks /\ Posts(t, r) /\ t.name = "send"
        BY <2>1 DEF Posts
    <2> HIDE DEF t
    <2>4. Shape(tasks') /\ Known' /\ Numbers'
        <3>1. CASE tasks' = Step(tasks, t, "queue", {})
            BY <1>2, <2>3, <3>1, SendSteps DEF Inv
        <3>2. CASE tasks' = Ended(tasks, t)
            BY <1>2, <2>3, <3>2, TaskEnds DEF Inv
        <3> QED BY <2>2, <3>1, <3>2
    <2>5. Ended(tasks, t) \subseteq tasks'
        BY <2>2 DEF Ended, Step
    <2>6. Posters'
        BY <1>1, <2>3, <2>5, PostersLeft DEF Inv, RowInv, RowTypes
    <2> QED BY <1>2, <1>3, <2>4, <2>6, UnseenIsStutter DEF Inv, QueueInv
<1> QED BY <1>4, <1>5

LEMMA EnqueueKeeps ==
    ASSUME Inv, NEW t \in tasks, Enqueue(t) PROVE Inv' /\ [Proof!Next]_<<Told, Kept>>
<1>1. /\ t.at = "promised" /\ content' = content /\ report' = report /\ sending' = sending
      /\ ministry' = ministry /\ enabled' = enabled /\ edits' = edits
      /\ faults' = faults \/ Fault
      /\ tasks' = Step(tasks, t, "queue", {}) \/ tasks' = Ended(tasks, t)
    BY DEF Enqueue
<1>2. RowInv' /\ Unseen /\ NotYet' = NotYet
    BY <1>1, RowsKept DEF Inv, RowInv, RowTypes
<1>3. t.name = "send"
    BY <1>1, SesAssumption DEF Inv, QueueInv, Shape, WellFormed, Message, Fits
<1>4. Shape(tasks') /\ Known' /\ Numbers'
    <2>1. CASE tasks' = Step(tasks, t, "queue", {})
        BY <1>2, <1>3, <2>1, SendSteps DEF Inv
    <2>2. CASE tasks' = Ended(tasks, t)
        BY <1>2, <2>2, TaskEnds DEF Inv
    <2> QED BY <1>1, <2>1, <2>2
<1>5. \A s \in tasks : s.at = "sending" => s \in tasks'
    BY <1>1 DEF Ended, Step
<1>6. Posters'
    BY <1>1, <1>5, PostersStay DEF Inv, QueueInv
<1>7. Bounds'
    BY <1>1, FaultCounts DEF Inv, Bounds
<1> QED BY <1>2, <1>4, <1>6, <1>7, UnseenIsStutter DEF Inv, QueueInv

LEMMA AfterSendKeeps ==
    ASSUME Inv, NEW t \in tasks, AfterSend(t) PROVE Inv' /\ [Proof!Next]_<<Told, Kept>>
<1>1. /\ t.at = "broken" /\ content' = content /\ report' = report /\ sending' = sending
      /\ ministry' = ministry /\ enabled' = enabled /\ edits' = edits /\ faults' = faults
      /\ \/ CanRetry(t) /\ tasks' = Retried(tasks, t)
         \/ tasks' = Ended(tasks, t)
    BY DEF AfterSend
<1>2. RowInv' /\ Unseen /\ NotYet' = NotYet
    BY <1>1, RowsKept DEF Inv, RowInv, RowTypes
<1>3. t \in Message(Ats) /\ Fits(t) /\ t.name = "send"
    BY <1>1, SesAssumption DEF Inv, QueueInv, Shape, WellFormed, Message, Fits
<1>4. Shape(tasks') /\ Known' /\ Numbers'
    <2>1. CASE CanRetry(t) /\ tasks' = Retried(tasks, t)
        <3> DEFINE m == [t EXCEPT !.at = "queue", !.seen = {}, !.tries = @ + 1]
        <3>0. t.tries \in Nat /\ t.tries + 1 \in Nat
            BY <1>3 DEF Message
        <3>1. /\ m \in Message(Ats) /\ m.id = t.id /\ m.name = t.name /\ m.obj = t.obj
              /\ m.at = "queue" /\ m.tries = t.tries + 1
            BY <1>3, <3>0 DEF Message
        <3>2. tasks' = Ended(tasks, t) \cup {m}
            BY <2>1 DEF Retried, Ended
        <3> HIDE DEF m
        <3>3. Fits(m)
            BY <1>3, <3>1 DEF Fits
        <3>4. m.tries <= MaxRetries[t.name]
            BY <1>3, <2>1, <3>1, CeleryAssumption, SesAssumption DEF CanRetry, Message
        <3> QED BY <1>2, <1>3, <3>1, <3>2, <3>3, <3>4, TaskGoesOn DEF Inv
    <2>2. CASE tasks' = Ended(tasks, t)
        BY <1>2, <2>2, TaskEnds DEF Inv
    <2> QED BY <1>1, <2>1, <2>2
<1>5. \A s \in tasks : s.at = "sending" => s \in tasks'
    BY <1>1 DEF Ended, Retried
<1>6. Posters'
    BY <1>1, <1>5, PostersStay DEF Inv, QueueInv
<1>7. Bounds'
    BY <1>1 DEF Inv, Bounds
<1> QED BY <1>2, <1>4, <1>6, <1>7, UnseenIsStutter DEF Inv, QueueInv

LEMMA TaskSendsKeeps ==
    ASSUME Inv, NEW t \in tasks, TaskSends(t) PROVE Inv' /\ [Proof!Next]_<<Told, Kept>>
<1> DEFINE r == t.obj
<1>1. /\ t.name = "send" /\ t.at = "queue" /\ content' = content /\ ministry' = ministry
      /\ enabled' = enabled /\ edits' = edits /\ faults' = faults
    BY DEF TaskSends
<1>2. r \in Rental /\ report[r].status # "none" /\ t.id \in 1..MaxTasks
    BY <1>1 DEF Inv, QueueInv, Shape, WellFormed, Message, Fits, Known, Of
<1>3. Bounds'
    BY <1>1 DEF Inv, Bounds
<1> HIDE DEF r
<1>4. CASE /\ OpenPost(r, "task", t.id)
           /\ tasks' = Step(tasks, t, "sending", {}) /\ report' = report
    <2>1. RowInv' /\ Unseen /\ NotYet' = NotYet
        BY <1>1, <1>2, <1>4, OpenPostKeeps DEF Inv
    <2>2. /\ Shape(tasks') /\ Known' /\ Numbers'
          /\ \E m \in tasks' : m.id = t.id /\ m.name = t.name /\ m.obj = t.obj /\ m.at = "sending"
        BY <1>1, <1>4, <2>1, SendSteps DEF Inv
    <2>3. sending' = [sending EXCEPT ![r] = [by |-> "task", task |-> t.id, answer |-> "none"]]
        BY <1>4 DEF OpenPost
    <2>4. sending'[r].task = t.id /\ \A q \in Rental : q # r => sending'[q] = sending[q]
        BY <1>2, <2>3 DEF Inv, RowInv, RowTypes
    <2>5. Posters'
        <3> SUFFICES ASSUME NEW q \in Rental, sending'[q].by = "task"
                     PROVE  \E s \in tasks' : s.name = "send" /\ s.id = sending'[q].task
                                              /\ s.at = "sending" /\ s.obj = q
            BY DEF Posters, Posts
        <3>1. CASE q = r
            BY <1>1, <2>2, <2>4, <3>1 DEF r
        <3>2. CASE q # r
            <4>1. PICK s \in tasks : Posts(s, q)
                BY <2>4, <3>2 DEF Inv, QueueInv, Posters
            <4>2. s \in tasks'
                BY <1>1, <1>4, <4>1 DEF Posts, Step
            <4> QED BY <2>4, <3>2, <4>1, <4>2 DEF Posts
        <3> QED BY <3>1, <3>2
    <2> QED BY <1>3, <2>1, <2>2, <2>5, UnseenIsStutter DEF Inv, QueueInv
<1>5. CASE tasks' = Ended(tasks, t) /\ sending' = sending /\ (Simulate(r) \/ report' = report)
    <2>1. RowInv' /\ Unseen /\ NotYet' = NotYet
        <3>1. CASE Simulate(r)
            BY <1>1, <1>2, <1>5, <3>1, SimulateKeeps DEF Inv
        <3>2. CASE report' = report
            BY <1>1, <1>5, <3>2, RowsKept DEF Inv, RowInv, RowTypes
        <3> QED BY <1>5, <3>1, <3>2
    <2>2. Shape(tasks') /\ Known' /\ Numbers'
        BY <1>5, <2>1, TaskEnds DEF Inv
    <2>3. Posters'
        BY <1>1, <1>5, PostersStay DEF Inv, QueueInv, Ended
    <2> QED BY <1>3, <2>1, <2>2, <2>3, UnseenIsStutter DEF Inv, QueueInv
<1> QED BY <1>4, <1>5 DEF TaskSends, r

LEMMA BeatKeeps == ASSUME Inv, Beat PROVE Inv' /\ [Proof!Next]_<<Told, Kept>>
<1>1. /\ content' = content /\ report' = report /\ sending' = sending /\ ministry' = ministry
      /\ enabled' = enabled /\ edits' = edits /\ faults' = faults
      /\ tasks' = With(tasks, "sweep", 0, "queue")
    BY DEF Beat
<1>2. RowInv' /\ Unseen /\ NotYet' = NotYet
    BY <1>1, RowsKept DEF Inv, RowInv, RowTypes
<1>3. Of(tasks, "sweep") = {} /\ Cardinality(tasks) < MaxOpen
    BY DEF Beat, Of, Room
<1>4. /\ Shape(tasks) /\ Sends(tasks) \in Nat /\ Sends(tasks) <= Cardinality(tasks)
      /\ Cardinality(tasks) \in Nat
    BY SendsAreCounted, FS_CardinalityType DEF Inv, QueueInv, Shape
<1>5. /\ MaxOpen \in Nat /\ MaxTasks \in Nat /\ MaxTasks >= MaxOpen + 2 * Cardinality(Rental)
      /\ Waiting \in Nat /\ Waiting <= Cardinality(Rental) /\ Cardinality(Rental) \in Nat
    BY SesAssumption, CeleryAssumption, WaitingIsCounted
<1>6. PICK m \in Message(Ats) :
          /\ tasks' = tasks \cup {m}
          /\ m.name = "sweep" /\ m.at = "queue" /\ m.seen = {} /\ m.tries = 0
          /\ \A t \in tasks : t.name = "sweep" => t.id # m.id
    <2>1. Cardinality(Of(tasks, "sweep")) < MaxTasks
        <3>1. Cardinality(Of(tasks, "sweep")) = 0
            BY <1>3, FS_EmptySet
        <3>2. 0 < MaxTasks
            BY <1>3, <1>4, <1>5
        <3> QED BY <3>1, <3>2
    <2>2. /\ WellFormed(tasks, Ats) /\ IsFiniteSet(tasks) /\ "sweep" \in DOMAIN MaxRetries
          /\ 0 \in Nat /\ "queue" \in Ats \cup {"queue"}
        BY <1>4, SesAssumption DEF Shape
    <2>3. \E m \in Message(Ats) :
              /\ With(tasks, "sweep", 0, "queue") = tasks \cup {m}
              /\ m.name = "sweep" /\ m.obj = 0 /\ m.at = "queue" /\ m.seen = {} /\ m.tries = 0
              /\ \A t \in tasks : t.name = "sweep" => t.id # m.id
        BY <2>1, <2>2, WithIsNew
    <2> QED BY <1>1, <2>3
<1>7. Fits(m) /\ m.tries <= MaxRetries[m.name]
    BY <1>6, SesAssumption, CeleryAssumption DEF Fits
<1>8. Shape(tasks') /\ Sends(tasks') = Sends(tasks)
    BY <1>3, <1>4, <1>6, <1>7, ShapeAdded
<1>9. Of(tasks', "sweep") = {m}
    BY <1>3, <1>6 DEF Of
<1>10. Waiting' = Waiting
    BY <1>2 DEF Waiting
<1>11. Sends(tasks') + Waiting' + Cardinality(Rental) <= MaxTasks
    BY <1>3, <1>4, <1>5, <1>8, <1>10
<1>12. Numbers'
    <2>1. Sends(tasks') + Waiting' <= MaxTasks
        BY <1>4, <1>5, <1>8, <1>10, <1>11
    <2> QED BY <1>6, <1>9, <1>11, <2>1 DEF Numbers
<1>13. Known'
    <2>1. \A s \in Of(tasks', "send") : s \in Of(tasks, "send")
        BY <1>6 DEF Of
    <2> QED BY <1>2, <1>8, <2>1, KnownStays DEF Inv
<1>14. Posters'
    BY <1>1, <1>6, PostersStay DEF Inv, QueueInv
<1> QED BY <1>1, <1>2, <1>8, <1>12, <1>13, <1>14, UnseenIsStutter DEF Inv, QueueInv, Bounds

LEMMA StartSweepKeeps ==
    ASSUME Inv, NEW t \in tasks, StartSweep(t) PROVE Inv' /\ [Proof!Next]_<<Told, Kept>>
<1>1. /\ content' = content /\ report' = report /\ sending' = sending /\ ministry' = ministry
      /\ enabled' = enabled /\ edits' = edits /\ faults' = faults
      /\ t.name = "sweep" /\ t.at = "queue"
      /\ tasks' = Ended(tasks, t) \/ tasks' = Step(tasks, t, "sweeping", Pending)
    BY DEF StartSweep
<1>2. RowInv' /\ Unseen /\ NotYet' = NotYet
    BY <1>1, RowsKept DEF Inv, RowInv, RowTypes
<1>3. Posters'
    BY <1>1, PostersStay DEF Inv, QueueInv, Ended, Step
<1>4. CASE tasks' = Ended(tasks, t)
    <2>1. Shape(tasks') /\ Known' /\ Numbers'
        BY <1>2, <1>4, TaskEnds DEF Inv
    <2> QED BY <1>1, <1>2, <1>3, <2>1, UnseenIsStutter DEF Inv, QueueInv, Bounds
<1>5. CASE tasks' = Step(tasks, t, "sweeping", Pending)
    <2>1. Shape(tasks) /\ Pending \in SUBSET Rental /\ "sweeping" \in Ats \cup {"queue"}
        BY DEF Inv, QueueInv, Ats, Pending
    <2>2. PICK m \in Message(Ats) :
              /\ Step(tasks, t, "sweeping", Pending) = Ended(tasks, t) \cup {m}
              /\ m.name = t.name /\ m.at = "sweeping" /\ m.seen = Pending
        BY <1>1, <2>1, StepMoves
    <2>3. /\ Shape(Step(tasks, t, "sweeping", Pending))
          /\ Sends(Step(tasks, t, "sweeping", Pending)) = Sends(tasks)
        BY <1>1, <2>1, StepMoves
    <2>4. Shape(tasks') /\ Sends(tasks') = Sends(tasks) /\ tasks' = Ended(tasks, t) \cup {m}
        BY <1>5, <2>2, <2>3
    <2>5. Sends(tasks) + Waiting + Cardinality(Rental) <= MaxTasks /\ t \in Of(tasks, "sweep")
        BY <1>1 DEF Inv, QueueInv, Numbers, Of
    <2>6. Of(tasks', "sweep") = {m}
        <3>1. \A s \in tasks : s.name = "sweep" => s = t
            BY <2>1, <2>5 DEF Shape, Of
        <3> QED BY <1>1, <2>2, <2>4, <3>1 DEF Of, Ended
    <2>7. Cardinality(Pending) \in Nat /\ Cardinality(Pending) <= Cardinality(Rental)
        BY <2>1, SesAssumption, FS_Subset, FS_CardinalityType
    <2>8. Sends(tasks) \in Nat /\ Waiting \in Nat /\ Cardinality(Rental) \in Nat /\ MaxTasks \in Nat
        BY <2>1, SendsAreCounted, WaitingIsCounted, CeleryAssumption
    <2>9. Waiting' = Waiting
        BY <1>2 DEF Waiting
    <2>10. Numbers'
        <3>1. Sends(tasks') + Waiting' <= MaxTasks
            BY <2>4, <2>5, <2>8, <2>9
        <3>2. Sends(tasks') + Waiting' + Cardinality(m.seen) <= MaxTasks
            BY <2>2, <2>4, <2>5, <2>7, <2>8, <2>9
        <3> QED BY <2>2, <2>6, <3>1, <3>2 DEF Numbers
    <2>11. \A s \in Of(tasks', "send") : s \in Of(tasks, "send")
        BY <1>1, <2>2, <2>4 DEF Of, Ended
    <2>12. Known'
        BY <1>2, <2>4, <2>11, KnownStays DEF Inv
    <2> QED BY <1>1, <1>2, <1>3, <2>4, <2>10, <2>12, UnseenIsStutter DEF Inv, QueueInv, Bounds
<1> QED BY <1>1, <1>4, <1>5

LEMMA SweepOneKeeps ==
    ASSUME Inv, NEW t \in tasks, t.name = "sweep", NEW r \in t.seen, SweepOne(t, r)
    PROVE  Inv' /\ [Proof!Next]_<<Told, Kept>>
<1> DEFINE left == [t EXCEPT !.seen = @ \ {r}]
           rest == Ended(tasks, t) \cup (IF left.seen = {} THEN {} ELSE {left})
<1>1. /\ t.at = "sweeping" /\ RowFree(r) /\ report' = [report EXCEPT ![r] = Prepared(r)]
      /\ content' = content /\ sending' = sending /\ ministry' = ministry
      /\ enabled' = enabled /\ edits' = edits
      /\ \/ tasks' = With(rest, "send", r, "queue") /\ SweepSends(report'[r]) /\ faults' = faults
         \/ tasks' = rest /\ faults' = faults
         \/ tasks' = Ended(tasks, t) /\ Fault
    BY DEF SweepOne
<1>2. t \in Message(Ats) /\ Fits(t) /\ t.tries <= MaxRetries[t.name] /\ Shape(tasks)
    BY DEF Inv, QueueInv, Shape, WellFormed
<1>3. t.seen \subseteq Rental /\ r \in Rental
    BY <1>2 DEF Fits
<1>4. RowInv' /\ Unseen /\ NotYet' = NotYet \ {r}
    BY <1>1, <1>3, PrepareKeeps DEF Inv
<1>5. Bounds'
    BY <1>1, FaultCounts DEF Inv, Bounds
<1>6. Waiting' \in Nat /\ Waiting' <= Waiting /\ Waiting \in Nat /\ Sends(tasks) \in Nat /\ MaxTasks \in Nat
    <2>1. Waiting' = Waiting \/ (Waiting' = Waiting - 1 /\ NotYet # {})
        BY <1>4, OneWaitsLess
    <2>2. Waiting \in Nat /\ (NotYet # {} => Waiting # 0)
        BY WaitingIsCounted, FS_EmptySet DEF Waiting
    <2> QED BY <1>2, <2>1, <2>2, SendsAreCounted, CeleryAssumption
<1>7. /\ Cardinality(t.seen) \in Nat /\ Cardinality(t.seen) >= 1
      /\ Cardinality(t.seen \ {r}) = Cardinality(t.seen) - 1
    <2>1. IsFiniteSet(t.seen)
        BY <1>3, SesAssumption, FS_Subset
    <2>2. Cardinality(t.seen) # 0
        BY <2>1, FS_EmptySet
    <2> QED BY <2>1, <2>2, FS_CardinalityType, FS_RemoveElement
<1>8. Sends(tasks) + Waiting + Cardinality(t.seen) <= MaxTasks
    BY <1>1 DEF Inv, QueueInv, Numbers, Of
<1>9. /\ left \in Message(Ats) /\ left.id = t.id /\ left.name = "sweep" /\ left.obj = t.obj
      /\ left.tries = t.tries /\ left.at = "sweeping" /\ left.seen = t.seen \ {r}
    BY <1>1, <1>2 DEF Message
<1>10. \A s \in Ended(tasks, t) : s.name # "sweep"
    BY <1>2 DEF Ended, Shape, Of
<1> HIDE DEF left
<1>11. Fits(left)
    BY <1>2, <1>3, <1>9 DEF Fits
<1>12. \/ rest = Ended(tasks, t)
       \/ rest = Ended(tasks, t) \cup {left}
    OBVIOUS
<1>13. Shape(rest) /\ Sends(rest) = Sends(tasks)
    <2>1. Shape(Ended(tasks, t)) /\ Sends(Ended(tasks, t)) = Sends(tasks)
        BY <1>2, ShapeEnded
    <2>2. Shape(Ended(tasks, t) \cup {left}) /\ Sends(Ended(tasks, t) \cup {left}) = Sends(tasks)
        BY <1>2, <1>9, <1>11, ShapeMoved
    <2> HIDE DEF rest
    <2> QED BY <1>12, <2>1, <2>2
<1>14. \A s \in rest : s.name = "sweep" => s = left
    BY <1>10, <1>12
<1>15. Ended(tasks, t) \subseteq rest /\ \A s \in Of(rest, "send") : s \in Of(tasks, "send")
    BY <1>9, <1>12 DEF Of, Ended
<1> HIDE DEF rest
<1>16. ASSUME Shape(tasks'), Sends(tasks') + Waiting' + Cardinality(t.seen \ {r}) <= MaxTasks,
              \A s \in tasks' : s.name = "sweep" => s = left,
              \A s \in Of(tasks', "send") : s \in Of(tasks, "send") \/ s.obj = r,
              Ended(tasks, t) \subseteq tasks'
       PROVE  Inv' /\ [Proof!Next]_<<Told, Kept>>
    <2>1. Sends(tasks') \in Nat /\ Cardinality(t.seen \ {r}) \in Nat
        BY <1>7, <1>16, SendsAreCounted
    <2>2. Sends(tasks') + Waiting' <= MaxTasks
        BY <1>6, <1>16, <2>1
    <2>3. Numbers'
        BY <1>9, <1>16, <2>2 DEF Numbers, Of
    <2>4. \A s \in Of(tasks', "send") : s.obj \notin NotYet' \/ \E u \in Of(tasks, "send") : u.obj = s.obj
        BY <1>4, <1>16
    <2>5. Known'
        BY <1>4, <1>16, <2>4, KnownStays DEF Inv
    <2>6. \A s \in tasks : s.at = "sending" => s \in tasks'
        BY <1>1, <1>16 DEF Ended
    <2>7. Posters'
        BY <1>1, <2>6, PostersStay DEF Inv, QueueInv
    <2> QED BY <1>4, <1>5, <1>16, <2>3, <2>5, <2>7, UnseenIsStutter DEF Inv, QueueInv
<1>17. CASE tasks' = With(rest, "send", r, "queue")
    <2>1. Sends(rest) < MaxTasks /\ "queue" \in {"queue", "promised"}
        BY <1>6, <1>7, <1>8, <1>13
    <2>2. PICK m \in Message(Ats) :
              /\ With(rest, "send", r, "queue") = rest \cup {m} /\ m.name = "send" /\ m.obj = r
              /\ Shape(rest \cup {m}) /\ Sends(rest \cup {m}) = Sends(rest) + 1
        BY <1>3, <1>13, <2>1, SendAdded
    <2>3. tasks' = rest \cup {m}
        BY <1>17, <2>2
    <2>4. Shape(tasks') /\ Sends(tasks') = Sends(tasks) + 1
        BY <1>13, <2>2, <2>3
    <2>5. Sends(tasks') + Waiting' + Cardinality(t.seen \ {r}) <= MaxTasks
        BY <1>6, <1>7, <1>8, <2>4
    <2>6. \A s \in tasks' : s.name = "sweep" => s = left
        BY <1>14, <2>2, <2>3
    <2>7. \A s \in Of(tasks', "send") : s \in Of(tasks, "send") \/ s.obj = r
        BY <1>15, <2>2, <2>3 DEF Of
    <2>8. Ended(tasks, t) \subseteq tasks'
        BY <1>15, <2>3
    <2> QED BY <1>16, <2>4, <2>5, <2>6, <2>7, <2>8
<1>18. CASE tasks' = rest
    <2>1. Sends(tasks') + Waiting' + Cardinality(t.seen \ {r}) <= MaxTasks
        BY <1>6, <1>7, <1>8, <1>13, <1>18
    <2> QED BY <1>13, <1>14, <1>15, <1>16, <1>18, <2>1
<1>19. CASE tasks' = Ended(tasks, t)
    <2>1. Shape(tasks') /\ Sends(tasks') = Sends(tasks)
        BY <1>2, <1>19, ShapeEnded
    <2>2. Sends(tasks') + Waiting' + Cardinality(t.seen \ {r}) <= MaxTasks
        BY <1>6, <1>7, <1>8, <2>1
    <2>3. \A s \in Of(tasks', "send") : s \in Of(tasks, "send")
        BY <1>19 DEF Of, Ended
    <2> QED BY <1>10, <1>16, <1>19, <2>1, <2>2, <2>3
<1> QED BY <1>1, <1>17, <1>18, <1>19

-----------------------------------------------------------------------------
(* The theorems *)

LEMMA InitInv == Init => Inv
<1> SUFFICES ASSUME Init PROVE Inv
    OBVIOUS
<1>1. tasks = {} /\ Of(tasks, "send") = {} /\ Of(tasks, "sweep") = {}
    BY DEF Init, Of
<1>2. Shape(tasks)
    BY <1>1, FS_EmptySet DEF Shape, WellFormed
<1>3. Sends(tasks) = 0
    BY <1>1, FS_EmptySet DEF Sends
<1>4. Numbers
    <2>1. Waiting <= MaxTasks
        BY WaitingIsCounted, SesAssumption, CeleryAssumption
    <2> QED BY <1>1, <1>3, <2>1, WaitingIsCounted DEF Numbers
<1>5. Known /\ Posters
    BY <1>1 DEF Init, Known, Posters, NoOne
<1>6. RowTypes
    BY DEF Init, RowTypes, SesSubmission, Ministry
<1>7. Reports /\ Posting /\ Account
    BY DEF Init, Reports, Posting, Account, Sent, NoOne
<1>8. Bounds
    BY SesAssumption DEF Init, Bounds
<1> QED BY <1>2, <1>4, <1>5, <1>6, <1>7, <1>8 DEF Inv, QueueInv, RowInv

LEMMA InitProof == Init => Proof!Init
BY DEF Init, Proof!Init, Sent

LEMMA NextInv == Inv /\ [Next]_vars => Inv' /\ [Proof!Next]_<<Told, Kept>>
<1> SUFFICES ASSUME Inv, [Next]_vars PROVE Inv' /\ [Proof!Next]_<<Told, Kept>>
    OBVIOUS
<1>1. CASE UNCHANGED vars
    <2>1. /\ tasks' = tasks /\ content' = content /\ report' = report /\ sending' = sending
          /\ ministry' = ministry /\ enabled' = enabled /\ edits' = edits /\ faults' = faults
        BY <1>1 DEF vars
    <2>2. RowInv' /\ Unseen /\ NotYet' = NotYet
        BY <2>1, RowsKept DEF Inv, RowInv, RowTypes
    <2>3. Shape(tasks') /\ Known' /\ Numbers'
        BY <2>1, <2>2, QueueStays DEF Inv
    <2>4. Posters'
        BY <2>1, PostersStay DEF Inv, QueueInv
    <2> QED BY <2>1, <2>2, <2>3, <2>4, UnseenIsStutter DEF Inv, QueueInv, Bounds
<1>2. CASE \E r \in Rental : \/ CheckIn(r) \/ Revalidate(r) \/ ClerkSends(r)
                             \/ AddDriver(r) \/ RemoveDriver(r) \/ Edit(r)
                             \/ Post(r) \/ SendBreaks(r)
    <2>1. PICK r \in Rental : \/ CheckIn(r) \/ Revalidate(r) \/ ClerkSends(r)
                              \/ AddDriver(r) \/ RemoveDriver(r) \/ Edit(r)
                              \/ Post(r) \/ SendBreaks(r)
        BY <1>2
    <2>2. CASE AddDriver(r) \/ RemoveDriver(r) \/ Edit(r)
        <3>1. \E payload : Change(r, payload)
            BY <2>2 DEF AddDriver, RemoveDriver, Edit
        <3> QED BY <3>1, ChangeKeeps
    <2>3. CASE Post(r)
        BY <2>3, AnswerStep, CommitSendKeeps DEF Post
    <2> QED BY <2>1, <2>2, <2>3, CheckInKeeps, RevalidateKeeps, ClerkSendsKeeps, SendBreaksKeeps
<1>3. CASE \E t \in tasks : Work(t)
    <2>1. PICK t \in tasks : Work(t)
        BY <1>3
    <2>2. CASE Sweep(t)
        <3>1. PICK r \in t.seen : SweepOne(t, r)
            BY <2>2 DEF Sweep
        <3>2. t.name = "sweep"
            BY <3>1, SesAssumption
               DEF SweepOne, Inv, QueueInv, Shape, WellFormed, Message, Fits
        <3> QED BY <3>1, <3>2, SweepOneKeeps
    <2> QED BY <2>1, <2>2, EnqueueKeeps, TaskSendsKeeps, AfterSendKeeps, StartSweepKeeps DEF Work
<1> QED BY <1>1, <1>2, <1>3, BeatKeeps, TurnOnKeeps DEF Next

LEMMA SpecInv == Spec => []Inv
<1>1. Inv /\ [Next]_vars => Inv'
    BY NextInv
<1> QED BY <1>1, InitInv, PTL DEF Spec

\* The types; and that the tasks are told apart, as there is always a number for one more.
THEOREM ReportsAreTyped == Spec => []TypeOK
<1>1. Inv => TypeOK
    BY DEF Inv, QueueInv, RowInv, RowTypes, Shape, Ats, Bounds, TypeOK
<1> QED BY <1>1, SpecInv, PTL

\* Two tasks, a clerk and the sweep at once never send a report twice: each time but one that
\* the Ministry took it, an answer was lost or a transaction was undone.
THEOREM EachRentalIsDeclaredOnce == Spec => []DeclaredOnce
<1>1. Inv => DeclaredOnce
    <2> SUFFICES ASSUME Inv, NEW r \in Rental
                 PROVE  ministry[r].times <= 1 + ministry[r].excuses
        BY DEF DeclaredOnce
    <2>1. ministry[r].times <= ministry[r].excuses +
              (IF Sent(r) \/ sending[r].answer = "taken" THEN 1 ELSE 0)
        BY DEF Inv, RowInv, Account
    <2>2. ministry[r].times \in Nat /\ ministry[r].excuses \in Nat
        BY DEF Inv, RowInv, RowTypes, Ministry
    <2> QED BY <2>1, <2>2
<1> QED BY <1>1, SpecInv, PTL

\* What is sent is complete, and what is kept as sent is, for ever, something that the
\* Ministry took.
THEOREM TheProofIsKept == Spec => KeepsProof
<1>1. Inv /\ [Next]_vars =>
          [Proof!Next]_<<[r \in Rental |-> ministry[r].told],
                         [r \in Rental |-> IF Sent(r) THEN report[r].xml ELSE NoPayload]>>
    BY NextInv DEF Told, Kept
<1> QED BY <1>1, InitProof, SpecInv, PTL DEF Spec, KeepsProof, Proof!Spec

===============================================================================
