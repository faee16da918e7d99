------------------------------ MODULE MailProofs ------------------------------
(***************************************************************************)
(* What reaches the customer, for any number of e-mails, contracts, clicks *)
(* and of lost workers and answers.                                        *)
(*                                                                         *)
(* The invariant has a part for each thing a message is about.  Queue: a   *)
(* worker is at a step of its own task, its row is there, and there is     *)
(* always a number for one message more.  Reminding: the reminders of a    *)
(* reservation that were queued, with the sweeps that have it on their     *)
(* list, are no more than one and its overlaps.  Printing: the contract    *)
(* that goes with an e-mail is ready, or was built again.  Accounts:       *)
(* whoever may yet hand a row to the provider has paid for it beforehand,  *)
(* with an excuse or with the one time that needs none.                    *)
(***************************************************************************)
EXTENDS Mail, FiniteSetTheorems, WellFoundedInduction, TLAPS

-----------------------------------------------------------------------------
(* The invariant *)

StepsOf(name) ==
    CASE name = "send" -> {"queue", "promised", "read", "render", "handed", "refused", "raised"}
      [] name = "build" -> {"queue", "promised", "print", "printed", "mailing", "raised"}
      [] OTHER -> {"queue", "sweeping"}

\* A message is about a row that is there; the row an e-mail of a contract waits in is `seen`
\* alone, and a sweep keeps its own in `obj`.
Fits(t, emails, contracts) ==
    /\ t.at \in StepsOf(t.name)
    /\ t.name = "send" => t.obj \in 1 .. emails
    /\ t.name = "build" => t.obj \in 1 .. contracts
    /\ t.at = "mailing" => \E e \in 1 .. emails : t.seen = {e}
    /\ t.name = "sweep" => /\ t.obj \in 0 .. emails /\ t.seen \subseteq Reservation
                           /\ t.at = "queue" => t.obj = 0

\* The row is there.
Row(e, emails) == e \in 1 .. emails

Alone(queue) ==
    \A s, t \in queue :
        s.name = "build" /\ t.name = "build" /\ s.obj = t.obj => s = t

\* Who may yet hand row e to the provider; for 0, who has or may take the number of a message
\* of send_email_task.
Weighs(t, e) ==
    IF e = 0
    THEN t.name = "send" \/ t.at = "mailing" \/ (t.name = "sweep" /\ t.obj # 0)
    ELSE \/ t.name = "send" /\ t.obj = e /\ t.at \notin {"read", "handed"}
         \/ t.at = "mailing" /\ t.seen = {e}
         \/ t.name = "sweep" /\ t.obj = e
Tally(queue, e) == Cardinality({t \in queue : Weighs(t, e)})

\* What a queue is, with so many rows.
Good(queue, emails, contracts) ==
    /\ WellFormed(queue, Steps) /\ IsFiniteSet(queue) /\ Alone(queue)
    /\ \A t \in queue : Fits(t, emails, contracts)

Rows ==
    /\ email \in Seq(EmailLog) /\ contract \in Seq(Contract) /\ due \subseteq Reservation
    /\ faults \in 0 .. MaxFaults /\ clicks \in 0 .. MaxClicks
    /\ Len(email) <= MaxEmails

Queue ==
    /\ Good(tasks, Len(email), Len(contract))
    /\ Tally(tasks, 0) <= MaxOpen + Len(email) + clicks

Reminding ==
    /\ overlaps \in [Reservation -> Nat]
    /\ \A r \in Reservation : Cardinality(Reminders(r)) + Cardinality(Listed(r)) <= 1 + overlaps[r]

Printing ==
    /\ \A e \in DOMAIN email :
          LET c == email[e].contract
          IN /\ c # 0 => c \in DOMAIN contract /\ (contract[c].status = "ready" \/ contract[c].again)
             /\ email[e].bare => c # 0 /\ contract[c].again
    /\ \A t \in tasks :
          /\ t.at = "print" /\ (\E e \in DOMAIN email : email[e].contract = t.obj)
                => contract[t.obj].again
          /\ t.at \in {"printed", "mailing"} => contract[t.obj].status = "ready"

\* Somebody's message about row e, whatever it does.
About(t, e) ==
    \/ t.name = "send" /\ t.obj = e
    \/ t.at = "mailing" /\ t.seen = {e}
    \/ t.name = "sweep" /\ t.obj = e
OnlyAbout(t, e) == \A s \in tasks : About(s, e) => s = t

\* It was sent, by a message that came back alone and will find it so.
Settled(e) ==
    /\ email[e].status = "sent" /\ email[e].handed <= 1 + email[e].excuses
    /\ \E t \in tasks : /\ t.name = "send" /\ t.obj = e /\ t.at = "queue"
                        /\ OnlyAbout(t, e)
Balanced(e) == email[e].handed + Tally(tasks, e) <= 1 + email[e].excuses

Account(e) ==
    /\ Balanced(e) \/ Settled(e)
    \* nobody is left to try again but a click, which is no excuse
    /\ email[e].status = "failed" /\ ~(\E t \in tasks : Sending(t, e))
          => email[e].handed <= email[e].excuses
    \* a row whose message is not in the queue yet is nobody else's
    /\ \A t \in tasks : About(t, e) /\ t.name # "send" =>
                            OnlyAbout(t, e) /\ email[e].status = "queued"
Accounts == \A e \in DOMAIN email : Account(e)

Inv == Rows /\ Queue /\ Reminding /\ Printing /\ Accounts

-----------------------------------------------------------------------------
(* The queue *)

Of(queue, name) == {t \in queue : t.name = name}

LEMMA LeastNumber ==
    ASSUME NEW S \in SUBSET Nat, S # {}
    PROVE  \E n \in S : \A m \in S : n <= m
<1>1. PICK n \in S : \A m \in S : ~ (<<m, n>> \in OpToRel(<, Nat))
    BY NatLessThanWellFounded, WFMin
<1>2. ASSUME NEW m \in S PROVE n <= m
    <2>1. <<m, n>> \notin OpToRel(<, Nat)
        BY <1>1
    <2>2. m \in Nat /\ n \in Nat
        OBVIOUS
    <2>3. ~ (m < n)
        BY <2>1, <2>2 DEF OpToRel
    <2> QED BY <2>2, <2>3
<1> QED BY <1>2

LEMMA AtMostOne ==
    ASSUME NEW S, \A s, t \in S : s = t
    PROVE  Cardinality(S) = 0 \/ Cardinality(S) = 1
<1>1. CASE S = {}
    BY <1>1, FS_EmptySet
<1>2. ASSUME NEW s \in S PROVE Cardinality(S) = 1
    <2>1. S = {s}
        OBVIOUS
    <2>2. Cardinality({s}) = 1
        BY FS_Singleton
    <2> QED BY <2>1, <2>2
<1> QED BY <1>1, <1>2

\* A message that comes, with a number of its own.
Comes(queue, name, obj, at, m) ==
    /\ With(queue, name, obj, at) = queue \cup {m}
    /\ m.name = name /\ m.obj = obj /\ m.at = at /\ m.seen = {} /\ m.tries = 0
    /\ \A t \in queue : t.name = name => t.id # m.id

\* While there are fewer messages of a task than numbers, one more gets a number of its own.
LEMMA WithIsNew ==
    ASSUME NEW queue, NEW ats, WellFormed(queue, ats), IsFiniteSet(queue),
           NEW name \in DOMAIN MaxRetries, NEW obj \in Nat, NEW at \in ats \cup {"queue"},
           Cardinality(Of(queue, name)) < MaxTasks
    PROVE  \E m \in Message(ats) : Comes(queue, name, obj, at, m)
<1> DEFINE mine == Of(queue, name)
           ids == {t.id : t \in mine}
           free == FreeIds(queue, name)
           i == CHOOSE i \in free : \A j \in free : i <= j
           m == [id |-> i, name |-> name, obj |-> obj, tries |-> 0, at |-> at, seen |-> {}]
<1>1. free = (1..MaxTasks) \ ids
    BY DEF FreeIds, Of
<1>2. free # {}
    <2> SUFFICES ASSUME free = {} PROVE FALSE
        OBVIOUS
    <2>1. IsFiniteSet(mine)
        BY FS_Subset DEF Of
    <2>2. [t \in mine |-> t.id] \in Surjection(mine, ids)
        BY DEF Surjection
    <2>3. IsFiniteSet(ids) /\ Cardinality(ids) <= Cardinality(mine)
        <3> HIDE DEF mine, ids
        <3> QED BY <2>1, <2>2, FS_Surjection
    <2>4. 1..MaxTasks \subseteq ids
        BY <1>1
    <2>5. Cardinality(1..MaxTasks) <= Cardinality(ids)
        BY <2>3, <2>4, FS_Subset
    <2>6. Cardinality(1..MaxTasks) = MaxTasks /\ MaxTasks \in Nat
        BY FS_Interval, CeleryAssumption
    <2>7. Cardinality(mine) \in Nat /\ Cardinality(ids) \in Nat
        BY <2>1, <2>3, FS_CardinalityType
    <2>8. Cardinality(mine) < MaxTasks
        OBVIOUS
    <2> HIDE DEF mine, ids
    <2> QED BY <2>3, <2>5, <2>6, <2>7, <2>8
<1>3. i \in free
    <2>1. free \in SUBSET Nat
        BY <1>1
    <2> HIDE DEF free
    <2> QED BY <1>2, <2>1, LeastNumber
<1>4. i \in 1..MaxTasks /\ i \notin ids
    BY <1>1, <1>3
<1>5. With(queue, name, obj, at) = queue \cup {m}
    BY DEF With
<1> HIDE DEF i, free
<1>6. m \in Message(ats)
    BY <1>4 DEF Message
<1>7. m.name = name /\ m.obj = obj /\ m.at = at /\ m.seen = {} /\ m.tries = 0
    OBVIOUS
<1>8. \A t \in queue : t.name = name => t.id # m.id
    BY <1>4 DEF Of
<1> QED BY <1>5, <1>6, <1>7, <1>8 DEF Comes

\* An open message has a task, a row and a step.
LEMMA MessageFields ==
    ASSUME NEW t \in Message(Steps)
    PROVE  /\ t.id \in 1 .. MaxTasks /\ t.name \in {"send", "build", "sweep"} /\ t.obj \in Nat
           /\ t.tries \in Nat /\ t.at \in Steps \cup {"queue"} /\ t.seen \in SUBSET Nat
BY MailAssumption DEF Message

LEMMA StepIs ==
    ASSUME NEW queue, NEW t \in Message(Steps), NEW at \in Steps \cup {"queue"},
           NEW seen \in SUBSET Nat
    PROVE  \E m \in Message(Steps) :
              /\ Step(queue, t, at, seen) = Ended(queue, t) \cup {m}
              /\ m.id = t.id /\ m.name = t.name /\ m.obj = t.obj /\ m.tries = t.tries
              /\ m.at = at /\ m.seen = seen
<1> DEFINE m == [t EXCEPT !.at = at, !.seen = seen]
<1>1. /\ m \in Message(Steps) /\ m.id = t.id /\ m.name = t.name /\ m.obj = t.obj
      /\ m.tries = t.tries /\ m.at = at /\ m.seen = seen
    BY DEF Message
<1>2. Step(queue, t, at, seen) = Ended(queue, t) \cup {m}
    BY DEF Step, Ended
<1> HIDE DEF m
<1> QED BY <1>1, <1>2

LEMMA RetryIs ==
    ASSUME NEW queue, NEW t \in Message(Steps)
    PROVE  \E m \in Message(Steps) :
              /\ Retried(queue, t) = Ended(queue, t) \cup {m}
              /\ m.id = t.id /\ m.name = t.name /\ m.obj = t.obj /\ m.tries = t.tries + 1
              /\ m.at = "queue" /\ m.seen = {}
<1> DEFINE m == [t EXCEPT !.at = "queue", !.seen = {}, !.tries = @ + 1]
<1>1. /\ m \in Message(Steps) /\ m.id = t.id /\ m.name = t.name /\ m.obj = t.obj
      /\ m.tries = t.tries + 1 /\ m.at = "queue" /\ m.seen = {}
    <2>1. t.tries \in Nat /\ t.tries + 1 \in Nat
        BY DEF Message
    <2> QED BY <2>1 DEF Message
<1>2. Retried(queue, t) = Ended(queue, t) \cup {m}
    BY DEF Retried, Ended
<1> HIDE DEF m
<1> QED BY <1>1, <1>2

LEMMA TallyIsNat ==
    ASSUME NEW queue, IsFiniteSet(queue), NEW e
    PROVE  IsFiniteSet({t \in queue : Weighs(t, e)}) /\ Tally(queue, e) \in Nat
BY FS_Subset, FS_CardinalityType DEF Tally

LEMMA TallyEnded ==
    ASSUME NEW queue, IsFiniteSet(queue), NEW t \in queue, NEW e
    PROVE  Tally(Ended(queue, t), e) =
               IF Weighs(t, e) THEN Tally(queue, e) - 1 ELSE Tally(queue, e)
<1> DEFINE some == {s \in queue : Weighs(s, e)}
<1>1. IsFiniteSet(some)
    BY TallyIsNat
<1>2. {s \in Ended(queue, t) : Weighs(s, e)} = some \ {t}
    BY DEF Ended
<1>3. t \in some <=> Weighs(t, e)
    OBVIOUS
<1> HIDE DEF some
<1>4. Cardinality(some \ {t}) =
          IF t \in some THEN Cardinality(some) - 1 ELSE Cardinality(some)
    BY <1>1, FS_RemoveElement
<1> QED BY <1>2, <1>3, <1>4 DEF Tally, some

LEMMA TallyAdded ==
    ASSUME NEW queue, IsFiniteSet(queue), NEW m, m \notin queue, NEW e
    PROVE  Tally(queue \cup {m}, e) =
               IF Weighs(m, e) THEN Tally(queue, e) + 1 ELSE Tally(queue, e)
<1> DEFINE some == {s \in queue : Weighs(s, e)}
<1>1. IsFiniteSet(some) /\ m \notin some
    BY TallyIsNat
<1>2. CASE Weighs(m, e)
    <2>1. {s \in queue \cup {m} : Weighs(s, e)} = some \cup {m}
        BY <1>2
    <2> HIDE DEF some
    <2>2. Cardinality(some \cup {m}) = Cardinality(some) + 1
        BY <1>1, FS_AddElement
    <2> QED BY <1>2, <2>1, <2>2 DEF Tally, some
<1>3. CASE ~Weighs(m, e)
    <2>1. {s \in queue \cup {m} : Weighs(s, e)} = some
        BY <1>3
    <2> QED BY <1>3, <2>1 DEF Tally
<1> QED BY <1>2, <1>3

LEMMA GoodEnded ==
    ASSUME NEW queue, NEW emails, NEW contracts, Good(queue, emails, contracts), NEW t \in queue
    PROVE  Good(Ended(queue, t), emails, contracts)
<1>1. IsFiniteSet(Ended(queue, t)) /\ Ended(queue, t) \subseteq queue
    BY FS_RemoveElement DEF Good, Ended
<1> QED BY <1>1 DEF Good, WellFormed, Alone

LEMMA GoodLater ==
    ASSUME NEW queue, NEW emails \in Nat, NEW contracts \in Nat, Good(queue, emails, contracts),
           NEW emails2 \in Nat, NEW contracts2 \in Nat,
           emails <= emails2, contracts <= contracts2
    PROVE  Good(queue, emails2, contracts2)
BY DEF Good, Fits

\* A message that comes, with a number of its own.
LEMMA GoodAdded ==
    ASSUME NEW queue, NEW emails, NEW contracts, Good(queue, emails, contracts),
           NEW m \in Message(Steps), Fits(m, emails, contracts), m.tries <= MaxRetries[m.name],
           \A t \in queue : t.name = m.name => t.id # m.id,
           m.name = "build" => \A t \in queue : t.name = "build" => t.obj # m.obj
    PROVE  Good(queue \cup {m}, emails, contracts) /\ m \notin queue
<1>1. IsFiniteSet(queue \cup {m})
    BY FS_AddElement DEF Good
<1>2. WellFormed(queue \cup {m}, Steps)
    BY DEF Good, WellFormed
<1>3. Alone(queue \cup {m})
    BY DEF Good, Alone, Of
<1> QED BY <1>1, <1>2, <1>3 DEF Good

\* A message that is still there, at another step.
LEMMA GoodMoved ==
    ASSUME NEW queue, NEW emails, NEW contracts, Good(queue, emails, contracts),
           NEW t \in queue, NEW m \in Message(Steps), Fits(m, emails, contracts),
           m.id = t.id, m.name = t.name, m.tries <= MaxRetries[m.name],
           m.name = "build" => m.obj = t.obj
    PROVE  /\ Good(Ended(queue, t) \cup {m}, emails, contracts)
           /\ m \notin Ended(queue, t) /\ IsFiniteSet(Ended(queue, t))
<1> DEFINE rest == Ended(queue, t)
<1>1. Good(rest, emails, contracts)
    BY GoodEnded
<1>2. \A s \in rest : s \in queue /\ s # t
    BY DEF Ended
<1>3. \A s \in rest : s.name = m.name => s.id # m.id
    BY <1>2 DEF Good, WellFormed
<1>5. m.name = "build" => \A s \in rest : s.name = "build" => s.obj # m.obj
    BY <1>2 DEF Good, Alone
<1> HIDE DEF rest
<1> QED BY <1>1, <1>3, <1>5, GoodAdded DEF Good, rest

Weight(t, e) == IF Weighs(t, e) THEN 1 ELSE 0

LEMMA TallyMoved ==
    ASSUME NEW queue, IsFiniteSet(queue), NEW t \in queue, NEW m, m \notin Ended(queue, t), NEW e
    PROVE  /\ Tally(Ended(queue, t) \cup {m}, e) = Tally(queue, e) - Weight(t, e) + Weight(m, e)
           /\ Tally(Ended(queue, t), e) = Tally(queue, e) - Weight(t, e)
           /\ Tally(queue, e) \in Nat /\ Tally(queue, e) >= Weight(t, e)
<1>1. IsFiniteSet(Ended(queue, t))
    BY FS_RemoveElement DEF Ended
<1>2. Tally(queue, e) \in Nat /\ Tally(Ended(queue, t), e) \in Nat
    BY <1>1, TallyIsNat
<1>3. Tally(Ended(queue, t), e) = Tally(queue, e) - Weight(t, e)
    BY <1>2, TallyEnded DEF Weight
<1>4. Tally(Ended(queue, t) \cup {m}, e) = Tally(Ended(queue, t), e) + Weight(m, e)
    BY <1>1, <1>2, TallyAdded DEF Weight
<1> QED BY <1>2, <1>3, <1>4 DEF Weight

-----------------------------------------------------------------------------
(* The queue, from a step to the next *)

Longer ==
    /\ Len(email) <= Len(email') /\ Len(contract) <= Len(contract') /\ clicks <= clicks'
Paid == Len(email) + clicks < Len(email') + clicks'

LEMMA Sizes ==
    ASSUME Rows
    PROVE  /\ Len(email) \in Nat /\ Len(contract) \in Nat /\ clicks \in Nat
           /\ DOMAIN email = 1 .. Len(email) /\ DOMAIN contract = 1 .. Len(contract)
           /\ \A e \in DOMAIN email : email[e] \in EmailLog
           /\ \A c \in DOMAIN contract : contract[c] \in Contract
BY MailAssumption DEF Rows

LEMMA NextSizes ==
    ASSUME Rows'
    PROVE  Len(email') \in Nat /\ Len(contract') \in Nat /\ clicks' \in Nat
BY MailAssumption DEF Rows

LEMMA GoodQueue == ASSUME Queue, NEW t \in tasks
    PROVE  /\ t \in Message(Steps) /\ t.tries <= MaxRetries[t.name]
           /\ Fits(t, Len(email), Len(contract))
           /\ IsFiniteSet(tasks)
BY DEF Queue, Good, WellFormed

LEMMA QueueEnded ==
    ASSUME Rows, Queue, Rows', Longer, NEW t \in tasks, tasks' = Ended(tasks, t)
    PROVE  Queue'
<1>1. Good(tasks', Len(email'), Len(contract'))
    BY Sizes, NextSizes, GoodEnded, GoodLater DEF Queue, Longer
<1>2. Tally(tasks', 0) = Tally(tasks, 0) \/ Tally(tasks', 0) = Tally(tasks, 0) - 1
    BY GoodQueue, TallyEnded
<1>3. Tally(tasks, 0) \in Nat /\ MaxOpen \in Nat
    BY GoodQueue, TallyIsNat, CeleryAssumption
<1> QED BY <1>1, <1>2, <1>3, Sizes, NextSizes DEF Queue, Longer, Good, Tally, Alone, Fits, Weighs,
                                                WellFormed

LEMMA QueueIs ==
    ASSUME Good(tasks', Len(email'), Len(contract')),
           Tally(tasks', 0) <= MaxOpen + Len(email') + clicks'
    PROVE  Queue'
BY DEF Queue, Good, Tally, Alone, Fits, Weighs, WellFormed

LEMMA QueueMoved ==
    ASSUME Rows, Queue, Rows', Longer, NEW t \in tasks, NEW m \in Message(Steps),
           tasks' = Ended(tasks, t) \cup {m},
           m.id = t.id, m.name = t.name, m.tries <= MaxRetries[m.name],
           m.name = "build" => m.obj = t.obj,
           Fits(m, Len(email'), Len(contract')),
           Weighs(m, 0) => Weighs(t, 0) \/ Paid
    PROVE  Queue' /\ m \notin Ended(tasks, t)
<1>1. /\ Good(tasks', Len(email'), Len(contract')) /\ m \notin Ended(tasks, t)
    <2>1. Good(tasks, Len(email'), Len(contract'))
        BY Sizes, NextSizes, GoodLater DEF Queue, Longer
    <2> QED BY <2>1, GoodMoved
<1>2. Tally(tasks', 0) = Tally(tasks, 0) - Weight(t, 0) + Weight(m, 0)
    BY <1>1, GoodQueue, TallyMoved
<1>3. Tally(tasks, 0) \in Nat /\ MaxOpen \in Nat
    BY GoodQueue, TallyIsNat, CeleryAssumption
<1>4. Tally(tasks', 0) <= MaxOpen + Len(email') + clicks'
    BY <1>2, <1>3, Sizes, NextSizes DEF Queue, Longer, Paid, Weight
<1> QED BY <1>1, <1>4, QueueIs

\* There is a number for one more send: it is the message that was counted already, or the
\* one that was paid for.
\* A send about row e finds a number of its own.
CanJoin(queue, emails, contracts, e, at) ==
    /\ Good(queue, emails, contracts) /\ Tally(queue, 0) < MaxTasks
    /\ \E rows \in SUBSET Nat : e \in rows
    /\ at \in StepsOf("send")

\* It comes, as a message of its own.
Joins(queue, emails, contracts, e, at, m) ==
    /\ With(queue, "send", e, at) = queue \cup {m} /\ m \notin queue
    /\ Row(e, emails) => Good(queue \cup {m}, emails, contracts)
    /\ m.name = "send" /\ m.obj = e /\ m.at = at /\ m.seen = {}
    /\ Tally(queue \cup {m}, 0) = Tally(queue, 0) + 1
    /\ \A f : Tally(queue \cup {m}, f) =
                  IF Weighs(m, f) THEN Tally(queue, f) + 1 ELSE Tally(queue, f)

LEMMA NumberToSend ==
    ASSUME NEW queue, NEW emails, NEW contracts, NEW e, NEW at,
           CanJoin(queue, emails, contracts, e, at)
    PROVE  \E m \in Message(Steps) : Joins(queue, emails, contracts, e, at, m)
<1>1. /\ Good(queue, emails, contracts) /\ Tally(queue, 0) < MaxTasks
      /\ at \in StepsOf("send") /\ \E rows \in SUBSET Nat : e \in rows
    BY DEF CanJoin
<1>2. WellFormed(queue, Steps) /\ IsFiniteSet(queue)
    BY <1>1 DEF Good
<1>3. Cardinality(Of(queue, "send")) <= Tally(queue, 0)
    <2>1. Of(queue, "send") \subseteq {t \in queue : Weighs(t, 0)}
        BY DEF Of, Weighs
    <2> QED BY <1>2, <2>1, TallyIsNat, FS_Subset DEF Tally
<1>4. Cardinality(Of(queue, "send")) \in Nat /\ Tally(queue, 0) \in Nat /\ MaxTasks \in Nat
    BY <1>2, TallyIsNat, FS_Subset, FS_CardinalityType, CeleryAssumption DEF Of
<1>5. Cardinality(Of(queue, "send")) < MaxTasks
    BY <1>1, <1>3, <1>4
<1>6. "send" \in DOMAIN MaxRetries /\ at \in Steps \cup {"queue"}
    BY <1>1, MailAssumption DEF Steps, StepsOf
<1>7. PICK m \in Message(Steps) : Comes(queue, "send", e, at, m)
    <2>1. PICK rows \in SUBSET Nat : e \in rows
        BY <1>1
    <2>2. e \in Nat
        BY <2>1
    <2> QED BY <1>2, <1>5, <1>6, <2>2, WithIsNew
<1>8. m.tries <= MaxRetries[m.name]
    BY <1>6, <1>7, CeleryAssumption DEF Comes
<1>9. ASSUME Row(e, emails) PROVE Good(queue \cup {m}, emails, contracts)
    <2>1. Fits(m, emails, contracts)
        BY <1>1, <1>7, <1>9 DEF Comes, Fits, StepsOf, Row
    <2> QED BY <1>1, <1>7, <1>8, <2>1, GoodAdded DEF Comes
<1>10. m \notin queue
    BY <1>7 DEF Comes
<1>11. \A f : Tally(queue \cup {m}, f) =
                  IF Weighs(m, f) THEN Tally(queue, f) + 1 ELSE Tally(queue, f)
    BY <1>2, <1>10, TallyAdded
<1>12. Weighs(m, 0)
    BY <1>7 DEF Comes, Weighs
<1> QED BY <1>7, <1>9, <1>10, <1>11, <1>12 DEF Comes, Joins

-----------------------------------------------------------------------------
(* The accounts of the rows *)

LEMMA AboutOnly ==
    ASSUME Rows, Queue, NEW t \in tasks, NEW e \in DOMAIN email
    PROVE  /\ t.name = "send" => (About(t, e) <=> t.obj = e)
           /\ About(t, e) => Weighs(t, e) \/ t.name = "send"
           /\ Weighs(t, e) => About(t, e)
<1>1. e \in Nat /\ e # 0
    BY Sizes
<1>2. t.name = "send" => t.at # "mailing"
    BY GoodQueue DEF Fits, StepsOf
<1> QED BY <1>1, <1>2 DEF About, Weighs

\* A row keeps its account while the messages that send it stay, and no other comes.
LEMMA AccountStays ==
    ASSUME IsFiniteSet(tasks), NEW e \in DOMAIN email, e # 0, Account(e),
           email[e].handed \in Nat, email[e].excuses \in Nat,
           email'[e].status = email[e].status, email'[e].handed = email[e].handed,
           email'[e].excuses = email[e].excuses,
           \A s \in tasks' : About(s, e) => s \in tasks,
           \A s \in tasks : s.name = "send" /\ s.obj = e => s \in tasks'
    PROVE  Account(e)'
<1> DEFINE some == {s \in tasks : Weighs(s, e)}
           left == {s \in tasks' : Weighs(s, e)}
<1>1. left \subseteq some
    BY DEF Weighs, About
<1>2. Tally(tasks', e) <= Tally(tasks, e) /\ Tally(tasks', e) \in Nat /\ Tally(tasks, e) \in Nat
    <2>1. IsFiniteSet(some)
        BY FS_Subset
    <2> HIDE DEF some, left
    <2>2. Cardinality(left) <= Cardinality(some) /\ Cardinality(left) \in Nat /\ Cardinality(some) \in Nat
        BY <1>1, <2>1, FS_Subset, FS_CardinalityType
    <2> QED BY <2>2 DEF Tally, some, left
<1>3. ASSUME Balanced(e) PROVE Balanced(e)'
    <2>1. Balanced(e)' <=> email'[e].handed + Tally(tasks', e) <= 1 + email'[e].excuses
        BY DEF Balanced, Tally, Weighs
    <2> QED BY <1>2, <1>3, <2>1 DEF Balanced
<1>4. \A s : OnlyAbout(s, e) => OnlyAbout(s, e)'
    BY DEF OnlyAbout, About
<1>5. ASSUME Settled(e) PROVE Settled(e)'
    BY <1>4, <1>5 DEF Settled
<1>6. (Balanced(e) \/ Settled(e))'
    BY <1>3, <1>5 DEF Account
<1>7. (email[e].status = "failed" /\ ~(\E t \in tasks : Sending(t, e))
           => email[e].handed <= email[e].excuses)'
    BY DEF Account, Sending
<1>8. (\A t \in tasks : About(t, e) /\ t.name # "send" =>
                            OnlyAbout(t, e) /\ email[e].status = "queued")'
    <2> SUFFICES ASSUME NEW t \in tasks', About(t, e), t.name # "send"
                 PROVE  OnlyAbout(t, e)' /\ email'[e].status = "queued"
        BY DEF About
    <2>1. t \in tasks
        OBVIOUS
    <2> QED BY <2>1, <1>4 DEF Account
<1> QED BY <1>6, <1>7, <1>8 DEF Account

\* While a send is about a row, nothing but sends is; unless it waits alone for a row that
\* went, the row is balanced.
LEMMA SendOwns ==
    ASSUME Inv, NEW t \in tasks, t.name = "send"
    PROVE  /\ t.obj \in DOMAIN email /\ t.obj \in Nat /\ t.obj # 0 /\ t.at \in StepsOf("send")
           /\ t.at # "mailing"
           /\ About(t, t.obj) /\ \A f \in DOMAIN email : f # t.obj => ~About(t, f)
           /\ \A s \in tasks : About(s, t.obj) => s.name = "send"
           /\ Balanced(t.obj) \/ (Settled(t.obj) /\ t.at = "queue" /\ OnlyAbout(t, t.obj))
<1>1. t.obj \in DOMAIN email /\ t.obj \in Nat /\ t.obj # 0 /\ t.at \in StepsOf("send")
    <2>1. t.obj \in 1 .. Len(email) /\ t.at \in StepsOf("send")
        BY GoodQueue DEF Inv, Fits
    <2> QED BY <2>1, Sizes DEF Inv
<1>2. About(t, t.obj) /\ \A f \in DOMAIN email : f # t.obj => ~About(t, f)
    BY AboutOnly, <1>1 DEF Inv
<1>3. Account(t.obj)
    BY <1>1 DEF Inv, Accounts
<1>4. \A s \in tasks : About(s, t.obj) => s.name = "send"
    BY <1>2, <1>3 DEF Account, OnlyAbout
<1>5. Balanced(t.obj) \/ (Settled(t.obj) /\ t.at = "queue" /\ OnlyAbout(t, t.obj))
    BY <1>2, <1>3 DEF Account, Settled, OnlyAbout
<1>6. t.at # "mailing"
    BY <1>1 DEF StepsOf
<1> QED BY <1>1, <1>2, <1>4, <1>5, <1>6

-----------------------------------------------------------------------------
(* The rows, from a step to the next *)

\* Nothing but `lost` changes.
SameRows ==
    /\ DOMAIN email' = DOMAIN email
    /\ \A e \in DOMAIN email :
          /\ email'[e].kind = email[e].kind /\ email'[e].res = email[e].res
          /\ email'[e].contract = email[e].contract /\ email'[e].status = email[e].status
          /\ email'[e].handed = email[e].handed /\ email'[e].excuses = email[e].excuses
          /\ email'[e].bare = email[e].bare

LEMMA RowChanges ==
    ASSUME Rows, NEW e \in DOMAIN email, NEW row \in EmailLog, email' = [email EXCEPT ![e] = row]
    PROVE  /\ email' \in Seq(EmailLog) /\ Len(email') = Len(email) /\ DOMAIN email' = DOMAIN email
           /\ email'[e] = row /\ \A f \in DOMAIN email : f # e => email'[f] = email[f]
BY DEF Rows

LEMMA RowIsLost ==
    ASSUME Rows, NEW e \in DOMAIN email, NEW v \in BOOLEAN,
           email' = [email EXCEPT ![e].lost = v]
    PROVE  email' \in Seq(EmailLog) /\ Len(email') = Len(email) /\ SameRows
<1> DEFINE row == [email[e] EXCEPT !.lost = v]
<1>1. email[e] \in EmailLog
    BY Sizes
<1>2. /\ row \in EmailLog /\ row.kind = email[e].kind /\ row.res = email[e].res
      /\ row.contract = email[e].contract /\ row.status = email[e].status
      /\ row.handed = email[e].handed /\ row.excuses = email[e].excuses /\ row.bare = email[e].bare
    BY <1>1 DEF EmailLog
<1>3. email' = [email EXCEPT ![e] = row]
    OBVIOUS
<1> HIDE DEF row
<1>4. /\ email' \in Seq(EmailLog) /\ Len(email') = Len(email) /\ DOMAIN email' = DOMAIN email
      /\ email'[e] = row /\ \A f \in DOMAIN email : f # e => email'[f] = email[f]
    BY <1>2, <1>3, RowChanges
<1> QED BY <1>2, <1>4 DEF SameRows

LEMMA NothingIsLost == ASSUME Rows, email' = email
    PROVE  email' \in Seq(EmailLog) /\ Len(email') = Len(email) /\ SameRows
BY DEF Rows, SameRows

\* A step that keeps what the rows are: kinds, reservations and contracts, and their number.
SameLetters ==
    /\ DOMAIN email' = DOMAIN email
    /\ \A e \in DOMAIN email :
          /\ email'[e].kind = email[e].kind /\ email'[e].res = email[e].res
          /\ email'[e].contract = email[e].contract

LEMMA SameReminders == ASSUME SameLetters, NEW r PROVE Reminders(r)' = Reminders(r)
BY DEF SameLetters, Reminders

\* As many or fewer, if nothing joins them but in the place of one of them.
LEMMA NoMore ==
    ASSUME NEW S, IsFiniteSet(S), NEW t, NEW m, NEW T, T \subseteq (S \ {t}) \cup {m},
           m \in T => m \in S \/ t \in S
    PROVE  IsFiniteSet(T) /\ Cardinality(T) \in Nat /\ Cardinality(T) <= Cardinality(S)
<1>1. IsFiniteSet(S \ {t}) /\ Cardinality(S) \in Nat /\ Cardinality(S \ {t}) \in Nat
      /\ Cardinality(S \ {t}) = IF t \in S THEN Cardinality(S) - 1 ELSE Cardinality(S)
    BY FS_RemoveElement, FS_CardinalityType
<1>2. CASE T \subseteq S
    BY <1>2, FS_Subset, FS_CardinalityType
<1>3. CASE ~(T \subseteq S)
    <2>1. m \in T /\ t \in S
        BY <1>3
    <2>2. /\ IsFiniteSet((S \ {t}) \cup {m})
          /\ Cardinality((S \ {t}) \cup {m}) =
                IF m \in S \ {t} THEN Cardinality(S \ {t}) ELSE Cardinality(S \ {t}) + 1
        BY <1>1, FS_AddElement
    <2>3. /\ IsFiniteSet(T) /\ Cardinality(T) <= Cardinality((S \ {t}) \cup {m})
          /\ Cardinality(T) \in Nat
        BY <2>2, FS_Subset, FS_CardinalityType
    <2> QED BY <1>1, <2>1, <2>2, <2>3
<1> QED BY <1>2, <1>3

\* The sweeps of a queue that have r still to remind.
Holding(queue, r) == {t \in queue : t.name = "sweep" /\ r \in t.seen}

LEMMA ListedAre ==
    ASSUME Queue, NEW r
    PROVE  /\ Listed(r) = Holding(tasks, r) /\ Listed(r)' = Holding(tasks', r)
           /\ IsFiniteSet(Listed(r)) /\ Cardinality(Listed(r)) \in Nat
<1>1. Listed(r) = Holding(tasks, r) /\ Listed(r)' = Holding(tasks', r)
    BY DEF Listed, Sweeps, Holding
<1>2. IsFiniteSet(Holding(tasks, r))
    BY FS_Subset DEF Holding, Queue, Good
<1> QED BY <1>1, <1>2, FS_CardinalityType

LEMMA RemindersAre ==
    ASSUME Rows, NEW r
    PROVE  /\ IsFiniteSet(Reminders(r)) /\ Cardinality(Reminders(r)) \in Nat
           /\ Reminders(r) \subseteq DOMAIN email
<1>1. IsFiniteSet(1 .. Len(email)) /\ DOMAIN email = 1 .. Len(email)
    BY Sizes, FS_Interval
<1>2. Reminders(r) \subseteq DOMAIN email
    BY DEF Reminders
<1> QED BY <1>1, <1>2, FS_Subset, FS_CardinalityType

\* A step that queues no reminder and lets no sweep list anything.
LEMMA RemindingFalls ==
    ASSUME Rows, Queue, Reminding, SameLetters, overlaps' = overlaps,
           \A r \in Reservation : /\ Cardinality(Listed(r)') \in Nat
                                   /\ Cardinality(Listed(r)') <= Cardinality(Listed(r))
    PROVE  Reminding'
<1>1. ASSUME NEW r \in Reservation
      PROVE  Cardinality(Reminders(r)') + Cardinality(Listed(r)') <= 1 + overlaps'[r]
    <2>1. Reminders(r)' = Reminders(r) /\ Cardinality(Reminders(r)) \in Nat
        BY SameReminders, RemindersAre
    <2>2. overlaps[r] \in Nat
        BY DEF Reminding
    <2>3. /\ Cardinality(Listed(r)) \in Nat
          /\ Cardinality(Reminders(r)) + Cardinality(Listed(r)) <= 1 + overlaps[r]
        BY ListedAre DEF Reminding
    <2>4. Cardinality(Listed(r)') \in Nat /\ Cardinality(Listed(r)') <= Cardinality(Listed(r))
        OBVIOUS
    <2> QED BY <2>1, <2>2, <2>3, <2>4
<1> QED BY <1>1 DEF Reminding

LEMMA RemindingStays ==
    ASSUME Rows, Queue, Reminding, SameLetters, overlaps' = overlaps,
           \A s \in tasks' : s.name = "sweep" => s \in tasks \/ s.seen = {}
    PROVE  Reminding'
<1>1. ASSUME NEW r \in Reservation
      PROVE  Cardinality(Listed(r)') \in Nat /\ Cardinality(Listed(r)') <= Cardinality(Listed(r))
    <2>1. Holding(tasks', r) \subseteq Holding(tasks, r)
        BY DEF Holding
    <2> QED BY <2>1, ListedAre, FS_Subset, FS_CardinalityType
<1> QED BY <1>1, RemindingFalls

\* A message of send_email_task takes a step: its row may change, and no other.
RowStep(t, row) ==
    /\ email' = [email EXCEPT ![t.obj] = row]
    /\ row.kind = email[t.obj].kind /\ row.res = email[t.obj].res
    /\ row.contract = email[t.obj].contract
    /\ row.bare => email[t.obj].bare \/ ~Attached(t.obj)
    /\ contract' = contract /\ due' = due /\ overlaps' = overlaps /\ clicks' = clicks /\ faults' \in 0 .. MaxFaults

LEMMA SendRow ==
    ASSUME Inv, NEW t \in tasks, t.name = "send", NEW row \in EmailLog, RowStep(t, row),
           \A s \in tasks' : s \in tasks \/ (s.name = "send" /\ s.at \in StepsOf("send"))
    PROVE  /\ Rows' /\ Longer /\ SameLetters /\ Reminding' /\ Printing'
           /\ Len(email') = Len(email) /\ Len(contract') = Len(contract)
           /\ DOMAIN email' = DOMAIN email /\ email'[t.obj] = row
           /\ \A f \in DOMAIN email : f # t.obj => email'[f] = email[f]
<1>1. Rows /\ t.obj \in DOMAIN email
    BY SendOwns DEF Inv
<1>2. /\ email' \in Seq(EmailLog) /\ Len(email') = Len(email) /\ DOMAIN email' = DOMAIN email
      /\ email'[t.obj] = row /\ \A f \in DOMAIN email : f # t.obj => email'[f] = email[f]
    BY <1>1, RowChanges DEF RowStep
<1>3. Rows' /\ Longer
    BY <1>1, <1>2, Sizes DEF RowStep, Rows, Longer
<1>4. SameLetters
    BY <1>2 DEF RowStep, SameLetters
<1>5. \A s \in tasks' : s.name = "sweep" => s \in tasks
    OBVIOUS
<1>6. Reminding'
    BY <1>4, <1>5, RemindingStays DEF Inv, RowStep
<1>7. ASSUME NEW e \in DOMAIN email
      PROVE  LET c == email'[e].contract
             IN /\ c # 0 => c \in DOMAIN contract /\ (contract[c].status = "ready" \/ contract[c].again)
                /\ email'[e].bare => c # 0 /\ contract[c].again
    <2>1. email'[e].contract = email[e].contract
        BY <1>4 DEF SameLetters
    <2>2. email'[e].bare => email[e].bare \/ (e = t.obj /\ ~Attached(e))
        BY <1>2 DEF RowStep
    <2> QED BY <2>1, <2>2 DEF Inv, Printing, Attached
<1>8. \A s \in tasks' : s.at \in {"print", "printed", "mailing"} => s \in tasks
    BY DEF StepsOf
<1>9. Printing'
    BY <1>2, <1>4, <1>7, <1>8 DEF Printing, Inv, RowStep, SameLetters
<1> QED BY <1>2, <1>3, <1>4, <1>6, <1>9 DEF RowStep

\* The row of any other message keeps its account.
LEMMA OthersStay ==
    ASSUME Inv, NEW t \in tasks, t.name = "send", NEW row \in EmailLog, RowStep(t, row),
           \A s \in tasks : s # t => s \in tasks',
           \A s \in tasks' : s \in tasks \/ (s.name = "send" /\ s.obj = t.obj /\ s.at # "mailing"),
           DOMAIN email' = DOMAIN email,
           \A f \in DOMAIN email : f # t.obj => email'[f] = email[f]
    PROVE  \A f \in DOMAIN email : f # t.obj => Account(f)'
<1> SUFFICES ASSUME NEW f \in DOMAIN email, f # t.obj PROVE Account(f)'
    OBVIOUS
<1>1. email[f] \in EmailLog /\ f # 0 /\ Account(f) /\ IsFiniteSet(tasks)
    BY Sizes, GoodQueue DEF Inv, Accounts
<1>2. email[f].handed \in Nat /\ email[f].excuses \in Nat
    BY <1>1 DEF EmailLog
<1>3. \A s \in tasks' : About(s, f) => s \in tasks
    BY DEF About
<1> QED BY <1>1, <1>2, <1>3, AccountStays

\* It goes on: it was balanced and still is, or has just been settled.
LEMMA SendMoved ==
    ASSUME Inv, NEW t \in tasks, t.name = "send", NEW row \in EmailLog, RowStep(t, row),
           NEW m \in Message(Steps), tasks' = Ended(tasks, t) \cup {m},
           m.id = t.id, m.name = t.name, m.obj = t.obj, m.tries <= MaxRetries[m.name],
           m.at \in StepsOf("send"), m.at # "read",
           \/ Balanced(t.obj) /\ row.handed + Weight(m, t.obj) + email[t.obj].excuses
                                    <= email[t.obj].handed + Weight(t, t.obj) + row.excuses
           \/ Balanced(t.obj)'
           \/ Settled(t.obj)'
    PROVE  Inv'
<1> DEFINE e == t.obj
<1>1. /\ e \in DOMAIN email /\ e \in Nat /\ e # 0 /\ m.at # "mailing"
      /\ \A s \in tasks : About(s, e) => s.name = "send"
    BY SendOwns DEF StepsOf
<1>2. \A s \in tasks' : s \in tasks \/ s = m
    BY DEF Ended
<1>3. /\ Rows' /\ Longer /\ SameLetters /\ Reminding' /\ Printing'
      /\ Len(email') = Len(email) /\ Len(contract') = Len(contract)
      /\ DOMAIN email' = DOMAIN email /\ email'[e] = row
      /\ \A f \in DOMAIN email : f # e => email'[f] = email[f]
    BY <1>2, SendRow
<1>4. Fits(m, Len(email'), Len(contract'))
    BY <1>1, <1>3, Sizes DEF Fits, Inv
<1>5. Queue' /\ m \notin Ended(tasks, t)
    BY <1>3, <1>4, QueueMoved DEF Inv, Weighs
<1>6. \A f \in DOMAIN email : f # e => Account(f)'
    BY <1>1, <1>2, <1>3, OthersStay DEF Ended
<1>7. Balanced(e)' \/ Settled(e)'
    <2> SUFFICES ASSUME Balanced(e), row.handed + Weight(m, e) + email[e].excuses
                                        <= email[e].handed + Weight(t, e) + row.excuses
                 PROVE  Balanced(e)'
        OBVIOUS
    <2>1. Tally(tasks', e) = Tally(tasks, e) - Weight(t, e) + Weight(m, e) /\ Tally(tasks, e) \in Nat
        BY <1>5, GoodQueue, TallyMoved DEF Inv
    <2>2. email[e] \in EmailLog
        BY <1>1, Sizes DEF Inv
    <2>3. /\ row.handed \in Nat /\ row.excuses \in Nat /\ email[e].handed \in Nat
          /\ email[e].excuses \in Nat /\ Weight(t, e) \in Nat /\ Weight(m, e) \in Nat
        BY <2>2 DEF EmailLog, Weight
    <2>4. row.handed + Tally(tasks', e) <= 1 + row.excuses
        BY <2>1, <2>3 DEF Balanced
    <2> QED BY <1>3, <2>4 DEF Balanced, Tally, Weighs
<1>8. m \in tasks' /\ Sending(m, e)
    BY DEF Sending
<1>9. \A s \in tasks' : About(s, e) => s.name = "send"
    BY <1>1, <1>2
<1>10. Account(e)'
    BY <1>7, <1>8, <1>9 DEF Account, About, Sending
<1>11. Accounts'
    BY <1>3, <1>6, <1>10 DEF Accounts
<1> QED BY <1>3, <1>5, <1>11 DEF Inv

\* It ends.  If its row is left as failed, it was counted until now.
LEMMA SendEnded ==
    ASSUME Inv, NEW t \in tasks, t.name = "send", NEW row \in EmailLog, RowStep(t, row),
           tasks' = Ended(tasks, t),
           row.handed = email[t.obj].handed, row.excuses = email[t.obj].excuses,
           row.status = "failed" => email[t.obj].status = "failed" /\ t.at \notin {"read", "handed"}
    PROVE  Inv'
<1> DEFINE e == t.obj
<1>1. /\ e \in DOMAIN email /\ e \in Nat /\ e # 0
      /\ \A s \in tasks : About(s, e) => s.name = "send"
    BY SendOwns
<1>2. \A s \in tasks' : s \in tasks
    BY DEF Ended
<1>3. /\ Rows' /\ Longer /\ SameLetters /\ Reminding' /\ Printing'
      /\ DOMAIN email' = DOMAIN email /\ email'[e] = row
      /\ \A f \in DOMAIN email : f # e => email'[f] = email[f]
    BY <1>2, SendRow
<1>4. Queue'
    BY <1>3, QueueEnded DEF Inv
<1>5. \A f \in DOMAIN email : f # e => Account(f)'
    BY <1>1, <1>2, <1>3, OthersStay DEF Ended
<1>6. email[e] \in EmailLog /\ IsFiniteSet(tasks)
    BY <1>1, Sizes, GoodQueue DEF Inv
<1>7. email[e].handed \in Nat /\ email[e].excuses \in Nat
    BY <1>6 DEF EmailLog
<1>8. Tally(tasks', e) = Tally(tasks, e) - Weight(t, e) /\ Tally(tasks, e) \in Nat
    <2>1. Tally(tasks, e) \in Nat
        BY <1>6, TallyIsNat
    <2> QED BY <1>6, <2>1, TallyEnded DEF Weight
<1>9. ASSUME Settled(e), OnlyAbout(t, e) PROVE Tally(tasks', e) = 0
    <2>1. {s \in tasks' : Weighs(s, e)} = {}
        BY <1>1, <1>2, <1>9, AboutOnly DEF Ended, OnlyAbout, Inv
    <2> QED BY <2>1, FS_EmptySet DEF Tally
<1>10. Balanced(e)'
    <2>1. row.handed + Tally(tasks', e) <= 1 + row.excuses
        BY <1>7, <1>8, <1>9, SendOwns DEF Balanced, Settled, Weight
    <2> QED BY <1>3, <2>1 DEF Balanced, Tally, Weighs
<1>11. row.status = "failed" => row.handed <= row.excuses
    <2> SUFFICES ASSUME row.status = "failed" PROVE row.handed <= row.excuses
        OBVIOUS
    <2>1. Weight(t, e) = 1
        BY <1>1 DEF Weight, Weighs
    <2>2. Balanced(e)
        BY SendOwns DEF Settled
    <2>3. Tally(tasks', e) \in Nat
        BY <1>6, TallyIsNat, FS_RemoveElement DEF Ended
    <2> QED BY <1>7, <1>8, <2>1, <2>2, <2>3 DEF Balanced
<1>12. \A s \in tasks' : About(s, e) => s.name = "send"
    BY <1>1, <1>2
<1>13. Account(e)'
    BY <1>3, <1>10, <1>11, <1>12 DEF Account, About, Sending
<1>14. Accounts'
    BY <1>3, <1>5, <1>13 DEF Accounts
<1> QED BY <1>3, <1>4, <1>14 DEF Inv

-----------------------------------------------------------------------------
(* send_email_task *)

LEMMA SendSteps ==
    ASSUME Inv, NEW t \in tasks, t.name = "send", NEW at \in StepsOf("send"),
           tasks' = Step(tasks, t, at, {})
    PROVE  \E m \in Message(Steps) :
              /\ tasks' = Ended(tasks, t) \cup {m}
              /\ m.id = t.id /\ m.name = t.name /\ m.obj = t.obj /\ m.tries <= MaxRetries[m.name]
              /\ m.at = at /\ m.seen = {}
<1>1. t \in Message(Steps) /\ t.tries <= MaxRetries[t.name]
    BY GoodQueue DEF Inv
<1>2. at \in Steps \cup {"queue"} /\ {} \in SUBSET Nat
    BY DEF StepsOf, Steps
<1>3. PICK m \in Message(Steps) :
          /\ Step(tasks, t, at, {}) = Ended(tasks, t) \cup {m}
          /\ m.id = t.id /\ m.name = t.name /\ m.obj = t.obj /\ m.tries = t.tries
          /\ m.at = at /\ m.seen = {}
    BY <1>1, <1>2, StepIs
<1> QED BY <1>1, <1>3

\* A message counts unless the step it is at is that of a click or of one who has handed it.
LEMMA SendWeight ==
    ASSUME NEW t, t.name = "send", t.at # "mailing", t.obj # 0
    PROVE  Weight(t, t.obj) = IF t.at \in {"read", "handed"} THEN 0 ELSE 1
BY DEF Weight, Weighs

LEMMA SameRow == ASSUME Inv, NEW t \in tasks, t.name = "send", email' = email
    PROVE  email[t.obj] \in EmailLog /\ email' = [email EXCEPT ![t.obj] = email[t.obj]]
BY SendOwns, Sizes DEF Inv, Rows

\* A step that leaves the row as it is.
LEMMA SendGoesOn ==
    ASSUME Inv, NEW t \in tasks, t.name = "send", t.at \notin {"read", "handed"},
           NEW at \in StepsOf("send"), at \notin {"read", "handed"},
           t.at # "queue" \/ email[t.obj].status # "sent",
           tasks' = Step(tasks, t, at, {}), UNCHANGED <<email, contract, due, overlaps, clicks>>,
           faults' \in 0 .. MaxFaults
    PROVE  Inv'
<1>1. email' = email /\ contract' = contract /\ due' = due /\ overlaps' = overlaps /\ clicks' = clicks
    OBVIOUS
<1>2. email[t.obj] \in EmailLog /\ RowStep(t, email[t.obj])
    BY <1>1, SameRow DEF RowStep
<1>3. PICK m \in Message(Steps) :
              /\ tasks' = Ended(tasks, t) \cup {m}
              /\ m.id = t.id /\ m.name = t.name /\ m.obj = t.obj /\ m.tries <= MaxRetries[m.name]
              /\ m.at = at /\ m.seen = {}
    BY SendSteps
<1>4. Balanced(t.obj) /\ t.obj # 0 /\ t.at # "mailing"
    BY SendOwns DEF Settled
<1>5. m.at # "mailing"
    BY <1>3 DEF StepsOf
<1>6. Weight(t, t.obj) = 1 /\ Weight(m, t.obj) = 1
    BY <1>3, <1>4, <1>5, SendWeight
<1>7. email[t.obj].handed \in Nat /\ email[t.obj].excuses \in Nat
    BY <1>2 DEF EmailLog
<1>8. email[t.obj].handed + Weight(m, t.obj) + email[t.obj].excuses
          <= email[t.obj].handed + Weight(t, t.obj) + email[t.obj].excuses
    BY <1>6, <1>7
<1> HIDE DEF RowStep
<1> QED BY <1>2, <1>3, <1>4, <1>8, SendMoved

LEMMA FaultsAreNat == ASSUME Rows, faults' = faults \/ Fault PROVE faults' \in 0 .. MaxFaults
BY MailAssumption DEF Rows, Fault

LEMMA StartSendKeeps ==
    ASSUME Inv, NEW t \in tasks, StartSend(t) PROVE Inv'
<1>1. /\ t.name = "send" /\ t.at = "queue" /\ UNCHANGED <<email, contract, due, overlaps, clicks>>
      /\ email' = email /\ contract' = contract /\ due' = due /\ overlaps' = overlaps /\ clicks' = clicks /\ faults' = faults
    BY DEF StartSend, Unseen
<1>2. faults' \in 0 .. MaxFaults
    BY <1>1, FaultsAreNat DEF Inv
<1>3. CASE Sendable(t.obj)
    <2>1. tasks' = Step(tasks, t, "render", {}) /\ email[t.obj].status = "queued"
        BY <1>3 DEF StartSend, Sendable
    <2>2. "render" \in StepsOf("send")
        BY DEF StepsOf
    <2> QED BY <1>1, <1>2, <2>1, <2>2, SendGoesOn
<1>4. CASE ~Sendable(t.obj)
    <2>1. tasks' = Ended(tasks, t)
        BY <1>4 DEF StartSend
    <2>2. email[t.obj] \in EmailLog /\ RowStep(t, email[t.obj])
        BY <1>1, <1>2, SameRow DEF RowStep
    <2> QED BY <1>1, <2>1, <2>2, SendEnded
<1> QED BY <1>3, <1>4

LEMMA RenderFailsKeeps ==
    ASSUME Inv, NEW t \in tasks, t.name = "send", RenderFails(t) \/ Refuse(t) PROVE Inv'
<1>1. /\ t.at = "render" /\ UNCHANGED <<email, contract, due, overlaps, clicks>> /\ faults' = faults
      /\ tasks' = Step(tasks, t, "raised", {}) \/ tasks' = Step(tasks, t, "refused", {})
    BY DEF RenderFails, Refuse, Unseen
<1>2. faults' \in 0 .. MaxFaults /\ "raised" \in StepsOf("send") /\ "refused" \in StepsOf("send")
    BY <1>1, FaultsAreNat DEF Inv, StepsOf
<1> QED BY <1>1, <1>2, SendGoesOn

LEMMA PromisedSend ==
    ASSUME Inv, NEW t \in tasks, t.name = "send", Enqueue(t) PROVE Inv'
<1>1. /\ t.at = "promised" /\ UNCHANGED <<email, contract, due, overlaps, clicks>> /\ faults' = faults
      /\ tasks' = Step(tasks, t, "queue", {})
    BY DEF Enqueue
<1>2. faults' \in 0 .. MaxFaults /\ "queue" \in StepsOf("send")
    BY <1>1, FaultsAreNat DEF Inv, StepsOf
<1> QED BY <1>1, <1>2, SendGoesOn

LEMMA RowFields ==
    ASSUME Inv, NEW t \in tasks, t.name = "send"
    PROVE  /\ email[t.obj].status \in EmailStatus
           /\ email[t.obj].handed \in Nat /\ email[t.obj].excuses \in Nat
           /\ email[t.obj].lost \in BOOLEAN /\ email[t.obj].bare \in BOOLEAN
           /\ t.obj \in DOMAIN email /\ email[t.obj] \in EmailLog /\ email \in Seq(EmailLog)
<1>1. t.obj \in DOMAIN email /\ email[t.obj] \in EmailLog
    BY SendOwns, Sizes DEF Inv
<1> QED BY <1>1 DEF EmailLog, Inv, Rows

LEMMA EnqueueFailsKeeps ==
    ASSUME Inv, NEW t \in tasks, t.name = "send", EnqueueFails(t) PROVE Inv'
<1> DEFINE old == email[t.obj]
           row == [old EXCEPT !.lost = TRUE]
<1>1. /\ t.at = "promised" /\ Fault /\ tasks' = Ended(tasks, t)
      /\ contract' = contract /\ due' = due /\ overlaps' = overlaps /\ clicks' = clicks
      /\ email' = [email EXCEPT ![t.obj] = row]
    BY DEF EnqueueFails
<1>2. /\ row \in EmailLog /\ row.kind = old.kind /\ row.res = old.res
      /\ row.contract = old.contract /\ row.status = old.status /\ row.handed = old.handed
      /\ row.excuses = old.excuses /\ row.bare = old.bare
    BY RowFields DEF EmailLog
<1>3. faults' \in 0 .. MaxFaults
    BY <1>1, FaultsAreNat DEF Inv
<1> HIDE DEF row
<1>4. RowStep(t, row)
    BY <1>1, <1>2, <1>3 DEF RowStep
<1> QED BY <1>1, <1>2, <1>4, SendEnded

\* A step that writes the row and leaves it as balanced as it was.
LEMMA SendWrites ==
    ASSUME Inv, NEW t \in tasks, t.name = "send", Balanced(t.obj),
           NEW row \in EmailLog, RowStep(t, row),
           NEW at \in StepsOf("send"), at # "read", tasks' = Step(tasks, t, at, {}),
           row.handed + (IF at = "handed" THEN 0 ELSE 1) + email[t.obj].excuses
               <= email[t.obj].handed + (IF t.at \in {"read", "handed"} THEN 0 ELSE 1) + row.excuses
    PROVE  Inv'
<1>1. PICK m \in Message(Steps) :
              /\ tasks' = Ended(tasks, t) \cup {m}
              /\ m.id = t.id /\ m.name = t.name /\ m.obj = t.obj /\ m.tries <= MaxRetries[m.name]
              /\ m.at = at /\ m.seen = {}
    BY SendSteps
<1>2. t.obj # 0 /\ t.at # "mailing" /\ m.at # "mailing"
    BY <1>1, SendOwns DEF StepsOf
<1>3. /\ Weight(t, t.obj) = IF t.at \in {"read", "handed"} THEN 0 ELSE 1
      /\ Weight(m, t.obj) = IF at = "handed" THEN 0 ELSE 1
    BY <1>1, <1>2, SendWeight
<1>4. row.handed + Weight(m, t.obj) + email[t.obj].excuses
          <= email[t.obj].handed + Weight(t, t.obj) + row.excuses
    BY <1>3
<1> HIDE DEF RowStep
<1> QED BY <1>1, <1>4, SendMoved

LEMMA HandKeeps ==
    ASSUME Inv, NEW t \in tasks, t.name = "send", Hand(t) PROVE Inv'
<1> DEFINE old == email[t.obj]
           bare == old.bare \/ ~Attached(t.obj)
<1>1. /\ t.at = "render" /\ contract' = contract /\ due' = due /\ overlaps' = overlaps /\ clicks' = clicks
      /\ "handed" \in StepsOf("send") /\ "refused" \in StepsOf("send") /\ bare \in BOOLEAN
    BY RowFields DEF Hand, Unseen, StepsOf
<1>2. Balanced(t.obj)
    BY <1>1, SendOwns
<1>3. old.handed \in Nat /\ old.handed + 1 \in Nat /\ old.excuses \in Nat /\ old.excuses + 1 \in Nat
    BY RowFields
<1>4. CASE /\ tasks' = Step(tasks, t, "handed", {}) /\ faults' = faults
           /\ email' = [email EXCEPT ![t.obj].handed = @ + 1,
                                     ![t.obj].bare = @ \/ ~Attached(t.obj)]
    <2> DEFINE row == [old EXCEPT !.handed = old.handed + 1, !.excuses = old.excuses, !.bare = bare]
    <2>1. /\ row \in EmailLog /\ row.kind = old.kind /\ row.res = old.res
          /\ row.contract = old.contract
          /\ row.handed = old.handed + 1 /\ row.excuses = old.excuses /\ row.bare = bare
        BY <1>1, <1>3, RowFields DEF EmailLog, EmailStatus
    <2>2. email' = [email EXCEPT ![t.obj] = row]
        BY <1>4, RowFields DEF EmailLog
    <2>3. faults' \in 0 .. MaxFaults
        BY <1>4, FaultsAreNat DEF Inv
    <2> HIDE DEF row
    <2>4. RowStep(t, row)
        BY <1>1, <2>1, <2>2, <2>3 DEF RowStep
    <2>5. row.handed + (IF "handed" = "handed" THEN 0 ELSE 1) + old.excuses
              <= old.handed + (IF t.at \in {"read", "handed"} THEN 0 ELSE 1) + row.excuses
        BY <1>1, <1>3, <2>1
    <2> HIDE DEF RowStep
    <2> QED BY <1>1, <1>2, <1>4, <2>1, <2>4, <2>5, SendWrites
<1>5. CASE /\ tasks' = Step(tasks, t, "refused", {}) /\ Fault
           /\ email' = [email EXCEPT ![t.obj].handed = @ + 1, ![t.obj].excuses = @ + 1,
                                     ![t.obj].bare = @ \/ ~Attached(t.obj)]
    <2> DEFINE row == [old EXCEPT !.handed = old.handed + 1, !.excuses = old.excuses + 1, !.bare = bare]
    <2>1. /\ row \in EmailLog /\ row.kind = old.kind /\ row.res = old.res
          /\ row.contract = old.contract
          /\ row.handed = old.handed + 1 /\ row.excuses = old.excuses + 1 /\ row.bare = bare
        BY <1>1, <1>3, RowFields DEF EmailLog, EmailStatus
    <2>2. email' = [email EXCEPT ![t.obj] = row]
        BY <1>5, RowFields DEF EmailLog
    <2>3. faults' \in 0 .. MaxFaults
        BY <1>5, FaultsAreNat DEF Inv
    <2> HIDE DEF row
    <2>4. RowStep(t, row)
        BY <1>1, <2>1, <2>2, <2>3 DEF RowStep
    <2>5. row.handed + (IF "refused" = "handed" THEN 0 ELSE 1) + old.excuses
              <= old.handed + (IF t.at \in {"read", "handed"} THEN 0 ELSE 1) + row.excuses
        BY <1>1, <1>3, <2>1
    <2> HIDE DEF RowStep
    <2> QED BY <1>1, <1>2, <1>5, <2>1, <2>4, <2>5, SendWrites
<1> QED BY <1>4, <1>5 DEF Hand

LEMMA SaveFailedKeeps ==
    ASSUME Inv, NEW t \in tasks, t.name = "send", SaveFailed(t) PROVE Inv'
<1> DEFINE old == email[t.obj]
           row == [old EXCEPT !.status = "failed"]
<1>1. /\ t.at = "refused" /\ contract' = contract /\ due' = due /\ overlaps' = overlaps /\ clicks' = clicks
      /\ faults' = faults /\ "raised" \in StepsOf("send") /\ tasks' = Step(tasks, t, "raised", {})
      /\ email' = [email EXCEPT ![t.obj] = row]
    BY DEF SaveFailed, Unseen, StepsOf
<1>2. Balanced(t.obj)
    BY <1>1, SendOwns
<1>3. /\ row \in EmailLog /\ row.kind = old.kind /\ row.res = old.res
      /\ row.contract = old.contract /\ row.handed = old.handed
      /\ row.excuses = old.excuses /\ row.bare = old.bare
    BY RowFields DEF EmailLog, EmailStatus
<1>4. faults' \in 0 .. MaxFaults
    BY <1>1, FaultsAreNat DEF Inv
<1> HIDE DEF row
<1>5. RowStep(t, row)
    BY <1>1, <1>3, <1>4 DEF RowStep
<1>6. row.handed + (IF "raised" = "handed" THEN 0 ELSE 1) + old.excuses
          <= old.handed + (IF t.at \in {"read", "handed"} THEN 0 ELSE 1) + row.excuses
    BY <1>1, <1>3, RowFields
<1> HIDE DEF RowStep
<1> QED BY <1>1, <1>2, <1>3, <1>5, <1>6, SendWrites

LEMMA SaveSentKeeps ==
    ASSUME Inv, NEW t \in tasks, t.name = "send", SaveSent(t) PROVE Inv'
<1> DEFINE old == email[t.obj]
<1>1. /\ t.at = "handed" /\ contract' = contract /\ due' = due /\ overlaps' = overlaps /\ clicks' = clicks
      /\ "queue" \in StepsOf("send") /\ "raised" \in StepsOf("send")
    BY DEF SaveSent, Unseen, StepsOf
<1>2. Balanced(t.obj)
    BY <1>1, SendOwns
<1>3. old.handed \in Nat /\ old.excuses \in Nat /\ old.excuses + 1 \in Nat
    BY RowFields
<1>4. CASE /\ tasks' = Ended(tasks, t) /\ faults' = faults
           /\ email' = [email EXCEPT ![t.obj].status = "sent"]
    <2> DEFINE row == [old EXCEPT !.status = "sent"]
    <2>1. /\ row \in EmailLog /\ row.kind = old.kind /\ row.res = old.res
          /\ row.contract = old.contract /\ row.status = "sent"
          /\ row.handed = old.handed /\ row.excuses = old.excuses /\ row.bare = old.bare
        BY RowFields DEF EmailLog, EmailStatus
    <2>2. email' = [email EXCEPT ![t.obj] = row]
        BY <1>4, RowFields DEF EmailLog
    <2>3. faults' \in 0 .. MaxFaults
        BY <1>4, FaultsAreNat DEF Inv
    <2> HIDE DEF row
    <2>4. RowStep(t, row)
        BY <1>1, <2>1, <2>2, <2>3 DEF RowStep
    <2> QED BY <1>4, <2>1, <2>4, SendEnded
<1>5. CASE /\ tasks' = Step(tasks, t, "raised", {}) /\ Fault
           /\ email' = [email EXCEPT ![t.obj].status = "sent", ![t.obj].excuses = @ + 1]
    <2> DEFINE row == [old EXCEPT !.status = "sent", !.excuses = old.excuses + 1]
    <2>1. /\ row \in EmailLog /\ row.kind = old.kind /\ row.res = old.res
          /\ row.contract = old.contract
          /\ row.handed = old.handed /\ row.excuses = old.excuses + 1 /\ row.bare = old.bare
        BY <1>1, <1>3, RowFields DEF EmailLog, EmailStatus
    <2>2. email' = [email EXCEPT ![t.obj] = row]
        BY <1>5, RowFields DEF EmailLog
    <2>3. faults' \in 0 .. MaxFaults
        BY <1>5, FaultsAreNat DEF Inv
    <2> HIDE DEF row
    <2>4. RowStep(t, row)
        BY <1>1, <2>1, <2>2, <2>3 DEF RowStep
    <2>5. row.handed + (IF "raised" = "handed" THEN 0 ELSE 1) + old.excuses
              <= old.handed + (IF t.at \in {"read", "handed"} THEN 0 ELSE 1) + row.excuses
        BY <1>1, <1>3, <2>1
    <2> HIDE DEF RowStep
    <2> QED BY <1>1, <1>2, <1>5, <2>1, <2>4, <2>5, SendWrites
<1>6. CASE /\ tasks' = Step(tasks, t, "queue", {}) /\ Fault /\ Rivals(t)
           /\ email' = [email EXCEPT ![t.obj].status = "sent", ![t.obj].excuses = @ + 1]
    <2> DEFINE row == [old EXCEPT !.status = "sent", !.excuses = old.excuses + 1]
    <2>1. /\ row \in EmailLog /\ row.kind = old.kind /\ row.res = old.res
          /\ row.contract = old.contract
          /\ row.handed = old.handed /\ row.excuses = old.excuses + 1 /\ row.bare = old.bare
        BY <1>1, <1>3, RowFields DEF EmailLog, EmailStatus
    <2>2. email' = [email EXCEPT ![t.obj] = row]
        BY <1>6, RowFields DEF EmailLog
    <2>3. faults' \in 0 .. MaxFaults
        BY <1>6, FaultsAreNat DEF Inv
    <2> HIDE DEF row
    <2>4. RowStep(t, row)
        BY <1>1, <2>1, <2>2, <2>3 DEF RowStep
    <2>5. row.handed + (IF "queue" = "handed" THEN 0 ELSE 1) + old.excuses
              <= old.handed + (IF t.at \in {"read", "handed"} THEN 0 ELSE 1) + row.excuses
        BY <1>1, <1>3, <2>1
    <2> HIDE DEF RowStep
    <2> QED BY <1>1, <1>2, <1>6, <2>1, <2>4, <2>5, SendWrites
<1>7. CASE /\ tasks' = Step(tasks, t, "queue", {}) /\ Fault /\ ~Rivals(t)
           /\ email' = [email EXCEPT ![t.obj].status = "sent"]
    <2> DEFINE row == [old EXCEPT !.status = "sent"]
    <2>1. /\ row \in EmailLog /\ row.kind = old.kind /\ row.res = old.res
          /\ row.contract = old.contract /\ row.status = "sent"
          /\ row.handed = old.handed /\ row.excuses = old.excuses /\ row.bare = old.bare
        BY RowFields DEF EmailLog, EmailStatus
    <2>2. email' = [email EXCEPT ![t.obj] = row]
        BY <1>7, RowFields DEF EmailLog
    <2>3. faults' \in 0 .. MaxFaults
        BY <1>7, FaultsAreNat DEF Inv
    <2> HIDE DEF row
    <2>4. RowStep(t, row)
        BY <1>1, <2>1, <2>2, <2>3 DEF RowStep
    <2>5. PICK m \in Message(Steps) :
              /\ tasks' = Ended(tasks, t) \cup {m}
              /\ m.id = t.id /\ m.name = t.name /\ m.obj = t.obj /\ m.tries <= MaxRetries[m.name]
              /\ m.at = "queue" /\ m.seen = {}
        BY <1>1, <1>7, SendSteps
    <2>6. email'[t.obj] = row
        BY <2>2, RowFields
    <2>7. old.handed <= 1 + old.excuses
        <3>1. Tally(tasks, t.obj) \in Nat
            BY GoodQueue, TallyIsNat DEF Inv
        <3> QED BY <1>2, <1>3, <3>1 DEF Balanced
    <2>8. \A s \in tasks' : About(s, t.obj) => s = m
        <3>1. \A s \in tasks' : (s \in tasks /\ s # t) \/ s = m
            BY <2>5 DEF Ended
        <3>2. \A s \in tasks : About(s, t.obj) => s.name = "send"
            BY SendOwns
        <3>3. ASSUME NEW s \in tasks, s # t PROVE ~About(s, t.obj)
            BY <1>7, <3>2, <3>3, SendOwns, AboutOnly DEF Rivals, Inv
        <3> QED BY <3>1, <3>3
    <2>9. m \in tasks'
        BY <2>5
    <2>10. Settled(t.obj)'
        BY <2>1, <2>5, <2>6, <2>7, <2>8, <2>9 DEF Settled, OnlyAbout, About
    <2> HIDE DEF RowStep
    <2> QED BY <1>1, <2>1, <2>4, <2>5, <2>10, SendMoved
<1> QED BY <1>4, <1>5, <1>6, <1>7 DEF SaveSent, Redelivered

LEMMA SendRaisedKeeps ==
    ASSUME Inv, NEW t \in tasks, t.name = "send", SendRaised(t) PROVE Inv'
<1> DEFINE old == email[t.obj]
<1>1. /\ t.at = "raised" /\ contract' = contract /\ due' = due /\ overlaps' = overlaps /\ clicks' = clicks
      /\ faults' = faults /\ "queue" \in StepsOf("send")
    BY DEF SendRaised, Unseen, StepsOf
<1>2. faults' \in 0 .. MaxFaults
    BY <1>1, FaultsAreNat DEF Inv
<1>3. CASE /\ CanRetry(t) /\ tasks' = Retried(tasks, t)
           /\ email' = [email EXCEPT ![t.obj].status = "queued"]
    <2> DEFINE row == [old EXCEPT !.status = "queued"]
    <2>1. /\ row \in EmailLog /\ row.kind = old.kind /\ row.res = old.res
          /\ row.contract = old.contract
          /\ row.handed = old.handed /\ row.excuses = old.excuses /\ row.bare = old.bare
        BY RowFields DEF EmailLog, EmailStatus
    <2>2. email' = [email EXCEPT ![t.obj] = row]
        BY <1>3, RowFields DEF EmailLog
    <2> HIDE DEF row
    <2>3. RowStep(t, row)
        BY <1>1, <1>2, <2>1, <2>2 DEF RowStep
    <2>4. t \in Message(Steps) /\ t.tries \in Nat /\ MaxRetries[t.name] \in Nat
        BY GoodQueue, MessageFields, MailAssumption, CeleryAssumption DEF Inv
    <2>5. PICK m \in Message(Steps) :
              /\ tasks' = Ended(tasks, t) \cup {m}
              /\ m.id = t.id /\ m.name = t.name /\ m.obj = t.obj /\ m.tries = t.tries + 1
              /\ m.at = "queue" /\ m.seen = {}
        BY <1>3, <2>4, RetryIs
    <2>6. m.tries <= MaxRetries[m.name]
        BY <1>3, <2>4, <2>5 DEF CanRetry
    <2>7. Weight(t, t.obj) = 1 /\ Weight(m, t.obj) = 1
        BY <1>1, <2>5, SendOwns, SendWeight
    <2>8. row.handed + Weight(m, t.obj) + old.excuses <= old.handed + Weight(t, t.obj) + row.excuses
        BY <2>1, <2>7, RowFields
    <2>9. Balanced(t.obj)
        BY <1>1, SendOwns
    <2> HIDE DEF RowStep
    <2> QED BY <1>1, <2>1, <2>3, <2>5, <2>6, <2>8, <2>9, SendMoved
<1>4. CASE /\ tasks' = Ended(tasks, t)
           /\ email' = [email EXCEPT ![t.obj].lost = @ \/ email[t.obj].status = "queued"]
    <2> DEFINE row == [old EXCEPT !.lost = old.lost \/ old.status = "queued"]
    <2>1. /\ row \in EmailLog /\ row.kind = old.kind /\ row.res = old.res
          /\ row.contract = old.contract /\ row.status = old.status
          /\ row.handed = old.handed /\ row.excuses = old.excuses /\ row.bare = old.bare
        BY RowFields DEF EmailLog, EmailStatus
    <2>2. email' = [email EXCEPT ![t.obj] = row]
        BY <1>4, RowFields DEF EmailLog
    <2> HIDE DEF row
    <2>3. RowStep(t, row)
        BY <1>1, <1>2, <2>1, <2>2 DEF RowStep
    <2> QED BY <1>1, <1>4, <2>1, <2>3, SendEnded
<1> QED BY <1>3, <1>4 DEF SendRaised

\* A click writes what it read some time ago: either somebody had it already, and that is the
\* excuse, or the row had failed and nobody else is left.
LEMMA RequeueKeeps ==
    ASSUME Inv, NEW t \in tasks, t.name = "send", Requeue(t) PROVE Inv'
<1> DEFINE old == email[t.obj]
           rivals == old.status # "failed" \/ \E s \in tasks : Sending(s, t.obj)
<1>1. /\ t.at = "read" /\ contract' = contract /\ due' = due /\ overlaps' = overlaps /\ clicks' = clicks
      /\ faults' = faults /\ "promised" \in StepsOf("send")
      /\ tasks' = Step(tasks, t, "promised", {})
    BY DEF Requeue, StepsOf
<1>2. Balanced(t.obj)
    BY <1>1, SendOwns
<1>3. old.handed \in Nat /\ old.excuses \in Nat /\ old.excuses + 1 \in Nat
    BY RowFields
<1>4. CASE /\ faults' = faults /\ rivals
           /\ email' = [email EXCEPT ![t.obj].status = "queued", ![t.obj].excuses = @ + 1]
    <2> DEFINE row == [old EXCEPT !.status = "queued", !.excuses = old.excuses + 1]
    <2>1. /\ row \in EmailLog /\ row.kind = old.kind /\ row.res = old.res
          /\ row.contract = old.contract
          /\ row.handed = old.handed /\ row.excuses = old.excuses + 1 /\ row.bare = old.bare
        BY <1>1, <1>3, RowFields DEF EmailLog, EmailStatus
    <2>2. email' = [email EXCEPT ![t.obj] = row]
        BY <1>4, RowFields DEF EmailLog
    <2>3. faults' \in 0 .. MaxFaults
        BY <1>4, FaultsAreNat DEF Inv
    <2> HIDE DEF row
    <2>4. RowStep(t, row)
        BY <1>1, <2>1, <2>2, <2>3 DEF RowStep
    <2>5. row.handed + (IF "promised" = "handed" THEN 0 ELSE 1) + old.excuses
              <= old.handed + (IF t.at \in {"read", "handed"} THEN 0 ELSE 1) + row.excuses
        BY <1>1, <1>3, <2>1
    <2> HIDE DEF RowStep
    <2> QED BY <1>1, <1>2, <2>1, <2>4, <2>5, SendWrites
<1>5. CASE /\ faults' = faults /\ ~rivals
           /\ email' = [email EXCEPT ![t.obj].status = "queued"]
    <2> DEFINE row == [old EXCEPT !.status = "queued"]
    <2>1. /\ row \in EmailLog /\ row.kind = old.kind /\ row.res = old.res
          /\ row.contract = old.contract
          /\ row.handed = old.handed /\ row.excuses = old.excuses /\ row.bare = old.bare
        BY RowFields DEF EmailLog, EmailStatus
    <2>2. email' = [email EXCEPT ![t.obj] = row]
        BY <1>5, RowFields DEF EmailLog
    <2>3. faults' \in 0 .. MaxFaults
        BY <1>5, FaultsAreNat DEF Inv
    <2> HIDE DEF row
    <2>4. RowStep(t, row)
        BY <1>1, <2>1, <2>2, <2>3 DEF RowStep
    <2>5. PICK m \in Message(Steps) :
              /\ tasks' = Ended(tasks, t) \cup {m}
              /\ m.id = t.id /\ m.name = t.name /\ m.obj = t.obj /\ m.tries <= MaxRetries[m.name]
              /\ m.at = "promised" /\ m.seen = {}
        BY <1>1, SendSteps
    <2>6. old.handed <= old.excuses
        BY <1>5, RowFields DEF Inv, Accounts, Account
    <2>7. Tally(tasks, t.obj) = 0
        <3>1. ASSUME NEW s \in tasks PROVE ~Weighs(s, t.obj)
            BY <1>5, SendOwns, AboutOnly DEF Sending, Weighs, Inv
        <3>2. {s \in tasks : Weighs(s, t.obj)} = {}
            BY <3>1
        <3> QED BY <3>2, FS_EmptySet DEF Tally
    <2>8. Tally(tasks', t.obj) <= 1
        <3>1. m \notin Ended(tasks, t)
            <4>1. m.at # t.at
                BY <1>1, <2>5
            <4> QED BY <2>5, GoodQueue DEF Ended, Inv, Queue, Good, WellFormed
        <3>2. Tally(tasks', t.obj) = Tally(tasks, t.obj) - Weight(t, t.obj) + Weight(m, t.obj)
            BY <2>5, <3>1, GoodQueue, TallyMoved DEF Inv
        <3>3. Weight(t, t.obj) \in 0 .. 1 /\ Weight(m, t.obj) \in 0 .. 1
            BY DEF Weight
        <3> QED BY <2>7, <3>2, <3>3
    <2>9. email'[t.obj] = row
        BY <2>2, RowFields
    <2>10. row.handed + Tally(tasks', t.obj) <= 1 + row.excuses
        <3>1. Tally(tasks', t.obj) \in Nat
            <4>1. IsFiniteSet(tasks')
                BY <2>5, GoodQueue, FS_RemoveElement, FS_AddElement DEF Ended, Inv
            <4> QED BY <4>1, TallyIsNat
        <3> QED BY <1>3, <2>1, <2>6, <2>8, <3>1
    <2>11. Balanced(t.obj)'
        BY <2>9, <2>10 DEF Balanced, Tally, Weighs
    <2> HIDE DEF RowStep
    <2> QED BY <1>1, <2>1, <2>4, <2>5, <2>11, SendMoved
<1>6. \/ /\ rivals
         /\ email' = [email EXCEPT ![t.obj].status = "queued", ![t.obj].excuses = @ + 1]
      \/ /\ ~rivals
         /\ email' = [email EXCEPT ![t.obj].status = "queued"]
    <2>1. email' = [email EXCEPT ![t.obj].status = "queued",
                                 ![t.obj].excuses = IF rivals THEN @ + 1 ELSE @]
        BY DEF Requeue
    <2>2. CASE rivals
        BY <2>1, <2>2
    <2>3. CASE ~rivals
        <3> HIDE DEF rivals
        <3> QED BY <2>1, <2>3, RowFields DEF EmailLog
    <2> QED BY <2>2, <2>3
<1> QED BY <1>1, <1>4, <1>5, <1>6

LEMMA SendLost ==
    ASSUME Inv, NEW t \in tasks, t.name = "send", WorkerLost(t) PROVE Inv'
<1> DEFINE old == email[t.obj]
<1>1. /\ t.at \notin {"queue", "promised", "read"} /\ contract' = contract /\ due' = due /\ overlaps' = overlaps
      /\ clicks' = clicks /\ Fault /\ "queue" \in StepsOf("send")
    BY DEF WorkerLost, StepsOf, Unseen
<1>2. Balanced(t.obj) /\ t.at \in {"render", "handed", "refused", "raised"}
    BY <1>1, SendOwns DEF StepsOf
<1>3. old.handed \in Nat /\ old.excuses \in Nat /\ old.excuses + 1 \in Nat
    BY RowFields
<1>4. tasks' = Step(tasks, t, "queue", {})
    <2>1. t \in Message(Steps)
        BY GoodQueue DEF Inv
    <2>2. [t EXCEPT !.obj = IF t.name = "sweep" THEN 0 ELSE @] = t
        BY <2>1 DEF Message
    <2>3. tasks' = Redelivered(Ended(tasks, t), t)
        BY <2>2 DEF WorkerLost
    <2> QED BY <2>3 DEF Redelivered, Step, Ended
<1>5. CASE /\ t.at = "handed" /\ Fault
           /\ email' = [email EXCEPT ![t.obj].excuses = @ + 1]
    <2> DEFINE row == [old EXCEPT !.excuses = old.excuses + 1]
    <2>1. /\ row \in EmailLog /\ row.kind = old.kind /\ row.res = old.res
          /\ row.contract = old.contract
          /\ row.handed = old.handed /\ row.excuses = old.excuses + 1 /\ row.bare = old.bare
        BY <1>1, <1>3, RowFields DEF EmailLog, EmailStatus
    <2>2. email' = [email EXCEPT ![t.obj] = row]
        BY <1>5, RowFields DEF EmailLog
    <2>3. faults' \in 0 .. MaxFaults
        BY <1>5, FaultsAreNat DEF Inv
    <2> HIDE DEF row
    <2>4. RowStep(t, row)
        BY <1>1, <2>1, <2>2, <2>3 DEF RowStep
    <2>5. row.handed + (IF "queue" = "handed" THEN 0 ELSE 1) + old.excuses
              <= old.handed + (IF t.at \in {"read", "handed"} THEN 0 ELSE 1) + row.excuses
        BY <1>1, <1>3, <1>5, <2>1
    <2> HIDE DEF RowStep
    <2> QED BY <1>1, <1>2, <1>4, <1>5, <2>1, <2>4, <2>5, SendWrites
<1>6. CASE t.at # "handed" /\ email' = email
    <2>1. faults' \in 0 .. MaxFaults
        BY <1>1, FaultsAreNat DEF Inv
    <2> QED BY <1>1, <1>2, <1>4, <1>6, <2>1, SendGoesOn
<1>7. \/ t.at = "handed" /\ email' = [email EXCEPT ![t.obj].excuses = @ + 1]
      \/ t.at # "handed" /\ email' = email
    BY <1>2 DEF WorkerLost
<1> QED BY <1>1, <1>5, <1>6, <1>7

-----------------------------------------------------------------------------
(* The steps of the other tasks that queue nothing *)

\* Their rows lose at most the message that was about to be queued for them.
OtherStep ==
    /\ SameRows /\ email' \in Seq(EmailLog) /\ Len(email') = Len(email)
    /\ contract' \in Seq(Contract) /\ Len(contract') = Len(contract)
    /\ due' = due /\ clicks' = clicks /\ faults' \in 0 .. MaxFaults

LEMMA OtherRows ==
    ASSUME Rows, OtherStep
    PROVE  Rows' /\ Longer /\ SameLetters /\ DOMAIN email' = DOMAIN email
                 /\ Len(email') = Len(email) /\ Len(contract') = Len(contract)
BY Sizes DEF Rows, OtherStep, Longer, SameLetters, SameRows

LEMMA OtherAccounts ==
    ASSUME Inv, NEW t \in tasks, t.name # "send", SameRows,
           \A s \in tasks : s # t => s \in tasks',
           \A s \in tasks' : s \in tasks \/ (s.name # "send" /\ s.at # "mailing"
                                              /\ (s.name = "sweep" => s.obj = 0))
    PROVE  Accounts'
<1> SUFFICES ASSUME NEW e \in DOMAIN email PROVE Account(e)'
    BY DEF Accounts, SameRows
<1>1. email[e] \in EmailLog /\ e # 0 /\ Account(e) /\ IsFiniteSet(tasks)
    BY Sizes, GoodQueue DEF Inv, Accounts
<1>2. email[e].handed \in Nat /\ email[e].excuses \in Nat
    BY <1>1 DEF EmailLog
<1>3. \A s \in tasks' : About(s, e) => s \in tasks
    BY <1>1 DEF About
<1> QED BY <1>1, <1>2, <1>3, AccountStays DEF SameRows

LEMMA OtherMoved ==
    ASSUME Inv, NEW t \in tasks, t.name # "send", OtherStep,
           NEW m \in Message(Steps), tasks' = Ended(tasks, t) \cup {m},
           m.id = t.id, m.name = t.name, m.tries <= MaxRetries[m.name],
           m.name = "build" => m.obj = t.obj, m.name = "sweep" => m.obj = 0,
           m.at \in StepsOf(m.name), m.at # "mailing", m.name = "sweep" => m.seen \subseteq Reservation
    PROVE  Rows' /\ Queue' /\ Accounts' /\ SameLetters
<1>1. Rows' /\ Longer /\ SameLetters /\ Len(email') = Len(email) /\ Len(contract') = Len(contract)
    BY OtherRows DEF Inv
<1>2. Fits(m, Len(email'), Len(contract'))
    <2>1. m.name = "build" => m.obj \in 1 .. Len(contract)
        BY GoodQueue DEF Fits, Inv
    <2>2. Len(email) \in Nat /\ 0 \in 0 .. Len(email)
        BY Sizes DEF Inv
    <2> QED BY <1>1, <2>1, <2>2 DEF Fits
<1>3. ~Weighs(m, 0)
    BY DEF Weighs
<1>4. Queue'
    BY <1>1, <1>2, <1>3, QueueMoved DEF Inv
<1>5. \A s \in tasks' : s \in tasks \/ s = m
    BY DEF Ended
<1>6. Accounts'
    BY <1>5, OtherAccounts DEF OtherStep, Ended
<1> QED BY <1>1, <1>4, <1>6

LEMMA OtherEnded ==
    ASSUME Inv, NEW t \in tasks, t.name # "send", OtherStep, tasks' = Ended(tasks, t)
    PROVE  Rows' /\ Queue' /\ Accounts' /\ SameLetters
<1>1. Rows' /\ Longer /\ SameLetters
    BY OtherRows DEF Inv
<1>2. Queue'
    BY <1>1, QueueEnded DEF Inv
<1>3. Accounts'
    BY OtherAccounts DEF OtherStep, Ended
<1> QED BY <1>1, <1>2, <1>3

LEMMA PrintingStays ==
    ASSUME Rows, Printing, SameRows, contract' = contract,
           \A s \in tasks' : s \in tasks \/ s.at \notin {"print", "printed", "mailing"}
    PROVE  Printing'
<1>1. \A s \in tasks' :
          /\ s.at = "print" /\ (\E e \in DOMAIN email : email[e].contract = s.obj)
                => contract[s.obj].again
          /\ s.at \in {"printed", "mailing"} => contract[s.obj].status = "ready"
    BY DEF Printing
<1> QED BY <1>1 DEF Printing, SameRows

-----------------------------------------------------------------------------
(* generate_contract *)

LEMMA BuildSteps ==
    ASSUME Inv, NEW t \in tasks, t.name = "build",
           NEW at \in {"queue", "print", "printed", "raised"},
           \/ tasks' = Step(tasks, t, at, {})
           \/ at = "queue" /\ CanRetry(t) /\ tasks' = Retried(tasks, t)
    PROVE  \E m \in Message(Steps) :
              /\ tasks' = Ended(tasks, t) \cup {m}
              /\ m.id = t.id /\ m.name = t.name /\ m.obj = t.obj /\ m.tries <= MaxRetries[m.name]
              /\ m.at = at /\ m.seen = {} /\ m.at \in StepsOf(m.name)
<1>1. t \in Message(Steps) /\ t.tries <= MaxRetries[t.name]
    BY GoodQueue DEF Inv
<1>2. at \in Steps \cup {"queue"} /\ {} \in SUBSET Nat /\ at \in StepsOf("build")
    BY DEF StepsOf, Steps
<1>3. t.tries \in Nat /\ MaxRetries[t.name] \in Nat
    BY <1>1, MessageFields, MailAssumption, CeleryAssumption
<1>4. CASE tasks' = Step(tasks, t, at, {})
    <2>1. PICK m \in Message(Steps) :
              /\ Step(tasks, t, at, {}) = Ended(tasks, t) \cup {m}
              /\ m.id = t.id /\ m.name = t.name /\ m.obj = t.obj /\ m.tries = t.tries
              /\ m.at = at /\ m.seen = {}
        BY <1>1, <1>2, StepIs
    <2> QED BY <1>1, <1>2, <1>4, <2>1
<1>5. CASE at = "queue" /\ CanRetry(t) /\ tasks' = Retried(tasks, t)
    <2>1. PICK m \in Message(Steps) :
              /\ Retried(tasks, t) = Ended(tasks, t) \cup {m}
              /\ m.id = t.id /\ m.name = t.name /\ m.obj = t.obj /\ m.tries = t.tries + 1
              /\ m.at = "queue" /\ m.seen = {}
        BY <1>1, RetryIs
    <2>2. m.tries <= MaxRetries[m.name]
        BY <1>3, <1>5, <2>1 DEF CanRetry
    <2> QED BY <1>2, <1>5, <2>1, <2>2
<1> QED BY <1>4, <1>5

\* A step that leaves the contracts, to the queue or after a failure.
LEMMA BuildGoesOn ==
    ASSUME Inv, NEW t \in tasks, t.name = "build", OtherStep, contract' = contract,
           overlaps' = overlaps,
           \/ tasks' = Ended(tasks, t)
           \/ tasks' = Step(tasks, t, "queue", {})
           \/ tasks' = Step(tasks, t, "raised", {})
           \/ CanRetry(t) /\ tasks' = Retried(tasks, t)
    PROVE  Inv'
<1>1. CASE tasks' = Ended(tasks, t)
    <2>1. \A s \in tasks' : s \in tasks
        BY <1>1 DEF Ended
    <2>2. Rows' /\ Queue' /\ Accounts' /\ SameLetters
        BY <1>1, OtherEnded
    <2>3. Reminding' /\ Printing'
        BY <2>1, <2>2, RemindingStays, PrintingStays DEF OtherStep, Inv
    <2> QED BY <2>2, <2>3 DEF Inv
<1>2. ASSUME NEW at \in {"queue", "print", "printed", "raised"}, at \in {"queue", "raised"},
             \/ tasks' = Step(tasks, t, at, {})
             \/ at = "queue" /\ CanRetry(t) /\ tasks' = Retried(tasks, t)
      PROVE  Inv'
    <2>1. PICK m \in Message(Steps) :
              /\ tasks' = Ended(tasks, t) \cup {m}
              /\ m.id = t.id /\ m.name = t.name /\ m.obj = t.obj /\ m.tries <= MaxRetries[m.name]
              /\ m.at = at /\ m.seen = {} /\ m.at \in StepsOf(m.name)
        BY <1>2, BuildSteps
    <2>2. Rows' /\ Queue' /\ Accounts' /\ SameLetters
        BY <1>2, <2>1, OtherMoved
    <2>3. \A s \in tasks' : s \in tasks \/ s = m
        BY <2>1 DEF Ended
    <2>4. Reminding'
        BY <2>1, <2>2, <2>3, RemindingStays DEF Inv
    <2>5. Printing'
        BY <1>2, <2>1, <2>3, PrintingStays DEF OtherStep, Inv
    <2> QED BY <2>2, <2>4, <2>5 DEF Inv
<1> QED BY <1>1, <1>2

\* The contract of a message, and what a step writes of it.
LEMMA ContractIs ==
    ASSUME Inv, NEW t \in tasks, t.name = "build"
    PROVE  /\ t.obj \in DOMAIN contract /\ contract[t.obj] \in Contract /\ contract \in Seq(Contract)
           /\ \A s \in tasks : s # t /\ s.at \in {"print", "printed", "mailing"} => s.obj # t.obj
<1>1. t.obj \in DOMAIN contract
    BY GoodQueue, Sizes DEF Inv, Fits
<1>2. \A s \in tasks : s.at \in {"print", "printed", "mailing"} => s.name = "build"
    BY GoodQueue DEF Inv, Fits, StepsOf
<1>3. \A s \in tasks : s.name = "build" /\ s.obj = t.obj => s = t
    BY DEF Inv, Queue, Good, Alone
<1> QED BY <1>1, <1>2, <1>3, Sizes DEF Inv, Rows

LEMMA StartBuildKeeps ==
    ASSUME Inv, NEW t \in tasks, StartBuild(t) PROVE Inv'
<1> DEFINE c == t.obj
           row == [contract[c] EXCEPT !.again = contract[c].again \/ contract[c].status = "ready"]
<1>1. /\ t.name = "build" /\ tasks' = Step(tasks, t, "print", {})
      /\ contract' = [contract EXCEPT ![c] = row]
      /\ email' = email /\ due' = due /\ overlaps' = overlaps /\ clicks' = clicks /\ faults' = faults
    BY DEF StartBuild, Unseen
<1>2. /\ row \in Contract /\ row.status = contract[c].status
      /\ row.again = (contract[c].again \/ contract[c].status = "ready")
    BY <1>1, ContractIs DEF Contract
<1> HIDE DEF row
<1>3. /\ contract' \in Seq(Contract) /\ Len(contract') = Len(contract)
      /\ DOMAIN contract' = DOMAIN contract /\ contract'[c] = row
      /\ \A d \in DOMAIN contract : d # c => contract'[d] = contract[d]
    BY <1>1, <1>2, ContractIs
<1>4. OtherStep
    BY <1>1, <1>3, NothingIsLost, FaultsAreNat DEF OtherStep, Inv
<1>5. PICK m \in Message(Steps) :
          /\ tasks' = Ended(tasks, t) \cup {m}
          /\ m.id = t.id /\ m.name = t.name /\ m.obj = t.obj /\ m.tries <= MaxRetries[m.name]
          /\ m.at = "print" /\ m.seen = {} /\ m.at \in StepsOf(m.name)
    BY <1>1, BuildSteps
<1>6. Rows' /\ Queue' /\ Accounts' /\ SameLetters
    BY <1>1, <1>4, <1>5, OtherMoved
<1>7. \A s \in tasks' : s \in tasks \/ s = m
    BY <1>5 DEF Ended
<1>8. Reminding'
    BY <1>1, <1>5, <1>6, <1>7, RemindingStays DEF Inv
<1>9. \A d \in DOMAIN contract : /\ contract'[d].status = contract[d].status
                                 /\ contract[d].again => contract'[d].again
                                 /\ d = c /\ contract[d].status = "ready" => contract'[d].again
    BY <1>2, <1>3
<1>10. \A e \in DOMAIN email :
          LET d == email[e].contract
          IN /\ d # 0 => d \in DOMAIN contract /\ (contract'[d].status = "ready" \/ contract'[d].again)
             /\ email[e].bare => d # 0 /\ contract'[d].again
    BY <1>9 DEF Inv, Printing
<1>11. ASSUME NEW s \in tasks'
       PROVE  /\ s.at = "print" /\ (\E e \in DOMAIN email : email[e].contract = s.obj)
                    => contract'[s.obj].again
              /\ s.at \in {"printed", "mailing"} => contract'[s.obj].status = "ready"
    <2>1. CASE s \in tasks /\ s # t
        BY <1>1, <1>3, <2>1, ContractIs DEF Inv, Printing, Ended
    <2>2. CASE s = m
        <3>1. c \in Nat /\ c # 0
            BY <1>1, ContractIs, Sizes DEF Inv
        <3> QED BY <1>5, <1>9, <2>2, <3>1 DEF Inv, Printing
    <2> QED BY <1>5, <2>1, <2>2 DEF Ended
<1>12. Printing'
    BY <1>1, <1>3, <1>10, <1>11 DEF Printing
<1> QED BY <1>6, <1>8, <1>12 DEF Inv

LEMMA PrintContractKeeps ==
    ASSUME Inv, NEW t \in tasks, t.name = "build", PrintContract(t) PROVE Inv'
<1> DEFINE c == t.obj
<1> SUFFICES ASSUME NEW status \in {"ready", "failed"}, NEW at \in {"queue", "print", "printed", "raised"},
                    status = "ready" <=> at = "printed", at # "print",
                    contract' = [contract EXCEPT ![c].status = status],
                    tasks' = Step(tasks, t, at, {})
             PROVE  Inv'
    BY DEF PrintContract
<1> DEFINE row == [contract[c] EXCEPT !.status = status]
<1>1. /\ t.at = "print" /\ contract' = [contract EXCEPT ![c] = row]
      /\ email' = email /\ due' = due /\ overlaps' = overlaps /\ clicks' = clicks /\ faults' = faults
    BY DEF PrintContract, Unseen
<1>2. row \in Contract /\ row.status = status /\ row.again = contract[c].again
    BY ContractIs DEF Contract, ContractStatus
<1> HIDE DEF row
<1>3. /\ contract' \in Seq(Contract) /\ Len(contract') = Len(contract)
      /\ DOMAIN contract' = DOMAIN contract /\ contract'[c] = row
      /\ \A d \in DOMAIN contract : d # c => contract'[d] = contract[d]
    BY <1>1, <1>2, ContractIs
<1>4. OtherStep
    BY <1>1, <1>3, NothingIsLost, FaultsAreNat DEF OtherStep, Inv
<1>5. PICK m \in Message(Steps) :
          /\ tasks' = Ended(tasks, t) \cup {m}
          /\ m.id = t.id /\ m.name = t.name /\ m.obj = t.obj /\ m.tries <= MaxRetries[m.name]
          /\ m.at = at /\ m.seen = {} /\ m.at \in StepsOf(m.name)
    BY <1>1, BuildSteps
<1>6. Rows' /\ Queue' /\ Accounts' /\ SameLetters
    BY <1>1, <1>4, <1>5, OtherMoved
<1>7. \A s \in tasks' : (s \in tasks /\ s # t) \/ s = m
    BY <1>5 DEF Ended
<1>8. Reminding'
    BY <1>1, <1>5, <1>6, <1>7, RemindingStays DEF Inv
<1>9. \A d \in DOMAIN contract : contract'[d].again = contract[d].again
    BY <1>2, <1>3
<1>10. \A e \in DOMAIN email :
          LET d == email[e].contract
          IN /\ d # 0 => d \in DOMAIN contract /\ (contract'[d].status = "ready" \/ contract'[d].again)
             /\ email[e].bare => d # 0 /\ contract'[d].again
    <2> SUFFICES ASSUME NEW e \in DOMAIN email
                 PROVE  LET d == email[e].contract
                        IN /\ d # 0 => /\ d \in DOMAIN contract
                                       /\ contract'[d].status = "ready" \/ contract'[d].again
                           /\ email[e].bare => d # 0 /\ contract'[d].again
        OBVIOUS
    <2>1. CASE email[e].contract = c
        \* it is printed again, which was written when this message started
        BY <1>1, <1>9, <2>1, ContractIs DEF Inv, Printing
    <2>2. CASE email[e].contract # c
        BY <1>3, <1>9, <2>2 DEF Inv, Printing
    <2> QED BY <2>1, <2>2
<1>11. ASSUME NEW s \in tasks'
       PROVE  /\ s.at = "print" /\ (\E e \in DOMAIN email : email[e].contract = s.obj)
                    => contract'[s.obj].again
              /\ s.at \in {"printed", "mailing"} => contract'[s.obj].status = "ready"
    <2>1. CASE s \in tasks /\ s # t
        BY <1>3, <2>1, ContractIs DEF Inv, Printing
    <2>2. CASE s = m
        BY <1>2, <1>3, <1>5, <2>2
    <2> QED BY <1>7, <2>1, <2>2
<1>12. Printing'
    BY <1>1, <1>3, <1>10, <1>11 DEF Printing
<1> QED BY <1>6, <1>8, <1>12 DEF Inv

\* The row a message of generate_contract is about to queue.
LEMMA MailingIs ==
    ASSUME Inv, NEW t \in tasks, t.at = "mailing"
    PROVE  t.name = "build" /\ Mailing(t) \in DOMAIN email /\ t.seen = {Mailing(t)}
<1>1. t.name = "build" /\ \E e \in 1 .. Len(email) : t.seen = {e}
    BY GoodQueue DEF Fits, StepsOf, Inv
<1> QED BY <1>1, Sizes DEF Mailing, Inv

LEMMA BuildStepKeeps ==
    ASSUME Inv, NEW t \in tasks, t.name = "build",
           Enqueue(t) \/ EnqueueFails(t) \/ BuildBreaks(t) \/ BuildRaised(t) \/ WorkerLost(t)
    PROVE  Inv'
<1>1. contract' = contract /\ due' = due /\ overlaps' = overlaps /\ clicks' = clicks /\ (faults' = faults \/ Fault)
    BY DEF Enqueue, EnqueueFails, BuildBreaks, BuildRaised, WorkerLost, Unseen
<1>2. \/ email' = email
      \/ t.at = "mailing" /\ email' = [email EXCEPT ![Mailing(t)].lost = TRUE]
    <2>1. t.at \notin {"handed", "sweeping"}
        BY GoodQueue DEF Fits, StepsOf, Inv
    <2>2. ASSUME WorkerLost(t)
          PROVE  \/ email' = email
                 \/ t.at = "mailing" /\ email' = [email EXCEPT ![Mailing(t)].lost = TRUE]
        <3>1. CASE t.at = "mailing"
            BY <2>2, <3>1 DEF WorkerLost
        <3>2. CASE t.at # "mailing"
            BY <2>1, <2>2, <3>2 DEF WorkerLost
        <3> QED BY <3>1, <3>2
    <2> QED BY <2>2 DEF Enqueue, EnqueueFails, BuildBreaks, BuildRaised
<1>3. email' \in Seq(EmailLog) /\ Len(email') = Len(email) /\ SameRows
    <2>1. Rows
        BY DEF Inv
    <2>2. CASE email' = email
        BY <2>1, <2>2, NothingIsLost
    <2>3. CASE t.at = "mailing" /\ email' = [email EXCEPT ![Mailing(t)].lost = TRUE]
        BY <2>1, <2>3, MailingIs, RowIsLost
    <2> QED BY <1>2, <2>2, <2>3
<1>4. OtherStep
    BY <1>1, <1>3, FaultsAreNat DEF OtherStep, Inv, Rows
<1>5. \/ tasks' = Ended(tasks, t)
      \/ tasks' = Step(tasks, t, "queue", {})
      \/ tasks' = Step(tasks, t, "raised", {})
      \/ CanRetry(t) /\ tasks' = Retried(tasks, t)
    <2>1. ASSUME WorkerLost(t) PROVE tasks' = Step(tasks, t, "queue", {})
        <3>1. t \in Message(Steps)
            BY GoodQueue DEF Inv
        <3>2. [t EXCEPT !.obj = IF t.name = "sweep" THEN 0 ELSE @] = t
            BY <3>1 DEF Message
        <3>3. tasks' = Redelivered(Ended(tasks, t), t)
            BY <2>1, <3>2 DEF WorkerLost
        <3> QED BY <3>3 DEF Redelivered, Step, Ended
    <2> QED BY <2>1 DEF Enqueue, EnqueueFails, BuildBreaks, BuildRaised
<1> QED BY <1>1, <1>4, <1>5, BuildGoesOn

-----------------------------------------------------------------------------
(* send_pickup_reminders *)

LEMMA SweepIs ==
    ASSUME Inv, NEW t \in tasks, t.name = "sweep"
    PROVE  /\ t \in Message(Steps) /\ t.tries <= MaxRetries[t.name]
           /\ t.at \in {"queue", "sweeping"} /\ t.obj \in 0 .. Len(email)
           /\ t.seen \subseteq Reservation /\ t.seen \in SUBSET Nat
           /\ t.at = "queue" => t.obj = 0
BY GoodQueue, MailAssumption DEF Inv, Fits, StepsOf

\* A sweep goes on, with a list that holds nothing new.
LEMMA SweepMoved ==
    ASSUME Inv, NEW t \in tasks, t.name = "sweep", OtherStep, contract' = contract,
           NEW m \in Message(Steps), tasks' = Ended(tasks, t) \cup {m},
           m.id = t.id, m.name = t.name, m.tries <= MaxRetries[m.name],
           m.obj = 0, m.at \in {"queue", "sweeping"}, m.seen \subseteq Reservation
    PROVE  Rows' /\ Queue' /\ Accounts' /\ Printing' /\ SameLetters
<1>1. m.at \in StepsOf(m.name) /\ m.at # "mailing" /\ m.name # "build"
    BY DEF StepsOf
<1>2. Rows' /\ Queue' /\ Accounts' /\ SameLetters
    BY <1>1, OtherMoved
<1>3. \A s \in tasks' : s \in tasks \/ s = m
    BY DEF Ended
<1>4. Printing'
    BY <1>3, PrintingStays DEF OtherStep, Inv
<1> QED BY <1>2, <1>4

\* What is held by a queue where one message took the place of another.
LEMMA HoldingMoved ==
    ASSUME Queue, NEW t \in tasks, t.name = "sweep", NEW m, NEW rest,
           rest \subseteq Ended(tasks, t) \cup {m}, NEW r, m.name = "sweep" /\ r \in m.seen => r \in t.seen
    PROVE  /\ Cardinality(Holding(rest, r)) \in Nat
           /\ Cardinality(Holding(rest, r)) <= Cardinality(Holding(tasks, r))
<1>1. Holding(rest, r) \subseteq (Holding(tasks, r) \ {t}) \cup {m}
    BY DEF Holding, Ended
<1>2. m \in Holding(rest, r) => t \in Holding(tasks, r)
    BY DEF Holding
<1>3. IsFiniteSet(Holding(tasks, r))
    BY ListedAre
<1> QED BY <1>1, <1>2, <1>3, NoMore

LEMMA SweepGoesOn ==
    ASSUME Inv, NEW t \in tasks, t.name = "sweep", OtherStep, contract' = contract,
           overlaps' = overlaps,
           \/ tasks' = Ended(tasks, t)
           \/ \E m \in Message(Steps) :
                 /\ tasks' = Ended(tasks, t) \cup {m}
                 /\ m.id = t.id /\ m.name = t.name /\ m.tries <= MaxRetries[m.name]
                 /\ m.obj = 0 /\ m.at \in {"queue", "sweeping"} /\ m.seen \subseteq t.seen
    PROVE  Inv'
<1>1. CASE tasks' = Ended(tasks, t)
    <2>1. \A s \in tasks' : s \in tasks
        BY <1>1 DEF Ended
    <2>2. Rows' /\ Queue' /\ Accounts' /\ SameLetters
        BY <1>1, OtherEnded
    <2>3. Reminding' /\ Printing'
        BY <2>1, <2>2, RemindingStays, PrintingStays DEF OtherStep, Inv
    <2> QED BY <2>2, <2>3 DEF Inv
<1>2. ASSUME NEW m \in Message(Steps),
             tasks' = Ended(tasks, t) \cup {m},
             m.id = t.id, m.name = t.name, m.tries <= MaxRetries[m.name],
             m.obj = 0, m.at \in {"queue", "sweeping"}, m.seen \subseteq t.seen
      PROVE  Inv'
    <2>1. m.seen \subseteq Reservation
        BY <1>2, SweepIs
    <2>2. Rows' /\ Queue' /\ Accounts' /\ Printing' /\ SameLetters
        BY <1>2, <2>1, SweepMoved
    <2>3. ASSUME NEW r \in Reservation
          PROVE  Cardinality(Listed(r)') \in Nat /\ Cardinality(Listed(r)') <= Cardinality(Listed(r))
        <3>1. Queue
            BY DEF Inv
        <3>2. /\ Cardinality(Holding(tasks', r)) \in Nat
              /\ Cardinality(Holding(tasks', r)) <= Cardinality(Holding(tasks, r))
            <4>1. tasks' \subseteq Ended(tasks, t) \cup {m} /\ (m.name = "sweep" /\ r \in m.seen => r \in t.seen)
                BY <1>2
            <4> QED BY <3>1, <4>1, HoldingMoved
        <3> QED BY <3>1, <3>2, ListedAre
    <2>4. Reminding'
        BY <2>2, <2>3, RemindingFalls DEF Inv
    <2> QED BY <2>2, <2>4 DEF Inv
<1> QED BY <1>1, <1>2

\* What it lists was never reminded; whatever another sweep has on its list is an overlap.
LEMMA StartSweepKeeps ==
    ASSUME Inv, NEW t \in tasks, StartSweep(t) PROVE Inv'
<1>1. /\ t.name = "sweep" /\ t.at = "queue" /\ email' = email /\ contract' = contract
      /\ due' = due /\ clicks' = clicks /\ faults' = faults
      /\ overlaps' = [r \in Reservation |->
                         IF r \in NeedingReminder /\ Listed(r) # {} THEN overlaps[r] + 1
                         ELSE overlaps[r]]
    BY DEF StartSweep
<1>2. OtherStep
    BY <1>1, NothingIsLost, FaultsAreNat DEF OtherStep, Inv, Rows
<1>3. /\ NeedingReminder \subseteq Reservation /\ NeedingReminder \in SUBSET Nat
      /\ \A r \in NeedingReminder : Reminders(r) = {}
    BY MailAssumption DEF NeedingReminder, Inv, Rows
<1>4. "sweeping" \in Steps \cup {"queue"} /\ t \in Message(Steps)
    BY <1>1, SweepIs DEF Steps
<1> DEFINE m == [t EXCEPT !.at = "sweeping", !.seen = NeedingReminder]
<1>5. /\ Step(tasks, t, "sweeping", NeedingReminder) = Ended(tasks, t) \cup {m}
      /\ m \in Message(Steps) /\ m.id = t.id /\ m.name = t.name /\ m.obj = t.obj
      /\ m.tries = t.tries /\ m.at = "sweeping" /\ m.seen = NeedingReminder
    BY <1>3, <1>4 DEF Step, Ended, Message
<1> HIDE DEF m
<1>6. t.obj = 0 /\ t.tries <= MaxRetries[t.name]
    BY <1>1, SweepIs
<1>7. overlaps \in [Reservation -> Nat] /\ overlaps' \in [Reservation -> Nat]
    BY <1>1 DEF Inv, Reminding
<1>8. CASE NeedingReminder = {}
    <2>1. tasks' = Ended(tasks, t)
        BY <1>8 DEF StartSweep
    <2>2. overlaps' = overlaps
        BY <1>1, <1>7, <1>8
    <2> QED BY <1>1, <1>2, <2>1, <2>2, SweepGoesOn
<1>9. CASE NeedingReminder # {}
    <2>1. tasks' = Ended(tasks, t) \cup {m}
        BY <1>5, <1>9 DEF StartSweep
    <2>2. Rows' /\ Queue' /\ Accounts' /\ Printing' /\ SameLetters
        BY <1>1, <1>2, <1>3, <1>5, <1>6, <2>1, SweepMoved
    <2>3. ASSUME NEW r \in Reservation
          PROVE  Cardinality(Reminders(r)') + Cardinality(Listed(r)') <= 1 + overlaps'[r]
        <3>1. /\ Reminders(r)' = Reminders(r) /\ Cardinality(Reminders(r)) \in Nat
              /\ overlaps[r] \in Nat /\ Cardinality(Listed(r)) \in Nat /\ IsFiniteSet(Listed(r))
              /\ Cardinality(Reminders(r)) + Cardinality(Listed(r)) <= 1 + overlaps[r]
            BY <1>7, <2>2, SameReminders, RemindersAre, ListedAre DEF Inv, Reminding
        <3>2. overlaps'[r] = IF r \in NeedingReminder /\ Listed(r) # {} THEN overlaps[r] + 1
                             ELSE overlaps[r]
            BY <1>1
        <3>3. Listed(r)' \subseteq Listed(r) \cup {m}
            <4>1. Holding(tasks', r) \subseteq Holding(tasks, r) \cup {m}
                BY <2>1 DEF Holding, Ended
            <4> QED BY <4>1, ListedAre DEF Inv
        <3>4. CASE r \notin NeedingReminder
            <4>1. m \notin Listed(r)'
                BY <1>5, <3>4 DEF Listed, Sweeps
            <4>2. Cardinality(Listed(r)') \in Nat /\ Cardinality(Listed(r)') <= Cardinality(Listed(r))
                BY <3>1, <3>3, <4>1, FS_Subset, FS_CardinalityType
            <4> QED BY <3>1, <3>2, <3>4, <4>2
        <3>5. CASE r \in NeedingReminder
            <4>1. Reminders(r) = {} /\ Cardinality(Reminders(r)) = 0
                BY <1>3, <3>5, FS_EmptySet
            <4> DEFINE some == Listed(r)
            <4>2. /\ IsFiniteSet(Listed(r) \cup {m})
                  /\ Cardinality(Listed(r) \cup {m}) <= Cardinality(Listed(r)) + 1
                  /\ Cardinality(Listed(r) \cup {m}) \in Nat
                <5>1. IsFiniteSet(some) /\ Cardinality(some) \in Nat
                    BY <3>1
                <5> HIDE DEF some
                <5>2. /\ IsFiniteSet(some \cup {m})
                      /\ Cardinality(some \cup {m}) =
                            IF m \in some THEN Cardinality(some) ELSE Cardinality(some) + 1
                    BY <5>1, FS_AddElement
                <5> QED BY <5>1, <5>2 DEF some
            <4>3. /\ Cardinality(Listed(r)') \in Nat
                  /\ Cardinality(Listed(r)') <= Cardinality(Listed(r)) + 1
                BY <3>1, <3>3, <4>2, FS_Subset, FS_CardinalityType
            <4>4. Listed(r) = {} => Cardinality(Listed(r)) = 0
                BY FS_EmptySet
            <4> QED BY <3>1, <3>2, <3>5, <4>1, <4>3, <4>4
        <3> QED BY <3>4, <3>5
    <2>4. Reminding'
        BY <1>7, <2>3 DEF Reminding
    <2> QED BY <2>2, <2>4 DEF Inv
<1> QED BY <1>8, <1>9

\* The next of the list when reminders are switched off.
LEMMA RemindSkips ==
    ASSUME Inv, NEW t \in tasks, t.name = "sweep", Remind(t), "reminder" \in SwitchedOff
    PROVE  Inv'
<1> DEFINE r == CHOOSE r \in t.seen : TRUE
           m == [t EXCEPT !.seen = @ \ {r}]
<1>1. /\ t.at = "sweeping" /\ t.obj = 0 /\ email' = email /\ contract' = contract
      /\ due' = due /\ overlaps' = overlaps /\ clicks' = clicks /\ faults' = faults
      /\ tasks' = Ended(tasks, t) \cup {m}
    BY DEF Remind, Unseen
<1>2. OtherStep
    BY <1>1, NothingIsLost, FaultsAreNat DEF OtherStep, Inv, Rows
<1>3. /\ m \in Message(Steps) /\ m.id = t.id /\ m.name = t.name /\ m.obj = t.obj
      /\ m.tries = t.tries /\ m.at = t.at /\ m.seen \subseteq t.seen
    BY SweepIs DEF Message
<1> HIDE DEF m
<1>4. /\ m.tries <= MaxRetries[m.name] /\ m.obj = 0 /\ m.at \in {"queue", "sweeping"}
    BY <1>1, <1>3, SweepIs
<1> QED BY <1>1, <1>2, <1>3, <1>4, SweepGoesOn

LEMMA SweepStops ==
    ASSUME Inv, NEW t \in tasks, t.name = "sweep", EndSweep(t) \/ SweepBreaks(t)
    PROVE  Inv'
<1>1. /\ contract' = contract /\ due' = due /\ overlaps' = overlaps /\ clicks' = clicks /\ (faults' = faults \/ Fault)
      /\ tasks' = Ended(tasks, t)
      /\ \/ email' = email
         \/ t.obj # 0 /\ email' = [email EXCEPT ![t.obj].lost = TRUE]
    BY DEF EndSweep, SweepBreaks, Unseen
<1>2. email' \in Seq(EmailLog) /\ Len(email') = Len(email) /\ SameRows
    <2>1. Rows
        BY DEF Inv
    <2>2. t.obj # 0 => t.obj \in DOMAIN email
        BY <2>1, SweepIs, Sizes
    <2> QED BY <1>1, <2>1, <2>2, NothingIsLost, RowIsLost
<1>3. OtherStep
    BY <1>1, <1>2, FaultsAreNat DEF OtherStep, Inv, Rows
<1> QED BY <1>1, <1>3, SweepGoesOn

LEMMA SweepIsLost ==
    ASSUME Inv, NEW t \in tasks, t.name = "sweep", WorkerLost(t)
    PROVE  Inv'
<1> DEFINE back == [t EXCEPT !.obj = 0]
           m == [back EXCEPT !.at = "queue", !.seen = {}]
<1>1. /\ contract' = contract /\ due' = due /\ overlaps' = overlaps /\ clicks' = clicks /\ Fault
      /\ t.at = "sweeping"
      /\ tasks' = Redelivered(Ended(tasks, t), back)
    BY SweepIs DEF WorkerLost, Unseen
<1>2. \/ email' = email
      \/ t.obj # 0 /\ email' = [email EXCEPT ![t.obj].lost = TRUE]
    BY <1>1 DEF WorkerLost
<1>3. email' \in Seq(EmailLog) /\ Len(email') = Len(email) /\ SameRows
    <2>1. Rows
        BY DEF Inv
    <2>2. t.obj # 0 => t.obj \in DOMAIN email
        BY <2>1, SweepIs, Sizes
    <2> QED BY <1>2, <2>1, <2>2, NothingIsLost, RowIsLost
<1>4. OtherStep
    BY <1>1, <1>3, FaultsAreNat DEF OtherStep, Inv, Rows
<1>5. /\ m \in Message(Steps) /\ m.id = t.id /\ m.name = t.name /\ m.tries = t.tries
      /\ m.obj = 0 /\ m.at = "queue" /\ m.seen = {} /\ back.name = t.name
    BY SweepIs DEF Message
<1>6. back \notin Ended(tasks, t)
    <2>1. back.id = t.id /\ back.name = t.name
        BY SweepIs DEF Message
    <2> HIDE DEF back
    <2> QED BY <2>1 DEF Ended, Inv, Queue, Good, WellFormed
<1>7. tasks' = Ended(tasks, t) \cup {m}
    <2>1. tasks' = (Ended(tasks, t) \ {back}) \cup {m}
        BY <1>1 DEF Redelivered, Step
    <2> HIDE DEF m, back
    <2> QED BY <1>6, <2>1
<1> HIDE DEF m
<1>8. m.tries <= MaxRetries[m.name] /\ m.at \in {"queue", "sweeping"} /\ m.seen \subseteq t.seen
    BY <1>5, SweepIs
<1> QED BY <1>1, <1>4, <1>5, <1>7, <1>8, SweepGoesOn

-----------------------------------------------------------------------------
(* A row more *)

NewRow(r, kind, c) ==
    /\ Len(email) < MaxEmails /\ email' = Append(email, Letter(r, kind, c))
    /\ contract' = contract /\ due' = due /\ overlaps' = overlaps /\ clicks' = clicks /\ faults' = faults

LEMMA RowAdded ==
    ASSUME Inv, NEW r \in Reservation, NEW kind \in EmailKind, NEW c \in Nat, NewRow(r, kind, c)
    PROVE  /\ Rows' /\ Longer /\ Paid /\ Len(email') = Len(email) + 1
           /\ Len(email) \in Nat /\ Len(contract') = Len(contract)
           /\ Len(email') \in DOMAIN email' /\ Len(email') \notin DOMAIN email /\ Len(email') # 0
           /\ DOMAIN email' = DOMAIN email \cup {Len(email')}
           /\ email'[Len(email')] = Letter(r, kind, c)
           /\ \A e \in DOMAIN email : email'[e] = email[e]
<1>1. Letter(r, kind, c) \in EmailLog
    BY DEF Letter, EmailLog, EmailStatus
<1>2. /\ email \in Seq(EmailLog) /\ Len(email) \in Nat /\ clicks \in Nat /\ MaxEmails \in Nat
      /\ DOMAIN email = 1 .. Len(email)
    BY Sizes, MailAssumption DEF Inv, Rows
<1> HIDE DEF Letter
<1>3. /\ email' \in Seq(EmailLog) /\ Len(email') = Len(email) + 1
      /\ email'[Len(email) + 1] = Letter(r, kind, c)
      /\ \A e \in 1 .. Len(email) : email'[e] = email[e]
      /\ DOMAIN email' = 1 .. (Len(email) + 1)
    BY <1>1, <1>2 DEF NewRow
<1>4. Rows' /\ Longer /\ Paid
    BY <1>2, <1>3, Sizes DEF NewRow, Inv, Rows, Longer, Paid
<1>5. 1 .. (Len(email) + 1) = 1 .. Len(email) \cup {Len(email) + 1} /\ Len(email) + 1 \notin 1 .. Len(email)
    BY <1>2
<1> QED BY <1>2, <1>3, <1>4, <1>5 DEF NewRow

\* Nobody knew the row; one message at most is about it.
LEMMA AddedAccounts ==
    ASSUME Inv, NEW r \in Reservation, NEW kind \in EmailKind, NEW c \in Nat, NewRow(r, kind, c),
           NEW n, n = Len(email'),
           \A s \in tasks : s.name = "send" => s \in tasks',
           \A s \in tasks' : s \in tasks \/ \A e \in DOMAIN email : ~About(s, e),
           \A s, t \in tasks' : About(s, n) /\ About(t, n) => s = t,
           r \in NoAddress => \A s \in tasks' : ~About(s, n)
    PROVE  Accounts'
<1>1. /\ DOMAIN email' = DOMAIN email \cup {n} /\ n # 0
      /\ email'[n] = Letter(r, kind, c)
      /\ \A e \in DOMAIN email : email'[e] = email[e]
    BY RowAdded
<1>2. ASSUME NEW e \in DOMAIN email PROVE Account(e)'
    <2>1. email[e] \in EmailLog /\ e # 0 /\ Account(e) /\ IsFiniteSet(tasks)
        BY Sizes, GoodQueue DEF Inv, Accounts, Queue, Good
    <2>2. email[e].handed \in Nat /\ email[e].excuses \in Nat
        BY <2>1 DEF EmailLog
    <2>3. \A s \in tasks' : About(s, e) => s \in tasks
        OBVIOUS
    <2>4. email'[e] = email[e]
        BY <1>1
    <2> QED BY <2>1, <2>2, <2>3, <2>4, AccountStays
<1>3. Account(n)'
    <2>1. /\ email'[n].handed = 0 /\ email'[n].excuses = 0
          /\ email'[n].status = IF r \in NoAddress THEN "skipped" ELSE "queued"
        BY <1>1 DEF Letter
    <2>2. Tally(tasks', n) <= 1 /\ Tally(tasks', n) \in Nat
        <3> DEFINE some == {s \in tasks' : Weighs(s, n)}
        <3>1. \A s \in some : About(s, n)
            BY <1>1 DEF Weighs, About
        <3>2. \A s, t \in some : s = t
            BY <3>1
        <3> HIDE DEF some
        <3>3. Cardinality(some) = 0 \/ Cardinality(some) = 1
            BY <3>2, AtMostOne
        <3> QED BY <3>3 DEF some, Tally
    <2>3. Balanced(n)'
        BY <2>1, <2>2 DEF Balanced, Tally, Weighs
    <2>4. (\A t \in tasks : About(t, n) /\ t.name # "send" =>
                            OnlyAbout(t, n) /\ email[n].status = "queued")'
        BY <2>1 DEF About, OnlyAbout
    <2> QED BY <2>1, <2>3, <2>4 DEF Account
<1> QED BY <1>1, <1>2, <1>3 DEF Accounts

LEMMA AddedReminders ==
    ASSUME Inv, NEW r \in Reservation, NEW kind \in EmailKind, NEW c \in Nat, NewRow(r, kind, c)
    PROVE  \A q : Reminders(q)' = IF kind = "reminder" /\ q = r THEN Reminders(q) \cup {Len(email')}
                                  ELSE Reminders(q)
<1>1. /\ DOMAIN email' = DOMAIN email \cup {Len(email')} /\ Len(email') \notin DOMAIN email
      /\ email'[Len(email')] = Letter(r, kind, c)
      /\ \A e \in DOMAIN email : email'[e] = email[e]
    BY RowAdded
<1>2. Letter(r, kind, c).kind = kind /\ Letter(r, kind, c).res = r
    BY DEF Letter
<1> HIDE DEF Letter
<1> QED BY <1>1, <1>2 DEF Reminders

LEMMA AddedReminding ==
    ASSUME Inv, NEW r \in Reservation, NEW kind \in EmailKind, NEW c \in Nat, NewRow(r, kind, c),
           \A q \in Reservation :
              /\ Cardinality(Listed(q)') \in Nat
              /\ Cardinality(Listed(q)') <= IF kind = "reminder" /\ q = r
                                            THEN Cardinality(Listed(q)) - 1
                                            ELSE Cardinality(Listed(q))
    PROVE  Reminding'
<1>1. Rows /\ Queue /\ overlaps \in [Reservation -> Nat] /\ overlaps' = overlaps
    BY DEF Inv, Reminding, NewRow
<1>2. ASSUME NEW q \in Reservation
      PROVE  Cardinality(Reminders(q)') + Cardinality(Listed(q)') <= 1 + overlaps'[q]
    <2>1. Reminders(q)' = IF kind = "reminder" /\ q = r THEN Reminders(q) \cup {Len(email')}
                          ELSE Reminders(q)
        BY AddedReminders
    <2>2. /\ Cardinality(Reminders(q)) + Cardinality(Listed(q)) <= 1 + overlaps[q]
          /\ Cardinality(Reminders(q)) \in Nat /\ Cardinality(Listed(q)) \in Nat
          /\ IsFiniteSet(Reminders(q)) /\ overlaps[q] \in Nat
        BY <1>1, RemindersAre, ListedAre DEF Inv, Reminding
    <2>3. Len(email') \notin Reminders(q)
        BY <1>1, RowAdded, RemindersAre
    <2>4. Cardinality(Reminders(q) \cup {Len(email')}) = Cardinality(Reminders(q)) + 1
        BY <2>2, <2>3, FS_AddElement
    <2>5. /\ Cardinality(Listed(q)') \in Nat
          /\ Cardinality(Listed(q)') <= IF kind = "reminder" /\ q = r
                                        THEN Cardinality(Listed(q)) - 1
                                        ELSE Cardinality(Listed(q))
        OBVIOUS
    <2> QED BY <1>1, <2>1, <2>2, <2>4, <2>5
<1> QED BY <1>1, <1>2 DEF Reminding

\* A row of another kind, while the sweeps go on as they were.
LEMMA AddedElsewhere ==
    ASSUME Inv, NEW r \in Reservation, NEW kind \in EmailKind, NEW c \in Nat, NewRow(r, kind, c),
           kind # "reminder", \A s \in tasks' : s.name = "sweep" => s \in tasks
    PROVE  Reminding'
<1>1. ASSUME NEW q \in Reservation
      PROVE  Cardinality(Listed(q)') \in Nat /\ Cardinality(Listed(q)') <= Cardinality(Listed(q))
    <2>1. Holding(tasks', q) \subseteq Holding(tasks, q)
        BY DEF Holding
    <2> QED BY <2>1, ListedAre, FS_Subset, FS_CardinalityType DEF Inv
<1> QED BY <1>1, AddedReminding

LEMMA AddedPrinting ==
    ASSUME Inv, NEW r \in Reservation, NEW kind \in EmailKind, NEW c \in Nat, NewRow(r, kind, c),
           c # 0 => c \in DOMAIN contract /\ contract[c].status = "ready",
           \A s \in tasks' : s.at = "print" => s \in tasks /\ s.obj # c,
           \A s \in tasks' : s.at \in {"printed", "mailing"} => contract[s.obj].status = "ready"
    PROVE  Printing'
<1>1. /\ DOMAIN email' = DOMAIN email \cup {Len(email')} /\ contract' = contract
      /\ email'[Len(email')] = Letter(r, kind, c)
      /\ \A e \in DOMAIN email : email'[e] = email[e]
    BY RowAdded DEF NewRow
<1>2. Letter(r, kind, c).contract = c /\ Letter(r, kind, c).bare = FALSE
    BY DEF Letter
<1> HIDE DEF Letter
<1>3. \A e \in DOMAIN email' :
          LET d == email'[e].contract
          IN /\ d # 0 => d \in DOMAIN contract /\ (contract[d].status = "ready" \/ contract[d].again)
             /\ email'[e].bare => d # 0 /\ contract[d].again
    BY <1>1, <1>2 DEF Inv, Printing
<1>4. ASSUME NEW s \in tasks', s.at = "print", NEW e \in DOMAIN email', email'[e].contract = s.obj
      PROVE  contract[s.obj].again
    <2>1. e \in DOMAIN email /\ email[e].contract = s.obj /\ s \in tasks
        BY <1>1, <1>2, <1>4
    <2> QED BY <1>4, <2>1 DEF Inv, Printing
<1> QED BY <1>1, <1>3, <1>4 DEF Printing

\* Every message is about rows that are there.
LEMMA AboutIsThere ==
    ASSUME Rows, Queue, NEW s \in tasks, NEW e, e # 0, About(s, e) PROVE e \in DOMAIN email
<1>1. Fits(s, Len(email), Len(contract)) /\ DOMAIN email = 1 .. Len(email) /\ Len(email) \in Nat
    BY GoodQueue, Sizes
<1>2. s.at = "mailing" /\ s.seen = {e} => e \in 1 .. Len(email)
    BY <1>1 DEF Fits
<1>3. s.name = "sweep" /\ s.obj = e => e \in 1 .. Len(email)
    BY <1>1 DEF Fits
<1> QED BY <1>1, <1>2, <1>3 DEF Fits, About

LEMMA PrintIsSomething ==
    ASSUME Rows, Queue PROVE \A s \in tasks : s.at = "print" => s.obj # 0 /\ s.name = "build"
<1>1. ASSUME NEW s \in tasks, s.at = "print" PROVE s.obj \in 1 .. Len(contract) /\ s.name = "build"
    BY <1>1, GoodQueue DEF Fits, StepsOf
<1>2. Len(contract) \in Nat
    BY Sizes
<1> QED BY <1>1, <1>2

\* There is always a number for one send more.
LEMMA RoomToSend ==
    ASSUME Rows, Queue, Len(email) < MaxEmails \/ clicks < MaxClicks
    PROVE  Tally(tasks, 0) < MaxTasks /\ Tally(tasks, 0) \in Nat
<1>1. Tally(tasks, 0) \in Nat
    BY GoodQueue, TallyIsNat DEF Queue, Good
<1>2. /\ Len(email) \in Nat /\ clicks \in Nat /\ MaxEmails \in Nat /\ MaxClicks \in Nat
      /\ MaxOpen \in Nat /\ MaxTasks \in Nat /\ clicks <= MaxClicks /\ Len(email) <= MaxEmails
      /\ MaxTasks >= MaxOpen + MaxEmails + MaxClicks
    BY Sizes, MailAssumption, CeleryAssumption DEF Rows
<1>3. Tally(tasks, 0) <= MaxOpen + Len(email) + clicks
    BY DEF Queue
<1> QED BY <1>1, <1>2, <1>3

LEMMA QueueEmailKeeps ==
    ASSUME Inv, NEW r \in Reservation, QueueEmail(r) PROVE Inv'
<1>1. NewRow(r, "confirmation", 0) /\ "confirmation" \in EmailKind /\ 0 \in Nat
    BY DEF QueueEmail, NewRow, EmailKind
<1>2. PICK n : n = Len(email')
    OBVIOUS
<1>3. /\ Rows' /\ Longer /\ n = Len(email) + 1 /\ n \in DOMAIN email' /\ n # 0 /\ n \notin DOMAIN email
      /\ Len(email) \in Nat /\ Len(contract') = Len(contract)
    BY <1>1, <1>2, RowAdded
<1>4. \A s \in tasks : ~About(s, n)
    BY <1>3, AboutIsThere DEF Inv
<1>5. CASE r \in NoAddress
    <2>1. tasks' = tasks
        BY <1>5 DEF QueueEmail
    <2>2. Queue'
        <3>1. Good(tasks, Len(email'), Len(contract'))
            BY <1>2, <1>3, Sizes, GoodLater DEF Inv, Queue
        <3>2. Tally(tasks, 0) <= MaxOpen + Len(email') + clicks'
            BY <1>1, <1>2, <1>3, Sizes, RoomToSend, CeleryAssumption DEF Inv, Queue, NewRow
        <3> QED BY <2>1, <3>1, <3>2, QueueIs
    <2>3. Accounts'
        BY <1>1, <1>2, <1>4, <2>1, AddedAccounts
    <2>4. Reminding'
        BY <1>1, <2>1, AddedElsewhere
    <2>5. Printing'
        BY <1>1, <2>1, AddedPrinting, PrintIsSomething DEF Inv, Printing
    <2> QED BY <1>3, <2>2, <2>3, <2>4, <2>5 DEF Inv
<1>6. CASE r \notin NoAddress
    <2>1. tasks' = With(tasks, "send", n, "promised")
        BY <1>2, <1>6 DEF QueueEmail
    <2>2. Good(tasks, Len(email'), Len(contract'))
        BY <1>2, <1>3, Sizes, GoodLater DEF Inv, Queue
    <2>3. "promised" \in StepsOf("send") /\ DOMAIN email' \in SUBSET Nat /\ Row(n, Len(email'))
        BY <1>2, <1>3 DEF StepsOf, Rows, Row
    <2>4. CanJoin(tasks, Len(email'), Len(contract'), n, "promised")
        BY <1>1, <1>3, <2>2, <2>3, RoomToSend DEF NewRow, Inv, CanJoin
    <2>5. PICK m \in Message(Steps) : Joins(tasks, Len(email'), Len(contract'), n, "promised", m)
        BY <2>4, NumberToSend
    <2>6. /\ With(tasks, "send", n, "promised") = tasks \cup {m} /\ m \notin tasks
          /\ Row(n, Len(email')) => Good(tasks \cup {m}, Len(email'), Len(contract'))
          /\ m.name = "send" /\ m.obj = n /\ m.at = "promised" /\ m.seen = {}
          /\ Tally(tasks \cup {m}, 0) = Tally(tasks, 0) + 1
        BY <2>5 DEF Joins
    <2>7. Queue'
        <3>1. Tally(tasks', 0) = Tally(tasks, 0) + 1
            BY <2>1, <2>6
        <3>2. Tally(tasks', 0) <= MaxOpen + Len(email') + clicks'
            BY <1>1, <1>2, <1>3, <3>1, Sizes, RoomToSend, CeleryAssumption DEF Inv, Queue, NewRow
        <3> QED BY <2>1, <2>3, <2>6, <3>2, QueueIs
    <2>8. \A e : About(m, e) => e = n
        BY <2>6 DEF About
    <2>9. \A s \in tasks' : s \in tasks \/ s = m
        BY <2>1, <2>6
    <2>10. Accounts'
        BY <1>1, <1>2, <1>3, <1>4, <1>6, <2>1, <2>6, <2>8, <2>9, AddedAccounts
    <2>11. Reminding'
        BY <1>1, <2>6, <2>9, AddedElsewhere
    <2>12. Printing'
        BY <1>1, <2>6, <2>9, AddedPrinting, PrintIsSomething DEF Inv, Printing
    <2> QED BY <1>3, <2>7, <2>10, <2>11, <2>12 DEF Inv
<1> QED BY <1>5, <1>6

\* A contract that was printed gets the row of its e-mail, and the worker goes on with it.
LEMMA MailContractKeeps ==
    ASSUME Inv, NEW t \in tasks, t.name = "build", MailContract(t) PROVE Inv'
<1>1. t.at = "printed" /\ contract' = contract /\ due' = due /\ overlaps' = overlaps /\ clicks' = clicks /\ faults' = faults
    BY DEF MailContract, Unseen
<1>2. CASE "contract" \in SwitchedOff
    <2>1. tasks' = Ended(tasks, t) /\ email' = email
        BY <1>2 DEF MailContract
    <2>2. OtherStep
        BY <1>1, <2>1, NothingIsLost, FaultsAreNat DEF OtherStep, Inv, Rows
    <2> QED BY <1>1, <2>1, <2>2, BuildGoesOn
<1>3. CASE "contract" \notin SwitchedOff
    <2> DEFINE r == contract[t.obj].res
    <2>1. r \in Reservation /\ "contract" \in EmailKind /\ t.obj \in Nat /\ t.obj \in DOMAIN contract
        BY ContractIs, Sizes DEF Contract, EmailKind, Inv
    <2>2. NewRow(r, "contract", t.obj)
        BY <1>1, <1>3 DEF MailContract, NewRow
    <2>3. contract[t.obj].status = "ready"
        BY <1>1 DEF Inv, Printing
    <2>4. PICK n : n = Len(email')
        OBVIOUS
    <2>5. tasks' = IF r \in NoAddress THEN Ended(tasks, t) ELSE Step(tasks, t, "mailing", {n})
        BY <1>3, <2>4 DEF MailContract
    <2> HIDE DEF r
    <2>6. /\ Rows' /\ Longer /\ Paid /\ n \in DOMAIN email' /\ n # 0 /\ n \notin DOMAIN email /\ n \in Nat
          /\ DOMAIN email' = 1 .. Len(email') /\ Len(contract') = Len(contract)
        BY <2>1, <2>2, <2>4, RowAdded DEF Rows
    <2>7. \A s \in tasks : ~About(s, n)
        BY <2>6, AboutIsThere DEF Inv
    <2>8. \A s \in tasks : s # t => ~(s.at = "print" /\ s.obj = t.obj)
        BY ContractIs
    <2>9. CASE r \in NoAddress
        <3>1. tasks' = Ended(tasks, t) /\ \A s \in tasks' : s \in tasks /\ s # t
            BY <2>5, <2>9 DEF Ended
        <3>2. Queue'
            BY <2>6, <3>1, QueueEnded DEF Inv
        <3>3. Accounts'
            <4>1. \A s \in tasks : s.name = "send" => s \in tasks'
                BY <3>1 DEF Ended
            <4> QED BY <2>1, <2>2, <2>4, <2>7, <3>1, <4>1, AddedAccounts
        <3>4. Reminding'
            BY <2>1, <2>2, <3>1, AddedElsewhere
        <3>5. Printing'
            BY <2>1, <2>2, <2>3, <2>8, <3>1, AddedPrinting DEF Inv, Printing
        <3> QED BY <2>6, <3>2, <3>3, <3>4, <3>5 DEF Inv
    <2>10. CASE r \notin NoAddress
        <3> DEFINE m == [t EXCEPT !.at = "mailing", !.seen = {n}]
        <3>1. t \in Message(Steps) /\ t.tries <= MaxRetries[t.name] /\ "mailing" \in Steps
            BY GoodQueue DEF Inv, Steps
        <3>2. /\ m \in Message(Steps) /\ m.id = t.id /\ m.name = t.name /\ m.obj = t.obj
              /\ m.tries = t.tries /\ m.at = "mailing" /\ m.seen = {n}
            BY <2>6, <3>1 DEF Message
        <3>3. tasks' = Ended(tasks, t) \cup {m}
            BY <2>5, <2>10 DEF Step, Ended
        <3> HIDE DEF m
        <3>4. \A s \in tasks' : s = m \/ (s \in tasks /\ s # t)
            BY <3>3 DEF Ended
        <3>5. Fits(m, Len(email'), Len(contract'))
            <4>1. t.obj \in 1 .. Len(contract)
                BY GoodQueue DEF Inv, Fits
            <4> QED BY <2>6, <3>2, <4>1 DEF Fits, StepsOf
        <3>6. Queue'
            BY <2>6, <3>1, <3>2, <3>3, <3>5, QueueMoved DEF Inv
        <3>7. \A e : e # 0 /\ About(m, e) => e = n
            BY <3>2 DEF About
        <3>8. Accounts'
            <4>1. \A s \in tasks : s.name = "send" => s \in tasks'
                BY <3>3 DEF Ended
            <4>2. \A e \in DOMAIN email : ~About(m, e)
                BY <2>6, <3>7, Sizes DEF Inv
            <4>3. \A s \in tasks' : s \in tasks \/ \A e \in DOMAIN email : ~About(s, e)
                BY <3>4, <4>2
            <4>4. \A s \in tasks' : About(s, n) => s = m
                BY <2>7, <3>4
            <4> QED BY <2>1, <2>2, <2>4, <2>10, <4>1, <4>3, <4>4, AddedAccounts
        <3>9. Reminding'
            BY <2>1, <2>2, <3>2, <3>4, AddedElsewhere
        <3>10. Printing'
            <4>1. \A s \in tasks' : s.at = "print" => s \in tasks /\ s.obj # t.obj
                BY <2>8, <3>2, <3>4
            <4>2. \A s \in tasks' : s.at \in {"printed", "mailing"} => contract[s.obj].status = "ready"
                BY <2>3, <3>2, <3>4 DEF Inv, Printing
            <4> QED BY <2>1, <2>2, <2>3, <4>1, <4>2, AddedPrinting
        <3> QED BY <2>6, <3>6, <3>8, <3>9, <3>10 DEF Inv
    <2> QED BY <2>9, <2>10
<1> QED BY <1>2, <1>3

\* The next of the list: a reminder more, and a sweep less that has it to do.
LEMMA RemindKeeps ==
    ASSUME Inv, NEW t \in tasks, t.name = "sweep", Remind(t) PROVE Inv'
<1> SUFFICES ASSUME "reminder" \notin SwitchedOff PROVE Inv'
    BY RemindSkips
<1>1. PICK r : r = CHOOSE q \in t.seen : TRUE
    OBVIOUS
<1>2. /\ t.at = "sweeping" /\ t.obj = 0 /\ t.seen # {} /\ r \in t.seen /\ r \in Reservation
    BY <1>1, SweepIs DEF Remind
<1>3. NewRow(r, "reminder", 0) /\ "reminder" \in EmailKind /\ 0 \in Nat
    BY <1>1 DEF Remind, NewRow, Unseen, EmailKind
<1>4. PICK n : n = Len(email')
    OBVIOUS
<1>5. /\ Rows' /\ Longer /\ Paid /\ n \in DOMAIN email' /\ n # 0 /\ n \notin DOMAIN email /\ n \in Nat
      /\ DOMAIN email' = 1 .. Len(email') /\ Len(contract') = Len(contract) /\ 0 \in 0 .. Len(email')
      /\ n \in 0 .. Len(email')
    <2>1. /\ Rows' /\ Longer /\ Paid /\ n \in DOMAIN email' /\ n # 0 /\ n \notin DOMAIN email
          /\ Len(contract') = Len(contract)
        BY <1>2, <1>3, <1>4, RowAdded
    <2>2. Len(email') \in Nat /\ DOMAIN email' = 1 .. Len(email')
        BY <2>1, NextSizes DEF Rows
    <2> QED BY <2>1, <2>2
<1>6. \A s \in tasks : ~About(s, n)
    BY <1>5, AboutIsThere DEF Inv
<1> DEFINE left == [t EXCEPT !.seen = @ \ {r}]
           m == IF r \in NoAddress THEN left ELSE [left EXCEPT !.obj = n]
<1>7. tasks' = Ended(tasks, t) \cup {m}
    BY <1>1, <1>4 DEF Remind
<1>8. /\ m \in Message(Steps) /\ m.id = t.id /\ m.name = t.name /\ m.tries = t.tries
      /\ m.at = "sweeping" /\ m.seen = t.seen \ {r}
      /\ m.obj = IF r \in NoAddress THEN 0 ELSE n
    <2>1. left \in Message(Steps)
        BY SweepIs DEF Message
    <2>2. m \in Message(Steps)
        BY <1>5, <2>1 DEF Message
    <2> QED BY <1>2, <2>2, SweepIs DEF Message
<1> HIDE DEF m
<1>9. \A s \in tasks' : s = m \/ (s \in tasks /\ s # t)
    BY <1>7 DEF Ended
<1>10. Fits(m, Len(email'), Len(contract'))
    BY <1>5, <1>8, SweepIs DEF Fits, StepsOf
<1>11. m.tries <= MaxRetries[m.name]
    BY <1>8, SweepIs
<1>12. Queue'
    BY <1>5, <1>7, <1>8, <1>10, <1>11, QueueMoved DEF Inv
<1>13. \A e : e # 0 /\ About(m, e) => e = n /\ r \notin NoAddress
    BY <1>8 DEF About
<1>14. Accounts'
    <2>1. \A s \in tasks : s.name = "send" => s \in tasks'
        BY <1>7 DEF Ended
    <2>2. \A e \in DOMAIN email : ~About(m, e)
        BY <1>5, <1>13, Sizes DEF Inv
    <2>3. \A s \in tasks' : s \in tasks \/ \A e \in DOMAIN email : ~About(s, e)
        BY <1>9, <2>2
    <2>4. \A s \in tasks' : About(s, n) => s = m
        BY <1>6, <1>9
    <2>5. r \in NoAddress => \A s \in tasks' : ~About(s, n)
        BY <1>5, <1>6, <1>9, <1>13
    <2> QED BY <1>2, <1>3, <1>4, <2>1, <2>3, <2>4, <2>5, AddedAccounts
<1>15. Reminding'
    <2>1. Queue
        BY DEF Inv
    <2>2. ASSUME NEW q \in Reservation
          PROVE  Cardinality(Listed(q)') \in Nat /\ Cardinality(Listed(q)') <= Cardinality(Listed(q))
        BY <1>7, <1>8, <2>1, HoldingMoved, ListedAre
    <2>3. Cardinality(Listed(r)') <= Cardinality(Listed(r)) - 1
        <3>1. t \in Listed(r) /\ IsFiniteSet(Listed(r))
            BY <1>2, <2>1, ListedAre DEF Holding
        <3>2. Listed(r)' \subseteq Listed(r) \ {t}
            <4>1. Holding(tasks', r) \subseteq Holding(tasks, r) \ {t}
                BY <1>8, <1>9 DEF Holding
            <4> QED BY <2>1, <4>1, ListedAre
        <3>3. Cardinality(Listed(r) \ {t}) = Cardinality(Listed(r)) - 1 /\ IsFiniteSet(Listed(r) \ {t})
            BY <3>1, FS_RemoveElement
        <3> QED BY <3>2, <3>3, FS_Subset
    <2> QED BY <1>2, <1>3, <2>2, <2>3, AddedReminding
<1>16. Printing'
    <2>1. \A s \in tasks' : s.at = "print" => s \in tasks /\ s.obj # 0
        BY <1>8, <1>9, PrintIsSomething DEF Inv
    <2>2. \A s \in tasks' : s.at \in {"printed", "mailing"} => contract[s.obj].status = "ready"
        BY <1>8, <1>9 DEF Inv, Printing
    <2> QED BY <1>2, <1>3, <2>1, <2>2, AddedPrinting
<1> QED BY <1>5, <1>12, <1>14, <1>15, <1>16 DEF Inv

-----------------------------------------------------------------------------
(* Messages that come *)

\* So does the message of a service, which comes while the queue is short, or of beat.
MayCome(queue, name, obj, at) ==
    /\ WellFormed(queue, Steps) /\ IsFiniteSet(queue)
    /\ Room(queue) \/ Cardinality(Of(queue, name)) < MaxSweeps
    /\ name \in DOMAIN MaxRetries /\ (\E rows \in SUBSET Nat : obj \in rows)
    /\ at \in Steps \cup {"queue"}

LEMMA RoomForOne ==
    ASSUME NEW queue, NEW name, NEW obj, NEW at, MayCome(queue, name, obj, at)
    PROVE  \E m \in Message(Steps) : Comes(queue, name, obj, at, m)
<1>1. /\ WellFormed(queue, Steps) /\ IsFiniteSet(queue) /\ name \in DOMAIN MaxRetries
      /\ at \in Steps \cup {"queue"}
    BY DEF MayCome
<1>2. Cardinality(Of(queue, name)) < MaxTasks
    <2>1. Cardinality(Of(queue, name)) <= Cardinality(queue) /\ Cardinality(queue) \in Nat
          /\ Cardinality(Of(queue, name)) \in Nat
        BY <1>1, FS_Subset, FS_CardinalityType DEF Of
    <2>2. Cardinality(queue) < MaxOpen \/ Cardinality(Of(queue, name)) < MaxSweeps
        BY DEF MayCome, Room
    <2>3. /\ MaxTasks \in Nat /\ MaxOpen \in Nat /\ MaxSweeps \in Nat
          /\ MaxTasks >= MaxOpen /\ MaxTasks >= MaxSweeps
        BY MailAssumption, CeleryAssumption
    <2> QED BY <2>1, <2>2, <2>3
<1>3. PICK rows \in SUBSET Nat : obj \in rows
    BY DEF MayCome
<1>4. obj \in Nat
    BY <1>3
<1> QED BY <1>1, <1>2, <1>4, WithIsNew

\* A message about a contract, or a sweep.
LEMMA OtherComes ==
    ASSUME Inv, email' = email, clicks' = clicks, overlaps' = overlaps, NEW m \in Message(Steps),
           Len(contract') \in Nat, Len(contract) <= Len(contract'),
           tasks' = tasks \cup {m}, m.name # "send", m.at \in {"queue", "promised"}, m.tries = 0,
           m.seen = {}, m.name = "sweep" => m.obj = 0, Fits(m, Len(email), Len(contract')),
           \A t \in tasks : t.name = m.name => t.id # m.id,
           m.name = "build" => \A t \in tasks : t.name = "build" => t.obj # m.obj
    PROVE  Queue' /\ Accounts' /\ Reminding'
<1>1. m.tries <= MaxRetries[m.name]
    BY MessageFields, MailAssumption, CeleryAssumption
<1>2. Len(email) \in Nat /\ Len(contract) \in Nat /\ clicks \in Nat
    BY Sizes DEF Inv
<1>3. Good(tasks, Len(email), Len(contract'))
    BY <1>2, GoodLater DEF Inv, Queue
<1>4. Good(tasks', Len(email'), Len(contract')) /\ m \notin tasks
    BY <1>1, <1>3, GoodAdded
<1>5. ~Weighs(m, 0)
    BY DEF Weighs
<1>6. Tally(tasks', 0) = Tally(tasks, 0)
    BY <1>4, <1>5, GoodQueue, TallyAdded DEF Inv, Queue, Good
<1>7. Queue'
    BY <1>4, <1>6, QueueIs DEF Inv, Queue
<1>8. ASSUME NEW e \in DOMAIN email PROVE Account(e)'
    <2>1. email[e] \in EmailLog /\ e # 0 /\ Account(e) /\ IsFiniteSet(tasks)
        BY Sizes DEF Inv, Accounts, Queue, Good
    <2>2. email[e].handed \in Nat /\ email[e].excuses \in Nat
        BY <2>1 DEF EmailLog
    <2>3. \A s \in tasks' : About(s, e) => s \in tasks
        BY <2>1 DEF About
    <2> QED BY <2>1, <2>2, <2>3, AccountStays
<1>9. Accounts'
    BY <1>8 DEF Accounts
<1>10. Reminding'
    <2>1. SameLetters
        BY DEF SameLetters
    <2> QED BY <2>1, RemindingStays DEF Inv
<1> QED BY <1>7, <1>9, <1>10

LEMMA RequestContractKeeps ==
    ASSUME Inv, NEW r \in Reservation, RequestContract(r) PROVE Inv'
<1> DEFINE new == [res |-> r, status |-> "pending", again |-> FALSE]
<1>1. /\ email' = email /\ due' = due /\ overlaps' = overlaps /\ clicks' = clicks /\ faults' = faults /\ Room(tasks)
      /\ contract' = Append(contract, new)
      /\ tasks' = With(tasks, "build", Len(contract'), "promised")
    BY DEF RequestContract
<1>2. new \in Contract
    BY DEF Contract, ContractStatus
<1> HIDE DEF new
<1>3. contract \in Seq(Contract) /\ Len(contract) \in Nat /\ DOMAIN contract = 1 .. Len(contract)
    BY Sizes DEF Inv, Rows
<1>4. /\ contract' \in Seq(Contract) /\ Len(contract') = Len(contract) + 1
      /\ DOMAIN contract' = 1 .. (Len(contract) + 1)
      /\ \A c \in DOMAIN contract : contract'[c] = contract[c]
    BY <1>1, <1>2, <1>3
<1>5. Rows'
    BY <1>1, <1>4 DEF Inv, Rows
<1>6. PICK c : c = Len(contract')
    OBVIOUS
<1>7. MayCome(tasks, "build", c, "promised")
    <2>1. c \in Nat /\ "build" \in DOMAIN MaxRetries /\ "promised" \in Steps
        BY <1>3, <1>4, <1>6, MailAssumption DEF Steps
    <2> QED BY <1>1, <2>1 DEF MayCome, Inv, Queue, Good
<1>8. PICK m \in Message(Steps) : Comes(tasks, "build", c, "promised", m)
    BY <1>7, RoomForOne
<1>9. /\ tasks' = tasks \cup {m} /\ m.name = "build" /\ m.obj = c /\ m.at = "promised"
      /\ m.seen = {} /\ m.tries = 0 /\ \A t \in tasks : t.name = "build" => t.id # m.id
    BY <1>1, <1>6, <1>8 DEF Comes
<1>10. Fits(m, Len(email), Len(contract'))
    BY <1>3, <1>4, <1>6, <1>9 DEF Fits, StepsOf
<1>11. \A t \in tasks : t.name = "build" => t.obj # m.obj
    BY <1>3, <1>4, <1>6, <1>9, GoodQueue DEF Fits, Inv
<1>12. Queue' /\ Accounts' /\ Reminding'
    BY <1>1, <1>3, <1>4, <1>9, <1>10, <1>11, OtherComes
<1>13. \A s \in tasks : s.at \in {"print", "printed", "mailing"} => s.obj \in DOMAIN contract
    BY <1>3, GoodQueue DEF Fits, StepsOf, Inv
<1>14. Printing'
    BY <1>1, <1>3, <1>4, <1>9, <1>13 DEF Inv, Printing
<1> QED BY <1>5, <1>12, <1>14 DEF Inv

LEMMA BeatKeeps ==
    ASSUME Inv, Beat PROVE Inv'
<1>1. /\ email' = email /\ contract' = contract /\ due' = due /\ overlaps' = overlaps /\ clicks' = clicks
      /\ faults' = faults /\ Cardinality(Of(tasks, "sweep")) < MaxSweeps
      /\ tasks' = With(tasks, "sweep", 0, "queue")
    BY DEF Beat, Of, Sweeps
<1>2. Rows' /\ Len(contract) \in Nat /\ Len(email) \in Nat
    BY <1>1, Sizes DEF Inv, Rows
<1>3. MayCome(tasks, "sweep", 0, "queue")
    BY <1>1, MailAssumption DEF MayCome, Inv, Queue, Good
<1>4. PICK m \in Message(Steps) : Comes(tasks, "sweep", 0, "queue", m)
    BY <1>3, RoomForOne
<1>5. /\ tasks' = tasks \cup {m} /\ m.name = "sweep" /\ m.obj = 0 /\ m.at = "queue"
      /\ m.seen = {} /\ m.tries = 0 /\ \A t \in tasks : t.name = "sweep" => t.id # m.id
    BY <1>1, <1>4 DEF Comes
<1>6. Fits(m, Len(email), Len(contract'))
    BY <1>2, <1>5 DEF Fits, StepsOf
<1>7. Queue' /\ Accounts' /\ Reminding'
    BY <1>1, <1>2, <1>5, <1>6, OtherComes
<1>8. SameRows
    BY <1>1 DEF SameRows
<1>9. Printing'
    BY <1>1, <1>5, <1>8, PrintingStays DEF Inv
<1> QED BY <1>2, <1>7, <1>9 DEF Inv

\* A click is no excuse until it writes what it read.
LEMMA ClickRetryKeeps ==
    ASSUME Inv, NEW e \in DOMAIN email, ClickRetry(e) PROVE Inv'
<1>1. /\ email[e].status = "failed" /\ clicks < MaxClicks /\ clicks' = clicks + 1
      /\ email' = email /\ contract' = contract /\ due' = due /\ overlaps' = overlaps /\ faults' = faults
      /\ tasks' = With(tasks, "send", e, "read")
    BY DEF ClickRetry
<1>2. /\ Len(email) \in Nat /\ Len(contract) \in Nat /\ clicks \in Nat /\ e # 0
      /\ DOMAIN email = 1 .. Len(email) /\ DOMAIN email \in SUBSET Nat
    BY Sizes DEF Inv
<1>3. Rows' /\ SameRows
    BY <1>1, <1>2, MailAssumption DEF Inv, Rows, SameRows
<1>4. CanJoin(tasks, Len(email), Len(contract), e, "read") /\ Row(e, Len(email))
    BY <1>1, <1>2, RoomToSend DEF Inv, Queue, CanJoin, Row, StepsOf
<1>5. PICK m \in Message(Steps) : Joins(tasks, Len(email), Len(contract), e, "read", m)
    BY <1>4, NumberToSend
<1>6. /\ tasks' = tasks \cup {m} /\ m.name = "send" /\ m.obj = e /\ m.at = "read" /\ m.seen = {}
      /\ Good(tasks', Len(email'), Len(contract'))
      /\ Tally(tasks', 0) = Tally(tasks, 0) + 1
      /\ Tally(tasks', e) = IF Weighs(m, e) THEN Tally(tasks, e) + 1 ELSE Tally(tasks, e)
    BY <1>1, <1>4, <1>5 DEF Joins
<1>7. Queue'
    <2>1. Tally(tasks, 0) \in Nat /\ MaxOpen \in Nat
        BY <1>1, RoomToSend, CeleryAssumption DEF Inv
    <2>2. Tally(tasks', 0) <= MaxOpen + Len(email') + clicks'
        BY <1>1, <1>2, <1>6, <2>1 DEF Inv, Queue
    <2> QED BY <1>6, <2>2, QueueIs
<1>8. ASSUME NEW f \in DOMAIN email, f # e PROVE Account(f)'
    <2>1. email[f] \in EmailLog /\ f # 0 /\ Account(f) /\ IsFiniteSet(tasks)
        BY Sizes DEF Inv, Accounts, Queue, Good
    <2>2. email[f].handed \in Nat /\ email[f].excuses \in Nat
        BY <2>1 DEF EmailLog
    <2>3. \A s \in tasks' : About(s, f) => s \in tasks
        BY <1>6, <1>8 DEF About
    <2> QED BY <1>1, <1>6, <2>1, <2>2, <2>3, AccountStays
<1>9. Account(e)'
    <2>1. Tally(tasks', e) = Tally(tasks, e)
        BY <1>2, <1>6 DEF Weighs
    <2>2. Account(e) /\ Balanced(e)
        BY <1>1 DEF Inv, Accounts, Account, Settled
    <2>3. Balanced(e)'
        <3>1. email'[e].handed + Tally(tasks', e) <= 1 + email'[e].excuses
            BY <1>1, <2>1, <2>2 DEF Balanced
        <3> QED BY <3>1 DEF Balanced, Tally, Weighs
    <2>4. ~(\E t \in tasks' : Sending(t, e)) => ~(\E t \in tasks : Sending(t, e))
        BY <1>6
    <2>5. \A t \in tasks' : About(t, e) => t.name = "send"
        BY <1>1, <1>6, <2>2 DEF Account
    <2> QED BY <1>1, <2>2, <2>3, <2>4, <2>5 DEF Account, About, Sending
<1>10. Accounts'
    BY <1>1, <1>8, <1>9 DEF Accounts
<1>11. Reminding'
    BY <1>1, <1>6, RemindingStays DEF Inv, SameLetters
<1>12. Printing'
    BY <1>1, <1>3, <1>6, PrintingStays DEF Inv
<1> QED BY <1>3, <1>7, <1>10, <1>11, <1>12 DEF Inv

\* The row that a contract or a sweep left waits for its message, and here it comes.
LEMMA HandedOver ==
    ASSUME Inv, UNCHANGED <<email, contract, due, overlaps, faults, clicks>>,
           NEW t \in tasks, t.name # "send", NEW e \in DOMAIN email, About(t, e),
           NEW rest, Good(rest, Len(email), Len(contract)),
           \A r \in Reservation : Cardinality(Holding(rest, r)) <= Cardinality(Holding(tasks, r)),
           Tally(rest, 0) = Tally(tasks, 0) - 1, Tally(rest, e) = Tally(tasks, e) - 1,
           \A s \in tasks : s # t => s \in rest,
           \A s \in rest : (s \in tasks /\ s # t)
                           \/ (s.name = "sweep" /\ s.obj = 0 /\ s.at = "sweeping"),
           tasks' = With(rest, "send", e, "queue")
    PROVE  Inv'
<1>1. /\ email' = email /\ contract' = contract /\ due' = due /\ overlaps' = overlaps /\ faults' = faults
      /\ clicks' = clicks
    OBVIOUS
<1>2. /\ Len(email) \in Nat /\ Len(contract) \in Nat /\ clicks \in Nat /\ e # 0
      /\ DOMAIN email = 1 .. Len(email) /\ DOMAIN email \in SUBSET Nat
      /\ IsFiniteSet(tasks)
    BY Sizes, GoodQueue DEF Inv
<1>3. Rows' /\ SameRows /\ SameLetters
    BY <1>1 DEF Inv, Rows, SameRows, SameLetters
<1>4. Tally(tasks, 0) \in Nat /\ Tally(tasks, e) \in Nat
    BY <1>2, TallyIsNat
<1>5. Tally(rest, 0) < MaxTasks
    <2>1. Tally(tasks, 0) <= MaxTasks /\ MaxTasks \in Nat
        <3>1. /\ Len(email) <= MaxEmails /\ clicks <= MaxClicks /\ MaxEmails \in Nat
              /\ MaxClicks \in Nat /\ MaxOpen \in Nat /\ MaxTasks \in Nat
              /\ MaxTasks >= MaxOpen + MaxEmails + MaxClicks
            BY MailAssumption, CeleryAssumption DEF Inv, Rows
        <3> QED BY <1>2, <1>4, <3>1 DEF Inv, Queue
    <2> QED BY <1>4, <2>1
<1>6. CanJoin(rest, Len(email), Len(contract), e, "queue") /\ Row(e, Len(email))
    BY <1>2, <1>5 DEF CanJoin, Row, StepsOf
<1>7. PICK m \in Message(Steps) : Joins(rest, Len(email), Len(contract), e, "queue", m)
    BY <1>6, NumberToSend
<1>8. /\ tasks' = rest \cup {m} /\ m.name = "send" /\ m.obj = e /\ m.at = "queue" /\ m.seen = {}
      /\ Good(tasks', Len(email'), Len(contract'))
      /\ Tally(tasks', 0) = Tally(rest, 0) + 1
      /\ Tally(tasks', e) = IF Weighs(m, e) THEN Tally(rest, e) + 1 ELSE Tally(rest, e)
    BY <1>1, <1>6, <1>7 DEF Joins
<1>9. Queue'
    <2>1. Tally(tasks', 0) <= MaxOpen + Len(email') + clicks'
        BY <1>1, <1>4, <1>8 DEF Inv, Queue
    <2> QED BY <1>8, <2>1, QueueIs
<1>10. ASSUME NEW f \in DOMAIN email, f # e PROVE Account(f)'
    <2>1. email[f] \in EmailLog /\ f # 0 /\ Account(f)
        BY Sizes DEF Inv, Accounts
    <2>2. email[f].handed \in Nat /\ email[f].excuses \in Nat
        BY <2>1 DEF EmailLog
    <2>3. \A s \in tasks' : About(s, f) => s \in tasks
        BY <1>8, <1>10, <2>1 DEF About
    <2>4. \A s \in tasks : s.name = "send" /\ s.obj = f => s \in tasks'
        BY <1>8
    <2> QED BY <1>1, <1>2, <2>1, <2>2, <2>3, <2>4, AccountStays
<1>11. Account(e)'
    <2>1. Account(e) /\ OnlyAbout(t, e) /\ email[e].status = "queued"
        BY DEF Inv, Accounts, Account
    <2>2. Weighs(m, e)
        BY <1>2, <1>8 DEF Weighs
    <2>3. Tally(tasks', e) = Tally(tasks, e)
        BY <1>4, <1>8, <2>2
    <2>4. Balanced(e)
        BY <2>1 DEF Account, Settled
    <2>5. Balanced(e)'
        <3>1. email'[e].handed + Tally(tasks', e) <= 1 + email'[e].excuses
            BY <1>1, <2>3, <2>4 DEF Balanced
        <3> QED BY <3>1 DEF Balanced, Tally, Weighs
    <2>6. \A s \in tasks' : About(s, e) => s.name = "send"
        <3>1. ASSUME NEW s \in rest PROVE ~About(s, e)
            <4>1. CASE s \in tasks /\ s # t
                BY <2>1, <4>1 DEF OnlyAbout
            <4>2. CASE s.name = "sweep" /\ s.obj = 0 /\ s.at = "sweeping"
                BY <1>2, <4>2 DEF About
            <4> QED BY <4>1, <4>2
        <3> QED BY <1>8, <3>1
    <2> QED BY <1>1, <2>1, <2>5, <2>6 DEF Account, About
<1>12. Accounts'
    BY <1>1, <1>10, <1>11 DEF Accounts
<1>13. Reminding'
    <2>1. ASSUME NEW r \in Reservation
          PROVE  Cardinality(Listed(r)') \in Nat /\ Cardinality(Listed(r)') <= Cardinality(Listed(r))
        <3>1. Holding(tasks', r) = Holding(rest, r)
            BY <1>8 DEF Holding
        <3>2. IsFiniteSet(Holding(rest, r))
            BY FS_Subset DEF Holding, Good
        <3>3. Queue
            BY DEF Inv
        <3> QED BY <3>1, <3>2, <3>3, ListedAre, FS_CardinalityType
    <2> QED BY <1>1, <1>3, <2>1, RemindingFalls DEF Inv
<1>14. Printing'
    BY <1>1, <1>3, <1>8, PrintingStays DEF Inv
<1> QED BY <1>3, <1>9, <1>12, <1>13, <1>14 DEF Inv

LEMMA EnqueueContractMailKeeps ==
    ASSUME Inv, NEW t \in tasks, EnqueueContractMail(t) PROVE Inv'
<1>1. /\ t.name = "build" /\ t.at = "mailing"
      /\ UNCHANGED <<email, contract, due, overlaps, faults, clicks>>
      /\ tasks' = With(Ended(tasks, t), "send", Mailing(t), "queue")
    BY DEF EnqueueContractMail, Unseen
<1>2. PICK e \in DOMAIN email : e = Mailing(t)
    BY <1>1, MailingIs
<1>3. t.seen = {e} /\ About(t, e) /\ Weighs(t, e) /\ Weighs(t, 0)
    BY <1>1, <1>2, MailingIs, Sizes DEF About, Weighs, Inv
<1>4. Good(Ended(tasks, t), Len(email), Len(contract)) /\ IsFiniteSet(tasks)
    BY GoodEnded DEF Inv, Queue, Good
<1>5. /\ Tally(Ended(tasks, t), 0) = Tally(tasks, 0) - 1
      /\ Tally(Ended(tasks, t), e) = Tally(tasks, e) - 1
    BY <1>3, <1>4, TallyEnded
<1>6. /\ \A s \in tasks : s # t => s \in Ended(tasks, t)
      /\ \A s \in Ended(tasks, t) : s \in tasks /\ s # t
    BY DEF Ended
<1>7. ASSUME NEW r \in Reservation
      PROVE  Cardinality(Holding(Ended(tasks, t), r)) <= Cardinality(Holding(tasks, r))
    <2>1. Holding(Ended(tasks, t), r) \subseteq Holding(tasks, r)
        BY DEF Holding, Ended
    <2>2. IsFiniteSet(Holding(tasks, r))
        BY ListedAre DEF Inv
    <2> QED BY <2>1, <2>2, FS_Subset
<1> QED BY <1>1, <1>2, <1>3, <1>4, <1>5, <1>6, <1>7, HandedOver

LEMMA EnqueueReminderKeeps ==
    ASSUME Inv, NEW t \in tasks, t.name = "sweep", EnqueueReminder(t) PROVE Inv'
<1> DEFINE left == [t EXCEPT !.obj = 0]
           rest == Ended(tasks, t) \cup {left}
<1>1. /\ t.at = "sweeping" /\ t.obj # 0
      /\ UNCHANGED <<email, contract, due, overlaps, faults, clicks>>
      /\ tasks' = With(rest, "send", t.obj, "queue")
    BY DEF EnqueueReminder, Unseen
<1>2. PICK e \in DOMAIN email : e = t.obj /\ e # 0
    BY <1>1, SweepIs, Sizes DEF Inv
<1>3. About(t, e) /\ Weighs(t, e) /\ Weighs(t, 0)
    BY <1>1, <1>2, Sizes DEF About, Weighs, Inv
<1>4. /\ left \in Message(Steps) /\ left.id = t.id /\ left.name = t.name /\ left.obj = 0
      /\ left.tries = t.tries /\ left.at = "sweeping" /\ left.seen = t.seen
    BY <1>1, SweepIs DEF Message
<1> HIDE DEF left
<1>5. ~Weighs(left, 0) /\ ~Weighs(left, e)
    BY <1>2, <1>4, SweepIs DEF Weighs
<1>6. Fits(left, Len(email), Len(contract))
    <2>1. Len(email) \in Nat
        BY Sizes DEF Inv
    <2> QED BY <1>4, <2>1, SweepIs DEF Fits, StepsOf
<1>7. /\ Good(rest, Len(email), Len(contract)) /\ left \notin Ended(tasks, t)
      /\ IsFiniteSet(tasks)
    BY <1>4, <1>6, SweepIs, GoodMoved DEF Inv, Queue, Good
<1>8. /\ Tally(rest, 0) = Tally(tasks, 0) - Weight(t, 0) + Weight(left, 0)
      /\ Tally(rest, e) = Tally(tasks, e) - Weight(t, e) + Weight(left, e)
      /\ Tally(tasks, 0) \in Nat /\ Tally(tasks, e) \in Nat
    BY <1>7, TallyMoved
<1>9. Tally(rest, 0) = Tally(tasks, 0) - 1 /\ Tally(rest, e) = Tally(tasks, e) - 1
    BY <1>3, <1>5, <1>8 DEF Weight
<1>10. /\ \A s \in tasks : s # t => s \in rest
       /\ \A s \in rest : (s \in tasks /\ s # t)
                          \/ (s.name = "sweep" /\ s.obj = 0 /\ s.at = "sweeping")
    BY <1>4, SweepIs DEF Ended
<1>11. \A r \in Reservation : Cardinality(Holding(rest, r)) <= Cardinality(Holding(tasks, r))
    BY <1>4, HoldingMoved DEF Inv
<1> HIDE DEF rest
<1> QED BY <1>1, <1>2, <1>3, <1>7, <1>9, <1>10, <1>11, HandedOver

-----------------------------------------------------------------------------
(* The invariant *)

LEMMA InitInv == Init => Inv
<1> SUFFICES ASSUME Init PROVE Inv
    OBVIOUS
<1>1. /\ tasks = {} /\ email = << >> /\ contract = << >> /\ due = {} /\ faults = 0 /\ clicks = 0
      /\ DOMAIN email = {} /\ Len(email) = 0 /\ Len(contract) = 0
    BY DEF Init
<1>2. Rows
    BY <1>1, MailAssumption DEF Rows
<1>3. Tally(tasks, 0) = 0
    <2>1. {t \in tasks : Weighs(t, 0)} = {}
        BY <1>1
    <2> QED BY <2>1, FS_EmptySet DEF Tally
<1>4. Queue
    BY <1>1, <1>3, FS_EmptySet, CeleryAssumption DEF Queue, Good, WellFormed, Alone
<1>5. Reminding
    <2>1. ASSUME NEW r \in Reservation PROVE Reminders(r) = {} /\ Listed(r) = {}
        BY <1>1 DEF Reminders, Listed, Sweeps
    <2>2. overlaps = [r \in Reservation |-> 0] /\ Cardinality({}) = 0
        BY FS_EmptySet DEF Init
    <2> QED BY <2>1, <2>2 DEF Reminding
<1>6. Printing /\ Accounts
    BY <1>1 DEF Printing, Accounts
<1> QED BY <1>2, <1>4, <1>5, <1>6 DEF Inv

\* Where a message is says whose it is.
LEMMA WhoseStep ==
    ASSUME Inv, NEW t \in tasks
    PROVE  /\ t.name \in {"send", "build", "sweep"}
           /\ t.at \in {"read", "render", "handed", "refused"} => t.name = "send"
           /\ t.at \in {"print", "printed", "mailing"} => t.name = "build"
           /\ t.at = "sweeping" => t.name = "sweep"
           /\ t.at = "promised" => t.name \in {"send", "build"}
BY GoodQueue, MessageFields DEF Inv, Fits, StepsOf

LEMMA WorkKeeps ==
    ASSUME Inv, NEW t \in tasks, Work(t) PROVE Inv'
<1>1. CASE StartSend(t)
    BY <1>1, StartSendKeeps
<1>2. CASE RenderFails(t) \/ Refuse(t)
    BY <1>2, WhoseStep, RenderFailsKeeps DEF RenderFails, Refuse
<1>3. CASE Hand(t)
    BY <1>3, WhoseStep, HandKeeps DEF Hand
<1>4. CASE SaveFailed(t)
    BY <1>4, WhoseStep, SaveFailedKeeps DEF SaveFailed
<1>5. CASE SaveSent(t)
    BY <1>5, WhoseStep, SaveSentKeeps DEF SaveSent
<1>6. CASE SendRaised(t)
    BY <1>6, SendRaisedKeeps DEF SendRaised
<1>7. CASE StartBuild(t)
    BY <1>7, StartBuildKeeps
<1>8. CASE PrintContract(t)
    BY <1>8, WhoseStep, PrintContractKeeps DEF PrintContract
<1>9. CASE MailContract(t)
    BY <1>9, WhoseStep, MailContractKeeps DEF MailContract
<1>10. CASE EnqueueContractMail(t)
    BY <1>10, EnqueueContractMailKeeps
<1>11. CASE BuildRaised(t)
    BY <1>11, BuildStepKeeps DEF BuildRaised
<1>12. CASE StartSweep(t)
    BY <1>12, StartSweepKeeps
<1>13. CASE Remind(t)
    BY <1>13, WhoseStep, RemindKeeps DEF Remind
<1>14. CASE EnqueueReminder(t)
    BY <1>14, WhoseStep, EnqueueReminderKeeps DEF EnqueueReminder
<1>15. CASE EndSweep(t)
    BY <1>15, WhoseStep, SweepStops DEF EndSweep
<1>16. CASE Enqueue(t)
    <2>1. t.name = "send" \/ t.name = "build"
        BY <1>16, WhoseStep DEF Enqueue
    <2> QED BY <1>16, <2>1, PromisedSend, BuildStepKeeps
<1>17. CASE Requeue(t)
    BY <1>17, WhoseStep, RequeueKeeps DEF Requeue
<1> QED BY <1>1, <1>2, <1>3, <1>4, <1>5, <1>6, <1>7, <1>8, <1>9, <1>10, <1>11, <1>12, <1>13,
           <1>14, <1>15, <1>16, <1>17 DEF Work

LEMMA FaultKeeps ==
    ASSUME Inv, NEW t \in tasks,
           EnqueueFails(t) \/ BuildBreaks(t) \/ SweepBreaks(t) \/ WorkerLost(t)
    PROVE  Inv'
<1>1. CASE EnqueueFails(t)
    <2>1. t.name = "send" \/ t.name = "build"
        BY <1>1, WhoseStep DEF EnqueueFails
    <2> QED BY <1>1, <2>1, EnqueueFailsKeeps, BuildStepKeeps
<1>2. CASE BuildBreaks(t)
    BY <1>2, BuildStepKeeps DEF BuildBreaks
<1>3. CASE SweepBreaks(t)
    BY <1>3, WhoseStep, SweepStops DEF SweepBreaks
<1>4. CASE WorkerLost(t)
    BY <1>4, WhoseStep, SendLost, BuildStepKeeps, SweepIsLost
<1> QED BY <1>1, <1>2, <1>3, <1>4

LEMMA NothingKeeps ==
    ASSUME Inv, UNCHANGED <<tasks, email, contract, overlaps, faults, clicks>>, due' \subseteq Reservation
    PROVE  Inv'
<1>1. tasks' = tasks /\ email' = email /\ contract' = contract /\ faults' = faults /\ clicks' = clicks
    OBVIOUS
<1>2. Rows' /\ SameRows /\ SameLetters
    BY <1>1 DEF Inv, Rows, SameRows, SameLetters
<1>3. Queue'
    BY <1>1, QueueIs DEF Inv, Queue
<1>4. Accounts'
    <2>1. ASSUME NEW e \in DOMAIN email PROVE Account(e)'
        <3>1. email[e] \in EmailLog /\ e # 0 /\ Account(e) /\ IsFiniteSet(tasks)
            BY Sizes DEF Inv, Accounts, Queue, Good
        <3>2. email[e].handed \in Nat /\ email[e].excuses \in Nat
            BY <3>1 DEF EmailLog
        <3> QED BY <1>1, <3>1, <3>2, AccountStays
    <2> QED BY <1>1, <2>1 DEF Accounts
<1>5. Reminding' /\ Printing'
    BY <1>1, <1>2, RemindingStays, PrintingStays DEF Inv
<1> QED BY <1>2, <1>3, <1>4, <1>5 DEF Inv

LEMMA NextInv == Inv /\ [Next]_vars => Inv'
<1> SUFFICES ASSUME Inv, [Next]_vars PROVE Inv'
    OBVIOUS
<1>1. ASSUME NEW r \in Reservation, QueueEmail(r) PROVE Inv'
    BY <1>1, QueueEmailKeeps
<1>2. ASSUME NEW r \in Reservation, RequestContract(r) PROVE Inv'
    BY <1>2, RequestContractKeeps
<1>3. ASSUME NEW r \in Reservation, DueChanges(r) PROVE Inv'
    <2>1. due' \subseteq Reservation
        BY <1>3 DEF DueChanges, Inv, Rows
    <2>2. UNCHANGED <<tasks, email, contract, overlaps, faults, clicks>>
        BY <1>3 DEF DueChanges
    <2> QED BY <2>1, <2>2, NothingKeeps
<1>4. ASSUME NEW e \in DOMAIN email, ClickRetry(e) PROVE Inv'
    BY <1>4, ClickRetryKeeps
<1>5. CASE Beat
    BY <1>5, BeatKeeps
<1>6. ASSUME NEW t \in tasks, Work(t) PROVE Inv'
    BY <1>6, WorkKeeps
<1>7. ASSUME NEW t \in tasks,
             EnqueueFails(t) \/ BuildBreaks(t) \/ SweepBreaks(t) \/ WorkerLost(t)
      PROVE  Inv'
    BY <1>7, FaultKeeps
<1>8. CASE UNCHANGED vars
    <2>1. UNCHANGED <<tasks, email, contract, overlaps, faults, clicks>> /\ due' = due /\ overlaps' = overlaps
        BY <1>8 DEF vars
    <2> QED BY <2>1, NothingKeeps DEF Inv, Rows
<1> QED BY <1>1, <1>2, <1>3, <1>4, <1>5, <1>6, <1>7, <1>8 DEF Next

LEMMA SpecInv == Spec => []Inv
BY InitInv, NextInv, PTL DEF Spec

-----------------------------------------------------------------------------
(* The theorems *)

\* Every message is at a step of its task, with a number of its own and no more retries than
\* celery gives it, and every row of EmailLog and Contract is one of the models'.
THEOREM MailsAreTyped == Spec => []TypeOK
<1>1. Inv => TypeOK
    BY DEF Inv, Rows, Queue, Good, Reminding, TypeOK
<1> QED BY <1>1, SpecInv, PTL

\* However many workers and answers are lost, and however often somebody asks again, a row is
\* handed to the provider no oftener than once and its excuses: what may yet hand it out
\* has been counted beforehand.
THEOREM EveryDuplicateHasACause == Spec => []DuplicatesHaveACause
<1>1. Inv => DuplicatesHaveACause
    <2> SUFFICES ASSUME Inv, NEW e \in DOMAIN email PROVE email[e].handed <= 1 + email[e].excuses
        BY DEF DuplicatesHaveACause
    <2>1. email[e] \in EmailLog /\ Account(e) /\ IsFiniteSet(tasks)
        BY Sizes DEF Inv, Accounts, Queue, Good
    <2>2. email[e].handed \in Nat /\ email[e].excuses \in Nat /\ Tally(tasks, e) \in Nat
        BY <2>1, TallyIsNat DEF EmailLog
    <2> QED BY <2>1, <2>2 DEF Account, Balanced, Settled
<1> QED BY <1>1, SpecInv, PTL

\* However many sweeps of send_pickup_reminders pile up, break and are handed out again, a
\* reservation has no more reminders than one and its overlaps: those that were queued and the
\* sweeps that have it on their list are counted together.  In particular it has one at most
\* as long as no sweep lists what another one has on its list.
THEOREM EachPickupIsRemindedOnce == Spec => []RemindedOnce
<1>1. Inv => RemindedOnce
    <2> SUFFICES ASSUME Inv, NEW r \in Reservation PROVE Cardinality(Reminders(r)) <= 1 + overlaps[r]
        BY DEF RemindedOnce
    <2>1. /\ Cardinality(Reminders(r)) + Cardinality(Listed(r)) <= 1 + overlaps[r]
          /\ overlaps[r] \in Nat
        BY DEF Inv, Reminding
    <2>2. Cardinality(Reminders(r)) \in Nat /\ Cardinality(Listed(r)) \in Nat
        BY RemindersAre, ListedAre DEF Inv
    <2> QED BY <2>1, <2>2
<1> QED BY <1>1, SpecInv, PTL

\* An e-mail goes without its contract only when the contract was ready, was built again and
\* that failed: generate_contract saves it as ready before it queues the e-mail.
THEOREM EveryContractIsAttached == Spec => []ContractMailsCarryIt
<1>1. Inv => ContractMailsCarryIt
    BY DEF Inv, Printing, ContractMailsCarryIt
<1> QED BY <1>1, SpecInv, PTL

===============================================================================
