-------------------------------- MODULE Celery --------------------------------
(***************************************************************************)
(* The task queue behind the web: Celery over Redis, which is external and *)
(* modelled from what config/settings/base.py asks of it.  A message is    *)
(* acknowledged when its task ends (CELERY_TASK_ACKS_LATE) and is handed   *)
(* out again when its worker dies (CELERY_TASK_REJECT_ON_WORKER_LOST), so  *)
(* a task runs at least once and any part of it may run twice.  Tasks run  *)
(* side by side and in any order.                                          *)
(***************************************************************************)
EXTENDS Integers, FiniteSets

CONSTANTS
    MaxTasks,     \* bound: the messages of a task there may be
    MaxOpen,      \* bound: the messages alive when beat or a service adds another
    MaxRetries    \* task -> max_retries

ASSUME CeleryAssumption ==
    /\ MaxTasks \in Nat /\ MaxOpen \in Nat
    /\ \A name \in DOMAIN MaxRetries : MaxRetries[name] \in Nat

VARIABLE tasks    \* the messages that are alive

\* A message is known by its task and a number; `at` is where its worker is, "queue" when
\* it waits for one; `obj` the row it is about; `seen` what the worker has read and holds.
Message(ats) == [id: 1..MaxTasks, name: DOMAIN MaxRetries, obj: Nat, tries: Nat,
                 at: ats \cup {"queue"}, seen: SUBSET Nat]

WellFormed(queue, ats) ==
    /\ queue \subseteq Message(ats)
    /\ \A t \in queue : t.tries <= MaxRetries[t.name]
    /\ \A s, t \in queue : s.name = t.name /\ s.id = t.id => s = t

FreeIds(queue, name) == (1..MaxTasks) \ {t.id : t \in {t \in queue : t.name = name}}

\* delay(): a message more, at the step it starts from.
With(queue, name, obj, at) ==
    LET free == FreeIds(queue, name)
    IN queue \cup {[id |-> CHOOSE i \in free : \A j \in free : i <= j,
                    name |-> name, obj |-> obj, tries |-> 0, at |-> at, seen |-> {}]}

Room(queue) == Cardinality(queue) < MaxOpen

Step(queue, t, at, seen) == (queue \ {t}) \cup {[t EXCEPT !.at = at, !.seen = seen]}
Ended(queue, t) == queue \ {t}
\* Mutant: one retry too many.
RetriesOnceMore(t) == t.tries <= MaxRetries[t.name]
CanRetry(t) == t.tries < MaxRetries[t.name]
\* self.retry()
Retried(queue, t) ==
    (queue \ {t}) \cup {[t EXCEPT !.at = "queue", !.seen = {}, !.tries = @ + 1]}
\* The worker is lost, or its machine: the message goes back as it was.
Redelivered(queue, t) == Step(queue, t, "queue", {})

=============================================================================
