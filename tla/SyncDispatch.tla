---------------------------- MODULE SyncDispatch ----------------------------
(***************************************************************************)
(* Single syncs of one TikTok Business binding.                            *)
(*                                                                         *)
(* A request stores a run under an idempotency key and publishes a task.   *)
(* A worker takes the Redis key of the binding, syncs and commits what     *)
(* became of the run; a task that fails is published again by Celery,      *)
(* with a hook that sets the run back.  Requests look at the runs before   *)
(* they store one: a key that is known starts nothing, and product syncs   *)
(* are limited to one at a time and one in fifteen minutes.                *)
(*                                                                         *)
(* A run has the name of the request that stored it.  Messages and workers *)
(* follow the Celery settings of the program: a task is acknowledged when  *)
(* it is over and delivered again when its worker or connection is lost.   *)
(***************************************************************************)
EXTENDS Naturals, FiniteSets

CONSTANTS
    Requests,
    Limited,        \* product syncs, all of one advertiser and shop
    Keys,           \* idempotency keys, each with the task it is for
    KeyOf,          \* [Requests -> Keys]
    Workers,
    Retries,        \* Celery's max_retries
    Nobody,
    Stale,          \* holds a key that was left to its TTL
    MaxFaults       \* bound on losses, lapses and failed calls

ASSUME SyncKinds ==
    /\ Limited \subseteq Requests /\ KeyOf \in [Requests -> Keys]
    /\ Nobody \notin Workers /\ Stale \notin Workers \cup {Nobody}
ASSUME SyncBounds == Retries \in Nat /\ MaxFaults \in Nat

VARIABLES
    run,        \* [Requests -> committed status of its run, or "none"]
    age,        \* [Requests -> age of its run: below 15 minutes, a day, more]
    pc,         \* [Requests -> where the request is]
    sent,       \* runs whose message the broker has accepted from dispatch
    queue,      \* messages <<run, attempt>> at the broker
    work,       \* [Workers -> its execution]
    lock,       \* the owner in the binding's Redis key
    repeated,   \* runs with a message that was delivered twice
    lost,       \* runs whose last message ended without a word to the row
    faults

vars == <<run, age, pc, sent, queue, work, lock, repeated, lost, faults>>
web == <<age, pc, sent>>
history == <<repeated, lost>>

\* "partial", a success with errors from TikTok, is not told apart.
Final == {"success", "failed"}
Idle == [pc |-> "idle", run |-> Nobody, attempt |-> 0, read |-> "none",
         flushed |-> FALSE, lapsed |-> FALSE]
Message(w) == <<work[w].run, work[w].attempt>>

Fault == faults < MaxFaults /\ faults' = faults + 1

------------------------------------------------------------------------------
(***************************************************************************)
(* Requests                                                                *)
(***************************************************************************)

\* Mutant: only runs that wait for a worker are taken for a repetition.
ExistingEnqueued(q) ==
    {r \in Requests : /\ KeyOf[r] = KeyOf[q] /\ age[r] < 2
                      /\ run[r] = "enqueued"}

\* _find_existing_run: the key's runs of the last day.
Existing(q) ==
    {r \in Requests : KeyOf[r] = KeyOf[q] /\ age[r] < 2 /\ run[r] # "none"}

\* _enforce_products_limits, for the requests it is called for.
InProgress(q) ==
    q \in Limited /\ \E r \in Limited : run[r] = "enqueued" /\ age[r] < 2
TooSoon(q) ==
    q \in Limited /\ \E r \in Limited : run[r] # "none" /\ age[r] = 0

Answer(q, label) ==
    /\ pc' = [pc EXCEPT ![q] = label]
    /\ UNCHANGED <<run, age, sent, queue, work, lock, history, faults>>

\* The checks of a request read one snapshot, taken before it writes.  The
\* newest run decides between the first two answers; here both may be given.
Conflict(q) == pc[q] = "idle" /\ InProgress(q) /\ Answer(q, "conflict")
RateLimited(q) == pc[q] = "idle" /\ TooSoon(q) /\ Answer(q, "ended")
Repeat(q) ==
    /\ pc[q] = "idle" /\ ~InProgress(q) /\ ~TooSoon(q)
    /\ Existing(q) # {}
    /\ Answer(q, "ended")
Admit(q) ==
    /\ pc[q] = "idle" /\ ~InProgress(q) /\ ~TooSoon(q)
    /\ Existing(q) = {}
    /\ Answer(q, "storing")

\* The schedule and the run are committed before the message is sent.
Store(q) ==
    /\ pc[q] = "storing"
    /\ run' = [run EXCEPT ![q] = "enqueued"]
    /\ pc' = [pc EXCEPT ![q] = "stored"]
    /\ UNCHANGED <<age, sent, queue, work, lock, history, faults>>

Publish(q, label) ==
    /\ queue' = queue \cup {<<q, 0>>} /\ sent' = sent \cup {q}
    /\ pc' = [pc EXCEPT ![q] = label]
    /\ UNCHANGED <<run, age, work, lock, history>>

Send(q) == pc[q] = "stored" /\ Publish(q, "noting") /\ UNCHANGED faults

\* send_task raises; the broker may have the message all the same.
SendFails(q) ==
    /\ pc[q] = "stored" /\ Fault
    /\ \/ Publish(q, "ended")
       \/ /\ pc' = [pc EXCEPT ![q] = "ended"]
          /\ UNCHANGED <<run, age, sent, queue, work, lock, history>>

\* Mutant: the whole row is written back as it was stored.
NoteWholeRow(q) ==
    /\ pc[q] = "noting"
    /\ run' = [run EXCEPT ![q] = "enqueued"]
    /\ pc' = [pc EXCEPT ![q] = "ended"]
    /\ UNCHANGED <<age, sent, queue, work, lock, history, faults>>

\* Stores the task's id, or fails to: only that column is written.
Note(q) == pc[q] = "noting" /\ Answer(q, "ended")

CrashRequest(q) ==
    /\ pc[q] \in {"storing", "stored", "noting"} /\ Fault
    /\ pc' = [pc EXCEPT ![q] = "ended"]
    /\ UNCHANGED <<run, age, sent, queue, work, lock, history>>

\* Time passes for a run: fifteen minutes, then a day.
Age(r) ==
    /\ run[r] # "none" /\ age[r] < 2
    /\ age' = [age EXCEPT ![r] = @ + 1]
    /\ UNCHANGED <<run, pc, sent, queue, work, lock, history, faults>>

------------------------------------------------------------------------------
(***************************************************************************)
(* Workers                                                                 *)
(***************************************************************************)

Goto(w, label) == work' = [work EXCEPT ![w].pc = label]

\* The transaction ends, and with it the lock on the run's row and what the
\* session has read.
Leave(w, label) ==
    work' = [work EXCEPT ![w].pc = label, ![w].read = "none",
                         ![w].flushed = FALSE, ![w].lapsed = FALSE]

\* The run's row, as far as others have flushed to it and not committed.
RowFree(w) ==
    \A v \in Workers \ {w} : ~(work[v].flushed /\ work[v].run = work[w].run)

\* SQLAlchemy writes a status that differs from what the session last read
\* or flushed.
Written(w, status) ==
    IF ~work[w].flushed /\ work[w].read = status
    THEN run[work[w].run] ELSE status

Record(w, status) == run' = [run EXCEPT ![work[w].run] = status]

\* Mutant: deletes the key whoever owns it.
ReleaseAnyKey(w) == lock' = Nobody /\ UNCHANGED faults

\* redis_lock.release(): deletes its own key only; the call may fail.
ReleaseKey(w) ==
    \/ lock' = (IF lock = w THEN Nobody ELSE lock) /\ UNCHANGED faults
    \/ lock = w /\ lock' = Stale /\ Fault

\* A delivery starts with a read of the run; "running" is only set in the
\* session.
Take(w, m) ==
    /\ work[w].pc = "idle" /\ m \in queue
    /\ queue' = queue \ {m}
    /\ work' = [work EXCEPT ![w] =
                   [pc |-> "started", run |-> m[1], attempt |-> m[2],
                    read |-> run[m[1]], flushed |-> FALSE, lapsed |-> FALSE]]
    /\ UNCHANGED <<run, web, lock, history, faults>>

Acquire(w) ==
    /\ work[w].pc = "started" /\ lock = Nobody
    /\ lock' = w /\ Goto(w, "syncing")
    /\ UNCHANGED <<run, web, queue, history, faults>>

Refused(w) ==
    /\ work[w].pc = "started" /\ lock # Nobody
    /\ Goto(w, "refused")
    /\ UNCHANGED <<run, web, queue, lock, history, faults>>

\* acquire() takes a Redis error for a refusal; the key may be set.
RedisFails(w) ==
    /\ work[w].pc = "started" /\ Fault
    /\ lock' \in {lock, IF lock = Nobody THEN Stale ELSE lock}
    /\ Goto(w, "refused")
    /\ UNCHANGED <<run, web, queue, history>>

\* Mutant: the refusal is rolled back with the session.
ReportRolledBack(w) ==
    /\ work[w].pc = "refused" /\ Leave(w, "acking")
    /\ UNCHANGED <<run, web, queue, lock, history, faults>>

\* _handle_lock_not_acquired: the run has failed and is not tried again.
Report(w) ==
    /\ work[w].pc = "refused" /\ RowFree(w)
    /\ Record(w, Written(w, "failed")) /\ Leave(w, "acking")
    /\ UNCHANGED <<web, queue, lock, history, faults>>

\* The provider flushes its rows, and the run's with them.
Flush(w) ==
    /\ work[w].pc = "syncing" /\ ~work[w].flushed /\ RowFree(w)
    /\ work' = [work EXCEPT ![w].flushed = TRUE]
    /\ UNCHANGED <<run, web, queue, lock, history, faults>>

\* The key is given back before the sync is committed.
EndSync(w) ==
    /\ work[w].pc = "syncing"
    /\ ReleaseKey(w)
    /\ work' = [work EXCEPT ![w].pc = "commit", ![w].lapsed = FALSE]
    /\ UNCHANGED <<run, web, queue, history>>

Commit(w) ==
    /\ work[w].pc = "commit" /\ RowFree(w)
    /\ Record(w, Written(w, "success")) /\ Leave(w, "acking")
    /\ UNCHANGED <<web, queue, lock, history, faults>>

\* The provider, the database, a lock wait or the soft time limit raises:
\* the finally block releases the key, the handler rolls back.
Raise(w) ==
    /\ \/ work[w].pc = "syncing" /\ ReleaseKey(w)
       \/ /\ work[w].pc \in {"started", "refused", "commit"}
          /\ UNCHANGED <<lock, faults>>
    /\ Leave(w, "raising")
    /\ UNCHANGED <<run, web, queue, history>>

RecordFailure(w) ==
    /\ work[w].pc = "raising" /\ RowFree(w)
    /\ Record(w, "failed") /\ Goto(w, "retrying")
    /\ UNCHANGED <<web, queue, lock, history, faults>>

FailureUnrecorded(w) ==
    /\ work[w].pc = "raising"
    /\ \/ Fault
       \/ ~RowFree(w) /\ UNCHANGED faults
    /\ Goto(w, "retrying")
    /\ UNCHANGED <<run, web, queue, lock, history>>

\* The last message of the run ends; its row may still say "enqueued".
Drop(w) ==
    /\ lost' = lost \cup {r \in {work[w].run} : run[r] \notin Final}
    /\ UNCHANGED repeated

Again(w) == <<work[w].run, work[w].attempt + 1>>

\* autoretry_for: the task is published again before on_retry runs.  The
\* delay may be zero seconds.
Retry(w) ==
    /\ work[w].pc = "retrying" /\ work[w].attempt < Retries
    /\ queue' = queue \cup {Again(w)} /\ Goto(w, "hook")
    /\ UNCHANGED <<run, web, lock, history, faults>>

\* Celery rejects a task it cannot publish again, without the hook.
RetryFails(w) ==
    /\ work[w].pc = "retrying" /\ work[w].attempt < Retries /\ Fault
    /\ queue' \in {queue, queue \cup {Again(w)}}
    /\ Goto(w, "acking") /\ Drop(w)
    /\ UNCHANGED <<run, web, lock>>

GiveUp(w) ==
    /\ work[w].pc = "retrying" /\ work[w].attempt = Retries
    /\ Goto(w, "acking") /\ Drop(w)
    /\ UNCHANGED <<run, web, queue, lock, faults>>

\* TTBSyncTask.on_retry.  A hook that comes after the retry was taken may
\* overwrite what the retry reports.
Hook(w) ==
    /\ work[w].pc = "hook" /\ RowFree(w)
    /\ Record(w, "enqueued") /\ Goto(w, "acking")
    /\ lost' = IF Again(w) \in queue THEN lost ELSE lost \cup {work[w].run}
    /\ UNCHANGED <<web, queue, lock, repeated, faults>>

HookFails(w) ==
    /\ work[w].pc = "hook"
    /\ \/ Fault
       \/ ~RowFree(w) /\ UNCHANGED faults
    /\ Goto(w, "acking")
    /\ UNCHANGED <<run, web, queue, lock, history>>

Ack(w) ==
    /\ work[w].pc = "acking"
    /\ work' = [work EXCEPT ![w] = Idle]
    /\ UNCHANGED <<run, web, queue, lock, history, faults>>

------------------------------------------------------------------------------
(***************************************************************************)
(* Celery and Redis                                                        *)
(***************************************************************************)

\* A process that dies leaves its key to the TTL.
Die(w) ==
    /\ work' = [work EXCEPT ![w] = Idle]
    /\ lock' = IF lock = w THEN Stale ELSE lock

\* task_reject_on_worker_lost: the message goes back to the queue.
WorkerLost(w) ==
    /\ work[w].pc # "idle" /\ Fault
    /\ queue' = queue \cup {Message(w)}
    /\ repeated' = repeated \cup {work[w].run}
    /\ Die(w)
    /\ UNCHANGED <<run, web, lost>>

\* The hard time limit: Celery acknowledges the task it kills.
HardKill(w) ==
    /\ work[w].pc \notin {"idle", "hook", "acking"} /\ Fault
    /\ Die(w) /\ Drop(w)
    /\ UNCHANGED <<run, web, queue>>

\* The broker loses the connection and delivers an unacknowledged message
\* again, while its worker goes on.
Redeliver(w) ==
    /\ work[w].pc # "idle" /\ Fault
    /\ queue' = queue \cup {Message(w)}
    /\ repeated' = repeated \cup {work[w].run}
    /\ UNCHANGED <<run, web, work, lock, lost>>

ExpireKey ==
    /\ lock = Stale /\ lock' = Nobody
    /\ UNCHANGED <<run, web, queue, work, history, faults>>

\* The heartbeat misses the TTL of a sync that goes on.
Lapse(w) ==
    /\ work[w].pc = "syncing" /\ lock = w /\ Fault
    /\ lock' = Nobody
    /\ work' = [work EXCEPT ![w].lapsed = TRUE]
    /\ UNCHANGED <<run, web, queue, history>>

------------------------------------------------------------------------------
Init ==
    /\ run = [r \in Requests |-> "none"] /\ age = [r \in Requests |-> 0]
    /\ pc = [q \in Requests |-> "idle"]
    /\ sent = {} /\ queue = {}
    /\ work = [w \in Workers |-> Idle]
    /\ lock = Nobody
    /\ repeated = {} /\ lost = {} /\ faults = 0

Request(q) ==
    \/ Conflict(q) \/ RateLimited(q) \/ Repeat(q) \/ Admit(q) \/ Store(q)
    \/ Send(q) \/ SendFails(q) \/ Note(q) \/ CrashRequest(q) \/ Age(q)

\* A worker with a task goes on.
Proceed(w) ==
    \/ Acquire(w) \/ Refused(w) \/ Report(w) \/ Flush(w) \/ EndSync(w)
    \/ Commit(w) \/ Raise(w) \/ RecordFailure(w) \/ FailureUnrecorded(w)
    \/ Retry(w) \/ RetryFails(w) \/ GiveUp(w) \/ Hook(w) \/ HookFails(w)
    \/ Ack(w)

Disturb(w) ==
    RedisFails(w) \/ WorkerLost(w) \/ HardKill(w) \/ Redeliver(w) \/ Lapse(w)

Next ==
    \/ \E q \in Requests : Request(q)
    \/ \E w \in Workers : Proceed(w) \/ Disturb(w)
    \/ \E w \in Workers : \E m \in queue : Take(w, m)
    \/ ExpireKey

Spec == Init /\ [][Next]_vars

Attempts == 0 .. Retries

FairSpec ==
    /\ Spec
    /\ \A w \in Workers : WF_vars(Proceed(w))
    /\ \A m \in Requests \X Attempts :
           SF_vars(\E w \in Workers : Take(w, m))
    /\ WF_vars(ExpireKey)
------------------------------------------------------------------------------
(***************************************************************************)
(* Properties                                                              *)
(***************************************************************************)

Executions ==
    [pc : {"started", "refused", "syncing", "commit", "raising", "retrying",
           "hook", "acking"},
     run : Requests, attempt : Attempts, read : Final \cup {"none", "enqueued"},
     flushed : BOOLEAN, lapsed : BOOLEAN]

\* Every variable has its type: in particular, only stored runs are read,
\* "running" is never committed, and no message exceeds the retries.
TypeOK ==
    /\ run \in [Requests -> Final \cup {"none", "enqueued"}]
    /\ age \in [Requests -> 0 .. 2]
    /\ pc \in [Requests -> {"idle", "conflict", "storing", "stored", "noting",
                            "ended"}]
    /\ sent \subseteq Requests /\ queue \subseteq Requests \X Attempts
    /\ work \in [Workers -> Executions \cup {Idle}]
    /\ lock \in Workers \cup {Nobody, Stale}
    /\ repeated \subseteq Requests /\ lost \subseteq Requests
    /\ faults \in 0 .. MaxFaults

\* A request whose task was published is not done twice: for a day its key,
\* and for fifteen minutes every other product sync, starts nothing new
\* (ttb_sync_dispatch.py _find_existing_run, common.py
\* _enforce_products_limits; requests that overlap are another matter).
RepeatStartsNothing ==
    [][\A p, q \in Requests :
           /\ p \in sent
           /\ \/ KeyOf[p] = KeyOf[q] /\ age[p] < 2
              \/ {p, q} \subseteq Limited /\ age[p] = 0
           => ~(pc[q] = "idle" /\ pc'[q] = "storing")]_vars

\* Two syncs of a binding run at once only after a heartbeat has failed,
\* whatever is lost, killed, delivered twice or released late
\* (ttb_sync_tasks.py _execute_task, redis_locks.py).
OneSync ==
    \A v, w \in Workers :
        /\ work[v].pc = "syncing" /\ ~work[v].lapsed
        /\ work[w].pc = "syncing" /\ ~work[w].lapsed
        => v = w

\* What a finished sync has reported stands, although the request writes to
\* the row after the message is out: only a second delivery of the message
\* and a retry hook that is late may replace it (_finish_run, on_retry,
\* dispatch_sync).
OutcomeStands ==
    [][\A r \in Requests :
           /\ run[r] = "success" /\ r \notin repeated
           /\ ~\E w \in Workers : work[w].pc = "hook" /\ work[w].run = r
           => run'[r] = run[r]]_vars

\* Its message waits, or a worker has it that will yet report or retry.
InHand(r) ==
    \/ \E m \in queue : m[1] = r
    \/ \E w \in Workers :
           work[w].run = r /\ work[w].pc \notin {"idle", "hook", "acking"}

\* No run whose message was accepted falls silent: it has its answer, is in
\* somebody's hands, or was lost in one of the ways named at lost; in
\* particular, a worker that found an answer when it read the run, and so
\* writes none, is not the last one while a hook takes that answer back
\* (_finish_run, on_retry, _handle_lock_not_acquired).
NoRunFallsSilent ==
    \A r \in sent : run[r] \in Final \/ r \in lost \/ InHand(r)

\* Whoever waits for a run whose message was accepted gets an answer, unless
\* its last message was killed, could not be reported at all, or a late
\* hook has taken the answer back (_wait_for_run_completion).
PublishedRunIsReported ==
    \A r \in Requests :
        r \in sent ~> [](run[r] \in Final \/ r \in lost)

\* "Ensure that product syncs are not executed concurrently or too
\* frequently." (common.py, _enforce_products_limits)
ProductsAreSpaced ==
    \A p, q \in Limited :
        /\ p # q /\ age[p] = 0 /\ age[q] = 0
        => ~(run[p] = "success" /\ run[q] = "success")

Live(r) ==
    \/ pc[r] \in {"stored", "noting"}
    \/ \E m \in queue : m[1] = r
    \/ \E w \in Workers : work[w].run = r

\* "A GMV Max product sync is already running for this combination."
\* (common.py, _enforce_products_limits)
InProgressIsTrue ==
    [][\A q \in Requests :
           pc[q] = "idle" /\ pc'[q] = "conflict"
           => \E r \in Limited : Live(r)]_vars

\* "another sync job running for this binding" (ttb_sync_tasks.py,
\* _handle_lock_not_acquired): unless Redis failed, there is one.
RefusedByAnother ==
    [][\A w \in Workers :
           /\ work[w].pc = "started" /\ work'[w].pc = "refused"
           /\ lock # Nobody
           => \E v \in Workers : work[v].pc = "syncing"]_vars
=============================================================================
