------------------------- MODULE SyncDispatchProofs -------------------------
(***************************************************************************)
(* Proofs about SyncDispatch for every set of requests and workers, every  *)
(* number of retries and every bound on faults.                            *)
(***************************************************************************)
EXTENDS SyncDispatch, TLAPS

USE SyncKinds, SyncBounds DEF Attempts

Labels == {"started", "refused", "syncing", "commit", "raising", "retrying",
           "hook", "acking"}

\* Worker w goes on to a label with the message it has.
After(w, label) ==
    /\ work' \in [Workers -> Executions \cup {Idle}]
    /\ work'[w].pc = label
    /\ work'[w].run = work[w].run /\ work'[w].attempt = work[w].attempt
    /\ \A v \in Workers \ {w} : work'[v] = work[v]

LEMMA BusyWorker ==
    ASSUME TypeOK, NEW w \in Workers, work[w].pc # "idle"
    PROVE  work[w] \in Executions
BY DEF TypeOK, Idle

LEMMA GotoFacts ==
    ASSUME TypeOK, NEW w \in Workers, work[w].pc # "idle",
           NEW label \in Labels, Goto(w, label)
    PROVE  After(w, label) /\ work'[w].lapsed = work[w].lapsed
<1>1. work[w] \in Executions  BY BusyWorker
<1>2. [work[w] EXCEPT !.pc = label] \in Executions
  BY <1>1 DEF Executions, Labels
<1>3. work' = [work EXCEPT ![w] = [work[w] EXCEPT !.pc = label]]
  BY DEF Goto, TypeOK
<1>. QED  BY <1>1, <1>2, <1>3 DEF After, TypeOK, Executions

LEMMA LeaveFacts ==
    ASSUME TypeOK, NEW w \in Workers, work[w].pc # "idle",
           NEW label \in Labels, Leave(w, label)
    PROVE  After(w, label)
<1>1. work[w] \in Executions  BY BusyWorker
<1>. DEFINE e == [work[w] EXCEPT !.pc = label, !.read = "none",
                                 !.flushed = FALSE, !.lapsed = FALSE]
<1>2. e \in Executions  BY <1>1 DEF Executions, Labels
<1>3. work' = [work EXCEPT ![w] = e]  BY DEF Leave, TypeOK
<1>. QED  BY <1>1, <1>2, <1>3 DEF After, TypeOK, Executions

\* The three steps that write other fields.
LEMMA FlushFacts ==
    ASSUME TypeOK, NEW w \in Workers, Flush(w)
    PROVE  After(w, "syncing") /\ work'[w].lapsed = work[w].lapsed
<1>1. work[w] \in Executions  BY BusyWorker DEF Flush
<1>. DEFINE e == [work[w] EXCEPT !.flushed = TRUE]
<1>2. e \in Executions  BY <1>1 DEF Executions
<1>3. work' = [work EXCEPT ![w] = e]  BY DEF Flush, TypeOK
<1>. QED  BY <1>1, <1>2, <1>3 DEF After, TypeOK, Executions, Flush

LEMMA EndSyncFacts ==
    ASSUME TypeOK, NEW w \in Workers, EndSync(w)
    PROVE  After(w, "commit")
<1>1. work[w] \in Executions  BY BusyWorker DEF EndSync
<1>. DEFINE e == [work[w] EXCEPT !.pc = "commit", !.lapsed = FALSE]
<1>2. e \in Executions  BY <1>1 DEF Executions
<1>3. work' = [work EXCEPT ![w] = e]  BY DEF EndSync, TypeOK
<1>. QED  BY <1>1, <1>2, <1>3 DEF After, TypeOK, Executions

LEMMA LapseFacts ==
    ASSUME TypeOK, NEW w \in Workers, Lapse(w)
    PROVE  After(w, "syncing") /\ work'[w].lapsed
<1>1. work[w] \in Executions  BY BusyWorker DEF Lapse
<1>. DEFINE e == [work[w] EXCEPT !.lapsed = TRUE]
<1>2. e \in Executions  BY <1>1 DEF Executions
<1>3. work' = [work EXCEPT ![w] = e]  BY DEF Lapse, TypeOK
<1>. QED  BY <1>1, <1>2, <1>3 DEF After, TypeOK, Executions, Lapse

LEMMA TakeFacts ==
    ASSUME TypeOK, NEW w \in Workers, NEW m \in queue, Take(w, m)
    PROVE  /\ work' \in [Workers -> Executions \cup {Idle}]
           /\ work'[w].pc = "started" /\ work'[w].run = m[1]
           /\ \A v \in Workers \ {w} : work'[v] = work[v]
<1>. DEFINE e == [pc |-> "started", run |-> m[1], attempt |-> m[2],
                  read |-> run[m[1]], flushed |-> FALSE, lapsed |-> FALSE]
<1>1. m[1] \in Requests /\ m[2] \in 0 .. Retries  BY DEF TypeOK
<1>2. run[m[1]] \in Final \cup {"none", "enqueued"}  BY <1>1 DEF TypeOK
<1>3. e \in Executions  BY <1>1, <1>2 DEF Executions
<1>4. work' = [work EXCEPT ![w] = e]  BY DEF Take
<1>. QED  BY <1>3, <1>4 DEF TypeOK

\* What ends an execution without a label.
LEMMA EndFacts ==
    ASSUME TypeOK, NEW w \in Workers, work' = [work EXCEPT ![w] = Idle]
    PROVE  /\ work' \in [Workers -> Executions \cup {Idle}]
           /\ work'[w].pc = "idle"
           /\ \A v \in Workers \ {w} : work'[v] = work[v]
BY DEF TypeOK, Idle

------------------------------------------------------------------------------
(***************************************************************************)
(* Types                                                                   *)
(***************************************************************************)

Statuses == Final \cup {"none", "enqueued"}

LEMMA WrittenType ==
    ASSUME TypeOK, NEW w \in Workers, work[w].pc # "idle",
           NEW status \in Statuses
    PROVE  Written(w, status) \in Statuses
BY BusyWorker DEF Written, TypeOK, Statuses, Executions

LEMMA RecordType ==
    ASSUME TypeOK, NEW w \in Workers, work[w].pc # "idle",
           NEW status \in Statuses, Record(w, status)
    PROVE  /\ run' \in [Requests -> Statuses]
           /\ run'[work[w].run] = status
           /\ \A r \in Requests : r # work[w].run => run'[r] = run[r]
<1>1. work[w].run \in Requests  BY BusyWorker DEF Executions
<1>. QED  BY <1>1 DEF Record, TypeOK, Statuses

LEMMA FaultType ==
    ASSUME TypeOK, Fault \/ UNCHANGED faults
    PROVE  faults' \in 0 .. MaxFaults
BY DEF TypeOK, Fault

LEMMA ReleaseType ==
    ASSUME TypeOK, NEW w \in Workers, ReleaseKey(w)
    PROVE  /\ lock' \in Workers \cup {Nobody, Stale}
           /\ faults' \in 0 .. MaxFaults
           /\ lock # w => lock' = lock
BY FaultType DEF ReleaseKey, TypeOK

LEMMA RequestType ==
    ASSUME TypeOK, NEW q \in Requests, Request(q)
    PROVE  TypeOK'
<1>. USE DEF TypeOK
<1>1. CASE Conflict(q) \/ RateLimited(q) \/ Repeat(q) \/ Admit(q) \/ Note(q)
  BY <1>1 DEF Conflict, RateLimited, Repeat, Admit, Note, Answer, history
<1>2. CASE Store(q)  BY <1>2 DEF Store, history
<1>3. CASE Send(q)
  <2>1. <<q, 0>> \in Requests \X Attempts  OBVIOUS
  <2>. QED  BY <1>3, <2>1 DEF Send, Publish, history
<1>4. CASE SendFails(q)
  <2>1. <<q, 0>> \in Requests \X Attempts  OBVIOUS
  <2>2. faults' \in 0 .. MaxFaults  BY <1>4, FaultType DEF SendFails
  <2>. QED  BY <1>4, <2>1, <2>2 DEF SendFails, Publish, history
<1>5. CASE CrashRequest(q)
  <2>1. faults' \in 0 .. MaxFaults  BY <1>5, FaultType DEF CrashRequest
  <2>. QED  BY <1>5, <2>1 DEF CrashRequest, history
<1>6. CASE Age(q)  BY <1>6 DEF Age, history
<1>. QED  BY <1>1, <1>2, <1>3, <1>4, <1>5, <1>6 DEF Request

LEMMA ProceedType ==
    ASSUME TypeOK, NEW w \in Workers, Proceed(w)
    PROVE  TypeOK'
<1>. USE DEF Labels, web, history
<1>1. CASE Acquire(w)
  <2>1. After(w, "syncing")  BY <1>1, GotoFacts DEF Acquire
  <2>. QED  BY <1>1, <2>1 DEF After, Acquire, TypeOK
<1>2. CASE Refused(w)
  <2>1. After(w, "refused")  BY <1>2, GotoFacts DEF Refused
  <2>. QED  BY <1>2, <2>1 DEF After, Refused, TypeOK
<1>3. CASE Report(w)
  <2>1. After(w, "acking")  BY <1>3, LeaveFacts DEF Report
  <2>2. run' \in [Requests -> Statuses]
    BY <1>3, WrittenType, RecordType DEF Report, Statuses, Final
  <2>. QED  BY <1>3, <2>1, <2>2 DEF After, Report, TypeOK, Statuses
<1>4. CASE Flush(w)
  BY <1>4, FlushFacts DEF After, Flush, TypeOK
<1>5. CASE EndSync(w)
  BY <1>5, EndSyncFacts, ReleaseType DEF After, EndSync, TypeOK
<1>6. CASE Commit(w)
  <2>1. After(w, "acking")  BY <1>6, LeaveFacts DEF Commit
  <2>2. run' \in [Requests -> Statuses]
    BY <1>6, WrittenType, RecordType DEF Commit, Statuses, Final
  <2>. QED  BY <1>6, <2>1, <2>2 DEF After, Commit, TypeOK, Statuses
<1>7. CASE Raise(w)
  <2>1. After(w, "raising")  BY <1>7, LeaveFacts DEF Raise
  <2>2. /\ lock' \in Workers \cup {Nobody, Stale}
        /\ faults' \in 0 .. MaxFaults
    BY <1>7, ReleaseType DEF Raise, TypeOK
  <2>. QED  BY <1>7, <2>1, <2>2 DEF After, Raise, TypeOK
<1>8. CASE RecordFailure(w)
  <2>1. After(w, "retrying")  BY <1>8, GotoFacts DEF RecordFailure
  <2>2. run' \in [Requests -> Statuses]
    BY <1>8, RecordType DEF RecordFailure, Statuses, Final
  <2>. QED  BY <1>8, <2>1, <2>2 DEF After, RecordFailure, TypeOK, Statuses
<1>9. CASE FailureUnrecorded(w)
  <2>1. After(w, "retrying")  BY <1>9, GotoFacts DEF FailureUnrecorded
  <2>2. faults' \in 0 .. MaxFaults  BY <1>9, FaultType DEF FailureUnrecorded
  <2>. QED  BY <1>9, <2>1, <2>2 DEF After, FailureUnrecorded, TypeOK
<1>10. ASSUME work[w].pc = "retrying", work[w].attempt < Retries
       PROVE  Again(w) \in Requests \X Attempts
  <2>1. work[w] \in Executions  BY <1>10, BusyWorker
  <2>. QED  BY <1>10, <2>1 DEF Executions, Again
<1>11. CASE Retry(w)
  <2>1. After(w, "hook")  BY <1>11, GotoFacts DEF Retry
  <2>. QED  BY <1>10, <1>11, <2>1 DEF After, Retry, TypeOK
<1>12. ASSUME work[w].pc = "retrying", Drop(w)
       PROVE  lost' \subseteq Requests
  <2>1. work[w] \in Executions  BY <1>12, BusyWorker
  <2>. QED  BY <1>12, <2>1 DEF Executions, Drop, TypeOK
<1>13. CASE RetryFails(w)
  <2>1. After(w, "acking")  BY <1>13, GotoFacts DEF RetryFails
  <2>2. faults' \in 0 .. MaxFaults  BY <1>13, FaultType DEF RetryFails
  <2>. QED
    BY <1>10, <1>12, <1>13, <2>1, <2>2 DEF After, RetryFails, Drop, TypeOK
<1>14. CASE GiveUp(w)
  <2>1. After(w, "acking")  BY <1>14, GotoFacts DEF GiveUp
  <2>. QED  BY <1>12, <1>14, <2>1 DEF After, GiveUp, Drop, TypeOK
<1>15. CASE Hook(w)
  <2>1. After(w, "acking")  BY <1>15, GotoFacts DEF Hook
  <2>2. run' \in [Requests -> Statuses]
    BY <1>15, RecordType DEF Hook, Statuses
  <2>3. work[w].run \in Requests  BY <1>15, BusyWorker DEF Hook, Executions
  <2>. QED  BY <1>15, <2>1, <2>2, <2>3 DEF After, Hook, TypeOK, Statuses
<1>16. CASE HookFails(w)
  <2>1. After(w, "acking")  BY <1>16, GotoFacts DEF HookFails
  <2>2. faults' \in 0 .. MaxFaults  BY <1>16, FaultType DEF HookFails
  <2>. QED  BY <1>16, <2>1, <2>2 DEF After, HookFails, TypeOK
<1>17. CASE Ack(w)  BY <1>17, EndFacts DEF Ack, TypeOK
<1>. QED
  BY <1>1, <1>2, <1>3, <1>4, <1>5, <1>6, <1>7, <1>8, <1>9, <1>11, <1>13,
     <1>14, <1>15, <1>16, <1>17 DEF Proceed

LEMMA DisturbType ==
    ASSUME TypeOK, NEW w \in Workers, Disturb(w)
    PROVE  TypeOK'
<1>. USE DEF Labels, web, history
<1>1. faults' \in 0 .. MaxFaults
  BY FaultType
     DEF Disturb, RedisFails, WorkerLost, HardKill, Redeliver, Lapse
<1>2. ASSUME work[w].pc # "idle"
      PROVE  work[w].run \in Requests /\ Message(w) \in Requests \X Attempts
  BY <1>2, BusyWorker DEF Executions, Message
<1>3. CASE RedisFails(w)
  <2>1. After(w, "refused")  BY <1>3, GotoFacts DEF RedisFails
  <2>. QED  BY <1>1, <1>3, <2>1 DEF After, RedisFails, TypeOK
<1>4. CASE WorkerLost(w)
  <2>1. work' \in [Workers -> Executions \cup {Idle}]
    BY <1>4, EndFacts DEF WorkerLost, Die
  <2>. QED  BY <1>1, <1>2, <1>4, <2>1 DEF WorkerLost, Die, TypeOK
<1>5. CASE HardKill(w)
  <2>1. work' \in [Workers -> Executions \cup {Idle}]
    BY <1>5, EndFacts DEF HardKill, Die
  <2>2. work[w].run \in Requests  BY <1>2, <1>5 DEF HardKill
  <2>. QED  BY <1>1, <1>5, <2>1, <2>2 DEF HardKill, Die, Drop, TypeOK
<1>6. CASE Redeliver(w)  BY <1>1, <1>2, <1>6 DEF Redeliver, TypeOK
<1>7. CASE Lapse(w)  BY <1>1, <1>7, LapseFacts DEF After, Lapse, TypeOK
<1>. QED  BY <1>3, <1>4, <1>5, <1>6, <1>7 DEF Disturb

LEMMA TypeStep ==
    ASSUME TypeOK, [Next]_vars
    PROVE  TypeOK'
<1>1. CASE \E q \in Requests : Request(q)  BY <1>1, RequestType
<1>2. CASE \E w \in Workers : Proceed(w) \/ Disturb(w)
  BY <1>2, ProceedType, DisturbType
<1>3. ASSUME NEW w \in Workers, NEW m \in queue, Take(w, m)
      PROVE  TypeOK'
  BY <1>3, TakeFacts DEF Take, web, history, TypeOK
<1>4. CASE ExpireKey  BY <1>4 DEF ExpireKey, web, history, TypeOK
<1>5. CASE UNCHANGED vars  BY <1>5 DEF vars, TypeOK
<1>. QED  BY <1>1, <1>2, <1>3, <1>4, <1>5 DEF Next

LEMMA InitType ==
    ASSUME Init PROVE TypeOK
BY DEF Init, TypeOK, Idle, Final

\* Every variable keeps its type, for any requests, workers and bounds.
THEOREM TypeCorrect == Spec => []TypeOK
<1>1. Init => TypeOK  BY InitType
<1>2. TypeOK /\ [Next]_vars => TypeOK'  BY TypeStep
<1>. QED  BY <1>1, <1>2, PTL DEF Spec

------------------------------------------------------------------------------
(***************************************************************************)
(* The key                                                                 *)
(***************************************************************************)

\* A sync owns the key for as long as its heartbeat has not failed.
KeyInv ==
    \A w \in Workers :
        work[w].pc = "syncing" /\ ~work[w].lapsed => lock = w

LEMMA KeyProceed ==
    ASSUME TypeOK, KeyInv, NEW w \in Workers, Proceed(w)
    PROVE  KeyInv'
<1>. USE DEF Labels, KeyInv
<1>1. CASE Acquire(w)
  <2>1. After(w, "syncing")  BY <1>1, GotoFacts DEF Acquire
  <2>. QED  BY <1>1, <2>1 DEF After, Acquire
<1>2. CASE Flush(w)
  BY <1>2, FlushFacts DEF After, Flush
<1>3. CASE EndSync(w)
  BY <1>3, EndSyncFacts, ReleaseType DEF After, EndSync, ReleaseKey
<1>4. CASE Raise(w)
  <2>1. After(w, "raising")  BY <1>4, LeaveFacts DEF Raise
  <2>. QED  BY <1>4, <2>1 DEF After, Raise, ReleaseKey
<1>5. CASE Refused(w)
  <2>1. After(w, "refused")  BY <1>5, GotoFacts DEF Refused
  <2>. QED  BY <1>5, <2>1 DEF After, Refused
<1>6. CASE Report(w)
  <2>1. After(w, "acking")  BY <1>6, LeaveFacts DEF Report
  <2>. QED  BY <1>6, <2>1 DEF After, Report
<1>7. CASE Commit(w)
  <2>1. After(w, "acking")  BY <1>7, LeaveFacts DEF Commit
  <2>. QED  BY <1>7, <2>1 DEF After, Commit
<1>8. CASE RecordFailure(w) \/ FailureUnrecorded(w)
  <2>1. After(w, "retrying")
    BY <1>8, GotoFacts DEF RecordFailure, FailureUnrecorded
  <2>. QED  BY <1>8, <2>1 DEF After, RecordFailure, FailureUnrecorded
<1>9. CASE Retry(w)
  <2>1. After(w, "hook")  BY <1>9, GotoFacts DEF Retry
  <2>. QED  BY <1>9, <2>1 DEF After, Retry
<1>10. CASE RetryFails(w) \/ GiveUp(w) \/ Hook(w) \/ HookFails(w)
  <2>1. After(w, "acking")
    BY <1>10, GotoFacts DEF RetryFails, GiveUp, Hook, HookFails
  <2>2. lock' = lock  BY <1>10 DEF RetryFails, GiveUp, Hook, HookFails
  <2>. QED  BY <2>1, <2>2 DEF After
<1>11. CASE Ack(w)  BY <1>11, EndFacts DEF Ack
<1>. QED
  BY <1>1, <1>2, <1>3, <1>4, <1>5, <1>6, <1>7, <1>8, <1>9, <1>10, <1>11
     DEF Proceed

LEMMA KeyDisturb ==
    ASSUME TypeOK, KeyInv, NEW w \in Workers, Disturb(w)
    PROVE  KeyInv'
<1>. USE DEF Labels, KeyInv
<1>1. CASE RedisFails(w)
  <2>1. After(w, "refused")  BY <1>1, GotoFacts DEF RedisFails
  <2>. QED  BY <1>1, <2>1 DEF After, RedisFails
<1>2. CASE WorkerLost(w) \/ HardKill(w)
  <2>1. Die(w)  BY <1>2 DEF WorkerLost, HardKill
  <2>2. /\ work'[w].pc = "idle"
        /\ \A v \in Workers \ {w} : work'[v] = work[v]
    BY <2>1, EndFacts DEF Die
  <2>. QED  BY <2>1, <2>2 DEF Die
<1>3. CASE Redeliver(w)  BY <1>3 DEF Redeliver
<1>4. CASE Lapse(w)  BY <1>4, LapseFacts DEF After, Lapse
<1>. QED  BY <1>1, <1>2, <1>3, <1>4 DEF Disturb

LEMMA KeyStep ==
    ASSUME TypeOK, KeyInv, [Next]_vars
    PROVE  KeyInv'
<1>1. CASE \E q \in Requests : Request(q)
  <2>1. UNCHANGED <<work, lock>>
    BY <1>1 DEF Request, Conflict, RateLimited, Repeat, Admit, Answer, Store,
                Send, SendFails, Publish, Note, CrashRequest, Age
  <2>. QED  BY <2>1 DEF KeyInv
<1>2. CASE \E w \in Workers : Proceed(w) \/ Disturb(w)
  BY <1>2, KeyProceed, KeyDisturb
<1>3. ASSUME NEW w \in Workers, NEW m \in queue, Take(w, m)
      PROVE  KeyInv'
  BY <1>3, TakeFacts DEF Take, KeyInv
<1>4. CASE ExpireKey  BY <1>4 DEF ExpireKey, KeyInv
<1>5. CASE UNCHANGED vars  BY <1>5 DEF vars, KeyInv
<1>. QED  BY <1>1, <1>2, <1>3, <1>4, <1>5 DEF Next

\* Two syncs of the binding run at once only after a heartbeat has failed.
THEOREM SyncsExclude == Spec => []OneSync
<1>1. Init => TypeOK /\ KeyInv  BY InitType DEF Init, KeyInv, Idle
<1>2. TypeOK /\ KeyInv /\ [Next]_vars => TypeOK' /\ KeyInv'
  BY TypeStep, KeyStep
<1>3. KeyInv => OneSync  BY DEF KeyInv, OneSync
<1>. QED  BY <1>1, <1>2, <1>3, PTL DEF Spec

------------------------------------------------------------------------------
(***************************************************************************)
(* Runs and their messages                                                 *)
(***************************************************************************)

\* Worker w may still report, or publish its run again.
Active(w) == work[w].pc \notin {"idle", "hook", "acking"}

\* A run is stored before its message and set by its request only once.
RunInv ==
    /\ \A q \in Requests :
          /\ pc[q] \in {"idle", "storing"} => run[q] = "none"
          /\ pc[q] \in {"idle", "storing", "stored"} => q \notin sent
          /\ pc[q] = "stored" => run[q] # "none"
          /\ q \in sent => run[q] # "none"
          /\ q \notin sent => run[q] \in {"none", "enqueued"}
    /\ \A m \in queue : m[1] \in sent
    /\ \A w \in Workers : work[w].pc # "idle" => work[w].run \in sent

\* A run without a second delivery has one message, waiting or with one
\* active worker, and none once it has succeeded.
CopyInv ==
    \A r \in Requests \ repeated :
        /\ \A m, n \in queue : m[1] = r /\ n[1] = r => m = n
        /\ \A w \in Workers : Active(w) /\ work[w].run = r =>
              /\ \A m \in queue : m[1] # r
              /\ \A v \in Workers : Active(v) /\ work[v].run = r => v = w
        /\ run[r] = "success" =>
              /\ \A m \in queue : m[1] # r
              /\ \A w \in Workers : Active(w) => work[w].run # r

\* What a worker's own step does to the runs and the messages.
Effect(w) ==
    /\ work[w].pc # "idle" /\ work[w].run \in Requests
    /\ UNCHANGED <<web, repeated>>
    /\ \A v \in Workers \ {w} : work'[v] = work[v]
    /\ work'[w].pc = "idle" \/ work'[w].run = work[w].run
    /\ Active(w)' => Active(w)
    /\ \A r \in Requests : r # work[w].run => run'[r] = run[r]
    /\ run'[work[w].run] \in Final \cup {"enqueued", run[work[w].run]}
    /\ \/ queue' = queue
       \/ queue' = queue \cup {Again(w)} /\ Active(w) /\ ~Active(w)' /\ run' = run
    /\ \/ run'[work[w].run] = run[work[w].run]
       \/ Active(w) /\ (run'[work[w].run] = "success" => ~Active(w)')
       \/ work[w].pc = "hook" /\ run'[work[w].run] = "enqueued"

LEMMA ProceedEffect ==
    ASSUME TypeOK, NEW w \in Workers, Proceed(w)
    PROVE  Effect(w)
<1>1. work[w].pc # "idle"
  BY DEF Proceed, Acquire, Refused, Report, Flush, EndSync, Commit, Raise,
         RecordFailure, FailureUnrecorded, Retry, RetryFails, GiveUp, Hook,
         HookFails, Ack
<1>2. work[w].run \in Requests  BY <1>1, BusyWorker DEF Executions
<1>. USE DEF Labels, web, history
<1>3. CASE Acquire(w)
  <2>1. After(w, "syncing")  BY <1>3, GotoFacts DEF Acquire
  <2>. QED  BY <1>1, <1>2, <1>3, <2>1 DEF After, Effect, Active, Acquire
<1>4. CASE Refused(w)
  <2>1. After(w, "refused")  BY <1>4, GotoFacts DEF Refused
  <2>. QED  BY <1>1, <1>2, <1>4, <2>1 DEF After, Effect, Active, Refused
<1>5. CASE Report(w)
  <2>1. After(w, "acking")  BY <1>5, LeaveFacts DEF Report
  <2>2. /\ run'[work[w].run] = Written(w, "failed")
        /\ \A r \in Requests : r # work[w].run => run'[r] = run[r]
    BY <1>1, <1>5, WrittenType, RecordType DEF Report, Statuses, Final
  <2>3. Written(w, "failed") \in {"failed", run[work[w].run]}
    BY DEF Written
  <2>. QED
    BY <1>1, <1>2, <1>5, <2>1, <2>2, <2>3
       DEF After, Effect, Active, Report, Final
<1>6. CASE Flush(w)
  BY <1>1, <1>2, <1>6, FlushFacts DEF After, Effect, Active, Flush
<1>7. CASE EndSync(w)
  BY <1>1, <1>2, <1>7, EndSyncFacts DEF After, Effect, Active, EndSync
<1>8. CASE Commit(w)
  <2>1. After(w, "acking")  BY <1>8, LeaveFacts DEF Commit
  <2>2. /\ run'[work[w].run] = Written(w, "success")
        /\ \A r \in Requests : r # work[w].run => run'[r] = run[r]
    BY <1>1, <1>8, WrittenType, RecordType DEF Commit, Statuses, Final
  <2>3. Written(w, "success") \in {"success", run[work[w].run]}
    BY DEF Written
  <2>. QED
    BY <1>1, <1>2, <1>8, <2>1, <2>2, <2>3
       DEF After, Effect, Active, Commit, Final
<1>9. CASE Raise(w)
  <2>1. After(w, "raising")  BY <1>9, LeaveFacts DEF Raise
  <2>. QED  BY <1>1, <1>2, <1>9, <2>1 DEF After, Effect, Active, Raise
<1>10. CASE RecordFailure(w)
  <2>1. After(w, "retrying")  BY <1>10, GotoFacts DEF RecordFailure
  <2>2. /\ run'[work[w].run] = "failed"
        /\ \A r \in Requests : r # work[w].run => run'[r] = run[r]
    BY <1>1, <1>10, RecordType DEF RecordFailure, Statuses, Final
  <2>. QED
    BY <1>1, <1>2, <1>10, <2>1, <2>2
       DEF After, Effect, Active, RecordFailure, Final
<1>11. CASE FailureUnrecorded(w)
  <2>1. After(w, "retrying")  BY <1>11, GotoFacts DEF FailureUnrecorded
  <2>. QED
    BY <1>1, <1>2, <1>11, <2>1 DEF After, Effect, Active, FailureUnrecorded
<1>12. CASE Retry(w)
  <2>1. After(w, "hook")  BY <1>12, GotoFacts DEF Retry
  <2>. QED  BY <1>1, <1>2, <1>12, <2>1 DEF After, Effect, Active, Retry
<1>13. CASE RetryFails(w)
  <2>1. After(w, "acking")  BY <1>13, GotoFacts DEF RetryFails
  <2>. QED
    BY <1>1, <1>2, <1>13, <2>1 DEF After, Effect, Active, RetryFails, Drop
<1>14. CASE GiveUp(w)
  <2>1. After(w, "acking")  BY <1>14, GotoFacts DEF GiveUp
  <2>. QED
    BY <1>1, <1>2, <1>14, <2>1 DEF After, Effect, Active, GiveUp, Drop
<1>15. CASE Hook(w)
  <2>1. After(w, "acking")  BY <1>15, GotoFacts DEF Hook
  <2>2. /\ run'[work[w].run] = "enqueued"
        /\ \A r \in Requests : r # work[w].run => run'[r] = run[r]
    BY <1>1, <1>15, RecordType DEF Hook, Statuses
  <2>. QED
    BY <1>1, <1>2, <1>15, <2>1, <2>2 DEF After, Effect, Active, Hook
<1>16. CASE HookFails(w)
  <2>1. After(w, "acking")  BY <1>16, GotoFacts DEF HookFails
  <2>. QED  BY <1>1, <1>2, <1>16, <2>1 DEF After, Effect, Active, HookFails
<1>17. CASE Ack(w)
  <2>1. /\ work'[w].pc = "idle"
        /\ \A v \in Workers \ {w} : work'[v] = work[v]
    BY <1>17, EndFacts DEF Ack
  <2>. QED  BY <1>1, <1>2, <1>17, <2>1 DEF Effect, Active, Ack
<1>. QED
  BY <1>3, <1>4, <1>5, <1>6, <1>7, <1>8, <1>9, <1>10, <1>11, <1>12, <1>13,
     <1>14, <1>15, <1>16, <1>17 DEF Proceed

\* What a second delivery does.
Doubled(w) ==
    /\ work[w].pc # "idle" /\ work[w].run \in Requests
    /\ UNCHANGED <<run, web>>
    /\ \A v \in Workers \ {w} : work'[v] = work[v]
    /\ work'[w].pc = "idle" \/ work'[w] = work[w]
    /\ queue' = queue \cup {Message(w)}
    /\ repeated' = repeated \cup {work[w].run}

LEMMA DisturbEffect ==
    ASSUME TypeOK, NEW w \in Workers, Disturb(w)
    PROVE  Effect(w) \/ Doubled(w)
<1>1. work[w].pc # "idle"
  BY DEF Disturb, RedisFails, WorkerLost, HardKill, Redeliver, Lapse
<1>2. work[w].run \in Requests  BY <1>1, BusyWorker DEF Executions
<1>. USE DEF Labels, web, history
<1>3. CASE RedisFails(w)
  <2>1. After(w, "refused")  BY <1>3, GotoFacts DEF RedisFails
  <2>. QED  BY <1>1, <1>2, <1>3, <2>1 DEF After, Effect, Active, RedisFails
<1>4. CASE HardKill(w)
  <2>1. /\ work'[w].pc = "idle"
        /\ \A v \in Workers \ {w} : work'[v] = work[v]
    BY <1>4, EndFacts DEF HardKill, Die
  <2>. QED  BY <1>1, <1>2, <1>4, <2>1 DEF Effect, Active, HardKill, Drop
<1>5. CASE Lapse(w)
  BY <1>1, <1>2, <1>5, LapseFacts DEF After, Effect, Active, Lapse
<1>6. CASE WorkerLost(w)
  <2>1. /\ work'[w].pc = "idle"
        /\ \A v \in Workers \ {w} : work'[v] = work[v]
    BY <1>6, EndFacts DEF WorkerLost, Die
  <2>. QED  BY <1>1, <1>2, <1>6, <2>1 DEF Doubled, WorkerLost
<1>7. CASE Redeliver(w)  BY <1>1, <1>2, <1>7 DEF Doubled, Redeliver
<1>. QED  BY <1>3, <1>4, <1>5, <1>6, <1>7 DEF Disturb

LEMMA EffectRuns ==
    ASSUME RunInv, NEW w \in Workers, Effect(w) \/ Doubled(w)
    PROVE  RunInv'
<1>1. /\ work[w].pc # "idle" /\ work[w].run \in Requests
      /\ UNCHANGED <<pc, sent>>
  BY DEF Effect, Doubled, web
<1>2. work[w].run \in sent  BY <1>1 DEF RunInv
<1>3. ASSUME NEW m \in queue'  PROVE m[1] \in sent
  <2>1. m \in queue \/ m = Again(w) \/ m = Message(w)
    BY <1>3 DEF Effect, Doubled
  <2>. QED  BY <1>2, <2>1 DEF RunInv, Again, Message
<1>4. ASSUME NEW v \in Workers, work'[v].pc # "idle"
      PROVE  work'[v].run \in sent
  BY <1>2, <1>4 DEF RunInv, Effect, Doubled
<1>5. ASSUME NEW q \in Requests, q \notin sent  PROVE run'[q] = run[q]
  BY <1>2, <1>5 DEF Effect, Doubled
<1>6. ASSUME NEW q \in Requests, q \in sent  PROVE run'[q] # "none"
  <2>1. run[q] # "none"  BY <1>6 DEF RunInv
  <2>. QED  BY <2>1 DEF Effect, Doubled, Final
<1>7. ASSUME NEW q \in Requests, pc[q] = "stored"  PROVE q \notin sent
  BY <1>7 DEF RunInv
<1>. QED  BY <1>1, <1>3, <1>4, <1>5, <1>6, <1>7 DEF RunInv

LEMMA RequestRuns ==
    ASSUME TypeOK, RunInv, NEW q \in Requests, Request(q)
    PROVE  RunInv'
<1>1. CASE Conflict(q) \/ RateLimited(q) \/ Repeat(q) \/ Admit(q) \/ Note(q)
  BY <1>1 DEF Conflict, RateLimited, Repeat, Admit, Note, Answer, TypeOK,
              RunInv
<1>2. CASE Store(q)  BY <1>2 DEF Store, TypeOK, RunInv
<1>3. CASE Send(q)  BY <1>3 DEF Send, Publish, TypeOK, RunInv
<1>4. CASE SendFails(q)  BY <1>4 DEF SendFails, Publish, TypeOK, RunInv
<1>5. CASE CrashRequest(q)  BY <1>5 DEF CrashRequest, TypeOK, RunInv
<1>6. CASE Age(q)  BY <1>6 DEF Age, RunInv
<1>. QED  BY <1>1, <1>2, <1>3, <1>4, <1>5, <1>6 DEF Request

LEMMA RunStep ==
    ASSUME TypeOK, RunInv, [Next]_vars
    PROVE  RunInv'
<1>1. CASE \E q \in Requests : Request(q)  BY <1>1, RequestRuns
<1>2. CASE \E w \in Workers : Proceed(w) \/ Disturb(w)
  BY <1>2, ProceedEffect, DisturbEffect, EffectRuns
<1>3. ASSUME NEW w \in Workers, NEW m \in queue, Take(w, m)
      PROVE  RunInv'
  <2>1. /\ work'[w].run = m[1]
        /\ \A v \in Workers \ {w} : work'[v] = work[v]
    BY <1>3, TakeFacts
  <2>2. UNCHANGED <<run, pc, sent>> /\ queue' \subseteq queue
    BY <1>3 DEF Take, web
  <2>. QED  BY <2>1, <2>2 DEF RunInv
<1>4. CASE ExpireKey  BY <1>4 DEF ExpireKey, web, RunInv
<1>5. CASE UNCHANGED vars  BY <1>5 DEF vars, RunInv
<1>. QED  BY <1>1, <1>2, <1>3, <1>4, <1>5 DEF Next

LEMMA InitRuns ==
    ASSUME Init PROVE RunInv
BY DEF Init, RunInv, Idle

\* A request whose task was published is not done twice.
THEOREM Idempotence == Spec => RepeatStartsNothing
<1>1. Init => TypeOK /\ RunInv  BY InitType, InitRuns
<1>2. TypeOK /\ RunInv /\ [Next]_vars => TypeOK' /\ RunInv'
  BY TypeStep, RunStep
<1>3. TypeOK /\ RunInv /\ [Next]_vars =>
        [\A p, q \in Requests :
           /\ p \in sent
           /\ \/ KeyOf[p] = KeyOf[q] /\ age[p] < 2
              \/ {p, q} \subseteq Limited /\ age[p] = 0
           => ~(pc[q] = "idle" /\ pc'[q] = "storing")]_vars
  <2>. SUFFICES ASSUME TypeOK, RunInv, Next,
                       NEW p \in Requests, NEW q \in Requests, p \in sent,
                       \/ KeyOf[p] = KeyOf[q] /\ age[p] < 2
                       \/ {p, q} \subseteq Limited /\ age[p] = 0,
                       pc[q] = "idle", pc'[q] = "storing"
                PROVE  FALSE
    OBVIOUS
  <2>1. PICK x \in Requests : Request(x)
    <3>1. pc' # pc  OBVIOUS
    <3>2. ASSUME NEW w \in Workers, Proceed(w) \/ Disturb(w)  PROVE pc' = pc
      BY <3>2, ProceedEffect, DisturbEffect DEF Effect, Doubled, web
    <3>3. ASSUME NEW w \in Workers, NEW m \in queue, Take(w, m)
          PROVE  pc' = pc
      BY <3>3 DEF Take, web
    <3>4. ExpireKey => pc' = pc  BY DEF ExpireKey, web
    <3>. QED  BY <3>1, <3>2, <3>3, <3>4 DEF Next
  <2>2. x = q /\ Admit(q)
    BY <2>1 DEF Request, Conflict, RateLimited, Repeat, Admit, Answer, Store,
                Send, SendFails, Publish, Note, CrashRequest, Age, TypeOK
  <2>3. run[p] # "none"  BY DEF RunInv
  <2>4. p \in Existing(q) \/ TooSoon(q)  BY <2>3 DEF Existing, TooSoon
  <2>. QED  BY <2>2, <2>4 DEF Admit
<1>. QED  BY <1>1, <1>2, <1>3, PTL DEF Spec, RepeatStartsNothing

LEMMA EffectCopies ==
    ASSUME CopyInv, NEW w \in Workers, Effect(w)
    PROVE  CopyInv'
<1>. SUFFICES ASSUME NEW r \in Requests \ repeated
              PROVE  /\ \A m, n \in queue' : m[1] = r /\ n[1] = r => m = n
                     /\ \A u \in Workers : Active(u)' /\ work'[u].run = r =>
                           /\ \A m \in queue' : m[1] # r
                           /\ \A v \in Workers :
                                 Active(v)' /\ work'[v].run = r => v = u
                     /\ run'[r] = "success" =>
                           /\ \A m \in queue' : m[1] # r
                           /\ \A u \in Workers : Active(u)' => work'[u].run # r
  BY DEF Effect, CopyInv
<1>1. ASSUME NEW u \in Workers, Active(u)'
      PROVE  /\ Active(u) /\ work'[u].run = work[u].run
             /\ u = w => queue' = queue
  BY <1>1 DEF Effect, Active
<1>2. CASE work[w].run # r
  <2>1. \A m \in queue' : m[1] = r => m \in queue
    BY <1>2 DEF Effect, Again
  <2>2. run'[r] = run[r]  BY <1>2 DEF Effect
  <2>. QED  BY <1>1, <2>1, <2>2 DEF CopyInv
<1>3. CASE work[w].run = r /\ ~Active(w)
  <2>1. queue' = queue /\ (run'[r] = "success" => run[r] = "success")
    BY <1>3 DEF Effect
  <2>. QED  BY <1>1, <2>1 DEF CopyInv
<1>4. CASE work[w].run = r /\ Active(w)
  <2>1. /\ \A m \in queue : m[1] # r
        /\ \A v \in Workers : Active(v) /\ work[v].run = r => v = w
        /\ run[r] # "success"
    BY <1>4 DEF CopyInv
  <2>2. \A u \in Workers : Active(u)' /\ work'[u].run = r => u = w
    BY <1>1, <2>1
  <2>3. CASE Active(w)'
    <3>1. queue' = queue /\ run'[r] # "success"
      BY <1>1, <1>4, <2>1, <2>3 DEF Effect, Active
    <3>. QED  BY <2>1, <2>2, <3>1
  <2>4. CASE ~Active(w)'
    <3>1. \A u \in Workers : Active(u)' => work'[u].run # r
      BY <2>2, <2>4
    <3>2. CASE queue' = queue  BY <2>1, <3>1, <3>2
    <3>3. CASE queue' = queue \cup {Again(w)} /\ run' = run
      <4>1. \A m \in queue' : m[1] = r => m = Again(w)  BY <2>1, <3>3
      <4>. QED  BY <2>1, <3>1, <3>3, <4>1
    <3>. QED  BY <3>2, <3>3 DEF Effect
  <2>. QED  BY <2>3, <2>4
<1>. QED  BY <1>2, <1>3, <1>4

LEMMA DoubledCopies ==
    ASSUME CopyInv, NEW w \in Workers, Doubled(w)
    PROVE  CopyInv'
<1>1. ASSUME NEW u \in Workers, Active(u)'
      PROVE  Active(u) /\ work'[u].run = work[u].run
  BY <1>1 DEF Doubled, Active
<1>2. ASSUME NEW r \in Requests \ repeated'
      PROVE  /\ r \notin repeated /\ run'[r] = run[r]
             /\ \A m \in queue' : m[1] = r => m \in queue
  BY <1>2 DEF Doubled, Message
<1>. QED  BY <1>1, <1>2 DEF CopyInv

LEMMA RequestCopies ==
    ASSUME TypeOK, RunInv, CopyInv, NEW q \in Requests, Request(q)
    PROVE  CopyInv'
<1>1. UNCHANGED <<work, repeated>>
  BY DEF Request, Conflict, RateLimited, Repeat, Admit, Answer, Store, Send,
         SendFails, Publish, Note, CrashRequest, Age, history
<1>2. CASE queue' = queue /\ run' = run  BY <1>1, <1>2 DEF CopyInv, Active
<1>3. CASE Store(q)
  <2>1. queue' = queue /\ \A r \in Requests : run'[r] \in {run[r], "enqueued"}
    BY <1>3 DEF Store, TypeOK
  <2>. QED  BY <1>1, <2>1 DEF CopyInv, Active
<1>4. CASE pc[q] = "stored" /\ queue' = queue \cup {<<q, 0>>} /\ run' = run
  <2>1. /\ q \notin sent /\ run[q] # "success"
        /\ \A m \in queue : m[1] # q
        /\ \A w \in Workers : Active(w) => work[w].run # q
    BY <1>4 DEF RunInv, Active
  <2>. QED  BY <1>1, <1>4, <2>1 DEF CopyInv, Active
<1>. QED
  BY <1>2, <1>3, <1>4
     DEF Request, Conflict, RateLimited, Repeat, Admit, Answer, Send,
         SendFails, Publish, Note, CrashRequest, Age

LEMMA CopyStep ==
    ASSUME TypeOK, RunInv, CopyInv, [Next]_vars
    PROVE  CopyInv'
<1>1. CASE \E q \in Requests : Request(q)  BY <1>1, RequestCopies
<1>2. CASE \E w \in Workers : Proceed(w) \/ Disturb(w)
  BY <1>2, ProceedEffect, DisturbEffect, EffectCopies, DoubledCopies
<1>3. ASSUME NEW w \in Workers, NEW x \in queue, Take(w, x)
      PROVE  CopyInv'
  <2>1. /\ work'[w].pc = "started" /\ work'[w].run = x[1]
        /\ \A v \in Workers \ {w} : work'[v] = work[v]
        /\ UNCHANGED <<run, repeated>> /\ queue' = queue \ {x}
    BY <1>3, TakeFacts DEF Take, history
  <2>. SUFFICES ASSUME NEW r \in Requests \ repeated
                PROVE  /\ \A m, n \in queue' : m[1] = r /\ n[1] = r => m = n
                       /\ \A u \in Workers : Active(u)' /\ work'[u].run = r =>
                             /\ \A m \in queue' : m[1] # r
                             /\ \A v \in Workers :
                                   Active(v)' /\ work'[v].run = r => v = u
                       /\ run'[r] = "success" =>
                             /\ \A m \in queue' : m[1] # r
                             /\ \A u \in Workers :
                                   Active(u)' => work'[u].run # r
    BY <2>1 DEF CopyInv
  <2>2. \A u \in Workers \ {w} : Active(u)' => Active(u)
    BY <2>1 DEF Active
  <2>3. CASE x[1] # r  BY <2>1, <2>2, <2>3 DEF CopyInv
  <2>4. CASE x[1] = r
    <3>1. /\ run[r] # "success" /\ \A m \in queue' : m[1] # r
          /\ \A u \in Workers : Active(u) => work[u].run # r
      BY <2>1, <2>4 DEF CopyInv
    <3>. QED  BY <2>1, <2>2, <3>1
  <2>. QED  BY <2>3, <2>4
<1>4. CASE ExpireKey  BY <1>4 DEF ExpireKey, web, history, CopyInv, Active
<1>5. CASE UNCHANGED vars  BY <1>5 DEF vars, history, CopyInv, Active
<1>. QED  BY <1>1, <1>2, <1>3, <1>4, <1>5 DEF Next

\* What a finished sync has reported stands.
THEOREM ReportsStand == Spec => OutcomeStands
<1>1. Init => TypeOK /\ RunInv /\ CopyInv
  BY InitType, InitRuns DEF Init, CopyInv, Active, Idle
<1>2. TypeOK /\ RunInv /\ CopyInv /\ [Next]_vars =>
        TypeOK' /\ RunInv' /\ CopyInv'
  BY TypeStep, RunStep, CopyStep
<1>3. TypeOK /\ RunInv /\ CopyInv /\ [Next]_vars =>
        [\A r \in Requests :
           /\ run[r] = "success" /\ r \notin repeated
           /\ ~\E w \in Workers : work[w].pc = "hook" /\ work[w].run = r
           => run'[r] = run[r]]_vars
  <2>. SUFFICES ASSUME TypeOK, RunInv, CopyInv, Next, NEW r \in Requests,
                       run[r] = "success", r \notin repeated,
                       \A w \in Workers :
                          work[w].pc = "hook" => work[w].run # r
                PROVE  run'[r] = run[r]
    OBVIOUS
  <2>1. ASSUME NEW q \in Requests, Request(q)  PROVE run'[r] = run[r]
    <3>1. run' = run \/ Store(q)
      BY <2>1 DEF Request, Conflict, RateLimited, Repeat, Admit, Answer, Send,
                  SendFails, Publish, Note, CrashRequest, Age
    <3>2. Store(q) => run[q] = "none"  BY DEF Store, RunInv
    <3>. QED  BY <3>1, <3>2 DEF Store, TypeOK
  <2>2. ASSUME NEW w \in Workers, Proceed(w) \/ Disturb(w)
        PROVE  run'[r] = run[r]
    <3>1. Effect(w) \/ Doubled(w)  BY <2>2, ProceedEffect, DisturbEffect
    <3>2. Active(w) => work[w].run # r  BY DEF CopyInv
    <3>. QED  BY <3>1, <3>2 DEF Effect, Doubled
  <2>3. ASSUME NEW w \in Workers, NEW m \in queue, Take(w, m)
        PROVE  run' = run
    BY <2>3 DEF Take
  <2>4. ExpireKey => run' = run  BY DEF ExpireKey
  <2>. QED  BY <2>1, <2>2, <2>3, <2>4 DEF Next
<1>. QED  BY <1>1, <1>2, <1>3, PTL DEF Spec, OutcomeStands

------------------------------------------------------------------------------
(***************************************************************************)
(* Nothing falls silent                                                    *)
(***************************************************************************)

\* Worker w will write an answer if it comes to that: the session writes no
\* status that it believes the row to have.
WillWrite(w) == Active(w) /\ (work[w].read \notin Final \/ work[w].flushed)

\* Run r is in the hands of the queue or of a worker that will write.
Attended(r) ==
    \/ \E m \in queue : m[1] = r
    \/ \E w \in Workers : work[w].run = r /\ WillWrite(w)

Answered(r) == run[r] \in Final \/ r \in lost \/ Attended(r)

AnswerInv == \A r \in sent : Answered(r)

\* A step of a worker that would write hands its run on, answers it, gives it
\* up or keeps it.
HandsOn(w) ==
    LET r == work[w].run
    IN \/ run'[r] \in Final \/ r \in lost'
       \/ \E m \in queue' : m[1] = r
       \/ work'[w].run = r /\ WillWrite(w)'

\* A worker's step takes nothing from the queue and no other run's answer, and
\* its own run's only if it is lost or comes again.
Careful(w) ==
    /\ queue \subseteq queue' /\ lost \subseteq lost'
    /\ \A r \in Requests : r # work[w].run => run'[r] = run[r]
    /\ run'[work[w].run] \notin Final =>
          \/ run'[work[w].run] = run[work[w].run]
          \/ work[w].run \in lost' \/ \E m \in queue' : m[1] = work[w].run
    /\ \A v \in Workers \ {w} : work'[v] = work[v]

LEMMA ProceedHandsOn ==
    ASSUME TypeOK, NEW w \in Workers, Proceed(w)
    PROVE  /\ Careful(w)
           /\ WillWrite(w) => HandsOn(w)
<1>1. Effect(w)  BY ProceedEffect
<1>2. /\ work[w].pc # "idle" /\ work[w].run \in Requests
      /\ work[w] \in Executions
  BY <1>1, BusyWorker DEF Effect
<1>. USE DEF Labels, history, Drop, Again
<1>3. CASE Acquire(w)
  <2>1. After(w, "syncing") /\ work'[w].read = work[w].read
        /\ work'[w].flushed = work[w].flushed
    BY <1>2, <1>3, GotoFacts DEF Acquire, Goto, TypeOK, Executions
  <2>. QED
    BY <1>2, <1>3, <2>1 DEF After, Careful, HandsOn, WillWrite, Active, Acquire
<1>4. CASE Refused(w)
  <2>1. After(w, "refused") /\ work'[w].read = work[w].read
        /\ work'[w].flushed = work[w].flushed
    BY <1>2, <1>4, GotoFacts DEF Refused, Goto, TypeOK, Executions
  <2>. QED
    BY <1>2, <1>4, <2>1 DEF After, Careful, HandsOn, WillWrite, Active, Refused
<1>5. CASE Flush(w)
  <2>1. After(w, "syncing") /\ work'[w].flushed
    BY <1>2, <1>5, FlushFacts DEF Flush, TypeOK, Executions
  <2>. QED
    BY <1>2, <1>5, <2>1 DEF After, Careful, HandsOn, WillWrite, Active, Flush
<1>6. CASE EndSync(w)
  <2>1. After(w, "commit") /\ work'[w].read = work[w].read
        /\ work'[w].flushed = work[w].flushed
    BY <1>2, <1>6, EndSyncFacts DEF EndSync, TypeOK, Executions
  <2>. QED
    BY <1>2, <1>6, <2>1 DEF After, Careful, HandsOn, WillWrite, Active, EndSync
<1>7. CASE Raise(w)
  <2>1. After(w, "raising") /\ work'[w].read = "none"
    BY <1>2, <1>7, LeaveFacts DEF Raise, Leave, TypeOK, Executions
  <2>. QED
    BY <1>2, <1>7, <2>1
       DEF After, Careful, HandsOn, WillWrite, Active, Raise, Final
<1>8. CASE FailureUnrecorded(w)
  <2>1. After(w, "retrying") /\ work'[w].read = work[w].read
        /\ work'[w].flushed = work[w].flushed
    BY <1>2, <1>8, GotoFacts DEF FailureUnrecorded, Goto, TypeOK, Executions
  <2>. QED
    BY <1>2, <1>8, <2>1
       DEF After, Careful, HandsOn, WillWrite, Active, FailureUnrecorded
<1>9. CASE Report(w)
  <2>1. After(w, "acking")  BY <1>2, <1>9, LeaveFacts DEF Report
  <2>2. /\ run'[work[w].run] = Written(w, "failed")
        /\ \A r \in Requests : r # work[w].run => run'[r] = run[r]
    BY <1>2, <1>9, WrittenType, RecordType DEF Report, Statuses, Final
  <2>3. /\ Written(w, "failed") \in {"failed", run[work[w].run]}
        /\ WillWrite(w) => Written(w, "failed") = "failed"
    BY DEF Written, WillWrite, Final
  <2>. QED
    BY <1>2, <1>9, <2>1, <2>2, <2>3 DEF After, Careful, HandsOn, Report, Final
<1>10. CASE Commit(w)
  <2>1. After(w, "acking")  BY <1>2, <1>10, LeaveFacts DEF Commit
  <2>2. /\ run'[work[w].run] = Written(w, "success")
        /\ \A r \in Requests : r # work[w].run => run'[r] = run[r]
    BY <1>2, <1>10, WrittenType, RecordType DEF Commit, Statuses, Final
  <2>3. /\ Written(w, "success") \in {"success", run[work[w].run]}
        /\ WillWrite(w) => Written(w, "success") = "success"
    BY DEF Written, WillWrite, Final
  <2>. QED
    BY <1>2, <1>10, <2>1, <2>2, <2>3 DEF After, Careful, HandsOn, Commit, Final
<1>11. CASE RecordFailure(w)
  <2>1. After(w, "retrying")  BY <1>2, <1>11, GotoFacts DEF RecordFailure
  <2>2. /\ run'[work[w].run] = "failed"
        /\ \A r \in Requests : r # work[w].run => run'[r] = run[r]
    BY <1>2, <1>11, RecordType DEF RecordFailure, Statuses, Final
  <2>. QED
    BY <1>2, <1>11, <2>1, <2>2
       DEF After, Careful, HandsOn, RecordFailure, Final
<1>12. CASE Retry(w)
  <2>1. After(w, "hook")  BY <1>2, <1>12, GotoFacts DEF Retry
  <2>2. Again(w) \in queue' /\ Again(w)[1] = work[w].run
    BY <1>12 DEF Retry
  <2>. QED  BY <1>2, <1>12, <2>1, <2>2 DEF After, Careful, HandsOn, Retry
<1>13. CASE RetryFails(w)
  <2>1. After(w, "acking")  BY <1>2, <1>13, GotoFacts DEF RetryFails
  <2>2. run[work[w].run] \in Final \/ work[w].run \in lost'
    BY <1>13 DEF RetryFails
  <2>. QED
    BY <1>2, <1>13, <2>1, <2>2 DEF After, Careful, HandsOn, RetryFails
<1>14. CASE GiveUp(w)
  <2>1. After(w, "acking")  BY <1>2, <1>14, GotoFacts DEF GiveUp
  <2>2. run[work[w].run] \in Final \/ work[w].run \in lost'
    BY <1>14 DEF GiveUp
  <2>. QED  BY <1>2, <1>14, <2>1, <2>2 DEF After, Careful, HandsOn, GiveUp
<1>15. CASE Hook(w)
  <2>1. After(w, "acking")  BY <1>2, <1>15, GotoFacts DEF Hook
  <2>2. \A r \in Requests : r # work[w].run => run'[r] = run[r]
    BY <1>2, <1>15, RecordType DEF Hook, Statuses
  <2>3. work[w].run \in lost' \/ \E m \in queue' : m[1] = work[w].run
    BY <1>15 DEF Hook
  <2>. QED
    BY <1>2, <1>15, <2>1, <2>2, <2>3
       DEF After, Careful, HandsOn, Hook
<1>16. CASE HookFails(w)
  <2>1. After(w, "acking")  BY <1>2, <1>16, GotoFacts DEF HookFails
  <2>. QED
    BY <1>2, <1>16, <2>1
       DEF After, Careful, HookFails, WillWrite, Active
<1>17. CASE Ack(w)
  <2>1. \A v \in Workers \ {w} : work'[v] = work[v]
    BY <1>17, EndFacts DEF Ack
  <2>. QED  BY <1>2, <1>17, <2>1 DEF Careful, Ack, WillWrite, Active
<1>. QED
  BY <1>3, <1>4, <1>5, <1>6, <1>7, <1>8, <1>9, <1>10, <1>11, <1>12, <1>13,
     <1>14, <1>15, <1>16, <1>17 DEF Proceed

LEMMA DisturbHandsOn ==
    ASSUME TypeOK, NEW w \in Workers, Disturb(w)
    PROVE  /\ Careful(w)
           /\ WillWrite(w) => HandsOn(w)
<1>1. work[w].pc # "idle"
  BY DEF Disturb, RedisFails, WorkerLost, HardKill, Redeliver, Lapse
<1>2. work[w].run \in Requests /\ work[w] \in Executions
  BY <1>1, BusyWorker DEF Executions
<1>. USE DEF Labels, history, Drop, Message
<1>3. CASE RedisFails(w)
  <2>1. After(w, "refused") /\ work'[w].read = work[w].read
        /\ work'[w].flushed = work[w].flushed
    BY <1>1, <1>2, <1>3, GotoFacts DEF RedisFails, Goto, TypeOK, Executions
  <2>. QED
    BY <1>2, <1>3, <2>1
       DEF After, Careful, HandsOn, WillWrite, Active, RedisFails
<1>4. CASE HardKill(w)
  <2>1. \A v \in Workers \ {w} : work'[v] = work[v]
    BY <1>4, EndFacts DEF HardKill, Die
  <2>2. run[work[w].run] \in Final \/ work[w].run \in lost'
    BY <1>4 DEF HardKill
  <2>. QED  BY <1>2, <1>4, <2>1, <2>2 DEF Careful, HandsOn, HardKill
<1>5. CASE Lapse(w)
  <2>1. After(w, "syncing") /\ work'[w].read = work[w].read
        /\ work'[w].flushed = work[w].flushed
    BY <1>2, <1>5, LapseFacts DEF Lapse, TypeOK, Executions
  <2>. QED
    BY <1>2, <1>5, <2>1 DEF After, Careful, HandsOn, WillWrite, Active, Lapse
<1>6. CASE WorkerLost(w) \/ Redeliver(w)
  <2>1. \A v \in Workers \ {w} : work'[v] = work[v]
    BY <1>6, EndFacts DEF WorkerLost, Die, Redeliver
  <2>2. Message(w) \in queue' /\ Message(w)[1] = work[w].run
    BY <1>6 DEF WorkerLost, Redeliver
  <2>. QED
    BY <1>2, <1>6, <2>1, <2>2 DEF Careful, HandsOn, WorkerLost, Redeliver
<1>. QED  BY <1>3, <1>4, <1>5, <1>6 DEF Disturb

LEMMA WorkerAnswers ==
    ASSUME TypeOK, RunInv, AnswerInv, NEW w \in Workers,
           Proceed(w) \/ Disturb(w)
    PROVE  AnswerInv'
<1>1. /\ Careful(w)
      /\ WillWrite(w) => HandsOn(w)
      /\ sent' = sent /\ work[w].run \in Requests
  BY ProceedHandsOn, DisturbHandsOn, ProceedEffect, DisturbEffect
     DEF Effect, Doubled, web
<1>. SUFFICES ASSUME NEW r \in sent, Answered(r)  PROVE Answered(r)'
  BY <1>1 DEF AnswerInv
<1>2. CASE run[r] \in Final
  <2>1. r \in Requests  BY DEF TypeOK
  <2>. QED  BY <1>1, <1>2, <2>1 DEF Careful, Answered, Attended
<1>3. CASE r \in lost  BY <1>1, <1>3 DEF Careful, Answered
<1>4. CASE \E m \in queue : m[1] = r
  BY <1>1, <1>4 DEF Careful, Answered, Attended
<1>5. ASSUME NEW v \in Workers, work[v].run = r, WillWrite(v)
      PROVE  Answered(r)'
  <2>1. CASE v = w
    BY <1>1, <1>5, <2>1 DEF HandsOn, Answered, Attended
  <2>2. CASE v # w
    <3>1. work'[v] = work[v]  BY <1>1, <2>2 DEF Careful
    <3>. QED  BY <1>5, <3>1 DEF Answered, Attended, WillWrite, Active
  <2>. QED  BY <2>1, <2>2
<1>. QED  BY <1>2, <1>3, <1>4, <1>5 DEF Answered, Attended

LEMMA RequestAnswers ==
    ASSUME TypeOK, RunInv, AnswerInv, NEW q \in Requests, Request(q)
    PROVE  AnswerInv'
<1>1. /\ UNCHANGED <<work, lost>> /\ queue \subseteq queue'
      /\ sent' = sent \/ (sent' = sent \cup {q} /\ <<q, 0>> \in queue')
  BY DEF Request, Conflict, RateLimited, Repeat, Admit, Answer, Store, Send,
         SendFails, Publish, Note, CrashRequest, Age, history
<1>2. \A r \in sent : run'[r] = run[r]
  <2>1. CASE Store(q)
    <3>1. q \notin sent  BY <2>1 DEF Store, RunInv
    <3>. QED  BY <2>1, <3>1 DEF Store, TypeOK
  <2>2. CASE ~Store(q)
    BY <2>2 DEF Request, Conflict, RateLimited, Repeat, Admit, Answer, Send,
                SendFails, Publish, Note, CrashRequest, Age
  <2>. QED  BY <2>1, <2>2
<1>3. ASSUME NEW r \in sent  PROVE Answered(r)'
  <2>1. Answered(r)  BY <1>3 DEF AnswerInv
  <2>. QED
    BY <1>1, <1>2, <2>1 DEF Answered, Attended, WillWrite, Active
<1>4. ASSUME <<q, 0>> \in queue'  PROVE Answered(q)'
  BY <1>4 DEF Answered, Attended
<1>. QED  BY <1>1, <1>3, <1>4 DEF AnswerInv

LEMMA AnswerStep ==
    ASSUME TypeOK, RunInv, AnswerInv, [Next]_vars
    PROVE  AnswerInv'
<1>1. CASE \E q \in Requests : Request(q)  BY <1>1, RequestAnswers
<1>2. CASE \E w \in Workers : Proceed(w) \/ Disturb(w)
  BY <1>2, WorkerAnswers
<1>3. ASSUME NEW w \in Workers, NEW x \in queue, Take(w, x)
      PROVE  AnswerInv'
  <2>1. /\ work'[w].pc = "started" /\ work'[w].run = x[1]
        /\ \A v \in Workers \ {w} : work'[v] = work[v]
        /\ UNCHANGED <<run, sent, lost>> /\ queue' = queue \ {x}
        /\ work[w].pc = "idle"
    BY <1>3, TakeFacts DEF Take, web, history
  <2>2. work'[w].read = run[x[1]]
    BY <1>3 DEF Take, TypeOK
  <2>. SUFFICES ASSUME NEW r \in sent, Answered(r)  PROVE Answered(r)'
    BY <2>1 DEF AnswerInv
  <2>3. CASE x[1] = r
    BY <2>1, <2>2, <2>3 DEF Answered, Attended, WillWrite, Active
  <2>4. CASE x[1] # r
    BY <2>1, <2>4 DEF Answered, Attended, WillWrite, Active
  <2>. QED  BY <2>3, <2>4
<1>4. CASE ExpireKey
  BY <1>4 DEF ExpireKey, web, history, AnswerInv, Answered, Attended,
              WillWrite, Active
<1>5. CASE UNCHANGED vars
  BY <1>5 DEF vars, web, history, AnswerInv, Answered, Attended, WillWrite,
              Active
<1>. QED  BY <1>1, <1>2, <1>3, <1>4, <1>5 DEF Next

\* No run whose message was accepted falls silent.
THEOREM EveryRunIsInHand == Spec => []NoRunFallsSilent
<1>1. Init => TypeOK /\ RunInv /\ AnswerInv
  BY InitType, InitRuns DEF Init, AnswerInv
<1>2. TypeOK /\ RunInv /\ AnswerInv /\ [Next]_vars =>
        TypeOK' /\ RunInv' /\ AnswerInv'
  BY TypeStep, RunStep, AnswerStep
<1>3. AnswerInv => NoRunFallsSilent
  BY DEF AnswerInv, Answered, Attended, WillWrite, Active, NoRunFallsSilent,
         InHand
<1>. QED  BY <1>1, <1>2, <1>3, PTL DEF Spec

=============================================================================
