------------------------- MODULE PauseIntentProofs -------------------------
(***************************************************************************)
(* Proofs about PauseIntent for every set of operators, workers, Guards,   *)
(* syncs and rows and any number of crashes.                               *)
(***************************************************************************)
EXTENDS PauseIntent, TLAPS

USE ExecsDisjoint, KindOfOperators, CrashBound DEF Execs, catalogue, Row

Inside == {"body", "remote", "answered"}

\* Who is inside the lease owns it.
InsideOwns ==
    /\ \A e \in Execs : pc[e] \in Inside => holder = e
    /\ \A s \in Syncs : sync[s] # "idle" => holder = s

\* A Guard calls only if it saw no hold, and what it saw is still good for
\* executed pauses: nobody executes one without the lease.
GuardSaw ==
    \A g \in Guards :
        /\ pc[g] \in {"remote", "answered"} => ~Held(seen[g])
        /\ pc[g] \in Inside /\ ~Held(seen[g]) => ~Executed(override)

\* A row that somebody has seen is not deleted.
RowsStay == \A e \in Execs : seen[e] # NoRow => override # NoRow

\* Observations are counted inside the lease only, so a pause that read no
\* count leaves none; what is counted of an executed pause without an enable
\* is the one wrong answer.
CountInv ==
    /\ \A e \in Execs : pc[e] \in Inside /\ seen[e].count = 0 => override.count = 0
    /\ Executed(override) =>
          /\ override.count \in {0, 1}
          /\ override.count = 1 => outside \/ wrong
    /\ \A s \in Syncs : sync[s] = "enabled" =>
          outside \/ (wrong /\ (Executed(override) => override.count = 0))

IInv == TypeOK /\ RowsStay /\ InsideOwns /\ GuardSaw /\ CountInv

------------------------------------------------------------------------------
(***************************************************************************)
(* Rows                                                                    *)
(***************************************************************************)

\* A row is a record with three fields.
LEMMA OverrideFields ==
    ASSUME NEW o \in Overrides
    PROVE  /\ o = [kind |-> o.kind, active |-> o.active, count |-> o.count]
           /\ o.active \in BOOLEAN /\ o.count \in 0..2
           /\ o # NoRow => o.kind \in {"PAUSE", "PENDING_PAUSE"}
<1>1. CASE o = NoRow
  BY <1>1 DEF NoRow, Override
<1>2. CASE o \in [kind : {"PAUSE", "PENDING_PAUSE"}, active : BOOLEAN, count : 0..2]
  BY <1>2
<1>3. QED BY <1>1, <1>2 DEF Overrides

\* A record of these fields is a row.
LEMMA OverrideIsRow ==
    ASSUME NEW k \in {"PAUSE", "PENDING_PAUSE"}, NEW a \in BOOLEAN, NEW n \in 0..2
    PROVE  /\ [kind |-> k, active |-> a, count |-> n] \in Overrides
           /\ [kind |-> k, active |-> a, count |-> n] # NoRow
           /\ Override(k, a) \in Overrides /\ Override(k, a) # NoRow
BY DEF Overrides, Override, NoRow

\* The rows of executed and of released pauses.
LEMMA PauseIsRow ==
    ASSUME NEW n \in 0..2
    PROVE  /\ Row("PAUSE", TRUE, n) \in Overrides /\ Row("PAUSE", TRUE, n) # NoRow
           /\ Row("PAUSE", FALSE, n) \in Overrides /\ Row("PAUSE", FALSE, n) # NoRow
<1>1. TRUE \in BOOLEAN /\ FALSE \in BOOLEAN /\ "PAUSE" \in {"PAUSE", "PENDING_PAUSE"}
  OBVIOUS
<1>2. QED BY <1>1, OverrideIsRow

\* A row that is no longer active.
LEMMA Deactivated ==
    ASSUME NEW o \in Overrides
    PROVE  /\ Inactive(o) \in Overrides
           /\ o # NoRow => Inactive(o) # NoRow
           /\ Inactive(o) = [kind |-> o.kind, active |-> FALSE, count |-> o.count]
<1>1. Inactive(o) = [kind |-> o.kind, active |-> FALSE, count |-> o.count]
  BY DEF Inactive
<1>2. CASE o = NoRow
  BY <1>1, <1>2 DEF Overrides, NoRow, Override
<1>3. CASE o # NoRow
  <2>1. o.kind \in {"PAUSE", "PENDING_PAUSE"} /\ o.count \in 0..2 /\ FALSE \in BOOLEAN
    BY <1>3, OverrideFields
  <2>2. QED BY <1>1, <2>1, OverrideIsRow
<1>4. QED BY <1>1, <1>2, <1>3

\* An enable changes nothing but the mark of a hold.
LEMMA EnableWrites ==
    ASSUME override \in Overrides, NEW e \in Execs, ~Pauses(e),
           seen[e] \in Overrides, seen[e] # NoRow
    PROVE  \E a \in BOOLEAN :
              /\ Written(e) = [kind |-> override.kind, active |-> a, count |-> override.count]
              /\ a => override.active
<1> DEFINE s == seen[e]
           a == IF FALSE # s.active THEN FALSE ELSE override.active
<1>1. Inactive(s) = [kind |-> s.kind, active |-> FALSE, count |-> s.count]
  BY Deactivated
<1>2. Written(e) = [kind |-> override.kind, active |-> a, count |-> override.count]
  BY <1>1 DEF Written, Flushed
<1>3. a \in BOOLEAN /\ (a => override.active)
  BY OverrideFields
<1>4. QED BY <1>2, <1>3

\* A commit writes a row, and keeps one that is there.
LEMMA WrittenIsRow ==
    ASSUME IInv, NEW e \in Execs, ~InsertFails(e)
    PROVE  /\ Written(e) \in Overrides
           /\ override # NoRow => Written(e) # NoRow
           /\ Pauses(e) => Written(e) # NoRow
<1> DEFINE s == seen[e]
<1>1. override \in Overrides /\ s \in Overrides /\ (s # NoRow => override # NoRow)
  BY DEF IInv, TypeOK, RowsStay
<1>2. CASE Pauses(e)
  <2>1. (override = NoRow) <=> (s = NoRow)
    BY <1>1, <1>2 DEF InsertFails
  <2>2. PICK k, a, n :
           /\ Written(e) = [kind |-> k, active |-> a, count |-> n]
           /\ k = (IF "PAUSE" # s.kind THEN "PAUSE" ELSE override.kind)
           /\ a = (IF TRUE # s.active THEN TRUE ELSE override.active)
           /\ n = (IF 0 # s.count THEN 0 ELSE override.count)
    BY <1>2 DEF Written, Flushed, Override
  <2>3. k \in {"PAUSE", "PENDING_PAUSE"} /\ a \in BOOLEAN /\ n \in 0..2
    <3>1. CASE s = NoRow
      <4>1. s.kind = "none" /\ s.active = FALSE /\ s.count = 0 /\ override.count = 0
        BY <2>1, <3>1 DEF NoRow, Override
      <4>2. k = "PAUSE" /\ n = 0
        BY <2>2, <4>1
      <4>3. a = TRUE
        BY <2>2, <4>1, Zenon
      <4>4. QED BY <4>2, <4>3
    <3>2. CASE s # NoRow
      <4>1. /\ s.kind \in {"PAUSE", "PENDING_PAUSE"} /\ s.active \in BOOLEAN /\ s.count \in 0..2
            /\ override.kind \in {"PAUSE", "PENDING_PAUSE"} /\ override.active \in BOOLEAN
            /\ override.count \in 0..2
        BY <1>1, <2>1, <3>2, OverrideFields
      <4>2. k \in {"PAUSE", "PENDING_PAUSE"} /\ n \in 0..2
        BY <2>2, <4>1
      <4>3. a \in BOOLEAN
        BY <2>2, <4>1, Zenon
      <4>4. QED BY <4>2, <4>3
    <3>3. QED BY <3>1, <3>2
  <2>4. QED BY <2>2, <2>3, OverrideIsRow
<1>3. CASE ~Pauses(e) /\ s = NoRow
  BY <1>1, <1>3 DEF Written
<1>4. CASE ~Pauses(e) /\ s # NoRow
  <2>1. PICK a \in BOOLEAN :
           Written(e) = [kind |-> override.kind, active |-> a, count |-> override.count]
    BY <1>1, <1>4, EnableWrites
  <2>2. override # NoRow /\ override.kind \in {"PAUSE", "PENDING_PAUSE"} /\ override.count \in 0..2
    BY <1>1, <1>4, OverrideFields
  <2>3. Written(e) \in Overrides /\ Written(e) # NoRow
    BY <2>1, <2>2, OverrideIsRow
  <2>4. QED BY <1>4, <2>3
<1>5. QED BY <1>2, <1>3, <1>4

\* The rows of intents.
LEMMA IntentRows ==
    /\ Intent("none", Nobody, FALSE) \in Rows
    /\ Intent("PENDING", Nobody, FALSE) \in Rows
    /\ Intent("SUCCEEDED", Nobody, FALSE) \in Rows
    /\ Intent("FAILED", Nobody, FALSE) \in Rows
    /\ Intent("CANCELLED", Nobody, FALSE) \in Rows
    /\ \A w \in Workers : /\ Intent("RUNNING", w, TRUE) \in Rows
                           /\ Intent("RUNNING", w, FALSE) \in Rows
<1> DEFINE Idle == {Intent(s, Nobody, FALSE) :
                       s \in {"none", "PENDING", "SUCCEEDED", "FAILED", "CANCELLED"}}
           Running == {Intent("RUNNING", w, l) : w \in Workers, l \in BOOLEAN}
<1>1. Rows = Idle \cup Running
  BY DEF Rows
<1>2. \A s \in {"none", "PENDING", "SUCCEEDED", "FAILED", "CANCELLED"} : Intent(s, Nobody, FALSE) \in Idle
  OBVIOUS
<1>3. ASSUME NEW w \in Workers, NEW l \in BOOLEAN PROVE Intent("RUNNING", w, l) \in Running
  OBVIOUS
<1> HIDE DEF Idle, Running
<1>4. ASSUME NEW w \in Workers
      PROVE  Intent("RUNNING", w, TRUE) \in Running /\ Intent("RUNNING", w, FALSE) \in Running
  BY <1>3
<1>5. QED BY <1>1, <1>2, <1>4

\* Cancelling and requesting leave rows.
LEMMA ChangedIntents ==
    ASSUME TypeOK
    PROVE  Cancelled \in [Intents -> Rows] /\ Requested \subseteq [Intents -> Rows]
<1>0. intent \in [Intents -> Rows]
  BY DEF TypeOK
<1>1. Cancelled \in [Intents -> Rows]
  BY <1>0, IntentRows DEF Cancelled
<1>2. ASSUME NEW new \in Requested PROVE new \in [Intents -> Rows]
  <2>1. new = intent \/ \E i \in Intents : new = [intent EXCEPT ![i] = Intent("PENDING", Nobody, FALSE)]
    BY <1>2 DEF Requested
  <2>2. QED BY <1>0, <2>1, IntentRows
<1>3. QED BY <1>1, <1>2

------------------------------------------------------------------------------
(***************************************************************************)
(* Types                                                                   *)
(***************************************************************************)

\* The mutation keeps the types.
LEMMA MutationTypes ==
    ASSUME IInv, NEW e \in Execs, Mutation(e)
    PROVE  TypeOK'
<1>1. TypeOK /\ override \in Overrides
  BY DEF IInv, TypeOK
<1>2. {Refused(e), Rejected(e), Unanswered(e), Broken(e)} \subseteq Labels
  BY DEF Refused, Rejected, Unanswered, Broken, Labels
<1>3. UNCHANGED <<claim, scanned, sync, crashes>>
  BY DEF Mutation, Enter, LeaseBusy, AcquireFails, BodyRaises, CallTikTok, RemoteAnswers,
         RemoteFails, FenceLost, Commit, CommitFails
<1>4. holder' \in Execs \cup Syncs \cup {Nobody, Stale}
  BY <1>1 DEF TypeOK, Mutation, Enter, LeaseBusy, AcquireFails, BodyRaises, CallTikTok,
              RemoteAnswers, RemoteFails, FenceLost, Commit, CommitFails, Leave
<1>5. \E label \in Labels : pc' = [pc EXCEPT ![e] = label]
  BY <1>2 DEF Mutation, Enter, LeaseBusy, AcquireFails, BodyRaises, CallTikTok,
              RemoteAnswers, RemoteFails, FenceLost, Commit, CommitFails, Leave, Goto, Labels
<1>6. seen' = seen \/ seen' = [seen EXCEPT ![e] = override] \/ seen' = [seen EXCEPT ![e] = NoRow]
  BY DEF Mutation, Enter, LeaseBusy, AcquireFails, BodyRaises, CallTikTok,
         RemoteAnswers, RemoteFails, FenceLost, Commit, CommitFails, Leave
<1>7. intent' = intent \/ intent' = Cancelled
  BY DEF Mutation, Enter, LeaseBusy, AcquireFails, BodyRaises, CallTikTok,
         RemoteAnswers, RemoteFails, FenceLost, Commit, CommitFails
<1>8. override' = override \/ (~InsertFails(e) /\ override' = Written(e))
  BY DEF Mutation, Enter, LeaseBusy, AcquireFails, BodyRaises, CallTikTok,
         RemoteAnswers, RemoteFails, FenceLost, Commit, CommitFails
<1>9. override' \in Overrides /\ seen' \in [Execs -> Overrides]
  <2>1. NoRow \in Overrides
    BY DEF Overrides
  <2>2. QED BY <1>1, <1>6, <1>8, <2>1, WrittenIsRow DEF TypeOK
<1>10. intent' \in [Intents -> Rows]
  BY <1>1, <1>7, ChangedIntents DEF TypeOK
<1>11. outside' \in BOOLEAN /\ wrong' \in BOOLEAN
  <2>1. outside \in BOOLEAN /\ wrong \in BOOLEAN
    BY <1>1 DEF TypeOK
  <2>2. \/ UNCHANGED <<outside, wrong>>
        \/ outside' = (outside /\ ~Pauses(e)) /\ wrong' = (wrong /\ ~Pauses(e))
    BY DEF Mutation, Enter, LeaseBusy, AcquireFails, BodyRaises, CallTikTok, RemoteAnswers,
           RemoteFails, FenceLost, Commit, CommitFails
  <2>3. QED BY <2>1, <2>2, Zenon
<1>12. QED
  BY <1>1, <1>3, <1>4, <1>5, <1>9, <1>10, <1>11 DEF TypeOK

\* Queueing, the workers' ends, claims, scans and faults keep the types and
\* leave rows where there are rows.
LEMMA OtherTypes ==
    ASSUME IInv,
           \/ \E e \in Execs : Crash(e)
           \/ \E o \in Operators : Queue(o)
           \/ \E w \in Workers : Closing(w) \/ \E i \in Intents : Claim(w, i)
           \/ \E i \in Intents : ClaimRunsOut(i)
           \/ Scan \/ Recover \/ StaleLeaseExpires
    PROVE  TypeOK' /\ (override # NoRow => override' # NoRow)
<1>1. TypeOK /\ override \in Overrides
  BY DEF IInv, TypeOK
<1>2. CASE \E e \in Execs : Crash(e)
  <2> PICK e \in Execs : Crash(e)
    BY <1>2
  <2>1. UNCHANGED <<intent, override, scanned, catalogue>> /\ crashes' \in 0 .. MaxCrashes
    BY <1>1 DEF Crash, TypeOK
  <2>2. holder' \in Execs \cup Syncs \cup {Nobody, Stale} /\ pc' \in [Execs -> Labels]
        /\ seen' \in [Execs -> Overrides]
    <3>1. NoRow \in Overrides
      BY DEF Overrides
    <3>2. QED BY <1>1, <3>1 DEF Crash, Leave, Goto, TypeOK, Labels
  <2>3. claim' \in [Workers -> Intents \cup {Nobody}]
    BY <1>1 DEF Crash, TypeOK
  <2>4. QED BY <1>1, <2>1, <2>2, <2>3 DEF TypeOK
<1>3. CASE \E o \in Operators : Queue(o)
  <2>1. override' \in Overrides /\ override' # NoRow
    <3>1. override' = Override("PENDING_PAUSE", TRUE)
      BY <1>3 DEF Queue
    <3>2. 0 \in 0..2 /\ TRUE \in BOOLEAN /\ "PENDING_PAUSE" \in {"PAUSE", "PENDING_PAUSE"}
      OBVIOUS
    <3>3. QED BY <3>1, <3>2, OverrideIsRow
  <2>2. intent' \in [Intents -> Rows]
    BY <1>1, <1>3, ChangedIntents DEF Queue
  <2>3. UNCHANGED <<holder, claim, seen, scanned, catalogue, crashes>>
    BY <1>3 DEF Queue
  <2>4. pc' \in [Execs -> Labels]
    BY <1>1, <1>3 DEF Queue, Goto, Labels, TypeOK
  <2>5. QED BY <1>1, <2>1, <2>2, <2>3, <2>4 DEF TypeOK
<1>4. CASE \E w \in Workers : Closing(w)
  <2> PICK w \in Workers : Closing(w)
    BY <1>4
  <2>1. UNCHANGED <<holder, seen, scanned, catalogue, crashes>>
    BY DEF Closing, WorkerRaises, Complete, Defer, Superseded, Fail
  <2>2. pc' \in [Execs -> Labels] /\ claim' \in [Workers -> Intents \cup {Nobody}]
    <3>1. \/ \E label \in Labels : pc' = [pc EXCEPT ![w] = label] /\ claim' = claim
          \/ pc' = [pc EXCEPT ![w] = "idle"] /\ claim' = [claim EXCEPT ![w] = Nobody]
      BY DEF Closing, WorkerRaises, Complete, Defer, Superseded, Fail, Finish, Goto, Labels
    <3>2. "idle" \in Labels /\ pc \in [Execs -> Labels] /\ claim \in [Workers -> Intents \cup {Nobody}]
      BY <1>1 DEF Labels, TypeOK
    <3>3. QED BY <3>1, <3>2
  <2>3. intent' \in [Intents -> Rows]
    <3>1. \/ intent' = intent
          \/ intent' = [intent EXCEPT ![claim[w]] = Intent("SUCCEEDED", Nobody, FALSE)]
          \/ intent' = [intent EXCEPT ![claim[w]] = Intent("PENDING", Nobody, FALSE)]
          \/ intent' = [intent EXCEPT ![claim[w]] = Intent("FAILED", Nobody, FALSE)]
      BY DEF Closing, WorkerRaises, Complete, Defer, Superseded, Fail
    <3>2. intent \in [Intents -> Rows]
      BY <1>1 DEF TypeOK
    <3>3. QED BY <3>1, <3>2, IntentRows
  <2>4. override' = override \/ override' = Inactive(override)
    BY DEF Closing, WorkerRaises, Complete, Defer, Superseded, Fail
  <2>5. override' \in Overrides /\ (override # NoRow => override' # NoRow)
    BY <1>1, <2>4, Deactivated
  <2>6. QED BY <1>1, <2>1, <2>2, <2>3, <2>5 DEF TypeOK
<1>5. CASE \E w \in Workers, i \in Intents : Claim(w, i)
  <2> PICK w \in Workers, i \in Intents : Claim(w, i)
    BY <1>5
  <2>1. UNCHANGED <<override, holder, seen, scanned, catalogue, crashes>>
    BY DEF Claim
  <2>2. intent' = [intent EXCEPT ![i] = Intent("RUNNING", w, TRUE)] /\ intent \in [Intents -> Rows]
    BY <1>1 DEF Claim, TypeOK
  <2>3. intent' \in [Intents -> Rows]
    BY <2>2, IntentRows
  <2>4. pc' \in [Execs -> Labels] /\ claim' \in [Workers -> Intents \cup {Nobody}]
    BY <1>1 DEF Claim, Goto, Labels, TypeOK
  <2>5. QED BY <1>1, <2>1, <2>3, <2>4 DEF TypeOK
<1>6. CASE \E i \in Intents : ClaimRunsOut(i)
  <2> PICK i \in Intents : ClaimRunsOut(i)
    BY <1>6
  <2>1. intent \in [Intents -> Rows] /\ intent[i] \in Rows /\ intent[i].status = "RUNNING"
    BY <1>1 DEF ClaimRunsOut, TypeOK
  <2>2. intent[i].owner \in Workers
    BY <2>1 DEF Rows, Intent
  <2>3. intent' = [intent EXCEPT ![i] = Intent("RUNNING", intent[i].owner, FALSE)]
    BY <2>1 DEF ClaimRunsOut
  <2>4. intent' \in [Intents -> Rows]
    BY <2>1, <2>2, <2>3, IntentRows
  <2>5. UNCHANGED <<override, holder, pc, claim, seen, scanned, catalogue, crashes>>
    BY DEF ClaimRunsOut
  <2>6. QED BY <1>1, <2>4, <2>5 DEF TypeOK
<1>7. CASE Scan \/ Recover \/ StaleLeaseExpires
  <2>1. UNCHANGED <<override, pc, claim, seen, catalogue, crashes>>
    BY <1>7 DEF Scan, Recover, StaleLeaseExpires
  <2>2. scanned' \in BOOLEAN /\ holder' \in Execs \cup Syncs \cup {Nobody, Stale}
    <3>1. scanned \in BOOLEAN /\ holder \in Execs \cup Syncs \cup {Nobody, Stale}
      BY <1>1 DEF TypeOK
    <3>2. scanned' \in BOOLEAN
      BY <1>7, <3>1, Zenon DEF Scan, Recover, StaleLeaseExpires
    <3>3. holder' = holder \/ holder' = Nobody
      BY <1>7 DEF Scan, Recover, StaleLeaseExpires
    <3>4. QED BY <3>1, <3>2, <3>3
  <2>3. intent' = intent \/ intent' \in Requested
    BY <1>7 DEF Scan, Recover, StaleLeaseExpires
  <2>4. intent' \in [Intents -> Rows]
    BY <1>1, <2>3, ChangedIntents DEF TypeOK
  <2>5. QED BY <1>1, <2>1, <2>2, <2>4 DEF TypeOK
<1>8. QED BY ONLY <1>2, <1>3, <1>4, <1>5, <1>6, <1>7,
           \/ \E e \in Execs : Crash(e)
           \/ \E o \in Operators : Queue(o)
           \/ \E w \in Workers : Closing(w) \/ \E i \in Intents : Claim(w, i)
           \/ \E i \in Intents : ClaimRunsOut(i)
           \/ Scan \/ Recover \/ StaleLeaseExpires

------------------------------------------------------------------------------
(***************************************************************************)
(* The lease and the holds                                                 *)
(***************************************************************************)

\* What a commit leaves of the observations.
LEMMA CommitCounts ==
    ASSUME IInv, NEW e \in Execs, Commit(e), TypeOK'
    PROVE  CountInv'
<1>1. /\ TypeOK /\ pc[e] = "answered" /\ holder = e /\ UNCHANGED sync
      /\ seen[e].count = 0 => override.count = 0
      /\ seen[e] \in Overrides /\ override \in Overrides
  BY DEF IInv, TypeOK, InsideOwns, CountInv, Inside, Commit
<1>2. \A f \in Execs : pc'[f] \notin Inside
  <2>1. \A f \in Execs \ {e} : pc[f] \notin Inside /\ pc'[f] = pc[f]
    BY <1>1 DEF IInv, InsideOwns, Commit, Leave, Goto, TypeOK
  <2>2. pc'[e] \notin Inside
    BY <1>1 DEF Commit, Leave, Goto, TypeOK, Inside
  <2>3. QED BY <2>1, <2>2
<1>3. \A s \in Syncs : sync'[s] = "idle"
  BY <1>1 DEF IInv, InsideOwns
<1>4. Executed(override') =>
         /\ override'.count \in {0, 1}
         /\ override'.count = 1 => outside' \/ wrong'
  <2>1. CASE Pauses(e)
    <3>1. override' = Written(e)
      BY <2>1 DEF Commit, Pauses
    <3>2. Written(e).count = 0
      BY <1>1, <2>1 DEF Written, Flushed, Override
    <3>3. QED BY <3>1, <3>2
  <2>2. CASE ~Pauses(e)
    <3>1. (outside' <=> outside) /\ (wrong' <=> wrong)
      BY <2>2, Zenon DEF Commit
    <3>2. Executed(override') => Executed(override) /\ override'.count = override.count
      <4>1. CASE override' = override
        BY <4>1
      <4>2. CASE override' = Written(e) /\ seen[e] # NoRow
        <5>1. PICK a \in BOOLEAN :
                 /\ Written(e) = [kind |-> override.kind, active |-> a, count |-> override.count]
                 /\ a => override.active
          BY <1>1, <2>2, <4>2, EnableWrites
        <5>2. QED BY <4>2, <5>1 DEF Executed
      <4>3. QED BY <2>2, <4>1, <4>2 DEF Commit, Written
    <3>3. QED BY <3>1, <3>2 DEF IInv, CountInv
  <2>3. QED BY <2>1, <2>2
<1>5. QED BY <1>2, <1>3, <1>4 DEF CountInv

\* The mutation of one execution.
LEMMA MutationInv ==
    ASSUME IInv, NEW e \in Execs, Mutation(e)
    PROVE  IInv'
<1>1. TypeOK' /\ TypeOK
  BY MutationTypes DEF IInv
<1>2. ASSUME NEW f \in Execs \ {e} PROVE pc'[f] = pc[f] /\ seen'[f] = seen[f]
  BY <1>1 DEF Mutation, Enter, LeaseBusy, AcquireFails, BodyRaises, CallTikTok, RemoteAnswers,
              RemoteFails, FenceLost, Commit, CommitFails, Leave, Goto, TypeOK
<1>3. CASE Enter(e)
  <2>1. pc'[e] = "body" /\ holder' = e /\ holder = Nobody /\ seen'[e] = override
        /\ UNCHANGED override
    BY <1>1, <1>3 DEF Enter, Goto, TypeOK
  <2>2. \A f \in Execs : pc[f] \notin Inside
    BY <2>1 DEF IInv, InsideOwns
  <2>3. Executed(override) => Held(override)
    BY DEF Executed, Held
  <2>4. RowsStay'
    BY <1>2, <2>1 DEF IInv, RowsStay
  <2>5. InsideOwns'
    BY <1>2, <1>3, <2>1, <2>2 DEF IInv, InsideOwns, Enter
  <2>6. GuardSaw'
    BY <1>2, <2>1, <2>2, <2>3 DEF GuardSaw, Inside
  <2>7. CountInv'
    BY <1>2, <1>3, <2>1, <2>2 DEF IInv, CountInv, Enter
  <2>8. QED BY <1>1, <2>4, <2>5, <2>6, <2>7 DEF IInv
<1>4. CASE CallTikTok(e) \/ RemoteAnswers(e)
  <2>1. /\ UNCHANGED <<holder, seen, override, catalogue>> /\ pc[e] \in Inside
        /\ pc[e] = "body" => Allowed(e)
        /\ pc[e] \in {"body", "remote"}
    BY <1>4 DEF CallTikTok, RemoteAnswers, Inside
  <2>2. InsideOwns'
    BY <1>2, <2>1 DEF IInv, InsideOwns
  <2>3. GuardSaw'
    BY <1>2, <2>1 DEF IInv, GuardSaw, Allowed, Inside
  <2>4. CountInv'
    BY <1>2, <2>1 DEF IInv, CountInv
  <2>5. QED BY <1>1, <2>1, <2>2, <2>3, <2>4 DEF IInv, RowsStay
<1>5. CASE LeaseBusy(e) \/ AcquireFails(e)
  <2>1. UNCHANGED <<holder, seen, override, catalogue>> /\ pc'[e] \notin Inside
    BY <1>1, <1>5 DEF LeaseBusy, AcquireFails, Goto, Refused, Broken, Inside, TypeOK
  <2>2. CountInv'
    BY <1>2, <2>1 DEF IInv, CountInv
  <2>3. QED BY <1>1, <1>2, <2>1, <2>2 DEF IInv, RowsStay, InsideOwns, GuardSaw, Inside
<1>6. CASE \/ BodyRaises(e) \/ RemoteFails(e) \/ FenceLost(e) \/ Commit(e) \/ CommitFails(e)
  <2>1. pc[e] \in Inside /\ pc'[e] \notin Inside /\ seen'[e] = NoRow
    BY <1>1, <1>6 DEF BodyRaises, RemoteFails, FenceLost, Commit, CommitFails, Leave, Goto, Refused,
                      Rejected, Unanswered, Broken, Inside, TypeOK
  <2>2. \A f \in Execs \ {e} : pc[f] \notin Inside
    BY <2>1 DEF IInv, InsideOwns
  <2>3. override # NoRow => override' # NoRow
    BY <1>6, WrittenIsRow DEF BodyRaises, RemoteFails, FenceLost, Commit, CommitFails
  <2>4. InsideOwns' /\ GuardSaw'
    <3>1. UNCHANGED sync /\ holder = e
      BY <1>6, <2>1 DEF IInv, InsideOwns, BodyRaises, RemoteFails, FenceLost, Commit, CommitFails
    <3>2. QED BY <1>2, <2>1, <2>2, <3>1 DEF IInv, InsideOwns, GuardSaw, Inside
  <2>5. RowsStay'
    BY <1>2, <2>1, <2>3 DEF IInv, RowsStay
  <2>6. CountInv'
    <3>1. CASE Commit(e)
      BY <1>1, <3>1, CommitCounts
    <3>2. CASE ~Commit(e)
      <4>1. UNCHANGED <<override, catalogue>>
        BY <1>6, <3>2 DEF BodyRaises, RemoteFails, FenceLost, CommitFails
      <4>2. QED BY <2>1, <2>2, <1>2, <4>1 DEF IInv, CountInv
    <3>3. QED BY <3>1, <3>2
  <2>7. QED BY <1>1, <2>4, <2>5, <2>6 DEF IInv
<1>7. QED BY <1>3, <1>4, <1>5, <1>6 DEF Mutation

\* Everything else: nobody enters, and no pause is executed.
LEMMA OtherInv ==
    ASSUME IInv,
           \/ \E e \in Execs : Crash(e)
           \/ \E o \in Operators : Queue(o)
           \/ \E w \in Workers : Closing(w) \/ \E i \in Intents : Claim(w, i)
           \/ \E i \in Intents : ClaimRunsOut(i)
           \/ Scan \/ Recover \/ StaleLeaseExpires
    PROVE  IInv'
<1>1. TypeOK /\ TypeOK' /\ (override # NoRow => override' # NoRow)
  BY OtherTypes DEF IInv
<1>2. /\ UNCHANGED catalogue
      /\ Executed(override') => override' = override
      /\ override.count = 0 => override'.count = 0
  <2>1. \/ override' = override \/ override' = Override("PENDING_PAUSE", TRUE)
        \/ override' = Inactive(override)
    BY DEF Crash, Queue, Closing, WorkerRaises, Complete, Defer, Superseded, Fail, Claim,
           ClaimRunsOut, Scan, Recover, StaleLeaseExpires
  <2>2. UNCHANGED catalogue
    BY DEF Crash, Queue, Closing, WorkerRaises, Complete, Defer, Superseded, Fail, Claim,
           ClaimRunsOut, Scan, Recover, StaleLeaseExpires
  <2>3. override \in Overrides
    BY <1>1 DEF TypeOK
  <2>4. QED BY <2>1, <2>2, <2>3, Deactivated DEF Executed, Override
<1>3. ASSUME NEW f \in Execs, pc'[f] \in Inside
      PROVE  pc[f] = pc'[f] /\ seen'[f] = seen[f]
  <2>1. CASE \E e \in Execs : Crash(e)
    BY <1>1, <1>3, <2>1 DEF Crash, Leave, Goto, Inside, TypeOK
  <2>2. CASE ~\E e \in Execs : Crash(e)
    <3>1. UNCHANGED seen
      BY <2>2 DEF Queue, Closing, WorkerRaises, Complete, Defer, Superseded, Fail, Claim,
                  ClaimRunsOut, Scan, Recover, StaleLeaseExpires
    <3>2. \/ UNCHANGED pc
          \/ \E e \in Execs, label \in {"queued", "rejected", "error", "idle", "claimed"} :
                pc' = [pc EXCEPT ![e] = label]
      BY <2>2 DEF Queue, Closing, WorkerRaises, Complete, Defer, Superseded, Fail, Finish, Claim,
                  ClaimRunsOut, Scan, Recover, StaleLeaseExpires, Goto
    <3>3. QED BY <1>1, <1>3, <3>1, <3>2 DEF Inside, TypeOK
  <2>3. QED BY <2>1, <2>2
<1>4. ASSUME NEW f \in Execs, pc'[f] \in Inside, holder = f PROVE holder' = f
  <2>1. CASE \E e \in Execs : Crash(e)
    BY <1>1, <1>4, <2>1 DEF Crash, Leave, Goto, Inside, TypeOK
  <2>2. CASE ~\E e \in Execs : Crash(e)
    BY <1>4, <2>2 DEF Queue, Closing, WorkerRaises, Complete, Defer, Superseded, Fail, Claim,
                ClaimRunsOut, Scan, Recover, StaleLeaseExpires
  <2>3. QED BY <2>1, <2>2
<1>5. RowsStay'
  <2>1. ASSUME NEW f \in Execs PROVE seen'[f] = seen[f] \/ seen'[f] = NoRow
    <3>1. CASE \E e \in Execs : Crash(e)
      BY <1>1, <3>1 DEF Crash, Leave, TypeOK
    <3>2. CASE ~\E e \in Execs : Crash(e)
      BY <3>2 DEF Queue, Closing, WorkerRaises, Complete, Defer, Superseded, Fail, Claim,
                  ClaimRunsOut, Scan, Recover, StaleLeaseExpires
    <3>3. QED BY <3>1, <3>2
  <2>2. QED BY <1>1, <2>1 DEF IInv, RowsStay
<1>6. ASSUME NEW s \in Syncs, holder = s PROVE holder' = s
  BY <1>6 DEF Crash, Leave, Queue, Closing, WorkerRaises, Complete, Defer, Superseded, Fail, Claim,
              ClaimRunsOut, Scan, Recover, StaleLeaseExpires
<1>7. InsideOwns'
  BY <1>2, <1>3, <1>4, <1>6 DEF IInv, InsideOwns
<1>8. GuardSaw'
  BY <1>2, <1>3 DEF IInv, GuardSaw, Inside
<1>9. CountInv'
  BY <1>2, <1>3 DEF IInv, CountInv
<1>10. QED BY <1>1, <1>5, <1>7, <1>8, <1>9 DEF IInv

\* The syncs: an observation is counted by the owner of the lease.
LEMMA SyncInv ==
    ASSUME IInv,
           \/ \E s \in Syncs : StartSync(s) \/ List(s) \/ Reconcile(s) \/ EndSync(s)
           \/ EnableOutside
    PROVE  IInv'
<1>1. TypeOK /\ override \in Overrides /\ UNCHANGED <<intent, pc, claim, seen, scanned, crashes>>
  BY DEF IInv, TypeOK, StartSync, List, Reconcile, EndSync, LeaveSync, EnableOutside
<1>2. CASE EnableOutside
  BY <1>1, <1>2 DEF EnableOutside, IInv, TypeOK, RowsStay, InsideOwns, GuardSaw, CountInv
<1>3. ASSUME NEW s \in Syncs, StartSync(s) PROVE IInv'
  <2>1. /\ UNCHANGED <<override, outside, wrong>> /\ holder' = s
        /\ \E l \in {"noticed", "listing"} : sync' = [sync EXCEPT ![s] = l]
        /\ \A e \in Execs : pc[e] \notin Inside
        /\ \A t \in Syncs : sync[t] = "idle"
    BY <1>3 DEF StartSync, IInv, InsideOwns
  <2>2. TypeOK' /\ InsideOwns' /\ CountInv'
    BY <1>1, <2>1 DEF TypeOK, InsideOwns, IInv, CountInv
  <2>3. QED BY <1>1, <2>1, <2>2 DEF IInv, RowsStay, GuardSaw
<1>4. ASSUME NEW s \in Syncs, List(s) PROVE IInv'
  <2>1. /\ UNCHANGED <<override, holder, outside>> /\ sync[s] = "listing"
        /\ \/ sync' = [sync EXCEPT ![s] = "listed"] /\ UNCHANGED wrong
           \/ /\ outside \/ ~wrong
              /\ sync' = [sync EXCEPT ![s] = "enabled"]
              /\ wrong' = (wrong \/ ~outside)
    BY <1>4 DEF List
  <2>2. wrong' \in BOOLEAN
    BY <1>1, <2>1, Zenon DEF TypeOK
  <2>3. TypeOK' /\ InsideOwns'
    <3>1. \E l \in {"listed", "enabled"} : sync' = [sync EXCEPT ![s] = l]
      BY <2>1, Zenon
    <3>2. QED BY <1>1, <2>1, <2>2, <3>1 DEF TypeOK, InsideOwns, IInv
  <2>4. CountInv'
    BY <1>1, <2>1 DEF TypeOK, IInv, CountInv
  <2>5. QED BY <1>1, <2>1, <2>3, <2>4 DEF IInv, RowsStay, GuardSaw
<1>5. ASSUME NEW s \in Syncs, LeaveSync(s), sync[s] # "idle" PROVE InsideOwns' /\ holder = s
  BY <1>1, <1>5 DEF LeaveSync, IInv, InsideOwns, TypeOK
<1>6. ASSUME NEW s \in Syncs, EndSync(s) PROVE IInv'
  <2>1. InsideOwns' /\ UNCHANGED <<override, outside, wrong>>
        /\ sync' = [sync EXCEPT ![s] = "idle"] /\ holder' \in {Nobody, Stale}
    BY <1>5, <1>6 DEF EndSync, LeaveSync
  <2>2. QED BY <1>1, <2>1 DEF IInv, TypeOK, RowsStay, GuardSaw, CountInv
<1>7. ASSUME NEW s \in Syncs, Reconcile(s) PROVE IInv'
  <2>1. /\ InsideOwns' /\ holder = s /\ UNCHANGED <<outside, wrong>>
        /\ sync' = [sync EXCEPT ![s] = "idle"] /\ holder' \in {Nobody, Stale}
        /\ \A t \in Syncs : sync'[t] = "idle"
        /\ \A e \in Execs : pc'[e] \notin Inside
    BY <1>1, <1>5, <1>7 DEF Reconcile, LeaveSync, IInv, InsideOwns, TypeOK
  <2>2. CASE override' = override
    BY <1>1, <2>1, <2>2 DEF IInv, TypeOK, RowsStay, GuardSaw, CountInv
  <2>3. CASE Executed(override) /\ override' \in Counted(s) /\ override' # override
    <3>1. override # NoRow /\ override.kind = "PAUSE" /\ override.count \in {0, 1}
      BY <2>3 DEF Executed, NoRow, Override, IInv, CountInv
    <3>2. \/ sync[s] = "enabled" /\ override' = Row("PAUSE", TRUE, 1)
          \/ sync[s] = "enabled" /\ override' = Row("PAUSE", FALSE, override.count + 1)
          \/ override' = Row("PAUSE", TRUE, 0)
      BY <2>3, Zenon DEF Counted, Override
    <3>3. override' \in Overrides /\ override' # NoRow
      <4>1. 0 \in 0..2 /\ 1 \in 0..2 /\ override.count + 1 \in 0..2
        BY <3>1
      <4>2. QED BY <3>2, <4>1, PauseIsRow, Zenon
    <3>4. CountInv'
      <4>1. outside \/ wrong \/ sync[s] # "enabled"
        BY DEF IInv, CountInv
      <4>2. Executed(override') => override'.count \in {0, 1}
                                   /\ (override'.count = 1 => sync[s] = "enabled")
        BY <3>2 DEF Executed, Override
      <4>3. QED BY <2>1, <4>1, <4>2 DEF CountInv
    <3>5. QED BY <1>1, <2>1, <3>3, <3>4 DEF IInv, TypeOK, RowsStay, GuardSaw
  <2>4. QED BY <1>7, <2>2, <2>3 DEF Reconcile
<1>8. QED BY <1>2, <1>3, <1>4, <1>6, <1>7

\* The invariant holds initially ...
LEMMA InitIInv == Init => IInv
<1> SUFFICES ASSUME Init PROVE IInv
  OBVIOUS
<1>1. intent \in [Intents -> Rows]
  BY IntentRows DEF Init
<1>2. TypeOK
  <2>1. override \in Overrides
    <3>1. override \in {NoRow, Override("PAUSE", FALSE), Override("PAUSE", TRUE)}
      BY DEF Init
    <3>2. NoRow \in Overrides
      BY DEF Overrides
    <3>3. Override("PAUSE", FALSE) \in Overrides /\ Override("PAUSE", TRUE) \in Overrides
      <4>1. 0 \in 0..2 /\ TRUE \in BOOLEAN /\ FALSE \in BOOLEAN /\ "PAUSE" \in {"PAUSE", "PENDING_PAUSE"}
        OBVIOUS
      <4>2. QED BY <4>1, OverrideIsRow
    <3>4. QED BY <3>1, <3>2, <3>3
  <2>2. pc \in [Execs -> Labels] /\ claim \in [Workers -> Intents \cup {Nobody}]
        /\ holder \in Execs \cup Syncs \cup {Nobody, Stale} /\ crashes \in 0 .. MaxCrashes
    BY DEF Init, Labels
  <2>3. scanned \in BOOLEAN /\ outside \in BOOLEAN /\ wrong \in BOOLEAN
        /\ sync \in [Syncs -> {"idle", "noticed", "listing", "listed", "enabled"}]
    BY Zenon DEF Init
  <2>4. seen \in [Execs -> Overrides]
    BY DEF Init, Overrides
  <2>5. QED BY <1>1, <2>1, <2>2, <2>3, <2>4 DEF TypeOK
<1>3. RowsStay /\ InsideOwns /\ GuardSaw /\ CountInv
  BY DEF Init, RowsStay, InsideOwns, GuardSaw, CountInv, Inside, NoRow, Override
<1>4. QED BY <1>2, <1>3 DEF IInv

\* ... and in every state of every behaviour.
LEMMA Invariant == Spec => []IInv
<1>1. IInv /\ [Next]_vars => IInv'
  <2> SUFFICES ASSUME IInv, [Next]_vars PROVE IInv'
    OBVIOUS
  <2>1. CASE UNCHANGED vars
    BY <2>1 DEF vars, IInv, TypeOK, RowsStay, InsideOwns, GuardSaw, CountInv
  <2>2. QED BY <2>1, MutationInv, OtherInv, SyncInv DEF Next
<1>2. QED BY <1>1, InitIInv, PTL DEF Spec

------------------------------------------------------------------------------
(***************************************************************************)
(* What a worker that still owns its intent leaves behind                  *)
(***************************************************************************)

\* No worker fails while another one owns an intent.  FailureReleasesPendingHold
\* shows what happens otherwise.
FailsAlone ==
    [][\A v, w \in Workers : v # w /\ pc[w] # "idle" /\ Owns(w) => ~Fail(v)]_vars

OneActive == \A i, j \in Intents : ActiveKey(i) /\ ActiveKey(j) => i = j

\* While the owner is inside, the hold is the one it has read or one that was
\* queued since; then it has left a hold, and no sync that could release it.
OwnerHolds(w) ==
    /\ pc[w] \in Inside => override \in {seen[w], Override("PENDING_PAUSE", TRUE)}
    /\ pc[w] = "complete" => /\ Held(override)
                             /\ \A s \in Syncs : sync[s] \in {"idle", "noticed"}

HoldInv ==
    /\ OneActive
    /\ \A w \in Workers : pc[w] # "idle" => claim[w] \in Intents
    /\ \A w \in Workers : pc[w] # "idle" /\ Owns(w) => OwnerHolds(w)

\* A pause that is written over a hold, or over what was read, is a hold.
LEMMA PauseLeavesHold ==
    ASSUME NEW e \in Execs, Pauses(e), override \in Overrides, seen[e] \in Overrides,
           Held(override) \/ override \in {seen[e], Override("PENDING_PAUSE", TRUE)}
    PROVE  Held(Written(e))
<1> DEFINE s == seen[e]
<1>1. PICK k, a, n :
         /\ Written(e) = [kind |-> k, active |-> a, count |-> n]
         /\ k = (IF "PAUSE" # s.kind THEN "PAUSE" ELSE override.kind)
         /\ a = (IF TRUE # s.active THEN TRUE ELSE override.active)
  BY DEF Written, Flushed, Override
<1>2. override.active \in BOOLEAN /\ s.active \in BOOLEAN
  BY OverrideFields
<1>3. ASSUME k \in {"PAUSE", "PENDING_PAUSE"}, a = TRUE
      PROVE  Held(Written(e))
  <2>1. Written(e) = [kind |-> k, active |-> TRUE, count |-> n]
    BY <1>1, <1>3, Zenon
  <2>2. Written(e).kind = k /\ Written(e).active = TRUE
    BY <2>1
  <2>3. QED BY <1>3, <2>2 DEF Held
<1>4. CASE Held(override)
  <2>1. k \in {"PAUSE", "PENDING_PAUSE"}
    BY <1>1, <1>4 DEF Held
  <2>2. a = TRUE
    BY <1>1, <1>2, <1>4, Zenon DEF Held
  <2>3. QED BY <1>3, <2>1, <2>2
<1>5. CASE override = s
  <2>1. k = "PAUSE"
    BY <1>1, <1>5
  <2>2. a = TRUE
    BY <1>1, <1>2, <1>5, Zenon
  <2>3. QED BY <1>3, <2>1, <2>2
<1>6. CASE override = Override("PENDING_PAUSE", TRUE)
  BY <1>4, <1>6 DEF Held, Override
<1>7. QED BY <1>4, <1>5, <1>6

\* The active intents after a step were active before, or there was none.
LEMMA ActiveStep ==
    ASSUME IInv, Next
    PROVE  \/ \A i \in Intents : ActiveKey(i)' => ActiveKey(i)
           \/ /\ \A i \in Intents : ~ActiveKey(i)
              /\ \A i, j \in Intents : ActiveKey(i)' /\ ActiveKey(j)' => i = j
<1>1. intent \in [Intents -> Rows] /\ claim \in [Workers -> Intents \cup {Nobody}]
  BY DEF IInv, TypeOK
<1>2. CASE UNCHANGED intent
  BY <1>2 DEF ActiveKey
<1>3. CASE intent' = Cancelled
  BY <1>1, <1>3 DEF Cancelled, ActiveKey, Intent
<1>4. CASE intent' \in Requested
  <2>1. CASE \E i \in Intents : ActiveKey(i)
    BY <1>2, <1>4, <2>1 DEF Requested
  <2>2. CASE ~\E i \in Intents : ActiveKey(i)
    <3>1. PICK k \in Intents : intent' = [intent EXCEPT ![k] = Intent("PENDING", Nobody, FALSE)]
      BY <1>4, <2>2 DEF Requested
    <3>2. \A i \in Intents : ActiveKey(i)' => i = k
      BY <1>1, <2>2, <3>1 DEF ActiveKey
    <3>3. QED BY <2>2, <3>2
  <2>3. QED BY <2>1, <2>2
<1>5. CASE \E k : /\ k \in Intents => ActiveKey(k)
                  /\ \E r : intent' = [intent EXCEPT ![k] = r]
  BY <1>1, <1>5 DEF ActiveKey
<1>6. CASE \E w \in Workers : Closing(w)
  BY <1>2, <1>5, <1>6 DEF Closing, WorkerRaises, Complete, Defer, Superseded, Fail, Owns
<1>7. CASE \E w \in Workers, i \in Intents : Claim(w, i)
  BY <1>5, <1>7 DEF Claim, Claimable, ActiveKey
<1>8. CASE \E i \in Intents : ClaimRunsOut(i)
  BY <1>5, <1>8 DEF ClaimRunsOut, ActiveKey
<1>9. CASE \E e \in Execs : Mutation(e)
  BY <1>2, <1>3, <1>9 DEF Mutation, Enter, LeaseBusy, AcquireFails, BodyRaises, CallTikTok,
         RemoteAnswers, RemoteFails, FenceLost, Commit, CommitFails
<1>10. CASE \E s \in Syncs : StartSync(s) \/ List(s) \/ Reconcile(s) \/ EndSync(s)
  BY <1>2, <1>10 DEF StartSync, List, Reconcile, EndSync, LeaveSync
<1>11. QED
  BY <1>2, <1>4, <1>6, <1>7, <1>8, <1>9, <1>10
     DEF Next, Crash, Queue, Scan, Recover, StaleLeaseExpires, EnableOutside

\* Only a claim makes a worker the owner of an intent.
LEMMA OwnerStep ==
    ASSUME IInv, Next, NEW w \in Workers, \A i \in Intents : ~Claim(w, i), pc'[w] # "idle",
           pc[w] # "idle" => claim[w] \in Intents
    PROVE  pc[w] # "idle" /\ claim'[w] = claim[w] /\ (Owns(w)' => Owns(w))
<1>1. /\ intent \in [Intents -> Rows] /\ claim \in [Workers -> Intents \cup {Nobody}]
      /\ pc \in [Execs -> Labels] /\ Nobody \notin Workers
  BY DEF IInv, TypeOK
<1>2. CASE \E e \in Execs : Crash(e)
  <2>1. PICK e \in Execs : Crash(e)
    BY <1>2
  <2>2. w # e
    BY <1>1, <2>1 DEF Crash, Leave, Goto
  <2>3. QED BY <1>1, <2>1, <2>2 DEF Crash, Leave, Goto, Owns, ActiveKey
<1>3. CASE \E v \in Workers : Closing(v)
  <2>1. PICK v \in Workers : Closing(v)
    BY <1>3
  <2>2. \/ \E label : pc' = [pc EXCEPT ![v] = label] /\ pc[v] # "idle" /\ claim' = claim
        \/ pc' = [pc EXCEPT ![v] = "idle"] /\ claim' = [claim EXCEPT ![v] = Nobody]
    BY <2>1 DEF Closing, WorkerRaises, Complete, Defer, Superseded, Fail, Finish, Goto
  <2>3. pc[w] # "idle" /\ claim'[w] = claim[w]
    BY <1>1, <2>2
  <2>4. intent' = intent \/ \E s : intent' = [intent EXCEPT ![claim[v]] = Intent(s, Nobody, FALSE)]
    BY <2>1 DEF Closing, WorkerRaises, Complete, Defer, Superseded, Fail
  <2>5. Owns(w)' => Owns(w)
    BY <1>1, <2>3, <2>4 DEF Owns, ActiveKey, Intent
  <2>6. QED BY <2>3, <2>5
<1>4. CASE \E v \in Workers, i \in Intents : Claim(v, i)
  <2>1. PICK v \in Workers, i \in Intents : Claim(v, i)
    BY <1>4
  <2>2. v # w
    BY <2>1
  <2>3. QED BY <1>1, <2>1, <2>2 DEF Claim, Goto, Owns, ActiveKey, Intent
<1>5. ASSUME UNCHANGED claim, pc[w] # "idle",
             UNCHANGED intent \/ intent' = Cancelled \/ intent' \in Requested
                \/ \E i \in Intents : ClaimRunsOut(i)
      PROVE  Owns(w)' => Owns(w)
  <2>1. claim[w] \in Intents
    BY <1>5
  <2>2. CASE UNCHANGED intent
    BY <1>5, <2>2 DEF Owns, ActiveKey
  <2>3. CASE intent' = Cancelled
    BY <1>1, <1>5, <2>1, <2>3 DEF Cancelled, Owns, ActiveKey, Intent
  <2>4. CASE intent' \in Requested
    <3>1. \/ UNCHANGED intent
          \/ \E i \in Intents : intent' = [intent EXCEPT ![i] = Intent("PENDING", Nobody, FALSE)]
      BY <2>4 DEF Requested
    <3>2. QED BY <1>1, <1>5, <2>1, <2>2, <3>1 DEF Owns, ActiveKey, Intent
  <2>5. CASE \E i \in Intents : ClaimRunsOut(i)
    <3>1. PICK i \in Intents : ClaimRunsOut(i)
      BY <2>5
    <3>2. intent' = [intent EXCEPT ![i] = Intent("RUNNING", intent[i].owner, FALSE)]
          /\ intent[i].status = "RUNNING"
      BY <3>1 DEF ClaimRunsOut
    <3>3. QED BY <1>1, <1>5, <2>1, <3>2 DEF Owns, ActiveKey, Intent
  <2>6. QED BY <1>5, <2>2, <2>3, <2>4, <2>5
<1>6. CASE \E e \in Execs : Mutation(e)
  <2>1. PICK e \in Execs : Mutation(e)
    BY <1>6
  <2>2. UNCHANGED claim /\ (UNCHANGED intent \/ intent' = Cancelled)
    BY <2>1 DEF Mutation, Enter, LeaseBusy, AcquireFails, BodyRaises, CallTikTok,
                RemoteAnswers, RemoteFails, FenceLost, Commit, CommitFails
  <2>3. \E label : pc' = [pc EXCEPT ![e] = label] /\ (e \in Workers => pc[e] # "idle")
    BY <2>1 DEF Mutation, Enter, LeaseBusy, AcquireFails, BodyRaises, CallTikTok, Ready,
                RemoteAnswers, RemoteFails, FenceLost, Commit, CommitFails, Leave, Goto
  <2>4. pc[w] # "idle"
    BY <1>1, <2>3
  <2>5. QED BY <1>5, <2>2, <2>4
<1>7. CASE \E o \in Operators : Queue(o)
  <2>1. UNCHANGED claim /\ intent' \in Requested /\ pc'[w] = pc[w]
    BY <1>1, <1>7 DEF Queue, Goto
  <2>2. QED BY <1>5, <2>1
<1>8. CASE \/ \E i \in Intents : ClaimRunsOut(i)
           \/ \E s \in Syncs : StartSync(s) \/ List(s) \/ Reconcile(s) \/ EndSync(s)
           \/ EnableOutside \/ Scan \/ Recover \/ StaleLeaseExpires
  <2>1. UNCHANGED <<claim, pc>>
    BY <1>8 DEF ClaimRunsOut, StartSync, List, Reconcile, EndSync, LeaveSync, EnableOutside,
                Scan, Recover, StaleLeaseExpires
  <2>2. \/ UNCHANGED intent \/ intent' \in Requested
        \/ \E i \in Intents : ClaimRunsOut(i)
    BY <1>8 DEF StartSync, List, Reconcile, EndSync, LeaveSync, EnableOutside,
                Scan, Recover, StaleLeaseExpires
  <2>3. QED BY <1>5, <2>1, <2>2
<1>9. QED BY <1>2, <1>3, <1>4, <1>6, <1>7, <1>8 DEF Next

\* A step of anybody else changes the hold of an owner inside only by queueing.
LEMMA OwnerInside ==
    ASSUME IInv, Next, NEW w \in Workers, pc[w] \in Inside, pc'[w] \in Inside,
           \A v \in Workers \ {w} : ~Fail(v)
    PROVE  seen'[w] = seen[w] /\ override' \in {override, Override("PENDING_PAUSE", TRUE)}
<1>1. /\ holder = w /\ \A e \in Execs \ {w} : pc[e] \notin Inside
      /\ \A s \in Syncs : sync[s] = "idle"
      /\ pc \in [Execs -> Labels] /\ seen \in [Execs -> Overrides]
  BY DEF IInv, InsideOwns, TypeOK
<1>2. CASE \E e \in Execs : Mutation(e)
  <2>1. PICK e \in Execs : Mutation(e)
    BY <1>2
  <2>2. CASE e = w
    <3>1. CallTikTok(w) \/ RemoteAnswers(w)
      BY <1>1, <2>1, <2>2 DEF Mutation, Enter, LeaseBusy, AcquireFails, BodyRaises, RemoteFails,
             FenceLost, Commit, CommitFails, Ready, Leave, Goto, Refused, Rejected, Unanswered,
             Broken, Inside
    <3>2. QED BY <3>1 DEF CallTikTok, RemoteAnswers
  <2>3. CASE e # w
    <3>1. LeaseBusy(e) \/ AcquireFails(e)
      BY <1>1, <2>1, <2>3 DEF Mutation, Enter, BodyRaises, CallTikTok, RemoteAnswers, RemoteFails,
             FenceLost, Commit, CommitFails, Inside
    <3>2. QED BY <3>1 DEF LeaseBusy, AcquireFails
  <2>4. QED BY <2>2, <2>3
<1>3. CASE \E e \in Execs : Crash(e)
  <2>1. PICK e \in Execs : Crash(e)
    BY <1>3
  <2>2. e # w
    BY <1>1, <2>1 DEF Crash, Leave, Goto, Inside
  <2>3. QED BY <1>1, <2>1, <2>2 DEF Crash, Leave
<1>4. CASE \E v \in Workers : Closing(v)
  <2>1. PICK v \in Workers : Closing(v)
    BY <1>4
  <2>2. ~Fail(v)
    BY <2>1 DEF Fail, Inside
  <2>3. QED BY <2>1, <2>2 DEF Closing, WorkerRaises, Complete, Defer, Superseded
<1>5. CASE \E s \in Syncs : StartSync(s) \/ List(s) \/ Reconcile(s) \/ EndSync(s)
  BY <1>1, <1>5 DEF StartSync, List, Reconcile, EndSync
<1>6. QED
  BY <1>2, <1>3, <1>4, <1>5 DEF Next, Queue, Claim, ClaimRunsOut, Scan, Recover,
         StaleLeaseExpires, EnableOutside

\* What an owner has left stays until its intent is completed.
LEMMA OwnerComplete ==
    ASSUME IInv, Next, NEW w \in Workers, pc[w] = "complete", pc'[w] = "complete",
           claim[w] \in Intents, Owns(w), claim'[w] = claim[w], Owns(w)', OwnerHolds(w),
           \A v \in Workers \ {w} : ~Fail(v)
    PROVE  OwnerHolds(w)'
<1>1. /\ Held(override) /\ \A s \in Syncs : sync[s] \in {"idle", "noticed"}
      /\ pc \in [Execs -> Labels] /\ \E i \in Intents : ActiveKey(i)
      /\ sync \in [Syncs -> {"idle", "noticed", "listing", "listed", "enabled"}]
      /\ intent \in [Intents -> Rows]
  BY DEF OwnerHolds, Owns, IInv, TypeOK
<1>2. \A s \in Syncs : sync'[s] \in {"idle", "noticed"}
  <2>1. CASE \E s \in Syncs : StartSync(s) \/ List(s) \/ Reconcile(s) \/ EndSync(s)
    <3>1. \E s \in Syncs : sync' = [sync EXCEPT ![s] = "noticed"] \/ sync' = [sync EXCEPT ![s] = "idle"]
      BY <1>1, <2>1 DEF StartSync, List, Reconcile, EndSync, LeaveSync
    <3>2. QED BY <1>1, <3>1
  <2>2. CASE ~\E s \in Syncs : StartSync(s) \/ List(s) \/ Reconcile(s) \/ EndSync(s)
    <3>1. UNCHANGED sync
      BY <2>2 DEF Next, Mutation, Enter, LeaseBusy, AcquireFails, BodyRaises, CallTikTok,
             RemoteAnswers, RemoteFails, FenceLost, Commit, CommitFails, Crash, Queue, Closing,
             WorkerRaises, Complete, Defer, Superseded, Fail, Claim, ClaimRunsOut, Scan,
             Recover, StaleLeaseExpires, EnableOutside, catalogue
    <3>2. QED BY <1>1, <3>1
  <2>3. QED BY <2>1, <2>2
<1>3. Held(override')
  <2>1. CASE \E e \in Execs : Commit(e)
    <3>1. PICK e \in Execs : Commit(e)
      BY <2>1
    <3>2. CASE e \in Guards
      BY <1>1, <3>1, <3>2 DEF Commit
    <3>3. CASE Pauses(e)
      <4>1. override' = Written(e)
        BY <3>1, <3>3 DEF Commit, Pauses
      <4>2. override \in Overrides /\ seen[e] \in Overrides
        BY DEF IInv, TypeOK
      <4>3. QED BY <1>1, <3>3, <4>1, <4>2, PauseLeavesHold
    <3>4. CASE e \in Operators
      <4>1. intent' = Cancelled
        BY <3>1, <3>4 DEF Commit
      <4>2. ~ActiveKey(claim[w])'
        BY <1>1, <4>1 DEF Cancelled, ActiveKey, Intent
      <4>3. QED BY <4>2 DEF Owns, ActiveKey
    <3>5. QED BY <3>2, <3>3, <3>4 DEF Pauses
  <2>2. CASE \E s \in Syncs : StartSync(s) \/ List(s) \/ Reconcile(s) \/ EndSync(s)
    BY <1>1, <2>2 DEF StartSync, List, Reconcile, EndSync
  <2>3. CASE \E o \in Operators : Queue(o)
    BY <2>3 DEF Queue, Override, Held
  <2>4. CASE \E v \in Workers : Closing(v)
    <3>1. PICK v \in Workers : Closing(v)
      BY <2>4
    <3>2. ~Fail(v)
      BY <3>1 DEF Fail
    <3>3. QED BY <1>1, <3>1, <3>2 DEF Closing, WorkerRaises, Complete, Defer, Superseded
  <2>5. CASE \E e \in Execs : Mutation(e) /\ ~Commit(e)
    BY <1>1, <2>5 DEF Mutation, Enter, LeaseBusy, AcquireFails, BodyRaises, CallTikTok,
           RemoteAnswers, RemoteFails, FenceLost, CommitFails
  <2>6. QED
    BY <1>1, <2>1, <2>2, <2>3, <2>4, <2>5 DEF Next, Crash, Claim, ClaimRunsOut, Scan, Recover,
           StaleLeaseExpires, EnableOutside
<1>4. QED BY <1>2, <1>3 DEF OwnerHolds, Inside

\* A worker enters with what it reads and, if it still owns the intent, comes
\* out with a hold.
LEMMA OwnerMutates ==
    ASSUME IInv, NEW w \in Workers, Mutation(w), pc[w] # "complete", OwnerHolds(w),
           ~(pc[w] \in Inside /\ pc'[w] \in Inside)
    PROVE  OwnerHolds(w)'
<1>1. pc \in [Execs -> Labels] /\ seen \in [Execs -> Overrides] /\ w \notin Operators \cup Guards
  BY DEF IInv, TypeOK
<1>2. CASE Enter(w)
  <2>1. pc'[w] = "body" /\ seen'[w] = override /\ override' = override
    BY <1>1, <1>2 DEF Enter, Goto
  <2>2. QED BY <2>1 DEF OwnerHolds
<1>3. CASE Commit(w)
  <2>1. /\ pc[w] = "answered" /\ pc'[w] = "complete" /\ sync' = sync
        /\ override' = Written(w) /\ Pauses(w)
    BY <1>1, <1>3 DEF Commit, Leave, Goto, Pauses
  <2>2. Held(Written(w))
    <3>1. override \in Overrides /\ seen[w] \in Overrides
      BY DEF IInv, TypeOK
    <3>2. QED BY <2>1, <3>1, PauseLeavesHold DEF OwnerHolds, Inside
  <2>3. \A s \in Syncs : sync[s] = "idle"
    BY <2>1 DEF IInv, InsideOwns, Inside
  <2>4. QED BY <2>1, <2>2, <2>3 DEF OwnerHolds, Inside
<1>4. CASE ~Enter(w) /\ ~Commit(w)
  <2>1. pc'[w] \notin Inside /\ pc'[w] # "complete"
    BY <1>1, <1>4 DEF Mutation, LeaseBusy, AcquireFails, BodyRaises, CallTikTok,
           RemoteAnswers, RemoteFails, FenceLost, CommitFails, Leave, Goto, Refused, Rejected,
           Unanswered, Broken, Inside
  <2>2. QED BY <2>1 DEF OwnerHolds
<1>5. QED BY <1>2, <1>3, <1>4

LEMMA HoldNext ==
    ASSUME IInv, HoldInv, Next,
           \A v, w \in Workers : v # w /\ pc[w] # "idle" /\ Owns(w) => ~Fail(v)
    PROVE  HoldInv'
<1>1. /\ pc \in [Execs -> Labels] /\ claim \in [Workers -> Intents \cup {Nobody}]
  BY DEF IInv, TypeOK
<1>2. OneActive'
  BY ActiveStep DEF HoldInv, OneActive
<1>3. ASSUME NEW w \in Workers, NEW i \in Intents, Claim(w, i)
      PROVE  claim'[w] \in Intents /\ OwnerHolds(w)'
  BY <1>1, <1>3 DEF Claim, Goto, OwnerHolds, Inside
<1>4. ASSUME NEW w \in Workers, pc'[w] # "idle" PROVE claim'[w] \in Intents
  BY <1>3, <1>4, OwnerStep DEF HoldInv
<1>5. ASSUME NEW w \in Workers, pc'[w] # "idle", Owns(w)' PROVE OwnerHolds(w)'
  <2>1. CASE \E i \in Intents : Claim(w, i)
    BY <1>3, <2>1
  <2>2. CASE \A i \in Intents : ~Claim(w, i)
    <3>1. pc[w] # "idle" /\ claim[w] \in Intents /\ claim'[w] = claim[w] /\ Owns(w) /\ OwnerHolds(w)
      BY <1>5, <2>2, OwnerStep DEF HoldInv
    <3>2. \A v \in Workers \ {w} : ~Fail(v)
      BY <3>1
    <3>3. CASE pc[w] \in Inside /\ pc'[w] \in Inside
      BY <3>1, <3>2, <3>3, OwnerInside DEF OwnerHolds, Inside
    <3>4. CASE pc[w] = "complete" /\ pc'[w] = "complete"
      BY <1>5, <3>1, <3>2, <3>4, OwnerComplete
    <3>5. CASE Mutation(w) /\ ~(pc[w] \in Inside /\ pc'[w] \in Inside)
      <4>1. pc[w] # "complete"
        BY <3>5 DEF Mutation, Enter, LeaseBusy, AcquireFails, BodyRaises, CallTikTok, Ready,
               RemoteAnswers, RemoteFails, FenceLost, Commit, CommitFails
      <4>2. QED BY <3>1, <3>5, <4>1, OwnerMutates
    <3>6. CASE ~Mutation(w) /\ ~(pc[w] = "complete" /\ pc'[w] = "complete")
               /\ ~(pc[w] \in Inside /\ pc'[w] \in Inside)
      <4>1. pc'[w] = pc[w] \/ pc'[w] \in {"idle", "rejected", "error"}
        <5>1. \/ UNCHANGED pc
              \/ \E e \in Execs \ {w} : \E label : pc' = [pc EXCEPT ![e] = label]
              \/ \E label \in {"idle", "rejected", "error"} : pc' = [pc EXCEPT ![w] = label]
          <6>1. CASE \E e \in Execs \ {w} : Mutation(e)
            BY <6>1 DEF Mutation, Enter, LeaseBusy, AcquireFails, BodyRaises, CallTikTok,
                   RemoteAnswers, RemoteFails, FenceLost, Commit, CommitFails, Leave, Goto
          <6>2. CASE \E e \in Execs : Crash(e)
            <7>1. PICK e \in Execs : Crash(e)
              BY <6>2
            <7>2. e = w => pc' = [pc EXCEPT ![w] = "idle"]
              BY <7>1 DEF Crash, Leave, Goto
            <7>3. QED BY <7>1, <7>2 DEF Crash, Leave, Goto
          <6>3. CASE \E v \in Workers : Closing(v)
            BY <6>3 DEF Closing, WorkerRaises, Complete, Defer, Superseded, Fail, Finish, Goto
          <6>4. CASE \E v \in Workers, i \in Intents : Claim(v, i)
            BY <2>2, <6>4 DEF Claim, Goto
          <6>5. CASE \E o \in Operators : Queue(o)
            BY <6>5 DEF Queue, Goto
          <6>6. CASE UNCHANGED pc
            BY <6>6
          <6>7. QED
            BY <3>6, <6>1, <6>2, <6>3, <6>4, <6>5, <6>6
               DEF Next, ClaimRunsOut, StartSync, List, Reconcile, EndSync, LeaveSync,
                   EnableOutside, Scan, Recover, StaleLeaseExpires
        <5>2. QED BY <1>1, <5>1
      <4>2. pc'[w] \notin Inside /\ pc'[w] # "complete"
        BY <3>6, <4>1 DEF Inside
      <4>3. QED BY <4>2 DEF OwnerHolds
    <3>7. QED BY <3>3, <3>4, <3>5, <3>6
  <2>3. QED BY <2>1, <2>2
<1>6. QED BY <1>2, <1>4, <1>5 DEF HoldInv

\* The variables keep their types; an intent names a worker while it runs.
THEOREM TypeCorrect == Spec => []TypeOK
<1>1. IInv => TypeOK
  BY DEF IInv
<1>2. QED BY <1>1, Invariant, PTL

\* No Guard calls TikTok for a campaign whose pause has been executed and is
\* held: what it read on entering the lease is still true when it calls.
THEOREM GuardKeepsAway == Spec => []GuardRespectsExecutedPause
<1>1. IInv => GuardRespectsExecutedPause
  BY DEF IInv, GuardSaw, Executed, Inside, GuardRespectsExecutedPause
<1>2. QED BY <1>1, Invariant, PTL

\* The outcome of an intent is never replaced.
THEOREM OutcomeIsFinal == Spec => IntentEndsOnce
<1>1. IInv /\ [Next]_vars =>
        [\A i \in Intents :
            intent[i].status \in {"SUCCEEDED", "FAILED", "CANCELLED"}
                => intent'[i] = intent[i]]_vars
  <2> SUFFICES ASSUME IInv, Next, NEW i \in Intents,
                      intent[i].status \in {"SUCCEEDED", "FAILED", "CANCELLED"}
               PROVE  intent'[i] = intent[i]
    OBVIOUS
  <2>1. /\ intent \in [Intents -> Rows] /\ claim \in [Workers -> Intents \cup {Nobody}]
        /\ ~ActiveKey(i) /\ ~Unused(i) /\ ~Claimable(i) /\ intent[i].status # "RUNNING"
    BY DEF IInv, TypeOK, ActiveKey, Unused, Claimable
  <2>2. Cancelled[i] = intent[i] /\ \A new \in Requested : new[i] = intent[i]
    <3>1. Cancelled[i] = intent[i]
      BY <2>1 DEF Cancelled
    <3>2. ASSUME NEW new \in Requested PROVE new[i] = intent[i]
      <4>1. new = intent \/ \E j \in Intents : /\ Unused(j)
                                            /\ new = [intent EXCEPT ![j] = Intent("PENDING", Nobody, FALSE)]
        BY <3>2 DEF Requested
      <4>2. QED BY <2>1, <4>1
    <3>3. QED BY <3>1, <3>2
  <2>3. ASSUME NEW e \in Execs, Mutation(e) \/ Crash(e) PROVE intent'[i] = intent[i]
    BY <2>2, <2>3 DEF Mutation, Enter, LeaseBusy, AcquireFails, BodyRaises, CallTikTok,
                      RemoteAnswers, RemoteFails, FenceLost, Commit, CommitFails, Crash
  <2>4. ASSUME NEW w \in Workers, Closing(w) PROVE intent'[i] = intent[i]
    <3>1. intent' = intent \/ \E new : ActiveKey(claim[w]) /\ intent' = [intent EXCEPT ![claim[w]] = new]
      BY <2>4 DEF Closing, WorkerRaises, Complete, Defer, Superseded, Fail, Owns
    <3>2. QED BY <2>1, <3>1
  <2>5. ASSUME NEW w \in Workers, NEW j \in Intents, Claim(w, j) PROVE intent'[i] = intent[i]
    BY <2>1, <2>5 DEF Claim
  <2>6. ASSUME NEW j \in Intents, ClaimRunsOut(j) PROVE intent'[i] = intent[i]
    BY <2>1, <2>6 DEF ClaimRunsOut
  <2>7. ASSUME NEW s \in Syncs, StartSync(s) \/ List(s) \/ Reconcile(s) \/ EndSync(s)
        PROVE  intent'[i] = intent[i]
    BY <2>7 DEF StartSync, List, Reconcile, EndSync, LeaveSync
  <2>8. QED
    BY <2>2, <2>3, <2>4, <2>5, <2>6, <2>7 DEF Next, Queue, Scan, Recover, StaleLeaseExpires,
                                              EnableOutside
<1>2. QED BY <1>1, Invariant, PTL DEF Spec, IntentEndsOnce

\* A sync ends the hold of a campaign that was enabled at TikTok, and of no
\* other: what was counted before the pause is forgotten, and what is counted
\* after it is at most one wrong answer.
THEOREM ReleasesAreDeserved == Spec => ReleaseIsDeserved
<1>1. IInv /\ [Next]_vars =>
        [\A s \in Syncs :
            sync[s] = "enabled" /\ Held(override) /\ sync'[s] = "idle"
                => outside \/ Held(override')]_vars
  <2> SUFFICES ASSUME IInv, Next, NEW s \in Syncs,
                      sync[s] = "enabled", Held(override), sync'[s] = "idle", ~outside
               PROVE  Held(override')
    OBVIOUS
  <2>1. Reconcile(s) \/ EndSync(s)
    <3>1. sync' # sync
      OBVIOUS
    <3>2. \E t \in Syncs : StartSync(t) \/ List(t) \/ Reconcile(t) \/ EndSync(t)
      BY <3>1 DEF Next, Mutation, Enter, LeaseBusy, AcquireFails, BodyRaises, CallTikTok,
                  RemoteAnswers, RemoteFails, FenceLost, Commit, CommitFails, Crash, Queue, Closing,
                  WorkerRaises, Complete, Defer, Superseded, Fail, Claim, ClaimRunsOut, Scan,
                  Recover, StaleLeaseExpires, EnableOutside
    <3>3. PICK t \in Syncs : StartSync(t) \/ List(t) \/ Reconcile(t) \/ EndSync(t)
      BY <3>2
    <3>4. sync \in [Syncs -> {"idle", "noticed", "listing", "listed", "enabled"}]
      BY DEF IInv, TypeOK
    <3>5. t = s
      <4>1. \E l : sync' = [sync EXCEPT ![t] = l]
        BY <3>3 DEF StartSync, List, Reconcile, EndSync, LeaveSync
      <4>2. QED BY <3>4, <4>1
    <3>6. ~StartSync(s) /\ ~List(s)
      BY DEF StartSync, List
    <3>7. QED BY <3>3, <3>5, <3>6
  <2>2. CASE override' = override
    BY <2>2
  <2>3. CASE Executed(override) /\ override' \in Counted(s)
    <3>1. override.count = 0
      BY <2>3 DEF IInv, CountInv
    <3>2. override' = Row("PAUSE", TRUE, 1)
      BY <2>3, <3>1 DEF Counted
    <3>3. QED BY <3>2 DEF Held
  <2>4. QED BY <2>1, <2>2, <2>3 DEF Reconcile, EndSync
<1>2. QED BY <1>1, Invariant, PTL DEF Spec, ReleaseIsDeserved

\* An intent is reported as SUCCEEDED only while the campaign is held, for any
\* number of workers, as long as none fails while another owns the intent: the
\* pause stands through whatever operators, Guards, syncs and crashes do between
\* its commit and the report.
THEOREM SuccessIsHeld == Spec /\ FailsAlone => SucceededPauseIsHeld
<1>1. Init => HoldInv
  BY DEF Init, HoldInv, OneActive, ActiveKey, Intent
<1> DEFINE Alone == \A v, w \in Workers : v # w /\ pc[w] # "idle" /\ Owns(w) => ~Fail(v)
<1>2. IInv /\ HoldInv /\ [Next]_vars /\ [Alone]_vars => HoldInv'
  <2> SUFFICES ASSUME IInv, HoldInv, [Next]_vars, [Alone]_vars PROVE HoldInv'
    OBVIOUS
  <2>1. CASE UNCHANGED vars
    BY <2>1 DEF vars, catalogue, HoldInv, OneActive, OwnerHolds, Owns, ActiveKey
  <2>2. QED BY <2>1, HoldNext
<1>3. IInv /\ HoldInv /\ [Next]_vars =>
        [\A i \in Intents :
            intent[i].status = "RUNNING" /\ intent'[i].status = "SUCCEEDED"
                => Held(override)]_vars
  <2> SUFFICES ASSUME IInv, HoldInv, Next, NEW i \in Intents,
                      intent[i].status = "RUNNING", intent'[i].status = "SUCCEEDED"
               PROVE  Held(override)
    OBVIOUS
  <2>1. intent \in [Intents -> Rows] /\ claim \in [Workers -> Intents \cup {Nobody}]
    BY DEF IInv, TypeOK
  <2>2. PICK w \in Workers : pc[w] = "complete" /\ Owns(w)
    <3>1. intent'[i] # intent[i]
      OBVIOUS
    <3>2. ~\E e \in Execs : Mutation(e) \/ Crash(e)
      <4>1. Cancelled[i].status # "SUCCEEDED"
        BY DEF Cancelled, Intent
      <4>2. ASSUME NEW e \in Execs, Mutation(e) \/ Crash(e)
            PROVE  intent' = intent \/ intent' = Cancelled
        BY <4>2 DEF Mutation, Enter, LeaseBusy, AcquireFails, BodyRaises, CallTikTok,
               RemoteAnswers, RemoteFails, FenceLost, Commit, CommitFails, Crash
      <4>3. QED BY <3>1, <4>1, <4>2
    <3>3. intent' \notin Requested
      BY <2>1, <3>1 DEF Requested, Intent
    <3>4. \A v \in Workers, j \in Intents : ~Claim(v, j)
      BY <2>1 DEF Claim, Intent
    <3>5. \A j \in Intents : ~ClaimRunsOut(j)
      BY <2>1 DEF ClaimRunsOut, Intent
    <3>6. \E w \in Workers : Closing(w)
      BY <3>1, <3>2, <3>3, <3>4, <3>5 DEF Next, Queue, Recover, Scan, StaleLeaseExpires,
             EnableOutside, StartSync, List, Reconcile, EndSync, LeaveSync
    <3>7. PICK w \in Workers : Closing(w)
      BY <3>6
    <3>8. Complete(w) /\ Owns(w)
      BY <2>1, <3>1, <3>7 DEF Closing, WorkerRaises, Complete, Defer, Superseded, Fail, Intent
    <3>9. QED BY <3>8 DEF Complete
  <2>3. QED BY <2>2 DEF HoldInv, OwnerHolds
<1>4. QED BY <1>1, <1>2, <1>3, Invariant, PTL DEF Spec, FailsAlone, SucceededPauseIsHeld

\* With one control worker the condition holds of itself.
THEOREM OneWorkerHolds ==
    ASSUME \A v, w \in Workers : v = w
    PROVE  Spec => SucceededPauseIsHeld
<1>1. [Next]_vars =>
        [\A v, w \in Workers : v # w /\ pc[w] # "idle" /\ Owns(w) => ~Fail(v)]_vars
  OBVIOUS
<1>2. Spec => FailsAlone
  BY <1>1, PTL DEF Spec, FailsAlone
<1>3. QED BY <1>2, SuccessIsHeld

=============================================================================
