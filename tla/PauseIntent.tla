---------------------------- MODULE PauseIntent ----------------------------
(***************************************************************************)
(* Durable manual pauses of one campaign.                                  *)
(*                                                                         *)
(* An operator's pause that finds the mutation lease taken is not refused: *)
(* it is stored as a pause intent and as a PENDING_PAUSE override that     *)
(* holds the automatic Guard off, and the reply says that it will run.  A  *)
(* control worker claims the intent for a limited time, runs the ordinary  *)
(* pause action and completes the intent.  A scanner re-enqueues due and   *)
(* abandoned intents and recreates the intent of an orphaned hold.  A      *)
(* deliberate enable cancels the intent and clears the hold.  A sync of    *)
(* the catalogue that finds the campaign enabled at TikTok in two listings *)
(* releases the hold of an executed pause.                                 *)
(*                                                                         *)
(* The mutation lease appears as its holder only; MutationLease models it  *)
(* and proves that nobody else enters between a holder's first read and    *)
(* its commit.  Deliveries of the Celery task are not counted: a worker    *)
(* may pick up a claimable intent at any time (first enqueue, retry, scan, *)
(* duplicate).                                                             *)
(***************************************************************************)
EXTENDS Naturals, FiniteSets

CONSTANTS
    Operators,      \* requests to pause or enable, each used once
    Workers,        \* processes that run execute_campaign_pause_intent
    Guards,         \* automatic Guards that want to enable the campaign
    Syncs,          \* syncs of the account's campaign catalogue
    Intents,        \* identities for rows of gmvmax_campaign_pause_intents
    Kind,           \* "pause" or "enable", for each operator request
    Nobody,
    Stale,          \* holds a lease that no one works under any more
    MaxCrashes      \* bound on process deaths

Execs == Operators \cup Workers \cup Guards

ASSUME ExecsDisjoint ==
    /\ Operators \cap Workers = {} /\ Operators \cap Guards = {}
    /\ Workers \cap Guards = {}
    /\ Syncs \cap Execs = {}
    /\ Nobody \notin Execs \cup Syncs \cup Intents
    /\ Stale \notin Execs \cup Syncs \cup {Nobody}
ASSUME KindOfOperators == Kind \in [Operators -> {"pause", "enable"}]
ASSUME CrashBound == MaxCrashes \in Nat

VARIABLES
    intent,     \* [Intents -> [status, owner, leased]]
    override,   \* the campaign's manual override: [kind, active, count]
    holder,     \* who holds the mutation lease of the campaign's account
    pc,
    claim,      \* [Workers -> the intent the worker works on, or Nobody]
    seen,       \* [Execs -> override in the snapshot its transaction reads]
    scanned,    \* the scanner has read a pending hold it has not handled yet
    sync,       \* [Syncs -> where the sync is with the campaign]
    outside,    \* enabled at TikTok since the last executed pause
    wrong,      \* since then TikTok has shown an enable that there was not
    crashes     \* how many processes have died

catalogue == <<sync, outside, wrong>>
vars == <<intent, override, holder, pc, claim, seen, scanned, catalogue,
          crashes>>

Pauses(e) == e \in Workers \/ (e \in Operators /\ Kind[e] = "pause")

Intent(status, owner, leased) ==
    [status |-> status, owner |-> owner, leased |-> leased]
Row(kind, active, count) == [kind |-> kind, active |-> active, count |-> count]
Override(kind, active) == Row(kind, active, 0)
Inactive(o) == Row(o.kind, FALSE, o.count)
NoRow == Override("none", FALSE)

\* active_key is set exactly while an intent is PENDING or RUNNING.
ActiveKey(i) == intent[i].status \in {"PENDING", "RUNNING"}
Unused(i) == intent[i].status = "none"

\* is_manual_pause_override_active
Held(o) == o.active /\ o.kind \in {"PAUSE", "PENDING_PAUSE"}
Executed(o) == o.active /\ o.kind = "PAUSE"
PendingHold == override.active /\ override.kind = "PENDING_PAUSE"

Goto(e, label) == pc' = [pc EXCEPT ![e] = label]

\* Where an execution goes when the lease is busy or its fence is lost ...
Refused(e) == IF e \in Guards THEN "idle" ELSE
              IF Pauses(e) THEN "conflict" ELSE "failed"
\* ... when TikTok does not answer ...
Unanswered(e) == IF e \in Guards THEN "idle" ELSE
                 IF e \in Workers THEN "retryable" ELSE "failed"
\* ... when TikTok or the control plane rejects the request ...
Rejected(e) == IF e \in Guards THEN "idle" ELSE
               IF e \in Workers THEN "rejected" ELSE "failed"
\* ... and when the database fails.
Broken(e) == IF e \in Guards THEN "idle" ELSE
             IF e \in Workers THEN "error" ELSE "failed"

Init ==
    /\ intent = [i \in Intents |-> Intent("none", Nobody, FALSE)]
    /\ override \in {NoRow, Override("PAUSE", FALSE), Override("PAUSE", TRUE)}
    /\ holder = Nobody
    /\ pc = [e \in Execs |-> "idle"]
    /\ claim = [w \in Workers |-> Nobody]
    /\ seen = [e \in Execs |-> NoRow]
    /\ scanned = FALSE
    /\ sync = [s \in Syncs |-> "idle"] /\ outside = FALSE /\ wrong = FALSE
    /\ crashes = 0

-----------------------------------------------------------------------------
(***************************************************************************)
(* The status mutation, shared by operators, workers and Guards            *)
(***************************************************************************)
Ready(e) == pc[e] = (IF e \in Workers THEN "claimed" ELSE "idle")

\* The lease is ours; the next read takes the transaction's snapshot.
Enter(e) ==
    /\ Ready(e) /\ holder = Nobody
    /\ holder' = e
    /\ seen' = [seen EXCEPT ![e] = override]
    /\ Goto(e, "body")
    /\ UNCHANGED <<intent, override, claim, scanned, catalogue, crashes>>

\* While a holder's call is in flight its transaction locks the lease rows.
RowsLocked == holder \in Execs /\ pc[holder] \in {"remote", "answered"}

\* GmvMaxMutationBusy: this campaign's mutation or another account's.
LeaseBusy(e) ==
    /\ Ready(e) /\ ~RowsLocked
    /\ Goto(e, Refused(e))
    /\ UNCHANGED <<intent, override, holder, claim, seen, scanned, catalogue, crashes>>

\* The wait for a locked lease row times out, or the database is away.
AcquireFails(e) ==
    /\ Ready(e)
    /\ Goto(e, Broken(e))
    /\ UNCHANGED <<intent, override, holder, claim, seen, scanned, catalogue, crashes>>

\* Leaving the `with gmvmax_mutation_lease' block ends the transaction.  A
\* release that fails leaves the lease to its TTL.
Leave(e, label, holders) ==
    /\ holder' \in holders
    /\ seen' = [seen EXCEPT ![e] = NoRow]
    /\ Goto(e, label)

\* Nothing is sent: the fence is lost, the Guard is not allowed, or the
\* campaign is gone.
BodyRaises(e) ==
    /\ pc[e] = "body"
    /\ \E label \in {Refused(e), Rejected(e)} : Leave(e, label, {Nobody, Stale})
    /\ UNCHANGED <<intent, override, claim, scanned, catalogue, crashes>>

\* Mutant: only an unexecuted pause holds the Guard off.
PendingOnly(e) ==
    e \in Guards => ~(seen[e].active /\ seen[e].kind = "PENDING_PAUSE")

\* _assert_smart_guard_mutation_allowed: a Guard leaves a held campaign alone.
Allowed(e) == e \in Guards => ~Held(seen[e])

CallTikTok(e) ==
    /\ pc[e] = "body" /\ Allowed(e)
    /\ Goto(e, "remote")
    /\ UNCHANGED <<intent, override, holder, claim, seen, scanned, catalogue, crashes>>

RemoteAnswers(e) ==
    /\ pc[e] = "remote"
    /\ Goto(e, "answered")
    /\ UNCHANGED <<intent, override, holder, claim, seen, scanned, catalogue, crashes>>

\* TikTok rejects the update, or fails to answer and may have applied it.
RemoteFails(e) ==
    /\ pc[e] = "remote"
    /\ \E label \in {Unanswered(e), Rejected(e)} : Leave(e, label, {Nobody, Stale})
    /\ UNCHANGED <<intent, override, claim, scanned, catalogue, crashes>>

\* GmvMaxMutationFenceLost after the answer: nothing local is committed.
FenceLost(e) ==
    /\ pc[e] = "answered"
    /\ Leave(e, Refused(e), {Nobody, Stale})
    /\ UNCHANGED <<intent, override, claim, scanned, catalogue, crashes>>

\* Mutant: the slot is freed but the worker's lease stays on the row.
CancelledSlotOnly ==
    [i \in Intents |->
        IF ActiveKey(i) THEN Intent("CANCELLED", intent[i].owner, intent[i].leased)
                        ELSE intent[i]]

\* Mutant: an intent that a worker runs is left alone.
CancelledPending ==
    [i \in Intents |->
        IF intent[i].status = "PENDING" THEN Intent("CANCELLED", Nobody, FALSE)
                                        ELSE intent[i]]

\* cancel_pending_campaign_pause_intent
Cancelled ==
    [i \in Intents |->
        IF ActiveKey(i) THEN Intent("CANCELLED", Nobody, FALSE) ELSE intent[i]]

\* The ORM writes the attributes that differ from the row it has read.
Flushed(old, new) ==
    Row(IF new.kind # old.kind THEN new.kind ELSE override.kind,
        IF new.active # old.active THEN new.active ELSE override.active,
        IF new.count # old.count THEN new.count ELSE override.count)

\* set_manual_pause_override inserts a row its snapshot does not show.
InsertFails(e) == Pauses(e) /\ seen[e] = NoRow /\ override # NoRow

\* Mutant: a new pause goes on counting the observations of the last one.
WrittenOnCount(e) ==
    IF Pauses(e) THEN Flushed(seen[e], Row("PAUSE", TRUE, seen[e].count)) ELSE
    IF seen[e] = NoRow THEN override
                       ELSE Flushed(seen[e], Inactive(seen[e]))

\* set_manual_pause_override / clear_manual_override
Written(e) ==
    IF Pauses(e) THEN Flushed(seen[e], Override("PAUSE", TRUE)) ELSE
    IF seen[e] = NoRow THEN override
                       ELSE Flushed(seen[e], Inactive(seen[e]))

\* Local facts, intent and hold change in the transaction of the proof.
Commit(e) ==
    /\ pc[e] = "answered" /\ ~InsertFails(e)
    /\ intent' = IF e \in Operators THEN Cancelled ELSE intent
    /\ override' = IF e \in Guards THEN override ELSE Written(e)
    /\ Leave(e, IF e \in Guards THEN "idle" ELSE
                IF e \in Workers THEN "complete" ELSE "done", {Nobody, Stale})
    /\ outside' = (outside /\ ~Pauses(e)) /\ wrong' = (wrong /\ ~Pauses(e))
    /\ UNCHANGED <<claim, scanned, sync, crashes>>

\* The second insert violates uq_gmvmax_manual_override_campaign.
CommitFails(e) ==
    /\ pc[e] = "answered" /\ InsertFails(e)
    /\ Leave(e, Broken(e), {Nobody, Stale})
    /\ UNCHANGED <<intent, override, claim, scanned, catalogue, crashes>>

-----------------------------------------------------------------------------
(***************************************************************************)
(* The durable intent                                                      *)
(***************************************************************************)

\* create_or_get_campaign_pause_intent: one active intent, clicks coalesce.
Requested ==
    IF \E i \in Intents : ActiveKey(i) THEN {intent}
    ELSE {[intent EXCEPT ![i] = Intent("PENDING", Nobody, FALSE)] :
            i \in {j \in Intents : Unused(j)}}

\* _queue_campaign_pause_after_mutation_conflict
Queue(o) ==
    /\ o \in Operators /\ pc[o] = "conflict"
    /\ intent' \in Requested
    /\ override' = Override("PENDING_PAUSE", TRUE)
    /\ Goto(o, "queued")
    /\ UNCHANGED <<holder, claim, seen, scanned, catalogue, crashes>>

\* Mutant: a RUNNING intent is never taken over.
PendingClaimable(i) == intent[i].status = "PENDING"

\* A due intent, or one whose worker let its lease run out.
Claimable(i) ==
    \/ intent[i].status = "PENDING"
    \/ intent[i].status = "RUNNING" /\ ~intent[i].leased

\* claim_campaign_pause_intent
Claim(w, i) ==
    /\ pc[w] = "idle" /\ Claimable(i)
    /\ intent' = [intent EXCEPT ![i] = Intent("RUNNING", w, TRUE)]
    /\ claim' = [claim EXCEPT ![w] = i]
    /\ Goto(w, "claimed")
    /\ UNCHANGED <<override, holder, seen, scanned, catalogue, crashes>>

\* Before the lease the binding changed or the campaign is gone (a terminal
\* rejection); then and at the completion anything else may be raised.
WorkerRaises(w) ==
    /\ \/ pc[w] = "claimed" /\ Goto(w, "rejected")
       \/ pc[w] \in {"claimed", "complete"} /\ Goto(w, "error")
    /\ UNCHANGED <<intent, override, holder, claim, seen, scanned, catalogue, crashes>>

\* Mutant: the worker trusts the claim it made.
ClaimedOnce(w) == TRUE

Owns(w) == ActiveKey(claim[w]) /\ intent[claim[w]].owner = w

Finish(w) == Goto(w, "idle") /\ claim' = [claim EXCEPT ![w] = Nobody]

\* complete_campaign_pause_intent(SUCCEEDED); "superseded" if not the owner.
Complete(w) ==
    /\ pc[w] = "complete"
    /\ intent' = IF Owns(w)
                 THEN [intent EXCEPT ![claim[w]] = Intent("SUCCEEDED", Nobody, FALSE)]
                 ELSE intent
    /\ Finish(w)
    /\ UNCHANGED <<override, holder, seen, scanned, catalogue, crashes>>

\* defer_campaign_pause_intent
Defer(w) ==
    /\ pc[w] \in {"conflict", "retryable", "error"} /\ Owns(w)
    /\ intent' = [intent EXCEPT ![claim[w]] = Intent("PENDING", Nobody, FALSE)]
    /\ Finish(w)
    /\ UNCHANGED <<override, holder, seen, scanned, catalogue, crashes>>

\* A retryable failure of a worker that was superseded ends quietly.
Superseded(w) ==
    /\ pc[w] \in {"conflict", "retryable"} /\ ~Owns(w)
    /\ Finish(w)
    /\ UNCHANGED <<intent, override, holder, seen, scanned, catalogue, crashes>>

\* Out of attempts (24; conflicts are not counted), rejected, or superseded
\* when an unexpected exception came: the intent fails if it is still ours,
\* and the hold is cleared in any case.
Fail(w) ==
    /\ pc[w] \in {"rejected", "retryable", "error"}
    /\ intent' = IF Owns(w)
                 THEN [intent EXCEPT ![claim[w]] = Intent("FAILED", Nobody, FALSE)]
                 ELSE intent
    /\ override' = Inactive(override)
    /\ Finish(w)
    /\ UNCHANGED <<holder, seen, scanned, catalogue, crashes>>

\* lease_expires_at passes: 90 seconds, never renewed.
ClaimRunsOut(i) ==
    /\ intent[i].status = "RUNNING" /\ intent[i].leased
    /\ intent' = [intent EXCEPT ![i] = Intent("RUNNING", @.owner, FALSE)]
    /\ UNCHANGED <<override, holder, pc, claim, seen, scanned, catalogue, crashes>>

\* recover_orphaned_pending_pause_override_intent_ids reads the holds from
\* its snapshot ...
Scan ==
    /\ ~scanned /\ PendingHold
    /\ scanned' = TRUE
    /\ UNCHANGED <<intent, override, holder, pc, claim, seen, catalogue, crashes>>

\* ... and then creates the intents that are missing.
Recover ==
    /\ scanned
    /\ scanned' = FALSE
    /\ intent' \in Requested
    /\ UNCHANGED <<override, holder, pc, claim, seen, catalogue, crashes>>

-----------------------------------------------------------------------------
(***************************************************************************)
(* Syncs of the campaign catalogue                                         *)
(***************************************************************************)

\* The account's lease, and the snapshot in which active intents are read.
StartSync(s) ==
    /\ sync[s] = "idle" /\ holder = Nobody
    /\ holder' = s
    /\ sync' = [sync EXCEPT ![s] =
                   IF \E i \in Intents : ActiveKey(i) THEN "noticed" ELSE "listing"]
    /\ UNCHANGED <<intent, override, pc, claim, seen, scanned, outside, wrong, crashes>>

\* campaign/get shows an ENABLE newer than the pause, or it does not.  TikTok
\* is eventually consistent: one such answer may be wrong for a pause.
List(s) ==
    /\ sync[s] = "listing"
    /\ \/ sync' = [sync EXCEPT ![s] = "listed"] /\ UNCHANGED wrong
       \/ /\ outside \/ ~wrong
          /\ sync' = [sync EXCEPT ![s] = "enabled"]
          /\ wrong' = (wrong \/ ~outside)
    /\ UNCHANGED <<intent, override, holder, pc, claim, seen, scanned, outside, crashes>>

\* What is observed of an executed pause: a second ENABLE releases it, another
\* status starts the count again, an older change is no observation.
Counted(s) ==
    IF sync[s] # "enabled" THEN {override, Override("PAUSE", TRUE)} ELSE
    IF override.count = 0  THEN {Row("PAUSE", TRUE, 1)}
                           ELSE {Row("PAUSE", FALSE, override.count + 1)}

\* The sync's transaction ends, with a commit under the fence or without.
LeaveSync(s) ==
    /\ sync' = [sync EXCEPT ![s] = "idle"]
    /\ holder' \in {Nobody, Stale}
    /\ UNCHANGED <<intent, pc, claim, seen, scanned, outside, wrong, crashes>>

\* reconcile_manual_pause_from_official_catalog: the override is read and
\* locked when the campaign is reached.
Reconcile(s) ==
    /\ sync[s] \in {"listed", "enabled"}
    /\ override' \in IF Executed(override) THEN Counted(s) ELSE {override}
    /\ LeaveSync(s)

\* Nothing is observed: an intent is active, or the sync fails, loses its
\* fence or dies.
EndSync(s) == sync[s] # "idle" /\ UNCHANGED override /\ LeaveSync(s)

\* The user enables the campaign at TikTok, or an enable of this program
\* took effect there and was not recorded.
EnableOutside ==
    /\ ~outside /\ outside' = TRUE
    /\ UNCHANGED <<intent, override, holder, pc, claim, seen, scanned, sync, wrong, crashes>>

-----------------------------------------------------------------------------
(***************************************************************************)
(* The environment                                                         *)
(***************************************************************************)

\* A process dies; its mutation lease stays until it expires.
Crash(e) ==
    /\ crashes < MaxCrashes
    /\ pc[e] \notin {"idle", "done", "queued", "failed", "crashed"}
    /\ crashes' = crashes + 1
    /\ Leave(e, IF e \in Operators THEN "crashed" ELSE "idle",
             {IF holder = e THEN Stale ELSE holder})
    /\ claim' = [w \in Workers |-> IF w = e THEN Nobody ELSE claim[w]]
    /\ UNCHANGED <<intent, override, scanned, catalogue>>

StaleLeaseExpires ==
    /\ holder = Stale /\ holder' = Nobody
    /\ UNCHANGED <<intent, override, pc, claim, seen, scanned, catalogue, crashes>>

Mutation(e) ==
    \/ Enter(e) \/ LeaseBusy(e) \/ AcquireFails(e) \/ BodyRaises(e)
    \/ CallTikTok(e) \/ RemoteAnswers(e) \/ RemoteFails(e) \/ FenceLost(e)
    \/ Commit(e) \/ CommitFails(e)

Closing(w) ==
    WorkerRaises(w) \/ Complete(w) \/ Defer(w) \/ Superseded(w) \/ Fail(w)

Next ==
    \/ \E e \in Execs : Mutation(e) \/ Crash(e)
    \/ \E o \in Operators : Queue(o)
    \/ \E w \in Workers : Closing(w) \/ \E i \in Intents : Claim(w, i)
    \/ \E i \in Intents : ClaimRunsOut(i)
    \/ \E s \in Syncs : StartSync(s) \/ List(s) \/ Reconcile(s) \/ EndSync(s)
    \/ Syncs # {} /\ EnableOutside
    \/ Scan \/ Recover \/ StaleLeaseExpires

Spec == Init /\ [][Next]_vars

-----------------------------------------------------------------------------
(***************************************************************************)
(* Fairness, for the temporal properties only.  Whoever entered the lease  *)
(* or claimed an intent goes on; deliveries and the scanner's schedule do  *)
(* not stop; leases and claims expire.  Strong fairness of a worker's own  *)
(* attempt says that it does not fail for ever: conflicts and lost fences  *)
(* are retried every two seconds without limit, everything else is counted *)
(* and ends in Fail.  Nothing makes an operator or a Guard start.          *)
(***************************************************************************)
FairSpec ==
    /\ Spec
    /\ \A e \in Execs : WF_vars(~Ready(e) /\ Mutation(e))
    /\ \A o \in Operators : WF_vars(Queue(o))
    /\ \A w \in Workers :
        /\ WF_vars(Mutation(w) \/ Closing(w))
        /\ WF_vars(\E i \in Intents : Claim(w, i))
        /\ SF_vars(Enter(w)) /\ SF_vars(CallTikTok(w))
        /\ SF_vars(RemoteAnswers(w)) /\ SF_vars(Commit(w))
    /\ \A i \in Intents : WF_vars(ClaimRunsOut(i))
    /\ \A s \in Syncs : WF_vars(List(s) \/ Reconcile(s) \/ EndSync(s))
    /\ WF_vars(Scan) /\ WF_vars(Recover) /\ WF_vars(StaleLeaseExpires)

-----------------------------------------------------------------------------
(***************************************************************************)
(* Properties                                                              *)
(***************************************************************************)
Labels == {"idle", "claimed", "body", "remote", "answered", "complete",
           "conflict", "retryable", "rejected", "error",
           "queued", "done", "failed", "crashed"}

Rows == {Intent(s, Nobody, FALSE) :
            s \in {"none", "PENDING", "SUCCEEDED", "FAILED", "CANCELLED"}}
        \cup {Intent("RUNNING", w, l) : w \in Workers, l \in BOOLEAN}

Overrides ==
    {NoRow} \cup [kind : {"PAUSE", "PENDING_PAUSE"}, active : BOOLEAN, count : 0..2]

\* Every variable has its type; only a RUNNING intent names a worker, and no
\* release needs more than two observations.
TypeOK ==
    /\ intent \in [Intents -> Rows]
    /\ override \in Overrides
    /\ holder \in Execs \cup Syncs \cup {Nobody, Stale}
    /\ pc \in [Execs -> Labels]
    /\ claim \in [Workers -> Intents \cup {Nobody}]
    /\ seen \in [Execs -> Overrides]
    /\ scanned \in BOOLEAN
    /\ sync \in [Syncs -> {"idle", "noticed", "listing", "listed", "enabled"}]
    /\ outside \in BOOLEAN /\ wrong \in BOOLEAN
    /\ crashes \in 0..MaxCrashes

\* No Guard calls TikTok for a campaign whose pause has been executed and is
\* still held, although it reads the hold long before it calls
\* (_assert_smart_guard_mutation_allowed inside the lease).
GuardRespectsExecutedPause ==
    \A g \in Guards :
        pc[g] \in {"remote", "answered"} =>
            ~Executed(override)

\* An intent ends once: the outcome an operator can see is never replaced by
\* that of a slower worker, a scan or a later request.
IntentEndsOnce ==
    [][\A i \in Intents :
          intent[i].status \in {"SUCCEEDED", "FAILED", "CANCELLED"}
              => intent'[i] = intent[i]]_vars

\* An intent reported as SUCCEEDED left the campaign on hold: whatever came
\* between the commit of the pause and that of its intent, the Guard is still
\* kept off.  One control worker: see FailureReleasesPendingHold for two.
SucceededPauseIsHeld ==
    [][\A i \in Intents :
          intent[i].status = "RUNNING" /\ intent'[i].status = "SUCCEEDED"
              => Held(override)]_vars

\* A sync releases a hold only if the campaign was enabled at TikTok since
\* that pause was executed, although one listing may wrongly say so, listings
\* of an earlier pause may have been counted, and clicks, failures and scans
\* change the row without the lease (manual_pause_reconciliation.py,
\* set_manual_pause_override).
ReleaseIsDeserved ==
    [][\A s \in Syncs :
          sync[s] = "enabled" /\ Held(override) /\ sync'[s] = "idle"
              => outside \/ Held(override')]_vars

\* control.py: PENDING_PAUSE "must never become a permanent dead-end when a
\* worker dies or incorrectly reports completion".  Provided that Guards and
\* syncs do not take the lease over and over, a pending hold ends.
PendingHoldEnds ==
    <>[](holder \notin Guards \cup Syncs) => (PendingHold ~> ~PendingHold)

(***************************************************************************)
(* What comments and messages of the repository say and the code does not  *)
(* do                                                                      *)
(***************************************************************************)

\* ttb_gmvmax_tasks.py: a terminal failure releases "the temporary
\* automatic-action hold".  Here: it never clears the hold of a pause that was
\* executed.
FailureReleasesPendingHold ==
    [][\A w \in Workers :
          pc[w] \in {"rejected", "retryable", "error"} /\ pc'[w] = "idle"
              /\ Executed(override)
              => override' = override]_vars

\* control.py: a later deliberate enable supersedes an unexecuted pause.
CancelledPauseNeverRuns ==
    \A w \in Workers :
        pc[w] \in {"remote", "answered"} => intent[claim[w]].status # "CANCELLED"

\* router_provider.py: the queued pause "will run as soon as the current
\* same-account request ends".  Here: with a single enable, which has entered
\* the lease before the pause is queued, the pause is not cancelled.
QueuedPauseOutlivesEarlierEnable ==
    \A i \in Intents, o \in Operators :
        []((Kind[o] = "enable" /\ pc[o] \in {"body", "remote"} /\ Unused(i)) =>
            [](intent[i].status # "CANCELLED"))

=============================================================================
