-------------------------- MODULE CampaignRebuild --------------------------
(***************************************************************************)
(* The Creative Guard's rebuild of a campaign.                             *)
(*                                                                         *)
(* A campaign whose creatives are worn out is replaced by a new one: the   *)
(* old campaign is paused, a replacement is created by DurableCreate,      *)
(* paused, given the strategy and the exclusions of the old one, and       *)
(* enabled.  Each step is a checkpoint, the phase, in the intent; a later  *)
(* cycle of the Guard resumes from there.  If the replacement was provably *)
(* not created the old campaign is enabled again, which is called          *)
(* compensation.                                                           *)
(*                                                                         *)
(* Meanwhile users pause and enable both campaigns and withdraw the        *)
(* Guard's permission by disabling the strategy of the old campaign.       *)
(* There is one key per old campaign.  The requests of DurableCreate are   *)
(* the cycles of the Guard, its recoverers the recovery scan.              *)
(***************************************************************************)
EXTENDS DurableCreate

VARIABLES
    phase,      \* [Keys -> the checkpoint of the key's intent]
    sourceOn,   \* keys whose old campaign is enabled at TikTok
    permitted,  \* keys whose old campaign has an enabled strategy
    held,       \* manual pause holds: pairs of a key and a side
    timely      \* keys whose frozen schedule is still far enough ahead

rebuild == <<phase, sourceOn, permitted, held, timely>>
vars == <<createVars, rebuild>>

Sides == {"old", "new"}

Resumable == {"PREPARED", "SUBMITTING", "UNKNOWN", "REMOTE_CREATED",
              "FINALIZING"}

\* Mutant: a cycle takes up only what it can resume.
RecoveryOnlyForgotten == {}

\* Mutant: a cycle also takes up what the create service has ended.
RecoveryOnlyEnded == {"COMPENSATION_PENDING", "FAILED_TERMINAL"}

RecoveryOnly == {"COMPENSATION_PENDING"}

\* Checkpoints that say that the Guard may have paused the old campaign.
PauseStarted == {"OLD_PAUSE_PENDING", "OLD_PAUSED", "COMPENSATION_PENDING"}

Init ==
    /\ CreateInit
    /\ phase = [k \in Keys |-> "none"]
    /\ sourceOn \in SUBSET Keys /\ permitted = Keys
    /\ held = {} /\ timely = Keys

SetPhase(g, value) == phase' = [phase EXCEPT ![target[g]] = value]
SameRebuild == UNCHANGED rebuild
SameSource == UNCHANGED <<sourceOn, permitted, held, timely>>

\* _assert_creative_guard_mutation_allowed for the old campaign.
Allowed(k) == k \in permitted /\ <<k, "old">> \notin held

\* A new rebuild needs an enabled campaign, one under way does not.
MayRebuild(k) == Allowed(k) /\ (intent[k] \in ActiveProduct \/ k \in sourceOn)

\* A checkpoint: the intent's state and phase are stored in one commit.
Store(g, state, value, label) ==
    /\ SetIntent(g, state) /\ SetPhase(g, value)
    /\ Commit(g) /\ Goto(g, label)
    /\ UNCHANGED <<strategy, tiktok>> /\ SameSource /\ Same

\* A checkpoint at which the rebuild ends without a replacement.
Terminate(g, value) ==
    /\ SetIntent(g, "FAILED_TERMINAL") /\ SetPhase(g, value)
    /\ CommitAndLeave(g)
    /\ UNCHANGED <<strategy, tiktok>> /\ SameSource /\ Same

\* The cycle gives up; the lease's exit rolls back.
GiveUp(g) == Leave(g) /\ SameSystem /\ SameRebuild /\ Same

------------------------------------------------------------------------------
(***************************************************************************)
(* Deciding                                                                *)
(***************************************************************************)

\* A cycle wants to rebuild the old campaign, or to recover its rebuild.
Begin(g, k) == Take(g, k, "deciding") /\ SameSystem /\ SameRebuild /\ Same

\* Mutant: permission may be withdrawn from any rebuild.
RevokeAny(g) ==
    /\ pc[g] = "deciding" /\ target[g] \notin permitted
    /\ intent[target[g]] \in Resumable \cup RecoveryOnly
    /\ Terminate(g, "PERMISSION_REVOKED")

\* Permission was withdrawn before anything was created.
Revoke(g) ==
    /\ pc[g] = "deciding" /\ target[g] \notin permitted
    /\ intent[target[g]] \in {"PREPARED", "COMPENSATION_PENDING"}
    /\ Terminate(g, "PERMISSION_REVOKED")

\* The safety pause of the replacement has failed before.
RetryQuarantine(g) ==
    /\ pc[g] = "deciding" /\ phase[target[g]] = "QUARANTINE_PENDING"
    /\ intent[target[g]] \in {"REMOTE_CREATED", "FINALIZING"}
    /\ Goto(g, "failing") /\ UNCHANGED lease
    /\ SameSystem /\ SameRebuild /\ Same

ResumeCompensation(g) ==
    /\ pc[g] = "deciding" /\ intent[target[g]] \in RecoveryOnly
    /\ Goto(g, "refused") /\ UNCHANGED lease
    /\ SameSystem /\ SameRebuild /\ Same

\* A new rebuild; its first checkpoint, PREPARED, decides nothing.
PrepareRebuild(g) ==
    /\ pc[g] = "deciding" /\ MayRebuild(target[g])
    /\ StoreIntent(g) /\ UNCHANGED control /\ SameRebuild

\* The rebuild goes on from its intent.
Continues(g) ==
    /\ pc[g] = "deciding" /\ MayRebuild(target[g])
    /\ intent[target[g]] \in Resumable
    /\ phase[target[g]] # "QUARANTINE_PENDING"

\* Nothing was sent, and there is not enough time left to quarantine a
\* replacement before its schedule begins.
Expire(g) ==
    LET k == target[g] IN
    /\ Continues(g) /\ intent[k] = "PREPARED" /\ k \notin timely
    /\ IF phase[k] \in PauseStarted
       THEN Store(g, "COMPENSATION_PENDING", "COMPENSATION_PENDING", "refused")
       ELSE Terminate(g, "SAFETY_WINDOW_EXPIRED_UNSENT")

\* The checkpoint before the first official write.
Checkpoint(g) ==
    LET k == target[g] IN
    /\ Continues(g) /\ (intent[k] = "PREPARED" => k \in timely)
    /\ Store(g, intent[k], "OLD_PAUSE_PENDING", "pausing")

\* Anything else holds the rebuild, as do a failed read or a lost race.
Hold(g) == pc[g] = "deciding" /\ GiveUp(g)

------------------------------------------------------------------------------
(***************************************************************************)
(* Replacing                                                               *)
(***************************************************************************)

\* Proved, then paused; a call that raises may have taken effect.
PauseOld(g) ==
    /\ pc[g] = "pausing" /\ holder = g /\ Allowed(target[g])
    /\ \/ /\ sourceOn' = sourceOn \ {target[g]}
          /\ Prove(g) /\ Goto(g, "oldPaused")
       \/ sourceOn' \in {sourceOn, sourceOn \ {target[g]}} /\ Leave(g)
    /\ SameSystem /\ UNCHANGED <<phase, permitted, held, timely>> /\ Same

PauseForbidden(g) ==
    /\ pc[g] = "pausing" /\ ~Allowed(target[g]) /\ GiveUp(g)

MarkOldPaused(g) ==
    /\ pc[g] = "oldPaused"
    /\ Store(g, intent[target[g]], "OLD_PAUSED", "entered")

\* The pause is confirmed, but its local row is missing.
OldPauseRaises(g) ==
    /\ pc[g] = "oldPaused" /\ RollBack(g) /\ Goto(g, "refused")
    /\ SameSystem /\ SameRebuild /\ Same

\* create_gmvmax_campaign, which knows nothing of the phases.
CreateReplacement(g) == (PrepareAgain(g) \/ CreateCall(g)) /\ SameRebuild

MarkCreatedForRebuild(g) ==
    /\ pc[g] = "row"
    /\ Store(g, "REMOTE_CREATED", "NEW_PAUSE_PENDING", "newPausing")

\* A status call on the replacement, proved before and after it.
PauseNew(g) ==
    /\ pc[g] = "newPausing" /\ holder = g
    /\ \/ Pause(target[g]) /\ Prove(g) /\ Goto(g, "disabled")
       \/ /\ Pause(target[g]) \/ UNCHANGED tiktok
          /\ RollBack(g) /\ Goto(g, "failing")
    /\ SameRows /\ SameRebuild /\ Same

\* The strategy is copied under quarantine before anything else is set up.
BeginFinalizing(g) ==
    /\ pc[g] = "disabled"
    /\ SetIntent(g, "FINALIZING") /\ SetPhase(g, "FINALIZING")
    /\ SetStrategy(g, "quarantined")
    /\ Commit(g) /\ Goto(g, "finalizing")
    /\ UNCHANGED tiktok /\ SameSource /\ Same

ExclusionsComplete(g) ==
    /\ pc[g] = "finalizing"
    /\ Store(g, "FINALIZING", "EXCLUSIONS_COMPLETE", "excluded")

\* Nobody has paused either campaign or withdrawn the permission.
CheckEnable(g) ==
    LET k == target[g] IN
    /\ pc[g] = "excluded"
    /\ Allowed(k) /\ <<k, "new">> \notin held
    /\ Store(g, "FINALIZING", "ENABLE_PENDING", "enabling")

\* Mutant: the call is not fenced, as in the router's create request.
EnableNewUnfenced(g) ==
    /\ pc[g] = "enabling"
    /\ Enable(target[g])
    /\ IF holder = g THEN Prove(g) /\ Goto(g, "enabled")
                     ELSE End(g) /\ UNCHANGED lease
    /\ SameRows /\ SameRebuild /\ Same

EnableNew(g) ==
    /\ pc[g] = "enabling" /\ holder = g
    /\ \/ Enable(target[g]) /\ Prove(g) /\ Goto(g, "enabled")
       \/ /\ Enable(target[g]) \/ UNCHANGED tiktok
          /\ RollBack(g) /\ Goto(g, "failing")
    /\ SameRows /\ SameRebuild /\ Same

\* The replacement takes over; the old strategy is disabled if so configured.
Complete(g) ==
    /\ pc[g] = "enabled" /\ strategy[target[g]] = "quarantined"
    /\ SetIntent(g, "SUCCEEDED") /\ SetPhase(g, "SUCCEEDED")
    /\ SetStrategy(g, "open")
    /\ permitted' \in {permitted, permitted \ {target[g]}}
    /\ CommitAndLeave(g)
    /\ UNCHANGED <<tiktok, sourceOn, held, timely>> /\ Same

\* Incomplete exclusions, a hold, a failed commit or check.
FinishingRaises(g) ==
    /\ pc[g] \in {"row", "newPausing", "disabled", "finalizing", "excluded",
                  "enabling", "enabled"}
    /\ RollBack(g) /\ Goto(g, "failing")
    /\ SameSystem /\ SameRebuild /\ Same

\* _quarantine_incomplete_recreated_campaign, which ends its transaction.
PauseReplacement(g) ==
    /\ pc[g] = "failing" /\ holder = g
    /\ \/ Pause(target[g]) /\ Goto(g, "paused")
       \/ (Pause(target[g]) \/ UNCHANGED tiktok) /\ Goto(g, "unpaused")
    /\ Commit(g) /\ SameRows /\ SameRebuild /\ Same

StoreQuarantine(g) ==
    /\ Quarantine(g) /\ SameSource
    /\ SetPhase(g, IF pc[g] = "paused" THEN "QUARANTINED"
                                       ELSE "QUARANTINE_PENDING")

StoreQuarantineFails(g) == QuarantineFails(g) /\ SameRebuild

------------------------------------------------------------------------------
(***************************************************************************)
(* Compensation                                                            *)
(***************************************************************************)

\* Mutant: any rebuild that was refused is compensated.
PauseStartedOnly(k) == phase[k] \in PauseStarted

\* The replacement was definitely not created, the old campaign perhaps
\* paused for it.
Compensable(k) ==
    /\ intent[k] \in {"PREPARED", "FAILED_TERMINAL", "COMPENSATION_PENDING"}
    /\ phase[k] \in PauseStarted

\* Mutant: compensation is begun without looking at holds.
BeginCompensationUnasked(g) ==
    /\ pc[g] = "refused" /\ Compensable(target[g])
    /\ Store(g, "COMPENSATION_PENDING", "COMPENSATION_PENDING", "compensating")

BeginCompensation(g) ==
    /\ pc[g] = "refused" /\ Compensable(target[g]) /\ Allowed(target[g])
    /\ Store(g, "COMPENSATION_PENDING", "COMPENSATION_PENDING", "compensating")

\* Not compensable, forbidden, or an exception.
NoCompensation(g) == pc[g] = "refused" /\ GiveUp(g)

EnableOld(g) ==
    /\ pc[g] = "compensating" /\ holder = g
    /\ \/ /\ sourceOn' = sourceOn \cup {target[g]}
          /\ Prove(g) /\ Goto(g, "restored")
       \/ sourceOn' \in {sourceOn, sourceOn \cup {target[g]}} /\ Leave(g)
    /\ SameSystem /\ UNCHANGED <<phase, permitted, held, timely>> /\ Same

Compensated(g) == pc[g] = "restored" /\ Terminate(g, "COMPENSATED")

CompensationRaises(g) == pc[g] = "restored" /\ GiveUp(g)

------------------------------------------------------------------------------
(***************************************************************************)
(* Users and time                                                          *)
(***************************************************************************)

\* Ordinary actions on the old campaign are refused.
SourceHeld(k) == intent[k] \notin {"none", "SUCCEEDED"}

\* Ordinary actions on the replacement are refused.
ReplacementHeld(k) ==
    \/ Known(k) /\ intent[k] # "SUCCEEDED"
    \/ strategy[k] = "quarantined"

Free == holder = Nobody /\ UNCHANGED <<lease, control, crashes, lapses>>

\* A manual pause, which may withdraw the permission as well.
UserPausesOld(k) ==
    /\ Free /\ sourceOn' = sourceOn \ {k} /\ held' = held \cup {<<k, "old">>}
    /\ permitted' \in {permitted, permitted \ {k}}
    /\ UNCHANGED <<intent, strategy, tiktok, phase, timely>>

UserPausesNew(k) ==
    /\ Free /\ made[k] > 0 /\ Pause(k) /\ held' = held \cup {<<k, "new">>}
    /\ UNCHANGED <<intent, strategy, phase, sourceOn, permitted, timely>>

\* Enabling a campaign lifts its hold.
UserEnablesOld(k) ==
    /\ Free /\ ~SourceHeld(k)
    /\ sourceOn' = sourceOn \cup {k} /\ held' = held \ {<<k, "old">>}
    /\ UNCHANGED <<intent, strategy, tiktok, phase, permitted, timely>>

UserEnablesNew(k) ==
    /\ Free /\ made[k] > 0 /\ ~ReplacementHeld(k)
    /\ Enable(k) /\ held' = held \ {<<k, "new">>}
    /\ UNCHANGED <<intent, strategy, phase, sourceOn, permitted, timely>>

\* The strategy editor on the old campaign.
UserEdits(k) ==
    /\ Free /\ ~SourceHeld(k)
    /\ permitted' \in {permitted \cup {k}, permitted \ {k}}
    /\ UNCHANGED <<intent, strategy, tiktok, phase, sourceOn, held, timely>>

UserStep(k) ==
    \/ UserPausesOld(k) \/ UserPausesNew(k)
    \/ UserEnablesOld(k) \/ UserEnablesNew(k) \/ UserEdits(k)

\* The frozen schedule comes too close.
TimePasses(k) ==
    /\ k \in timely /\ timely' = timely \ {k}
    /\ UNCHANGED <<createVars, phase, sourceOn, permitted, held>>

\* The scan takes up a rebuild when its cycle's checkpoint is five minutes
\* old or the Guard may not continue it, which it finds out without a lease.
ScanRebuild(c, k) == Scan(c, k) /\ SameRebuild

CycleStep(g) ==
    \/ Revoke(g) \/ RetryQuarantine(g) \/ ResumeCompensation(g)
    \/ PrepareRebuild(g) \/ Expire(g) \/ Checkpoint(g) \/ Hold(g)
    \/ PauseOld(g) \/ PauseForbidden(g) \/ MarkOldPaused(g)
    \/ OldPauseRaises(g) \/ CreateReplacement(g) \/ MarkCreatedForRebuild(g)
    \/ PauseNew(g) \/ BeginFinalizing(g) \/ ExclusionsComplete(g)
    \/ CheckEnable(g) \/ EnableNew(g) \/ Complete(g) \/ FinishingRaises(g)
    \/ PauseReplacement(g) \/ StoreQuarantine(g) \/ StoreQuarantineFails(g)
    \/ BeginCompensation(g) \/ NoCompensation(g) \/ EnableOld(g)
    \/ Compensated(g) \/ CompensationRaises(g)

Next ==
    \/ \E g \in Requests, k \in Keys : Begin(g, k)
    \/ \E g \in Requests : CycleStep(g)
    \/ \E c \in Recoverers, k \in Keys : ScanRebuild(c, k)
    \/ \E c \in Recoverers : ScanStep(c) /\ SameRebuild
    \/ \E k \in Keys : UserStep(k) \/ TimePasses(k)
    \/ Environment /\ SameRebuild

Spec == Init /\ [][Next]_vars

\* Every execution ends.  The Guard's cycle comes round to every rebuild;
\* its commits and TikTok's answer to the compensation succeed in the end.
Fairness ==
    /\ \A g \in Requests :
          /\ WF_vars(CycleStep(g) \/ (FenceLost(g) /\ SameRebuild))
          /\ \A k \in Keys : SF_vars(Begin(g, k))
          /\ SF_vars(Revoke(g)) /\ SF_vars(ResumeCompensation(g))
          /\ SF_vars(BeginCompensation(g))
          /\ SF_vars(EnableOld(g) /\ pc'[g] = "restored")
          /\ SF_vars(Compensated(g))
    /\ \A c \in Recoverers :
          WF_vars((ScanStep(c) \/ FenceLost(c)) /\ SameRebuild)
    /\ WF_vars(StaleLeaseExpires /\ SameRebuild)

FairSpec == Spec /\ Fairness

------------------------------------------------------------------------------
(***************************************************************************)
(* Properties                                                              *)
(***************************************************************************)

Phases == PauseStarted \cup
    {"none", "PERMISSION_REVOKED", "SAFETY_WINDOW_EXPIRED_UNSENT",
     "NEW_PAUSE_PENDING", "FINALIZING", "EXCLUSIONS_COMPLETE",
     "ENABLE_PENDING", "SUCCEEDED", "QUARANTINED", "QUARANTINE_PENDING",
     "COMPENSATED"}

\* Every variable has its type, and only a living execution has a proof.
TypeOK ==
    /\ CreateTypeOK
    /\ phase \in [Keys -> Phases] /\ sourceOn \subseteq Keys
    /\ permitted \subseteq Keys /\ timely \subseteq Keys
    /\ held \subseteq Keys \X Sides

\* The old campaign and its replacement, which sell the same products, never
\* run side by side before the rebuild has succeeded, even when TikTok
\* carries out a create call long after the Guard gave up on its answer.
NeverBoth ==
    \A k \in Keys : k \in sourceOn /\ k \in running => intent[k] = "SUCCEEDED"

\* The Guard never starts a campaign a user has paused: whoever starts one
\* under a hold lifts the hold.
ManualPauseStands ==
    [][\A k \in Keys :
          /\ (<<k, "old">> \in held /\ k \notin sourceOn /\ k \in sourceOn')
                => <<k, "old">> \notin held'
          /\ (<<k, "new">> \in held /\ k \notin running /\ k \in running')
                => <<k, "new">> \notin held']_vars

\* A quarantined replacement does not run, although leases lapse between the
\* transactions of living executions.
QuarantinedIsPaused ==
    \A k \in Keys : intent[k] = "QUARANTINED" => k \notin running

\* One replacement at most, and what a rebuild does without one is right: in
\* the states that say that nothing was created, nothing was, nor is a create
\* call still on its way.
NothingUnaccounted ==
    \A k \in Keys :
        /\ made[k] + (IF k \in late THEN 1 ELSE 0) <= 1
        /\ intent[k] \in {"PREPARED", "FAILED_TERMINAL", "COMPENSATION_PENDING"}
              => made[k] = 0 /\ k \notin late

\* The cycle whose create call was refused still has the lease, and may take
\* the rebuild up again to compensate for it.
Reconsidered(k) ==
    /\ intent[k] = "FAILED_TERMINAL"
    /\ \E g \in Requests : holder = g /\ target[g] = k /\ pc[g] = "refused"

ClaimOf(k) ==
    CASE intent[k] \in ActiveProduct \/ Reconsidered(k) -> "open"
      [] intent[k] = "SUCCEEDED" -> "done"
      [] intent[k] = "FAILED_TERMINAL" /\ ~Reconsidered(k) -> "refused"
      [] OTHER -> "free"

Claims == INSTANCE ProductClaims WITH
              Clashes <- {p \in Keys \X Keys : Overlap(p[1], p[2])},
              claim <- [k \in Keys |-> ClaimOf(k)]

\* Rebuilds keep the promise of ProductClaims as well, although they reopen
\* intents that the create service has ended: nobody else can claim their
\* products in between, a rebuild whose cycle loses the lease there stays
\* ended, and what is reopened has no campaign
\* (_compensate_old_campaign_after_unsent_rebuild).
ImplementsClaims == Claims!ClaimSpec

\* A compensation that was begun ends, unless a user has paused the campaign.
CompensationEnds ==
    \A k \in Keys :
        intent[k] = "COMPENSATION_PENDING" ~>
            intent[k] = "FAILED_TERMINAL" \/ <<k, "old">> \in held

=============================================================================
