---------------------------- MODULE CreateIntent ----------------------------
(***************************************************************************)
(* The create request of the router.                                       *)
(*                                                                         *)
(* The durable create of DurableCreate, then the finishing of the new      *)
(* campaign: it is paused, equipped with a strategy under quarantine, and  *)
(* enabled and released in one commit.  The client resumes an interrupted  *)
(* request by repeating it.  A request may name a campaign it replaces,    *)
(* the source, which users otherwise pause, enable and edit as they like.  *)
(***************************************************************************)
EXTENDS DurableCreate

CONSTANT Replacing      \* keys whose request names the source as replaced

ASSUME CreateReplaces == Replacing \subseteq Keys

VARIABLE sourceOn       \* the replaced campaign is enabled at TikTok

vars == <<createVars, sourceOn>>

\* Mutant: only a request that is being finished holds its campaign.
HeldWhileFinalizing(k) == intent[k] = "FINALIZING"

\* Ordinary actions on the new campaign are refused.
CampaignHeld(k) ==
    \/ Known(k) /\ intent[k] # "SUCCEEDED"
    \/ strategy[k] = "quarantined"

\* Ordinary actions on the replaced campaign are refused.
SourceHeld == \E k \in Replacing : intent[k] \notin {"none", "SUCCEEDED"}

Init == CreateInit /\ sourceOn \in BOOLEAN

------------------------------------------------------------------------------
(***************************************************************************)
(* The request                                                             *)
(***************************************************************************)

\* A request with key k takes the lease; the client may repeat it for ever.
Enter(r, k) == Take(r, k, "entered") /\ SameSystem /\ Same

\* A replaced campaign must be paused when its replacement is prepared.
ReplacementValid(k) == k \in Replacing => ~sourceOn

Prepare(r) ==
    /\ pc[r] = "entered" /\ ReplacementValid(target[r])
    /\ StoreIntent(r) /\ Goto(r, "prepared")

\* The intent is still PREPARED; the source is checked again.
Repeat(r) == ReplacementValid(target[r]) /\ PrepareAgain(r)

\* The create has raised, or its intent has succeeded before.
Reply(r) ==
    /\ \/ pc[r] = "refused"
       \/ pc[r] = "row" /\ intent[target[r]] = "SUCCEEDED"
    /\ Leave(r) /\ SameSystem /\ Same

------------------------------------------------------------------------------
(***************************************************************************)
(* Finishing, under quarantine                                             *)
(***************************************************************************)

\* A status call is answered and proved afterwards; the execution goes on if
\* it still owns the lease.  The router does not prove before these calls.
AnsweredThenProved(r, label) ==
    IF holder = r
    THEN Prove(r) /\ Goto(r, label)
    ELSE End(r) /\ UNCHANGED lease

\* The call raises; it may have taken effect.
CallRaises(r) ==
    /\ Goto(r, "failing") /\ RollBack(r)

PauseNew(r) ==
    /\ pc[r] = "row" /\ intent[target[r]] # "SUCCEEDED"
    /\ \/ Pause(target[r]) /\ AnsweredThenProved(r, "disabled")
       \/ (Pause(target[r]) \/ UNCHANGED tiktok) /\ CallRaises(r)
    /\ SameRows /\ Same

\* The strategy is disabled and marked before anything else is set up.
BeginFinalizing(r) ==
    /\ pc[r] = "disabled"
    /\ SetIntent(r, "FINALIZING")
    /\ SetStrategy(r, "quarantined")
    /\ Commit(r) /\ Goto(r, "finalizing")
    /\ UNCHANGED tiktok /\ Same

\* After the exclusions, which commit nothing of the intent.
EnableNew(r) ==
    /\ pc[r] = "finalizing"
    /\ \/ Enable(target[r]) /\ AnsweredThenProved(r, "enabled")
       \/ (Enable(target[r]) \/ UNCHANGED tiktok) /\ CallRaises(r)
    /\ SameRows /\ Same

\* Mutant: the intent succeeds first, the quarantine is lifted later.
CompleteIntentOnly(r) ==
    /\ pc[r] = "enabled"
    /\ SetIntent(r, "SUCCEEDED")
    /\ CommitAndLeave(r)
    /\ UNCHANGED <<strategy, tiktok>> /\ Same

\* The strategy as the request wants it: enabled or not.
Complete(r) ==
    /\ pc[r] = "enabled"
    /\ SetIntent(r, "SUCCEEDED")
    /\ SetStrategy(r, "open")
    /\ CommitAndLeave(r)
    /\ UNCHANGED tiktok /\ Same

\* Anything else raises once there is a campaign: roll back.
FinishingRaises(r) ==
    /\ pc[r] \in {"row", "disabled", "finalizing", "enabled"}
    /\ pc[r] = "row" => intent[target[r]] # "SUCCEEDED"
    /\ CallRaises(r) /\ SameSystem /\ Same

------------------------------------------------------------------------------
(***************************************************************************)
(* Users                                                                   *)
(***************************************************************************)

\* Mutant: only campaigns that an intent created are refused.
EnableSourceUnheld ==
    /\ holder = Nobody /\ sourceOn' = TRUE
    /\ UNCHANGED <<intent, strategy, tiktok, lease, control>> /\ Same

\* The status action on the replaced campaign, under its own lease.
EnableSource ==
    /\ holder = Nobody /\ ~SourceHeld /\ sourceOn' = TRUE
    /\ UNCHANGED <<intent, strategy, tiktok, lease, control>> /\ Same

PauseSource ==
    /\ holder = Nobody /\ sourceOn' = FALSE
    /\ UNCHANGED <<intent, strategy, tiktok, lease, control>> /\ Same

\* The strategy editor on a campaign that exists.
EditStrategy(k) ==
    /\ holder = Nobody /\ made[k] > 0 /\ ~CampaignHeld(k)
    /\ strategy' = [strategy EXCEPT ![k] = "open"]
    /\ UNCHANGED <<intent, sourceOn, tiktok, lease, control>> /\ Same

Operate == EnableSource \/ PauseSource \/ \E k \in Keys : EditStrategy(k)

RequestStep(r) ==
    \/ Prepare(r) \/ Repeat(r) \/ CreateCall(r) \/ Reply(r)
    \/ PauseNew(r) \/ BeginFinalizing(r) \/ EnableNew(r) \/ Complete(r)
    \/ FinishingRaises(r) \/ QuarantineStep(r)

Workflow ==
    \/ \E r \in Requests, k \in Keys : Enter(r, k)
    \/ \E r \in Requests : RequestStep(r)
    \/ \E c \in Recoverers, k \in Keys : Scan(c, k)
    \/ \E c \in Recoverers : ScanStep(c)
    \/ Environment

Next == (Workflow /\ UNCHANGED sourceOn) \/ Operate

Spec == Init /\ [][Next]_vars

\* An execution that has begun ends; the scan comes round to every candidate,
\* and its reads, its pause and its commit succeed in the end.
Fairness ==
    /\ \A r \in Requests : WF_createVars(RequestStep(r) \/ FenceLost(r))
    /\ \A c \in Recoverers :
          /\ WF_createVars(ScanStep(c) \/ FenceLost(c))
          /\ \A k \in Keys : SF_createVars(Scan(c, k))
          /\ SF_createVars(Confirm(c))
          /\ SF_createVars(SafetyPause(c) /\ pc'[c] = "paused")
          /\ SF_createVars(pc[c] = "paused" /\ Quarantine(c))
    /\ WF_createVars(StaleLeaseExpires)

FairSpec == Spec /\ Fairness

------------------------------------------------------------------------------
(***************************************************************************)
(* Properties                                                              *)
(***************************************************************************)

\* Every variable has its type, and only a living execution has a proof.
TypeOK == CreateTypeOK /\ sourceOn \in BOOLEAN

\* create_gmvmax_campaign, its client and the scan together keep the promise
\* of ProductClaims: no matter what is repeated, lost, late or interrupted, a
\* key gets one campaign at most, products have one unfinished request at
\* most, and an ended request stays ended.
ClaimOf(k) ==
    CASE intent[k] \in ActiveProduct -> "open"
      [] intent[k] = "SUCCEEDED" -> "done"
      [] intent[k] = "FAILED_TERMINAL" -> "refused"
      [] OTHER -> "free"

Claims == INSTANCE ProductClaims WITH
              Clashes <- {p \in Keys \X Keys : Overlap(p[1], p[2])},
              claim <- [k \in Keys |-> ClaimOf(k)]

ImplementsClaims == Claims!ClaimSpec

\* A campaign that is being replaced stays paused until its replacement is
\* finished: Prepare's check is not repeated, so every action that could
\* start the campaign must look at the intents.
SourceStaysPaused ==
    \A k \in Replacing : intent[k] \in ActiveProduct => ~sourceOn

\* A campaign is quarantined only after its pause was confirmed, and nothing
\* starts it as long as leases outlive their executions.
QuarantinedIsPaused ==
    lapses = 0 => \A k \in Keys : intent[k] = "QUARANTINED" => k \notin running

\* As long as a campaign is being finished or quarantined its strategy says
\* so: the mark outlives every interruption and no editor removes it.
UnfinishedIsMarked ==
    \A k \in Keys :
        intent[k] \in {"FINALIZING", "QUARANTINED"} => strategy[k] = "quarantined"

\* A finished campaign runs and is open to the strategy editor; the stores of
\* the intent and of its strategy's mark do not drift apart.
SuccessIsComplete ==
    \A k \in Keys : intent[k] = "SUCCEEDED" =>
        strategy[k] # "quarantined" /\ (lapses = 0 => k \in running)

\* A campaign whose request was interrupted is not left running without an
\* owner: it is quarantined or finished in the end.
CreateSettles ==
    \A k \in Keys :
        (made[k] = 1 /\ intent[k] \in Pending \cup {"REMOTE_CREATED", "FINALIZING"})
            ~> intent[k] \in {"QUARANTINED", "SUCCEEDED"}

------------------------------------------------------------------------------
(***************************************************************************)
(* What comments and messages say and the code does not do                 *)
(***************************************************************************)

\* The execution boundary fences "every official GMV Max mutation": nobody
\* enables a campaign another execution has quarantined meanwhile.
QuarantineHolds ==
    \A k \in Keys : intent[k] = "QUARANTINED" => k \notin running

\* The refusal of an action on a replaced campaign tells the user to "resume
\* the original create request": there is one to resume.
HeldSourceCanBeFreed ==
    SourceHeld =>
        \E k \in Replacing :
            intent[k] \notin {"none", "SUCCEEDED", "FAILED_TERMINAL"}

=============================================================================

