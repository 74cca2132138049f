--------------------------- MODULE DurableCreate ---------------------------
(***************************************************************************)
(* Durable creation of GMV Max campaigns.                                  *)
(*                                                                         *)
(* TikTok's create call has no transaction and its reply can be lost, so a *)
(* create request is first stored as an intent under an idempotency key.   *)
(* The intent is marked SUBMITTING before the call; whatever happens then, *)
(* the call is not repeated unless it provably was not sent.  A scan finds *)
(* the campaigns of interrupted requests by their name marker, pauses them *)
(* and marks them as quarantined.                                          *)
(*                                                                         *)
(* This module has what the two workflows around it share: the create      *)
(* call of the service, the safety pause, and the scan.  CreateIntent adds *)
(* the router's create request, CampaignRebuild the Creative Guard's       *)
(* rebuild of a campaign.                                                  *)
(*                                                                         *)
(* All of it runs under the mutation lease of MutationLease, reduced to    *)
(* its holder and to whether the holder's open transaction has proved, and *)
(* thereby locked, the lease rows.  While it has, nobody can take over.    *)
(***************************************************************************)
EXTENDS Naturals, FiniteSets

CONSTANTS
    Keys,           \* idempotency keys, one logical create each
    Items,          \* product item groups
    Product,        \* the item groups a key's request advertises
    Requests,       \* executions that create: web requests, Guard cycles
    Recoverers,     \* executions of the recovery scan
    Nobody,
    Stale,          \* holds a lease whose process died
    MaxCrashes,     \* bound on process deaths
    MaxLapses       \* bound on leases that expire under a living process

Execs == Requests \cup Recoverers

ASSUME CreateKinds ==
    /\ Requests \cap Recoverers = {}
    /\ Nobody \notin Execs \cup Keys /\ Stale \notin Execs \cup {Nobody}
ASSUME CreateScopes == Product \in [Keys -> SUBSET Items]
ASSUME CreateBounds == MaxCrashes \in Nat /\ MaxLapses \in Nat

VARIABLES
    intent,     \* [Keys -> the state of its row, or "none"]
    made,       \* [Keys -> how many campaigns TikTok made for the key]
    late,       \* keys whose create call TikTok may still carry out
    running,    \* keys whose campaign is enabled at TikTok
    strategy,   \* [Keys -> the strategy row of its campaign]
    holder,     \* who holds the mutation lease
    proved,     \* its open transaction holds the lease row locks
    pc,
    target,     \* [Execs -> the key it works on, or Nobody]
    crashes, lapses

lease == <<holder, proved>>
control == <<pc, target>>
tiktok == <<made, late, running>>
createVars == <<intent, tiktok, strategy, lease, control, crashes, lapses>>

------------------------------------------------------------------------------
(***************************************************************************)
(* States                                                                  *)
(***************************************************************************)

Pending == {"SUBMITTING", "UNKNOWN"}
RemoteStates == {"REMOTE_CREATED", "FINALIZING", "QUARANTINED", "SUCCEEDED"}

\* Mutant: the scan takes a call without an answer for one that failed.
RecoverableAnswered == {"SUBMITTING", "REMOTE_CREATED", "FINALIZING"}

\* The states the recovery scan takes up.
Recoverable == {"SUBMITTING", "UNKNOWN", "REMOTE_CREATED", "FINALIZING"}
ActiveProduct == {"PREPARED", "SUBMITTING", "UNKNOWN", "REMOTE_CREATED",
                  "FINALIZING", "QUARANTINE_PENDING", "QUARANTINED",
                  "COMPENSATION_PENDING"}
States == ActiveProduct \cup {"SUCCEEDED", "FAILED_TERMINAL"}

\* A request without item groups advertises the whole shop.
Overlap(k, l) ==
    Product[k] = {} \/ Product[l] = {} \/ Product[k] \cap Product[l] # {}

\* Another unfinished intent owns (part of) the product scope.
Blocking(k) ==
    \E l \in Keys \ {k} : intent[l] \in ActiveProduct /\ Overlap(k, l)

\* The row has a campaign_id; it is stored with each of these states.
Known(k) == intent[k] \in RemoteStates

\* The marker in the campaign name finds exactly one campaign.
Unique(k) == made[k] = 1

CreateInit ==
    /\ intent = [k \in Keys |-> "none"]
    /\ made = [k \in Keys |-> 0] /\ late = {} /\ running = {}
    /\ strategy = [k \in Keys |-> "none"]
    /\ holder = Nobody /\ proved = FALSE
    /\ pc = [e \in Execs |-> "idle"]
    /\ target = [e \in Execs |-> Nobody]
    /\ crashes = 0 /\ lapses = 0

------------------------------------------------------------------------------
(***************************************************************************)
(* The lease                                                               *)
(***************************************************************************)

Goto(e, label) == pc' = [pc EXCEPT ![e] = label] /\ UNCHANGED target

\* Take the lease for key k.  A taken lease refuses without effect.
Take(e, k, label) ==
    /\ pc[e] = "idle" /\ holder = Nobody
    /\ holder' = e /\ proved' = FALSE
    /\ pc' = [pc EXCEPT ![e] = label] /\ target' = [target EXCEPT ![e] = k]

\* mutation.assert_current: both lease rows are locked until the commit.
Prove(e) == holder = e /\ proved' = TRUE /\ UNCHANGED holder

\* mutation.commit, or execution_guard followed by db.commit.
Commit(e) == holder = e /\ proved' = FALSE /\ UNCHANGED holder

\* The transaction is rolled back, whoever holds the lease.
RollBack(e) == holder' = holder /\ proved' = (proved /\ holder # e)

End(e) ==
    pc' = [pc EXCEPT ![e] = "idle"] /\ target' = [target EXCEPT ![e] = Nobody]

\* The transaction is over, and the lease with it if it is still e's.
Leave(e) ==
    /\ holder' = IF holder = e THEN Nobody ELSE holder
    /\ proved' = IF holder = e THEN FALSE ELSE proved
    /\ End(e)

\* The last commit of an execution, under its own lease, and its end.
CommitAndLeave(e) == holder = e /\ Leave(e)

SetIntent(e, state) == intent' = [intent EXCEPT ![target[e]] = state]
SetStrategy(e, value) == strategy' = [strategy EXCEPT ![target[e]] = value]

Same == UNCHANGED <<crashes, lapses>>
SameRows == UNCHANGED <<intent, strategy>>
SameSystem == UNCHANGED <<intent, strategy, tiktok>>

\* The next proof finds that somebody else owns the lease.
FenceLost(e) ==
    /\ pc[e] # "idle" /\ holder # e
    /\ End(e) /\ UNCHANGED lease /\ SameSystem /\ Same

------------------------------------------------------------------------------
(***************************************************************************)
(* create_gmvmax_campaign                                                  *)
(***************************************************************************)

\* prepare_gmvmax_create_intent stores a new intent.
StoreIntent(r) ==
    /\ intent[target[r]] = "none" /\ ~Blocking(target[r])
    /\ SetIntent(r, "PREPARED") /\ Commit(r)
    /\ UNCHANGED <<strategy, tiktok>> /\ Same

\* prepare_gmvmax_create_intent finds the intent still PREPARED.
PrepareAgain(r) ==
    /\ pc[r] = "entered" /\ intent[target[r]] = "PREPARED"
    /\ Goto(r, "prepared") /\ UNCHANGED lease /\ SameSystem /\ Same

\* The states in which the create call may have been made already.
MayExist == Pending \cup RemoteStates

\* The request was made before: look for its campaign, never call again.
Resume(r) ==
    LET k == target[r] IN
    /\ pc[r] = "entered" /\ intent[k] \in MayExist /\ Unique(k)
    /\ IF intent[k] \in Pending
       THEN SetIntent(r, "REMOTE_CREATED")
       ELSE UNCHANGED intent
    /\ Commit(r) /\ Goto(r, "row")
    /\ UNCHANGED <<strategy, tiktok>> /\ Same

\* A business rejection before the call proves that nothing was sent.
PreflightRejects(r) ==
    /\ pc[r] = "prepared" /\ intent[target[r]] = "PREPARED"
    /\ SetIntent(r, "FAILED_TERMINAL") /\ Commit(r) /\ Goto(r, "refused")
    /\ UNCHANGED <<strategy, tiktok>> /\ Same

\* The intent is read again, locked, and marked before the call.
Submit(r) ==
    /\ pc[r] = "prepared" /\ intent[target[r]] = "PREPARED"
    /\ SetIntent(r, "SUBMITTING") /\ Commit(r) /\ Goto(r, "submitting")
    /\ UNCHANGED <<strategy, tiktok>> /\ Same

\* TikTok makes a campaign, which runs from the start.
TikTokCreates(k) ==
    /\ made' = [made EXCEPT ![k] = @ + 1] /\ running' = running \cup {k}

\* The call is proved and answered.
Post(r) ==
    /\ pc[r] = "submitting" /\ Prove(r) /\ Goto(r, "answered")
    /\ TikTokCreates(target[r]) /\ UNCHANGED late
    /\ SameRows /\ Same

\* The call is proved and raises, which leaves its outcome open: TikTok has
\* made the campaign, or may yet make it, or never does.
PostAmbiguous(r) ==
    /\ pc[r] = "submitting" /\ Commit(r) /\ Goto(r, "ambiguous")
    /\ \/ TikTokCreates(target[r]) /\ UNCHANGED late
       \/ late' = late \cup {target[r]} /\ UNCHANGED <<made, running>>
       \/ UNCHANGED tiktok
    /\ SameRows /\ Same

\* The rate limit budget is exhausted: nothing was sent.
PostNotSent(r) ==
    /\ pc[r] = "submitting"
    /\ SetIntent(r, "PREPARED") /\ Commit(r) /\ Goto(r, "refused")
    /\ UNCHANGED <<strategy, tiktok>> /\ Same

\* TikTok's error code says that it refused the request.
PostRejected(r) ==
    /\ pc[r] = "submitting"
    /\ SetIntent(r, "FAILED_TERMINAL") /\ Commit(r) /\ Goto(r, "refused")
    /\ UNCHANGED <<strategy, tiktok>> /\ Same

MarkCreated(r) ==
    /\ pc[r] = "answered"
    /\ SetIntent(r, "REMOTE_CREATED") /\ Commit(r) /\ Goto(r, "row")
    /\ UNCHANGED <<strategy, tiktok>> /\ Same

\* Mutant: a call without an answer is taken for one that was not sent.
AmbiguousIsNotSent == "PREPARED"

\* What follows a create call whose outcome is open.
AmbiguousState == "UNKNOWN"

MarkUnknown(r) ==
    /\ pc[r] = "ambiguous"
    /\ SetIntent(r, AmbiguousState) /\ Commit(r) /\ Goto(r, "unknown")
    /\ UNCHANGED <<strategy, tiktok>> /\ Same

\* The campaign of an ambiguous call is found at once.
ConfirmUnknown(r) ==
    /\ pc[r] = "unknown" /\ Unique(target[r])
    /\ SetIntent(r, "REMOTE_CREATED") /\ Commit(r) /\ Goto(r, "row")
    /\ UNCHANGED <<strategy, tiktok>> /\ Same

\* Any other exception: a blocked or failed check, a failed read, a reply
\* that cannot be stored.
CreateRaises(r) ==
    /\ pc[r] \in {"entered", "prepared", "answered", "unknown"}
    /\ RollBack(r) /\ Goto(r, "refused") /\ SameSystem /\ Same

\* The create from the stored or resumed intent on; Prepare comes before.
CreateCall(r) ==
    \/ Resume(r) \/ PreflightRejects(r) \/ Submit(r)
    \/ Post(r) \/ PostAmbiguous(r) \/ PostNotSent(r) \/ PostRejected(r)
    \/ MarkCreated(r) \/ MarkUnknown(r) \/ ConfirmUnknown(r)
    \/ CreateRaises(r)

------------------------------------------------------------------------------
(***************************************************************************)
(* Safety pause and quarantine                                             *)
(***************************************************************************)

Pause(k) == running' = running \ {k} /\ UNCHANGED <<made, late>>
Enable(k) == running' = running \cup {k} /\ UNCHANGED <<made, late>>

\* Proved, then paused; the pause is confirmed or raises.
SafetyPause(e) ==
    /\ pc[e] \in {"failing", "found"} /\ holder = e /\ UNCHANGED holder
    /\ \/ Pause(target[e]) /\ proved' = TRUE /\ Goto(e, "paused")
       \/ /\ Pause(target[e]) \/ UNCHANGED tiktok
          /\ proved' = FALSE /\ Goto(e, "unpaused")
    /\ SameRows /\ Same

\* Mutant: an unconfirmed pause is stored as a quarantine.
QuarantineUnconfirmed(e) ==
    /\ pc[e] \in {"paused", "unpaused"}
    /\ e \in Recoverers => intent[target[e]] \in Recoverable
    /\ SetIntent(e, "QUARANTINED") /\ SetStrategy(e, "quarantined")
    /\ CommitAndLeave(e)
    /\ UNCHANGED tiktok /\ Same

\* The outcome of the safety pause, the disabled strategy and its mark are
\* stored together.
Quarantine(e) ==
    /\ pc[e] \in {"paused", "unpaused"}
    /\ e \in Recoverers => intent[target[e]] \in Recoverable
    /\ SetIntent(e, IF pc[e] = "paused" THEN "QUARANTINED"
                                        ELSE "REMOTE_CREATED")
    /\ SetStrategy(e, "quarantined")
    /\ CommitAndLeave(e)
    /\ UNCHANGED tiktok /\ Same

\* The outcome cannot be stored, or the row has moved on.
QuarantineFails(e) ==
    /\ pc[e] \in {"paused", "unpaused"}
    /\ Leave(e) /\ SameSystem /\ Same

QuarantineStep(e) == SafetyPause(e) \/ Quarantine(e) \/ QuarantineFails(e)

------------------------------------------------------------------------------
(***************************************************************************)
(* The recovery scan, which never creates                                  *)
(***************************************************************************)

\* A candidate of the scan, with the lease taken for it.
Scan(c, k) ==
    /\ intent[k] \in Recoverable /\ Take(c, k, "scanned")
    /\ SameSystem /\ Same

\* The official listing and detail agree on one campaign.
Confirm(c) ==
    /\ pc[c] = "scanned"
    /\ intent[target[c]] \in Recoverable /\ Unique(target[c])
    /\ SetIntent(c, "REMOTE_CREATED") /\ Commit(c) /\ Goto(c, "found")
    /\ UNCHANGED <<strategy, tiktok>> /\ Same

\* No campaign, several, or a failed read.
NotConfirmed(c) ==
    /\ pc[c] = "scanned" /\ Leave(c) /\ SameSystem /\ Same

ScanStep(c) == Confirm(c) \/ NotConfirmed(c) \/ QuarantineStep(c)

------------------------------------------------------------------------------
(***************************************************************************)
(* The environment                                                         *)
(***************************************************************************)

\* TikTok carries out a call whose sender gave up on it.
LateCreate(k) ==
    /\ k \in late /\ late' = late \ {k} /\ TikTokCreates(k)
    /\ SameRows /\ UNCHANGED <<lease, control>> /\ Same

\* The process dies; its transaction is rolled back, its lease remains.
Crash(e) ==
    /\ pc[e] # "idle" /\ crashes < MaxCrashes /\ crashes' = crashes + 1
    /\ End(e)
    /\ holder' = IF holder = e THEN Stale ELSE holder
    /\ proved' = IF holder = e THEN FALSE ELSE proved
    /\ SameSystem /\ UNCHANGED lapses

\* The TTL of a dead execution's lease runs out.
StaleLeaseExpires ==
    /\ holder = Stale /\ holder' = Nobody
    /\ SameSystem /\ UNCHANGED <<proved, control>> /\ Same

\* A living execution stalls between two transactions until its lease ends.
LeaseLapses ==
    /\ holder \in Execs /\ ~proved
    /\ lapses < MaxLapses /\ lapses' = lapses + 1
    /\ holder' = Nobody
    /\ SameSystem /\ UNCHANGED <<proved, control, crashes>>

Environment ==
    \/ \E k \in Keys : LateCreate(k)
    \/ \E e \in Execs : Crash(e) \/ FenceLost(e)
    \/ StaleLeaseExpires \/ LeaseLapses

------------------------------------------------------------------------------
(***************************************************************************)
(* Types                                                                   *)
(***************************************************************************)

\* Where executions are, in both workflows.
Labels ==
    {"idle", "entered", "prepared", "submitting", "answered", "ambiguous",
     "unknown", "row", "disabled", "finalizing", "enabled", "refused",
     "failing", "scanned", "found", "paused", "unpaused",
     "deciding", "pausing", "oldPaused", "newPausing", "excluded", "enabling",
     "compensating", "restored"}

\* Only a living execution has a proof, and a working one a key.
CreateTypeOK ==
    /\ intent \in [Keys -> States \cup {"none"}]
    /\ made \in [Keys -> Nat] /\ late \subseteq Keys /\ running \subseteq Keys
    /\ strategy \in [Keys -> {"none", "open", "quarantined"}]
    /\ holder \in Execs \cup {Nobody, Stale} /\ proved \in BOOLEAN
    /\ proved => holder \in Execs
    /\ pc \in [Execs -> Labels] /\ target \in [Execs -> Keys \cup {Nobody}]
    /\ \A e \in Execs : pc[e] = "idle" <=> target[e] = Nobody
    /\ crashes \in 0 .. MaxCrashes /\ lapses \in 0 .. MaxLapses

=============================================================================
