------------------------ MODULE DurableCreateProofs ------------------------
(***************************************************************************)
(* What the actions of DurableCreate preserve, for every set of keys,      *)
(* requests and recoverers and any number of crashes and lapsed leases.    *)
(* CreateIntentProofs and CampaignRebuildProofs build on these lemmas.     *)
(***************************************************************************)
EXTENDS DurableCreate, TLAPS

USE CreateKinds, CreateBounds DEF Execs

\* What an intent's state says about TikTok: nothing was created, exactly one
\* campaign was, or the outcome is open.
KeyOK(k) ==
    /\ made[k] \in 0 .. 1
    /\ k \in late => made[k] = 0 /\ intent[k] \in Pending
    /\ k \in running => made[k] = 1
    /\ intent[k] \in {"none", "PREPARED", "FAILED_TERMINAL",
                      "COMPENSATION_PENDING"} => made[k] = 0
    /\ intent[k] \in RemoteStates => made[k] = 1

\* Where an execution has seen the campaign of its key.
Seen == {"answered", "row", "newPausing", "disabled", "finalizing", "excluded",
         "enabling", "enabled", "failing", "found", "paused", "unpaused"}

\* What the owner of the lease knows of its intent.
OwnerOK(e) ==
    LET k == target[e] IN
    /\ pc[e] = "submitting" =>
          intent[k] = "SUBMITTING" /\ made[k] = 0 /\ k \notin late
    /\ pc[e] \in {"answered", "ambiguous"} => intent[k] = "SUBMITTING"
    /\ pc[e] = "unknown" => intent[k] = "UNKNOWN"
    /\ pc[e] = "row" => intent[k] \in RemoteStates
    /\ pc[e] \in {"newPausing", "disabled", "failing", "found", "paused",
                  "unpaused"} => intent[k] \in RemoteStates \ {"SUCCEEDED"}
    /\ pc[e] \in {"finalizing", "excluded", "enabling", "enabled"} =>
          intent[k] = "FINALIZING"

ExecOK(e) ==
    /\ pc[e] \in Seen => made[target[e]] = 1
    /\ holder = e => OwnerOK(e)

CreateInv ==
    /\ CreateTypeOK
    /\ \A k \in Keys : KeyOK(k)
    /\ \A e \in Execs : ExecOK(e)

------------------------------------------------------------------------------
(***************************************************************************)
(* Building blocks                                                         *)
(***************************************************************************)

\* Executions between "idle" and their end have a key.
LEMMA TargetIsKey ==
    ASSUME CreateTypeOK, NEW e \in Execs, pc[e] # "idle"
    PROVE  target[e] \in Keys
BY DEF CreateTypeOK

\* Nothing has happened yet.
LEMMA InitInv == CreateInit => CreateInv
<1> SUFFICES ASSUME CreateInit PROVE CreateInv
  OBVIOUS
<1>1. CreateTypeOK
  <2> USE DEF CreateInit
  <2>1. intent \in [Keys -> States \cup {"none"}]
    OBVIOUS
  <2>2. made \in [Keys -> Nat] /\ late \subseteq Keys /\ running \subseteq Keys
    OBVIOUS
  <2>3. strategy \in [Keys -> {"none", "open", "quarantined"}]
    OBVIOUS
  <2>4. holder \in Execs \cup {Nobody, Stale} /\ proved = FALSE
    OBVIOUS
  <2>5. pc \in [Execs -> Labels] /\ target \in [Execs -> Keys \cup {Nobody}]
    BY DEF Labels
  <2>6. \A e \in Execs : pc[e] = "idle" <=> target[e] = Nobody
    OBVIOUS
  <2>7. crashes \in 0 .. MaxCrashes /\ lapses \in 0 .. MaxLapses
    OBVIOUS
  <2>8. QED BY <2>1, <2>2, <2>3, <2>4, <2>5, <2>6, <2>7 DEF CreateTypeOK
<1>2. \A k \in Keys : KeyOK(k)
  BY DEF CreateInit, KeyOK, RemoteStates
<1>3. \A e \in Execs : ExecOK(e)
  BY DEF CreateInit, ExecOK, OwnerOK, Seen
<1>4. QED BY <1>1, <1>2, <1>3 DEF CreateInv

\* The create call of the service.
LEMMA CreateCallInv ==
    ASSUME CreateInv, NEW r \in Requests, CreateCall(r)
    PROVE  CreateInv'
<1> USE DEF Commit, Goto, SetIntent, SameRows, SameSystem, Same, tiktok, lease
<1>1. pc[r] # "idle" /\ target[r] \in Keys
  <2>1. pc[r] # "idle"
    BY DEF CreateCall, Resume, PreflightRejects, Submit, Post, PostAmbiguous, PostNotSent,
           PostRejected, MarkCreated, MarkUnknown, ConfirmUnknown, CreateRaises
  <2>2. QED BY <2>1, TargetIsKey DEF CreateInv
<1>2. CASE Resume(r)
  <2> USE <1>2 DEF Resume, MayExist, Unique
  <2>1. CreateTypeOK'
    <3>1. intent' \in [Keys -> States \cup {"none"}]
      BY <1>1 DEF CreateInv, CreateTypeOK, States, ActiveProduct
    <3>2. pc' \in [Execs -> Labels]
      BY <1>1 DEF CreateInv, CreateTypeOK, Labels
    <3>3. QED BY <1>1, <3>1, <3>2 DEF CreateInv, CreateTypeOK
  <2>2. ASSUME NEW k \in Keys PROVE KeyOK(k)'
    BY <1>1 DEF CreateInv, CreateTypeOK, KeyOK, Pending, RemoteStates
  <2>3. ASSUME NEW e \in Execs PROVE ExecOK(e)'
    BY <1>1 DEF CreateInv, CreateTypeOK, KeyOK, ExecOK, OwnerOK, Pending, RemoteStates, Seen
  <2>4. QED BY <2>1, <2>2, <2>3 DEF CreateInv
<1>3. CASE PreflightRejects(r)
  <2> USE <1>3 DEF PreflightRejects
  <2>1. CreateTypeOK'
    BY <1>1 DEF CreateInv, CreateTypeOK, Labels, States, ActiveProduct
  <2>2. ASSUME NEW k \in Keys PROVE KeyOK(k)'
    BY <1>1 DEF CreateInv, CreateTypeOK, KeyOK, Pending, RemoteStates
  <2>3. ASSUME NEW e \in Execs PROVE ExecOK(e)'
    BY <1>1 DEF CreateInv, CreateTypeOK, KeyOK, ExecOK, OwnerOK, Pending, RemoteStates, Seen
  <2>4. QED BY <2>1, <2>2, <2>3 DEF CreateInv
<1>4. CASE Submit(r)
  <2> USE <1>4 DEF Submit
  <2>1. CreateTypeOK'
    BY <1>1 DEF CreateInv, CreateTypeOK, Labels, States, ActiveProduct
  <2>2. ASSUME NEW k \in Keys PROVE KeyOK(k)'
    BY <1>1 DEF CreateInv, CreateTypeOK, KeyOK, Pending, RemoteStates
  <2>3. ASSUME NEW e \in Execs PROVE ExecOK(e)'
    BY <1>1 DEF CreateInv, CreateTypeOK, KeyOK, ExecOK, OwnerOK, Pending, RemoteStates, Seen
  <2>4. QED BY <2>1, <2>2, <2>3 DEF CreateInv
<1>5. CASE Post(r)
  <2> USE <1>5 DEF Post, Prove, TikTokCreates
  <2>1. CreateTypeOK'
    BY <1>1 DEF CreateInv, CreateTypeOK, Labels, States, ActiveProduct
  <2>2. ASSUME NEW k \in Keys PROVE KeyOK(k)'
    BY <1>1 DEF CreateInv, CreateTypeOK, KeyOK, ExecOK, OwnerOK, Pending, RemoteStates, Seen
  <2>3. ASSUME NEW e \in Execs PROVE ExecOK(e)'
    <3>1. CASE e = r
      BY <1>1, <3>1 DEF CreateInv, CreateTypeOK, KeyOK, ExecOK, OwnerOK, RemoteStates, Seen
    <3>2. CASE e # r
      BY <1>1, <3>2 DEF CreateInv, CreateTypeOK, KeyOK, ExecOK, OwnerOK, Seen
    <3>3. QED BY <3>1, <3>2
  <2>4. QED BY <2>1, <2>2, <2>3 DEF CreateInv
<1>6. CASE PostAmbiguous(r)
  <2> USE <1>6 DEF PostAmbiguous, TikTokCreates
  <2>1. CreateTypeOK'
    <3>1. made' \in [Keys -> Nat] /\ late' \subseteq Keys /\ running' \subseteq Keys
      BY <1>1 DEF CreateInv, CreateTypeOK
    <3>2. QED BY <1>1, <3>1 DEF CreateInv, CreateTypeOK, Labels
  <2>2. ASSUME NEW k \in Keys PROVE KeyOK(k)'
    BY <1>1 DEF CreateInv, CreateTypeOK, KeyOK, ExecOK, OwnerOK, Pending, RemoteStates, Seen
  <2>3. ASSUME NEW e \in Execs PROVE ExecOK(e)'
    <3>1. CASE e = r
      BY <1>1, <3>1 DEF CreateInv, CreateTypeOK, KeyOK, ExecOK, OwnerOK, RemoteStates, Seen
    <3>2. CASE e # r
      BY <1>1, <3>2 DEF CreateInv, CreateTypeOK, KeyOK, ExecOK, OwnerOK, Seen
    <3>3. QED BY <3>1, <3>2
  <2>4. QED BY <2>1, <2>2, <2>3 DEF CreateInv
<1>7. CASE PostNotSent(r)
  <2> USE <1>7 DEF PostNotSent
  <2>1. CreateTypeOK'
    BY <1>1 DEF CreateInv, CreateTypeOK, Labels, States, ActiveProduct
  <2>2. ASSUME NEW k \in Keys PROVE KeyOK(k)'
    BY <1>1 DEF CreateInv, CreateTypeOK, KeyOK, ExecOK, OwnerOK, Pending, RemoteStates, Seen
  <2>3. ASSUME NEW e \in Execs PROVE ExecOK(e)'
    <3>1. CASE e = r
      BY <1>1, <3>1 DEF CreateInv, CreateTypeOK, KeyOK, ExecOK, OwnerOK, RemoteStates, Seen
    <3>2. CASE e # r
      BY <1>1, <3>2 DEF CreateInv, CreateTypeOK, KeyOK, ExecOK, OwnerOK, Seen
    <3>3. QED BY <3>1, <3>2
  <2>4. QED BY <2>1, <2>2, <2>3 DEF CreateInv
<1>8. CASE PostRejected(r)
  <2> USE <1>8 DEF PostRejected
  <2>1. CreateTypeOK'
    BY <1>1 DEF CreateInv, CreateTypeOK, Labels, States, ActiveProduct
  <2>2. ASSUME NEW k \in Keys PROVE KeyOK(k)'
    BY <1>1 DEF CreateInv, CreateTypeOK, KeyOK, ExecOK, OwnerOK, Pending, RemoteStates, Seen
  <2>3. ASSUME NEW e \in Execs PROVE ExecOK(e)'
    <3>1. CASE e = r
      BY <1>1, <3>1 DEF CreateInv, CreateTypeOK, KeyOK, ExecOK, OwnerOK, RemoteStates, Seen
    <3>2. CASE e # r
      BY <1>1, <3>2 DEF CreateInv, CreateTypeOK, KeyOK, ExecOK, OwnerOK, Seen
    <3>3. QED BY <3>1, <3>2
  <2>4. QED BY <2>1, <2>2, <2>3 DEF CreateInv
<1>9. CASE MarkCreated(r)
  <2> USE <1>9 DEF MarkCreated
  <2>1. CreateTypeOK'
    BY <1>1 DEF CreateInv, CreateTypeOK, Labels, States, ActiveProduct
  <2>2. ASSUME NEW k \in Keys PROVE KeyOK(k)'
    BY <1>1 DEF CreateInv, CreateTypeOK, KeyOK, ExecOK, OwnerOK, Pending, RemoteStates, Seen
  <2>3. ASSUME NEW e \in Execs PROVE ExecOK(e)'
    <3>1. CASE e = r
      BY <1>1, <3>1 DEF CreateInv, CreateTypeOK, KeyOK, ExecOK, OwnerOK, RemoteStates, Seen
    <3>2. CASE e # r
      BY <1>1, <3>2 DEF CreateInv, CreateTypeOK, KeyOK, ExecOK, OwnerOK, Seen
    <3>3. QED BY <3>1, <3>2
  <2>4. QED BY <2>1, <2>2, <2>3 DEF CreateInv
<1>10. CASE MarkUnknown(r)
  <2> USE <1>10 DEF MarkUnknown, AmbiguousState
  <2>1. CreateTypeOK'
    BY <1>1 DEF CreateInv, CreateTypeOK, Labels, States, ActiveProduct
  <2>2. ASSUME NEW k \in Keys PROVE KeyOK(k)'
    BY <1>1 DEF CreateInv, CreateTypeOK, KeyOK, Pending, RemoteStates
  <2>3. ASSUME NEW e \in Execs PROVE ExecOK(e)'
    BY <1>1 DEF CreateInv, CreateTypeOK, KeyOK, ExecOK, OwnerOK, Pending, RemoteStates, Seen
  <2>4. QED BY <2>1, <2>2, <2>3 DEF CreateInv
<1>11. CASE ConfirmUnknown(r)
  <2> USE <1>11 DEF ConfirmUnknown, Unique
  <2>1. CreateTypeOK'
    BY <1>1 DEF CreateInv, CreateTypeOK, Labels, States, ActiveProduct
  <2>2. ASSUME NEW k \in Keys PROVE KeyOK(k)'
    BY <1>1 DEF CreateInv, CreateTypeOK, KeyOK, Pending, RemoteStates
  <2>3. ASSUME NEW e \in Execs PROVE ExecOK(e)'
    BY <1>1 DEF CreateInv, CreateTypeOK, KeyOK, ExecOK, OwnerOK, Pending, RemoteStates, Seen
  <2>4. QED BY <2>1, <2>2, <2>3 DEF CreateInv
<1>12. CASE CreateRaises(r)
  <2> USE <1>12 DEF CreateRaises, RollBack
  <2>1. CreateTypeOK'
    BY <1>1 DEF CreateInv, CreateTypeOK, Labels, States, ActiveProduct
  <2>2. ASSUME NEW k \in Keys PROVE KeyOK(k)'
    BY <1>1 DEF CreateInv, CreateTypeOK, KeyOK, Pending, RemoteStates
  <2>3. ASSUME NEW e \in Execs PROVE ExecOK(e)'
    BY <1>1 DEF CreateInv, CreateTypeOK, KeyOK, ExecOK, OwnerOK, Pending, RemoteStates, Seen
  <2>4. QED BY <2>1, <2>2, <2>3 DEF CreateInv
<1>13. QED
  BY <1>2, <1>3, <1>4, <1>5, <1>6, <1>7, <1>8, <1>9, <1>10, <1>11, <1>12 DEF CreateCall

\* The safety pause and the storing of its outcome.
LEMMA QuarantineStepInv ==
    ASSUME CreateInv, NEW f \in Execs, QuarantineStep(f)
    PROVE  CreateInv'
<1> USE DEF Commit, Goto, SetIntent, SameRows, SameSystem, Same, tiktok, lease
<1>1. pc[f] # "idle" /\ target[f] \in Keys
  <2>1. pc[f] # "idle"
    BY DEF QuarantineStep, SafetyPause, Quarantine, QuarantineFails
  <2>2. QED BY <2>1, TargetIsKey DEF CreateInv
<1>2. CASE SafetyPause(f)
  <2> USE <1>2 DEF SafetyPause, Pause
  <2>1. CreateTypeOK'
    BY <1>1 DEF CreateInv, CreateTypeOK, Labels, States, ActiveProduct
  <2>2. ASSUME NEW k \in Keys PROVE KeyOK(k)'
    BY <1>1 DEF CreateInv, CreateTypeOK, KeyOK, ExecOK, OwnerOK, Pending, RemoteStates, Seen
  <2>3. ASSUME NEW e \in Execs PROVE ExecOK(e)'
    BY <1>1 DEF CreateInv, CreateTypeOK, KeyOK, ExecOK, OwnerOK, Pending, RemoteStates, Seen
  <2>4. QED BY <2>1, <2>2, <2>3 DEF CreateInv
<1>3. CASE Quarantine(f)
  <2> USE <1>3 DEF Quarantine, CommitAndLeave, Leave, End, SetStrategy, Recoverable
  <2>1. CreateTypeOK'
    BY <1>1 DEF CreateInv, CreateTypeOK, Labels, States, ActiveProduct
  <2>2. ASSUME NEW k \in Keys PROVE KeyOK(k)'
    BY <1>1 DEF CreateInv, CreateTypeOK, KeyOK, ExecOK, OwnerOK, Pending, RemoteStates, Seen
  <2>3. ASSUME NEW e \in Execs PROVE ExecOK(e)'
    BY <1>1 DEF CreateInv, CreateTypeOK, KeyOK, ExecOK, OwnerOK, Pending, RemoteStates, Seen
  <2>4. QED BY <2>1, <2>2, <2>3 DEF CreateInv
<1>4. CASE QuarantineFails(f)
  <2> USE <1>4 DEF QuarantineFails, Leave, End
  <2>1. CreateTypeOK'
    BY <1>1 DEF CreateInv, CreateTypeOK, Labels, States, ActiveProduct
  <2>2. ASSUME NEW k \in Keys PROVE KeyOK(k)'
    BY <1>1 DEF CreateInv, CreateTypeOK, KeyOK, ExecOK, OwnerOK, Pending, RemoteStates, Seen
  <2>3. ASSUME NEW e \in Execs PROVE ExecOK(e)'
    BY <1>1 DEF CreateInv, CreateTypeOK, KeyOK, ExecOK, OwnerOK, Pending, RemoteStates, Seen
  <2>4. QED BY <2>1, <2>2, <2>3 DEF CreateInv
<1>5. QED BY <1>2, <1>3, <1>4 DEF QuarantineStep

\* The recovery scan, once it has the lease.
LEMMA ScanStepInv ==
    ASSUME CreateInv, NEW c \in Recoverers, ScanStep(c)
    PROVE  CreateInv'
<1> USE DEF Commit, Goto, SetIntent, SameRows, SameSystem, Same, tiktok, lease
<1>1. CASE QuarantineStep(c)
  BY <1>1, QuarantineStepInv
<1>2. CASE Confirm(c)
  <2> USE <1>2 DEF Confirm, Unique, Recoverable
  <2>1. CreateTypeOK'
    BY TargetIsKey DEF CreateInv, CreateTypeOK, Labels, States, ActiveProduct
  <2>2. ASSUME NEW k \in Keys PROVE KeyOK(k)'
    BY TargetIsKey DEF CreateInv, CreateTypeOK, KeyOK, ExecOK, OwnerOK, Pending, RemoteStates, Seen
  <2>3. ASSUME NEW e \in Execs PROVE ExecOK(e)'
    BY TargetIsKey DEF CreateInv, CreateTypeOK, KeyOK, ExecOK, OwnerOK, Pending, RemoteStates, Seen
  <2>4. QED BY <2>1, <2>2, <2>3 DEF CreateInv
<1>3. CASE NotConfirmed(c)
  <2> USE <1>3 DEF NotConfirmed, Leave, End
  <2>1. CreateTypeOK'
    BY TargetIsKey DEF CreateInv, CreateTypeOK, Labels, States, ActiveProduct
  <2>2. ASSUME NEW k \in Keys PROVE KeyOK(k)'
    BY TargetIsKey DEF CreateInv, CreateTypeOK, KeyOK, ExecOK, OwnerOK, Pending, RemoteStates, Seen
  <2>3. ASSUME NEW e \in Execs PROVE ExecOK(e)'
    BY TargetIsKey DEF CreateInv, CreateTypeOK, KeyOK, ExecOK, OwnerOK, Pending, RemoteStates, Seen
  <2>4. QED BY <2>1, <2>2, <2>3 DEF CreateInv
<1>4. QED BY <1>1, <1>2, <1>3 DEF ScanStep

\* A lease is taken for a key.
LEMMA TakeInv ==
    ASSUME CreateInv, NEW f \in Execs, NEW k \in Keys,
           NEW label \in {"entered", "scanned", "deciding"},
           Take(f, k, label), SameSystem, Same
    PROVE  CreateInv'
<1> USE DEF Take, SameSystem, Same, tiktok
<1>1. CreateTypeOK'
  BY DEF CreateInv, CreateTypeOK, Labels, States, ActiveProduct
<1>2. ASSUME NEW l \in Keys PROVE KeyOK(l)'
  BY DEF CreateInv, CreateTypeOK, KeyOK, ExecOK, OwnerOK, Pending, RemoteStates, Seen
<1>3. ASSUME NEW e \in Execs PROVE ExecOK(e)'
  BY DEF CreateInv, CreateTypeOK, KeyOK, ExecOK, OwnerOK, Pending, RemoteStates, Seen
<1>4. QED BY <1>1, <1>2, <1>3 DEF CreateInv

\* The intent is stored, or found again as it was stored.
LEMMA StoreIntentInv ==
    ASSUME CreateInv, NEW r \in Requests, NEW label \in {"prepared", pc[r]},
           pc[r] \in {"entered", "deciding"}, StoreIntent(r), Goto(r, label)
    PROVE  CreateInv'
<1> USE DEF StoreIntent, Commit, Goto, SetIntent, Same, tiktok
<1>0. target[r] \in Keys
  BY TargetIsKey DEF CreateInv
<1>1. CreateTypeOK'
  BY <1>0 DEF CreateInv, CreateTypeOK, Labels, States, ActiveProduct
<1>2. ASSUME NEW l \in Keys PROVE KeyOK(l)'
  BY <1>0 DEF CreateInv, CreateTypeOK, KeyOK, ExecOK, OwnerOK, Pending, RemoteStates, Seen
<1>3. ASSUME NEW e \in Execs PROVE ExecOK(e)'
  BY <1>0 DEF CreateInv, CreateTypeOK, KeyOK, ExecOK, OwnerOK, Pending, RemoteStates, Seen
<1>4. QED BY <1>1, <1>2, <1>3 DEF CreateInv

\* The intent is found as it was stored.
LEMMA PrepareAgainInv ==
    ASSUME CreateInv, NEW r \in Requests, PrepareAgain(r)
    PROVE  CreateInv'
<1> USE DEF PrepareAgain, Goto, Same, SameSystem, tiktok, lease
<1>1. CreateTypeOK'
  BY DEF CreateInv, CreateTypeOK, Labels, States, ActiveProduct
<1>2. ASSUME NEW l \in Keys PROVE KeyOK(l)'
  BY DEF CreateInv, CreateTypeOK, KeyOK, ExecOK, OwnerOK, Pending, RemoteStates, Seen
<1>3. ASSUME NEW e \in Execs PROVE ExecOK(e)'
  BY DEF CreateInv, CreateTypeOK, KeyOK, ExecOK, OwnerOK, Pending, RemoteStates, Seen
<1>4. QED BY <1>1, <1>2, <1>3 DEF CreateInv

\* The execution ends, with or without its lease.
LEMMA LeaveInv ==
    ASSUME CreateInv, NEW f \in Execs, Leave(f) \/ (End(f) /\ UNCHANGED lease),
           SameSystem, Same
    PROVE  CreateInv'
<1> USE DEF End, Same, SameSystem, tiktok, lease
<1>1. holder' \in {holder, Nobody} /\ (proved' => proved /\ holder' = holder)
  <2>1. CASE holder = f /\ Leave(f)
    BY <2>1 DEF Leave
  <2>2. CASE holder # f /\ Leave(f)
    BY <2>2 DEF Leave
  <2>3. QED BY <2>1, <2>2
<1>2. /\ pc' = [pc EXCEPT ![f] = "idle"] /\ target' = [target EXCEPT ![f] = Nobody]
      /\ UNCHANGED <<intent, strategy, made, late, running, crashes, lapses>>
      /\ proved' \in BOOLEAN
  BY DEF CreateInv, CreateTypeOK, Leave
<1>3. CreateTypeOK'
  BY <1>1, <1>2 DEF CreateInv, CreateTypeOK, Labels
<1>4. ASSUME NEW l \in Keys PROVE KeyOK(l)'
  BY <1>2 DEF CreateInv, KeyOK
<1>5. ASSUME NEW e \in Execs PROVE ExecOK(e)'
  BY <1>1, <1>2 DEF CreateInv, CreateTypeOK, ExecOK, OwnerOK, Seen
<1>6. QED BY <1>3, <1>4, <1>5 DEF CreateInv

\* Late calls, crashes, lost and lapsed leases.
LEMMA EnvironmentInv ==
    ASSUME CreateInv, Environment
    PROVE  CreateInv'
<1> USE DEF SameRows, SameSystem, Same, tiktok, lease, control
<1>1. CASE \E l \in Keys : LateCreate(l)
  <2> USE <1>1 DEF LateCreate, TikTokCreates
  <2>1. CreateTypeOK'
    BY TargetIsKey DEF CreateInv, CreateTypeOK, Labels, States, ActiveProduct
  <2>2. ASSUME NEW k \in Keys PROVE KeyOK(k)'
    BY TargetIsKey DEF CreateInv, CreateTypeOK, KeyOK, ExecOK, OwnerOK, Pending, RemoteStates, Seen
  <2>3. ASSUME NEW e \in Execs PROVE ExecOK(e)'
    BY TargetIsKey DEF CreateInv, CreateTypeOK, KeyOK, ExecOK, OwnerOK, Pending, RemoteStates, Seen
  <2>4. QED BY <2>1, <2>2, <2>3 DEF CreateInv
<1>2. CASE \E f \in Execs : Crash(f)
  <2> PICK f \in Execs : Crash(f)
    BY <1>2
  <2> USE DEF Crash, End
  <2>0. /\ proved' \in BOOLEAN /\ (proved' => proved /\ holder' = holder)
        /\ holder' \in {holder, Stale}
    <3>1. CASE holder = f
      BY <3>1
    <3>2. CASE holder # f
      BY <3>2 DEF CreateInv, CreateTypeOK
    <3>3. QED BY <3>1, <3>2
  <2>1. CreateTypeOK'
    <3>1. crashes' \in 0 .. MaxCrashes /\ lapses' \in 0 .. MaxLapses
      BY DEF CreateInv, CreateTypeOK
    <3>2. /\ pc' \in [Execs -> Labels] /\ target' \in [Execs -> Keys \cup {Nobody}]
          /\ \A e \in Execs : pc'[e] = "idle" <=> target'[e] = Nobody
      BY DEF CreateInv, CreateTypeOK, Labels
    <3>3. QED BY <2>0, <3>1, <3>2 DEF CreateInv, CreateTypeOK
  <2>2. ASSUME NEW k \in Keys PROVE KeyOK(k)'
    BY TargetIsKey DEF CreateInv, CreateTypeOK, KeyOK, ExecOK, OwnerOK, Pending, RemoteStates, Seen
  <2>3. ASSUME NEW e \in Execs PROVE ExecOK(e)'
    BY TargetIsKey DEF CreateInv, CreateTypeOK, KeyOK, ExecOK, OwnerOK, Pending, RemoteStates, Seen
  <2>4. QED BY <2>1, <2>2, <2>3 DEF CreateInv
<1>3. CASE \E f \in Execs : FenceLost(f)
  <2> USE <1>3 DEF FenceLost, End
  <2>1. CreateTypeOK'
    BY TargetIsKey DEF CreateInv, CreateTypeOK, Labels, States, ActiveProduct
  <2>2. ASSUME NEW k \in Keys PROVE KeyOK(k)'
    BY TargetIsKey DEF CreateInv, CreateTypeOK, KeyOK, ExecOK, OwnerOK, Pending, RemoteStates, Seen
  <2>3. ASSUME NEW e \in Execs PROVE ExecOK(e)'
    BY TargetIsKey DEF CreateInv, CreateTypeOK, KeyOK, ExecOK, OwnerOK, Pending, RemoteStates, Seen
  <2>4. QED BY <2>1, <2>2, <2>3 DEF CreateInv
<1>4. CASE StaleLeaseExpires
  <2> USE <1>4 DEF StaleLeaseExpires
  <2>1. CreateTypeOK'
    BY TargetIsKey DEF CreateInv, CreateTypeOK, Labels, States, ActiveProduct
  <2>2. ASSUME NEW k \in Keys PROVE KeyOK(k)'
    BY TargetIsKey DEF CreateInv, CreateTypeOK, KeyOK, ExecOK, OwnerOK, Pending, RemoteStates, Seen
  <2>3. ASSUME NEW e \in Execs PROVE ExecOK(e)'
    BY TargetIsKey DEF CreateInv, CreateTypeOK, KeyOK, ExecOK, OwnerOK, Pending, RemoteStates, Seen
  <2>4. QED BY <2>1, <2>2, <2>3 DEF CreateInv
<1>5. CASE LeaseLapses
  <2> USE <1>5 DEF LeaseLapses
  <2>1. CreateTypeOK'
    BY TargetIsKey DEF CreateInv, CreateTypeOK, Labels, States, ActiveProduct
  <2>2. ASSUME NEW k \in Keys PROVE KeyOK(k)'
    BY TargetIsKey DEF CreateInv, CreateTypeOK, KeyOK, ExecOK, OwnerOK, Pending, RemoteStates, Seen
  <2>3. ASSUME NEW e \in Execs PROVE ExecOK(e)'
    BY TargetIsKey DEF CreateInv, CreateTypeOK, KeyOK, ExecOK, OwnerOK, Pending, RemoteStates, Seen
  <2>4. QED BY <2>1, <2>2, <2>3 DEF CreateInv
<1>6. QED BY <1>1, <1>2, <1>3, <1>4, <1>5 DEF Environment

------------------------------------------------------------------------------
(***************************************************************************)
(* What the workflows rely on: the rows and the campaigns of a step        *)
(***************************************************************************)

\* The shared steps change the rows of a key in one of three ways.
Moves(k) ==
    \/ intent'[k] = intent[k] /\ strategy'[k] = strategy[k]
    \/ /\ intent[k] \in {"PREPARED"} \cup Recoverable
       /\ intent'[k] \in {"PREPARED", "SUBMITTING", "UNKNOWN", "REMOTE_CREATED",
                           "FAILED_TERMINAL"}
       /\ strategy'[k] = strategy[k]
    \/ /\ intent[k] \in RemoteStates \ {"SUCCEEDED"}
       /\ intent'[k] \in {"QUARANTINED", "REMOTE_CREATED"}
       /\ strategy'[k] = "quarantined"

\* What is quarantined, or about to be, is paused.
Quiet ==
    /\ \A k \in Keys : intent[k] = "QUARANTINED" => k \notin running
    /\ \A e \in Execs : holder = e /\ pc[e] = "paused" => target[e] \notin running

\* What has succeeded, or is about to, runs.
Lively ==
    /\ \A k \in Keys : intent[k] = "SUCCEEDED" => k \in running
    /\ \A e \in Execs : holder = e /\ pc[e] = "enabled" => target[e] \in running

Keeps ==
    /\ \A k \in Keys : Moves(k)
    /\ Quiet => Quiet'
    /\ Lively => Lively'

\* A step that changes neither the rows nor what runs, and leads nobody to
\* where something must run or be paused, keeps everything.
LEMMA StutterKeeps ==
    ASSUME UNCHANGED <<intent, strategy, running>>,
           \A e \in Execs : holder' = e /\ pc'[e] \in {"paused", "enabled"} =>
              holder = e /\ pc'[e] = pc[e] /\ target'[e] = target[e]
    PROVE  Keeps
BY DEF Keeps, Moves, Quiet, Lively

\* The create call moves its own intent between unfinished states.
LEMMA CreateCallKeeps ==
    ASSUME CreateInv, NEW r \in Requests, CreateCall(r)
    PROVE  Keeps
<1> USE DEF Commit, Goto, SetIntent, SameRows, SameSystem, Same, tiktok, lease
<1>1. pc[r] # "idle" /\ target[r] \in Keys
  <2>1. pc[r] # "idle"
    BY DEF CreateCall, Resume, PreflightRejects, Submit, Post, PostAmbiguous, PostNotSent,
           PostRejected, MarkCreated, MarkUnknown, ConfirmUnknown, CreateRaises
  <2>2. QED BY <2>1, TargetIsKey DEF CreateInv
<1>2. CASE Resume(r)
  <2> USE <1>2 DEF Resume, MayExist, Unique
  <2>1. ASSUME NEW k \in Keys PROVE Moves(k)
    BY <1>1 DEF CreateInv, CreateTypeOK, ExecOK, OwnerOK, Pending, RemoteStates, Moves, Recoverable
  <2>2. ASSUME Quiet PROVE Quiet'
    BY <1>1, <2>2 DEF CreateInv, CreateTypeOK, KeyOK, ExecOK, OwnerOK, Pending, RemoteStates, Seen, Quiet
  <2>3. ASSUME Lively PROVE Lively'
    BY <1>1, <2>3 DEF CreateInv, CreateTypeOK, KeyOK, ExecOK, OwnerOK, Pending, RemoteStates, Seen, Lively
  <2>4. QED BY <2>1, <2>2, <2>3 DEF Keeps
<1>3. CASE PreflightRejects(r)
  <2> USE <1>3 DEF PreflightRejects
  <2>1. ASSUME NEW k \in Keys PROVE Moves(k)
    BY <1>1 DEF CreateInv, CreateTypeOK, ExecOK, OwnerOK, Pending, RemoteStates, Moves, Recoverable
  <2>2. ASSUME Quiet PROVE Quiet'
    BY <1>1, <2>2 DEF CreateInv, CreateTypeOK, KeyOK, ExecOK, OwnerOK, Pending, RemoteStates, Seen, Quiet
  <2>3. ASSUME Lively PROVE Lively'
    BY <1>1, <2>3 DEF CreateInv, CreateTypeOK, KeyOK, ExecOK, OwnerOK, Pending, RemoteStates, Seen, Lively
  <2>4. QED BY <2>1, <2>2, <2>3 DEF Keeps
<1>4. CASE Submit(r)
  <2> USE <1>4 DEF Submit
  <2>1. ASSUME NEW k \in Keys PROVE Moves(k)
    BY <1>1 DEF CreateInv, CreateTypeOK, ExecOK, OwnerOK, Pending, RemoteStates, Moves, Recoverable
  <2>2. ASSUME Quiet PROVE Quiet'
    BY <1>1, <2>2 DEF CreateInv, CreateTypeOK, KeyOK, ExecOK, OwnerOK, Pending, RemoteStates, Seen, Quiet
  <2>3. ASSUME Lively PROVE Lively'
    BY <1>1, <2>3 DEF CreateInv, CreateTypeOK, KeyOK, ExecOK, OwnerOK, Pending, RemoteStates, Seen, Lively
  <2>4. QED BY <2>1, <2>2, <2>3 DEF Keeps
<1>5. CASE Post(r)
  <2> USE <1>5 DEF Post, Prove, TikTokCreates
  <2>1. ASSUME NEW k \in Keys PROVE Moves(k)
    BY <1>1 DEF CreateInv, CreateTypeOK, ExecOK, OwnerOK, Pending, RemoteStates, Moves, Recoverable
  <2>2. ASSUME Quiet PROVE Quiet'
    BY <1>1, <2>2 DEF CreateInv, CreateTypeOK, KeyOK, ExecOK, OwnerOK, Pending, RemoteStates, Seen, Quiet
  <2>3. ASSUME Lively PROVE Lively'
    BY <1>1, <2>3 DEF CreateInv, CreateTypeOK, KeyOK, ExecOK, OwnerOK, Pending, RemoteStates, Seen, Lively
  <2>4. QED BY <2>1, <2>2, <2>3 DEF Keeps
<1>6. CASE PostAmbiguous(r)
  <2> USE <1>6 DEF PostAmbiguous, TikTokCreates
  <2>1. ASSUME NEW k \in Keys PROVE Moves(k)
    BY <1>1 DEF CreateInv, CreateTypeOK, ExecOK, OwnerOK, Pending, RemoteStates, Moves, Recoverable
  <2>2. ASSUME Quiet PROVE Quiet'
    BY <1>1, <2>2 DEF CreateInv, CreateTypeOK, KeyOK, ExecOK, OwnerOK, Pending, RemoteStates, Seen, Quiet
  <2>3. ASSUME Lively PROVE Lively'
    BY <1>1, <2>3 DEF CreateInv, CreateTypeOK, KeyOK, ExecOK, OwnerOK, Pending, RemoteStates, Seen, Lively
  <2>4. QED BY <2>1, <2>2, <2>3 DEF Keeps
<1>7. CASE PostNotSent(r)
  <2> USE <1>7 DEF PostNotSent
  <2>1. ASSUME NEW k \in Keys PROVE Moves(k)
    BY <1>1 DEF CreateInv, CreateTypeOK, ExecOK, OwnerOK, Pending, RemoteStates, Moves, Recoverable
  <2>2. ASSUME Quiet PROVE Quiet'
    BY <1>1, <2>2 DEF CreateInv, CreateTypeOK, KeyOK, ExecOK, OwnerOK, Pending, RemoteStates, Seen, Quiet
  <2>3. ASSUME Lively PROVE Lively'
    BY <1>1, <2>3 DEF CreateInv, CreateTypeOK, KeyOK, ExecOK, OwnerOK, Pending, RemoteStates, Seen, Lively
  <2>4. QED BY <2>1, <2>2, <2>3 DEF Keeps
<1>8. CASE PostRejected(r)
  <2> USE <1>8 DEF PostRejected
  <2>1. ASSUME NEW k \in Keys PROVE Moves(k)
    BY <1>1 DEF CreateInv, CreateTypeOK, ExecOK, OwnerOK, Pending, RemoteStates, Moves, Recoverable
  <2>2. ASSUME Quiet PROVE Quiet'
    BY <1>1, <2>2 DEF CreateInv, CreateTypeOK, KeyOK, ExecOK, OwnerOK, Pending, RemoteStates, Seen, Quiet
  <2>3. ASSUME Lively PROVE Lively'
    BY <1>1, <2>3 DEF CreateInv, CreateTypeOK, KeyOK, ExecOK, OwnerOK, Pending, RemoteStates, Seen, Lively
  <2>4. QED BY <2>1, <2>2, <2>3 DEF Keeps
<1>9. CASE MarkCreated(r)
  <2> USE <1>9 DEF MarkCreated
  <2>1. ASSUME NEW k \in Keys PROVE Moves(k)
    BY <1>1 DEF CreateInv, CreateTypeOK, ExecOK, OwnerOK, Pending, RemoteStates, Moves, Recoverable
  <2>2. ASSUME Quiet PROVE Quiet'
    BY <1>1, <2>2 DEF CreateInv, CreateTypeOK, KeyOK, ExecOK, OwnerOK, Pending, RemoteStates, Seen, Quiet
  <2>3. ASSUME Lively PROVE Lively'
    BY <1>1, <2>3 DEF CreateInv, CreateTypeOK, KeyOK, ExecOK, OwnerOK, Pending, RemoteStates, Seen, Lively
  <2>4. QED BY <2>1, <2>2, <2>3 DEF Keeps
<1>10. CASE MarkUnknown(r)
  <2> USE <1>10 DEF MarkUnknown, AmbiguousState
  <2>1. ASSUME NEW k \in Keys PROVE Moves(k)
    BY <1>1 DEF CreateInv, CreateTypeOK, ExecOK, OwnerOK, Pending, RemoteStates, Moves, Recoverable
  <2>2. ASSUME Quiet PROVE Quiet'
    BY <1>1, <2>2 DEF CreateInv, CreateTypeOK, KeyOK, ExecOK, OwnerOK, Pending, RemoteStates, Seen, Quiet
  <2>3. ASSUME Lively PROVE Lively'
    BY <1>1, <2>3 DEF CreateInv, CreateTypeOK, KeyOK, ExecOK, OwnerOK, Pending, RemoteStates, Seen, Lively
  <2>4. QED BY <2>1, <2>2, <2>3 DEF Keeps
<1>11. CASE ConfirmUnknown(r)
  <2> USE <1>11 DEF ConfirmUnknown, Unique
  <2>1. ASSUME NEW k \in Keys PROVE Moves(k)
    BY <1>1 DEF CreateInv, CreateTypeOK, ExecOK, OwnerOK, Pending, RemoteStates, Moves, Recoverable
  <2>2. ASSUME Quiet PROVE Quiet'
    BY <1>1, <2>2 DEF CreateInv, CreateTypeOK, KeyOK, ExecOK, OwnerOK, Pending, RemoteStates, Seen, Quiet
  <2>3. ASSUME Lively PROVE Lively'
    BY <1>1, <2>3 DEF CreateInv, CreateTypeOK, KeyOK, ExecOK, OwnerOK, Pending, RemoteStates, Seen, Lively
  <2>4. QED BY <2>1, <2>2, <2>3 DEF Keeps
<1>12. CASE CreateRaises(r)
  <2> USE <1>12 DEF CreateRaises, RollBack
  <2>1. ASSUME NEW k \in Keys PROVE Moves(k)
    BY <1>1 DEF CreateInv, CreateTypeOK, ExecOK, OwnerOK, Pending, RemoteStates, Moves, Recoverable
  <2>2. ASSUME Quiet PROVE Quiet'
    BY <1>1, <2>2 DEF CreateInv, CreateTypeOK, KeyOK, ExecOK, OwnerOK, Pending, RemoteStates, Seen, Quiet
  <2>3. ASSUME Lively PROVE Lively'
    BY <1>1, <2>3 DEF CreateInv, CreateTypeOK, KeyOK, ExecOK, OwnerOK, Pending, RemoteStates, Seen, Lively
  <2>4. QED BY <2>1, <2>2, <2>3 DEF Keeps
<1>13. QED
  BY <1>2, <1>3, <1>4, <1>5, <1>6, <1>7, <1>8, <1>9, <1>10, <1>11, <1>12 DEF CreateCall

\* Quarantine pauses before it marks.
LEMMA QuarantineStepKeeps ==
    ASSUME CreateInv, NEW f \in Execs, QuarantineStep(f)
    PROVE  Keeps
<1> USE DEF Commit, Goto, SetIntent, SameRows, SameSystem, Same, tiktok, lease
<1>1. pc[f] # "idle" /\ target[f] \in Keys
  <2>1. pc[f] # "idle"
    BY DEF QuarantineStep, SafetyPause, Quarantine, QuarantineFails
  <2>2. QED BY <2>1, TargetIsKey DEF CreateInv
<1>2. CASE SafetyPause(f)
  <2> USE <1>2 DEF SafetyPause, Pause
  <2>1. ASSUME NEW k \in Keys PROVE Moves(k)
    BY <1>1 DEF CreateInv, CreateTypeOK, ExecOK, OwnerOK, Pending, RemoteStates, Moves, Recoverable
  <2>2. ASSUME Quiet PROVE Quiet'
    BY <1>1, <2>2 DEF CreateInv, CreateTypeOK, KeyOK, ExecOK, OwnerOK, Pending, RemoteStates, Seen, Quiet
  <2>3. ASSUME Lively PROVE Lively'
    BY <1>1, <2>3 DEF CreateInv, CreateTypeOK, KeyOK, ExecOK, OwnerOK, Pending, RemoteStates, Seen, Lively
  <2>4. QED BY <2>1, <2>2, <2>3 DEF Keeps
<1>3. CASE Quarantine(f)
  <2> USE <1>3 DEF Quarantine, CommitAndLeave, Leave, End, SetStrategy
  <2>1. ASSUME NEW k \in Keys PROVE Moves(k)
    BY <1>1 DEF CreateInv, CreateTypeOK, ExecOK, OwnerOK, Pending, RemoteStates, Moves, Recoverable
  <2>2. ASSUME Quiet PROVE Quiet'
    BY <1>1, <2>2 DEF CreateInv, CreateTypeOK, KeyOK, ExecOK, OwnerOK, Pending, RemoteStates, Seen, Quiet
  <2>3. ASSUME Lively PROVE Lively'
    BY <1>1, <2>3 DEF CreateInv, CreateTypeOK, KeyOK, ExecOK, OwnerOK, Pending, RemoteStates, Seen, Lively
  <2>4. QED BY <2>1, <2>2, <2>3 DEF Keeps
<1>4. CASE QuarantineFails(f)
  BY <1>1, <1>4, StutterKeeps DEF CreateInv, CreateTypeOK, QuarantineFails, Leave, End
<1>5. QED BY <1>2, <1>3, <1>4 DEF QuarantineStep

\* The scan confirms what an interrupted call has made.
LEMMA ScanStepKeeps ==
    ASSUME CreateInv, NEW c \in Recoverers, ScanStep(c)
    PROVE  Keeps
<1> USE DEF Commit, Goto, SetIntent, SameRows, SameSystem, Same, tiktok, lease
<1>1. CASE QuarantineStep(c)
  BY <1>1, QuarantineStepKeeps
<1>2. CASE Confirm(c)
  <2> USE <1>2 DEF Confirm, Unique
  <2>1. ASSUME NEW k \in Keys PROVE Moves(k)
    BY TargetIsKey DEF CreateInv, CreateTypeOK, ExecOK, OwnerOK, Pending, RemoteStates, Moves, Recoverable
  <2>2. ASSUME Quiet PROVE Quiet'
    BY TargetIsKey, <2>2 DEF CreateInv, CreateTypeOK, KeyOK, ExecOK, OwnerOK, Pending, RemoteStates, Seen, Quiet
  <2>3. ASSUME Lively PROVE Lively'
    BY TargetIsKey, <2>3 DEF CreateInv, CreateTypeOK, KeyOK, ExecOK, OwnerOK, Pending, RemoteStates, Seen, Lively
  <2>4. QED BY <2>1, <2>2, <2>3 DEF Keeps
<1>3. CASE NotConfirmed(c)
  BY <1>3, StutterKeeps DEF CreateInv, CreateTypeOK, NotConfirmed, Leave, End
<1>4. QED BY <1>1, <1>2, <1>3 DEF ScanStep

\* Faults change no row.
LEMMA EnvironmentKeeps ==
    ASSUME CreateInv, Environment
    PROVE  Keeps
<1> USE DEF SameRows, SameSystem, Same, tiktok, lease, control
<1>1. CASE \E l \in Keys : LateCreate(l)
  <2> USE <1>1 DEF LateCreate, TikTokCreates
  <2>1. ASSUME NEW k \in Keys PROVE Moves(k)
    BY TargetIsKey DEF CreateInv, CreateTypeOK, ExecOK, OwnerOK, Pending, RemoteStates, Moves, Recoverable
  <2>2. ASSUME Quiet PROVE Quiet'
    BY TargetIsKey, <2>2 DEF CreateInv, CreateTypeOK, KeyOK, ExecOK, OwnerOK, Pending, RemoteStates, Seen, Quiet
  <2>3. ASSUME Lively PROVE Lively'
    BY TargetIsKey, <2>3 DEF CreateInv, CreateTypeOK, KeyOK, ExecOK, OwnerOK, Pending, RemoteStates, Seen, Lively
  <2>4. QED BY <2>1, <2>2, <2>3 DEF Keeps
<1>2. CASE \E f \in Execs : Crash(f)
  BY <1>2, StutterKeeps DEF CreateInv, CreateTypeOK, Crash, End
<1>3. CASE \E f \in Execs : FenceLost(f)
  BY <1>3, StutterKeeps DEF CreateInv, CreateTypeOK, FenceLost, End
<1>4. CASE StaleLeaseExpires
  BY <1>4, StutterKeeps DEF CreateInv, CreateTypeOK, StaleLeaseExpires
<1>5. CASE LeaseLapses
  BY <1>5, StutterKeeps DEF CreateInv, CreateTypeOK, LeaseLapses
<1>6. QED BY <1>1, <1>2, <1>3, <1>4, <1>5 DEF Environment

=============================================================================
