----------------------- MODULE CampaignRebuildProofs -----------------------
(***************************************************************************)
(* Proofs about CampaignRebuild for every set of campaigns, products,      *)
(* cycles and recoverers and any number of crashes and lapsed leases.      *)
(***************************************************************************)
EXTENDS CampaignRebuild, DurableCreateProofs

USE CreateKinds, CreateBounds DEF Execs

\* Once a replacement may exist the old campaign is paused, until success;
\* only what exists can be held.
SourceOK(k) ==
    /\ intent[k] \in ActiveProduct \ {"PREPARED", "COMPENSATION_PENDING"}
          => k \notin sourceOn
    /\ <<k, "new">> \in held => made[k] = 1

\* What a cycle of the Guard knows while it owns the lease.
GuardOK(e) ==
    LET k == target[e] IN
    /\ pc[e] \in {"pausing", "oldPaused", "entered"} => intent[k] \in Resumable
    /\ pc[e] = "prepared" => intent[k] = "PREPARED"
    /\ pc[e] = "row" => intent[k] # "SUCCEEDED"
    /\ pc[e] \in {"oldPaused", "entered", "prepared"} => k \notin sourceOn
    /\ pc[e] \in {"compensating", "restored"} => intent[k] = "COMPENSATION_PENDING"
    /\ pc[e] = "compensating" => <<k, "old">> \notin held
    /\ pc[e] = "enabling" => <<k, "new">> \notin held

GuardsOK == \A e \in Execs : holder = e => GuardOK(e)
SourcesOK == \A k \in Keys : SourceOK(k)

RebuildTypeOK ==
    /\ phase \in [Keys -> Phases] /\ sourceOn \subseteq Keys
    /\ permitted \subseteq Keys /\ timely \subseteq Keys
    /\ held \subseteq Keys \X Sides

RInv == CreateInv /\ RebuildTypeOK /\ Quiet /\ SourcesOK /\ GuardsOK

------------------------------------------------------------------------------
(***************************************************************************)
(* The steps of DurableCreate                                              *)
(***************************************************************************)

\* A step that moves no intent, leaves the lease to its owner or takes it
\* away, and does not lead its owner to where it must know something.
LEMMA QuietStep ==
    ASSUME RInv, SameRebuild, UNCHANGED intent,
           \A k \in Keys : made[k] = 1 => made'[k] = 1,
           \A e \in Execs : holder' = e =>
              \/ holder = e /\ pc'[e] = pc[e] /\ target'[e] = target[e]
              \/ pc'[e] \in {"deciding", "scanned", "failing", "refused", "idle"}
    PROVE  SourcesOK' /\ GuardsOK' /\ RebuildTypeOK'
<1> USE DEF RInv, SameRebuild, rebuild
<1>1. SourcesOK'
  BY DEF SourcesOK, SourceOK
<1>2. GuardsOK'
  BY DEF GuardsOK, GuardOK
<1>3. RebuildTypeOK'
  BY DEF RebuildTypeOK
<1>4. QED BY <1>1, <1>2, <1>3

\* What the create call does to the intent, and where it leads.
LEMMA CreateCallEffect ==
    ASSUME CreateInv, NEW r \in Requests, CreateCall(r)
    PROVE  LET k == target[r] IN
           /\ k \in Keys /\ UNCHANGED <<target, holder>>
           /\ \A e \in Execs \ {r} : pc'[e] = pc[e]
           /\ pc'[r] \in {"row", "refused", "submitting", "answered", "ambiguous", "unknown"}
           /\ \A l \in Keys \ {k} : intent'[l] = intent[l]
           /\ holder # r => UNCHANGED intent
           /\ \/ intent'[k] = intent[k]
              \/ intent[k] \in Recoverable /\ intent'[k] # "SUCCEEDED"
              \/ intent'[k] \in {"PREPARED", "FAILED_TERMINAL"}
              \/ pc[r] = "prepared" /\ intent'[k] = "SUBMITTING"
           /\ intent'[k] = "SUCCEEDED" => intent[k] = "SUCCEEDED"
           /\ pc'[r] = "row" => pc[r] \in {"entered", "answered", "unknown"}
           /\ \A l \in Keys : made[l] = 1 => made'[l] = 1
<1> USE DEF Commit, Goto, SetIntent, SameRows, SameSystem, Same, tiktok, lease
<1> DEFINE k == target[r]
<1>1. pc[r] # "idle" /\ k \in Keys /\ (holder = r => OwnerOK(r)) /\ CreateTypeOK
  <2>1. pc[r] # "idle"
    BY DEF CreateCall, Resume, PreflightRejects, Submit, Post, PostAmbiguous, PostNotSent,
           PostRejected, MarkCreated, MarkUnknown, ConfirmUnknown, CreateRaises
  <2>2. QED BY <2>1, TargetIsKey DEF CreateInv, ExecOK
<1>2. CASE Resume(r)
  BY <1>1, <1>2 DEF Resume, CreateTypeOK, Pending, Recoverable
<1>3. CASE PreflightRejects(r) \/ Submit(r) \/ PostNotSent(r) \/ PostRejected(r)
  BY <1>1, <1>3 DEF PreflightRejects, Submit, PostNotSent, PostRejected, CreateTypeOK
<1>4. CASE MarkCreated(r) \/ MarkUnknown(r) \/ ConfirmUnknown(r) \/ CreateRaises(r)
  BY <1>1, <1>4 DEF MarkCreated, MarkUnknown, AmbiguousState, ConfirmUnknown, CreateRaises, RollBack,
                    CreateTypeOK, OwnerOK, Recoverable
<1>5. CASE Post(r) \/ PostAmbiguous(r)
  <2>1. /\ UNCHANGED <<intent, target, holder>> /\ holder = r /\ pc[r] = "submitting"
        /\ \E label \in {"answered", "ambiguous"} : pc' = [pc EXCEPT ![r] = label]
        /\ \/ TikTokCreates(k)
           \/ UNCHANGED made
    BY <1>5 DEF Post, Prove, PostAmbiguous
  <2>2. made[k] = 0
    BY <1>1, <2>1 DEF OwnerOK
  <2>3. \A l \in Keys : made[l] = 1 => made'[l] = 1
    BY <1>1, <2>1, <2>2 DEF TikTokCreates, CreateTypeOK
  <2>4. QED BY <1>1, <2>1, <2>3 DEF CreateTypeOK
<1>6. QED BY <1>2, <1>3, <1>4, <1>5 DEF CreateCall

\* The replacement is created for an old campaign that is paused.
LEMMA CreateReplacementInv ==
    ASSUME RInv, NEW g \in Requests, CreateReplacement(g)
    PROVE  RInv'
<1>1. SameRebuild /\ CreateInv
  BY DEF CreateReplacement, RInv
<1>2. CASE PrepareAgain(g)
  <2> USE <1>2 DEF PrepareAgain, Goto, SameSystem, tiktok, lease
  <2>1. CreateInv'
    BY <1>1, PrepareAgainInv
  <2>2. Quiet'
    BY <1>1 DEF RInv, Quiet, CreateInv, CreateTypeOK
  <2>3. SourcesOK' /\ RebuildTypeOK'
    BY <1>1 DEF RInv, SourcesOK, SourceOK, RebuildTypeOK, SameRebuild, rebuild
  <2>4. GuardsOK'
    BY <1>1 DEF RInv, GuardsOK, GuardOK, SameRebuild, rebuild, CreateInv, CreateTypeOK
  <2>5. QED BY <2>1, <2>2, <2>3, <2>4 DEF RInv
<1>3. CASE CreateCall(g)
  <2> DEFINE k == target[g]
  <2>1. CreateInv' /\ Quiet'
    BY <1>1, <1>3, CreateCallInv, CreateCallKeeps DEF Keeps, RInv
  <2>2. /\ k \in Keys /\ UNCHANGED <<target, holder>>
        /\ \A e \in Execs \ {g} : pc'[e] = pc[e]
        /\ pc'[g] \in {"row", "refused", "submitting", "answered", "ambiguous", "unknown"}
        /\ \A l \in Keys \ {k} : intent'[l] = intent[l]
        /\ holder # g => UNCHANGED intent
        /\ \/ intent'[k] = intent[k]
           \/ intent[k] \in Recoverable /\ intent'[k] # "SUCCEEDED"
           \/ intent'[k] \in {"PREPARED", "FAILED_TERMINAL"}
           \/ pc[g] = "prepared" /\ intent'[k] = "SUBMITTING"
        /\ intent'[k] = "SUCCEEDED" => intent[k] = "SUCCEEDED"
        /\ pc'[g] = "row" => pc[g] \in {"entered", "answered", "unknown"}
        /\ \A l \in Keys : made[l] = 1 => made'[l] = 1
    BY <1>1, <1>3, CreateCallEffect
  <2>3. holder = g => OwnerOK(g) /\ GuardOK(g)
    BY <1>1 DEF RInv, CreateInv, ExecOK, GuardsOK
  <2>4. SourcesOK'
    <3>1. ASSUME NEW l \in Keys PROVE (<<l, "new">> \in held => made[l] = 1)'
      BY <1>1, <2>2 DEF RInv, SourcesOK, SourceOK, SameRebuild, rebuild
    <3>2. ASSUME NEW l \in Keys,
                 intent'[l] \in ActiveProduct \ {"PREPARED", "COMPENSATION_PENDING"}
          PROVE  l \notin sourceOn'
      <4>1. CASE intent'[l] = intent[l]
        BY <1>1, <3>2, <4>1 DEF RInv, SourcesOK, SourceOK, SameRebuild, rebuild
      <4>2. CASE l = k /\ intent[k] \in Recoverable
        BY <1>1, <2>2, <4>2
           DEF RInv, SourcesOK, SourceOK, SameRebuild, rebuild, Recoverable, ActiveProduct
      <4>3. CASE l = k /\ pc[g] = "prepared" /\ intent'[k] # intent[k]
        BY <1>1, <2>2, <2>3, <4>3 DEF GuardOK, SameRebuild, rebuild
      <4>4. QED BY <2>2, <3>2, <4>1, <4>2, <4>3 DEF ActiveProduct
    <3>3. QED BY <3>1, <3>2 DEF SourcesOK, SourceOK
  <2>5. GuardsOK'
    <3>1. ASSUME NEW e \in Execs, holder' = e PROVE GuardOK(e)'
      <4>1. CASE e = g
        <5>1. pc'[g] = "row" => intent'[k] # "SUCCEEDED"
          BY <2>2, <2>3, <3>1, <4>1 DEF OwnerOK, GuardOK, Resumable
        <5>2. QED BY <2>2, <4>1, <5>1 DEF GuardOK
      <4>2. CASE e # g
        BY <1>1, <2>2, <3>1, <4>2 DEF RInv, GuardsOK, GuardOK, SameRebuild, rebuild
      <4>3. QED BY <4>1, <4>2
    <3>2. QED BY <3>1 DEF GuardsOK
  <2>6. RebuildTypeOK'
    BY <1>1 DEF RInv, RebuildTypeOK, SameRebuild, rebuild
  <2>7. QED BY <2>1, <2>4, <2>5, <2>6 DEF RInv
<1>4. QED BY <1>2, <1>3 DEF CreateReplacement

------------------------------------------------------------------------------
(***************************************************************************)
(* The steps of a cycle                                                    *)
(***************************************************************************)

\* A step of g concerns its own key, and changes anything about it only while
\* g has the lease.
Own(g) ==
    LET k == target[g] IN
    /\ k \in Keys
    /\ UNCHANGED <<made, late, held, crashes, lapses>>
    /\ \A e \in Execs \ {g} : pc'[e] = pc[e] /\ target'[e] = target[e]
    /\ \A l \in Keys \ {k} :
          /\ intent'[l] = intent[l]
          /\ l \in running' <=> l \in running
          /\ l \in sourceOn' <=> l \in sourceOn
    /\ holder # g => UNCHANGED <<holder, intent, running, sourceOn>>
    /\ holder = g => holder' \in {g, Nobody}

\* The variables a step of g may set to anything of their type.
OwnTypes(g) ==
    /\ proved' \in BOOLEAN /\ (proved' => holder' \in Execs)
    /\ pc' \in [Execs -> Labels] /\ target' \in [Execs -> Keys \cup {Nobody}]
    /\ pc'[g] = "idle" <=> target'[g] = Nobody
    /\ intent' \in [Keys -> States \cup {"none"}]
    /\ strategy' \in [Keys -> {"none", "open", "quarantined"}]
    /\ running' \subseteq Keys
    /\ phase' \in [Keys -> Phases] /\ sourceOn' \subseteq Keys
    /\ permitted' \subseteq Keys /\ timely' \subseteq Keys

\* What is left to show of such a step is about one key and one execution.
LEMMA OwnInv ==
    ASSUME RInv, NEW g \in Requests, Own(g), OwnTypes(g), NEW k \in Keys, k = target[g],
           KeyOK(k)', SourceOK(k)',
           intent'[k] = "QUARANTINED" => k \notin running',
           pc'[g] \in Seen => target'[g] = k /\ made[k] = 1,
           holder' = g => /\ target'[g] = k /\ OwnerOK(g)' /\ GuardOK(g)'
                          /\ pc'[g] = "paused" => k \notin running'
    PROVE  RInv'
<1>1. CreateInv'
  <2>1. CreateTypeOK'
    BY DEF RInv, CreateInv, CreateTypeOK, Own, OwnTypes
  <2>2. ASSUME NEW l \in Keys PROVE KeyOK(l)'
    BY DEF RInv, CreateInv, KeyOK, Own
  <2>3. ASSUME NEW e \in Execs PROVE ExecOK(e)'
    <3>1. CASE e = g
      BY <3>1 DEF ExecOK, Own
    <3>2. CASE e # g
      BY <3>2 DEF RInv, CreateInv, ExecOK, OwnerOK, Own
    <3>3. QED BY <3>1, <3>2
  <2>4. QED BY <2>1, <2>2, <2>3 DEF CreateInv
<1>2. RebuildTypeOK'
  BY DEF RInv, RebuildTypeOK, Own, OwnTypes
<1>3. Quiet'
  <2>1. ASSUME NEW l \in Keys, intent'[l] = "QUARANTINED" PROVE l \notin running'
    BY <2>1 DEF RInv, Quiet, Own
  <2>2. ASSUME NEW e \in Execs, holder' = e, pc'[e] = "paused" PROVE target'[e] \notin running'
    BY <2>2 DEF RInv, Quiet, Own
  <2>3. QED BY <2>1, <2>2 DEF Quiet
<1>4. SourcesOK'
  BY DEF RInv, SourcesOK, SourceOK, Own
<1>5. GuardsOK'
  BY DEF RInv, GuardsOK, GuardOK, Own
<1>6. QED BY <1>1, <1>2, <1>3, <1>4, <1>5 DEF RInv

\* A checkpoint that leaves the campaigns alone.
LEMMA StoreInv ==
    ASSUME RInv, NEW g \in Requests, NEW state \in States, NEW value \in Phases,
           NEW label \in Labels \ {"idle", "paused"}, Store(g, state, value, label),
           pc[g] # "idle", NEW k \in Keys, k = target[g],
           KeyOK(k)', SourceOK(k)', state = "QUARANTINED" => intent[k] = "QUARANTINED",
           label \in Seen => made[k] = 1,
           OwnerOK(g)', GuardOK(g)'
    PROVE  RInv'
<1> USE DEF Store, SetIntent, SetPhase, Commit, Goto, SameSource, Same, tiktok
<1>1. Own(g)
  BY DEF Own, RInv, CreateInv, CreateTypeOK
<1>2. OwnTypes(g)
  BY DEF OwnTypes, RInv, CreateInv, CreateTypeOK, RebuildTypeOK
<1>3. intent'[k] = "QUARANTINED" => k \notin running'
  BY DEF RInv, CreateInv, CreateTypeOK, Quiet
<1>4. pc'[g] = label /\ target'[g] = k
  BY DEF RInv, CreateInv, CreateTypeOK
<1>5. QED BY <1>1, <1>2, <1>3, <1>4, OwnInv

\* The cycle ends with a checkpoint that says that nothing was created.
LEMMA TerminateInv ==
    ASSUME RInv, NEW g \in Requests, NEW value \in Phases, Terminate(g, value),
           NEW k \in Keys, k = target[g],
           intent[k] \in {"PREPARED", "COMPENSATION_PENDING"}
    PROVE  RInv'
<1> USE DEF Terminate, SetIntent, SetPhase, CommitAndLeave, Leave, End, SameSource, Same, tiktok
<1>1. Own(g)
  BY DEF Own, RInv, CreateInv, CreateTypeOK
<1>2. OwnTypes(g)
  BY DEF OwnTypes, RInv, CreateInv, CreateTypeOK, RebuildTypeOK, States, Labels
<1>3. intent'[k] = "FAILED_TERMINAL" /\ KeyOK(k) /\ SourceOK(k)
  BY DEF RInv, CreateInv, CreateTypeOK, SourcesOK
<1>4. KeyOK(k)' /\ SourceOK(k)'
  BY <1>3 DEF KeyOK, SourceOK, Pending, RemoteStates, ActiveProduct
<1>5. pc'[g] = "idle" /\ holder' # g
  BY DEF RInv, CreateInv, CreateTypeOK
<1>6. QED BY <1>1, <1>2, <1>3, <1>4, <1>5, OwnInv DEF Seen

\* The cycle ends and stores nothing.
LEMMA GiveUpInv ==
    ASSUME RInv, NEW g \in Requests, GiveUp(g)
    PROVE  RInv'
<1>1. CreateInv'
  BY LeaveInv DEF RInv, GiveUp
<1>2. /\ UNCHANGED <<intent, running, made>> /\ SameRebuild
      /\ \A e \in Execs : holder' = e => holder = e /\ pc'[e] = pc[e] /\ target'[e] = target[e]
  BY DEF GiveUp, Leave, End, SameSystem, tiktok, RInv, CreateInv, CreateTypeOK
<1>3. Quiet'
  BY <1>2 DEF RInv, Quiet
<1>4. QED BY <1>1, <1>2, <1>3, QuietStep DEF RInv

\* A step of g that only says where it goes next, or that something raised.
LEMMA MoveInv ==
    ASSUME RInv, NEW g \in Requests, pc[g] # "idle", SameSystem, SameRebuild, Same,
           UNCHANGED lease \/ RollBack(g), NEW label \in {"failing", "refused"}, Goto(g, label),
           label = "failing" => made[target[g]] = 1 /\
              (holder = g => intent[target[g]] \in RemoteStates \ {"SUCCEEDED"})
    PROVE  RInv'
<1> USE DEF SameSystem, SameRebuild, rebuild, Same, RollBack, Goto, lease, tiktok
<1> DEFINE k == target[g]
<1>1. k \in Keys
  BY TargetIsKey DEF RInv, CreateInv
<1>2. holder' = holder /\ proved' \in BOOLEAN /\ (proved' => holder \in Execs)
  <2>1. CASE holder = g
    BY <2>1 DEF RInv, CreateInv, CreateTypeOK
  <2>2. CASE holder # g
    BY <2>2 DEF RInv, CreateInv, CreateTypeOK
  <2>3. QED BY <2>1, <2>2
<1>3. pc'[g] = label /\ target'[g] = k
  BY DEF RInv, CreateInv, CreateTypeOK
<1>4. Own(g)
  BY <1>1, <1>2, <1>3 DEF Own, RInv, CreateInv, CreateTypeOK
<1>5. OwnTypes(g)
  BY <1>1, <1>2, <1>3 DEF OwnTypes, RInv, CreateInv, CreateTypeOK, RebuildTypeOK, Labels
<1>6. KeyOK(k)' /\ SourceOK(k)' /\ (intent'[k] = "QUARANTINED" => k \notin running')
  BY <1>1 DEF RInv, CreateInv, SourcesOK, KeyOK, SourceOK, Quiet
<1>7. holder' = g => OwnerOK(g)' /\ GuardOK(g)'
  BY <1>2, <1>3 DEF OwnerOK, GuardOK
<1>8. QED BY <1>1, <1>3, <1>4, <1>5, <1>6, <1>7, OwnInv DEF Seen

\* What a working cycle knows about its key.
LEMMA Knowledge ==
    ASSUME RInv, NEW e \in Execs, pc[e] # "idle"
    PROVE  /\ target[e] \in Keys /\ KeyOK(target[e]) /\ SourceOK(target[e])
           /\ intent[target[e]] \in States \cup {"none"}
           /\ pc[e] \in Seen => made[target[e]] = 1
           /\ holder = e => OwnerOK(e) /\ GuardOK(e)
           /\ intent[target[e]] = "QUARANTINED" => target[e] \notin running
<1>1. target[e] \in Keys
  BY TargetIsKey DEF RInv, CreateInv
<1>2. QED
  BY <1>1 DEF RInv, CreateInv, CreateTypeOK, ExecOK, SourcesOK, GuardsOK, Quiet

\* Deciding what to do with the rebuild.
LEMMA DecidingInv ==
    ASSUME RInv, NEW g \in Requests,
           \/ Revoke(g) \/ RetryQuarantine(g) \/ ResumeCompensation(g)
           \/ PrepareRebuild(g) \/ Expire(g) \/ Checkpoint(g) \/ Hold(g)
    PROVE  RInv'
<1> DEFINE k == target[g]
<1>0. pc[g] = "deciding"
  BY DEF Revoke, RetryQuarantine, ResumeCompensation, PrepareRebuild, Expire, Checkpoint, Hold,
         Continues
<1>1. /\ k \in Keys /\ KeyOK(k) /\ SourceOK(k) /\ intent[k] \in States \cup {"none"}
      /\ intent[k] = "QUARANTINED" => k \notin running
  BY <1>0, Knowledge
<1>2. CASE Revoke(g)
  BY <1>1, <1>2, TerminateInv DEF Revoke, Phases
<1>3. CASE RetryQuarantine(g)
  <2>1. intent[k] \in RemoteStates \ {"SUCCEEDED"} /\ made[k] = 1
    BY <1>1, <1>3 DEF RetryQuarantine, KeyOK, RemoteStates
  <2>2. QED BY <1>0, <1>3, <2>1, MoveInv DEF RetryQuarantine
<1>4. CASE ResumeCompensation(g)
  BY <1>0, <1>4, MoveInv DEF ResumeCompensation
<1>5. CASE PrepareRebuild(g)
  <2> USE <1>5 DEF PrepareRebuild, StoreIntent, SetIntent, Commit, SameRebuild, rebuild, Same,
                   control, tiktok
  <2> PICK key \in Keys : key = k
    BY <1>1
  <2>1. Own(g)
    BY DEF Own, RInv, CreateInv, CreateTypeOK
  <2>2. OwnTypes(g)
    BY <1>0 DEF OwnTypes, RInv, CreateInv, CreateTypeOK, RebuildTypeOK, States, ActiveProduct
  <2>3. intent'[key] = "PREPARED" /\ intent[key] = "none"
    BY DEF RInv, CreateInv, CreateTypeOK
  <2>4. KeyOK(key)' /\ SourceOK(key)'
    BY <1>1, <2>3 DEF KeyOK, SourceOK, Pending, RemoteStates
  <2>5. OwnerOK(g)' /\ GuardOK(g)'
    BY <1>0 DEF OwnerOK, GuardOK
  <2>6. QED BY <1>0, <2>1, <2>2, <2>3, <2>4, <2>5, OwnInv DEF Seen
<1>6. CASE Expire(g)
  <2>1. CASE phase[k] \in PauseStarted
    <3> PICK key \in Keys : key = k
      BY <1>1
    <3>1. /\ Store(g, "COMPENSATION_PENDING", "COMPENSATION_PENDING", "refused")
          /\ intent[key] = "PREPARED"
      BY <1>6, <2>1 DEF Expire
    <3>2. /\ intent'[key] = "COMPENSATION_PENDING" /\ pc'[g] = "refused"
          /\ UNCHANGED <<tiktok, held, sourceOn>>
      BY <3>1 DEF Store, SetIntent, Goto, SameSource, RInv, CreateInv, CreateTypeOK
    <3>3. KeyOK(key)' /\ SourceOK(key)' /\ OwnerOK(g)' /\ GuardOK(g)'
      BY <1>1, <3>1, <3>2 DEF KeyOK, SourceOK, OwnerOK, GuardOK, tiktok, Pending, RemoteStates
    <3>4. QED BY <1>0, <3>1, <3>3, StoreInv
                 DEF States, ActiveProduct, Phases, PauseStarted, Labels, Seen
  <2>2. CASE phase[k] \notin PauseStarted
    BY <1>1, <1>6, <2>2, TerminateInv DEF Expire, Phases
  <2>3. QED BY <2>1, <2>2
<1>7. CASE Checkpoint(g)
  <2> PICK key \in Keys : key = k
    BY <1>1
  <2>1. /\ Store(g, intent[key], "OLD_PAUSE_PENDING", "pausing") /\ intent[key] \in Resumable
    BY <1>7 DEF Checkpoint, Continues
  <2>2. /\ intent'[key] = intent[key] /\ pc'[g] = "pausing" /\ target'[g] = key
        /\ UNCHANGED <<tiktok, held, sourceOn>>
    BY <2>1 DEF Store, SetIntent, Goto, SameSource, RInv, CreateInv, CreateTypeOK
  <2>3. KeyOK(key)' /\ SourceOK(key)' /\ OwnerOK(g)' /\ GuardOK(g)'
    BY <1>1, <2>1, <2>2 DEF KeyOK, SourceOK, OwnerOK, GuardOK, tiktok
  <2>4. QED BY <1>0, <2>1, <2>3, StoreInv
               DEF Resumable, States, ActiveProduct, Phases, PauseStarted, Labels, Seen
<1>8. CASE Hold(g)
  BY <1>8, GiveUpInv DEF Hold
<1>9. QED BY <1>2, <1>3, <1>4, <1>5, <1>6, <1>7, <1>8

\* The calls that pause and enable the old campaign.
LEMMA OldCampaignInv ==
    ASSUME RInv, NEW g \in Requests, PauseOld(g) \/ EnableOld(g)
    PROVE  RInv'
<1> USE DEF PauseOld, EnableOld, Prove, Goto, Leave, End, SameSystem, Same, tiktok
<1> PICK k \in Keys : k = target[g]
  BY Knowledge
<1>1. /\ pc[g] # "idle" /\ holder = g /\ KeyOK(k) /\ SourceOK(k) /\ GuardOK(g)
      /\ intent[k] = "QUARANTINED" => k \notin running
  BY Knowledge
<1>2. Own(g)
  BY DEF Own, RInv, CreateInv, CreateTypeOK
<1>3. OwnTypes(g)
  <2>1. /\ proved' \in BOOLEAN /\ (proved' => holder' \in Execs)
        /\ pc' \in [Execs -> Labels] /\ target' \in [Execs -> Keys \cup {Nobody}]
        /\ pc'[g] = "idle" <=> target'[g] = Nobody
    <3>1. \/ proved' = TRUE /\ holder' = g
          \/ proved' = FALSE
      BY <1>1
    <3>2. /\ pc' \in [Execs -> Labels] /\ target' \in [Execs -> Keys \cup {Nobody}]
          /\ pc'[g] = "idle" <=> target'[g] = Nobody
      <4>1. \/ pc' = [pc EXCEPT ![g] = "oldPaused"] /\ UNCHANGED target
            \/ pc' = [pc EXCEPT ![g] = "restored"] /\ UNCHANGED target
            \/ pc' = [pc EXCEPT ![g] = "idle"] /\ target' = [target EXCEPT ![g] = Nobody]
        OBVIOUS
      <4> HIDE DEF PauseOld, EnableOld, Prove, Goto, Leave, End
      <4>2. QED BY <1>1, <4>1 DEF RInv, CreateInv, CreateTypeOK, Labels
    <3>3. QED BY <3>1, <3>2
  <2>2. sourceOn' \subseteq Keys
    BY DEF RInv, RebuildTypeOK
  <2>3. QED BY <2>1, <2>2 DEF OwnTypes, RInv, CreateInv, CreateTypeOK, RebuildTypeOK
<1>4. \/ holder' # g /\ pc'[g] = "idle"
      \/ holder' = g /\ pc'[g] = "oldPaused" /\ target'[g] = k /\ k \notin sourceOn'
           /\ pc[g] = "pausing"
      \/ holder' = g /\ pc'[g] = "restored" /\ target'[g] = k /\ pc[g] = "compensating"
  BY <1>1 DEF RInv, CreateInv, CreateTypeOK
<1>5. KeyOK(k)'
  BY <1>1 DEF KeyOK
<1>6. SourceOK(k)'
  <2>1. k \in sourceOn' => k \in sourceOn \/ intent[k] = "COMPENSATION_PENDING"
    BY <1>1 DEF GuardOK
  <2>2. QED BY <1>1, <2>1 DEF SourceOK
<1>7. holder' = g => OwnerOK(g)' /\ GuardOK(g)'
  BY <1>1, <1>4 DEF OwnerOK, GuardOK
<1>8. QED BY <1>1, <1>2, <1>3, <1>4, <1>5, <1>6, <1>7, OwnInv DEF Seen

\* The calls that pause and enable the replacement.
LEMMA ReplacementInv ==
    ASSUME RInv, NEW g \in Requests, PauseNew(g) \/ EnableNew(g) \/ PauseReplacement(g)
    PROVE  RInv'
<1> USE DEF PauseNew, EnableNew, PauseReplacement, Pause, Enable, Prove, RollBack, Commit, Goto,
            SameRows, SameRebuild, rebuild, Same
<1> PICK k \in Keys : k = target[g]
  BY Knowledge
<1>1. /\ pc[g] \in {"newPausing", "enabling", "failing"} /\ holder = g
      /\ KeyOK(k) /\ SourceOK(k) /\ OwnerOK(g) /\ made[k] = 1
      /\ intent[k] = "QUARANTINED" => k \notin running
  BY Knowledge DEF Seen
<1>2. Own(g)
  BY <1>1 DEF Own, RInv, CreateInv, CreateTypeOK, tiktok
<1>3. OwnTypes(g)
  <2>1. /\ proved' \in BOOLEAN /\ (proved' => holder' \in Execs)
        /\ pc' \in [Execs -> Labels] /\ target' \in [Execs -> Keys \cup {Nobody}]
        /\ pc'[g] = "idle" <=> target'[g] = Nobody
    <3>1. \/ proved' = TRUE /\ holder' = g
          \/ proved' = FALSE
      BY <1>1
    <3>2. /\ pc' \in [Execs -> Labels] /\ target' \in [Execs -> Keys \cup {Nobody}]
          /\ pc'[g] = "idle" <=> target'[g] = Nobody
      <4>1. CASE PauseNew(g) \/ EnableNew(g)
        BY <1>1, <4>1 DEF RInv, CreateInv, CreateTypeOK, Labels
      <4>2. CASE PauseReplacement(g)
        BY <1>1, <4>2 DEF RInv, CreateInv, CreateTypeOK, Labels
      <4>3. QED BY <4>1, <4>2
    <3>3. QED BY <3>1, <3>2
  <2>2. running' \subseteq Keys
    BY DEF RInv, CreateInv, CreateTypeOK, tiktok
  <2>3. QED BY <2>1, <2>2 DEF OwnTypes, RInv, CreateInv, CreateTypeOK, RebuildTypeOK
<1>4. /\ holder' = g /\ target'[g] = k /\ UNCHANGED <<intent, made, late>>
      /\ pc'[g] \in {"disabled", "failing", "enabled", "paused", "unpaused"}
      /\ pc'[g] = "paused" => k \notin running'
      /\ pc'[g] = "enabled" => pc[g] = "enabling"
      /\ k \in running' => k \in running \/ pc[g] = "enabling"
  BY <1>1 DEF RInv, CreateInv, CreateTypeOK, tiktok
<1>5. intent[k] \in RemoteStates \ {"SUCCEEDED"} /\ (pc[g] = "enabling" => intent[k] = "FINALIZING")
  BY <1>1 DEF OwnerOK, RemoteStates
<1>6. KeyOK(k)' /\ SourceOK(k)'
  BY <1>1, <1>4 DEF KeyOK, SourceOK
<1>7. OwnerOK(g)' /\ GuardOK(g)'
  BY <1>4, <1>5 DEF OwnerOK, GuardOK
<1>8. intent'[k] = "QUARANTINED" => k \notin running'
  BY <1>1, <1>4, <1>5
<1>9. QED BY <1>1, <1>2, <1>3, <1>4, <1>6, <1>7, <1>8, OwnInv

\* The checkpoints of the replacement and of the compensation.
LEMMA CheckpointInv ==
    ASSUME RInv, NEW g \in Requests,
           \/ MarkOldPaused(g) \/ MarkCreatedForRebuild(g) \/ ExclusionsComplete(g)
           \/ CheckEnable(g) \/ BeginCompensation(g)
    PROVE  RInv'
<1> USE DEF MarkOldPaused, MarkCreatedForRebuild, ExclusionsComplete, CheckEnable,
            BeginCompensation
<1> PICK k \in Keys : k = target[g]
  BY Knowledge
<1>1. /\ pc[g] # "idle" /\ KeyOK(k) /\ SourceOK(k) /\ OwnerOK(g) /\ GuardOK(g)
      /\ intent[k] \in States \cup {"none"} /\ (pc[g] \in Seen => made[k] = 1)
  BY Knowledge DEF Store, Commit
<1>2. PICK state \in States, value \in Phases, label \in Labels \ {"idle", "paused"} :
        /\ Store(g, state, value, label)
        /\ \/ pc[g] = "oldPaused" /\ label = "entered" /\ state = intent[k]
           \/ pc[g] = "row" /\ label = "newPausing" /\ state = "REMOTE_CREATED"
           \/ pc[g] = "finalizing" /\ label = "excluded" /\ state = "FINALIZING"
           \/ /\ pc[g] = "excluded" /\ label = "enabling" /\ state = "FINALIZING"
              /\ <<k, "new">> \notin held
           \/ /\ pc[g] = "refused" /\ label = "compensating" /\ state = "COMPENSATION_PENDING"
              /\ <<k, "old">> \notin held /\ Compensable(k)
  <2>1. pc[g] = "oldPaused" => intent[k] \in States
    BY <1>1 DEF GuardOK, Resumable, States, ActiveProduct
  <2>2. QED BY <2>1 DEF States, ActiveProduct, Phases, PauseStarted, Labels, Allowed
<1>3. /\ intent'[k] = state /\ pc'[g] = label /\ target'[g] = k
      /\ UNCHANGED <<made, late, running, held, sourceOn>>
  BY <1>2 DEF Store, SetIntent, Goto, SameSource, RInv, CreateInv, CreateTypeOK, tiktok
<1>4. KeyOK(k)'
  BY <1>1, <1>2, <1>3 DEF KeyOK, OwnerOK, Compensable, Pending, RemoteStates, Seen
<1>5. SourceOK(k)'
  BY <1>1, <1>2, <1>3 DEF SourceOK, OwnerOK, GuardOK, RemoteStates, ActiveProduct
<1>6. OwnerOK(g)' /\ GuardOK(g)'
  BY <1>1, <1>2, <1>3 DEF OwnerOK, GuardOK, RemoteStates
<1>7. label \in Seen => made[k] = 1
  BY <1>1, <1>2 DEF Seen
<1>8. state = "QUARANTINED" => intent[k] = "QUARANTINED"
  BY <1>2
<1>9. QED BY <1>1, <1>2, <1>4, <1>5, <1>6, <1>7, <1>8, StoreInv

\* The checkpoints that change the mark of the strategy as well.
LEMMA MarkInv ==
    ASSUME RInv, NEW g \in Requests, BeginFinalizing(g) \/ Complete(g)
    PROVE  RInv'
<1> USE DEF BeginFinalizing, Complete, SetIntent, SetPhase, SetStrategy, Commit, CommitAndLeave,
            Leave, End, Goto, SameSource, Same, tiktok
<1> PICK k \in Keys : k = target[g]
  BY Knowledge
<1>1. /\ pc[g] \in {"disabled", "enabled"} /\ KeyOK(k) /\ SourceOK(k) /\ OwnerOK(g)
      /\ made[k] = 1
  BY Knowledge DEF Seen
<1>2. Own(g)
  <2>1. /\ UNCHANGED <<made, late, running, held, sourceOn, crashes, lapses>>
        /\ holder = g /\ holder' \in {g, Nobody}
    OBVIOUS
  <2>2. \A e \in Execs \ {g} : pc'[e] = pc[e] /\ target'[e] = target[e]
    <3>1. pc \in [Execs -> Labels] /\ target \in [Execs -> Keys \cup {Nobody}]
      BY DEF RInv, CreateInv, CreateTypeOK
    <3>2. /\ \E l : pc' = [pc EXCEPT ![g] = l]
          /\ target' = target \/ target' = [target EXCEPT ![g] = Nobody]
      OBVIOUS
    <3>3. QED BY <3>1, <3>2
  <2>3. \A l \in Keys \ {k} : intent'[l] = intent[l]
    BY DEF RInv, CreateInv, CreateTypeOK
  <2>4. QED BY <2>1, <2>2, <2>3 DEF Own
<1>3. OwnTypes(g)
  <2>1. /\ proved' \in BOOLEAN /\ (proved' => holder' \in Execs)
        /\ pc' \in [Execs -> Labels] /\ target' \in [Execs -> Keys \cup {Nobody}]
        /\ pc'[g] = "idle" <=> target'[g] = Nobody
    <3>1. CASE BeginFinalizing(g)
      <4>1. g \in Execs /\ "finalizing" \in Labels
        BY DEF Labels
      <4>2. /\ pc' = [pc EXCEPT ![g] = "finalizing"] /\ UNCHANGED <<target, holder>>
            /\ proved' = FALSE
        BY <3>1
      <4>3. /\ pc \in [Execs -> Labels] /\ target \in [Execs -> Keys \cup {Nobody}]
            /\ pc[g] = "idle" <=> target[g] = Nobody
        BY DEF RInv, CreateInv, CreateTypeOK
      <4>4. QED BY <1>1, <4>1, <4>2, <4>3
    <3>2. CASE Complete(g)
      BY <1>1, <3>2 DEF RInv, CreateInv, CreateTypeOK, Labels
    <3>3. QED BY <3>1, <3>2
  <2>2. /\ intent' \in [Keys -> States \cup {"none"}] /\ permitted' \subseteq Keys
        /\ strategy' \in [Keys -> {"none", "open", "quarantined"}]
        /\ phase' \in [Keys -> Phases]
    <3>1. CASE BeginFinalizing(g)
      BY <3>1 DEF RInv, CreateInv, CreateTypeOK, RebuildTypeOK, States, ActiveProduct, Phases
    <3>2. CASE Complete(g)
      BY <3>2 DEF RInv, CreateInv, CreateTypeOK, RebuildTypeOK, States, Phases
    <3>3. QED BY <3>1, <3>2
  <2>3. QED BY <2>1, <2>2 DEF OwnTypes, RInv, CreateInv, CreateTypeOK, RebuildTypeOK
<1>4. \/ /\ pc[g] = "disabled" /\ intent'[k] = "FINALIZING" /\ pc'[g] = "finalizing"
         /\ target'[g] = k
      \/ /\ pc[g] = "enabled" /\ intent'[k] = "SUCCEEDED" /\ pc'[g] = "idle" /\ holder' # g
  <2>1. CASE BeginFinalizing(g)
    BY <1>1, <2>1 DEF RInv, CreateInv, CreateTypeOK
  <2>2. CASE Complete(g)
    BY <1>1, <2>2 DEF RInv, CreateInv, CreateTypeOK
  <2>3. QED BY <2>1, <2>2
<1>5. KeyOK(k)'
  BY <1>1, <1>4 DEF KeyOK, Pending, RemoteStates, OwnerOK
<1>6. SourceOK(k)'
  BY <1>1, <1>4 DEF SourceOK, OwnerOK, ActiveProduct, RemoteStates
<1>7. holder' = g => OwnerOK(g)' /\ GuardOK(g)'
  BY <1>4 DEF OwnerOK, GuardOK
<1>8. QED BY <1>1, <1>2, <1>3, <1>4, <1>5, <1>6, <1>7, OwnInv DEF Seen

\* Exceptions, and a rebuild that ends as compensated.
LEMMA RaisesInv ==
    ASSUME RInv, NEW g \in Requests,
           \/ PauseForbidden(g) \/ OldPauseRaises(g) \/ FinishingRaises(g)
           \/ NoCompensation(g) \/ Compensated(g) \/ CompensationRaises(g)
    PROVE  RInv'
<1>1. CASE PauseForbidden(g) \/ NoCompensation(g) \/ CompensationRaises(g)
  BY <1>1, GiveUpInv DEF PauseForbidden, NoCompensation, CompensationRaises
<1>2. CASE OldPauseRaises(g)
  BY <1>2, MoveInv DEF OldPauseRaises
<1>3. CASE FinishingRaises(g)
  <2>1. /\ pc[g] \in Seen /\ pc[g] # "idle"
        /\ pc[g] \in {"row", "newPausing", "disabled", "finalizing", "excluded", "enabling", "enabled"}
    BY <1>3 DEF FinishingRaises, Seen
  <2>2. /\ made[target[g]] = 1
        /\ holder = g => intent[target[g]] \in RemoteStates \ {"SUCCEEDED"}
    BY <2>1, Knowledge DEF OwnerOK, GuardOK, RemoteStates
  <2>3. QED BY <1>3, <2>1, <2>2, MoveInv DEF FinishingRaises
<1>4. CASE Compensated(g)
  <2>1. pc[g] = "restored" /\ holder = g
    BY <1>4 DEF Compensated, Terminate, CommitAndLeave
  <2>2. target[g] \in Keys /\ intent[target[g]] = "COMPENSATION_PENDING"
    BY <2>1, Knowledge DEF GuardOK
  <2>3. QED BY <1>4, <2>2, TerminateInv DEF Compensated, Phases
<1>5. QED BY <1>1, <1>2, <1>3, <1>4

\* The quarantine of the replacement is stored, by its cycle or by the scan.
LEMMA QuarantineInv ==
    ASSUME RInv, NEW e \in Execs, QuarantineStep(e),
           UNCHANGED <<sourceOn, permitted, held, timely>>, phase' \in [Keys -> Phases]
    PROVE  RInv'
<1> USE DEF Goto, SetIntent, SameRows, SameSystem, tiktok
<1> PICK k \in Keys : k = target[e]
  BY Knowledge DEF QuarantineStep, SafetyPause, Quarantine, QuarantineFails
<1>1. CreateInv' /\ Quiet'
  BY QuarantineStepInv, QuarantineStepKeeps DEF RInv, Keeps
<1>2. RebuildTypeOK'
  BY DEF RInv, RebuildTypeOK
<1>3. /\ UNCHANGED made /\ \A l \in Keys \ {k} : intent'[l] = intent[l]
      /\ \/ UNCHANGED intent
         \/ intent[k] \in RemoteStates \ {"SUCCEEDED"}
      /\ \A f \in Execs : holder' = f =>
            \/ f # e /\ holder = f /\ pc'[f] = pc[f] /\ target'[f] = target[f] /\ UNCHANGED intent
            \/ pc'[f] \in {"paused", "unpaused"}
  <2>1. CASE SafetyPause(e)
    BY <2>1 DEF SafetyPause, Pause, RInv, CreateInv, CreateTypeOK
  <2>2. CASE Quarantine(e)
    <3>1. holder = e /\ pc[e] \in {"paused", "unpaused"} /\ OwnerOK(e)
      BY <2>2 DEF Quarantine, CommitAndLeave, RInv, CreateInv, ExecOK
    <3>2. QED BY <2>2, <3>1 DEF Quarantine, CommitAndLeave, Leave, End, OwnerOK,
                                RInv, CreateInv, CreateTypeOK
  <2>3. CASE QuarantineFails(e)
    BY <2>3 DEF QuarantineFails, Leave, End, RInv, CreateInv, CreateTypeOK
  <2>4. QED BY <2>1, <2>2, <2>3 DEF QuarantineStep
<1>4. SourcesOK'
  BY <1>3 DEF RInv, SourcesOK, SourceOK, RemoteStates, ActiveProduct
<1>5. GuardsOK'
  BY <1>3 DEF RInv, GuardsOK, GuardOK
<1>6. QED BY <1>1, <1>2, <1>4, <1>5 DEF RInv

\* A cycle of the Guard.
LEMMA CycleStepInv ==
    ASSUME RInv, NEW g \in Requests, CycleStep(g)
    PROVE  RInv'
<1>1. CASE StoreQuarantine(g) \/ StoreQuarantineFails(g)
  <2>1. QuarantineStep(g) /\ UNCHANGED <<sourceOn, permitted, held, timely>>
    BY <1>1 DEF StoreQuarantine, StoreQuarantineFails, QuarantineStep, SameSource, SameRebuild,
                rebuild
  <2>2. phase' \in [Keys -> Phases]
    BY <1>1 DEF RInv, RebuildTypeOK, StoreQuarantine, StoreQuarantineFails, SetPhase, Phases,
                SameRebuild, rebuild
  <2>3. QED BY <2>1, <2>2, QuarantineInv
<1>2. QED
  BY <1>1, DecidingInv, OldCampaignInv, ReplacementInv, CheckpointInv, MarkInv, RaisesInv,
     CreateReplacementInv DEF CycleStep

------------------------------------------------------------------------------
(***************************************************************************)
(* Scans, users and the environment                                        *)
(***************************************************************************)

\* A lease is taken, by a cycle or by the scan.
LEMMA TakesInv ==
    ASSUME RInv, NEW e \in Execs, NEW k \in Keys, NEW label \in {"deciding", "scanned"},
           Take(e, k, label), SameSystem, SameRebuild, Same
    PROVE  RInv'
<1>1. CreateInv'
  BY TakeInv DEF RInv
<1>2. UNCHANGED <<intent, made, running>> /\ pc'[e] = label /\ holder' = e
  BY DEF Take, SameSystem, tiktok, RInv, CreateInv, CreateTypeOK
<1>3. Quiet'
  BY <1>2 DEF RInv, Quiet
<1>4. QED BY <1>1, <1>2, <1>3, QuietStep DEF RInv

\* The recovery scan.
LEMMA ScansInv ==
    ASSUME RInv, NEW c \in Recoverers, ScanStep(c), SameRebuild
    PROVE  RInv'
<1>1. CASE QuarantineStep(c)
  BY <1>1, QuarantineInv DEF RInv, RebuildTypeOK, SameRebuild, rebuild
<1>2. CASE Confirm(c) \/ NotConfirmed(c)
  <2>1. CreateInv' /\ Quiet'
    BY ScanStepInv, ScanStepKeeps DEF RInv, Keeps
  <2>2. target[c] \in Keys
    BY <1>2, Knowledge DEF Confirm, NotConfirmed
  <2>3. /\ UNCHANGED made
        /\ \/ UNCHANGED intent
           \/ /\ intent[target[c]] \in Recoverable
              /\ \A l \in Keys \ {target[c]} : intent'[l] = intent[l]
        /\ \A e \in Execs : holder' = e =>
              \/ e = c /\ pc'[c] = "found"
              \/ e # c /\ holder = e /\ pc'[e] = pc[e] /\ target'[e] = target[e] /\ UNCHANGED intent
    <3>1. CASE Confirm(c)
      BY <2>2, <3>1 DEF Confirm, SetIntent, Commit, Goto, tiktok, RInv, CreateInv, CreateTypeOK
    <3>2. CASE NotConfirmed(c)
      BY <3>2 DEF NotConfirmed, Leave, End, SameSystem, tiktok, RInv, CreateInv, CreateTypeOK
    <3>3. QED BY <1>2, <3>1, <3>2
  <2>4. SourcesOK'
    BY <2>2, <2>3
       DEF RInv, SourcesOK, SourceOK, SameRebuild, rebuild, Recoverable, ActiveProduct
  <2>5. GuardsOK'
    BY <2>3 DEF RInv, GuardsOK, GuardOK, SameRebuild, rebuild
  <2>6. RebuildTypeOK'
    BY DEF RInv, RebuildTypeOK, SameRebuild, rebuild
  <2>7. QED BY <2>1, <2>4, <2>5, <2>6 DEF RInv
<1>3. QED BY <1>1, <1>2 DEF ScanStep

\* Faults of the environment.
LEMMA FaultsInv ==
    ASSUME RInv, Environment, SameRebuild
    PROVE  RInv'
<1>1. CreateInv' /\ Quiet'
  BY EnvironmentInv, EnvironmentKeeps DEF RInv, Keeps
<1>2. UNCHANGED intent /\ \A k \in Keys : made[k] = 1 => made'[k] = 1
  <2>1. CASE \E k \in Keys : LateCreate(k)
    BY <2>1 DEF LateCreate, TikTokCreates, SameRows, RInv, CreateInv, CreateTypeOK, KeyOK
  <2>2. CASE ~\E k \in Keys : LateCreate(k)
    BY <2>2 DEF Environment, Crash, FenceLost, StaleLeaseExpires, LeaseLapses, SameSystem, tiktok
  <2>3. QED BY <2>1, <2>2
<1>3. ASSUME NEW e \in Execs, holder' = e
      PROVE  holder = e /\ pc'[e] = pc[e] /\ target'[e] = target[e]
  BY <1>3 DEF Environment, LateCreate, Crash, FenceLost, StaleLeaseExpires, LeaseLapses, End,
              lease, control, RInv, CreateInv, CreateTypeOK
<1>4. QED BY <1>1, <1>2, <1>3, QuietStep DEF RInv

\* Users, and time.
LEMMA UserInv ==
    ASSUME RInv, NEW k \in Keys, UserStep(k) \/ TimePasses(k)
    PROVE  RInv'
<1> USE DEF UserStep, UserPausesOld, UserPausesNew, UserEnablesOld, UserEnablesNew, UserEdits,
            Free, Pause, Enable
<1>1. CASE TimePasses(k)
  BY <1>1 DEF TimePasses, createVars, tiktok, lease, control, RInv, CreateInv, CreateTypeOK,
              KeyOK, ExecOK, OwnerOK, RebuildTypeOK, Quiet, SourcesOK, SourceOK, GuardsOK, GuardOK
<1>2. CASE UserStep(k)
  <2>1. /\ UNCHANGED <<intent, strategy, made, late, lease, control, crashes, lapses, phase, timely>>
        /\ holder = Nobody
        /\ \A l \in Keys \ {k} : l \in running' <=> l \in running
        /\ k \in running' => k \in running \/ (made[k] > 0 /\ ~ReplacementHeld(k))
        /\ \A l \in Keys \ {k} : l \in sourceOn' <=> l \in sourceOn
        /\ k \in sourceOn' => k \in sourceOn \/ ~SourceHeld(k)
        /\ \A l \in Keys : <<l, "new">> \in held' => <<l, "new">> \in held \/ (l = k /\ made[k] > 0)
    BY <1>2 DEF tiktok
  <2>2. /\ running' \subseteq Keys /\ sourceOn' \subseteq Keys /\ permitted' \subseteq Keys
        /\ held' \subseteq Keys \X Sides
    BY <1>2 DEF RInv, CreateInv, CreateTypeOK, RebuildTypeOK, tiktok, Sides
  <2>3. CreateInv'
    <3>1. CreateTypeOK'
      BY <2>1, <2>2 DEF RInv, CreateInv, CreateTypeOK, lease, control
    <3>2. ASSUME NEW l \in Keys PROVE KeyOK(l)'
      BY <2>1 DEF RInv, CreateInv, CreateTypeOK, KeyOK
    <3>3. ASSUME NEW e \in Execs PROVE ExecOK(e)'
      BY <2>1 DEF RInv, CreateInv, ExecOK, OwnerOK, lease, control
    <3>4. QED BY <3>1, <3>2, <3>3 DEF CreateInv
  <2>4. RebuildTypeOK'
    BY <2>1, <2>2 DEF RInv, RebuildTypeOK
  <2>5. Quiet'
    BY <2>1 DEF RInv, Quiet, ReplacementHeld, Known, RemoteStates, lease, control
  <2>6. SourcesOK'
    <3>1. ASSUME NEW l \in Keys,
                 intent'[l] \in ActiveProduct \ {"PREPARED", "COMPENSATION_PENDING"}
          PROVE  l \notin sourceOn'
      BY <2>1, <3>1 DEF RInv, SourcesOK, SourceOK, SourceHeld, ActiveProduct
    <3>2. ASSUME NEW l \in Keys, <<l, "new">> \in held' PROVE made'[l] = 1
      <4>1. made[k] \in 0 .. 1
        BY DEF RInv, CreateInv, KeyOK
      <4>2. QED BY <2>1, <3>2, <4>1 DEF RInv, SourcesOK, SourceOK
    <3>3. QED BY <3>1, <3>2 DEF SourcesOK, SourceOK
  <2>7. GuardsOK'
    BY <2>1 DEF GuardsOK, lease
  <2>8. QED BY <2>3, <2>4, <2>5, <2>6, <2>7 DEF RInv
<1>3. QED BY <1>1, <1>2

------------------------------------------------------------------------------
(***************************************************************************)
(* The invariant and what follows                                          *)
(***************************************************************************)

\* The invariant holds initially.
LEMMA InitRInv == Init => RInv
<1> SUFFICES ASSUME Init PROVE RInv
  OBVIOUS
<1>1. CreateInv
  BY InitInv DEF Init
<1>2. RebuildTypeOK
  BY DEF Init, RebuildTypeOK, Phases
<1>3. Quiet /\ SourcesOK /\ GuardsOK
  BY DEF Init, CreateInit, Quiet, SourcesOK, SourceOK, GuardsOK, ActiveProduct
<1>4. QED BY <1>1, <1>2, <1>3 DEF RInv

\* Every step keeps it.
LEMMA StepRInv == RInv /\ [Next]_vars => RInv'
<1> SUFFICES ASSUME RInv, [Next]_vars PROVE RInv'
  OBVIOUS
<1>1. CASE UNCHANGED vars
  BY <1>1 DEF vars, createVars, rebuild, tiktok, lease, control, RInv, CreateInv, CreateTypeOK,
              KeyOK, ExecOK, OwnerOK, RebuildTypeOK, Quiet, SourcesOK, SourceOK, GuardsOK, GuardOK
<1>2. ASSUME NEW g \in Requests, NEW k \in Keys, Begin(g, k) PROVE RInv'
  BY <1>2, TakesInv DEF Begin
<1>3. ASSUME NEW c \in Recoverers, NEW k \in Keys, ScanRebuild(c, k) PROVE RInv'
  BY <1>3, TakesInv DEF ScanRebuild, Scan
<1>4. QED
  BY <1>1, <1>2, <1>3, CycleStepInv, ScansInv, FaultsInv, UserInv DEF Next

\* The invariant holds in every state of every behaviour.
LEMMA Invariant == Spec => []RInv
BY InitRInv, StepRInv, PTL DEF Spec

\* The variables keep their types, whatever is interrupted.
THEOREM TypeCorrect == Spec => []TypeOK
<1>1. RInv => TypeOK
  BY DEF RInv, CreateInv, RebuildTypeOK, TypeOK
<1>2. QED BY <1>1, Invariant, PTL

\* An old campaign and its replacement never run side by side before the
\* rebuild has succeeded: what may exist has its old campaign paused, also
\* when TikTok carries out the create call later.
THEOREM OneOfTwoRuns == Spec => []NeverBoth
<1>1. RInv => NeverBoth
  <2> SUFFICES ASSUME RInv, NEW k \in Keys, k \in sourceOn, k \in running
               PROVE  intent[k] = "SUCCEEDED"
    BY DEF NeverBoth
  <2>1. KeyOK(k) /\ SourceOK(k) /\ intent[k] \in States \cup {"none"}
    BY DEF RInv, CreateInv, CreateTypeOK, SourcesOK
  <2>2. QED BY <2>1 DEF KeyOK, SourceOK, States, ActiveProduct
<1>2. QED BY <1>1, Invariant, PTL

\* A rebuild creates one replacement at most, and none where its intent says
\* that there is none.
THEOREM EverythingAccounted == Spec => []NothingUnaccounted
<1>1. RInv => NothingUnaccounted
  BY DEF RInv, CreateInv, KeyOK, NothingUnaccounted, Pending
<1>2. QED BY <1>1, Invariant, PTL

\* A quarantined replacement is paused although leases lapse: the Guard
\* proves its lease before every status call.
THEOREM QuarantineIsPaused == Spec => []QuarantinedIsPaused
<1>1. RInv => QuarantinedIsPaused
  BY DEF RInv, Quiet, QuarantinedIsPaused
<1>2. QED BY <1>1, Invariant, PTL

\* Only a user starts an old campaign that users hold, and lifts the hold.
LEMMA OldStands ==
    ASSUME RInv, [Next]_vars, NEW k \in Keys, <<k, "old">> \in held,
           k \notin sourceOn, k \in sourceOn'
    PROVE  <<k, "old">> \notin held'
<1>1. ASSUME NEW g \in Requests, EnableOld(g) PROVE FALSE
  BY <1>1, Knowledge DEF EnableOld, GuardOK
<1>2. ASSUME NEW g \in Requests, CycleStep(g) PROVE EnableOld(g)
  <2>1. UNCHANGED sourceOn \/ sourceOn' \subseteq sourceOn \/ EnableOld(g)
    BY <1>2
    DEF CycleStep, Revoke, RetryQuarantine, ResumeCompensation, PrepareRebuild, Expire, Checkpoint,
        Hold, PauseOld, PauseForbidden, MarkOldPaused, OldPauseRaises, CreateReplacement,
        MarkCreatedForRebuild, PauseNew, BeginFinalizing, ExclusionsComplete, CheckEnable,
        EnableNew, Complete, FinishingRaises, PauseReplacement, StoreQuarantine,
        StoreQuarantineFails, BeginCompensation, NoCompensation, Compensated,
        CompensationRaises, Terminate, Store, GiveUp, SameSource, SameRebuild, rebuild
  <2>2. QED BY <2>1
<1>3. \E l \in Keys : UserEnablesOld(l)
  BY <1>1, <1>2 DEF Next, Begin, ScanRebuild, UserStep, UserPausesOld, UserPausesNew,
                    UserEnablesNew, UserEdits, TimePasses, SameRebuild, rebuild, vars
<1>4. QED BY <1>3 DEF UserEnablesOld

\* Only a user starts a replacement that users hold, and lifts the hold.
LEMMA NewStands ==
    ASSUME RInv, [Next]_vars, NEW k \in Keys, <<k, "new">> \in held,
           k \notin running, k \in running'
    PROVE  <<k, "new">> \notin held'
<1>1. made[k] = 1 /\ KeyOK(k)
  BY DEF RInv, CreateInv, SourcesOK, SourceOK
<1>2. ASSUME NEW g \in Requests, CycleStep(g) PROVE FALSE
  <2>1. CASE CreateReplacement(g)
    <3>1. CASE PrepareAgain(g)
      BY <3>1 DEF PrepareAgain, SameSystem, tiktok
    <3>2. CASE CreateCall(g)
      <4>1. TikTokCreates(target[g]) /\ holder = g /\ pc[g] = "submitting"
        BY <3>2 DEF CreateCall, Resume, PreflightRejects, Submit, Post, Prove, PostAmbiguous, Commit,
              PostNotSent, PostRejected, MarkCreated, MarkUnknown, ConfirmUnknown, CreateRaises,
              SameSystem, tiktok
      <4>2. made[target[g]] = 0 /\ target[g] \in Keys
        BY <4>1, Knowledge DEF OwnerOK
      <4>3. QED BY <1>1, <4>1, <4>2 DEF TikTokCreates
    <3>3. QED BY <2>1, <3>1, <3>2 DEF CreateReplacement
  <2>2. CASE EnableNew(g)
    <3>1. holder = g /\ pc[g] = "enabling" /\ k = target[g]
      BY <2>2 DEF EnableNew, Enable, tiktok
    <3>2. QED BY <3>1, Knowledge DEF GuardOK
  <2>3. UNCHANGED running \/ running' \subseteq running \/ CreateReplacement(g) \/ EnableNew(g)
    BY <1>2
    DEF CycleStep, Revoke, RetryQuarantine, ResumeCompensation, PrepareRebuild, StoreIntent,
        Expire, Checkpoint, Hold, PauseOld, PauseForbidden, MarkOldPaused, OldPauseRaises,
        MarkCreatedForRebuild, PauseNew, Pause, BeginFinalizing, ExclusionsComplete, CheckEnable,
        Complete, FinishingRaises, PauseReplacement, StoreQuarantine, Quarantine,
        StoreQuarantineFails, QuarantineFails, BeginCompensation, NoCompensation, EnableOld,
        Compensated, CompensationRaises, Terminate, Store, GiveUp, SameSystem, tiktok
  <2>4. QED BY <2>1, <2>2, <2>3
<1>3. ASSUME NEW c \in Recoverers, ScanStep(c) PROVE FALSE
  <2>1. UNCHANGED running \/ running' \subseteq running
    BY <1>3 DEF ScanStep, Confirm, NotConfirmed, QuarantineStep, SafetyPause, Pause, Quarantine,
                QuarantineFails, SameSystem, tiktok
  <2>2. QED BY <2>1
<1>4. ASSUME Environment PROVE FALSE
  <2>1. PICK l \in Keys : LateCreate(l)
    BY <1>4 DEF Environment, Crash, FenceLost, StaleLeaseExpires, LeaseLapses, SameSystem, tiktok
  <2>2. l = k /\ k \in late
    BY <2>1 DEF LateCreate, TikTokCreates
  <2>3. QED BY <1>1, <2>2 DEF KeyOK
<1>5. \E l \in Keys : UserEnablesNew(l) /\ l = k
  BY <1>2, <1>3, <1>4
  DEF Next, Begin, ScanRebuild, Scan, UserStep, UserPausesOld, UserPausesNew, Pause, UserEnablesOld,
      UserEnablesNew, Enable, UserEdits, TimePasses, createVars, SameSystem, tiktok, vars
<1>6. QED BY <1>5 DEF UserEnablesNew

\* The Guard never starts a campaign that a user has paused.
THEOREM PausesStand == Spec => ManualPauseStands
<1>1. RInv /\ [Next]_vars =>
        [\A k \in Keys :
            /\ (<<k, "old">> \in held /\ k \notin sourceOn /\ k \in sourceOn')
                  => <<k, "old">> \notin held'
            /\ (<<k, "new">> \in held /\ k \notin running /\ k \in running')
                  => <<k, "new">> \notin held']_vars
  BY OldStands, NewStands
<1>2. QED BY <1>1, Invariant, PTL DEF Spec, ManualPauseStands


------------------------------------------------------------------------------
(***************************************************************************)
(* Refinement: rebuilds claim products as ProductClaims says               *)
(***************************************************************************)

ClaimState == [k \in Keys |-> ClaimOf(k)]

\* What one step does to the claims and their campaigns.
ClaimsStep ==
    \/ ClaimState' = ClaimState /\ made' = made
    \/ \E k \in Keys : Claims!Claim(k) \/ Claims!Make(k) \/ Claims!Finish(k) \/ Claims!Refuse(k)

\* A claim is open.
Open(k) == intent[k] \in ActiveProduct \/ Reconsidered(k)

\* The four abstract states of a claim.
LEMMA ClaimStates ==
    ASSUME CreateTypeOK, NEW k \in Keys
    PROVE  /\ ClaimOf(k) = "open" <=> Open(k)
           /\ ClaimOf(k) = "free" <=> intent[k] = "none"
           /\ ClaimOf(k) = "done" <=> intent[k] = "SUCCEEDED"
           /\ ClaimOf(k) = "refused" <=> intent[k] = "FAILED_TERMINAL" /\ ~Open(k)
BY DEF ClaimOf, Open, Reconsidered, CreateTypeOK, States, ActiveProduct

\* A claim whose intent stays, or is in an open state, does not move.
LEMMA ClaimsSteady ==
    ASSUME UNCHANGED made,
           \A k \in Keys : \/ intent'[k] = intent[k] /\ Reconsidered(k)' = Reconsidered(k)
                           \/ Open(k) /\ Open(k)'
    PROVE  ClaimsStep
<1>1. ASSUME NEW k \in Keys PROVE ClaimOf(k)' = ClaimOf(k)
  <2>1. CASE intent'[k] = intent[k] /\ Reconsidered(k)' = Reconsidered(k)
    BY <2>1 DEF ClaimOf
  <2>2. CASE Open(k) /\ Open(k)'
    BY <2>2 DEF ClaimOf, Open, Reconsidered, ActiveProduct
  <2>3. QED BY <2>1, <2>2
<1>2. QED BY <1>1 DEF ClaimsStep, ClaimState

\* At most one rebuild is reconsidered, by the owner of the lease.
LEMMA OneReconsidered ==
    ASSUME CreateTypeOK, NEW k \in Keys, Reconsidered(k)
    PROVE  \A l \in Keys \ {k} : ~Reconsidered(l)
BY DEF Reconsidered

\* One claim changes.
LEMMA OneClaim ==
    ASSUME NEW k \in Keys, \A l \in Keys \ {k} : ClaimOf(l)' = ClaimOf(l)
    PROVE  ClaimState' = [ClaimState EXCEPT ![k] = ClaimOf(k)']
BY DEF ClaimState

\* A step that moves no intent closes at most the claim that its owner, who
\* loses the lease or gives up, has left refused.
LEMMA ClaimsQuiet ==
    ASSUME RInv, RInv', UNCHANGED <<intent, made>>,
           \A g \in Requests : holder' = g /\ pc'[g] = "refused" =>
              \/ holder = g /\ pc[g] = "refused" /\ target'[g] = target[g]
              \/ intent[target'[g]] \in ActiveProduct
    PROVE  ClaimsStep
<1>1. \A k \in Keys : Reconsidered(k)' => Reconsidered(k)
  BY DEF Reconsidered, ActiveProduct
<1>2. CASE \A k \in Keys : Reconsidered(k) => Reconsidered(k)'
  <2>1. \A k \in Keys : Reconsidered(k)' = Reconsidered(k)
    BY <1>1, <1>2 DEF Reconsidered
  <2>2. QED BY <2>1, ClaimsSteady
<1>3. ASSUME NEW k \in Keys, Reconsidered(k), ~Reconsidered(k)' PROVE ClaimsStep
  <2>1. CreateTypeOK /\ CreateTypeOK' /\ KeyOK(k)
    BY DEF RInv, CreateInv
  <2>2. \A l \in Keys \ {k} : ~Reconsidered(l) /\ ~Reconsidered(l)'
    BY <1>1, <1>3, <2>1, OneReconsidered
  <2>3. ClaimOf(k) = "open" /\ ClaimOf(k)' = "refused" /\ made[k] = 0
    BY <1>3, <2>1 DEF ClaimOf, Reconsidered, ActiveProduct, KeyOK
  <2>4. \A l \in Keys \ {k} : ClaimOf(l)' = ClaimOf(l)
    BY <2>2 DEF ClaimOf
  <2>5. ClaimState' = [ClaimState EXCEPT ![k] = "refused"]
    BY <2>3, <2>4, OneClaim
  <2>6. Claims!Refuse(k)
    BY <2>3, <2>5 DEF Claims!Refuse, ClaimState
  <2>7. QED BY <2>6 DEF ClaimsStep
<1>4. QED BY <1>2, <1>3

\* The owner of the lease changes the intent of its key k only.
Concerns(e, k) ==
    /\ holder = e /\ target[e] = k
    /\ \A l \in Keys \ {k} : intent'[l] = intent[l]
    /\ \A f \in Execs : holder' = f => f = e /\ target'[e] = k

\* Then the other claims stay.
LEMMA OthersStay ==
    ASSUME NEW e \in Execs, NEW k \in Keys, Concerns(e, k), NEW l \in Keys \ {k}
    PROVE  /\ intent'[l] = intent[l] /\ Reconsidered(l)' = Reconsidered(l)
           /\ ClaimOf(l)' = ClaimOf(l)
<1>1. ~Reconsidered(l) /\ ~Reconsidered(l)'
  BY DEF Concerns, Reconsidered
<1>2. QED BY <1>1 DEF Concerns, ClaimOf, Reconsidered

\* It leaves its claim open.
LEMMA ClaimsOwned ==
    ASSUME NEW e \in Execs, NEW k \in Keys, Concerns(e, k), UNCHANGED made, Open(k), Open(k)'
    PROVE  ClaimsStep
BY OthersStay, ClaimsSteady

\* TikTok makes the first campaign of an open claim.
LEMMA ClaimMade ==
    ASSUME RInv, RInv', UNCHANGED intent, NEW k \in Keys, intent[k] \in ActiveProduct,
           made[k] = 0, TikTokCreates(k), \A l \in Keys : Reconsidered(l)' = Reconsidered(l)
    PROVE  ClaimsStep
<1>1. ClaimState' = ClaimState
  BY DEF ClaimState, ClaimOf
<1>2. ClaimState[k] = "open"
  BY DEF ClaimState, ClaimOf, Reconsidered, ActiveProduct
<1>3. made' = [made EXCEPT ![k] = 1]
  BY DEF TikTokCreates, RInv, CreateInv, CreateTypeOK
<1>4. Claims!Make(k)
  BY <1>1, <1>2, <1>3 DEF Claims!Make, ClaimState
<1>5. QED BY <1>4 DEF ClaimsStep

\* The owner of the lease ends its claim, without a campaign or with one.
LEMMA ClaimEnded ==
    ASSUME RInv, RInv', NEW e \in Execs, NEW k \in Keys, Concerns(e, k), UNCHANGED made,
           intent[k] \in ActiveProduct, ~Reconsidered(k)',
           \/ intent'[k] = "FAILED_TERMINAL" /\ made[k] = 0
           \/ intent'[k] = "SUCCEEDED" /\ made[k] = 1
    PROVE  ClaimsStep
<1>1. ClaimOf(k) = "open"
  BY DEF ClaimOf, Reconsidered, ActiveProduct
<1>2. ClaimState' = [ClaimState EXCEPT ![k] = ClaimOf(k)']
  BY OthersStay, OneClaim
<1>3. CASE intent'[k] = "FAILED_TERMINAL"
  <2>1. ClaimOf(k)' = "refused"
    BY <1>3 DEF ClaimOf, ActiveProduct
  <2>2. Claims!Refuse(k)
    BY <1>1, <1>2, <1>3, <2>1 DEF Claims!Refuse, ClaimState
  <2>3. QED BY <2>2 DEF ClaimsStep
<1>4. CASE intent'[k] = "SUCCEEDED"
  <2>1. ClaimOf(k)' = "done"
    BY <1>4 DEF ClaimOf, Reconsidered, ActiveProduct
  <2>2. Claims!Finish(k)
    BY <1>1, <1>2, <1>4, <2>1 DEF Claims!Finish, ClaimState
  <2>3. QED BY <2>2 DEF ClaimsStep
<1>5. QED BY <1>3, <1>4

\* A new intent opens its claim; Blocking kept it free of clashes, and nothing
\* is reconsidered while somebody else has the lease.
LEMMA ClaimOpened ==
    ASSUME RInv, RInv', NEW g \in Requests, PrepareRebuild(g)
    PROVE  ClaimsStep
<1> USE DEF PrepareRebuild, StoreIntent, SetIntent, Commit, control, tiktok
<1> PICK k \in Keys : k = target[g]
  BY Knowledge
<1>1. /\ CreateTypeOK /\ intent[k] = "none" /\ intent'[k] = "PREPARED" /\ ~Blocking(k)
      /\ UNCHANGED made
  BY DEF RInv, CreateInv, CreateTypeOK
<1>2. Concerns(g, k)
  BY <1>1 DEF Concerns, CreateTypeOK
<1>3. ClaimOf(k) = "free" /\ ClaimOf(k)' = "open"
  BY <1>1 DEF ClaimOf, Reconsidered, ActiveProduct
<1>4. ClaimState' = [ClaimState EXCEPT ![k] = "open"]
  BY <1>2, <1>3, OthersStay, OneClaim
<1>5. ASSUME NEW l \in Keys \ {k}, ClaimState[l] = "open" PROVE ~Overlap(k, l)
  <2>1. Open(l)
    BY <1>1, <1>5, ClaimStates DEF ClaimState
  <2>2. ~Reconsidered(l)
    BY <1>2 DEF Concerns, Reconsidered
  <2>3. QED BY <1>1, <2>1, <2>2 DEF Open, Blocking
<1>6. Claims!Claim(k)
  BY <1>1, <1>3, <1>4, <1>5 DEF Claims!Claim, ClaimState
<1>7. QED BY <1>6 DEF ClaimsStep

\* Steps of a cycle that move no intent.
LEMMA ClaimsOfMoves ==
    ASSUME RInv, RInv', NEW g \in Requests,
           \/ RetryQuarantine(g) \/ ResumeCompensation(g) \/ Hold(g) \/ PauseForbidden(g)
           \/ OldPauseRaises(g) \/ PrepareAgain(g) \/ CreateRaises(g) \/ FinishingRaises(g)
           \/ NoCompensation(g) \/ CompensationRaises(g)
    PROVE  ClaimsStep
<1> USE DEF Goto, SameSystem, tiktok
<1>1. CreateTypeOK
  BY DEF RInv, CreateInv
<1>2. CASE Hold(g) \/ PauseForbidden(g) \/ NoCompensation(g) \/ CompensationRaises(g)
  <2>1. GiveUp(g)
    BY <1>2 DEF Hold, PauseForbidden, NoCompensation, CompensationRaises
  <2>2. /\ UNCHANGED <<intent, made>>
        /\ \A e \in Execs : holder' = e => holder = e /\ pc'[e] = pc[e] /\ target'[e] = target[e]
    BY <1>1, <2>1 DEF GiveUp, Leave, End, CreateTypeOK
  <2>3. QED BY <2>2, ClaimsQuiet
<1>3. CASE RetryQuarantine(g) \/ PrepareAgain(g) \/ FinishingRaises(g)
  <2>1. /\ UNCHANGED <<intent, made, target, holder>>
        /\ \A e \in Requests : pc'[e] = "refused" => pc[e] = "refused"
    BY <1>1, <1>3 DEF RetryQuarantine, PrepareAgain, FinishingRaises, RollBack, lease, CreateTypeOK
  <2>2. QED BY <2>1, ClaimsQuiet
<1>4. CASE ResumeCompensation(g) \/ OldPauseRaises(g) \/ CreateRaises(g)
  <2>1. /\ UNCHANGED <<intent, made, target, holder>> /\ pc[g] # "idle"
        /\ \A e \in Requests \ {g} : pc'[e] = pc[e]
    BY <1>1, <1>4 DEF ResumeCompensation, OldPauseRaises, CreateRaises, RollBack, lease, CreateTypeOK
  <2>2. holder = g => OwnerOK(g) /\ GuardOK(g)
    BY <2>1, Knowledge
  <2>3. holder = g => intent[target[g]] \in ActiveProduct
    BY <1>4, <2>2 DEF ResumeCompensation, OldPauseRaises, CreateRaises, RecoveryOnly, OwnerOK,
                      GuardOK, Resumable, ActiveProduct
  <2>4. QED BY <2>1, <2>3, ClaimsQuiet
<1>5. QED BY <1>2, <1>3, <1>4

\* The calls on either campaign.
LEMMA ClaimsOfCalls ==
    ASSUME RInv, RInv', NEW g \in Requests,
           PauseOld(g) \/ EnableOld(g) \/ PauseNew(g) \/ EnableNew(g) \/ PauseReplacement(g)
    PROVE  ClaimsStep
<1>1. UNCHANGED <<intent, made>>
  BY DEF PauseOld, EnableOld, PauseNew, EnableNew, PauseReplacement, Pause, Enable, SameSystem,
         SameRows, tiktok
<1>2. ASSUME NEW e \in Requests, pc'[e] = "refused"
      PROVE  e # g /\ pc[e] = "refused" /\ target'[e] = target[e]
  <2>1. /\ \E label \in {"idle", "oldPaused", "restored", "disabled", "failing", "enabled",
                         "paused", "unpaused"} : pc' = [pc EXCEPT ![g] = label]
        /\ UNCHANGED target \/ target' = [target EXCEPT ![g] = Nobody]
    BY DEF PauseOld, EnableOld, PauseNew, EnableNew, PauseReplacement, Leave, End, Goto
  <2>2. QED BY <1>2, <2>1 DEF RInv, CreateInv, CreateTypeOK
<1>3. \A e \in Requests \ {g} : holder' = e => holder = e
  BY DEF PauseOld, EnableOld, PauseNew, EnableNew, PauseReplacement, Leave, Prove, RollBack, Commit
<1>4. QED BY <1>1, <1>2, <1>3, ClaimsQuiet

\* A checkpoint of an open claim.
Stores(g, k) ==
    /\ holder = g /\ holder' = g /\ UNCHANGED <<target, made>>
    /\ \E state \in ActiveProduct : intent' = [intent EXCEPT ![k] = state]

LEMMA ClaimsOfStore ==
    ASSUME RInv, RInv', NEW g \in Requests, NEW k \in Keys, k = target[g], Stores(g, k),
           intent[k] \in ActiveProduct \/ (pc[g] = "refused" /\ intent[k] = "FAILED_TERMINAL")
    PROVE  ClaimsStep
<1>1. CreateTypeOK
  BY DEF RInv, CreateInv
<1>2. Concerns(g, k) /\ intent'[k] \in ActiveProduct
  BY <1>1 DEF Stores, Concerns, CreateTypeOK
<1>3. Open(k) /\ Open(k)' /\ UNCHANGED made
  BY <1>2 DEF Open, Reconsidered, Stores
<1>4. QED BY <1>2, <1>3, ClaimsOwned

\* The checkpoints that keep the claim.
LEMMA ClaimsOfCheckpoints ==
    ASSUME RInv, RInv', NEW g \in Requests,
           \/ Checkpoint(g) \/ MarkOldPaused(g) \/ MarkCreatedForRebuild(g)
           \/ ExclusionsComplete(g) \/ CheckEnable(g) \/ BeginCompensation(g)
           \/ Expire(g) /\ phase[target[g]] \in PauseStarted
    PROVE  ClaimsStep
<1> PICK k \in Keys : k = target[g]
  BY Knowledge DEF Checkpoint, MarkOldPaused, MarkCreatedForRebuild, ExclusionsComplete, CheckEnable,
                   BeginCompensation, Expire, Continues
<1> USE DEF Store, SetIntent, Commit, Goto, tiktok
<1>1. pc[g] # "idle" /\ holder = g => OwnerOK(g) /\ GuardOK(g)
  BY Knowledge
<1>2. CASE Checkpoint(g)
  <2>1. Stores(g, k) /\ intent[k] \in ActiveProduct
    BY <1>2 DEF Checkpoint, Continues, Resumable, Stores, ActiveProduct
  <2>2. QED BY <2>1, ClaimsOfStore
<1>3. CASE MarkOldPaused(g)
  <2>1. pc[g] = "oldPaused" /\ holder = g
    BY <1>3 DEF MarkOldPaused
  <2>2. intent[k] \in ActiveProduct
    BY <1>1, <2>1 DEF GuardOK, Resumable, ActiveProduct
  <2>3. Stores(g, k)
    BY <1>3, <2>2 DEF MarkOldPaused, Stores
  <2>4. QED BY <2>2, <2>3, ClaimsOfStore
<1>4. CASE MarkCreatedForRebuild(g)
  <2>1. Stores(g, k) /\ pc[g] = "row" /\ holder = g
    BY <1>4 DEF MarkCreatedForRebuild, Stores, ActiveProduct
  <2>2. intent[k] \in ActiveProduct
    BY <1>1, <2>1 DEF OwnerOK, GuardOK, RemoteStates, ActiveProduct
  <2>3. QED BY <2>1, <2>2, ClaimsOfStore
<1>5. CASE ExclusionsComplete(g)
  <2>1. Stores(g, k) /\ pc[g] = "finalizing" /\ holder = g
    BY <1>5 DEF ExclusionsComplete, Stores, ActiveProduct
  <2>2. intent[k] \in ActiveProduct
    BY <1>1, <2>1 DEF OwnerOK, ActiveProduct
  <2>3. QED BY <2>1, <2>2, ClaimsOfStore
<1>6. CASE CheckEnable(g)
  <2>1. Stores(g, k) /\ pc[g] = "excluded" /\ holder = g
    BY <1>6 DEF CheckEnable, Stores, ActiveProduct
  <2>2. intent[k] \in ActiveProduct
    BY <1>1, <2>1 DEF OwnerOK, ActiveProduct
  <2>3. QED BY <2>1, <2>2, ClaimsOfStore
<1>7. CASE BeginCompensation(g)
  <2>1. /\ Stores(g, k)
        /\ pc[g] = "refused" /\ Compensable(k)
    BY <1>7 DEF BeginCompensation, Stores, ActiveProduct
  <2>2. intent[k] \in ActiveProduct \cup {"FAILED_TERMINAL"}
    BY <2>1 DEF Compensable, ActiveProduct
  <2>3. QED BY <2>1, <2>2, ClaimsOfStore
<1>8. CASE Expire(g) /\ phase[target[g]] \in PauseStarted
  <2>1. /\ Stores(g, k)
        /\ intent[k] \in ActiveProduct
    BY <1>8 DEF Expire, Stores, ActiveProduct
  <2>2. QED BY <2>1, ClaimsOfStore
<1>9. QED BY <1>2, <1>3, <1>4, <1>5, <1>6, <1>7, <1>8

\* The checkpoints that end the rebuild.
LEMMA ClaimsOfEnds ==
    ASSUME RInv, RInv', NEW g \in Requests,
           \/ Revoke(g) \/ Compensated(g) \/ Complete(g)
           \/ Expire(g) /\ phase[target[g]] \notin PauseStarted
    PROVE  ClaimsStep
<1> PICK k \in Keys : k = target[g]
  BY Knowledge DEF Revoke, Compensated, Complete, Expire, Continues
<1>1. CreateTypeOK /\ KeyOK(k) /\ (pc[g] # "idle" /\ holder = g => OwnerOK(g) /\ GuardOK(g))
  BY Knowledge DEF RInv, CreateInv
<1>2. CASE \E value : Terminate(g, value) /\ intent[k] \in {"PREPARED", "COMPENSATION_PENDING"}
  <2>1. /\ Concerns(g, k) /\ UNCHANGED made /\ intent'[k] = "FAILED_TERMINAL"
        /\ \A e \in Execs : holder' # e
    BY <1>1, <1>2 DEF Terminate, SetIntent, CommitAndLeave, Leave, End, Concerns, CreateTypeOK, tiktok
  <2>2. made[k] = 0 /\ ~Reconsidered(k)' /\ intent[k] \in ActiveProduct
    BY <1>1, <1>2, <2>1 DEF KeyOK, Reconsidered, ActiveProduct
  <2>3. QED BY <2>1, <2>2, ClaimEnded
<1>3. CASE Complete(g)
  <2>1. /\ pc[g] = "enabled" /\ holder = g /\ Concerns(g, k) /\ UNCHANGED made
        /\ intent'[k] = "SUCCEEDED"
    BY <1>1, <1>3 DEF Complete, SetIntent, CommitAndLeave, Leave, End, Concerns, CreateTypeOK, tiktok
  <2>2. intent[k] = "FINALIZING"
    BY <1>1, <2>1 DEF OwnerOK
  <2>3. made[k] = 1 /\ ~Reconsidered(k)' /\ intent[k] \in ActiveProduct
    BY <1>1, <2>1, <2>2 DEF KeyOK, RemoteStates, Reconsidered, ActiveProduct
  <2>4. QED BY <2>1, <2>3, ClaimEnded
<1>4. CASE Compensated(g)
  <2>1. Terminate(g, "COMPENSATED") /\ pc[g] = "restored" /\ holder = g
    BY <1>4 DEF Compensated, Terminate, CommitAndLeave
  <2>2. QED BY <1>1, <1>2, <2>1 DEF GuardOK
<1>5. QED BY <1>2, <1>3, <1>4 DEF Revoke, Expire

\* The create call, which may be refused and is answered once.
LEMMA ClaimsOfCreateCall ==
    ASSUME RInv, RInv', NEW g \in Requests, CreateCall(g)
    PROVE  ClaimsStep
<1> USE DEF Commit, Goto, SetIntent, SameRows, Same, tiktok
<1>0. pc[g] # "idle"
  BY DEF CreateCall, Resume, PreflightRejects, Submit, Post, PostAmbiguous, PostNotSent,
         PostRejected, MarkCreated, MarkUnknown, ConfirmUnknown, CreateRaises
<1> PICK k \in Keys : k = target[g]
  BY <1>0, Knowledge
<1>1. CreateTypeOK /\ KeyOK(k) /\ (holder = g => OwnerOK(g) /\ GuardOK(g))
  BY <1>0, Knowledge DEF RInv, CreateInv
<1>2. CASE PreflightRejects(g) \/ Submit(g) \/ PostNotSent(g) \/ PostRejected(g)
           \/ MarkCreated(g) \/ MarkUnknown(g) \/ ConfirmUnknown(g) \/ Resume(g)
  <2>1. holder = g /\ Concerns(g, k) /\ UNCHANGED made
    BY <1>1, <1>2 DEF PreflightRejects, Submit, PostNotSent, PostRejected, MarkCreated, MarkUnknown,
                      ConfirmUnknown, Resume, Concerns, CreateTypeOK
  <2>2. intent[k] \in ActiveProduct
    BY <1>1, <1>2, <2>1 DEF PreflightRejects, Submit, PostNotSent, PostRejected, MarkCreated,
                            MarkUnknown, ConfirmUnknown, Resume, OwnerOK, GuardOK, Resumable,
                            ActiveProduct
  <2>3. \/ intent'[k] \in ActiveProduct
        \/ intent'[k] = "FAILED_TERMINAL" /\ pc'[g] = "refused" /\ holder' = g /\ target'[g] = k
    BY <1>1, <1>2, <2>2 DEF PreflightRejects, Submit, PostNotSent, PostRejected, MarkCreated,
                      MarkUnknown, AmbiguousState, ConfirmUnknown, Resume, ActiveProduct, CreateTypeOK
  <2>4. Open(k) /\ Open(k)'
    BY <2>2, <2>3 DEF Open, Reconsidered
  <2>5. QED BY <2>1, <2>4, ClaimsOwned
<1>3. CASE Post(g) \/ PostAmbiguous(g)
  <2>1. /\ pc[g] = "submitting" /\ holder = g /\ UNCHANGED <<intent, target, holder>>
        /\ \E label \in {"answered", "ambiguous"} : pc' = [pc EXCEPT ![g] = label]
        /\ TikTokCreates(k) \/ UNCHANGED made
    BY <1>3 DEF Post, PostAmbiguous, Prove
  <2>2. intent[k] = "SUBMITTING" /\ made[k] = 0
    BY <1>1, <2>1 DEF OwnerOK
  <2>3. pc'[g] # "refused"
    BY <1>1, <2>1 DEF CreateTypeOK
  <2>4. \A l \in Keys : ~Reconsidered(l) /\ ~Reconsidered(l)'
    BY <2>1, <2>3 DEF Reconsidered
  <2>5. \A l \in Keys : Reconsidered(l)' = Reconsidered(l)
    BY <2>4 DEF Reconsidered
  <2>6. QED BY <2>1, <2>2, <2>5, ClaimMade, ClaimsSteady DEF ActiveProduct
<1>4. CASE CreateRaises(g)
  BY <1>4, ClaimsOfMoves
<1>5. QED BY <1>2, <1>3, <1>4 DEF CreateCall

\* Quarantine, by a cycle or by the scan, leaves the claim open.
LEMMA ClaimsOfQuarantine ==
    ASSUME RInv, RInv', NEW e \in Execs, QuarantineStep(e)
    PROVE  ClaimsStep
<1> USE DEF Goto, SetIntent, SameRows, SameSystem, tiktok
<1>1. pc[e] # "idle" /\ CreateTypeOK
  BY DEF QuarantineStep, SafetyPause, Quarantine, QuarantineFails, RInv, CreateInv
<1> PICK k \in Keys : k = target[e]
  BY <1>1, Knowledge
<1>2. CASE SafetyPause(e)
  <2>1. /\ UNCHANGED <<intent, made, target, holder>>
        /\ \A g \in Requests : pc'[g] = "refused" => pc[g] = "refused"
    BY <1>1, <1>2 DEF SafetyPause, Pause, CreateTypeOK
  <2>2. QED BY <2>1, ClaimsQuiet
<1>3. CASE QuarantineFails(e)
  <2>1. /\ UNCHANGED <<intent, made>>
        /\ \A g \in Requests :
              holder' = g => holder = g /\ pc'[g] = pc[g] /\ target'[g] = target[g]
    BY <1>1, <1>3 DEF QuarantineFails, Leave, End, CreateTypeOK
  <2>2. QED BY <2>1, ClaimsQuiet
<1>4. CASE Quarantine(e)
  <2>1. holder = e /\ Concerns(e, k) /\ UNCHANGED made /\ pc[e] \in {"paused", "unpaused"}
    BY <1>1, <1>4 DEF Quarantine, CommitAndLeave, Leave, End, Concerns, CreateTypeOK
  <2>2. intent[k] \in ActiveProduct
    BY <1>1, <2>1, Knowledge DEF OwnerOK, RemoteStates, ActiveProduct
  <2>3. intent'[k] \in ActiveProduct
    BY <1>1, <1>4 DEF Quarantine, CreateTypeOK, ActiveProduct
  <2>4. QED BY <2>1, <2>2, <2>3, ClaimsOwned DEF Open
<1>5. QED BY <1>2, <1>3, <1>4 DEF QuarantineStep

\* A cycle of the Guard.
LEMMA ClaimsOfCycle ==
    ASSUME RInv, RInv', NEW g \in Requests, CycleStep(g)
    PROVE  ClaimsStep
<1>1. CASE Expire(g)
  BY <1>1, ClaimsOfCheckpoints, ClaimsOfEnds
<1>2. CASE BeginFinalizing(g)
  <2> PICK k \in Keys : k = target[g]
    BY <1>2, Knowledge DEF BeginFinalizing
  <2>1. pc[g] = "disabled" /\ Stores(g, k)
    BY <1>2 DEF BeginFinalizing, SetIntent, Commit, Goto, Stores, ActiveProduct, tiktok
  <2>2. intent[k] \in ActiveProduct
    BY <2>1, Knowledge DEF Stores, OwnerOK, RemoteStates, ActiveProduct
  <2>3. QED BY <2>1, <2>2, ClaimsOfStore
<1>3. CASE StoreQuarantine(g) \/ StoreQuarantineFails(g)
  BY <1>3, ClaimsOfQuarantine DEF StoreQuarantine, StoreQuarantineFails, QuarantineStep
<1>4. CASE CreateReplacement(g)
  BY <1>4, ClaimsOfMoves, ClaimsOfCreateCall DEF CreateReplacement
<1>5. QED
  BY <1>1, <1>2, <1>3, <1>4, ClaimOpened, ClaimsOfMoves, ClaimsOfCalls, ClaimsOfCheckpoints,
     ClaimsOfEnds DEF CycleStep

\* A lease is taken, by a cycle or by the scan.
LEMMA ClaimsOfTake ==
    ASSUME RInv, RInv', NEW e \in Execs, NEW k \in Keys, NEW label \in {"deciding", "scanned"},
           Take(e, k, label), SameSystem
    PROVE  ClaimsStep
<1>1. UNCHANGED <<intent, made>> /\ \A f \in Requests : holder' = f => pc'[f] # "refused"
  BY DEF Take, SameSystem, tiktok, RInv, CreateInv, CreateTypeOK
<1>2. QED BY <1>1, ClaimsQuiet

\* The recovery scan.
LEMMA ClaimsOfScan ==
    ASSUME RInv, RInv', NEW c \in Recoverers, ScanStep(c)
    PROVE  ClaimsStep
<1>1. CreateTypeOK
  BY DEF RInv, CreateInv
<1>2. CASE Confirm(c)
  <2> PICK k \in Keys : k = target[c]
    BY <1>2, Knowledge DEF Confirm
  <2>1. /\ Concerns(c, k) /\ UNCHANGED made /\ intent'[k] \in ActiveProduct
        /\ intent[k] \in ActiveProduct
    BY <1>1, <1>2 DEF Confirm, SetIntent, Commit, Goto, tiktok, Concerns, CreateTypeOK, Recoverable,
                      ActiveProduct
  <2>2. QED BY <2>1, ClaimsOwned DEF Open
<1>3. CASE NotConfirmed(c)
  <2>1. /\ UNCHANGED <<intent, made>>
        /\ \A g \in Requests :
              holder' = g => holder = g /\ pc'[g] = pc[g] /\ target'[g] = target[g]
    BY <1>1, <1>3 DEF NotConfirmed, Leave, End, SameSystem, tiktok, CreateTypeOK
  <2>2. QED BY <2>1, ClaimsQuiet
<1>4. QED BY <1>2, <1>3, ClaimsOfQuarantine DEF ScanStep

\* Faults: a cycle that dies or loses its lease after a refusal ends the claim.
LEMMA ClaimsOfFaults ==
    ASSUME RInv, RInv', Environment
    PROVE  ClaimsStep
<1>1. CASE \E k \in Keys : LateCreate(k)
  <2> PICK k \in Keys : LateCreate(k)
    BY <1>1
  <2>1. intent[k] \in ActiveProduct /\ made[k] = 0
    BY DEF LateCreate, RInv, CreateInv, KeyOK, Pending, ActiveProduct
  <2>2. UNCHANGED intent /\ TikTokCreates(k) /\ \A l \in Keys : Reconsidered(l)' = Reconsidered(l)
    BY DEF LateCreate, SameRows, lease, control, Reconsidered
  <2>3. QED BY <2>1, <2>2, ClaimMade
<1>2. CASE ~\E k \in Keys : LateCreate(k)
  <2>1. UNCHANGED <<intent, made>>
    BY <1>2 DEF Environment, Crash, FenceLost, StaleLeaseExpires, LeaseLapses, SameSystem, tiktok
  <2>2. ASSUME NEW e \in Execs, holder' = e
        PROVE  holder = e /\ pc'[e] = pc[e] /\ target'[e] = target[e]
    BY <1>2, <2>2 DEF Environment, Crash, FenceLost, StaleLeaseExpires, LeaseLapses, End, lease,
                      control, RInv, CreateInv, CreateTypeOK
  <2>3. QED BY <2>1, <2>2, ClaimsQuiet
<1>3. QED BY <1>1, <1>2

\* Rebuilds implement ProductClaims, although they reopen what the create
\* service has ended: nobody else has the lease in between.
THEOREM RebuildKeepsClaims == Spec => ImplementsClaims
<1>1. Init => Claims!ClaimInit
  BY DEF Init, CreateInit, Claims!ClaimInit, ClaimOf, Reconsidered, ActiveProduct
<1>2. RInv /\ RInv' /\ [Next]_vars => ClaimsStep
  <2> SUFFICES ASSUME RInv, RInv', [Next]_vars PROVE ClaimsStep
    OBVIOUS
  <2>1. CASE UNCHANGED vars
    <3>1. UNCHANGED made /\ \A k \in Keys : intent'[k] = intent[k] /\ Reconsidered(k)' = Reconsidered(k)
      BY <2>1 DEF vars, createVars, lease, control, tiktok, Reconsidered
    <3>2. QED BY <3>1, ClaimsSteady
  <2>2. ASSUME NEW k \in Keys, UserStep(k) \/ TimePasses(k) PROVE ClaimsStep
    <3>1. UNCHANGED made /\ \A l \in Keys : intent'[l] = intent[l] /\ Reconsidered(l)' = Reconsidered(l)
      BY <2>2 DEF UserStep, UserPausesOld, UserPausesNew, UserEnablesOld, UserEnablesNew, UserEdits,
                  TimePasses, Free, Pause, Enable, createVars, lease, control, tiktok, Reconsidered
    <3>2. QED BY <3>1, ClaimsSteady
  <2>3. ASSUME NEW g \in Requests, NEW k \in Keys, Begin(g, k) PROVE ClaimsStep
    BY <2>3, ClaimsOfTake DEF Begin
  <2>4. ASSUME NEW c \in Recoverers, NEW k \in Keys, ScanRebuild(c, k) PROVE ClaimsStep
    BY <2>4, ClaimsOfTake DEF ScanRebuild, Scan
  <2>5. QED
    BY <2>1, <2>2, <2>3, <2>4, ClaimsOfCycle, ClaimsOfScan, ClaimsOfFaults DEF Next
<1>3. RInv /\ RInv' /\ [Next]_vars => [Claims!ClaimNext]_<<ClaimState, made>>
  BY <1>2 DEF ClaimsStep, Claims!ClaimNext
<1>4. QED
  BY <1>1, <1>3, Invariant, PTL
     DEF Spec, ImplementsClaims, Claims!ClaimSpec, Claims!claims, ClaimState

=============================================================================
