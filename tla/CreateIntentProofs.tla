------------------------- MODULE CreateIntentProofs -------------------------
(***************************************************************************)
(* Proofs about CreateIntent for every set of keys, products, requests and *)
(* recoverers and any number of crashes and lapsed leases.                 *)
(***************************************************************************)
EXTENDS CreateIntent, DurableCreateProofs

USE CreateKinds, CreateBounds, CreateReplaces DEF Execs

SuccessIsOpen ==
    \A k \in Keys : intent[k] = "SUCCEEDED" => strategy[k] # "quarantined"

\* As long as no lease has lapsed, who works owns it.
Sole == \A e \in Execs : pc[e] # "idle" => holder = e

IInv ==
    /\ CreateInv /\ sourceOn \in BOOLEAN
    /\ UnfinishedIsMarked /\ SourceStaysPaused /\ SuccessIsOpen
    /\ lapses = 0 => Sole /\ Quiet /\ Lively

\* The parts of IInv about the rows, and about what runs.
RowsOK == UnfinishedIsMarked /\ SourceStaysPaused /\ SuccessIsOpen
RunsOK == lapses = 0 => Quiet /\ Lively

------------------------------------------------------------------------------
(***************************************************************************)
(* The steps of DurableCreate                                              *)
(***************************************************************************)

\* What keeps the rows and the campaigns keeps the facts about rows.
LEMMA RowsFromKeeps ==
    ASSUME IInv, Keeps, UNCHANGED sourceOn
    PROVE  RowsOK'
<1>1. ASSUME NEW k \in Keys, intent'[k] \in {"FINALIZING", "QUARANTINED"}
      PROVE  strategy'[k] = "quarantined"
  BY <1>1 DEF IInv, Keeps, Moves, UnfinishedIsMarked
<1>2. ASSUME NEW k \in Replacing, intent'[k] \in ActiveProduct
      PROVE  ~sourceOn'
  BY <1>2 DEF IInv, Keeps, Moves, SourceStaysPaused, ActiveProduct, Recoverable, RemoteStates
<1>3. ASSUME NEW k \in Keys, intent'[k] = "SUCCEEDED"
      PROVE  strategy'[k] # "quarantined"
  BY <1>3 DEF IInv, Keeps, Moves, SuccessIsOpen
<1>4. QED BY <1>1, <1>2, <1>3 DEF RowsOK, UnfinishedIsMarked, SourceStaysPaused, SuccessIsOpen

\* Leases that have lapsed stay counted.
LEMMA LapsesGrow ==
    ASSUME IInv, lapses' \in {lapses, lapses + 1}, lapses' = 0
    PROVE  lapses = 0
BY DEF IInv, CreateInv, CreateTypeOK

\* Likewise for the facts about what runs.
LEMMA RunsFromKeeps ==
    ASSUME IInv, Keeps, lapses' \in {lapses, lapses + 1}
    PROVE  RunsOK'
BY LapsesGrow DEF IInv, Keeps, RunsOK

------------------------------------------------------------------------------
(***************************************************************************)
(* The finishing steps                                                     *)
(***************************************************************************)

Finishing(r) ==
    \/ PauseNew(r) \/ BeginFinalizing(r) \/ EnableNew(r) \/ Complete(r)
    \/ FinishingRaises(r)

\* Pausing, equipping, enabling and releasing the new campaign.
LEMMA FinishingInv ==
    ASSUME IInv, NEW r \in Requests, Finishing(r), UNCHANGED sourceOn
    PROVE  CreateInv' /\ RowsOK' /\ RunsOK' /\ UNCHANGED lapses
<1> DEFINE t == target[r]
<1> USE DEF Commit, Goto, SetIntent, SameRows, SameSystem, Same, tiktok, lease
<1>1. /\ CreateTypeOK /\ UnfinishedIsMarked /\ SourceStaysPaused /\ SuccessIsOpen
      /\ \A k \in Keys : KeyOK(k)
      /\ \A e \in Execs : ExecOK(e)
      /\ lapses = 0 => Sole /\ Quiet /\ Lively
  BY DEF IInv, CreateInv
<1>2. UNCHANGED <<made, late, lapses, crashes>> /\ pc[r] \in {"row", "disabled", "finalizing", "enabled"}
  BY DEF Finishing, PauseNew, Pause, Enable, BeginFinalizing, EnableNew, Complete, FinishingRaises
<1>3. t \in Keys
  BY <1>1, <1>2, TargetIsKey
<1>4. made[t] = 1 /\ (holder = r => OwnerOK(r))
  BY <1>1, <1>2 DEF ExecOK, Seen
\* The status calls change what runs, and nothing else of the system.
<1>5. ASSUME PauseNew(r) \/ EnableNew(r) \/ FinishingRaises(r)
      PROVE  CreateInv' /\ RowsOK' /\ RunsOK'
  <2> USE <1>5 DEF PauseNew, EnableNew, FinishingRaises, Pause, Enable, AnsweredThenProved,
                   CallRaises, Prove, RollBack, End
  <2>1. UNCHANGED <<intent, strategy, holder>>
    OBVIOUS
  <2>2. \/ pc' = [pc EXCEPT ![r] = "idle"] /\ target' = [target EXCEPT ![r] = Nobody]
             /\ holder # r
        \/ pc' = [pc EXCEPT ![r] = "disabled"] /\ UNCHANGED target
             /\ pc[r] = "row" /\ intent[t] # "SUCCEEDED"
        \/ pc' = [pc EXCEPT ![r] = "enabled"] /\ UNCHANGED target /\ running' = running \cup {t}
             /\ pc[r] = "finalizing"
        \/ pc' = [pc EXCEPT ![r] = "failing"] /\ UNCHANGED target
             /\ (pc[r] = "row" => intent[t] # "SUCCEEDED")
    BY <1>2
  <2>3. /\ running' \in {running, running \cup {t}, running \ {t}}
        /\ pc[r] = "row" => intent[t] # "SUCCEEDED" /\ running' \subseteq running
        /\ pc[r] \in {"disabled", "enabled"} => running' = running
        /\ pc[r] = "finalizing" => running' \in {running, running \cup {t}}
    BY <1>2
  <2>4. proved' \in BOOLEAN /\ (proved' => holder \in Execs)
    <3>1. CASE holder = r
      BY <1>1, <3>1 DEF CreateTypeOK
    <3>2. CASE holder # r
      BY <1>1, <3>2 DEF CreateTypeOK
    <3>3. QED BY <3>1, <3>2
  <2> HIDE <1>5 DEF PauseNew, EnableNew, FinishingRaises, Pause, Enable, AnsweredThenProved,
                   CallRaises, Prove, RollBack, End
  <2>5. CreateTypeOK'
    <3>1. /\ pc' \in [Execs -> Labels] /\ target' \in [Execs -> Keys \cup {Nobody}]
          /\ \A e \in Execs : pc'[e] = "idle" <=> target'[e] = Nobody
      BY <1>1, <1>2, <2>2 DEF CreateTypeOK, Labels
    <3>2. running' \subseteq Keys
      BY <1>1, <1>3, <2>3 DEF CreateTypeOK
    <3>3. QED BY <1>1, <1>2, <2>1, <2>4, <3>1, <3>2 DEF CreateTypeOK
  <2>6. ASSUME NEW k \in Keys PROVE KeyOK(k)'
    BY <1>1, <1>2, <1>4, <2>1, <2>3 DEF KeyOK
  <2>7. ASSUME NEW e \in Execs PROVE ExecOK(e)'
    <3>1. CASE e = r
      BY <1>1, <1>2, <1>4, <2>1, <2>2, <3>1
         DEF CreateTypeOK, ExecOK, OwnerOK, Seen, RemoteStates
    <3>2. CASE e # r
      BY <1>1, <1>2, <2>1, <2>2, <3>2 DEF CreateTypeOK, ExecOK, OwnerOK
    <3>3. QED BY <3>1, <3>2
  <2>8. RowsOK'
    BY <1>1, <2>1 DEF RowsOK, UnfinishedIsMarked, SourceStaysPaused, SuccessIsOpen
  <2>9. ASSUME lapses = 0 PROVE Quiet' /\ Lively'
    <3>1. holder = r /\ OwnerOK(r) /\ Quiet /\ Lively
      BY <1>1, <1>2, <1>4, <2>9 DEF Sole
    <3>2. intent[t] \in {"SUCCEEDED", "QUARANTINED"} => pc[r] # "finalizing"
      BY <3>1 DEF OwnerOK
    <3>3. Quiet'
      BY <1>1, <1>2, <2>1, <2>2, <2>3, <3>1, <3>2 DEF Quiet, CreateTypeOK
    <3>4. Lively'
      BY <1>1, <1>2, <2>1, <2>2, <2>3, <3>1, <3>2 DEF Lively, CreateTypeOK
    <3>5. QED BY <3>3, <3>4
  <2>10. QED BY <1>2, <2>5, <2>6, <2>7, <2>8, <2>9 DEF CreateInv, RunsOK
<1>6. CASE BeginFinalizing(r)
  <2> USE <1>6 DEF BeginFinalizing, SetStrategy
  <2>1. CreateTypeOK'
    BY <1>1, <1>3 DEF CreateTypeOK, Labels, States, ActiveProduct
  <2>2. intent[t] \in RemoteStates \ {"SUCCEEDED"}
    BY <1>4 DEF OwnerOK
  <2>3. ASSUME NEW k \in Keys PROVE KeyOK(k)'
    BY <1>1, <1>3, <1>4, <2>2 DEF CreateTypeOK, KeyOK, Pending, RemoteStates
  <2>4. ASSUME NEW e \in Execs PROVE ExecOK(e)'
    BY <1>1, <1>3, <1>4 DEF CreateTypeOK, ExecOK, OwnerOK, Seen
  <2>5. RowsOK'
    <3>1. UnfinishedIsMarked' /\ SuccessIsOpen'
      BY <1>1, <1>3 DEF CreateTypeOK, UnfinishedIsMarked, SuccessIsOpen
    <3>2. SourceStaysPaused'
      BY <1>1, <1>3, <2>2 DEF CreateTypeOK, SourceStaysPaused, RemoteStates, ActiveProduct
    <3>3. QED BY <3>1, <3>2 DEF RowsOK
  <2>6. ASSUME lapses = 0 PROVE Quiet' /\ Lively'
    BY <1>1, <1>3, <2>6 DEF CreateTypeOK, Quiet, Lively
  <2>7. QED BY <1>2, <2>1, <2>3, <2>4, <2>5, <2>6 DEF CreateInv, RunsOK
<1>7. CASE Complete(r)
  <2> USE <1>7 DEF Complete, SetStrategy, CommitAndLeave, Leave, End
  <2>1. CreateTypeOK'
    BY <1>1, <1>3 DEF CreateTypeOK, Labels, States
  <2>2. intent[t] = "FINALIZING"
    BY <1>4 DEF OwnerOK
  <2>3. ASSUME NEW k \in Keys PROVE KeyOK(k)'
    BY <1>1, <1>3, <1>4, <2>2 DEF CreateTypeOK, KeyOK, Pending, RemoteStates
  <2>4. ASSUME NEW e \in Execs PROVE ExecOK(e)'
    BY <1>1, <1>2, <1>3 DEF CreateTypeOK, ExecOK, Seen
  <2>5. RowsOK'
    <3>1. UnfinishedIsMarked' /\ SuccessIsOpen'
      BY <1>1, <1>3 DEF CreateTypeOK, UnfinishedIsMarked, SuccessIsOpen
    <3>2. SourceStaysPaused'
      BY <1>1, <1>3, <2>2 DEF CreateTypeOK, SourceStaysPaused, ActiveProduct
    <3>3. QED BY <3>1, <3>2 DEF RowsOK
  <2>6. ASSUME lapses = 0 PROVE Quiet' /\ Lively'
    <3>1. /\ \A k \in Keys : intent'[k] = IF k = t THEN "SUCCEEDED" ELSE intent[k]
          /\ t \in running /\ running' = running /\ \A e \in Execs : holder' # e
      BY <1>1, <1>3, <2>6 DEF CreateTypeOK, Lively
    <3>2. Quiet'
      BY <1>1, <2>6, <3>1 DEF Quiet
    <3>3. Lively'
      BY <1>1, <2>6, <3>1 DEF Lively
    <3>4. QED BY <3>2, <3>3
  <2>7. QED BY <1>2, <2>1, <2>3, <2>4, <2>5, <2>6 DEF CreateInv, RunsOK
<1>8. QED BY <1>2, <1>5, <1>6, <1>7 DEF Finishing

\* The other steps of a request.
LEMMA RequestInv ==
    ASSUME IInv, NEW r \in Requests, RequestStep(r), UNCHANGED sourceOn
    PROVE  CreateInv' /\ RowsOK' /\ RunsOK' /\ UNCHANGED lapses
<1>0. CreateInv
  BY DEF IInv
<1>1. CASE Prepare(r)
  <2> USE <1>1 DEF Prepare
  <2> DEFINE t == target[r]
  <2>1. CreateInv'
    BY <1>0, StoreIntentInv
  <2>2. pc[r] # "idle" /\ t \in Keys
    BY <1>0, TargetIsKey DEF CreateInv
  <2>3. /\ intent' = [intent EXCEPT ![t] = "PREPARED"]
        /\ UNCHANGED <<strategy, tiktok, holder, target, lapses>>
        /\ pc' = [pc EXCEPT ![r] = "prepared"]
    BY DEF StoreIntent, SetIntent, Commit, Goto, Same
  <2>4. UnfinishedIsMarked' /\ SuccessIsOpen'
    BY <1>0, <2>2, <2>3
       DEF IInv, CreateInv, CreateTypeOK, UnfinishedIsMarked, SuccessIsOpen
  <2>5. SourceStaysPaused'
    BY <1>0, <2>2, <2>3
       DEF IInv, CreateInv, CreateTypeOK, SourceStaysPaused, ReplacementValid
  <2>6. Quiet /\ Lively => Quiet' /\ Lively'
    BY <1>0, <2>2, <2>3 DEF CreateInv, CreateTypeOK, Quiet, Lively, tiktok
  <2>7. QED BY <2>1, <2>3, <2>4, <2>5, <2>6 DEF IInv, RowsOK, RunsOK
<1>2. CASE Repeat(r)
  <2> USE <1>2 DEF Repeat
  <2>1. CreateInv'
    BY <1>0, PrepareAgainInv
  <2>2. Keeps /\ UNCHANGED lapses
    BY <1>0, StutterKeeps
       DEF CreateInv, CreateTypeOK, PrepareAgain, Goto, SameSystem, Same, lease, tiktok
  <2>3. QED BY <2>1, <2>2, RowsFromKeeps, RunsFromKeeps
<1>3. CASE CreateCall(r)
  <2>1. CreateInv' /\ Keeps
    BY <1>0, <1>3, CreateCallInv, CreateCallKeeps
  <2>2. UNCHANGED lapses
    BY <1>3 DEF CreateCall, Resume, PreflightRejects, Submit, Post, PostAmbiguous, PostNotSent,
           PostRejected, MarkCreated, MarkUnknown, ConfirmUnknown, CreateRaises, Same
  <2>3. QED BY <2>1, <2>2, RowsFromKeeps, RunsFromKeeps
<1>4. CASE Reply(r)
  <2> USE <1>4 DEF Reply
  <2>1. CreateInv'
    BY <1>0, LeaveInv
  <2>2. Keeps /\ UNCHANGED lapses
    BY <1>0, StutterKeeps
       DEF CreateInv, CreateTypeOK, Leave, End, SameSystem, Same, lease, tiktok
  <2>3. QED BY <2>1, <2>2, RowsFromKeeps, RunsFromKeeps
<1>5. CASE Finishing(r)
  BY <1>5, FinishingInv
<1>6. CASE QuarantineStep(r)
  <2>1. CreateInv' /\ Keeps
    BY <1>0, <1>6, QuarantineStepInv, QuarantineStepKeeps
  <2>2. UNCHANGED lapses
    BY <1>6 DEF QuarantineStep, SafetyPause, Quarantine, QuarantineFails, Same
  <2>3. QED BY <2>1, <2>2, RowsFromKeeps, RunsFromKeeps
<1>7. QED
  BY <1>1, <1>2, <1>3, <1>4, <1>5, <1>6 DEF RequestStep, Finishing

\* Entering, the scan and the environment.
LEMMA OthersInv ==
    ASSUME IInv, UNCHANGED sourceOn,
           \/ \E r \in Requests, k \in Keys : Enter(r, k)
           \/ \E c \in Recoverers, k \in Keys : Scan(c, k)
           \/ \E c \in Recoverers : ScanStep(c)
           \/ Environment
    PROVE  CreateInv' /\ RowsOK' /\ RunsOK' /\ lapses' \in {lapses, lapses + 1}
<1>0. CreateInv
  BY DEF IInv
<1>1. ASSUME NEW e \in Execs, NEW k \in Keys, NEW label \in {"entered", "scanned"},
             Take(e, k, label), SameSystem, Same
      PROVE  CreateInv' /\ Keeps /\ UNCHANGED lapses
  <2>1. CreateInv'
    BY <1>0, <1>1, TakeInv
  <2>2. Keeps
    BY <1>0, <1>1, StutterKeeps DEF CreateInv, CreateTypeOK, Take, SameSystem, tiktok
  <2>3. QED BY <1>1, <2>1, <2>2 DEF Same
<1>2. CASE \E r \in Requests, k \in Keys : Enter(r, k)
  BY <1>1, <1>2, RowsFromKeeps, RunsFromKeeps DEF Enter
<1>3. CASE \E c \in Recoverers, k \in Keys : Scan(c, k)
  BY <1>1, <1>3, RowsFromKeeps, RunsFromKeeps DEF Scan
<1>4. CASE \E c \in Recoverers : ScanStep(c)
  <2> PICK c \in Recoverers : ScanStep(c)
    BY <1>4
  <2>1. CreateInv' /\ Keeps
    BY <1>0, ScanStepInv, ScanStepKeeps
  <2>2. UNCHANGED lapses
    BY DEF ScanStep, Confirm, NotConfirmed, QuarantineStep, SafetyPause, Quarantine,
           QuarantineFails, Same
  <2>3. QED BY <2>1, <2>2, RowsFromKeeps, RunsFromKeeps
<1>5. CASE Environment
  <2>1. CreateInv' /\ Keeps
    BY <1>0, <1>5, EnvironmentInv, EnvironmentKeeps
  <2>2. lapses' \in {lapses, lapses + 1}
    BY <1>5 DEF Environment, LateCreate, Crash, FenceLost, StaleLeaseExpires, LeaseLapses, Same
  <2>3. QED BY <2>1, <2>2, RowsFromKeeps, RunsFromKeeps
<1>6. QED BY <1>2, <1>3, <1>4, <1>5

\* Users change the replaced campaign, and strategies that no intent holds.
LEMMA OperateInv ==
    ASSUME IInv, Operate
    PROVE  IInv'
<1> USE DEF tiktok, lease, control, Same
<1>1. /\ UNCHANGED <<intent, tiktok, lease, control, crashes, lapses>>
      /\ strategy' \in [Keys -> {"none", "open", "quarantined"}]
      /\ \A k \in Keys : strategy'[k] = strategy[k] \/
                          (strategy[k] # "quarantined" /\ strategy'[k] = "open")
  BY DEF IInv, CreateInv, CreateTypeOK, Operate, EnableSource, PauseSource, EditStrategy,
         CampaignHeld
<1>2. sourceOn' = FALSE \/ sourceOn' = sourceOn \/ (sourceOn' = TRUE /\ ~SourceHeld)
  BY DEF Operate, EnableSource, PauseSource, EditStrategy
<1>3. CreateInv'
  BY <1>1 DEF IInv, CreateInv, CreateTypeOK, KeyOK, ExecOK, OwnerOK
<1>4. sourceOn' \in BOOLEAN
  BY <1>2 DEF IInv
<1>5. UnfinishedIsMarked' /\ SuccessIsOpen'
  BY <1>1 DEF IInv, UnfinishedIsMarked, SuccessIsOpen
<1>6. SourceStaysPaused'
  <2>1. CASE ~SourceHeld
    BY <1>1, <2>1 DEF SourceHeld, SourceStaysPaused, ActiveProduct
  <2>2. CASE sourceOn' = FALSE
    BY <2>2 DEF SourceStaysPaused
  <2>3. CASE sourceOn' = sourceOn
    BY <1>1, <2>3 DEF IInv, SourceStaysPaused
  <2>4. QED BY <1>2, <2>1, <2>2, <2>3
<1>7. (lapses = 0 => Sole /\ Quiet /\ Lively)'
  BY <1>1 DEF IInv, Sole, Quiet, Lively
<1>8. QED BY <1>3, <1>4, <1>5, <1>6, <1>7 DEF IInv

------------------------------------------------------------------------------
(***************************************************************************)
(* Without lapsed leases nobody works without the lease                    *)
(***************************************************************************)

\* A step of e alone: it begins with a free lease, goes on, or ends.
ActsAlone(e) ==
    /\ \A f \in Execs \ {e} : pc'[f] = pc[f]
    /\ \/ holder = Nobody /\ holder' = e
       \/ pc[e] # "idle" /\ holder' = holder
       \/ pc'[e] = "idle" /\ (holder = e \/ holder' = holder)

\* Such a step keeps the lease and the work together.
LEMMA AloneKeepsSole ==
    ASSUME CreateTypeOK, Sole, NEW e \in Execs, ActsAlone(e)
    PROVE  Sole'
BY DEF Sole, ActsAlone

\* Every step of an execution is of this kind.
LEMMA WorkIsAlone ==
    ASSUME CreateTypeOK, NEW e \in Execs,
           \/ \E k \in Keys : Enter(e, k) \/ Scan(e, k)
           \/ RequestStep(e) \/ ScanStep(e) \/ Crash(e) \/ FenceLost(e)
    PROVE  ActsAlone(e)
<1> USE DEF ActsAlone, CreateTypeOK, Commit, Goto, lease, End, RollBack, Prove
<1>1. CASE \E k \in Keys : Enter(e, k) \/ Scan(e, k)
  BY <1>1 DEF Enter, Scan, Take
<1>2. CASE Prepare(e) \/ Repeat(e) \/ Reply(e)
  BY <1>2 DEF Prepare, StoreIntent, Repeat, PrepareAgain, Reply, Leave
<1>3. CASE CreateCall(e)
  BY <1>3 DEF CreateCall, Resume, PreflightRejects, Submit, Post, PostAmbiguous, PostNotSent,
              PostRejected, MarkCreated, MarkUnknown, ConfirmUnknown, CreateRaises
<1>4. CASE Finishing(e)
  <2>1. CASE BeginFinalizing(e) \/ Complete(e) \/ FinishingRaises(e)
    BY <2>1 DEF BeginFinalizing, Complete, FinishingRaises, CommitAndLeave, Leave, CallRaises
  <2>2. CASE PauseNew(e) \/ EnableNew(e)
    BY <2>2 DEF PauseNew, EnableNew, AnsweredThenProved, CallRaises
  <2>3. QED BY <1>4, <2>1, <2>2 DEF Finishing
<1>5. CASE QuarantineStep(e)
  BY <1>5 DEF QuarantineStep, SafetyPause, Quarantine, QuarantineFails, CommitAndLeave, Leave
<1>6. CASE Confirm(e) \/ NotConfirmed(e)
  BY <1>6 DEF Confirm, NotConfirmed, Leave
<1>7. CASE Crash(e) \/ FenceLost(e)
  BY <1>7 DEF Crash, FenceLost
<1>8. QED
  BY <1>1, <1>2, <1>3, <1>4, <1>5, <1>6, <1>7 DEF RequestStep, ScanStep, Finishing

\* Who works owns the lease, until a first lease lapses.
LEMMA SoleInv ==
    ASSUME IInv, Workflow, lapses' = 0, lapses = 0
    PROVE  Sole'
<1>1. CreateTypeOK /\ Sole
  BY DEF IInv, CreateInv
<1>2. ~LeaseLapses
  BY <1>1 DEF LeaseLapses
<1>3. CASE StaleLeaseExpires \/ \E k \in Keys : LateCreate(k)
  BY <1>1, <1>3 DEF Sole, StaleLeaseExpires, LateCreate, control, lease
<1>4. ASSUME NEW e \in Execs,
             \/ \E k \in Keys : Enter(e, k) \/ Scan(e, k)
             \/ RequestStep(e) \/ ScanStep(e) \/ Crash(e) \/ FenceLost(e)
      PROVE  Sole'
  BY <1>1, <1>4, WorkIsAlone, AloneKeepsSole
<1>5. QED BY <1>2, <1>3, <1>4 DEF Workflow, Environment

------------------------------------------------------------------------------
(***************************************************************************)
(* The invariant                                                           *)
(***************************************************************************)

\* The invariant holds initially.
LEMMA InitIInv == Init => IInv
<1> SUFFICES ASSUME Init PROVE IInv
  OBVIOUS
<1>1. CreateInv /\ sourceOn \in BOOLEAN
  BY InitInv DEF Init
<1>2. UnfinishedIsMarked /\ SourceStaysPaused /\ SuccessIsOpen /\ Quiet /\ Lively /\ Sole
  BY DEF Init, CreateInit, UnfinishedIsMarked, SourceStaysPaused, SuccessIsOpen,
         ActiveProduct, Quiet, Lively, Sole
<1>3. QED BY <1>1, <1>2 DEF IInv

\* Every step keeps it.
LEMMA StepIInv == IInv /\ [Next]_vars => IInv'
<1> SUFFICES ASSUME IInv, [Next]_vars PROVE IInv'
  OBVIOUS
<1>1. CASE UNCHANGED vars
  BY <1>1 DEF vars, createVars, tiktok, lease, control, IInv, CreateInv, CreateTypeOK,
              KeyOK, ExecOK, OwnerOK, UnfinishedIsMarked, SourceStaysPaused,
              SuccessIsOpen, Sole, Quiet, Lively
<1>2. CASE Operate
  BY <1>2, OperateInv
<1>3. CASE Workflow /\ UNCHANGED sourceOn
  <2>1. CreateInv' /\ RowsOK' /\ RunsOK' /\ lapses' \in {lapses, lapses + 1}
    BY <1>3, RequestInv, OthersInv DEF Workflow
  <2>2. lapses' = 0 => Sole'
    BY <1>3, <2>1, LapsesGrow, SoleInv
  <2>3. sourceOn' \in BOOLEAN
    BY <1>3 DEF IInv
  <2>4. QED BY <2>1, <2>2, <2>3 DEF IInv, RowsOK, RunsOK
<1>4. QED BY <1>1, <1>2, <1>3 DEF Next

\* The invariant holds in every state of every behaviour.
LEMMA Invariant == Spec => []IInv
BY InitIInv, StepIInv, PTL DEF Spec

\* The variables keep their types, a proof belongs to a living execution, and
\* only working executions have a key.
THEOREM TypeCorrect == Spec => []TypeOK
<1>1. IInv => TypeOK
  BY DEF IInv, CreateInv, TypeOK
<1>2. QED BY <1>1, Invariant, PTL

\* A campaign that is being replaced stays paused until its replacement is
\* finished, whatever users, requests and scans do, and however often leases
\* lapse: Prepare's check of the source is never outdated.
THEOREM ReplacedStaysPaused == Spec => []SourceStaysPaused
<1>1. IInv => SourceStaysPaused
  BY DEF IInv
<1>2. QED BY <1>1, Invariant, PTL

\* The mark of an unfinished campaign outlives every interruption.
THEOREM MarkStays == Spec => []UnfinishedIsMarked
<1>1. IInv => UnfinishedIsMarked
  BY DEF IInv
<1>2. QED BY <1>1, Invariant, PTL

\* A quarantined campaign is paused as long as no lease lapses under a living
\* execution.
THEOREM QuarantineIsPaused == Spec => []QuarantinedIsPaused
<1>1. IInv => QuarantinedIsPaused
  BY DEF IInv, Quiet, QuarantinedIsPaused
<1>2. QED BY <1>1, Invariant, PTL

\* The intent and the mark of a finished campaign are stored together, and it
\* runs unless a lease has lapsed.
THEOREM FinishedIsOpen == Spec => []SuccessIsComplete
<1>1. IInv => SuccessIsComplete
  BY DEF IInv, SuccessIsOpen, Lively, SuccessIsComplete
<1>2. QED BY <1>1, Invariant, PTL

------------------------------------------------------------------------------
(***************************************************************************)
(* Refinement: intents and campaigns move as ProductClaims says            *)
(***************************************************************************)

ClaimState == [k \in Keys |-> ClaimOf(k)]

\* What one step does to them.
ClaimsStep ==
    \/ ClaimState' = ClaimState /\ made' = made
    \/ \E k \in Keys : Claims!Claim(k) \/ Claims!Make(k) \/ Claims!Finish(k) \/ Claims!Refuse(k)

\* The four abstract states of a claim, by the state of its intent.
LEMMA ClaimStates ==
    ASSUME CreateTypeOK, NEW k \in Keys
    PROVE  /\ ClaimOf(k) = "open" <=> intent[k] \in ActiveProduct
           /\ ClaimOf(k) = "free" <=> intent[k] = "none"
           /\ ClaimOf(k) = "done" <=> intent[k] = "SUCCEEDED"
           /\ ClaimOf(k) = "refused" <=> intent[k] = "FAILED_TERMINAL"
BY DEF ClaimOf, CreateTypeOK, States, ActiveProduct

\* An intent of another key does not move a claim.
LEMMA ClaimsKept ==
    ASSUME CreateTypeOK, CreateTypeOK', UNCHANGED made,
           \A k \in Keys : \/ intent'[k] = intent[k]
                           \/ intent[k] \in ActiveProduct /\ intent'[k] \in ActiveProduct
    PROVE  ClaimsStep
<1>1. ASSUME NEW k \in Keys PROVE ClaimOf(k)' = ClaimOf(k)
  BY DEF ClaimOf, ActiveProduct
<1>2. QED BY <1>1 DEF ClaimsStep, ClaimState

\* The intent of one key changes its claim, and no campaign is made.
LEMMA ClaimChanges ==
    ASSUME CreateTypeOK, CreateTypeOK', UNCHANGED made, NEW k \in Keys,
           NEW state, intent' = [intent EXCEPT ![k] = state]
    PROVE  ClaimState' = [ClaimState EXCEPT ![k] = ClaimOf(k)']
<1>1. ASSUME NEW l \in Keys \ {k} PROVE ClaimOf(l)' = ClaimOf(l)
  BY DEF ClaimOf, CreateTypeOK
<1>2. QED BY <1>1 DEF ClaimState

\* TikTok makes the first campaign of an open claim.
LEMMA ClaimMade ==
    ASSUME CreateInv, CreateTypeOK', UNCHANGED intent, NEW k \in Keys,
           intent[k] \in Pending, made[k] = 0, TikTokCreates(k)
    PROVE  ClaimsStep
<1>1. ClaimState' = ClaimState
  BY DEF ClaimState, ClaimOf
<1>2. ClaimState[k] = "open"
  BY ClaimStates DEF ClaimState, CreateInv, Pending, ActiveProduct
<1>3. made' = [made EXCEPT ![k] = 1]
  BY DEF TikTokCreates, CreateInv, CreateTypeOK
<1>4. Claims!Make(k)
  BY <1>1, <1>2, <1>3 DEF Claims!Make, ClaimState
<1>5. QED BY <1>4 DEF ClaimsStep

\* An open claim without a campaign is refused.
LEMMA ClaimRefused ==
    ASSUME CreateInv, CreateTypeOK', UNCHANGED made, NEW k \in Keys,
           intent[k] \in {"PREPARED", "SUBMITTING"}, made[k] = 0,
           intent' = [intent EXCEPT ![k] = "FAILED_TERMINAL"]
    PROVE  ClaimsStep
<1>1. CreateTypeOK /\ intent'[k] = "FAILED_TERMINAL"
  BY DEF CreateInv, CreateTypeOK
<1>2. ClaimState[k] = "open" /\ ClaimOf(k)' = "refused"
  BY <1>1, ClaimStates DEF ClaimState, ClaimOf, ActiveProduct
<1>3. ClaimState' = [ClaimState EXCEPT ![k] = "refused"]
  BY <1>1, <1>2, ClaimChanges
<1>4. Claims!Refuse(k)
  BY <1>2, <1>3 DEF Claims!Refuse, ClaimState
<1>5. QED BY <1>4 DEF ClaimsStep

\* The create call.
LEMMA ClaimsOfCreateCall ==
    ASSUME CreateInv, CreateInv', NEW r \in Requests, CreateCall(r)
    PROVE  ClaimsStep
<1> USE DEF Commit, Goto, SetIntent, SameRows, SameSystem, Same, tiktok
<1> DEFINE t == target[r]
<1>0. CreateTypeOK /\ CreateTypeOK'
  BY DEF CreateInv
<1>1. t \in Keys /\ KeyOK(t) /\ (holder = r => OwnerOK(r))
  <2>1. pc[r] # "idle"
    BY DEF CreateCall, Resume, PreflightRejects, Submit, Post, PostAmbiguous, PostNotSent,
           PostRejected, MarkCreated, MarkUnknown, ConfirmUnknown, CreateRaises
  <2>2. QED BY <2>1, TargetIsKey DEF CreateInv, ExecOK
<1>2. CASE Resume(r) \/ Submit(r) \/ PostNotSent(r) \/ MarkCreated(r) \/ MarkUnknown(r)
           \/ ConfirmUnknown(r) \/ CreateRaises(r)
  <2>1. UNCHANGED made
    BY <1>2 DEF Resume, Submit, PostNotSent, MarkCreated, MarkUnknown, ConfirmUnknown,
                CreateRaises
  <2>2. \/ UNCHANGED intent
        \/ /\ intent[t] \in ActiveProduct
           /\ \E state \in ActiveProduct : intent' = [intent EXCEPT ![t] = state]
    BY <1>1, <1>2 DEF Resume, Submit, PostNotSent, MarkCreated, MarkUnknown, ConfirmUnknown,
                      CreateRaises, AmbiguousState, OwnerOK, ActiveProduct, Pending
  <2>3. QED BY <1>0, <1>1, <2>1, <2>2, ClaimsKept DEF CreateTypeOK
<1>3. CASE PreflightRejects(r)
  BY <1>0, <1>1, <1>3, ClaimRefused DEF PreflightRejects, KeyOK
<1>4. CASE PostRejected(r)
  BY <1>0, <1>1, <1>4, ClaimRefused DEF PostRejected, OwnerOK
<1>5. CASE Post(r)
  BY <1>0, <1>1, <1>5, ClaimMade DEF Post, Prove, OwnerOK, Pending
<1>6. CASE PostAmbiguous(r)
  BY <1>0, <1>1, <1>6, ClaimMade, ClaimsKept DEF PostAmbiguous, OwnerOK, Pending
<1>7. QED BY <1>2, <1>3, <1>4, <1>5, <1>6 DEF CreateCall

\* A new intent opens its claim; Blocking kept it free of clashes.
LEMMA ClaimOpened ==
    ASSUME CreateInv, CreateTypeOK', UNCHANGED made, NEW k \in Keys,
           intent[k] = "none", ~Blocking(k),
           intent' = [intent EXCEPT ![k] = "PREPARED"]
    PROVE  ClaimsStep
<1>1. CreateTypeOK /\ intent'[k] = "PREPARED"
  BY DEF CreateInv, CreateTypeOK
<1>2. ClaimState[k] = "free" /\ ClaimOf(k)' = "open"
  BY <1>1, ClaimStates DEF ClaimState, ClaimOf, ActiveProduct
<1>3. ClaimState' = [ClaimState EXCEPT ![k] = "open"]
  BY <1>1, <1>2, ClaimChanges
<1>4. ASSUME NEW l \in Keys \ {k}, ClaimState[l] = "open" PROVE ~Overlap(k, l)
  BY <1>1, <1>4, ClaimStates DEF Blocking, ClaimState
<1>5. Claims!Claim(k)
  BY <1>2, <1>3, <1>4 DEF Claims!Claim, ClaimState
<1>6. QED BY <1>5 DEF ClaimsStep

\* The last store of a request finishes its claim.
LEMMA ClaimFinished ==
    ASSUME CreateInv, CreateTypeOK', UNCHANGED made, NEW k \in Keys,
           intent[k] = "FINALIZING", intent' = [intent EXCEPT ![k] = "SUCCEEDED"]
    PROVE  ClaimsStep
<1>1. CreateTypeOK /\ intent'[k] = "SUCCEEDED" /\ made[k] = 1
  BY DEF CreateInv, CreateTypeOK, KeyOK, RemoteStates
<1>2. ClaimState[k] = "open" /\ ClaimOf(k)' = "done"
  BY <1>1, ClaimStates DEF ClaimState, ClaimOf, ActiveProduct
<1>3. ClaimState' = [ClaimState EXCEPT ![k] = "done"]
  BY <1>1, <1>2, ClaimChanges
<1>4. Claims!Finish(k)
  BY <1>1, <1>2, <1>3 DEF Claims!Finish, ClaimState
<1>5. QED BY <1>4 DEF ClaimsStep

\* The first store of a request.
LEMMA ClaimsOfPrepare ==
    ASSUME CreateInv, CreateInv', NEW r \in Requests, Prepare(r)
    PROVE  ClaimsStep
<1>1. CreateTypeOK' /\ target[r] \in Keys
  BY TargetIsKey DEF CreateInv, Prepare
<1>2. QED BY <1>1, ClaimOpened DEF Prepare, StoreIntent, SetIntent, tiktok

\* Finishing the campaign finishes the claim, at its end.
LEMMA ClaimsOfFinishing ==
    ASSUME CreateInv, CreateInv', NEW r \in Requests, Finishing(r)
    PROVE  ClaimsStep
<1> USE DEF Commit, Goto, SetIntent, SameRows, SameSystem, Same, tiktok
<1> DEFINE t == target[r]
<1>1. CASE PauseNew(r) \/ EnableNew(r) \/ FinishingRaises(r)
  <2>1. UNCHANGED <<intent, made>>
    BY <1>1 DEF PauseNew, Pause, EnableNew, Enable, FinishingRaises
  <2>2. QED BY <2>1, ClaimsKept DEF CreateInv
<1>2. CASE BeginFinalizing(r)
  <2>1. t \in Keys /\ OwnerOK(r)
    BY <1>2, TargetIsKey DEF BeginFinalizing, CreateInv, ExecOK
  <2>2. intent[t] \in ActiveProduct
    BY <1>2, <2>1 DEF BeginFinalizing, OwnerOK, RemoteStates, ActiveProduct
  <2>3. intent' = [intent EXCEPT ![t] = "FINALIZING"] /\ UNCHANGED made
    BY <1>2 DEF BeginFinalizing
  <2>4. QED BY <2>1, <2>2, <2>3, ClaimsKept DEF CreateInv, CreateTypeOK, ActiveProduct
<1>3. CASE Complete(r)
  <2>1. t \in Keys /\ OwnerOK(r) /\ CreateTypeOK'
    BY <1>3, TargetIsKey DEF Complete, CommitAndLeave, CreateInv, ExecOK
  <2>2. intent[t] = "FINALIZING"
    BY <1>3, <2>1 DEF Complete, OwnerOK
  <2>3. QED BY <1>3, <2>1, <2>2, ClaimFinished DEF Complete
<1>4. QED BY <1>1, <1>2, <1>3 DEF Finishing

\* Quarantine leaves the claim open.
LEMMA ClaimsOfQuarantine ==
    ASSUME CreateInv, CreateInv', NEW e \in Execs, QuarantineStep(e)
    PROVE  ClaimsStep
<1> DEFINE t == target[e]
<1>1. CASE SafetyPause(e) \/ QuarantineFails(e)
  <2>1. UNCHANGED <<intent, made>>
    BY <1>1 DEF SafetyPause, Pause, QuarantineFails, SameRows, SameSystem, tiktok
  <2>2. QED BY <2>1, ClaimsKept DEF CreateInv
<1>2. CASE Quarantine(e)
  <2>1. t \in Keys /\ OwnerOK(e)
    BY <1>2, TargetIsKey DEF Quarantine, CommitAndLeave, CreateInv, ExecOK
  <2>2. intent[t] \in ActiveProduct
    BY <1>2, <2>1 DEF Quarantine, OwnerOK, RemoteStates, ActiveProduct
  <2>3. /\ \E state \in ActiveProduct : intent' = [intent EXCEPT ![t] = state]
        /\ UNCHANGED made
    BY <1>2 DEF Quarantine, SetIntent, tiktok, ActiveProduct
  <2>4. QED BY <2>1, <2>2, <2>3, ClaimsKept DEF CreateInv, CreateTypeOK
<1>3. QED BY <1>1, <1>2 DEF QuarantineStep

\* The steps without an execution's work on the intent, and the scan's read.
LEMMA ClaimsOfOthers ==
    ASSUME CreateInv, CreateInv',
           \/ Operate \/ Environment \/ UNCHANGED vars
           \/ \E r \in Requests : Repeat(r) \/ Reply(r) \/ \E k \in Keys : Enter(r, k)
           \/ \E c \in Recoverers :
                 Confirm(c) \/ NotConfirmed(c) \/ \E k \in Keys : Scan(c, k)
    PROVE  ClaimsStep
<1>0. CreateTypeOK /\ CreateTypeOK'
  BY DEF CreateInv
<1>1. CASE UNCHANGED <<intent, made>>
  BY <1>0, <1>1, ClaimsKept
<1>2. CASE \E k \in Keys : LateCreate(k)
  BY <1>0, <1>2, ClaimMade DEF LateCreate, SameRows, CreateInv, KeyOK
<1>3. ASSUME NEW c \in Recoverers, Confirm(c) PROVE ClaimsStep
  <2>1. /\ target[c] \in Keys /\ intent[target[c]] \in ActiveProduct /\ UNCHANGED made
        /\ intent' = [intent EXCEPT ![target[c]] = "REMOTE_CREATED"]
    BY <1>0, <1>3, TargetIsKey DEF Confirm, SetIntent, Recoverable, ActiveProduct, tiktok
  <2>2. QED BY <1>0, <2>1, ClaimsKept DEF CreateTypeOK, ActiveProduct
<1>4. QED
  BY <1>1, <1>2, <1>3
  DEF Operate, EnableSource, PauseSource, EditStrategy, Environment, Crash, FenceLost,
      StaleLeaseExpires, LeaseLapses, vars, createVars, Repeat, PrepareAgain, Reply, Enter,
      NotConfirmed, Scan, SameSystem, tiktok

\* The create request, its repetitions, the scan and the faults implement
\* the promise of ProductClaims.
THEOREM KeepsClaims == Spec => ImplementsClaims
<1>1. Init => Claims!ClaimInit
  BY DEF Init, CreateInit, Claims!ClaimInit, ClaimOf, ActiveProduct
<1>2. CreateInv /\ CreateInv' /\ [Next]_vars => ClaimsStep
  <2> SUFFICES ASSUME CreateInv, CreateInv', [Next]_vars PROVE ClaimsStep
    OBVIOUS
  <2>1. ASSUME NEW r \in Requests, RequestStep(r) PROVE ClaimsStep
    BY <2>1, ClaimsOfPrepare, ClaimsOfCreateCall, ClaimsOfFinishing, ClaimsOfQuarantine,
       ClaimsOfOthers DEF RequestStep, Finishing
  <2>2. ASSUME NEW c \in Recoverers, ScanStep(c) PROVE ClaimsStep
    BY <2>2, ClaimsOfQuarantine, ClaimsOfOthers DEF ScanStep
  <2>3. QED BY <2>1, <2>2, ClaimsOfOthers DEF Next, Workflow
<1>3. CreateInv /\ CreateInv' /\ [Next]_vars => [Claims!ClaimNext]_<<ClaimState, made>>
  BY <1>2 DEF ClaimsStep, Claims!ClaimNext
<1>4. IInv => CreateInv
  BY DEF IInv
<1>5. QED
  BY <1>1, <1>3, <1>4, Invariant, PTL
  DEF Spec, ImplementsClaims, Claims!ClaimSpec, Claims!claims, ClaimState

=============================================================================
