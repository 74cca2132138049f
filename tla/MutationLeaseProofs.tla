------------------------ MODULE MutationLeaseProofs ------------------------
(***************************************************************************)
(* Proofs about MutationLease for every set of cycles, mutations, syncs    *)
(* and accounts.                                                           *)
(***************************************************************************)
EXTENDS MutationLease, TLAPS

USE DisjointKinds, ScopesOfExecs DEF Execs, Scopes, Lease

\* Every execution locks a scope and is hosted by an execution.
LEMMA KeyAndHost ==
    \A e \in Execs : Key(e) \in Scopes /\ Host(e) \in Execs
BY DEF Key, Host

\* A nested mutation's host is a cycle.
LEMMA HostOfNested ==
    \A e \in Execs : Host(e) # e => e \in Mutations /\ Host(e) \in Cycles
BY DEF Host

RowType ==
    [Scopes -> [owner : Execs \cup {Nobody}, fence : Nat, live : BOOLEAN]]

LEMMA RowTyped == TypeOK => row \in RowType
BY DEF TypeOK, RowType

LEMMA RowFields ==
    ASSUME TypeOK, NEW s \in Scopes
    PROVE  /\ row[s].owner \in Execs \cup {Nobody}
           /\ row[s].fence \in Nat
           /\ row[s].live \in BOOLEAN
BY DEF TypeOK

\* Writing one lease keeps the type.
LEMMA LeaseWriteType ==
    ASSUME TypeOK, NEW s \in Scopes, NEW o \in Execs \cup {Nobody}, NEW f \in Nat,
           NEW b \in BOOLEAN
    PROVE  [row EXCEPT ![s] = Lease(o, f, b)] \in RowType
BY DEF TypeOK, RowType

\* Dropping the row locks of some sessions keeps the types.
LEMMA DropLocksType ==
    ASSUME TypeOK, NEW S, DropLocks(S)
    PROVE  /\ rowLock' \in [Scopes -> (Execs \X {"main", "release"}) \cup {Nobody}]
           /\ renewed' \subseteq Scopes
BY DEF TypeOK, DropLocks

LEMMA GrantType ==
    ASSUME TypeOK, NEW e \in Execs, NEW s \in Scopes, Grant(e, s)
    PROVE  /\ row' \in RowType
           /\ token' \in [Execs -> [Scopes -> Nat]]
<1>1. row[s].fence + 1 \in Nat
  BY DEF TypeOK
<1>2. QED BY <1>1 DEF TypeOK, Grant, RowType

LEMMA FreedType ==
    ASSUME TypeOK, NEW e \in Execs, NEW S
    PROVE  Freed(e, S) \in RowType
BY DEF TypeOK, Freed, Owns, RowType

LEMMA ReleaseRedisKeyType ==
    ASSUME TypeOK, NEW e \in Execs, ReleaseRedisKey(e)
    PROVE  /\ redis' \in [Scopes -> Execs \cup {Nobody}]
           /\ lock' \in [Execs -> {"free", "held", "lost"}]
<1>1. CASE FreeRedisKey(e)
  <2>1. redis' \in [Scopes -> Execs \cup {Nobody}]
    <3>1. redis' = [redis EXCEPT ![Key(e)] =
                      IF redis[Key(e)] = e /\ lock[e] # "free"
                      THEN Nobody ELSE redis[Key(e)]]
      BY <1>1 DEF FreeRedisKey
    <3>2. QED BY <3>1, KeyAndHost DEF TypeOK
  <2>2. lock' \in [Execs -> {"free", "held", "lost"}]
    BY <1>1 DEF FreeRedisKey, TypeOK
  <2>3. QED BY <2>1, <2>2
<1>2. CASE AbandonRedisKey(e)
  BY <1>2 DEF AbandonRedisKey, TypeOK
<1>3. QED BY <1>1, <1>2 DEF ReleaseRedisKey

LEMMA TypeInit == Init => TypeOK
BY DEF Init, TypeOK, Labels, Terminal

LEMMA TypeStep ==
    ASSUME TypeOK, NEW e \in Execs, Step(e)
    PROVE  TypeOK'
<1> USE KeyAndHost DEF Goto, MarkLost
<1>1. CASE Begin(e) BY <1>1 DEF Begin, TypeOK, Labels
<1>2. CASE SetRedisKey(e)
  <2>1. /\ redis' \in [Scopes -> Execs \cup {Nobody}]
        /\ lock' \in [Execs -> {"free", "held", "lost"}]
    BY <1>2 DEF SetRedisKey, TypeOK
  <2>2. pc' \in [Execs -> Labels]
    BY <1>2 DEF SetRedisKey, TypeOK, Labels
  <2>3. QED BY <1>2, <2>1, <2>2 DEF SetRedisKey, TypeOK
<1>3. CASE GiveUpRedisKey(e) BY <1>3 DEF GiveUpRedisKey, TypeOK, Labels, Terminal
<1>4. CASE VerifyBeforeClaim(e)
  <2>1. lock' \in [Execs -> {"free", "held", "lost"}]
    BY <1>4 DEF VerifyBeforeClaim, TypeOK
  <2>2. pc' \in [Execs -> Labels]
    BY <1>4 DEF VerifyBeforeClaim, TypeOK, Labels
  <2>3. QED BY <1>4, <2>1, <2>2 DEF VerifyBeforeClaim, TypeOK
<1>5. CASE ClaimGeneration(e)
  BY <1>5, GrantType DEF ClaimGeneration, RowType, TypeOK, Labels
<1>6. CASE ClaimFails(e)
  BY <1>6 DEF ClaimFails, TypeOK, Labels, Terminal
<1>7. CASE UndoRedisKey(e)
  BY <1>7, ReleaseRedisKeyType DEF UndoRedisKey, TypeOK, Labels, Terminal
<1>8. CASE StartAssert(e) BY <1>8 DEF StartAssert, TypeOK, Labels
<1>9. CASE BodyRaises(e) BY <1>9 DEF BodyRaises, TypeOK, Labels
<1>10. CASE VerifyAccount(e)
  <2>1. lock' \in [Execs -> {"free", "held", "lost"}]
    BY <1>10 DEF VerifyAccount, TypeOK
  <2>2. pc' \in [Execs -> Labels]
    BY <1>10 DEF VerifyAccount, TypeOK, Labels
  <2>3. QED BY <1>10, <2>1, <2>2 DEF VerifyAccount, TypeOK
<1>11. CASE CommitBody(e)
  <2>1. CASE AccountProved(e)
    <3>1. row' \in RowType
      <4> DEFINE proved == {Key(e)} \cup (HeldIn(Main(e)) \cap renewed)
      <4>1. row' = [s \in Scopes |->
                      IF s \in proved THEN Lease(row[s].owner, row[s].fence, TRUE)
                                      ELSE row[s]]
        BY <1>11, <2>1 DEF CommitBody
      <4> HIDE DEF proved
      <4>2. QED BY <4>1, RowFields DEF TypeOK, RowType
    <3>2. written' \in [Accounts -> Nat]
      BY <1>11, <2>1 DEF CommitBody, TypeOK
    <3>3. rowLock' \in [Scopes -> (Execs \X {"main", "release"}) \cup {Nobody}]
          /\ renewed' \subseteq Scopes
      BY <1>11, <2>1, DropLocksType DEF CommitBody
    <3>4. pc' \in [Execs -> Labels]
      BY <1>11, <2>1 DEF CommitBody, TypeOK, Labels
    <3>5. QED BY <1>11, <3>1, <3>2, <3>3, <3>4 DEF CommitBody, TypeOK, RowType
  <2>2. CASE ~AccountProved(e)
    <3>1. rowLock' \in [Scopes -> (Execs \X {"main", "release"}) \cup {Nobody}]
      BY <1>11, <2>2 DEF CommitBody, Main, TypeOK
    <3>2. pc' \in [Execs -> Labels]
      BY <1>11, <2>2 DEF CommitBody, TypeOK, Labels
    <3>3. QED BY <1>11, <2>2, <3>1, <3>2 DEF CommitBody, TypeOK, RowType
  <2>3. QED BY <2>1, <2>2
<1>12. CASE ProofLockWaitFails(e)
  <2>1. /\ rowLock' \in [Scopes -> (Execs \X {"main", "release"}) \cup {Nobody}]
        /\ renewed' \subseteq Scopes
    BY <1>12, DropLocksType DEF ProofLockWaitFails, TypeOK
  <2>2. pc' \in [Execs -> Labels]
    BY <1>12 DEF ProofLockWaitFails, TypeOK, Labels
  <2>3. QED BY <1>12, <2>1, <2>2 DEF ProofLockWaitFails, TypeOK
<1>13. CASE HandleRaise(e) BY <1>13, DropLocksType DEF HandleRaise, TypeOK, Labels
<1>14. CASE ReleaseAccount(e)
  <2>1. CASE Standalone(e)
    <3>1. rowLock' \in [Scopes -> (Execs \X {"main", "release"}) \cup {Nobody}]
      BY <1>14, <2>1 DEF ReleaseAccount, Releaser, TypeOK
    <3>2. pc' \in [Execs -> Labels]
      BY <1>14, <2>1 DEF ReleaseAccount, TypeOK, Labels
    <3>3. QED BY <1>14, <2>1, <3>1, <3>2 DEF ReleaseAccount, TypeOK, RowType
  <2>2. CASE ~Standalone(e)
    <3>1. row' \in RowType
      <4>1. row' = Freed(e, {Key(e)})
        BY <1>14, <2>2 DEF ReleaseAccount
      <4>2. QED BY <4>1, FreedType
    <3>2. pc' \in [Execs -> Labels]
      BY <1>14, <2>2 DEF ReleaseAccount, TypeOK, Labels
    <3>3. QED BY <1>14, <2>2, <3>1, <3>2 DEF ReleaseAccount, TypeOK, RowType
  <2>3. QED BY <2>1, <2>2
<1>15. CASE ReleaseLockWaitFails(e)
  BY <1>15, DropLocksType DEF ReleaseLockWaitFails, TypeOK, Labels
<1>16. CASE Unlock(e)
  BY <1>16, ReleaseRedisKeyType DEF Unlock, TypeOK, Labels, Terminal
<1>17. QED
  BY <1>1, <1>2, <1>3, <1>4, <1>5, <1>6, <1>7, <1>8, <1>9, <1>10, <1>11,
     <1>12, <1>13, <1>14, <1>15, <1>16 DEF Step

LEMMA TypeMutationStep ==
    ASSUME TypeOK, NEW m \in Mutations, MutationStep(m)
    PROVE  TypeOK'
<1> USE KeyAndHost DEF Goto, MarkLost
<1>0. m \in Execs /\ Global \in Scopes
  OBVIOUS
<1>1. CASE AcquireGlobal(m)
  BY <1>0, <1>1, GrantType DEF AcquireGlobal, RowType, TypeOK, Labels, Terminal
<1>2. CASE ReproveGlobal(m)
  <2>1. Host(m) \in Execs /\ pc' = [pc EXCEPT ![m] = pc'[m]]
        /\ pc'[m] \in {"lock", "ended"}
    BY <1>0, <1>2 DEF ReproveGlobal, TypeOK
  <2>2. pc' \in [Execs -> Labels]
    BY <1>0, <2>1 DEF TypeOK, Labels, Terminal
  <2>3. lock' \in [Execs -> {"free", "held", "lost"}]
    BY <1>2, <2>1 DEF ReproveGlobal, TypeOK
  <2>4. QED BY <1>2, <2>2, <2>3 DEF ReproveGlobal, TypeOK
<1>3. CASE DropGlobal(m)
  <2>1. row' \in RowType
    <3>1. row' = Freed(m, {Global}) \/ row' = row
      BY <1>3 DEF DropGlobal
    <3>2. QED BY <1>0, <3>1, FreedType, RowTyped
  <2>2. pc' \in [Execs -> Labels]
    BY <1>0, <1>3 DEF DropGlobal, TypeOK, Labels, Terminal
  <2>3. QED BY <1>3, <2>1, <2>2 DEF DropGlobal, TypeOK, RowType
<1>4. CASE VerifyGlobal(m)
  <2>1. lock' \in [Execs -> {"free", "held", "lost"}]
    BY <1>0, <1>4 DEF VerifyGlobal, TypeOK
  <2>2. pc' \in [Execs -> Labels]
    BY <1>0, <1>4 DEF VerifyGlobal, TypeOK, Labels
  <2>3. QED BY <1>4, <2>1, <2>2 DEF VerifyGlobal, TypeOK
<1>5. CASE ProveGlobal(m)
  BY <1>0, <1>5 DEF ProveGlobal, LockForUpdate, Main, TypeOK, Labels
<1>6. CASE ProveAccount(m)
  <2>1. rowLock' \in [Scopes -> (Execs \X {"main", "release"}) \cup {Nobody}]
    BY <1>0, <1>6 DEF ProveAccount, LockForUpdate, Main, TypeOK
  <2>2. pc' \in [Execs -> Labels]
    BY <1>0, <1>6 DEF ProveAccount, TypeOK, Labels
  <2>3. renewed' \subseteq Scopes
    BY <1>0, <1>6 DEF ProveAccount, TypeOK
  <2>4. QED BY <1>6, <2>1, <2>2, <2>3 DEF ProveAccount, TypeOK
<1>7. CASE RemoteAnswers(m) BY <1>0, <1>7 DEF RemoteAnswers, TypeOK, Labels
<1>8. CASE ReleaseBoth(m)
  BY <1>0, <1>8, FreedType, DropLocksType DEF ReleaseBoth, RowType, TypeOK, Labels
<1>9. CASE Rollback(m)
  BY <1>0, <1>9, DropLocksType DEF Rollback, TypeOK, Labels, Terminal
<1>10. QED
  BY <1>1, <1>2, <1>3, <1>4, <1>5, <1>6, <1>7, <1>8, <1>9 DEF MutationStep

LEMMA TypeEnvironment ==
    ASSUME TypeOK, Environment
    PROVE  TypeOK'
<1>1. ASSUME NEW s \in Scopes, RedisKeyExpires(s)
      PROVE  TypeOK'
  BY <1>1 DEF RedisKeyExpires, TypeOK
<1>2. ASSUME NEW s \in Scopes, LeaseExpires(s)
      PROVE  TypeOK'
  <2>1. row' \in RowType
    <3>1. row' = [row EXCEPT ![s] = Lease(row[s].owner, row[s].fence, FALSE)]
          \/ row' = row
      BY <1>2 DEF LeaseExpires
    <3>2. [row EXCEPT ![s] = Lease(row[s].owner, row[s].fence, FALSE)] \in RowType
      <4>1. row[s].owner \in Execs \cup {Nobody} /\ row[s].fence \in Nat
        BY RowFields
      <4>2. QED BY <4>1 DEF TypeOK, RowType
    <3>3. QED BY <3>1, <3>2, RowTyped
  <2>2. QED BY <1>2, <2>1 DEF LeaseExpires, TypeOK, RowType
<1>3. ASSUME NEW e \in Execs, HeartbeatFails(e)
      PROVE  TypeOK'
  BY <1>3 DEF HeartbeatFails, MarkLost, TypeOK
<1>4. ASSUME NEW e \in Execs, Crash(e)
      PROVE  TypeOK'
  BY <1>4, DropLocksType DEF Crash, TypeOK, Labels, Terminal
<1>5. QED BY <1>1, <1>2, <1>3, <1>4 DEF Environment

LEMMA TypeNext == TypeOK /\ [Next]_vars => TypeOK'
<1> SUFFICES ASSUME TypeOK, [Next]_vars PROVE TypeOK'
  OBVIOUS
<1>1. ASSUME NEW c \in Cycles, FinishCycle(c)
      PROVE  TypeOK'
  <2>1. row' \in RowType
    <3>1. row' = Freed(c, {Global}) \/ row' = row
      BY <1>1 DEF FinishCycle
    <3>2. QED BY <3>1, FreedType, RowTyped
  <2>2. pc' \in [Execs -> Labels]
    BY <1>1 DEF FinishCycle, Goto, TypeOK, Labels
  <2>3. QED BY <1>1, <2>1, <2>2 DEF FinishCycle, TypeOK, RowType
<1>2. CASE UNCHANGED vars
  BY <1>2 DEF vars, TypeOK
<1>3. QED
  BY <1>1, <1>2, TypeStep, TypeMutationStep, TypeEnvironment DEF Next

\* Type correctness: the lease rows, Redis keys, locks and executions of the
\* mutation boundary always have their types.
THEOREM TypeCorrect == Spec => []TypeOK
BY TypeInit, TypeNext, PTL DEF Spec

-----------------------------------------------------------------------------
(***************************************************************************)
(* The safety argument.  A scope's row can be granted or freed only by an  *)
(* execution that holds its row lock or finds it free, and an execution    *)
(* between its proof of a scope and the end of its transaction holds that  *)
(* row lock.  So what the proof established stays true, whatever expires.  *)
(***************************************************************************)
Proved == {"verifyAccount", "proveAccount", "remote"}

TokensBounded == \A e \in Execs, s \in Scopes : token[e][s] <= row[s].fence

\* After ProveGlobal a mutation holds the global row it has proved.
GlobalProved(e) ==
    /\ rowLock[Global] = Main(e)
    /\ row[Global].owner = Host(e)
    /\ row[Global].fence = token[Host(e)][Global]

\* During the remote call it also holds the account row it has proved.
AccountHeld(e) ==
    /\ e \in Mutations
    /\ rowLock[Key(e)] = Main(e)
    /\ row[Key(e)].owner = e
    /\ row[Key(e)].fence = token[e][Key(e)]

LeaseInv ==
    /\ TypeOK
    /\ TokensBounded
    /\ TokensDistinct
    /\ \A e \in Mutations : pc[e] \in Proved => GlobalProved(e)
    /\ \A e \in Execs : pc[e] = "remote" => AccountHeld(e)
    /\ \A e \in Execs : pc[e] = "releaseGlobal" =>
            rowLock[Key(e)] = Releaser(e) /\ Standalone(e)

\* Sessions of different executions, and the two sessions of one, differ.
LEMMA SessionsDiffer ==
    /\ \A e, f \in Execs : Main(e) = Main(f) => e = f
    /\ \A e, f \in Execs : Releaser(e) = Releaser(f) => e = f
    /\ \A e, f \in Execs : Main(e) # Releaser(f)
    /\ \A e \in Execs : Main(e) # Nobody /\ Releaser(e) # Nobody
BY NobodyIsNoSession DEF Main, Releaser

\* The global scope is nobody's account.
LEMMA KeyOfAccountUser ==
    \A e \in Mutations \cup Syncs : Key(e) \in Accounts /\ Key(e) # Global
BY DEF Key

LEMMA LeaseInvInit == Init => LeaseInv
<1> SUFFICES ASSUME Init PROVE LeaseInv
  OBVIOUS
<1>1. TypeOK BY TypeInit
<1>2. TokensBounded BY DEF Init, TokensBounded
<1>3. TokensDistinct BY DEF Init, TokensDistinct
<1>4. \A e \in Execs : pc[e] = "idle" BY DEF Init
<1>5. QED BY <1>1, <1>2, <1>3, <1>4 DEF LeaseInv, Proved

\* A step that leaves rows, row locks and tokens alone, and takes nobody into
\* a state that claims a proof, preserves the invariant.
LEMMA QuietStep ==
    ASSUME LeaseInv, TypeOK', UNCHANGED <<rowLock, token>>,
           \A s \in Scopes : row'[s].owner = row[s].owner /\ row'[s].fence = row[s].fence,
           \A e \in Execs :
              \/ pc'[e] = pc[e]
              \/ pc'[e] \notin Proved \cup {"releaseGlobal"}
              \/ e \in Mutations /\ pc[e] = "verifyAccount" /\ pc'[e] = "proveAccount"
              \/ e \notin Mutations /\ pc'[e] \in {"verifyAccount", "proveAccount"}
    PROVE  LeaseInv'
<1>1. TokensBounded' BY DEF LeaseInv, TokensBounded
<1>2. TokensDistinct' BY DEF LeaseInv, TokensDistinct
<1>3. \A e \in Mutations : pc'[e] \in Proved => GlobalProved(e)'
  <2> SUFFICES ASSUME NEW e \in Mutations, pc'[e] \in Proved PROVE GlobalProved(e)'
    OBVIOUS
  <2>1. pc[e] \in Proved BY DEF Proved
  <2>2. QED BY <2>1 DEF LeaseInv, GlobalProved
<1>4. \A e \in Execs : pc'[e] = "remote" => AccountHeld(e)'
  <2> SUFFICES ASSUME NEW e \in Execs, pc'[e] = "remote" PROVE AccountHeld(e)'
    OBVIOUS
  <2>1. pc[e] = "remote" BY DEF Proved
  <2>2. QED BY <2>1, KeyAndHost DEF LeaseInv, AccountHeld
<1>5. \A e \in Execs : pc'[e] = "releaseGlobal" =>
          rowLock'[Key(e)] = Releaser(e) /\ Standalone(e)
  <2> SUFFICES ASSUME NEW e \in Execs, pc'[e] = "releaseGlobal"
               PROVE  rowLock'[Key(e)] = Releaser(e) /\ Standalone(e)
    OBVIOUS
  <2>1. pc[e] = "releaseGlobal" OBVIOUS
  <2>2. QED BY <2>1 DEF LeaseInv
<1>6. QED BY <1>1, <1>2, <1>3, <1>4, <1>5 DEF LeaseInv

\* An execution that takes newer fencing tokens shares none of them.
LEMMA FreshTokens ==
    ASSUME TypeOK, TypeOK', TokensBounded, TokensDistinct, NEW e \in Execs,
           \A f \in Execs, s \in Scopes :
              \/ token'[f][s] = token[f][s]
              \/ /\ f = e
                 /\ token'[f][s] = row'[s].fence
                 /\ row'[s].fence > row[s].fence
    PROVE  TokensDistinct'
<1> SUFFICES ASSUME NEW f \in Execs, NEW g \in Execs, NEW s \in Scopes, f # g,
                    token'[f][s] = token'[g][s]
             PROVE  token'[f][s] = 0
  BY DEF TokensDistinct
<1>1. /\ token[f][s] \in Nat /\ token[g][s] \in Nat
      /\ token'[f][s] \in Nat /\ token'[g][s] \in Nat
      /\ row[s].fence \in Nat /\ row'[s].fence \in Nat
  BY DEF TypeOK
<1>2. token[f][s] <= row[s].fence /\ token[g][s] <= row[s].fence
  BY DEF TokensBounded
<1>3. \A x, y, z, w \in Nat : x <= z /\ y = w /\ w > z => x # y
  OBVIOUS
<1>4. CASE token'[f][s] = token[f][s] /\ token'[g][s] = token[g][s]
  <2>1. token[f][s] = token[g][s]
    BY <1>4
  <2>2. token[f][s] = 0
    BY <2>1 DEF TokensDistinct
  <2>3. QED BY <1>4, <2>2
<1>5. CASE token'[f][s] # token[f][s]
  <2>1. f = e /\ token'[f][s] = row'[s].fence /\ row'[s].fence > row[s].fence
    BY <1>5
  <2>2. token'[g][s] = token[g][s]
    BY <2>1
  <2>3. token[g][s] # token'[f][s]
    BY <1>1, <1>2, <1>3, <2>1
  <2>4. QED BY <2>2, <2>3
<1>6. CASE token'[g][s] # token[g][s]
  <2>1. g = e /\ token'[g][s] = row'[s].fence /\ row'[s].fence > row[s].fence
    BY <1>6
  <2>2. token'[f][s] = token[f][s]
    BY <2>1
  <2>3. token[f][s] # token'[g][s]
    BY <1>1, <1>2, <1>3, <2>1
  <2>4. QED BY <2>2, <2>3
<1>7. QED BY <1>4, <1>5, <1>6

\* Granting or freeing scopes whose row lock is free, or held by the
\* execution's own releasing session, preserves the invariant.
LEMMA RowStep ==
    ASSUME LeaseInv, TypeOK', NEW e \in Execs, NEW S \in SUBSET Scopes,
           pc' = [pc EXCEPT ![e] = pc'[e]],
           pc'[e] \notin Proved \cup {"releaseGlobal"},
           \A s \in S : rowLock[s] = Nobody \/ rowLock[s] = Releaser(e),
           \A s \in Scopes : rowLock'[s] = rowLock[s] \/ rowLock[s] = Releaser(e),
           \A s \in Scopes : row'[s].fence >= row[s].fence,
           \A s \in Scopes \ S : row'[s].owner = row[s].owner /\ row'[s].fence = row[s].fence,
           \A f \in Execs, s \in Scopes :
              \/ token'[f][s] = token[f][s]
              \/ f = e /\ s \in S /\ token'[f][s] = row'[s].fence /\ row'[s].fence > row[s].fence
    PROVE  LeaseInv'
<1>0. \A f \in Execs : f # e => pc'[f] = pc[f]
  BY DEF LeaseInv, TypeOK
<1>1. TokensBounded'
  <2> SUFFICES ASSUME NEW f \in Execs, NEW s \in Scopes
               PROVE  token'[f][s] <= row'[s].fence
    BY DEF TokensBounded
  <2>1. token[f][s] \in Nat /\ row[s].fence \in Nat /\ row'[s].fence \in Nat
    BY DEF LeaseInv, TypeOK
  <2>2. token[f][s] <= row[s].fence
    BY DEF LeaseInv, TokensBounded
  <2>3. QED BY <2>1, <2>2
<1>2. TokensDistinct'
  <2>1. TokensBounded /\ TokensDistinct /\ TypeOK
    BY DEF LeaseInv
  <2>2. QED BY <2>1, FreshTokens
<1>3. \A f \in Mutations : pc'[f] \in Proved => GlobalProved(f)'
  <2> SUFFICES ASSUME NEW f \in Mutations, pc'[f] \in Proved PROVE GlobalProved(f)'
    OBVIOUS
  <2>1. f # e /\ pc[f] \in Proved
    BY <1>0
  <2>2. GlobalProved(f)
    BY <2>1 DEF LeaseInv
  <2>3. Global \notin S /\ rowLock'[Global] = Main(f)
    BY <2>2, SessionsDiffer DEF GlobalProved
  <2>4. token'[Host(f)][Global] = token[Host(f)][Global]
    BY <2>3, KeyAndHost
  <2>5. QED BY <2>2, <2>3, <2>4 DEF GlobalProved
<1>4. \A f \in Execs : pc'[f] = "remote" => AccountHeld(f)'
  <2> SUFFICES ASSUME NEW f \in Execs, pc'[f] = "remote" PROVE AccountHeld(f)'
    OBVIOUS
  <2>1. f # e /\ pc[f] = "remote"
    BY <1>0 DEF Proved
  <2>2. AccountHeld(f)
    BY <2>1 DEF LeaseInv
  <2>3. Key(f) \in Scopes /\ Key(f) \notin S /\ rowLock'[Key(f)] = Main(f)
    BY <2>2, SessionsDiffer, KeyAndHost DEF AccountHeld
  <2>4. QED BY <2>2, <2>3 DEF AccountHeld
<1>5. \A f \in Execs : pc'[f] = "releaseGlobal" =>
          rowLock'[Key(f)] = Releaser(f) /\ Standalone(f)
  <2> SUFFICES ASSUME NEW f \in Execs, pc'[f] = "releaseGlobal"
               PROVE  rowLock'[Key(f)] = Releaser(f) /\ Standalone(f)
    OBVIOUS
  <2>1. f # e /\ pc[f] = "releaseGlobal"
    BY <1>0
  <2>2. QED BY <2>1, SessionsDiffer, KeyAndHost DEF LeaseInv
<1>6. QED BY <1>1, <1>2, <1>3, <1>4, <1>5 DEF LeaseInv

\* Ending transactions preserves the invariant if no execution that held row
\* locks in them goes on with what it had proved.
LEMMA DropStep ==
    ASSUME LeaseInv, TypeOK', NEW D \in SUBSET Execs,
           UNCHANGED token,
           \A s \in Scopes : row'[s].owner = row[s].owner /\ row'[s].fence = row[s].fence,
           \A s \in Scopes : rowLock'[s] = rowLock[s]
              \/ \E e \in D : rowLock[s] = Main(e) \/ rowLock[s] = Releaser(e),
           \A e \in D : pc'[e] \notin Proved \cup {"releaseGlobal"},
           \A e \in Execs \ D : pc'[e] = pc[e]
    PROVE  LeaseInv'
<1>1. TokensBounded' BY DEF LeaseInv, TokensBounded
<1>2. TokensDistinct' BY DEF LeaseInv, TokensDistinct
<1>3. \A f \in Mutations : pc'[f] \in Proved => GlobalProved(f)'
  <2> SUFFICES ASSUME NEW f \in Mutations, pc'[f] \in Proved PROVE GlobalProved(f)'
    OBVIOUS
  <2>1. f \notin D /\ GlobalProved(f)
    BY DEF LeaseInv
  <2>2. rowLock'[Global] = Main(f)
    BY <2>1, SessionsDiffer DEF GlobalProved
  <2>3. QED BY <2>1, <2>2 DEF GlobalProved
<1>4. \A f \in Execs : pc'[f] = "remote" => AccountHeld(f)'
  <2> SUFFICES ASSUME NEW f \in Execs, pc'[f] = "remote" PROVE AccountHeld(f)'
    OBVIOUS
  <2>1. f \notin D /\ AccountHeld(f)
    BY DEF LeaseInv, Proved
  <2>2. Key(f) \in Scopes /\ rowLock'[Key(f)] = Main(f)
    BY <2>1, SessionsDiffer, KeyAndHost DEF AccountHeld
  <2>3. QED BY <2>1, <2>2 DEF AccountHeld
<1>5. \A f \in Execs : pc'[f] = "releaseGlobal" =>
          rowLock'[Key(f)] = Releaser(f) /\ Standalone(f)
  <2> SUFFICES ASSUME NEW f \in Execs, pc'[f] = "releaseGlobal"
               PROVE  rowLock'[Key(f)] = Releaser(f) /\ Standalone(f)
    OBVIOUS
  <2>1. f \notin D /\ pc[f] = "releaseGlobal"
    OBVIOUS
  <2>2. QED BY <2>1, SessionsDiffer, KeyAndHost DEF LeaseInv
<1>6. QED BY <1>1, <1>2, <1>3, <1>4, <1>5 DEF LeaseInv

\* Taking a row lock that is free, or already the execution's own, preserves
\* the invariant if what the execution goes on to claim is true.
LEMMA LockStep ==
    ASSUME LeaseInv, TypeOK', NEW e \in Execs, NEW t \in Scopes,
           rowLock[t] \in {Nobody, Main(e)},
           \A s \in Scopes \ {t} : rowLock'[s] = rowLock[s],
           UNCHANGED <<row, token>>,
           \A f \in Execs \ {e} : pc'[f] = pc[f],
           e \in Mutations /\ pc'[e] \in Proved => GlobalProved(e)',
           pc'[e] = "remote" => AccountHeld(e)',
           pc'[e] = "releaseGlobal" => rowLock'[Key(e)] = Releaser(e) /\ Standalone(e)
    PROVE  LeaseInv'
<1>1. TokensBounded' BY DEF LeaseInv, TokensBounded
<1>2. TokensDistinct' BY DEF LeaseInv, TokensDistinct
<1>3. \A f \in Mutations : pc'[f] \in Proved => GlobalProved(f)'
  <2> SUFFICES ASSUME NEW f \in Mutations, pc'[f] \in Proved, f # e
               PROVE  GlobalProved(f)'
    OBVIOUS
  <2>1. GlobalProved(f)
    BY DEF LeaseInv
  <2>2. rowLock'[Global] = Main(f)
    BY <2>1, SessionsDiffer DEF GlobalProved
  <2>3. QED BY <2>1, <2>2 DEF GlobalProved
<1>4. \A f \in Execs : pc'[f] = "remote" => AccountHeld(f)'
  <2> SUFFICES ASSUME NEW f \in Execs, pc'[f] = "remote", f # e
               PROVE  AccountHeld(f)'
    OBVIOUS
  <2>1. AccountHeld(f)
    BY DEF LeaseInv
  <2>2. rowLock'[Key(f)] = Main(f)
    BY <2>1, SessionsDiffer, KeyAndHost DEF AccountHeld
  <2>3. QED BY <2>1, <2>2 DEF AccountHeld
<1>5. \A f \in Execs : pc'[f] = "releaseGlobal" =>
          rowLock'[Key(f)] = Releaser(f) /\ Standalone(f)
  <2> SUFFICES ASSUME NEW f \in Execs, pc'[f] = "releaseGlobal", f # e
               PROVE  rowLock'[Key(f)] = Releaser(f) /\ Standalone(f)
    OBVIOUS
  <2>1. rowLock[Key(f)] = Releaser(f) /\ Standalone(f)
    BY DEF LeaseInv
  <2>2. QED BY <2>1, SessionsDiffer, KeyAndHost
<1>6. QED BY <1>1, <1>2, <1>3, <1>4, <1>5 DEF LeaseInv

\* A Goto moves one execution only.
LEMMA GotoMoves ==
    ASSUME TypeOK, NEW e \in Execs, NEW l, Goto(e, l)
    PROVE  pc'[e] = l /\ (\A f \in Execs \ {e} : pc'[f] = pc[f])
BY DEF TypeOK, Goto

\* A grant writes one row and one token.
LEMMA GrantFields ==
    ASSUME TypeOK, NEW e \in Execs, NEW t \in Scopes, Grant(e, t)
    PROVE  /\ row'[t].owner = e /\ row'[t].fence = row[t].fence + 1
           /\ token'[e][t] = row[t].fence + 1
           /\ \A s \in Scopes \ {t} : row'[s] = row[s]
           /\ \A f \in Execs, s \in Scopes :
                 f # e \/ s # t => token'[f][s] = token[f][s]
BY DEF TypeOK, Grant

\* Freeing keeps every fence, and every row outside its scopes.
LEMMA FreedFields ==
    ASSUME TypeOK, NEW e \in Execs, NEW S
    PROVE  \A s \in Scopes : /\ Freed(e, S)[s].fence = row[s].fence
                             /\ s \notin S => Freed(e, S)[s] = row[s]
BY DEF TypeOK, Freed

\* A grant to an execution that leaves every claim behind keeps the invariant.
LEMMA GrantStep ==
    ASSUME LeaseInv, TypeOK', NEW e \in Execs, NEW t \in Scopes, NEW l,
           Grant(e, t), Free(t), UNCHANGED rowLock, Goto(e, l),
           l \notin Proved \cup {"releaseGlobal"}
    PROVE  LeaseInv'
<1>1. TypeOK BY DEF LeaseInv
<1>2. pc' = [pc EXCEPT ![e] = pc'[e]] /\ pc'[e] = l
  BY <1>1 DEF Goto, TypeOK
<1>3. \A s \in Scopes : row[s].fence \in Nat
  BY <1>1 DEF TypeOK
<1>4. /\ row'[t].fence = row[t].fence + 1 /\ token'[e][t] = row[t].fence + 1
      /\ \A s \in Scopes \ {t} : row'[s] = row[s]
      /\ \A f \in Execs, s \in Scopes : f # e \/ s # t => token'[f][s] = token[f][s]
  BY <1>1, GrantFields
<1>5. row'[t].fence > row[t].fence
  BY <1>3, <1>4
<1>6. \A s \in Scopes : row'[s].fence >= row[s].fence
  BY <1>3, <1>4
<1>7. \A f \in Execs, s \in Scopes :
         \/ token'[f][s] = token[f][s]
         \/ f = e /\ s \in {t} /\ token'[f][s] = row'[s].fence
            /\ row'[s].fence > row[s].fence
  BY <1>4, <1>5
<1>8. /\ {t} \in SUBSET Scopes
      /\ \A s \in {t} : rowLock[s] = Nobody \/ rowLock[s] = Releaser(e)
      /\ \A s \in Scopes : rowLock'[s] = rowLock[s] \/ rowLock[s] = Releaser(e)
  BY DEF Free
<1>9. \A s \in Scopes \ {t} :
         row'[s].owner = row[s].owner /\ row'[s].fence = row[s].fence
  BY <1>4
<1>10. pc'[e] \notin Proved \cup {"releaseGlobal"}
  BY <1>2
<1>11. QED BY ONLY LeaseInv, TypeOK', e \in Execs, <1>2, <1>6, <1>7, <1>8, <1>9, <1>10, RowStep

\* So does freeing scopes that nobody else has locked.
LEMMA FreeStep ==
    ASSUME LeaseInv, TypeOK', NEW e \in Execs, NEW S \in SUBSET Scopes, NEW l,
           row' = Freed(e, S), UNCHANGED token, Goto(e, l),
           l \notin Proved \cup {"releaseGlobal"},
           \A s \in S : rowLock[s] = Nobody \/ rowLock[s] = Releaser(e),
           \A s \in Scopes : rowLock'[s] = rowLock[s] \/ rowLock[s] = Releaser(e)
    PROVE  LeaseInv'
<1>1. TypeOK BY DEF LeaseInv
<1>2. pc' = [pc EXCEPT ![e] = pc'[e]] /\ pc'[e] = l
  BY <1>1 DEF Goto, TypeOK
<1>3. \A s \in Scopes : /\ row'[s].fence = row[s].fence
                        /\ s \notin S => row'[s] = row[s]
  BY <1>1, FreedFields
<1>4. \A s \in Scopes : row'[s].fence >= row[s].fence
  <2>1. \A s \in Scopes : row[s].fence \in Nat
    BY <1>1 DEF TypeOK
  <2>2. QED BY <1>3, <2>1
<1>5. \A s \in Scopes \ S :
         row'[s].owner = row[s].owner /\ row'[s].fence = row[s].fence
  BY <1>3
<1>6. pc'[e] \notin Proved \cup {"releaseGlobal"}
  BY <1>2
<1>7. \A f \in Execs, s \in Scopes :
         \/ token'[f][s] = token[f][s]
         \/ f = e /\ s \in S /\ token'[f][s] = row'[s].fence
            /\ row'[s].fence > row[s].fence
  OBVIOUS
<1>8. QED BY <1>2, <1>4, <1>5, <1>6, <1>7, RowStep

\* An execution that ends one of its two transactions, with all it had proved.
LEMMA EndTransaction ==
    ASSUME LeaseInv, TypeOK', NEW e \in Execs, NEW S \in SUBSET {Main(e), Releaser(e)},
           DropLocks(S), UNCHANGED token,
           \A s \in Scopes : row'[s].owner = row[s].owner /\ row'[s].fence = row[s].fence,
           pc'[e] \notin Proved \cup {"releaseGlobal"},
           \A f \in Execs \ {e} : pc'[f] = pc[f]
    PROVE  LeaseInv'
<1>1. {e} \in SUBSET Execs
  OBVIOUS
<1>2. \A s \in Scopes : rowLock'[s] = rowLock[s]
         \/ \E f \in {e} : rowLock[s] = Main(f) \/ rowLock[s] = Releaser(f)
  BY DEF DropLocks
<1>3. \A f \in {e} : pc'[f] \notin Proved \cup {"releaseGlobal"}
  OBVIOUS
<1>4. QED BY <1>1, <1>2, <1>3, DropStep

LEMMA InvStep ==
    ASSUME LeaseInv, TypeOK', NEW e \in Execs, Step(e)
    PROVE  LeaseInv'
<1> TypeOK BY DEF LeaseInv
<1>0. /\ Key(e) \in Scopes
      /\ \A l : Goto(e, l) => pc'[e] = l /\ (\A f \in Execs \ {e} : pc'[f] = pc[f])
  BY KeyAndHost, GotoMoves
<1>1. CASE Begin(e) BY <1>0, <1>1, QuietStep DEF Begin, Proved
<1>2. CASE SetRedisKey(e) BY <1>0, <1>2, QuietStep DEF SetRedisKey, Proved
<1>3. CASE GiveUpRedisKey(e) BY <1>0, <1>3, QuietStep DEF GiveUpRedisKey, Proved
<1>4. CASE VerifyBeforeClaim(e) BY <1>0, <1>4, QuietStep DEF VerifyBeforeClaim, Proved
<1>5. CASE ClaimGeneration(e)
  <2>1. CASE LeaseIsTaken(e, Key(e))
    BY <1>0, <1>5, <2>1, QuietStep DEF ClaimGeneration, Proved
  <2>2. CASE ~LeaseIsTaken(e, Key(e))
    <3> DEFINE l == IF e \in Cycles THEN "running" ELSE "body"
    <3>1. l \notin Proved \cup {"releaseGlobal"}
      BY DEF Proved
    <3>2. Grant(e, Key(e)) /\ Free(Key(e)) /\ UNCHANGED rowLock /\ Goto(e, l)
      BY <1>5, <2>2 DEF ClaimGeneration
    <3>3. QED BY <1>0, <3>1, <3>2, GrantStep
  <2>3. QED BY <2>1, <2>2
<1>6. CASE ClaimFails(e) BY <1>0, <1>6, QuietStep DEF ClaimFails, Proved
<1>7. CASE UndoRedisKey(e) BY <1>0, <1>7, QuietStep DEF UndoRedisKey, Proved
<1>8. CASE StartAssert(e) BY <1>0, <1>8, QuietStep DEF StartAssert, Proved
<1>9. CASE BodyRaises(e) BY <1>0, <1>9, QuietStep DEF BodyRaises, Proved
<1>10. CASE VerifyAccount(e) BY <1>0, <1>10, QuietStep DEF VerifyAccount, Proved
<1>11. CASE CommitBody(e)
  <2>1. CASE AccountProved(e)
    <3>1. UNCHANGED token /\ DropLocks({Main(e)}) /\ Goto(e, "release")
      BY <1>11, <2>1 DEF CommitBody
    <3>2. \A s \in Scopes : row'[s].owner = row[s].owner /\ row'[s].fence = row[s].fence
      <4> DEFINE proved == {Key(e)} \cup (HeldIn(Main(e)) \cap renewed)
      <4>1. row' = [s \in Scopes |->
                      IF s \in proved THEN Lease(row[s].owner, row[s].fence, TRUE)
                                      ELSE row[s]]
        BY <1>11, <2>1 DEF CommitBody
      <4> HIDE DEF proved
      <4>2. QED BY <4>1
    <3>3. QED BY <1>0, <3>1, <3>2, EndTransaction DEF Proved
  <2>2. CASE ~AccountProved(e)
    <3>1. rowLock[Key(e)] \in {Nobody, Main(e)}
      BY <1>11 DEF CommitBody
    <3>2. /\ \A s \in Scopes \ {Key(e)} : rowLock'[s] = rowLock[s]
          /\ UNCHANGED <<row, token>>
      BY <1>11, <2>2 DEF CommitBody, TypeOK
    <3>3. pc'[e] = "raised" /\ \A f \in Execs \ {e} : pc'[f] = pc[f]
      BY <1>0, <1>11, <2>2 DEF CommitBody
    <3>4. QED BY <1>0, <3>1, <3>2, <3>3, LockStep DEF Proved
  <2>3. QED BY <2>1, <2>2
<1>12. CASE ProofLockWaitFails(e)
  <2>1. CASE UNCHANGED <<rowLock, renewed>>
    BY <1>0, <1>12, <2>1, QuietStep DEF ProofLockWaitFails, Proved
  <2>2. CASE DropLocks({Main(e)})
    BY <1>0, <1>12, <2>2, EndTransaction DEF ProofLockWaitFails, Proved
  <2>3. QED BY <1>12, <2>1, <2>2 DEF ProofLockWaitFails
<1>13. CASE HandleRaise(e)
  <2>1. CASE e \in Syncs
    BY <1>0, <1>13, <2>1, EndTransaction DEF HandleRaise, Proved
  <2>2. CASE e \notin Syncs
    BY <1>0, <1>13, <2>2, QuietStep DEF HandleRaise, Proved
  <2>3. QED BY <2>1, <2>2
<1>14. CASE ReleaseAccount(e)
  <2>1. CASE Standalone(e)
    <3>1. /\ rowLock[Key(e)] \in {Nobody, Main(e)}
          /\ rowLock' = [rowLock EXCEPT ![Key(e)] = Releaser(e)]
          /\ UNCHANGED <<row, token>>
      BY <1>14, <2>1 DEF ReleaseAccount, Free
    <3>2. /\ rowLock'[Key(e)] = Releaser(e)
          /\ \A s \in Scopes \ {Key(e)} : rowLock'[s] = rowLock[s]
      BY <1>0, <3>1 DEF TypeOK
    <3>3. pc'[e] = "releaseGlobal" /\ \A f \in Execs \ {e} : pc'[f] = pc[f]
      BY <1>0, <1>14, <2>1 DEF ReleaseAccount
    <3>4. QED BY <1>0, <2>1, <3>1, <3>2, <3>3, LockStep DEF Proved
  <2>2. CASE ~Standalone(e)
    <3>1. /\ row' = Freed(e, {Key(e)}) /\ UNCHANGED token /\ UNCHANGED rowLock
          /\ Goto(e, "unlock") /\ rowLock[Key(e)] = Nobody
      BY <1>14, <2>2 DEF ReleaseAccount, Free
    <3>2. {Key(e)} \in SUBSET Scopes /\ "unlock" \notin Proved \cup {"releaseGlobal"}
      BY <1>0 DEF Proved
    <3>3. QED BY <3>1, <3>2, FreeStep
  <2>3. QED BY <2>1, <2>2
<1>15. CASE ReleaseLockWaitFails(e)
  BY <1>0, <1>15, EndTransaction DEF ReleaseLockWaitFails, Proved
<1>16. CASE Unlock(e) BY <1>0, <1>16, QuietStep DEF Unlock, Proved
<1>17. QED
  BY <1>1, <1>2, <1>3, <1>4, <1>5, <1>6, <1>7, <1>8, <1>9, <1>10, <1>11,
     <1>12, <1>13, <1>14, <1>15, <1>16 DEF Step

LEMMA InvMutationStep ==
    ASSUME LeaseInv, TypeOK', NEW m \in Mutations, MutationStep(m)
    PROVE  LeaseInv'
<1> TypeOK BY DEF LeaseInv
<1>0. /\ m \in Execs /\ Global \in Scopes /\ Key(m) \in Scopes /\ Key(m) # Global
      /\ \A l : Goto(m, l) => pc'[m] = l /\ (\A f \in Execs \ {m} : pc'[f] = pc[f])
  BY KeyAndHost, KeyOfAccountUser, GotoMoves
<1>1. CASE AcquireGlobal(m)
  <2>1. CASE LeaseIsTaken(m, Global)
    BY <1>0, <1>1, <2>1, QuietStep DEF AcquireGlobal, Proved
  <2>2. CASE ~LeaseIsTaken(m, Global)
    <3>1. /\ Grant(m, Global) /\ Free(Global) /\ UNCHANGED rowLock
          /\ Goto(m, "lock") /\ "lock" \notin Proved \cup {"releaseGlobal"}
      BY <1>1, <2>2 DEF AcquireGlobal, Proved
    <3>2. QED BY <1>0, <3>1, GrantStep
  <2>3. QED BY <2>1, <2>2
<1>2. CASE ReproveGlobal(m) BY <1>0, <1>2, QuietStep DEF ReproveGlobal, Proved
<1>3. CASE DropGlobal(m)
  <2>1. CASE row' = row
    BY <1>0, <1>3, <2>1, QuietStep DEF DropGlobal, Proved
  <2>2. CASE row' # row
    <3>1. /\ row' = Freed(m, {Global}) /\ UNCHANGED token /\ UNCHANGED rowLock
          /\ Goto(m, "ended") /\ rowLock[Global] = Nobody
      BY <1>3, <2>2 DEF DropGlobal, Free
    <3>2. {Global} \in SUBSET Scopes /\ "ended" \notin Proved \cup {"releaseGlobal"}
      BY <1>0 DEF Proved
    <3>3. QED BY <1>0, <3>1, <3>2, FreeStep
  <2>3. QED BY <2>1, <2>2
<1>4. CASE VerifyGlobal(m) BY <1>0, <1>4, QuietStep DEF VerifyGlobal, Proved
<1>5. CASE ProveGlobal(m)
  <2>1. /\ rowLock[Global] \in {Nobody, Main(m)}
        /\ rowLock' = [rowLock EXCEPT ![Global] = Main(m)]
        /\ UNCHANGED <<row, token>>
        /\ pc'[m] \in {"verifyAccount", "raised"}
        /\ pc'[m] = "verifyAccount" => Owns(Host(m), Global, token[Host(m)][Global])
        /\ \A f \in Execs \ {m} : pc'[f] = pc[f]
    BY <1>0, <1>5 DEF ProveGlobal, LockForUpdate
  <2>2. /\ rowLock'[Global] = Main(m)
        /\ \A s \in Scopes \ {Global} : rowLock'[s] = rowLock[s]
    BY <1>0, <2>1 DEF TypeOK
  <2>3. pc'[m] \in Proved => GlobalProved(m)'
    BY <2>1, <2>2 DEF Proved, GlobalProved, Owns
  <2>4. QED BY <1>0, <2>1, <2>2, <2>3, LockStep
<1>6. CASE ProveAccount(m)
  <2>1. /\ rowLock[Key(m)] \in {Nobody, Main(m)}
        /\ rowLock' = [rowLock EXCEPT ![Key(m)] = Main(m)]
        /\ UNCHANGED <<row, token>>
        /\ pc[m] = "proveAccount" /\ pc'[m] \in {"remote", "raised"}
        /\ pc'[m] = "remote" => Owns(m, Key(m), token[m][Key(m)])
        /\ \A f \in Execs \ {m} : pc'[f] = pc[f]
    BY <1>0, <1>6 DEF ProveAccount, LockForUpdate, AccountProved
  <2>2. /\ rowLock'[Key(m)] = Main(m)
        /\ \A s \in Scopes \ {Key(m)} : rowLock'[s] = rowLock[s]
    BY <1>0, <2>1 DEF TypeOK
  <2>3. GlobalProved(m)
    BY <2>1 DEF LeaseInv, Proved
  <2>4. GlobalProved(m)'
    BY <1>0, <2>1, <2>2, <2>3 DEF GlobalProved
  <2>5. pc'[m] = "remote" => AccountHeld(m)'
    BY <2>1, <2>2 DEF AccountHeld, Owns
  <2>6. QED BY <1>0, <2>1, <2>2, <2>4, <2>5, LockStep
<1>7. CASE RemoteAnswers(m) BY <1>0, <1>7, QuietStep DEF RemoteAnswers, Proved
<1>8. CASE ReleaseBoth(m)
  <2>1. /\ row' = Freed(m, {Key(m), Global}) /\ UNCHANGED token
        /\ Goto(m, "unlock") /\ rowLock[Global] = Nobody
        /\ rowLock[Key(m)] = Releaser(m)
    BY <1>0, <1>8 DEF ReleaseBoth, Free, LeaseInv
  <2>2. /\ {Key(m), Global} \in SUBSET Scopes
        /\ "unlock" \notin Proved \cup {"releaseGlobal"}
        /\ \A s \in {Key(m), Global} : rowLock[s] = Nobody \/ rowLock[s] = Releaser(m)
    BY <1>0, <2>1 DEF Proved
  <2>3. \A s \in Scopes : rowLock'[s] = rowLock[s] \/ rowLock[s] = Releaser(m)
    BY <1>8 DEF ReleaseBoth, DropLocks
  <2>4. QED BY <1>0, <2>1, <2>2, <2>3, FreeStep
<1>9. CASE Rollback(m)
  BY <1>0, <1>9, EndTransaction DEF Rollback, Proved
<1>10. QED
  BY <1>1, <1>2, <1>3, <1>4, <1>5, <1>6, <1>7, <1>8, <1>9 DEF MutationStep

LEMMA InvEnvironment ==
    ASSUME LeaseInv, TypeOK', Environment
    PROVE  LeaseInv'
<1> TypeOK BY DEF LeaseInv
<1>1. ASSUME NEW s \in Scopes, RedisKeyExpires(s)
      PROVE  LeaseInv'
  BY <1>1, QuietStep DEF RedisKeyExpires
<1>2. ASSUME NEW s \in Scopes, LeaseExpires(s)
      PROVE  LeaseInv'
  <2>1. \A t \in Scopes : row'[t].owner = row[t].owner /\ row'[t].fence = row[t].fence
    <3>1. row' = [row EXCEPT ![s] = Lease(row[s].owner, row[s].fence, FALSE)]
          \/ row' = row
      BY <1>2 DEF LeaseExpires
    <3>2. QED BY <3>1 DEF TypeOK
  <2>2. QED BY <1>2, <2>1, QuietStep DEF LeaseExpires
<1>3. ASSUME NEW e \in Execs, HeartbeatFails(e)
      PROVE  LeaseInv'
  BY <1>3, QuietStep DEF HeartbeatFails
<1>4. ASSUME NEW h \in Execs, Crash(h)
      PROVE  LeaseInv'
  <2> DEFINE dead == {e \in Execs : Host(e) = h /\ Active(e)}
  <2>1. /\ pc' = [e \in Execs |-> IF e \in dead THEN "crashed" ELSE pc[e]]
        /\ DropLocks({Main(e) : e \in dead} \cup {Releaser(e) : e \in dead})
        /\ UNCHANGED <<row, token>>
    BY <1>4 DEF Crash
  <2> dead \in SUBSET Execs
    OBVIOUS
  <2> HIDE DEF dead
  <2>2. \A s \in Scopes : rowLock'[s] = rowLock[s]
           \/ \E e \in dead : rowLock[s] = Main(e) \/ rowLock[s] = Releaser(e)
    BY <2>1 DEF DropLocks
  <2>3. \A e \in dead : pc'[e] \notin Proved \cup {"releaseGlobal"}
    BY <2>1 DEF Proved
  <2>4. \A e \in Execs \ dead : pc'[e] = pc[e]
    BY <2>1
  <2>5. QED BY <2>1, <2>2, <2>3, <2>4, DropStep
<1>5. QED BY <1>1, <1>2, <1>3, <1>4 DEF Environment

LEMMA LeaseInvNext == LeaseInv /\ [Next]_vars => LeaseInv'
<1> SUFFICES ASSUME LeaseInv, [Next]_vars PROVE LeaseInv'
  OBVIOUS
<1> TypeOK BY DEF LeaseInv
<1> TypeOK' BY TypeNext
<1>1. ASSUME NEW c \in Cycles, FinishCycle(c)
      PROVE  LeaseInv'
  <2>0. \A l : Goto(c, l) => pc'[c] = l /\ (\A f \in Execs \ {c} : pc'[f] = pc[f])
    BY GotoMoves
  <2>1. CASE row' = row
    BY <1>1, <2>0, <2>1, QuietStep DEF FinishCycle, Proved
  <2>2. CASE row' # row
    <3>1. /\ row' = Freed(c, {Global}) /\ UNCHANGED token /\ UNCHANGED rowLock
          /\ Goto(c, "unlock") /\ rowLock[Global] = Nobody
      BY <1>1, <2>2 DEF FinishCycle, Free
    <3>2. {Global} \in SUBSET Scopes /\ "unlock" \notin Proved \cup {"releaseGlobal"}
      BY DEF Proved
    <3>3. QED BY <3>1, <3>2, FreeStep
  <2>3. QED BY <2>1, <2>2
<1>2. CASE UNCHANGED vars
  BY <1>2, QuietStep DEF vars
<1>3. QED
  BY <1>1, <1>2, InvStep, InvMutationStep, InvEnvironment DEF Next

\* The inductive invariant holds in every reachable state.
THEOREM LeaseInvariant == Spec => []LeaseInv
BY LeaseInvInit, LeaseInvNext, PTL DEF Spec

\* No two executions are ever granted the same generation of a scope.
THEOREM DistinctTokens == Spec => []TokensDistinct
<1>1. LeaseInv => TokensDistinct
  BY DEF LeaseInv
<1>2. QED BY <1>1, LeaseInvariant, PTL

\* While a TikTok call is in flight, both of its generations are the newest.
THEOREM RemoteOwnership == Spec => []RemoteOwnsBothScopes
<1>1. LeaseInv => RemoteOwnsBothScopes
  <2> SUFFICES ASSUME LeaseInv, NEW e \in Execs, pc[e] = "remote"
               PROVE  /\ Owns(e, Key(e), token[e][Key(e)])
                      /\ Owns(Host(e), Global, token[Host(e)][Global])
    BY DEF RemoteOwnsBothScopes
  <2>1. AccountHeld(e)
    BY DEF LeaseInv
  <2>2. GlobalProved(e)
    BY <2>1 DEF LeaseInv, AccountHeld, Proved
  <2>3. QED BY <2>1, <2>2 DEF AccountHeld, GlobalProved, Owns
<1>2. QED BY <1>1, LeaseInvariant, PTL

\* Official mutations are serialized across accounts, cycles and operators.
THEOREM SerialRemoteCalls == Spec => []RemoteIsSerial
<1>1. LeaseInv => RemoteIsSerial
  <2> SUFFICES ASSUME LeaseInv, NEW e \in Execs, NEW f \in Execs,
                      pc[e] = "remote", pc[f] = "remote"
               PROVE  e = f
    BY DEF RemoteIsSerial
  <2>1. e \in Mutations /\ f \in Mutations
    BY DEF LeaseInv, AccountHeld
  <2>2. rowLock[Global] = Main(e) /\ rowLock[Global] = Main(f)
    BY <2>1 DEF LeaseInv, GlobalProved, Proved
  <2>3. QED BY <2>2, SessionsDiffer
<1>2. QED BY <1>1, LeaseInvariant, PTL

-----------------------------------------------------------------------------
(***************************************************************************)
(* Refinement.  The fences of the account rows and the facts written under *)
(* them move as FencedGenerations says.                                    *)
(***************************************************************************)
Fences == [a \in Accounts |-> row[a].fence]

\* What one step does to them.
FencesStep ==
    \/ Fences' = Fences /\ written' = written
    \/ \E a \in Accounts : Generations!Grant(a)
    \/ \E a \in Accounts : Generations!Write(a)

LEMMA FencesKept ==
    ASSUME \A s \in Scopes : row'[s].fence = row[s].fence, UNCHANGED written
    PROVE  FencesStep
BY DEF FencesStep, Fences

LEMMA FreedStep ==
    ASSUME TypeOK, NEW e \in Execs, NEW S, row' = Freed(e, S), UNCHANGED written
    PROVE  FencesStep
BY FreedFields, FencesKept

LEMMA GrantedStep ==
    ASSUME TypeOK, NEW e \in Execs, NEW s \in Scopes, Grant(e, s), UNCHANGED written
    PROVE  FencesStep
<1>1. row'[s].fence = row[s].fence + 1 /\ \A t \in Scopes \ {s} : row'[t] = row[t]
  BY GrantFields
<1>2. CASE s = Global
  BY <1>1, <1>2 DEF FencesStep, Fences
<1>3. CASE s \in Accounts
  <2>1. Fences' = [Fences EXCEPT ![s] = Fences[s] + 1]
    BY <1>1, <1>3 DEF Fences
  <2>2. Generations!Grant(s)
    BY <1>3, <2>1 DEF Generations!Grant, Fences
  <2>3. QED BY <1>3, <2>2 DEF FencesStep
<1>4. QED BY <1>2, <1>3

LEMMA FencesOfStep ==
    ASSUME TypeOK, NEW e \in Execs, Step(e)
    PROVE  FencesStep
<1> USE FencesKept
<1>1. CASE UNCHANGED <<row, written>> BY <1>1
<1>2. CASE ClaimGeneration(e)
  BY <1>1, <1>2, GrantedStep, KeyAndHost DEF ClaimGeneration
<1>3. CASE CommitBody(e)
  <2>1. CASE AccountProved(e)
    <3> DEFINE proved == {Key(e)} \cup (HeldIn(Main(e)) \cap renewed)
    <3>1. row' = [s \in Scopes |->
                    IF s \in proved THEN Lease(row[s].owner, row[s].fence, TRUE)
                                    ELSE row[s]]
      BY <1>3, <2>1 DEF CommitBody
    <3> HIDE DEF proved
    <3>2. \A s \in Scopes : row'[s].fence = row[s].fence
      BY <3>1
    <3>3. Fences' = Fences
      BY <3>2 DEF Fences
    <3>4. e \in Mutations \cup Syncs /\ Key(e) \in Accounts
      BY <1>3, KeyOfAccountUser DEF CommitBody, TypeOK
    <3>5. written' = [written EXCEPT ![Key(e)] = row[Key(e)].fence]
      BY <1>3, <2>1 DEF CommitBody, AccountProved, Owns
    <3>6. Generations!Write(Key(e))
      BY <3>3, <3>4, <3>5 DEF Generations!Write, Fences
    <3>7. QED BY <3>4, <3>6 DEF FencesStep
  <2>2. CASE ~AccountProved(e)
    BY <1>1, <1>3, <2>2 DEF CommitBody
  <2>3. QED BY <2>1, <2>2
<1>4. CASE ReleaseAccount(e)
  BY <1>1, <1>4, FreedStep DEF ReleaseAccount
<1>5. QED
  BY <1>1, <1>2, <1>3, <1>4
  DEF Step, Begin, SetRedisKey, GiveUpRedisKey, VerifyBeforeClaim,
      ClaimFails, UndoRedisKey, StartAssert, BodyRaises, VerifyAccount,
      ProofLockWaitFails, HandleRaise, ReleaseLockWaitFails, Unlock

LEMMA FencesOfMutationStep ==
    ASSUME TypeOK, NEW m \in Mutations, MutationStep(m)
    PROVE  FencesStep
<1> USE FencesKept
<1>0. m \in Execs /\ Global \in Scopes
  OBVIOUS
<1>1. CASE UNCHANGED <<row, written>> BY <1>1
<1>2. CASE AcquireGlobal(m)
  BY <1>0, <1>1, <1>2, GrantedStep DEF AcquireGlobal
<1>3. CASE DropGlobal(m)
  BY <1>0, <1>1, <1>3, FreedStep DEF DropGlobal
<1>4. CASE ReleaseBoth(m)
  BY <1>0, <1>4, FreedStep DEF ReleaseBoth
<1>5. QED
  BY <1>1, <1>2, <1>3, <1>4
  DEF MutationStep, ReproveGlobal, VerifyGlobal, ProveGlobal, ProveAccount,
      RemoteAnswers, Rollback

LEMMA FencesOfEnvironment ==
    ASSUME TypeOK, Environment
    PROVE  FencesStep
<1> USE FencesKept
<1>1. CASE UNCHANGED <<row, written>> BY <1>1
<1>2. ASSUME NEW s \in Scopes, LeaseExpires(s)
      PROVE  FencesStep
  <2>1. \/ row' = [row EXCEPT ![s] = Lease(row[s].owner, row[s].fence, FALSE)]
        \/ row' = row
    BY <1>2 DEF LeaseExpires
  <2>2. \A t \in Scopes : row'[t].fence = row[t].fence
    BY <2>1 DEF TypeOK
  <2>3. QED BY <1>2, <2>2 DEF LeaseExpires
<1>3. QED
  BY <1>1, <1>2 DEF Environment, RedisKeyExpires, HeartbeatFails, Crash

LEMMA FencesOfNext == TypeOK /\ [Next]_vars => FencesStep
<1> SUFFICES ASSUME TypeOK, [Next]_vars PROVE FencesStep
  OBVIOUS
<1>1. ASSUME NEW c \in Cycles, FinishCycle(c)
      PROVE  FencesStep
  <2>1. row' = Freed(c, {Global}) \/ row' = row
    BY <1>1 DEF FinishCycle
  <2>2. QED BY <1>1, <2>1, FreedStep, FencesKept DEF FinishCycle
<1>2. CASE UNCHANGED vars
  BY <1>2, FencesKept DEF vars
<1>3. QED
  BY <1>1, <1>2, FencesOfStep, FencesOfMutationStep, FencesOfEnvironment DEF Next

\* The lease rows implement the abstract sequence of fenced generations.
THEOREM Refinement == Spec => ImplementsFencedGenerations
<1>1. Init => Generations!Init
  BY DEF Init, Generations!Init
<1>2. TypeOK /\ [Next]_vars => [Generations!Next]_<<Fences, written>>
  BY FencesOfNext DEF FencesStep, Generations!Next
<1>3. QED
  BY <1>1, <1>2, TypeCorrect, PTL
  DEF Spec, ImplementsFencedGenerations, Generations!Spec, Fences

\* Facts are never newer than the newest generation of their account.
WrittenBounded == \A a \in Accounts : written[a] <= row[a].fence

LEMMA WrittenStep ==
    ASSUME TypeOK, TypeOK', WrittenBounded, [Next]_vars
    PROVE  /\ WrittenBounded'
           /\ \A a \in Accounts : written'[a] >= written[a]
<1>1. \A a \in Accounts : /\ written[a] \in Nat /\ written'[a] \in Nat
                          /\ row[a].fence \in Nat /\ row'[a].fence \in Nat
                          /\ written[a] <= row[a].fence
  BY DEF TypeOK, WrittenBounded
<1>2. \A a \in Accounts : /\ Fences[a] = row[a].fence
                          /\ Fences'[a] = row'[a].fence
  BY DEF Fences
<1>3. FencesStep
  BY FencesOfNext
<1>4. CASE Fences' = Fences /\ written' = written
  BY <1>1, <1>2, <1>4 DEF WrittenBounded
<1>5. ASSUME NEW a \in Accounts, Generations!Grant(a)
      PROVE  /\ WrittenBounded'
             /\ \A b \in Accounts : written'[b] >= written[b]
  <2>1. Fences' = [Fences EXCEPT ![a] = Fences[a] + 1] /\ written' = written
    BY <1>5 DEF Generations!Grant, Fences
  <2>2. \A b \in Accounts : row'[b].fence = row[b].fence
                           \/ row'[b].fence = row[b].fence + 1
    BY <1>2, <2>1 DEF Fences
  <2>3. QED BY <1>1, <2>1, <2>2 DEF WrittenBounded
<1>6. ASSUME NEW a \in Accounts, Generations!Write(a)
      PROVE  /\ WrittenBounded'
             /\ \A b \in Accounts : written'[b] >= written[b]
  <2>1. Fences' = Fences /\ written' = [written EXCEPT ![a] = Fences[a]]
    BY <1>6 DEF Generations!Write, Fences
  <2>2. \A b \in Accounts : row'[b].fence = row[b].fence
    BY <1>2, <2>1
  <2>3. \A b \in Accounts : written'[b] = written[b] \/ written'[b] = row[b].fence
    BY <1>2, <2>1 DEF TypeOK
  <2>4. QED BY <1>1, <2>2, <2>3 DEF WrittenBounded
<1>7. QED BY <1>3, <1>4, <1>5, <1>6 DEF FencesStep

\* A superseded execution can never overwrite newer facts of its account.
THEOREM WritesGrow == Spec => WritesNeverRegress
<1>1. Init => WrittenBounded
  BY DEF Init, WrittenBounded
<1>2. TypeOK /\ TypeOK' /\ WrittenBounded /\ [Next]_vars => WrittenBounded'
  BY WrittenStep
<1>3. TypeOK /\ TypeOK' /\ WrittenBounded /\ [Next]_vars
         => [\A a \in Accounts : written'[a] >= written[a]]_vars
  BY WrittenStep
<1>4. QED
  BY <1>1, <1>2, <1>3, TypeCorrect, PTL DEF Spec, WritesNeverRegress

-----------------------------------------------------------------------------
(***************************************************************************)
(* Release.  Only the owner of a generation gives it back, in its own step.*)
(***************************************************************************)
OwnersStep ==
    \A s \in Scopes :
        row[s].owner # Nobody /\ row'[s].owner = Nobody
            => pc'[row[s].owner] # pc[row[s].owner]

LEMMA OwnersKept ==
    ASSUME \A s \in Scopes : row'[s].owner = row[s].owner
    PROVE  OwnersStep
BY DEF OwnersStep

LEMMA OwnersOfFreed ==
    ASSUME TypeOK, NEW e \in Execs, NEW S, row' = Freed(e, S), pc'[e] # pc[e]
    PROVE  OwnersStep
<1>1. \A s \in Scopes : row'[s] = row[s] \/ row[s].owner = e
  BY DEF TypeOK, Freed, Owns
<1>2. QED BY <1>1 DEF OwnersStep

LEMMA OwnersOfGrant ==
    ASSUME TypeOK, NEW e \in Execs, NEW s \in Scopes, Grant(e, s)
    PROVE  OwnersStep
<1>1. row'[s].owner = e /\ \A t \in Scopes \ {s} : row'[t] = row[t]
  BY GrantFields
<1>2. e # Nobody
  OBVIOUS
<1>3. QED BY <1>1, <1>2 DEF OwnersStep

LEMMA OwnersOfStep ==
    ASSUME TypeOK, NEW e \in Execs, Step(e)
    PROVE  OwnersStep
<1> USE OwnersKept
<1>1. CASE UNCHANGED row BY <1>1
<1>2. CASE ClaimGeneration(e)
  BY <1>1, <1>2, OwnersOfGrant, KeyAndHost DEF ClaimGeneration
<1>3. CASE CommitBody(e)
  <2>1. CASE AccountProved(e)
    <3> DEFINE proved == {Key(e)} \cup (HeldIn(Main(e)) \cap renewed)
    <3>1. row' = [s \in Scopes |->
                    IF s \in proved THEN Lease(row[s].owner, row[s].fence, TRUE)
                                    ELSE row[s]]
      BY <1>3, <2>1 DEF CommitBody
    <3> HIDE DEF proved
    <3>2. QED BY <3>1
  <2>2. CASE ~AccountProved(e)
    BY <1>1, <1>3, <2>2 DEF CommitBody
  <2>3. QED BY <2>1, <2>2
<1>4. CASE ReleaseAccount(e)
  <2>1. pc'[e] # pc[e]
    BY <1>4 DEF ReleaseAccount, Goto, TypeOK
  <2>2. QED BY <1>1, <1>4, <2>1, OwnersOfFreed DEF ReleaseAccount
<1>5. QED
  BY <1>1, <1>2, <1>3, <1>4
  DEF Step, Begin, SetRedisKey, GiveUpRedisKey, VerifyBeforeClaim,
      ClaimFails, UndoRedisKey, StartAssert, BodyRaises, VerifyAccount,
      ProofLockWaitFails, HandleRaise, ReleaseLockWaitFails, Unlock

LEMMA OwnersOfMutationStep ==
    ASSUME TypeOK, NEW m \in Mutations, MutationStep(m)
    PROVE  OwnersStep
<1> USE OwnersKept
<1>0. m \in Execs /\ Global \in Scopes
  OBVIOUS
<1>1. CASE UNCHANGED row BY <1>1
<1>2. CASE AcquireGlobal(m)
  BY <1>0, <1>1, <1>2, OwnersOfGrant DEF AcquireGlobal
<1>3. CASE DropGlobal(m)
  <2>1. pc'[m] # pc[m]
    BY <1>0, <1>3 DEF DropGlobal, Goto, TypeOK
  <2>2. QED BY <1>0, <1>1, <1>3, <2>1, OwnersOfFreed DEF DropGlobal
<1>4. CASE ReleaseBoth(m)
  <2>1. pc'[m] # pc[m]
    BY <1>0, <1>4 DEF ReleaseBoth, Goto, TypeOK
  <2>2. QED BY <1>0, <1>4, <2>1, OwnersOfFreed DEF ReleaseBoth
<1>5. QED
  BY <1>1, <1>2, <1>3, <1>4
  DEF MutationStep, ReproveGlobal, VerifyGlobal, ProveGlobal, ProveAccount,
      RemoteAnswers, Rollback

LEMMA OwnersOfNext == TypeOK /\ [Next]_vars => OwnersStep
<1> SUFFICES ASSUME TypeOK, [Next]_vars PROVE OwnersStep
  OBVIOUS
<1>1. CASE UNCHANGED row BY <1>1, OwnersKept
<1>2. ASSUME NEW s \in Scopes, LeaseExpires(s)
      PROVE  OwnersStep
  <2>1. \/ row' = [row EXCEPT ![s] = Lease(row[s].owner, row[s].fence, FALSE)]
        \/ row' = row
    BY <1>2 DEF LeaseExpires
  <2>2. QED BY <2>1, OwnersKept DEF TypeOK
<1>3. ASSUME NEW c \in Cycles, FinishCycle(c)
      PROVE  OwnersStep
  <2>1. pc'[c] # pc[c]
    BY <1>3 DEF FinishCycle, Goto, TypeOK
  <2>2. row' = Freed(c, {Global}) \/ row' = row
    BY <1>3 DEF FinishCycle
  <2>3. QED BY <1>1, <2>1, <2>2, OwnersOfFreed
<1>4. QED
  BY <1>1, <1>2, <1>3, OwnersOfStep, OwnersOfMutationStep
  DEF Next, Environment, RedisKeyExpires, HeartbeatFails, Crash, vars

\* A release never frees a generation another execution has taken over.
THEOREM ExactRelease == Spec => ReleaseIsExact
<1>1. TypeOK /\ [Next]_vars
         => [\A s \in Scopes : row[s].owner # Nobody /\ row'[s].owner = Nobody
                => pc'[row[s].owner] # pc[row[s].owner]]_vars
  BY OwnersOfNext DEF OwnersStep
<1>2. QED BY <1>1, TypeCorrect, PTL DEF Spec, ReleaseIsExact

-----------------------------------------------------------------------------
(***************************************************************************)
(* The heartbeat.  A mutation or sync that has not taken its Redis key yet *)
(* or has given it back has a free lock object.                            *)
(***************************************************************************)
Quiet == {"idle", "lock", "dropGlobal", "rollback"} \cup Terminal

HeartbeatInv == \A e \in Mutations \cup Syncs : pc[e] \in Quiet => lock[e] = "free"

\* Losing a key leaves free lock objects free and moves nobody.
LEMMA MarkLostKeeps ==
    ASSUME TypeOK, NEW h \in Execs, MarkLost(h), NEW f \in Execs
    PROVE  lock[f] = "free" => lock'[f] = "free"
BY DEF TypeOK, MarkLost

\* Releasing a key frees one lock object.
LEMMA ReleaseFrees ==
    ASSUME TypeOK, NEW e \in Execs, ReleaseRedisKey(e)
    PROVE  lock'[e] = "free" /\ \A f \in Execs \ {e} : lock'[f] = lock[f]
BY DEF TypeOK, ReleaseRedisKey, FreeRedisKey, AbandonRedisKey

\* A step that moves one execution, and frees it if it becomes quiet.
LEMMA HeartbeatStep ==
    ASSUME TypeOK, HeartbeatInv, NEW e \in Execs, NEW l, Goto(e, l),
           \A f \in Execs : lock[f] = "free" /\ (f # e \/ l \in Quiet) => lock'[f] = "free",
           e \in Mutations \cup Syncs /\ l \in Quiet => pc[e] \in Quiet \/ lock'[e] = "free"
    PROVE  HeartbeatInv'
<1>1. pc'[e] = l /\ \A f \in Execs \ {e} : pc'[f] = pc[f]
  BY GotoMoves
<1>2. QED BY <1>1 DEF HeartbeatInv

LEMMA HeartbeatOfStep ==
    ASSUME TypeOK, HeartbeatInv, NEW e \in Execs, Step(e)
    PROVE  HeartbeatInv'
<1>1. CASE SetRedisKey(e)
  <2>1. CASE UNCHANGED <<lock, pc>>
    BY <2>1 DEF HeartbeatInv
  <2>2. CASE ~UNCHANGED <<lock, pc>>
    <3>1. PICK l \in {"claim", "verify"} : Goto(e, l)
      BY <1>1, <2>2 DEF SetRedisKey
    <3>2. l \notin Quiet /\ \A f \in Execs \ {e} : lock'[f] = lock[f]
      BY <1>1, <2>2 DEF SetRedisKey, Quiet, Terminal, TypeOK
    <3>3. QED BY <3>1, <3>2, HeartbeatStep
  <2>3. QED BY <2>1, <2>2
<1>2. CASE VerifyBeforeClaim(e)
  <2>1. PICK l \in {"claim", "undo"} : Goto(e, l)
    BY <1>2 DEF VerifyBeforeClaim
  <2>2. \A f \in Execs : lock[f] = "free" => lock'[f] = "free"
    BY <1>2, MarkLostKeeps DEF VerifyBeforeClaim
  <2>3. l \notin Quiet
    BY <2>1 DEF Quiet, Terminal
  <2>4. QED BY <2>1, <2>2, <2>3, HeartbeatStep
<1>3. CASE VerifyAccount(e)
  <2>1. PICK l \in {"proveAccount", "raised"} : Goto(e, l)
    BY <1>3 DEF VerifyAccount
  <2>2. \A f \in Execs : lock[f] = "free" => lock'[f] = "free"
    BY <1>3, MarkLostKeeps DEF VerifyAccount
  <2>3. l \notin Quiet
    BY <2>1 DEF Quiet, Terminal
  <2>4. QED BY <2>1, <2>2, <2>3, HeartbeatStep
<1>4. CASE UndoRedisKey(e) \/ Unlock(e)
  <2>1. PICK l : Goto(e, l)
    BY <1>4 DEF UndoRedisKey, Unlock
  <2>2. lock'[e] = "free" /\ \A f \in Execs \ {e} : lock'[f] = lock[f]
    BY <1>4, ReleaseFrees DEF UndoRedisKey, Unlock
  <2>3. QED BY <2>1, <2>2, HeartbeatStep
<1>5. CASE Begin(e) \/ GiveUpRedisKey(e) \/ ClaimFails(e)
  <2>1. UNCHANGED lock
    BY <1>5 DEF Begin, GiveUpRedisKey, ClaimFails
  <2>2. PICK l : Goto(e, l) /\ (e \in Mutations \cup Syncs /\ l \in Quiet => pc[e] \in Quiet)
    BY <1>5 DEF Begin, GiveUpRedisKey, ClaimFails, Quiet, Terminal
  <2>3. QED BY <2>1, <2>2, HeartbeatStep
<1>6. CASE \/ ClaimGeneration(e) \/ StartAssert(e) \/ BodyRaises(e) \/ CommitBody(e)
           \/ ProofLockWaitFails(e) \/ HandleRaise(e) \/ ReleaseAccount(e) \/ ReleaseLockWaitFails(e)
  <2>1. UNCHANGED lock
    BY <1>6 DEF ClaimGeneration, StartAssert, BodyRaises, CommitBody, ProofLockWaitFails, HandleRaise,
                ReleaseAccount, ReleaseLockWaitFails
  <2>2. PICK l : Goto(e, l) /\ l \notin Quiet
    BY <1>6 DEF ClaimGeneration, StartAssert, BodyRaises, CommitBody, ProofLockWaitFails, HandleRaise,
                ReleaseAccount, ReleaseLockWaitFails, Quiet, Terminal
  <2>3. QED BY <2>1, <2>2, HeartbeatStep
<1>7. QED BY <1>1, <1>2, <1>3, <1>4, <1>5, <1>6 DEF Step

LEMMA HeartbeatOfMutationStep ==
    ASSUME TypeOK, HeartbeatInv, NEW m \in Mutations, MutationStep(m)
    PROVE  HeartbeatInv'
<1>1. CASE ReproveGlobal(m) \/ VerifyGlobal(m)
  <2>1. \A f \in Execs : lock[f] = "free" => lock'[f] = "free"
    BY <1>1, MarkLostKeeps, KeyAndHost DEF ReproveGlobal, VerifyGlobal
  <2>2. PICK l : Goto(m, l) /\ (l \in Quiet => pc[m] \in Quiet)
    BY <1>1 DEF ReproveGlobal, VerifyGlobal, MayStart, Quiet, Terminal
  <2>3. ASSUME l \in Quiet PROVE pc[m] \in Quiet
    BY <2>2, <2>3
  <2>4. QED BY <2>1, <2>2, <2>3, HeartbeatStep
<1>2. CASE ~(ReproveGlobal(m) \/ VerifyGlobal(m))
  <2>1. UNCHANGED lock
    BY <1>2 DEF MutationStep, AcquireGlobal, DropGlobal, ProveGlobal, ProveAccount, RemoteAnswers,
                ReleaseBoth, Rollback
  <2>2. PICK l : Goto(m, l) /\ (l \in Quiet => pc[m] \in Quiet)
    BY <1>2 DEF MutationStep, AcquireGlobal, DropGlobal, ProveGlobal, ProveAccount, RemoteAnswers,
                ReleaseBoth, Rollback, Quiet, Terminal
  <2>3. QED BY <2>1, <2>2, HeartbeatStep
<1>3. QED BY <1>1, <1>2

LEMMA HeartbeatOfNext == TypeOK /\ HeartbeatInv /\ [Next]_vars => HeartbeatInv'
<1> SUFFICES ASSUME TypeOK, HeartbeatInv, [Next]_vars PROVE HeartbeatInv'
  OBVIOUS
<1>1. CASE UNCHANGED <<lock, pc>>
  BY <1>1 DEF HeartbeatInv
<1>2. ASSUME NEW c \in Cycles, FinishCycle(c) PROVE HeartbeatInv'
  <2>1. UNCHANGED lock /\ Goto(c, "unlock") /\ "unlock" \notin Quiet
    BY <1>2 DEF FinishCycle, Quiet, Terminal
  <2>2. QED BY <2>1, HeartbeatStep
<1>3. ASSUME NEW e \in Execs, HeartbeatFails(e) PROVE HeartbeatInv'
  BY <1>3, MarkLostKeeps DEF HeartbeatFails, HeartbeatInv
<1>4. ASSUME NEW h \in Execs, Crash(h) PROVE HeartbeatInv'
  <2> DEFINE dead == {e \in Execs : Host(e) = h /\ Active(e)}
  <2>1. /\ pc' = [e \in Execs |-> IF e \in dead THEN "crashed" ELSE pc[e]]
        /\ lock' = [e \in Execs |-> IF e \in dead THEN "free" ELSE lock[e]]
    BY <1>4 DEF Crash
  <2> HIDE DEF dead
  <2>2. QED BY <2>1 DEF HeartbeatInv
<1>5. QED
  BY <1>1, <1>2, <1>3, <1>4, HeartbeatOfStep, HeartbeatOfMutationStep
  DEF Next, Environment, RedisKeyExpires, LeaseExpires, vars

\* Whatever happened inside, an execution that is over has given its lock
\* object back: no heartbeat thread outlives it.
THEOREM HeartbeatEnds == Spec => []HeartbeatEndsWithLease
<1>1. Init => HeartbeatInv
  BY DEF Init, HeartbeatInv
<1>2. Spec => []HeartbeatInv
  BY <1>1, HeartbeatOfNext, TypeCorrect, PTL DEF Spec
<1>3. HeartbeatInv => HeartbeatEndsWithLease
  BY DEF HeartbeatInv, HeartbeatEndsWithLease, Quiet, Terminal
<1>4. QED BY <1>2, <1>3, PTL

-----------------------------------------------------------------------------
(***************************************************************************)
(* Lock waits in a circle.  Only mutations lock the global row.            *)
(***************************************************************************)
GlobalLockInv == \A e \in Execs \ Mutations : rowLock[Global] # Main(e)

LEMMA GlobalLockOfNext == TypeOK /\ GlobalLockInv /\ [Next]_vars => GlobalLockInv'
<1> SUFFICES ASSUME TypeOK, GlobalLockInv, [Next]_vars,
                    NEW e \in Execs \ Mutations, rowLock'[Global] = Main(e)
             PROVE  rowLock[Global] = Main(e)
  BY DEF GlobalLockInv
<1>0. Global \in Scopes /\ Main(e) # Nobody /\ \A f \in Execs : Releaser(f) # Main(e)
  BY SessionsDiffer
<1>1. CASE rowLock' = rowLock
  BY <1>1
<1>2. CASE \E S : DropLocks(S)
  BY <1>0, <1>2 DEF DropLocks
<1>3. ASSUME NEW m \in Mutations, NEW s \in Scopes, rowLock' = [rowLock EXCEPT ![s] = Main(m)]
      PROVE  rowLock[Global] = Main(e)
  BY <1>0, <1>3, SessionsDiffer DEF TypeOK
<1>4. ASSUME NEW f \in Execs, ReleaseAccount(f) PROVE rowLock[Global] = Main(e)
  BY <1>0, <1>1, <1>4 DEF ReleaseAccount, TypeOK
<1>5. ASSUME NEW f \in Execs, CommitBody(f) PROVE rowLock[Global] = Main(e)
  <2>1. f \in Mutations \cup Syncs
    BY <1>5 DEF CommitBody, TypeOK
  <2>2. Key(f) \in Scopes \ {Global}
    BY <2>1, KeyOfAccountUser
  <2>3. (\E S : DropLocks(S)) \/ rowLock' = [rowLock EXCEPT ![Key(f)] = Main(f)]
    BY <1>5 DEF CommitBody
  <2>4. QED BY <1>0, <1>2, <2>2, <2>3 DEF TypeOK
<1>6. ASSUME NEW f \in Execs, Step(f) PROVE rowLock[Global] = Main(e)
  BY <1>1, <1>2, <1>4, <1>5, <1>6
  DEF Step, Begin, SetRedisKey, GiveUpRedisKey, VerifyBeforeClaim, ClaimGeneration, ClaimFails,
      UndoRedisKey, StartAssert, BodyRaises, VerifyAccount, ProofLockWaitFails, HandleRaise,
      ReleaseLockWaitFails, Unlock
<1>7. ASSUME NEW m \in Mutations, MutationStep(m) PROVE rowLock[Global] = Main(e)
  <2>1. \A s \in Scopes : LockForUpdate(m, s) => rowLock[Global] = Main(e)
    BY <1>3 DEF LockForUpdate
  <2>2. Key(m) \in Scopes
    BY KeyAndHost
  <2>3. QED
    BY <1>0, <1>1, <1>2, <1>7, <2>1, <2>2
    DEF MutationStep, AcquireGlobal, ReproveGlobal, DropGlobal, VerifyGlobal, ProveGlobal,
        ProveAccount, RemoteAnswers, ReleaseBoth, Rollback
<1>8. QED
  BY <1>1, <1>2, <1>6, <1>7
  DEF Next, Environment, FinishCycle, RedisKeyExpires, LeaseExpires, HeartbeatFails, Crash, vars

\* Aborting a release that waits in a circle leaves no global lease held.
THEOREM CycleIsHarmless == Spec => []RowLockCycleIsHarmless
<1>1. Init => GlobalLockInv
  BY SessionsDiffer DEF Init, GlobalLockInv
<1>2. Spec => []GlobalLockInv
  BY <1>1, GlobalLockOfNext, TypeCorrect, PTL DEF Spec
<1>3. LeaseInv /\ GlobalLockInv => RowLockCycleIsHarmless
  <2> SUFFICES ASSUME LeaseInv, GlobalLockInv, NEW x \in Execs, NEW y \in Execs, LockCycle(x, y)
               PROVE  row[Global].owner # x
    BY DEF RowLockCycleIsHarmless
  <2>1. pc[x] = "releaseGlobal" /\ pc[y] = "proveAccount" /\ rowLock[Global] = Main(y)
    BY DEF LockCycle
  <2>2. y \in Mutations
    BY <2>1 DEF GlobalLockInv
  <2>3. row[Global].owner = Host(y)
    BY <2>1, <2>2 DEF LeaseInv, GlobalProved, Proved
  <2>4. Standalone(x) /\ x # y
    BY <2>1 DEF LeaseInv
  <2>5. Host(y) # x
    BY <2>2, <2>4, HostOfNested DEF Standalone
  <2>6. QED BY <2>3, <2>5
<1>4. QED BY <1>2, <1>3, LeaseInvariant, PTL

=============================================================================
