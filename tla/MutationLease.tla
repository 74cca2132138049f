--------------------------- MODULE MutationLease ---------------------------
(***************************************************************************)
(* The execution boundary every GMV Max writer runs behind.                *)
(*                                                                         *)
(* Three kinds of execution compete:                                       *)
(*   Cycles     the Celery Guard cycles (smart_guard_cycle_task and        *)
(*              creative_guard_cycle_task), which own the global scope;    *)
(*   Mutations  one `with gmvmax_mutation_lease(...)' block around one     *)
(*              official TikTok mutation; a mutation whose ParentOf is a   *)
(*              cycle runs nested in that cycle's thread and database      *)
(*              session, the others are web requests or the pause worker;  *)
(*   Syncs      the account fact synchronisations.                         *)
(*                                                                         *)
(* A scope (the global one, or an account) is protected twice, under the   *)
(* same name: by a Redis key with a TTL (redis, and the process's own view *)
(* of it, lock), and by a row of gmvmax_guard_action_leases (row) with a   *)
(* fencing token that grows with each acquisition.  rowLock is the InnoDB  *)
(* row lock a `SELECT ... FOR UPDATE' takes and keeps until its            *)
(* transaction ends.                                                       *)
(*                                                                         *)
(* An execution is single-use: its owner token is a fresh uuid, so the     *)
(* execution itself stands for the token.                                  *)
(***************************************************************************)
EXTENDS Naturals, FiniteSets

CONSTANTS
    Cycles, Mutations, Syncs,   \* the executions
    Accounts,                   \* (workspace, auth) scopes
    Global,                     \* the scope "gmvmax:guard-actions:cycle"
    Nobody,
    AccountOf,                  \* the account of each mutation and sync
    ParentOf,                   \* the cycle a mutation is nested in, or Nobody
    Priority                    \* the mutations that are manual pauses

Execs == Cycles \cup Mutations \cup Syncs
Scopes == {Global} \cup Accounts

ASSUME DisjointKinds ==
    /\ Cycles \cap Mutations = {} /\ Cycles \cap Syncs = {}
    /\ Mutations \cap Syncs = {}
    /\ Global \notin Accounts
    /\ Nobody \notin Execs

\* A row lock that nobody holds is told apart from every session.
ASSUME NobodyIsNoSession == Nobody \notin Execs \X {"main", "release"}

ASSUME ScopesOfExecs ==
    /\ AccountOf \in [Mutations \cup Syncs -> Accounts]
    /\ ParentOf \in [Mutations -> Cycles \cup {Nobody}]

(***************************************************************************)
(* acquire_gmvmax_mutation_lease skips the global lease only for a manual  *)
(* pause whose own session carries an automated Guard owner.  No caller is *)
(* in that position (only the Guard tasks put an owner in db.info, and     *)
(* they never ask for the bypass), so the branch is dead and not modelled. *)
(***************************************************************************)
ASSUME BypassIsDead ==
    Priority \subseteq {m \in Mutations : ParentOf[m] = Nobody}

VARIABLES
    redis,      \* [Scopes -> execution named by the key's value, or Nobody]
    lock,       \* RedisDistributedLock of each execution: free, held, lost
    row,        \* [Scopes -> [owner, fence, live]], the committed lease rows
    rowLock,    \* [Scopes -> <<execution, session>> holding the row lock]
    renewed,    \* scopes whose expiry an open transaction has pushed out
    token,      \* [Execs -> [Scopes -> fencing token granted, 0 if none]]
    pc,         \* what each execution does next
    answered,   \* the executions whose remote call has returned
    written     \* [Accounts -> fence under which facts were last committed]

vars == <<redis, lock, row, rowLock, renewed, token, pc, answered, written>>

Terminal == {"ended", "refused", "crashed"}

\* The process, thread and main database session an execution runs in.
Host(e) == IF e \in Mutations /\ ParentOf[e] # Nobody THEN ParentOf[e] ELSE e
Nested(e) == Host(e) # e
Standalone(e) == e \in Mutations /\ ~Nested(e)

\* The Redis key an execution locks; the durable lease of the same name.
Key(e) == IF e \in Cycles THEN Global ELSE AccountOf[e]

Active(e) == pc[e] \notin Terminal \cup {"idle"}

Lease(owner, fence, live) == [owner |-> owner, fence |-> fence, live |-> live]

Main(e) == <<e, "main">>
Releaser(e) == <<e, "release">>
Free(s) == rowLock[s] = Nobody
HeldIn(session) == {s \in Scopes : rowLock[s] = session}

\* The row as the execution's own transaction sees it.
Owns(e, s, t) == row[s].owner = e /\ row[s].fence = t
VisiblyLive(s) == row[s].live \/ s \in renewed

-----------------------------------------------------------------------------
(***************************************************************************)
(* Building blocks                                                         *)
(***************************************************************************)
Init ==
    /\ redis = [s \in Scopes |-> Nobody]
    /\ lock = [e \in Execs |-> "free"]
    /\ row = [s \in Scopes |-> Lease(Nobody, 0, FALSE)]
    /\ rowLock = [s \in Scopes |-> Nobody]
    /\ renewed = {}
    /\ token = [e \in Execs |-> [s \in Scopes |-> 0]]
    /\ pc = [e \in Execs |-> "idle"]
    /\ answered = {}
    /\ written = [a \in Accounts |-> 0]

Goto(e, label) == pc' = [pc EXCEPT ![e] = label]

\* A rollback, a commit or a close of a session drops its row locks.
DropLocks(sessions) ==
    /\ rowLock' = [s \in Scopes |->
                      IF rowLock[s] \in sessions THEN Nobody ELSE rowLock[s]]
    /\ renewed' = {s \in renewed : rowLock[s] \notin sessions}

\* acquire_guard_action_lease: refused while another owner's lease is live.
LeaseIsTaken(e, s) == row[s].owner \notin {Nobody, e} /\ row[s].live

\* Mutant: a takeover keeps the fencing token of the generation it replaces.
GrantSameFence(e, s) ==
    LET fence == IF row[s].fence = 0 THEN 1 ELSE row[s].fence IN
    /\ row' = [row EXCEPT ![s] = Lease(e, fence, TRUE)]
    /\ token' = [token EXCEPT ![e][s] = fence]

Grant(e, s) ==
    /\ row' = [row EXCEPT ![s] = Lease(e, row[s].fence + 1, TRUE)]
    /\ token' = [token EXCEPT ![e][s] = row[s].fence + 1]

\* Mutant: release clears the row without comparing owner and token.
FreedByName(e, S) ==
    [s \in Scopes |->
        IF s \in S
        THEN Lease(Nobody, row[s].fence, FALSE)
        ELSE row[s]]

\* release_guard_action_lease / release_account_sync_fence: only the exact
\* generation is freed.
Freed(e, S) ==
    [s \in Scopes |->
        IF s \in S /\ Owns(e, s, token[e][s])
        THEN Lease(Nobody, row[s].fence, FALSE)
        ELSE row[s]]

\* RedisDistributedLock.verify_ownership
Verified(e) == lock[e] = "held" /\ redis[Key(e)] = e
MarkLost(e) == lock' = [lock EXCEPT ![e] = IF @ = "held" THEN "lost" ELSE @]

-----------------------------------------------------------------------------
(***************************************************************************)
(* Acquisition: global generation, account Redis key, account generation   *)
(***************************************************************************)

\* A web request or worker takes the global lease for itself.
AcquireGlobal(m) ==
    /\ pc[m] = "idle" /\ Standalone(m)
    /\ Free(Global)
    /\ IF LeaseIsTaken(m, Global)
       THEN Goto(m, "refused") /\ UNCHANGED <<row, token>>
       ELSE Goto(m, "lock") /\ Grant(m, Global)
    /\ UNCHANGED <<redis, lock, rowLock, renewed, answered, written>>

\* A cycle works on one nested mutation at a time.
MayStart(m) ==
    /\ pc[m] = "idle"
    /\ Nested(m) => /\ pc[Host(m)] = "running"
                    /\ \A n \in Mutations : Host(n) = Host(m) => ~Active(n)

\* A mutation nested in a cycle proves that the cycle still owns its lease.
\* Any exception, a lock wait that times out included, ends the attempt.
ReproveGlobal(m) ==
    LET c == Host(m)
        current == /\ Free(Global) /\ Owns(c, Global, token[c][Global])
                   /\ row[Global].live IN
    /\ Nested(m) /\ MayStart(m)
    /\ IF Verified(c)
       THEN Goto(m, IF current THEN "lock" ELSE "ended") /\ UNCHANGED lock
       ELSE Goto(m, "ended") /\ MarkLost(c)
    /\ UNCHANGED <<redis, row, rowLock, renewed, token, answered, written>>

\* Cycles and syncs start with their Redis key.
Begin(e) ==
    /\ pc[e] = "idle" /\ e \in Cycles \cup Syncs
    /\ Goto(e, "lock")
    /\ UNCHANGED <<redis, lock, row, rowLock, renewed, token, answered, written>>

\* SET NX EX.  If the reply is lost the key is ours but we do not know it.
SetRedisKey(e) ==
    /\ pc[e] = "lock" /\ redis[Key(e)] = Nobody
    /\ redis' = [redis EXCEPT ![Key(e)] = e]
    /\ \/ /\ lock' = [lock EXCEPT ![e] = "held"]
          /\ Goto(e, IF e \in Cycles THEN "claim" ELSE "verify")
       \/ UNCHANGED <<lock, pc>>
    /\ UNCHANGED <<row, rowLock, renewed, token, answered, written>>

\* The retry loop of acquire() runs out of time.
GiveUpRedisKey(e) ==
    /\ pc[e] = "lock"
    /\ Goto(e, IF Standalone(e) THEN "dropGlobal" ELSE "ended")
    /\ UNCHANGED <<redis, lock, row, rowLock, renewed, token, answered, written>>

\* Mutant: a failed verification leaves without releasing the lock object.
VerifyAndLeave(e) ==
    /\ pc[e] = "verify"
    /\ IF Verified(e) THEN Goto(e, "claim") /\ UNCHANGED lock
                      ELSE Goto(e, "ended") /\ MarkLost(e)
    /\ UNCHANGED <<redis, row, rowLock, renewed, token, answered, written>>

\* acquire_account_sync_fence first proves the Redis key is still ours.
VerifyBeforeClaim(e) ==
    /\ pc[e] = "verify"
    /\ IF Verified(e) THEN Goto(e, "claim") /\ UNCHANGED lock
                      ELSE Goto(e, "undo") /\ MarkLost(e)
    /\ UNCHANGED <<redis, row, rowLock, renewed, token, answered, written>>

\* Take the durable generation and commit it.
ClaimGeneration(e) ==
    /\ pc[e] = "claim" /\ Free(Key(e))
    /\ IF LeaseIsTaken(e, Key(e))
       THEN Goto(e, "undo") /\ UNCHANGED <<row, token>>
       ELSE /\ Goto(e, IF e \in Cycles THEN "running" ELSE "body")
            /\ Grant(e, Key(e))
    /\ UNCHANGED <<redis, lock, rowLock, renewed, answered, written>>

\* The locking read of the lease row raises when its lock wait times out.  A
\* cycle's acquire is outside its try block.
ClaimFails(e) ==
    /\ \/ /\ pc[e] = "idle" /\ Standalone(e) /\ ~Free(Global)
          /\ Goto(e, "ended")
       \/ /\ pc[e] = "claim" /\ ~Free(Key(e))
          /\ Goto(e, IF e \in Cycles THEN "ended" ELSE "undo")
    /\ UNCHANGED <<redis, lock, row, rowLock, renewed, token, answered, written>>

\* account_lock.release(): Lua compare-and-delete, then the object is free.
FreeRedisKey(e) ==
    /\ redis' = [redis EXCEPT ![Key(e)] =
                    IF @ = e /\ lock[e] # "free" THEN Nobody ELSE @]
    /\ lock' = [lock EXCEPT ![e] = "free"]

\* The same with an unreachable Redis: the key stays until its TTL.
AbandonRedisKey(e) ==
    /\ lock' = [lock EXCEPT ![e] = "free"]
    /\ UNCHANGED redis

ReleaseRedisKey(e) == FreeRedisKey(e) \/ AbandonRedisKey(e)

\* A refused or failed claim gives the Redis key back first ...
UndoRedisKey(e) ==
    /\ pc[e] = "undo"
    /\ ReleaseRedisKey(e)
    /\ Goto(e, IF Standalone(e) THEN "dropGlobal" ELSE "ended")
    /\ UNCHANGED <<row, rowLock, renewed, token, answered, written>>

\* ... and then _release_standalone_global frees the global generation, or
\* logs the exception of a lock wait that times out.
DropGlobal(e) ==
    /\ pc[e] = "dropGlobal"
    /\ \/ Free(Global) /\ row' = Freed(e, {Global})
       \/ ~Free(Global) /\ UNCHANGED row
    /\ Goto(e, "ended")
    /\ UNCHANGED <<redis, lock, rowLock, renewed, token, answered, written>>

-----------------------------------------------------------------------------
(***************************************************************************)
(* The body: prove both generations, call TikTok, prove them again and     *)
(* commit.  A sync proves only its account generation, once, at its commit.*)
(* The proof right after the call and the one inside commit() run in one   *)
(* transaction that already holds both row locks; they are one proof here. *)
(***************************************************************************)

StartAssert(e) ==
    /\ pc[e] = "body"
    /\ Goto(e, IF e \in Syncs THEN "verifyAccount" ELSE
               IF Nested(e) THEN "verifyGlobal" ELSE "proveGlobal")
    /\ UNCHANGED <<redis, lock, row, rowLock, renewed, token, answered, written>>

\* The body raises: a business error before the call, or a failed call.
BodyRaises(e) ==
    /\ pc[e] \in {"body", "remote"}
    /\ Goto(e, "raised")
    /\ UNCHANGED <<redis, lock, row, rowLock, renewed, token, answered, written>>

VerifyGlobal(e) ==
    /\ pc[e] = "verifyGlobal"
    /\ IF Verified(Host(e)) THEN Goto(e, "proveGlobal") /\ UNCHANGED lock
                            ELSE Goto(e, "raised") /\ MarkLost(Host(e))
    /\ UNCHANGED <<redis, row, rowLock, renewed, token, answered, written>>

VerifyAccount(e) ==
    /\ pc[e] = "verifyAccount"
    /\ IF Verified(e) THEN Goto(e, "proveAccount") /\ UNCHANGED lock
                      ELSE Goto(e, "raised") /\ MarkLost(e)
    /\ UNCHANGED <<redis, row, rowLock, renewed, token, answered, written>>

\* Mutant: the proof reads the row without FOR UPDATE.
ReadOnly(e, s) ==
    /\ rowLock[s] \in {Nobody, Main(e)}
    /\ UNCHANGED rowLock

LockForUpdate(e, s) ==
    /\ rowLock[s] \in {Nobody, Main(e)}
    /\ rowLock' = [rowLock EXCEPT ![s] = Main(e)]

\* Mutant: any unexpired generation will do.
ProveGlobalLive(e) ==
    /\ pc[e] = "proveGlobal" /\ LockForUpdate(e, Global)
    /\ IF VisiblyLive(Global)
       THEN Goto(e, "verifyAccount") /\ renewed' = renewed \cup {Global}
       ELSE Goto(e, "raised") /\ UNCHANGED renewed
    /\ UNCHANGED <<redis, lock, row, token, answered, written>>

\* assert_guard_action_lease_generation: exact generation and not expired.
ProveGlobal(e) ==
    LET h == Host(e) IN
    /\ pc[e] = "proveGlobal" /\ LockForUpdate(e, Global)
    /\ IF Owns(h, Global, token[h][Global]) /\ VisiblyLive(Global)
       THEN Goto(e, "verifyAccount") /\ renewed' = renewed \cup {Global}
       ELSE Goto(e, "raised") /\ UNCHANGED renewed
    /\ UNCHANGED <<redis, lock, row, token, answered, written>>

\* Mutant: the fence is not compared, only the Redis proof counts.
AccountVerifiedOnly(e) == token[e][Key(e)] > 0

AccountProved(e) == Owns(e, Key(e), token[e][Key(e)])

\* GmvMaxAccountSyncFence.assert_current before the remote call: an expired
\* but not superseded generation is renewed.
ProveAccount(e) ==
    /\ pc[e] = "proveAccount" /\ e \in Mutations \ answered
    /\ LockForUpdate(e, Key(e))
    /\ IF AccountProved(e)
       THEN Goto(e, "remote") /\ renewed' = renewed \cup {Key(e)}
       ELSE Goto(e, "raised") /\ UNCHANGED renewed
    /\ UNCHANGED <<redis, lock, row, token, answered, written>>

\* The answer of campaign_status_update arrives.
RemoteAnswers(e) ==
    /\ pc[e] = "remote"
    /\ answered' = answered \cup {e}
    /\ Goto(e, IF Nested(e) THEN "verifyGlobal" ELSE "proveGlobal")
    /\ UNCHANGED <<redis, lock, row, rowLock, renewed, token, written>>

\* The proof that closes the body, the local facts and db.commit(): one
\* transaction, so the proof and the write take effect together.
CommitBody(e) ==
    LET a == Key(e)
        proved == {a} \cup (HeldIn(Main(e)) \cap renewed) IN
    /\ pc[e] = "proveAccount" /\ e \in answered \cup Syncs
    /\ rowLock[a] \in {Nobody, Main(e)}
    /\ IF AccountProved(e)
       THEN /\ row' = [s \in Scopes |->
                          IF s \in proved
                          THEN Lease(row[s].owner, row[s].fence, TRUE)
                          ELSE row[s]]
            /\ written' = [written EXCEPT ![a] = token[e][a]]
            /\ DropLocks({Main(e)})
            /\ Goto(e, "release")
       ELSE /\ rowLock' = [rowLock EXCEPT ![a] = Main(e)]
            /\ Goto(e, "raised")
            /\ UNCHANGED <<row, renewed, written>>
    /\ UNCHANGED <<redis, lock, token, answered>>

\* release() locks the account row and then the global one, assert_current
\* the global row and then the account one: each can wait for the other.
LockCycle(x, y) ==
    /\ pc[x] = "releaseGlobal" /\ pc[y] = "proveAccount"
    /\ rowLock[Global] = Main(y) /\ rowLock[Key(y)] = Releaser(x)

\* An assertion's lock wait times out and raises inside the body.  The
\* victim of a deadlock has its whole transaction rolled back as well.
ProofLockWaitFails(e) ==
    /\ \/ pc[e] = "proveGlobal" /\ rowLock[Global] \notin {Nobody, Main(e)}
       \/ pc[e] = "proveAccount" /\ rowLock[Key(e)] \notin {Nobody, Main(e)}
    /\ \/ UNCHANGED <<rowLock, renewed>>
       \/ (\E x \in Execs : LockCycle(x, e)) /\ DropLocks({Main(e)})
    /\ Goto(e, "raised")
    /\ UNCHANGED <<redis, lock, row, token, answered, written>>

\* A sync rolls its session back before it releases; the context manager of
\* a mutation releases first and leaves the rollback to its caller.
HandleRaise(e) ==
    /\ pc[e] = "raised"
    /\ IF e \in Syncs THEN DropLocks({Main(e)}) ELSE UNCHANGED <<rowLock, renewed>>
    /\ Goto(e, "release")
    /\ UNCHANGED <<redis, lock, row, token, answered, written>>

-----------------------------------------------------------------------------
(***************************************************************************)
(* Release, in a database session of its own                               *)
(***************************************************************************)

\* GmvMaxMutationLease.release and the syncs' finally block.  A standalone
\* mutation goes on to the global row inside the same transaction.
ReleaseAccount(e) ==
    /\ pc[e] = "release" /\ e \notin Cycles
    /\ Free(Key(e))
    /\ IF Standalone(e)
       THEN /\ rowLock' = [rowLock EXCEPT ![Key(e)] = Releaser(e)]
            /\ Goto(e, "releaseGlobal")
            /\ UNCHANGED row
       ELSE /\ row' = Freed(e, {Key(e)})
            /\ Goto(e, "unlock")
            /\ UNCHANGED rowLock
    /\ UNCHANGED <<redis, lock, renewed, token, answered, written>>

ReleaseBoth(e) ==
    /\ pc[e] = "releaseGlobal" /\ Free(Global)
    /\ row' = Freed(e, {Key(e), Global})
    /\ DropLocks({Releaser(e)})
    /\ Goto(e, "unlock")
    /\ UNCHANGED <<redis, lock, token, answered, written>>

\* Mutant: the first lock wait of a release has no timeout.
ReleaseWaitsForAccount(e) ==
    /\ pc[e] = "releaseGlobal" /\ ~Free(Global)
    /\ DropLocks({Releaser(e)})
    /\ Goto(e, "unlock")
    /\ UNCHANGED <<redis, lock, row, token, answered, written>>

\* A lock wait that times out rolls the releasing session back; the
\* exception is logged and the generations stay until they expire.
ReleaseLockWaitFails(e) ==
    /\ \/ pc[e] = "release" /\ ~Free(Key(e))
       \/ pc[e] = "releaseGlobal" /\ ~Free(Global)
    /\ DropLocks({Releaser(e)})
    /\ Goto(e, "unlock")
    /\ UNCHANGED <<redis, lock, row, token, answered, written>>

Unlock(e) ==
    /\ pc[e] = "unlock"
    /\ ReleaseRedisKey(e)
    /\ Goto(e, IF HeldIn(Main(e)) = {} THEN "ended" ELSE "rollback")
    /\ UNCHANGED <<row, rowLock, renewed, token, answered, written>>

\* The caller's db.rollback() or the close of the request's session.
Rollback(e) ==
    /\ pc[e] = "rollback"
    /\ DropLocks({Main(e)})
    /\ Goto(e, "ended")
    /\ UNCHANGED <<redis, lock, row, token, answered, written>>

\* The cycle is over: it releases its generation in its own session.
FinishCycle(c) ==
    /\ pc[c] = "running" /\ c \in Cycles
    /\ \A m \in Mutations : Host(m) = c => ~Active(m)
    /\ \/ Free(Global) /\ row' = Freed(c, {Global})
       \/ ~Free(Global) /\ UNCHANGED row
    /\ Goto(c, "unlock")
    /\ UNCHANGED <<redis, lock, rowLock, renewed, token, answered, written>>

-----------------------------------------------------------------------------
(***************************************************************************)
(* The environment                                                         *)
(***************************************************************************)

\* The TTL of a Redis key runs out (stalled process, missed heartbeats).
RedisKeyExpires(s) ==
    /\ redis[s] # Nobody
    /\ redis' = [redis EXCEPT ![s] = Nobody]
    /\ UNCHANGED <<lock, row, rowLock, renewed, token, pc, answered, written>>

\* The heartbeat finds the key foreign, or cannot reach Redis.
HeartbeatFails(e) ==
    /\ lock[e] = "held"
    /\ MarkLost(e)
    /\ UNCHANGED <<redis, row, rowLock, renewed, token, pc, answered, written>>

\* expires_at passes: the committed one first, then a pending renewal.
LeaseExpires(s) ==
    /\ \/ /\ row[s].live
          /\ row' = [row EXCEPT ![s] = Lease(row[s].owner, row[s].fence, FALSE)]
          /\ UNCHANGED renewed
       \/ /\ ~row[s].live /\ s \in renewed
          /\ renewed' = renewed \ {s}
          /\ UNCHANGED row
    /\ UNCHANGED <<redis, lock, rowLock, token, pc, answered, written>>

\* The process dies with everything it hosts.  The database rolls its
\* transactions back; its Redis keys and committed generations remain.
Crash(h) ==
    LET dead == {e \in Execs : Host(e) = h /\ Active(e)} IN
    /\ Active(h)
    /\ pc' = [e \in Execs |-> IF e \in dead THEN "crashed" ELSE pc[e]]
    /\ DropLocks({Main(e) : e \in dead} \cup {Releaser(e) : e \in dead})
    /\ lock' = [e \in Execs |-> IF e \in dead THEN "free" ELSE lock[e]]
    /\ answered' = answered \ dead
    /\ UNCHANGED <<redis, row, token, written>>

-----------------------------------------------------------------------------
Step(e) ==
    \/ Begin(e) \/ SetRedisKey(e) \/ GiveUpRedisKey(e)
    \/ VerifyBeforeClaim(e) \/ ClaimGeneration(e) \/ ClaimFails(e)
    \/ UndoRedisKey(e) \/ StartAssert(e) \/ BodyRaises(e)
    \/ VerifyAccount(e) \/ CommitBody(e) \/ ProofLockWaitFails(e)
    \/ HandleRaise(e) \/ ReleaseAccount(e) \/ ReleaseLockWaitFails(e)
    \/ Unlock(e)

MutationStep(m) ==
    \/ AcquireGlobal(m) \/ ReproveGlobal(m) \/ DropGlobal(m)
    \/ VerifyGlobal(m) \/ ProveGlobal(m) \/ ProveAccount(m)
    \/ RemoteAnswers(m) \/ ReleaseBoth(m) \/ Rollback(m)

Environment ==
    \/ \E s \in Scopes : RedisKeyExpires(s) \/ LeaseExpires(s)
    \/ \E e \in Execs : HeartbeatFails(e) \/ Crash(e)

Next ==
    \/ \E e \in Execs : Step(e)
    \/ \E m \in Mutations : MutationStep(m)
    \/ \E c \in Cycles : FinishCycle(c)
    \/ Environment

Spec == Init /\ [][Next]_vars

-----------------------------------------------------------------------------
(***************************************************************************)
(* Fairness, for the liveness property only.  A running thread goes on     *)
(* (waiting for a row lock ends in a timeout at the latest); nothing makes *)
(* a task start, a key expire early, or a process crash.                   *)
(***************************************************************************)
Progress(e) ==
    \/ Step(e) /\ pc[e] # "idle"
    \/ e \in Mutations /\ MutationStep(e) /\ pc[e] # "idle"
    \/ e \in Cycles /\ FinishCycle(e)

FairSpec ==
    /\ Spec
    /\ \A e \in Execs : WF_vars(Progress(e)) /\ WF_vars(GiveUpRedisKey(e))

-----------------------------------------------------------------------------
(***************************************************************************)
(* Properties                                                              *)
(***************************************************************************)
Labels == {"idle", "lock", "verify", "claim", "undo", "dropGlobal", "running",
           "body", "verifyGlobal", "proveGlobal", "verifyAccount",
           "proveAccount", "remote", "raised", "release", "releaseGlobal",
           "unlock", "rollback"} \cup Terminal

\* Every variable has its type.
TypeOK ==
    /\ redis \in [Scopes -> Execs \cup {Nobody}]
    /\ lock \in [Execs -> {"free", "held", "lost"}]
    /\ row \in [Scopes -> [owner : Execs \cup {Nobody}, fence : Nat,
                           live : BOOLEAN]]
    /\ rowLock \in [Scopes -> (Execs \X {"main", "release"}) \cup {Nobody}]
    /\ renewed \subseteq Scopes
    /\ token \in [Execs -> [Scopes -> Nat]]
    /\ pc \in [Execs -> Labels]
    /\ answered \subseteq Mutations
    /\ written \in [Accounts -> Nat]

\* A fencing token names one execution: no two executions are ever granted
\* the same generation of a scope, whatever expires, crashes or is released
\* in between (acquire_guard_action_lease).
TokensDistinct ==
    \A e, f \in Execs, s \in Scopes :
        e # f /\ token[e][s] = token[f][s] => token[e][s] = 0

\* While the TikTok call of a mutation is in flight its execution still owns
\* the newest generation of its account and its host that of the global
\* scope, even when Redis keys and leases expire during the call: the row
\* locks taken by assert_current stay with the open transaction.
RemoteOwnsBothScopes ==
    \A e \in Execs : pc[e] = "remote" =>
        /\ Owns(e, Key(e), token[e][Key(e)])
        /\ Owns(Host(e), Global, token[Host(e)][Global])

\* Official mutations are serialized: no two TikTok calls are in flight at
\* once, on one account or on two, from cycles or from operators.
RemoteIsSerial ==
    \A e, f \in Execs : pc[e] = "remote" /\ pc[f] = "remote" => e = f

\* Facts of an account are never overwritten by an older generation: an
\* execution that was superseded while it worked cannot commit any more.
WritesNeverRegress == [][\A a \in Accounts : written'[a] >= written[a]]_vars

\* The lease rows implement the sequence of fenced generations of each
\* account: only the newest generation commits facts, generations only grow.
Generations ==
    INSTANCE FencedGenerations WITH
        generation <- [a \in Accounts |-> row[a].fence]
ImplementsFencedGenerations == Generations!Spec

\* A stale finally block frees nothing: a generation that is not its owner's
\* own to give back is never cleared by another execution's release.
ReleaseIsExact ==
    [][\A s \in Scopes :
          row[s].owner # Nobody /\ row'[s].owner = Nobody
              => pc'[row[s].owner] # pc[row[s].owner]]_vars

\* When a release and an assertion wait for each other's row locks, the
\* releasing execution no longer owns the global generation: aborting it
\* cannot leave that lease held.
RowLockCycleIsHarmless ==
    \A x, y \in Execs : LockCycle(x, y) => row[Global].owner # x

\* Whatever happened inside, a mutation or a sync that is over has given its
\* RedisDistributedLock back: no heartbeat thread outlives it.
HeartbeatEndsWithLease ==
    \A e \in Mutations \cup Syncs : pc[e] \in {"ended", "refused"} => lock[e] = "free"

\* No execution waits for ever: every one that started ends or crashes, with
\* lock waits that include a wait for its own row locks.
EveryExecutionEnds ==
    \A e \in Execs : pc[e] # "idle" ~> pc[e] \in Terminal

(***************************************************************************)
(* What comments and tests of the repository say and the code does not do  *)
(***************************************************************************)

\* tests/test_gmvmax_smart_guard_task_lock.py: an acquired cycle always
\* releases its lock.
AcquiredCycleAlwaysReleasesLock ==
    \A c \in Cycles : pc[c] = "ended" => lock[c] = "free"

\* router_provider.py: a manual pause for account A must not wait on an
\* automated Guard cycle for account B.  Here: it is refused only while
\* another execution is at work on its own account.
PauseWaitsForItsAccountOnly ==
    \A m \in Priority :
        pc[m] = "idle" /\ Free(Global) /\ LeaseIsTaken(m, Global) =>
            \E e \in Execs \ {m} : Key(e) = AccountOf[m] /\ Active(e)

\* router_provider.py: "A GMV Max sync or action is in progress; retry
\* shortly".  Here: an operator is refused only while an execution is active,
\* or after one crashed.
BusyMeansInProgress ==
    \A m \in Mutations :
        Standalone(m) /\ pc[m] = "idle" /\ Free(Global) /\ LeaseIsTaken(m, Global) =>
            \E e \in Execs : Active(e) \/ pc[e] = "crashed"

=============================================================================
