---------------------------- MODULE AccountPool ----------------------------
(***************************************************************************)
(* The pool of Doubao accounts and the video tasks that use it.            *)
(*                                                                         *)
(* An account is one row, and its browser Profile belongs to whoever is    *)
(* named in the lease stored in that row: a video task (20 minutes) or a   *)
(* capability probe (5 minutes).  Claims lock the rows with SKIP LOCKED    *)
(* and clear leases that have expired.  A task commits its claim, waits    *)
(* for the browser, submits without a transaction and writes the row back  *)
(* as it has read it before; an accepted task is polled by one delivery    *)
(* after another, each of which renews the lease or, if it has lapsed and  *)
(* the account is idle, takes it again.  A worker that dies before the     *)
(* remote acknowledgement leaves a marker that the next delivery recovers. *)
(*                                                                         *)
(* Left out: the device an account runs on and its circuit breaker, the    *)
(* order in which usable accounts are tried, membership, probes of the     *)
(* login, and a fresh login of a barred account.                           *)
(***************************************************************************)
EXTENDS Naturals

CONSTANTS
    Tasks,
    Accounts,
    Probes,
    LaneOf,         \* the network lane of an account
    Late,           \* who may use a Profile after the lease on it has expired
    MaxTries,       \* Celery retries and automatic retries of a task
    MaxEvents,      \* bound on deaths of workers, superseded tasks and
                    \* interventions of users
    None

Holders == Tasks \cup Probes

ASSUME PoolActors == Tasks \cap Probes = {} /\ None \notin Holders \cup Accounts
ASSUME PoolBounds == {MaxTries, MaxEvents} \subseteq Nat /\ Late \subseteq Holders

VARIABLES
    row,        \* [Accounts -> the account's row]
    pc,         \* [Tasks -> the state of the task, with the place of its worker]
    bind,       \* [Tasks -> doubao_account_bridge_id]
    copy,       \* [Tasks -> the row its worker has read, before it is written]
    failed,     \* [Tasks -> doubao_failed_account_bridge_ids]
    tries,
    probe,      \* [Probes -> "none", "queued", "running" or "over"]
    target,     \* [Probes -> its account]
    events

task == <<pc, bind, copy, failed, tries>>
vars == <<row, task, probe, target, events>>

Settled == {"done", "left"}
\* Waits for the browser and calls of the helper, which end by timeouts.
AtWork == {"waiting", "submitting", "polling"}

------------------------------------------------------------------------------
(***************************************************************************)
(* Rows                                                                    *)
(***************************************************************************)

\* health: "ready" and "doubtful" accounts may be claimed, with a capability
\* known, or unknown after a transient error; "spent" and "resting" ones are
\* these while they cool down; "untested" ones need a probe before.
\* use: an "off" account can be enabled by a user, a "barred" one needs a login.
Healths == {"ready", "doubtful", "spent", "resting", "untested"}
Rows == [lease : Holders \cup {None}, live : BOOLEAN,
         browser : Holders \cup {None}, accepted : BOOLEAN,
         health : Healths,
         use : {"on", "off", "barred"}, probe : Probes \cup {None}]

ASSUME NoRow == None \notin Rows

Usable(r) == r.use = "on" /\ r.health \in {"ready", "doubtful"}

\* Mutant: the browser marker stays.
FreedLeaseOnly(r) ==
    [r EXCEPT !.lease = None, !.live = FALSE, !.accepted = FALSE]

Freed(r) ==
    [r EXCEPT !.lease = None, !.live = FALSE, !.accepted = FALSE,
              !.browser = IF @ = r.lease THEN None ELSE @]

\* Mutant: only orphaned markers are cleared.
CurrentMarker(r) ==
    IF r.lease # None THEN r ELSE [r EXCEPT !.browser = None, !.accepted = FALSE]

\* The row without an expired lease or a browser marker nobody owns.
Current(r) ==
    IF r.live THEN r
    ELSE [Freed(r) EXCEPT !.browser = IF r.lease = None THEN None ELSE @]

\* What an error says of the account: nothing, that it needs a rest, that it
\* needs a human.
Cooled(r) ==
    {[r EXCEPT !.health = h] : h \in {"resting", "untested"} \cup
        (IF r.health \in {"ready", "spent"} THEN {"spent"} ELSE {})}
Barred(r) ==
    {[r EXCEPT !.health = "untested", !.use = u] : u \in {"off", "barred"}}

ReleasedFor(r, t) ==
    IF r.lease # t THEN {r}
    ELSE {Freed(v) : v \in {r} \cup Cooled(r) \cup Barred(r)}

Succeeded(r, t) ==
    IF r.lease # t THEN r
    ELSE Freed([r EXCEPT !.health = "ready",
                         !.use = IF @ = "barred" THEN "off" ELSE @])

HoldEnded(r, t) ==
    IF r.browser # t THEN r ELSE [r EXCEPT !.browser = None, !.accepted = FALSE]

Write(a, r) == row' = [row EXCEPT ![a] = r]

------------------------------------------------------------------------------
(***************************************************************************)
(* Claims                                                                  *)
(***************************************************************************)

\* Claims skip the rows that a heartbeat of the Agent holds for update; they
\* see the others, and clear what has expired in them.
Swept(seen) == [a \in Accounts |-> IF a \in seen THEN Current(row[a]) ELSE row[a]]

\* Only until the submission is accepted does a browser occupy its lane.
Browsing(r) == r.live /\ r.browser = r.lease /\ ~r.accepted
LaneBusy(a, seen) ==
    \E b \in seen : LaneOf[b] = LaneOf[a] /\ Browsing(Current(row[b]))

Own(t, seen) == {a \in seen \ failed[t] : Current(row[a]).lease = t}
Healthy(t, seen) == {a \in seen \ failed[t] : Usable(row[a])}
Open(t, seen) ==
    {a \in Healthy(t, seen) : Current(row[a]).lease = None /\ ~LaneBusy(a, seen)}

\* A task that still has a lease keeps it as it is.
Taken(r, t) ==
    IF r.lease = t THEN [r EXCEPT !.browser = t]
    ELSE [r EXCEPT !.lease = t, !.live = TRUE, !.browser = t, !.accepted = FALSE]

\* claim_account and the commit that follows it.  A task that finds no account
\* in its first round is deferred as it was.
Claim(t) ==
    /\ pc[t] \in {"queued", "rotating"}
    /\ \E seen \in SUBSET Accounts :
        \E a \in IF Own(t, seen) # {} THEN Own(t, seen) ELSE Open(t, seen) :
            /\ row' = [Swept(seen) EXCEPT ![a] = Taken(@, t)]
            /\ bind' = [bind EXCEPT ![t] = a]
    /\ pc' = [pc EXCEPT ![t] = "waiting"]
    /\ UNCHANGED <<copy, failed, tries, probe, target, events>>

\* No account is left after a rotation: the task is reset and deferred.
Exhausted(t) ==
    /\ pc[t] = "rotating"
    /\ \E seen \in SUBSET Accounts :
        /\ Own(t, seen) = {} /\ Healthy(t, seen) = {}
        /\ row' = Swept(seen)
    /\ pc' = [pc EXCEPT ![t] = "queued"] /\ bind' = [bind EXCEPT ![t] = None]
    /\ UNCHANGED <<copy, failed, tries, probe, target, events>>

\* The accounts that are left are busy: deferred without the reset, with an
\* identity that is neither local nor remote.
DeferredAstray(t) ==
    /\ pc[t] = "rotating"
    /\ \E seen \in SUBSET Accounts :
        Own(t, seen) = {} /\ Open(t, seen) = {} /\ Healthy(t, seen) # {}
    /\ pc' = [pc EXCEPT ![t] = "stray"]
    /\ UNCHANGED <<row, bind, copy, failed, tries, probe, target, events>>

\* Its next deliveries fail for want of a binding until none is left.
StrayFails(t) ==
    /\ pc[t] = "stray"
    /\ pc' = [pc EXCEPT ![t] = "left"]
    /\ UNCHANGED <<row, bind, copy, failed, tries, probe, target, events>>

------------------------------------------------------------------------------
(***************************************************************************)
(* Submission                                                              *)
(***************************************************************************)

\* The task goes back to local, or on to another provider.
Reset(t) ==
    /\ bind' = [bind EXCEPT ![t] = None]
    /\ \/ /\ tries[t] < MaxTries /\ tries' = [tries EXCEPT ![t] = @ + 1]
          /\ pc' = [pc EXCEPT ![t] = "queued"]
       \/ pc' = [pc EXCEPT ![t] = "left"] /\ UNCHANGED tries

\* The delivery is tried again with the task in state s, or gives up.
Again(t, s) ==
    /\ UNCHANGED bind
    /\ \/ /\ tries[t] < MaxTries /\ tries' = [tries EXCEPT ![t] = @ + 1]
          /\ pc' = [pc EXCEPT ![t] = s]
       \/ pc' = [pc EXCEPT ![t] = "left"] /\ UNCHANGED tries

Drop(t) == copy' = [copy EXCEPT ![t] = None]

\* The browser runs for exactly this lease.
Ready(t) ==
    /\ pc[t] = "waiting"
    /\ row[bind[t]].lease = t /\ row[bind[t]].browser = t
    /\ copy' = [copy EXCEPT ![t] = row[bind[t]]]
    /\ pc' = [pc EXCEPT ![t] = "submitting"]
    /\ UNCHANGED <<row, bind, failed, tries, probe, target, events>>

\* The wait rolls back, so that its failure writes a fresh row; a failed
\* submission writes the copy.
SubmitFails(t) ==
    /\ pc[t] \in {"waiting", "submitting"}
    /\ \E r \in ReleasedFor(IF pc[t] = "waiting" THEN row[bind[t]] ELSE copy[t], t) :
        Write(bind[t], r)
    /\ failed' = [failed EXCEPT ![t] = @ \cup {bind[t]}]
    /\ \/ pc' = [pc EXCEPT ![t] = "rotating"] /\ UNCHANGED <<bind, tries>>
       \/ Reset(t)
    /\ Drop(t)
    /\ UNCHANGED <<probe, target, events>>

\* Accepted: the lane is free, the browser stays until there is a video.
Accept(t) ==
    /\ pc[t] = "submitting"
    /\ Write(bind[t], IF copy[t].browser # t THEN copy[t]
                      ELSE [copy[t] EXCEPT !.accepted = TRUE])
    /\ pc' = [pc EXCEPT ![t] = "remote"]
    /\ Drop(t)
    /\ UNCHANGED <<bind, failed, tries, probe, target, events>>

\* Acknowledged without an identity: the release is rolled back with the rest.
NoConversation(t) ==
    /\ pc[t] = "submitting"
    /\ Again(t, "marker")
    /\ Drop(t)
    /\ UNCHANGED <<row, failed, probe, target, events>>

\* leased_account: the lease, or an idle account taken again.
Leasable(r, t) == r.lease = t \/ (r.lease = None /\ r.use = "on")

\* leased_account and a neutral release, refused without effect.
Relinquish(t) ==
    LET r == Current(row[bind[t]])
    IN Write(bind[t], IF Leasable(r, t) THEN Freed(r) ELSE row[bind[t]])

\* Mutant: waits for a lease of its own.
RecoverOwned(t) ==
    /\ pc[t] = "marker" /\ row[bind[t]].lease = t
    /\ Relinquish(t)
    /\ pc' = [pc EXCEPT ![t] = "queued"] /\ bind' = [bind EXCEPT ![t] = None]
    /\ UNCHANGED <<copy, failed, tries, probe, target, events>>

\* _recover_unconfirmed_doubao_submit
Recover(t) ==
    /\ pc[t] = "marker"
    /\ Relinquish(t)
    /\ pc' = [pc EXCEPT ![t] = "queued"] /\ bind' = [bind EXCEPT ![t] = None]
    /\ UNCHANGED <<copy, failed, tries, probe, target, events>>

------------------------------------------------------------------------------
(***************************************************************************)
(* Polling                                                                 *)
(***************************************************************************)

PollStart(t) ==
    /\ pc[t] = "remote"
    /\ LET r == Current(row[bind[t]])
           held == [r EXCEPT !.lease = t, !.live = TRUE]
       IN /\ Leasable(r, t)
          /\ Write(bind[t], held)
          /\ copy' = [copy EXCEPT ![t] = held]
    /\ pc' = [pc EXCEPT ![t] = "polling"]
    /\ UNCHANGED <<bind, failed, tries, probe, target, events>>

PollRefused(t) ==
    /\ pc[t] = "remote"
    /\ ~Leasable(Current(row[bind[t]]), t)
    /\ Again(t, "remote")
    /\ UNCHANGED <<row, copy, failed, probe, target, events>>

\* The row is not written, or the browser is released.
HoldMayEnd(t) ==
    \/ UNCHANGED row
    \/ Write(bind[t], HoldEnded(copy[t], t))

PollPending(t) ==
    /\ pc[t] = "polling"
    /\ HoldMayEnd(t)
    /\ pc' = [pc EXCEPT ![t] = "remote"]
    /\ Drop(t)
    /\ UNCHANGED <<bind, failed, tries, probe, target, events>>

\* An error of the network keeps the lease, one of the account releases it.
PollFails(t) ==
    /\ pc[t] = "polling"
    /\ \/ HoldMayEnd(t)
       \/ \E r \in ReleasedFor(copy[t], t) : Write(bind[t], r)
    /\ Again(t, "remote")
    /\ Drop(t)
    /\ UNCHANGED <<failed, probe, target, events>>

\* The conversation has no video in it.
NoVideo(t) ==
    /\ pc[t] = "polling"
    /\ Write(bind[t], Freed(copy[t]))
    /\ failed' = [failed EXCEPT ![t] = @ \cup {bind[t]}]
    /\ Reset(t) /\ Drop(t)
    /\ UNCHANGED <<probe, target, events>>

\* The total wait of the task is over.
RemoteExpires(t) ==
    /\ pc[t] = "polling"
    /\ \E r \in Cooled(copy[t]) : Write(bind[t], Freed(r))
    /\ Reset(t) /\ Drop(t)
    /\ UNCHANGED <<failed, probe, target, events>>

\* A result, here or in the answer of the submission: stored, of the wrong
\* shape, or not fit to be stored.
Deliver(t) ==
    /\ pc[t] \in {"submitting", "polling"}
    /\ \/ /\ Write(bind[t], Succeeded(copy[t], t))
          /\ \/ pc' = [pc EXCEPT ![t] = "done"] /\ UNCHANGED <<bind, tries>>
             \/ Reset(t)
       \/ /\ \E r \in ReleasedFor(copy[t], t) : Write(bind[t], r)
          /\ Again(t, "remote")
    /\ Drop(t)
    /\ UNCHANGED <<failed, probe, target, events>>

------------------------------------------------------------------------------
(***************************************************************************)
(* Capability probes                                                       *)
(***************************************************************************)

\* Also a search that finds nothing clears the expired leases, row by row here.
Sweep(a) ==
    /\ Write(a, Current(row[a]))
    /\ UNCHANGED <<task, probe, target, events>>

DispatchProbe(p) ==
    /\ probe[p] = "none"
    /\ \E seen \in SUBSET Accounts : \E a \in seen :
        /\ Current(row[a]).lease = None /\ row[a].use = "on"
        /\ row[a].health \notin {"ready", "spent"} /\ ~LaneBusy(a, seen)
        /\ row' = [Swept(seen) EXCEPT ![a] =
                    [@ EXCEPT !.lease = p, !.live = TRUE, !.browser = p,
                              !.health = "untested", !.probe = p]]
        /\ target' = [target EXCEPT ![p] = a]
    /\ probe' = [probe EXCEPT ![p] = "queued"]
    /\ UNCHANGED <<task, events>>

Over(p) ==
    probe' = [probe EXCEPT ![p] = "over"] /\ target' = [target EXCEPT ![p] = None]

\* Mutant: a probe gives back whatever lease it finds.
FreedOfAnyone(r, p) == Freed(r)

\* What a probe gives back at its end: only its own lease.
FreedOf(r, p) == IF r.lease = p THEN Freed(r) ELSE r

\* The message is refused: the probe ends with the verdict of before, which
\* for an account that has made a video may now read as a known capability.
DispatchFails(p) ==
    /\ probe[p] = "queued"
    /\ LET r == row[target[p]]
       IN IF r.probe # p THEN UNCHANGED row
          ELSE \E h \in Healths :
                Write(target[p], [FreedOf(r, p) EXCEPT !.accepted = FALSE, !.health = h])
    /\ Over(p)
    /\ UNCHANGED <<task, events>>

\* Mutant: asks only whether it is the newest probe of the account.
StartNewestProbe(p) ==
    /\ probe[p] = "queued" /\ row[target[p]].probe = p
    /\ probe' = [probe EXCEPT ![p] = "running"]
    /\ UNCHANGED <<row, task, target, events>>

\* The lease is compared by name, its expiry is not looked at.
StartProbe(p) ==
    /\ probe[p] = "queued"
    /\ row[target[p]].probe = p /\ row[target[p]].lease = p
    /\ row[target[p]].live \/ p \in Late
    /\ probe' = [probe EXCEPT ![p] = "running"]
    /\ UNCHANGED <<row, task, target, events>>

StaleProbe(p) ==
    /\ probe[p] = "queued"
    /\ row[target[p]].probe # p \/ row[target[p]].lease # p
    /\ Over(p)
    /\ UNCHANGED <<row, task, events>>

\* A failure may leave the capability as it was known.  A success may enable
\* the account again, whoever has disabled it.
Probed(r) ==
    {[r EXCEPT !.health = h] : h \in Healths} \cup Barred(r) \cup
    (IF r.use # "off" THEN {}
     ELSE {[r EXCEPT !.health = h, !.use = "on"] : h \in {"ready", "spent"}})

EndProbe(p) ==
    /\ probe[p] = "running"
    /\ LET r == row[target[p]]
       IN IF r.probe # p THEN UNCHANGED row
          ELSE \E v \in Probed(r) : Write(target[p], FreedOf(v, p))
    /\ Over(p)
    /\ UNCHANGED <<task, events>>

------------------------------------------------------------------------------
(***************************************************************************)
(* Everything else                                                         *)
(***************************************************************************)

\* The cool-down of an account is over.
Heal(a) ==
    /\ row[a].health \in {"resting", "spent"}
    /\ row' = [row EXCEPT ![a].health = IF @ = "spent" THEN "ready" ELSE "doubtful"]
    /\ UNCHANGED <<task, probe, target, events>>

InUse(h, a) ==
    \/ h \in Tasks /\ pc[h] \in AtWork /\ bind[h] = a
    \/ h \in Probes /\ probe[h] = "running" /\ target[h] = a

\* A lease expires, in the row and in what a worker has read of it.
Expire(a) ==
    /\ row[a].live /\ (InUse(row[a].lease, a) => row[a].lease \in Late)
    /\ row' = [row EXCEPT ![a].live = FALSE]
    /\ copy' = [t \in Tasks |-> IF bind[t] = a /\ row[a].lease = t /\ copy[t] # None
                                THEN [copy[t] EXCEPT !.live = FALSE] ELSE copy[t]]
    /\ UNCHANGED <<pc, bind, failed, tries, probe, target, events>>

Event == events < MaxEvents /\ events' = events + 1

\* A worker dies; its message is delivered again.
Crash(t) ==
    /\ Event
    /\ \/ /\ pc[t] \in {"rotating", "waiting", "submitting"}
          /\ pc' = [pc EXCEPT ![t] = "marker"]
       \/ pc[t] = "polling" /\ pc' = [pc EXCEPT ![t] = "remote"]
    /\ Drop(t)
    /\ UNCHANGED <<row, bind, failed, tries, probe, target>>

\* A probe is killed at its time limit, which also acknowledges its message.
ProbeDies(p) ==
    /\ Event
    /\ probe[p] = "running" /\ Over(p)
    /\ UNCHANGED <<row, task>>

\* A task that is in no worker's hands loses its authority.
Supersede(t) ==
    /\ Event
    /\ pc[t] \in {"queued", "marker", "remote", "stray"}
    /\ IF bind[t] = None THEN UNCHANGED row ELSE Relinquish(t)
    /\ pc' = [pc EXCEPT ![t] = "left"]
    /\ UNCHANGED <<bind, copy, failed, tries, probe, target>>

\* A user starts a settled task again; its old lease is not given back.
ManualRetry(t) ==
    /\ Event
    /\ pc[t] \in Settled
    /\ pc' = [pc EXCEPT ![t] = "queued"] /\ bind' = [bind EXCEPT ![t] = None]
    /\ failed' = [failed EXCEPT ![t] = {}]
    /\ UNCHANGED <<row, copy, tries, probe, target>>

\* set_pool_enabled
SetEnabled(a) ==
    /\ Event
    /\ row[a].use # "barred"
    /\ \E u \in {"on", "off"} \ {row[a].use} : Write(a, [row[a] EXCEPT !.use = u])
    /\ UNCHANGED <<task, probe, target>>

------------------------------------------------------------------------------
Init ==
    /\ row \in [Accounts ->
            {[lease |-> None, live |-> FALSE, browser |-> None, accepted |-> FALSE,
              health |-> h, use |-> u, probe |-> None] :
                h \in {"ready", "untested"}, u \in {"on", "barred"}}]
    /\ \A a \in Accounts : row[a].use = "barred" => row[a].health = "untested"
    /\ pc \in [Tasks -> {"queued", "left"}]
    /\ bind = [t \in Tasks |-> None]
    /\ copy = [t \in Tasks |-> None]
    /\ failed = [t \in Tasks |-> {}]
    /\ tries = [t \in Tasks |-> 0]
    /\ probe = [p \in Probes |-> "none"]
    /\ target = [p \in Probes |-> None]
    /\ events = 0

Submission(t) ==
    \/ Claim(t) \/ Exhausted(t) \/ DeferredAstray(t) \/ StrayFails(t)
    \/ Ready(t) \/ SubmitFails(t) \/ Accept(t) \/ NoConversation(t) \/ Recover(t)

Polling(t) ==
    \/ PollStart(t) \/ PollRefused(t) \/ PollPending(t) \/ PollFails(t)
    \/ NoVideo(t) \/ RemoteExpires(t) \/ Deliver(t)

Probing(p) == StartProbe(p) \/ StaleProbe(p) \/ EndProbe(p)

Next ==
    \/ \E t \in Tasks : Submission(t) \/ Polling(t)
    \/ \E p \in Probes : DispatchProbe(p) \/ DispatchFails(p) \/ Probing(p)
    \/ \E a \in Accounts : Sweep(a) \/ Heal(a) \/ Expire(a) \/ SetEnabled(a)
    \/ \E t \in Tasks : Crash(t) \/ Supersede(t) \/ ManualRetry(t)
    \/ \E p \in Probes : ProbeDies(p)

Spec == Init /\ [][Next]_vars

\* Deliveries come again after every delay; leases, cool-downs and the wait
\* for a remote result end by the clock; the beat sweeps.
Fairness ==
    /\ \A t \in Tasks : WF_vars(Submission(t) \/ Polling(t)) /\ SF_vars(RemoteExpires(t))
    /\ \A p \in Probes : WF_vars(Probing(p))
    /\ \A a \in Accounts : WF_vars(Heal(a)) /\ WF_vars(Expire(a) \/ Sweep(a))

FairSpec == Spec /\ Fairness

------------------------------------------------------------------------------
TypeOK ==
    /\ row \in [Accounts -> Rows]
    /\ pc \in [Tasks -> {"queued", "rotating", "marker", "stray", "remote"} \cup AtWork \cup Settled]
    /\ bind \in [Tasks -> Accounts \cup {None}]
    /\ copy \in [Tasks -> Rows \cup {None}]
    /\ failed \in [Tasks -> SUBSET Accounts]
    /\ tries \in [Tasks -> 0 .. MaxTries]
    /\ probe \in [Probes -> {"none", "queued", "running", "over"}]
    /\ target \in [Probes -> Accounts \cup {None}]
    /\ events \in 0 .. MaxEvents
    /\ \A t \in Tasks : pc[t] \in {"rotating", "marker", "remote"} \cup AtWork => bind[t] # None
    /\ \A t \in Tasks : (copy[t] # None) <=> (pc[t] \in {"submitting", "polling"})
    /\ \A p \in Probes : (target[p] # None) <=> (probe[p] \in {"queued", "running"})

\* h has the Profile of account a open to submit or to probe.
Uses(h, a) ==
    \/ h \in Tasks /\ pc[h] = "submitting" /\ bind[h] = a
    \/ h \in Probes /\ probe[h] = "running" /\ target[h] = a

\* A Profile is used by one submission or probe at a time.
OneProfileUser ==
    \A a \in Accounts, g, h \in Holders : Uses(g, a) /\ Uses(h, a) => g = h

\* A lease that has not expired is ended by a step of its holder and of nobody
\* else, and is then free: workers that write back a row of minutes ago, sweeps,
\* claims, recoveries, probes and users leave it alone.
LeaseStands ==
    [][\A a \in Accounts :
        LET h == row[a].lease
        IN h # None /\ row[a].live /\ row'[a].lease # h =>
              /\ row'[a].lease = None
              /\ h \in Tasks => pc'[h] # pc[h]
              /\ h \in Probes => probe'[h] = "over"]_vars

\* A browser marker belongs to the lease beside it.
BrowserOnlyWithLease ==
    \A a \in Accounts : row[a].browser \in {None, row[a].lease}

\* No lease is held for ever.
AccountComesBack ==
    \A h \in Holders : []<>(\A a \in Accounts : row[a].lease # h)

\* A task settles, or in the end the pool has nothing for it: every account has
\* failed it, is out of the pool or waits for a probe.
TaskSettles ==
    \A t \in Tasks :
        \/ []<>(pc[t] \in Settled)
        \/ <>[](\A a \in Accounts \ failed[t] :
                    row[a].use # "on" \/ row[a].health = "untested")

\* The promises below are made by comments of the code and not kept.

\* On a lane one browser is open for submission or probing.
LaneFence ==
    \A a, b \in Accounts :
        LaneOf[a] = LaneOf[b] /\ (\E g, h \in Holders : Uses(g, a) /\ Uses(h, b)) => a = b

\* A task without a remote conversation is submitted afresh.
NothingStrays == \A t \in Tasks : pc[t] # "stray"

\* A task whose accounts have all failed it settles, by another provider if need be.
RouteAdvances == \A t \in Tasks : failed[t] = Accounts ~> pc[t] \in Settled

\* Only a user enables an account that a user has disabled.
DisableStands ==
    [][\A a \in Accounts : row[a].use = "off" /\ row'[a].use = "on" => SetEnabled(a)]_vars
=============================================================================
