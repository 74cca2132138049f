------------------------- MODULE AccountPoolProofs -------------------------
(***************************************************************************)
(* Proofs about AccountPool for every set of tasks, accounts and probes,   *)
(* every assignment of lanes and any number of retries, deaths and         *)
(* interventions of users.                                                 *)
(***************************************************************************)
EXTENDS AccountPool, TLAPS

USE PoolActors, PoolBounds, NoRow DEF Holders, Settled, AtWork

\* A row, or the copy a worker has of it, with a browser marker of its lease.
Good(r) == r \in Rows /\ r.browser \in {None, r.lease}

Sound ==
    /\ TypeOK
    /\ \A a \in Accounts : Good(row[a])
    /\ \A t \in Tasks : copy[t] # None => Good(copy[t])

\* Whoever uses an account or waits for its browser has the lease, and what a
\* worker has read of the row says so.
TaskHolds(t) ==
    /\ pc[t] \in AtWork => row[bind[t]].lease = t /\ row[bind[t]].live
    /\ copy[t] # None => copy[t].lease = t /\ copy[t].live

ProbeHolds(p) ==
    probe[p] = "running" => row[target[p]].lease = p /\ row[target[p]].live

\* Probes may be late, which is their own harm.
Held == (\A t \in Tasks : TaskHolds(t)) /\ (\A p \in Probes \ Late : ProbeHolds(p))

------------------------------------------------------------------------------
(***************************************************************************)
(* What the operators on rows return                                       *)
(***************************************************************************)

\* Clearing what has expired touches no lease that is live.
LEMMA CurrentRow ==
    ASSUME NEW r \in Rows, Good(r)
    PROVE  /\ Good(Current(r))
           /\ r.live => Current(r) = r
           /\ Current(r).use = r.use
BY DEF Good, Rows, Current, Freed

LEMMA FreedRow ==
    ASSUME NEW r \in Rows, Good(r)
    PROVE  Good(Freed(r)) /\ Freed(r).use = r.use
BY DEF Good, Rows, Freed

LEMMA ErrorRows ==
    ASSUME NEW r \in Rows, Good(r), NEW v \in {r} \cup Cooled(r) \cup Barred(r)
    PROVE  v \in Rows /\ Good(v) /\ v.lease = r.lease /\ v.live = r.live
<1>1. CASE v \in Cooled(r)
  <2>1. PICK h \in Healths : v = [r EXCEPT !.health = h]
    BY <1>1 DEF Cooled, Healths
  <2>2. QED BY <2>1 DEF Good, Rows
<1>2. CASE v \in Barred(r)
  <2>1. PICK u \in {"off", "barred"} : v = [r EXCEPT !.health = "untested", !.use = u]
    BY <1>2 DEF Barred
  <2>2. QED BY <2>1 DEF Good, Rows, Healths
<1>3. QED BY <1>1, <1>2 DEF Good

LEMMA ReleasedRows ==
    ASSUME NEW r \in Rows, Good(r), NEW t, NEW v \in ReleasedFor(r, t)
    PROVE  Good(v)
<1>1. CASE r.lease # t
  BY <1>1 DEF ReleasedFor
<1>2. CASE r.lease = t
  <2>1. PICK w \in {r} \cup Cooled(r) \cup Barred(r) : v = Freed(w)
    BY <1>2 DEF ReleasedFor
  <2>2. QED BY <2>1, ErrorRows, FreedRow
<1>3. QED BY <1>1, <1>2

LEMMA SucceededRow ==
    ASSUME NEW r \in Rows, Good(r), NEW t
    PROVE  Good(Succeeded(r, t))
<1> DEFINE v == [r EXCEPT !.health = "ready",
                          !.use = IF @ = "barred" THEN "off" ELSE @]
<1>1. v \in Rows /\ Good(v)
  BY DEF Good, Rows, Healths
<1>2. Good(Freed(v))
  BY <1>1, FreedRow
<1>3. QED BY <1>2 DEF Succeeded

LEMMA HoldEndedRow ==
    ASSUME NEW r \in Rows, Good(r), NEW t
    PROVE  /\ Good(HoldEnded(r, t))
           /\ HoldEnded(r, t).lease = r.lease /\ HoldEnded(r, t).live = r.live
BY DEF Good, Rows, HoldEnded

LEMMA ProbedRows ==
    ASSUME NEW r \in Rows, Good(r), NEW p, NEW v \in Probed(r)
    PROVE  v \in Rows /\ Good(FreedOf(v, p)) /\ v.lease = r.lease /\ v.live = r.live
<1>1. v \in Rows /\ Good(v) /\ v.lease = r.lease /\ v.live = r.live
  <2>1. CASE v \in Barred(r)
    BY <2>1, ErrorRows
  <2>2. CASE v \notin Barred(r)
    <3>1. PICK h \in Healths, u \in {r.use, "on"} : v = [r EXCEPT !.health = h, !.use = u]
      <4>1. ASSUME NEW h \in Healths, v = [r EXCEPT !.health = h]
            PROVE  v = [r EXCEPT !.health = h, !.use = r.use]
        BY <4>1 DEF Rows
      <4>2. QED BY <2>2, <4>1 DEF Probed, Healths
    <3>2. QED BY <3>1 DEF Good, Rows
  <2>3. QED BY <2>1, <2>2
<1>2. QED BY <1>1, FreedRow DEF FreedOf

LEMMA TakenRow ==
    ASSUME NEW r \in Rows, Good(r), NEW t \in Tasks, r.lease \in {t, None}
    PROVE  /\ Good(Taken(r, t)) /\ Taken(r, t).lease = t
           /\ r.lease = None \/ r.live => Taken(r, t).live
BY DEF Good, Rows, Taken

\* A lease that is left after the clearing is live.
LEMMA CurrentLease ==
    ASSUME NEW r \in Rows, Current(r).lease # None
    PROVE  r.live /\ Current(r) = r
BY DEF Rows, Current, Freed

\* A search leaves the rows in order, and every live lease in its place.
LEMMA Search ==
    ASSUME Sound, NEW seen \in SUBSET Accounts
    PROVE  /\ Swept(seen) \in [Accounts -> Rows]
           /\ \A a \in Accounts : Good(Swept(seen)[a])
           /\ \A a \in Accounts : row[a].live => Swept(seen)[a] = row[a]
           /\ \A a \in seen : Swept(seen)[a] = Current(row[a])
BY CurrentRow DEF Swept, Sound, TypeOK, Good

------------------------------------------------------------------------------
(***************************************************************************)
(* Sound is inductive                                                      *)
(***************************************************************************)

LEMMA SoundInit == Init => Sound
<1> SUFFICES ASSUME Init PROVE Sound
  OBVIOUS
<1>1. \A a \in Accounts : Good(row[a]) /\ row \in [Accounts -> Rows]
  <2>1. /\ row = [a \in Accounts |-> row[a]]
        /\ \A a \in Accounts : \E h \in {"ready", "untested"}, u \in {"on", "barred"} :
              row[a] = [lease |-> None, live |-> FALSE, browser |-> None,
                        accepted |-> FALSE, health |-> h, use |-> u, probe |-> None]
    BY DEF Init
  <2>2. ASSUME NEW a \in Accounts PROVE Good(row[a])
    <3>1. PICK h \in Healths, u \in {"on", "off", "barred"} :
            row[a] = [lease |-> None, live |-> FALSE, browser |-> None,
                      accepted |-> FALSE, health |-> h, use |-> u, probe |-> None]
      BY <2>1 DEF Healths
    <3>2. row[a] \in Rows
      BY <3>1 DEF Rows
    <3>3. QED BY <3>1, <3>2 DEF Good
  <2>3. QED BY <2>1, <2>2 DEF Good
<1>2. TypeOK
  BY <1>1 DEF Init, TypeOK
<1>3. QED BY <1>1, <1>2 DEF Sound, Init

\* A step that writes one row, and at most drops a copy.
LEMMA WriteGood ==
    ASSUME Sound, NEW a \in Accounts, NEW v, Good(v), Write(a, v),
           \A t \in Tasks : copy'[t] \in {copy[t], None}
    PROVE  /\ row' \in [Accounts -> Rows]
           /\ \A b \in Accounts : Good(row'[b])
           /\ \A t \in Tasks : copy'[t] # None => Good(copy'[t])
BY DEF Sound, TypeOK, Write, Good

\* What a worker has bound and read.
LEMMA Bound ==
    ASSUME Sound, NEW t \in Tasks
    PROVE  /\ pc[t] \in {"rotating", "marker", "remote"} \cup AtWork =>
                bind[t] \in Accounts /\ row[bind[t]] \in Rows /\ Good(row[bind[t]])
           /\ pc[t] \in {"submitting", "polling"} => copy[t] \in Rows /\ Good(copy[t])
BY DEF Sound, TypeOK

LEMMA ProbeBound ==
    ASSUME Sound, NEW p \in Probes, probe[p] \in {"queued", "running"}
    PROVE  target[p] \in Accounts /\ row[target[p]] \in Rows /\ Good(row[target[p]])
BY DEF Sound, TypeOK

\* The rows after a step are good, the copies too.
RowsGood ==
    /\ row' \in [Accounts -> Rows]
    /\ \A a \in Accounts : Good(row'[a])
    /\ \A t \in Tasks : copy'[t] # None => Good(copy'[t])

LEMMA SameRowsGood ==
    ASSUME Sound, UNCHANGED row, \A t \in Tasks : copy'[t] \in {copy[t], None}
    PROVE  RowsGood
BY DEF Sound, TypeOK, RowsGood, Good

LEMMA DropCopy ==
    ASSUME Sound, NEW t \in Tasks, Drop(t)
    PROVE  /\ copy' \in [Tasks -> Rows \cup {None}] /\ copy'[t] = None
           /\ \A u \in Tasks \ {t} : copy'[u] = copy[u]
BY DEF Sound, TypeOK, Drop

LEMMA RelinquishGood ==
    ASSUME Sound, NEW t \in Tasks, bind[t] \in Accounts, Relinquish(t), UNCHANGED copy
    PROVE  RowsGood
<1> DEFINE r == Current(row[bind[t]])
<1>1. Good(row[bind[t]]) /\ row[bind[t]] \in Rows
  BY DEF Sound, TypeOK
<1>2. Good(r) /\ r \in Rows
  BY <1>1, CurrentRow DEF Good
<1>3. Good(Freed(r))
  BY <1>2, FreedRow
<1>4. QED BY <1>1, <1>3, WriteGood DEF Relinquish, RowsGood

\* With good rows, the other variables keep their types.
LEMMA SubmissionSound ==
    ASSUME Sound, NEW t \in Tasks, Submission(t)
    PROVE  Sound'
<1> USE DEF Sound
<1>1. CASE Claim(t)
  <2>1. PICK seen \in SUBSET Accounts :
          \E a \in IF Own(t, seen) # {} THEN Own(t, seen) ELSE Open(t, seen) :
            /\ row' = [Swept(seen) EXCEPT ![a] = Taken(Swept(seen)[a], t)]
            /\ bind' = [bind EXCEPT ![t] = a]
    BY <1>1 DEF Claim
  <2>a. PICK a \in IF Own(t, seen) # {} THEN Own(t, seen) ELSE Open(t, seen) :
          /\ row' = [Swept(seen) EXCEPT ![a] = Taken(Swept(seen)[a], t)]
          /\ bind' = [bind EXCEPT ![t] = a]
    BY <2>1
  <2>2. a \in seen /\ a \in Accounts /\ Current(row[a]).lease \in {t, None}
    BY <2>a DEF Own, Open, Healthy
  <2>3. Good(Current(row[a])) /\ Swept(seen)[a] = Current(row[a])
    BY <2>2, CurrentRow, Search DEF TypeOK
  <2>4. Good(Taken(Swept(seen)[a], t))
    BY <2>2, <2>3, TakenRow DEF Good
  <2>5. RowsGood
    BY <1>1, <2>a, <2>2, <2>4, Search DEF RowsGood, Claim, Good
  <2>6. QED BY <1>1, <2>a, <2>2, <2>5 DEF RowsGood, Claim, TypeOK
<1>2. CASE Exhausted(t)
  <2>1. RowsGood
    BY <1>2, Search DEF RowsGood, Exhausted
  <2>2. QED BY <1>2, <2>1 DEF RowsGood, Exhausted, TypeOK
<1>3. CASE DeferredAstray(t) \/ StrayFails(t)
  <2>1. RowsGood
    BY <1>3, SameRowsGood DEF DeferredAstray, StrayFails
  <2>2. QED BY <1>3, <2>1 DEF RowsGood, DeferredAstray, StrayFails, TypeOK
<1>4. CASE Ready(t)
  <2>1. Good(row[bind[t]]) /\ row[bind[t]] \in Rows
    BY <1>4, Bound DEF Ready
  <2>2. RowsGood
    BY <1>4, <2>1 DEF RowsGood, Ready, TypeOK
  <2>3. QED BY <1>4, <2>1, <2>2 DEF RowsGood, Ready, TypeOK
<1>5. CASE SubmitFails(t)
  <2> DEFINE r == IF pc[t] = "waiting" THEN row[bind[t]] ELSE copy[t]
  <2>1. r \in Rows /\ Good(r) /\ bind[t] \in Accounts
    BY <1>5, Bound DEF SubmitFails
  <2>2. PICK v \in ReleasedFor(r, t) : Write(bind[t], v)
    BY <1>5 DEF SubmitFails
  <2>3. Good(v)
    BY <2>1, <2>2, ReleasedRows
  <2>4. RowsGood
    BY <1>5, <2>1, <2>2, <2>3, WriteGood, DropCopy DEF SubmitFails, RowsGood
  <2>5. pc' \in [Tasks -> {"queued", "rotating", "left"} \cup {pc[u] : u \in Tasks}]
    BY <1>5 DEF SubmitFails, Reset, TypeOK
  <2>6. QED BY <1>5, <2>1, <2>4, DropCopy DEF RowsGood, SubmitFails, Reset, TypeOK
<1>6. CASE Accept(t)
  <2>1. copy[t] \in Rows /\ Good(copy[t]) /\ bind[t] \in Accounts
    BY <1>6, Bound DEF Accept
  <2> DEFINE r == [copy[t] EXCEPT !.accepted = TRUE]
  <2>a. r \in Rows /\ Good(r)
    BY <2>1 DEF Good, Rows
  <2>2. PICK v : Write(bind[t], v) /\ Good(v)
    BY <1>6, <2>1, <2>a DEF Accept
  <2>3. RowsGood
    BY <1>6, <2>1, <2>2, WriteGood, DropCopy DEF Accept, RowsGood
  <2>4. QED BY <1>6, <2>1, <2>3, DropCopy DEF RowsGood, Accept, TypeOK
<1>7. CASE NoConversation(t)
  <2>1. RowsGood
    BY <1>7, SameRowsGood, DropCopy DEF NoConversation
  <2>2. QED BY <1>7, <2>1, DropCopy DEF RowsGood, NoConversation, Again, TypeOK
<1>8. CASE Recover(t)
  <2>1. bind[t] \in Accounts
    BY <1>8, Bound DEF Recover
  <2>2. RowsGood
    BY <1>8, <2>1, RelinquishGood DEF Recover
  <2>3. QED BY <1>8, <2>2 DEF RowsGood, Recover, TypeOK
<1>9. QED BY <1>1, <1>2, <1>3, <1>4, <1>5, <1>6, <1>7, <1>8 DEF Submission

LEMMA PollingSound ==
    ASSUME Sound, NEW t \in Tasks, Polling(t)
    PROVE  Sound'
<1> USE DEF Sound
<1>1. CASE PollStart(t)
  <2> DEFINE r == Current(row[bind[t]])
             held == [r EXCEPT !.lease = t, !.live = TRUE]
  <2>1. bind[t] \in Accounts /\ row[bind[t]] \in Rows /\ Good(row[bind[t]])
    BY <1>1, Bound DEF PollStart
  <2>2. r \in Rows /\ Good(r)
    BY <2>1, CurrentRow DEF Good
  <2>3. r.lease \in {t, None} /\ Write(bind[t], held) /\ copy' = [copy EXCEPT ![t] = held]
    BY <1>1 DEF PollStart, Leasable
  <2>4. held \in Rows /\ Good(held)
    BY <2>2, <2>3 DEF Good, Rows
  <2>5. RowsGood
    BY <2>1, <2>3, <2>4 DEF RowsGood, Write, TypeOK
  <2>6. QED BY <1>1, <2>3, <2>4, <2>5 DEF RowsGood, PollStart, TypeOK
<1>2. CASE PollRefused(t)
  <2>1. RowsGood
    BY <1>2, SameRowsGood DEF PollRefused
  <2>2. QED BY <1>2, <2>1 DEF RowsGood, PollRefused, Again, TypeOK
<1>3. ASSUME pc[t] \in {"submitting", "polling"}, Drop(t),
             UNCHANGED row \/ \E v : Good(v) /\ Write(bind[t], v)
      PROVE  RowsGood
  <2>1. bind[t] \in Accounts
    BY <1>3, Bound
  <2>2. QED BY <1>3, <2>1, WriteGood, SameRowsGood, DropCopy DEF RowsGood
<1>4. ASSUME pc[t] \in {"submitting", "polling"}
      PROVE  /\ copy[t] \in Rows /\ Good(copy[t])
             /\ \A v \in ReleasedFor(copy[t], t) : Good(v)
             /\ Good(HoldEnded(copy[t], t)) /\ Good(Succeeded(copy[t], t))
             /\ \A v \in {copy[t]} \cup Cooled(copy[t]) : Good(Freed(v))
  <2>1. copy[t] \in Rows /\ Good(copy[t])
    BY <1>4, Bound
  <2>2. QED BY <2>1, ReleasedRows, HoldEndedRow, SucceededRow, ErrorRows, FreedRow
<1>5. CASE PollPending(t)
  <2>1. RowsGood
    BY <1>3, <1>4, <1>5 DEF PollPending, HoldMayEnd
  <2>2. QED BY <1>5, <2>1, DropCopy DEF RowsGood, PollPending, TypeOK
<1>6. CASE PollFails(t)
  <2>1. RowsGood
    BY <1>3, <1>4, <1>6 DEF PollFails, HoldMayEnd
  <2>2. QED BY <1>6, <2>1, DropCopy DEF RowsGood, PollFails, Again, TypeOK
<1>7. CASE NoVideo(t)
  <2>1. RowsGood
    BY <1>3, <1>4, <1>7 DEF NoVideo
  <2>2. bind[t] \in Accounts
    BY <1>7, Bound DEF NoVideo
  <2>3. QED BY <1>7, <2>1, <2>2, DropCopy DEF RowsGood, NoVideo, Reset, TypeOK
<1>8. CASE RemoteExpires(t)
  <2>1. RowsGood
    BY <1>3, <1>4, <1>8 DEF RemoteExpires
  <2>2. QED BY <1>8, <2>1, DropCopy DEF RowsGood, RemoteExpires, Reset, TypeOK
<1>9. CASE Deliver(t)
  <2>1. RowsGood
    BY <1>3, <1>4, <1>9 DEF Deliver
  <2>2. QED BY <1>9, <2>1, DropCopy, Bound DEF RowsGood, Deliver, Reset, Again, TypeOK
<1>10. QED BY <1>1, <1>2, <1>5, <1>6, <1>7, <1>8, <1>9 DEF Polling

LEMMA ProbeSound ==
    ASSUME Sound, NEW p \in Probes, DispatchProbe(p) \/ DispatchFails(p) \/ Probing(p) \/ ProbeDies(p)
    PROVE  Sound'
<1> USE DEF Sound
<1>1. CASE DispatchProbe(p)
  <2> DEFINE claimed(r) == [r EXCEPT !.lease = p, !.live = TRUE, !.browser = p,
                                     !.health = "untested", !.probe = p]
  <2>1. PICK seen \in SUBSET Accounts : \E a \in seen :
          /\ row' = [Swept(seen) EXCEPT ![a] = claimed(Swept(seen)[a])]
          /\ target' = [target EXCEPT ![p] = a]
    BY <1>1 DEF DispatchProbe
  <2>2. PICK a \in Accounts :
          /\ row' = [Swept(seen) EXCEPT ![a] = claimed(Swept(seen)[a])]
          /\ target' = [target EXCEPT ![p] = a]
    BY <2>1
  <2>a. ASSUME NEW r \in Rows PROVE claimed(r) \in Rows /\ Good(claimed(r))
    BY DEF Good, Rows, Healths
  <2>b. Swept(seen)[a] \in Rows
    BY Search
  <2>3. PICK v \in Rows : Good(v) /\ row' = [Swept(seen) EXCEPT ![a] = v]
    BY <2>2, <2>a, <2>b
  <2>4. RowsGood
    BY <1>1, <2>3, Search DEF RowsGood, DispatchProbe, task
  <2>c. target' = [target EXCEPT ![p] = a] /\ probe' = [probe EXCEPT ![p] = "queued"]
        /\ UNCHANGED <<task, events>>
    BY <1>1, <2>2 DEF DispatchProbe
  <2>5. QED BY <2>c, <2>4 DEF RowsGood, task, TypeOK
<1>2. ASSUME Over(p), UNCHANGED task, events' \in 0 .. MaxEvents, RowsGood
      PROVE  Sound'
  BY <1>2 DEF Over, task, RowsGood, TypeOK
<1>3. ASSUME UNCHANGED row, UNCHANGED task
      PROVE  RowsGood
  BY <1>3, SameRowsGood DEF task
<1>4. ASSUME NEW a \in Accounts, NEW v, Good(v), Write(a, v), UNCHANGED task
      PROVE  RowsGood
  BY <1>4, WriteGood DEF RowsGood, task
<1>5. CASE DispatchFails(p)
  <2> DEFINE r == row[target[p]]
  <2>1. target[p] \in Accounts /\ r \in Rows /\ Good(r)
    BY <1>5, ProbeBound DEF DispatchFails
  <2>2. FreedOf(r, p) \in Rows /\ Good(FreedOf(r, p))
    BY <2>1, FreedRow DEF FreedOf, Good
  <2>3. ASSUME NEW h \in Healths
        PROVE  Good([FreedOf(r, p) EXCEPT !.accepted = FALSE, !.health = h])
    BY <2>2 DEF Good, Rows
  <2>4. RowsGood
    BY <1>3, <1>4, <1>5, <2>1, <2>3 DEF DispatchFails
  <2>5. QED BY <1>2, <1>5, <2>4 DEF DispatchFails, TypeOK
<1>6. CASE EndProbe(p)
  <2> DEFINE r == row[target[p]]
  <2>1. target[p] \in Accounts /\ r \in Rows /\ Good(r)
    BY <1>6, ProbeBound DEF EndProbe
  <2>2. RowsGood
    BY <1>3, <1>4, <1>6, <2>1, ProbedRows DEF EndProbe
  <2>3. QED BY <1>2, <1>6, <2>2 DEF EndProbe, TypeOK
<1>7. CASE StaleProbe(p) \/ ProbeDies(p)
  BY <1>2, <1>3, <1>7 DEF StaleProbe, ProbeDies, Event, TypeOK
<1>8. CASE StartProbe(p)
  <2>1. RowsGood
    BY <1>3, <1>8 DEF StartProbe
  <2>2. QED BY <1>8, <2>1 DEF StartProbe, RowsGood, task, TypeOK
<1>9. QED BY <1>1, <1>5, <1>6, <1>7, <1>8 DEF Probing

LEMMA AccountSound ==
    ASSUME Sound, NEW a \in Accounts, Sweep(a) \/ Heal(a) \/ Expire(a) \/ SetEnabled(a)
    PROVE  Sound'
<1> USE DEF Sound
<1>1. row[a] \in Rows /\ Good(row[a])
  BY DEF TypeOK
<1>2. ASSUME NEW v, Good(v), Write(a, v), UNCHANGED <<task, probe, target>>,
             events' \in 0 .. MaxEvents
      PROVE  Sound'
  <2>1. RowsGood
    BY <1>2, WriteGood DEF RowsGood, task
  <2>2. QED BY <1>2, <2>1 DEF RowsGood, task, TypeOK
<1>3. CASE Sweep(a)
  BY <1>1, <1>2, <1>3, CurrentRow DEF Sweep, TypeOK
<1>4. CASE Heal(a)
  <2> DEFINE v == [row[a] EXCEPT !.health = IF @ = "spent" THEN "ready" ELSE "doubtful"]
  <2>1. Good(v)
    BY <1>1 DEF Good, Rows, Healths
  <2>2. Write(a, v)
    BY <1>4 DEF Heal, Write
  <2>3. QED BY <1>2, <1>4, <2>1, <2>2 DEF Heal, TypeOK
<1>5. CASE SetEnabled(a)
  <2>1. PICK u \in {"on", "off"} : Write(a, [row[a] EXCEPT !.use = u])
    BY <1>5 DEF SetEnabled
  <2>2. Good([row[a] EXCEPT !.use = u])
    BY <1>1 DEF Good, Rows
  <2>3. QED BY <1>2, <1>5, <2>1, <2>2 DEF SetEnabled, Event, TypeOK
<1>6. CASE Expire(a)
  <2>1. \A r \in Rows : Good(r) =>
           [r EXCEPT !.live = FALSE] \in Rows /\ Good([r EXCEPT !.live = FALSE])
    BY DEF Good, Rows
  <2>2. row' = [row EXCEPT ![a] = [row[a] EXCEPT !.live = FALSE]]
    BY <1>6 DEF Expire
  <2>3. row' \in [Accounts -> Rows] /\ \A b \in Accounts : Good(row'[b])
    BY <1>1, <2>1, <2>2 DEF TypeOK
  <2>4. ASSUME NEW t \in Tasks
        PROVE  /\ copy'[t] \in Rows \cup {None}
               /\ copy'[t] # None => Good(copy'[t])
               /\ copy'[t] # None <=> copy[t] # None
    BY <1>6, <2>1 DEF Expire, TypeOK
  <2>5. copy' \in [Tasks -> Rows \cup {None}]
    BY <1>6, <2>4 DEF Expire
  <2>6. QED BY <1>6, <2>3, <2>4, <2>5 DEF Expire, TypeOK
<1>7. QED BY <1>3, <1>4, <1>5, <1>6

LEMMA TaskEventSound ==
    ASSUME Sound, NEW t \in Tasks, Crash(t) \/ Supersede(t) \/ ManualRetry(t)
    PROVE  Sound'
<1> USE DEF Sound
<1>1. events' \in 0 .. MaxEvents
  BY DEF Crash, Supersede, ManualRetry, Event, TypeOK
<1>2. CASE Crash(t)
  <2>1. RowsGood
    BY <1>2, SameRowsGood, DropCopy DEF Crash
  <2>2. QED BY <1>1, <1>2, <2>1, DropCopy DEF RowsGood, Crash, TypeOK
<1>3. CASE Supersede(t)
  <2>1. RowsGood
    BY <1>3, RelinquishGood, SameRowsGood DEF Supersede, TypeOK
  <2>2. QED BY <1>1, <1>3, <2>1 DEF RowsGood, Supersede, TypeOK
<1>4. CASE ManualRetry(t)
  <2>1. RowsGood
    BY <1>4, SameRowsGood DEF ManualRetry
  <2>2. QED BY <1>1, <1>4, <2>1 DEF RowsGood, ManualRetry, TypeOK
<1>5. QED BY <1>2, <1>3, <1>4

LEMMA SoundNext == Sound /\ [Next]_vars => Sound'
<1> SUFFICES ASSUME Sound, [Next]_vars PROVE Sound'
  OBVIOUS
<1>1. CASE UNCHANGED vars
  BY <1>1 DEF vars, task, Sound, TypeOK, Good
<1>2. CASE Next
  BY <1>2, SubmissionSound, PollingSound, ProbeSound, AccountSound, TaskEventSound DEF Next
<1>3. QED BY <1>1, <1>2

LEMMA AlwaysSound == Spec => []Sound
BY SoundInit, SoundNext, PTL DEF Spec

------------------------------------------------------------------------------
(***************************************************************************)
(* Held is inductive when no task is late                                  *)
(***************************************************************************)

\* The live leases that are not h's stay as they are; all that are live stay.
Keeps(h) ==
    \A b \in Accounts : row[b].live /\ row[b].lease \notin {None, h} =>
        row'[b].lease = row[b].lease /\ row'[b].live

LeasesKept ==
    \A b \in Accounts : row[b].live /\ row[b].lease # None => row'[b].lease = row[b].lease

LEMMA TaskStepHolds ==
    ASSUME Sound, Held, NEW t \in Tasks, Keeps(t), TaskHolds(t)', UNCHANGED <<probe, target>>,
           \A u \in Tasks \ {t} : pc'[u] = pc[u] /\ bind'[u] = bind[u] /\ copy'[u] = copy[u]
    PROVE  Held'
<1>1. ASSUME NEW u \in Tasks \ {t} PROVE TaskHolds(u)'
  BY <1>1, Bound DEF Held, TaskHolds, Keeps
<1>2. ASSUME NEW p \in Probes \ Late PROVE ProbeHolds(p)'
  BY <1>2, ProbeBound DEF Held, ProbeHolds, Keeps
<1>3. QED BY <1>1, <1>2 DEF Held

LEMMA ProbeStepHolds ==
    ASSUME Sound, Held, NEW p \in Probes, Keeps(p), p \notin Late => ProbeHolds(p)',
           UNCHANGED task,
           \A q \in Probes \ {p} : probe'[q] = probe[q] /\ target'[q] = target[q]
    PROVE  Held'
<1>1. ASSUME NEW u \in Tasks PROVE TaskHolds(u)'
  BY <1>1, Bound DEF Held, TaskHolds, Keeps, task
<1>2. ASSUME NEW q \in Probes \ (Late \cup {p}) PROVE ProbeHolds(q)'
  BY <1>2, ProbeBound DEF Held, ProbeHolds, Keeps
<1>3. QED BY <1>1, <1>2 DEF Held

LEMMA RowStepHolds ==
    ASSUME Sound, Held, Keeps(None), UNCHANGED <<task, probe, target>>
    PROVE  Held'
<1>1. ASSUME NEW u \in Tasks PROVE TaskHolds(u)'
  BY <1>1, Bound DEF Held, TaskHolds, Keeps, task
<1>2. ASSUME NEW q \in Probes \ Late PROVE ProbeHolds(q)'
  BY <1>2, ProbeBound DEF Held, ProbeHolds, Keeps
<1>3. QED BY <1>1, <1>2 DEF Held

\* Whoever writes a row that only it may have a lease on keeps the others'.
LEMMA WriteKeeps ==
    ASSUME Sound, NEW h, NEW a \in Accounts, NEW v, Write(a, v),
           \/ row[a].lease \in {h, None}
           \/ ~row[a].live
           \/ v.lease = row[a].lease /\ v.live = row[a].live
    PROVE  Keeps(h)
BY DEF Keeps, Write, Sound, TypeOK

LEMMA SameKeeps ==
    ASSUME UNCHANGED row, NEW h
    PROVE  Keeps(h)
BY DEF Keeps

LEMMA RelinquishKeeps ==
    ASSUME Sound, NEW t \in Tasks, bind[t] \in Accounts, Relinquish(t)
    PROVE  Keeps(t)
<1> DEFINE r == row[bind[t]]
<1>1. r \in Rows /\ Good(r)
  BY DEF Sound, TypeOK
<1>2. r.live => Current(r) = r
  BY <1>1, CurrentRow
<1>3. CASE Leasable(Current(r), t)
  BY <1>2, <1>3, WriteKeeps DEF Relinquish, Leasable
<1>4. CASE ~Leasable(Current(r), t)
  BY <1>4, WriteKeeps DEF Relinquish
<1>5. QED BY <1>3, <1>4

LEMMA SubmissionHolds ==
    ASSUME Sound, Held, NEW t \in Tasks, Submission(t)
    PROVE  Held' /\ Keeps(t)
<1>t. TypeOK /\ TaskHolds(t)
  BY DEF Sound, Held
<1>1. ASSUME UNCHANGED <<probe, target>>, Keeps(t), TaskHolds(t)',
             bind' = bind \/ \E a : bind' = [bind EXCEPT ![t] = a],
             copy' = copy \/ \E r : copy' = [copy EXCEPT ![t] = r],
             \E s : pc' = [pc EXCEPT ![t] = s]
      PROVE  Held' /\ Keeps(t)
  BY <1>t, <1>1, TaskStepHolds DEF TypeOK
<1>2. ASSUME pc'[t] \notin AtWork, copy'[t] = None
      PROVE  TaskHolds(t)'
  BY <1>2 DEF TaskHolds
<1>3. CASE Claim(t)
  <2>1. PICK seen \in SUBSET Accounts :
          \E a \in IF Own(t, seen) # {} THEN Own(t, seen) ELSE Open(t, seen) :
            /\ row' = [Swept(seen) EXCEPT ![a] = Taken(Swept(seen)[a], t)]
            /\ bind' = [bind EXCEPT ![t] = a]
    BY <1>3 DEF Claim
  <2>2. PICK a \in IF Own(t, seen) # {} THEN Own(t, seen) ELSE Open(t, seen) :
          /\ row' = [Swept(seen) EXCEPT ![a] = Taken(Swept(seen)[a], t)]
          /\ bind' = [bind EXCEPT ![t] = a]
    BY <2>1
  <2> DEFINE r == Current(row[a])
  <2>3. a \in Accounts /\ r.lease \in {t, None} /\ Swept(seen)[a] = r
    BY <2>2, Search DEF Own, Open, Healthy
  <2>4. row[a] \in Rows /\ r \in Rows /\ Good(r) /\ (row[a].live => r = row[a])
    BY <2>3, CurrentRow DEF Sound, TypeOK, Good
  <2>5. r.lease = None \/ r.live
    BY <2>4, CurrentLease
  <2>6. Taken(r, t).lease = t /\ Taken(r, t).live
    BY <2>3, <2>4, <2>5, TakenRow
  <2>7. row'[a] = Taken(r, t) /\ \A b \in Accounts \ {a} : row'[b] = Swept(seen)[b]
    BY <2>2, <2>3, Search
  <2>8. Keeps(t)
    BY <2>3, <2>4, <2>7, Search DEF Keeps
  <2>9. TaskHolds(t)'
    BY <1>3, <1>t, <2>2, <2>3, <2>6, <2>7 DEF TaskHolds, Claim, TypeOK
  <2>10. QED BY <1>1, <1>3, <2>2, <2>8, <2>9 DEF Claim
<1>4. CASE Exhausted(t)
  <2>1. Keeps(t)
    BY <1>4, Search DEF Exhausted, Keeps
  <2>2. QED BY <1>1, <1>2, <1>4, <1>t, <2>1 DEF Exhausted, TypeOK
<1>5. CASE DeferredAstray(t) \/ StrayFails(t)
  BY <1>1, <1>2, <1>5, <1>t, SameKeeps DEF DeferredAstray, StrayFails, TypeOK
<1>6. CASE Ready(t)
  <2>1. row[bind[t]].lease = t /\ row[bind[t]].live
    BY <1>6, <1>t DEF Ready, TaskHolds
  <2>2. TaskHolds(t)'
    BY <1>6, <1>t, <2>1 DEF Ready, TaskHolds, TypeOK
  <2>3. QED BY <1>1, <1>6, <2>2, SameKeeps DEF Ready
<1>7. CASE SubmitFails(t)
  <2>1. bind[t] \in Accounts /\ row[bind[t]].lease = t
    BY <1>7, <1>t, Bound DEF SubmitFails, TaskHolds
  <2>2. Keeps(t)
    BY <1>7, <2>1, WriteKeeps DEF SubmitFails
  <2>3. TaskHolds(t)'
    BY <1>2, <1>7, <1>t, DropCopy DEF SubmitFails, Reset, TypeOK
  <2>4. QED BY <1>1, <1>7, <2>2, <2>3 DEF SubmitFails, Reset, Drop
<1>8. CASE Accept(t)
  <2>1. bind[t] \in Accounts /\ row[bind[t]].lease = t
    BY <1>8, <1>t, Bound DEF Accept, TaskHolds
  <2>2. Keeps(t)
    BY <1>8, <2>1, WriteKeeps DEF Accept
  <2>3. TaskHolds(t)'
    BY <1>2, <1>8, <1>t, DropCopy DEF Accept, TypeOK
  <2>4. QED BY <1>1, <1>8, <2>2, <2>3 DEF Accept, Drop
<1>9. CASE NoConversation(t)
  <2>1. TaskHolds(t)'
    BY <1>2, <1>9, <1>t, DropCopy DEF NoConversation, Again, TypeOK
  <2>2. QED BY <1>1, <1>9, <2>1, SameKeeps DEF NoConversation, Again, Drop
<1>10. CASE Recover(t)
  <2>1. Keeps(t)
    BY <1>10, Bound, RelinquishKeeps DEF Recover
  <2>2. QED BY <1>1, <1>2, <1>10, <1>t, <2>1 DEF Recover, TypeOK
<1>11. QED BY <1>3, <1>4, <1>5, <1>6, <1>7, <1>8, <1>9, <1>10 DEF Submission

LEMMA PollingHolds ==
    ASSUME Sound, Held, NEW t \in Tasks, Polling(t)
    PROVE  Held' /\ Keeps(t)
<1>t. TypeOK /\ TaskHolds(t)
  BY DEF Sound, Held
<1>1. CASE PollStart(t)
  <2> DEFINE r == Current(row[bind[t]])
             held == [r EXCEPT !.lease = t, !.live = TRUE]
  <2>1. bind[t] \in Accounts /\ row[bind[t]] \in Rows /\ Good(row[bind[t]])
    BY <1>1, Bound DEF PollStart
  <2>2. r \in Rows /\ (row[bind[t]].live => r = row[bind[t]])
    BY <2>1, CurrentRow DEF Good
  <2>3. r.lease \in {t, None} /\ Write(bind[t], held) /\ copy' = [copy EXCEPT ![t] = held]
    BY <1>1 DEF PollStart, Leasable
  <2>4. held.lease = t /\ held.live
    BY <2>2 DEF Rows
  <2>5. Keeps(t)
    BY <2>1, <2>2, <2>3, WriteKeeps
  <2>6. TaskHolds(t)'
    BY <1>1, <1>t, <2>1, <2>3, <2>4 DEF TaskHolds, PollStart, Write, TypeOK
  <2>7. QED BY <1>1, <1>t, <2>3, <2>5, <2>6, TaskStepHolds DEF PollStart, TypeOK
<1>2. CASE PollRefused(t)
  <2>1. TaskHolds(t)'
    BY <1>2, <1>t DEF TaskHolds, PollRefused, Again, TypeOK
  <2>2. QED BY <1>2, <1>t, <2>1, SameKeeps, TaskStepHolds DEF PollRefused, Again, TypeOK
<1>3. ASSUME pc[t] \in {"submitting", "polling"}, Drop(t), UNCHANGED <<probe, target>>,
             UNCHANGED row \/ \E v : Write(bind[t], v),
             bind' = bind \/ bind' = [bind EXCEPT ![t] = None],
             \E s \in {"queued", "remote", "done", "left"} : pc' = [pc EXCEPT ![t] = s]
      PROVE  Held' /\ Keeps(t)
  <2>1. bind[t] \in Accounts /\ row[bind[t]].lease = t
    BY <1>3, <1>t, Bound DEF TaskHolds
  <2>2. Keeps(t)
    BY <1>3, <2>1, WriteKeeps, SameKeeps
  <2>3. TaskHolds(t)'
    BY <1>3, <1>t, DropCopy DEF TaskHolds, TypeOK
  <2>4. QED BY <1>3, <1>t, <2>2, <2>3, DropCopy, TaskStepHolds DEF TypeOK
<1>4. CASE PollPending(t) \/ PollFails(t)
  BY <1>3, <1>4 DEF PollPending, PollFails, HoldMayEnd, Again
<1>5. CASE NoVideo(t) \/ RemoteExpires(t)
  BY <1>3, <1>5 DEF NoVideo, RemoteExpires, Reset
<1>6. CASE Deliver(t)
  BY <1>3, <1>6 DEF Deliver, Reset, Again
<1>7. QED BY <1>1, <1>2, <1>4, <1>5, <1>6 DEF Polling

LEMMA ProbeStepsHold ==
    ASSUME Sound, Held, Late \subseteq Probes, NEW p \in Probes,
           DispatchProbe(p) \/ DispatchFails(p) \/ Probing(p) \/ ProbeDies(p)
    PROVE  Held' /\ Keeps(p)
<1>p. TypeOK /\ (p \notin Late => ProbeHolds(p))
  BY DEF Sound, Held
<1>1. ASSUME UNCHANGED task, Keeps(p), p \notin Late => ProbeHolds(p)',
             \E s : probe' = [probe EXCEPT ![p] = s],
             target' = target \/ \E a : target' = [target EXCEPT ![p] = a]
      PROVE  Held' /\ Keeps(p)
  BY <1>p, <1>1, ProbeStepHolds DEF TypeOK
<1>2. ASSUME UNCHANGED task, Keeps(p), Over(p)
      PROVE  Held' /\ Keeps(p)
  BY <1>p, <1>1, <1>2 DEF Over, ProbeHolds, TypeOK
<1>3. CASE DispatchProbe(p)
  <2>1. PICK seen \in SUBSET Accounts : \E a \in seen :
          /\ Current(row[a]).lease = None
          /\ \E v : row' = [Swept(seen) EXCEPT ![a] = v]
          /\ target' = [target EXCEPT ![p] = a]
    BY <1>3 DEF DispatchProbe
  <2>2. PICK a \in seen :
          /\ Current(row[a]).lease = None
          /\ \E v : row' = [Swept(seen) EXCEPT ![a] = v]
          /\ target' = [target EXCEPT ![p] = a]
    BY <2>1
  <2>3. row[a].live => row[a].lease = None
    BY <2>2, CurrentRow DEF Sound, TypeOK
  <2>4. Keeps(p)
    BY <2>2, <2>3, Search DEF Keeps
  <2>5. probe' = [probe EXCEPT ![p] = "queued"] /\ UNCHANGED task
    BY <1>3 DEF DispatchProbe
  <2>6. ProbeHolds(p)'
    BY <1>p, <2>5 DEF ProbeHolds, TypeOK
  <2>7. QED BY <1>1, <2>2, <2>4, <2>5, <2>6
<1>4. CASE DispatchFails(p)
  <2> DEFINE r == row[target[p]]
  <2>1. target[p] \in Accounts /\ r \in Rows
    BY <1>4, ProbeBound DEF DispatchFails
  <2>2. r.lease # p =>
          \A h \in Healths : LET v == [FreedOf(r, p) EXCEPT !.accepted = FALSE, !.health = h]
                            IN v.lease = r.lease /\ v.live = r.live
    BY <2>1 DEF FreedOf, Rows
  <2>3. Keeps(p)
    BY <1>4, <2>1, <2>2, WriteKeeps, SameKeeps DEF DispatchFails
  <2>4. QED BY <1>2, <1>4, <2>3 DEF DispatchFails
<1>5. CASE EndProbe(p)
  <2> DEFINE r == row[target[p]]
  <2>1. target[p] \in Accounts /\ r \in Rows /\ Good(r)
    BY <1>5, ProbeBound DEF EndProbe
  <2>a. \A v \in Probed(r) : r.lease # p => FreedOf(v, p).lease = r.lease /\ FreedOf(v, p).live = r.live
    BY <2>1, ProbedRows DEF FreedOf
  <2>2. Keeps(p)
    BY <1>5, <2>1, <2>a, WriteKeeps, SameKeeps DEF EndProbe
  <2>3. QED BY <1>2, <1>5, <2>2 DEF EndProbe
<1>6. CASE StaleProbe(p) \/ ProbeDies(p)
  BY <1>2, <1>6, SameKeeps DEF StaleProbe, ProbeDies, task
<1>7. CASE StartProbe(p)
  <2>1. p \notin Late => ProbeHolds(p)'
    BY <1>7 DEF StartProbe, ProbeHolds
  <2>2. QED BY <1>1, <1>7, <2>1, SameKeeps DEF StartProbe
<1>8. QED BY <1>3, <1>4, <1>5, <1>6, <1>7 DEF Probing

LEMMA AccountStepsHold ==
    ASSUME Sound, Held, Late \subseteq Probes, NEW a \in Accounts,
           Sweep(a) \/ Heal(a) \/ Expire(a) \/ SetEnabled(a)
    PROVE  Held' /\ LeasesKept
<1>1. TypeOK /\ row[a] \in Rows /\ Good(row[a])
  BY DEF Sound, TypeOK
<1>2. CASE Sweep(a)
  <2>1. row[a].live => Current(row[a]) = row[a]
    BY <1>1, CurrentRow
  <2>2. Keeps(None)
    BY <1>2, <2>1, WriteKeeps DEF Sweep
  <2>3. QED BY <1>2, <2>2, RowStepHolds DEF Sweep, Keeps, LeasesKept
<1>3. CASE Heal(a) \/ SetEnabled(a)
  <2>1. \E v : Write(a, v) /\ v.lease = row[a].lease /\ v.live = row[a].live
    BY <1>1, <1>3 DEF Heal, SetEnabled, Write, Rows
  <2>2. Keeps(None)
    BY <2>1, WriteKeeps
  <2>3. QED BY <1>3, <2>2, RowStepHolds DEF Heal, SetEnabled, task, Keeps, LeasesKept
<1>4. CASE Expire(a)
  <2>1. (InUse(row[a].lease, a) => row[a].lease \in Late) /\ row' = [row EXCEPT ![a].live = FALSE]
    BY <1>4 DEF Expire
  <2>2. /\ \A b \in Accounts \ {a} : row'[b] = row[b]
        /\ row'[a].lease = row[a].lease
    BY <1>1, <2>1 DEF TypeOK, Rows
  <2>3. ASSUME NEW t \in Tasks PROVE TaskHolds(t)'
    <3>1. TaskHolds(t) /\ (pc[t] \in AtWork => InUse(t, bind[t]) /\ bind[t] \in Accounts)
      BY Bound DEF Held, InUse
    <3>2. copy[t] # None => pc[t] \in AtWork
      BY <1>1 DEF TypeOK
    <3>3. pc[t] \in AtWork => bind[t] # a
      BY <2>1, <3>1 DEF TaskHolds
    <3>4. copy'[t] = copy[t]
      BY <1>4, <3>2, <3>3 DEF Expire
    <3>5. QED BY <1>4, <2>2, <3>1, <3>3, <3>4 DEF TaskHolds, Expire
  <2>4. ASSUME NEW p \in Probes \ Late PROVE ProbeHolds(p)'
    <3>1. ProbeHolds(p) /\ (probe[p] = "running" => InUse(p, target[p]) /\ target[p] \in Accounts)
      BY ProbeBound DEF Held, InUse
    <3>2. probe[p] = "running" => target[p] # a
      BY <2>1, <3>1 DEF ProbeHolds
    <3>3. QED BY <1>4, <2>2, <3>1, <3>2 DEF ProbeHolds, Expire
  <2>5. QED BY <2>2, <2>3, <2>4 DEF Held, LeasesKept
<1>5. QED BY <1>2, <1>3, <1>4

LEMMA TaskEventsHold ==
    ASSUME Sound, Held, NEW t \in Tasks, Crash(t) \/ Supersede(t) \/ ManualRetry(t)
    PROVE  Held' /\ Keeps(t)
<1>t. TypeOK /\ TaskHolds(t)
  BY DEF Sound, Held
<1>1. CASE Crash(t)
  <2>1. TaskHolds(t)'
    BY <1>1, <1>t, DropCopy DEF Crash, TaskHolds, TypeOK
  <2>2. QED BY <1>1, <1>t, <2>1, DropCopy, SameKeeps, TaskStepHolds DEF Crash, TypeOK
<1>2. CASE Supersede(t)
  <2>1. Keeps(t)
    BY <1>2, <1>t, RelinquishKeeps, SameKeeps DEF Supersede, TypeOK
  <2>2. TaskHolds(t)'
    BY <1>2, <1>t DEF Supersede, TaskHolds, TypeOK
  <2>3. QED BY <1>2, <1>t, <2>1, <2>2, TaskStepHolds DEF Supersede, TypeOK
<1>3. CASE ManualRetry(t)
  <2>1. TaskHolds(t)'
    BY <1>3, <1>t DEF ManualRetry, TaskHolds, TypeOK
  <2>2. QED BY <1>3, <1>t, <2>1, SameKeeps, TaskStepHolds DEF ManualRetry, TypeOK
<1>4. QED BY <1>1, <1>2, <1>3

LEMMA HeldNext == Late \subseteq Probes /\ Sound /\ Held /\ [Next]_vars => Held'
<1> SUFFICES ASSUME Late \subseteq Probes, Sound, Held, [Next]_vars PROVE Held'
  OBVIOUS
<1>1. CASE UNCHANGED vars
  BY <1>1 DEF vars, task, Held, TaskHolds, ProbeHolds
<1>2. CASE Next
  BY <1>2, SubmissionHolds, PollingHolds, ProbeStepsHold, AccountStepsHold, TaskEventsHold DEF Next
<1>3. QED BY <1>1, <1>2

LEMMA HeldInit == Init => Held
BY DEF Init, Held, TaskHolds, ProbeHolds

LEMMA AlwaysHeld == ASSUME Late \subseteq Probes PROVE Spec => []Held
<1>1. Sound /\ Held /\ [Next]_vars => Held'
  BY HeldNext
<1>2. QED BY <1>1, HeldInit, AlwaysSound, PTL DEF Spec

------------------------------------------------------------------------------
(***************************************************************************)
(* Whose leases a step may end                                             *)
(***************************************************************************)
TaskStep(t) == Submission(t) \/ Polling(t) \/ Crash(t) \/ Supersede(t) \/ ManualRetry(t)
ProbeStep(p) == DispatchProbe(p) \/ DispatchFails(p) \/ Probing(p) \/ ProbeDies(p)

\* What the operators leave of a lease.
LEMMA LeaseRows ==
    ASSUME NEW r \in Rows, Good(r), NEW t
    PROVE  /\ Current(r).lease \in {r.lease, None} /\ Freed(r).lease = None
           /\ \A v \in ReleasedFor(r, t) : v.lease \in {r.lease, None}
           /\ Succeeded(r, t).lease \in {r.lease, None}
           /\ HoldEnded(r, t).lease = r.lease
           /\ \A v \in Cooled(r) : Freed(v).lease = None
<1>1. \A v \in Rows : Freed(v).lease = None
  BY DEF Freed, Rows
<1>2. Current(r).lease \in {r.lease, None}
  BY DEF Current, Freed, Rows
<1>3. \A v \in {r} \cup Cooled(r) \cup Barred(r) : Freed(v).lease = None
  BY <1>1, ErrorRows
<1>4. \A v \in ReleasedFor(r, t) : v.lease \in {r.lease, None}
  BY <1>3 DEF ReleasedFor
<1>5. Succeeded(r, t).lease \in {r.lease, None}
  <2>1. [r EXCEPT !.health = "ready", !.use = IF @ = "barred" THEN "off" ELSE @] \in Rows
    BY DEF Rows, Healths
  <2>2. QED BY <1>1, <2>1 DEF Succeeded
<1>6. QED BY <1>1, <1>2, <1>3, <1>4, <1>5, HoldEndedRow

\* After a step of a task an account has the lease it had, the task's or none.
LEMMA TaskLeases ==
    ASSUME Sound, Held, NEW t \in Tasks, TaskStep(t), NEW a \in Accounts
    PROVE  row'[a].lease \in {row[a].lease, t, None}
<1>t. TypeOK /\ TaskHolds(t) /\ row[a] \in Rows /\ Good(row[a])
  BY DEF Sound, Held, TypeOK
<1>s. ASSUME NEW seen \in SUBSET Accounts PROVE Swept(seen)[a].lease \in {row[a].lease, None}
  BY <1>t, LeaseRows DEF Swept
<1>w. ASSUME NEW v, Write(bind[t], v), v.lease \in {t, None}
      PROVE  row'[a].lease \in {row[a].lease, t, None}
  BY <1>t, <1>w DEF Write, TypeOK
<1>c. ASSUME pc[t] \in {"submitting", "polling"}
      PROVE  /\ copy[t] \in Rows /\ Good(copy[t]) /\ copy[t].lease = t
             /\ \A v \in ReleasedFor(copy[t], t) : v.lease \in {t, None}
             /\ Succeeded(copy[t], t).lease \in {t, None} /\ HoldEnded(copy[t], t).lease = t
             /\ Freed(copy[t]).lease = None
             /\ \A v \in Cooled(copy[t]) : Freed(v).lease = None
  <2>1. copy[t] \in Rows /\ Good(copy[t]) /\ copy[t].lease = t
    BY <1>t, <1>c, Bound DEF TaskHolds, TypeOK
  <2>2. QED BY <2>1, LeaseRows
<1>r. ASSUME bind[t] \in Accounts, Relinquish(t)
      PROVE  row'[a].lease \in {row[a].lease, t, None}
  <2>1. row[bind[t]] \in Rows /\ Good(row[bind[t]])
    BY <1>r DEF Sound, TypeOK
  <2>2. Current(row[bind[t]]) \in Rows /\ Good(Current(row[bind[t]]))
    BY <2>1, CurrentRow DEF Good
  <2>3. Freed(Current(row[bind[t]])).lease = None
    BY <2>2, LeaseRows
  <2>4. QED BY <1>t, <1>r, <2>3 DEF Relinquish, Write, TypeOK
<1>1. CASE Claim(t)
  <2>1. PICK seen \in SUBSET Accounts :
          \E b \in IF Own(t, seen) # {} THEN Own(t, seen) ELSE Open(t, seen) :
            row' = [Swept(seen) EXCEPT ![b] = Taken(Swept(seen)[b], t)]
    BY <1>1 DEF Claim
  <2>2. PICK b : row' = [Swept(seen) EXCEPT ![b] = Taken(Swept(seen)[b], t)]
    BY <2>1
  <2>3. \A r \in Rows : Taken(r, t).lease = t
    BY DEF Taken, Rows
  <2>4. QED BY <1>s, <2>2, <2>3, Search
<1>2. CASE Exhausted(t)
  BY <1>2, <1>s DEF Exhausted
<1>3. CASE SubmitFails(t)
  <2> DEFINE r == IF pc[t] = "waiting" THEN row[bind[t]] ELSE copy[t]
  <2>1. r \in Rows /\ Good(r) /\ r.lease = t
    BY <1>3, <1>t, Bound DEF SubmitFails, TaskHolds, TypeOK
  <2>2. \A v \in ReleasedFor(r, t) : v.lease \in {t, None}
    BY <2>1, LeaseRows
  <2>3. QED BY <1>3, <1>w, <2>2 DEF SubmitFails
<1>4. CASE Accept(t)
  <2>1. copy[t] \in Rows /\ copy[t].lease = t
    BY <1>4, <1>c DEF Accept
  <2>2. [copy[t] EXCEPT !.accepted = TRUE].lease = t
    BY <2>1 DEF Rows
  <2>3. QED BY <1>4, <1>w, <2>1, <2>2 DEF Accept
<1>5. CASE Recover(t)
  BY <1>5, <1>r, Bound DEF Recover
<1>6. CASE PollStart(t)
  <2> DEFINE r == Current(row[bind[t]])
             held == [r EXCEPT !.lease = t, !.live = TRUE]
  <2>1. row[bind[t]] \in Rows /\ Good(row[bind[t]])
    BY <1>6, Bound DEF PollStart
  <2>2. held.lease = t
    BY <2>1, CurrentRow DEF Good, Rows
  <2>3. QED BY <1>6, <1>w, <2>2 DEF PollStart
<1>7. CASE PollPending(t) \/ PollFails(t)
  BY <1>7, <1>c, <1>w DEF PollPending, PollFails, HoldMayEnd
<1>8. CASE NoVideo(t) \/ RemoteExpires(t) \/ Deliver(t)
  BY <1>8, <1>c, <1>w DEF NoVideo, RemoteExpires, Deliver
<1>9. CASE Supersede(t)
  BY <1>9, <1>r, <1>t DEF Supersede, TypeOK
<1>10. CASE UNCHANGED row
  BY <1>10
<1>11. QED
  BY <1>1, <1>2, <1>3, <1>4, <1>5, <1>6, <1>7, <1>8, <1>9, <1>10
     DEF TaskStep, Submission, Polling, DeferredAstray, StrayFails, Ready, NoConversation,
         PollRefused, Crash, ManualRetry

\* A task that changes a row moves on.
LEMMA TaskMoves ==
    ASSUME Sound, NEW t \in Tasks, TaskStep(t)
    PROVE  UNCHANGED row \/ pc'[t] # pc[t]
<1>1. pc \in [Tasks -> {"queued", "rotating", "marker", "stray", "remote"} \cup AtWork \cup Settled]
  BY DEF Sound, TypeOK
<1>2. ASSUME Submission(t) PROVE UNCHANGED row \/ pc'[t] # pc[t]
  BY <1>1, <1>2 DEF Submission, Claim, Exhausted, DeferredAstray, StrayFails, Ready, SubmitFails,
         Accept, NoConversation, Recover, Reset, Again
<1>3. ASSUME Polling(t) PROVE UNCHANGED row \/ pc'[t] # pc[t]
  BY <1>1, <1>3 DEF Polling, PollStart, PollRefused, PollPending, PollFails, NoVideo,
         RemoteExpires, Deliver, Reset, Again
<1>4. QED BY <1>1, <1>2, <1>3 DEF TaskStep, Crash, Supersede, ManualRetry

\* The same of a probe.
LEMMA ProbeLeases ==
    ASSUME Sound, NEW p \in Probes, ProbeStep(p), NEW a \in Accounts
    PROVE  row'[a].lease \in {row[a].lease, p, None}
<1>t. TypeOK /\ row[a] \in Rows /\ Good(row[a])
  BY DEF Sound, TypeOK
<1>1. CASE DispatchProbe(p)
  <2> DEFINE claimed(r) == [r EXCEPT !.lease = p, !.live = TRUE, !.browser = p,
                                     !.health = "untested", !.probe = p]
  <2>1. PICK seen \in SUBSET Accounts : \E b \in seen :
          row' = [Swept(seen) EXCEPT ![b] = claimed(Swept(seen)[b])]
    BY <1>1 DEF DispatchProbe
  <2>2. PICK b \in seen : row' = [Swept(seen) EXCEPT ![b] = claimed(Swept(seen)[b])]
    BY <2>1
  <2>3. Swept(seen)[a].lease \in {row[a].lease, None}
    BY <1>t, LeaseRows DEF Swept
  <2>4. CASE a = b
    <3>1. Swept(seen)[a] \in Rows
      BY Search
    <3>2. row'[a] = claimed(Swept(seen)[a])
      BY <2>2, <2>4, Search
    <3>3. claimed(Swept(seen)[a]).lease = p
      BY <3>1 DEF Rows
    <3>4. QED BY <3>2, <3>3
  <2>5. CASE a # b
    <3>1. row'[a] = Swept(seen)[a]
      BY <2>2, <2>5, Search
    <3>2. QED BY <3>1, <2>3
  <2>6. QED BY <2>4, <2>5
<1>2. ASSUME NEW r \in Rows PROVE FreedOf(r, p) \in Rows /\ FreedOf(r, p).lease \in {r.lease, None}
  BY DEF FreedOf, Freed, Rows
<1>3. CASE DispatchFails(p)
  <2>1. target[p] \in Accounts /\ row[target[p]] \in Rows
    BY <1>3, ProbeBound DEF DispatchFails
  <2>2. \A h \in Healths :
          [FreedOf(row[target[p]], p) EXCEPT !.accepted = FALSE, !.health = h].lease
              \in {row[target[p]].lease, None}
    BY <1>2, <2>1 DEF Rows
  <2> DEFINE back(h) == [FreedOf(row[target[p]], p) EXCEPT !.accepted = FALSE, !.health = h]
  <2>3. row' = row \/ \E h \in Healths : row' = [row EXCEPT ![target[p]] = back(h)]
    BY <1>3 DEF DispatchFails, Write
  <2>4. \A h \in Healths : back(h).lease \in {row[target[p]].lease, None}
    BY <2>2
  <2> HIDE DEF back
  <2>5. QED BY <1>t, <2>1, <2>3, <2>4 DEF TypeOK
<1>4. CASE EndProbe(p)
  <2>1. target[p] \in Accounts /\ row[target[p]] \in Rows /\ Good(row[target[p]])
    BY <1>4, ProbeBound DEF EndProbe
  <2>2. \A v \in Probed(row[target[p]]) : FreedOf(v, p).lease \in {row[target[p]].lease, None}
    <3>1. ASSUME NEW v PROVE FreedOf(v, p) = v \/ FreedOf(v, p) = Freed(v)
      BY DEF FreedOf
    <3>2. ASSUME NEW v \in Probed(row[target[p]])
          PROVE  v.lease = row[target[p]].lease /\ v \in Rows
      BY <2>1, ProbedRows
    <3>3. QED BY <1>2, <3>2
  <2>3. QED BY <1>4, <1>t, <2>1, <2>2 DEF EndProbe, Write, TypeOK
<1>5. QED BY <1>1, <1>3, <1>4 DEF ProbeStep, Probing, StartProbe, StaleProbe, ProbeDies

\* A probe that gives its lease back is over.
LEMMA ProbeEnds ==
    ASSUME Sound, NEW p \in Probes, ProbeStep(p), NEW a \in Accounts
    PROVE  \/ row'[a].lease = row[a].lease \/ row[a].lease # p \/ ~row[a].live
           \/ probe'[p] = "over"
<1>1. probe \in [Probes -> {"none", "queued", "running", "over"}]
  BY DEF Sound, TypeOK
<1>2. CASE DispatchProbe(p)
  <2>1. PICK seen \in SUBSET Accounts : \E b \in seen :
          Current(row[b]).lease = None /\ \E v : row' = [Swept(seen) EXCEPT ![b] = v]
    BY <1>2 DEF DispatchProbe
  <2>2. PICK b \in seen :
          Current(row[b]).lease = None /\ \E v : row' = [Swept(seen) EXCEPT ![b] = v]
    BY <2>1
  <2>3. row[b].live => row[b].lease = None
    BY <2>2, CurrentRow DEF Sound, TypeOK
  <2>4. QED BY <2>2, <2>3, Search
<1>3. QED
  BY <1>1, <1>2 DEF ProbeStep, DispatchFails, Probing, StartProbe, StaleProbe, EndProbe, ProbeDies, Over

------------------------------------------------------------------------------
(***************************************************************************)
(* Theorems                                                                *)
(***************************************************************************)

\* The state always has its type: in particular a worker has a copy of the
\* row exactly while it talks to the helper.
THEOREM Typed == Spec => []TypeOK
BY AlwaysSound, PTL DEF Sound

\* A browser marker always belongs to the lease beside it, although workers
\* write back rows they have read before, and whoever is late.
THEOREM MarkersBelong == Spec => []BrowserOnlyWithLease
<1>1. Sound => BrowserOnlyWithLease
  BY DEF Sound, Good, BrowserOnlyWithLease
<1>2. QED BY <1>1, AlwaysSound, PTL

\* Tasks never share a Profile, and no probe that is on time shares one with
\* them, even if other probes run on after their lease has expired: what such a
\* probe writes back leaves everybody else's lease alone.
OneTimelyUser ==
    \A a \in Accounts, g, h \in Holders \ Late : Uses(g, a) /\ Uses(h, a) => g = h

THEOREM TimelyUsersExclude ==
    ASSUME Late \subseteq Probes
    PROVE  Spec => []OneTimelyUser
<1>1. Sound /\ Held => OneTimelyUser
  <2> SUFFICES ASSUME Sound, Held, NEW a \in Accounts, NEW h \in Holders \ Late, Uses(h, a)
               PROVE  row[a].lease = h
    BY DEF OneTimelyUser
  <2>1. QED BY DEF Uses, Held, TaskHolds, ProbeHolds
<1>2. QED BY <1>1, AlwaysHeld, AlwaysSound, PTL

\* A Profile has one user at a time, if nobody uses it past the expiry of its
\* lease.
THEOREM OneUser == ASSUME Late = {} PROVE Spec => []OneProfileUser
<1>1. Late \subseteq Probes /\ (OneTimelyUser => OneProfileUser)
  BY DEF OneTimelyUser, OneProfileUser
<1>2. Spec => []OneTimelyUser
  BY <1>1, TimelyUsersExclude
<1>3. QED BY <1>1, <1>2, PTL

\* A lease that has not expired is ended by its holder only, and is free then,
\* although every worker writes back a row that it has read minutes before.
THEOREM LeasesStand == ASSUME Late \subseteq Probes PROVE Spec => LeaseStands
<1> DEFINE Stands(a) ==
      row[a].lease # None /\ row[a].live /\ row'[a].lease # row[a].lease =>
        /\ row'[a].lease = None
        /\ row[a].lease \in Tasks => pc'[row[a].lease] # pc[row[a].lease]
        /\ row[a].lease \in Probes => probe'[row[a].lease] = "over"
<1>1. Sound /\ Held /\ [Next]_vars => [\A a \in Accounts : Stands(a)]_vars
  <2> SUFFICES ASSUME Sound, Held, Next, NEW a \in Accounts PROVE Stands(a)
    OBVIOUS
  <2>1. ASSUME NEW t \in Tasks, TaskStep(t) PROVE Stands(a)
    <3>1. Keeps(t) /\ row'[a].lease \in {row[a].lease, t, None}
      BY <2>1, SubmissionHolds, PollingHolds, TaskEventsHold, TaskLeases DEF TaskStep
    <3>2. UNCHANGED row \/ pc'[t] # pc[t]
      BY <2>1, TaskMoves
    <3>3. QED BY <3>1, <3>2 DEF Keeps
  <2>2. ASSUME NEW p \in Probes, ProbeStep(p) PROVE Stands(a)
    <3>1. Keeps(p) /\ row'[a].lease \in {row[a].lease, p, None}
      BY <2>2, ProbeStepsHold, ProbeLeases DEF ProbeStep
    <3>2. row'[a].lease = row[a].lease \/ row[a].lease # p \/ ~row[a].live \/ probe'[p] = "over"
      BY <2>2, ProbeEnds
    <3>3. QED BY <3>1, <3>2 DEF Keeps
  <2>3. ASSUME NEW b \in Accounts, Sweep(b) \/ Heal(b) \/ Expire(b) \/ SetEnabled(b)
        PROVE  Stands(a)
    BY <2>3, AccountStepsHold DEF LeasesKept
  <2>4. QED BY <2>1, <2>2, <2>3 DEF Next, TaskStep, ProbeStep
<1>2. QED BY <1>1, AlwaysHeld, AlwaysSound, PTL DEF Spec, LeaseStands

=============================================================================
