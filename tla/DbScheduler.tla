---------------------------- MODULE DbScheduler ----------------------------
(***************************************************************************)
(* The beat that fires the schedules of the database.                      *)
(*                                                                         *)
(* Each tick of a beat reads all enabled schedules and handles one after   *)
(* the other in one database session.  A due schedule gets a run, stored   *)
(* under a key for its window before the task is published; the schedule   *)
(* then moves on to its next window.  The unique key of a run is what      *)
(* keeps beats that overlap, or that repeat a tick cut short, from firing  *)
(* a window twice.  A window missed by more than the grace period is       *)
(* recorded as a failed run and skipped.                                   *)
(*                                                                         *)
(* A session whose flush has failed refuses everything else, so that a run *)
(* that cannot be inserted ends the tick and undoes what is not committed. *)
(* Reads come from the snapshot of the transaction's first read, updates   *)
(* lock the schedule's row.                                                *)
(***************************************************************************)
EXTENDS Naturals, FiniteSets

CONSTANTS
    Beats,
    Schedules,
    Kind,           \* "interval", "crontab" or "oneoff"
    OneoffAt,       \* the window of the one-off schedules
    Period,         \* of the other schedules
    Grace,          \* misfire_grace_s
    MaxTime,        \* bound on the clock
    MaxEvents,      \* bound on deaths of beats, refused messages, failed
                    \* tasks and schedules that users switch on or off
    None            \* no window, no schedule, no snapshot

Windows == 0 .. (MaxTime + Period)

ASSUME ScheduleKinds == Kind \in [Schedules -> {"interval", "crontab", "oneoff"}]
ASSUME ScheduleTimes ==
    /\ {Period, Grace} \subseteq Nat \ {0} /\ OneoffAt \in Windows
    /\ None \notin Windows \cup Schedules
ASSUME NoneIsNoStatus == None \notin {"enqueued", "failed"}
ASSUME ScheduleBounds == {MaxTime, MaxEvents} \subseteq Nat

VARIABLES
    now,
    next,       \* [Schedules -> next_fire_at, or None]
    enabled,    \* the enabled schedules
    runs,       \* [Schedules \X Windows -> the status of the run, or None]
    sent,       \* [Schedules \X Windows -> published messages, 2 for more]
    failed,     \* windows whose run was ever marked as failed
    beat,       \* [Beats -> the state of its tick]
    events

stored == <<next, enabled, runs>>
vars == <<now, stored, sent, failed, beat, events>>

\* Run states that use up the window: enqueued, running, success or partial
\* in the code, told apart by nothing here.
Consumed == {"enqueued"}

------------------------------------------------------------------------------
(***************************************************************************)
(* A tick                                                                  *)
(***************************************************************************)

NoRows == [s \in {} |-> None]

\* at: the tick's time; todo: the rows not handled yet, with the windows they
\* had when they were read; view: the runs of these windows in the snapshot,
\* or None before a transaction's first read; rows: the uncommitted updates;
\* adds: the runs the next flush inserts; current: the row being published.
Idle == [pc |-> "idle", at |-> 0, todo |-> NoRows, view |-> None,
         rows |-> NoRows, adds |-> {}, current |-> None]

Init ==
    /\ now = 0
    /\ next = [s \in Schedules |-> None]
    /\ enabled = Schedules
    /\ runs = [k \in Schedules \X Windows |-> None]
    /\ sent = [k \in Schedules \X Windows |-> 0]
    /\ failed = {}
    /\ beat = [b \in Beats |-> Idle]
    /\ events = 0

\* The first window after t in a crontab or an interval that began at from.
WindowAfter(from, t) == from + (((t - from) \div Period) + 1) * Period

\* The window of a schedule at time t: the stored one, else for an interval
\* the time itself, for a crontab the first window after it.
FireAt(s, t) ==
    CASE Kind[s] = "oneoff" -> OneoffAt
      [] Kind[s] # "oneoff" /\ next[s] # None -> next[s]
      [] Kind[s] = "interval" /\ next[s] = None -> t
      [] Kind[s] = "crontab" /\ next[s] = None -> WindowAfter(0, t)

Handles(b, s) == beat[b].pc = "scanning" /\ s \in DOMAIN beat[b].todo
Key(b, s) == <<s, beat[b].todo[s]>>
Missed(b, s) == beat[b].todo[s] + Grace < beat[b].at
Due(b, s) == Handles(b, s) /\ ~Missed(b, s)

\* What a look for the run of a row's window finds.
Read(todo) == [s \in DOMAIN todo |-> runs[<<s, todo[s]>>]]
View(b) == IF beat[b].view = None THEN Read(beat[b].todo) ELSE beat[b].view

\* Another beat has updated the row and not yet committed.
Locked(b, s) == \E a \in Beats \ {b} : s \in DOMAIN beat[a].rows

\* The row of a schedule with its next window, or switched off.
Moved(window) == [window |-> window, on |-> TRUE]
Off == [window |-> None, on |-> FALSE]

Update(b, s, row) ==
    [t \in DOMAIN beat[b].rows \cup {s} |-> IF t = s THEN row
                                                     ELSE beat[b].rows[t]]

Without(f, s) == [t \in DOMAIN f \ {s} |-> f[t]]

SameStore == UNCHANGED <<now, stored, sent, failed, events>>

\* Mutant: a row that is due at the very time of the tick waits.
DueRowsStrictly == {s \in enabled : FireAt(s, now) < now}

\* The rows a tick does not pass over.
DueRows == {s \in enabled : FireAt(s, now) <= now}

\* The next tick of an idle beat; it passes over the rows that are not due,
\* and is over if none is.
Tick(b) ==
    LET todo == [s \in DueRows |-> FireAt(s, now)]
    IN  /\ beat[b].pc = "idle"
        /\ \/ DOMAIN todo = {} /\ UNCHANGED beat
           \/ /\ DOMAIN todo # {}
              /\ beat' = [beat EXCEPT ![b] =
                    [Idle EXCEPT !.pc = "scanning", !.at = now, !.todo = todo,
                                 !.view = Read(todo)]]
        /\ SameStore

\* The row is finished; changes says what else the beat remembers.
Done(b, s, changes) ==
    beat' = [beat EXCEPT ![b] =
       [changes EXCEPT !.todo = Without(@, s),
                       !.view = IF @ = None THEN None ELSE Without(@, s)]]

\* Mutant: the window of a one-off is skipped without a trace.
MisfireUnrecorded(b, s) ==
    /\ Handles(b, s) /\ Missed(b, s) /\ ~Locked(b, s) /\ Kind[s] = "oneoff"
    /\ Done(b, s, [beat[b] EXCEPT !.rows = Update(b, s, Off)])
    /\ SameStore

\* The window is skipped and a failed run is added, without looking whether
\* the window has one.
Misfire(b, s) ==
    /\ Handles(b, s) /\ Missed(b, s) /\ ~Locked(b, s)
    /\ LET row == CASE Kind[s] = "interval" ->
                          Moved(WindowAfter(beat[b].todo[s], beat[b].at))
                    [] Kind[s] = "crontab" -> Moved(WindowAfter(0, beat[b].at))
                    [] Kind[s] = "oneoff" -> Off
       IN  Done(b, s, [beat[b] EXCEPT !.rows = Update(b, s, row),
                                      !.adds = @ \cup {Key(b, s)}])
    /\ SameStore

\* The window was fired before; only a repeating schedule moves on.
AlreadyEnqueued(b, s) ==
    /\ Due(b, s) /\ View(b)[s] \in Consumed
    /\ \/ Kind[s] = "oneoff" /\ Done(b, s, [beat[b] EXCEPT !.view = View(b)])
       \/ /\ Kind[s] # "oneoff" /\ ~Locked(b, s)
          /\ Done(b, s, [beat[b] EXCEPT
                !.view = View(b),
                !.rows = Update(b, s, Moved(beat[b].todo[s] + Period))])
    /\ SameStore

\* A flush cannot insert a run whose key is stored.
Conflict(keys) == \E k \in keys : runs[k] # None

\* The updates of a transaction are committed.
StoreRows(b) ==
    LET rows == beat[b].rows IN
    /\ next' = [s \in Schedules |->
                   IF s \in DOMAIN rows THEN rows[s].window ELSE next[s]]
    /\ enabled' = enabled \ {s \in DOMAIN rows : ~rows[s].on}

\* A new transaction of the session.
Fresh(b) == [beat[b] EXCEPT !.rows = NoRows, !.adds = {}, !.view = None]

\* Mutant: nobody looks whether the window was fired before.
UnfiredUnchecked(b, s) == TRUE

Unfired(b, s) == View(b)[s] \notin Consumed

\* The run of the window is inserted unless the snapshot has one.
NewRun(b, s) == IF View(b)[s] = None THEN {Key(b, s)} ELSE {}

\* Mutant: the message is published before the run is committed.
DispatchUncommitted(b, s) ==
    /\ Due(b, s) /\ Unfired(b, s)
    /\ beat' = [beat EXCEPT ![b] = [@ EXCEPT !.pc = "publishing", !.current = s,
                                             !.adds = @ \cup NewRun(b, s)]]
    /\ SameStore

\* The run is stored and committed before the message is published.  A run
\* that has failed is used again as it is.
Dispatch(b, s) ==
    /\ Due(b, s) /\ Unfired(b, s) /\ ~Conflict(beat[b].adds \cup NewRun(b, s))
    /\ runs' = [k \in Schedules \X Windows |->
                   IF k \in NewRun(b, s) THEN "enqueued" ELSE
                   IF k \in beat[b].adds THEN "failed" ELSE runs[k]]
    /\ failed' = failed \cup beat[b].adds
    /\ StoreRows(b)
    /\ beat' = [beat EXCEPT ![b] = [Fresh(b) EXCEPT !.pc = "publishing",
                                                    !.current = s]]
    /\ UNCHANGED <<now, sent, events>>

\* One of the runs is stored already: the tick is over.
DispatchConflicts(b, s) ==
    /\ Due(b, s) /\ Unfired(b, s) /\ Conflict(beat[b].adds \cup NewRun(b, s))
    /\ beat' = [beat EXCEPT ![b] = Idle] /\ SameStore

\* The message is out; the second look for the run finds it.
Publish(b) ==
    /\ beat[b].pc = "publishing"
    /\ sent' = [sent EXCEPT ![Key(b, beat[b].current)] = IF @ = 0 THEN 1 ELSE 2]
    /\ beat' = [beat EXCEPT ![b] = [@ EXCEPT !.pc = "advancing",
                                             !.view = Read(beat[b].todo)]]
    /\ UNCHANGED <<now, stored, failed, events>>

\* The broker refuses: the exception ends the row, the session stays usable.
PublishRaises(b) ==
    /\ beat[b].pc = "publishing" /\ events < MaxEvents /\ events' = events + 1
    /\ Done(b, beat[b].current,
            [beat[b] EXCEPT !.pc = "scanning", !.current = None])
    /\ UNCHANGED <<now, stored, sent, failed>>

\* The schedule moves on, a one-off is switched off; not committed yet.
Advance(b) ==
    LET s == beat[b].current
        row == IF Kind[s] = "oneoff" THEN Off ELSE Moved(beat[b].todo[s] + Period)
    IN  /\ beat[b].pc = "advancing" /\ ~Locked(b, s)
        /\ Done(b, s, [beat[b] EXCEPT !.pc = "scanning", !.current = None,
                                      !.rows = Update(b, s, row)])
        /\ SameStore

\* The wait for the row's lock times out.
RowRaises(b, s) ==
    /\ Locked(b, s)
    /\ Handles(b, s) \/ (beat[b].pc = "advancing" /\ beat[b].current = s)
    /\ Done(b, s, [beat[b] EXCEPT !.pc = "scanning", !.current = None])
    /\ SameStore

\* The tick's last commit; a run that is stored already undoes it all.
Finish(b) ==
    /\ beat[b].pc = "scanning" /\ DOMAIN beat[b].todo = {}
    /\ \/ Conflict(beat[b].adds) /\ UNCHANGED <<stored, failed>>
       \/ /\ ~Conflict(beat[b].adds) /\ StoreRows(b)
          /\ runs' = [k \in Schedules \X Windows |->
                         IF k \in beat[b].adds THEN "failed" ELSE runs[k]]
          /\ failed' = failed \cup beat[b].adds
    /\ beat' = [beat EXCEPT ![b] = Idle]
    /\ UNCHANGED <<now, sent, events>>

BeatStep(b) ==
    \/ Tick(b) \/ Publish(b) \/ PublishRaises(b) \/ Advance(b) \/ Finish(b)
    \/ \E s \in Schedules :
          \/ Misfire(b, s) \/ AlreadyEnqueued(b, s)
          \/ Dispatch(b, s) \/ DispatchConflicts(b, s) \/ RowRaises(b, s)

\* The beat dies; its session is rolled back.
Crash(b) ==
    /\ beat[b].pc # "idle" /\ events < MaxEvents /\ events' = events + 1
    /\ beat' = [beat EXCEPT ![b] = Idle]
    /\ UNCHANGED <<now, stored, sent, failed>>

------------------------------------------------------------------------------
(***************************************************************************)
(* Workers, users, time                                                    *)
(***************************************************************************)

\* The task of a published run fails, for good or until it is retried.
Fail(k) ==
    /\ sent[k] > 0 /\ runs[k] = "enqueued"
    /\ events < MaxEvents /\ events' = events + 1
    /\ runs' = [runs EXCEPT ![k] = "failed"] /\ failed' = failed \cup {k}
    /\ UNCHANGED <<now, next, enabled, sent, beat>>

\* A task marks its failed run as running: a retry, or a message delivered
\* again because a task is acknowledged at its end only.
Restart(k) ==
    /\ sent[k] > 0 /\ runs[k] = "failed"
    /\ runs' = [runs EXCEPT ![k] = "enqueued"]
    /\ UNCHANGED <<now, next, enabled, sent, failed, beat, events>>

\* A user switches a schedule on or off.
Switch(s) ==
    /\ events < MaxEvents /\ events' = events + 1
    /\ \A b \in Beats : s \notin DOMAIN beat[b].rows
    /\ enabled' = IF s \in enabled THEN enabled \ {s} ELSE enabled \cup {s}
    /\ UNCHANGED <<now, next, runs, sent, failed, beat>>

TimePasses ==
    /\ now < MaxTime /\ now' = now + 1
    /\ UNCHANGED <<stored, sent, failed, beat, events>>

Next ==
    \/ \E b \in Beats : BeatStep(b) \/ Crash(b)
    \/ \E k \in Schedules \X Windows : Fail(k) \/ Restart(k)
    \/ \E s \in Schedules : Switch(s)
    \/ TimePasses

Spec == Init /\ [][Next]_vars

\* Beats tick for ever and time passes.
FairSpec == Spec /\ WF_vars(TimePasses) /\ \A b \in Beats : WF_vars(BeatStep(b))

------------------------------------------------------------------------------
(***************************************************************************)
(* Properties                                                              *)
(***************************************************************************)

RunStates == {"enqueued", "failed"}

\* Type invariant: an idle beat remembers nothing, and a beat that publishes
\* has committed everything.
TypeOK ==
    /\ now \in 0 .. MaxTime
    /\ next \in [Schedules -> Windows \cup {None}]
    /\ enabled \subseteq Schedules
    /\ runs \in [Schedules \X Windows -> RunStates \cup {None}]
    /\ sent \in [Schedules \X Windows -> 0 .. 2]
    /\ failed \subseteq Schedules \X Windows
    /\ DOMAIN beat = Beats
    /\ \A b \in Beats :
          /\ beat[b].pc \in {"idle", "scanning", "publishing", "advancing"}
          /\ beat[b].at \in 0 .. now
          /\ DOMAIN beat[b].todo \subseteq Schedules
          /\ \A s \in DOMAIN beat[b].todo : beat[b].todo[s] \in 0 .. beat[b].at
          /\ DOMAIN beat[b].rows \subseteq Schedules \ DOMAIN beat[b].todo
          /\ beat[b].adds \subseteq Schedules \X Windows
          /\ beat[b].pc = "idle" => beat[b] = Idle
          /\ beat[b].pc \in {"publishing", "advancing"} =>
                /\ beat[b].current \in DOMAIN beat[b].todo
                /\ DOMAIN beat[b].rows = {} /\ beat[b].adds = {}
    /\ events \in 0 .. MaxEvents

\* A window is published once, unless its run has failed: by beats that
\* overlap, by a beat that repeats the tick that killed it, and after an
\* edit of the schedule.
OncePerWindow ==
    \A k \in Schedules \X Windows : sent[k] > 1 => k \in failed

\* "Commit before publishing so a fast worker cannot race an uncommitted
\* ScheduleRun": a worker finds the run of every message.
RunBeforeMessage ==
    \A k \in Schedules \X Windows : sent[k] > 0 => runs[k] # None

\* A beat that switches a one-off schedule off leaves a run behind, which was
\* published or tells of the misfire: the switch and the run are stored in
\* different flushes of a tick, which other rows, beats and deaths undo
\* (db_scheduler.py _sync_and_fire, _handle_row).
OneoffLeavesRun ==
    [][\A s \in Schedules :
          s \in enabled /\ s \notin enabled' /\ ~Switch(s)
              => runs'[<<s, OneoffAt>>] # None]_vars

Repeating == {s \in Schedules : Kind[s] # "oneoff"}

\* A repeating schedule that is enabled and due.
Overdue(s) ==
    /\ s \in enabled
    /\ IF next[s] = None THEN Kind[s] = "interval" ELSE next[s] <= now

\* A missed window that has a run already: the failed run of the misfire
\* cannot be inserted.
Poisoned ==
    \E s \in enabled :
        LET f == IF Kind[s] = "oneoff" THEN OneoffAt ELSE next[s] IN
        f # None /\ f + Grace < now /\ runs[<<s, f>>] # None

\* A schedule that is due moves on, whatever dies or is refused meanwhile,
\* unless some schedule has missed a window that has a run already.
MoveOnUnlessPoisoned ==
    \A s \in Repeating : Overdue(s) ~> (~Overdue(s) \/ Poisoned)

------------------------------------------------------------------------------
(***************************************************************************)
(* What comments and messages say and the code does not do                 *)
(***************************************************************************)

\* "If next_fire_at is still in the past, move it on so that it does not get
\* stuck": every schedule that is due moves on.
SchedulesMoveOn == \A s \in Repeating : Overdue(s) ~> ~Overdue(s)

\* A schedule without a next window gets one, "so that it fires as soon as
\* possible or is aligned to the nearest period".
FirstWindowComes ==
    \A s \in Schedules :
        (s \in enabled /\ Kind[s] = "crontab") ~>
            (s \notin enabled \/ next[s] # None)

=============================================================================
