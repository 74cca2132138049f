------------------------- MODULE DbSchedulerProofs -------------------------
(***************************************************************************)
(* Proofs about DbScheduler for every set of beats and schedules, every    *)
(* period and every bound.                                                 *)
(***************************************************************************)
EXTENDS DbScheduler, TLAPS

USE ScheduleKinds, ScheduleTimes, NoneIsNoStatus, ScheduleBounds DEF Windows

Keys == Schedules \X Windows

Fields == {"pc", "at", "todo", "view", "rows", "adds", "current"}

\* What a beat remembers at time t, without the part that depends on its pc.
Core(r, t) ==
    /\ DOMAIN r = Fields
    /\ r.at \in 0 .. t
    /\ DOMAIN r.todo \subseteq Schedules
    /\ \A s \in DOMAIN r.todo : r.todo[s] \in 0 .. r.at
    /\ \A s \in DOMAIN r.rows : r.rows[s].window \in Windows \cup {None}
    /\ r.adds \subseteq Keys

\* The whole: a row is handled once, and a message goes out when everything
\* is committed.
BeatOK(r, t) ==
    /\ Core(r, t)
    /\ r.pc \in {"idle", "scanning", "publishing", "advancing"}
    /\ DOMAIN r.rows \subseteq Schedules \ DOMAIN r.todo
    /\ r.pc = "idle" => r = Idle
    /\ r.pc \in {"publishing", "advancing"} =>
          r.current \in DOMAIN r.todo /\ DOMAIN r.rows = {} /\ r.adds = {}

\* A snapshot may be old, but a run that it shows is there and a run that it
\* shows as failed has failed.
ViewOK(r, R, F) ==
    r.view # None =>
        /\ DOMAIN r.view = DOMAIN r.todo
        /\ \A s \in DOMAIN r.todo :
              /\ r.view[s] # None => R[<<s, r.todo[s]>>] # None
              /\ r.view[s] = "failed" => <<s, r.todo[s]>> \in F
              /\ r.view[s] \in RunStates \cup {None}

BeatsOK ==
    /\ DOMAIN beat = Beats
    /\ \A b \in Beats : BeatOK(beat[b], now) /\ ViewOK(beat[b], runs, failed)

StoreOK ==
    /\ now \in 0 .. MaxTime
    /\ next \in [Schedules -> Windows \cup {None}]
    /\ enabled \subseteq Schedules
    /\ runs \in [Keys -> RunStates \cup {None}]
    /\ sent \in [Keys -> 0 .. 2]
    /\ failed \subseteq Keys
    /\ events \in 0 .. MaxEvents

\* Messages and failures leave their traces.
KeysOK ==
    \A k \in Keys :
        /\ sent[k] > 0 => runs[k] # None
        /\ sent[k] > 1 => k \in failed
        /\ runs[k] = "failed" => k \in failed

Publishing(b) == beat[b].pc = "publishing"
Published(b) == Key(b, beat[b].current)

\* A beat about to publish has its run, and has it alone, unless the run has
\* failed before.
Exclusive ==
    \A b \in Beats :
        Publishing(b) =>
            /\ runs[Published(b)] # None
            /\ Published(b) \notin failed =>
                  /\ sent[Published(b)] = 0
                  /\ \A c \in Beats \ {b} : Publishing(c) => Published(c) # Published(b)

SInv == StoreOK /\ BeatsOK /\ KeysOK /\ Exclusive

------------------------------------------------------------------------------
(***************************************************************************)
(* Windows                                                                 *)
(***************************************************************************)

\* The window after a time comes within a period.
LEMMA WindowBounds ==
    ASSUME NEW from \in Nat, NEW t \in Nat, from <= t
    PROVE  /\ WindowAfter(from, t) \in Nat
           /\ t < WindowAfter(from, t) /\ WindowAfter(from, t) <= t + Period
<1> DEFINE x == t - from
           q == x \div Period
<1>1. x \in Nat /\ Period \in Nat /\ Period > 0
  OBVIOUS
<1>2. q \in Nat /\ q * Period <= x /\ x < (q + 1) * Period
  BY <1>1
<1>3. (q + 1) * Period = q * Period + Period
  BY <1>1, <1>2
<1>4. q * Period \in Nat
  BY <1>1, <1>2
<1>5. WindowAfter(from, t) = from + (q + 1) * Period
  BY DEF WindowAfter
<1> HIDE DEF q
<1>6. QED BY <1>1, <1>2, <1>3, <1>4, <1>5


\* A tick looks at windows that have begun.
LEMMA DueWindows ==
    ASSUME StoreOK, NEW s \in DueRows
    PROVE  s \in Schedules /\ FireAt(s, now) \in 0 .. now
<1>1. /\ s \in Schedules /\ FireAt(s, now) <= now /\ now \in Nat /\ Kind[s] \in {"interval", "crontab", "oneoff"}
      /\ next[s] \in Windows \cup {None}
  BY DEF DueRows, StoreOK
<1>2. CASE Kind[s] = "oneoff"
  BY <1>1, <1>2 DEF FireAt
<1>3. CASE Kind[s] # "oneoff" /\ next[s] # None
  BY <1>1, <1>3 DEF FireAt
<1>4. CASE Kind[s] = "interval" /\ next[s] = None
  BY <1>1, <1>4 DEF FireAt
<1>5. CASE Kind[s] = "crontab" /\ next[s] = None
  <2>1. FireAt(s, now) = WindowAfter(0, now)
    BY <1>1, <1>5 DEF FireAt
  <2>2. QED BY <1>1, <2>1, WindowBounds
<1>6. QED BY <1>1, <1>2, <1>3, <1>4, <1>5

\* The key of a row that a beat remembers.
LEMMA KeyIsKey ==
    ASSUME StoreOK, NEW r, Core(r, now), NEW s \in DOMAIN r.todo
    PROVE  <<s, r.todo[s]>> \in Keys
BY DEF StoreOK, Core, Keys

\* What a look for runs finds.
LEMMA ReadIsView ==
    ASSUME StoreOK, KeysOK, NEW r, Core(r, now), r.view = Read(r.todo)
    PROVE  ViewOK(r, runs, failed)
<1> SUFFICES ASSUME NEW s \in DOMAIN r.todo
             PROVE  /\ DOMAIN r.view = DOMAIN r.todo
                    /\ r.view[s] # None => runs[<<s, r.todo[s]>>] # None
                    /\ r.view[s] = "failed" => <<s, r.todo[s]>> \in failed
                    /\ r.view[s] \in RunStates \cup {None}
  BY DEF ViewOK, Read
<1>1. DOMAIN r.view = DOMAIN r.todo /\ r.view[s] = runs[<<s, r.todo[s]>>]
  BY DEF Read
<1>2. <<s, r.todo[s]>> \in Keys
  BY KeyIsKey
<1>3. QED BY <1>1, <1>2 DEF StoreOK, KeysOK

\* A beat looks at its snapshot, or takes one.
LEMMA ViewFacts ==
    ASSUME SInv, NEW b \in Beats, NEW s \in DOMAIN beat[b].todo
    PROVE  /\ DOMAIN View(b) = DOMAIN beat[b].todo
           /\ View(b)[s] # None => runs[Key(b, s)] # None
           /\ View(b)[s] = "failed" => Key(b, s) \in failed
           /\ View(b)[s] \in RunStates \cup {None}
           /\ Key(b, s) \in Keys
<1>1. Core(beat[b], now) /\ ViewOK(beat[b], runs, failed) /\ StoreOK /\ KeysOK
  BY DEF SInv, BeatsOK, BeatOK
<1>2. Key(b, s) \in Keys
  BY <1>1, KeyIsKey DEF Key
<1>3. CASE beat[b].view = None
  <2>1. DOMAIN View(b) = DOMAIN beat[b].todo /\ View(b)[s] = runs[Key(b, s)]
    BY <1>3 DEF View, Read, Key
  <2>2. QED BY <1>1, <1>2, <2>1 DEF StoreOK, KeysOK
<1>4. CASE beat[b].view # None
  BY <1>1, <1>2, <1>4 DEF View, ViewOK, Key
<1>5. QED BY <1>3, <1>4

\* Snapshots stay good while no run is deleted and no failure is forgotten.
LEMMA ViewStays ==
    ASSUME NEW r, NEW R, NEW F, NEW R1, NEW F1, ViewOK(r, R, F),
           \A s \in DOMAIN r.todo :
              /\ R[<<s, r.todo[s]>>] # None => R1[<<s, r.todo[s]>>] # None
              /\ <<s, r.todo[s]>> \in F => <<s, r.todo[s]>> \in F1
    PROVE  ViewOK(r, R1, F1)
BY DEF ViewOK

\* A row is finished.
LEMMA DoneKeeps ==
    ASSUME NEW c, NEW s, NEW R, NEW F, Core(c, now), ViewOK(c, R, F),
           c.pc = "scanning", DOMAIN c.rows \subseteq (Schedules \ DOMAIN c.todo) \cup {s},
           s \in Schedules
    PROVE  LET x == [c EXCEPT !.todo = Without(@, s),
                              !.view = IF @ = None THEN None ELSE Without(@, s)]
           IN  BeatOK(x, now) /\ ViewOK(x, R, F) /\ x.pc = "scanning"
<1> DEFINE x == [c EXCEPT !.todo = Without(@, s),
                          !.view = IF @ = None THEN None ELSE Without(@, s)]
<1>1. /\ DOMAIN x = Fields /\ x.pc = c.pc /\ x.at = c.at /\ x.rows = c.rows /\ x.adds = c.adds
      /\ x.todo = Without(c.todo, s)
      /\ x.view = IF c.view = None THEN None ELSE Without(c.view, s)
  BY DEF Core, Fields
<1> HIDE DEF x
<1>2. DOMAIN x.todo = DOMAIN c.todo \ {s} /\ \A u \in DOMAIN x.todo : x.todo[u] = c.todo[u]
  BY <1>1 DEF Without
<1>3. Core(x, now)
  BY <1>1, <1>2 DEF Core
<1>4. BeatOK(x, now)
  BY <1>1, <1>2, <1>3 DEF BeatOK
<1>5. ViewOK(x, R, F)
  <2>1. CASE c.view = None
    BY <1>1, <2>1 DEF ViewOK
  <2>2. CASE c.view # None
    <3>1. DOMAIN c.view = DOMAIN c.todo
      BY <2>2 DEF ViewOK
    <3>2. x.view = Without(c.view, s)
      BY <1>1, <2>2
    <3>3. DOMAIN x.view = DOMAIN x.todo /\ \A u \in DOMAIN x.todo : x.view[u] = c.view[u]
      BY <1>2, <3>1, <3>2 DEF Without
    <3>4. QED BY <1>2, <2>2, <3>3 DEF ViewOK
  <2>3. QED BY <2>1, <2>2
<1>6. QED BY <1>1, <1>4, <1>5 DEF x

\* A row is updated.
LEMMA UpdateKeeps ==
    ASSUME NEW b \in Beats, Core(beat[b], now), NEW s \in Schedules, NEW row,
           row.window \in Windows \cup {None}
    PROVE  /\ DOMAIN Update(b, s, row) = DOMAIN beat[b].rows \cup {s}
           /\ \A t \in DOMAIN beat[b].rows \cup {s} :
                 Update(b, s, row)[t].window \in Windows \cup {None}
BY DEF Update, Core

------------------------------------------------------------------------------
(***************************************************************************)
(* Steps                                                                   *)
(***************************************************************************)

\* An idle beat remembers nothing.
LEMMA IdleOK ==
    ASSUME NEW R, NEW F, now \in 0 .. MaxTime
    PROVE  BeatOK(Idle, now) /\ ViewOK(Idle, R, F) /\ Idle.pc = "idle"
BY DEF Idle, NoRows, BeatOK, Core, ViewOK, Fields

\* A step of one beat that stores and publishes nothing.
LEMMA QuietStep ==
    ASSUME SInv, NEW b \in Beats, NEW x, beat' = [beat EXCEPT ![b] = x],
           BeatOK(x, now), ViewOK(x, runs, failed), x.pc # "publishing",
           UNCHANGED <<now, next, enabled, runs, sent, failed>>, events' \in 0 .. MaxEvents
    PROVE  SInv'
<1>1. DOMAIN beat = Beats
  BY DEF SInv, BeatsOK
<1>2. beat'[b] = x /\ DOMAIN beat' = Beats /\ \A c \in Beats \ {b} : beat'[c] = beat[c]
  BY <1>1
<1>3. StoreOK' /\ KeysOK'
  BY DEF SInv, StoreOK, KeysOK
<1>4. ASSUME NEW c \in Beats PROVE BeatOK(beat'[c], now') /\ ViewOK(beat'[c], runs', failed')
  BY <1>2 DEF SInv, BeatsOK
<1>5. Exclusive'
  BY <1>2 DEF SInv, Exclusive, Publishing, Published, Key
<1>6. QED BY <1>2, <1>3, <1>4, <1>5 DEF SInv, BeatsOK

\* Finishing a row, with the changes c.
LEMMA DoneStep ==
    ASSUME SInv, NEW b \in Beats, NEW s \in Schedules, NEW c, Done(b, s, c),
           Core(c, now), ViewOK(c, runs, failed), c.pc = "scanning",
           DOMAIN c.rows \subseteq (Schedules \ DOMAIN c.todo) \cup {s},
           UNCHANGED <<now, next, enabled, runs, sent, failed>>, events' \in 0 .. MaxEvents
    PROVE  SInv'
<1> DEFINE x == [c EXCEPT !.todo = Without(@, s),
                          !.view = IF @ = None THEN None ELSE Without(@, s)]
<1>1. beat' = [beat EXCEPT ![b] = x]
  BY DEF Done
<1>2. BeatOK(x, now) /\ ViewOK(x, runs, failed) /\ x.pc = "scanning"
  BY DoneKeeps
<1> HIDE DEF x
<1>3. QED BY <1>1, <1>2, QuietStep

\* The window of a row that moves on.
LEMMA NextWindow ==
    ASSUME StoreOK, NEW b \in Beats, Core(beat[b], now), NEW s \in DOMAIN beat[b].todo
    PROVE  /\ beat[b].todo[s] + Period \in Windows
           /\ WindowAfter(beat[b].todo[s], beat[b].at) \in Windows
           /\ WindowAfter(0, beat[b].at) \in Windows
<1> DEFINE from == beat[b].todo[s]
           t == beat[b].at
<1>1. from \in Nat /\ t \in Nat /\ from <= t /\ t <= MaxTime /\ MaxTime \in Nat /\ Period \in Nat
  BY DEF StoreOK, Core
<1> HIDE DEF from, t
<1>2. WindowAfter(from, t) \in Nat /\ WindowAfter(from, t) <= t + Period
  BY <1>1, WindowBounds
<1>3. WindowAfter(0, t) \in Nat /\ WindowAfter(0, t) <= t + Period
  BY <1>1, WindowBounds
<1>4. from + Period \in Windows /\ WindowAfter(from, t) \in Windows /\ WindowAfter(0, t) \in Windows
  BY <1>1, <1>2, <1>3
<1>5. QED BY <1>4 DEF from, t

\* Ticks.
LEMMA TickInv ==
    ASSUME SInv, NEW b \in Beats, Tick(b)
    PROVE  SInv'
<1>1. CASE UNCHANGED beat
  BY <1>1 DEF Tick, SameStore, stored, SInv, StoreOK, BeatsOK, KeysOK, Exclusive, Publishing, Published, Key
<1>2. CASE ~UNCHANGED beat
  <2> DEFINE todo == [s \in DueRows |-> FireAt(s, now)]
             x == [Idle EXCEPT !.pc = "scanning", !.at = now, !.todo = todo, !.view = Read(todo)]
  <2>1. beat' = [beat EXCEPT ![b] = x] /\ UNCHANGED <<now, next, enabled, runs, sent, failed, events>>
    BY <1>2 DEF Tick, SameStore, stored
  <2>2. /\ DOMAIN x = Fields /\ x.pc = "scanning" /\ x.at = now /\ x.todo = todo /\ x.view = Read(todo)
        /\ DOMAIN x.rows = {} /\ x.adds = {}
    BY DEF Idle, NoRows, Fields
  <2>3. StoreOK /\ KeysOK
    BY DEF SInv
  <2>4. DOMAIN todo \subseteq Schedules /\ \A s \in DOMAIN todo : todo[s] \in 0 .. now
    BY <2>3, DueWindows
  <2> HIDE DEF todo, x
  <2>5. now \in 0 .. now /\ events' \in 0 .. MaxEvents
    BY <2>1, <2>3 DEF StoreOK
  <2>6. Core(x, now)
    BY <2>2, <2>4, <2>5 DEF Core
  <2>7. BeatOK(x, now)
    BY <2>2, <2>4, <2>6 DEF BeatOK
  <2>8. ViewOK(x, runs, failed)
    BY <2>2, <2>3, <2>6, ReadIsView
  <2>9. QED BY <2>1, <2>2, <2>5, <2>7, <2>8, QuietStep
<1>3. QED BY <1>1, <1>2

\* Missed windows.
LEMMA MisfireInv ==
    ASSUME SInv, NEW b \in Beats, NEW s \in Schedules, Misfire(b, s)
    PROVE  SInv'
<1>1. PICK row : /\ row.window \in Windows \cup {None}
                 /\ Done(b, s, [beat[b] EXCEPT !.rows = Update(b, s, row), !.adds = @ \cup {Key(b, s)}])
  <2>1. PICK row : /\ \/ row = Moved(WindowAfter(beat[b].todo[s], beat[b].at))
                      \/ row = Moved(WindowAfter(0, beat[b].at)) \/ row = Off
                   /\ Done(b, s, [beat[b] EXCEPT !.rows = Update(b, s, row), !.adds = @ \cup {Key(b, s)}])
    BY DEF Misfire
  <2>2. s \in DOMAIN beat[b].todo /\ Core(beat[b], now) /\ StoreOK
    BY DEF Misfire, Handles, SInv, BeatsOK, BeatOK
  <2>3. row.window \in Windows \cup {None}
    BY <2>1, <2>2, NextWindow DEF Moved, Off
  <2>4. QED BY <2>1, <2>3
<1> DEFINE c == [beat[b] EXCEPT !.rows = Update(b, s, row), !.adds = @ \cup {Key(b, s)}]
<1>2. /\ BeatOK(beat[b], now) /\ ViewOK(beat[b], runs, failed) /\ beat[b].pc = "scanning"
      /\ s \in DOMAIN beat[b].todo /\ UNCHANGED <<now, next, enabled, runs, sent, failed, events>>
      /\ StoreOK
  BY DEF Misfire, Handles, SameStore, stored, SInv, BeatsOK
<1>3. Core(beat[b], now) /\ Key(b, s) \in Keys
  BY <1>2, ViewFacts DEF BeatOK
<1>4. /\ DOMAIN c = Fields /\ c.pc = "scanning" /\ c.at = beat[b].at /\ c.todo = beat[b].todo
      /\ c.view = beat[b].view /\ c.rows = Update(b, s, row) /\ c.adds = beat[b].adds \cup {Key(b, s)}
  BY <1>2, <1>3 DEF Core, Fields
<1>5. Done(b, s, c)
  BY <1>1
<1> HIDE DEF c
<1>6. /\ DOMAIN c.rows = DOMAIN beat[b].rows \cup {s}
      /\ \A t \in DOMAIN c.rows : c.rows[t].window \in Windows \cup {None}
  <2>1. /\ DOMAIN Update(b, s, row) = DOMAIN beat[b].rows \cup {s}
        /\ \A t \in DOMAIN beat[b].rows \cup {s} :
              Update(b, s, row)[t].window \in Windows \cup {None}
    BY <1>1, <1>3, UpdateKeeps
  <2>2. QED BY <1>4, <2>1
<1>7. Core(c, now) /\ ViewOK(c, runs, failed)
  BY <1>2, <1>3, <1>4, <1>6 DEF Core, ViewOK
<1>8. DOMAIN c.rows \subseteq (Schedules \ DOMAIN c.todo) \cup {s}
  BY <1>2, <1>4, <1>6 DEF BeatOK
<1>9. events' \in 0 .. MaxEvents
  BY <1>2 DEF StoreOK
<1>10. QED BY <1>2, <1>4, <1>5, <1>7, <1>8, <1>9, DoneStep

\* Windows that were fired before.
LEMMA AlreadyEnqueuedInv ==
    ASSUME SInv, NEW b \in Beats, NEW s \in Schedules, AlreadyEnqueued(b, s)
    PROVE  SInv'
<1>1. /\ BeatOK(beat[b], now) /\ ViewOK(beat[b], runs, failed) /\ beat[b].pc = "scanning"
      /\ s \in DOMAIN beat[b].todo /\ UNCHANGED <<now, next, enabled, runs, sent, failed, events>>
      /\ StoreOK
  BY DEF AlreadyEnqueued, Due, Handles, SameStore, stored, SInv, BeatsOK
<1>2. Core(beat[b], now) /\ events' \in 0 .. MaxEvents
  BY <1>1 DEF BeatOK, StoreOK
<1>3. ASSUME NEW c, DOMAIN c = Fields, c.pc = "scanning", c.at = beat[b].at,
             c.todo = beat[b].todo, c.view = View(b), c.adds = beat[b].adds
      PROVE  ViewOK(c, runs, failed)
  <2>1. DOMAIN View(b) = DOMAIN beat[b].todo
    BY <1>1, ViewFacts
  <2>2. ASSUME NEW u \in DOMAIN c.todo
        PROVE  /\ View(b)[u] # None => runs[<<u, beat[b].todo[u]>>] # None
               /\ View(b)[u] = "failed" => <<u, beat[b].todo[u]>> \in failed
               /\ View(b)[u] \in RunStates \cup {None}
    BY <1>3, <2>2, ViewFacts DEF Key
  <2>3. QED BY <1>3, <2>1, <2>2 DEF ViewOK
<1>4. CASE Done(b, s, [beat[b] EXCEPT !.view = View(b)])
  <2> DEFINE c == [beat[b] EXCEPT !.view = View(b)]
  <2>1. /\ DOMAIN c = Fields /\ c.pc = "scanning" /\ c.at = beat[b].at /\ c.todo = beat[b].todo
        /\ c.view = View(b) /\ c.rows = beat[b].rows /\ c.adds = beat[b].adds
    BY <1>1, <1>2 DEF Core, Fields
  <2>2. Done(b, s, c)
    BY <1>4
  <2> HIDE DEF c
  <2>3. Core(c, now) /\ ViewOK(c, runs, failed)
    BY <1>2, <1>3, <2>1 DEF Core
  <2>4. DOMAIN c.rows \subseteq (Schedules \ DOMAIN c.todo) \cup {s}
    BY <1>1, <2>1 DEF BeatOK
  <2>5. QED BY <1>1, <1>2, <2>1, <2>2, <2>3, <2>4, DoneStep
<1>5. CASE Done(b, s, [beat[b] EXCEPT !.view = View(b),
                                      !.rows = Update(b, s, Moved(beat[b].todo[s] + Period))])
  <2> DEFINE row == Moved(beat[b].todo[s] + Period)
             c == [beat[b] EXCEPT !.view = View(b), !.rows = Update(b, s, row)]
  <2>1. row.window \in Windows \cup {None}
    BY <1>1, <1>2, NextWindow DEF Moved
  <2> HIDE DEF row
  <2>2. /\ DOMAIN c = Fields /\ c.pc = "scanning" /\ c.at = beat[b].at /\ c.todo = beat[b].todo
        /\ c.view = View(b) /\ c.rows = Update(b, s, row) /\ c.adds = beat[b].adds
    BY <1>1, <1>2 DEF Core, Fields
  <2>3. Done(b, s, c)
    BY <1>5 DEF row
  <2> HIDE DEF c
  <2>4. /\ DOMAIN c.rows = DOMAIN beat[b].rows \cup {s}
        /\ \A t \in DOMAIN c.rows : c.rows[t].window \in Windows \cup {None}
    <3>1. /\ DOMAIN Update(b, s, row) = DOMAIN beat[b].rows \cup {s}
          /\ \A t \in DOMAIN beat[b].rows \cup {s} :
                Update(b, s, row)[t].window \in Windows \cup {None}
      BY <1>2, <2>1, UpdateKeeps
    <3>2. QED BY <2>2, <3>1
  <2>5. Core(c, now) /\ ViewOK(c, runs, failed)
    BY <1>2, <1>3, <2>2, <2>4 DEF Core
  <2>6. DOMAIN c.rows \subseteq (Schedules \ DOMAIN c.todo) \cup {s}
    BY <1>1, <2>2, <2>4 DEF BeatOK
  <2>7. QED BY <1>1, <1>2, <2>2, <2>3, <2>5, <2>6, DoneStep
<1>6. QED BY <1>4, <1>5 DEF AlreadyEnqueued

\* A row that raises ends; nothing is changed.
LEMMA RaisesInv ==
    ASSUME SInv, NEW b \in Beats, PublishRaises(b) \/ \E s \in Schedules : RowRaises(b, s)
    PROVE  SInv'
<1> DEFINE c == [beat[b] EXCEPT !.pc = "scanning", !.current = None]
<1>1. PICK s \in Schedules : Done(b, s, c) /\ beat[b].pc # "idle"
  <2>1. CASE PublishRaises(b)
    <3>1. beat[b].current \in Schedules /\ beat[b].pc = "publishing"
      BY <2>1 DEF PublishRaises, SInv, BeatsOK, BeatOK, Core
    <3>2. QED BY <2>1, <3>1 DEF PublishRaises
  <2>2. CASE \E s \in Schedules : RowRaises(b, s)
    BY <2>2 DEF RowRaises, Handles
  <2>3. QED BY <2>1, <2>2
<1>2. /\ BeatOK(beat[b], now) /\ Core(beat[b], now) /\ ViewOK(beat[b], runs, failed) /\ StoreOK
      /\ UNCHANGED <<now, next, enabled, runs, sent, failed>>
  BY DEF PublishRaises, RowRaises, SameStore, stored, SInv, BeatsOK, BeatOK
<1>3. events' \in 0 .. MaxEvents
  BY <1>2 DEF PublishRaises, RowRaises, SameStore, StoreOK
<1>4. /\ DOMAIN c = Fields /\ c.pc = "scanning" /\ c.at = beat[b].at /\ c.todo = beat[b].todo
      /\ c.view = beat[b].view /\ c.rows = beat[b].rows /\ c.adds = beat[b].adds
  BY <1>2 DEF Core, Fields
<1> HIDE DEF c
<1>5. Core(c, now) /\ ViewOK(c, runs, failed)
  BY <1>2, <1>4 DEF Core, ViewOK
<1>6. DOMAIN c.rows \subseteq (Schedules \ DOMAIN c.todo) \cup {s}
  BY <1>2, <1>4 DEF BeatOK
<1>7. QED BY <1>1, <1>2, <1>3, <1>4, <1>5, <1>6, DoneStep

\* Schedules move on.
LEMMA AdvanceInv ==
    ASSUME SInv, NEW b \in Beats, Advance(b)
    PROVE  SInv'
<1> DEFINE s == beat[b].current
<1>1. PICK row : /\ row = Off \/ row = Moved(beat[b].todo[s] + Period)
                 /\ Done(b, s, [beat[b] EXCEPT !.pc = "scanning", !.current = None,
                                               !.rows = Update(b, s, row)])
  BY DEF Advance
<1>2. /\ BeatOK(beat[b], now) /\ Core(beat[b], now) /\ ViewOK(beat[b], runs, failed) /\ StoreOK
      /\ UNCHANGED <<now, next, enabled, runs, sent, failed, events>>
      /\ beat[b].pc = "advancing"
  BY DEF Advance, SameStore, stored, SInv, BeatsOK, BeatOK
<1>3. events' \in 0 .. MaxEvents /\ s \in DOMAIN beat[b].todo /\ s \in Schedules /\ DOMAIN beat[b].rows = {}
  BY <1>2 DEF StoreOK, BeatOK, Core
<1> DEFINE c == [beat[b] EXCEPT !.pc = "scanning", !.current = None, !.rows = Update(b, s, row)]
<1>4. /\ DOMAIN c = Fields /\ c.pc = "scanning" /\ c.at = beat[b].at /\ c.todo = beat[b].todo
      /\ c.view = beat[b].view /\ c.rows = Update(b, s, row) /\ c.adds = beat[b].adds
  BY <1>2 DEF Core, Fields
<1>5. Done(b, s, c)
  BY <1>1
<1> HIDE DEF c, s
<1>6. row.window \in Windows \cup {None}
  BY <1>1, <1>2, <1>3, NextWindow DEF Moved, Off
<1>7. /\ DOMAIN c.rows = {s}
      /\ \A t \in DOMAIN c.rows : c.rows[t].window \in Windows \cup {None}
  <2>1. /\ DOMAIN Update(b, s, row) = DOMAIN beat[b].rows \cup {s}
        /\ \A t \in DOMAIN beat[b].rows \cup {s} :
              Update(b, s, row)[t].window \in Windows \cup {None}
    BY <1>2, <1>3, <1>6, UpdateKeeps
  <2>2. QED BY <1>3, <1>4, <2>1
<1>8. Core(c, now) /\ ViewOK(c, runs, failed)
  BY <1>2, <1>4, <1>7 DEF Core, ViewOK
<1>9. QED BY <1>2, <1>3, <1>4, <1>5, <1>7, <1>8, DoneStep

\* A beat that gives up its tick, or dies.
LEMMA GivesUpInv ==
    ASSUME SInv, NEW b \in Beats, Crash(b) \/ \E s \in Schedules : DispatchConflicts(b, s)
    PROVE  SInv'
<1>1. /\ beat' = [beat EXCEPT ![b] = Idle] /\ UNCHANGED <<now, next, enabled, runs, sent, failed>>
  BY DEF Crash, DispatchConflicts, SameStore, stored
<1>2. events' \in 0 .. MaxEvents /\ now \in 0 .. MaxTime
  <2>1. events \in 0 .. MaxEvents /\ now \in 0 .. MaxTime
    BY DEF SInv, StoreOK
  <2>2. events' = events \/ (events < MaxEvents /\ events' = events + 1)
    BY DEF Crash, DispatchConflicts, SameStore
  <2>3. QED BY <2>1, <2>2
<1>3. QED BY <1>1, <1>2, IdleOK, QuietStep

\* The windows that a transaction stores.
LEMMA StoreRowsOK ==
    ASSUME SInv, NEW b \in Beats, StoreRows(b)
    PROVE  next' \in [Schedules -> Windows \cup {None}] /\ enabled' \subseteq Schedules
<1>1. Core(beat[b], now) /\ StoreOK
  BY DEF SInv, BeatsOK, BeatOK
<1>2. next' \in [Schedules -> Windows \cup {None}]
  BY <1>1 DEF Core, StoreOK, StoreRows
<1>3. enabled' \subseteq Schedules
  BY <1>1 DEF StoreOK, StoreRows
<1>4. QED BY <1>2, <1>3

\* Runs are inserted: new ones, and failed ones for the windows missed.
LEMMA InsertKeeps ==
    ASSUME SInv, NEW N, NEW A, N \subseteq Keys, A \subseteq Keys, ~Conflict(A \cup N),
           runs' = [k \in Keys |-> IF k \in N THEN "enqueued" ELSE
                                   IF k \in A THEN "failed" ELSE runs[k]],
           failed' = failed \cup A
    PROVE  /\ runs' \in [Keys -> RunStates \cup {None}] /\ failed' \subseteq Keys
           /\ \A k \in Keys : /\ runs[k] # None => k \notin A \cup N /\ runs'[k] = runs[k]
                              /\ runs'[k] = "failed" => k \in failed'
                              /\ k \in N => runs'[k] = "enqueued"
                              /\ k \in failed => k \in failed'
                              /\ k \in failed' /\ runs[k] # None => k \in failed
<1>1. \A k \in A \cup N : runs[k] = None
  BY DEF Conflict
<1>2. runs \in [Keys -> RunStates \cup {None}] /\ failed \subseteq Keys /\ KeysOK
  BY DEF SInv, StoreOK
<1>3. ASSUME NEW k \in Keys
      PROVE  /\ runs'[k] \in RunStates \cup {None}
             /\ k \in N => runs'[k] = "enqueued"
             /\ k \notin N /\ k \in A => runs'[k] = "failed"
             /\ k \notin N /\ k \notin A => runs'[k] = runs[k]
  <2>1. runs'[k] = IF k \in N THEN "enqueued" ELSE IF k \in A THEN "failed" ELSE runs[k]
    BY <1>3
  <2>2. runs[k] \in RunStates \cup {None} /\ {"enqueued", "failed"} \subseteq RunStates
    BY <1>2, <1>3 DEF RunStates
  <2>3. CASE k \in N
    BY <2>1, <2>2, <2>3
  <2>4. CASE k \notin N /\ k \in A
    BY <2>1, <2>2, <2>4
  <2>5. CASE k \notin N /\ k \notin A
    BY <2>1, <2>2, <2>5
  <2>6. QED BY <2>3, <2>4, <2>5
<1>4. runs' \in [Keys -> RunStates \cup {None}]
  BY <1>3
<1>5. ASSUME NEW k \in Keys
      PROVE  /\ runs[k] # None => k \notin A \cup N /\ runs'[k] = runs[k]
             /\ runs'[k] = "failed" => k \in failed'
             /\ k \in N => runs'[k] = "enqueued"
             /\ k \in failed => k \in failed'
             /\ k \in failed' /\ runs[k] # None => k \in failed
  BY <1>1, <1>2, <1>3 DEF KeysOK
<1>6. QED BY <1>2, <1>4, <1>5

\* What the insertion of runs preserves.
LEMMA InsertInv ==
    ASSUME SInv, NEW N, NEW A, N \subseteq Keys, A \subseteq Keys, ~Conflict(A \cup N),
           runs' = [k \in Keys |-> IF k \in N THEN "enqueued" ELSE
                                   IF k \in A THEN "failed" ELSE runs[k]],
           failed' = failed \cup A, UNCHANGED <<now, sent, events>>,
           NEW b \in Beats, StoreRows(b)
    PROVE  /\ StoreOK' /\ KeysOK'
           /\ \A r : Core(r, now) /\ ViewOK(r, runs, failed) => ViewOK(r, runs', failed')
<1>1. StoreOK /\ KeysOK
  BY DEF SInv
<1>2. StoreOK'
  BY <1>1, InsertKeeps, StoreRowsOK DEF StoreOK
<1>3. KeysOK'
  BY <1>1, InsertKeeps DEF KeysOK
<1>4. ASSUME NEW r, Core(r, now), ViewOK(r, runs, failed)
      PROVE  ViewOK(r, runs', failed')
  <2>1. \A s \in DOMAIN r.todo :
           /\ runs[<<s, r.todo[s]>>] # None => runs'[<<s, r.todo[s]>>] # None
           /\ <<s, r.todo[s]>> \in failed => <<s, r.todo[s]>> \in failed'
    <3> SUFFICES ASSUME NEW s \in DOMAIN r.todo
                 PROVE  /\ runs[<<s, r.todo[s]>>] # None => runs'[<<s, r.todo[s]>>] # None
                        /\ <<s, r.todo[s]>> \in failed => <<s, r.todo[s]>> \in failed'
      OBVIOUS
    <3>1. <<s, r.todo[s]>> \in Keys
      BY <1>1, <1>4, KeyIsKey
    <3>2. QED BY <3>1, InsertKeeps
  <2>2. QED BY <1>4, <2>1, ViewStays
<1>5. QED BY <1>2, <1>3, <1>4

\* The tick's last commit.
LEMMA FinishInv ==
    ASSUME SInv, NEW b \in Beats, Finish(b)
    PROVE  SInv'
<1>1. beat' = [beat EXCEPT ![b] = Idle] /\ UNCHANGED <<now, sent, events>>
  BY DEF Finish
<1>2. /\ now \in 0 .. MaxTime /\ events \in 0 .. MaxEvents /\ DOMAIN beat = Beats
      /\ Core(beat[b], now)
  BY DEF SInv, StoreOK, BeatsOK, BeatOK
<1>3. CASE UNCHANGED <<stored, failed>>
  <2>1. UNCHANGED <<now, next, enabled, runs, sent, failed, events>>
    BY <1>1, <1>3 DEF stored
  <2>2. QED BY <1>1, <1>2, <2>1, IdleOK, QuietStep
<1>4. CASE ~UNCHANGED <<stored, failed>>
  <2>1. /\ ~Conflict(beat[b].adds \cup {}) /\ StoreRows(b) /\ failed' = failed \cup beat[b].adds
        /\ runs' = [k \in Keys |-> IF k \in {} THEN "enqueued" ELSE
                                   IF k \in beat[b].adds THEN "failed" ELSE runs[k]]
        /\ beat[b].adds \subseteq Keys
    BY <1>2, <1>4 DEF Finish, Keys, Core
  <2>2. StoreOK' /\ KeysOK'
    BY <1>1, <2>1, InsertInv
  <2>3. \A r : Core(r, now) /\ ViewOK(r, runs, failed) => ViewOK(r, runs', failed')
    BY <1>1, <2>1, InsertInv
  <2>4. beat'[b] = Idle /\ DOMAIN beat' = Beats /\ \A c \in Beats \ {b} : beat'[c] = beat[c]
    BY <1>1, <1>2
  <2>5. BeatsOK'
    <3>1. ASSUME NEW c \in Beats PROVE BeatOK(beat'[c], now') /\ ViewOK(beat'[c], runs', failed')
      <4>1. CASE c = b
        BY <1>1, <1>2, <2>4, <4>1, IdleOK
      <4>2. CASE c # b
        BY <1>1, <2>3, <2>4, <4>2 DEF SInv, BeatsOK, BeatOK
      <4>3. QED BY <4>1, <4>2
    <3>2. QED BY <2>4, <3>1 DEF BeatsOK
  <2>6. \A c \in Beats : Publishing(c)' => c # b /\ Publishing(c) /\ Published(c)' = Published(c)
    BY <2>4 DEF Publishing, Published, Key, Idle
  <2>7. ASSUME NEW c \in Beats, Publishing(c)
        PROVE  /\ Published(c) \in Keys
               /\ runs'[Published(c)] # None
               /\ Published(c) \notin failed' => Published(c) \notin failed
    <3>1. beat[c].current \in DOMAIN beat[c].todo
      BY <2>7 DEF SInv, BeatsOK, BeatOK, Publishing
    <3>2. Published(c) \in Keys /\ runs[Published(c)] # None
      BY <2>7, <3>1, ViewFacts DEF Published, SInv, Exclusive
    <3>3. QED BY <1>1, <2>1, <3>2, InsertKeeps
  <2>8. Exclusive'
    BY <1>1, <2>6, <2>7 DEF SInv, Exclusive
  <2>9. QED BY <2>2, <2>5, <2>8 DEF SInv
<1>5. QED BY <1>3, <1>4

\* The run is committed.
LEMMA DispatchInv ==
    ASSUME SInv, NEW b \in Beats, NEW s \in Schedules, Dispatch(b, s)
    PROVE  SInv'
<1> DEFINE x == [Fresh(b) EXCEPT !.pc = "publishing", !.current = s]
           N == NewRun(b, s)
           A == beat[b].adds
           k == Key(b, s)
<1>1. /\ s \in DOMAIN beat[b].todo /\ beat[b].pc = "scanning" /\ Unfired(b, s) /\ ~Conflict(A \cup N)
      /\ runs' = [j \in Keys |-> IF j \in N THEN "enqueued" ELSE
                                 IF j \in A THEN "failed" ELSE runs[j]]
      /\ failed' = failed \cup A /\ StoreRows(b) /\ beat' = [beat EXCEPT ![b] = x]
      /\ UNCHANGED <<now, sent, events>>
  BY DEF Dispatch, Due, Handles, Keys
<1>2. /\ StoreOK /\ KeysOK /\ DOMAIN beat = Beats /\ BeatOK(beat[b], now) /\ Core(beat[b], now)
  BY DEF SInv, BeatsOK, BeatOK
<1>3. /\ k \in Keys
      /\ View(b)[s] = None \/ (View(b)[s] = "failed" /\ runs[k] # None /\ k \in failed)
      /\ N = IF View(b)[s] = None THEN {k} ELSE {}
  BY <1>1, ViewFacts DEF Unfired, Consumed, RunStates, NewRun
<1>4. N \subseteq Keys /\ A \subseteq Keys
  BY <1>2, <1>3 DEF Core
<1>5. /\ DOMAIN x = Fields /\ x.pc = "publishing" /\ x.current = s /\ x.at = beat[b].at
      /\ x.todo = beat[b].todo /\ x.view = None /\ x.adds = {} /\ DOMAIN x.rows = {}
  BY <1>2 DEF Core, Fields, Fresh, NoRows
<1> HIDE DEF x, N, A, k
<1>6. StoreOK' /\ KeysOK' /\ \A r : Core(r, now) /\ ViewOK(r, runs, failed) => ViewOK(r, runs', failed')
  BY <1>1, <1>4, InsertInv
<1>7. beat'[b] = x /\ DOMAIN beat' = Beats /\ \A c \in Beats \ {b} : beat'[c] = beat[c]
  BY <1>1, <1>2
<1>8. BeatOK(x, now) /\ ViewOK(x, runs', failed')
  BY <1>1, <1>2, <1>5 DEF BeatOK, Core, ViewOK
<1>9. BeatsOK'
  <2>1. ASSUME NEW c \in Beats PROVE BeatOK(beat'[c], now') /\ ViewOK(beat'[c], runs', failed')
    <3>1. CASE c = b
      BY <1>1, <1>7, <1>8, <3>1
    <3>2. CASE c # b
      BY <1>1, <1>6, <1>7, <3>2 DEF SInv, BeatsOK, BeatOK
    <3>3. QED BY <3>1, <3>2
  <2>2. QED BY <1>7, <2>1 DEF BeatsOK
<1>10. Publishing(b)' /\ Published(b)' = k
  BY <1>5, <1>7 DEF Publishing, Published, Key, k
<1>11. ASSUME NEW c \in Beats \ {b}
       PROVE  Publishing(c)' = Publishing(c) /\ Published(c)' = Published(c)
  BY <1>7 DEF Publishing, Published, Key
<1>12. ASSUME NEW c \in Beats, Publishing(c)
       PROVE  /\ Published(c) \in Keys /\ runs[Published(c)] # None
              /\ runs'[Published(c)] # None
              /\ Published(c) \notin failed' => Published(c) \notin failed
  <2>1. beat[c].current \in DOMAIN beat[c].todo
    BY <1>12 DEF SInv, BeatsOK, BeatOK, Publishing
  <2>2. Published(c) \in Keys /\ runs[Published(c)] # None
    BY <1>12, <2>1, ViewFacts DEF Published, SInv, Exclusive
  <2>3. QED BY <1>1, <1>4, <2>2, InsertKeeps
<1>13. /\ runs'[k] # None
       /\ k \notin failed' =>
             /\ sent[k] = 0
             /\ \A c \in Beats \ {b} : Publishing(c) => Published(c) # k
  <2>1. CASE View(b)[s] = None
    <3>1. k \in N
      BY <1>3, <2>1
    <3>2. runs[k] = None /\ runs'[k] = "enqueued"
      BY <1>1, <1>3, <1>4, <3>1, InsertKeeps DEF Conflict
    <3>3. sent[k] = 0
      BY <1>2, <1>3, <3>2 DEF KeysOK, StoreOK
    <3>4. \A c \in Beats \ {b} : Publishing(c) => Published(c) # k
      BY <1>12, <3>2
    <3>5. "enqueued" # None
      OBVIOUS
    <3>6. QED BY <3>2, <3>3, <3>4, <3>5
  <2>2. CASE View(b)[s] # None
    <3>1. runs[k] # None /\ k \in failed
      BY <1>3, <2>2
    <3>2. runs'[k] # None /\ k \in failed'
      BY <1>1, <1>3, <1>4, <3>1, InsertKeeps
    <3>3. QED BY <3>2
  <2>3. QED BY <2>1, <2>2
<1>14. Exclusive'
  <2> SUFFICES ASSUME NEW c \in Beats, Publishing(c)'
               PROVE  /\ runs'[Published(c)'] # None
                      /\ Published(c)' \notin failed' =>
                            /\ sent'[Published(c)'] = 0
                            /\ \A d \in Beats \ {c} : Publishing(d)' => Published(d)' # Published(c)'
    BY DEF Exclusive
  <2>1. CASE c = b
    BY <1>1, <1>10, <1>11, <1>13, <2>1
  <2>2. CASE c # b
    <3>1. Publishing(c) /\ Published(c)' = Published(c)
      BY <1>11, <2>2
    <3>2. runs'[Published(c)] # None
      BY <1>12, <3>1
    <3>3. ASSUME Published(c) \notin failed'
          PROVE  /\ sent'[Published(c)] = 0
                 /\ \A d \in Beats \ {c} : Publishing(d)' => Published(d)' # Published(c)
      <4>1. sent[Published(c)] = 0 /\ \A d \in Beats \ {c} : Publishing(d) => Published(d) # Published(c)
        BY <1>12, <3>1, <3>3 DEF SInv, Exclusive
      <4>2. Published(b)' # Published(c)
        BY <1>10, <1>13, <2>2, <3>1, <3>3
      <4>3. QED BY <1>1, <1>11, <4>1, <4>2
    <3>4. QED BY <3>1, <3>2, <3>3
  <2>3. QED BY <2>1, <2>2
<1>15. QED BY <1>6, <1>9, <1>14 DEF SInv

\* The message is published.
LEMMA PublishInv ==
    ASSUME SInv, NEW b \in Beats, Publish(b)
    PROVE  SInv'
<1> DEFINE x == [beat[b] EXCEPT !.pc = "advancing", !.view = Read(beat[b].todo)]
           k == Published(b)
<1>1. /\ Publishing(b) /\ sent' = [sent EXCEPT ![k] = IF sent[k] = 0 THEN 1 ELSE 2]
      /\ beat' = [beat EXCEPT ![b] = x]
      /\ UNCHANGED <<now, next, enabled, runs, failed, events>>
  BY DEF Publish, Publishing, Published, stored
<1>2. /\ StoreOK /\ KeysOK /\ DOMAIN beat = Beats /\ BeatOK(beat[b], now) /\ Core(beat[b], now)
  BY DEF SInv, BeatsOK, BeatOK
<1>3. /\ beat[b].current \in DOMAIN beat[b].todo /\ beat[b].adds = {} /\ DOMAIN beat[b].rows = {}
  BY <1>1, <1>2 DEF BeatOK, Publishing
<1>4. /\ k \in Keys /\ runs[k] # None
      /\ k \notin failed => /\ sent[k] = 0
                            /\ \A c \in Beats \ {b} : Publishing(c) => Published(c) # k
  BY <1>1, <1>3, ViewFacts DEF Published, SInv, Exclusive
<1>5. /\ DOMAIN x = Fields /\ x.pc = "advancing" /\ x.current = beat[b].current
      /\ x.at = beat[b].at /\ x.todo = beat[b].todo /\ x.view = Read(x.todo)
      /\ x.adds = {} /\ DOMAIN x.rows = {} /\ x.rows = beat[b].rows
  BY <1>2, <1>3 DEF Core, Fields
<1> HIDE DEF x, k
<1>6. Core(x, now)
  BY <1>2, <1>5 DEF Core
<1>7. BeatOK(x, now) /\ ViewOK(x, runs, failed)
  BY <1>2, <1>3, <1>5, <1>6, ReadIsView DEF BeatOK
<1>8. beat'[b] = x /\ DOMAIN beat' = Beats /\ \A c \in Beats \ {b} : beat'[c] = beat[c]
  BY <1>1, <1>2
<1>9. StoreOK'
  BY <1>1, <1>2, <1>4 DEF StoreOK
<1>10. KeysOK'
  BY <1>1, <1>2, <1>4 DEF StoreOK, KeysOK
<1>11. BeatsOK'
  <2>1. ASSUME NEW c \in Beats PROVE BeatOK(beat'[c], now') /\ ViewOK(beat'[c], runs', failed')
    BY <1>1, <1>7, <1>8 DEF SInv, BeatsOK
  <2>2. QED BY <1>8, <2>1 DEF BeatsOK
<1>12. Exclusive'
  <2> SUFFICES ASSUME NEW c \in Beats, Publishing(c)'
               PROVE  /\ runs'[Published(c)'] # None
                      /\ Published(c)' \notin failed' =>
                            /\ sent'[Published(c)'] = 0
                            /\ \A d \in Beats \ {c} : Publishing(d)' => Published(d)' # Published(c)'
    BY DEF Exclusive
  <2>1. ~Publishing(b)'
    BY <1>5, <1>8 DEF Publishing
  <2>2. ASSUME NEW d \in Beats \ {b}
        PROVE  Publishing(d)' = Publishing(d) /\ Published(d)' = Published(d)
    BY <1>8 DEF Publishing, Published, Key
  <2>3. c \in Beats \ {b} /\ Publishing(c) /\ Published(c)' = Published(c)
    BY <2>1, <2>2
  <2>4. /\ runs[Published(c)] # None
        /\ Published(c) \notin failed =>
              /\ sent[Published(c)] = 0
              /\ \A d \in Beats \ {c} : Publishing(d) => Published(d) # Published(c)
    BY <2>3 DEF SInv, Exclusive
  <2>5. ASSUME Published(c) \notin failed PROVE sent'[Published(c)] = 0
    <3>1. Published(c) # k
      BY <1>1, <2>3, <2>4, <2>5 DEF k
    <3>2. QED BY <1>1, <2>4, <2>5, <3>1
  <2>6. QED BY <1>1, <2>1, <2>2, <2>3, <2>4, <2>5
<1>13. QED BY <1>9, <1>10, <1>11, <1>12 DEF SInv

\* Tasks, users and time.
LEMMA EnvironmentInv ==
    ASSUME SInv, \/ \E k \in Keys : Fail(k) \/ Restart(k)
                 \/ \E s \in Schedules : Switch(s)
                 \/ TimePasses
    PROVE  SInv'
<1>1. /\ UNCHANGED <<next, sent, beat>> /\ StoreOK /\ KeysOK /\ DOMAIN beat = Beats
  BY DEF Fail, Restart, Switch, TimePasses, stored, SInv, BeatsOK
<1>2. /\ runs' \in [Keys -> RunStates \cup {None}] /\ failed' \subseteq Keys
      /\ \A k \in Keys : /\ (runs'[k] # None) <=> (runs[k] # None)
                         /\ runs'[k] = "failed" => k \in failed'
                         /\ k \in failed => k \in failed'
  <2>1. CASE \E k \in Keys : Fail(k)
    BY <1>1, <2>1 DEF Fail, StoreOK, KeysOK, RunStates
  <2>2. CASE \E k \in Keys : Restart(k)
    BY <1>1, <2>2 DEF Restart, StoreOK, KeysOK, RunStates
  <2>3. CASE (\E s \in Schedules : Switch(s)) \/ TimePasses
    BY <1>1, <2>3 DEF Switch, TimePasses, stored, StoreOK, KeysOK
  <2>4. QED BY <2>1, <2>2, <2>3
<1>3. now' \in 0 .. MaxTime /\ now <= now' /\ events' \in 0 .. MaxEvents /\ enabled' \subseteq Schedules
  <2>1. now \in 0 .. MaxTime /\ events \in 0 .. MaxEvents /\ enabled \subseteq Schedules
    BY <1>1 DEF StoreOK
  <2>2. now' = now \/ (now < MaxTime /\ now' = now + 1)
    BY DEF Fail, Restart, Switch, TimePasses
  <2>3. events' = events \/ (events < MaxEvents /\ events' = events + 1)
    BY DEF Fail, Restart, Switch, TimePasses
  <2>4. enabled' \subseteq Schedules
    BY <2>1 DEF Fail, Restart, Switch, TimePasses, stored
  <2>5. QED BY <2>1, <2>2, <2>3, <2>4
<1>4. StoreOK' /\ KeysOK'
  BY <1>1, <1>2, <1>3 DEF StoreOK, KeysOK
<1>5. BeatsOK'
  <2>1. ASSUME NEW b \in Beats PROVE BeatOK(beat[b], now') /\ ViewOK(beat[b], runs', failed')
    <3>1. BeatOK(beat[b], now) /\ Core(beat[b], now) /\ ViewOK(beat[b], runs, failed)
      BY DEF SInv, BeatsOK, BeatOK
    <3>2. beat[b].at \in 0 .. now'
      BY <1>1, <1>3, <3>1 DEF Core, StoreOK
    <3>3. BeatOK(beat[b], now')
      BY <3>1, <3>2 DEF BeatOK, Core
    <3>4. \A s \in DOMAIN beat[b].todo : <<s, beat[b].todo[s]>> \in Keys
      BY <1>1, <3>1, KeyIsKey
    <3>5. ViewOK(beat[b], runs', failed')
      BY <1>2, <3>1, <3>4, ViewStays
    <3>6. QED BY <3>3, <3>5
  <2>2. QED BY <1>1, <2>1 DEF BeatsOK
<1>6. Exclusive'
  <2>1. ASSUME NEW b \in Beats, Publishing(b)
        PROVE  /\ runs'[Published(b)] # None
               /\ Published(b) \notin failed' => Published(b) \notin failed
    <3>1. beat[b].current \in DOMAIN beat[b].todo
      BY <2>1 DEF SInv, BeatsOK, BeatOK, Publishing
    <3>2. Published(b) \in Keys /\ runs[Published(b)] # None
      BY <2>1, <3>1, ViewFacts DEF Published, SInv, Exclusive
    <3>3. QED BY <1>2, <3>2
  <2>2. \A b \in Beats : Publishing(b)' = Publishing(b) /\ Published(b)' = Published(b)
    BY <1>1 DEF Publishing, Published, Key
  <2>3. QED BY <1>1, <2>1, <2>2 DEF SInv, Exclusive
<1>7. QED BY <1>4, <1>5, <1>6 DEF SInv

\* The invariant holds initially ...
LEMMA InitSInv == Init => SInv
<1> SUFFICES ASSUME Init PROVE SInv
  OBVIOUS
<1>1. StoreOK
  BY DEF Init, StoreOK, Keys, RunStates
<1>2. BeatsOK
  <2>1. DOMAIN beat = Beats /\ \A b \in Beats : beat[b] = Idle
    BY DEF Init
  <2>2. now \in 0 .. MaxTime
    BY <1>1 DEF StoreOK
  <2>3. QED BY <2>1, <2>2, IdleOK DEF BeatsOK
<1>3. KeysOK
  BY DEF Init, KeysOK, Keys
<1>4. Exclusive
  BY DEF Init, Exclusive, Publishing, Idle
<1>5. QED BY <1>1, <1>2, <1>3, <1>4 DEF SInv

\* ... and in every state of every behaviour.
LEMMA Invariant == Spec => []SInv
<1>1. SInv /\ [Next]_vars => SInv'
  <2> SUFFICES ASSUME SInv, [Next]_vars PROVE SInv'
    OBVIOUS
  <2>1. CASE UNCHANGED vars
    BY <2>1 DEF vars, stored, SInv, StoreOK, BeatsOK, KeysOK, Exclusive, Publishing, Published, Key
  <2>2. ASSUME NEW b \in Beats, BeatStep(b) \/ Crash(b) PROVE SInv'
    BY <2>2, TickInv, PublishInv, RaisesInv, AdvanceInv, FinishInv, MisfireInv, AlreadyEnqueuedInv,
       DispatchInv, GivesUpInv DEF BeatStep
  <2>3. QED BY <2>1, <2>2, EnvironmentInv DEF Next, Keys
<1>2. QED BY <1>1, InitSInv, PTL DEF Spec

\* The variables keep their types; a beat that publishes has committed.
THEOREM TypeCorrect == Spec => []TypeOK
<1>1. SInv => TypeOK
  BY DEF SInv, StoreOK, BeatsOK, BeatOK, Core, TypeOK, Keys
<1>2. QED BY <1>1, Invariant, PTL

\* A worker finds the run of every message, for any number of beats.
THEOREM RunsComeFirst == Spec => []RunBeforeMessage
<1>1. SInv => RunBeforeMessage
  BY DEF SInv, KeysOK, RunBeforeMessage, Keys
<1>2. QED BY <1>1, Invariant, PTL

\* A window is published once unless its run has failed, for any number of
\* beats that overlap, die or repeat a tick.
THEOREM FiredOnce == Spec => []OncePerWindow
<1>1. SInv => OncePerWindow
  BY DEF SInv, KeysOK, OncePerWindow, Keys
<1>2. QED BY <1>1, Invariant, PTL

------------------------------------------------------------------------------
(***************************************************************************)
(* One-off schedules                                                       *)
(***************************************************************************)

\* What a beat remembers of a one-off: that it is to be switched off only if
\* its window has a run or gets one in the same flush.
OffOK(r, R) ==
    /\ r.pc = "advancing" => R[<<r.current, r.todo[r.current]>>] # None
    /\ \A s \in Schedules :
        /\ Kind[s] = "oneoff" /\ s \in DOMAIN r.todo => r.todo[s] = OneoffAt
        /\ Kind[s] = "oneoff" /\ s \in DOMAIN r.rows =>
              <<s, OneoffAt>> \in r.adds \/ R[<<s, OneoffAt>>] # None
        /\ Kind[s] # "oneoff" /\ s \in DOMAIN r.rows => r.rows[s].on

OffInv == \A b \in Beats : OffOK(beat[b], runs)

\* A run that is stored stays, whatever becomes of it.
RunsStay == \A k \in Keys : runs[k] # None => runs'[k] # None

\* A beat switches off what it remembers so, and inserts its runs with it.
Switches(b) ==
    \A s \in enabled \ enabled' :
        /\ s \in DOMAIN beat[b].rows /\ ~beat[b].rows[s].on
        /\ \A k \in beat[b].adds : runs'[k] # None

LEMMA OffIdle == ASSUME NEW R PROVE OffOK(Idle, R)
BY DEF Idle, NoRows, OffOK

\* A handled row, with the changes c.
LEMMA OffDone ==
    ASSUME SInv, OffInv, NEW b \in Beats, NEW s, NEW c, Done(b, s, c),
           DOMAIN c = Fields, c.pc = "scanning", OffOK(c, runs), SameStore \/ UNCHANGED <<stored, failed>>
    PROVE  OffInv' /\ RunsStay /\ Switches(b)
<1> DEFINE x == [c EXCEPT !.todo = Without(@, s),
                          !.view = IF @ = None THEN None ELSE Without(@, s)]
<1>1. beat' = [beat EXCEPT ![b] = x] /\ DOMAIN beat = Beats
  BY DEF Done, SInv, BeatsOK
<1>2. x.pc = "scanning" /\ x.todo = Without(c.todo, s) /\ x.rows = c.rows /\ x.adds = c.adds
  BY DEF Fields
<1>3. \A t \in DOMAIN x.todo : t \in DOMAIN c.todo /\ x.todo[t] = c.todo[t]
  BY <1>2 DEF Without
<1>4. OffOK(x, runs)
  BY <1>2, <1>3 DEF OffOK
<1> HIDE DEF x
<1>5. runs' = runs /\ enabled' = enabled
  BY DEF SameStore, stored
<1>6. QED BY <1>1, <1>4, <1>5 DEF OffInv, RunsStay, Switches

\* A row that the beat will update.
LEMMA OffUpdate ==
    ASSUME SInv, OffInv, NEW b \in Beats, NEW s \in DOMAIN beat[b].todo, NEW row, NEW c,
           c.pc = "scanning", c.todo = beat[b].todo, c.rows = Update(b, s, row), beat[b].adds \subseteq c.adds,
           Kind[s] = "oneoff" => Key(b, s) \in c.adds \/ runs[Key(b, s)] # None,
           Kind[s] # "oneoff" => row.on
    PROVE  OffOK(c, runs)
<1>1. OffOK(beat[b], runs)
  BY DEF OffInv
<1>2. /\ DOMAIN c.rows = DOMAIN beat[b].rows \cup {s}
      /\ c.rows[s] = row
      /\ \A t \in DOMAIN beat[b].rows \ {s} : c.rows[t] = beat[b].rows[t]
  BY DEF Update
<1>3. QED BY <1>1, <1>2 DEF OffOK, Key

\* The updates of a transaction and its runs.
LEMMA OffStore ==
    ASSUME SInv, OffInv, NEW b \in Beats, StoreRows(b),
           \A k \in beat[b].adds : runs'[k] # None
    PROVE  Switches(b)
BY DEF StoreRows, Switches, SInv, StoreOK

\* The other beats, and the beat itself.
LEMMA OffOthers ==
    ASSUME SInv, OffInv, NEW b \in Beats, NEW x, beat' = [beat EXCEPT ![b] = x],
           OffOK(x, runs'), RunsStay
    PROVE  OffInv'
<1>1. DOMAIN beat = Beats
  BY DEF SInv, BeatsOK
<1>2. \A s \in Schedules : <<s, OneoffAt>> \in Keys
  BY DEF Keys
<1>3. ASSUME NEW c \in Beats \ {b} PROVE OffOK(beat'[c], runs')
  <2>1. beat'[c] = beat[c] /\ OffOK(beat[c], runs)
    BY <1>1 DEF OffInv
  <2>2. beat[c].pc = "advancing" => <<beat[c].current, beat[c].todo[beat[c].current]>> \in Keys
    BY KeyIsKey DEF SInv, BeatsOK, BeatOK
  <2>3. QED BY <1>2, <2>1, <2>2 DEF OffOK, RunsStay
<1>4. QED BY <1>1, <1>3 DEF OffInv

LEMMA OffScan ==
    ASSUME SInv, OffInv, NEW b \in Beats, NEW s \in Schedules,
           \/ Misfire(b, s) \/ AlreadyEnqueued(b, s) \/ RowRaises(b, s)
    PROVE  OffInv' /\ RunsStay /\ Switches(b)
<1>1. DOMAIN beat[b] = Fields /\ OffOK(beat[b], runs)
  BY DEF SInv, BeatsOK, BeatOK, Core, OffInv
<1>2. CASE Misfire(b, s)
  <2>1. PICK row : /\ Kind[s] # "oneoff" => row.on
                   /\ Done(b, s, [beat[b] EXCEPT !.rows = Update(b, s, row),
                                                 !.adds = @ \cup {Key(b, s)}])
    BY <1>2 DEF Misfire, Moved
  <2> DEFINE c == [beat[b] EXCEPT !.rows = Update(b, s, row), !.adds = @ \cup {Key(b, s)}]
  <2>2. /\ DOMAIN c = Fields /\ c.todo = beat[b].todo /\ c.rows = Update(b, s, row)
        /\ c.adds = beat[b].adds \cup {Key(b, s)} /\ c.pc = "scanning"
    BY <1>1, <1>2 DEF Fields, Misfire, Handles
  <2> HIDE DEF c
  <2>3. s \in DOMAIN beat[b].todo
    BY <1>2 DEF Misfire, Handles
  <2>4. OffOK(c, runs)
    BY <2>1, <2>2, <2>3, OffUpdate
  <2>5. QED BY <1>2, <2>1, <2>2, <2>4, OffDone DEF Misfire, c
<1>3. CASE AlreadyEnqueued(b, s) /\ Kind[s] = "oneoff"
  <2> DEFINE c == [beat[b] EXCEPT !.view = View(b)]
  <2>1. /\ DOMAIN c = Fields /\ c.todo = beat[b].todo /\ c.rows = beat[b].rows
        /\ c.adds = beat[b].adds /\ c.pc = "scanning"
    BY <1>1, <1>3 DEF Fields, AlreadyEnqueued, Due, Handles
  <2>2. OffOK(c, runs)
    BY <1>1, <2>1 DEF OffOK
  <2>3. Done(b, s, c) /\ SameStore
    BY <1>3 DEF AlreadyEnqueued
  <2> HIDE DEF c
  <2>4. QED BY <2>1, <2>2, <2>3, OffDone
<1>4. CASE AlreadyEnqueued(b, s) /\ Kind[s] # "oneoff"
  <2> DEFINE row == Moved(beat[b].todo[s] + Period)
             c == [beat[b] EXCEPT !.view = View(b), !.rows = Update(b, s, row)]
  <2>1. /\ DOMAIN c = Fields /\ c.todo = beat[b].todo /\ c.rows = Update(b, s, row)
        /\ c.adds = beat[b].adds /\ c.pc = "scanning"
    BY <1>1, <1>4 DEF Fields, AlreadyEnqueued, Due, Handles
  <2>2. row.on
    BY DEF Moved
  <2>3. Done(b, s, c) /\ SameStore /\ s \in DOMAIN beat[b].todo
    BY <1>4 DEF AlreadyEnqueued, Due, Handles
  <2> HIDE DEF c, row
  <2>4. OffOK(c, runs)
    BY <1>4, <2>1, <2>2, <2>3, OffUpdate
  <2>5. QED BY <2>1, <2>3, <2>4, OffDone
<1>5. CASE RowRaises(b, s)
  <2> DEFINE c == [beat[b] EXCEPT !.pc = "scanning", !.current = None]
  <2>1. /\ DOMAIN c = Fields /\ c.todo = beat[b].todo /\ c.rows = beat[b].rows
        /\ c.adds = beat[b].adds /\ c.pc = "scanning"
    BY <1>1 DEF Fields
  <2>2. OffOK(c, runs)
    BY <1>1, <2>1 DEF OffOK
  <2>3. Done(b, s, c) /\ SameStore
    BY <1>5 DEF RowRaises
  <2> HIDE DEF c
  <2>4. QED BY <2>1, <2>2, <2>3, OffDone
<1>6. QED BY <1>2, <1>3, <1>4, <1>5

LEMMA OffDispatch ==
    ASSUME SInv, OffInv, NEW b \in Beats, NEW s \in Schedules,
           Dispatch(b, s) \/ DispatchConflicts(b, s)
    PROVE  OffInv' /\ RunsStay /\ Switches(b)
<1>1. DOMAIN beat[b] = Fields /\ OffOK(beat[b], runs) /\ beat[b].adds \subseteq Keys
  BY DEF SInv, BeatsOK, BeatOK, Core, OffInv
<1>2. CASE Dispatch(b, s)
  <2> DEFINE x == [Fresh(b) EXCEPT !.pc = "publishing", !.current = s]
  <2>1. /\ \A k \in beat[b].adds : runs'[k] # None
        /\ RunsStay
    BY <1>1, <1>2 DEF Dispatch, RunsStay, Keys
  <2>2. x.todo = beat[b].todo /\ DOMAIN x.rows = {} /\ x.pc = "publishing"
    BY <1>1 DEF Fresh, Fields, NoRows
  <2>3. beat' = [beat EXCEPT ![b] = x]
    BY <1>2 DEF Dispatch
  <2> HIDE DEF x
  <2>4. OffOK(x, runs')
    BY <1>1, <2>2 DEF OffOK
  <2>5. StoreRows(b)
    BY <1>2 DEF Dispatch
  <2>6. QED BY <2>1, <2>3, <2>4, <2>5, OffOthers, OffStore
<1>3. CASE DispatchConflicts(b, s)
  <2>1. beat' = [beat EXCEPT ![b] = Idle] /\ runs' = runs /\ enabled' = enabled
    BY <1>3 DEF DispatchConflicts, SameStore, stored
  <2>2. QED BY <2>1, OffIdle, OffOthers DEF RunsStay, Switches
<1>4. QED BY <1>2, <1>3

LEMMA OffAdvance ==
    ASSUME SInv, OffInv, NEW b \in Beats, Publish(b) \/ PublishRaises(b) \/ Advance(b)
    PROVE  OffInv' /\ RunsStay /\ Switches(b)
<1>1. DOMAIN beat[b] = Fields /\ OffOK(beat[b], runs)
  BY DEF SInv, BeatsOK, BeatOK, Core, OffInv
<1>2. CASE Publish(b)
  <2> DEFINE x == [beat[b] EXCEPT !.pc = "advancing", !.view = Read(beat[b].todo)]
  <2>1. /\ x.todo = beat[b].todo /\ x.rows = beat[b].rows /\ x.adds = beat[b].adds
        /\ x.current = beat[b].current
    BY <1>1 DEF Fields
  <2>2. beat' = [beat EXCEPT ![b] = x] /\ runs' = runs /\ enabled' = enabled
    BY <1>2 DEF Publish, stored
  <2> HIDE DEF x
  <2>3. runs[Key(b, beat[b].current)] # None
    BY <1>2 DEF Publish, SInv, Exclusive, Publishing, Published
  <2>4. OffOK(x, runs')
    BY <1>1, <2>1, <2>2, <2>3 DEF OffOK, Key
  <2>5. QED BY <2>2, <2>4, OffOthers DEF RunsStay, Switches
<1>3. CASE PublishRaises(b)
  <2> DEFINE c == [beat[b] EXCEPT !.pc = "scanning", !.current = None]
  <2>1. /\ DOMAIN c = Fields /\ c.todo = beat[b].todo /\ c.rows = beat[b].rows
        /\ c.adds = beat[b].adds /\ c.pc = "scanning"
    BY <1>1 DEF Fields
  <2>2. OffOK(c, runs)
    BY <1>1, <2>1 DEF OffOK
  <2>3. Done(b, beat[b].current, c) /\ UNCHANGED <<stored, failed>>
    BY <1>3 DEF PublishRaises
  <2> HIDE DEF c
  <2>4. QED BY <2>1, <2>2, <2>3, OffDone
<1>4. CASE Advance(b)
  <2> DEFINE s == beat[b].current
             row == IF Kind[s] = "oneoff" THEN Off ELSE Moved(beat[b].todo[s] + Period)
             c == [beat[b] EXCEPT !.pc = "scanning", !.current = None, !.rows = Update(b, s, row)]
  <2>1. /\ DOMAIN c = Fields /\ c.todo = beat[b].todo /\ c.rows = Update(b, s, row)
        /\ c.adds = beat[b].adds /\ c.pc = "scanning"
    BY <1>1 DEF Fields
  <2>2. Kind[s] # "oneoff" => row.on
    BY DEF Moved
  <2>3. s \in DOMAIN beat[b].todo /\ Done(b, s, c) /\ SameStore
    BY <1>4 DEF Advance, SInv, BeatsOK, BeatOK
  <2>4. runs[Key(b, s)] # None
    BY <1>1, <1>4, <2>3 DEF Advance, OffOK, Key
  <2> HIDE DEF c, row, s
  <2>5. OffOK(c, runs)
    BY <2>1, <2>2, <2>3, <2>4, OffUpdate
  <2>6. QED BY <2>1, <2>3, <2>5, OffDone
<1>5. QED BY <1>2, <1>3, <1>4

LEMMA OffTick ==
    ASSUME SInv, OffInv, NEW b \in Beats, Tick(b)
    PROVE  OffInv' /\ RunsStay /\ Switches(b)
<1>1. UNCHANGED <<runs, enabled>>
  BY DEF Tick, SameStore, stored
<1>2. CASE UNCHANGED beat
  BY <1>1, <1>2 DEF OffInv, RunsStay, Switches
<1>3. CASE ~UNCHANGED beat
  <2> DEFINE todo == [s \in DueRows |-> FireAt(s, now)]
             x == [Idle EXCEPT !.pc = "scanning", !.at = now, !.todo = todo, !.view = Read(todo)]
  <2>1. beat' = [beat EXCEPT ![b] = x]
    BY <1>3 DEF Tick
  <2>2. x.pc = "scanning" /\ x.todo = todo /\ DOMAIN x.rows = {}
    BY DEF Idle, NoRows
  <2>3. \A s \in DOMAIN todo : Kind[s] = "oneoff" => todo[s] = OneoffAt
    BY DEF FireAt
  <2> HIDE DEF todo, x
  <2>4. OffOK(x, runs')
    BY <2>2, <2>3 DEF OffOK
  <2>5. QED BY <1>1, <2>1, <2>4, OffOthers DEF RunsStay, Switches
<1>4. QED BY <1>2, <1>3

LEMMA OffFinish ==
    ASSUME SInv, OffInv, NEW b \in Beats, Finish(b) \/ Crash(b)
    PROVE  OffInv' /\ RunsStay /\ Switches(b)
<1>1. beat' = [beat EXCEPT ![b] = Idle] /\ beat[b].adds \subseteq Keys
  BY DEF Finish, Crash, SInv, BeatsOK, BeatOK, Core
<1>2. CASE UNCHANGED <<stored, failed>>
  BY <1>1, <1>2, OffIdle, OffOthers DEF stored, RunsStay, Switches
<1>3. CASE ~UNCHANGED <<stored, failed>>
  <2>1. /\ StoreRows(b)
        /\ runs' = [k \in Keys |-> IF k \in beat[b].adds THEN "failed" ELSE runs[k]]
    BY <1>3 DEF Finish, Crash, Keys
  <2>2. RunsStay /\ \A k \in beat[b].adds : runs'[k] # None
    BY <1>1, <2>1 DEF RunsStay
  <2>3. QED BY <1>1, <2>1, <2>2, OffIdle, OffOthers, OffStore
<1>4. QED BY <1>2, <1>3

LEMMA OffEnvironment ==
    ASSUME SInv, OffInv, \/ \E k \in Keys : Fail(k) \/ Restart(k)
                         \/ \E s \in Schedules : Switch(s)
                         \/ TimePasses
    PROVE  OffInv'
<1>1. RunsStay /\ beat' = beat
  BY DEF Fail, Restart, Switch, TimePasses, stored, SInv, StoreOK, RunsStay, Keys
<1>2. \A s \in Schedules : <<s, OneoffAt>> \in Keys
  BY DEF Keys
<1>3. \A b \in Beats : beat[b].pc = "advancing" =>
          <<beat[b].current, beat[b].todo[beat[b].current]>> \in Keys
  BY KeyIsKey DEF SInv, BeatsOK, BeatOK
<1>4. QED BY <1>1, <1>2, <1>3 DEF OffInv, OffOK, RunsStay

\* A beat that switches a one-off off leaves a run behind, for any number of
\* beats that overlap, give a tick up or die.
THEOREM OneoffsLeaveRuns == Spec => OneoffLeavesRun
<1>1. ASSUME SInv, OffInv, NEW b \in Beats, BeatStep(b) \/ Crash(b)
      PROVE  OffInv' /\ RunsStay /\ Switches(b)
  BY <1>1, OffTick, OffScan, OffDispatch, OffAdvance, OffFinish DEF BeatStep
<1>2. SInv /\ OffInv /\ [Next]_vars => OffInv'
  <2> SUFFICES ASSUME SInv, OffInv, [Next]_vars PROVE OffInv'
    OBVIOUS
  <2>1. CASE UNCHANGED vars
    BY <2>1 DEF vars, stored, OffInv
  <2>2. QED BY <1>1, <2>1, OffEnvironment DEF Next, Keys
<1>3. SInv /\ OffInv /\ [Next]_vars =>
        [\A s \in Schedules :
            s \in enabled /\ s \notin enabled' /\ ~Switch(s)
                => runs'[<<s, OneoffAt>>] # None]_vars
  <2> SUFFICES ASSUME SInv, OffInv, Next, NEW s \in Schedules,
                      s \in enabled, s \notin enabled', ~Switch(s)
               PROVE  runs'[<<s, OneoffAt>>] # None
    OBVIOUS
  <2>1. PICK b \in Beats : BeatStep(b) \/ Crash(b)
    BY DEF Next, Fail, Restart, Switch, TimePasses, stored
  <2>2. RunsStay /\ Switches(b) /\ OffOK(beat[b], runs)
    BY <1>1, <2>1 DEF OffInv
  <2>3. s \in DOMAIN beat[b].rows /\ ~beat[b].rows[s].on /\ <<s, OneoffAt>> \in Keys
    BY <2>2 DEF Switches, Keys
  <2>4. <<s, OneoffAt>> \in beat[b].adds \/ runs[<<s, OneoffAt>>] # None
    BY <2>2, <2>3 DEF OffOK
  <2>5. QED BY <2>2, <2>3, <2>4 DEF RunsStay, Switches
<1>4. Init => OffInv
  BY OffIdle DEF Init, OffInv
<1>5. QED BY <1>2, <1>3, <1>4, Invariant, PTL DEF Spec, OneoffLeavesRun

=============================================================================
