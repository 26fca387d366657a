----------------------------- MODULE TimerQueue -----------------------------
(***************************************************************************)
(* The timers of TimeManager.  World::Run calls Update once a tick, which  *)
(* reads the clock and goes through the vector by index.  A callback may   *)
(* take any time and may call Schedule, ScheduleRepeating and CancelTimer, *)
(* which change the vector under the loop: after the callback the code     *)
(* takes timers[i] for the timer it has called, and the function object    *)
(* that is running lives in the vector too.  Everything happens on the     *)
(* world thread; only the clock runs beside it.                            *)
(***************************************************************************)
EXTENDS Integers, Sequences

CONSTANTS MaxTimers,        \* timers scheduled (bound)
          MaxTime,          \* where the clock stops (bound)
          Delays            \* delayMs and intervalMs that callers pass (bound)

ASSUME TimerAssumption ==
  MaxTimers \in Nat /\ MaxTime \in Nat /\ Delays \subseteq Nat

VARIABLES now,              \* steady_clock::now()
          timers,           \* timers
          nextTimerID,      \* nextTimerID
          i,                \* the index ProcessTimers is at, 0 between passes
          passNow,          \* now, as ProcessTimers read it
          running,          \* the timer whose callback runs, 0 if none
          moved,            \* its function object is no longer where it was called
          crashed,          \* the process is gone
          fired,            \* timers whose callback has returned (history)
          cancelled,        \* timers that CancelTimer removed (history)
          oneShots,         \* timers scheduled to fire once (history)
          disturbed         \* a callback cancelled its own timer, or one before (history)

history == <<fired, cancelled, oneShots, disturbed>>
vars == <<now, timers, nextTimerID, i, passNow, running, moved, crashed, history>>

TimerID == 1..MaxTimers
Timer == [id : TimerID, expiry : Nat, interval : Delays \cup {0}]
Listed(id) == \E k \in DOMAIN timers : timers[k].id = id

\* Fault: the first timer gets the number that stands for none.
InitAtZero ==
  /\ now = 0 /\ timers = <<>> /\ nextTimerID = 0
  /\ i = 0 /\ passNow = 0 /\ running = 0 /\ moved = FALSE /\ crashed = FALSE
  /\ fired = {} /\ cancelled = {} /\ oneShots = {} /\ disturbed = FALSE

Init ==
  /\ now = 0 /\ timers = <<>> /\ nextTimerID = 1
  /\ i = 0 /\ passNow = 0 /\ running = 0 /\ moved = FALSE /\ crashed = FALSE
  /\ fired = {} /\ cancelled = {} /\ oneShots = {} /\ disturbed = FALSE

----------------------------------------------------------------------------
Without(s, k) == SubSeq(s, 1, k - 1) \o SubSeq(s, k + 1, Len(s))

ClockTick ==
  /\ now < MaxTime /\ ~crashed
  /\ now' = now + 1
  /\ UNCHANGED <<timers, nextTimerID, i, passNow, running, moved, crashed, history>>

\* The world thread is outside ProcessTimers or inside a callback.
MayCall == ~crashed /\ (i = 0 \/ running # 0)

\* Schedule, and ScheduleRepeating when interval is not 0: with an interval of 0
\* that one makes a timer that fires once as well.  Growing the vector may move its
\* elements, the function object that is running with them.
Schedule(delay, interval) ==
  /\ MayCall /\ nextTimerID <= MaxTimers
  /\ timers' = Append(timers, [id |-> nextTimerID, expiry |-> now + delay,
                               interval |-> interval])
  /\ nextTimerID' = nextTimerID + 1
  /\ oneShots' = IF interval = 0 THEN oneShots \cup {nextTimerID} ELSE oneShots
  /\ moved' \in {moved, running # 0}
  /\ UNCHANGED <<now, i, passNow, running, crashed, fired, cancelled, disturbed>>

CancelTimer(id) ==
  /\ MayCall
  /\ \E k \in DOMAIN timers :
       /\ timers[k].id = id
       /\ timers' = Without(timers, k)
       /\ disturbed' = (disturbed \/ (running # 0 /\ k <= i))
       /\ moved' = (moved \/ (running # 0 /\ k <= i))
  /\ cancelled' = cancelled \cup {id}
  /\ UNCHANGED <<now, nextTimerID, i, passNow, running, crashed, fired, oneShots>>

----------------------------------------------------------------------------
\* Fault: the first timer is passed over.
StartPassAtSecond ==
  /\ i = 0 /\ ~crashed
  /\ i' = 2 /\ passNow' = now
  /\ UNCHANGED <<now, timers, nextTimerID, running, moved, crashed, history>>

\* ProcessTimers.
StartPass ==
  /\ i = 0 /\ ~crashed
  /\ i' = 1 /\ passNow' = now
  /\ UNCHANGED <<now, timers, nextTimerID, running, moved, crashed, history>>

AtTimer == i \in DOMAIN timers /\ running = 0 /\ ~crashed

NotDue ==
  /\ AtTimer /\ passNow < timers[i].expiry
  /\ i' = i + 1
  /\ UNCHANGED <<now, timers, nextTimerID, passNow, running, moved, crashed, history>>

Call ==
  /\ AtTimer /\ passNow >= timers[i].expiry
  /\ running' = timers[i].id
  /\ UNCHANGED <<now, timers, nextTimerID, i, passNow, moved, crashed, history>>

\* A callback reads what it captured after its function object has moved: from freed
\* memory, which may still hold it or may crash the process.
ReadMovedCapture ==
  /\ running # 0 /\ moved /\ ~crashed
  /\ crashed' = TRUE
  /\ UNCHANGED <<now, timers, nextTimerID, i, passNow, running, moved, history>>

Returns ==
  /\ running # 0 /\ ~crashed
  /\ running' = 0 /\ moved' = FALSE /\ fired' = fired \cup {running}

\* Fault: the one-shot timers stay.
EraseNot ==
  /\ Returns /\ i \in DOMAIN timers /\ timers[i].interval = 0
  /\ i' = i + 1
  /\ UNCHANGED <<now, timers, nextTimerID, passNow, crashed, cancelled, oneShots, disturbed>>

\* Whatever timer is at the index now, if any, is taken for the one called.
Erase ==
  /\ Returns /\ i \in DOMAIN timers /\ timers[i].interval = 0
  /\ timers' = Without(timers, i)
  /\ UNCHANGED <<now, nextTimerID, i, passNow, crashed, cancelled, oneShots, disturbed>>

Repeat ==
  /\ Returns /\ i \in DOMAIN timers /\ timers[i].interval > 0
  /\ timers' = [timers EXCEPT ![i].expiry = passNow + timers[i].interval]
  /\ i' = i + 1
  /\ UNCHANGED <<now, nextTimerID, passNow, crashed, cancelled, oneShots, disturbed>>

\* The callback left no timer at the index: the code reads a destroyed one.  If that
\* was repeating, its expiry is set; if not, erase past the end destroys the last
\* timer of the vector, or memory that is not the vector's.
PastEnd ==
  /\ Returns /\ i > Len(timers)
  /\ \/ i' = i + 1 /\ UNCHANGED <<timers, crashed>>
     \/ /\ timers # <<>>
        /\ timers' = Without(timers, Len(timers))
        /\ UNCHANGED <<i, crashed>>
     \/ timers = <<>> /\ crashed' = TRUE /\ UNCHANGED <<timers, i>>
  /\ UNCHANGED <<now, nextTimerID, passNow, cancelled, oneShots, disturbed>>

EndPass ==
  /\ i > Len(timers) /\ running = 0 /\ ~crashed
  /\ i' = 0
  /\ UNCHANGED <<now, timers, nextTimerID, passNow, running, moved, crashed, history>>

ProcessTimers ==
  StartPass \/ NotDue \/ Call \/ Erase \/ Repeat \/ PastEnd \/ EndPass

Caller ==
  \/ \E delay, interval \in Delays : Schedule(delay, interval)
  \/ \E id \in TimerID : CancelTimer(id)
  \/ ReadMovedCapture

Next == ProcessTimers \/ Caller \/ ClockTick

\* The world thread calls Update again and again, and callbacks return.
Spec == Init /\ [][Next]_vars /\ WF_vars(ProcessTimers)

----------------------------------------------------------------------------
(* Properties.                                                             *)

TypeOK ==
  /\ now \in 0..MaxTime /\ passNow \in 0..now
  /\ timers \in Seq(Timer)
  /\ nextTimerID \in 1..(MaxTimers + 1)
  /\ i \in Nat /\ running \in TimerID \cup {0}
  /\ moved \in BOOLEAN /\ crashed \in BOOLEAN
  /\ fired \subseteq TimerID /\ cancelled \subseteq TimerID /\ oneShots \subseteq TimerID
  /\ disturbed \in BOOLEAN

\* A timer is in the vector from when it is scheduled until it is cancelled or, if
\* it fires once, until it has fired: no callback's own Schedule or CancelTimer makes
\* the loop erase, repeat or keep another timer than the one it called, as long as no
\* callback cancels its own timer or one before it in the vector; and the process can
\* then end only in a callback whose function object a Schedule of its own has moved.
NoneLostNoneLeft ==
  ~disturbed =>
    /\ crashed => running # 0 /\ moved
    /\ \A id \in 1..(nextTimerID - 1) :
         Listed(id) <=> id \notin cancelled /\ (id \in oneShots => id \notin fired)

\* A timer that is due is called, whatever other callbacks schedule meanwhile, unless
\* one of them ends the process.
Due(id) == \E k \in DOMAIN timers : timers[k].id = id /\ timers[k].expiry <= now
DueIsCalled ==
  \A id \in TimerID : Due(id) ~> running = id \/ id \in cancelled \/ disturbed \/ crashed
=============================================================================
