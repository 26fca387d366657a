-------------------------- MODULE TimerQueue_proofs --------------------------
(***************************************************************************)
(* Proofs about TimerQueue, for any number of timers, any delays and any   *)
(* run of the clock.  As long as no callback removes a timer at or before  *)
(* the loop's index, the loop finishes with the timer that it called and   *)
(* leaves no timer behind that was due.                                    *)
(***************************************************************************)
EXTENDS TimerQueue, SequenceTheorems, TLAPS

\* What a timer's fields are.
LEMMA TimerFields ==
  ASSUME NEW t \in Timer
  PROVE  t.id \in TimerID /\ t.id \in Nat /\ t.expiry \in Nat /\ t.interval \in Nat
<1>1. t.id \in 1..MaxTimers /\ t.expiry \in Nat /\ t.interval \in Delays \cup {0}
  BY DEF Timer, TimerID
<1>2. 1..MaxTimers \subseteq Nat /\ Delays \cup {0} \subseteq Nat
  BY TimerAssumption
<1> QED
  BY <1>1, <1>2 DEF TimerID

\* erase shifts the timers behind the index.
LEMMA WithoutProperties ==
  ASSUME NEW S, NEW s \in Seq(S), NEW k \in DOMAIN s
  PROVE  /\ Without(s, k) \in Seq(S) /\ Len(Without(s, k)) = Len(s) - 1
         /\ \A j \in 1..(Len(s) - 1) :
              Without(s, k)[j] = IF j < k THEN s[j] ELSE s[j + 1]
<1> DEFINE a == SubSeq(s, 1, k - 1)
           b == SubSeq(s, k + 1, Len(s))
<1>1. k \in 1..Len(s) /\ Len(s) \in Nat /\ \A j \in 1..Len(s) : s[j] \in S
  OBVIOUS
<1>2. /\ a \in Seq(S) /\ Len(a) = k - 1
      /\ \A j \in 1..(k - 1) : a[j] = s[j]
  <2>1. \A j \in 1..(k - 1) : s[j] \in S
    BY <1>1
  <2> QED
    BY <1>1, <2>1, SubSeqProperties
<1>3. /\ b \in Seq(S) /\ Len(b) = Len(s) - k
      /\ \A j \in 1..(Len(s) - k) : b[j] = s[k + j]
  <2>1. \A j \in (k + 1)..Len(s) : s[j] \in S
    BY <1>1
  <2>2. k + 1 \in Int /\ Len(s) \in Int
    BY <1>1
  <2>3. /\ b \in Seq(S)
        /\ Len(b) = IF k + 1 <= Len(s) THEN Len(s) - (k + 1) + 1 ELSE 0
        /\ \A j \in 1..(Len(s) - (k + 1) + 1) : b[j] = s[k + 1 + j - 1]
    BY <2>1, <2>2, SubSeqProperties
  <2> QED
    BY <1>1, <2>3
<1> HIDE DEF a, b
<1>4. /\ a \o b \in Seq(S) /\ Len(a \o b) = Len(a) + Len(b)
      /\ \A j \in 1..(Len(a) + Len(b)) :
           (a \o b)[j] = IF j <= Len(a) THEN a[j] ELSE b[j - Len(a)]
  BY <1>2, <1>3, ConcatProperties
<1>5. Without(s, k) = a \o b
  BY DEF Without, a, b
<1>6. Len(a) = k - 1 /\ Len(b) = Len(s) - k /\ Len(a \o b) = Len(s) - 1
  BY <1>1, <1>2, <1>3, <1>4
<1>7. ASSUME NEW j \in 1..(Len(s) - 1)
      PROVE  (a \o b)[j] = IF j < k THEN s[j] ELSE s[j + 1]
  <2>1. (a \o b)[j] = IF j <= k - 1 THEN a[j] ELSE b[j - (k - 1)]
    BY <1>1, <1>4, <1>6
  <2>2. CASE j < k
    <3>1. j <= k - 1 /\ j \in 1..(k - 1)
      BY <1>1, <2>2
    <3> QED
      BY <1>2, <2>1, <2>2, <3>1
  <2>3. CASE ~(j < k)
    <3>1. ~(j <= k - 1) /\ j - (k - 1) \in 1..(Len(s) - k) /\ k + (j - (k - 1)) = j + 1
      BY <1>1, <2>3
    <3>2. b[j - (k - 1)] = s[k + (j - (k - 1))]
      BY <1>3, <3>1
    <3> QED
      BY <2>1, <2>3, <3>1, <3>2
  <2> QED
    BY <2>2, <2>3
<1> QED
  BY <1>4, <1>5, <1>6, <1>7

LEMMA TypeAtStart == Init => TypeOK
<1> SUFFICES ASSUME Init PROVE TypeOK
  OBVIOUS
<1>1. <<>> \in Seq(Timer) /\ 1 \in 1..(MaxTimers + 1) /\ 0 \in 0..MaxTime /\ 0 \in 0..0
  BY TimerAssumption
<1> QED
  BY <1>1 DEF Init, TypeOK

LEMMA TypeStep ==
  ASSUME TypeOK, [Next]_vars PROVE TypeOK'
<1> USE TimerAssumption DEF TypeOK, history
<1>0. timers \in Seq(Timer) /\ Len(timers) \in Nat /\ \A k \in DOMAIN timers : timers[k] \in Timer
  OBVIOUS
<1>1. ASSUME NEW k \in DOMAIN timers PROVE Without(timers, k) \in Seq(Timer)
  BY <1>0, <1>1, WithoutProperties
<1>2. CASE StartPass \/ NotDue \/ EndPass
  BY <1>2 DEF StartPass, NotDue, EndPass
<1>3. CASE Call
  <2>1. timers[i].id \in TimerID
    BY <1>0, <1>3, TimerFields DEF Call, AtTimer
  <2> QED
    BY <1>3, <2>1 DEF Call
<1>4. CASE Erase
  BY <1>1, <1>4 DEF Erase, Returns
<1>5. CASE Repeat
  <2>1. i \in DOMAIN timers /\ timers[i] \in Timer
    BY <1>0, <1>5 DEF Repeat
  <2>2. passNow + timers[i].interval \in Nat
    BY <2>1, TimerFields
  <2>3. [timers[i] EXCEPT !.expiry = passNow + timers[i].interval] \in Timer
    BY <2>1, <2>2 DEF Timer
  <2>4. timers' = [timers EXCEPT ![i] = [timers[i] EXCEPT !.expiry = passNow + timers[i].interval]]
    BY <1>5 DEF Repeat
  <2>5. timers' \in Seq(Timer)
    BY <1>0, <2>1, <2>3, <2>4
  <2>6. moved' \in BOOLEAN /\ running' \in TimerID \cup {0} /\ fired' \subseteq TimerID
    BY <1>5 DEF Repeat, Returns
  <2>7. i' \in Nat /\ UNCHANGED <<now, nextTimerID, passNow, crashed, cancelled, oneShots,
                                   disturbed>>
    BY <1>5 DEF Repeat
  <2> QED
    BY <2>5, <2>6, <2>7
<1>6. CASE PastEnd
  <2>1. timers # <<>> => Len(timers) \in DOMAIN timers
    BY <1>0
  <2>2. timers' \in Seq(Timer)
    BY <1>1, <1>6, <2>1 DEF PastEnd
  <2>3. i' \in {i, i + 1} /\ crashed' \in {crashed, TRUE}
    BY <1>6, Zenon DEF PastEnd
  <2>4. i' \in Nat
    BY <2>3
  <2>5. crashed' \in BOOLEAN
    BY <2>3, Zenon
  <2>6. running' \in TimerID \cup {0} /\ fired' \subseteq TimerID
    BY <1>6 DEF PastEnd, Returns
  <2>7. UNCHANGED <<now, nextTimerID, passNow, cancelled, oneShots, disturbed>>
    BY <1>6 DEF PastEnd
  <2>8. moved' \in BOOLEAN
    BY <1>6 DEF PastEnd, Returns
  <2> QED
    BY <2>2, <2>4, <2>5, <2>6, <2>7, <2>8
<1>7. ASSUME NEW delay \in Delays, NEW interval \in Delays, Schedule(delay, interval)
      PROVE  TypeOK'
  <2>1. [id |-> nextTimerID, expiry |-> now + delay, interval |-> interval] \in Timer
    BY <1>7 DEF Schedule, Timer, TimerID
  <2>2. timers' \in Seq(Timer)
    BY <1>0, <1>7, <2>1, AppendProperties DEF Schedule
  <2>3. moved' \in BOOLEAN
    BY <1>7, Zenon DEF Schedule
  <2> QED
    BY <1>7, <2>2, <2>3 DEF Schedule, TimerID
<1>8. ASSUME NEW id \in TimerID, CancelTimer(id) PROVE TypeOK'
  BY <1>1, <1>8 DEF CancelTimer
<1>9. CASE ClockTick
  BY <1>9 DEF ClockTick
<1>10. CASE UNCHANGED vars
  BY <1>10 DEF vars
<1>11. CASE ReadMovedCapture
  BY <1>11 DEF ReadMovedCapture
<1> QED
  BY <1>2, <1>3, <1>4, <1>5, <1>6, <1>7, <1>8, <1>9, <1>10, <1>11
     DEF Next, ProcessTimers, Caller

----------------------------------------------------------------------------
\* What the loop and the vector agree on until a callback disturbs the loop: the
\* numbers grow along the vector, a timer without interval fires once, and the timer
\* at the index is the one whose callback runs.
QueueOK ==
  /\ crashed => running # 0 /\ moved
  /\ \A k \in DOMAIN timers :
       /\ timers[k].id < nextTimerID
       /\ timers[k].interval = 0 <=> timers[k].id \in oneShots
       /\ \A j \in DOMAIN timers : j < k => timers[j].id < timers[k].id
  /\ fired \cup cancelled \cup oneShots \subseteq 1..(nextTimerID - 1)
  /\ running # 0 => i \in DOMAIN timers /\ timers[i].id = running
  /\ \A id \in 1..(nextTimerID - 1) :
       Listed(id) <=> id \notin cancelled /\ (id \in oneShots => id \notin fired)

TInv == TypeOK /\ (~disturbed => QueueOK)

\* Taking one timer out of such a vector takes its number out and keeps the order.
LEMMA WithoutListed ==
  ASSUME TypeOK, QueueOK, NEW k \in DOMAIN timers, timers' = Without(timers, k)
  PROVE  /\ \A id : Listed(id)' <=> Listed(id) /\ id # timers[k].id
         /\ DOMAIN timers' = 1..(Len(timers) - 1)
         /\ \A j \in DOMAIN timers' :
              timers'[j] = IF j < k THEN timers[j] ELSE timers[j + 1]
<1> DEFINE n == Len(timers)
<1>0. timers \in Seq(Timer)
  BY DEF TypeOK
<1>1. /\ timers' \in Seq(Timer) /\ Len(timers') = n - 1 /\ n \in Nat
      /\ \A j \in 1..(n - 1) : timers'[j] = IF j < k THEN timers[j] ELSE timers[j + 1]
  BY <1>0, WithoutProperties
<1>2. DOMAIN timers' = 1..(n - 1) /\ DOMAIN timers = 1..n
  BY <1>0, <1>1
<1>3. \A j \in 1..n : timers[j].id \in Nat
  BY <1>2, TimerFields DEF TypeOK
<1>4. \A j \in 1..n : j # k => timers[j].id # timers[k].id
  BY <1>2, <1>3 DEF QueueOK
<1>5. ASSUME NEW id, NEW j \in 1..(n - 1), timers'[j].id = id
      PROVE  Listed(id) /\ id # timers[k].id
  <2>1. CASE j < k
    <3>1. j \in 1..n /\ j # k /\ timers[j].id = id
      BY <1>1, <1>2, <1>5, <2>1
    <3> QED
      BY <1>2, <1>4, <3>1 DEF Listed
  <2>2. CASE ~(j < k)
    <3>1. j + 1 \in 1..n /\ j + 1 # k /\ timers[j + 1].id = id
      BY <1>1, <1>2, <1>5, <2>2
    <3> QED
      BY <1>2, <1>4, <3>1 DEF Listed
  <2> QED
    BY <2>1, <2>2
<1>6. ASSUME NEW id, NEW j \in 1..n, timers[j].id = id, id # timers[k].id
      PROVE  \E m \in 1..(n - 1) : timers'[m].id = id
  <2>1. CASE j < k
    BY <1>1, <1>2, <1>6, <2>1
  <2>2. CASE j > k
    <3>1. j - 1 \in 1..(n - 1) /\ ~(j - 1 < k)
      BY <1>1, <1>2, <2>2
    <3>2. timers'[j - 1] = timers[j - 1 + 1] /\ j - 1 + 1 = j
      BY <1>1, <3>1
    <3> QED
      BY <1>6, <3>1, <3>2
  <2>3. j # k
    BY <1>6
  <2> QED
    BY <1>2, <2>1, <2>2, <2>3
<1>7. \A id : Listed(id)' <=> Listed(id) /\ id # timers[k].id
  BY <1>2, <1>5, <1>6 DEF Listed
<1> QED
  BY <1>1, <1>2, <1>7

LEMMA OrderWithout ==
  ASSUME TypeOK, QueueOK, NEW k \in DOMAIN timers, timers' = Without(timers, k)
  PROVE  \A m \in DOMAIN timers' :
           /\ timers'[m].id < nextTimerID
           /\ timers'[m].interval = 0 <=> timers'[m].id \in oneShots
           /\ \A j \in DOMAIN timers' : j < m => timers'[j].id < timers'[m].id
<1> DEFINE n == Len(timers)
           shift(j) == IF j < k THEN j ELSE j + 1
<1>1. /\ DOMAIN timers' = 1..(n - 1) /\ DOMAIN timers = 1..n /\ n \in Nat
      /\ \A j \in DOMAIN timers' :
           timers'[j] = IF j < k THEN timers[j] ELSE timers[j + 1]
  BY WithoutListed DEF TypeOK
<1>2. \A j \in 1..(n - 1) : shift(j) \in 1..n /\ timers'[j] = timers[shift(j)]
  BY <1>1
<1>3. \A j, m \in 1..(n - 1) : j < m => shift(j) < shift(m)
  BY <1>1
<1> HIDE DEF shift
<1> QED
  BY <1>1, <1>2, <1>3 DEF QueueOK

LEMMA QueueStep ==
  ASSUME TypeOK, QueueOK, [Next]_vars, ~disturbed' PROVE QueueOK'
<1> USE TimerAssumption DEF TypeOK, history
<1>1. CASE StartPass \/ NotDue \/ EndPass
  <2>1. UNCHANGED <<timers, nextTimerID, fired, cancelled, oneShots>>
        /\ running' = 0 /\ crashed' = FALSE
    BY <1>1 DEF StartPass, NotDue, EndPass, AtTimer, QueueOK
  <2> QED
    BY <2>1 DEF QueueOK, Listed
<1>2. CASE Call
  BY <1>2 DEF Call, AtTimer, QueueOK, Listed
<1>3. CASE Erase
  <2>1. i \in DOMAIN timers /\ timers[i].id = running /\ running # 0 /\ timers' = Without(timers, i)
    BY <1>3 DEF Erase, Returns, QueueOK
  <2>2. /\ \A id : Listed(id)' <=> Listed(id) /\ id # running
        /\ DOMAIN timers' = 1..(Len(timers) - 1)
        /\ \A j \in DOMAIN timers' :
             timers'[j] = IF j < i THEN timers[j] ELSE timers[j + 1]
    BY <2>1, WithoutListed
  <2>3. running \in oneShots /\ running \in 1..(nextTimerID - 1)
    BY <1>3, <2>1 DEF QueueOK, Erase
  <2>4. fired' = fired \cup {running} /\ running' = 0
        /\ crashed' = FALSE /\ UNCHANGED <<nextTimerID, cancelled, oneShots>>
    BY <1>3 DEF Erase, Returns
  <2>5. \A k \in DOMAIN timers' :
       /\ timers'[k].id < nextTimerID
       /\ timers'[k].interval = 0 <=> timers'[k].id \in oneShots
       /\ \A j \in DOMAIN timers' : j < k => timers'[j].id < timers'[k].id
    BY <2>1, <2>2, OrderWithout
  <2> QED
    BY <2>2, <2>3, <2>4, <2>5 DEF QueueOK
<1>4. CASE Repeat
  <2>1. i \in DOMAIN timers /\ timers[i].id = running /\ timers[i].interval > 0
    BY <1>4 DEF Repeat, Returns, QueueOK
  <2>2. DOMAIN timers' = DOMAIN timers /\ \A k \in DOMAIN timers :
          timers'[k].id = timers[k].id /\ timers'[k].interval = timers[k].interval
    BY <1>4, <2>1, TimerFields DEF Repeat, Timer
  <2>3. running \notin oneShots /\ running \in 1..(nextTimerID - 1)
    BY <2>1, TimerFields DEF QueueOK, TimerID
  <2>4. fired' = fired \cup {running} /\ running' = 0
        /\ crashed' = FALSE /\ UNCHANGED <<nextTimerID, cancelled, oneShots>>
    BY <1>4 DEF Repeat, Returns
  <2>5. \A id : Listed(id)' <=> Listed(id)
    BY <2>2 DEF Listed
  <2> QED
    BY <2>2, <2>3, <2>4, <2>5 DEF QueueOK
<1>5. CASE PastEnd
  BY <1>5 DEF PastEnd, Returns, QueueOK
<1>6. ASSUME NEW delay \in Delays, NEW interval \in Delays, Schedule(delay, interval)
      PROVE  QueueOK'
  <2> DEFINE t == [id |-> nextTimerID, expiry |-> now + delay, interval |-> interval]
             n == Len(timers)
  <2>1. t \in Timer /\ t.id = nextTimerID /\ t.interval = interval
    BY <1>6 DEF Schedule, Timer, TimerID
  <2>2. timers' = Append(timers, t) /\ nextTimerID' = nextTimerID + 1
        /\ oneShots' = (IF interval = 0 THEN oneShots \cup {nextTimerID} ELSE oneShots)
        /\ crashed' = FALSE /\ UNCHANGED <<i, running, fired, cancelled>>
    BY <1>6 DEF Schedule, MayCall
  <2> HIDE DEF t
  <2>3. /\ DOMAIN timers = 1..n /\ DOMAIN timers' = 1..(n + 1) /\ n \in Nat
        /\ \A k \in 1..n : timers'[k] = timers[k]
        /\ timers'[n + 1] = t
    BY <2>1, <2>2, AppendProperties
  <2>4. \A k \in DOMAIN timers : timers[k].id \in Nat /\ timers[k].id < nextTimerID
    BY TimerFields DEF QueueOK
  <2>5. \A id : Listed(id)' <=> Listed(id) \/ id = nextTimerID
    BY <2>1, <2>3 DEF Listed
  <2>6. nextTimerID \notin oneShots \cup fired \cup cancelled
    BY DEF QueueOK
  <2>7. \A k \in DOMAIN timers' :
       /\ timers'[k].id < nextTimerID'
       /\ timers'[k].interval = 0 <=> timers'[k].id \in oneShots'
       /\ \A j \in DOMAIN timers' : j < k => timers'[j].id < timers'[k].id
    <3> SUFFICES ASSUME NEW k \in 1..(n + 1)
                 PROVE  /\ timers'[k].id < nextTimerID'
                        /\ timers'[k].interval = 0 <=> timers'[k].id \in oneShots'
                        /\ \A j \in 1..(n + 1) : j < k => timers'[j].id < timers'[k].id
      BY <2>3
    <3>1. CASE k = n + 1
      BY <2>1, <2>2, <2>3, <2>4, <2>6, <3>1
    <3>2. CASE k \in 1..n
      <4>1. timers'[k] = timers[k] /\ k \in DOMAIN timers
        BY <2>3, <3>2
      <4>2. timers[k].id \in Nat /\ timers[k].id < nextTimerID
        BY <2>4, <4>1
      <4>3. timers[k].interval = 0 <=> timers[k].id \in oneShots
        BY <4>1 DEF QueueOK
      <4>4. timers[k].id \in oneShots' <=> timers[k].id \in oneShots
        BY <2>2, <4>2
      <4>5. \A j \in 1..(n + 1) : j < k => timers'[j].id < timers[k].id
        BY <2>3, <3>2 DEF QueueOK
      <4> QED
        BY <2>2, <4>1, <4>2, <4>3, <4>4, <4>5
    <3> QED
      BY <2>3, <3>1, <3>2
  <2>8. fired' \cup cancelled' \cup oneShots' \subseteq 1..(nextTimerID' - 1)
    BY <2>2 DEF QueueOK
  <2>9. running' # 0 => i' \in DOMAIN timers' /\ timers'[i'].id = running'
    BY <2>2, <2>3 DEF QueueOK
  <2>10. \A id \in 1..(nextTimerID' - 1) :
       Listed(id)' <=> id \notin cancelled' /\ (id \in oneShots' => id \notin fired')
    BY <2>2, <2>5, <2>6 DEF QueueOK
  <2> QED
    BY <2>2, <2>7, <2>8, <2>9, <2>10 DEF QueueOK
<1>7. ASSUME NEW id \in TimerID, CancelTimer(id) PROVE QueueOK'
  <2>1. PICK k \in DOMAIN timers :
          /\ timers[k].id = id /\ timers' = Without(timers, k)
          /\ disturbed' = (disturbed \/ (running # 0 /\ k <= i))
    BY <1>7 DEF CancelTimer
  <2>2. ~(running # 0 /\ k <= i)
    BY <2>1
  <2>3. /\ \A d : Listed(d)' <=> Listed(d) /\ d # id
        /\ DOMAIN timers' = 1..(Len(timers) - 1)
        /\ \A j \in DOMAIN timers' :
             timers'[j] = IF j < k THEN timers[j] ELSE timers[j + 1]
    BY <2>1, WithoutListed
  <2>4. cancelled' = cancelled \cup {id}
        /\ crashed' = FALSE /\ UNCHANGED <<nextTimerID, i, running, fired, oneShots>>
    BY <1>7 DEF CancelTimer, MayCall
  <2>5. id \in 1..(nextTimerID - 1)
    BY <2>1 DEF QueueOK, TimerID
  <2>6. \A m \in DOMAIN timers' :
       /\ timers'[m].id < nextTimerID
       /\ timers'[m].interval = 0 <=> timers'[m].id \in oneShots
       /\ \A j \in DOMAIN timers' : j < m => timers'[j].id < timers'[m].id
    BY <2>1, <2>3, OrderWithout
  <2>7. running # 0 => i \in DOMAIN timers' /\ timers'[i] = timers[i]
    BY <2>1, <2>2, <2>3 DEF QueueOK
  <2> QED
    BY <2>3, <2>4, <2>5, <2>6, <2>7 DEF QueueOK
<1>8. CASE ClockTick
  BY <1>8 DEF ClockTick, QueueOK, Listed
<1>9. CASE UNCHANGED vars
  BY <1>9 DEF vars, QueueOK, Listed
<1>10. CASE ReadMovedCapture
  BY <1>10 DEF ReadMovedCapture, QueueOK, Listed
<1> QED
  BY <1>1, <1>2, <1>3, <1>4, <1>5, <1>6, <1>7, <1>8, <1>9, <1>10
     DEF Next, ProcessTimers, Caller

\* A callback that once disturbed the loop is not forgotten.
LEMMA DisturbedStays ==
  ASSUME TypeOK, [Next]_vars, disturbed PROVE disturbed'
  BY DEF Next, ProcessTimers, Caller, StartPass, NotDue, Call, Erase, Repeat, PastEnd,
     EndPass, Schedule, CancelTimer, ReadMovedCapture, ClockTick, vars, history

LEMMA TimerInvariance == Spec => []TInv
<1>1. Init => TInv
  <2> SUFFICES ASSUME Init PROVE TInv
    OBVIOUS
  <2>1. TypeOK
    BY TypeAtStart
  <2>2. QueueOK
    BY DEF Init, QueueOK, Listed
  <2> QED
    BY <2>1, <2>2 DEF TInv
<1>2. TInv /\ [Next]_vars => TInv'
  BY TypeStep, QueueStep, DisturbedStays DEF TInv
<1> QED
  BY <1>1, <1>2, PTL DEF Spec

----------------------------------------------------------------------------
\* Every variable of the timer queue keeps its type.
THEOREM TypeCorrect == Spec => []TypeOK
<1>1. TInv => TypeOK
  BY DEF TInv
<1> QED
  BY TimerInvariance, <1>1, PTL

\* However callbacks schedule and cancel, as long as none cancels its own timer or an
\* earlier one, ProcessTimers neither loses a timer nor keeps one that is over.
THEOREM TimersAreKept == Spec => []NoneLostNoneLeft
<1>1. TInv => NoneLostNoneLeft
  BY DEF TInv, QueueOK, NoneLostNoneLeft
<1> QED
  BY TimerInvariance, <1>1, PTL

----------------------------------------------------------------------------
\* What the loop leaves behind its index: timers that were not due when it read the
\* clock, or that it has called and set to a later time.
PassOK == \A k \in DOMAIN timers : k < i => timers[k].expiry > passNow

PInv == TInv /\ (~disturbed => PassOK)

LEMMA PassStep ==
  ASSUME TypeOK, QueueOK, PassOK, [Next]_vars, ~disturbed' PROVE PassOK'
<1> USE DEF history
<1> DEFINE n == Len(timers)
<1>0. /\ DOMAIN timers = 1..n /\ n \in Nat /\ i \in Nat /\ passNow \in Nat
      /\ \A k \in 1..n : timers[k].expiry \in Nat /\ timers[k].interval \in Nat
  <2>1. timers \in Seq(Timer) /\ i \in Nat /\ passNow \in Nat
    BY TimerAssumption DEF TypeOK
  <2> QED
    BY <2>1, TimerFields
<1>1. CASE StartPass \/ EndPass
  <2>1. timers' = timers /\ i' \in {0, 1}
    BY <1>1 DEF StartPass, EndPass
  <2> QED
    BY <1>0, <2>1 DEF PassOK
<1>2. CASE NotDue
  <2>1. /\ passNow < timers[i].expiry /\ i' = i + 1
        /\ timers' = timers /\ passNow' = passNow
    BY <1>2 DEF NotDue
  <2> QED
    BY <1>0, <2>1 DEF PassOK
<1>3. CASE Call
  BY <1>3 DEF Call, PassOK
<1>4. CASE Erase
  <2>1. /\ i \in DOMAIN timers /\ timers' = Without(timers, i)
        /\ i' = i /\ passNow' = passNow
    BY <1>4 DEF Erase
  <2>2. /\ DOMAIN timers' = 1..(n - 1)
        /\ \A j \in DOMAIN timers' :
             timers'[j] = IF j < i THEN timers[j] ELSE timers[j + 1]
    BY <2>1, WithoutListed
  <2> QED
    BY <1>0, <2>1, <2>2 DEF PassOK
<1>5. CASE Repeat
  <2>1. i \in 1..n /\ timers[i].interval > 0 /\ i' = i + 1 /\ passNow' = passNow
    BY <1>0, <1>5 DEF Repeat
  <2>2. /\ DOMAIN timers' = 1..n
        /\ \A k \in 1..n : k # i => timers'[k] = timers[k]
        /\ timers'[i].expiry = passNow + timers[i].interval
    BY <1>0, <1>5, <2>1 DEF Repeat, TypeOK, Timer
  <2> QED
    BY <1>0, <2>1, <2>2 DEF PassOK
<1>6. CASE PastEnd
  BY <1>0, <1>6 DEF PastEnd, Returns, QueueOK
<1>7. ASSUME NEW delay \in Delays, NEW interval \in Delays, Schedule(delay, interval)
      PROVE  PassOK'
  <2> DEFINE t == [id |-> nextTimerID, expiry |-> now + delay, interval |-> interval]
  <2>1. timers' = Append(timers, t) /\ i' = i /\ passNow' = passNow
    BY <1>7 DEF Schedule
  <2>2. i = 0 \/ i \in 1..n
    BY <1>0, <1>7 DEF Schedule, MayCall, QueueOK
  <2> HIDE DEF t
  <2>3. DOMAIN timers' = 1..(n + 1) /\ \A k \in 1..n : timers'[k] = timers[k]
    BY <2>1 DEF TypeOK
  <2> QED
    BY <1>0, <2>1, <2>2, <2>3 DEF PassOK
<1>8. ASSUME NEW id \in TimerID, CancelTimer(id) PROVE PassOK'
  <2>1. PICK k \in DOMAIN timers :
          /\ timers' = Without(timers, k)
          /\ disturbed' = (disturbed \/ (running # 0 /\ k <= i))
    BY <1>8 DEF CancelTimer
  <2>2. i' = i /\ passNow' = passNow /\ (i = 0 \/ running # 0)
    BY <1>8 DEF CancelTimer, MayCall
  <2>3. i = 0 \/ k > i
    <3>1. ~(running # 0 /\ k <= i)
      BY <2>1
    <3> QED
      BY <1>0, <2>2, <3>1
  <2>4. /\ DOMAIN timers' = 1..(n - 1)
        /\ \A j \in DOMAIN timers' :
             timers'[j] = IF j < k THEN timers[j] ELSE timers[j + 1]
    BY <2>1, WithoutListed
  <2> QED
    BY <1>0, <2>2, <2>3, <2>4 DEF PassOK
<1>9. CASE ReadMovedCapture \/ ClockTick \/ UNCHANGED vars
  BY <1>9 DEF ReadMovedCapture, ClockTick, vars, PassOK
<1> QED
  BY <1>1, <1>2, <1>3, <1>4, <1>5, <1>6, <1>7, <1>8, <1>9
     DEF Next, ProcessTimers, Caller

\* When the loop of ProcessTimers has come to the end of the vector, whatever its
\* callbacks scheduled or cancelled on the way.
NoneDueIsLeft ==
  ~disturbed /\ i > Len(timers) /\ running = 0 =>
    \A k \in DOMAIN timers : timers[k].expiry > passNow

\* A pass leaves no timer that was due when it began: every one of them was called and
\* erased, or called and moved to a later time.  This is what is safety in DueIsCalled;
\* fairness adds that passes go on.
THEOREM PassIsComplete == Spec => []NoneDueIsLeft
<1>1. Init => PInv
  <2>1. Init => TypeOK
    BY TypeAtStart
  <2>2. Init => QueueOK /\ PassOK
    BY DEF Init, QueueOK, PassOK, Listed
  <2> QED
    BY <2>1, <2>2 DEF PInv, TInv
<1>2. PInv /\ [Next]_vars => PInv'
  BY TypeStep, QueueStep, PassStep, DisturbedStays DEF PInv, TInv
<1>3. PInv => NoneDueIsLeft
  <2> SUFFICES ASSUME PInv, ~disturbed, i > Len(timers), NEW k \in DOMAIN timers
               PROVE  timers[k].expiry > passNow
    BY DEF NoneDueIsLeft
  <2>1. k < i
    BY DEF PInv, TInv, TypeOK
  <2> QED
    BY <2>1 DEF PInv, PassOK
<1> QED
  BY <1>1, <1>2, <1>3, PTL DEF Spec
==============================================================================
