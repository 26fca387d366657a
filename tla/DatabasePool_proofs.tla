----------------------- MODULE DatabasePool_proofs -----------------------
(***************************************************************************)
(* Proofs about DatabasePool, for every number of jobs and clients.        *)
(***************************************************************************)
EXTENDS DatabasePool, SequenceTheorems, TLAPS

\* The jobs that are queued, held or to be answered were submitted, and only those
\* with bHasCallback are to be answered.
HandSubmitted == hand # NoJob => Submitted(hand)
QueueSubmitted == \A i \in 1..Len(queue) : Submitted(queue[i])
RepliesFlagged == \A i \in 1..Len(replies) : HasCallback(replies[i])
JobsOK == HandSubmitted /\ QueueSubmitted /\ RepliesFlagged

\* There is no worker before Start has connected, and none after Join.
WorkerOK ==
  /\ wpc \notin {"none", "exited"} => conn = "open" /\ stmts # "none"
  /\ wpc \notin {"none", "exited"} => mpc \notin {"close", "disconnect", "stopped"}
  /\ mpc = "start" => wpc = "none"

\* There is no job before the world thread runs.
NoJobYet == ~WorldRunning => queue = <<>> /\ hand = NoJob

IInv ==
  /\ TypeOK /\ JobsOK
  /\ WorkerOK /\ NoJobYet /\ WakeupPending

----------------------------------------------------------------------------
(* Sequences.                                                              *)

LEMMA HeadAndTail ==
  ASSUME NEW S, NEW s \in Seq(S), s # <<>>
  PROVE  /\ 1 \in 1..Len(s) /\ Head(s) = s[1] /\ Head(s) \in S
         /\ Tail(s) \in Seq(S)
         /\ \A i \in 1..Len(Tail(s)) : i + 1 \in 1..Len(s) /\ Tail(s)[i] = s[i + 1]
  OBVIOUS

LEMMA AppendElements ==
  ASSUME NEW S, NEW s \in Seq(S), NEW e \in S
  PROVE  /\ Append(s, e) \in Seq(S)
         /\ \A i \in 1..Len(Append(s, e)) :
              \/ i \in 1..Len(s) /\ Append(s, e)[i] = s[i]
              \/ Append(s, e)[i] = e
  OBVIOUS

LEMMA ConcatAppend ==
  ASSUME NEW S, NEW s \in Seq(S), NEW t \in Seq(S), NEW e \in S
  PROVE  s \o Append(t, e) = Append(s \o t, e)
<1>1. <<e>> \in Seq(S) /\ s \o t \in Seq(S)
  BY ConcatProperties
<1>2. s \o (t \o <<e>>) = (s \o t) \o <<e>>
  BY <1>1, ConcatAssociative
<1> QED
  BY <1>1, <1>2, AppendIsConcat

LEMMA HeadConcatTail ==
  ASSUME NEW S, NEW s \in Seq(S), s # <<>>
  PROVE  <<Head(s)>> \o Tail(s) = s
  OBVIOUS

LEMMA TailOfConcat ==
  ASSUME NEW S, NEW s \in Seq(S), NEW t \in Seq(S), s # <<>>
  PROVE  /\ s \o t # <<>>
         /\ Head(s \o t) = Head(s)
         /\ Tail(s \o t) = Tail(s) \o t
  OBVIOUS

----------------------------------------------------------------------------

LEMMA TypeStep ==
  ASSUME TypeOK, WorkerOK, [Next]_vars PROVE TypeOK'
<1> USE ThreadAssumption DEF TypeOK, WorkerOK, MainState, WorkerState, Kind
<1>1. CASE StartFails
  BY <1>1 DEF StartFails, poolVars, workerVars, jobVars
<1>2. CASE StartSucceeds
  BY <1>2 DEF StartSucceeds, poolVars, workerVars, jobVars
<1>3. CASE ForceQuery
  BY <1>3 DEF ForceQuery, poolVars, workerVars, jobVars
<1>4. CASE StartWorld
  BY <1>4 DEF StartWorld, poolVars, workerVars, jobVars
<1>5. CASE RequestStop
  BY <1>5 DEF RequestStop, poolVars, workerVars, jobVars
<1>6. CASE StopBegins
  BY <1>6 DEF StopBegins, poolVars, workerVars, jobVars
<1>7. CASE SetShutdown
  BY <1>7 DEF SetShutdown, poolVars, workerVars, jobVars
<1>8. CASE NotifyAll
  BY <1>8 DEF NotifyAll, Notified, poolVars, workerVars, jobVars
<1>9. CASE Join
  BY <1>9 DEF Join, poolVars, workerVars, jobVars
<1>10. CASE CloseStatements
  BY <1>10 DEF CloseStatements, poolVars, workerVars, jobVars
<1>11. CASE CloseConnection
  BY <1>11 DEF CloseConnection, poolVars, workerVars, jobVars
<1>12. ASSUME NEW c \in Clients, NEW j \in Jobs, NEW k \in Kind,
      Submit(c, j, k) PROVE TypeOK'
  <2>1. queue' \in Seq(Jobs)
    BY <1>12, AppendElements DEF Submit
  <2>. QED
    BY <1>12, <2>1 DEF Submit, poolVars, workerVars
<1>13. ASSUME NEW c \in Clients, NotifyOne(c) PROVE TypeOK'
  BY <1>13 DEF NotifyOne, Notified, poolVars, workerVars, jobVars
<1>14. CASE PumpBegins
  BY <1>14 DEF PumpBegins, poolVars, workerVars, jobVars
<1>15. CASE PumpOne
  <2>1. Head(replies) \in Jobs /\ replies' \in Seq(Jobs)
    BY <1>15, HeadAndTail DEF PumpOne
  <2>2. fired' \in Seq(Jobs)
    BY <1>15, <2>1, AppendElements DEF PumpOne
  <2>. QED
    BY <1>15, <2>1, <2>2 DEF PumpOne, poolVars, workerVars
<1>16. CASE PumpEnds
  BY <1>16 DEF PumpEnds, poolVars, workerVars, jobVars
<1>17. CASE TestRunning
  BY <1>17 DEF TestRunning, poolVars, workerVars, jobVars
<1>18. CASE Pop
  <2>1. CASE queue # <<>>
    <3>1. hand' = Head(queue) /\ queue' = Tail(queue) /\ wpc' = "run"
      BY <1>18, <2>1 DEF Pop
    <3>2. Head(queue) \in Jobs /\ Tail(queue) \in Seq(Jobs)
      BY <2>1, HeadAndTail
    <3>. QED
      BY <1>18, <3>1, <3>2 DEF Pop, poolVars
  <2>2. CASE queue = <<>>
    BY <1>18, <2>2 DEF Pop, poolVars
  <2>. QED
    BY <2>1, <2>2
<1>19. CASE Execute
  BY <1>19 DEF Execute, poolVars, workerVars, jobVars
<1>20. CASE Reply
  <2>1. replies' \in Seq(Jobs)
    BY <1>20, AppendElements DEF Reply
  <2>. QED
    BY <1>20, <2>1 DEF Reply, poolVars
<1>21. CASE SpuriousWakeup
  BY <1>21 DEF SpuriousWakeup, poolVars, workerVars, jobVars
<1>22. CASE UNCHANGED vars
  BY <1>22 DEF vars, poolVars, workerVars, jobVars
<1>23. QED
  BY <1>1, <1>2, <1>3, <1>4, <1>5, <1>6, <1>7, <1>8, <1>9, <1>10, <1>11,
     <1>12, <1>13, <1>14, <1>15, <1>16, <1>17, <1>18, <1>19, <1>20, <1>21, <1>22
  DEF Next, Main, Stop, Client, Pump, Worker

LEMMA JobsStep ==
  ASSUME TypeOK, JobsOK, [Next]_vars PROVE JobsOK'
<1> USE ThreadAssumption DEF TypeOK, JobsOK, HandSubmitted, QueueSubmitted,
   RepliesFlagged, Submitted, HasCallback, Kind
<1>1. CASE StartFails
  BY <1>1 DEF StartFails, poolVars, workerVars, jobVars
<1>2. CASE StartSucceeds
  BY <1>2 DEF StartSucceeds, poolVars, workerVars, jobVars
<1>3. CASE ForceQuery
  BY <1>3 DEF ForceQuery, poolVars, workerVars, jobVars
<1>4. CASE StartWorld
  BY <1>4 DEF StartWorld, poolVars, workerVars, jobVars
<1>5. CASE RequestStop
  BY <1>5 DEF RequestStop, poolVars, workerVars, jobVars
<1>6. CASE StopBegins
  BY <1>6 DEF StopBegins, poolVars, workerVars, jobVars
<1>7. CASE SetShutdown
  BY <1>7 DEF SetShutdown, poolVars, workerVars, jobVars
<1>8. CASE NotifyAll
  BY <1>8 DEF NotifyAll, Notified, poolVars, workerVars, jobVars
<1>9. CASE Join
  BY <1>9 DEF Join, poolVars, workerVars, jobVars
<1>10. CASE CloseStatements
  BY <1>10 DEF CloseStatements, poolVars, workerVars, jobVars
<1>11. CASE CloseConnection
  BY <1>11 DEF CloseConnection, poolVars, workerVars, jobVars
<1>12. ASSUME NEW c \in Clients, NEW j \in Jobs, NEW k \in Kind,
      Submit(c, j, k) PROVE JobsOK'
  <2>1. \A i \in 1..Len(queue') :
          \/ i \in 1..Len(queue) /\ queue'[i] = queue[i]
          \/ queue'[i] = j
    BY <1>12, AppendElements DEF Submit
  <2>2. kind'[j] = k /\ \A i \in Jobs \ {j} : kind'[i] = kind[i]
    BY <1>12 DEF Submit
  <2>3. HandSubmitted'
    BY <1>12, <2>2 DEF Submit, workerVars
  <2>4. QueueSubmitted'
    BY <1>12, <2>1, <2>2 DEF Submit
  <2>5. RepliesFlagged'
    <3>1. replies' = replies /\ \A i \in 1..Len(replies) : replies[i] \in Jobs /\ replies[i] # j
      BY <1>12 DEF Submit
    <3>. QED
      BY <2>2, <3>1
  <2>. QED
    BY <2>3, <2>4, <2>5
<1>13. ASSUME NEW c \in Clients, NotifyOne(c) PROVE JobsOK'
  BY <1>13 DEF NotifyOne, Notified, poolVars, workerVars, jobVars
<1>14. CASE PumpBegins
  BY <1>14 DEF PumpBegins, poolVars, workerVars, jobVars
<1>15. CASE PumpOne
  BY <1>15, HeadAndTail DEF PumpOne, poolVars, workerVars
<1>16. CASE PumpEnds
  BY <1>16 DEF PumpEnds, poolVars, workerVars, jobVars
<1>17. CASE TestRunning
  BY <1>17 DEF TestRunning, poolVars, workerVars, jobVars
<1>18. CASE Pop
  <2>1. CASE queue # <<>>
    <3>1. hand' = Head(queue) /\ queue' = Tail(queue) /\ kind' = kind /\ replies' = replies
      BY <1>18, <2>1 DEF Pop
    <3>2. /\ 1 \in 1..Len(queue) /\ Head(queue) = queue[1]
          /\ \A i \in 1..Len(Tail(queue)) :
               i + 1 \in 1..Len(queue) /\ Tail(queue)[i] = queue[i + 1]
      BY <2>1, HeadAndTail
    <3>. QED
      BY <3>1, <3>2
  <2>2. CASE queue = <<>>
    BY <1>18, <2>2 DEF Pop, poolVars
  <2>. QED
    BY <2>1, <2>2
<1>19. CASE Execute
  BY <1>19 DEF Execute, poolVars, workerVars, jobVars
<1>20. CASE Reply
  BY <1>20, AppendElements DEF Reply, poolVars
<1>21. CASE SpuriousWakeup
  BY <1>21 DEF SpuriousWakeup, poolVars, workerVars, jobVars
<1>22. CASE UNCHANGED vars
  BY <1>22 DEF vars, poolVars, workerVars, jobVars
<1>23. QED
  BY <1>1, <1>2, <1>3, <1>4, <1>5, <1>6, <1>7, <1>8, <1>9, <1>10, <1>11,
     <1>12, <1>13, <1>14, <1>15, <1>16, <1>17, <1>18, <1>19, <1>20, <1>21, <1>22
  DEF Next, Main, Stop, Client, Pump, Worker

LEMMA WorkerStep ==
  ASSUME TypeOK, WorkerOK, [Next]_vars PROVE WorkerOK'
<1> USE ThreadAssumption DEF TypeOK, WorkerOK
<1>1. CASE StartFails
  BY <1>1 DEF StartFails, poolVars, workerVars, jobVars
<1>2. CASE StartSucceeds
  BY <1>2 DEF StartSucceeds, poolVars, workerVars, jobVars
<1>3. CASE ForceQuery
  BY <1>3 DEF ForceQuery, poolVars, workerVars, jobVars
<1>4. CASE StartWorld
  BY <1>4 DEF StartWorld, poolVars, workerVars, jobVars
<1>5. CASE RequestStop
  BY <1>5 DEF RequestStop, poolVars, workerVars, jobVars
<1>6. CASE StopBegins
  BY <1>6 DEF StopBegins, poolVars, workerVars, jobVars
<1>7. CASE SetShutdown
  BY <1>7 DEF SetShutdown, poolVars, workerVars, jobVars
<1>8. CASE NotifyAll
  BY <1>8 DEF NotifyAll, Notified, poolVars, workerVars, jobVars
<1>9. CASE Join
  BY <1>9 DEF Join, poolVars, workerVars, jobVars
<1>10. CASE CloseStatements
  BY <1>10 DEF CloseStatements, poolVars, workerVars, jobVars
<1>11. CASE CloseConnection
  BY <1>11 DEF CloseConnection, poolVars, workerVars, jobVars
<1>12. ASSUME NEW c \in Clients, NEW j \in Jobs, NEW k \in Kind,
      Submit(c, j, k) PROVE WorkerOK'
  BY <1>12 DEF Submit, poolVars, workerVars, jobVars
<1>13. ASSUME NEW c \in Clients, NotifyOne(c) PROVE WorkerOK'
  BY <1>13 DEF NotifyOne, Notified, poolVars, workerVars, jobVars
<1>14. CASE PumpBegins
  BY <1>14 DEF PumpBegins, poolVars, workerVars, jobVars
<1>15. CASE PumpOne
  BY <1>15 DEF PumpOne, poolVars, workerVars, jobVars
<1>16. CASE PumpEnds
  BY <1>16 DEF PumpEnds, poolVars, workerVars, jobVars
<1>17. CASE TestRunning
  BY <1>17 DEF TestRunning, poolVars, workerVars, jobVars
<1>18. CASE Pop
  BY <1>18 DEF Pop, poolVars, workerVars, jobVars
<1>19. CASE Execute
  BY <1>19 DEF Execute, poolVars, workerVars, jobVars
<1>20. CASE Reply
  BY <1>20 DEF Reply, poolVars, workerVars, jobVars
<1>21. CASE SpuriousWakeup
  BY <1>21 DEF SpuriousWakeup, poolVars, workerVars, jobVars
<1>22. CASE UNCHANGED vars
  BY <1>22 DEF vars, poolVars, workerVars, jobVars
<1>23. QED
  BY <1>1, <1>2, <1>3, <1>4, <1>5, <1>6, <1>7, <1>8, <1>9, <1>10, <1>11,
     <1>12, <1>13, <1>14, <1>15, <1>16, <1>17, <1>18, <1>19, <1>20, <1>21, <1>22
  DEF Next, Main, Stop, Client, Pump, Worker

LEMMA NoJobStep ==
  ASSUME TypeOK, WorkerOK, NoJobYet, [Next]_vars PROVE NoJobYet'
<1> USE ThreadAssumption DEF TypeOK, WorkerOK, NoJobYet, WorldRunning
<1>1. CASE StartFails
  BY <1>1 DEF StartFails, poolVars, workerVars, jobVars
<1>2. CASE StartSucceeds
  BY <1>2 DEF StartSucceeds, poolVars, workerVars, jobVars
<1>3. CASE ForceQuery
  BY <1>3 DEF ForceQuery, poolVars, workerVars, jobVars
<1>4. CASE StartWorld
  BY <1>4 DEF StartWorld, poolVars, workerVars, jobVars
<1>5. CASE RequestStop
  BY <1>5 DEF RequestStop, poolVars, workerVars, jobVars
<1>6. CASE StopBegins
  BY <1>6 DEF StopBegins, poolVars, workerVars, jobVars
<1>7. CASE SetShutdown
  BY <1>7 DEF SetShutdown, poolVars, workerVars, jobVars
<1>8. CASE NotifyAll
  BY <1>8 DEF NotifyAll, Notified, poolVars, workerVars, jobVars
<1>9. CASE Join
  BY <1>9 DEF Join, poolVars, workerVars, jobVars
<1>10. CASE CloseStatements
  BY <1>10 DEF CloseStatements, poolVars, workerVars, jobVars
<1>11. CASE CloseConnection
  BY <1>11 DEF CloseConnection, poolVars, workerVars, jobVars
<1>12. ASSUME NEW c \in Clients, NEW j \in Jobs, NEW k \in Kind,
      Submit(c, j, k) PROVE NoJobYet'
  BY <1>12 DEF Submit, poolVars, workerVars, jobVars
<1>13. ASSUME NEW c \in Clients, NotifyOne(c) PROVE NoJobYet'
  BY <1>13 DEF NotifyOne, Notified, poolVars, workerVars, jobVars
<1>14. CASE PumpBegins
  BY <1>14 DEF PumpBegins, poolVars, workerVars, jobVars
<1>15. CASE PumpOne
  BY <1>15 DEF PumpOne, poolVars, workerVars, jobVars
<1>16. CASE PumpEnds
  BY <1>16 DEF PumpEnds, poolVars, workerVars, jobVars
<1>17. CASE TestRunning
  BY <1>17 DEF TestRunning, poolVars, workerVars, jobVars
<1>18. CASE Pop
  BY <1>18 DEF Pop, poolVars
<1>19. CASE Execute
  BY <1>19 DEF Execute, poolVars, workerVars, jobVars
<1>20. CASE Reply
  BY <1>20 DEF Reply, poolVars, workerVars, jobVars
<1>21. CASE SpuriousWakeup
  BY <1>21 DEF SpuriousWakeup, poolVars, workerVars, jobVars
<1>22. CASE UNCHANGED vars
  BY <1>22 DEF vars, poolVars, workerVars, jobVars
<1>23. QED
  BY <1>1, <1>2, <1>3, <1>4, <1>5, <1>6, <1>7, <1>8, <1>9, <1>10, <1>11,
     <1>12, <1>13, <1>14, <1>15, <1>16, <1>17, <1>18, <1>19, <1>20, <1>21, <1>22
  DEF Next, Main, Stop, Client, Pump, Worker

LEMMA WakeupStep ==
  ASSUME TypeOK, WakeupPending, [Next]_vars PROVE WakeupPending'
<1> USE ThreadAssumption DEF TypeOK, WakeupPending
<1>1. CASE StartFails
  BY <1>1 DEF StartFails, poolVars, workerVars, jobVars
<1>2. CASE StartSucceeds
  BY <1>2 DEF StartSucceeds, poolVars, workerVars, jobVars
<1>3. CASE ForceQuery
  BY <1>3 DEF ForceQuery, poolVars, workerVars, jobVars
<1>4. CASE StartWorld
  BY <1>4 DEF StartWorld, poolVars, workerVars, jobVars
<1>5. CASE RequestStop
  BY <1>5 DEF RequestStop, poolVars, workerVars, jobVars
<1>6. CASE StopBegins
  BY <1>6 DEF StopBegins, poolVars, workerVars, jobVars
<1>7. CASE SetShutdown
  BY <1>7 DEF SetShutdown, poolVars, workerVars, jobVars
<1>8. CASE NotifyAll
  BY <1>8 DEF NotifyAll, Notified, poolVars, workerVars, jobVars
<1>9. CASE Join
  BY <1>9 DEF Join, poolVars, workerVars, jobVars
<1>10. CASE CloseStatements
  BY <1>10 DEF CloseStatements, poolVars, workerVars, jobVars
<1>11. CASE CloseConnection
  BY <1>11 DEF CloseConnection, poolVars, workerVars, jobVars
<1>12. ASSUME NEW c \in Clients, NEW j \in Jobs, NEW k \in Kind,
      Submit(c, j, k) PROVE WakeupPending'
  BY <1>12 DEF Submit, poolVars, workerVars, jobVars
<1>13. ASSUME NEW c \in Clients, NotifyOne(c) PROVE WakeupPending'
  BY <1>13 DEF NotifyOne, Notified, poolVars, workerVars, jobVars
<1>14. CASE PumpBegins
  BY <1>14 DEF PumpBegins, poolVars, workerVars, jobVars
<1>15. CASE PumpOne
  BY <1>15 DEF PumpOne, poolVars, workerVars, jobVars
<1>16. CASE PumpEnds
  BY <1>16 DEF PumpEnds, poolVars, workerVars, jobVars
<1>17. CASE TestRunning
  BY <1>17 DEF TestRunning, poolVars, workerVars, jobVars
<1>18. CASE Pop
  BY <1>18 DEF Pop, poolVars, workerVars, jobVars
<1>19. CASE Execute
  BY <1>19 DEF Execute, poolVars, workerVars, jobVars
<1>20. CASE Reply
  BY <1>20 DEF Reply, poolVars, workerVars, jobVars
<1>21. CASE SpuriousWakeup
  BY <1>21 DEF SpuriousWakeup, poolVars, workerVars, jobVars
<1>22. CASE UNCHANGED vars
  BY <1>22 DEF vars, poolVars, workerVars, jobVars
<1>23. QED
  BY <1>1, <1>2, <1>3, <1>4, <1>5, <1>6, <1>7, <1>8, <1>9, <1>10, <1>11,
     <1>12, <1>13, <1>14, <1>15, <1>16, <1>17, <1>18, <1>19, <1>20, <1>21, <1>22
  DEF Next, Main, Stop, Client, Pump, Worker

LEMMA Initially == Init => IInv
<1> SUFFICES ASSUME Init PROVE IInv
  OBVIOUS
<1> USE ThreadAssumption DEF Init
<1>1. TypeOK
  <2>1. hand = NoJob <=> wpc \notin {"run", "reply"}
    OBVIOUS
  <2>2. queue \in Seq(Jobs) /\ replies \in Seq(Jobs) /\ fired \in Seq(Jobs)
    OBVIOUS
  <2>. QED
    BY <2>1, <2>2 DEF TypeOK, MainState, WorkerState, Kind
<1>2. HandSubmitted /\ WorkerOK /\ NoJobYet /\ WakeupPending
  BY DEF HandSubmitted, WorkerOK, NoJobYet, WakeupPending
<1>3. QueueSubmitted /\ RepliesFlagged
  BY DEF QueueSubmitted, RepliesFlagged
<1> QED
  BY <1>1, <1>2, <1>3 DEF IInv, JobsOK

LEMMA Invariance == Spec => []IInv
<1>1. IInv /\ [Next]_vars => IInv'
  BY TypeStep, JobsStep, WorkerStep, NoJobStep, WakeupStep DEF IInv
<1> QED
  BY Initially, <1>1, PTL DEF Spec

\* A step of the pool accepts, performs or answers one job, or closes, or does not
\* show in the service.
LEMMA StepRefines ==
  ASSUME IInv, [Next]_vars PROVE [Service!Next]_(Service!vars)
<1> USE ThreadAssumption DEF IInv, JobsOK, TypeOK, MainState, WorkerState,
   Kind, HandSubmitted, RepliesFlagged, Submitted, Service!Next, Service!vars

<1>1. CASE StartFails
  BY <1>1 DEF StartFails, poolVars, workerVars, jobVars,
     Accepted, Wants, HasCallback, Pending, Held, Due, Owed, Open
<1>2. CASE StartSucceeds
  <2>1. wpc = "none" /\ wpc' = "test" /\ mpc = "start" /\ mpc' = "force"
    BY <1>2 DEF StartSucceeds, WorkerOK
  <2>. QED
    BY <1>2, <2>1 DEF StartSucceeds, jobVars, Accepted, Wants, HasCallback,
       Pending, Held,
       Due, Owed, Open
<1>3. CASE ForceQuery
  BY <1>3 DEF ForceQuery, poolVars, workerVars, jobVars,
     Accepted, Wants, HasCallback, Pending, Held, Due, Owed, Open
<1>4. CASE StartWorld
  BY <1>4 DEF StartWorld, poolVars, workerVars, jobVars,
     Accepted, Wants, HasCallback, Pending, Held, Due, Owed, Open
<1>5. CASE RequestStop
  BY <1>5 DEF RequestStop, poolVars, workerVars, jobVars,
     Accepted, Wants, HasCallback, Pending, Held, Due, Owed, Open
<1>6. CASE StopBegins
  BY <1>6 DEF StopBegins, poolVars, workerVars, jobVars,
     Accepted, Wants, HasCallback, Pending, Held, Due, Owed, Open
<1>7. CASE SetShutdown
  BY <1>7 DEF SetShutdown, poolVars, workerVars, jobVars,
     Accepted, Wants, HasCallback, Pending, Held, Due, Owed, Open
<1>8. CASE NotifyAll
  BY <1>8 DEF NotifyAll, Notified, poolVars, workerVars, jobVars,
     Accepted, Wants, HasCallback, Pending, Held, Due, Owed, Open
<1>9. CASE Join
  <2>1. Open /\ Open' = FALSE
    BY <1>9 DEF Join, Open
  <2>2. UNCHANGED <<Accepted, Wants, Pending, Due, fired>>
    BY <1>9 DEF Join, Accepted, Wants, HasCallback, Pending, Held, Due, Owed,
       jobVars, workerVars
  <2>. QED
    BY <2>1, <2>2 DEF Service!Close
<1>10. CASE CloseStatements
  BY <1>10 DEF CloseStatements, poolVars, workerVars, jobVars,
     Accepted, Wants, HasCallback, Pending, Held, Due, Owed, Open
<1>11. CASE CloseConnection
  BY <1>11 DEF CloseConnection, poolVars, workerVars, jobVars,
     Accepted, Wants, HasCallback, Pending, Held, Due, Owed, Open
<1>12. ASSUME NEW c \in Clients, NEW j \in Jobs, NEW k \in Kind,
      Submit(c, j, k) PROVE [Service!Next]_(Service!vars)
  <2>1. kind'[j] = k /\ k # "none" /\ \A i \in Jobs \ {j} : kind'[i] = kind[i]
    BY <1>12 DEF Submit
  <2>2. Accepted' = Accepted \cup {j} /\ j \notin Accepted
    BY <1>12, <2>1 DEF Submit, Accepted
  <2>3. Wants' \in {Wants, Wants \cup {j}}
    BY <1>12, <2>1 DEF Submit, Wants, HasCallback
  <2>4. Pending' = Append(Pending, j)
    <3>1. Pending = Held \o queue /\ Held \in Seq(Jobs) /\ Held' = Held
      BY <1>12 DEF Submit, Pending, Held, workerVars
    <3>2. Held \o Append(queue, j) = Append(Held \o queue, j)
      BY <3>1, ConcatAppend
    <3>. QED
      BY <1>12, <3>1, <3>2 DEF Submit, Pending
  <2>5. Due' = Due
    <3>1. hand # NoJob => hand # j /\ hand \in Jobs
      BY <1>12 DEF Submit
    <3>2. hand # NoJob => (HasCallback(hand) <=> HasCallback(hand)')
      BY <1>12, <2>1, <3>1 DEF HasCallback, Submit, workerVars
    <3>. QED
      BY <1>12, <3>2 DEF Submit, Due, Owed, workerVars
  <2>6. fired' = fired /\ Open' = Open
    BY <1>12 DEF Submit, Open
  <2>. QED
    BY <2>2, <2>3, <2>4, <2>5, <2>6 DEF Service!Accept
<1>13. ASSUME NEW c \in Clients, NotifyOne(c)
   PROVE [Service!Next]_(Service!vars)
  BY <1>13 DEF NotifyOne, Notified, poolVars, workerVars, jobVars,
     Accepted, Wants, HasCallback, Pending, Held, Due, Owed, Open
<1>14. CASE PumpBegins
  BY <1>14 DEF PumpBegins, poolVars, workerVars, jobVars,
     Accepted, Wants, HasCallback, Pending, Held, Due, Owed, Open
<1>15. CASE PumpOne
  <2>1. replies # <<>> /\ HasCallback(Head(replies)) /\ Head(replies) \in Jobs
    BY <1>15, HeadAndTail DEF PumpOne
  <2>2. Owed \in Seq(Jobs) /\ Owed' = Owed /\ Due = replies \o Owed /\ Due' = replies' \o Owed'
    BY <1>15 DEF PumpOne, Due, Owed, workerVars, HasCallback
  <2>3. /\ Due # <<>> /\ Head(Due) = Head(replies)
        /\ Tail(Due) = Tail(replies) \o Owed
    BY <2>1, <2>2, TailOfConcat
  <2>4. Due' = Tail(Due) /\ fired' = Append(fired, Head(Due))
    BY <1>15, <2>1, <2>2, <2>3 DEF PumpOne
  <2>5. UNCHANGED <<Accepted, Wants, Pending, Open>>
    BY <1>15 DEF PumpOne, Accepted, Wants, HasCallback, Pending, Held, Open,
       workerVars
  <2>. QED
    BY <2>3, <2>4, <2>5 DEF Service!Answer
<1>16. CASE PumpEnds
  BY <1>16 DEF PumpEnds, poolVars, workerVars, jobVars,
     Accepted, Wants, HasCallback, Pending, Held, Due, Owed, Open
<1>17. CASE TestRunning
  BY <1>17 DEF TestRunning, poolVars, workerVars, jobVars,
     Accepted, Wants, HasCallback, Pending, Held, Due, Owed, Open
<1>18. CASE Pop
  <2>1. CASE queue # <<>>
    <3>1. hand' = Head(queue) /\ queue' = Tail(queue) /\ wpc' = "run" /\ wpc = "pop"
      BY <1>18, <2>1 DEF Pop
    <3>2. Pending = <<>> \o queue /\ Pending' = <<Head(queue)>> \o Tail(queue)
      BY <3>1 DEF Pending, Held
    <3>3. Pending' = Pending
      BY <2>1, <3>2, HeadConcatTail, ConcatEmptySeq
    <3>4. Due' = Due
      BY <1>18, <3>1 DEF Pop, Due, Owed
    <3>. QED
      BY <1>18, <3>3, <3>4 DEF Pop, Accepted, Wants, HasCallback, Open
  <2>2. CASE queue = <<>>
    BY <1>18, <2>2 DEF Pop, Pending, Held, Due, Owed, Accepted, Wants,
       HasCallback, Open
  <2>. QED
    BY <2>1, <2>2
<1>19. CASE Execute
  <2>1. Open /\ Open' = Open
    BY <1>19 DEF Execute, Open, WorkerOK
  <2>2. /\ wpc = "run" /\ wpc' = "reply" /\ hand' = hand /\ hand \in Jobs
        /\ queue' = queue /\ replies' = replies /\ fired' = fired /\ kind' = kind
    BY <1>19 DEF Execute, jobVars
  <2>3. /\ <<hand>> \in Seq(Jobs) /\ <<hand>> # <<>>
        /\ Head(<<hand>>) = hand /\ Tail(<<hand>>) = <<>>
    BY <2>2
  <2>4. Pending = <<hand>> \o queue /\ Pending' = <<>> \o queue
    BY <2>2 DEF Pending, Held
  <2>5. Pending # <<>> /\ Head(Pending) = hand /\ Tail(Pending) = Pending'
    BY <2>3, <2>4, TailOfConcat
  <2>6. Due = replies
    BY <2>2, ConcatEmptySeq DEF Due, Owed
  <2>7. hand \in Wants <=> HasCallback(hand)
    BY <2>2 DEF Wants
  <2>8. HasCallback(hand)' <=> HasCallback(hand)
    BY <2>2 DEF HasCallback
  <2>9. Due' = IF hand \in Wants THEN Append(Due, hand) ELSE Due
    <3>1. CASE HasCallback(hand)
      <4>1. Due' = replies \o <<hand>>
        BY <2>2, <2>8, <3>1 DEF Due, Owed
      <4>2. Append(replies, hand) = replies \o <<hand>>
        BY <2>2, AppendIsConcat
      <4>. QED
        BY <2>6, <2>7, <3>1, <4>1, <4>2
    <3>2. CASE ~HasCallback(hand)
      <4>1. Due' = replies \o <<>>
        BY <2>2, <2>8, <3>2 DEF Due, Owed
      <4>2. replies \o <<>> = replies
        BY ConcatEmptySeq
      <4>. QED
        BY <2>6, <2>7, <3>2, <4>1, <4>2
    <3>. QED
      BY <3>1, <3>2
  <2>10. UNCHANGED <<Accepted, Wants, fired>>
    BY <2>2 DEF Accepted, Wants, HasCallback
  <2>. QED
    BY <2>1, <2>5, <2>9, <2>10 DEF Service!Perform
<1>20. CASE Reply
  <2>1. /\ wpc = "reply" /\ wpc' = "test" /\ hand \in Jobs
        /\ queue' = queue /\ fired' = fired /\ kind' = kind /\ mpc' = mpc
    BY <1>20 DEF Reply
  <2>2. UNCHANGED <<Accepted, Wants, Pending, Open>>
    BY <2>1 DEF Accepted, Wants, HasCallback, Pending, Held, Open
  <2>3. replies' \in Seq(Jobs) /\ Due' = replies' \o <<>>
    BY <1>20, <2>1, AppendElements DEF Reply, Due, Owed
  <2>4. Due' = replies'
    BY <2>3, ConcatEmptySeq
  <2>5. Due = replies'
    <3>1. CASE HasCallback(hand)
      <4>1. Due = replies \o <<hand>> /\ replies' = Append(replies, hand)
        BY <1>20, <2>1, <3>1 DEF Reply, Due, Owed
      <4>. QED
        BY <2>1, <4>1, AppendIsConcat
    <3>2. CASE ~HasCallback(hand)
      <4>1. Due = replies \o <<>> /\ replies' = replies
        BY <1>20, <2>1, <3>2 DEF Reply, Due, Owed
      <4>. QED
        BY <4>1, ConcatEmptySeq
    <3>. QED
      BY <3>1, <3>2
  <2>. QED
    BY <2>1, <2>2, <2>4, <2>5
<1>21. CASE SpuriousWakeup
  BY <1>21 DEF SpuriousWakeup, poolVars, workerVars, jobVars,
     Accepted, Wants, HasCallback, Pending, Held, Due, Owed, Open
<1>22. CASE UNCHANGED vars
  BY <1>22 DEF vars, poolVars, workerVars, jobVars,
     Accepted, Wants, HasCallback, Pending, Held, Due, Owed, Open
<1>23. QED
  BY <1>1, <1>2, <1>3, <1>4, <1>5, <1>6, <1>7, <1>8, <1>9, <1>10, <1>11,
     <1>12, <1>13, <1>14, <1>15, <1>16, <1>17, <1>18, <1>19, <1>20, <1>21, <1>22
  DEF Next, Main, Stop, Client, Pump, Worker

\* The pool is a JobService: every job is performed and answered at most once, in
\* the order of submission, and none is performed after Stop joined the worker.
THEOREM ImplementsService == Spec => RefinesService
<1>1. Init => Service!Init
  BY ThreadAssumption DEF Init, Service!Init, Accepted, Wants, Submitted,
     HasCallback,
     Pending, Held, Due, Owed, Open
<1>2. IInv /\ [Next]_vars => [Service!Next]_(Service!vars)
  BY StepRefines
<1> QED
  BY <1>1, <1>2, Invariance, PTL DEF Spec, RefinesService, Service!Spec

\* The pool's variables keep their types.
THEOREM TypeCorrect == Spec => []TypeOK
<1>1. IInv => TypeOK
  BY DEF IInv
<1> QED
  BY Invariance, <1>1, PTL

\* The worker never runs a statement after Stop closed it, nor before Start.
THEOREM NoStatementAfterClose == Spec => []WorkerIsConnected
<1>1. IInv => WorkerIsConnected
  BY DEF IInv, WorkerOK, WorkerIsConnected
<1> QED
  BY Invariance, <1>1, PTL

\* main and the worker are never in a query at the same time.
THEOREM ConnectionIsNotShared == Spec => []OneUserOfConnection
<1>1. IInv => OneUserOfConnection
  BY ThreadAssumption DEF IInv, TypeOK, NoJobYet, WorldRunning,
     OneUserOfConnection
<1> QED
  BY Invariance, <1>1, PTL

\* The worker never sleeps on a job or on the shutdown flag without a notification
\* on its way.
THEOREM NoLostWakeup == Spec => []WakeupPending
<1>1. IInv => WakeupPending
  BY DEF IInv
<1> QED
  BY Invariance, <1>1, PTL

----------------------------------------------------------------------------
(* A job is in one place at a time, from Submit to its callback.  The      *)
(* places are those of the service, so one step of the service stands for  *)
(* the steps of all threads.                                               *)

Once(s) == \A a, b \in 1..Len(s) : s[a] = s[b] => a = b
Holds(s, j) == \E a \in 1..Len(s) : s[a] = j

AtMostOnce ==
  /\ Once(Pending) /\ Once(Due) /\ Once(fired)
  /\ \A j \in Jobs :
       /\ ~(Holds(Pending, j) /\ Holds(Due, j))
       /\ ~(Holds(Pending, j) /\ Holds(fired, j))
       /\ ~(Holds(Due, j) /\ Holds(fired, j))
       /\ Holds(Pending, j) \/ Holds(Due, j) \/ Holds(fired, j) => j \in Accepted

\* A job that asks for its callback is to be performed, to be answered or answered.
NoneLost ==
  \A j \in Wants : Holds(Pending, j) \/ Holds(Due, j) \/ Holds(fired, j)

\* A job has no result exactly until the worker has performed it.
Unperformed ==
  \A j \in Jobs : j \notin Accepted \/ Holds(Pending, j) <=> result[j] = "none"

OInv == IInv /\ AtMostOnce /\ NoneLost /\ Unperformed

LEMMA HoldsTail ==
  ASSUME NEW S, NEW s \in Seq(S), s # <<>>, Once(s)
  PROVE  /\ Tail(s) \in Seq(S) /\ Once(Tail(s)) /\ Head(s) \in S
         /\ ~Holds(Tail(s), Head(s))
         /\ \A j : Holds(s, j) <=> j = Head(s) \/ Holds(Tail(s), j)
<1> DEFINE n == Len(s)
           t == Tail(s)
<1>1. /\ n \in Nat /\ 1 \in 1..n /\ t \in Seq(S) /\ Len(t) = n - 1
      /\ Head(s) = s[1] /\ s[1] \in S /\ \A i \in 1..(n - 1) : t[i] = s[i + 1]
  OBVIOUS
<1> HIDE DEF t, n
<1>2. Once(t)
  <2> SUFFICES ASSUME NEW a \in 1..(n - 1), NEW b \in 1..(n - 1), t[a] = t[b] PROVE a = b
    BY <1>1 DEF Once
  <2>1. s[a + 1] = s[b + 1] /\ a + 1 \in 1..n /\ b + 1 \in 1..n
    BY <1>1
  <2> QED
    BY <1>1, <2>1 DEF Once, n
<1>3. ~Holds(t, s[1])
  <2> SUFFICES ASSUME NEW a \in 1..(n - 1), t[a] = s[1] PROVE FALSE
    BY <1>1 DEF Holds
  <2>1. s[a + 1] = s[1] /\ a + 1 \in 1..n /\ a + 1 # 1
    BY <1>1
  <2> QED
    BY <1>1, <2>1 DEF Once, n
<1>4. ASSUME NEW j PROVE Holds(s, j) <=> j = s[1] \/ Holds(t, j)
  <2>1. ASSUME NEW a \in 1..n, s[a] = j PROVE j = s[1] \/ Holds(t, j)
    <3>1. CASE a = 1
      BY <2>1, <3>1
    <3>2. CASE a # 1
      <4>1. a - 1 \in 1..(n - 1) /\ t[a - 1] = s[a - 1 + 1] /\ a - 1 + 1 = a
        BY <1>1, <3>2
      <4> QED
        BY <1>1, <2>1, <4>1 DEF Holds
    <3> QED
      BY <3>1, <3>2
  <2>2. ASSUME NEW a \in 1..(n - 1), t[a] = j PROVE Holds(s, j)
    <3>1. a + 1 \in 1..n /\ s[a + 1] = j
      BY <1>1, <2>2
    <3> QED
      BY <3>1 DEF Holds, n
  <2>3. j = s[1] => Holds(s, j)
    BY <1>1 DEF Holds, n
  <2> QED
    BY <1>1, <2>1, <2>2, <2>3 DEF Holds, n
<1> QED
  BY <1>1, <1>2, <1>3, <1>4 DEF t

LEMMA HoldsAppend ==
  ASSUME NEW S, NEW s \in Seq(S), NEW e \in S, Once(s), ~Holds(s, e)
  PROVE  /\ Append(s, e) \in Seq(S) /\ Once(Append(s, e))
         /\ \A j : Holds(Append(s, e), j) <=> Holds(s, j) \/ j = e
<1> DEFINE n == Len(s)
           t == Append(s, e)
<1>1. /\ n \in Nat /\ t \in Seq(S) /\ Len(t) = n + 1
      /\ t[n + 1] = e /\ \A i \in 1..n : t[i] = s[i]
  OBVIOUS
<1> HIDE DEF t
<1>2. \A i \in 1..n : t[i] # e
  BY <1>1 DEF Holds
<1> HIDE DEF n
<1>3. Once(t)
  <2> SUFFICES ASSUME NEW a \in 1..(n + 1), NEW b \in 1..(n + 1), t[a] = t[b] PROVE a = b
    BY <1>1 DEF Once
  <2>1. CASE a \in 1..n /\ b \in 1..n
    BY <1>1, <2>1 DEF Once, n
  <2>2. CASE a = n + 1 \/ b = n + 1
    BY <1>1, <1>2, <2>2
  <2> QED
    BY <1>1, <2>1, <2>2
<1>4. ASSUME NEW j PROVE Holds(t, j) <=> Holds(s, j) \/ j = e
  <2>1. Holds(s, j) <=> \E a \in 1..n : s[a] = j
    BY DEF Holds, n
  <2>2. Holds(t, j) <=> \E a \in 1..(n + 1) : t[a] = j
    BY <1>1 DEF Holds
  <2>3. 1..(n + 1) = 1..n \cup {n + 1}
    BY <1>1
  <2> QED
    BY <1>1, <2>1, <2>2, <2>3
<1> QED
  BY <1>1, <1>3, <1>4 DEF t

LEMMA PlacesTyped ==
  ASSUME IInv
  PROVE  Pending \in Seq(Jobs) /\ Due \in Seq(Jobs) /\ fired \in Seq(Jobs) /\ Wants \subseteq Accepted
<1>1. hand \in Jobs \/ wpc \notin {"run", "reply"}
  BY DEF IInv, TypeOK
<1>2. Held \in Seq(Jobs) /\ Owed \in Seq(Jobs)
  BY <1>1 DEF Held, Owed
<1>3. queue \in Seq(Jobs) /\ replies \in Seq(Jobs) /\ fired \in Seq(Jobs)
  BY DEF IInv, TypeOK
<1>4. Wants \subseteq Accepted
  BY DEF Wants, Accepted, HasCallback, Submitted
<1> QED
  BY <1>2, <1>3, <1>4, ConcatProperties DEF Pending, Due

\* What a step of the service does to the places, whatever thread takes it.
LEMMA PlacesStep ==
  ASSUME IInv, AtMostOnce, NoneLost, [Service!Next]_(Service!vars)
  PROVE  /\ AtMostOnce' /\ NoneLost'
         /\ \A j \in Jobs :
              /\ j \notin Accepted' \/ Holds(Pending', j) => j \notin Accepted \/ Holds(Pending, j)
              /\ j \in Accepted' => j \in Accepted \/ Holds(Pending', j)
<1> DEFINE P == Pending
           D == Due
           A == Accepted
           W == Wants
<1>1. P \in Seq(Jobs) /\ D \in Seq(Jobs) /\ fired \in Seq(Jobs) /\ W \subseteq A
  BY PlacesTyped
<1>2. A \subseteq Jobs
  BY DEF Accepted
<1> USE <1>1, <1>2 DEF AtMostOnce, NoneLost
<1> HIDE DEF P, D, A, W
<1>3. ASSUME NEW j \in Jobs, Service!Accept(j)
      PROVE  /\ AtMostOnce' /\ NoneLost'
             /\ \A i \in Jobs :
                  /\ i \notin Accepted' \/ Holds(Pending', i) => i \notin Accepted \/ Holds(Pending, i)
                  /\ i \in Accepted' => i \in Accepted \/ Holds(Pending', i)
  <2>1. /\ j \notin A /\ A' = A \cup {j} /\ W' \subseteq W \cup {j}
        /\ P' = Append(P, j) /\ D' = D /\ fired' = fired
    BY <1>3 DEF Service!Accept, P, D, A, W
  <2>2. ~Holds(P, j) /\ ~Holds(D, j) /\ ~Holds(fired, j)
    BY <2>1 DEF P, D, A
  <2>3. Once(P') /\ \A i : Holds(P', i) <=> Holds(P, i) \/ i = j
    BY <2>1, <2>2, HoldsAppend DEF P
  <2> QED
    BY <2>1, <2>2, <2>3 DEF P, D, A, W
<1>4. CASE Service!Perform
  <2> DEFINE h == Head(P)
  <2>1. /\ P # <<>> /\ P' = Tail(P) /\ D' = (IF h \in W THEN Append(D, h) ELSE D)
        /\ A' = A /\ W' = W /\ fired' = fired
    BY <1>4 DEF Service!Perform, P, D, A, W
  <2>2. /\ Once(P') /\ h \in Jobs /\ ~Holds(P', h)
        /\ \A i : Holds(P, i) <=> i = h \/ Holds(P', i)
    BY <2>1, HoldsTail DEF P
  <2> HIDE DEF h
  <2>3. ~Holds(D, h) /\ ~Holds(fired, h) /\ h \in A
    BY <2>2 DEF P, D, A
  <2>4. Once(D') /\ \A i : Holds(D', i) <=> Holds(D, i) \/ (i = h /\ h \in W)
    <3>1. CASE h \in W
      BY <2>1, <2>2, <2>3, <3>1, HoldsAppend DEF D
    <3>2. CASE h \notin W
      BY <2>1, <3>2 DEF D
    <3> QED
      BY <3>1, <3>2
  <2> QED
    BY <2>1, <2>2, <2>3, <2>4 DEF P, D, A, W
<1>5. CASE Service!Answer
  <2> DEFINE h == Head(D)
  <2>1. /\ D # <<>> /\ D' = Tail(D) /\ fired' = Append(fired, h)
        /\ A' = A /\ W' = W /\ P' = P
    BY <1>5 DEF Service!Answer, P, D, A, W
  <2>2. /\ Once(D') /\ h \in Jobs /\ ~Holds(D', h)
        /\ \A i : Holds(D, i) <=> i = h \/ Holds(D', i)
    BY <2>1, HoldsTail DEF D
  <2> HIDE DEF h
  <2>3. ~Holds(P, h) /\ ~Holds(fired, h) /\ h \in A
    BY <2>2 DEF P, D, A
  <2>4. Once(fired') /\ \A i : Holds(fired', i) <=> Holds(fired, i) \/ i = h
    BY <2>1, <2>2, <2>3, HoldsAppend
  <2> QED
    BY <2>1, <2>2, <2>3, <2>4 DEF P, D, A, W
<1>6. CASE UNCHANGED <<Accepted, Wants, Pending, Due, fired>>
  BY <1>6
<1>7. CASE Service!Close \/ UNCHANGED Service!vars
  BY <1>6, <1>7 DEF Service!Close, Service!vars
<1> QED
  BY <1>3, <1>4, <1>5, <1>7 DEF Service!Next

\* Only Execute gives a job a result, and only Execute takes a job off the pending ones.
LEMMA ResultStep ==
  ASSUME IInv, [Next]_vars
  PROVE  \/ /\ result' = result
            /\ Pending' = Pending \/ \E j \in Jobs : Pending' = Append(Pending, j)
         \/ /\ hand \in Jobs /\ Pending = <<hand>> \o queue /\ Pending' = queue
            /\ result'[hand] # "none" /\ \A j \in Jobs \ {hand} : result'[j] = result[j]
            /\ Accepted' = Accepted
<1> USE DEF IInv, TypeOK
<1>1. CASE Execute
  <2>1. /\ wpc = "run" /\ wpc' = "reply" /\ hand' = hand /\ hand \in Jobs
        /\ queue' = queue /\ kind' = kind
    BY <1>1 DEF Execute, jobVars
  <2>2. result'[hand] # "none" /\ \A j \in Jobs \ {hand} : result'[j] = result[j]
    BY <1>1, <2>1 DEF Execute
  <2>3. Pending' = <<>> \o queue /\ Pending = <<hand>> \o queue
    BY <2>1 DEF Pending, Held
  <2>4. Accepted' = Accepted
    BY <2>1 DEF Accepted, Submitted
  <2> QED
    BY <2>1, <2>2, <2>3, <2>4, ConcatEmptySeq
<1>2. ASSUME NEW c \in Clients, NEW j \in Jobs, NEW k \in Kind, Submit(c, j, k)
      PROVE  result' = result /\ Pending' = Append(Pending, j)
  <2>1. Held \in Seq(Jobs) /\ Held' = Held
    BY <1>2 DEF Submit, Held, workerVars
  <2>2. Held \o Append(queue, j) = Append(Held \o queue, j)
    BY <2>1, ConcatAppend
  <2> QED
    BY <1>2, <2>1, <2>2 DEF Submit, Pending, workerVars
<1>3. CASE Pop
  <2>1. CASE queue # <<>>
    <3>1. Pending = <<>> \o queue /\ Pending' = <<Head(queue)>> \o Tail(queue)
      BY <1>3, <2>1 DEF Pop, Pending, Held
    <3> QED
      BY <1>3, <2>1, <3>1, HeadConcatTail, ConcatEmptySeq DEF Pop
  <2>2. CASE queue = <<>>
    BY <1>3, <2>2 DEF Pop, Pending, Held
  <2> QED
    BY <2>1, <2>2
<1>4. CASE TestRunning \/ Reply \/ SpuriousWakeup
  BY <1>4 DEF TestRunning, Reply, SpuriousWakeup, Pending, Held, jobVars
<1>5. CASE StartSucceeds
  BY <1>5 DEF StartSucceeds, Pending, Held, jobVars, WorkerOK
<1>6. CASE \/ StartFails \/ ForceQuery \/ StartWorld \/ RequestStop \/ StopBegins \/ Stop
           \/ (\E c \in Clients : NotifyOne(c)) \/ Pump \/ UNCHANGED vars
  <2>1. UNCHANGED <<queue, hand, result>> /\ (wpc' = wpc \/ wpc' = Notified)
    BY <1>6 DEF StartFails, ForceQuery, StartWorld, RequestStop, StopBegins, Stop,
       SetShutdown, NotifyAll, Join, CloseStatements, CloseConnection, NotifyOne, Pump,
       PumpBegins, PumpOne, PumpEnds, vars, jobVars, workerVars
  <2> QED
    BY <2>1 DEF Pending, Held, Notified
<1> QED
  BY <1>1, <1>2, <1>3, <1>4, <1>5, <1>6 DEF Next, Main, Client, Worker

LEMMA UnperformedStep ==
  ASSUME OInv, [Next]_vars PROVE Unperformed'
<1> DEFINE P == Pending
           A == Accepted
<1>1. \A j \in Jobs :
        /\ j \notin A' \/ Holds(P', j) => j \notin A \/ Holds(P, j)
        /\ j \in A' => j \in A \/ Holds(P', j)
  BY StepRefines, PlacesStep DEF OInv
<1>2. P \in Seq(Jobs) /\ Once(P) /\ \A j \in Jobs : Holds(P, j) => j \in A
  BY PlacesTyped DEF OInv, AtMostOnce
<1>3. \A j \in Jobs : j \notin A \/ Holds(P, j) <=> result[j] = "none"
  BY DEF OInv, Unperformed
<1>4. CASE result' = result /\ (P' = P \/ \E j \in Jobs : P' = Append(P, j))
  <2> HIDE DEF P, A
  <2>1. ASSUME NEW j \in Jobs, Holds(P, j) PROVE Holds(P', j)
    <3>1. ASSUME NEW e \in Jobs PROVE Holds(Append(P, e), j)
      <4>1. PICK a \in 1..Len(P) : P[a] = j
        BY <2>1 DEF Holds
      <4>2. a \in 1..Len(Append(P, e)) /\ Append(P, e)[a] = P[a]
        BY <1>2, <4>1
      <4> QED
        BY <4>1, <4>2 DEF Holds
    <3> QED
      BY <1>4, <2>1, <3>1
  <2>2. \A j \in Jobs : j \notin A' \/ Holds(P', j) <=> j \notin A \/ Holds(P, j)
    BY <1>1, <2>1
  <2>3. \A j \in Jobs : j \notin A' \/ Holds(P', j) <=> result'[j] = "none"
    BY <1>3, <1>4, <2>2
  <2> QED
    BY <2>3 DEF P, A, Unperformed
<1>5. CASE /\ hand \in Jobs /\ P = <<hand>> \o queue /\ P' = queue
           /\ result'[hand] # "none" /\ \A j \in Jobs \ {hand} : result'[j] = result[j]
           /\ A' = A
  <2>1. queue \in Seq(Jobs) /\ <<hand>> \in Seq(Jobs) /\ <<hand>> # <<>>
        /\ Head(<<hand>>) = hand /\ Tail(<<hand>>) = <<>>
    BY <1>5 DEF OInv, IInv, TypeOK
  <2> HIDE DEF P, A
  <2>2. P # <<>> /\ Head(P) = hand /\ Tail(P) = <<>> \o queue
    BY <1>5, <2>1, TailOfConcat
  <2>3. Tail(P) = P'
    BY <1>5, <2>1, <2>2, ConcatEmptySeq
  <2>4. ~Holds(P', hand) /\ \A j : Holds(P, j) <=> j = hand \/ Holds(P', j)
    BY <1>2, <2>2, <2>3, HoldsTail
  <2>5. hand \in A
    BY <1>2, <1>5, <2>4
  <2>6. ASSUME NEW j \in Jobs PROVE j \notin A' \/ Holds(P', j) <=> result'[j] = "none"
    <3>1. CASE j = hand
      BY <1>5, <2>4, <2>5, <3>1
    <3>2. CASE j # hand
      BY <1>3, <1>5, <2>4, <3>2
    <3> QED
      BY <3>1, <3>2
  <2> QED
    BY <2>6 DEF P, A, Unperformed
<1> QED
  BY <1>4, <1>5, ResultStep DEF OInv

LEMMA PlacesInvariance == Spec => []OInv
<1>1. Init => OInv
  <2> SUFFICES ASSUME Init PROVE OInv
    OBVIOUS
  <2>1. /\ Pending = <<>> /\ Due = <<>> /\ fired = <<>>
        /\ Accepted = {} /\ Wants = {} /\ \A j \in Jobs : result[j] = "none"
    BY DEF Init, Pending, Held, Due, Owed, Accepted, Wants, Submitted, HasCallback
  <2>2. Once(<<>>) /\ \A j : ~Holds(<<>>, j)
    BY DEF Once, Holds
  <2>3. AtMostOnce /\ NoneLost /\ Unperformed
    BY <2>1, <2>2 DEF AtMostOnce, NoneLost, Unperformed
  <2> QED
    BY <2>3, Initially DEF OInv
<1>2. OInv /\ [Next]_vars => OInv'
  <2> SUFFICES ASSUME OInv, [Next]_vars PROVE OInv'
    OBVIOUS
  <2>1. IInv'
    BY TypeStep, JobsStep, WorkerStep, NoJobStep, WakeupStep DEF OInv, IInv
  <2>2. AtMostOnce' /\ NoneLost'
    BY StepRefines, PlacesStep DEF OInv
  <2> QED
    BY <2>1, <2>2, UnperformedStep DEF OInv
<1> QED
  BY <1>1, <1>2, PTL DEF Spec

\* No job is twice in the request queue, in the callback queue or among the callbacks
\* made, and none is in two of these places or has not been submitted: whatever the
\* threads interleave, a job is performed at most once and answered at most once.
THEOREM EachJobOnce == Spec => []AtMostOnce
<1>1. OInv => AtMostOnce
  BY DEF OInv
<1> QED
  BY PlacesInvariance, <1>1, PTL

\* When the worker is done with a job whose bHasCallback is set.
AnswerIsKept ==
  \A j \in Jobs : HasCallback(j) /\ result[j] # "none" /\ hand # j =>
    Holds(replies, j) \/ Holds(fired, j)

\* The answer waits for the pump or has been given, also while the pool stops: what
\* CallbackIsDelivered asks of every job with a callback holds of those with the flag.
\* This is what is safety in PerformedIsAnswered; fairness adds that the pump goes on.
THEOREM FlaggedAnswersAreKept == Spec => []AnswerIsKept
<1>1. OInv => AnswerIsKept
  <2> SUFFICES ASSUME OInv, NEW j \in Jobs, HasCallback(j), result[j] # "none", hand # j
               PROVE  Holds(replies, j) \/ Holds(fired, j)
    BY DEF AnswerIsKept
  <2>1. j \in Wants
    BY DEF Wants
  <2>2. ~Holds(Pending, j)
    BY DEF OInv, Unperformed
  <2>3. Holds(Due, j) \/ Holds(fired, j)
    BY <2>1, <2>2 DEF OInv, NoneLost
  <2>4. Holds(Due, j) => Holds(replies, j)
    <3>1. replies \in Seq(Jobs) /\ (wpc = "reply" => hand \in Jobs)
      BY DEF OInv, IInv, TypeOK
    <3>2. CASE Owed = <<>>
      BY <3>1, <3>2, ConcatEmptySeq DEF Due
    <3>3. CASE wpc = "reply" /\ Owed = <<hand>>
      <4>1. Due = Append(replies, hand)
        BY <3>1, <3>3, AppendIsConcat DEF Due
      <4>2. \A i \in 1..Len(Due) : (i \in 1..Len(replies) /\ Due[i] = replies[i]) \/ Due[i] = hand
        BY <3>1, <3>3, <4>1, AppendElements
      <4> QED
        BY <4>2 DEF Holds
    <3> QED
      BY <3>2, <3>3 DEF Owed
  <2> QED
    BY <2>3, <2>4
<1> QED
  BY PlacesInvariance, <1>1, PTL

\* Until the worker has performed a job that was submitted.
JobIsKept ==
  \A j \in Jobs : Submitted(j) /\ result[j] = "none" =>
    Holds(queue, j) \/ (wpc = "run" /\ hand = j)

\* The job is in the queue or in the worker's hand, before, while and after the pool
\* stops.  With NoLostWakeup this is what is safety in SubmittedIsPerformed; fairness
\* adds that the worker goes on.
THEOREM SubmittedJobsAreKept == Spec => []JobIsKept
<1>1. OInv => JobIsKept
  <2> SUFFICES ASSUME OInv, NEW j \in Jobs, Submitted(j), result[j] = "none"
               PROVE  Holds(queue, j) \/ (wpc = "run" /\ hand = j)
    BY DEF JobIsKept
  <2>1. Holds(Pending, j)
    BY DEF OInv, Unperformed, Accepted
  <2>2. queue \in Seq(Jobs) /\ (wpc = "run" => hand \in Jobs)
    BY DEF OInv, IInv, TypeOK
  <2>3. CASE wpc = "run"
    <3>1. /\ Pending = <<hand>> \o queue /\ <<hand>> \in Seq(Jobs) /\ <<hand>> # <<>>
          /\ Head(<<hand>>) = hand /\ Tail(<<hand>>) = <<>>
      BY <2>2, <2>3 DEF Pending, Held
    <3>2. Pending # <<>> /\ Head(Pending) = hand /\ Tail(Pending) = <<>> \o queue
      BY <2>2, <3>1, TailOfConcat
    <3>3. Tail(Pending) = queue
      BY <2>2, <3>2, ConcatEmptySeq
    <3>4. Pending \in Seq(Jobs) /\ Once(Pending)
      BY PlacesTyped DEF OInv, AtMostOnce
    <3> QED
      BY <2>1, <2>3, <3>2, <3>3, <3>4, HoldsTail
  <2>4. CASE wpc # "run"
    BY <2>1, <2>2, <2>4, ConcatEmptySeq DEF Pending, Held
  <2> QED
    BY <2>3, <2>4
<1> QED
  BY PlacesInvariance, <1>1, PTL

----------------------------------------------------------------------------
\* How far Stop has come, and what it has left behind.
StopOK ==
  /\ mpc \in {"shut", "notify", "join", "close", "disconnect", "stopped"} => ~running
  /\ mpc \in {"notify", "join", "close", "disconnect", "stopped"} => shutdown
  /\ mpc \in {"join", "close", "disconnect", "stopped"} => wpc # "asleep"

LEMMA StopStep ==
  ASSUME IInv, StopOK, [Next]_vars PROVE StopOK'
<1> USE DEF StopOK
<1>1. CASE Main
  <2>1. CASE StartFails \/ StartSucceeds \/ ForceQuery \/ StartWorld \/ RequestStop
    BY <2>1 DEF StartFails, StartSucceeds, ForceQuery, StartWorld, RequestStop,
       workerVars
  <2>2. CASE StopBegins \/ SetShutdown \/ NotifyAll
    BY <2>2 DEF StopBegins, SetShutdown, NotifyAll, Notified, workerVars
  <2>3. CASE Join \/ CloseStatements \/ CloseConnection
    BY <2>3 DEF Join, CloseStatements, CloseConnection, workerVars
  <2> QED
    BY <1>1, <2>1, <2>2, <2>3 DEF Main, Stop
<1>2. CASE Client
  <2>1. UNCHANGED <<mpc, running, shutdown>> /\ (wpc' = wpc \/ wpc' = Notified)
    BY <1>2 DEF Client, Submit, NotifyOne, Pump, PumpBegins, PumpOne, PumpEnds,
       workerVars
  <2> QED
    BY <2>1 DEF Notified
<1>3. CASE Worker \/ SpuriousWakeup
  BY <1>3 DEF Worker, TestRunning, Pop, Execute, Reply, SpuriousWakeup
<1>4. CASE UNCHANGED vars
  BY <1>4 DEF vars, workerVars
<1> QED
  BY <1>1, <1>2, <1>3, <1>4 DEF Next

\* What Join waits for.
JoinMeetsAwake == mpc = "join" => wpc # "asleep" /\ shutdown /\ ~running

\* While Stop waits in join the worker is never asleep in pop, whoever notified it or
\* not, and it finds m_running cleared and shutdown set: notify_all comes after the
\* flag, and the worker tests the flag under the mutex before it waits again.  This is
\* what is safety in StopReturns; fairness adds that the worker goes on.
THEOREM JoinIsNotStuck == Spec => []JoinMeetsAwake
<1>1. Init => StopOK
  BY DEF Init, StopOK
<1>2. StopOK => JoinMeetsAwake
  BY DEF StopOK, JoinMeetsAwake
<1>3. IInv /\ StopOK /\ [Next]_vars => StopOK'
  BY StopStep
<1> QED
  BY Invariance, <1>1, <1>2, <1>3, PTL DEF Spec
=============================================================================
