--------------------------- MODULE DatabasePool ---------------------------
(***************************************************************************)
(* One DatabasePool from InitDB to ShutdownDB: the request queue with its  *)
(* condition variable, the worker thread, the callback queue that the      *)
(* world thread pumps, and the connection with its prepared statements.    *)
(*                                                                         *)
(* Threads: main starts the pool, runs the ForceQuery of LootManager and   *)
(* may stop the pool; the clients submit jobs, and one of them, World,     *)
(* pumps the callbacks; the worker performs the jobs.  A critical section  *)
(* of SafeQueue is one step.  What a thread does outside the mutex is a    *)
(* step of its own: notify_one after a push, notify_all after stop, the    *)
(* test of m_running, the statement between the pop and the callback push. *)
(*                                                                         *)
(* No file of src/ calls ShutdownDB or RequestStop, and only main calls    *)
(* InitDB; the model lets main call the first two at any time after the    *)
(* world thread started.  The three pools of DatabaseManager share nothing *)
(* but the threads that use them, so one pool is modelled.                 *)
(***************************************************************************)
EXTENDS Naturals, Sequences

CONSTANTS Jobs,         \* the jobs that may be submitted, each once (bound)
          Clients,      \* the threads that submit
          World,        \* the client that runs ProcessCallbacks
          NoJob         \* no job in the worker's hand

ASSUME ThreadAssumption == World \in Clients /\ NoJob \notin Jobs

\* What is submitted.  "create": CreateCharacter, no callback.  "inventory":
\* the two Retrieve functions, which set a callback and leave bHasCallback at
\* its default.  "flagged": a job with a callback and bHasCallback, which
\* GetCharacterPool().Submit accepts.
Kind == {"create", "inventory", "flagged"}

VARIABLES mpc,          \* where main is
          conn,         \* m_conn: "null", "raw" (mysql_init only) or "open"
          stmts,        \* m_stmts: "none" (empty), "unprepared" or "prepared",
                        \* the last two by its entry for the "flagged" jobs
          running,      \* m_running
          shutdown,     \* DB_Request_Queue.shutdown
          queue,        \* DB_Request_Queue.q
          replies,      \* DB_Callback_Queue.q
          wpc,          \* where the worker is
          hand,         \* the worker's job
          cpc,          \* where each client is
          kind,         \* what was submitted as each job, or "none"
          result,       \* job.result: "none", "empty" or "rows"
          fired         \* the callbacks called, in order

poolVars   == <<conn, stmts>>
workerVars == <<wpc, hand, result>>
jobVars    == <<queue, replies, kind, fired>>
vars == <<mpc, poolVars, running, shutdown, jobVars, workerVars, cpc>>

Init ==
  /\ mpc = "start"
  /\ conn = "null" /\ stmts = "none"
  /\ running = TRUE /\ shutdown = FALSE
  /\ queue = <<>> /\ replies = <<>> /\ fired = <<>>
  /\ wpc = "none" /\ hand = NoJob
  /\ cpc = [c \in Clients |-> "idle"]
  /\ kind = [j \in Jobs |-> "none"]
  /\ result = [j \in Jobs |-> "none"]

Submitted(j) == kind[j] # "none"

\* job.bHasCallback, and whether job.callback was set.
HasCallback(j) == kind[j] = "flagged"
CarriesCallback(j) == kind[j] \in {"inventory", "flagged"}

\* cv.notify_one and cv.notify_all: the worker is the only thread that waits.
Notified == IF wpc = "asleep" THEN "pop" ELSE wpc

----------------------------------------------------------------------------
(* Main: Start, LootManager::Initialize, Stop.                             *)

\* mysql_init or mysql_real_connect fails and Start returns early.
StartFails ==
  /\ mpc = "start" /\ mpc' = "force"
  /\ conn' \in {"null", "raw"}
  /\ UNCHANGED <<stmts, running, shutdown, jobVars, workerVars, cpc>>

\* Connected.  m_stmts is resized, a statement may fail to prepare, that of the
\* inventory jobs is in no list.  Run starts the worker.
StartSucceeds ==
  /\ mpc = "start" /\ mpc' = "force"
  /\ conn' = "open" /\ stmts' \in {"unprepared", "prepared"}
  /\ wpc' = "test"
  /\ UNCHANGED <<running, shutdown, jobVars, hand, result, cpc>>

\* main uses the connection itself, or finds no connection or no statement.
\* A half-open connection has no m_stmts: the element access of ForceQuery
\* reads through the null data pointer of an empty vector.
ForceQuery ==
  /\ mpc = "force"
  /\ mpc' \in IF conn = "null" THEN {"serve"}
              ELSE IF stmts = "none" THEN {"crashed"} ELSE {"querying", "serve"}
  /\ UNCHANGED <<poolVars, running, shutdown, jobVars, workerVars, cpc>>

\* The pool is not the one LootManager queries, or its query is over.
StartWorld ==
  /\ mpc \in {"force", "querying"} /\ mpc' = "serve"
  /\ UNCHANGED <<poolVars, running, shutdown, jobVars, workerVars, cpc>>

RequestStop ==
  /\ mpc = "serve" /\ running /\ running' = FALSE
  /\ UNCHANGED <<mpc, poolVars, shutdown, jobVars, workerVars, cpc>>

\* Stop, statement by statement.
StopBegins ==
  /\ mpc = "serve" /\ mpc' = "shut"
  /\ running' = FALSE
  /\ UNCHANGED <<poolVars, shutdown, jobVars, workerVars, cpc>>

SetShutdown ==
  /\ mpc = "shut" /\ mpc' = "notify"
  /\ shutdown' = TRUE
  /\ UNCHANGED <<poolVars, running, jobVars, workerVars, cpc>>

\* Fault: stop() does not notify.
NotifyAllMissing ==
  /\ mpc = "notify" /\ mpc' = "join"
  /\ UNCHANGED <<poolVars, running, shutdown, jobVars, workerVars, cpc>>

NotifyAll ==
  /\ mpc = "notify" /\ mpc' = "join"
  /\ wpc' = Notified
  /\ UNCHANGED <<poolVars, running, shutdown, jobVars, hand, result, cpc>>

\* Fault: Stop does not join the worker.
JoinNot ==
  /\ mpc = "join" /\ mpc' = "close"
  /\ UNCHANGED <<poolVars, running, shutdown, jobVars, workerVars, cpc>>

Join ==
  /\ mpc = "join" /\ wpc \in {"none", "exited"}
  /\ mpc' = "close"
  /\ UNCHANGED <<poolVars, running, shutdown, jobVars, workerVars, cpc>>

CloseStatements ==
  /\ mpc = "close" /\ mpc' = "disconnect"
  /\ stmts' = "none"
  /\ UNCHANGED <<conn, running, shutdown, jobVars, workerVars, cpc>>

CloseConnection ==
  /\ mpc = "disconnect" /\ mpc' = "stopped"
  /\ conn' = "null"
  /\ UNCHANGED <<stmts, running, shutdown, jobVars, workerVars, cpc>>

Stop == SetShutdown \/ NotifyAll \/ Join \/ CloseStatements \/ CloseConnection

----------------------------------------------------------------------------
(* The clients.                                                            *)

\* Fault: the world thread is started before LootManager is initialised.
WorldRunningEarly == mpc \notin {"start", "crashed"}

\* The threads that submit and pump are started after LootManager is done.
WorldRunning == mpc \notin {"start", "force", "querying", "crashed"}

\* Fault: push does not notify.
SubmitSilently(c, j, k) ==
  /\ WorldRunning /\ cpc[c] = "idle" /\ ~Submitted(j)
  /\ kind' = [kind EXCEPT ![j] = k]
  /\ queue' = Append(queue, j)
  /\ UNCHANGED <<mpc, poolVars, running, shutdown, replies, fired, workerVars,
                 cpc>>

\* push: the job is in the queue and the lock released, cv not yet notified.
Submit(c, j, k) ==
  /\ WorldRunning /\ cpc[c] = "idle" /\ ~Submitted(j)
  /\ cpc' = [cpc EXCEPT ![c] = "notify"]
  /\ kind' = [kind EXCEPT ![j] = k]
  /\ queue' = Append(queue, j)
  /\ UNCHANGED <<mpc, poolVars, running, shutdown, replies, fired, workerVars>>

NotifyOne(c) ==
  /\ cpc[c] = "notify"
  /\ cpc' = [cpc EXCEPT ![c] = "idle"]
  /\ wpc' = Notified
  /\ UNCHANGED <<mpc, poolVars, running, shutdown, jobVars, hand, result>>

\* PumpCallbacks: one try_pop per step until it finds the queue empty.
PumpBegins ==
  /\ WorldRunning /\ cpc[World] = "idle"
  /\ cpc' = [cpc EXCEPT ![World] = "pump"]
  /\ UNCHANGED <<mpc, poolVars, running, shutdown, jobVars, workerVars>>

PumpOne ==
  /\ cpc[World] = "pump" /\ replies # <<>>
  /\ replies' = Tail(replies)
  /\ fired' = IF HasCallback(Head(replies)) THEN Append(fired, Head(replies))
              ELSE fired
  /\ UNCHANGED <<mpc, poolVars, running, shutdown, queue, kind, workerVars, cpc>>

PumpEnds ==
  /\ cpc[World] = "pump" /\ replies = <<>>
  /\ cpc' = [cpc EXCEPT ![World] = "idle"]
  /\ UNCHANGED <<mpc, poolVars, running, shutdown, jobVars, workerVars>>

Pump == PumpBegins \/ PumpOne \/ PumpEnds

----------------------------------------------------------------------------
(* The worker.                                                             *)

TestRunning ==
  /\ wpc = "test"
  /\ wpc' = IF running THEN "pop" ELSE "exited"
  /\ UNCHANGED <<mpc, poolVars, running, shutdown, jobVars, hand, result, cpc>>

\* Fault: the predicate of wait does not test shutdown.
PopIgnoresShutdown ==
  /\ wpc = "pop"
  /\ \/ /\ queue # <<>>
        /\ hand' = Head(queue) /\ queue' = Tail(queue)
        /\ wpc' = "run"
     \/ /\ queue = <<>> /\ wpc' = "asleep"
        /\ UNCHANGED <<hand, queue>>
  /\ UNCHANGED <<mpc, poolVars, running, shutdown, replies, kind, fired, result,
                 cpc>>

\* Fault: pop takes the job that was pushed last.
PopNewest ==
  /\ wpc = "pop"
  /\ \/ /\ queue # <<>>
        /\ hand' = queue[Len(queue)]
        /\ queue' = SubSeq(queue, 1, Len(queue) - 1)
        /\ wpc' = "run"
     \/ /\ queue = <<>>
        /\ wpc' = IF shutdown THEN "exited" ELSE "asleep"
        /\ UNCHANGED <<hand, queue>>
  /\ UNCHANGED <<mpc, poolVars, running, shutdown, replies, kind, fired, result,
                 cpc>>

\* pop, from acquiring the mutex to releasing it: by returning, or in wait.
Pop ==
  /\ wpc = "pop"
  /\ \/ /\ queue # <<>>
        /\ hand' = Head(queue) /\ queue' = Tail(queue)
        /\ wpc' = "run"
     \/ /\ queue = <<>>
        /\ wpc' = IF shutdown THEN "exited" ELSE "asleep"
        /\ UNCHANGED <<hand, queue>>
  /\ UNCHANGED <<mpc, poolVars, running, shutdown, replies, kind, fired, result,
                 cpc>>

\* A wakeup nobody asked for: wait tests its predicate again.
SpuriousWakeup ==
  /\ wpc = "asleep" /\ wpc' = "pop"
  /\ UNCHANGED <<mpc, poolVars, running, shutdown, jobVars, hand, result, cpc>>

\* Execute: an unprepared statement, an error and an INSERT yield no rows.
Execute ==
  /\ wpc = "run" /\ wpc' = "reply"
  /\ \E r \in IF kind[hand] = "flagged" /\ stmts = "prepared"
               THEN {"empty", "rows"} ELSE {"empty"} :
       result' = [result EXCEPT ![hand] = r]
  /\ UNCHANGED <<mpc, poolVars, running, shutdown, jobVars, hand, cpc>>

\* Fault: the job outlives its round of the loop.
ReplyKeepsHand ==
  /\ wpc = "reply" /\ wpc' = "test"
  /\ replies' = IF HasCallback(hand) THEN Append(replies, hand) ELSE replies
  /\ UNCHANGED <<mpc, poolVars, running, shutdown, queue, kind, fired, result,
                 hand, cpc>>

\* Fault: no callback once the pool was told to stop.
ReplyUnlessStopping ==
  /\ wpc = "reply" /\ wpc' = "test"
  /\ replies' = IF HasCallback(hand) /\ running THEN Append(replies, hand)
                ELSE replies
  /\ hand' = NoJob
  /\ UNCHANGED <<mpc, poolVars, running, shutdown, queue, kind, fired, result,
                 cpc>>

Reply ==
  /\ wpc = "reply" /\ wpc' = "test"
  /\ replies' = IF HasCallback(hand) THEN Append(replies, hand) ELSE replies
  /\ hand' = NoJob
  /\ UNCHANGED <<mpc, poolVars, running, shutdown, queue, kind, fired, result,
                 cpc>>

Worker == TestRunning \/ Pop \/ Execute \/ Reply

----------------------------------------------------------------------------
Main == \/ StartFails \/ StartSucceeds \/ ForceQuery \/ StartWorld
        \/ RequestStop \/ StopBegins \/ Stop

Client == \/ \E c \in Clients, j \in Jobs, k \in Kind : Submit(c, j, k)
          \/ \E c \in Clients : NotifyOne(c)
          \/ Pump

Next == Main \/ Client \/ Worker \/ SpuriousWakeup

\* Every thread that is not blocked runs, a query returns, and the world thread
\* keeps ticking.  Nothing makes anyone submit, stop the pool, or wake spuriously.
Fairness ==
  /\ WF_vars(Worker)
  /\ WF_vars(Stop)
  /\ \A c \in Clients : WF_vars(NotifyOne(c))
  /\ WF_vars(Pump)

Spec == Init /\ [][Next]_vars /\ Fairness
----------------------------------------------------------------------------
(* Safety.                                                                 *)

MainState   == {"start", "force", "querying", "crashed", "serve", "shut",
                "notify", "join", "close", "disconnect", "stopped"}
WorkerState == {"none", "test", "pop", "asleep", "run", "reply", "exited"}

\* Type invariant: the variables hold what the C++ fields can, and the worker has
\* a job in its hand exactly between the pop and the next test of m_running.
TypeOK ==
  /\ mpc \in MainState
  /\ conn \in {"null", "raw", "open"}
  /\ stmts \in {"none", "unprepared", "prepared"}
  /\ running \in BOOLEAN /\ shutdown \in BOOLEAN
  /\ queue \in Seq(Jobs) /\ replies \in Seq(Jobs) /\ fired \in Seq(Jobs)
  /\ wpc \in WorkerState
  /\ hand \in Jobs \cup {NoJob}
  /\ hand = NoJob <=> wpc \notin {"run", "reply"}
  /\ cpc \in [Clients -> {"idle", "notify", "pump"}]
  /\ kind \in [Jobs -> Kind \cup {"none"}]
  /\ result \in [Jobs -> {"none", "empty", "rows"}]

\* The worker runs a statement only while m_stmts and m_conn stand: Stop joins
\* it before it closes either (DatabasePool::Stop, Execute).
WorkerIsConnected ==
  wpc = "run" => conn = "open" /\ stmts # "none"

\* main and the worker never use the connection at the same time: the jobs come
\* after the ForceQuery of LootManager (main.cpp's order of initialisation).
OneUserOfConnection == ~(mpc = "querying" /\ wpc = "run")

\* No lost wakeup.  While the worker sleeps in pop although there is a job or the
\* shutdown flag is set, a thread that changed one of them has yet to notify it
\* (SafeQueue: the notifications are outside the mutex).
WakeupPending ==
  wpc = "asleep" /\ (queue # <<>> \/ shutdown) =>
    mpc = "notify" \/ \E c \in Clients : cpc[c] = "notify"

\* The documented use of a job's callback: when the worker is done with a job that
\* carries one, it has been called or waits for the world thread's pump.
CallbackIsDelivered ==
  \A j \in Jobs :
    CarriesCallback(j) /\ result[j] # "none" /\ hand # j =>
      \E s \in {replies, fired} : \E i \in 1..Len(s) : s[i] = j

----------------------------------------------------------------------------
(* Refinement and liveness.                                                *)

\* The job in the worker's hand is pending until its statement is done, and owed a
\* callback from then on.
Accepted == {j \in Jobs : Submitted(j)}
Wants    == {j \in Jobs : HasCallback(j)}
Held     == IF wpc = "run" THEN <<hand>> ELSE <<>>
Owed     == IF wpc = "reply" /\ HasCallback(hand) THEN <<hand>> ELSE <<>>
Pending  == Held \o queue
Due      == replies \o Owed
Open     == mpc \notin {"close", "disconnect", "stopped"}

Service == INSTANCE JobService WITH
  accepted <- Accepted, wants <- Wants, pending <- Pending, due <- Due,
  answered <- fired, open <- Open

\* Jobs are performed and answered at most once, in the order of Submit, and none
\* is performed once Stop has joined the worker (Submit, Run, PumpCallbacks, Stop).
RefinesService == Service!Spec

\* A submitted job is performed, unless the pool was told to stop or never
\* connected (Submit, SafeQueue::push and pop, the loop of Run).
SubmittedIsPerformed ==
  \A j \in Jobs : Submitted(j) ~> result[j] # "none" \/ ~running \/ wpc = "none"

\* A performed job whose bHasCallback is set gets its callback, also when the pool
\* is stopped in between (Run, PumpCallbacks).
PerformedIsAnswered ==
  \A j \in Jobs :
    result[j] # "none" /\ HasCallback(j) ~> \E i \in 1..Len(fired) : fired[i] = j

\* Stop returns: a worker that sleeps in pop is woken and leaves, and one that is
\* busy leaves after its job (Stop, SafeQueue::stop and pop, the loop of Run).
StopReturns == mpc = "shut" ~> mpc = "stopped"
=============================================================================
