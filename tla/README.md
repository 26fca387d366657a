# A verification of GQServer

TLA+ models of the game server in this repository, the TLC runs that check them
on small instances, and TLAPS proofs of their main properties for all values of
their constants. `PROJECT.json` maps every definition to the lines it models.

## The system

| Part (under `src/src/`) | State | Operations | Promise |
|---|---|---|---|
| `NetworkSocketMgr` | acceptor, next GUID | `DoAccept` | every accepted connection gets a fresh GUID and is listed |
| `World/WorldSession` | socket, buffers, player | read loop, `SendPacket`, `Disconnect`, destructor | reads until it is closed; closed once; freed when nothing refers to it |
| `World/WorldSessionMgr` | `m_sessions` under `m_mutex` | `AddSession`, `RemoveSessionByPlayerID`, `GetSessions`, lookups | the list is the set of live connections |
| `World/World` | packet queue, opcode handlers | `EnqueuePacket`, `Run`, `Update`, handlers, senders | every packet handled once, in order; one tick after another |
| `World/WorldGridManager`, `World/Player` | cells, cached neighbourhoods, visible sets | `CalculatePlayerGridCoordinates`, `CalculateVisiblePlayers` | a player sees exactly who stands in the nine cells around it |
| `World/SQL/DB` (`DatabasePool`, `SafeQueue`) | two queues, connection, statements, worker | `Start`, `Submit`, worker loop, `PumpCallbacks`, `ForceQuery`, `Stop` | jobs at most once and in order, callbacks on the world thread, a clean stop |
| `World/SQL/DatabaseManager` | three pools | `InitDB`, `ProcessCallbacks`, `ShutdownDB`, requests | requests become jobs of the right pool |
| `World/TimeManager` | timers | `Schedule`, `CancelTimer`, `ProcessTimers` | a timer stays listed until it has fired or is cancelled, and fires when due |
| chat, target and authentication handlers in `World/World` | target, salt, login state in the session | `Handle_CMSG_*`, `Send_SMSG_*` | what is said is heard near by; a client that knows its password gets in |
| `World/CombatManager` | swing timers in `Player` | `Update` | swings at the attack rate, in range and facing |
| `World/Packets` | read position | `<<`, `>>` | what was written is read back |
| `LootManager`, `Maps`, `Map`, `Creature`, `AI` | | | startup loading and stubs |

Threads. `main` initialises everything and waits for a key. The *network thread*
runs `io_context.run()`: one completion handler at a time. The *world thread*
runs `World::Run`: drain the packet queue, pump database callbacks, `Update`,
timers, sleep to the next 100 ms. Each database pool has one *worker thread*.

Interactions. The network thread hands packets to the world thread through a
lock-free queue; both threads change `m_sessions` under its mutex and both call
`WorldSession::Disconnect`, which takes no lock of its own. Sessions are owned by
`shared_ptr`s in the list, in captured handlers, in queued packets and in copies
of the list. The world thread submits database jobs and gets the answers back
through a second queue.

What is hard: `Disconnect` racing with itself, with `AddSession` and with the
destructor; packets and list copies that outlive their session; passes of a tick
that each see another session list; condition variables notified outside the
mutex; `Stop` racing with a worker that sleeps, works or is about to sleep;
half-failed starts; arithmetic on cell boundaries; lookups in a session list that
is newer than the sets they are compared with; writes that overlap on one
connection; timers that change the vector that is being gone through. `PROJECT.json` lists
each at its line, with the property that covers it or the reason why none does.

## Modules

| Module | Models |
|---|---|
| `SessionRegistry` | abstract: what the server may rely on about the session list |
| `SessionLifecycle` | a connection from accept to the drop of the last reference; both threads, the packet queue, the clients |
| `PlayerVisibility` | the tick: cells, visible sets, spawn, despawn and movement packets |
| `ChatRouting` | the chat handler: who is sent what somebody says or shouts |
| `Combat` | auto-attack: toggle, target, and `CombatManager::Update` in the middle of the tick |
| `JobService` | abstract: what a database pool promises to whoever submits jobs |
| `DatabasePool` | a pool: request queue with condition variable, worker, callback queue, start, `ForceQuery`, stop |
| `WorldPacket` | the operators `<<` and `>>` |
| `OutboundStream` | framing, the overlapping writes of `SendPacket`, and the client that reads them |
| `Login` | the two authentication handlers and a client that may be hasty or mistaken |
| `TimerQueue` | the vector of timers, with callbacks that change it under `ProcessTimers` |
| `*_proofs` | theorems about the module of that name; `PlayerActions_proofs` about `ChatRouting` and `Combat` |
| `MC*` and `.cfg` | instances for TLC |

    SessionRegistry <-- implemented by -- SessionLifecycle
          ^ INSTANCE
    PlayerVisibility <-- EXTENDS -- ChatRouting, Combat      (each implements it)
    WorldPacket      <-- EXTENDS -- OutboundStream, Login
    JobService      <-- implemented by -- DatabasePool
    TimerQueue

A definition named *Fault* in its comment is a plausible bug; `PROJECT.json`
pairs each with the definition it would replace and the property that then fails.

### SessionLifecycle

A session is named by its GUID. `Held(g)` spells out `shared_ptr` ownership: the
list, the world thread's copy, outstanding reads and writes, queued packets, and
what a thread has in hand; `Freed(g)` says the destructor has run. `Disconnect`
is three steps, `TestOpen` (`is_open`), `Close`, `RemoveSessionByPlayerID`, so
that the two threads interleave inside it; a handler of `io_context` is otherwise
one step up to the point where it touches what the other thread sees. Bytes and
hang-ups come from the environment. A packet handler is any effect a handler can
have on this state: send to any listed sessions or its own, or throw. The walks
that one `Update` makes over several copies of the list are one walk here;
PlayerVisibility has them apart.

`SessionLifecycle` implements `SessionRegistry`, liveness included (by TLC; the
safety part is proved). `PlayerVisibility` is built on `SessionRegistry`, so its
results hold for the sessions that `SessionLifecycle` produces.

### PlayerVisibility

One action per pass of the tick over its own copy of the list, one per packet,
since sessions join and leave between all of them. `known[v]` is what the client
of `v` has spawned and not despawned. Coordinates are integers, `Truncate`
rounds towards zero as `static_cast<int32_t>` does, and both axes use `GridSize`.
NaN and values beyond an int32, whose cast is undefined, are left out.

### ChatRouting

Extends the tick. A chat packet is `Handle_CMSG_CHAT_REQUEST` (parse, take the
speaker's `currentVisiblePlayers_`), then one `Send_SMSG_CHAT` per target, which
looks the target up in the live list and compares the distance. `speech` holds
the loop between its steps. A text is what the parser tells apart: its first
word, whether words follow, whether it is too long. Guild and tell send nothing.

### Combat

Extends the tick with `CombatManager::Update` between `CalculateVisiblePlayers`
and `SendPlayerUpdates`: `CombatUpdate` copies the list, and each player in it
is visited once, in list order, with its target looked up in the live list.
`IsFacing` compares squares where the code compares a cosine with that of 70
degrees. `sinceSwing` is history. Damage is a packet whose amount nobody keeps.

### DatabasePool

A critical section of `SafeQueue` is one step; the notification after it, the
test of `m_running` before it and the statement after it are others, and each
statement of `Stop` is one. The pump takes an answer and calls its callback in
one step: the answer is in a local variable of the world thread in between, and
what the others do to the queues commutes with the call. `Pop` leaves the worker `asleep` in `cv.wait`;
notifications and spurious wakeups send it back to test its predicate. Jobs are
of three kinds: without callback (`CreateCharacter`), with a callback whose flag
is not set (the inventory requests), with both. A start may fail before or after
`mysql_init`; `ForceQuery` after the second ends in `crashed`, since it indexes
an empty vector. Nothing in the repository calls `ShutdownDB`; the model lets
`main` do so at any time after the world thread has started.

### WorldPacket, OutboundStream, Login

Data is a sequence of cells: a number, a length and a character are one each. A
length counts modulo `Width`, which stands for 2^16, and a read past the end
gives `Thrown`, the C++ exception.

In `OutboundStream` the world thread sends chat packets on one connection. asio
(external) passes a buffer to the kernel with `write_some`; when the kernel
takes a part, the remainder is queued again behind what was sent since. The
client reads a header, as many cells, and the two strings.

In `Login` the server keeps one salt, the last it issued. The client chooses any
name and password, may ask again before it is answered, and may cut a packet
short; `mistyped`, `hurried` and `cut` record what it did. A handler that throws
disconnects, and the packets behind it are handled on the closed session. Hashes
do not collide.

### TimerQueue

`ProcessTimers` is split at each callback, during which the clock runs and the
callback may `Schedule` and `CancelTimer`, as the interface allows; `i` is the
index of the loop. After a callback the code takes whatever is at `timers[i]`
for the timer it called; if nothing is (`PastEnd`), it reads a destroyed element
and erases past the end, whose outcomes are a choice. `disturbed` records that a
callback cancelled its own timer or one before it. The function object that runs
is in the vector as well: `moved` records that a `Schedule` of the callback may
have reallocated the vector, or an erasure shifted it, under that object. A
callback that then reads what it captured (`ReadMovedCapture`) may find it or end
the process; whether the vector was full, and whether the callback captures
anything that is kept in the object itself, is a choice. No code in the
repository schedules a timer yet, so the callers are external.

## Runs

| Run | Instance | Shows |
|---|---|---|
| `sessions_safety` | 2 connections, 2 packets and 1 outstanding write each | list, sockets, references and packet order stay consistent |
| `sessions_liveness` | 2 connections, 1 packet | lost sessions leave and are freed, packets are handled, `SessionRegistry` is implemented |
| `visibility_row` | 3 players, 3 cells in a row | clients show what the server believes; packets fit |
| `visibility_ghosts` | 2 players | **violated**: a player who disconnects is never despawned |
| `chat_field` | 2 players, 4 x 3 cells, positions on edges and beyond the field | visible exactly when in touching cells; who stays near is spawned, who stays apart despawned; say reaches those near, and nobody hears a player it does not show |
| `chat_shout` | 2 players in one cell | **violated**: a shout reaches no further than a say |
| `combat` | 2 players, one attacks, 3 cells in a row, a delay of a step and a half | swings are a delay apart, between players in each other's sight, and recur |
| `stream` | 3 packets, lengths modulo 4 | packets survive any cut of the writes unless they overlap; all arrive |
| `login` | 4 requests, 2 names, 2 passwords | a patient client is never refused, a hasty one gets in |
| `timers` | 3 timers, delays 0 to 2, clock to 3 | no timer is lost or left over, what is due is called, unless a callback ends the process |
| `database` | 3 jobs, 2 submitting threads | no lost wakeup, no use after close, jobs performed, flagged jobs answered, `Stop` returns, `JobService` implemented |
| `database_callbacks` | 2 jobs | **violated**: the inventory callbacks are never called |

Bounds. All races in `SessionLifecycle` are between the two threads, which exist
whatever the number of sessions; two connections add the case that one session's
work holds or sends to another, two packets add order and a packet queued behind
one whose handler throws. `Int32Max = 7` keeps the GUIDs in range, as fewer than
2^31 connections do; no run reaches the narrowing of `GetPlayerId`. Three players are needed for one that two others see
differently; three cells in a row are the least with two that do not touch; 4 x 3
cells have corners, edges and an inner cell. In `chat_field` the ratio of cell,
say and shout distance is the code's, and the positions put the players in one
cell out of earshot, across a corner within it, a cell apart and beyond the
field. Players chat from the packet pass only, between any two steps of the
network thread. In `combat` the delay is not a multiple of the step, so that the
remainder shows, and the positions are in and out of range. In `stream` the
packets include the largest size that fits, a size taken for zero and a string
whose own length is cut. Three timers give a callback one before and one behind
its own. Three jobs put one in the worker's hand and two in the queue. `MaxLost`
bounds the players that may drop. The theorems below remove the bounds for the
properties they state.

Fairness. Both threads are weakly fair: the operating system runs them and no
step of theirs waits for another thread, except for `m_mutex`, which every holder
releases. A completed read, and a failing write, are weakly fair because
`io_context` runs completed handlers. Clients are not fair: bytes need not come,
writes to a live client need not complete. The world thread finishes its drain
loop because a run has finitely many packets; the code has no such bound, and a
flood of packets would keep `Update` from running. Chat has no such count, so
`ChatSpec` takes the steps of the tick strongly fair: the packet queue runs
empty again and again. `Combat` needs only that the world thread runs. In
`OutboundStream` the kernel takes what is written, the network thread runs and
the client keeps reading; in `Login` the world thread handles what is queued and
the client answers what it gets, but nobody has to ask. In `TimerQueue` the
ticks go on and callbacks return. In `DatabasePool` the worker, `Stop` once
begun, and notifications are fair, a query returns, and the world thread keeps
ticking; nobody has to submit or stop, and spurious wakeups are not counted on.

Deadlock checking is off where the system may stop: `DatabasePool` and
`TimerQueue` (the process may crash), `OutboundStream` and `Login` (everything
has been sent and read).

## Findings

* `visibility_ghosts`. `World::SendPlayerUpdates` says it despawns the players
  who were visible and are not now, but it looks them up in the live session list
  first. A player who left by disconnecting is not there, the despawn is
  skipped, the sets forget it, and every client that showed it keeps the ghost.
* `chat_shout`. `World.h` has `SHOUT_DISTANCE` for shouts; the shout loop
  compares with `SAY_DISTANCE`, and nothing reads the other.
* `database_callbacks`. `DBJob::bHasCallback` must be set for the callback to
  fire; `RetrieveCharacterInventory` and `RetrieveCharacterInformation_GUID` set
  the callback and not the flag.

Met while modelling, with no text of the repository to hold them against:
`ForceQuery` after a failed connection reads through a null pointer; `Stop` drops
queued jobs although `SafeQueue::pop` would still hand them out; `Submit` to a
pool that failed to start queues for ever; `m_running` and the queue's
`shutdown` are never reset, so a stopped pool cannot be started again; `main`
never calls `ShutdownDB` although a worker may be joinable; overlapping writes
may interleave on the wire (what `PacketsSurvive` allows); a timer callback that
cancels its own timer makes `ProcessTimers` erase another, and one that schedules
a timer may lose what it captured (what `NoneLostNoneLeft` allows); a player who has crossed a cell edge since the last
tick may miss what is said beside it (what `SayReachesNearby` excludes).

## Proofs

Each safety proof has the same shape: an inductive invariant, a lemma per
group of its conjuncts with one step per action, the initial states, and
the theorems that follow from it. TLC finds each invariant to hold on the
instances of the runs.

* `SessionLifecycle_proofs`. The properties are not inductive alone. `IInv` adds
  where each thread may hold a session (`ThreadsOK`), that only issued GUIDs have
  sockets and reads (`IssuedOK`), that the session in the accept handler is known
  to the network thread alone (`AcceptingOK`), and that whatever is listed,
  queued or copied was issued and is not in that handler (`Known...`). The key
  step: a thread that closes a socket goes on to remove the session, and the only
  session closed before it is listed would be the one in the accept handler,
  which nobody else can reach. Theorems: `TypeCorrect`,
  `ClosedSessionsAreRemoved`, `OpenSessionsAreListed`, `OpenSessionsRead`,
  `DestructorNeverLocks`, `FreedSessionsStayFreed`, `ImplementsRegistry`, and
  `PacketsAreInOrder`, whose invariant `QueueOK` adds that a session has no more packets handled
  than read; from it `PacketsAreHandledInTurn`: the packet at the head of the queue
  is always the next of its session.
  Assumption: GUIDs fit an int (`BoundsAssumption`).
* `PlayerVisibility_proofs`. `ShownOK` gives, at every point of the tick, what a
  client shows as a function of the visible sets and the packets still to send;
  `JoinedOK` keeps the sets among players that have ever joined and `WorkOK` ties
  the packets to the pass. Theorems: `TypeCorrect`, `ClientsAgreeWithServer`,
  `PacketsFit`. For `VisibilityIsExact`, `VInv` adds that the cached
  neighbourhood is the one of the cell a player was placed in (`PlaceOK`), that
  the visible sets are those of the cells (`SightOK`), and that sight is mutual;
  it rests on `GridIDInjective`, different cells have different numbers. Together
  they give `ScreensShowTheNear`, from positions to what a client shows. All for
  every grid and number of players (`GridAssumption`).
* `PlayerActions_proofs` carries `VInv` over to chat and combat, since each of their
  steps is a step of `PlayerVisibility` or none, as it is written to be; theorem
  `ChatKeepsVisibility`. `CloseIsNear` is the
  geometry: two points at most a cell's width apart lie in cells that touch,
  clamping and truncation included; hence the assumptions that the say distance
  and the combat range are at most `GridSize`, as the code's are. `SpeechOK` says
  whom the chat loop has passed over and why; theorems `ChatTypeCorrect`,
  `SpeakersAreShown`, `SayIsHeard`. `TimerOK` bounds what the timer has lost
  since the last swing by the rounds since; theorems `CombatTypeCorrect`,
  `SwingsAreApart`, `StrikesAreSeen`.
* `TimerQueue_proofs`. `QueueOK` holds until the loop is disturbed: identifiers
  grow along the vector, the timer at the index is the one whose callback runs,
  and the process has not ended but in a callback that has moved. `PassOK` adds that every timer before the index expires after the time
  the pass began with. Theorems: `TypeCorrect`, `TimersAreKept`,
  `PassIsComplete`.
* `WorldPacket_proofs`. `StringsRoundTrip`: two strings that fit their lengths
  are read back; and what `<<` and `>>` return for any input.
* `OutboundStream_proofs`. As long as no packet was sent while part of another was
  unsent, what the client has yet to read is a row of whole frames, followed by
  the writes of the other packets (`BetweenFrames`), or together with the rest of
  the one outstanding write such a row (`InsideFrame`). `Framed` says what a row of frames is by the
  places where they end, a function that each step shifts or extends, so the
  proof needs no induction over the stream. Theorems: `TypeCorrect`,
  `PacketsAreKept`, `NoPacketIsStuck`.
* `Login_proofs`. For a patient client `Handshake`, the one packet under way
  between it and the server, is inductive: theorem `PatientClientsGetIn`. A hasty
  client may have many packets under way. `HInv` says that what it sends is whole
  (`WholePackets`) and that always one of five things holds of the last salt: a request is still
  to come (`Asked`), the salt is on its way (`Challenged`), its hash is
  (`Answered`), the acceptance is (`Accepted`), or the client has been told: theorem
  `HastyClientsGetIn`. For `TypeCorrect` and any client, `Numbered` maps the
  requests in the queue to numbers between the salts issued and the requests
  made, in order, so that the server never issues more salts than there were
  requests. Assumption: name and hash fit a packet (`LoginAssumption`).
* `DatabasePool_proofs`. `IInv` says that a live worker implies an open
  connection and a `Stop` that has not passed its join (`WorkerOK`), that no job
  exists before the world thread runs (`NoJobYet`), that queued, held and replied
  jobs were submitted and replies are flagged (`JobsOK`), and `WakeupPending`.
  Theorems: `TypeCorrect`, `NoStatementAfterClose`, `ConnectionIsNotShared`,
  `NoLostWakeup`, `ImplementsService`. The refinement maps the job in the
  worker's hand to the head of `pending` before its statement and to the tail of
  `due` after; the sequence lemmas come first. The refinement then pays off: that
  a job is in one of the three places and in one only (`AtMostOnce`, `NoneLost`)
  is kept by the three steps of `JobService`, whichever thread takes them, and
  `Unperformed` ties the places to the results. Theorems: `EachJobOnce`,
  `SubmittedJobsAreKept`, `FlaggedAnswersAreKept`. `StopOK` follows `Stop` through
  its statements: theorem `JoinIsNotStuck`.

Every invariant and every action property of the passing runs is stated by a
theorem. What remains model-checked only is liveness: the prover has no fairness
and no `ENABLED`. For most of these properties a theorem states what is safety in
them, that the state the property waits for is never cut off; TLC alone shows
that fairness then leads there:

| Liveness, by TLC | Safety behind it, proved |
|---|---|
| `HungUpLeaves` | `ClosedSessionsAreRemoved`, `OpenSessionsRead` |
| `EnqueuedIsHandled` | `PacketsAreInOrder`, `PacketsAreHandledInTurn` |
| `RefinesRegistry` | `ImplementsRegistry` |
| `NearIsSpawned`, `FarIsDespawned` | `ScreensShowTheNear` |
| `StrikesAgain` | `CombatTypeCorrect`: the timer never leaves 0 to the delay |
| `SubmittedIsPerformed` | `SubmittedJobsAreKept`, `NoLostWakeup` |
| `PerformedIsAnswered` | `FlaggedAnswersAreKept` |
| `StopReturns` | `JoinIsNotStuck` |
| `SentIsReceived` | `NoPacketIsStuck` |
| `RetryIsAdmitted` | `HastyClientsGetIn` |
| `DueIsCalled` | `PassIsComplete` |

`ClosedIsFreed` has no such counterpart: that a reference is dropped is progress
alone.

## Not modelled

* The vendored libraries: Recast and Detour, moodycamel's queue. They are
  about 35 500 of the 40 500 lines of implementation; the tick and the handlers
  do not call Recast, and of the queue the server uses only that one producer's
  packets reach one consumer in order.
* `MapManager` and `MapBuilder`: geometry and files, on the main thread, before
  any other exists. `Map`, `Creature` and `AI`: stubs that the tick does not use.
* The end of `main` and static destruction: one fixed sequence on one thread,
  with no choice of steps. `PROJECT.json` lists what may go wrong there.
* `LootManager` beyond its query; SQL schemas, statement texts and parameter
  binding; `CMSG_PING`, which only answers.
* The bytes of numbers on the wire; races inside asio on the descriptor of a
  socket that the other thread closes; failed allocations.

## What is left

All parts that run after startup have a module, and all their safety properties
a theorem. What could follow: the composition of `Login` with `SessionLifecycle`,
which today meet only in that a handler that throws disconnects; and the timers'
first caller, once the repository has one.
