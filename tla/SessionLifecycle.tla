------------------------- MODULE SessionLifecycle -------------------------
(***************************************************************************)
(* The life of a client connection, from accept to the drop of the last    *)
(* shared_ptr<WorldSession>: NetworkSocketMgr::DoAccept, the read loop and *)
(* Disconnect of WorldSession, the registry of WorldSessionMgr, the packet *)
(* queue of World and the part of World::Run that consumes it.             *)
(*                                                                         *)
(* Two threads act.  The network thread runs io_context.run(): it takes    *)
(* one completed operation (an accept, a read, a write) at a time and runs *)
(* its handler to the end.  The world thread drains the packet queue and   *)
(* then walks a copy of the session list, sending to each session.  Both   *)
(* call WorldSession::Disconnect, which takes no lock until it reaches     *)
(* WorldSessionMgr, so its test, its close and its removal are separate    *)
(* steps here.  The kernel and the client are the third actor: bytes       *)
(* arrive, and the client hangs up.                                        *)
(*                                                                         *)
(* A session is named by its PlayerGUID.  shared_ptr ownership is the      *)
(* operator Held: the places that hold a reference.                        *)
(***************************************************************************)
EXTENDS Naturals, Sequences

CONSTANTS MaxGUID,      \* connections that are accepted (bound)
          MaxFrames,    \* complete packets a client sends on a connection (bound)
          MaxWrites,    \* async_writes outstanding on a connection (bound)
          Int32Max      \* the largest value of the int GetPlayerId returns

\* The GUIDs of a run fit the int that GetPlayerId narrows them to.
ASSUME BoundsAssumption ==
  /\ MaxGUID \in Nat /\ MaxFrames \in Nat /\ MaxWrites \in Nat
  /\ Int32Max \in Nat /\ MaxGUID <= Int32Max

GUID   == 1..MaxGUID
NoGUID == 0
Thread == {"network", "world"}

\* What a header announces: a frame without payload, one with payload, or a
\* payloadSize above MAX_PACKET_SIZE.
FrameKind == {"empty", "body", "tooBig"}

VARIABLES nextPlayerId, \* the static counter of DoAccept
          sock,         \* m_socket: "unborn", "open" or "closed"
          peer,         \* the client's end: "up" or "gone"
          read,         \* the outstanding async_read, see ReadState
          frames,       \* packets the network thread has enqueued
          writes,       \* async_writes whose handler has not run
          registry,     \* m_sessions
          queue,        \* m_concurrentqueue, <<session, packet number>>
          handled,      \* packets the world thread has given to a handler
          pc,           \* where each thread is
          self,         \* the session a thread's current work holds (qp.session)
          snapshot,     \* the copy of m_sessions the world thread walks
          todo          \* the part of snapshot still to be visited

netVars   == <<nextPlayerId, peer, read, frames>>
worldVars == <<handled, snapshot, todo>>
vars == <<nextPlayerId, sock, peer, read, frames, writes, registry, queue,
          handled, pc, self, snapshot, todo>>

\* "header", "payload": async_read waits for the kernel.  A FrameKind: the four
\* header bytes have arrived and the handler has not run.  "packet": the same
\* for the payload.  "none": no read is outstanding.
ReadState == {"none", "header", "payload", "packet"} \cup FrameKind

Init ==
  /\ nextPlayerId = 1
  /\ sock = [g \in GUID |-> "unborn"]
  /\ peer = [g \in GUID |-> "up"]
  /\ read = [g \in GUID |-> "none"]
  /\ frames = [g \in GUID |-> 0]
  /\ writes = [g \in GUID |-> 0]
  /\ registry = {}
  /\ queue = <<>>
  /\ handled = [g \in GUID |-> 0]
  /\ pc = [network |-> "idle", world |-> "drain"]
  /\ self = [t \in Thread |-> NoGUID]
  /\ snapshot = {}
  /\ todo = {}

\* Fault: the constructor does not store its playerId.
GetPlayerIdUnset(g) == NoGUID

\* GetPlayerId returns the int64_t PlayerGUID as an int.
GetPlayerId(g) == IF g <= Int32Max THEN g ELSE g - 2 * (Int32Max + 1)

\* Fault: the read handlers capture this instead of shared_from_this().
HeldButByReads(g) ==
  \/ g \in registry \cup snapshot
  \/ writes[g] > 0
  \/ \E i \in 1..Len(queue) : queue[i][1] = g
  \/ \E t \in Thread : self[t] = g

\* The references to session g: m_sessions, the self of an outstanding read or
\* write, a queued packet, a thread's handler or qp, the world thread's copy.
Held(g) ==
  \/ g \in registry \cup snapshot
  \/ read[g] # "none" \/ writes[g] > 0
  \/ \E i \in 1..Len(queue) : queue[i][1] = g
  \/ \E t \in Thread : self[t] = g

\* The last reference is gone: ~WorldSession has run.
Freed(g) == sock[g] # "unborn" /\ ~Held(g)

----------------------------------------------------------------------------
(* The kernel and the client.                                              *)

HangUp(g) ==
  /\ sock[g] # "unborn" /\ peer[g] = "up"
  /\ peer' = [peer EXCEPT ![g] = "gone"]
  /\ UNCHANGED <<nextPlayerId, sock, read, frames, writes, registry, queue,
                 worldVars, pc, self>>

\* Bytes complete the read that is outstanding; bytes sent before the client
\* hung up may still arrive after.
HeaderArrives(g, k) ==
  /\ read[g] = "header" /\ sock[g] = "open" /\ frames[g] < MaxFrames
  /\ read' = [read EXCEPT ![g] = k]
  /\ UNCHANGED <<nextPlayerId, sock, peer, frames, writes, registry, queue,
                 worldVars, pc, self>>

PayloadArrives(g) ==
  /\ read[g] = "payload" /\ sock[g] = "open"
  /\ read' = [read EXCEPT ![g] = "packet"]
  /\ UNCHANGED <<nextPlayerId, sock, peer, frames, writes, registry, queue,
                 worldVars, pc, self>>

----------------------------------------------------------------------------
(* WorldSession::Disconnect, on either thread: test, close, remove.        *)

\* Where thread t goes when its Disconnect returns.  The network thread's
\* handler ends and drops its self; the world thread keeps qp.session.
Return(t) ==
  IF t = "network"
  THEN /\ pc' = [pc EXCEPT !.network = "idle"]
       /\ self' = [self EXCEPT !.network = NoGUID]
  ELSE /\ pc' = [pc EXCEPT !.world = "drain"]
       /\ UNCHANGED self

\* Fault: Disconnect leaves the closing to the destructor of the socket.
TestOpenNoClose(t) ==
  /\ pc[t] = "test"
  /\ IF sock[self[t]] = "open"
     THEN pc' = [pc EXCEPT ![t] = "remove"] /\ UNCHANGED self
     ELSE Return(t)
  /\ UNCHANGED <<netVars, sock, writes, registry, queue, worldVars>>

\* if (m_socket.is_open())
TestOpen(t) ==
  /\ pc[t] = "test"
  /\ IF sock[self[t]] = "open"
     THEN pc' = [pc EXCEPT ![t] = "close"] /\ UNCHANGED self
     ELSE Return(t)
  /\ UNCHANGED <<netVars, sock, writes, registry, queue, worldVars>>

\* Fault: the world thread leaves the removal to the read that will now fail.
CloseRemoveLater(t) ==
  /\ pc[t] = "close"
  /\ sock' = [sock EXCEPT ![self[t]] = "closed"]
  /\ pc' = [pc EXCEPT ![t] = IF t = "world" THEN "drain" ELSE "remove"]
  /\ UNCHANGED <<netVars, writes, registry, queue, worldVars, self>>

\* shutdown and close.  Outstanding reads and writes will complete with an
\* error unless their bytes were already there.
Close(t) ==
  /\ pc[t] = "close"
  /\ sock' = [sock EXCEPT ![self[t]] = "closed"]
  /\ pc' = [pc EXCEPT ![t] = "remove"]
  /\ UNCHANGED <<netVars, writes, registry, queue, worldVars, self>>

\* RemoveSessionByPlayerID, under m_mutex.
RemoveSessionByPlayerID(t) ==
  /\ pc[t] = "remove"
  /\ registry' = {s \in registry : GetPlayerId(s) # GetPlayerId(self[t])}
  /\ Return(t)
  /\ UNCHANGED <<netVars, sock, writes, queue, worldVars>>

----------------------------------------------------------------------------
(* The network thread: one handler of io_context at a time.                *)

\* Fault: an exception between Start() and AddSession, which DoAccept swallows.
AcceptWithoutAdd(g) ==
  /\ pc.network = "idle" /\ g = nextPlayerId
  /\ nextPlayerId' = nextPlayerId + 1
  /\ sock' = [sock EXCEPT ![g] = "open"]
  /\ read' = [read EXCEPT ![g] = "header"]
  /\ UNCHANGED <<peer, frames, writes, registry, queue, worldVars, pc, self>>

\* DoAccept's handler up to session->Start(), which posts the first read.
Accept(g) ==
  /\ pc.network = "idle" /\ g = nextPlayerId
  /\ nextPlayerId' = nextPlayerId + 1
  /\ sock' = [sock EXCEPT ![g] = "open"]
  /\ read' = [read EXCEPT ![g] = "header"]
  /\ pc' = [pc EXCEPT !.network = "add"]
  /\ self' = [self EXCEPT !.network = g]
  /\ UNCHANGED <<peer, frames, writes, registry, queue, worldVars>>

\* AddSession, then DoAccept again.
AddSession ==
  /\ pc.network = "add"
  /\ registry' = registry \cup {self.network}
  /\ Return("network")
  /\ UNCHANGED <<netVars, sock, writes, queue, worldVars>>

\* ReadHeader's handler: resize the payload buffer and read the payload.  An
\* async_read of no bytes completes at once, even on a closed socket.
HeaderRead(g) ==
  /\ pc.network = "idle" /\ read[g] \in {"empty", "body"}
  /\ read' = [read EXCEPT ![g] = IF read[g] = "empty" THEN "packet" ELSE "payload"]
  /\ UNCHANGED <<nextPlayerId, sock, peer, frames, writes, registry, queue,
                 worldVars, pc, self>>

\* Fault: ReadHeader is not called after the packet was enqueued.
EnqueuePacketOnce(g) ==
  /\ pc.network = "idle" /\ read[g] = "packet"
  /\ queue' = Append(queue, <<g, frames[g] + 1>>)
  /\ frames' = [frames EXCEPT ![g] = @ + 1]
  /\ read' = [read EXCEPT ![g] = "none"]
  /\ UNCHANGED <<nextPlayerId, sock, peer, writes, registry, worldVars, pc, self>>

\* Fault: the queue hands out the newest packet first.
EnqueuePacketInFront(g) ==
  /\ pc.network = "idle" /\ read[g] = "packet"
  /\ queue' = <<<<g, frames[g] + 1>>>> \o queue
  /\ frames' = [frames EXCEPT ![g] = @ + 1]
  /\ read' = [read EXCEPT ![g] = "none"]
  /\ pc' = [pc EXCEPT !.network = "rearm"]
  /\ self' = [self EXCEPT !.network = g]
  /\ UNCHANGED <<nextPlayerId, sock, peer, writes, registry, worldVars>>

\* ReadPayload's handler: EnqueuePacket ...
EnqueuePacket(g) ==
  /\ pc.network = "idle" /\ read[g] = "packet"
  /\ queue' = Append(queue, <<g, frames[g] + 1>>)
  /\ frames' = [frames EXCEPT ![g] = @ + 1]
  /\ read' = [read EXCEPT ![g] = "none"]
  /\ pc' = [pc EXCEPT !.network = "rearm"]
  /\ self' = [self EXCEPT !.network = g]
  /\ UNCHANGED <<nextPlayerId, sock, peer, writes, registry, worldVars>>

\* ... and ReadHeader for the next packet.
ReadHeader ==
  /\ pc.network = "rearm"
  /\ read' = [read EXCEPT ![self.network] = "header"]
  /\ Return("network")
  /\ UNCHANGED <<nextPlayerId, sock, peer, frames, writes, registry, queue,
                 worldVars>>

\* Fault: a read that fails only returns.
ReadGivesUpSilently(g) ==
  /\ pc.network = "idle"
  /\ \/ read[g] \in {"header", "payload"} /\ (sock[g] = "closed" \/ peer[g] = "gone")
     \/ read[g] = "tooBig"
  /\ read' = [read EXCEPT ![g] = "none"]
  /\ UNCHANGED <<nextPlayerId, sock, peer, frames, writes, registry, queue,
                 worldVars, pc, self>>

\* A read handler that gives up: ec is set (the socket was closed or the
\* client is gone), or the announced payload is too big.
ReadGivesUp(g) ==
  /\ pc.network = "idle"
  /\ \/ read[g] \in {"header", "payload"} /\ (sock[g] = "closed" \/ peer[g] = "gone")
     \/ read[g] = "tooBig"
  /\ read' = [read EXCEPT ![g] = "none"]
  /\ pc' = [pc EXCEPT !.network = "test"]
  /\ self' = [self EXCEPT !.network = g]
  /\ UNCHANGED <<nextPlayerId, sock, peer, frames, writes, registry, queue,
                 worldVars>>

\* SendPacket's handler without an error: the bytes were taken before.
WriteDone(g) ==
  /\ pc.network = "idle" /\ writes[g] > 0
  /\ writes' = [writes EXCEPT ![g] = @ - 1]
  /\ UNCHANGED <<netVars, sock, registry, queue, worldVars, pc, self>>

\* SendPacket's handler with an error: Disconnect.
WriteFails(g) ==
  /\ pc.network = "idle" /\ writes[g] > 0
  /\ sock[g] = "closed" \/ peer[g] = "gone"
  /\ writes' = [writes EXCEPT ![g] = @ - 1]
  /\ pc' = [pc EXCEPT !.network = "test"]
  /\ self' = [self EXCEPT !.network = g]
  /\ UNCHANGED <<netVars, sock, registry, queue, worldVars>>

----------------------------------------------------------------------------
(* The world thread: World::Run.                                           *)

\* SendPacket to each session of R: async_write on whatever the socket is.
SendPackets(R) ==
  /\ \A g \in R : writes[g] < MaxWrites
  /\ writes' = [g \in GUID |-> IF g \in R THEN writes[g] + 1 ELSE writes[g]]

\* Fault: the packets of a disconnected session are not taken off the queue.
TryDequeueConnected ==
  /\ pc.world = "drain" /\ queue # <<>> /\ sock[Head(queue)[1]] = "open"
  /\ self' = [self EXCEPT !.world = Head(queue)[1]]
  /\ handled' = [handled EXCEPT ![Head(queue)[1]] = Head(queue)[2]]
  /\ queue' = Tail(queue)
  /\ pc' = [pc EXCEPT !.world = "handle"]
  /\ UNCHANGED <<netVars, sock, writes, registry, snapshot, todo>>

\* try_dequeue(qp) succeeds: the session of the previous packet is let go.
TryDequeue ==
  /\ pc.world = "drain" /\ queue # <<>>
  /\ self' = [self EXCEPT !.world = Head(queue)[1]]
  /\ handled' = [handled EXCEPT ![Head(queue)[1]] = Head(queue)[2]]
  /\ queue' = Tail(queue)
  /\ pc' = [pc EXCEPT !.world = "handle"]
  /\ UNCHANGED <<netVars, sock, writes, registry, snapshot, todo>>

\* The handler answers the sender, or sessions it looked up, or nobody (an
\* unknown opcode).  It does not ask whether the session is still connected.
HandlePacket(R) ==
  /\ pc.world = "handle"
  /\ SendPackets(R)
  /\ pc' = [pc EXCEPT !.world = "drain"]
  /\ UNCHANGED <<netVars, sock, registry, queue, worldVars, self>>

\* The handler throws (a read past the end of the packet): Disconnect.
HandlerThrows ==
  /\ pc.world = "handle"
  /\ pc' = [pc EXCEPT !.world = "test"]
  /\ UNCHANGED <<netVars, sock, writes, registry, queue, worldVars, self>>

\* Fault: the list is walked without a copy, so no reference is held.
GetSessionsByReference ==
  /\ pc.world = "drain" /\ queue = <<>>
  /\ todo' = registry
  /\ pc' = [pc EXCEPT !.world = "walk"]
  /\ UNCHANGED <<netVars, sock, writes, registry, queue, handled, self, snapshot>>

\* The queue is empty: Update() copies the session list and walks it.
GetSessions ==
  /\ pc.world = "drain" /\ queue = <<>>
  /\ snapshot' = registry
  /\ todo' = registry
  /\ pc' = [pc EXCEPT !.world = "walk"]
  /\ UNCHANGED <<netVars, sock, writes, registry, queue, handled, self>>

\* A spawn, despawn or movement packet for the next session, or nothing.
VisitSession(g, R) ==
  /\ pc.world = "walk" /\ g \in todo
  /\ SendPackets(R)
  /\ todo' = todo \ {g}
  /\ UNCHANGED <<netVars, sock, registry, queue, handled, pc, self, snapshot>>

\* Fault: qp is declared outside the loop and keeps its session.
EndTickKeepsPacket ==
  /\ pc.world = "walk" /\ todo = {}
  /\ snapshot' = {}
  /\ pc' = [pc EXCEPT !.world = "drain"]
  /\ UNCHANGED <<netVars, sock, writes, registry, queue, handled, self, todo>>

\* The copy and qp go out of scope, and the next iteration of Run begins.
EndTick ==
  /\ pc.world = "walk" /\ todo = {}
  /\ snapshot' = {}
  /\ self' = [self EXCEPT !.world = NoGUID]
  /\ pc' = [pc EXCEPT !.world = "drain"]
  /\ UNCHANGED <<netVars, sock, writes, registry, queue, handled, todo>>

----------------------------------------------------------------------------
Disconnect(t) == TestOpen(t) \/ Close(t) \/ RemoveSessionByPlayerID(t)

\* What the network thread does once it is inside a handler.
NetworkStep == AddSession \/ ReadHeader \/ Disconnect("network")

WorldStep ==
  \/ TryDequeue \/ HandlerThrows \/ GetSessions \/ EndTick \/ Disconnect("world")
  \/ \E R \in SUBSET (registry \cup {self.world}) : HandlePacket(R)
  \/ \E g \in todo : \E R \in SUBSET {g} : VisitSession(g, R)

Environment(g) ==
  \/ HangUp(g) \/ PayloadArrives(g)
  \/ \E k \in FrameKind : HeaderArrives(g, k)

\* The handler of the outstanding read, once it is complete.
ReadStep(g) == HeaderRead(g) \/ EnqueuePacket(g) \/ ReadGivesUp(g)

Next ==
  \/ NetworkStep \/ WorldStep
  \/ \E g \in GUID : \/ Environment(g) \/ Accept(g) \/ ReadStep(g)
                     \/ WriteDone(g) \/ WriteFails(g)

\* Both threads run, and io_context does not pass over an operation that stays
\* complete.  Nothing is assumed of clients: bytes need not arrive, a write need
\* not complete while the client is there, nobody need hang up.
Fairness ==
  /\ WF_vars(NetworkStep) /\ WF_vars(WorldStep)
  /\ \A g \in GUID : WF_vars(ReadStep(g)) /\ WF_vars(WriteFails(g))

Spec == Init /\ [][Next]_vars /\ Fairness

----------------------------------------------------------------------------
(* Properties.                                                             *)

\* Types of the variables; a session that holds a descriptor was accepted.
TypeOK ==
  /\ nextPlayerId \in 1..(MaxGUID + 1)
  /\ sock \in [GUID -> {"unborn", "open", "closed"}]
  /\ peer \in [GUID -> {"up", "gone"}]
  /\ read \in [GUID -> ReadState]
  /\ frames \in [GUID -> Nat]
  /\ writes \in [GUID -> Nat]
  /\ registry \subseteq GUID
  /\ queue \in Seq(GUID \X Nat)
  /\ handled \in [GUID -> Nat]
  /\ pc \in [Thread -> {"idle", "add", "rearm", "test", "close", "remove",
                        "drain", "handle", "walk"}]
  /\ self \in [Thread -> GUID \cup {NoGUID}]
  /\ snapshot \subseteq GUID
  /\ todo \subseteq snapshot

\* Disconnect's unlocked test is enough to keep the session list exact: a
\* listed session whose socket is closed is one that some thread is about to
\* remove, although the thread that found the socket already closed has
\* returned without removing anything (WorldSession.cpp:88-95).
ClosedIsBeingRemoved ==
  \A g \in registry : sock[g] # "open" =>
    \E t \in Thread : pc[t] = "remove" /\ self[t] = g

\* A live connection is always listed, except inside the accept handler that
\* calls Start() before AddSession (NetworkSocketMgr.cpp:69-70): no session can
\* be removed before it was added and then stay listed or unlisted for ever.
OpenIsRegistered ==
  \A g \in GUID : sock[g] = "open" =>
    g \in registry \/ (pc.network = "add" /\ self.network = g)

\* ~WorldSession calls Disconnect, which locks m_mutex; the last reference is
\* often dropped inside m_sessions.erase, with m_mutex held.  It never locks
\* twice, because a session is destroyed only after its socket was closed.
DestructorFindsClosed == \A g \in GUID : Freed(g) => sock[g] = "closed"

\* No connection goes deaf: while the socket is open a read is outstanding, or
\* the network thread is in the handler that posts the next one or gives up.
OpenIsReading ==
  \A g \in GUID : sock[g] = "open" => read[g] # "none" \/ self.network = g

\* The packets of g that wait in the queue are exactly those enqueued and not
\* yet handled, in the order the client sent them: a Disconnect by either
\* thread loses, repeats and reorders nothing.
PacketsInOrder ==
  /\ \A k \in DOMAIN queue :
       queue[k][2] > handled[queue[k][1]] /\ queue[k][2] <= frames[queue[k][1]]
  /\ \A g \in GUID : \A n \in (handled[g] + 1)..frames[g] :
       \E k \in DOMAIN queue : queue[k] = <<g, n>>
  /\ \A j, k \in DOMAIN queue :
       j < k /\ queue[j][1] = queue[k][1] => queue[j][2] < queue[k][2]

\* Nothing outlives its session: once the last reference is dropped no handler,
\* queue entry or copy of the list refers to the session again.
FreedForever == [][\A g \in GUID : Freed(g) => Freed(g)']_vars

\* A client that hangs up is removed from the list, whichever thread notices.
HungUpLeaves ==
  \A g \in GUID : g \in registry /\ peer[g] = "gone" ~> g \notin registry

\* A closed session is eventually destroyed: every read, write, queued packet
\* and copy of the list that still refers to it lets it go.
ClosedIsFreed == \A g \in GUID : sock[g] = "closed" ~> Freed(g)

\* Every packet that was enqueued reaches its handler, also when its session
\* was disconnected in between.
EnqueuedIsHandled ==
  \A g \in GUID : \A n \in 1..MaxFrames : frames[g] >= n ~> handled[g] >= n

\* The registry seen from outside: departed are the sessions that were listed
\* once, lost those whose socket is closed at either end.
Registry == INSTANCE SessionRegistry WITH
  members <- registry,
  departed <- {g \in GUID : /\ sock[g] # "unborn" /\ g \notin registry
                            /\ ~(pc.network = "add" /\ self.network = g)},
  lost <- {g \in GUID : sock[g] = "closed" \/ peer[g] = "gone"}

\* SessionLifecycle implements SessionRegistry, its liveness included.
RefinesRegistry == Registry!Spec
=============================================================================
