---------------------- MODULE SessionLifecycle_proofs ----------------------
(***************************************************************************)
(* Proofs about SessionLifecycle, for every number of connections, packets *)
(* and outstanding writes.                                                 *)
(***************************************************************************)
EXTENDS SessionLifecycle, TLAPS

\* A thread's program counter says which steps of its own code it is at, and
\* whether it holds a session.
ThreadsOK ==
  /\ pc.network \in {"idle", "add", "rearm", "test", "close", "remove"}
  /\ pc.world \in {"drain", "handle", "walk", "test", "close", "remove"}
  /\ pc.network = "idle" <=> self.network = NoGUID
  /\ pc.world \in {"handle", "test", "close", "remove"} => self.world # NoGUID
  /\ \A t \in Thread : pc[t] = "remove" => sock[self[t]] = "closed"

\* GUIDs are issued in order, and only issued ones are open, closed or read.
IssuedOK ==
  /\ \A g \in GUID : sock[g] = "unborn" <=> g >= nextPlayerId
  /\ \A g \in GUID : sock[g] = "unborn" => read[g] = "none" /\ writes[g] = 0

\* The session being accepted is known to the network thread only.
AcceptingOK ==
  pc.network = "add" =>
    /\ self.network = nextPlayerId - 1
    /\ sock[self.network] = "open" /\ read[self.network] # "none"
    /\ self.network \notin registry

\* A session that is listed, queued or held by a thread was issued, and the
\* world thread and the queue know only sessions that were listed.
Known(g) == g < nextPlayerId /\ (pc.network = "add" => g # self.network)

KnownListed == \A g \in registry \cup snapshot : Known(g)
KnownQueued == \A i \in 1..Len(queue) : Known(queue[i][1])
KnownToWorld == self.world # NoGUID => Known(self.world)
KnownToNetwork == self.network # NoGUID => self.network < nextPlayerId

StateOK ==
  /\ ThreadsOK /\ IssuedOK /\ AcceptingOK
  /\ KnownListed /\ KnownQueued /\ KnownToWorld /\ KnownToNetwork
  /\ ClosedIsBeingRemoved /\ OpenIsRegistered /\ OpenIsReading

IInv == TypeOK /\ StateOK

LEMMA HeadTyped ==
  ASSUME TypeOK, queue # <<>>
  PROVE  /\ Head(queue) = queue[1] /\ 1 \in 1..Len(queue)
         /\ Head(queue)[1] \in GUID /\ Head(queue)[2] \in Nat
         /\ Tail(queue) \in Seq(GUID \X Nat)
  BY DEF TypeOK

LEMMA TypeStep == TypeOK /\ ThreadsOK /\ [Next]_vars => TypeOK'
<1> SUFFICES ASSUME TypeOK, ThreadsOK, [Next]_vars PROVE TypeOK'
  OBVIOUS
<1> USE DEF TypeOK, ThreadsOK, Thread, ReadState, FrameKind
<1>1. CASE AddSession
  <2>1. self.network \in GUID
    BY <1>1 DEF AddSession
  <2>2. pc' = [pc EXCEPT !.network = "idle"] /\ self' = [self EXCEPT !.network = NoGUID]
    BY <1>1 DEF AddSession, Return
  <2>3. registry' \subseteq GUID
    BY <1>1, <2>1 DEF AddSession
  <2>. QED
    BY <1>1, <2>2, <2>3 DEF AddSession, netVars, worldVars
<1>2. CASE ReadHeader
  BY <1>2 DEF ReadHeader, Return, netVars, worldVars
<1>3. ASSUME NEW t \in Thread, TestOpen(t) PROVE TypeOK'
  BY <1>3 DEF TestOpen, Return, netVars, worldVars
<1>4. ASSUME NEW t \in Thread, Close(t) PROVE TypeOK'
  BY <1>4 DEF Close, Return, netVars, worldVars
<1>5. ASSUME NEW t \in Thread, RemoveSessionByPlayerID(t) PROVE TypeOK'
  BY <1>5 DEF RemoveSessionByPlayerID, Return, netVars, worldVars
<1>6. CASE TryDequeue
  <2>1. queue # <<>>
    BY <1>6 DEF TryDequeue
  <2>2. handled' \in [GUID -> Nat] /\ self' \in [Thread -> GUID \cup {NoGUID}]
    BY <1>6, <2>1, HeadTyped DEF TryDequeue
  <2>. QED
    BY <1>6, <2>1, <2>2, HeadTyped DEF TryDequeue, netVars
<1>7. CASE HandlerThrows
  BY <1>7 DEF HandlerThrows, Return, netVars, worldVars
<1>8. CASE GetSessions
  BY <1>8 DEF GetSessions, Return, netVars, worldVars
<1>9. CASE EndTick
  BY <1>9 DEF EndTick, Return, netVars, worldVars
<1>10. ASSUME NEW R \in SUBSET (registry \cup {self.world}),
   HandlePacket(R) PROVE TypeOK'
  <2>1. writes' \in [GUID -> Nat]
    BY <1>10 DEF HandlePacket, SendPackets
  <2>. QED
    BY <1>10, <2>1 DEF HandlePacket, netVars, worldVars
<1>11. ASSUME NEW g \in todo, NEW R \in SUBSET {g}, VisitSession(g, R)
   PROVE TypeOK'
  <2>1. writes' \in [GUID -> Nat]
    BY <1>11 DEF VisitSession, SendPackets
  <2>. QED
    BY <1>11, <2>1 DEF VisitSession, netVars
<1>12. ASSUME NEW g \in GUID, HangUp(g) PROVE TypeOK'
  BY <1>12 DEF HangUp, Return, netVars, worldVars
<1>13. ASSUME NEW g \in GUID, PayloadArrives(g) PROVE TypeOK'
  BY <1>13 DEF PayloadArrives, Return, netVars, worldVars
<1>14. ASSUME NEW g \in GUID, NEW k \in FrameKind, HeaderArrives(g, k)
   PROVE TypeOK'
  BY <1>14 DEF HeaderArrives, Return, netVars, worldVars
<1>15. ASSUME NEW g \in GUID, Accept(g) PROVE TypeOK'
  <2>1. nextPlayerId' \in 1..(MaxGUID + 1)
    BY <1>15, BoundsAssumption DEF Accept, GUID
  <2>. QED
    BY <1>15, <2>1 DEF Accept, worldVars
<1>16. ASSUME NEW g \in GUID, HeaderRead(g) PROVE TypeOK'
  BY <1>16 DEF HeaderRead, Return, netVars, worldVars
<1>17. ASSUME NEW g \in GUID, EnqueuePacket(g) PROVE TypeOK'
  <2>1. <<g, frames[g] + 1>> \in GUID \X Nat
    OBVIOUS
  <2>2. queue' \in Seq(GUID \X Nat)
    BY <1>17, <2>1 DEF EnqueuePacket
  <2>3. frames' \in [GUID -> Nat] /\ read' \in [GUID -> ReadState]
    BY <1>17 DEF EnqueuePacket
  <2>. QED
    BY <1>17, <2>2, <2>3 DEF EnqueuePacket, worldVars
<1>18. ASSUME NEW g \in GUID, ReadGivesUp(g) PROVE TypeOK'
  BY <1>18 DEF ReadGivesUp, Return, netVars, worldVars
<1>19. ASSUME NEW g \in GUID, WriteDone(g) PROVE TypeOK'
  <2>1. writes' \in [GUID -> Nat]
    BY <1>19 DEF WriteDone
  <2>. QED
    BY <1>19, <2>1 DEF WriteDone, netVars, worldVars
<1>20. ASSUME NEW g \in GUID, WriteFails(g) PROVE TypeOK'
  <2>1. writes' \in [GUID -> Nat]
    BY <1>20 DEF WriteFails
  <2>. QED
    BY <1>20, <2>1 DEF WriteFails, netVars, worldVars
<1>21. CASE UNCHANGED vars
  BY <1>21 DEF vars, netVars, worldVars
<1>22. QED
  BY <1>1, <1>2, <1>3, <1>4, <1>5, <1>6, <1>7, <1>8, <1>9, <1>10, <1>11,
     <1>12, <1>13, <1>14, <1>15, <1>16, <1>17, <1>18, <1>19, <1>20, <1>21
  DEF Next, NetworkStep, WorldStep, Disconnect, Environment, ReadStep
LEMMA GuidFacts ==
  /\ NoGUID \notin GUID
  /\ \A g \in GUID : g \in Nat
  /\ \A g, h \in GUID : GetPlayerId(g) = GetPlayerId(h) => g = h
  BY BoundsAssumption DEF GUID, NoGUID, GetPlayerId

LEMMA QueueEntryTyped ==
  ASSUME TypeOK, NEW i \in 1..Len(queue)
  PROVE  queue[i][1] \in GUID
  BY DEF TypeOK

\* The queue is kept: what was known of its sessions still is.
LEMMA QueueKept ==
  ASSUME TypeOK, KnownQueued, queue' = queue,
         \A h \in GUID : Known(h) => Known(h)'
  PROVE  KnownQueued'
  BY QueueEntryTyped DEF KnownQueued

LEMMA QueueTail ==
  ASSUME TypeOK, KnownQueued, queue # <<>>, queue' = Tail(queue),
         \A h \in GUID : Known(h) => Known(h)'
  PROVE  KnownQueued'
<1>1. \A i \in 1..Len(Tail(queue)) : i + 1 \in 1..Len(queue) /\ Tail(queue)[i] = queue[i + 1]
  BY DEF TypeOK
<1> QED
  BY <1>1, QueueEntryTyped DEF KnownQueued

LEMMA Inductive == IInv /\ [Next]_vars => StateOK'
<1> SUFFICES ASSUME IInv, [Next]_vars PROVE StateOK'
  OBVIOUS
<1> USE DEF IInv, StateOK, TypeOK, ThreadsOK, IssuedOK, AcceptingOK, KnownListed,
   KnownQueued, KnownToWorld, KnownToNetwork, Known, ClosedIsBeingRemoved,
   OpenIsRegistered, OpenIsReading, Thread
<1>1. CASE AddSession
  <2>1. ThreadsOK'
    BY <1>1, GuidFacts DEF AddSession, Return, netVars, worldVars
  <2>2. IssuedOK'
    BY <1>1, GuidFacts DEF AddSession, Return, netVars, worldVars
  <2>3. AcceptingOK'
    BY <1>1, GuidFacts DEF AddSession, Return, netVars, worldVars
  <2>4. (KnownListed /\ KnownQueued /\ KnownToWorld /\ KnownToNetwork)'
    <3>1. KnownListed'
      BY <1>1, GuidFacts DEF AddSession, Return, netVars, worldVars
    <3>2. KnownQueued'
      <4>1. \A h \in GUID : Known(h) => Known(h)'
        BY <1>1, GuidFacts DEF AddSession, Return, netVars, worldVars
      <4>2. queue' = queue
        BY <1>1 DEF AddSession, Return, netVars, worldVars
      <4>. QED
        BY <4>1, <4>2, QueueKept
    <3>3. KnownToWorld'
      BY <1>1, GuidFacts DEF AddSession, Return, netVars, worldVars
    <3>4. KnownToNetwork'
      BY <1>1, GuidFacts DEF AddSession, Return, netVars, worldVars
    <3>. QED
      BY <3>1, <3>2, <3>3, <3>4
  <2>5. ClosedIsBeingRemoved'
    BY <1>1, GuidFacts DEF AddSession, Return, netVars, worldVars
  <2>6. OpenIsRegistered'
    BY <1>1, GuidFacts DEF AddSession, Return, netVars, worldVars
  <2>7. OpenIsReading'
    BY <1>1, GuidFacts DEF AddSession, Return, netVars, worldVars
  <2>. QED
    BY <2>1, <2>2, <2>3, <2>4, <2>5, <2>6, <2>7
<1>2. CASE ReadHeader
  BY <1>2, GuidFacts DEF ReadHeader, Return, netVars, worldVars
<1>3. ASSUME NEW t \in Thread, TestOpen(t) PROVE StateOK'
  <2>1. ThreadsOK'
    BY <1>3, GuidFacts DEF TestOpen, Return, netVars, worldVars
  <2>2. IssuedOK'
    BY <1>3, GuidFacts DEF TestOpen, Return, netVars, worldVars
  <2>3. AcceptingOK'
    BY <1>3, GuidFacts DEF TestOpen, Return, netVars, worldVars
  <2>4. (KnownListed /\ KnownQueued /\ KnownToWorld /\ KnownToNetwork)'
    <3>1. KnownListed'
      BY <1>3, GuidFacts DEF TestOpen, Return, netVars, worldVars
    <3>2. KnownQueued'
      <4>1. \A h \in GUID : Known(h) => Known(h)'
        BY <1>3, GuidFacts DEF TestOpen, Return, netVars, worldVars
      <4>2. queue' = queue
        BY <1>3 DEF TestOpen, Return, netVars, worldVars
      <4>. QED
        BY <4>1, <4>2, QueueKept
    <3>3. KnownToWorld'
      BY <1>3, GuidFacts DEF TestOpen, Return, netVars, worldVars
    <3>4. KnownToNetwork'
      BY <1>3, GuidFacts DEF TestOpen, Return, netVars, worldVars
    <3>. QED
      BY <3>1, <3>2, <3>3, <3>4
  <2>5. ClosedIsBeingRemoved'
    BY <1>3, GuidFacts DEF TestOpen, Return, netVars, worldVars
  <2>6. OpenIsRegistered'
    BY <1>3, GuidFacts DEF TestOpen, Return, netVars, worldVars
  <2>7. OpenIsReading'
    BY <1>3, GuidFacts DEF TestOpen, Return, netVars, worldVars
  <2>. QED
    BY <2>1, <2>2, <2>3, <2>4, <2>5, <2>6, <2>7
<1>4. ASSUME NEW t \in Thread, Close(t) PROVE StateOK'
  <2>1. ThreadsOK'
    BY <1>4, GuidFacts DEF Close, Return, netVars, worldVars
  <2>2. IssuedOK'
    BY <1>4, GuidFacts DEF Close, Return, netVars, worldVars
  <2>3. AcceptingOK'
    BY <1>4, GuidFacts DEF Close, Return, netVars, worldVars
  <2>4. (KnownListed /\ KnownQueued /\ KnownToWorld /\ KnownToNetwork)'
    BY <1>4, GuidFacts DEF Close, Return, netVars, worldVars
  <2>5. ClosedIsBeingRemoved'
    BY <1>4, GuidFacts DEF Close, Return, netVars, worldVars
  <2>6. OpenIsRegistered'
    BY <1>4, GuidFacts DEF Close, Return, netVars, worldVars
  <2>7. OpenIsReading'
    BY <1>4, GuidFacts DEF Close, Return, netVars, worldVars
  <2>. QED
    BY <2>1, <2>2, <2>3, <2>4, <2>5, <2>6, <2>7
<1>5. ASSUME NEW t \in Thread, RemoveSessionByPlayerID(t) PROVE StateOK'
  <2>1. ThreadsOK'
    BY <1>5, GuidFacts DEF RemoveSessionByPlayerID, Return, netVars, worldVars
  <2>2. IssuedOK'
    BY <1>5, GuidFacts DEF RemoveSessionByPlayerID, Return, netVars, worldVars
  <2>3. AcceptingOK'
    BY <1>5, GuidFacts DEF RemoveSessionByPlayerID, Return, netVars, worldVars
  <2>4. (KnownListed /\ KnownQueued /\ KnownToWorld /\ KnownToNetwork)'
    <3>1. KnownListed'
      BY <1>5, GuidFacts DEF RemoveSessionByPlayerID, Return, netVars, worldVars
    <3>2. KnownQueued'
      <4>1. \A h \in GUID : Known(h) => Known(h)'
        BY <1>5, GuidFacts DEF RemoveSessionByPlayerID, Return, netVars,
           worldVars
      <4>2. queue' = queue
        BY <1>5 DEF RemoveSessionByPlayerID, Return, netVars, worldVars
      <4>. QED
        BY <4>1, <4>2, QueueKept
    <3>3. KnownToWorld'
      <4>1. \A h \in GUID : Known(h) => Known(h)'
        BY <1>5 DEF RemoveSessionByPlayerID, Return, netVars
      <4>2. self'["world"] = self["world"]
        BY <1>5 DEF RemoveSessionByPlayerID, Return
      <4>. QED
        BY <4>1, <4>2
    <3>4. KnownToNetwork'
      BY <1>5, GuidFacts DEF RemoveSessionByPlayerID, Return, netVars, worldVars
    <3>. QED
      BY <3>1, <3>2, <3>3, <3>4
  <2>5. ClosedIsBeingRemoved'
    BY <1>5, GuidFacts DEF RemoveSessionByPlayerID, Return, netVars, worldVars
  <2>6. OpenIsRegistered'
    BY <1>5, GuidFacts DEF RemoveSessionByPlayerID, Return, netVars, worldVars
  <2>7. OpenIsReading'
    BY <1>5, GuidFacts DEF RemoveSessionByPlayerID, Return, netVars, worldVars
  <2>. QED
    BY <2>1, <2>2, <2>3, <2>4, <2>5, <2>6, <2>7
<1>6. CASE TryDequeue
  <2>1. ThreadsOK'
    BY <1>6, GuidFacts DEF TryDequeue, Return, netVars, worldVars
  <2>2. IssuedOK'
    BY <1>6, GuidFacts DEF TryDequeue, Return, netVars, worldVars
  <2>3. AcceptingOK'
    BY <1>6, GuidFacts DEF TryDequeue, Return, netVars, worldVars
  <2>4. (KnownListed /\ KnownQueued /\ KnownToWorld /\ KnownToNetwork)'
    <3>1. KnownListed'
      BY <1>6, GuidFacts DEF TryDequeue, Return, netVars, worldVars
    <3>2. KnownQueued'
      <4>1. \A h \in GUID : Known(h) => Known(h)'
        BY <1>6 DEF TryDequeue, netVars
      <4>2. queue # <<>> /\ queue' = Tail(queue)
        BY <1>6 DEF TryDequeue
      <4>. QED
        BY <4>1, <4>2, QueueTail
    <3>3. KnownToWorld'
      <4>1. queue # <<>> /\ 1 \in 1..Len(queue) /\ self'.world = queue[1][1]
        BY <1>6, HeadTyped DEF TryDequeue
      <4>2. Known(queue[1][1])
        BY <4>1
      <4>. QED
        BY <1>6, <4>1, <4>2 DEF TryDequeue, netVars
    <3>4. KnownToNetwork'
      BY <1>6, GuidFacts DEF TryDequeue, Return, netVars, worldVars
    <3>. QED
      BY <3>1, <3>2, <3>3, <3>4
  <2>5. ClosedIsBeingRemoved'
    BY <1>6, GuidFacts DEF TryDequeue, Return, netVars, worldVars
  <2>6. OpenIsRegistered'
    BY <1>6, GuidFacts DEF TryDequeue, Return, netVars, worldVars
  <2>7. OpenIsReading'
    BY <1>6, GuidFacts DEF TryDequeue, Return, netVars, worldVars
  <2>. QED
    BY <2>1, <2>2, <2>3, <2>4, <2>5, <2>6, <2>7
<1>7. CASE HandlerThrows
  BY <1>7, GuidFacts DEF HandlerThrows, Return, netVars, worldVars
<1>8. CASE GetSessions
  BY <1>8, GuidFacts DEF GetSessions, Return, netVars, worldVars
<1>9. CASE EndTick
  BY <1>9, GuidFacts DEF EndTick, Return, netVars, worldVars
<1>10. ASSUME NEW R \in SUBSET (registry \cup {self.world}),
   HandlePacket(R) PROVE StateOK'
  <2>1. ThreadsOK'
    BY <1>10, GuidFacts DEF HandlePacket, SendPackets, Return, netVars,
       worldVars
  <2>2. IssuedOK'
    BY <1>10, GuidFacts DEF HandlePacket, SendPackets, Return, netVars,
       worldVars
  <2>3. AcceptingOK'
    BY <1>10, GuidFacts DEF HandlePacket, SendPackets, Return, netVars,
       worldVars
  <2>4. (KnownListed /\ KnownQueued /\ KnownToWorld /\ KnownToNetwork)'
    BY <1>10, GuidFacts DEF HandlePacket, SendPackets, Return, netVars,
       worldVars
  <2>5. ClosedIsBeingRemoved'
    BY <1>10, GuidFacts DEF HandlePacket, SendPackets, Return, netVars,
       worldVars
  <2>6. OpenIsRegistered'
    BY <1>10, GuidFacts DEF HandlePacket, SendPackets, Return, netVars,
       worldVars
  <2>7. OpenIsReading'
    BY <1>10, GuidFacts DEF HandlePacket, SendPackets, Return, netVars,
       worldVars
  <2>. QED
    BY <2>1, <2>2, <2>3, <2>4, <2>5, <2>6, <2>7
<1>11. ASSUME NEW g \in todo, NEW R \in SUBSET {g}, VisitSession(g, R) PROVE StateOK'
  <2>1. ThreadsOK'
    BY <1>11, GuidFacts DEF VisitSession, SendPackets, Return, netVars,
       worldVars
  <2>2. IssuedOK'
    BY <1>11, GuidFacts DEF VisitSession, SendPackets, Return, netVars,
       worldVars
  <2>3. AcceptingOK'
    BY <1>11, GuidFacts DEF VisitSession, SendPackets, Return, netVars,
       worldVars
  <2>4. (KnownListed /\ KnownQueued /\ KnownToWorld /\ KnownToNetwork)'
    BY <1>11, GuidFacts DEF VisitSession, SendPackets, Return, netVars,
       worldVars
  <2>5. ClosedIsBeingRemoved'
    BY <1>11, GuidFacts DEF VisitSession, SendPackets, Return, netVars,
       worldVars
  <2>6. OpenIsRegistered'
    BY <1>11, GuidFacts DEF VisitSession, SendPackets, Return, netVars,
       worldVars
  <2>7. OpenIsReading'
    BY <1>11, GuidFacts DEF VisitSession, SendPackets, Return, netVars,
       worldVars
  <2>. QED
    BY <2>1, <2>2, <2>3, <2>4, <2>5, <2>6, <2>7
<1>12. ASSUME NEW g \in GUID, HangUp(g) PROVE StateOK'
  BY <1>12, GuidFacts DEF HangUp, Return, netVars, worldVars
<1>13. ASSUME NEW g \in GUID, PayloadArrives(g) PROVE StateOK'
  BY <1>13, GuidFacts DEF PayloadArrives, Return, netVars, worldVars
<1>14. ASSUME NEW g \in GUID, NEW k \in FrameKind, HeaderArrives(g, k) PROVE StateOK'
  <2>1. ThreadsOK'
    BY <1>14, GuidFacts DEF HeaderArrives, FrameKind, Return, netVars, worldVars
  <2>2. IssuedOK'
    BY <1>14, GuidFacts DEF HeaderArrives, FrameKind, Return, netVars, worldVars
  <2>3. AcceptingOK'
    BY <1>14, GuidFacts DEF HeaderArrives, FrameKind, Return, netVars, worldVars
  <2>4. (KnownListed /\ KnownQueued /\ KnownToWorld /\ KnownToNetwork)'
    BY <1>14, GuidFacts DEF HeaderArrives, FrameKind, Return, netVars, worldVars
  <2>5. ClosedIsBeingRemoved'
    BY <1>14, GuidFacts DEF HeaderArrives, FrameKind, Return, netVars, worldVars
  <2>6. OpenIsRegistered'
    BY <1>14, GuidFacts DEF HeaderArrives, FrameKind, Return, netVars, worldVars
  <2>7. OpenIsReading'
    BY <1>14, GuidFacts DEF HeaderArrives, FrameKind, Return, netVars, worldVars
  <2>. QED
    BY <2>1, <2>2, <2>3, <2>4, <2>5, <2>6, <2>7
<1>15. ASSUME NEW g \in GUID, Accept(g) PROVE StateOK'
  <2>1. ThreadsOK'
    BY <1>15, GuidFacts DEF Accept, Return, netVars, worldVars
  <2>2. IssuedOK'
    BY <1>15, GuidFacts DEF Accept, Return, netVars, worldVars
  <2>3. AcceptingOK'
    BY <1>15, GuidFacts DEF Accept, Return, netVars, worldVars
  <2>4. (KnownListed /\ KnownQueued /\ KnownToWorld /\ KnownToNetwork)'
    <3>1. KnownListed'
      BY <1>15, GuidFacts DEF Accept, Return, netVars, worldVars
    <3>2. KnownQueued'
      <4>1. \A h \in GUID : Known(h) => Known(h)'
        BY <1>15, GuidFacts DEF Accept, Return, netVars, worldVars
      <4>2. queue' = queue
        BY <1>15 DEF Accept, Return, netVars, worldVars
      <4>. QED
        BY <4>1, <4>2, QueueKept
    <3>3. KnownToWorld'
      BY <1>15, GuidFacts DEF Accept, Return, netVars, worldVars
    <3>4. KnownToNetwork'
      BY <1>15, GuidFacts DEF Accept, Return, netVars, worldVars
    <3>. QED
      BY <3>1, <3>2, <3>3, <3>4
  <2>5. ClosedIsBeingRemoved'
    BY <1>15, GuidFacts DEF Accept, Return, netVars, worldVars
  <2>6. OpenIsRegistered'
    BY <1>15, GuidFacts DEF Accept, Return, netVars, worldVars
  <2>7. OpenIsReading'
    BY <1>15, GuidFacts DEF Accept, Return, netVars, worldVars
  <2>. QED
    BY <2>1, <2>2, <2>3, <2>4, <2>5, <2>6, <2>7
<1>16. ASSUME NEW g \in GUID, HeaderRead(g) PROVE StateOK'
  BY <1>16, GuidFacts DEF HeaderRead, Return, netVars, worldVars
<1>17. ASSUME NEW g \in GUID, EnqueuePacket(g) PROVE StateOK'
  <2>1. ThreadsOK'
    BY <1>17, GuidFacts DEF EnqueuePacket, Return, netVars, worldVars
  <2>2. IssuedOK'
    BY <1>17, GuidFacts DEF EnqueuePacket, Return, netVars, worldVars
  <2>3. AcceptingOK'
    BY <1>17, GuidFacts DEF EnqueuePacket, Return, netVars, worldVars
  <2>4. (KnownListed /\ KnownQueued /\ KnownToWorld /\ KnownToNetwork)'
    BY <1>17, GuidFacts DEF EnqueuePacket, Return, netVars, worldVars
  <2>5. ClosedIsBeingRemoved'
    BY <1>17, GuidFacts DEF EnqueuePacket, Return, netVars, worldVars
  <2>6. OpenIsRegistered'
    BY <1>17, GuidFacts DEF EnqueuePacket, Return, netVars, worldVars
  <2>7. OpenIsReading'
    BY <1>17, GuidFacts DEF EnqueuePacket, Return, netVars, worldVars
  <2>. QED
    BY <2>1, <2>2, <2>3, <2>4, <2>5, <2>6, <2>7
<1>18. ASSUME NEW g \in GUID, ReadGivesUp(g) PROVE StateOK'
  BY <1>18, GuidFacts DEF ReadGivesUp, Return, netVars, worldVars
<1>19. ASSUME NEW g \in GUID, WriteDone(g) PROVE StateOK'
  BY <1>19, GuidFacts DEF WriteDone, Return, netVars, worldVars
<1>20. ASSUME NEW g \in GUID, WriteFails(g) PROVE StateOK'
  BY <1>20, GuidFacts DEF WriteFails, Return, netVars, worldVars
<1>21. CASE UNCHANGED vars
  BY <1>21, GuidFacts DEF vars, netVars, worldVars
<1>22. QED
  BY <1>1, <1>2, <1>3, <1>4, <1>5, <1>6, <1>7, <1>8, <1>9, <1>10, <1>11,
     <1>12, <1>13, <1>14, <1>15, <1>16, <1>17, <1>18, <1>19, <1>20, <1>21
  DEF Next, NetworkStep, WorldStep, Disconnect, Environment, ReadStep


----------------------------------------------------------------------------
LEMMA Initially == Init => IInv
<1> SUFFICES ASSUME Init PROVE IInv
  OBVIOUS
<1> USE BoundsAssumption DEF Init, Thread
<1>1. TypeOK
  BY DEF TypeOK, GUID, NoGUID, ReadState
<1>2. ThreadsOK /\ IssuedOK /\ AcceptingOK
  BY DEF ThreadsOK, IssuedOK, AcceptingOK, GUID
<1>3. KnownListed /\ KnownQueued /\ KnownToWorld /\ KnownToNetwork
  BY DEF KnownListed, KnownQueued, KnownToWorld, KnownToNetwork
<1>4. ClosedIsBeingRemoved /\ OpenIsRegistered /\ OpenIsReading
  BY DEF ClosedIsBeingRemoved, OpenIsRegistered, OpenIsReading
<1> QED
  BY <1>1, <1>2, <1>3, <1>4 DEF IInv, StateOK

LEMMA Invariance == Spec => []IInv
<1>1. IInv /\ [Next]_vars => IInv'
  BY TypeStep, Inductive DEF IInv, StateOK
<1> QED
  BY Initially, <1>1, PTL DEF Spec

\* Every variable keeps its type on every execution of the two threads.
THEOREM TypeCorrect == Spec => []TypeOK
<1>1. IInv => TypeOK
  BY DEF IInv, StateOK
<1> QED
  BY Invariance, <1>1, PTL

\* The unlocked test in Disconnect never leaves a closed session listed: the
\* thread that closed it is about to remove it (WorldSession.cpp:88-95).
THEOREM ClosedSessionsAreRemoved == Spec => []ClosedIsBeingRemoved
<1>1. IInv => ClosedIsBeingRemoved
  BY DEF IInv, StateOK
<1> QED
  BY Invariance, <1>1, PTL

\* A connection is listed from AddSession until its socket is closed.
THEOREM OpenSessionsAreListed == Spec => []OpenIsRegistered
<1>1. IInv => OpenIsRegistered
  BY DEF IInv, StateOK
<1> QED
  BY Invariance, <1>1, PTL

\* The read loop of an open connection never stops.
THEOREM OpenSessionsRead == Spec => []OpenIsReading
<1>1. IInv => OpenIsReading
  BY DEF IInv, StateOK
<1> QED
  BY Invariance, <1>1, PTL

\* ~WorldSession always finds its socket closed, so dropping the last reference
\* with m_mutex held does not lock m_mutex again.
THEOREM DestructorNeverLocks == Spec => []DestructorFindsClosed
<1>1. IInv => DestructorFindsClosed
  BY DEF IInv, StateOK, TypeOK, OpenIsRegistered, DestructorFindsClosed, Freed, Held,
     Thread
<1> QED
  BY Invariance, <1>1, PTL
\* No action gives a destroyed session a reference again.
LEMMA FreedStays ==
  ASSUME IInv, [Next]_vars, NEW f \in GUID, Freed(f)
  PROVE  Freed(f)'
<1> USE DEF IInv, StateOK, TypeOK, ThreadsOK, IssuedOK, Freed, Held, Thread
<1>1. CASE AddSession
  <2>1. \A u \in Thread : self'[u] \in {self[u], NoGUID}
    BY <1>1 DEF AddSession, Return
  <2>2. f # NoGUID /\ \A u \in Thread : self'[u] # f
    BY <2>1, GuidFacts
  <2>. QED
    BY <1>1, <2>2 DEF AddSession, Return, netVars, worldVars
<1>2. CASE ReadHeader
  <2>1. \A u \in Thread : self'[u] \in {self[u], NoGUID}
    BY <1>2 DEF ReadHeader, Return
  <2>2. f # NoGUID /\ \A u \in Thread : self'[u] # f
    BY <2>1, GuidFacts
  <2>. QED
    BY <1>2, <2>2 DEF ReadHeader, Return, netVars, worldVars
<1>3. ASSUME NEW t \in Thread, TestOpen(t) PROVE Freed(f)'
  <2>1. \A u \in Thread : self'[u] \in {self[u], NoGUID}
    BY <1>3 DEF TestOpen, Return
  <2>2. f # NoGUID /\ \A u \in Thread : self'[u] # f
    BY <2>1, GuidFacts
  <2>. QED
    BY <1>3, <2>2 DEF TestOpen, Return, netVars, worldVars
<1>4. ASSUME NEW t \in Thread, Close(t) PROVE Freed(f)'
  BY <1>4 DEF Close, Return, netVars, worldVars
<1>5. ASSUME NEW t \in Thread, RemoveSessionByPlayerID(t) PROVE Freed(f)'
  <2>1. \A u \in Thread : self'[u] \in {self[u], NoGUID}
    BY <1>5 DEF RemoveSessionByPlayerID, Return
  <2>2. f # NoGUID /\ \A u \in Thread : self'[u] # f
    BY <2>1, GuidFacts
  <2>. QED
    BY <1>5, <2>2 DEF RemoveSessionByPlayerID, Return, netVars, worldVars
<1>6. CASE TryDequeue
  <2>1. queue # <<>> /\ queue' = Tail(queue) /\ self'.world = Head(queue)[1]
    BY <1>6 DEF TryDequeue
  <2>2. \A i \in 1..Len(queue) : queue[i][1] # f
    OBVIOUS
  <2>5. Head(queue) = queue[1] /\ 1 \in 1..Len(queue)
    BY <2>1, HeadTyped
  <2>3. \A i \in 1..Len(queue') : queue'[i][1] # f
    BY <2>1, <2>2
  <2>4. \A u \in Thread : self'[u] # f
    BY <1>6, <2>1, <2>2, <2>5 DEF TryDequeue
  <2>. QED
    BY <1>6, <2>3, <2>4 DEF TryDequeue, netVars
<1>7. CASE HandlerThrows
  BY <1>7 DEF HandlerThrows, Return, netVars, worldVars
<1>8. CASE GetSessions
  BY <1>8 DEF GetSessions, Return, netVars, worldVars
<1>9. CASE EndTick
  <2>1. \A u \in Thread : self'[u] \in {self[u], NoGUID}
    BY <1>9 DEF EndTick
  <2>2. f # NoGUID /\ \A u \in Thread : self'[u] # f
    BY <2>1, GuidFacts
  <2>. QED
    BY <1>9, <2>2 DEF EndTick, netVars, worldVars
<1>10. ASSUME NEW R \in SUBSET (registry \cup {self.world}),
   HandlePacket(R) PROVE Freed(f)'
  BY <1>10 DEF HandlePacket, Return, netVars, worldVars, SendPackets
<1>11. ASSUME NEW g \in todo, NEW R \in SUBSET {g}, VisitSession(g, R)
   PROVE Freed(f)'
  BY <1>11 DEF VisitSession, Return, netVars, worldVars, SendPackets
<1>12. ASSUME NEW g \in GUID, HangUp(g) PROVE Freed(f)'
  BY <1>12 DEF HangUp, Return, netVars, worldVars
<1>13. ASSUME NEW g \in GUID, PayloadArrives(g) PROVE Freed(f)'
  BY <1>13 DEF PayloadArrives, Return, netVars, worldVars
<1>14. ASSUME NEW g \in GUID, NEW k \in FrameKind, HeaderArrives(g, k)
   PROVE Freed(f)'
  BY <1>14 DEF HeaderArrives, Return, netVars, worldVars
<1>15. ASSUME NEW g \in GUID, Accept(g) PROVE Freed(f)'
  BY <1>15 DEF Accept, Return, netVars, worldVars
<1>16. ASSUME NEW g \in GUID, HeaderRead(g) PROVE Freed(f)'
  BY <1>16 DEF HeaderRead, Return, netVars, worldVars
<1>17. ASSUME NEW g \in GUID, EnqueuePacket(g) PROVE Freed(f)'
  BY <1>17 DEF EnqueuePacket, Return, netVars, worldVars
<1>18. ASSUME NEW g \in GUID, ReadGivesUp(g) PROVE Freed(f)'
  BY <1>18 DEF ReadGivesUp, Return, netVars, worldVars
<1>19. ASSUME NEW g \in GUID, WriteDone(g) PROVE Freed(f)'
  BY <1>19 DEF WriteDone, Return, netVars, worldVars
<1>20. ASSUME NEW g \in GUID, WriteFails(g) PROVE Freed(f)'
  BY <1>20 DEF WriteFails, Return, netVars, worldVars
<1>21. CASE UNCHANGED vars
  BY <1>21 DEF vars, netVars, worldVars
<1>22. QED
  BY <1>1, <1>2, <1>3, <1>4, <1>5, <1>6, <1>7, <1>8, <1>9, <1>10, <1>11,
     <1>12, <1>13, <1>14, <1>15, <1>16, <1>17, <1>18, <1>19, <1>20, <1>21
  DEF Next, NetworkStep, WorldStep, Disconnect, Environment, ReadStep

\* Once the last reference is gone nothing refers to the session again.
THEOREM FreedSessionsStayFreed == Spec => FreedForever
<1>1. IInv /\ [Next]_vars => [\A g \in GUID : Freed(g) => Freed(g)']_vars
  BY FreedStays
<1> QED
  BY Invariance, <1>1, PTL DEF Spec, FreedForever

\* A step of the two threads is a Join, a Lose or a Leave of the registry, or
\* does not show in it.
LEMMA StepRefines ==
  ASSUME IInv, [Next]_vars PROVE [Registry!Next]_(Registry!vars)
<1> USE DEF IInv, StateOK, TypeOK, ThreadsOK, IssuedOK, Thread, Registry!vars,
   Registry!Next, Registry!Join, Registry!Lose, Registry!Leave, Registry!GUID,
   GUID
<1>1. CASE AddSession
  <2> DEFINE g == self.network
  <2>1. g \in GUID /\ g \notin registry /\ g = nextPlayerId - 1
    BY <1>1 DEF AddSession, AcceptingOK
  <2>2. \A h \in registry : h < g
    BY <1>1, <2>1 DEF AddSession, KnownListed, Known
  <2>3. \A h \in GUID : sock[h] # "unborn" /\ h # g => h < g
    BY <2>1
  <2>4. Registry!Join(g)
    BY <1>1, <2>1, <2>2, <2>3 DEF AddSession, Return, netVars, worldVars
  <2>. QED
    BY <2>1, <2>4
<1>2. CASE ReadHeader
  BY <1>2 DEF ReadHeader, Return, netVars, worldVars
<1>3. ASSUME NEW t \in Thread, TestOpen(t) PROVE [Registry!Next]_(Registry!vars)
  BY <1>3 DEF TestOpen, Return, netVars, worldVars
<1>4. ASSUME NEW t \in Thread, Close(t) PROVE [Registry!Next]_(Registry!vars)
  <2>1. self[t] \in GUID /\ sock[self[t]] # "unborn"
    BY <1>4 DEF Close, KnownToWorld, Known, KnownToNetwork
  <2>2. CASE sock[self[t]] = "closed" \/ peer[self[t]] = "gone"
    BY <1>4, <2>1, <2>2 DEF Close, netVars, worldVars
  <2>3. CASE sock[self[t]] # "closed" /\ peer[self[t]] # "gone"
    <3>1. Registry!Lose(self[t])
      BY <1>4, <2>1, <2>3 DEF Close, netVars, worldVars
    <3>. QED
      BY <2>1, <3>1
  <2>. QED
    BY <2>2, <2>3
<1>5. ASSUME NEW t \in Thread, RemoveSessionByPlayerID(t)
   PROVE [Registry!Next]_(Registry!vars)
  <2>1. self[t] \in GUID /\ sock[self[t]] = "closed"
    BY <1>5 DEF RemoveSessionByPlayerID
  <2>2. registry' = registry \ {self[t]}
    BY <1>5, <2>1, GuidFacts DEF RemoveSessionByPlayerID
  <2>3. CASE self[t] \in registry
    <3>1. Registry!Leave(self[t])
      <4>1. ~(pc.network = "add" /\ self.network = self[t])
        BY <2>3 DEF AcceptingOK
      <4>2. \A h \in GUID : (pc.network = "add" /\ self.network = h)
                           <=> (pc.network = "add" /\ self.network = h)'
        BY <1>5, GuidFacts DEF RemoveSessionByPlayerID, Return
      <4>. QED
        BY <1>5, <2>1, <2>2, <2>3, <4>1, <4>2 DEF RemoveSessionByPlayerID,
           netVars
    <3>. QED
      BY <2>1, <3>1
  <2>4. CASE self[t] \notin registry
    BY <1>5, <2>1, <2>2, <2>4 DEF RemoveSessionByPlayerID, Return, netVars,
       worldVars
  <2>. QED
    BY <2>3, <2>4
<1>6. CASE TryDequeue
  BY <1>6 DEF TryDequeue, Return, netVars, worldVars
<1>7. CASE HandlerThrows
  BY <1>7 DEF HandlerThrows, Return, netVars, worldVars
<1>8. CASE GetSessions
  BY <1>8 DEF GetSessions, Return, netVars, worldVars
<1>9. CASE EndTick
  BY <1>9 DEF EndTick, Return, netVars, worldVars
<1>10. ASSUME NEW R \in SUBSET (registry \cup {self.world}),
   HandlePacket(R) PROVE [Registry!Next]_(Registry!vars)
  BY <1>10 DEF HandlePacket, Return, netVars, worldVars, SendPackets
<1>11. ASSUME NEW g \in todo, NEW R \in SUBSET {g}, VisitSession(g, R)
   PROVE [Registry!Next]_(Registry!vars)
  BY <1>11 DEF VisitSession, Return, netVars, worldVars, SendPackets
<1>12. ASSUME NEW g \in GUID, HangUp(g) PROVE [Registry!Next]_(Registry!vars)
  BY <1>12 DEF HangUp, Return, netVars, worldVars
<1>13. ASSUME NEW g \in GUID, PayloadArrives(g)
   PROVE [Registry!Next]_(Registry!vars)
  BY <1>13 DEF PayloadArrives, Return, netVars, worldVars
<1>14. ASSUME NEW g \in GUID, NEW k \in FrameKind, HeaderArrives(g, k)
   PROVE [Registry!Next]_(Registry!vars)
  BY <1>14 DEF HeaderArrives, Return, netVars, worldVars
<1>15. ASSUME NEW g \in GUID, Accept(g) PROVE [Registry!Next]_(Registry!vars)
  BY <1>15 DEF Accept, Return, netVars, worldVars
<1>16. ASSUME NEW g \in GUID, HeaderRead(g)
   PROVE [Registry!Next]_(Registry!vars)
  BY <1>16 DEF HeaderRead, Return, netVars, worldVars
<1>17. ASSUME NEW g \in GUID, EnqueuePacket(g)
   PROVE [Registry!Next]_(Registry!vars)
  BY <1>17 DEF EnqueuePacket, Return, netVars, worldVars
<1>18. ASSUME NEW g \in GUID, ReadGivesUp(g)
   PROVE [Registry!Next]_(Registry!vars)
  BY <1>18 DEF ReadGivesUp, Return, netVars, worldVars
<1>19. ASSUME NEW g \in GUID, WriteDone(g) PROVE [Registry!Next]_(Registry!vars)
  BY <1>19 DEF WriteDone, Return, netVars, worldVars
<1>20. ASSUME NEW g \in GUID, WriteFails(g)
   PROVE [Registry!Next]_(Registry!vars)
  BY <1>20 DEF WriteFails, Return, netVars, worldVars
<1>21. CASE UNCHANGED vars
  BY <1>21 DEF vars, netVars, worldVars
<1>22. QED
  BY <1>1, <1>2, <1>3, <1>4, <1>5, <1>6, <1>7, <1>8, <1>9, <1>10, <1>11,
     <1>12, <1>13, <1>14, <1>15, <1>16, <1>17, <1>18, <1>19, <1>20, <1>21
  DEF Next, NetworkStep, WorldStep, Disconnect, Environment, ReadStep

\* The session list behaves as SessionRegistry says, fairness aside: a session
\* is listed once, in the order of the GUIDs, and leaves once, after it was lost.
THEOREM ImplementsRegistry ==
  Spec => Registry!Init /\ [][Registry!Next]_(Registry!vars)
<1>1. Init => Registry!Init
  BY DEF Init, Registry!Init
<1>2. IInv /\ [Next]_vars => [Registry!Next]_(Registry!vars)
  BY StepRefines
<1> QED
  BY <1>1, <1>2, Invariance, PTL DEF Spec

----------------------------------------------------------------------------
(* The packet queue.                                                       *)

\* Besides the property itself: no packet is handled before it was enqueued.
QueueOK == PacketsInOrder /\ \A g \in GUID : handled[g] <= frames[g]

\* A new packet is the next of its session.
LEMMA EnqueueKeepsOrder ==
  ASSUME TypeOK, QueueOK, NEW g \in GUID, EnqueuePacket(g) PROVE QueueOK'
<1> DEFINE e == <<g, frames[g] + 1>>
           n == Len(queue)
<1>1. /\ queue' = Append(queue, e) /\ frames' = [frames EXCEPT ![g] = @ + 1]
      /\ handled' = handled
  BY DEF EnqueuePacket, worldVars
<1>2. /\ n \in Nat /\ DOMAIN queue = 1..n /\ DOMAIN queue' = 1..(n + 1)
      /\ \A k \in 1..n : queue'[k] = queue[k]
      /\ queue'[n + 1] = e
      /\ \A k \in 1..n : queue[k][1] \in GUID /\ queue[k][2] \in Nat
  <2>1. queue \in Seq(GUID \X Nat) /\ e \in GUID \X Nat
    BY DEF TypeOK
  <2> HIDE DEF e
  <2>2. n \in Nat /\ DOMAIN queue = 1..n /\ \A k \in 1..n : queue[k] \in GUID \X Nat
    BY <2>1
  <2>3. /\ DOMAIN queue' = 1..(n + 1) /\ queue'[n + 1] = e
        /\ \A k \in 1..n : queue'[k] = queue[k]
    BY <1>1, <2>1
  <2> QED
    BY <2>2, <2>3
<1>3. /\ frames'[g] = frames[g] + 1 /\ \A h \in GUID : h # g => frames'[h] = frames[h]
      /\ \A h \in GUID : frames[h] \in Nat /\ frames'[h] \in Nat /\ handled[h] \in Nat
      /\ \A h \in GUID : frames'[h] >= frames[h]
  BY <1>1 DEF TypeOK
<1>4. /\ \A h \in GUID : handled[h] <= frames[h]
      /\ \A k \in 1..n : queue[k][2] > handled[queue[k][1]] /\ queue[k][2] <= frames[queue[k][1]]
      /\ \A h \in GUID : \A m \in (handled[h] + 1)..frames[h] :
           \E k \in 1..n : queue[k] = <<h, m>>
      /\ \A j, k \in 1..n : j < k /\ queue[j][1] = queue[k][1] => queue[j][2] < queue[k][2]
  BY <1>2 DEF QueueOK, PacketsInOrder
<1>5. e[1] = g /\ e[2] = frames[g] + 1
  OBVIOUS
<1> HIDE DEF e, n
<1>6. \A h \in GUID : handled'[h] <= frames'[h]
  BY <1>1, <1>3, <1>4
<1>7. ASSUME NEW k \in 1..(n + 1)
      PROVE  queue'[k][2] > handled'[queue'[k][1]] /\ queue'[k][2] <= frames'[queue'[k][1]]
  <2>1. CASE k \in 1..n
    <3>1. queue'[k] = queue[k] /\ queue[k][1] \in GUID /\ queue[k][2] \in Nat
      BY <1>2, <2>1
    <3>2. queue[k][2] > handled[queue[k][1]] /\ queue[k][2] <= frames[queue[k][1]]
      BY <1>4, <2>1
    <3>3. frames'[queue[k][1]] >= frames[queue[k][1]] /\ frames'[queue[k][1]] \in Nat
          /\ frames[queue[k][1]] \in Nat
      BY <1>3, <3>1
    <3> QED
      BY <1>1, <3>1, <3>2, <3>3
  <2>2. CASE k = n + 1
    BY <1>1, <1>2, <1>3, <1>4, <1>5, <2>2
  <2> QED
    BY <1>2, <2>1, <2>2
<1>8. ASSUME NEW h \in GUID, NEW m \in (handled'[h] + 1)..frames'[h]
      PROVE  \E k \in 1..(n + 1) : queue'[k] = <<h, m>>
  <2>1. CASE h = g /\ m = frames[g] + 1
    BY <1>2, <2>1 DEF e
  <2>2. CASE ~(h = g /\ m = frames[g] + 1)
    <3>1. m \in (handled[h] + 1)..frames[h]
      BY <1>1, <1>3, <2>2
    <3>2. PICK k \in 1..n : queue[k] = <<h, m>>
      BY <1>4, <3>1
    <3> QED
      BY <1>2, <3>2
  <2> QED
    BY <2>1, <2>2
<1>9. ASSUME NEW j \in 1..(n + 1), NEW k \in 1..(n + 1), j < k, queue'[j][1] = queue'[k][1]
      PROVE  queue'[j][2] < queue'[k][2]
  <2>1. j \in 1..n /\ queue'[j] = queue[j] /\ queue[j][1] \in GUID /\ queue[j][2] \in Nat
    BY <1>2, <1>9
  <2>2. CASE k \in 1..n
    BY <1>2, <1>4, <1>9, <2>1, <2>2
  <2>3. CASE k = n + 1
    <3>1. queue[j][1] = g /\ queue'[k][2] = frames[g] + 1
      BY <1>2, <1>5, <1>9, <2>1, <2>3
    <3>2. queue[j][2] <= frames[g]
      BY <1>4, <2>1, <3>1
    <3> QED
      BY <1>3, <2>1, <3>1, <3>2
  <2> QED
    BY <1>2, <2>2, <2>3
<1> QED
  BY <1>2, <1>6, <1>7, <1>8, <1>9 DEF QueueOK, PacketsInOrder

\* The packet taken is the oldest of its session that was not handled.
LEMMA DequeueKeepsOrder ==
  ASSUME TypeOK, QueueOK, TryDequeue PROVE QueueOK'
<1> DEFINE n == Len(queue)
           g == queue[1][1]
           m == queue[1][2]
<1>1. /\ queue # <<>> /\ queue' = Tail(queue) /\ frames' = frames
      /\ handled' = [handled EXCEPT ![Head(queue)[1]] = Head(queue)[2]]
  BY DEF TryDequeue, netVars
<1>2. /\ n \in Nat \ {0} /\ DOMAIN queue = 1..n /\ DOMAIN queue' = 1..(n - 1)
      /\ \A k \in 1..(n - 1) : queue'[k] = queue[k + 1]
      /\ \A k \in 1..n : queue[k][1] \in GUID /\ queue[k][2] \in Nat
      /\ Head(queue) = queue[1]
  BY <1>1 DEF TypeOK
<1>3. /\ \A h \in GUID : frames[h] \in Nat /\ handled[h] \in Nat
      /\ g \in GUID /\ m \in Nat
      /\ handled'[g] = m /\ \A h \in GUID : h # g => handled'[h] = handled[h]
  BY <1>1, <1>2 DEF TypeOK
<1>4. /\ \A h \in GUID : handled[h] <= frames[h]
      /\ \A k \in 1..n : queue[k][2] > handled[queue[k][1]] /\ queue[k][2] <= frames[queue[k][1]]
      /\ \A h \in GUID : \A x \in (handled[h] + 1)..frames[h] :
           \E k \in 1..n : queue[k] = <<h, x>>
      /\ \A j, k \in 1..n : j < k /\ queue[j][1] = queue[k][1] => queue[j][2] < queue[k][2]
  BY <1>2 DEF QueueOK, PacketsInOrder
<1>5. m > handled[g] /\ m <= frames[g]
  BY <1>2, <1>4
<1>6. \A k \in 2..n : queue[k][1] = g => m < queue[k][2]
  BY <1>2, <1>4
<1> HIDE DEF n, g, m
<1>7. \A h \in GUID : handled'[h] <= frames'[h]
  BY <1>1, <1>3, <1>4, <1>5
<1>8. ASSUME NEW k \in 1..(n - 1)
      PROVE  queue'[k][2] > handled'[queue'[k][1]] /\ queue'[k][2] <= frames'[queue'[k][1]]
  <2>1. k + 1 \in 1..n /\ k + 1 \in 2..n /\ queue'[k] = queue[k + 1]
    BY <1>2
  <2>2. queue[k + 1][2] > handled[queue[k + 1][1]] /\ queue[k + 1][2] <= frames[queue[k + 1][1]]
        /\ queue[k + 1][1] \in GUID
    BY <1>2, <1>4, <2>1
  <2>3. queue[k + 1][1] = g => queue[k + 1][2] > m
    BY <1>2, <1>3, <1>6, <2>1
  <2> QED
    BY <1>1, <1>3, <2>1, <2>2, <2>3
<1>9. ASSUME NEW h \in GUID, NEW x \in (handled'[h] + 1)..frames'[h]
      PROVE  \E k \in 1..(n - 1) : queue'[k] = <<h, x>>
  <2>1. x \in (handled[h] + 1)..frames[h] /\ ~(h = g /\ x = m)
    BY <1>1, <1>3, <1>5
  <2>2. PICK k \in 1..n : queue[k] = <<h, x>>
    BY <1>4, <2>1
  <2>3. k # 1
    BY <2>1, <2>2 DEF g, m
  <2>4. k - 1 \in 1..(n - 1) /\ (k - 1) + 1 = k
    BY <1>2, <2>3
  <2>5. queue'[k - 1] = queue[k]
    BY <1>2, <2>4
  <2> QED
    BY <2>2, <2>4, <2>5
<1>10. ASSUME NEW j \in 1..(n - 1), NEW k \in 1..(n - 1), j < k, queue'[j][1] = queue'[k][1]
       PROVE  queue'[j][2] < queue'[k][2]
  <2>1. /\ j + 1 \in 1..n /\ k + 1 \in 1..n /\ j + 1 < k + 1
        /\ queue'[j] = queue[j + 1] /\ queue'[k] = queue[k + 1]
    BY <1>2, <1>10
  <2> QED
    BY <1>4, <1>10, <2>1
<1> QED
  BY <1>2, <1>7, <1>8, <1>9, <1>10 DEF QueueOK, PacketsInOrder

LEMMA QueueStep ==
  ASSUME TypeOK, QueueOK, [Next]_vars PROVE QueueOK'
<1>1. ASSUME UNCHANGED <<queue, frames, handled>> PROVE QueueOK'
  BY <1>1 DEF QueueOK, PacketsInOrder
<1>2. ASSUME NEW g \in GUID, EnqueuePacket(g) PROVE QueueOK'
  BY <1>2, EnqueueKeepsOrder
<1>3. CASE TryDequeue
  BY <1>3, DequeueKeepsOrder
<1>4. CASE NetworkStep
  BY <1>1, <1>4 DEF NetworkStep, AddSession, ReadHeader, Disconnect,
     TestOpen, Close, RemoveSessionByPlayerID, Return, netVars, worldVars
<1>5. CASE WorldStep
  BY <1>1, <1>3, <1>5 DEF WorldStep, HandlerThrows, GetSessions, EndTick, Disconnect,
     TestOpen, Close, RemoveSessionByPlayerID, Return, HandlePacket, VisitSession, netVars,
     worldVars
<1>6. ASSUME NEW g \in GUID,
             Environment(g) \/ Accept(g) \/ ReadStep(g) \/ WriteDone(g) \/ WriteFails(g)
      PROVE  QueueOK'
  BY <1>1, <1>2, <1>6 DEF Environment, HangUp, PayloadArrives, HeaderArrives,
     Accept, ReadStep, HeaderRead, ReadGivesUp, WriteDone, WriteFails, Return, netVars,
     worldVars
<1>7. CASE UNCHANGED vars
  BY <1>1, <1>7 DEF vars, netVars, worldVars
<1> QED
  BY <1>4, <1>5, <1>6, <1>7 DEF Next

LEMMA QueueInvariance == Spec => []QueueOK
<1>1. Init => QueueOK
  BY DEF Init, QueueOK, PacketsInOrder
<1>2. IInv /\ QueueOK /\ [Next]_vars => QueueOK'
  BY QueueStep DEF IInv
<1> QED
  BY Invariance, <1>1, <1>2, PTL DEF Spec

\* Packets are handled in the order they came, none twice and none left out, although
\* both threads disconnect sessions whose packets wait in the queue.
THEOREM PacketsAreInOrder == Spec => []PacketsInOrder
<1>1. QueueOK => PacketsInOrder
  BY DEF QueueOK
<1> QED
  BY QueueInvariance, <1>1, PTL

\* The packet at the head of the queue is the next one of its session.
LEMMA HeadIsNext ==
  ASSUME TypeOK, QueueOK, queue # <<>>
  PROVE  queue[1][2] = handled[queue[1][1]] + 1
<1> DEFINE g == queue[1][1]
           m == queue[1][2]
<1>1. 1 \in DOMAIN queue /\ g \in GUID /\ m \in Nat
  BY DEF TypeOK
<1>2. handled[g] \in Nat /\ frames[g] \in Nat /\ m > handled[g] /\ m <= frames[g]
  BY <1>1 DEF TypeOK, QueueOK, PacketsInOrder
<1>3. PICK k \in DOMAIN queue : queue[k] = <<g, handled[g] + 1>>
  <2>1. handled[g] + 1 \in (handled[g] + 1)..frames[g]
    BY <1>1, <1>2
  <2> QED
    BY <1>1, <2>1 DEF QueueOK, PacketsInOrder
<1>4. k = 1 \/ 1 < k
  BY <1>3 DEF TypeOK
<1>5. 1 < k => m < handled[g] + 1
  BY <1>1, <1>3 DEF QueueOK, PacketsInOrder
<1> HIDE DEF g, m
<1>6. k = 1
  BY <1>1, <1>2, <1>4, <1>5
<1> QED
  BY <1>3, <1>6 DEF g, m

\* For every session and every step of either thread.
HandledInTurn == [][\A g \in GUID : handled'[g] \in {handled[g], handled[g] + 1}]_handled

\* The handlers of World::Run see the packets of a session one after the other and
\* leave none out, up to the last one that was enqueued before a Disconnect.
THEOREM PacketsAreHandledInTurn == Spec => HandledInTurn
<1> DEFINE InTurn == \A g \in GUID : handled'[g] \in {handled[g], handled[g] + 1}
<1>1. ASSUME TypeOK, QueueOK, [Next]_vars PROVE InTurn \/ UNCHANGED handled
  <2>1. CASE TryDequeue
    <3>1. queue # <<>> /\ Head(queue) = queue[1] /\ queue[1][1] \in GUID
      BY <1>1, <2>1, HeadTyped DEF TryDequeue
    <3>2. queue[1][2] = handled[queue[1][1]] + 1
      BY <1>1, <3>1, HeadIsNext
    <3>3. handled' = [handled EXCEPT ![queue[1][1]] = handled[queue[1][1]] + 1]
      BY <2>1, <3>1, <3>2 DEF TryDequeue
    <3>4. handled \in [GUID -> Nat]
      BY <1>1 DEF TypeOK
    <3> QED
      BY <3>1, <3>3, <3>4
  <2>2. CASE ~TryDequeue
    BY <1>1, <2>2 DEF Next, NetworkStep, WorldStep, AddSession, ReadHeader, Disconnect,
       TestOpen, Close, RemoveSessionByPlayerID, Return, HandlerThrows, GetSessions,
       EndTick, HandlePacket, VisitSession, Environment, HangUp, PayloadArrives,
       HeaderArrives, Accept, ReadStep, HeaderRead, EnqueuePacket, ReadGivesUp,
       WriteDone, WriteFails, netVars, worldVars, vars
  <2> QED
    BY <2>1, <2>2
<1>2. IInv /\ QueueOK /\ [Next]_vars => [InTurn]_handled
  BY <1>1 DEF IInv
<1> QED
  BY Invariance, QueueInvariance, <1>2, PTL DEF Spec, HandledInTurn
=============================================================================
