----------------------- MODULE PlayerVisibility_proofs -----------------------
(***************************************************************************)
(* Proofs about PlayerVisibility, for every grid, every number of players  *)
(* and every movement: what a client shows agrees with the server's view.  *)
(***************************************************************************)
EXTENDS PlayerVisibility, TLAPS

\* Every session that was ever listed.
Joined == members \cup departed

\* Nobody sees, or is sent anything about, a player that was never listed, and
\* a player that was never listed sees nobody.
JoinedOK ==
  /\ members \cap departed = {}
  /\ \A c \in GridIDs : playersByGrid[c] \subseteq Joined
  /\ \A g \in GUID : /\ currentVisible[g] \subseteq Joined
                     /\ previousVisible[g] \subseteq Joined
                     /\ known[g] \subseteq Joined
  /\ \A g \in GUID \ Joined :
       currentVisible[g] = {} /\ previousVisible[g] = {} /\ known[g] = {}
  /\ \A w \in work : w[1] \in Joined /\ w[3] \in Joined

\* What the passes still mean to send.
WorkOK ==
  /\ pc \in {"packets", "visible", "players"} => work = {}
  /\ pc = "sendPlayers" => \A w \in work :
       \/ w[2] = Despawn /\ w[3] \notin currentVisible[w[1]]
       \/ w[2] = Spawn /\ w[3] \in currentVisible[w[1]]
  /\ pc = "sendMovement" => \A w \in work :
       w[2] = Movement /\ w[3] \in currentVisible[w[1]]

\* What client v shows of the connected player t, in the middle of a tick: the
\* sets of the last tick until the spawns begin, then those of this tick but
\* for the packets not yet sent.
Shown(v, t) ==
  CASE pc = "players" -> t \in previousVisible[v]
    [] pc = "sendPlayers" /\ <<v, Despawn, t>> \in work -> TRUE
    [] pc = "sendPlayers" /\ <<v, Spawn, t>> \in work -> FALSE
    [] OTHER -> t \in currentVisible[v]

ShownOK == \A v, t \in members : t \in known[v] <=> Shown(v, t)

IInv == TypeOK /\ JoinedOK /\ WorkOK /\ ShownOK

\* The rest of a step of the session list.
ListOnly == UNCHANGED <<gridVars, viewVars, known, pc, work>>

LEMMA SessionCases ==
  SessionStep => \E g \in GUID : ListOnly /\ (Registry!Join(g) \/ Registry!Lose(g) \/ Registry!Leave(g))
  BY DEF SessionStep, ListOnly, Registry!Next, Registry!GUID, GUID

\* A cell of the grid has an identifier of the grid.
LEMMA GridIDRange ==
  ASSUME NEW x \in 0..(CountX - 1), NEW y \in 0..(CountY - 1)
  PROVE  GridID(x, y) \in GridIDs
<1>1. y * CountX \in Nat /\ y * CountX <= (CountY - 1) * CountX
  BY GridAssumption
<1>2. (CountY - 1) * CountX = CountX * CountY - CountX
  BY GridAssumption
<1> QED
  BY <1>1, <1>2, GridAssumption DEF GridID, GridIDs

LEMMA CellInGrid ==
  ASSUME NEW p \in Int \X Int
  PROVE  /\ GridX(p) \in 0..(CountX - 1) /\ GridY(p) \in 0..(CountY - 1)
         /\ CellOf(p) \in GridIDs
<1>1. Truncate(p[1] - MinX, GridSize) \in Int /\ Truncate(p[2] - MinY, GridSize) \in Int
  BY GridAssumption DEF Truncate
<1>2. GridX(p) \in 0..(CountX - 1) /\ GridY(p) \in 0..(CountY - 1)
  BY <1>1, GridAssumption DEF GridX, GridY, Clamp
<1> QED
  BY <1>2, GridIDRange DEF CellOf

LEMMA NeighboursInGrid ==
  ASSUME NEW x \in Int, NEW y \in Int
  PROVE  GetVisibleGrids(x, y) \subseteq GridIDs
  BY GridIDRange DEF GetVisibleGrids

LEMMA TypeStep ==
  ASSUME TypeOK, [Next]_vars PROVE TypeOK'
<1> USE GridAssumption DEF TypeOK, Despawn, Spawn, Movement
<1>1. ASSUME NEW g \in GUID, Registry!Join(g), ListOnly PROVE TypeOK'
  BY <1>1 DEF Registry!Join, ListOnly, sessionVars, gridVars, viewVars
<1>2. ASSUME NEW g \in GUID, Registry!Lose(g), ListOnly PROVE TypeOK'
  BY <1>2 DEF Registry!Lose, ListOnly, sessionVars, gridVars, viewVars
<1>3. ASSUME NEW g \in GUID, Registry!Leave(g), ListOnly PROVE TypeOK'
  BY <1>3 DEF Registry!Leave, ListOnly, sessionVars, gridVars, viewVars
<1>4. ASSUME NEW g \in GUID, NEW p \in Positions,
      HandleLocationRotation(g, p) PROVE TypeOK'
  BY <1>4 DEF HandleLocationRotation, sessionVars, gridVars, viewVars
<1>5. CASE CalculatePlayerGridCoordinates
  <2>1. \A g \in GUID : /\ CellOf(position[g]) \in GridIDs
                        /\ GetVisibleGrids(GridX(position[g]), GridY(position[g])) \subseteq GridIDs
    BY CellInGrid, NeighboursInGrid
  <2>. QED
    BY <1>5, <2>1 DEF CalculatePlayerGridCoordinates, sessionVars, gridVars,
       viewVars
<1>6. CASE CalculateVisiblePlayers
  BY <1>6 DEF CalculateVisiblePlayers, sessionVars, gridVars, viewVars
<1>7. CASE SendPlayerUpdates
  BY <1>7 DEF SendPlayerUpdates, sessionVars, gridVars, viewVars
<1>8. CASE SendMovementUpdates
  BY <1>8 DEF SendMovementUpdates, sessionVars, gridVars, viewVars
<1>9. ASSUME NEW v \in GUID, NEW t \in GUID, SendSpawn(v, t) PROVE TypeOK'
  BY <1>9 DEF SendSpawn, IsNext, sessionVars, gridVars, viewVars
<1>10. ASSUME NEW v \in GUID, NEW t \in GUID, SendDespawn(v, t) PROVE TypeOK'
  BY <1>10 DEF SendDespawn, IsNext, sessionVars, gridVars, viewVars
<1>11. ASSUME NEW v \in GUID, NEW t \in GUID, SendMovement(v, t) PROVE TypeOK'
  BY <1>11 DEF SendMovement, IsNext, sessionVars, gridVars, viewVars
<1>12. CASE EndTick
  BY <1>12 DEF EndTick, sessionVars, gridVars, viewVars
<1>13. CASE UNCHANGED vars
  BY <1>13 DEF vars, sessionVars, gridVars, viewVars
<1>14. QED
  BY <1>1, <1>2, <1>3, <1>4, <1>5, <1>6, <1>7, <1>8, <1>9, <1>10, <1>11,
     <1>12, <1>13, SessionCases DEF Next, Tick, Send

LEMMA JoinedStep ==
  ASSUME TypeOK, JoinedOK, [Next]_vars PROVE JoinedOK'
<1> USE GridAssumption DEF TypeOK, JoinedOK, Joined, Despawn, Spawn, Movement
<1>1. ASSUME NEW g \in GUID, Registry!Join(g), ListOnly PROVE JoinedOK'
  <2>1. g \notin members /\ g \notin departed
    BY <1>1 DEF Registry!Join, GUID
  <2>. QED
    BY <1>1, <2>1 DEF Registry!Join, ListOnly, gridVars, viewVars
<1>2. ASSUME NEW g \in GUID, Registry!Lose(g), ListOnly PROVE JoinedOK'
  BY <1>2 DEF Registry!Lose, ListOnly, sessionVars, gridVars, viewVars
<1>3. ASSUME NEW g \in GUID, Registry!Leave(g), ListOnly PROVE JoinedOK'
  BY <1>3 DEF Registry!Leave, ListOnly, sessionVars, gridVars, viewVars
<1>4. ASSUME NEW g \in GUID, NEW p \in Positions,
      HandleLocationRotation(g, p) PROVE JoinedOK'
  BY <1>4 DEF HandleLocationRotation, sessionVars, gridVars, viewVars
<1>5. CASE CalculatePlayerGridCoordinates
  BY <1>5 DEF CalculatePlayerGridCoordinates, sessionVars, gridVars, viewVars
<1>6. CASE CalculateVisiblePlayers
  BY <1>6 DEF CalculateVisiblePlayers, sessionVars, gridVars, viewVars
<1>7. CASE SendPlayerUpdates
  BY <1>7 DEF SendPlayerUpdates, sessionVars, gridVars, viewVars
<1>8. CASE SendMovementUpdates
  BY <1>8 DEF SendMovementUpdates, sessionVars, gridVars, viewVars
<1>9. ASSUME NEW v \in GUID, NEW t \in GUID, SendSpawn(v, t) PROVE JoinedOK'
  BY <1>9 DEF SendSpawn, IsNext, sessionVars, gridVars, viewVars
<1>10. ASSUME NEW v \in GUID, NEW t \in GUID, SendDespawn(v, t) PROVE JoinedOK'
  BY <1>10 DEF SendDespawn, IsNext, sessionVars, gridVars, viewVars
<1>11. ASSUME NEW v \in GUID, NEW t \in GUID, SendMovement(v, t) PROVE JoinedOK'
  BY <1>11 DEF SendMovement, IsNext, sessionVars, gridVars, viewVars
<1>12. CASE EndTick
  BY <1>12 DEF EndTick, sessionVars, gridVars, viewVars
<1>13. CASE UNCHANGED vars
  BY <1>13 DEF vars, sessionVars, gridVars, viewVars
<1>14. QED
  BY <1>1, <1>2, <1>3, <1>4, <1>5, <1>6, <1>7, <1>8, <1>9, <1>10, <1>11,
     <1>12, <1>13, SessionCases DEF Next, Tick, Send

LEMMA WorkStep ==
  ASSUME TypeOK, JoinedOK, WorkOK, [Next]_vars PROVE WorkOK'
<1> USE GridAssumption DEF TypeOK, JoinedOK, WorkOK, Despawn, Spawn, Movement
<1>1. ASSUME NEW g \in GUID, Registry!Join(g), ListOnly PROVE WorkOK'
  BY <1>1 DEF Registry!Join, ListOnly, sessionVars, gridVars, viewVars
<1>2. ASSUME NEW g \in GUID, Registry!Lose(g), ListOnly PROVE WorkOK'
  BY <1>2 DEF Registry!Lose, ListOnly, sessionVars, gridVars, viewVars
<1>3. ASSUME NEW g \in GUID, Registry!Leave(g), ListOnly PROVE WorkOK'
  BY <1>3 DEF Registry!Leave, ListOnly, sessionVars, gridVars, viewVars
<1>4. ASSUME NEW g \in GUID, NEW p \in Positions,
      HandleLocationRotation(g, p) PROVE WorkOK'
  BY <1>4 DEF HandleLocationRotation, sessionVars, gridVars, viewVars
<1>5. CASE CalculatePlayerGridCoordinates
  BY <1>5 DEF CalculatePlayerGridCoordinates, sessionVars, gridVars, viewVars
<1>6. CASE CalculateVisiblePlayers
  BY <1>6 DEF CalculateVisiblePlayers, sessionVars, gridVars, viewVars
<1>7. CASE SendPlayerUpdates
  BY <1>7 DEF SendPlayerUpdates, sessionVars, gridVars, viewVars
<1>8. CASE SendMovementUpdates
  BY <1>8 DEF SendMovementUpdates, sessionVars, gridVars, viewVars
<1>9. ASSUME NEW v \in GUID, NEW t \in GUID, SendSpawn(v, t) PROVE WorkOK'
  BY <1>9 DEF SendSpawn, IsNext, sessionVars, gridVars, viewVars
<1>10. ASSUME NEW v \in GUID, NEW t \in GUID, SendDespawn(v, t) PROVE WorkOK'
  BY <1>10 DEF SendDespawn, IsNext, sessionVars, gridVars, viewVars
<1>11. ASSUME NEW v \in GUID, NEW t \in GUID, SendMovement(v, t) PROVE WorkOK'
  BY <1>11 DEF SendMovement, IsNext, sessionVars, gridVars, viewVars
<1>12. CASE EndTick
  BY <1>12 DEF EndTick, sessionVars, gridVars, viewVars
<1>13. CASE UNCHANGED vars
  BY <1>13 DEF vars, sessionVars, gridVars, viewVars
<1>14. QED
  BY <1>1, <1>2, <1>3, <1>4, <1>5, <1>6, <1>7, <1>8, <1>9, <1>10, <1>11,
     <1>12, <1>13, SessionCases DEF Next, Tick, Send

LEMMA ShownStep ==
  ASSUME IInv, [Next]_vars PROVE ShownOK'
<1> USE GridAssumption DEF IInv, TypeOK, JoinedOK, Joined, WorkOK, ShownOK,
   Shown, Despawn, Spawn, Movement
<1>1. ASSUME NEW g \in GUID, Registry!Join(g), ListOnly PROVE ShownOK'
  <2>1. g \notin Joined
    BY <1>1 DEF Registry!Join, GUID
  <2>2. \A u \in GUID, t \in GUID : Shown(u, t) <=> Shown(u, t)'
    BY <1>1 DEF ListOnly, gridVars, viewVars
  <2>3. \A t \in GUID : t \notin known[g] /\ ~Shown(g, t)
    BY <2>1
  <2>4. \A u \in GUID : g \notin known[u] /\ ~Shown(u, g)
    BY <2>1
  <2>5. known' = known /\ members' = members \cup {g}
    BY <1>1 DEF Registry!Join, ListOnly
  <2>6. SUFFICES ASSUME NEW u \in members', NEW t \in members'
                 PROVE  t \in known'[u] <=> Shown(u, t)'
    OBVIOUS
  <2>7. CASE u \in members /\ t \in members
    <3>1. t \in known[u] <=> Shown(u, t)
      BY <2>7
    <3>. QED
      BY <2>2, <2>5, <2>7, <3>1
  <2>8. CASE u = g \/ t = g
    <3>1. u \in GUID /\ t \in GUID
      BY <2>5
    <3>2. t \notin known[u] /\ ~Shown(u, t)
      BY <2>3, <2>4, <2>8, <3>1
    <3>. QED
      BY <2>2, <2>5, <3>1, <3>2
  <2>. QED
    BY <2>5, <2>7, <2>8
<1>2. ASSUME NEW g \in GUID, Registry!Lose(g), ListOnly PROVE ShownOK'
  BY <1>2 DEF Registry!Lose, ListOnly, sessionVars, gridVars, viewVars
<1>3. ASSUME NEW g \in GUID, Registry!Leave(g), ListOnly PROVE ShownOK'
  BY <1>3 DEF Registry!Leave, ListOnly, sessionVars, gridVars, viewVars
<1>4. ASSUME NEW g \in GUID, NEW p \in Positions,
      HandleLocationRotation(g, p) PROVE ShownOK'
  BY <1>4 DEF HandleLocationRotation, sessionVars, gridVars, viewVars
<1>5. CASE CalculatePlayerGridCoordinates
  BY <1>5 DEF CalculatePlayerGridCoordinates, sessionVars, gridVars, viewVars
<1>6. CASE CalculateVisiblePlayers
  BY <1>6 DEF CalculateVisiblePlayers, sessionVars, gridVars, viewVars
<1>7. CASE SendPlayerUpdates
  BY <1>7 DEF SendPlayerUpdates, sessionVars, gridVars, viewVars
<1>8. CASE SendMovementUpdates
  BY <1>8 DEF SendMovementUpdates, sessionVars, gridVars, viewVars
<1>9. ASSUME NEW v \in GUID, NEW t \in GUID, SendSpawn(v, t) PROVE ShownOK'
  <2>1. <<v, Spawn, t>> \in work /\ work' = work \ {<<v, Spawn, t>>} /\ pc' = pc
    BY <1>9 DEF SendSpawn, IsNext
  <2>2. pc = "sendPlayers"
    BY <2>1
  <2>3. SUFFICES ASSUME NEW u \in members, NEW s \in members
                 PROVE  s \in known'[u] <=> Shown(u, s)'
    BY <1>9 DEF SendSpawn, sessionVars
  <2>4. CASE u = v /\ s = t
    BY <1>9, <2>1, <2>2, <2>4 DEF SendSpawn, sessionVars, viewVars
  <2>5. CASE ~(u = v /\ s = t)
    <3>1. s \in known'[u] <=> s \in known[u]
      BY <1>9, <2>5 DEF SendSpawn
    <3>2. Shown(u, s)' <=> Shown(u, s)
      BY <1>9, <2>1, <2>2, <2>5 DEF SendSpawn, viewVars
    <3>. QED
      BY <3>1, <3>2
  <2>. QED
    BY <2>4, <2>5
<1>10. ASSUME NEW v \in GUID, NEW t \in GUID, SendDespawn(v, t) PROVE ShownOK'
  <2>1. <<v, Despawn, t>> \in work /\ work' = work \ {<<v, Despawn, t>>} /\ pc' = pc
    BY <1>10 DEF SendDespawn, IsNext
  <2>2. pc = "sendPlayers"
    BY <2>1
  <2>3. SUFFICES ASSUME NEW u \in members, NEW s \in members
                 PROVE  s \in known'[u] <=> Shown(u, s)'
    BY <1>10 DEF SendDespawn, sessionVars
  <2>4. CASE u = v /\ s = t
    BY <1>10, <2>1, <2>2, <2>4 DEF SendDespawn, sessionVars, viewVars
  <2>5. CASE ~(u = v /\ s = t)
    <3>1. s \in known'[u] <=> s \in known[u]
      BY <1>10, <2>5 DEF SendDespawn
    <3>2. Shown(u, s)' <=> Shown(u, s)
      BY <1>10, <2>1, <2>2, <2>5 DEF SendDespawn, viewVars
    <3>. QED
      BY <3>1, <3>2
  <2>. QED
    BY <2>4, <2>5
<1>11. ASSUME NEW v \in GUID, NEW t \in GUID, SendMovement(v, t) PROVE ShownOK'
  <2>1. <<v, Movement, t>> \in work /\ work' = work \ {<<v, Movement, t>>} /\ pc' = pc
    BY <1>11 DEF SendMovement, IsNext
  <2>2. pc = "sendMovement"
    BY <2>1
  <2>3. \A u, s \in GUID : Shown(u, s)' <=> Shown(u, s)
    BY <1>11, <2>1, <2>2 DEF SendMovement, viewVars
  <2>. QED
    BY <1>11, <2>3 DEF SendMovement, sessionVars
<1>12. CASE EndTick
  BY <1>12 DEF EndTick, sessionVars, gridVars, viewVars
<1>13. CASE UNCHANGED vars
  BY <1>13 DEF vars, sessionVars, gridVars, viewVars
<1>14. QED
  BY <1>1, <1>2, <1>3, <1>4, <1>5, <1>6, <1>7, <1>8, <1>9, <1>10, <1>11,
     <1>12, <1>13, SessionCases DEF Next, Tick, Send


----------------------------------------------------------------------------
LEMMA Initially == Init => IInv
<1> SUFFICES ASSUME Init PROVE IInv
  OBVIOUS
<1> USE GridAssumption DEF Init, Registry!Init
<1>1. TypeOK
  BY DEF TypeOK, Origin, GUID
<1>2. JoinedOK /\ WorkOK
  BY DEF JoinedOK, WorkOK, Joined
<1>3. ShownOK
  BY DEF ShownOK
<1> QED
  BY <1>1, <1>2, <1>3 DEF IInv

LEMMA Invariance == Spec => []IInv
<1>1. IInv /\ [Next]_vars => IInv'
  BY TypeStep, JoinedStep, WorkStep, ShownStep DEF IInv
<1> QED
  BY Initially, <1>1, PTL DEF Spec

\* Every variable of the tick keeps its type; in particular every position, also
\* one far outside, maps to a cell of the grid.
THEOREM TypeCorrect == Spec => []TypeOK
<1>1. IInv => TypeOK
  BY DEF IInv
<1> QED
  BY Invariance, <1>1, PTL

\* Between the sends of two ticks, what a connected client shows of the connected
\* players is what the server believes it sees (SendPlayerUpdates).
THEOREM ClientsAgreeWithServer == Spec => []ClientSeesVisible
<1>1. IInv => ClientSeesVisible
  <2> SUFFICES ASSUME IInv, pc \in {"packets", "visible", "sendMovement"},
                      NEW v \in members
               PROVE  known[v] \cap members = currentVisible[v] \cap members
    BY DEF ClientSeesVisible
  <2>1. \A t \in members : t \in known[v] <=> t \in currentVisible[v]
    BY DEF IInv, ShownOK, Shown
  <2> QED
    BY <2>1
<1> QED
  BY Invariance, <1>1, PTL

\* Spawns go only for players a client does not show, despawns and positions only
\* for players it does.
THEOREM PacketsFit == Spec => PacketsFitClient
<1> DEFINE Fit == \A v, t \in members :
       /\ SendSpawn(v, t) => t \notin known[v]
       /\ SendDespawn(v, t) => t \in known[v]
       /\ SendMovement(v, t) => t \in known[v]
<1>1. IInv => Fit
  <2> SUFFICES ASSUME IInv, NEW v \in members, NEW t \in members
               PROVE  /\ SendSpawn(v, t) => t \notin known[v]
                      /\ SendDespawn(v, t) => t \in known[v]
                      /\ SendMovement(v, t) => t \in known[v]
    OBVIOUS
  <2>1. t \in known[v] <=> Shown(v, t)
    BY DEF IInv, ShownOK
  <2> USE DEF IInv, TypeOK, WorkOK, Shown, IsNext, Despawn, Spawn, Movement
  <2>2. SendSpawn(v, t) => t \notin known[v]
    BY <2>1 DEF SendSpawn
  <2>3. SendDespawn(v, t) => t \in known[v]
    BY <2>1 DEF SendDespawn
  <2>4. SendMovement(v, t) => t \in known[v]
    BY <2>1 DEF SendMovement
  <2> QED
    BY <2>2, <2>3, <2>4
<1>2. IInv /\ [Next]_vars => [Fit]_vars
  BY <1>1
<1> QED
  BY Invariance, <1>2, PTL DEF Spec, PacketsFitClient

----------------------------------------------------------------------------
(* What the server takes two players to see of each other.                 *)

\* Different cells have different identifiers.
LEMMA GridIDInjective ==
  ASSUME NEW x \in 0..(CountX - 1), NEW y \in Nat,
         NEW u \in 0..(CountX - 1), NEW v \in Nat, GridID(x, y) = GridID(u, v)
  PROVE  x = u /\ y = v
<1> DEFINE w == CountX
<1> USE GridAssumption
<1>1. y * w + x = v * w + u
  BY DEF GridID
<1>2. ASSUME NEW a \in Nat, NEW b \in Nat, a < b PROVE b * w >= a * w + w
  <2>1. b * w = a * w + w + (b - a - 1) * w
    BY <1>2
  <2>2. (b - a - 1) * w >= 0
    BY <1>2
  <2> QED
    BY <2>1, <2>2
<1>3. y * w \in Int /\ v * w \in Int /\ w \in Nat
  OBVIOUS
<1>4. ~(y < v)
  BY <1>1, <1>2, <1>3
<1>5. ~(v < y)
  BY <1>1, <1>2, <1>3
<1>6. y = v
  BY <1>4, <1>5
<1> QED
  BY <1>1, <1>3, <1>6

\* The visible cells of a position are those of the positions near it.
LEMMA VisibleCells ==
  ASSUME NEW p \in Int \X Int, NEW q \in Int \X Int
  PROVE  CellOf(q) \in GetVisibleGrids(GridX(p), GridY(p)) <=> Near(p, q)
<1> DEFINE xp == GridX(p)
           yp == GridY(p)
           xq == GridX(q)
           yq == GridY(q)
<1>1. /\ xp \in 0..(CountX - 1) /\ yp \in 0..(CountY - 1)
      /\ xq \in 0..(CountX - 1) /\ yq \in 0..(CountY - 1)
  BY CellInGrid
<1>2. Near(p, q) <=> xp - xq \in -1..1 /\ yp - yq \in -1..1
  BY DEF Near
<1>3. CellOf(q) = GridID(xq, yq)
  BY DEF CellOf
<1> HIDE DEF xp, yp, xq, yq
<1> USE GridAssumption
<1>4. ASSUME xp - xq \in -1..1, yp - yq \in -1..1
      PROVE  GridID(xq, yq) \in GetVisibleGrids(xp, yp)
  <2>1. xq \in {xp - 1, xp, xp + 1} \cap 0..(CountX - 1)
    BY <1>1, <1>4
  <2>2. yq \in {yp - 1, yp, yp + 1} \cap 0..(CountY - 1)
    BY <1>1, <1>4
  <2> QED
    BY <2>1, <2>2 DEF GetVisibleGrids
<1>5. ASSUME GridID(xq, yq) \in GetVisibleGrids(xp, yp)
      PROVE  xp - xq \in -1..1 /\ yp - yq \in -1..1
  <2>1. PICK nx \in {xp - 1, xp, xp + 1} \cap 0..(CountX - 1),
             ny \in {yp - 1, yp, yp + 1} \cap 0..(CountY - 1) :
               GridID(xq, yq) = GridID(nx, ny)
    BY <1>5 DEF GetVisibleGrids
  <2>2. nx = xq /\ ny = yq
    BY <1>1, <2>1, GridIDInjective
  <2> QED
    BY <1>1, <2>1, <2>2
<1> QED
  BY <1>2, <1>3, <1>4, <1>5 DEF xp, yp, xq, yq

LEMMA NearIsMutual ==
  ASSUME NEW p \in Int \X Int, NEW q \in Int \X Int
  PROVE  Near(p, q) <=> Near(q, p)
<1>1. /\ GridX(p) \in Int /\ GridY(p) \in Int /\ GridX(q) \in Int /\ GridY(q) \in Int
  BY CellInGrid, GridAssumption
<1> QED
  BY <1>1 DEF Near

\* The player has not left the cell that it was placed in.
Placed(g) == zoneID[g] = CellOf(position[g])

\* Everyone in the visible cells of v but v.
InSight(v) == (UNION {playersByGrid[c] : c \in visibleGrids[v]}) \ {v}

\* The cached cells of a player are those around the cell it was placed in; only a
\* player that has left, or was never placed, is in no cell; and nobody moves
\* between the placing and the end of the tick.
PlaceOK ==
  /\ \A g \in GUID :
       \/ zoneID[g] = NoZone /\ visibleGrids[g] = {}
       \/ \E x \in 0..(CountX - 1), y \in 0..(CountY - 1) :
            zoneID[g] = GridID(x, y) /\ visibleGrids[g] = GetVisibleGrids(x, y)
  /\ \A c \in GridIDs : \A g \in playersByGrid[c] : zoneID[g] = c
  /\ \A g \in GUID \ departed : g \in Located \/ visibleGrids[g] = {}
  /\ pc # "packets" => \A g \in Located : Placed(g)

\* The visible sets are those of the cells, except while the cells are new.
SightOK == pc # "visible" => \A v \in members : currentVisible[v] = InSight(v)

\* Two connected players see each other or neither sees the other.
Mutual == \A v, w \in members : v \in currentVisible[w] <=> w \in currentVisible[v]

VInv == IInv /\ PlaceOK /\ SightOK /\ Mutual

\* A player that has not left its cell has the cells around its position cached.
LEMMA PlacedCells ==
  ASSUME TypeOK, PlaceOK, NEW g \in GUID, Placed(g)
  PROVE  visibleGrids[g] = GetVisibleGrids(GridX(position[g]), GridY(position[g]))
<1>1. position[g] \in Int \X Int
  BY DEF TypeOK
<1> DEFINE u == GridX(position[g])
           v == GridY(position[g])
<1>2. u \in 0..(CountX - 1) /\ v \in 0..(CountY - 1) /\ zoneID[g] = GridID(u, v)
      /\ zoneID[g] \in GridIDs
  BY <1>1, CellInGrid DEF Placed, CellOf
<1>3. zoneID[g] # NoZone
  BY <1>2, GridAssumption DEF GridIDs, NoZone
<1>4. PICK x \in 0..(CountX - 1), y \in 0..(CountY - 1) :
        zoneID[g] = GridID(x, y) /\ visibleGrids[g] = GetVisibleGrids(x, y)
  BY <1>3 DEF PlaceOK
<1> HIDE DEF u, v
<1>5. GridID(x, y) = GridID(u, v) /\ y \in Nat /\ v \in Nat
  BY <1>2, <1>4, GridAssumption
<1>6. x = u /\ y = v
  BY <1>2, <1>5, GridIDInjective
<1> QED
  BY <1>4, <1>6 DEF u, v

\* Of two such players, one is in sight of the other just when their cells touch.
LEMMA InSightIffNear ==
  ASSUME TypeOK, PlaceOK, NEW v \in Located, NEW w \in Located \ {v},
         Placed(v), Placed(w)
  PROVE  w \in InSight(v) <=> Near(position[v], position[w])
<1>1. v \in GUID /\ w \in GUID
  BY DEF TypeOK, Located
<1>2. position[v] \in Int \X Int /\ position[w] \in Int \X Int
  BY <1>1 DEF TypeOK
<1>3. \A c \in GridIDs : w \in playersByGrid[c] <=> c = zoneID[w]
  BY DEF PlaceOK, Located
<1>4. visibleGrids[v] \subseteq GridIDs
  BY <1>1 DEF TypeOK
<1>5. w \in InSight(v) <=> zoneID[w] \in visibleGrids[v]
  <2> DEFINE S == {playersByGrid[c] : c \in visibleGrids[v]}
  <2>1. w \in UNION S <=> \E c \in visibleGrids[v] : w \in playersByGrid[c]
    <3>1. \A s : s \in S <=> \E c \in visibleGrids[v] : s = playersByGrid[c]
      OBVIOUS
    <3> HIDE DEF S
    <3>2. w \in UNION S <=> \E s \in S : w \in s
      OBVIOUS
    <3> QED
      BY <3>1, <3>2
  <2>2. w \in InSight(v) <=> w \in UNION S
    BY DEF InSight
  <2> QED
    BY <1>3, <1>4, <2>1, <2>2
<1>6. zoneID[w] = CellOf(position[w])
  BY DEF Placed
<1>7. visibleGrids[v] = GetVisibleGrids(GridX(position[v]), GridY(position[v]))
  BY <1>1, PlacedCells
<1> QED
  BY <1>2, <1>5, <1>6, <1>7, VisibleCells

\* The placing puts every listed player, and nobody else, in one cell.
LEMMA PlacingLocates ==
  ASSUME TypeOK, CalculatePlayerGridCoordinates
  PROVE  Located' = members
<1> DEFINE S == {playersByGrid'[c] : c \in GridIDs}
<1>1. playersByGrid' = [c \in GridIDs |-> {g \in members : CellOf(position[g]) = c}]
  BY DEF CalculatePlayerGridCoordinates
<1>2. \A g \in members : CellOf(position[g]) \in GridIDs
  BY CellInGrid DEF TypeOK
<1>3. Located' = UNION S
  BY DEF Located
<1>4. \A g : g \in UNION S <=> \E c \in GridIDs : g \in playersByGrid'[c]
  <2>1. \A s : s \in S <=> \E c \in GridIDs : s = playersByGrid'[c]
    OBVIOUS
  <2> HIDE DEF S
  <2>2. \A g : g \in UNION S <=> \E s \in S : g \in s
    OBVIOUS
  <2> QED
    BY <2>1, <2>2
<1>5. \A g : g \in UNION S <=> g \in members
  BY <1>1, <1>2, <1>4
<1> HIDE DEF S
<1> QED
  BY <1>3, <1>5

LEMMA LocatedJoined ==
  ASSUME TypeOK, JoinedOK PROVE Located \subseteq Joined
  BY DEF TypeOK, JoinedOK, Located

LEMMA PlaceStep ==
  ASSUME TypeOK, JoinedOK, PlaceOK, [Next]_vars PROVE PlaceOK'
<1> USE GridAssumption DEF PlaceOK, Placed
<1>1. ASSUME NEW g \in GUID, Registry!Join(g), ListOnly PROVE PlaceOK'
  BY <1>1 DEF Registry!Join, ListOnly, gridVars, viewVars, Located
<1>2. ASSUME NEW g \in GUID, Registry!Lose(g), ListOnly PROVE PlaceOK'
  BY <1>2 DEF Registry!Lose, ListOnly, gridVars, viewVars, Located
<1>3. ASSUME NEW g \in GUID, Registry!Leave(g), ListOnly PROVE PlaceOK'
  BY <1>3 DEF Registry!Leave, ListOnly, gridVars, viewVars, Located
<1>4. ASSUME NEW g \in GUID, NEW p \in Positions,
      HandleLocationRotation(g, p) PROVE PlaceOK'
  BY <1>4 DEF HandleLocationRotation, sessionVars, viewVars, Located
<1>5. CASE CalculatePlayerGridCoordinates
  <2> USE <1>5 DEF CalculatePlayerGridCoordinates, sessionVars, TypeOK
  <2>1. Located' = members
    BY PlacingLocates
  <2>2. ASSUME NEW g \in GUID
        PROVE  \/ zoneID'[g] = NoZone /\ visibleGrids'[g] = {}
               \/ \E x \in 0..(CountX - 1), y \in 0..(CountY - 1) :
                    zoneID'[g] = GridID(x, y) /\ visibleGrids'[g] = GetVisibleGrids(x, y)
    <3>1. CASE g \in members /\ zoneID[g] # CellOf(position[g])
      <4> DEFINE u == GridX(position[g])
                 v == GridY(position[g])
      <4>1. u \in 0..(CountX - 1) /\ v \in 0..(CountY - 1) /\ CellOf(position[g]) = GridID(u, v)
        BY CellInGrid DEF CellOf
      <4>2. zoneID'[g] = CellOf(position[g]) /\ visibleGrids'[g] = GetVisibleGrids(u, v)
        BY <3>1
      <4> HIDE DEF u, v
      <4> QED
        BY <4>1, <4>2
    <3>2. CASE ~(g \in members /\ zoneID[g] # CellOf(position[g]))
      <4>1. zoneID'[g] = zoneID[g] /\ visibleGrids'[g] = visibleGrids[g]
        BY <3>2
      <4> QED
        BY <4>1
    <3> QED
      BY <3>1, <3>2
  <2>3. \A c \in GridIDs : \A g \in playersByGrid'[c] : zoneID'[g] = c
    OBVIOUS
  <2>4. \A g \in GUID \ departed : g \in Located' \/ visibleGrids'[g] = {}
    <3>1. \A g \in GUID \ departed : g \in members \/ g \notin Located
      BY LocatedJoined DEF Joined
    <3> QED
      BY <2>1, <3>1
  <2>5. \A g \in Located' : Placed(g)'
    BY <2>1
  <2> QED
    BY <2>2, <2>3, <2>4, <2>5
<1>6. CASE CalculateVisiblePlayers
  BY <1>6 DEF CalculateVisiblePlayers, sessionVars, gridVars, Located
<1>7. CASE SendPlayerUpdates
  BY <1>7 DEF SendPlayerUpdates, sessionVars, gridVars, viewVars, Located
<1>8. CASE SendMovementUpdates
  BY <1>8 DEF SendMovementUpdates, sessionVars, gridVars, viewVars, Located
<1>9. ASSUME NEW v \in GUID, NEW t \in GUID,
             SendSpawn(v, t) \/ SendDespawn(v, t) \/ SendMovement(v, t) PROVE PlaceOK'
  BY <1>9 DEF SendSpawn, SendDespawn, SendMovement, sessionVars, gridVars, Located
<1>10. CASE EndTick
  BY <1>10 DEF EndTick, sessionVars, gridVars, viewVars, Located
<1>11. CASE UNCHANGED vars
  BY <1>11 DEF vars, sessionVars, gridVars, Located
<1>12. QED
  BY <1>1, <1>2, <1>3, <1>4, <1>5, <1>6, <1>7, <1>8, <1>9, <1>10, <1>11,
     SessionCases DEF Next, Tick, Send

LEMMA SightStep ==
  ASSUME TypeOK, JoinedOK, PlaceOK, SightOK, [Next]_vars PROVE SightOK'
<1> USE DEF SightOK
<1>1. ASSUME NEW g \in GUID, Registry!Join(g), ListOnly PROVE SightOK'
  <2>1. g \notin Joined
    BY <1>1 DEF Registry!Join, Joined, TypeOK, GUID
  <2>2. currentVisible[g] = {}
    BY <2>1 DEF JoinedOK
  <2>3. visibleGrids[g] = {}
    BY <2>1, LocatedJoined DEF PlaceOK, Joined
  <2>4. InSight(g) = {}
    BY <2>3 DEF InSight
  <2>5. members' = members \cup {g}
    BY <1>1 DEF Registry!Join
  <2>6. \A u : InSight(u)' = InSight(u)
    BY <1>1 DEF ListOnly, gridVars, InSight
  <2> QED
    BY <1>1, <2>2, <2>4, <2>5, <2>6 DEF ListOnly, viewVars
<1>2. ASSUME NEW g \in GUID, Registry!Lose(g), ListOnly PROVE SightOK'
  BY <1>2 DEF Registry!Lose, ListOnly, gridVars, viewVars, InSight
<1>3. ASSUME NEW g \in GUID, Registry!Leave(g), ListOnly PROVE SightOK'
  BY <1>3 DEF Registry!Leave, ListOnly, gridVars, viewVars, InSight
<1>4. ASSUME NEW g \in GUID, NEW p \in Positions,
      HandleLocationRotation(g, p) PROVE SightOK'
  BY <1>4 DEF HandleLocationRotation, sessionVars, viewVars, InSight
<1>5. CASE CalculatePlayerGridCoordinates
  BY <1>5 DEF CalculatePlayerGridCoordinates
<1>6. CASE CalculateVisiblePlayers
  BY <1>6 DEF CalculateVisiblePlayers, sessionVars, gridVars, InSight, TypeOK
<1>7. CASE SendPlayerUpdates
  BY <1>7 DEF SendPlayerUpdates, sessionVars, gridVars, viewVars, InSight
<1>8. CASE SendMovementUpdates
  BY <1>8 DEF SendMovementUpdates, sessionVars, gridVars, viewVars, InSight
<1>9. ASSUME NEW v \in GUID, NEW t \in GUID,
             SendSpawn(v, t) \/ SendDespawn(v, t) \/ SendMovement(v, t) PROVE SightOK'
  BY <1>9 DEF SendSpawn, SendDespawn, SendMovement, sessionVars, gridVars, viewVars, InSight
<1>10. CASE EndTick
  BY <1>10 DEF EndTick, sessionVars, gridVars, viewVars, InSight
<1>11. CASE UNCHANGED vars
  BY <1>11 DEF vars, sessionVars, gridVars, viewVars, InSight
<1>12. QED
  BY <1>1, <1>2, <1>3, <1>4, <1>5, <1>6, <1>7, <1>8, <1>9, <1>10, <1>11,
     SessionCases DEF Next, Tick, Send

LEMMA MutualStep ==
  ASSUME TypeOK, JoinedOK, PlaceOK, Mutual, [Next]_vars PROVE Mutual'
<1> USE DEF Mutual
<1>1. ASSUME NEW g \in GUID, Registry!Join(g), ListOnly PROVE Mutual'
  <2>1. g \notin Joined
    BY <1>1 DEF Registry!Join, Joined, TypeOK, GUID
  <2>2. \A u \in GUID : g \notin currentVisible[u] /\ u \notin currentVisible[g]
    BY <2>1 DEF JoinedOK
  <2>3. members' = members \cup {g} /\ members \subseteq GUID
    BY <1>1 DEF Registry!Join, TypeOK
  <2> QED
    BY <1>1, <2>2, <2>3 DEF ListOnly, viewVars
<1>2. ASSUME NEW g \in GUID, Registry!Lose(g), ListOnly PROVE Mutual'
  BY <1>2 DEF Registry!Lose, ListOnly, viewVars
<1>3. ASSUME NEW g \in GUID, Registry!Leave(g), ListOnly PROVE Mutual'
  BY <1>3 DEF Registry!Leave, ListOnly, viewVars
<1>4. ASSUME NEW g \in GUID, NEW p \in Positions,
      HandleLocationRotation(g, p) PROVE Mutual'
  BY <1>4 DEF HandleLocationRotation, sessionVars, viewVars
<1>5. CASE CalculatePlayerGridCoordinates
  BY <1>5 DEF CalculatePlayerGridCoordinates, sessionVars, viewVars
<1>6. CASE CalculateVisiblePlayers
  <2>1. /\ members' = members /\ pc = "visible"
        /\ \A g \in members : currentVisible'[g] = InSight(g)
    BY <1>6 DEF CalculateVisiblePlayers, sessionVars, InSight, TypeOK
  <2>2. SUFFICES ASSUME NEW v \in members, NEW w \in members
                 PROVE  v \in InSight(w) <=> w \in InSight(v)
    BY <2>1
  <2>3. ASSUME NEW g \in members PROVE g \in Located \/ InSight(g) = {}
    <3>1. g \in GUID \ departed
      BY DEF TypeOK, JoinedOK
    <3> QED
      BY <3>1 DEF PlaceOK, InSight
  <2>4. ASSUME NEW g \in members PROVE InSight(g) \subseteq Located \ {g}
    <3>1. visibleGrids[g] \subseteq GridIDs
      BY DEF TypeOK
    <3> QED
      BY <3>1 DEF InSight, Located
  <2>5. CASE v \in Located /\ w \in Located /\ v # w
    <3>1. Placed(v) /\ Placed(w)
      BY <2>1, <2>5 DEF PlaceOK
    <3>2. w \in InSight(v) <=> Near(position[v], position[w])
      BY <2>5, <3>1, InSightIffNear
    <3>3. v \in InSight(w) <=> Near(position[w], position[v])
      BY <2>5, <3>1, InSightIffNear
    <3>4. position[v] \in Int \X Int /\ position[w] \in Int \X Int
      BY DEF TypeOK
    <3> QED
      BY <3>2, <3>3, <3>4, NearIsMutual
  <2>6. CASE ~(v \in Located /\ w \in Located /\ v # w)
    BY <2>3, <2>4, <2>6
  <2> QED
    BY <2>5, <2>6
<1>7. CASE SendPlayerUpdates
  BY <1>7 DEF SendPlayerUpdates, sessionVars, viewVars
<1>8. CASE SendMovementUpdates
  BY <1>8 DEF SendMovementUpdates, sessionVars, viewVars
<1>9. ASSUME NEW v \in GUID, NEW t \in GUID,
             SendSpawn(v, t) \/ SendDespawn(v, t) \/ SendMovement(v, t) PROVE Mutual'
  BY <1>9 DEF SendSpawn, SendDespawn, SendMovement, sessionVars, viewVars
<1>10. CASE EndTick
  BY <1>10 DEF EndTick, sessionVars, viewVars
<1>11. CASE UNCHANGED vars
  BY <1>11 DEF vars, sessionVars, viewVars
<1>12. QED
  BY <1>1, <1>2, <1>3, <1>4, <1>5, <1>6, <1>7, <1>8, <1>9, <1>10, <1>11,
     SessionCases DEF Next, Tick, Send

LEMMA VInvInitially == Init => VInv
<1> SUFFICES ASSUME Init PROVE VInv
  OBVIOUS
<1>1. PlaceOK
  BY DEF Init, PlaceOK, TypeOK
<1>2. SightOK /\ Mutual
  BY DEF Init, Registry!Init, SightOK, Mutual
<1> QED
  BY <1>1, <1>2, Initially DEF VInv

LEMMA VInvStep == VInv /\ [Next]_vars => VInv'
  BY TypeStep, JoinedStep, WorkStep, ShownStep, PlaceStep, SightStep, MutualStep
     DEF VInv, IInv

LEMMA SightIsExact == VInv => VisibleIffNear
<1> SUFFICES ASSUME VInv, pc \in {"players", "sendPlayers", "sendMovement"},
                    NEW v \in members \cap Located, NEW w \in Located \ {v}
             PROVE  w \in currentVisible[v] <=> Near(position[v], position[w])
  BY DEF VisibleIffNear
<1>1. currentVisible[v] = InSight(v)
  BY DEF VInv, SightOK
<1>2. Placed(v) /\ Placed(w)
  BY DEF VInv, PlaceOK
<1> QED
  BY <1>1, <1>2, InSightIffNear DEF VInv, IInv

\* A player is visible to a placed one just when their cells touch, in every tick, on
\* every grid, whatever WorldGridManager cached in earlier ticks.
THEOREM VisibilityIsExact == Spec => []VisibleIffNear
  BY VInvInitially, VInvStep, SightIsExact, PTL DEF Spec

\* While a tick sends positions.
ShownIffNear ==
  pc = "sendMovement" =>
    \A v \in members \cap Located : \A w \in (members \cap Located) \ {v} :
      w \in known[v] <=> Near(position[v], position[w])

\* From where the players stand to what a screen shows, across all the passes of
\* WorldGridManager::Update: once its spawns and despawns are out, a connected client
\* shows exactly the connected players in the cells around its own.
THEOREM ScreensShowTheNear == Spec => []ShownIffNear
<1>1. ClientSeesVisible /\ VisibleIffNear => ShownIffNear
  BY Zenon DEF ClientSeesVisible, VisibleIffNear, ShownIffNear
<1> QED
  BY ClientsAgreeWithServer, VisibilityIsExact, <1>1, PTL

----------------------------------------------------------------------------
(* Distance and cells.                                                     *)

LEMMA SquareBound ==
  ASSUME NEW a \in Int, NEW b \in Int, NEW r \in Nat, a * a + b * b <= r * r
  PROVE  a \in -r..r /\ b \in -r..r
<1>1. ASSUME NEW c \in Int PROVE c * c >= 0
  OBVIOUS
<1>2. ASSUME NEW c \in Int, c * c <= r * r PROVE c \in -r..r
  <2>1. c > r => c * c > r * r
    OBVIOUS
  <2>2. c < -r => c * c > r * r
    OBVIOUS
  <2> QED
    BY <1>2, <2>1, <2>2
<1>3. a * a \in Int /\ b * b \in Int /\ r * r \in Int
  OBVIOUS
<1>4. a * a <= r * r /\ b * b <= r * r
  BY <1>1, <1>3
<1> QED
  BY <1>2, <1>4

LEMMA Quotient ==
  ASSUME NEW a \in Nat, NEW s \in Nat \ {0}
  PROVE  a \div s \in Nat /\ (a \div s) * s <= a /\ a < (a \div s) * s + s
  OBVIOUS

\* A distance of at most s is a difference of at most one in quotients by s.
LEMMA QuotientStep ==
  ASSUME NEW a \in Nat, NEW b \in Nat, NEW s \in Nat \ {0}, a - b <= s
  PROVE  a \div s - b \div s <= 1
<1> DEFINE p == a \div s
           q == b \div s
<1>1. p \in Nat /\ q \in Nat /\ p * s <= a /\ b < q * s + s
  BY Quotient
<1>2. p * s < (q + 2) * s
  BY <1>1
<1> HIDE DEF p, q
<1>3. ~(p >= q + 2)
  <2> SUFFICES ASSUME p >= q + 2 PROVE FALSE
    OBVIOUS
  <2>1. p * s = (q + 2) * s + (p - (q + 2)) * s
    BY <1>1
  <2>2. (p - (q + 2)) * s >= 0
    BY <1>1
  <2> QED
    BY <1>1, <1>2, <2>1, <2>2
<1> QED
  BY <1>1, <1>3 DEF p, q

\* The same of cell coordinates, also where the cast rounds up or the grid ends.
LEMMA CellStep ==
  ASSUME NEW a \in Int, NEW b \in Int, NEW h \in Nat, a - b <= GridSize
  PROVE  Clamp(Truncate(a, GridSize), 0, h) - Clamp(Truncate(b, GridSize), 0, h) <= 1
<1> DEFINE pos(x) == IF x >= 0 THEN x ELSE 0
<1> USE GridAssumption
<1>1. ASSUME NEW x \in Int
      PROVE  Clamp(Truncate(x, GridSize), 0, h) = Clamp(pos(x) \div GridSize, 0, h)
  <2>1. CASE x >= 0
    BY <2>1 DEF Truncate
  <2>2. CASE x < 0
    <3>1. -x \in Nat /\ (-x) \div GridSize \in Nat
      BY <2>2, Quotient
    <3>2. Clamp(Truncate(x, GridSize), 0, h) = 0
      BY <2>2, <3>1 DEF Truncate, Clamp
    <3>3. pos(x) \div GridSize = 0
      BY <2>2
    <3> QED
      BY <3>2, <3>3 DEF Clamp
  <2> QED
    BY <2>1, <2>2
<1>2. pos(a) \in Nat /\ pos(b) \in Nat /\ pos(a) - pos(b) <= GridSize
  OBVIOUS
<1> HIDE DEF pos
<1>3. pos(a) \div GridSize \in Nat /\ pos(b) \div GridSize \in Nat
  BY <1>2, Quotient
<1>4. pos(a) \div GridSize - pos(b) \div GridSize <= 1
  BY <1>2, QuotientStep
<1>5. Clamp(pos(a) \div GridSize, 0, h) - Clamp(pos(b) \div GridSize, 0, h) <= 1
  BY <1>3, <1>4 DEF Clamp
<1> QED
  BY <1>1, <1>5

\* Players at most the width of a cell apart are in cells that touch.
LEMMA CloseIsNear ==
  ASSUME NEW p \in Int \X Int, NEW q \in Int \X Int, NEW r \in 0..GridSize,
         (p[1] - q[1]) * (p[1] - q[1]) + (p[2] - q[2]) * (p[2] - q[2]) <= r * r
  PROVE  Near(p, q)
<1> USE GridAssumption
<1>1. p[1] - q[1] \in -r..r /\ p[2] - q[2] \in -r..r
  <2>1. p[1] - q[1] \in Int /\ p[2] - q[2] \in Int /\ r \in Nat
    OBVIOUS
  <2> QED
    BY <2>1, SquareBound
<1>2. /\ (p[1] - MinX) - (q[1] - MinX) <= GridSize /\ (q[1] - MinX) - (p[1] - MinX) <= GridSize
      /\ (p[2] - MinY) - (q[2] - MinY) <= GridSize /\ (q[2] - MinY) - (p[2] - MinY) <= GridSize
  BY <1>1
<1>3. /\ p[1] - MinX \in Int /\ q[1] - MinX \in Int /\ p[2] - MinY \in Int /\ q[2] - MinY \in Int
      /\ CountX - 1 \in Nat /\ CountY - 1 \in Nat
  OBVIOUS
<1>4. GridX(p) - GridX(q) <= 1 /\ GridX(q) - GridX(p) <= 1
  BY <1>2, <1>3, CellStep DEF GridX
<1>5. GridY(p) - GridY(q) <= 1 /\ GridY(q) - GridY(p) <= 1
  BY <1>2, <1>3, CellStep DEF GridY
<1>6. GridX(p) \in Int /\ GridX(q) \in Int /\ GridY(p) \in Int /\ GridY(q) \in Int
  BY CellInGrid
<1> QED
  BY <1>4, <1>5, <1>6 DEF Near
=============================================================================
