------------------------- MODULE PlayerVisibility -------------------------
(***************************************************************************)
(* Who sees whom: the world thread's tick over WorldGridManager and the    *)
(* spawn, despawn and movement packets of World, against a session list    *)
(* that the network thread changes at any moment.                          *)
(*                                                                         *)
(* A tick handles the queued movement packets, puts every listed player in *)
(* its grid cell (CalculatePlayerGridCoordinates), computes what each sees *)
(* (CalculateVisiblePlayers), sends spawns and despawns                    *)
(* (SendPlayerUpdates) and then positions (SendMovementUpdates).  Each of  *)
(* these four passes copies the session list anew, and the last two look   *)
(* every target up again in the live list.  The passes over a copy touch   *)
(* nothing the network thread touches, so each is one step; the lookups    *)
(* are a step each.  The session list is the one of SessionRegistry.       *)
(***************************************************************************)
EXTENDS Integers, FiniteSets

CONSTANTS MaxGUID,          \* connections of a run (bound)
          MaxLost,          \* connections that end (bound)
          MinX, MinY,       \* minCoordinate_x, minCoordinate_y
          GridSize,         \* gridWidth = gridHeight
          CountX, CountY,   \* m_gridCountX, m_gridCountY
          Positions         \* the <<x, y>> that clients report (bound)

\* Players start at the origin (Vector3's default).
Origin == <<0, 0>>

ASSUME GridAssumption ==
  /\ MaxGUID \in Nat /\ MaxLost \in Nat /\ MinX \in Int /\ MinY \in Int
  /\ GridSize \in Nat \ {0} /\ CountX \in Nat \ {0} /\ CountY \in Nat \ {0}
  /\ Positions \subseteq Int \X Int

VARIABLES members, departed, lost,  \* the session list, see SessionRegistry
          position,                 \* m_position
          zoneID,                   \* zoneID_
          visibleGrids,             \* visibleGrids_
          previousVisible,          \* previousVisiblePlayers_
          currentVisible,           \* currentVisiblePlayers_
          playersByGrid,            \* m_playersByGrid
          known,                    \* the players a client has spawned
          pc,                       \* the pass the world thread is in
          work                      \* the packets this pass may still send

sessionVars == <<members, departed, lost>>
gridVars == <<position, zoneID, visibleGrids, playersByGrid>>
viewVars == <<previousVisible, currentVisible>>
vars == <<sessionVars, gridVars, viewVars, known, pc, work>>

Registry == INSTANCE SessionRegistry

GUID == 1..MaxGUID
GridIDs == 0..(CountX * CountY - 1)
NoZone == -1

\* Fault: positions off the grid are not clamped.
ClampNot(v, lo, hi) == v

Clamp(v, lo, hi) == IF v < lo THEN lo ELSE IF v > hi THEN hi ELSE v

\* static_cast<int32_t> of a quotient of floats: toward zero.
Truncate(a, b) == IF a >= 0 THEN a \div b ELSE -((-a) \div b)

GridX(p) == Clamp(Truncate(p[1] - MinX, GridSize), 0, CountX - 1)
GridY(p) == Clamp(Truncate(p[2] - MinY, GridSize), 0, CountY - 1)
GridID(x, y) == y * CountX + x
CellOf(p) == GridID(GridX(p), GridY(p))

\* Fault: no test of nx against the width, so a row wraps into the next.
GetVisibleGridsWrapping(x, y) ==
  {GridID(nx, ny) : nx \in {x - 1, x, x + 1},
                    ny \in {y - 1, y, y + 1} \cap 0..(CountY - 1)} \cap GridIDs

\* The cells at most one away that exist.
GetVisibleGrids(x, y) ==
  {GridID(nx, ny) : nx \in {x - 1, x, x + 1} \cap 0..(CountX - 1),
                    ny \in {y - 1, y, y + 1} \cap 0..(CountY - 1)}

Init ==
  /\ Registry!Init
  /\ position = [g \in GUID |-> Origin]
  /\ zoneID = [g \in GUID |-> NoZone]
  /\ visibleGrids = [g \in GUID |-> {}]
  /\ previousVisible = [g \in GUID |-> {}]
  /\ currentVisible = [g \in GUID |-> {}]
  /\ playersByGrid = [c \in GridIDs |-> {}]
  /\ known = [g \in GUID |-> {}]
  /\ pc = "packets"
  /\ work = {}

----------------------------------------------------------------------------
\* The network thread (and Disconnect on the world thread) changes the list.
SessionStep ==
  /\ Registry!Next /\ Cardinality(lost') <= MaxLost
  /\ UNCHANGED <<gridVars, viewVars, known, pc, work>>

\* A queued movement packet, perhaps of a session that has left since.
HandleLocationRotation(g, p) ==
  /\ pc = "packets" /\ g \in members \cup departed
  /\ position' = [position EXCEPT ![g] = p]
  /\ UNCHANGED <<sessionVars, zoneID, visibleGrids, playersByGrid, viewVars,
                 known, pc, work>>

\* Every listed player goes into its cell; a player whose cell changed gets a
\* new set of visible cells.
CalculatePlayerGridCoordinates ==
  /\ pc = "packets"
  /\ LET cell(g) == CellOf(position[g]) IN
     /\ playersByGrid' = [c \in GridIDs |-> {g \in members : cell(g) = c}]
     /\ zoneID' = [g \in GUID |-> IF g \in members THEN cell(g) ELSE zoneID[g]]
     /\ visibleGrids' = [g \in GUID |->
          IF g \in members /\ zoneID[g] # cell(g)
          THEN GetVisibleGrids(GridX(position[g]), GridY(position[g]))
          ELSE visibleGrids[g]]
  /\ pc' = "visible"
  /\ UNCHANGED <<sessionVars, position, viewVars, known, work>>

\* Fault: the previous set is taken after the current one was rebuilt.
CalculateVisiblePlayersLate ==
  /\ pc = "visible"
  /\ currentVisible' =
       [g \in GUID |-> IF g \in members
                       THEN (UNION {playersByGrid[c] : c \in visibleGrids[g]}) \ {g}
                       ELSE currentVisible[g]]
  /\ previousVisible' =
       [g \in GUID |-> IF g \in members THEN currentVisible'[g] ELSE previousVisible[g]]
  /\ pc' = "players"
  /\ UNCHANGED <<sessionVars, gridVars, known, work>>

\* What each listed player sees: everyone in its visible cells but itself.
CalculateVisiblePlayers ==
  /\ pc = "visible"
  /\ previousVisible' =
       [g \in GUID |-> IF g \in members THEN currentVisible[g] ELSE previousVisible[g]]
  /\ currentVisible' =
       [g \in GUID |-> IF g \in members
                       THEN (UNION {playersByGrid[c] : c \in visibleGrids[g]}) \ {g}
                       ELSE currentVisible[g]]
  /\ pc' = "players"
  /\ UNCHANGED <<sessionVars, gridVars, known, work>>

\* The kinds of packet a pass sends, in the order they go to one client.
Despawn == 1
Spawn == 2
Movement == 3

\* Fault: every visible player is spawned again on every tick.
SendPlayerUpdatesRepeated ==
  /\ pc = "players"
  /\ work' = {w \in members \X {Despawn} \X GUID :
                w[3] \in previousVisible[w[1]] \ currentVisible[w[1]]}
             \cup {w \in members \X {Spawn} \X GUID : w[3] \in currentVisible[w[1]]}
  /\ pc' = "sendPlayers"
  /\ UNCHANGED <<sessionVars, gridVars, viewVars, known>>

\* Fault: no despawns.
SendPlayerUpdatesSpawnsOnly ==
  /\ pc = "players"
  /\ work' = {w \in members \X {Spawn} \X GUID :
                w[3] \in currentVisible[w[1]] \ previousVisible[w[1]]}
  /\ pc' = "sendPlayers"
  /\ UNCHANGED <<sessionVars, gridVars, viewVars, known>>

\* GetSessions, then the packets SendPlayerUpdates means to send: the visible
\* sets do not change while it runs.
SendPlayerUpdates ==
  /\ pc = "players"
  /\ work' = {w \in members \X {Despawn} \X GUID :
                w[3] \in previousVisible[w[1]] \ currentVisible[w[1]]}
             \cup {w \in members \X {Spawn} \X GUID :
                w[3] \in currentVisible[w[1]] \ previousVisible[w[1]]}
  /\ pc' = "sendPlayers"
  /\ UNCHANGED <<sessionVars, gridVars, viewVars, known>>

\* GetSessions, then a position of every visible player to every player.
SendMovementUpdates ==
  /\ pc = "sendPlayers" /\ work = {}
  /\ work' = {w \in members \X {Movement} \X GUID :
                w[3] \in currentVisible[w[1]]}
  /\ pc' = "sendMovement"
  /\ UNCHANGED <<sessionVars, gridVars, viewVars, known>>

\* The loops visit one client after the other, and its despawns before its
\* spawns; an unordered_set gives the targets of one loop in any order.
IsNext(v, k, t) ==
  /\ <<v, k, t>> \in work
  /\ \A w \in work : v < w[1] \/ (v = w[1] /\ k <= w[2])

\* GetSessionByPlayerGUID(t) finds the target in the live list, or the packet is
\* skipped.
SendSpawn(v, t) ==
  /\ IsNext(v, Spawn, t)
  /\ known' = [known EXCEPT ![v] = IF t \in members THEN @ \cup {t} ELSE @]
  /\ work' = work \ {<<v, Spawn, t>>}
  /\ UNCHANGED <<sessionVars, gridVars, viewVars, pc>>

SendDespawn(v, t) ==
  /\ IsNext(v, Despawn, t)
  /\ known' = [known EXCEPT ![v] = IF t \in members THEN @ \ {t} ELSE @]
  /\ work' = work \ {<<v, Despawn, t>>}
  /\ UNCHANGED <<sessionVars, gridVars, viewVars, pc>>

SendMovement(v, t) ==
  /\ IsNext(v, Movement, t)
  /\ work' = work \ {<<v, Movement, t>>}
  /\ UNCHANGED <<sessionVars, gridVars, viewVars, known, pc>>

\* Sleep, and the next iteration of World::Run.
EndTick ==
  /\ pc = "sendMovement" /\ work = {}
  /\ pc' = "packets"
  /\ UNCHANGED <<sessionVars, gridVars, viewVars, known, work>>

----------------------------------------------------------------------------
Send == \E v, t \in GUID : SendSpawn(v, t) \/ SendDespawn(v, t) \/ SendMovement(v, t)

Tick ==
  \/ CalculatePlayerGridCoordinates \/ CalculateVisiblePlayers
  \/ SendPlayerUpdates \/ SendMovementUpdates \/ Send \/ EndTick

Next ==
  \/ SessionStep \/ Tick
  \/ \E g \in GUID, p \in Positions : HandleLocationRotation(g, p)

\* The world thread runs, and its packet queue runs empty: clients do not send
\* faster than it drains.
Spec == Init /\ [][Next]_vars /\ WF_vars(Tick)

----------------------------------------------------------------------------
(* Properties.                                                             *)

TypeOK ==
  /\ members \subseteq GUID /\ departed \subseteq GUID /\ lost \subseteq GUID
  /\ position \in [GUID -> Int \X Int]
  /\ zoneID \in [GUID -> GridIDs \cup {NoZone}]
  /\ visibleGrids \in [GUID -> SUBSET GridIDs]
  /\ previousVisible \in [GUID -> SUBSET GUID]
  /\ currentVisible \in [GUID -> SUBSET GUID]
  /\ playersByGrid \in [GridIDs -> SUBSET GUID]
  /\ known \in [GUID -> SUBSET GUID]
  /\ pc \in {"packets", "visible", "players", "sendPlayers", "sendMovement"}
  /\ work \subseteq GUID \X {Despawn, Spawn, Movement} \X GUID

\* Cells that touch, the corner included ("center + 8 surrounding").
Near(p, q) ==
  /\ GridX(p) - GridX(q) \in -1..1
  /\ GridY(p) - GridY(q) \in -1..1

\* The players the last CalculatePlayerGridCoordinates placed.
Located == UNION {playersByGrid[c] : c \in GridIDs}

\* Once the visible sets are computed they are exact for the players that were
\* placed: w is visible to v just when their cells touch, so also the other way
\* round, wherever both stand and whatever visibleGrids_ was cached before.
VisibleIffNear ==
  pc \in {"players", "sendPlayers", "sendMovement"} =>
    \A v \in members \cap Located : \A w \in Located \ {v} :
      w \in currentVisible[v] <=> Near(position[v], position[w])

\* After the spawns and despawns are out, what a connected client shows of the
\* connected players is what the server believes it sees, although sessions came
\* and went between the four copies of the list and the lookups.
ClientSeesVisible ==
  pc \in {"packets", "visible", "sendMovement"} =>
    \A v \in members : known[v] \cap members = currentVisible[v] \cap members

\* A client is told to spawn only a player it does not show, and gets positions
\* and despawns only of players that it does show.
PacketsFitClient ==
  [][\A v, t \in members :
       /\ SendSpawn(v, t) => t \notin known[v]
       /\ SendDespawn(v, t) => t \in known[v]
       /\ SendMovement(v, t) => t \in known[v]]_vars

\* "DESPAWNS: Players who were in previousVisible, but are NOT in currentVisible"
\* (World.cpp:660): after the despawns a client shows no player that is not
\* visible to it.
NoGhosts ==
  pc = "sendMovement" => \A v \in members : known[v] \subseteq currentVisible[v]

Together(v, w) == v \in members /\ w \in members /\ v # w

\* Two players that stay near each other come to see each other, and two that
\* stay apart stop.
NearIsSpawned ==
  \A v, w \in GUID :
    Together(v, w) /\ Near(position[v], position[w])
      ~> w \in known[v] \/ ~(Together(v, w) /\ Near(position[v], position[w]))
FarIsDespawned ==
  \A v, w \in GUID :
    Together(v, w) /\ ~Near(position[v], position[w])
      ~> w \notin known[v] \/ ~Together(v, w) \/ Near(position[v], position[w])
=============================================================================
