------------------------------- MODULE Combat -------------------------------
(***************************************************************************)
(* Auto-attack over the visibility of PlayerVisibility: the handlers that  *)
(* toggle the attack and choose the target, and CombatManager::Update,     *)
(* which World::Update calls after the visible sets are computed and       *)
(* before they are sent.  It copies the session list, visits every player  *)
(* in it and looks each target up in the live list; a visit is one step,   *)
(* for it touches the shared list once.  The swing timer of a player runs  *)
(* only in visits that find it attacking a connected target in range and   *)
(* in front, and is left alone by every handler.                           *)
(***************************************************************************)
EXTENDS PlayerVisibility

CONSTANTS Attackers,        \* the GUIDs whose clients send combat packets (bound)
          Yaws,             \* the directions clients report, as unit vectors (bound)
          Range,            \* TempCombatRange
          Diff,             \* what a tick takes off the timer
          AttackDelay       \* AttackDelay

\* CharacterYaw 0, a new Player's.
East == <<1, 0>>

ASSUME CombatAssumption ==
  /\ Attackers \subseteq 1..MaxGUID /\ Yaws \subseteq Int \X Int
  /\ Range \in 0..GridSize /\ Diff \in Nat \ {0} /\ AttackDelay \in Nat \ {0}

VARIABLES yaw,              \* CharacterYaw
          attackState,      \* AttackState
          targetGUID,       \* TargetGUID
          attackTimer,      \* AttackTimer
          round,            \* the players CombatManager::Update has yet to visit
          fought,           \* CombatManager::Update has run in this tick
          sinceSwing        \* rounds begun since a player's last swing (history)

combatVars == <<yaw, attackState, targetGUID, attackTimer, round, fought, sinceSwing>>
allVars == <<vars, combatVars>>

\* The rounds a delay lasts.
DelayRounds == (AttackDelay + Diff - 1) \div Diff

CombatInit ==
  /\ Init
  /\ yaw = [g \in GUID |-> East]
  /\ attackState = [g \in GUID |-> 0]
  /\ targetGUID = [g \in GUID |-> 0]
  /\ attackTimer = [g \in GUID |-> 0]
  /\ round = {} /\ fought = FALSE
  /\ sinceSwing = [g \in GUID |-> DelayRounds]

----------------------------------------------------------------------------
\* The packets, perhaps of a session that has left since.
Queued(g) == pc = "packets" /\ g \in members \cup departed

\* Fault: a new attack starts with a fresh timer.
ToggleRestarts(g) ==
  /\ Queued(g)
  /\ attackState' = [attackState EXCEPT ![g] = 1 - @]
  /\ attackTimer' = [attackTimer EXCEPT ![g] = 0]
  /\ UNCHANGED <<vars, yaw, targetGUID, round, fought, sinceSwing>>

Handle_CMSG_PLAYER_REQUEST_AUTOATTACK_TOGGLE(g) ==
  /\ Queued(g)
  /\ attackState' = [attackState EXCEPT ![g] = 1 - @]
  /\ UNCHANGED <<vars, yaw, targetGUID, attackTimer, round, fought, sinceSwing>>

\* Any GUID is approved, the player's own included.
Handle_CMSG_PLAYER_TARGET_REQUEST(g, t) ==
  /\ Queued(g)
  /\ targetGUID' = [targetGUID EXCEPT ![g] = t]
  /\ UNCHANGED <<vars, yaw, attackState, attackTimer, round, fought, sinceSwing>>

Turn(g, p, y) ==
  /\ HandleLocationRotation(g, p)
  /\ yaw' = [yaw EXCEPT ![g] = y]
  /\ UNCHANGED <<attackState, targetGUID, attackTimer, round, fought, sinceSwing>>

----------------------------------------------------------------------------
Dot(u, v) == u[1] * v[1] + u[2] * v[2]
To(p, q) == <<q[1] - p[1], q[2] - p[2]>>

InRange(p, q) == Dot(To(p, q), To(p, q)) <= Range * Range

\* On top of the target, or at most 70 degrees off it: cos(70)^2 = 0.117.
IsFacing(p, y, q) ==
  \/ p = q
  \/ /\ Dot(y, To(p, q)) > 0
     /\ 1000 * Dot(y, To(p, q)) * Dot(y, To(p, q)) >= 117 * Dot(To(p, q), To(p, q))

\* Update finds the attack on, the target connected, in range and in front.
CanStrike(g) ==
  /\ attackState[g] = 1
  /\ targetGUID[g] \in members
  /\ InRange(position[g], position[targetGUID[g]])
  /\ IsFacing(position[g], yaw[g], position[targetGUID[g]])

\* Fault: Update runs before the visible sets are computed.
CombatUpdateEarly ==
  /\ pc = "visible" /\ ~fought
  /\ fought' = TRUE /\ round' = members
  /\ sinceSwing' = [g \in GUID |-> IF sinceSwing[g] < DelayRounds
                                   THEN sinceSwing[g] + 1 ELSE DelayRounds]
  /\ UNCHANGED <<vars, yaw, attackState, targetGUID, attackTimer>>

\* GetSessions.
CombatUpdate ==
  /\ pc = "players" /\ ~fought
  /\ fought' = TRUE /\ round' = members
  /\ sinceSwing' = [g \in GUID |-> IF sinceSwing[g] < DelayRounds
                                   THEN sinceSwing[g] + 1 ELSE DelayRounds]
  /\ UNCHANGED <<vars, yaw, attackState, targetGUID, attackTimer>>

\* Fault: the timer stops when less than a step is left.
RemainingStops(g) == IF attackTimer[g] > Diff THEN attackTimer[g] - Diff ELSE attackTimer[g]

\* What a visit leaves of the timer.
Remaining(g) == IF attackTimer[g] > 0 THEN attackTimer[g] - Diff ELSE attackTimer[g]

\* The loop visits the sessions in list order, that of their GUIDs.
IsVisited(g) == g \in round /\ \A h \in round : g <= h

\* Inactive, without a connected target, out of range or turned away.
Skip(g) ==
  /\ IsVisited(g) /\ ~CanStrike(g)
  /\ round' = round \ {g}
  /\ UNCHANGED <<vars, yaw, attackState, targetGUID, attackTimer, fought, sinceSwing>>

Wait(g) ==
  /\ IsVisited(g) /\ CanStrike(g) /\ Remaining(g) > 0
  /\ attackTimer' = [attackTimer EXCEPT ![g] = Remaining(g)]
  /\ round' = round \ {g}
  /\ UNCHANGED <<vars, yaw, attackState, targetGUID, fought, sinceSwing>>

\* Fault: the timer is set off by its own remainder.
SwingCarriesOver(g) ==
  /\ IsVisited(g) /\ CanStrike(g) /\ Remaining(g) <= 0
  /\ attackTimer' = [attackTimer EXCEPT ![g] = Remaining(g) - AttackDelay]
  /\ round' = round \ {g}
  /\ sinceSwing' = [sinceSwing EXCEPT ![g] = 0]
  /\ UNCHANGED <<vars, yaw, attackState, targetGUID, fought>>

\* The damage goes to the attacker and the target, and the timer starts again.
Swing(g) ==
  /\ IsVisited(g) /\ CanStrike(g) /\ Remaining(g) <= 0
  /\ attackTimer' = [attackTimer EXCEPT ![g] = AttackDelay]
  /\ round' = round \ {g}
  /\ sinceSwing' = [sinceSwing EXCEPT ![g] = 0]
  /\ UNCHANGED <<vars, yaw, attackState, targetGUID, fought>>

Visit == \E g \in GUID : Skip(g) \/ Wait(g) \/ Swing(g)

\* The passes of PlayerVisibility, with combat between the third and the fourth.
Passes ==
  /\ Tick
  /\ pc = "players" => fought
  /\ round = {}
  /\ fought' = (fought /\ pc' # "packets")
  /\ UNCHANGED <<yaw, attackState, targetGUID, attackTimer, round, sinceSwing>>

WorldTick == Passes \/ CombatUpdate \/ Visit

CombatNext ==
  \/ SessionStep /\ UNCHANGED combatVars
  \/ \E g \in GUID, p \in Positions, y \in Yaws : Turn(g, p, y)
  \/ \E g \in Attackers : \/ Handle_CMSG_PLAYER_REQUEST_AUTOATTACK_TOGGLE(g)
                          \/ \E t \in GUID : Handle_CMSG_PLAYER_TARGET_REQUEST(g, t)
  \/ WorldTick

\* The world thread runs and its packet queue runs empty, as in PlayerVisibility.
CombatSpec == CombatInit /\ [][CombatNext]_allVars /\ WF_allVars(WorldTick)

----------------------------------------------------------------------------
(* Properties.                                                             *)

CombatTypeOK ==
  /\ yaw \in [GUID -> Int \X Int]
  /\ attackState \in [GUID -> 0..1]
  /\ targetGUID \in [GUID -> GUID \cup {0}]
  /\ attackTimer \in [GUID -> 0..AttackDelay]
  /\ round \subseteq GUID /\ fought \in BOOLEAN
  /\ sinceSwing \in [GUID -> 0..DelayRounds]

\* "Should be one second delay." (Player.h:40): no client gets two swings of one
\* player in less than AttackDelay, however it toggles the attack, changes the
\* target, or steps out of range and back between them.
SwingsApart == [][\A g \in GUID : Swing(g) => sinceSwing[g] >= DelayRounds]_allVars

\* Although damage is sent before the spawns of the same tick, and the target is
\* looked up in a newer list than the one that was placed, the two parties of a
\* swing see each other as the server knows it, so the same tick spawns them for each
\* other; only a player that joined since the placing is struck unseen.
StrikeIsSeen ==
  [][\A g \in GUID :
       LET t == targetGUID[g] IN
       Swing(g) /\ t # g /\ {g, t} \subseteq members \cap Located
         => t \in currentVisible[g] /\ g \in currentVisible[t]]_allVars

\* An attack that stays possible strikes, also after a break in which the timer
\* stood still.
StrikesAgain ==
  \A g \in GUID :
    g \in members /\ CanStrike(g) ~> sinceSwing[g] = 0 \/ ~(g \in members /\ CanStrike(g))
=============================================================================
