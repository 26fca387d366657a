------------------------ MODULE PlayerActions_proofs ------------------------
(***************************************************************************)
(* Proofs about ChatRouting and Combat, the two things players do to each  *)
(* other inside a tick, for every grid and every number of players: whom a *)
(* chat text reaches, how far swings are apart, and that its parties see   *)
(* each other.  A step of chat or combat that is not a step of             *)
(* PlayerVisibility leaves its variables alone, so the invariants proved   *)
(* there hold here.  The two specifications are not composed with one      *)
(* another: every theorem is about one of them.                            *)
(***************************************************************************)
EXTENDS ChatRouting, Combat, PlayerVisibility_proofs

----------------------------------------------------------------------------
(* Chat.                                                                   *)

\* The loop of a chat packet: it runs in the packet pass, over the visible set of
\* the speaker, and a target is behind it only when it was sent the text, was too
\* far away, or had left.
SpeechOK ==
  /\ speech # Silence => pc = "packets" /\ speech.from \in GUID
  /\ speech = Silence \/ speech.left \cup speech.heard \subseteq currentVisible[speech.from]
  /\ speech # Silence => \A v \in currentVisible[speech.from] \ (speech.left \cup speech.heard) :
       \/ v \notin members
       \/ ~Within(position[speech.from], position[v], SayDistance)

CInv == VInv /\ ChatTypeOK /\ SpeechOK

----------------------------------------------------------------------------
\* Every step is a step of PlayerVisibility or none.
LEMMA ChatImplementsVisibility == [ChatNext]_chatVars => [Next]_vars
  BY DEF ChatNext, chatVars, Next, Handle_CMSG_CHAT_REQUEST, Speak,
     Send_SMSG_CHAT, EndSpeech

LEMMA ChannelRange ==
  ASSUME NEW r PROVE Channel(r) \in {"none", "say", "shout"}
  BY DEF Channel

\* What the session list does to the packet in the making: a player that joins is in
\* no visible set, and one that leaves need not be reached.
LEMMA SpeechListStep ==
  ASSUME TypeOK, JoinedOK, SpeechOK, SessionStep, UNCHANGED speech
  PROVE  SpeechOK'
<1>1. ASSUME NEW g \in GUID, Registry!Join(g), ListOnly PROVE SpeechOK'
  <2>1. g \notin Joined
    BY <1>1 DEF Registry!Join, Joined, TypeOK, GUID
  <2>2. \A u \in GUID : g \notin currentVisible[u]
    BY <2>1 DEF JoinedOK
  <2>3. members' = members \cup {g}
    BY <1>1 DEF Registry!Join
  <2> QED
    BY <1>1, <2>2, <2>3 DEF ListOnly, viewVars, gridVars, SpeechOK
<1>2. ASSUME NEW g \in GUID, Registry!Lose(g), ListOnly PROVE SpeechOK'
  BY <1>2 DEF Registry!Lose, ListOnly, viewVars, gridVars, SpeechOK
<1>3. ASSUME NEW g \in GUID, Registry!Leave(g), ListOnly PROVE SpeechOK'
  BY <1>3 DEF Registry!Leave, ListOnly, viewVars, gridVars, SpeechOK
<1> QED
  BY <1>1, <1>2, <1>3, SessionCases

LEMMA SpeechStep ==
  ASSUME VInv, ChatTypeOK, SpeechOK, [ChatNext]_chatVars
  PROVE  ChatTypeOK' /\ SpeechOK'
<1> USE DEF VInv, IInv, TypeOK, ChatTypeOK
<1>1. ASSUME SessionStep, UNCHANGED speech PROVE ChatTypeOK' /\ SpeechOK'
  BY <1>1, SpeechListStep
<1>2. ASSUME speech = Silence, UNCHANGED speech PROVE ChatTypeOK' /\ SpeechOK'
  BY <1>2 DEF SpeechOK
<1>3. ASSUME NEW g \in GUID, NEW r \in Request, Handle_CMSG_CHAT_REQUEST(g, r)
      PROVE  ChatTypeOK' /\ SpeechOK'
  BY <1>3, ChannelRange DEF Handle_CMSG_CHAT_REQUEST, SpeechOK, vars, sessionVars,
     gridVars, viewVars
<1>4. ASSUME NEW t \in GUID, Send_SMSG_CHAT(t) PROVE ChatTypeOK' /\ SpeechOK'
  <2>1. speech # Silence
    BY <1>4 DEF Send_SMSG_CHAT, Silence
  <2>2. speech' # Silence /\ speech'.from = speech.from
    <3>1. speech'.from = speech.from /\ speech.from # 0
      BY <1>4, <2>1 DEF Send_SMSG_CHAT, SpeechOK, GUID
    <3> QED
      BY <3>1 DEF Silence
  <2>3. /\ speech'.left = speech.left \ {t}
        /\ \/ speech'.heard = speech.heard \cup {t}
           \/ /\ speech'.heard = speech.heard
              /\ t \notin members \/ ~Within(position[speech.from], position[t], SayDistance)
    BY <1>4 DEF Send_SMSG_CHAT
  <2>4. ChatTypeOK'
    BY <1>4 DEF Send_SMSG_CHAT
  <2>5. t \in speech.left
    BY <1>4 DEF Send_SMSG_CHAT
  <2>6. UNCHANGED <<pc, members, position, currentVisible>>
    BY <1>4 DEF Send_SMSG_CHAT, vars, sessionVars, gridVars, viewVars
  <2> QED
    BY <2>1, <2>2, <2>3, <2>4, <2>5, <2>6 DEF SpeechOK
<1>5. ASSUME EndSpeech PROVE ChatTypeOK' /\ SpeechOK'
  BY <1>5 DEF EndSpeech, SpeechOK, Silence
<1>6. ASSUME UNCHANGED chatVars PROVE ChatTypeOK' /\ SpeechOK'
  BY <1>6 DEF chatVars, vars, sessionVars, gridVars, viewVars, SpeechOK
<1> QED
  BY <1>1, <1>2, <1>3, <1>4, <1>5, <1>6 DEF ChatNext, Speak

LEMMA ChatInvariance == ChatSpec => []CInv
<1>1. ChatInit => CInv
  BY VInvInitially DEF ChatInit, CInv, ChatTypeOK, SpeechOK, Silence
<1>2. CInv /\ [ChatNext]_chatVars => CInv'
  BY VInvStep, ChatImplementsVisibility, SpeechStep DEF CInv
<1> QED
  BY <1>1, <1>2, PTL DEF ChatSpec

----------------------------------------------------------------------------
\* The chat packet in the making keeps its type.
THEOREM ChatTypeCorrect == ChatSpec => []ChatTypeOK
<1>1. CInv => ChatTypeOK
  BY DEF CInv
<1> QED
  BY ChatInvariance, <1>1, PTL

\* Whoever hears a connected speaker has it on screen: the handler sends to those the
\* speaker sees, and seeing is mutual, however the session list changes.
THEOREM SpeakersAreShown == ChatSpec => []SpeakerIsShown
<1>1. CInv => SpeakerIsShown
  <2> SUFFICES ASSUME CInv, speech.from \in members, NEW v \in speech.heard \cap members
               PROVE  speech.from \in known[v]
    BY DEF SpeakerIsShown
  <2>1. pc = "packets" /\ v \in currentVisible[speech.from]
    BY DEF CInv, SpeechOK, Silence
  <2>2. speech.from \in currentVisible[v]
    BY <2>1 DEF CInv, VInv, Mutual
  <2> QED
    BY <2>1, <2>2 DEF CInv, VInv, IInv, ShownOK, Shown
<1> QED
  BY ChatInvariance, <1>1, PTL

\* A say reaches every settled player within SAY_DISTANCE, across the edges of the
\* cells, for every grid whose cells are at least SAY_DISTANCE wide.
THEOREM SayIsHeard == ChatSpec => []SayReachesNearby
<1>1. CInv => SayReachesNearby
  <2> SUFFICES ASSUME CInv, speech.channel = "say", speech.left = {}, Settled(speech.from),
                      NEW v \in GUID \ {speech.from}, Settled(v),
                      Within(position[speech.from], position[v], SayDistance)
               PROVE  v \in speech.heard
    BY DEF SayReachesNearby, ReachesNearby
  <2> DEFINE u == speech.from
  <2>1. pc = "packets" /\ u \in GUID /\ speech # Silence
    BY DEF CInv, SpeechOK, Silence
  <2>2. position[u] \in Int \X Int /\ position[v] \in Int \X Int
    BY <2>1 DEF CInv, VInv, IInv, TypeOK
  <2>3. Near(position[u], position[v])
    <3>1. SayDistance \in 0..GridSize
      BY ChatAssumption, GridAssumption
    <3> DEFINE dx == position[u][1] - position[v][1]
               dy == position[u][2] - position[v][2]
    <3>2. dx \in Int /\ dy \in Int
      BY <2>2
    <3>3. dx * dx + dy * dy < SayDistance * SayDistance
      BY DEF Within
    <3> HIDE DEF dx, dy
    <3>4. dx * dx + dy * dy <= SayDistance * SayDistance
      BY <3>2, <3>3, ChatAssumption
    <3> QED
      BY <2>2, <3>1, <3>4, CloseIsNear DEF dx, dy
  <2>4. u \in members \cap Located /\ v \in members \cap Located /\ Placed(u) /\ Placed(v)
    BY DEF Settled, Placed
  <2>5. v \in currentVisible[u]
    <3>1. v \in InSight(u)
      BY <2>3, <2>4, InSightIffNear DEF CInv, VInv, IInv
    <3> QED
      BY <2>1, <2>4, <3>1 DEF CInv, VInv, SightOK
  <2> QED
    BY <2>1, <2>4, <2>5 DEF CInv, SpeechOK
<1> QED
  BY ChatInvariance, <1>1, PTL

\* While players chat, too, visibility is exact.
THEOREM ChatKeepsVisibility == ChatSpec => []VisibleIffNear
<1>1. CInv => VInv
  BY DEF CInv
<1> QED
  BY ChatInvariance, <1>1, SightIsExact, PTL

----------------------------------------------------------------------------
(* Combat.                                                                 *)

\* The pass lasts from CombatUpdate to the last visit.
RoundOK == round # {} => pc = "players" /\ fought

\* The timer of a player whose last swing is less than a delay ago has lost at most
\* one step a round since, that of the round under way not before its visit.
TimerOK ==
  \A g \in GUID : sinceSwing[g] < DelayRounds =>
    attackTimer[g] + Diff * sinceSwing[g] >= AttackDelay + (IF g \in round THEN Diff ELSE 0)

BInv == VInv /\ CombatTypeOK /\ RoundOK /\ TimerOK

----------------------------------------------------------------------------
\* Every step is a step of PlayerVisibility or none.
LEMMA CombatImplementsVisibility == [CombatNext]_allVars => [Next]_vars
  BY DEF CombatNext, allVars, Next, Turn, WorldTick, Passes, CombatUpdate, Visit,
     Skip, Wait, Swing, Handle_CMSG_PLAYER_REQUEST_AUTOATTACK_TOGGLE,
     Handle_CMSG_PLAYER_TARGET_REQUEST

\* A delay is over after DelayRounds rounds and not before.
LEMMA DelayRoundsBound ==
  /\ DelayRounds \in Nat
  /\ \A s \in Nat : s < DelayRounds => Diff * s < AttackDelay
<1> USE CombatAssumption
<1> DEFINE n == AttackDelay + Diff - 1
           d == n \div Diff
<1>1. n \in Nat /\ d \in Nat /\ d * Diff <= n
  BY Quotient
<1>2. DelayRounds = d
  BY DEF DelayRounds
<1> HIDE DEF d
<1>3. ASSUME NEW s \in Nat, s < d PROVE Diff * s < AttackDelay
  <2>1. d * Diff = Diff * s + Diff + (d - s - 1) * Diff
    BY <1>1
  <2>2. (d - s - 1) * Diff >= 0
    BY <1>1, <1>3
  <2>3. Diff * s \in Int /\ d * Diff \in Int /\ (d - s - 1) * Diff \in Int
    BY <1>1
  <2> QED
    BY <1>1, <2>1, <2>2, <2>3
<1> QED
  BY <1>1, <1>2, <1>3

\* In a visit that swings, the last swing is a delay ago.
LEMMA SwingIsLate ==
  ASSUME CombatTypeOK, TimerOK, NEW g \in GUID, Swing(g)
  PROVE  sinceSwing[g] >= DelayRounds
<1> USE CombatAssumption
<1>1. sinceSwing[g] \in Nat /\ attackTimer[g] \in Nat /\ DelayRounds \in Nat
  BY DelayRoundsBound DEF CombatTypeOK
<1>2. g \in round /\ Remaining(g) <= 0
  BY DEF Swing, IsVisited
<1>3. attackTimer[g] <= Diff
  BY <1>1, <1>2 DEF Remaining
<1>4. sinceSwing[g] < DelayRounds => attackTimer[g] + Diff * sinceSwing[g] >= AttackDelay + Diff
  BY <1>2 DEF TimerOK
<1>5. sinceSwing[g] < DelayRounds => Diff * sinceSwing[g] < AttackDelay
  BY <1>1, DelayRoundsBound
<1>6. Diff * sinceSwing[g] \in Int
  BY <1>1
<1> QED
  BY <1>1, <1>3, <1>4, <1>5, <1>6

LEMMA CombatTypeStep ==
  ASSUME TypeOK, CombatTypeOK, [CombatNext]_allVars PROVE CombatTypeOK'
<1> USE CombatAssumption DEF CombatTypeOK, combatVars
<1>1. ASSUME UNCHANGED combatVars PROVE CombatTypeOK'
  BY <1>1
<1>2. ASSUME NEW g \in GUID, NEW p \in Positions, NEW y \in Yaws, Turn(g, p, y)
      PROVE  CombatTypeOK'
  BY <1>2 DEF Turn
<1>3. ASSUME NEW g \in GUID, Handle_CMSG_PLAYER_REQUEST_AUTOATTACK_TOGGLE(g)
      PROVE  CombatTypeOK'
  BY <1>3 DEF Handle_CMSG_PLAYER_REQUEST_AUTOATTACK_TOGGLE
<1>4. ASSUME NEW g \in GUID, NEW t \in GUID, Handle_CMSG_PLAYER_TARGET_REQUEST(g, t)
      PROVE  CombatTypeOK'
  BY <1>4 DEF Handle_CMSG_PLAYER_TARGET_REQUEST
<1>5. CASE Passes
  BY <1>5 DEF Passes
<1>6. CASE CombatUpdate
  BY <1>6, DelayRoundsBound DEF CombatUpdate, TypeOK
<1>7. ASSUME NEW g \in GUID, Skip(g) PROVE CombatTypeOK'
  BY <1>7 DEF Skip
<1>8. ASSUME NEW g \in GUID, Wait(g) PROVE CombatTypeOK'
  <2>1. Remaining(g) \in 0..AttackDelay
    BY <1>8 DEF Wait, Remaining
  <2> QED
    BY <1>8, <2>1 DEF Wait
<1>9. ASSUME NEW g \in GUID, Swing(g) PROVE CombatTypeOK'
  BY <1>9, DelayRoundsBound DEF Swing
<1>10. CASE UNCHANGED allVars
  BY <1>10 DEF allVars
<1> QED
  BY <1>1, <1>2, <1>3, <1>4, <1>5, <1>6, <1>7, <1>8, <1>9, <1>10
     DEF CombatNext, WorldTick, Visit, CombatAssumption, GUID

LEMMA RoundStep ==
  ASSUME RoundOK, [CombatNext]_allVars PROVE RoundOK'
<1> USE DEF RoundOK, combatVars
<1>1. ASSUME SessionStep, UNCHANGED combatVars PROVE RoundOK'
  BY <1>1 DEF SessionStep
<1>2. ASSUME NEW g \in GUID, NEW p \in Positions, NEW y \in Yaws, Turn(g, p, y)
      PROVE  RoundOK'
  BY <1>2 DEF Turn, HandleLocationRotation
<1>3. ASSUME NEW g \in GUID, Handle_CMSG_PLAYER_REQUEST_AUTOATTACK_TOGGLE(g)
      PROVE  RoundOK'
  BY <1>3 DEF Handle_CMSG_PLAYER_REQUEST_AUTOATTACK_TOGGLE, Queued
<1>4. ASSUME NEW g \in GUID, NEW t \in GUID, Handle_CMSG_PLAYER_TARGET_REQUEST(g, t)
      PROVE  RoundOK'
  BY <1>4 DEF Handle_CMSG_PLAYER_TARGET_REQUEST, Queued
<1>5. CASE Passes
  BY <1>5 DEF Passes
<1>6. CASE CombatUpdate
  BY <1>6 DEF CombatUpdate, vars
<1>7. ASSUME NEW g \in GUID, Skip(g) \/ Wait(g) \/ Swing(g) PROVE RoundOK'
  BY <1>7 DEF Skip, Wait, Swing, IsVisited, vars
<1>8. CASE UNCHANGED allVars
  BY <1>8 DEF allVars, vars
<1> QED
  BY <1>1, <1>2, <1>3, <1>4, <1>5, <1>6, <1>7, <1>8, CombatAssumption
     DEF CombatNext, WorldTick, Visit, GUID

LEMMA TimerStep ==
  ASSUME TypeOK, CombatTypeOK, TimerOK, [CombatNext]_allVars PROVE TimerOK'
<1> USE CombatAssumption DEF TimerOK, combatVars
<1>0. \A g \in GUID : sinceSwing[g] \in Nat /\ attackTimer[g] \in Nat
      /\ DelayRounds \in Nat /\ Diff * sinceSwing[g] \in Int
  BY DelayRoundsBound DEF CombatTypeOK
<1>1. ASSUME UNCHANGED <<attackTimer, sinceSwing, round>> PROVE TimerOK'
  BY <1>1
<1>2. CASE CombatUpdate
  <2> SUFFICES ASSUME NEW g \in GUID, sinceSwing'[g] < DelayRounds
               PROVE  attackTimer'[g] + Diff * sinceSwing'[g]
                        >= AttackDelay + (IF g \in round' THEN Diff ELSE 0)
    OBVIOUS
  <2>1. sinceSwing'[g] = sinceSwing[g] + 1 /\ attackTimer'[g] = attackTimer[g]
    BY <1>0, <1>2 DEF CombatUpdate
  <2>2. attackTimer[g] + Diff * sinceSwing[g] >= AttackDelay
    BY <1>0, <2>1
  <2>3. Diff * (sinceSwing[g] + 1) = Diff * sinceSwing[g] + Diff
    BY <1>0
  <2> QED
    BY <1>0, <2>1, <2>2, <2>3
<1>3. ASSUME NEW g \in GUID, Skip(g) PROVE TimerOK'
  <2>1. UNCHANGED <<attackTimer, sinceSwing>> /\ round' \subseteq round
    BY <1>3 DEF Skip
  <2> QED
    BY <1>0, <2>1
<1>4. ASSUME NEW g \in GUID, Wait(g) PROVE TimerOK'
  <2> SUFFICES ASSUME NEW h \in GUID, sinceSwing'[h] < DelayRounds
               PROVE  attackTimer'[h] + Diff * sinceSwing'[h]
                        >= AttackDelay + (IF h \in round' THEN Diff ELSE 0)
    OBVIOUS
  <2>1. sinceSwing' = sinceSwing /\ round' = round \ {g}
    BY <1>4 DEF Wait
  <2>2. CASE h = g
    <3>1. g \in round /\ attackTimer'[g] >= attackTimer[g] - Diff
      BY <1>0, <1>4 DEF Wait, IsVisited, Remaining, CombatTypeOK
    <3>2. attackTimer[g] + Diff * sinceSwing[g] >= AttackDelay + Diff
      BY <2>1, <2>2, <3>1
    <3>3. attackTimer'[g] \in Int
      BY <1>4, <1>0 DEF Wait, Remaining, CombatTypeOK
    <3> QED
      BY <1>0, <2>1, <2>2, <3>1, <3>2, <3>3
  <2>3. CASE h # g
    BY <1>0, <1>4, <2>1, <2>3 DEF Wait, CombatTypeOK
  <2> QED
    BY <2>2, <2>3
<1>5. ASSUME NEW g \in GUID, Swing(g) PROVE TimerOK'
  <2> SUFFICES ASSUME NEW h \in GUID, sinceSwing'[h] < DelayRounds
               PROVE  attackTimer'[h] + Diff * sinceSwing'[h]
                        >= AttackDelay + (IF h \in round' THEN Diff ELSE 0)
    OBVIOUS
  <2>1. CASE h = g
    <3>1. attackTimer'[g] = AttackDelay /\ sinceSwing'[g] = 0 /\ g \notin round'
      BY <1>5 DEF Swing, CombatTypeOK
    <3> QED
      BY <2>1, <3>1
  <2>2. CASE h # g
    <3>1. attackTimer'[h] = attackTimer[h] /\ sinceSwing'[h] = sinceSwing[h]
          /\ (h \in round' <=> h \in round)
      BY <1>5, <2>2 DEF Swing, CombatTypeOK
    <3> QED
      BY <3>1
  <2> QED
    BY <2>1, <2>2
<1> QED
  BY <1>1, <1>2, <1>3, <1>4, <1>5
     DEF CombatNext, WorldTick, Visit, Passes, Turn, allVars,
     Handle_CMSG_PLAYER_REQUEST_AUTOATTACK_TOGGLE, Handle_CMSG_PLAYER_TARGET_REQUEST

LEMMA CombatInitially == CombatInit => BInv
<1> SUFFICES ASSUME CombatInit PROVE BInv
  OBVIOUS
<1>1. VInv
  BY VInvInitially DEF CombatInit
<1>2. CombatTypeOK
  <2>1. East \in Int \X Int /\ 0 \in 0..1 /\ 0 \in 0..AttackDelay
        /\ DelayRounds \in 0..DelayRounds
    BY CombatAssumption, DelayRoundsBound DEF East
  <2> QED
    BY <2>1 DEF CombatInit, CombatTypeOK
<1>3. RoundOK /\ TimerOK
  BY DelayRoundsBound DEF CombatInit, RoundOK, TimerOK
<1> QED
  BY <1>1, <1>2, <1>3 DEF BInv

LEMMA CombatInvariance == CombatSpec => []BInv
<1>1. BInv /\ [CombatNext]_allVars => BInv'
  BY VInvStep, CombatImplementsVisibility, CombatTypeStep, RoundStep, TimerStep
     DEF BInv, VInv, IInv
<1> QED
  BY CombatInitially, <1>1, PTL DEF CombatSpec

----------------------------------------------------------------------------
\* The variables of combat keep their types; in particular a timer never passes
\* AttackDelay and never runs below zero.
THEOREM CombatTypeCorrect == CombatSpec => []CombatTypeOK
<1>1. BInv => CombatTypeOK
  BY DEF BInv
<1> QED
  BY CombatInvariance, <1>1, PTL

\* Two swings of a player are at least AttackDelay apart, for every delay and every
\* step of the timer, whatever the client toggles in between.
THEOREM SwingsAreApart == CombatSpec => SwingsApart
<1> DEFINE Apart == \A g \in GUID : Swing(g) => sinceSwing[g] >= DelayRounds
<1>1. BInv => Apart
  BY SwingIsLate DEF BInv
<1>2. BInv /\ [CombatNext]_allVars => [Apart]_allVars
  BY <1>1
<1> QED
  BY CombatInvariance, <1>2, PTL DEF CombatSpec, SwingsApart

\* The parties of a swing that were placed see each other, wherever the edges of the
\* cells are, provided that the range is no wider than a cell.
THEOREM StrikesAreSeen == CombatSpec => StrikeIsSeen
<1> DEFINE Seen == \A g \in GUID :
       LET t == targetGUID[g] IN
       Swing(g) /\ t # g /\ {g, t} \subseteq members \cap Located
         => t \in currentVisible[g] /\ g \in currentVisible[t]
<1>1. BInv => Seen
  <2> SUFFICES ASSUME BInv, NEW g \in GUID, NEW t, t = targetGUID[g], Swing(g), t # g,
                      g \in members \cap Located, t \in members \cap Located
               PROVE  t \in currentVisible[g] /\ g \in currentVisible[t]
    OBVIOUS
  <2>1. pc = "players"
    BY DEF BInv, RoundOK, Swing, IsVisited
  <2>2. t \in GUID /\ position[g] \in Int \X Int /\ position[t] \in Int \X Int
    BY DEF BInv, VInv, IInv, TypeOK
  <2>3. Near(position[t], position[g])
    <3> DEFINE dx == position[t][1] - position[g][1]
               dy == position[t][2] - position[g][2]
    <3>1. dx * dx + dy * dy <= Range * Range
      BY DEF Swing, CanStrike, InRange, Dot, To
    <3> HIDE DEF dx, dy
    <3>2. Range \in 0..GridSize
      BY CombatAssumption
    <3> QED
      BY <2>2, <3>1, <3>2, CloseIsNear DEF dx, dy
  <2>4. t \in currentVisible[g]
    BY <2>1, <2>2, <2>3, NearIsMutual, SightIsExact DEF BInv, VisibleIffNear
  <2>5. g \in currentVisible[t]
    BY <2>4 DEF BInv, VInv, Mutual
  <2> QED
    BY <2>4, <2>5
<1>2. BInv /\ [CombatNext]_allVars => [Seen]_allVars
  BY <1>1
<1> QED
  BY CombatInvariance, <1>2, PTL DEF CombatSpec, StrikeIsSeen

=============================================================================
