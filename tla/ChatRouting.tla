---------------------------- MODULE ChatRouting ----------------------------
(***************************************************************************)
(* Chat over the visibility of PlayerVisibility.  Handling a chat packet   *)
(* is a loop of its own inside the packet pass of the tick: the world      *)
(* thread parses the text, echoes it to the speaker and then walks the     *)
(* speaker's currentVisiblePlayers_, looking every target up in the live   *)
(* session list, which the network thread goes on changing.  Each lookup   *)
(* is a step.  Visible sets and clients do not change meanwhile, since the *)
(* same thread would have to do it; a session that has left may still have *)
(* a chat packet in the queue, and speaks from its last visible set.       *)
(***************************************************************************)
EXTENDS PlayerVisibility

CONSTANTS SayDistance,      \* SAY_DISTANCE
          ShoutDistance     \* SHOUT_DISTANCE, which no code reads

ASSUME ChatAssumption ==
  SayDistance \in Nat /\ ShoutDistance \in Nat /\ SayDistance <= GridSize

VARIABLE speech             \* the chat packet in the making: who speaks, on which
                            \* channel, the targets left and those sent to

chatVars == <<vars, speech>>

----------------------------------------------------------------------------
\* A chat text as the parser tells texts apart: blank or over 255 characters;
\* the first word, if it starts with a slash; whether words follow.
Commands == {"none", "/say", "/shout", "/guild", "/tell", "unknown"}
Request == [command : Commands, words : BOOLEAN, overlong : BOOLEAN]

\* The channel that a text is sent on: guild and tell only write to the log.
Channel(r) ==
  CASE r.overlong -> "none"
    [] ~r.overlong /\ r.words /\ r.command \in {"none", "/say"} -> "say"
    [] ~r.overlong /\ r.words /\ r.command = "/shout" -> "shout"
    [] OTHER -> "none"

Silence == [from |-> 0, channel |-> "none", left |-> {}, heard |-> {}]

ChatInit == Init /\ speech = Silence

\* Fault: the text goes to every session instead of those in sight.
Handle_CMSG_CHAT_REQUEST_ToAll(g, r) ==
  /\ pc = "packets" /\ speech = Silence /\ g \in members \cup departed
  /\ Channel(r) # "none"
  /\ speech' = [from |-> g, channel |-> Channel(r),
                left |-> members \ {g}, heard |-> {}]
  /\ UNCHANGED vars

\* Fault: the set of the tick before.
Handle_CMSG_CHAT_REQUEST_Previous(g, r) ==
  /\ pc = "packets" /\ speech = Silence /\ g \in members \cup departed
  /\ Channel(r) # "none"
  /\ speech' = [from |-> g, channel |-> Channel(r),
                left |-> previousVisible[g], heard |-> {}]
  /\ UNCHANGED vars

\* A chat packet that is sent on, perhaps of a session that has left since.
Handle_CMSG_CHAT_REQUEST(g, r) ==
  /\ pc = "packets" /\ speech = Silence /\ g \in members \cup departed
  /\ Channel(r) # "none"
  /\ speech' = [from |-> g, channel |-> Channel(r),
                left |-> currentVisible[g], heard |-> {}]
  /\ UNCHANGED vars

\* Closer than d; z is left out.
Within(p, q, d) ==
  (p[1] - q[1]) * (p[1] - q[1]) + (p[2] - q[2]) * (p[2] - q[2]) < d * d

\* One round of the loop: GetSessionByPlayerGUID finds t, and t is close, or
\* nothing is sent.  Say and shout both compare with SAY_DISTANCE.
Send_SMSG_CHAT(t) ==
  /\ t \in speech.left
  /\ speech' = [speech EXCEPT
       !.left = @ \ {t},
       !.heard = IF /\ t \in members
                    /\ Within(position[speech.from], position[t], SayDistance)
                 THEN @ \cup {t} ELSE @]
  /\ UNCHANGED vars

EndSpeech ==
  /\ speech # Silence /\ speech.left = {}
  /\ speech' = Silence
  /\ UNCHANGED vars

Speak == (\E t \in GUID : Send_SMSG_CHAT(t)) \/ EndSpeech

ChatNext ==
  \/ SessionStep /\ UNCHANGED speech
  \/ speech = Silence /\ Tick /\ UNCHANGED speech
  \/ /\ speech = Silence /\ UNCHANGED speech
     /\ \E g \in GUID, p \in Positions : HandleLocationRotation(g, p)
  \/ \E g \in GUID, r \in Request : Handle_CMSG_CHAT_REQUEST(g, r)
  \/ Speak

\* The world thread runs, and its packet queue runs empty again and again: clients
\* do not send faster than it drains.
ChatSpec ==
  /\ ChatInit /\ [][ChatNext]_chatVars
  /\ WF_chatVars(Speak) /\ SF_chatVars(speech = Silence /\ Tick /\ UNCHANGED speech)

----------------------------------------------------------------------------
(* Properties.                                                             *)

ChatTypeOK ==
  speech \in [from : GUID \cup {0}, channel : {"none", "say", "shout"},
              left : SUBSET GUID, heard : SUBSET GUID]

\* A client never hears a connected player that it does not show: whoever the
\* speaker saw had the speaker spawned, although sessions join and leave between
\* the placing, the spawns and the lookups of the chat loop.
SpeakerIsShown ==
  speech.from \in members =>
    \A v \in speech.heard \cap members : speech.from \in known[v]

\* Two players are settled when the tick has placed both and neither has changed
\* its cell since.
Settled(g) == g \in members \cap Located /\ zoneID[g] = CellOf(position[g])

\* When a chat packet has been handled, everyone closer than d that the last tick
\* could know of has been sent it.
ReachesNearby(channel, d) ==
  speech.channel = channel /\ speech.left = {} /\ Settled(speech.from) =>
    \A v \in GUID \ {speech.from} :
      Settled(v) /\ Within(position[speech.from], position[v], d) => v \in speech.heard

\* What is said is heard within SAY_DISTANCE, across the edges of the grid cells
\* the visible sets are computed from.
SayReachesNearby == ReachesNearby("say", SayDistance)

\* "Shout Distance check for the shout chat channel." (World.h:36): what is shouted
\* is heard within SHOUT_DISTANCE.
ShoutReachesNearby == ReachesNearby("shout", ShoutDistance)
=============================================================================
