-------------------------- MODULE SessionRegistry --------------------------
(***************************************************************************)
(* What the rest of the server may rely on about the session list of       *)
(* WorldSessionMgr, without sockets, threads or packets: a connection is   *)
(* registered at most once, in the order its GUID was issued, it leaves at *)
(* most once and never comes back, and a registered connection that was    *)
(* lost (its client hung up, or the server closed it) eventually leaves.   *)
(***************************************************************************)
EXTENDS Naturals

CONSTANT MaxGUID        \* connections the acceptor hands out (bound of a run)

GUID == 1..MaxGUID

VARIABLES members,      \* the GUIDs in m_sessions
          departed,     \* the GUIDs that were members and were removed
          lost          \* the GUIDs whose connection has ended

vars == <<members, departed, lost>>

Init == members = {} /\ departed = {} /\ lost = {}

\* AddSession: a GUID younger than every GUID that was ever registered.
Join(g) ==
  /\ \A h \in members \cup departed : h < g
  /\ members' = members \cup {g}
  /\ UNCHANGED <<departed, lost>>

\* The connection ends, whichever side ends it.
Lose(g) ==
  /\ g \notin lost
  /\ lost' = lost \cup {g}
  /\ UNCHANGED <<members, departed>>

\* RemoveSessionByPlayerID: only a lost connection is removed, exactly one.
Leave(g) ==
  /\ g \in members \cap lost
  /\ members' = members \ {g}
  /\ departed' = departed \cup {g}
  /\ UNCHANGED lost

Next == \E g \in GUID : Join(g) \/ Lose(g) \/ Leave(g)

Spec == Init /\ [][Next]_vars /\ \A g \in GUID : WF_vars(Leave(g))
=============================================================================
