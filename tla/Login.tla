------------------------------- MODULE Login -------------------------------
(***************************************************************************)
(* The login of one connection: CMSG_AUTH asks for a salt, CMSG_AUTH_      *)
(* CHALLENGE answers with a hash of the password and the salt.  The server *)
(* keeps one salt per session, the last it issued.  The client (external)  *)
(* may be mistaken about its name or password, may ask again before it has *)
(* an answer, and may send a packet that is too short for the handler: the *)
(* read throws and World::Run disconnects the session, whose later packets *)
(* are still handled.  Each direction of the connection is in order.       *)
(***************************************************************************)
EXTENDS WorldPacket

CONSTANTS MaxAuth,          \* CMSG_AUTH packets of a client (bound)
          Names, Passwords, \* what clients type: sequences of characters (bound)
          ExpectedUsername, \* "testplayer"
          ExpectedPassword  \* "password123"

ASSUME LoginAssumption ==
  /\ MaxAuth \in Nat
  /\ Names \subseteq Seq(Nat) /\ Passwords \subseteq Seq(Nat)
  /\ ExpectedUsername \in Names /\ ExpectedPassword \in Passwords
  /\ Len(ExpectedUsername) < Width /\ Len(ExpectedPassword) + 1 < Width

VARIABLES toServer,         \* the session's packets in the queue
          toClient,         \* the packets the client has not read
          open,             \* the socket is open
          authSalt,         \* m_authSalt
          authenticated,    \* bAuthenticated
          characterName,    \* characterName_
          salts,            \* salts issued
          requests,         \* CMSG_AUTH packets sent
          told,             \* what the client was told last
          mistyped, hurried, cut   \* what the client did wrong (history): a wrong name
                                   \* or password, a request before the answer to the
                                   \* last, a packet too short

serverVars == <<open, authSalt, authenticated, characterName, salts>>
clientVars == <<requests, told, mistyped, hurried, cut>>
vars == <<toServer, toClient, serverVars, clientVars>>

Init ==
  /\ toServer = <<>> /\ toClient = <<>>
  /\ open = TRUE /\ authSalt = 0 /\ authenticated = FALSE /\ characterName = <<>>
  /\ salts = 0
  /\ requests = 0 /\ told = "nothing"
  /\ mistyped = FALSE /\ hurried = FALSE /\ cut = FALSE

\* A packet of some opcode.
Packet(op, data) == [op |-> op, data |-> data]

\* SHA-256 of password and salt, as far as its equality goes: no two collide.
GenerateAuthHash(password, salt) == Append(password, salt)

----------------------------------------------------------------------------
\* The client.  It sends data as it is, or cut off somewhere.
Sends(op, data) ==
  \/ toServer' = Append(toServer, Packet(op, data)) /\ UNCHANGED cut
  \/ /\ toServer' = Append(toServer, Packet(op, SubSeq(data, 1, Len(data) - 1)))
     /\ cut' = TRUE

\* The client is between two packets of a handshake.
Pending == told = "nothing" /\ requests > 0

RequestAuth(name) ==
  /\ open /\ requests < MaxAuth
  /\ requests' = requests + 1
  /\ told' = "nothing"
  /\ mistyped' = (mistyped \/ name # ExpectedUsername)
  /\ hurried' = (hurried \/ Pending)
  /\ Sends("CMSG_AUTH", PutString(<<>>, name))
  /\ UNCHANGED <<toClient, serverVars>>

\* The answer to a salt, with the name that came with it.
AnswerChallenge(password) ==
  /\ open /\ toClient # <<>> /\ Head(toClient).op = "SMSG_AUTH"
  /\ toClient' = Tail(toClient)
  /\ mistyped' = (mistyped \/ password # ExpectedPassword)
  /\ LET name == GetString(Head(toClient).data, 0)
         salt == GetNumber(Head(toClient).data, name.pos).value
     IN Sends("CMSG_AUTH_CHALLENGE",
              PutString(PutString(<<>>, name.value), GenerateAuthHash(password, salt)))
  /\ UNCHANGED <<serverVars, requests, told, hurried>>

\* The client learns how its login went.
ReadOutcome ==
  /\ toClient # <<>> /\ Head(toClient).op # "SMSG_AUTH"
  /\ toClient' = Tail(toClient)
  /\ told' = IF Head(toClient).op = "SMSG_AUTH_CHALLENGE" THEN "success" ELSE "failure"
  /\ UNCHANGED <<toServer, serverVars, requests, mistyped, hurried, cut>>

----------------------------------------------------------------------------
\* The server.  What it sends on a closed socket is lost.
Reply(op, data) == toClient' = IF open THEN Append(toClient, Packet(op, data)) ELSE toClient

\* Fault: the packet stays in the queue.
DequeueNot(op) == toServer # <<>> /\ Head(toServer).op = op /\ UNCHANGED toServer

Dequeue(op) ==
  /\ toServer # <<>> /\ Head(toServer).op = op
  /\ toServer' = Tail(toServer)

\* The handler threw: Disconnect.
HandlerThrows ==
  /\ open' = FALSE
  /\ UNCHANGED <<toClient, authSalt, authenticated, characterName, salts>>

\* Fault: a repeated request keeps the first salt and issues another.
AuthKeepsSalt ==
  /\ Dequeue("CMSG_AUTH") /\ UNCHANGED clientVars
  /\ LET username == GetString(Head(toServer).data, 0) IN
     IF username.thrown THEN HandlerThrows
     ELSE IF username.value = ExpectedUsername
     THEN /\ salts' = salts + 1
          /\ authSalt' = IF authSalt = 0 THEN salts' ELSE authSalt
          /\ Reply("SMSG_AUTH", PutNumber(PutString(<<>>, username.value), salts'))
          /\ UNCHANGED <<open, authenticated, characterName>>
     ELSE /\ Reply("SMSG_AUTH_FAIL", <<>>)
          /\ UNCHANGED serverVars

\* A salt that was never used, to whoever gives the expected name.
Handle_CMSG_AUTH ==
  /\ Dequeue("CMSG_AUTH") /\ UNCHANGED clientVars
  /\ LET username == GetString(Head(toServer).data, 0) IN
     IF username.thrown THEN HandlerThrows
     ELSE IF username.value = ExpectedUsername
     THEN /\ salts' = salts + 1
          /\ authSalt' = salts'
          /\ Reply("SMSG_AUTH", PutNumber(PutString(<<>>, username.value), salts'))
          /\ UNCHANGED <<open, authenticated, characterName>>
     ELSE /\ Reply("SMSG_AUTH_FAIL", <<>>)
          /\ UNCHANGED serverVars

\* A failure leaves an earlier success in place.
Handle_CMSG_AUTH_CHALLENGE ==
  /\ Dequeue("CMSG_AUTH_CHALLENGE") /\ UNCHANGED clientVars
  /\ LET fields == GetStrings(Head(toServer).data) IN
     IF fields.thrown THEN HandlerThrows
     ELSE IF fields.value = <<ExpectedUsername, GenerateAuthHash(ExpectedPassword, authSalt)>>
     THEN /\ authenticated' = TRUE /\ characterName' = fields.value[1]
          /\ Reply("SMSG_AUTH_CHALLENGE", PutString(<<>>, fields.value[1]))
          /\ UNCHANGED <<open, authSalt, salts>>
     ELSE /\ Reply("SMSG_AUTH_CHALLENGE_FAIL", <<>>)
          /\ UNCHANGED serverVars

Handle == Handle_CMSG_AUTH \/ Handle_CMSG_AUTH_CHALLENGE

Respond == ReadOutcome \/ \E p \in Passwords : AnswerChallenge(p)

Next == Handle \/ Respond \/ \E n \in Names : RequestAuth(n)

\* The world thread handles what is queued; the client answers what it gets.
Spec == Init /\ [][Next]_vars /\ WF_vars(Handle) /\ WF_vars(Respond)

----------------------------------------------------------------------------
(* Properties.                                                             *)

Opcodes == {"CMSG_AUTH", "CMSG_AUTH_CHALLENGE", "SMSG_AUTH", "SMSG_AUTH_FAIL",
            "SMSG_AUTH_CHALLENGE", "SMSG_AUTH_CHALLENGE_FAIL"}

TypeOK ==
  /\ toServer \in Seq([op : Opcodes, data : Seq(Nat)])
  /\ toClient \in Seq([op : Opcodes, data : Seq(Nat)])
  /\ open \in BOOLEAN /\ authenticated \in BOOLEAN
  /\ salts \in 0..MaxAuth /\ authSalt \in 0..salts /\ requests \in 0..MaxAuth
  /\ characterName \in {<<>>, ExpectedUsername}
  /\ told \in {"nothing", "success", "failure"}
  /\ {mistyped, hurried, cut} \subseteq BOOLEAN

\* A client that knows its name and password, sends whole packets and waits for each
\* answer is never refused and never disconnected: the two packets it exchanges
\* decode to what was put in, and the salt it answers is the one the server has.
PatientIsAdmitted ==
  ~mistyped /\ ~hurried /\ ~cut => told # "failure" /\ open

\* A client that knows its name and password gets in although it asks again before
\* it was answered, which replaces the salt of the handshake under way.
RetryIsAdmitted == requests > 0 ~> told = "success" \/ mistyped \/ cut
=============================================================================
