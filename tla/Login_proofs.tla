---------------------------- MODULE Login_proofs ----------------------------
(***************************************************************************)
(* Proofs about Login, for any number of requests and any names and        *)
(* passwords whose lengths fit: a client that follows the handshake is     *)
(* never refused, and one that asks again before it is answered is let in  *)
(* by the last of its handshakes, which a packet under way carries on in   *)
(* every state.                                                            *)
(***************************************************************************)
EXTENDS Login, WorldPacket_proofs

\* What a challenge carries, and what answers it.
SaltData(salt) == PutNumber(PutString(<<>>, ExpectedUsername), salt)
HashData(salt) ==
  PutString(PutString(<<>>, ExpectedUsername), GenerateAuthHash(ExpectedPassword, salt))

\* The packets of a handshake of a client that knows its name and password.
NamePacket == Packet("CMSG_AUTH", PutString(<<>>, ExpectedUsername))
SaltPacket == Packet("SMSG_AUTH", SaltData(authSalt))
HashPacket == Packet("CMSG_AUTH_CHALLENGE", HashData(authSalt))

\* A handshake has one packet under way, and none between handshakes.
Handshake ==
  \/ ~Pending /\ toServer = <<>> /\ toClient = <<>>
  \/ Pending /\ toServer = <<NamePacket>> /\ toClient = <<>>
  \/ Pending /\ toServer = <<>> /\ toClient = <<SaltPacket>>
  \/ Pending /\ toServer = <<HashPacket>> /\ toClient = <<>>
  \/ Pending /\ toServer = <<>> /\ \E d : toClient = <<Packet("SMSG_AUTH_CHALLENGE", d)>>

Patient == ~mistyped /\ ~hurried /\ ~cut

\* Room for the salts that the requests in the queue q will draw: f counts them.
Numbered(q, low, high) ==
  \E f \in [0..Len(q) -> 0..high] :
    /\ low <= f[0]
    /\ \A k \in 1..Len(q) : /\ f[k - 1] <= f[k]
                            /\ q[k].op = "CMSG_AUTH" => f[k - 1] < f[k]

\* A challenge that waits for the client carries a salt.
SaltsCarried ==
  \A k \in DOMAIN toClient :
    toClient[k].op = "SMSG_AUTH" => \E salt \in Nat : toClient[k].data = SaltData(salt)

TInv ==
  /\ TypeOK
  /\ Numbered(toServer, salts, requests)
  /\ SaltsCarried

\* What a client that may be hasty, but knows its name and password, has under way.
WholePackets ==
  /\ \A k \in DOMAIN toServer :
       \/ toServer[k] = NamePacket
       \/ \E salt \in Nat : toServer[k] = Packet("CMSG_AUTH_CHALLENGE", HashData(salt))
  /\ \A k \in DOMAIN toClient : toClient[k].op # "SMSG_AUTH_FAIL"

\* No challenge waits for the client after the k-th of its packets.
NoSaltAfter(k) == \A j \in DOMAIN toClient : j > k => toClient[j].op # "SMSG_AUTH"

\* How far the last of its handshakes is: a request waits; the challenge with the
\* server's salt is the last one; its answer is the last packet that waits; so is the
\* success; the client knows.
Asked == \E k \in DOMAIN toServer : toServer[k].op = "CMSG_AUTH"
Challenged == \E k \in DOMAIN toClient : toClient[k] = SaltPacket /\ NoSaltAfter(k)
Answered == toServer # <<>> /\ toServer[Len(toServer)] = HashPacket /\ NoSaltAfter(0)
Accepted ==
  /\ toServer = <<>> /\ NoSaltAfter(0)
  /\ toClient # <<>> /\ toClient[Len(toClient)].op = "SMSG_AUTH_CHALLENGE"
Told == toServer = <<>> /\ toClient = <<>> /\ told = "success"

HInv ==
  ~mistyped /\ ~cut =>
    /\ open /\ WholePackets
    /\ requests > 0 => Asked \/ Challenged \/ Answered \/ Accepted \/ Told

LInv ==
  /\ salts \in Nat /\ authSalt \in Nat /\ requests \in Nat
  /\ Patient => open /\ told # "failure" /\ Handshake

----------------------------------------------------------------------------
LEMMA Strings ==
  /\ ExpectedUsername \in Seq(Nat) /\ ExpectedPassword \in Seq(Nat)
  /\ \A salt \in Nat : /\ GenerateAuthHash(ExpectedPassword, salt) \in Seq(Nat)
                       /\ Len(GenerateAuthHash(ExpectedPassword, salt)) < Width
<1>1. ExpectedUsername \in Seq(Nat) /\ ExpectedPassword \in Seq(Nat)
  BY LoginAssumption
<1>2. ASSUME NEW salt \in Nat
      PROVE  /\ GenerateAuthHash(ExpectedPassword, salt) \in Seq(Nat)
             /\ Len(GenerateAuthHash(ExpectedPassword, salt)) < Width
  BY <1>1, AppendProperties, LoginAssumption DEF GenerateAuthHash
<1> QED
  BY <1>1, <1>2

\* The client's request is read as the name that was typed.
LEMMA NameIsRead ==
  LET d == PutString(<<>>, ExpectedUsername)
  IN  ~GetString(d, 0).thrown /\ GetString(d, 0).value = ExpectedUsername
<1> DEFINE e == <<>>
           d == PutString(e, ExpectedUsername)
           n == Len(ExpectedUsername)
<1>1. e \in Seq(Nat) /\ Len(e) = 0 /\ ExpectedUsername \in Seq(Nat) /\ n \in Nat /\ n < Width
  BY Strings, LoginAssumption
<1> HIDE DEF e, d
<1>2. d \in Seq(Nat) /\ Len(d) = Len(e) + 1 + n /\ HoldsAt(d, Len(e), ExpectedUsername)
  BY <1>1, PutStringHolds DEF d
<1>3. GetString(d, 0) = Read(ExpectedUsername, 0 + 1 + n)
  BY <1>1, <1>2, GetStringReads
<1>4. ~GetString(d, 0).thrown /\ GetString(d, 0).value = ExpectedUsername
  BY <1>3 DEF Read
<1> QED
  BY <1>4 DEF d, e

\* The client reads the name and the salt that the server put in.
LEMMA SaltIsRead ==
  ASSUME NEW salt \in Nat
  PROVE  LET name == GetString(SaltData(salt), 0)
         IN  /\ name.value = ExpectedUsername
             /\ GetNumber(SaltData(salt), name.pos).value = salt
             /\ SaltData(salt) \in Seq(Nat)
<1> DEFINE e == <<>>
           a == PutString(e, ExpectedUsername)
           d == PutNumber(a, salt)
           n == Len(ExpectedUsername)
<1>1. e \in Seq(Nat) /\ Len(e) = 0 /\ ExpectedUsername \in Seq(Nat) /\ n \in Nat /\ n < Width
  BY Strings, LoginAssumption
<1> HIDE DEF e
<1>2. a \in Seq(Nat) /\ Len(a) = n + 1 /\ HoldsAt(a, 0, ExpectedUsername)
  <2> HIDE DEF a
  <2>1. a \in Seq(Nat) /\ Len(a) = Len(e) + 1 + n /\ HoldsAt(a, Len(e), ExpectedUsername)
    BY <1>1, PutStringHolds DEF a
  <2> QED
    BY <1>1, <2>1
<1> HIDE DEF a
<1>3. /\ d \in Seq(Nat) /\ Len(d) = n + 2 /\ d[n + 2] = salt
      /\ \A j \in 1..(n + 1) : d[j] = a[j]
  BY <1>1, <1>2, AppendProperties DEF PutNumber
<1> HIDE DEF d
<1>4. HoldsAt(d, 0, ExpectedUsername)
  <2>1. 0 + 1 \in 1..(n + 1) /\ \A j \in 1..n : 0 + 1 + j \in 1..(n + 1)
    BY <1>1
  <2> QED
    BY <1>2, <1>3, <2>1 DEF HoldsAt
<1>5. GetString(d, 0) = Read(ExpectedUsername, 0 + 1 + n)
  BY <1>1, <1>3, <1>4, GetStringReads
<1>6. GetString(d, 0).value = ExpectedUsername /\ GetString(d, 0).pos = n + 1
  BY <1>1, <1>5 DEF Read
<1>7. GetNumber(d, n + 1) = Read(salt, n + 2)
  BY <1>1, <1>3 DEF GetNumber
<1>8. GetNumber(d, GetString(d, 0).pos).value = salt
  BY <1>6, <1>7 DEF Read
<1> QED
  BY <1>3, <1>6, <1>8 DEF SaltData, d, a, e

\* The server reads the name and the hash that the client put in.
LEMMA HashIsRead ==
  ASSUME NEW salt \in Nat
  PROVE  LET hash == GenerateAuthHash(ExpectedPassword, salt)
             fields == GetStrings(HashData(salt))
         IN  ~fields.thrown /\ fields.value = <<ExpectedUsername, hash>>
<1> DEFINE hash == GenerateAuthHash(ExpectedPassword, salt)
           fields == GetStrings(PutString(PutString(<<>>, ExpectedUsername), hash))
<1>1. /\ ExpectedUsername \in Seq(Nat) /\ hash \in Seq(Nat)
      /\ Len(ExpectedUsername) < Width /\ Len(hash) < Width
  BY Strings, LoginAssumption
<1> HIDE DEF hash
<1>2. fields = Read(<<ExpectedUsername, hash>>, 2 + Len(ExpectedUsername) + Len(hash))
  BY <1>1, StringsRoundTrip
<1> HIDE DEF fields
<1>3. ~fields.thrown /\ fields.value = <<ExpectedUsername, hash>>
  BY <1>2 DEF Read
<1> QED
  BY <1>3 DEF HashData, fields, hash

----------------------------------------------------------------------------
\* Queues of at most one packet.
LEMMA OnePacket ==
  ASSUME NEW x, NEW op, NEW data
  PROVE  /\ <<x>> # <<>> /\ Head(<<x>>) = x /\ Tail(<<x>>) = <<>> /\ Append(<<>>, x) = <<x>>
         /\ Packet(op, data).op = op /\ Packet(op, data).data = data
  BY DEF Packet

\* A cut packet ends the patience of the client.
LEMMA SendsWhole ==
  ASSUME NEW op, NEW data, Sends(op, data), ~cut', toServer = <<>>
  PROVE  ~cut /\ toServer' = <<Packet(op, data)>>
  BY OnePacket DEF Sends

LEMMA PatientStep ==
  ASSUME LInv, [Next]_vars, Patient'
  PROVE  (open /\ told # "failure" /\ Handshake)'
<1> USE DEF vars, serverVars, clientVars
<1>0. CASE UNCHANGED vars
  BY <1>0 DEF LInv, Patient, Handshake, Pending, SaltPacket, HashPacket
<1>1. ASSUME NEW n \in Names, RequestAuth(n) PROVE (open /\ told # "failure" /\ Handshake)'
  <2>1. ~mistyped /\ ~hurried /\ n = ExpectedUsername /\ ~Pending /\ ~cut'
    BY <1>1 DEF RequestAuth, Patient
  <2>2. ~cut
    BY <1>1, <2>1 DEF RequestAuth, Sends
  <2>3. toServer = <<>> /\ toClient = <<>> /\ open
    BY <2>1, <2>2 DEF LInv, Patient, Handshake
  <2>4. toServer' = <<NamePacket>>
    BY <1>1, <2>1, <2>3, SendsWhole DEF RequestAuth, NamePacket
  <2>5. toClient' = <<>> /\ open' /\ told' = "nothing" /\ requests' > 0
    BY <1>1, <2>3 DEF RequestAuth, LInv
  <2> QED
    BY <2>4, <2>5 DEF Handshake, Pending, NamePacket
<1>2. ASSUME NEW p \in Passwords, AnswerChallenge(p)
      PROVE  (open /\ told # "failure" /\ Handshake)'
  <2> DEFINE d == Head(toClient).data
             name == GetString(d, 0)
             salt == GetNumber(d, name.pos).value
             answer == PutString(PutString(<<>>, name.value), GenerateAuthHash(p, salt))
  <2>1. ~mistyped /\ ~hurried /\ p = ExpectedPassword /\ ~cut'
    BY <1>2 DEF AnswerChallenge, Patient
  <2>2. Sends("CMSG_AUTH_CHALLENGE", answer)
    BY <1>2 DEF AnswerChallenge
  <2>3. ~cut
    BY <2>1, <2>2 DEF Sends
  <2>4. open /\ told # "failure" /\ Handshake
    BY <2>1, <2>3 DEF LInv, Patient
  <2>5. toClient # <<>> /\ Head(toClient).op = "SMSG_AUTH" /\ toClient' = Tail(toClient)
        /\ UNCHANGED <<open, authSalt, requests, told>>
    BY <1>2 DEF AnswerChallenge
  <2>6. Pending /\ toServer = <<>> /\ toClient = <<SaltPacket>>
    BY <2>4, <2>5, OnePacket DEF Handshake
  <2>7. d = SaltData(authSalt) /\ toClient' = <<>>
    BY <2>5, <2>6, OnePacket DEF SaltPacket
  <2>8. name.value = ExpectedUsername /\ salt = authSalt
    BY <2>7, SaltIsRead DEF LInv
  <2> HIDE DEF d, name, salt
  <2>9. Packet("CMSG_AUTH_CHALLENGE", answer) = HashPacket
    BY <2>1, <2>8 DEF HashPacket, HashData
  <2> HIDE DEF answer
  <2>10. toServer' = <<HashPacket>>
    BY <2>1, <2>2, <2>6, <2>9, SendsWhole
  <2>11. HashPacket' = HashPacket /\ (Pending' <=> Pending)
    BY <2>5 DEF HashPacket, Pending
  <2> QED
    BY <2>4, <2>5, <2>6, <2>7, <2>10, <2>11 DEF Handshake
<1>3. CASE ReadOutcome
  <2>1. /\ toClient # <<>> /\ Head(toClient).op # "SMSG_AUTH" /\ toClient' = Tail(toClient)
        /\ told' = IF Head(toClient).op = "SMSG_AUTH_CHALLENGE" THEN "success" ELSE "failure"
        /\ UNCHANGED <<toServer, open, requests, mistyped, hurried, cut>>
    BY <1>3 DEF ReadOutcome
  <2>2. open /\ Handshake
    BY <2>1 DEF LInv, Patient
  <2>3. toServer = <<>> /\ \E d : toClient = <<Packet("SMSG_AUTH_CHALLENGE", d)>>
    BY <2>1, <2>2, OnePacket DEF Handshake, SaltPacket
  <2>4. PICK d : toClient = <<Packet("SMSG_AUTH_CHALLENGE", d)>>
    BY <2>3
  <2>5. toClient' = <<>> /\ told' = "success" /\ toServer' = <<>> /\ open'
    BY <2>1, <2>2, <2>3, <2>4, OnePacket
  <2> QED
    BY <2>5 DEF Handshake, Pending
<1>4. CASE Handle_CMSG_AUTH
  <2> DEFINE username == GetString(Head(toServer).data, 0)
  <2>1. /\ toServer # <<>> /\ Head(toServer).op = "CMSG_AUTH" /\ toServer' = Tail(toServer)
        /\ UNCHANGED clientVars
    BY <1>4 DEF Handle_CMSG_AUTH, Dequeue
  <2>2. open /\ told # "failure" /\ Handshake
    BY <2>1 DEF LInv, Patient
  <2>3. Pending /\ toServer = <<NamePacket>> /\ toClient = <<>>
    BY <2>1, <2>2, OnePacket DEF Handshake, HashPacket
  <2>4. Head(toServer).data = PutString(<<>>, ExpectedUsername) /\ toServer' = <<>>
    BY <2>1, <2>3, OnePacket DEF NamePacket
  <2>5. ~username.thrown /\ username.value = ExpectedUsername
    BY <2>4, NameIsRead
  <2>6. /\ authSalt' = salts' /\ open' = open
        /\ Reply("SMSG_AUTH", PutNumber(PutString(<<>>, username.value), salts'))
    <3>1. IF username.thrown THEN HandlerThrows
          ELSE IF username.value = ExpectedUsername
          THEN /\ salts' = salts + 1
               /\ authSalt' = salts'
               /\ Reply("SMSG_AUTH", PutNumber(PutString(<<>>, username.value), salts'))
               /\ UNCHANGED <<open, authenticated, characterName>>
          ELSE /\ Reply("SMSG_AUTH_FAIL", <<>>)
               /\ UNCHANGED serverVars
      BY <1>4 DEF Handle_CMSG_AUTH
    <3> HIDE DEF username
    <3> QED
      BY <2>5, <3>1
  <2> HIDE DEF username
  <2>7. toClient' = <<Packet("SMSG_AUTH", PutNumber(PutString(<<>>, username.value), salts'))>>
    BY <2>2, <2>3, <2>6, OnePacket DEF Reply
  <2>8. toClient' = <<SaltPacket'>>
    BY <2>5, <2>6, <2>7 DEF SaltPacket, SaltData
  <2>9. Pending' /\ told' = told
    BY <2>1, <2>3 DEF Pending
  <2> QED
    BY <2>2, <2>4, <2>6, <2>8, <2>9 DEF Handshake
<1>5. CASE Handle_CMSG_AUTH_CHALLENGE
  <2> DEFINE fields == GetStrings(Head(toServer).data)
  <2>1. /\ toServer # <<>> /\ Head(toServer).op = "CMSG_AUTH_CHALLENGE"
        /\ toServer' = Tail(toServer) /\ UNCHANGED clientVars
    BY <1>5 DEF Handle_CMSG_AUTH_CHALLENGE, Dequeue
  <2>2. open /\ told # "failure" /\ Handshake
    BY <2>1 DEF LInv, Patient
  <2>3. Pending /\ toServer = <<HashPacket>> /\ toClient = <<>>
    BY <2>1, <2>2, OnePacket DEF Handshake, NamePacket
  <2>4. toServer' = <<>>
        /\ Head(toServer).data = HashData(authSalt)
    BY <2>1, <2>3, OnePacket DEF HashPacket
  <2>5. /\ ~fields.thrown
        /\ fields.value = <<ExpectedUsername, GenerateAuthHash(ExpectedPassword, authSalt)>>
    BY <2>4, HashIsRead DEF LInv
  <2>6. open' = open /\ Reply("SMSG_AUTH_CHALLENGE", PutString(<<>>, fields.value[1]))
    <3>1. IF fields.thrown THEN HandlerThrows
          ELSE IF fields.value = <<ExpectedUsername, GenerateAuthHash(ExpectedPassword, authSalt)>>
          THEN /\ authenticated' = TRUE /\ characterName' = fields.value[1]
               /\ Reply("SMSG_AUTH_CHALLENGE", PutString(<<>>, fields.value[1]))
               /\ UNCHANGED <<open, authSalt, salts>>
          ELSE /\ Reply("SMSG_AUTH_CHALLENGE_FAIL", <<>>)
               /\ UNCHANGED serverVars
      BY <1>5 DEF Handle_CMSG_AUTH_CHALLENGE
    <3> HIDE DEF fields
    <3> QED
      BY <2>5, <3>1
  <2> HIDE DEF fields
  <2>7. toClient' = <<Packet("SMSG_AUTH_CHALLENGE", PutString(<<>>, fields.value[1]))>>
    BY <2>2, <2>3, <2>6, OnePacket DEF Reply
  <2>8. Pending' /\ told' = told
    BY <2>1, <2>3 DEF Pending
  <2> QED
    BY <2>2, <2>4, <2>6, <2>7, <2>8 DEF Handshake
<1> QED
  BY <1>0, <1>1, <1>2, <1>3, <1>4, <1>5 DEF Next, Handle, Respond

----------------------------------------------------------------------------
(* What the handlers and the client's packets do, as far as types go.      *)

Packets == [op : Opcodes, data : Seq(Nat)]

LEMMA AuthOutcome ==
  ASSUME Handle_CMSG_AUTH
  PROVE  /\ toServer # <<>> /\ Head(toServer).op = "CMSG_AUTH" /\ toServer' = Tail(toServer)
         /\ UNCHANGED <<requests, told, mistyped, hurried, cut, authenticated, characterName>>
         /\ LET username == GetString(Head(toServer).data, 0) IN
            \/ /\ username.thrown /\ open' = FALSE
               /\ UNCHANGED <<toClient, authSalt, salts>>
            \/ /\ ~username.thrown /\ username.value = ExpectedUsername
               /\ salts' = salts + 1 /\ authSalt' = salts' /\ open' = open
               /\ Reply("SMSG_AUTH", SaltData(salts'))
            \/ /\ username.value # ExpectedUsername
               /\ Reply("SMSG_AUTH_FAIL", <<>>) /\ UNCHANGED <<open, authSalt, salts>>
<1> DEFINE username == GetString(Head(toServer).data, 0)
<1>1. /\ toServer # <<>> /\ Head(toServer).op = "CMSG_AUTH" /\ toServer' = Tail(toServer)
      /\ UNCHANGED clientVars
      /\ IF username.thrown THEN HandlerThrows
         ELSE IF username.value = ExpectedUsername
         THEN /\ salts' = salts + 1
              /\ authSalt' = salts'
              /\ Reply("SMSG_AUTH", PutNumber(PutString(<<>>, username.value), salts'))
              /\ UNCHANGED <<open, authenticated, characterName>>
         ELSE /\ Reply("SMSG_AUTH_FAIL", <<>>)
              /\ UNCHANGED serverVars
  BY DEF Handle_CMSG_AUTH, Dequeue
<1> HIDE DEF username
<1>2. CASE username.thrown
  BY <1>1, <1>2 DEF HandlerThrows, clientVars, username
<1>3. CASE ~username.thrown /\ username.value = ExpectedUsername
  BY <1>1, <1>3 DEF SaltData, clientVars, username
<1>4. CASE ~username.thrown /\ username.value # ExpectedUsername
  BY <1>1, <1>4 DEF serverVars, clientVars, username
<1> QED
  BY <1>2, <1>3, <1>4

LEMMA ChallengeOutcome ==
  ASSUME Handle_CMSG_AUTH_CHALLENGE
  PROVE  /\ toServer # <<>> /\ Head(toServer).op = "CMSG_AUTH_CHALLENGE"
         /\ toServer' = Tail(toServer)
         /\ UNCHANGED <<requests, told, mistyped, hurried, cut, authSalt, salts>>
         /\ LET fields == GetStrings(Head(toServer).data)
                answer == <<ExpectedUsername, GenerateAuthHash(ExpectedPassword, authSalt)>> IN
            \/ /\ fields.thrown /\ open' = FALSE
               /\ UNCHANGED <<toClient, authenticated, characterName>>
            \/ /\ ~fields.thrown /\ fields.value = answer /\ open' = open
               /\ authenticated' = TRUE /\ characterName' = ExpectedUsername
               /\ Reply("SMSG_AUTH_CHALLENGE", PutString(<<>>, ExpectedUsername))
            \/ /\ fields.value # answer
               /\ Reply("SMSG_AUTH_CHALLENGE_FAIL", <<>>)
               /\ UNCHANGED <<open, authenticated, characterName>>
<1> DEFINE fields == GetStrings(Head(toServer).data)
           hash == GenerateAuthHash(ExpectedPassword, authSalt)
           answer == <<ExpectedUsername, hash>>
<1>1. /\ toServer # <<>> /\ Head(toServer).op = "CMSG_AUTH_CHALLENGE"
      /\ toServer' = Tail(toServer) /\ UNCHANGED clientVars
      /\ IF fields.thrown THEN HandlerThrows
         ELSE IF fields.value = answer
         THEN /\ authenticated' = TRUE /\ characterName' = fields.value[1]
              /\ Reply("SMSG_AUTH_CHALLENGE", PutString(<<>>, fields.value[1]))
              /\ UNCHANGED <<open, authSalt, salts>>
         ELSE /\ Reply("SMSG_AUTH_CHALLENGE_FAIL", <<>>)
              /\ UNCHANGED serverVars
  BY DEF Handle_CMSG_AUTH_CHALLENGE, Dequeue
<1>2. answer[1] = ExpectedUsername
  OBVIOUS
<1> HIDE DEF fields, answer
<1>3. CASE fields.thrown
  BY <1>1, <1>3 DEF HandlerThrows, clientVars, fields, answer
<1>4. CASE ~fields.thrown /\ fields.value = answer
  BY <1>1, <1>2, <1>4 DEF clientVars, fields, answer
<1>5. CASE ~fields.thrown /\ fields.value # answer
  BY <1>1, <1>5 DEF serverVars, clientVars, fields, answer
<1> QED
  BY <1>3, <1>4, <1>5

\* What the client sends, whole or cut, is a packet of the same opcode.
LEMMA SendsPacket ==
  ASSUME NEW op \in Opcodes, NEW data \in Seq(Nat), Sends(op, data), cut \in BOOLEAN
  PROVE  /\ cut' \in BOOLEAN
         /\ \E p \in Packets : p.op = op /\ toServer' = Append(toServer, p)
<1> DEFINE l == Len(data)
           short == SubSeq(data, 1, l - 1)
<1>1. short \in Seq(Nat)
  <2>1. l \in Nat /\ \A j \in 1..l : data[j] \in Nat
    OBVIOUS
  <2> HIDE DEF l
  <2>2. (\A j \in 1..(l - 1) : data[j] \in Nat) /\ 1 \in Int /\ l - 1 \in Int
    BY <2>1
  <2> QED
    BY <2>2, SubSeqProperties
<1>2. \/ toServer' = Append(toServer, Packet(op, data)) /\ UNCHANGED cut
      \/ toServer' = Append(toServer, Packet(op, short)) /\ cut' = TRUE
  BY DEF Sends
<1> HIDE DEF short
<1>3. \A d \in Seq(Nat) : Packet(op, d) \in Packets /\ Packet(op, d).op = op
  BY DEF Packet, Packets
<1> QED
  BY <1>1, <1>2, <1>3

\* A reply is typed, and if it is a challenge it carries a salt.
LEMMA ReplyTyped ==
  ASSUME toClient \in Seq(Packets), SaltsCarried,
         NEW op \in Opcodes, NEW data \in Seq(Nat), Reply(op, data),
         op = "SMSG_AUTH" => \E salt \in Nat : data = SaltData(salt)
  PROVE  (toClient \in Seq(Packets) /\ SaltsCarried)'
<1> DEFINE p == Packet(op, data)
<1>1. p \in Packets /\ p.op = op /\ p.data = data
  BY DEF Packet, Packets
<1>2. CASE toClient' = toClient
  BY <1>2 DEF SaltsCarried
<1>3. CASE toClient' = Append(toClient, p)
  <2> HIDE DEF p
  <2> DEFINE n == Len(toClient)
  <2>1. /\ toClient' \in Seq(Packets) /\ Len(toClient') = n + 1 /\ n \in Nat
        /\ toClient'[n + 1] = p /\ \A i \in 1..n : toClient'[i] = toClient[i]
    BY <1>1, <1>3, AppendProperties
  <2>2. DOMAIN toClient = 1..n /\ DOMAIN toClient' = 1..(n + 1)
    BY <2>1
  <2> HIDE DEF n
  <2>3. ASSUME NEW k \in 1..(n + 1), toClient'[k].op = "SMSG_AUTH"
        PROVE  \E salt \in Nat : toClient'[k].data = SaltData(salt)
    <3>1. CASE k \in 1..n
      BY <2>1, <2>2, <2>3, <3>1 DEF SaltsCarried
    <3>2. CASE k = n + 1
      BY <1>1, <2>1, <2>3, <3>2
    <3> QED
      BY <2>1, <3>1, <3>2
  <2> QED
    BY <2>1, <2>2, <2>3 DEF SaltsCarried
<1> QED
  BY <1>2, <1>3 DEF Reply

\* A request makes room for one more salt, another packet for none.
LEMMA NumberedAppend ==
  ASSUME NEW q \in Seq(Packets), NEW p \in Packets, NEW low \in Nat, NEW high \in Nat,
         Numbered(q, low, high)
  PROVE  /\ Numbered(Append(q, p), low, high + 1)
         /\ p.op # "CMSG_AUTH" => Numbered(Append(q, p), low, high)
<1> DEFINE n == Len(q)
           r == Append(q, p)
<1>1. /\ n \in Nat /\ Len(r) = n + 1 /\ r[n + 1] = p
      /\ \A i \in 1..n : r[i] = q[i]
  BY AppendProperties
<1>2. PICK f \in [0..n -> 0..high] :
        /\ low <= f[0]
        /\ \A k \in 1..n : /\ f[k - 1] <= f[k]
                           /\ q[k].op = "CMSG_AUTH" => f[k - 1] < f[k]
  BY DEF Numbered
<1> HIDE DEF n, r
<1>3. ASSUME NEW top \in high..(high + 1), p.op = "CMSG_AUTH" => top = high + 1
      PROVE  Numbered(r, low, top)
  <2> DEFINE g == [k \in 0..(n + 1) |-> IF k <= n THEN f[k] ELSE top]
  <2>1. g \in [0..(n + 1) -> 0..top]
    <3>1. ASSUME NEW k \in 0..(n + 1) PROVE (IF k <= n THEN f[k] ELSE top) \in 0..top
      <4>1. CASE k <= n
        <5>1. f[k] \in 0..high
          BY <1>1, <4>1
        <5> QED
          BY <4>1, <5>1
      <4>2. CASE ~(k <= n)
        BY <4>2
      <4> QED
        BY <4>1, <4>2
    <3> QED
      BY <3>1
  <2>2. (\A k \in 0..n : g[k] = f[k] /\ f[k] \in 0..high) /\ g[n + 1] = top
    BY <1>1
  <2> HIDE DEF g
  <2>3. low <= g[0]
    BY <1>1, <1>2, <2>2
  <2>4. ASSUME NEW k \in 1..(n + 1)
        PROVE  g[k - 1] <= g[k] /\ (r[k].op = "CMSG_AUTH" => g[k - 1] < g[k])
    <3>1. CASE k \in 1..n
      <4>1. k \in 0..n /\ k - 1 \in 0..n
        BY <1>1, <3>1
      <4> QED
        BY <1>1, <1>2, <2>2, <3>1, <4>1
    <3>2. CASE k = n + 1
      <4>1. k - 1 = n /\ n \in 0..n
        BY <1>1, <3>2
      <4>2. g[k] = top /\ g[k - 1] \in 0..high /\ r[k] = p
        BY <1>1, <2>2, <3>2, <4>1
      <4> DEFINE u == g[k - 1]
      <4> HIDE DEF u
      <4>3. u \in 0..high
        BY <4>2 DEF u
      <4>4. u <= top /\ (p.op = "CMSG_AUTH" => u < top)
        BY <1>3, <4>3
      <4> QED
        BY <4>2, <4>4 DEF u
    <3> QED
      BY <1>1, <3>1, <3>2
  <2> QED
    BY <1>1, <2>1, <2>3, <2>4 DEF Numbered
<1> QED
  BY <1>3 DEF r

\* The packet that is handled may draw the salt it had room for.
LEMMA NumberedTail ==
  ASSUME NEW q \in Seq(Packets), q # <<>>, NEW low \in Nat, NEW high \in Nat,
         Numbered(q, low, high)
  PROVE  /\ Numbered(Tail(q), low, high)
         /\ Head(q).op = "CMSG_AUTH" => low + 1 <= high /\ Numbered(Tail(q), low + 1, high)
<1> DEFINE n == Len(q)
           t == Tail(q)
<1>1. /\ n \in Nat \ {0} /\ Len(t) = n - 1 /\ Head(q) = q[1]
      /\ \A i \in 1..(n - 1) : t[i] = q[i + 1]
  BY HeadTailProperties
<1>2. PICK f \in [0..n -> 0..high] :
        /\ low <= f[0]
        /\ \A k \in 1..n : /\ f[k - 1] <= f[k]
                           /\ q[k].op = "CMSG_AUTH" => f[k - 1] < f[k]
  BY DEF Numbered
<1> HIDE DEF n, t
<1> DEFINE g == [k \in 0..(n - 1) |-> f[k + 1]]
<1>3. /\ f[0] \in 0..high /\ f[1] \in 0..high /\ f[0] <= f[1]
      /\ Head(q).op = "CMSG_AUTH" => f[0] < f[1]
  BY <1>1, <1>2
<1>4. g \in [0..(n - 1) -> 0..high] /\ \A k \in 0..(n - 1) : g[k] = f[k + 1]
  BY <1>1
<1> HIDE DEF g
<1>5. ASSUME NEW k \in 1..(n - 1)
      PROVE  g[k - 1] <= g[k] /\ (t[k].op = "CMSG_AUTH" => g[k - 1] < g[k])
  <2>1. k \in 0..(n - 1) /\ k - 1 \in 0..(n - 1) /\ k + 1 \in 1..n /\ k - 1 + 1 = k
        /\ k + 1 - 1 = k
    BY <1>1
  <2>2. g[k] = f[k + 1] /\ g[k - 1] = f[k] /\ t[k] = q[k + 1]
    BY <1>1, <1>4, <2>1
  <2> QED
    BY <1>2, <2>1, <2>2
<1>6. ASSUME NEW l \in Nat, l <= f[1] PROVE Numbered(t, l, high)
  <2>1. g[0] = f[1]
    BY <1>1, <1>4
  <2> QED
    BY <1>1, <1>4, <1>5, <1>6, <2>1 DEF Numbered
<1>7. low <= f[1] /\ (Head(q).op = "CMSG_AUTH" => low + 1 <= f[1] /\ low + 1 <= high)
  BY <1>2, <1>3
<1> QED
  BY <1>6, <1>7 DEF t

\* The types of one state, with the room for salts that the queue needs.
LEMMA TypeStep == TInv /\ [Next]_vars => TInv'
<1> SUFFICES ASSUME TInv, [Next]_vars PROVE TInv'
  OBVIOUS
<1>1. /\ toServer \in Seq(Packets) /\ toClient \in Seq(Packets)
      /\ open \in BOOLEAN /\ authenticated \in BOOLEAN
      /\ salts \in 0..MaxAuth /\ authSalt \in 0..salts /\ requests \in 0..MaxAuth
      /\ characterName \in {<<>>, ExpectedUsername}
      /\ told \in {"nothing", "success", "failure"}
      /\ mistyped \in BOOLEAN /\ hurried \in BOOLEAN /\ cut \in BOOLEAN
      /\ Numbered(toServer, salts, requests) /\ SaltsCarried /\ MaxAuth \in Nat
  BY LoginAssumption DEF TInv, TypeOK, Packets
<1>2. /\ <<>> \in Seq(Nat) /\ ExpectedUsername \in Seq(Nat)
      /\ PutString(<<>>, ExpectedUsername) \in Seq(Nat)
      /\ \A salt \in Nat : SaltData(salt) \in Seq(Nat)
  <2>1. <<>> \in Seq(Nat) /\ ExpectedUsername \in Seq(Nat)
    BY Strings
  <2> QED
    BY <2>1, PutStringTyped, SaltIsRead
<1>3. ASSUME NEW n \in Names, RequestAuth(n) PROVE TInv'
  <2>1. PutString(<<>>, n) \in Seq(Nat)
    BY <1>2, PutStringTyped, LoginAssumption
  <2>2. Sends("CMSG_AUTH", PutString(<<>>, n)) /\ requests' = requests + 1
        /\ requests < MaxAuth /\ told' = "nothing"
        /\ mistyped' \in BOOLEAN /\ hurried' \in BOOLEAN
        /\ UNCHANGED <<toClient, open, authSalt, authenticated, characterName, salts>>
    BY <1>1, <1>3 DEF RequestAuth, serverVars, Pending
  <2>3. cut' \in BOOLEAN /\ \E p \in Packets : p.op = "CMSG_AUTH" /\ toServer' = Append(toServer, p)
    <3>1. "CMSG_AUTH" \in Opcodes
      BY DEF Opcodes
    <3> QED
      BY <1>1, <2>1, <2>2, <3>1, SendsPacket
  <2>4. toServer' \in Seq(Packets) /\ Numbered(toServer', salts', requests')
    <3>1. salts \in Nat /\ requests \in Nat
      BY <1>1
    <3> QED
      BY <1>1, <2>2, <2>3, <3>1, NumberedAppend, AppendProperties
  <2>5. requests' \in 0..MaxAuth
    BY <1>1, <2>2
  <2> QED
    BY <1>1, <2>2, <2>3, <2>4, <2>5 DEF TInv, TypeOK, Packets, SaltsCarried
<1>4. ASSUME NEW password \in Passwords, AnswerChallenge(password) PROVE TInv'
  <2> DEFINE data == Head(toClient).data
             name == GetString(data, 0)
             salt == GetNumber(data, name.pos).value
             hash == GenerateAuthHash(password, salt)
             answer == PutString(PutString(<<>>, name.value), hash)
  <2>1. /\ toClient # <<>> /\ Head(toClient).op = "SMSG_AUTH" /\ toClient' = Tail(toClient)
        /\ mistyped' \in BOOLEAN /\ Sends("CMSG_AUTH_CHALLENGE", answer)
        /\ UNCHANGED <<open, authSalt, authenticated, characterName, salts,
                       requests, told, hurried>>
    BY <1>1, <1>4 DEF AnswerChallenge, serverVars
  <2>2. /\ Len(toClient) \in Nat \ {0} /\ Head(toClient) = toClient[1]
        /\ Tail(toClient) \in Seq(Packets) /\ Len(Tail(toClient)) = Len(toClient) - 1
        /\ \A i \in 1..Len(Tail(toClient)) : Tail(toClient)[i] = toClient[i + 1]
    BY <1>1, <2>1, HeadTailProperties
  <2>3. \E x \in Nat : data = SaltData(x)
    BY <1>1, <2>1, <2>2 DEF SaltsCarried
  <2>4. salt \in Nat /\ name.value = ExpectedUsername
    BY <2>3, SaltIsRead
  <2> HIDE DEF name, salt
  <2>5. hash \in Seq(Nat)
    BY <2>4, LoginAssumption, AppendProperties DEF GenerateAuthHash
  <2> HIDE DEF hash
  <2>6. answer \in Seq(Nat)
    BY <1>2, <2>4, <2>5, PutStringTyped
  <2> HIDE DEF answer
  <2>7. /\ cut' \in BOOLEAN
        /\ \E p \in Packets : p.op = "CMSG_AUTH_CHALLENGE" /\ toServer' = Append(toServer, p)
    <3>1. "CMSG_AUTH_CHALLENGE" \in Opcodes
      BY DEF Opcodes
    <3> QED
      BY <1>1, <2>1, <2>6, <3>1, SendsPacket
  <2>8. toServer' \in Seq(Packets) /\ Numbered(toServer', salts', requests')
    <3>1. salts \in Nat /\ requests \in Nat
      BY <1>1
    <3> QED
      BY <1>1, <2>1, <2>7, <3>1, NumberedAppend, AppendProperties
  <2>9. toClient' \in Seq(Packets) /\ SaltsCarried'
    BY <1>1, <2>1, <2>2 DEF SaltsCarried
  <2> QED
    BY <1>1, <2>1, <2>7, <2>8, <2>9 DEF TInv, TypeOK, Packets
<1>5. CASE ReadOutcome
  <2>1. /\ toClient # <<>> /\ toClient' = Tail(toClient) /\ told' \in {"success", "failure"}
        /\ UNCHANGED <<toServer, open, authSalt, authenticated, characterName, salts,
                       requests, mistyped, hurried, cut>>
    BY <1>5 DEF ReadOutcome, serverVars
  <2>2. /\ Len(toClient) \in Nat \ {0}
        /\ Tail(toClient) \in Seq(Packets) /\ Len(Tail(toClient)) = Len(toClient) - 1
        /\ \A i \in 1..Len(Tail(toClient)) : Tail(toClient)[i] = toClient[i + 1]
    BY <1>1, <2>1, HeadTailProperties
  <2>3. toClient' \in Seq(Packets) /\ SaltsCarried'
    BY <1>1, <2>1, <2>2 DEF SaltsCarried
  <2> QED
    BY <1>1, <2>1, <2>3 DEF TInv, TypeOK, Packets
<1>6. CASE Handle_CMSG_AUTH
  <2>1. /\ toServer # <<>> /\ Head(toServer).op = "CMSG_AUTH" /\ toServer' = Tail(toServer)
        /\ UNCHANGED <<requests, told, mistyped, hurried, cut, authenticated, characterName>>
        /\ \/ open' = FALSE /\ UNCHANGED <<toClient, authSalt, salts>>
           \/ /\ salts' = salts + 1 /\ authSalt' = salts' /\ open' = open
              /\ Reply("SMSG_AUTH", SaltData(salts'))
           \/ Reply("SMSG_AUTH_FAIL", <<>>) /\ UNCHANGED <<open, authSalt, salts>>
    BY <1>6, AuthOutcome
  <2>2. toServer' \in Seq(Packets)
    BY <1>1, <2>1, HeadTailProperties
  <2>3. /\ Numbered(toServer', salts, requests)
        /\ salts + 1 <= requests /\ Numbered(toServer', salts + 1, requests)
    <3>1. salts \in Nat /\ requests \in Nat
      BY <1>1
    <3> QED
      BY <1>1, <2>1, <3>1, NumberedTail
  <2>4. "SMSG_AUTH" \in Opcodes /\ "SMSG_AUTH_FAIL" \in Opcodes
    BY DEF Opcodes
  <2>5. CASE open' = FALSE /\ UNCHANGED <<toClient, authSalt, salts>>
    BY <1>1, <2>1, <2>2, <2>3, <2>5 DEF TInv, TypeOK, Packets, SaltsCarried
  <2>6. CASE /\ salts' = salts + 1 /\ authSalt' = salts' /\ open' = open
             /\ Reply("SMSG_AUTH", SaltData(salts'))
    <3>1. salts' \in Nat /\ salts' \in 0..MaxAuth /\ authSalt' \in 0..salts'
      BY <1>1, <2>3, <2>6
    <3>2. toClient' \in Seq(Packets) /\ SaltsCarried'
      BY <1>1, <1>2, <2>4, <2>6, <3>1, ReplyTyped
    <3> QED
      BY <1>1, <2>1, <2>2, <2>3, <2>6, <3>1, <3>2 DEF TInv, TypeOK, Packets
  <2>7. CASE Reply("SMSG_AUTH_FAIL", <<>>) /\ UNCHANGED <<open, authSalt, salts>>
    <3>1. toClient' \in Seq(Packets) /\ SaltsCarried'
      BY <1>1, <1>2, <2>4, <2>7, ReplyTyped
    <3> QED
      BY <1>1, <2>1, <2>2, <2>3, <2>7, <3>1 DEF TInv, TypeOK, Packets
  <2> QED
    BY <2>1, <2>5, <2>6, <2>7
<1>7. CASE Handle_CMSG_AUTH_CHALLENGE
  <2>1. /\ toServer # <<>> /\ toServer' = Tail(toServer)
        /\ UNCHANGED <<requests, told, mistyped, hurried, cut, authSalt, salts>>
        /\ \/ /\ open' = FALSE /\ UNCHANGED <<toClient, authenticated, characterName>>
           \/ /\ open' = open /\ authenticated' = TRUE /\ characterName' = ExpectedUsername
              /\ Reply("SMSG_AUTH_CHALLENGE", PutString(<<>>, ExpectedUsername))
           \/ /\ Reply("SMSG_AUTH_CHALLENGE_FAIL", <<>>)
              /\ UNCHANGED <<open, authenticated, characterName>>
    BY <1>7, ChallengeOutcome
  <2>2. toServer' \in Seq(Packets) /\ Numbered(toServer', salts, requests)
    <3>1. salts \in Nat /\ requests \in Nat
      BY <1>1
    <3> QED
      BY <1>1, <2>1, <3>1, NumberedTail, HeadTailProperties
  <2>3. "SMSG_AUTH_CHALLENGE" \in Opcodes /\ "SMSG_AUTH_CHALLENGE_FAIL" \in Opcodes
    BY DEF Opcodes
  <2>4. toClient' \in Seq(Packets) /\ SaltsCarried'
    <3>1. CASE UNCHANGED toClient
      BY <1>1, <3>1 DEF SaltsCarried
    <3>2. CASE Reply("SMSG_AUTH_CHALLENGE", PutString(<<>>, ExpectedUsername))
      BY <1>1, <1>2, <2>3, <3>2, ReplyTyped
    <3>3. CASE Reply("SMSG_AUTH_CHALLENGE_FAIL", <<>>)
      BY <1>1, <1>2, <2>3, <3>3, ReplyTyped
    <3> QED
      BY <2>1, <3>1, <3>2, <3>3
  <2> QED
    BY <1>1, <2>1, <2>2, <2>4 DEF TInv, TypeOK, Packets
<1>8. CASE UNCHANGED vars
  BY <1>8 DEF TInv, TypeOK, SaltsCarried, vars, serverVars, clientVars
<1> QED
  BY <1>3, <1>4, <1>5, <1>6, <1>7, <1>8 DEF Next, Handle, Respond

----------------------------------------------------------------------------
(* The last handshake of a client that may be hasty goes on.               *)

\* The packet at the head of a queue is taken: what was k-th is now one before.
LEMMA TakenFrom ==
  ASSUME NEW q \in Seq(Packets), q # <<>>
  PROVE  /\ Tail(q) \in Seq(Packets) /\ Len(Tail(q)) = Len(q) - 1
         /\ Len(q) \in Nat \ {0} /\ 1 \in DOMAIN q /\ q[1] = Head(q)
         /\ DOMAIN q = 1..Len(q) /\ DOMAIN Tail(q) = 1..(Len(q) - 1)
         /\ \A k \in 1..(Len(q) - 1) : k + 1 \in 1..Len(q) /\ Tail(q)[k] = q[k + 1]
         /\ \A k \in 1..Len(q) : k # 1 => k - 1 \in 1..(Len(q) - 1) /\ Tail(q)[k - 1] = q[k]
         /\ Len(q) = 1 => Tail(q) = <<>>
         /\ Len(q) # 1 => Tail(q) # <<>>
<1>1. /\ Tail(q) \in Seq(Packets) /\ Len(Tail(q)) = Len(q) - 1 /\ Head(q) = q[1]
      /\ \A k \in 1..(Len(q) - 1) : Tail(q)[k] = q[k + 1]
      /\ Len(q) \in Nat \ {0} /\ DOMAIN q = 1..Len(q)
  BY HeadTailProperties
<1>2. DOMAIN Tail(q) = 1..(Len(q) - 1)
  BY <1>1
<1> DEFINE n == Len(q)
           t == Tail(q)
<1>3. n \in Nat \ {0} /\ t \in Seq(Packets) /\ Len(t) = n - 1
  BY <1>1
<1> HIDE DEF n, t
<1>4. (n = 1 => t = <<>>) /\ (n # 1 => t # <<>>)
  <2>1. Len(<<>>) = 0
    OBVIOUS
  <2> QED
    BY <1>3, <2>1
<1>5. \A k \in 1..(n - 1) : k + 1 \in 1..n
  BY <1>3
<1>6. \A k \in 1..n : k # 1 => k - 1 \in 1..(n - 1) /\ k - 1 + 1 = k
  BY <1>3
<1> QED
  BY <1>1, <1>2, <1>4, <1>5, <1>6 DEF n, t

LEMMA AddedTo ==
  ASSUME NEW q \in Seq(Packets), NEW p \in Packets
  PROVE  LET r == Append(q, p) IN
         /\ r \in Seq(Packets) /\ Len(r) = Len(q) + 1 /\ Len(q) \in Nat
         /\ DOMAIN q = 1..Len(q) /\ DOMAIN r = 1..(Len(q) + 1)
         /\ r[Len(q) + 1] = p /\ r # <<>>
         /\ \A k \in 1..Len(q) : r[k] = q[k] /\ k \in 1..(Len(q) + 1)
         /\ \A k \in 1..(Len(q) + 1) : k \in 1..Len(q) \/ k = Len(q) + 1
BY AppendProperties

\* The packets of the handshake are packets.
LEMMA NameData ==
  /\ PutString(<<>>, ExpectedUsername) \in Seq(Nat)
  /\ NamePacket \in Packets /\ NamePacket.op = "CMSG_AUTH"
  /\ \A salt \in Nat :
       /\ HashData(salt) \in Seq(Nat) /\ SaltData(salt) \in Seq(Nat)
       /\ Packet("CMSG_AUTH_CHALLENGE", HashData(salt)) \in Packets
       /\ Packet("SMSG_AUTH", SaltData(salt)) \in Packets
<1>1. <<>> \in Seq(Nat) /\ ExpectedUsername \in Seq(Nat)
  BY Strings
<1>2. PutString(<<>>, ExpectedUsername) \in Seq(Nat)
  BY <1>1, PutStringTyped
<1>3. ASSUME NEW salt \in Nat PROVE HashData(salt) \in Seq(Nat) /\ SaltData(salt) \in Seq(Nat)
  BY <1>2, Strings, PutStringTyped, SaltIsRead DEF HashData
<1> QED
  BY <1>2, <1>3 DEF NamePacket, Packet, Packets, Opcodes

LEMMA HastyStep ==
  ASSUME TInv, HInv, [Next]_vars, TInv'
  PROVE  HInv'
<1> SUFFICES ASSUME ~mistyped', ~cut'
             PROVE  /\ open' /\ WholePackets'
                    /\ requests' > 0 => (Asked \/ Challenged \/ Answered \/ Accepted \/ Told)'
  BY DEF HInv
<1> DEFINE Goal == /\ open' /\ WholePackets'
                   /\ requests' > 0 =>
                        (Asked \/ Challenged \/ Answered \/ Accepted \/ Told)'
<1>1. /\ toServer \in Seq(Packets) /\ toClient \in Seq(Packets)
      /\ authSalt \in Nat /\ salts \in Nat /\ requests \in Nat
      /\ authSalt' \in Nat /\ salts' \in Nat
  BY DEF TInv, TypeOK, Packets
<1>2. ASSUME ~mistyped, ~cut
      PROVE  /\ open /\ WholePackets
             /\ requests > 0 => Asked \/ Challenged \/ Answered \/ Accepted \/ Told
  BY <1>2 DEF HInv
<1> HIDE DEF Goal
<1>3. ASSUME NEW n \in Names, RequestAuth(n) PROVE Goal
  <2>1. /\ ~mistyped /\ n = ExpectedUsername /\ Sends("CMSG_AUTH", PutString(<<>>, n))
        /\ UNCHANGED <<toClient, open>>
    BY <1>3 DEF RequestAuth, serverVars
  <2>2. ~cut /\ toServer' = Append(toServer, NamePacket)
    BY <2>1 DEF Sends, NamePacket
  <2>3. open' /\ WholePackets
    BY <1>2, <2>1, <2>2
  <2>4. /\ DOMAIN toServer = 1..Len(toServer) /\ DOMAIN toServer' = 1..(Len(toServer) + 1)
        /\ toServer'[Len(toServer) + 1] = NamePacket
        /\ Len(toServer) + 1 \in 1..(Len(toServer) + 1)
        /\ \A k \in 1..Len(toServer) : toServer'[k] = toServer[k]
        /\ \A k \in 1..(Len(toServer) + 1) :
             k \in 1..Len(toServer) \/ k = Len(toServer) + 1
    BY <1>1, <2>2, NameData, AddedTo
  <2>5. Asked'
    BY <2>4, NameData DEF Asked
  <2>6. WholePackets'
    BY <2>1, <2>3, <2>4 DEF WholePackets, NamePacket
  <2> QED
    BY <2>3, <2>5, <2>6 DEF Goal
<1>4. ASSUME NEW password \in Passwords, AnswerChallenge(password) PROVE Goal
  <2> DEFINE data == Head(toClient).data
             name == GetString(data, 0)
             salt == GetNumber(data, name.pos).value
             answer == PutString(PutString(<<>>, name.value), GenerateAuthHash(password, salt))
  <2>1. /\ toClient # <<>> /\ Head(toClient).op = "SMSG_AUTH" /\ toClient' = Tail(toClient)
        /\ ~mistyped /\ password = ExpectedPassword
        /\ Sends("CMSG_AUTH_CHALLENGE", answer)
        /\ UNCHANGED <<open, authSalt, requests, told>>
    BY <1>4 DEF AnswerChallenge, serverVars
  <2>2. ~cut /\ toServer' = Append(toServer, Packet("CMSG_AUTH_CHALLENGE", answer))
    BY <2>1 DEF Sends
  <2>3. /\ open' /\ WholePackets
        /\ requests > 0 => Asked \/ Challenged \/ Answered \/ Accepted \/ Told
    BY <1>2, <2>1, <2>2
  <2>4. /\ Len(toClient) \in Nat \ {0} /\ 1 \in DOMAIN toClient /\ toClient[1] = Head(toClient)
        /\ DOMAIN toClient = 1..Len(toClient) /\ DOMAIN toClient' = 1..(Len(toClient) - 1)
        /\ \A k \in 1..(Len(toClient) - 1) :
             k + 1 \in 1..Len(toClient) /\ toClient'[k] = toClient[k + 1]
        /\ \A k \in 1..Len(toClient) :
             k # 1 => k - 1 \in 1..(Len(toClient) - 1) /\ toClient'[k - 1] = toClient[k]
    BY <1>1, <2>1, TakenFrom
  <2>5. salt \in Nat /\ name.value = ExpectedUsername
        /\ (data = SaltData(authSalt) => salt = authSalt)
    <3>1. PICK x \in Nat : data = SaltData(x)
      BY <2>1, <2>4 DEF TInv, SaltsCarried
    <3>2. salt = x /\ name.value = ExpectedUsername
      BY <3>1, SaltIsRead
    <3>3. data = SaltData(authSalt) => salt = authSalt
      BY <1>1, SaltIsRead
    <3> QED
      BY <3>2, <3>3
  <2> HIDE DEF name, salt
  <2> DEFINE p == Packet("CMSG_AUTH_CHALLENGE", HashData(salt))
             m == Len(toServer)
  <2>6. toServer' = Append(toServer, p) /\ p \in Packets
    BY <2>1, <2>2, <2>5, NameData DEF HashData
  <2> HIDE DEF answer, data
  <2>7. /\ m \in Nat /\ Len(toServer') = m + 1 /\ toServer' # <<>>
        /\ DOMAIN toServer = 1..m /\ DOMAIN toServer' = 1..(m + 1)
        /\ toServer'[m + 1] = p
        /\ \A k \in 1..m : toServer'[k] = toServer[k] /\ k \in 1..(m + 1)
        /\ \A k \in 1..(m + 1) : k \in 1..m \/ k = m + 1
    <3> HIDE DEF p
    <3> QED
      BY <1>1, <2>6, AddedTo
  <2> HIDE DEF p, m
  <2>8. WholePackets'
    <3>1. ASSUME NEW k \in 1..(m + 1)
          PROVE  \/ toServer'[k] = NamePacket
                 \/ \E x \in Nat : toServer'[k] = Packet("CMSG_AUTH_CHALLENGE", HashData(x))
      BY <2>3, <2>5, <2>7 DEF WholePackets, p
    <3>2. \A k \in DOMAIN toClient' : toClient'[k].op # "SMSG_AUTH_FAIL"
      BY <2>3, <2>4 DEF WholePackets
    <3> QED
      BY <2>7, <3>1, <3>2 DEF WholePackets, NamePacket
  <2>9. Asked => Asked'
    BY <2>7 DEF Asked
  <2>10. Challenged => Challenged' \/ Answered'
    <3> SUFFICES ASSUME Challenged PROVE Challenged' \/ Answered'
      OBVIOUS
    <3>1. PICK k \in DOMAIN toClient : toClient[k] = SaltPacket /\ NoSaltAfter(k)
      BY DEF Challenged
    <3>2. SaltPacket' = SaltPacket /\ HashPacket' = HashPacket
      BY <2>1 DEF SaltPacket, HashPacket
    <3>3. CASE k = 1
      <4>1. salt = authSalt
        BY <2>4, <2>5, <3>1, <3>3 DEF SaltPacket, Packet, data
      <4>2. \A j \in DOMAIN toClient' : toClient'[j].op # "SMSG_AUTH"
        <5>1. \A j \in 1..(Len(toClient) - 1) : j + 1 > 1
          BY <2>4
        <5> QED
          BY <2>4, <3>1, <3>3, <5>1 DEF NoSaltAfter
      <4>3. Answered'
        BY <2>7, <3>2, <4>1, <4>2 DEF Answered, NoSaltAfter, HashPacket, p
      <4> QED
        BY <4>3
    <3>4. CASE k # 1
      <4>1. k - 1 \in DOMAIN toClient' /\ toClient'[k - 1] = SaltPacket
        BY <2>4, <3>1, <3>4
      <4>2. ASSUME NEW j \in DOMAIN toClient', j > k - 1 PROVE toClient'[j].op # "SMSG_AUTH"
        <5>1. j + 1 \in DOMAIN toClient /\ toClient'[j] = toClient[j + 1] /\ j + 1 > k
          BY <2>4, <4>2
        <5> QED
          BY <3>1, <5>1 DEF NoSaltAfter
      <4>3. Challenged'
        BY <3>2, <4>1, <4>2 DEF Challenged, NoSaltAfter
      <4> QED
        BY <4>3
    <3> QED
      BY <3>3, <3>4
  <2>11. ~Answered /\ ~Accepted /\ ~Told
    <3>1. ~NoSaltAfter(0)
      BY <2>1, <2>4 DEF NoSaltAfter
    <3> QED
      BY <2>1, <3>1 DEF Answered, Accepted, Told
  <2> QED
    BY <2>1, <2>3, <2>8, <2>9, <2>10, <2>11 DEF Goal
<1>5. CASE ReadOutcome
  <2>1. /\ toClient # <<>> /\ Head(toClient).op # "SMSG_AUTH" /\ toClient' = Tail(toClient)
        /\ told' = IF Head(toClient).op = "SMSG_AUTH_CHALLENGE" THEN "success" ELSE "failure"
        /\ UNCHANGED <<toServer, open, authSalt, requests, mistyped, cut>>
    BY <1>5 DEF ReadOutcome, serverVars
  <2>2. /\ open' /\ WholePackets
        /\ requests > 0 => Asked \/ Challenged \/ Answered \/ Accepted \/ Told
    BY <1>2, <2>1
  <2>3. /\ Len(toClient) \in Nat \ {0} /\ 1 \in DOMAIN toClient /\ toClient[1] = Head(toClient)
        /\ DOMAIN toClient = 1..Len(toClient) /\ DOMAIN toClient' = 1..(Len(toClient) - 1)
        /\ \A k \in 1..(Len(toClient) - 1) :
             k + 1 \in 1..Len(toClient) /\ toClient'[k] = toClient[k + 1]
        /\ \A k \in 1..Len(toClient) :
             k # 1 => k - 1 \in 1..(Len(toClient) - 1) /\ toClient'[k - 1] = toClient[k]
        /\ (Len(toClient) = 1 => toClient' = <<>>) /\ (Len(toClient) # 1 => toClient' # <<>>)
        /\ Len(toClient') = Len(toClient) - 1
    BY <1>1, <2>1, TakenFrom
  <2>4. WholePackets'
    BY <2>1, <2>2, <2>3 DEF WholePackets, NamePacket
  <2>5. SaltPacket' = SaltPacket /\ HashPacket' = HashPacket
    BY <2>1 DEF SaltPacket, HashPacket
  <2>6. Asked => Asked'
    BY <2>1 DEF Asked
  <2>7. ASSUME NEW k \in Nat, NoSaltAfter(k + 1) PROVE NoSaltAfter(k)'
    <3>1. ASSUME NEW j \in DOMAIN toClient', j > k PROVE toClient'[j].op # "SMSG_AUTH"
      <4>1. j + 1 \in DOMAIN toClient /\ toClient'[j] = toClient[j + 1] /\ j + 1 > k + 1
        BY <2>3, <3>1
      <4> QED
        BY <2>7, <4>1 DEF NoSaltAfter
    <3> QED
      BY <3>1 DEF NoSaltAfter
  <2>8. Challenged => Challenged'
    <3> SUFFICES ASSUME Challenged PROVE Challenged'
      OBVIOUS
    <3>1. PICK k \in DOMAIN toClient : toClient[k] = SaltPacket /\ NoSaltAfter(k)
      BY DEF Challenged
    <3>2. k # 1
      BY <2>1, <2>3, <3>1 DEF SaltPacket, Packet
    <3>3. k - 1 \in DOMAIN toClient' /\ toClient'[k - 1] = SaltPacket /\ k - 1 \in Nat
          /\ k - 1 + 1 = k
      BY <2>3, <3>1, <3>2
    <3>4. NoSaltAfter(k - 1)'
      BY <2>7, <3>1, <3>3
    <3> QED
      BY <2>5, <3>3, <3>4 DEF Challenged
  <2>9. NoSaltAfter(0) => NoSaltAfter(0)'
    <3> SUFFICES ASSUME NoSaltAfter(0) PROVE NoSaltAfter(0)'
      OBVIOUS
    <3>1. NoSaltAfter(0 + 1)
      BY <2>3 DEF NoSaltAfter
    <3> QED
      BY <2>7, <3>1
  <2>10. Answered => Answered'
    BY <2>1, <2>5, <2>9 DEF Answered
  <2>11. Accepted => Accepted' \/ Told'
    <3> SUFFICES ASSUME Accepted PROVE Accepted' \/ Told'
      OBVIOUS
    <3>1. CASE Len(toClient) = 1
      BY <2>1, <2>3, <3>1 DEF Accepted, Told
    <3>2. CASE Len(toClient) # 1
      <4>1. Len(toClient) \in 1..Len(toClient)
        BY <2>3
      <4>2. toClient'[Len(toClient')] = toClient[Len(toClient)]
        BY <2>3, <3>2, <4>1
      <4> QED
        BY <2>1, <2>3, <2>9, <3>2, <4>2 DEF Accepted
    <3> QED
      BY <3>1, <3>2
  <2>12. ~Told
    BY <2>1 DEF Told
  <2> QED
    BY <2>1, <2>2, <2>4, <2>6, <2>8, <2>10, <2>11, <2>12 DEF Goal
<1>6. ASSUME toServer # <<>>, toServer' = Tail(toServer), UNCHANGED <<mistyped, cut>>
      PROVE  /\ Len(toServer) \in Nat \ {0} /\ 1 \in DOMAIN toServer
             /\ toServer[1] = Head(toServer)
             /\ DOMAIN toServer = 1..Len(toServer)
             /\ DOMAIN toServer' = 1..(Len(toServer) - 1)
             /\ \A k \in 1..(Len(toServer) - 1) :
                  k + 1 \in 1..Len(toServer) /\ toServer'[k] = toServer[k + 1]
             /\ \A k \in 1..Len(toServer) :
                  k # 1 => k - 1 \in 1..(Len(toServer) - 1) /\ toServer'[k - 1] = toServer[k]
             /\ (Len(toServer) = 1 => toServer' = <<>>)
             /\ (Len(toServer) # 1 => toServer' # <<>>)
             /\ Len(toServer') = Len(toServer) - 1
             /\ \A k \in DOMAIN toServer' :
                  \/ toServer'[k] = NamePacket
                  \/ \E x \in Nat :
                       toServer'[k] = Packet("CMSG_AUTH_CHALLENGE", HashData(x))
  <2>1. WholePackets
    BY <1>2, <1>6
  <2> QED
    BY <1>1, <1>6, <2>1, TakenFrom DEF WholePackets
<1>7. ASSUME NEW p \in Packets, toClient' = Append(toClient, p), p.op # "SMSG_AUTH_FAIL",
             WholePackets
      PROVE  /\ Len(toClient) \in Nat /\ Len(toClient') = Len(toClient) + 1
             /\ DOMAIN toClient = 1..Len(toClient)
             /\ DOMAIN toClient' = 1..(Len(toClient) + 1)
             /\ toClient'[Len(toClient) + 1] = p /\ toClient' # <<>>
             /\ \A k \in 1..Len(toClient) :
                  toClient'[k] = toClient[k] /\ k \in 1..(Len(toClient) + 1)
             /\ \A k \in 1..(Len(toClient) + 1) :
                  k \in 1..Len(toClient) \/ k = Len(toClient) + 1
             /\ \A k \in DOMAIN toClient' : toClient'[k].op # "SMSG_AUTH_FAIL"
  <2>1. /\ Len(toClient) \in Nat /\ Len(toClient') = Len(toClient) + 1
        /\ DOMAIN toClient = 1..Len(toClient)
        /\ DOMAIN toClient' = 1..(Len(toClient) + 1)
        /\ toClient'[Len(toClient) + 1] = p /\ toClient' # <<>>
        /\ \A k \in 1..Len(toClient) :
             toClient'[k] = toClient[k] /\ k \in 1..(Len(toClient) + 1)
        /\ \A k \in 1..(Len(toClient) + 1) :
             k \in 1..Len(toClient) \/ k = Len(toClient) + 1
    BY <1>1, <1>7, AddedTo
  <2> QED
    BY <1>7, <2>1 DEF WholePackets
<1>8. CASE Handle_CMSG_AUTH
  <2> DEFINE username == GetString(Head(toServer).data, 0)
  <2>1. /\ toServer # <<>> /\ Head(toServer).op = "CMSG_AUTH" /\ toServer' = Tail(toServer)
        /\ UNCHANGED <<requests, told, mistyped, cut>>
        /\ \/ username.thrown
           \/ /\ authSalt' = salts' /\ open' = open
              /\ Reply("SMSG_AUTH", SaltData(salts'))
           \/ username.value # ExpectedUsername
    BY <1>8, AuthOutcome
  <2>2. open /\ WholePackets
    BY <1>2, <2>1
  <2>3. Head(toServer) = NamePacket
    <3>1. 1 \in DOMAIN toServer /\ toServer[1] = Head(toServer)
      BY <1>6, <2>1
    <3> QED
      BY <2>1, <2>2, <3>1 DEF WholePackets, Packet
  <2>4. ~username.thrown /\ username.value = ExpectedUsername
    BY <2>3, NameIsRead DEF NamePacket, Packet
  <2> HIDE DEF username
  <2> DEFINE n == Len(toClient)
  <2>5. toClient' = Append(toClient, SaltPacket') /\ open'
    BY <2>1, <2>2, <2>4 DEF Reply, SaltPacket
  <2>6. SaltPacket' \in Packets /\ SaltPacket'.op = "SMSG_AUTH"
    BY <1>1, NameData DEF SaltPacket, Packet
  <2>7. /\ n \in Nat /\ DOMAIN toClient' = 1..(n + 1) /\ toClient'[n + 1] = SaltPacket'
        /\ \A k \in DOMAIN toClient' : toClient'[k].op # "SMSG_AUTH_FAIL"
    BY <1>7, <2>2, <2>5, <2>6
  <2> HIDE DEF n
  <2>8. Challenged'
    <3>1. n + 1 \in 1..(n + 1) /\ \A j \in 1..(n + 1) : ~(j > n + 1)
      BY <2>7
    <3> QED
      BY <2>7, <3>1 DEF Challenged, NoSaltAfter
  <2>9. WholePackets'
    BY <1>6, <2>1, <2>7 DEF WholePackets, NamePacket
  <2> QED
    BY <2>5, <2>8, <2>9 DEF Goal
<1>9. CASE Handle_CMSG_AUTH_CHALLENGE
  <2> DEFINE fields == GetStrings(Head(toServer).data)
             answer == <<ExpectedUsername, GenerateAuthHash(ExpectedPassword, authSalt)>>
  <2>1. /\ toServer # <<>> /\ Head(toServer).op = "CMSG_AUTH_CHALLENGE"
        /\ toServer' = Tail(toServer)
        /\ UNCHANGED <<requests, told, mistyped, cut, authSalt>>
        /\ \/ fields.thrown
           \/ /\ fields.value = answer /\ open' = open
              /\ Reply("SMSG_AUTH_CHALLENGE", PutString(<<>>, ExpectedUsername))
           \/ /\ fields.value # answer /\ open' = open
              /\ Reply("SMSG_AUTH_CHALLENGE_FAIL", <<>>)
    BY <1>9, ChallengeOutcome
  <2>2. /\ open /\ WholePackets
        /\ requests > 0 => Asked \/ Challenged \/ Answered \/ Accepted \/ Told
    BY <1>2, <2>1
  <2>3. PICK salt \in Nat : Head(toServer).data = HashData(salt)
    <3>1. 1 \in DOMAIN toServer /\ toServer[1] = Head(toServer)
      BY <1>6, <2>1
    <3> QED
      BY <2>1, <2>2, <3>1 DEF WholePackets, NamePacket, Packet
  <2>4. ~fields.thrown
    BY <2>3, HashIsRead
  <2>5. Head(toServer) = HashPacket => fields.value = answer
    BY <1>1, HashIsRead DEF HashPacket, Packet
  <2> HIDE DEF fields, answer
  <2> DEFINE yes == Packet("SMSG_AUTH_CHALLENGE", PutString(<<>>, ExpectedUsername))
             no == Packet("SMSG_AUTH_CHALLENGE_FAIL", <<>>)
             n == Len(toClient)
             m == Len(toServer)
  <2>6. /\ yes \in Packets /\ yes.op = "SMSG_AUTH_CHALLENGE"
        /\ no \in Packets /\ no.op = "SMSG_AUTH_CHALLENGE_FAIL"
    <3>1. <<>> \in Seq(Nat)
      OBVIOUS
    <3> QED
      BY <3>1, NameData DEF Packet, Packets, Opcodes
  <2>7. PICK p \in Packets :
          /\ toClient' = Append(toClient, p) /\ open'
          /\ p.op # "SMSG_AUTH" /\ p.op # "SMSG_AUTH_FAIL"
          /\ fields.value = answer => p.op = "SMSG_AUTH_CHALLENGE"
    <3> HIDE DEF yes, no
    <3>1. CASE fields.value = answer
      <4>1. toClient' = Append(toClient, yes) /\ open'
        BY <2>1, <2>2, <2>4, <3>1 DEF Reply, yes
      <4> QED
        BY <2>6, <4>1
    <3>2. CASE fields.value # answer
      <4>1. toClient' = Append(toClient, no) /\ open'
        BY <2>1, <2>2, <2>4, <3>2 DEF Reply, no
      <4> QED
        BY <2>6, <3>2, <4>1
    <3> QED
      BY <3>1, <3>2
  <2>8. /\ n \in Nat /\ Len(toClient') = n + 1 /\ toClient' # <<>>
        /\ DOMAIN toClient = 1..n /\ DOMAIN toClient' = 1..(n + 1)
        /\ toClient'[n + 1] = p
        /\ \A k \in 1..n : toClient'[k] = toClient[k] /\ k \in 1..(n + 1)
        /\ \A k \in 1..(n + 1) : k \in 1..n \/ k = n + 1
        /\ \A k \in DOMAIN toClient' : toClient'[k].op # "SMSG_AUTH_FAIL"
    BY <1>7, <2>2, <2>7
  <2>9. /\ m \in Nat \ {0} /\ DOMAIN toServer = 1..m /\ DOMAIN toServer' = 1..(m - 1)
        /\ \A k \in 1..m : k # 1 => k - 1 \in 1..(m - 1) /\ toServer'[k - 1] = toServer[k]
        /\ (m = 1 => toServer' = <<>>) /\ (m # 1 => toServer' # <<>>)
        /\ Len(toServer') = m - 1 /\ toServer[1] = Head(toServer)
    BY <1>6, <2>1
  <2>10. WholePackets'
    BY <1>6, <2>1, <2>8 DEF WholePackets, NamePacket
  <2> HIDE DEF n, m, yes, no
  <2>11. SaltPacket' = SaltPacket /\ HashPacket' = HashPacket
    BY <2>1 DEF SaltPacket, HashPacket
  <2>12. \A k : NoSaltAfter(k) => NoSaltAfter(k)'
    BY <2>7, <2>8 DEF NoSaltAfter
  <2>13. Asked => Asked'
    <3> SUFFICES ASSUME Asked PROVE Asked'
      OBVIOUS
    <3>1. PICK k \in 1..m : toServer[k].op = "CMSG_AUTH"
      BY <2>9 DEF Asked
    <3>2. k # 1
      BY <2>1, <2>9, <3>1
    <3> QED
      BY <2>9, <3>1, <3>2 DEF Asked
  <2>14. Challenged => Challenged'
    BY <2>8, <2>11, <2>12 DEF Challenged
  <2>15. Answered => Answered' \/ Accepted'
    <3> SUFFICES ASSUME Answered PROVE Answered' \/ Accepted'
      OBVIOUS
    <3>1. toServer[m] = HashPacket /\ NoSaltAfter(0)'
      BY <2>12 DEF Answered, m
    <3>2. CASE m = 1
      <4>1. p.op = "SMSG_AUTH_CHALLENGE"
        BY <2>5, <2>7, <2>9, <3>1, <3>2
      <4> QED
        BY <2>8, <2>9, <3>1, <3>2, <4>1 DEF Accepted
    <3>3. CASE m # 1
      <4>1. toServer'[m - 1] = HashPacket'
        <5>1. m \in 1..m
          BY <2>9
        <5> QED
          BY <2>9, <2>11, <3>1, <3>3, <5>1
      <4> QED
        BY <2>9, <3>1, <3>3, <4>1 DEF Answered
    <3> QED
      BY <3>2, <3>3
  <2>16. ~Accepted /\ ~Told
    BY <2>1 DEF Accepted, Told
  <2> QED
    BY <2>1, <2>2, <2>7, <2>10, <2>13, <2>14, <2>15, <2>16 DEF Goal
<1>10. CASE UNCHANGED vars
  <2>1. /\ UNCHANGED <<toServer, toClient, open, authSalt, requests, told, mistyped, cut>>
    BY <1>10 DEF vars, serverVars, clientVars
  <2>2. /\ open /\ WholePackets
        /\ requests > 0 => Asked \/ Challenged \/ Answered \/ Accepted \/ Told
    BY <1>2, <2>1
  <2> QED
    BY <2>1, <2>2 DEF Goal, WholePackets, NamePacket, Asked, Challenged, Answered, Accepted,
       Told, NoSaltAfter, SaltPacket, HashPacket
<1> QED
  BY <1>3, <1>4, <1>5, <1>8, <1>9, <1>10 DEF Next, Handle, Respond, Goal

LEMMA LoginInvariance == Spec => []LInv
<1>1. Init => LInv
  BY DEF Init, LInv, Patient, Handshake, Pending
<1>2. ASSUME LInv, [Next]_vars PROVE (salts \in Nat /\ authSalt \in Nat /\ requests \in Nat)'
  BY <1>2 DEF LInv, Next, Handle, Respond, RequestAuth, AnswerChallenge, ReadOutcome,
     Handle_CMSG_AUTH, Handle_CMSG_AUTH_CHALLENGE, HandlerThrows, vars, serverVars, clientVars
<1>3. LInv /\ [Next]_vars => LInv'
  BY <1>2, PatientStep DEF LInv
<1> QED
  BY <1>1, <1>3, PTL DEF Spec

\* A client that types its name and password right, sends whole packets and waits for
\* every answer is never refused and never disconnected, however often it logs in and
\* whatever salts the server draws.
THEOREM PatientClientsGetIn == Spec => []PatientIsAdmitted
<1>1. LInv => PatientIsAdmitted
  BY DEF LInv, Patient, PatientIsAdmitted
<1> QED
  BY LoginInvariance, <1>1, PTL

LEMMA QueueInvariance == Spec => [](TInv /\ HInv)
<1>1. ASSUME Init PROVE TInv /\ HInv
  <2> DEFINE e == <<>>
             f == [k \in 0..0 |-> 0]
  <2>1. Len(e) = 0 /\ DOMAIN e = {} /\ e \in Seq(Packets)
    OBVIOUS
  <2>2. /\ toServer = e /\ toClient = e /\ open = TRUE /\ authSalt = 0
        /\ authenticated = FALSE /\ characterName = <<>> /\ salts = 0 /\ requests = 0
        /\ told = "nothing" /\ mistyped = FALSE /\ hurried = FALSE /\ cut = FALSE
    BY <1>1 DEF Init
  <2> HIDE DEF e
  <2>3. f \in [0..Len(e) -> 0..0] /\ f[0] = 0 /\ \A k \in 1..Len(e) : FALSE
    BY <2>1
  <2> HIDE DEF f
  <2>4. Numbered(toServer, salts, requests)
    BY <2>2, <2>3 DEF Numbered
  <2>5. SaltsCarried /\ WholePackets
    BY <2>1, <2>2 DEF SaltsCarried, WholePackets
  <2>6. TypeOK
    <3>1. salts \in 0..MaxAuth /\ authSalt \in 0..salts /\ requests \in 0..MaxAuth
      BY <2>2, LoginAssumption
    <3>2. toServer \in Seq(Packets) /\ toClient \in Seq(Packets)
      BY <2>1, <2>2
    <3>3. /\ open \in BOOLEAN /\ authenticated \in BOOLEAN
          /\ characterName \in {<<>>, ExpectedUsername}
          /\ told \in {"nothing", "success", "failure"}
          /\ {mistyped, hurried, cut} \subseteq BOOLEAN
      BY <2>2
    <3> QED
      BY <3>1, <3>2, <3>3 DEF TypeOK, Packets
  <2> QED
    BY <2>2, <2>4, <2>5, <2>6 DEF TInv, HInv
<1>2. TInv /\ HInv /\ [Next]_vars => (TInv /\ HInv)'
  BY TypeStep, HastyStep
<1> QED
  BY <1>1, <1>2, PTL DEF Spec

\* Whatever a client types, cuts off or sends again: the handlers and the client read
\* and write what their types say, the server issues at most one salt per request, and
\* nobody gets in under another name than the expected one.
THEOREM TypeCorrect == Spec => []TypeOK
<1>1. TInv => TypeOK
  BY DEF TInv
<1> QED
  BY <1>1, QueueInvariance, PTL

\* A client that knows its name and password and sends whole packets keeps its
\* connection, and when nothing is under way any more it has been let in: the answers
\* to salts that were replaced fail, the last one does not.
HastyIsAdmitted ==
  ~mistyped /\ ~cut =>
    /\ open
    /\ requests > 0 /\ toServer = <<>> /\ toClient = <<>> => told = "success"

\* However often such a client asks again before it is answered, and however its
\* packets and the handlers interleave.
THEOREM HastyClientsGetIn == Spec => []HastyIsAdmitted
<1>1. HInv => HastyIsAdmitted
  <2> SUFFICES ASSUME HInv, ~mistyped, ~cut, requests > 0, toServer = <<>>, toClient = <<>>
               PROVE  told = "success"
    BY DEF HInv, HastyIsAdmitted
  <2>1. DOMAIN toServer = {} /\ DOMAIN toClient = {}
    OBVIOUS
  <2> QED
    BY <2>1 DEF HInv, Asked, Challenged, Answered, Accepted, Told
<1> QED
  BY <1>1, QueueInvariance, PTL
=============================================================================
