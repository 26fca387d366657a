--------------------------- MODULE OutboundStream ---------------------------
(***************************************************************************)
(* From a handler's << to the client's >>: the packets that the world      *)
(* thread sends on one connection, and the stream the client reads.        *)
(*                                                                         *)
(* SendPacket frames the data with its size, cut to 16 bits, and starts an *)
(* asio::async_write without waiting for the one before.  asio does it in  *)
(* pieces: each write_some waits in the descriptor's queue, the kernel may *)
(* accept part of it, and the network thread then queues the remainder     *)
(* behind whatever has been queued since.  The client (external) reads a   *)
(* header, that many cells, and then the fields.  The packets are those of *)
(* chat: a name and a text.                                                *)
(***************************************************************************)
EXTENDS WorldPacket

CONSTANTS MaxPackets,       \* packets sent on the connection (bound)
          Texts             \* the <<name, text>> that are sent (bound)

ASSUME StreamAssumption ==
  MaxPackets \in Nat /\ \A m \in Texts : m \in Seq(Seq(Nat)) /\ Len(m) = 2

VARIABLES sent,             \* the packets given to SendPacket
          writes,           \* the write_some operations in the descriptor's queue
          remainders,       \* what is left of those the kernel accepted in part,
                            \* until the network thread queues it again
          stream,           \* the cells the client has not read
          received,         \* the packets the client has decoded
          overlapped        \* two writes were outstanding, one of them in part (history)

vars == <<sent, writes, remainders, stream, received, overlapped>>

Init ==
  /\ sent = <<>> /\ writes = <<>> /\ remainders = <<>> /\ stream = <<>>
  /\ received = <<>> /\ overlapped = FALSE

----------------------------------------------------------------------------
Data(m) == PutString(PutString(<<>>, m[1]), m[2])

\* Fault: the header announces the size, the buffer holds all the data.
FrameUncut(data) == <<Len(data) % Width>> \o data

\* Fault: the buffer has no room for the header.
FrameShort(data) == SubSeq(<<Len(data) % Width>> \o data, 1, Len(data) % Width)

\* The header, and as many cells as it announces.
Frame(data) == <<Len(data) % Width>> \o SubSeq(data, 1, Len(data) % Width)

\* A write operation and whether the kernel took part of it already.
Operation(cells, begun) == [cells |-> cells, begun |-> begun]

Overlap(ops) == Len(ops) > 1 /\ \E i \in DOMAIN ops : ops[i].begun

SendPacket(m) ==
  /\ Len(sent) < MaxPackets
  /\ sent' = Append(sent, m)
  /\ writes' = Append(writes, Operation(Frame(Data(m)), FALSE))
  /\ overlapped' = (overlapped \/ Overlap(writes' \o remainders))
  /\ UNCHANGED <<remainders, stream, received>>

\* Fault: what the kernel did not take is dropped.
WriteOnce(k) ==
  /\ writes # <<>> /\ k \in 1..Len(Head(writes).cells)
  /\ stream' = stream \o SubSeq(Head(writes).cells, 1, k)
  /\ writes' = Tail(writes)
  /\ UNCHANGED <<sent, remainders, received, overlapped>>

\* The kernel takes k cells of the operation at the head.
WriteSome(k) ==
  /\ writes # <<>> /\ k \in 1..Len(Head(writes).cells)
  /\ LET cells == Head(writes).cells IN
     /\ stream' = stream \o SubSeq(cells, 1, k)
     /\ remainders' = IF k = Len(cells) THEN remainders
                      ELSE Append(remainders, Operation(SubSeq(cells, k + 1, Len(cells)), TRUE))
  /\ writes' = Tail(writes)
  /\ overlapped' = (overlapped \/ Overlap(writes' \o remainders'))
  /\ UNCHANGED <<sent, received>>

\* The network thread queues a remainder again.
WriteRest ==
  /\ remainders # <<>>
  /\ writes' = Append(writes, Head(remainders))
  /\ remainders' = Tail(remainders)
  /\ UNCHANGED <<sent, stream, received, overlapped>>

\* The client reads a header and the cells it announces, once they are all there.
Receive ==
  /\ stream # <<>> /\ Len(stream) > Head(stream)
  /\ received' = Append(received, GetStrings(SubSeq(stream, 2, 1 + Head(stream))))
  /\ stream' = SubSeq(stream, 2 + Head(stream), Len(stream))
  /\ UNCHANGED <<sent, writes, remainders, overlapped>>

Write == \E k \in 1..Width : WriteSome(k)

Next == (\E m \in Texts : SendPacket(m)) \/ Write \/ WriteRest \/ Receive

\* The network thread runs, and the client goes on reading.
Spec ==
  /\ Init /\ [][Next]_vars
  /\ WF_vars(Write) /\ WF_vars(WriteRest) /\ WF_vars(Receive)

----------------------------------------------------------------------------
(* Properties.                                                             *)

TypeOK ==
  /\ sent \in Seq(Texts)
  /\ writes \in Seq([cells : Seq(Nat) \ {<<>>}, begun : BOOLEAN])
  /\ remainders \in Seq([cells : Seq(Nat) \ {<<>>}, begun : {TRUE}])
  /\ stream \in Seq(Nat)
  /\ received \in Seq([thrown : BOOLEAN, value : Seq(Seq(Nat)), pos : Nat])
  /\ overlapped \in BOOLEAN

\* What a packet can carry: both lengths and the size fit their 16 bits.
Fits(m) == 2 + Len(m[1]) + Len(m[2]) < Width

\* Unless a packet was sent while part of another was still unsent, the client
\* decodes the packets that were sent, in their order; one too large for its header
\* is lost alone, and those after it are read right.
PacketsSurvive ==
  ~overlapped =>
    /\ Len(received) <= Len(sent)
    /\ \A i \in DOMAIN received :
         Fits(sent[i]) => ~received[i].thrown /\ received[i].value = sent[i]

\* However the kernel cuts the writes, every packet sent is received.
SentIsReceived ==
  \A n \in 1..MaxPackets : Len(sent) >= n ~> Len(received) >= n \/ overlapped
=============================================================================
