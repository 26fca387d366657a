----------------------- MODULE OutboundStream_proofs -----------------------
(***************************************************************************)
(* Proofs about OutboundStream, for every width of a length, any packets   *)
(* and every way to cut the writes: as long as writes do not overlap, the  *)
(* client decodes what was sent.  The stream is described as frames in a   *)
(* row by the places where they end, which each step moves or extends, so  *)
(* that no induction over the stream is needed.                            *)
(***************************************************************************)
EXTENDS OutboundStream, WorldPacket_proofs

\* What SendPacket makes of the j-th packet of q.
FrameOf(q, j) == Frame(Data(q[j]))

\* s is the frames of packets a+1 to b of q in a row: the j-th ends at cut[j].
Framed(q, s, a, b) ==
  \E cut \in [a..b -> 0..Len(s)] :
    /\ cut[a] = 0 /\ cut[b] = Len(s)
    /\ \A i, j \in a..b : i <= j => cut[i] <= cut[j]
    /\ \A j \in (a + 1)..b :
         /\ cut[j] = cut[j - 1] + Len(FrameOf(q, j))
         /\ \A k \in 1..Len(FrameOf(q, j)) : s[cut[j - 1] + k] = FrameOf(q, j)[k]

\* No write has begun that is not finished: the stream ends with a whole frame, and
\* the writes are those of the last packets.
BetweenFrames ==
  LET begun == Len(sent) - Len(writes) IN
  /\ remainders = <<>>
  /\ Len(received) <= begun
  /\ \A k \in DOMAIN writes :
       ~writes[k].begun /\ writes[k].cells = FrameOf(sent, begun + k)
  /\ Framed(sent, stream, Len(received), begun)

\* One write is outstanding, with the rest of the last frame.
InsideFrame ==
  \E rest \in Seq(Nat) \ {<<>>} :
    /\ \/ writes = <<Operation(rest, TRUE)>> /\ remainders = <<>>
       \/ writes = <<>> /\ remainders = <<Operation(rest, TRUE)>>
    /\ Len(received) <= Len(sent)
    /\ Framed(sent, stream \o rest, Len(received), Len(sent))

\* What the client has decoded so far.
ReceivedOK ==
  \A i \in DOMAIN received :
    Fits(sent[i]) => ~received[i].thrown /\ received[i].value = sent[i]

StreamOK == ~overlapped => (BetweenFrames \/ InsideFrame) /\ ReceivedOK

SInv == TypeOK /\ StreamOK

----------------------------------------------------------------------------
(* Frames.                                                                 *)

LEMMA DataTyped ==
  ASSUME NEW m \in Texts
  PROVE  /\ Data(m) \in Seq(Nat)
         /\ m[1] \in Seq(Nat) /\ m[2] \in Seq(Nat) /\ m = <<m[1], m[2]>>
<1>1. m \in Seq(Seq(Nat)) /\ Len(m) = 2
  BY StreamAssumption
<1>2. m[1] \in Seq(Nat) /\ m[2] \in Seq(Nat) /\ m = <<m[1], m[2]>>
  <2>1. m[1] \in Seq(Nat) /\ m[2] \in Seq(Nat)
    <3>1. 1 \in 1..Len(m) /\ 2 \in 1..Len(m)
      BY <1>1
    <3> QED
      BY <1>1, <3>1, ElementOfSeq
  <2> DEFINE p == <<m[1], m[2]>>
  <2>2. p \in Seq(Seq(Nat)) /\ Len(p) = 2 /\ p[1] = m[1] /\ p[2] = m[2]
    BY <2>1
  <2> HIDE DEF p
  <2>3. \A i \in 1..Len(m) : m[i] = p[i]
    BY <1>1, <2>2
  <2> QED
    BY <1>1, <2>1, <2>2, <2>3, SeqEqual DEF p
<1>3. <<>> \in Seq(Nat)
  OBVIOUS
<1>4. PutString(<<>>, m[1]) \in Seq(Nat)
  BY <1>2, <1>3, PutStringTyped
<1>5. Data(m) \in Seq(Nat)
  BY <1>2, <1>4, PutStringTyped DEF Data
<1> QED
  BY <1>2, <1>5

\* A frame announces how many cells follow: those of the data, as many as the cut
\* size says.
LEMMA FrameShape ==
  ASSUME NEW data \in Seq(Nat)
  PROVE  LET n == Len(data) % Width IN
         /\ n \in 0..Len(data)
         /\ Frame(data) \in Seq(Nat) /\ Len(Frame(data)) = n + 1
         /\ Frame(data)[1] = n
         /\ \A j \in 1..n : Frame(data)[1 + j] = data[j]
<1> DEFINE n == Len(data) % Width
           t == SubSeq(data, 1, n)
           h == <<n>>
<1>1. n \in 0..Len(data)
  <2> DEFINE k == Len(data)
  <2>1. k \in Nat
    OBVIOUS
  <2> HIDE DEF k
  <2>2. k % Width \in 0..(Width - 1) /\ k % Width <= k
    BY <2>1, RemainderRange, WidthAssumption
  <2> DEFINE r == k % Width
  <2> HIDE DEF r
  <2>3. r \in 0..(Width - 1) /\ r <= k
    BY <2>2 DEF r
  <2>4. r \in 0..k
    BY <2>1, <2>3, WidthAssumption
  <2> QED
    BY <2>4 DEF r, k
<1>2. Frame(data) = h \o t
  BY DEF Frame
<1> HIDE DEF n
<1>3. h \in Seq(Nat) /\ Len(h) = 1 /\ h[1] = n
  BY <1>1
<1>4. t \in Seq(Nat) /\ Len(t) = n /\ \A j \in 1..n : t[j] = data[j]
  <2>1. \A j \in 1..n : data[j] \in Nat
    BY <1>1
  <2>2. /\ t \in Seq(Nat) /\ Len(t) = (IF 1 <= n THEN n - 1 + 1 ELSE 0)
        /\ \A j \in 1..(n - 1 + 1) : t[j] = data[1 + j - 1]
    <3>1. 1 \in Int /\ n \in Int
      BY <1>1
    <3> QED
      BY <2>1, <3>1, SubSeqProperties
  <2> QED
    BY <1>1, <2>2
<1> HIDE DEF h, t
<1>5. /\ h \o t \in Seq(Nat) /\ Len(h \o t) = Len(h) + Len(t)
      /\ \A i \in 1..(Len(h) + Len(t)) :
           (h \o t)[i] = IF i <= Len(h) THEN h[i] ELSE t[i - Len(h)]
  BY <1>3, <1>4, ConcatProperties
<1>6. (h \o t)[1] = n /\ \A j \in 1..n : (h \o t)[1 + j] = data[j]
  BY <1>1, <1>3, <1>4, <1>5
<1>7. /\ n \in 0..Len(data)
      /\ Frame(data) \in Seq(Nat) /\ Len(Frame(data)) = n + 1
      /\ Frame(data)[1] = n
      /\ \A j \in 1..n : Frame(data)[1 + j] = data[j]
  BY <1>1, <1>2, <1>3, <1>4, <1>5, <1>6
<1> QED
  BY <1>7 DEF n

\* The client reads a packet that fits as it was sent.
LEMMA FrameIsRead ==
  ASSUME NEW m \in Texts, Fits(m), NEW body \in Seq(Nat),
         Len(body) = Len(Frame(Data(m))) - 1,
         \A j \in 1..Len(body) : body[j] = Frame(Data(m))[1 + j]
  PROVE  ~GetStrings(body).thrown /\ GetStrings(body).value = m
<1> DEFINE d == Data(m)
           s == m[1]
           t == m[2]
           e == <<>>
           a == PutString(e, s)
<1>1. d \in Seq(Nat) /\ s \in Seq(Nat) /\ t \in Seq(Nat) /\ m = <<s, t>>
  BY DataTyped
<1>2. Len(s) < Width /\ Len(t) < Width /\ 2 + Len(s) + Len(t) < Width
      /\ Len(s) \in Nat /\ Len(t) \in Nat
  BY <1>1, WidthAssumption DEF Fits
<1>3. Len(d) = 2 + Len(s) + Len(t)
  <2>1. e \in Seq(Nat) /\ Len(e) = 0
    OBVIOUS
  <2>2. d = PutString(a, t)
    BY DEF Data
  <2> HIDE DEF e, s, t, d
  <2>3. a \in Seq(Nat) /\ Len(a) = Len(e) + 1 + Len(s)
    BY <1>1, <1>2, <2>1, PutStringHolds
  <2> HIDE DEF a
  <2>4. Len(PutString(a, t)) = Len(a) + 1 + Len(t)
    BY <1>1, <1>2, <2>3, PutStringHolds
  <2> QED
    BY <1>2, <2>1, <2>2, <2>3, <2>4
<1>4. GetStrings(d) = Read(<<s, t>>, 2 + Len(s) + Len(t))
  BY <1>1, <1>2, StringsRoundTrip DEF Data
<1> HIDE DEF d, s, t
<1>5. Len(d) % Width = Len(d)
  <2>1. Len(d) \in Nat /\ Len(d) < Width
    BY <1>2, <1>3
  <2> QED
    BY <2>1, SmallRemainder, WidthAssumption
<1>6. Len(body) = Len(d) /\ \A j \in 1..Len(d) : body[j] = d[j]
  <2>1. Len(Frame(d)) = Len(d) + 1 /\ \A j \in 1..Len(d) : Frame(d)[1 + j] = d[j]
    BY <1>1, <1>5, FrameShape
  <2>2. Len(d) \in Nat
    BY <1>1
  <2> QED
    BY <2>1, <2>2 DEF d
<1>7. body = d
  BY <1>1, <1>6, SeqEqual
<1>8. ~Read(<<s, t>>, 2 + Len(s) + Len(t)).thrown /\ Read(<<s, t>>, 2 + Len(s) + Len(t)).value = <<s, t>>
  BY DEF Read
<1> QED
  BY <1>1, <1>4, <1>7, <1>8

LEMMA FrameOfShape ==
  ASSUME NEW q \in Seq(Texts), NEW j \in 1..Len(q)
  PROVE  /\ FrameOf(q, j) \in Seq(Nat) /\ Len(FrameOf(q, j)) \in Nat \ {0}
         /\ FrameOf(q, j)[1] = Len(FrameOf(q, j)) - 1
<1>1. q[j] \in Texts
  OBVIOUS
<1>2. Data(q[j]) \in Seq(Nat)
  BY <1>1, DataTyped
<1> DEFINE d == Data(q[j])
<1> HIDE DEF d
<1>3. Len(d) % Width \in 0..Len(d) /\ Frame(d) \in Seq(Nat)
      /\ Len(Frame(d)) = (Len(d) % Width) + 1 /\ Frame(d)[1] = Len(d) % Width
  BY <1>2, FrameShape DEF d
<1> QED
  BY <1>3 DEF FrameOf, d

----------------------------------------------------------------------------
(* Frames in a row.                                                        *)

LEMMA NoFrames ==
  ASSUME NEW q, NEW a \in Nat
  PROVE  Framed(q, <<>>, a, a)
<1> DEFINE cut == [j \in a..a |-> 0]
           s == <<>>
<1>1. Len(s) = 0 /\ a..a = {a} /\ (a + 1)..a = {}
  OBVIOUS
<1> HIDE DEF s
<1>2. cut \in [a..a -> 0..Len(s)] /\ cut[a] = 0
  BY <1>1
<1> HIDE DEF cut
<1>3. Framed(q, s, a, a)
  BY <1>1, <1>2 DEF Framed
<1> QED
  BY <1>3 DEF s

LEMMA FramedEmpty ==
  ASSUME NEW q, NEW s \in Seq(Nat), NEW a \in Nat, Framed(q, s, a, a)
  PROVE  s = <<>>
  BY DEF Framed

\* A further packet changes nothing for the frames of those before it.
LEMMA FramedSend ==
  ASSUME NEW q \in Seq(Texts), NEW m \in Texts, NEW s, NEW a \in Nat, NEW b \in 0..Len(q),
         Framed(q, s, a, b)
  PROVE  Framed(Append(q, m), s, a, b)
<1> DEFINE longer == Append(q, m)
<1>1. \A j \in (a + 1)..b : FrameOf(longer, j) = FrameOf(q, j)
  BY DEF FrameOf
<1> HIDE DEF longer
<1>2. PICK cut \in [a..b -> 0..Len(s)] :
        /\ cut[a] = 0 /\ cut[b] = Len(s)
        /\ \A i, j \in a..b : i <= j => cut[i] <= cut[j]
        /\ \A j \in (a + 1)..b :
             /\ cut[j] = cut[j - 1] + Len(FrameOf(q, j))
             /\ \A k \in 1..Len(FrameOf(q, j)) : s[cut[j - 1] + k] = FrameOf(q, j)[k]
  BY Zenon DEF Framed
<1>3. \A j \in (a + 1)..b :
        /\ cut[j] = cut[j - 1] + Len(FrameOf(longer, j))
        /\ \A k \in 1..Len(FrameOf(longer, j)) :
             s[cut[j - 1] + k] = FrameOf(longer, j)[k]
  <2> SUFFICES ASSUME NEW j \in (a + 1)..b
      PROVE  /\ cut[j] = cut[j - 1] + Len(FrameOf(longer, j))
             /\ \A k \in 1..Len(FrameOf(longer, j)) :
                  s[cut[j - 1] + k] = FrameOf(longer, j)[k]
    OBVIOUS
  <2>1. FrameOf(longer, j) = FrameOf(q, j)
    BY <1>1
  <2>2. /\ cut[j] = cut[j - 1] + Len(FrameOf(q, j))
        /\ \A k \in 1..Len(FrameOf(q, j)) : s[cut[j - 1] + k] = FrameOf(q, j)[k]
    BY <1>2, Zenon
  <2> QED
    BY <2>1, <2>2, Zenon
<1>4. Framed(longer, s, a, b)
  BY <1>2, <1>3, Zenon DEF Framed
<1> QED
  BY <1>4 DEF longer

\* One more frame at the end.
LEMMA FramedAppend ==
  ASSUME NEW q \in Seq(Texts), NEW s \in Seq(Nat), NEW a \in Nat, NEW b \in Nat,
         a <= b, b + 1 <= Len(q), Framed(q, s, a, b)
  PROVE  Framed(q, s \o FrameOf(q, b + 1), a, b + 1)
<1> DEFINE f == FrameOf(q, b + 1)
           r == s \o f
<1>1. f \in Seq(Nat) /\ Len(f) \in Nat \ {0}
  BY FrameOfShape
<1> HIDE DEF f
<1>2. /\ Len(r) = Len(s) + Len(f) /\ Len(s) \in Nat
      /\ \A k \in 1..Len(s) : r[k] = s[k]
      /\ \A k \in 1..Len(f) : r[Len(s) + k] = f[k]
  BY <1>1, ConcatProperties
<1> HIDE DEF r
<1>3. PICK cut \in [a..b -> 0..Len(s)] :
        /\ cut[a] = 0 /\ cut[b] = Len(s)
        /\ \A i, j \in a..b : i <= j => cut[i] <= cut[j]
        /\ \A j \in (a + 1)..b :
             /\ cut[j] = cut[j - 1] + Len(FrameOf(q, j))
             /\ \A k \in 1..Len(FrameOf(q, j)) : s[cut[j - 1] + k] = FrameOf(q, j)[k]
  BY DEF Framed
<1> DEFINE new == [j \in a..(b + 1) |-> IF j <= b THEN cut[j] ELSE Len(r)]
<1>4. \A j \in a..b : new[j] = cut[j] /\ cut[j] \in 0..Len(s)
  OBVIOUS
<1>5. /\ new \in [a..(b + 1) -> 0..Len(r)] /\ new[a] = 0 /\ new[b + 1] = Len(r)
      /\ \A i, j \in a..(b + 1) : i <= j => new[i] <= new[j]
  BY <1>1, <1>2, <1>3
<1> HIDE DEF new
<1>6. ASSUME NEW j \in (a + 1)..(b + 1)
      PROVE  /\ new[j] = new[j - 1] + Len(FrameOf(q, j))
             /\ \A k \in 1..Len(FrameOf(q, j)) : r[new[j - 1] + k] = FrameOf(q, j)[k]
  <2>1. CASE j <= b
    <3>1. j \in (a + 1)..b /\ j \in a..b /\ j - 1 \in a..b /\ j \in 1..Len(q)
      BY <2>1
    <3>2. cut[j] = cut[j - 1] + Len(FrameOf(q, j)) /\ Len(FrameOf(q, j)) \in Nat
      BY <1>3, <3>1, FrameOfShape
    <3>3. ASSUME NEW k \in 1..Len(FrameOf(q, j))
          PROVE  r[cut[j - 1] + k] = FrameOf(q, j)[k]
      <4>1. cut[j - 1] + k \in 1..Len(s)
        <5> DEFINE u == cut[j - 1]
                   v == cut[j]
                   l == Len(FrameOf(q, j))
        <5>1. u \in Nat /\ v <= Len(s) /\ v \in Nat /\ v = u + l /\ l \in Nat /\ k \in 1..l
          BY <1>2, <1>4, <3>1, <3>2
        <5> HIDE DEF u, v, l
        <5>2. u + k \in 1..Len(s)
          BY <1>2, <5>1
        <5> QED
          BY <5>2 DEF u
      <4> QED
        BY <1>2, <1>3, <3>1, <4>1
    <3> QED
      BY <1>4, <3>1, <3>2, <3>3
  <2>2. CASE j = b + 1
    <3>1. new[j] = Len(s) + Len(f) /\ new[j - 1] = Len(s)
      BY <1>2, <1>3, <1>4, <1>5, <2>2
    <3> QED
      BY <1>2, <2>2, <3>1 DEF f
  <2>3. j <= b \/ j = b + 1
    OBVIOUS
  <2> QED
    BY <2>1, <2>2, <2>3
<1>7. Framed(q, r, a, b + 1)
  BY <1>5, <1>6 DEF Framed
<1> QED
  BY <1>7 DEF r, f

\* The first of the frames is at the start.
LEMMA FramedHead ==
  ASSUME NEW q \in Seq(Texts), NEW s \in Seq(Nat), NEW a \in Nat, NEW b \in Nat,
         a < b, b <= Len(q), Framed(q, s, a, b)
  PROVE  /\ Len(FrameOf(q, a + 1)) <= Len(s)
         /\ \A k \in 1..Len(FrameOf(q, a + 1)) : s[k] = FrameOf(q, a + 1)[k]
<1>1. PICK cut \in [a..b -> 0..Len(s)] :
        /\ cut[a] = 0 /\ cut[b] = Len(s)
        /\ \A i, j \in a..b : i <= j => cut[i] <= cut[j]
        /\ \A j \in (a + 1)..b :
             /\ cut[j] = cut[j - 1] + Len(FrameOf(q, j))
             /\ \A k \in 1..Len(FrameOf(q, j)) : s[cut[j - 1] + k] = FrameOf(q, j)[k]
  BY DEF Framed
<1>2. a + 1 \in (a + 1)..b /\ a + 1 \in a..b /\ a + 1 - 1 = a /\ a + 1 \in 1..Len(q)
  OBVIOUS
<1>3. Len(FrameOf(q, a + 1)) \in Nat
  BY <1>2, FrameOfShape
<1>4. /\ cut[a + 1] = 0 + Len(FrameOf(q, a + 1)) /\ cut[a + 1] \in 0..Len(s)
      /\ \A k \in 1..Len(FrameOf(q, a + 1)) : s[0 + k] = FrameOf(q, a + 1)[k]
  BY <1>1, <1>2
<1> QED
  BY <1>3, <1>4

\* Without it the others are in a row.
LEMMA FramedTail ==
  ASSUME NEW q \in Seq(Texts), NEW s \in Seq(Nat), NEW a \in Nat, NEW b \in Nat,
         a < b, b <= Len(q), Framed(q, s, a, b),
         NEW t \in Seq(Nat), Len(t) = Len(s) - Len(FrameOf(q, a + 1)),
         \A k \in 1..Len(t) : t[k] = s[Len(FrameOf(q, a + 1)) + k]
  PROVE  Framed(q, t, a + 1, b)
<1> DEFINE n == Len(FrameOf(q, a + 1))
<1>1. PICK cut \in [a..b -> 0..Len(s)] :
        /\ cut[a] = 0 /\ cut[b] = Len(s)
        /\ \A i, j \in a..b : i <= j => cut[i] <= cut[j]
        /\ \A j \in (a + 1)..b :
             /\ cut[j] = cut[j - 1] + Len(FrameOf(q, j))
             /\ \A k \in 1..Len(FrameOf(q, j)) : s[cut[j - 1] + k] = FrameOf(q, j)[k]
  BY DEF Framed
<1>2. a + 1 \in (a + 1)..b /\ a + 1 - 1 = a /\ a + 1 \in 1..Len(q) /\ b \in (a + 1)..b
  OBVIOUS
<1>3. n \in Nat /\ cut[a + 1] = n
  BY <1>1, <1>2, FrameOfShape
<1> HIDE DEF n
<1>4. Len(s) \in Nat /\ Len(t) = Len(s) - n /\ \A k \in 1..Len(t) : t[k] = s[n + k]
  BY DEF n
<1> DEFINE new == [j \in (a + 1)..b |-> cut[j] - n]
<1>5. \A j \in (a + 1)..b : /\ cut[j] \in 0..Len(s) /\ cut[j] >= n
                            /\ new[j] = cut[j] - n
  BY <1>1, <1>2, <1>3
<1>6. /\ new \in [(a + 1)..b -> 0..Len(t)] /\ new[a + 1] = 0 /\ new[b] = Len(t)
      /\ \A i, j \in (a + 1)..b : i <= j => new[i] <= new[j]
  <2>1. ASSUME NEW j \in (a + 1)..b PROVE cut[j] - n \in 0..Len(t)
    <3> DEFINE c == cut[j]
               l == Len(s)
               k == Len(t)
    <3>1. c \in 0..l /\ c >= n /\ l \in Nat /\ k = l - n
      BY <1>4, <1>5
    <3> HIDE DEF c, l, k
    <3>2. c - n \in 0..k
      BY <1>3, <3>1
    <3> QED
      BY <3>2 DEF c, k
  <2>2. new \in [(a + 1)..b -> 0..Len(t)]
    BY <2>1
  <2>3. new[a + 1] = 0
    BY <1>2, <1>3, <1>5
  <2>4. new[b] = Len(t)
    BY <1>1, <1>2, <1>4, <1>5
  <2>5. ASSUME NEW i \in (a + 1)..b, NEW j \in (a + 1)..b, i <= j
        PROVE  new[i] <= new[j]
    <3>1. i \in a..b /\ j \in a..b
      OBVIOUS
    <3>2. cut[i] <= cut[j] /\ cut[i] \in Nat /\ cut[j] \in Nat
      BY <1>1, <1>5, <2>5, <3>1
    <3>3. new[i] = cut[i] - n /\ new[j] = cut[j] - n
      BY <1>5
    <3> HIDE DEF new
    <3> QED
      BY <1>3, <3>2, <3>3
  <2> QED
    BY <2>2, <2>3, <2>4, <2>5
<1> HIDE DEF new
<1>7. ASSUME NEW j \in (a + 1 + 1)..b
      PROVE  /\ new[j] = new[j - 1] + Len(FrameOf(q, j))
             /\ \A k \in 1..Len(FrameOf(q, j)) : t[new[j - 1] + k] = FrameOf(q, j)[k]
  <2> DEFINE u == cut[j - 1]
             v == cut[j]
             l == Len(FrameOf(q, j))
  <2>1. j \in (a + 1)..b /\ j - 1 \in (a + 1)..b /\ j \in 1..Len(q)
    OBVIOUS
  <2>2. l \in Nat /\ v = u + l /\ u \in Nat /\ u >= n /\ v <= Len(s)
    BY <1>1, <1>5, <2>1, FrameOfShape
  <2>3. new[j] = v - n /\ new[j - 1] = u - n
    BY <1>5, <2>1
  <2>4. \A k \in 1..l : s[u + k] = FrameOf(q, j)[k]
    BY <1>1, <2>1
  <2> HIDE DEF u, v, l
  <2>5. ASSUME NEW k \in 1..l PROVE t[u - n + k] = FrameOf(q, j)[k]
    <3>1. u - n + k \in 1..Len(t) /\ n + (u - n + k) = u + k
      BY <1>3, <1>4, <2>2
    <3> QED
      BY <1>4, <2>4, <3>1
  <2>6. new[j] = new[j - 1] + l
    BY <1>3, <2>2, <2>3
  <2> QED
    BY <2>3, <2>5, <2>6 DEF l
<1> QED
  BY <1>6, <1>7 DEF Framed

\* What the kernel takes of an operation, and what is left of it, are the operation.
LEMMA CutWrite ==
  ASSUME NEW s \in Seq(Nat), NEW c \in Seq(Nat), NEW k \in 1..Len(c)
  PROVE  /\ SubSeq(c, 1, k) \in Seq(Nat)
         /\ k = Len(c) => s \o SubSeq(c, 1, k) = s \o c
         /\ k # Len(c) => /\ SubSeq(c, k + 1, Len(c)) \in Seq(Nat) \ {<<>>}
                          /\ (s \o SubSeq(c, 1, k)) \o SubSeq(c, k + 1, Len(c)) = s \o c
<1> DEFINE l == Len(c)
           x == SubSeq(c, 1, k)
           y == SubSeq(c, k + 1, l)
<1>1. l \in Nat /\ k \in 1..l /\ \A j \in 1..l : c[j] \in Nat
  OBVIOUS
<1>2. x \in Seq(Nat) /\ Len(x) = k /\ \A j \in 1..k : x[j] = c[j]
  <2>1. \A j \in 1..k : c[j] \in Nat
    BY <1>1
  <2>2. /\ x \in Seq(Nat) /\ Len(x) = (IF 1 <= k THEN k - 1 + 1 ELSE 0)
        /\ \A j \in 1..(k - 1 + 1) : x[j] = c[1 + j - 1]
    <3>1. 1 \in Int /\ k \in Int
      BY <1>1
    <3> QED
      BY <2>1, <3>1, SubSeqProperties
  <2> QED
    BY <1>1, <2>2
<1>3. ASSUME k # l
      PROVE  y \in Seq(Nat) /\ Len(y) = l - k /\ \A j \in 1..(l - k) : y[j] = c[k + j]
  <2>1. \A j \in (k + 1)..l : c[j] \in Nat
    BY <1>1
  <2>2. /\ y \in Seq(Nat) /\ Len(y) = (IF k + 1 <= l THEN l - (k + 1) + 1 ELSE 0)
        /\ \A j \in 1..(l - (k + 1) + 1) : y[j] = c[k + 1 + j - 1]
    <3>1. k + 1 \in Int /\ l \in Int
      BY <1>1
    <3> QED
      BY <2>1, <3>1, SubSeqProperties
  <2> QED
    BY <1>1, <1>3, <2>2
<1> HIDE DEF x, y
<1>4. k = l => x = c
  BY <1>1, <1>2, SeqEqual
<1>5. ASSUME k # l
      PROVE  y \in Seq(Nat) \ {<<>>} /\ (s \o x) \o y = s \o c
  <2>1. y # <<>>
    <3>1. Len(y) # 0
      BY <1>1, <1>3, <1>5
    <3>2. Len(<<>>) = 0
      OBVIOUS
    <3> QED
      BY <3>1, <3>2
  <2>2. /\ s \o c \in Seq(Nat) /\ Len(s \o c) = Len(s) + l
        /\ \A i \in 1..(Len(s) + l) :
             (s \o c)[i] = IF i <= Len(s) THEN s[i] ELSE c[i - Len(s)]
    BY <1>1, ConcatProperties
  <2>3. /\ s \o x \in Seq(Nat) /\ Len(s \o x) = Len(s) + k
        /\ \A i \in 1..(Len(s) + k) :
             (s \o x)[i] = IF i <= Len(s) THEN s[i] ELSE x[i - Len(s)]
    BY <1>2, ConcatProperties
  <2> DEFINE z == s \o x
             w == s \o c
  <2> HIDE DEF z, w
  <2>4. /\ z \o y \in Seq(Nat) /\ Len(z \o y) = Len(z) + Len(y)
        /\ \A i \in 1..(Len(z) + Len(y)) :
             (z \o y)[i] = IF i <= Len(z) THEN z[i] ELSE y[i - Len(z)]
    BY <1>3, <1>5, <2>3, ConcatProperties DEF z
  <2>5. Len(s) \in Nat
    OBVIOUS
  <2>6. Len(z \o y) = Len(w)
    BY <1>1, <1>3, <1>5, <2>2, <2>3, <2>4, <2>5 DEF z, w
  <2>7. ASSUME NEW i \in 1..Len(w) PROVE w[i] = (z \o y)[i]
    <3> DEFINE n == Len(s)
               zy == z \o y
    <3>1. /\ Len(w) = n + l /\ Len(z) = n + k /\ Len(y) = l - k
          /\ n \in Nat /\ l \in Nat /\ k \in 1..l
      BY <1>1, <1>3, <1>5, <2>2, <2>3, <2>5 DEF w, z
    <3>2. \A j \in 1..(n + l) : w[j] = IF j <= n THEN s[j] ELSE c[j - n]
      BY <2>2 DEF w
    <3>3. \A j \in 1..(n + k) : z[j] = IF j <= n THEN s[j] ELSE x[j - n]
      BY <2>3 DEF z
    <3>4. \A j \in 1..(Len(z) + Len(y)) :
            zy[j] = IF j <= Len(z) THEN z[j] ELSE y[j - Len(z)]
      BY <2>4
    <3> HIDE DEF n, l, zy
    <3>5. i \in 1..(n + l) /\ Len(z) + Len(y) = n + l
      BY <3>1
    <3>6. zy[i] = IF i <= n + k THEN z[i] ELSE y[i - (n + k)]
      BY <3>1, <3>4, <3>5
    <3>7. CASE i <= n
      <4>1. i \in 1..(n + k) /\ i <= n + k
        BY <3>1, <3>5, <3>7
      <4> QED
        BY <3>2, <3>3, <3>5, <3>6, <3>7, <4>1 DEF zy
    <3>8. CASE n < i /\ i <= n + k
      <4>1. i - n \in 1..k /\ i \in 1..(n + k) /\ ~(i <= n)
        BY <3>1, <3>5, <3>8
      <4> QED
        BY <1>2, <3>2, <3>3, <3>5, <3>6, <3>8, <4>1 DEF zy
    <3>9. CASE n + k < i
      <4>1. i - (n + k) \in 1..(l - k) /\ k + (i - (n + k)) = i - n
            /\ ~(i <= n) /\ ~(i <= n + k)
        BY <3>1, <3>5, <3>9
      <4>2. y[i - (n + k)] = c[k + (i - (n + k))]
        BY <1>3, <1>5, <4>1 DEF l
      <4> QED
        BY <3>2, <3>5, <3>6, <4>1, <4>2 DEF zy
    <3>10. i <= n \/ (n < i /\ i <= n + k) \/ n + k < i
      BY <3>1, <3>5
    <3> QED
      BY <3>7, <3>8, <3>9, <3>10 DEF zy
  <2>8. w \in Seq(Nat)
    BY <2>2 DEF w
  <2>9. z \o y = w
    BY <2>4, <2>6, <2>7, <2>8, SeqEqual
  <2> QED
    BY <1>3, <1>5, <2>1, <2>9 DEF z, w
<1> QED
  BY <1>2, <1>4, <1>5 DEF x, y

----------------------------------------------------------------------------
(* What the client reads.                                                  *)

\* The cells st that have arrived and those of rest, still outstanding, are frames in a
\* row: what Receive takes is the first frame, decoded as it was sent if it fits.
LEMMA ReceiveFrame ==
  ASSUME NEW q \in Seq(Texts), NEW st \in Seq(Nat), NEW rest \in Seq(Nat),
         NEW a \in Nat, NEW b \in Nat, a <= b, b <= Len(q),
         Framed(q, st \o rest, a, b), st # <<>>, Len(st) > Head(st)
  PROVE  /\ a < b
         /\ SubSeq(st, 2 + Head(st), Len(st)) \in Seq(Nat)
         /\ Framed(q, SubSeq(st, 2 + Head(st), Len(st)) \o rest, a + 1, b)
         /\ Fits(q[a + 1]) =>
              LET got == GetStrings(SubSeq(st, 2, 1 + Head(st))) IN
              ~got.thrown /\ got.value = q[a + 1]
<1> DEFINE l == Len(st)
           r == Len(rest)
           s == st \o rest
           f == FrameOf(q, a + 1)
           n == Len(f)
<1>1. l \in Nat \ {0} /\ r \in Nat /\ Head(st) = st[1] /\ \A j \in 1..l : st[j] \in Nat
  OBVIOUS
<1>2. /\ s \in Seq(Nat) /\ Len(s) = l + r
      /\ \A i \in 1..l : s[i] = st[i]
      /\ \A i \in 1..r : s[l + i] = rest[i]
  BY ConcatProperties
<1>3. a < b
  <2>1. ASSUME a = b PROVE FALSE
    <3>1. s = <<>>
      BY <1>2, <2>1, FramedEmpty
    <3>2. Len(<<>>) = 0
      OBVIOUS
    <3> HIDE DEF s
    <3> QED
      BY <1>1, <1>2, <3>1, <3>2
  <2> QED
    BY <2>1
<1>4. f \in Seq(Nat) /\ n \in Nat \ {0} /\ f[1] = n - 1
  BY <1>3, FrameOfShape
<1>5. n <= Len(s) /\ \A k \in 1..n : s[k] = f[k]
  BY <1>2, <1>3, FramedHead
<1>6. Framed(q, s, a, b)
  OBVIOUS
<1> HIDE DEF s, n
<1>7. Head(st) = n - 1 /\ n <= l /\ \A k \in 1..n : st[k] = f[k]
  <2>1. 1 \in 1..n /\ 1 \in 1..l
    BY <1>1, <1>4
  <2>2. Head(st) = n - 1
    BY <1>1, <1>2, <1>4, <1>5, <2>1
  <2>3. n <= l
    BY <1>1, <1>4, <2>2
  <2>4. \A k \in 1..n : st[k] = f[k]
    BY <1>1, <1>2, <1>4, <1>5, <2>3
  <2> QED
    BY <2>2, <2>3, <2>4
<1> DEFINE t == SubSeq(st, n + 1, l)
           body == SubSeq(st, 2, n)
<1>8. t \in Seq(Nat) /\ Len(t) = l - n /\ \A j \in 1..(l - n) : t[j] = st[n + j]
  <2>1. \A j \in (n + 1)..l : st[j] \in Nat
    BY <1>1, <1>4
  <2>2. /\ t \in Seq(Nat) /\ Len(t) = (IF n + 1 <= l THEN l - (n + 1) + 1 ELSE 0)
        /\ \A j \in 1..(l - (n + 1) + 1) : t[j] = st[n + 1 + j - 1]
    <3>1. n + 1 \in Int /\ l \in Int
      BY <1>1, <1>4
    <3> HIDE DEF l
    <3> QED
      BY <2>1, <3>1, SubSeqProperties
  <2> HIDE DEF t
  <2> QED
    BY <1>1, <1>4, <1>7, <2>2
<1>9. body \in Seq(Nat) /\ Len(body) = n - 1 /\ \A j \in 1..(n - 1) : body[j] = st[1 + j]
  <2>1. \A j \in 2..n : st[j] \in Nat
    BY <1>1, <1>4, <1>7
  <2>2. /\ body \in Seq(Nat) /\ Len(body) = (IF 2 <= n THEN n - 2 + 1 ELSE 0)
        /\ \A j \in 1..(n - 2 + 1) : body[j] = st[2 + j - 1]
    <3>1. 2 \in Int /\ n \in Int
      BY <1>4
    <3> QED
      BY <2>1, <3>1, SubSeqProperties
  <2> HIDE DEF body
  <2> QED
    BY <1>4, <2>2
<1>10. 2 + Head(st) = n + 1 /\ 1 + Head(st) = n
  BY <1>4, <1>7
<1> HIDE DEF t, body
<1>11. Framed(q, t \o rest, a + 1, b)
  <2>1. /\ t \o rest \in Seq(Nat) /\ Len(t \o rest) = l - n + r
        /\ \A i \in 1..(l - n + r) :
             (t \o rest)[i] = IF i <= l - n THEN t[i] ELSE rest[i - (l - n)]
    <3>1. /\ t \o rest \in Seq(Nat) /\ Len(t \o rest) = Len(t) + r
          /\ \A i \in 1..(Len(t) + r) :
               (t \o rest)[i] = IF i <= Len(t) THEN t[i] ELSE rest[i - Len(t)]
      BY <1>8, ConcatProperties
    <3>2. Len(t) = l - n
      BY <1>8
    <3> HIDE DEF l, r
    <3> QED
      BY <3>1, <3>2
  <2> DEFINE u == t \o rest
  <2> HIDE DEF u, l, r
  <2>2. u \in Seq(Nat) /\ Len(u) = l - n + r /\ Len(s) = l + r
    BY <1>2, <2>1 DEF u
  <2>3. Len(u) = Len(s) - n
    BY <1>1, <1>4, <2>2
  <2>4. ASSUME NEW k \in 1..Len(u) PROVE u[k] = s[n + k]
    <3>1. k \in 1..(l - n + r)
      BY <2>2
    <3>2. u[k] = IF k <= l - n THEN t[k] ELSE rest[k - (l - n)]
      BY <2>1, <3>1 DEF u
    <3>3. CASE k <= l - n
      <4>1. k \in 1..(l - n) /\ n + k \in 1..l
        BY <1>1, <1>4, <1>7, <3>1, <3>3
      <4> QED
        BY <1>2, <1>8, <3>2, <3>3, <4>1
    <3>4. CASE ~(k <= l - n)
      <4>1. k - (l - n) \in 1..r /\ l + (k - (l - n)) = n + k
        BY <1>1, <1>4, <1>7, <3>1, <3>4
      <4> QED
        BY <1>2, <3>2, <3>4, <4>1
    <3> QED
      BY <3>3, <3>4
  <2>5. Framed(q, u, a + 1, b)
    BY <1>2, <1>3, <1>6, <2>2, <2>3, <2>4, FramedTail DEF n
  <2> QED
    BY <2>5 DEF u
<1>12. ASSUME Fits(q[a + 1])
       PROVE  ~GetStrings(body).thrown /\ GetStrings(body).value = q[a + 1]
  <2>1. q[a + 1] \in Texts
    BY <1>3
  <2>2. Len(body) = n - 1 /\ n = Len(Frame(Data(q[a + 1])))
    BY <1>9 DEF n, FrameOf
  <2>3. \A j \in 1..Len(body) : body[j] = Frame(Data(q[a + 1]))[1 + j]
    <3>1. \A j \in 1..(n - 1) : body[j] = f[1 + j]
      BY <1>4, <1>7, <1>9
    <3> QED
      BY <2>2, <3>1 DEF FrameOf
  <2> QED
    BY <1>9, <1>12, <2>1, <2>2, <2>3, FrameIsRead
<1>13. SubSeq(st, 2 + Head(st), Len(st)) = t /\ SubSeq(st, 2, 1 + Head(st)) = body
  BY <1>10 DEF t, body
<1> QED
  BY <1>3, <1>8, <1>11, <1>12, <1>13

----------------------------------------------------------------------------
(* Types.                                                                  *)

Cells == Seq(Nat) \ {<<>>}
Ops == [cells : Cells, begun : BOOLEAN]

LEMMA FrameCells ==
  ASSUME NEW m \in Texts
  PROVE  Frame(Data(m)) \in Cells
<1> DEFINE d == Data(m)
<1>1. d \in Seq(Nat)
  BY DataTyped
<1> HIDE DEF d
<1>2. Frame(d) \in Seq(Nat) /\ Len(Frame(d)) # 0
  BY <1>1, FrameShape
<1>3. Len(<<>>) = 0
  OBVIOUS
<1> QED
  BY <1>2, <1>3 DEF d, Cells

\* The operations in the queue and the remainders, as far as their types tell.
LEMMA OpsTyped ==
  ASSUME TypeOK
  PROVE  writes \in Seq(Ops) /\ remainders \in Seq(Ops)
<1> DEFINE Rest == [cells : Cells, begun : {TRUE}]
<1>1. writes \in Seq(Ops) /\ remainders \in Seq(Rest)
  BY DEF TypeOK, Ops, Cells
<1>2. Rest \subseteq Ops
  BY DEF Ops
<1> HIDE DEF Rest
<1>3. \A i \in 1..Len(remainders) : remainders[i] \in Ops
  BY <1>1, <1>2, ElementOfSeq
<1>4. remainders \in Seq(Ops)
  BY <1>1, <1>3
<1> QED
  BY <1>1, <1>4

\* Whatever is sent, however it is cut and whatever the client makes of it, a step
\* keeps the types.
LEMMA TypeStep == TypeOK /\ [Next]_vars => TypeOK'
<1> SUFFICES ASSUME TypeOK, [Next]_vars PROVE TypeOK'
  OBVIOUS
<1> USE DEF TypeOK
<1>1. ASSUME NEW m \in Texts, SendPacket(m) PROVE TypeOK'
  <2>1. Frame(Data(m)) \in Cells
    BY FrameCells
  <2>2. Operation(Frame(Data(m)), FALSE) \in [cells : Cells, begun : BOOLEAN]
    BY <2>1 DEF Operation
  <2>3. writes' \in Seq([cells : Cells, begun : BOOLEAN])
    BY <1>1, <2>2, AppendProperties DEF SendPacket, Cells
  <2>4. sent' \in Seq(Texts)
    BY <1>1 DEF SendPacket
  <2>5. overlapped' \in BOOLEAN
    BY <1>1 DEF SendPacket, Overlap
  <2> QED
    BY <1>1, <2>3, <2>4, <2>5 DEF SendPacket, Cells
<1>2. ASSUME NEW k \in 1..Width, WriteSome(k) PROVE TypeOK'
  <2> DEFINE c == Head(writes).cells
             x == SubSeq(c, 1, k)
             y == SubSeq(c, k + 1, Len(c))
  <2>1. Head(writes) \in Ops /\ k \in 1..Len(c)
    <3>1. writes # <<>> /\ k \in 1..Len(c)
      BY <1>2 DEF WriteSome
    <3>2. Head(writes) \in Ops
      BY <3>1, OpsTyped, HeadTailProperties
    <3> QED
      BY <3>1, <3>2
  <2>2. c \in Seq(Nat)
    BY <2>1 DEF Cells, Ops
  <2> HIDE DEF c
  <2>3. x \in Seq(Nat) /\ (k # Len(c) => y \in Cells)
    BY <2>1, <2>2, CutWrite DEF Cells
  <2>4. /\ stream' = stream \o x
        /\ remainders' = IF k = Len(c) THEN remainders
                         ELSE Append(remainders, Operation(y, TRUE))
        /\ writes' = Tail(writes) /\ writes # <<>>
        /\ overlapped' = (overlapped \/ Overlap(writes' \o remainders'))
        /\ UNCHANGED <<sent, received>>
    BY <1>2 DEF WriteSome, c
  <2> HIDE DEF x, y
  <2>5. stream' \in Seq(Nat)
    BY <2>3, <2>4, ConcatProperties
  <2>6. remainders' \in Seq([cells : Cells, begun : {TRUE}])
    <3>1. remainders \in Seq([cells : Cells, begun : {TRUE}])
      BY DEF Cells
    <3>2. CASE k = Len(c)
      BY <2>4, <3>1, <3>2
    <3>3. CASE k # Len(c)
      <4>1. Operation(y, TRUE) \in [cells : Cells, begun : {TRUE}]
        BY <2>3, <3>3 DEF Operation
      <4> QED
        BY <2>4, <3>1, <3>3, <4>1, AppendProperties
    <3> QED
      BY <3>2, <3>3
  <2>7. writes' \in Seq([cells : Cells, begun : BOOLEAN])
    BY <2>4, HeadTailProperties DEF Cells
  <2>8. overlapped' \in BOOLEAN
    BY <2>4 DEF Overlap
  <2> QED
    BY <2>4, <2>5, <2>6, <2>7, <2>8 DEF Cells
<1>3. ASSUME WriteRest PROVE TypeOK'
  <2>1. /\ Head(remainders) \in [cells : Cells, begun : {TRUE}]
        /\ Tail(remainders) \in Seq([cells : Cells, begun : {TRUE}])
    BY <1>3, HeadTailProperties DEF WriteRest, Cells
  <2>2. Head(remainders) \in [cells : Cells, begun : BOOLEAN]
    BY <2>1
  <2>3. writes' \in Seq([cells : Cells, begun : BOOLEAN])
    BY <1>3, <2>2, AppendProperties DEF WriteRest, Cells
  <2> QED
    BY <1>3, <2>1, <2>3 DEF WriteRest, Cells
<1>4. ASSUME Receive PROVE TypeOK'
  <2> DEFINE h == Head(stream)
             l == Len(stream)
             body == SubSeq(stream, 2, 1 + h)
             t == SubSeq(stream, 2 + h, l)
             R == [thrown : BOOLEAN, value : Seq(Seq(Nat)), pos : Nat]
  <2>1. h \in Nat /\ l \in Nat /\ l > h /\ \A j \in 1..l : stream[j] \in Nat
    BY <1>4 DEF Receive
  <2>2. /\ received' = Append(received, GetStrings(body)) /\ stream' = t
        /\ UNCHANGED <<sent, writes, remainders, overlapped>>
    BY <1>4 DEF Receive
  <2> HIDE DEF h, l
  <2>3. body \in Seq(Nat)
    <3>1. (\A j \in 2..(1 + h) : stream[j] \in Nat) /\ 2 \in Int /\ 1 + h \in Int
      BY <2>1
    <3> QED
      BY <3>1, SubSeqProperties
  <2>4. t \in Seq(Nat)
    <3>1. (\A j \in (2 + h)..l : stream[j] \in Nat) /\ 2 + h \in Int /\ l \in Int
      BY <2>1
    <3> QED
      BY <3>1, SubSeqProperties
  <2>5. GetStrings(body) \in R
    BY <2>3, GetStringsTyped
  <2> HIDE DEF body, t
  <2>6. received' \in Seq(R)
    BY <2>2, <2>5, AppendProperties
  <2> QED
    BY <2>2, <2>4, <2>6
<1>5. ASSUME UNCHANGED vars PROVE TypeOK'
  BY <1>5 DEF vars
<1> QED
  BY <1>1, <1>2, <1>3, <1>4, <1>5 DEF Next, Write

----------------------------------------------------------------------------
(* The frames stay in a row.                                               *)

LEMMA InitHolds == Init => SInv
<1> SUFFICES ASSUME Init PROVE SInv
  OBVIOUS
<1> DEFINE e == <<>>
<1>1. Len(e) = 0 /\ DOMAIN e = {} /\ e \in Seq(Nat) /\ \A S : e \in Seq(S)
  OBVIOUS
<1>2. Framed(sent, <<>>, 0, 0)
  BY NoFrames
<1>3. /\ sent = e /\ writes = e /\ remainders = e /\ stream = e /\ received = e
      /\ overlapped = FALSE
  BY DEF Init
<1>4. TypeOK
  BY <1>1, <1>3 DEF TypeOK
<1>5. Framed(sent, stream, Len(received), Len(sent) - Len(writes))
  BY <1>1, <1>2, <1>3 DEF e
<1> HIDE DEF e
<1>6. BetweenFrames
  BY <1>1, <1>3, <1>5 DEF BetweenFrames, e
<1>7. ReceivedOK
  BY <1>1, <1>3 DEF ReceivedOK
<1> QED
  BY <1>4, <1>6, <1>7 DEF SInv, StreamOK

\* A write of which part is done, next to another one, is an overlap.
LEMMA BegunAlone ==
  ASSUME NEW S, NEW ops \in Seq(S), NEW i \in 1..Len(ops), ops[i].begun, ~Overlap(ops)
  PROVE  Len(ops) = 1
<1>1. Len(ops) \in Nat /\ DOMAIN ops = 1..Len(ops)
  OBVIOUS
<1>2. ~(Len(ops) > 1)
  BY <1>1 DEF Overlap
<1> QED
  BY <1>1, <1>2

\* A packet is sent: its frame waits behind the others, unless one is cut already.
LEMMA SendStep ==
  ASSUME SInv, NEW m \in Texts, SendPacket(m), TypeOK'
  PROVE  StreamOK'
<1> SUFFICES ASSUME ~overlapped' PROVE ((BetweenFrames \/ InsideFrame) /\ ReceivedOK)'
  BY DEF StreamOK
<1> DEFINE op == Operation(Frame(Data(m)), FALSE)
           n == Len(sent)
           w == Len(writes)
<1>1. /\ TypeOK /\ ~overlapped /\ ~Overlap(writes' \o remainders)
      /\ (BetweenFrames \/ InsideFrame) /\ ReceivedOK
  BY DEF SendPacket, SInv, StreamOK
<1>2. /\ sent' = Append(sent, m) /\ writes' = Append(writes, op)
      /\ UNCHANGED <<remainders, stream, received>>
  BY DEF SendPacket
<1>3. /\ n \in Nat /\ sent' \in Seq(Texts) /\ Len(sent') = n + 1
      /\ \A i \in 1..n : sent'[i] = sent[i]
      /\ sent'[n + 1] = m
  BY <1>1, <1>2, AppendProperties DEF TypeOK
<1>4. writes \in Seq(Ops) /\ writes' \in Seq(Ops) /\ remainders \in Seq(Ops) /\ op \in Ops
  <2>1. op \in Ops
    BY FrameCells DEF Operation, Ops
  <2> HIDE DEF op
  <2>2. writes \in Seq(Ops) /\ remainders \in Seq(Ops)
    BY <1>1, OpsTyped
  <2> QED
    BY <1>2, <2>1, <2>2, AppendProperties
<1>5. /\ w \in Nat /\ Len(writes') = w + 1 /\ writes'[w + 1] = op
      /\ \A i \in 1..w : writes'[i] = writes[i]
  <2> HIDE DEF op
  <2> QED
    BY <1>2, <1>4, AppendProperties
<1> HIDE DEF op, n, w
<1>6. CASE BetweenFrames
  <2>1. /\ remainders = <<>> /\ Len(received) <= n - w
        /\ \A k \in 1..w : ~writes[k].begun /\ writes[k].cells = FrameOf(sent, n - w + k)
        /\ Framed(sent, stream, Len(received), n - w)
    <3>1. DOMAIN writes = 1..w
      BY <1>4 DEF w
    <3> QED
      BY <1>6, <3>1 DEF BetweenFrames, n, w
  <2>2. Len(received) \in Nat /\ n - w \in 0..n
    <3>1. Len(received) \in Nat
      BY <1>1 DEF TypeOK
    <3> QED
      BY <1>3, <1>5, <2>1, <3>1
  <2>3. Len(sent') - Len(writes') = n - w
    BY <1>3, <1>5
  <2>4. ASSUME NEW k \in 1..(w + 1)
        PROVE  ~writes'[k].begun /\ writes'[k].cells = FrameOf(sent', n - w + k)
    <3>1. CASE k \in 1..w
      <4>1. n - w + k \in 1..n
        BY <1>3, <1>5, <2>2, <3>1
      <4>2. FrameOf(sent', n - w + k) = FrameOf(sent, n - w + k)
        BY <1>3, <4>1 DEF FrameOf
      <4> QED
        BY <1>5, <2>1, <3>1, <4>2
    <3>2. CASE k = w + 1
      <4>1. n - w + k = n + 1
        BY <1>3, <1>5, <3>2
      <4>2. FrameOf(sent', n + 1) = Frame(Data(m))
        BY <1>3 DEF FrameOf
      <4> QED
        BY <1>5, <3>2, <4>1, <4>2 DEF op, Operation
    <3> QED
      BY <1>5, <3>1, <3>2
  <2>5. Framed(sent', stream, Len(received), n - w)
    <3>1. sent \in Seq(Texts) /\ n - w \in 0..Len(sent)
      BY <1>1, <2>2 DEF TypeOK, n
    <3> QED
      BY <1>2, <2>1, <2>2, <3>1, FramedSend
  <2>6. DOMAIN writes' = 1..(w + 1)
    BY <1>4, <1>5
  <2>7. BetweenFrames'
    BY <1>2, <2>1, <2>3, <2>4, <2>5, <2>6 DEF BetweenFrames
  <2>8. ReceivedOK'
    <3>1. DOMAIN received = 1..Len(received)
      BY <1>1 DEF TypeOK
    <3>2. \A i \in DOMAIN received : sent'[i] = sent[i]
      BY <1>3, <2>1, <2>2, <3>1
    <3> QED
      BY <1>1, <1>2, <3>2 DEF ReceivedOK
  <2> QED
    BY <2>7, <2>8
<1>7. ASSUME InsideFrame PROVE FALSE
  <2>1. PICK rest \in Seq(Nat) \ {<<>>} :
          \/ writes = <<Operation(rest, TRUE)>> /\ remainders = <<>>
          \/ writes = <<>> /\ remainders = <<Operation(rest, TRUE)>>
    BY <1>7 DEF InsideFrame
  <2> DEFINE o == Operation(rest, TRUE)
             one == <<o>>
             e == <<>>
             all == writes' \o remainders
  <2>2. Len(one) = 1 /\ one[1] = o /\ Len(e) = 0 /\ o.begun
    BY DEF Operation
  <2>3. (writes = one /\ remainders = e) \/ (writes = e /\ remainders = one)
    BY <2>1
  <2> HIDE DEF o, one, e
  <2>4. Len(remainders) \in Nat /\ all \in Seq(Ops) /\ Len(all) = w + 1 + Len(remainders)
        /\ \A i \in 1..(w + 1 + Len(remainders)) :
             all[i] = IF i <= w + 1 THEN writes'[i] ELSE remainders[i - (w + 1)]
    <3> DEFINE v == writes'
    <3>1. v \in Seq(Ops) /\ remainders \in Seq(Ops) /\ Len(v) = w + 1
      BY <1>4, <1>5
    <3> HIDE DEF v
    <3>2. /\ v \o remainders \in Seq(Ops) /\ Len(v \o remainders) = Len(v) + Len(remainders)
          /\ \A i \in 1..(Len(v) + Len(remainders)) :
               (v \o remainders)[i] = IF i <= Len(v) THEN v[i] ELSE remainders[i - Len(v)]
      BY <3>1, ConcatProperties
    <3>3. Len(remainders) \in Nat
      BY <3>1
    <3> QED
      BY <3>1, <3>2, <3>3 DEF v
  <2> HIDE DEF all
  <2>5. Len(all) = 2
    <3>1. w + Len(remainders) = 1
      <4>1. CASE writes = one /\ remainders = e
        <5>1. w = 1 /\ Len(remainders) = 0
          BY <2>2, <4>1 DEF w
        <5> QED
          BY <5>1
      <4>2. CASE writes = e /\ remainders = one
        <5>1. w = 0 /\ Len(remainders) = 1
          BY <2>2, <4>2 DEF w
        <5> QED
          BY <5>1
      <4> QED
        BY <2>3, <4>1, <4>2
    <3> QED
      BY <1>5, <2>4, <3>1
  <2>6. \E i \in 1..Len(all) : all[i].begun
    <3>1. CASE writes = one /\ remainders = e
      <4>1. w = 1 /\ writes'[1] = o
        <5>1. w = 1
          BY <2>2, <3>1 DEF w
        <5> QED
          BY <1>5, <2>2, <3>1, <5>1
      <4>2. all[1] = o /\ 1 \in 1..Len(all)
        BY <2>4, <2>5, <4>1
      <4> QED
        BY <2>2, <4>2
    <3>2. CASE writes = e /\ remainders = one
      <4>1. w = 0 /\ remainders[1] = o /\ Len(remainders) = 1
        BY <2>2, <3>2 DEF w
      <4>2. all[2] = o /\ 2 \in 1..Len(all)
        BY <2>4, <2>5, <4>1
      <4> QED
        BY <2>2, <4>2
    <3> QED
      BY <2>3, <3>1, <3>2
  <2>7. ~Overlap(all)
    BY <1>1 DEF all
  <2>8. Len(all) = 1
    BY <2>4, <2>6, <2>7, BegunAlone
  <2> QED
    BY <2>5, <2>8
<1> QED
  BY <1>1, <1>6, <1>7

\* The kernel takes a part or all of a write: of the last frame only, if a part.
LEMMA WriteStep ==
  ASSUME SInv, NEW k \in 1..Width, WriteSome(k), TypeOK'
  PROVE  StreamOK'
<1> SUFFICES ASSUME ~overlapped' PROVE ((BetweenFrames \/ InsideFrame) /\ ReceivedOK)'
  BY DEF StreamOK
<1> DEFINE c == Head(writes).cells
           x == SubSeq(c, 1, k)
           y == SubSeq(c, k + 1, Len(c))
           op == Operation(y, TRUE)
           n == Len(sent)
           w == Len(writes)
           a == Len(received)
<1>1. /\ TypeOK /\ ~overlapped /\ ~Overlap(writes' \o remainders')
      /\ (BetweenFrames \/ InsideFrame) /\ ReceivedOK
  BY DEF WriteSome, SInv, StreamOK
<1>2. /\ writes # <<>> /\ k \in 1..Len(c)
      /\ stream' = stream \o x /\ writes' = Tail(writes)
      /\ remainders' = IF k = Len(c) THEN remainders ELSE Append(remainders, op)
      /\ UNCHANGED <<sent, received>>
  BY DEF WriteSome
<1>3. /\ n \in Nat /\ a \in Nat /\ sent \in Seq(Texts) /\ stream \in Seq(Nat)
      /\ writes \in Seq(Ops) /\ remainders \in Seq(Ops)
  BY <1>1, OpsTyped DEF TypeOK
<1>4. /\ w \in Nat \ {0} /\ Head(writes) = writes[1] /\ Head(writes) \in Ops
      /\ Tail(writes) \in Seq(Ops) /\ Len(Tail(writes)) = w - 1
      /\ \A i \in 1..(w - 1) : Tail(writes)[i] = writes[i + 1]
  BY <1>2, <1>3, HeadTailProperties
<1>5. c \in Seq(Nat)
  BY <1>4 DEF Ops, Cells
<1> HIDE DEF c
<1>6. /\ k = Len(c) => stream' = stream \o c
      /\ k # Len(c) => y \in Cells /\ stream' \o y = stream \o c
  BY <1>2, <1>3, <1>5, CutWrite DEF Cells
<1> HIDE DEF x, y, op, n, w, a
<1>7. ASSUME remainders = <<>>, k # Len(c)
       PROVE  remainders' = <<op>>
  <2>1. remainders' = Append(<<>>, op)
    BY <1>2, <1>7
  <2> QED
    BY <2>1
<1>8. ReceivedOK'
  BY <1>1, <1>2 DEF ReceivedOK
<1>9. CASE BetweenFrames
  <2>1. /\ remainders = <<>> /\ a <= n - w
        /\ \A j \in 1..w : ~writes[j].begun /\ writes[j].cells = FrameOf(sent, n - w + j)
        /\ Framed(sent, stream, a, n - w)
    <3>1. DOMAIN writes = 1..w
      BY <1>3 DEF w
    <3> QED
      BY <1>9, <3>1 DEF BetweenFrames, n, w, a
  <2>2. c = FrameOf(sent, n - w + 1)
    BY <1>4, <2>1 DEF c
  <2>3. Framed(sent, stream \o c, a, n - w + 1)
    <3> DEFINE b == n - w
    <3>1. b \in Nat /\ a <= b /\ b + 1 <= n
      BY <1>3, <1>4, <2>1
    <3> HIDE DEF b
    <3>2. Framed(sent, stream, a, b) /\ c = FrameOf(sent, b + 1)
      BY <2>1, <2>2 DEF b
    <3>3. Framed(sent, stream \o c, a, b + 1)
      BY <1>3, <3>1, <3>2, FramedAppend DEF n
    <3> QED
      BY <3>3 DEF b
  <2>4. CASE k = Len(c)
    <3>1. writes' = Tail(writes) /\ remainders' = <<>> /\ stream' = stream \o c
      BY <1>2, <1>6, <2>1, <2>4
    <3>2. Len(sent') - Len(writes') = n - w + 1
      <4>1. Len(writes') = w - 1 /\ Len(sent') = n
        BY <1>2, <1>4 DEF n
      <4> QED
        BY <1>3, <1>4, <4>1
    <3>3. DOMAIN writes' = 1..(w - 1)
      BY <1>4, <3>1
    <3>4. ASSUME NEW j \in 1..(w - 1)
          PROVE  ~writes'[j].begun /\ writes'[j].cells = FrameOf(sent, n - w + 1 + j)
      <4>1. j + 1 \in 1..w /\ n - w + 1 + j = n - w + (j + 1)
        BY <1>3, <1>4
      <4>2. writes'[j] = writes[j + 1]
        BY <1>4, <3>1
      <4> QED
        BY <2>1, <4>1, <4>2
    <3>5. a <= n - w + 1
      BY <1>3, <1>4, <2>1
    <3>6. BetweenFrames'
      BY <1>2, <2>3, <3>1, <3>2, <3>3, <3>4, <3>5 DEF BetweenFrames, a
    <3> QED
      BY <1>8, <3>6
  <2>5. CASE k # Len(c)
    <3> DEFINE tail == Tail(writes)
               one == <<op>>
               all == tail \o one
    <3>1. remainders' = one
      BY <1>7, <2>1, <2>5
    <3>2. op \in Ops /\ op.begun
      BY <1>6, <2>5 DEF Operation, Ops, op
    <3>3. one \in Seq(Ops) /\ Len(one) = 1 /\ one[1] = op
      BY <3>2
    <3> HIDE DEF one, tail
    <3>4. tail \in Seq(Ops) /\ Len(tail) = w - 1 /\ w - 1 \in Nat
      BY <1>4 DEF tail
    <3>5. /\ all \in Seq(Ops) /\ Len(all) = w
          /\ all[w] = op
      <4>1. /\ all \in Seq(Ops) /\ Len(all) = Len(tail) + Len(one)
            /\ \A i \in 1..(Len(tail) + Len(one)) :
                 all[i] = IF i <= Len(tail) THEN tail[i] ELSE one[i - Len(tail)]
        BY <3>3, <3>4, ConcatProperties
      <4> HIDE DEF all
      <4>2. Len(all) = w /\ w \in 1..(Len(tail) + Len(one)) /\ ~(w <= Len(tail))
            /\ w - Len(tail) = 1
        BY <1>4, <3>3, <3>4, <4>1
      <4> QED
        BY <3>3, <4>1, <4>2
    <3>6. ~Overlap(all)
      BY <1>1, <1>2, <3>1 DEF all, tail
    <3> HIDE DEF all
    <3>7. w = 1
      <4>1. w \in 1..Len(all) /\ all[w].begun
        BY <1>4, <3>2, <3>5
      <4> QED
        BY <3>5, <3>6, <4>1, BegunAlone
    <3>8. writes' = <<>>
      <4>1. tail = <<>>
        BY <3>4, <3>7
      <4> QED
        BY <1>2, <4>1 DEF tail
    <3>9. Framed(sent, stream' \o y, a, n)
      <4>1. n - w + 1 = n
        BY <1>3, <3>7
      <4> QED
        BY <1>6, <2>3, <2>5, <4>1
    <3>10. a <= n
      BY <1>3, <1>4, <2>1
    <3>11. InsideFrame'
      BY <1>2, <1>6, <2>5, <3>1, <3>8, <3>9, <3>10 DEF InsideFrame, Cells, a, n, one, op
    <3> QED
      BY <1>8, <3>11
  <2> QED
    BY <2>4, <2>5
<1>10. CASE InsideFrame
  <2>1. PICK rest \in Cells :
          /\ \/ writes = <<Operation(rest, TRUE)>> /\ remainders = <<>>
             \/ writes = <<>> /\ remainders = <<Operation(rest, TRUE)>>
          /\ a <= n
          /\ Framed(sent, stream \o rest, a, n)
    BY <1>10 DEF InsideFrame, Cells, a, n
  <2> DEFINE o == Operation(rest, TRUE)
             one == <<o>>
  <2>2. writes = one /\ remainders = <<>>
    BY <1>2, <2>1
  <2>3. Len(one) = 1 /\ one[1] = o /\ Tail(one) = <<>> /\ o.cells = rest
    BY DEF Operation
  <2> HIDE DEF o, one
  <2>4. c = rest /\ writes' = <<>>
    BY <1>2, <1>4, <2>2, <2>3 DEF c
  <2>5. CASE k = Len(c)
    <3>1. remainders' = <<>> /\ stream' = stream \o rest
      BY <1>2, <1>6, <2>2, <2>4, <2>5
    <3>2. Len(writes') = 0 /\ DOMAIN writes' = {}
      <4> HIDE DEF c, x, y, op
      <4>1. writes' = <<>>
        BY <2>4
      <4> QED
        BY <4>1
    <3>3. Len(sent') - Len(writes') = n
      <4>1. Len(sent') = n
        BY <1>2 DEF n
      <4> QED
        BY <1>3, <3>2, <4>1
    <3>4. BetweenFrames'
      BY <1>2, <2>1, <3>1, <3>2, <3>3 DEF BetweenFrames, a
    <3> QED
      BY <1>8, <3>4
  <2>6. CASE k # Len(c)
    <3>1. remainders' = <<op>>
      BY <1>7, <2>2, <2>6
    <3>2. y \in Cells /\ stream' \o y = stream \o rest
      BY <1>6, <2>4, <2>6
    <3>3. InsideFrame'
      BY <1>2, <2>1, <2>4, <3>1, <3>2 DEF InsideFrame, Cells, a, n, op
    <3> QED
      BY <1>8, <3>3
  <2> QED
    BY <2>5, <2>6
<1> QED
  BY <1>1, <1>9, <1>10

\* A remainder is queued again: it is still alone.
LEMMA RestStep ==
  ASSUME SInv, WriteRest
  PROVE  StreamOK'
<1> SUFFICES ASSUME ~overlapped' PROVE ((BetweenFrames \/ InsideFrame) /\ ReceivedOK)'
  BY DEF StreamOK
<1>1. TypeOK /\ ~overlapped /\ (BetweenFrames \/ InsideFrame) /\ ReceivedOK
  BY DEF WriteRest, SInv, StreamOK
<1>2. /\ remainders # <<>>
      /\ writes' = Append(writes, Head(remainders)) /\ remainders' = Tail(remainders)
      /\ UNCHANGED <<sent, stream, received>>
  BY DEF WriteRest
<1>3. ~BetweenFrames
  BY <1>2 DEF BetweenFrames
<1>4. PICK rest \in Cells :
        /\ \/ writes = <<Operation(rest, TRUE)>> /\ remainders = <<>>
           \/ writes = <<>> /\ remainders = <<Operation(rest, TRUE)>>
        /\ Len(received) <= Len(sent)
        /\ Framed(sent, stream \o rest, Len(received), Len(sent))
  BY <1>1, <1>3 DEF InsideFrame, Cells
<1> DEFINE o == Operation(rest, TRUE)
<1>5. writes = <<>> /\ remainders = <<o>>
  BY <1>2, <1>4
<1> HIDE DEF o
<1>6. Append(<<>>, o) = <<o>> /\ Head(<<o>>) = o /\ Tail(<<o>>) = <<>>
  OBVIOUS
<1>7. writes' = <<o>> /\ remainders' = <<>>
  BY <1>2, <1>5, <1>6
<1>8. InsideFrame'
  BY <1>2, <1>4, <1>7 DEF InsideFrame, Cells, o
<1>9. ReceivedOK'
  BY <1>1, <1>2 DEF ReceivedOK
<1> QED
  BY <1>8, <1>9

\* The client takes the first of the frames.
LEMMA ReceiveStep ==
  ASSUME SInv, Receive
  PROVE  StreamOK'
<1> SUFFICES ASSUME ~overlapped' PROVE ((BetweenFrames \/ InsideFrame) /\ ReceivedOK)'
  BY DEF StreamOK
<1> DEFINE h == Head(stream)
           t == SubSeq(stream, 2 + h, Len(stream))
           got == GetStrings(SubSeq(stream, 2, 1 + h))
           n == Len(sent)
           w == Len(writes)
           a == Len(received)
<1>1. TypeOK /\ ~overlapped /\ (BetweenFrames \/ InsideFrame) /\ ReceivedOK
  BY DEF Receive, SInv, StreamOK
<1>2. /\ stream # <<>> /\ Len(stream) > h
      /\ received' = Append(received, got) /\ stream' = t
      /\ UNCHANGED <<sent, writes, remainders>>
  BY DEF Receive
<1>3. /\ n \in Nat /\ w \in Nat /\ a \in Nat /\ DOMAIN received = 1..a
      /\ stream \in Seq(Nat) /\ sent \in Seq(Texts)
  BY <1>1 DEF TypeOK
<1>4. ASSUME NEW rest \in Seq(Nat), NEW b \in 0..n, a <= b,
             Framed(sent, stream \o rest, a, b)
      PROVE  /\ a + 1 <= b /\ Framed(sent, stream' \o rest, a + 1, b)
             /\ Fits(sent[a + 1]) => ~got.thrown /\ got.value = sent[a + 1]
  <2>1. b \in Nat /\ b <= Len(sent)
    BY <1>3
  <2>2. a < b
    BY <1>2, <1>3, <1>4, <2>1, ReceiveFrame
  <2>3. Framed(sent, t \o rest, a + 1, b)
    BY <1>2, <1>3, <1>4, <2>1, ReceiveFrame
  <2>4. Fits(sent[a + 1]) => ~got.thrown /\ got.value = sent[a + 1]
    <3> HIDE DEF a
    <3> QED
      BY <1>2, <1>3, <1>4, <2>1, ReceiveFrame DEF a
  <2> QED
    BY <1>2, <1>3, <2>1, <2>2, <2>3, <2>4
<1>5. Len(received') = a + 1 /\ DOMAIN received' = 1..(a + 1)
      /\ received'[a + 1] = got /\ \A i \in 1..a : received'[i] = received[i]
  <2> DEFINE R == [thrown : BOOLEAN, value : Seq(Seq(Nat)), pos : Nat]
  <2>1. received \in Seq(R)
    BY <1>1 DEF TypeOK
  <2>2. got \in R
    <3>1. SubSeq(stream, 2, 1 + h) \in Seq(Nat)
      <4>1. h \in Nat /\ \A j \in 2..(1 + h) : stream[j] \in Nat
        BY <1>2, <1>3
      <4>2. 2 \in Int /\ 1 + h \in Int
        BY <4>1
      <4> QED
        BY <4>1, <4>2, SubSeqProperties
    <3> QED
      BY <3>1, GetStringsTyped
  <2> HIDE DEF R, got, h
  <2> QED
    BY <1>2, <1>3, <2>1, <2>2, AppendProperties
<1> HIDE DEF h, t, got, n, w, a
<1>6. ASSUME Fits(sent[a + 1]) => ~got.thrown /\ got.value = sent[a + 1]
      PROVE  ReceivedOK'
  <2>1. ASSUME NEW i \in 1..(a + 1), Fits(sent[i])
        PROVE  ~received'[i].thrown /\ received'[i].value = sent[i]
    <3>1. CASE i \in 1..a
      BY <1>1, <1>3, <1>5, <2>1, <3>1 DEF ReceivedOK
    <3>2. CASE i = a + 1
      BY <1>5, <1>6, <2>1, <3>2
    <3> QED
      BY <1>3, <3>1, <3>2
  <2> QED
    BY <1>2, <1>5, <2>1 DEF ReceivedOK
<1>7. CASE BetweenFrames
  <2> DEFINE b == n - w
             e == <<>>
  <2>1. /\ remainders = <<>> /\ a <= b
        /\ \A k \in DOMAIN writes :
             ~writes[k].begun /\ writes[k].cells = FrameOf(sent, b + k)
        /\ Framed(sent, stream, a, b)
    BY <1>7 DEF BetweenFrames, n, w, a
  <2>2. b \in 0..n
    BY <1>3, <2>1
  <2> HIDE DEF b
  <2>3. e \in Seq(Nat)
    OBVIOUS
  <2>4. stream \o e = stream
    BY <1>3
  <2>5. t \in Seq(Nat)
    BY <1>2, <1>3, <2>1, <2>2, <2>3, <2>4, ReceiveFrame DEF t, h, n, a, b
  <2>6. t \o e = t
    BY <2>5
  <2> HIDE DEF e
  <2>7. /\ a + 1 <= b /\ Framed(sent, t, a + 1, b)
        /\ Fits(sent[a + 1]) => ~got.thrown /\ got.value = sent[a + 1]
    BY <1>2, <1>4, <2>1, <2>2, <2>3, <2>4, <2>6
  <2>8. BetweenFrames'
    <3>1. Len(sent') - Len(writes') = b
      BY <1>2 DEF b, n, w
    <3> QED
      BY <1>2, <1>5, <2>1, <2>7, <3>1 DEF BetweenFrames
  <2> QED
    BY <1>6, <2>7, <2>8
<1>8. CASE InsideFrame
  <2>1. PICK rest \in Cells :
          /\ \/ writes = <<Operation(rest, TRUE)>> /\ remainders = <<>>
             \/ writes = <<>> /\ remainders = <<Operation(rest, TRUE)>>
          /\ a <= n
          /\ Framed(sent, stream \o rest, a, n)
    BY <1>8 DEF InsideFrame, Cells, a, n
  <2>2. rest \in Seq(Nat) /\ n \in 0..n
    BY <1>3 DEF Cells
  <2>3. /\ a + 1 <= n /\ Framed(sent, stream' \o rest, a + 1, n)
        /\ Fits(sent[a + 1]) => ~got.thrown /\ got.value = sent[a + 1]
    BY <1>4, <2>1, <2>2
  <2>4. InsideFrame'
    BY <1>2, <1>5, <2>1, <2>3 DEF InsideFrame, Cells, n
  <2> QED
    BY <1>6, <2>3, <2>4
<1> QED
  BY <1>1, <1>7, <1>8

----------------------------------------------------------------------------
(* Theorems.                                                               *)

LEMMA StepHolds == SInv /\ [Next]_vars => SInv'
<1> SUFFICES ASSUME SInv, [Next]_vars PROVE SInv'
  OBVIOUS
<1>1. TypeOK'
  BY TypeStep DEF SInv
<1>2. ASSUME NEW m \in Texts, SendPacket(m) PROVE StreamOK'
  BY <1>1, <1>2, SendStep
<1>3. ASSUME NEW k \in 1..Width, WriteSome(k) PROVE StreamOK'
  BY <1>1, <1>3, WriteStep
<1>4. ASSUME WriteRest PROVE StreamOK'
  BY <1>4, RestStep
<1>5. ASSUME Receive PROVE StreamOK'
  BY <1>5, ReceiveStep
<1>6. ASSUME UNCHANGED vars PROVE StreamOK'
  BY <1>6 DEF vars, SInv, StreamOK, BetweenFrames, InsideFrame, ReceivedOK
<1> QED
  BY <1>1, <1>2, <1>3, <1>4, <1>5, <1>6 DEF Next, Write, SInv

LEMMA Invariance == Spec => []SInv
BY InitHolds, StepHolds, PTL DEF Spec

\* Whatever the texts and the cuts, the queue holds operations with something to write,
\* a remainder is always one that has begun, and the client's results are those of >>.
THEOREM TypeCorrect == Spec => []TypeOK
<1>1. SInv => TypeOK
  BY DEF SInv
<1> QED
  BY <1>1, Invariance, PTL

\* Unless a packet was sent while part of another was unsent, the client decodes what
\* SendPacket was given, in its order; a packet too large for its header is lost alone.
THEOREM PacketsAreKept == Spec => []PacketsSurvive
<1>1. SInv => PacketsSurvive
  <2> SUFFICES ASSUME TypeOK, BetweenFrames \/ InsideFrame, ReceivedOK
               PROVE  PacketsSurvive
    BY DEF SInv, StreamOK, PacketsSurvive
  <2>1. CASE BetweenFrames
    <3>1. Len(received) <= Len(sent) - Len(writes)
      BY <2>1 DEF BetweenFrames
    <3>2. Len(received) \in Nat /\ Len(sent) \in Nat /\ Len(writes) \in Nat
      BY DEF TypeOK
    <3>3. Len(received) <= Len(sent)
      BY <3>1, <3>2
    <3> QED
      BY <3>3 DEF PacketsSurvive, ReceivedOK
  <2>2. CASE InsideFrame
    BY <2>2 DEF PacketsSurvive, ReceivedOK, InsideFrame
  <2> QED
    BY <2>1, <2>2
<1> QED
  BY <1>1, Invariance, PTL

\* A packet that was sent and is not decoded is never stuck: with no write left, the
\* client has its frame and can read it.
NothingIsStuck ==
  ~overlapped /\ writes = <<>> /\ remainders = <<>> /\ Len(received) < Len(sent)
    => stream # <<>> /\ Len(stream) > Head(stream)

\* However the kernel cuts the writes, what is written and not decoded is a whole frame:
\* the client never waits for cells that nobody will write.
THEOREM NoPacketIsStuck == Spec => []NothingIsStuck
<1>1. SInv => NothingIsStuck
  <2> SUFFICES ASSUME SInv, ~overlapped, writes = <<>>, remainders = <<>>,
                      Len(received) < Len(sent)
               PROVE  stream # <<>> /\ Len(stream) > Head(stream)
    BY DEF NothingIsStuck
  <2> DEFINE n == Len(sent)
             a == Len(received)
             f == FrameOf(sent, a + 1)
  <2>1. Len(writes) = 0
    BY DEF SInv
  <2>2. /\ n \in Nat /\ a \in Nat /\ a < n /\ sent \in Seq(Texts)
        /\ stream \in Seq(Nat)
    BY DEF SInv, TypeOK
  <2>3. ~InsideFrame
    <3>1. \A p : <<>> # <<p>>
      OBVIOUS
    <3> QED
      BY <3>1 DEF InsideFrame
  <2>4. Framed(sent, stream, a, n - Len(writes))
    BY <2>3 DEF SInv, StreamOK, BetweenFrames
  <2>5. n - Len(writes) = n
    BY <2>1, <2>2
  <2> HIDE DEF n, a
  <2>6. Framed(sent, stream, a, n)
    BY <2>4, <2>5
  <2>7. Len(f) <= Len(stream) /\ \A k \in 1..Len(f) : stream[k] = f[k]
    BY <2>2, <2>6, FramedHead DEF n
  <2>8. Len(f) \in Nat \ {0} /\ f[1] = Len(f) - 1
    <3>1. a + 1 \in 1..Len(sent)
      BY <2>2 DEF n
    <3> QED
      BY <2>2, <3>1, FrameOfShape
  <2> HIDE DEF f
  <2>9. Len(stream) \in Nat /\ Len(stream) > 0 /\ stream[1] = Len(f) - 1
    BY <2>2, <2>7, <2>8
  <2>10. stream # <<>> /\ Head(stream) = stream[1]
    BY <2>2, <2>9
  <2> QED
    BY <2>7, <2>8, <2>9, <2>10
<1> QED
  BY <1>1, Invariance, PTL
=============================================================================
