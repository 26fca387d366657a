------------------------- MODULE WorldPacket_proofs -------------------------
(***************************************************************************)
(* Proofs about WorldPacket, for every width of a length and all data: a   *)
(* handler reads the strings that were written, as long as their lengths   *)
(* fit.                                                                    *)
(***************************************************************************)
EXTENDS WorldPacket, SequenceTheorems, TLAPS

\* d holds the string s from position pos on.
HoldsAt(d, pos, s) ==
  /\ d[pos + 1] = Len(s)
  /\ \A j \in 1..Len(s) : d[pos + 1 + j] = s[j]

\* operator>> reads a string that is there, and moves behind it.
LEMMA GetStringReads ==
  ASSUME NEW d \in Seq(Nat), NEW pos \in Nat, NEW s \in Seq(Nat),
         pos + 1 + Len(s) <= Len(d), HoldsAt(d, pos, s)
  PROVE  GetString(d, pos) = Read(s, pos + 1 + Len(s))
<1> DEFINE n == Len(s)
           t == SubSeq(d, pos + 2, pos + 1 + n)
<1>1. n \in Nat /\ Len(d) \in Nat /\ d[pos + 1] = n
  BY DEF HoldsAt
<1>2. GetNumber(d, pos) = Read(n, pos + 1)
  BY <1>1 DEF GetNumber
<1>3. t = s
  <2>1. \A j \in (pos + 2)..(pos + 1 + n) : d[j] \in Nat
    BY <1>1
  <2>2. pos + 2 \in Int /\ pos + 1 + n \in Int
    BY <1>1
  <2>3. /\ t \in Seq(Nat)
        /\ Len(t) = IF pos + 2 <= pos + 1 + n THEN pos + 1 + n - (pos + 2) + 1 ELSE 0
        /\ \A j \in 1..(pos + 1 + n - (pos + 2) + 1) : t[j] = d[pos + 2 + j - 1]
    BY <2>1, <2>2, SubSeqProperties
  <2>4. Len(t) = n
    BY <1>1, <2>3
  <2>5. \A j \in 1..n : t[j] = s[j]
    <3>1. \A j \in 1..n : j \in 1..(pos + 1 + n - (pos + 2) + 1) /\ pos + 2 + j - 1 = pos + 1 + j
      BY <1>1
    <3> QED
      BY <2>3, <3>1 DEF HoldsAt
  <2> HIDE DEF t
  <2> QED
    BY <2>3, <2>4, <2>5, SeqEqual
<1>4. SubSeq(d, (pos + 1) + 1, pos + 1 + n) = s
  <2>1. (pos + 1) + 1 = pos + 2
    OBVIOUS
  <2> QED
    BY <1>3, <2>1
<1> DEFINE len == GetNumber(d, pos)
<1>5. ~len.thrown /\ len.pos = pos + 1 /\ len.value = n
  BY <1>2 DEF Read
<1>6. ~(pos + 1 + n > Len(d))
  BY <1>1
<1>7. GetString(d, pos) =
        IF len.thrown THEN Thrown(pos)
        ELSE IF len.pos + len.value > Len(d) THEN Thrown(len.pos)
        ELSE Read(SubSeq(d, len.pos + 1, len.pos + len.value), len.pos + len.value)
  BY DEF GetString
<1> HIDE DEF len, t, n
<1>8. GetString(d, pos) = Read(SubSeq(d, (pos + 1) + 1, pos + 1 + n), pos + 1 + n)
  BY <1>5, <1>6, <1>7
<1> QED
  BY <1>4, <1>8 DEF n

LEMMA SmallRemainder ==
  ASSUME NEW k \in Nat, NEW w \in Nat \ {0}, k < w
  PROVE  k % w = k
  BY Z3

\* operator<< adds a string whose length fits, and leaves alone what is before it.
LEMMA PutStringHolds ==
  ASSUME NEW data \in Seq(Nat), NEW s \in Seq(Nat), Len(s) < Width
  PROVE  /\ PutString(data, s) \in Seq(Nat)
         /\ Len(PutString(data, s)) = Len(data) + 1 + Len(s)
         /\ \A j \in 1..Len(data) : PutString(data, s)[j] = data[j]
         /\ HoldsAt(PutString(data, s), Len(data), s)
<1> DEFINE n == Len(s)
           a == Append(data, n)
<1>1. n \in Nat /\ n % Width = n /\ Len(data) \in Nat
  <2>1. n \in Nat /\ Len(data) \in Nat
    OBVIOUS
  <2> QED
    BY <2>1, SmallRemainder, WidthAssumption
<1>2. PutString(data, s) = a \o s
  <2>1. CASE n > 0
    BY <1>1, <2>1 DEF PutString
  <2>2. CASE n = 0
    <3>1. s = <<>>
      BY <2>2
    <3> QED
      BY <1>1, <2>2, <3>1 DEF PutString
  <2> QED
    BY <1>1, <2>1, <2>2
<1>3. /\ a \in Seq(Nat) /\ Len(a) = Len(data) + 1 /\ a[Len(data) + 1] = n
      /\ \A j \in 1..Len(data) : a[j] = data[j]
  BY <1>1, AppendProperties
<1> HIDE DEF a
<1>4. /\ a \o s \in Seq(Nat) /\ Len(a \o s) = Len(a) + n
      /\ \A j \in 1..(Len(a) + n) : (a \o s)[j] = IF j <= Len(a) THEN a[j] ELSE s[j - Len(a)]
  BY <1>3, ConcatProperties
<1>5. \A j \in 1..(Len(data) + 1) : (a \o s)[j] = a[j]
  BY <1>1, <1>3, <1>4
<1>6. \A j \in 1..n : (a \o s)[Len(data) + 1 + j] = s[j]
  <2> SUFFICES ASSUME NEW j \in 1..n PROVE (a \o s)[Len(data) + 1 + j] = s[j]
    OBVIOUS
  <2> DEFINE m == Len(data) + 1 + j
  <2>1. m \in 1..(Len(a) + n) /\ ~(m <= Len(a)) /\ m - Len(a) = j
    BY <1>1, <1>3
  <2> QED
    BY <1>4, <2>1
<1>7. Len(a \o s) = Len(data) + 1 + n
  BY <1>3, <1>4
<1> HIDE DEF n
<1> QED
  BY <1>1, <1>2, <1>3, <1>4, <1>5, <1>6, <1>7 DEF HoldsAt, n

\* Two strings that fit are read as they were written: the packets of login and chat.
THEOREM StringsRoundTrip ==
  ASSUME NEW s \in Seq(Nat), NEW t \in Seq(Nat), Len(s) < Width, Len(t) < Width
  PROVE  GetStrings(PutString(PutString(<<>>, s), t)) = Read(<<s, t>>, 2 + Len(s) + Len(t))
<1> DEFINE a == PutString(<<>>, s)
           d == PutString(a, t)
<1>1. Len(s) \in Nat /\ Len(t) \in Nat /\ <<>> \in Seq(Nat) /\ Len(<<>>) = 0
  OBVIOUS
<1>2. a \in Seq(Nat) /\ Len(a) = 1 + Len(s) /\ HoldsAt(a, 0, s)
  <2> DEFINE e == <<>>
  <2>1. e \in Seq(Nat) /\ Len(e) = 0
    OBVIOUS
  <2>2. a = PutString(e, s)
    OBVIOUS
  <2> HIDE DEF e, a
  <2>3. a \in Seq(Nat) /\ Len(a) = Len(e) + 1 + Len(s) /\ HoldsAt(a, Len(e), s)
    BY <2>1, <2>2, PutStringHolds
  <2> QED
    BY <1>1, <2>1, <2>3
<1> HIDE DEF a
<1>3. /\ d \in Seq(Nat) /\ Len(d) = Len(a) + 1 + Len(t)
      /\ \A j \in 1..Len(a) : d[j] = a[j]
      /\ HoldsAt(d, Len(a), t)
  BY <1>2, PutStringHolds
<1> HIDE DEF d
<1>4. HoldsAt(d, 0, s)
  <2>1. 0 + 1 \in 1..Len(a) /\ \A j \in 1..Len(s) : 0 + 1 + j \in 1..Len(a)
    BY <1>1, <1>2
  <2>2. d[0 + 1] = a[0 + 1] /\ \A j \in 1..Len(s) : d[0 + 1 + j] = a[0 + 1 + j]
    BY <1>3, <2>1
  <2> QED
    BY <1>2, <2>2 DEF HoldsAt
<1>5. 0 + 1 + Len(s) <= Len(d) /\ 0 \in Nat /\ 0 + 1 + Len(s) = Len(a)
  BY <1>1, <1>2, <1>3
<1>6. GetString(d, 0) = Read(s, Len(a))
  BY <1>3, <1>4, <1>5, GetStringReads
<1>7. Len(a) \in Nat /\ Len(a) + 1 + Len(t) <= Len(d) /\ Len(a) + 1 + Len(t) = 2 + Len(s) + Len(t)
  BY <1>1, <1>2, <1>3
<1>8. GetString(d, Len(a)) = Read(t, 2 + Len(s) + Len(t))
  BY <1>3, <1>7, GetStringReads
<1>9. GetStrings(d) = Read(<<s, t>>, 2 + Len(s) + Len(t))
  <2> DEFINE first == GetString(d, 0)
             second == GetString(d, first.pos)
  <2>1. ~first.thrown /\ first.value = s /\ first.pos = Len(a)
    BY <1>6 DEF Read
  <2>2. ~second.thrown /\ second.value = t /\ second.pos = 2 + Len(s) + Len(t)
    BY <1>8, <2>1 DEF Read
  <2>3. GetStrings(d) = IF first.thrown \/ second.thrown THEN Thrown(second.pos)
                        ELSE Read(<<first.value, second.value>>, second.pos)
    BY DEF GetStrings
  <2> HIDE DEF first, second
  <2> QED
    BY <2>1, <2>2, <2>3
<1> QED
  BY <1>9 DEF d, a

----------------------------------------------------------------------------
\* Types: whatever a packet holds, the operators put and read strings.
LEMMA RemainderRange ==
  ASSUME NEW k \in Nat, NEW w \in Nat \ {0}
  PROVE  k % w \in 0..(w - 1) /\ k % w <= k
  BY Z3

LEMMA PutStringTyped ==
  ASSUME NEW data \in Seq(Nat), NEW s \in Seq(Nat)
  PROVE  PutString(data, s) \in Seq(Nat)
<1> DEFINE n == Len(s) % Width
           t == IF n > 0 THEN s ELSE <<>>
<1>1. n \in Nat
  <2>1. Len(s) \in Nat
    OBVIOUS
  <2> QED
    BY <2>1, RemainderRange, WidthAssumption
<1>2. PutString(data, s) = Append(data, n) \o t
  BY DEF PutString
<1> HIDE DEF n
<1>3. t \in Seq(Nat) /\ Append(data, n) \in Seq(Nat)
  BY <1>1
<1> HIDE DEF t
<1> QED
  BY <1>2, <1>3, ConcatProperties

LEMMA GetStringTyped ==
  ASSUME NEW data \in Seq(Nat), NEW pos \in Nat
  PROVE  GetString(data, pos) \in [thrown : BOOLEAN, value : Seq(Nat), pos : Nat]
<1> DEFINE len == GetNumber(data, pos)
           n == len.value
           s == SubSeq(data, len.pos + 1, len.pos + n)
<1>1. GetString(data, pos) =
        IF len.thrown THEN Thrown(pos)
        ELSE IF len.pos + n > Len(data) THEN Thrown(len.pos)
        ELSE Read(s, len.pos + n)
  BY DEF GetString
<1>2. len = Thrown(pos) \/ (pos + 1 <= Len(data) /\ len = Read(data[pos + 1], pos + 1))
  <2>1. Len(data) \in Nat
    OBVIOUS
  <2>2. CASE pos + 1 > Len(data)
    BY <2>2 DEF GetNumber
  <2>3. CASE ~(pos + 1 > Len(data))
    BY <2>1, <2>3 DEF GetNumber
  <2> QED
    BY <2>2, <2>3
<1>3. CASE len = Thrown(pos)
  <2>1. len.thrown
    BY <1>3 DEF Thrown
  <2> HIDE DEF len
  <2>2. GetString(data, pos) = Thrown(pos)
    BY <1>1, <2>1
  <2> QED
    BY <2>2 DEF Thrown
<1>4. CASE pos + 1 <= Len(data) /\ len = Read(data[pos + 1], pos + 1)
  <2>1. len.pos = pos + 1 /\ n \in Nat /\ ~len.thrown
    BY <1>4 DEF Read
  <2> HIDE DEF len, n
  <2>2. CASE len.pos + n > Len(data)
    <3>1. GetString(data, pos) = Thrown(len.pos)
      BY <1>1, <2>1, <2>2
    <3> QED
      BY <2>1, <3>1 DEF Thrown
  <2>3. CASE ~(len.pos + n > Len(data))
    <3>1. \A j \in (len.pos + 1)..(len.pos + n) : data[j] \in Nat
      BY <2>1, <2>3
    <3>2. len.pos + 1 \in Int /\ len.pos + n \in Int /\ len.pos + n \in Nat
      BY <2>1
    <3>3. s \in Seq(Nat)
      BY <3>1, <3>2, SubSeqProperties
    <3>4. GetString(data, pos) = Read(s, len.pos + n)
      BY <1>1, <2>1, <2>3
    <3> HIDE DEF s
    <3> QED
      BY <3>2, <3>3, <3>4 DEF Read
  <2> QED
    BY <2>2, <2>3
<1> QED
  BY <1>2, <1>3, <1>4

LEMMA GetStringsTyped ==
  ASSUME NEW data \in Seq(Nat)
  PROVE  GetStrings(data) \in [thrown : BOOLEAN, value : Seq(Seq(Nat)), pos : Nat]
<1> DEFINE first == GetString(data, 0)
           second == GetString(data, first.pos)
<1>1. first \in [thrown : BOOLEAN, value : Seq(Nat), pos : Nat]
  BY GetStringTyped
<1> HIDE DEF first
<1>2. second \in [thrown : BOOLEAN, value : Seq(Nat), pos : Nat]
  BY <1>1, GetStringTyped
<1>3. \/ GetStrings(data) = Thrown(second.pos)
      \/ GetStrings(data) = Read(<<first.value, second.value>>, second.pos)
  BY DEF GetStrings, first
<1> HIDE DEF second
<1>4. <<first.value, second.value>> \in Seq(Seq(Nat)) /\ second.pos \in Nat
  BY <1>1, <1>2
<1> DEFINE v == <<first.value, second.value>>
<1> HIDE DEF v
<1>5. Thrown(second.pos) \in [thrown : BOOLEAN, value : Seq(Seq(Nat)), pos : Nat]
  BY <1>4 DEF Thrown
<1>6. Read(v, second.pos) \in [thrown : BOOLEAN, value : Seq(Seq(Nat)), pos : Nat]
  BY <1>4 DEF Read, v
<1> QED
  BY <1>3, <1>5, <1>6 DEF v
=============================================================================
