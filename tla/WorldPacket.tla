---------------------------- MODULE WorldPacket ----------------------------
(***************************************************************************)
(* The stream operators of WorldPacket.  Data is a sequence of cells: a    *)
(* number, a character and the length of a string take one each, where the *)
(* code takes 1 to 8 bytes.  A length counts modulo Width (2^16) and all   *)
(* the characters follow it, so a string that is too long leaves the rest  *)
(* of the packet misread.  Reading past the end throws.                    *)
(***************************************************************************)
EXTENDS Integers, Sequences

CONSTANT Width              \* values of a uint16_t

ASSUME WidthAssumption == Width \in Nat \ {0}

\* Fault: the length counts itself.
PutStringOneMore(data, s) == Append(data, (Len(s) + 1) % Width) \o s

PutNumber(data, n) == Append(data, n)

\* Only a length of zero keeps the characters back.
PutString(data, s) ==
  Append(data, Len(s) % Width) \o IF Len(s) % Width > 0 THEN s ELSE <<>>

\* What an extraction leaves: the value and m_readPos, or the exception.
Read(v, pos) == [thrown |-> FALSE, value |-> v, pos |-> pos]
Thrown(pos) == [thrown |-> TRUE, value |-> <<>>, pos |-> pos]

GetNumber(data, pos) ==
  IF pos + 1 > Len(data) THEN Thrown(pos) ELSE Read(data[pos + 1], pos + 1)

\* The length is read before the characters are missed.
GetString(data, pos) ==
  LET len == GetNumber(data, pos) IN
  IF len.thrown THEN Thrown(pos)
  ELSE IF len.pos + len.value > Len(data) THEN Thrown(len.pos)
  ELSE Read(SubSeq(data, len.pos + 1, len.pos + len.value), len.pos + len.value)

\* Two strings, as most of the handlers read them: a throw ends the handler.
GetStrings(data) ==
  LET first == GetString(data, 0)
      second == GetString(data, first.pos)
  IN IF first.thrown \/ second.thrown THEN Thrown(second.pos)
     ELSE Read(<<first.value, second.value>>, second.pos)
=============================================================================
