------------------------------ MODULE AtPacket ------------------------------
(***************************************************************************)
(* at_code.c: packets, and the numbers in AT frames.  Numbers are written  *)
(* in decimal and read into a uint8_t, the id of a packet too, although it *)
(* has sixteen bits.                                                       *)
(***************************************************************************)
EXTENDS Integers, FiniteSets, Sequences, SequencesExt

CONSTANTS Digits,      \* function from digits (bytes) to their values
          CntMod,      \* 256: lengths and counters are uint8_t
          NUM_LENTH    \* 8: digits looked at; with so many the count is never assigned

Comma == ","
Space == " "

(* FetchNumFromChar, FetchValueFromString *)

\* The digits s begins with, of the first NUM_LENTH bytes.
Number(s) ==
  LET begun == {k \in 1 .. NUM_LENTH :
                  \A i \in 1 .. k : i <= Len(s) /\ s[i] \in DOMAIN Digits}
  IN SubSeq(s, 1, Cardinality(begun))

\* The number that digits write, in a uint8_t.
Written(s) ==
  LET written[k \in 0 .. Len(s)] ==
        IF k = 0 THEN 0 ELSE (written[k - 1] * 10 + Digits[s[k]]) % CntMod
  IN written[Len(s)]

\* What Value may hold afterwards, if it held old: no digit leaves it, too many make it anything.
Values(s, old) ==
  CASE Number(s) = <<>>           -> {old}
    [] Len(Number(s)) = NUM_LENTH -> 0 .. CntMod - 1
    [] OTHER -> {Written(Number(s))} \cap 0 .. CntMod - 1

-----------------------------------------------------------------------------
(* A packet is a record of uuid, len and data; the buffers hold 255 bytes. *)

Decimal(n) ==
  LET digit(v) == CHOOSE d \in DOMAIN Digits : Digits[d] = v
      decimal[k \in 0 .. n] ==
        IF k < 10 THEN <<digit(k)>> ELSE Append(decimal[k \div 10], digit(k % 10))
  IN decimal[n]

StringData(pack) ==
  <<"A", "T", "+", "B", Space, "D", "A", "T", "I", "N", "D", Space>>
    \o Decimal(pack.uuid) \o <<Comma>> \o Decimal(pack.len) \o <<Comma>>

\* The stack buffer has 20 bytes; sprintf does not know.
StringDataFits(pack) == Len(StringData(pack)) + 1 <= 20

\* *Len, a uint8_t
Sum(n) == n % CntMod

AssembleInfoToData(pack) ==
  LET all == StringData(pack) \o pack.data IN SubSeq(all, 1, Sum(Len(StringData(pack)) + pack.len))

\* The n-th place of c in s, 0 if there is none.
PlaceOf(c, n, s) ==
  LET places == {i \in DOMAIN s : s[i] = c /\ Cardinality({j \in 1 .. i : s[j] = c}) = n}
  IN IF places = {} THEN 0 ELSE CHOOSE i \in places : TRUE

\* Mutant: every comma starts the data anew.
DataAfterLast(s) == LET c == CHOOSE i \in DOMAIN s : s[i] = Comma /\ \A j \in i + 1 .. Len(s) : s[j] # Comma
                    IN SubSeq(s, c + 1, Len(s))

\* What is copied; whatever else the data holds, the second comma is the last that counts.
DataAfter(s) == SubSeq(s, PlaceOf(Comma, 2, s) + 1, Len(s))

\* The fields of the packet for which s has the separators: the number after the second space
\* is the id, the one after the first comma the length.
FetchInfoFromData(s) ==
  LET after(c, n) == CHOOSE v \in Values(SubSeq(s, PlaceOf(c, n, s) + 1, Len(s)), 0) : TRUE
  IN [uuid |-> after(Space, 2), len |-> after(Comma, 1), data |-> DataAfter(s)]

(* A packet whose header fits its buffer (162) comes back as it was, commas, *)
(* spaces and digits in its data included, but of its id only the low byte   *)
(* (138).  If it is too long for *Len it is cut within its header (171).     *)
PacketReadsBack(pack) ==
  StringDataFits(pack) =>
    LET s == AssembleInfoToData(pack) IN
    IF Len(StringData(pack)) + pack.len < CntMod
    THEN FetchInfoFromData(s) = [pack EXCEPT !.uuid = @ % CntMod]
    ELSE IsStrictPrefix(s, StringData(pack))
=============================================================================
