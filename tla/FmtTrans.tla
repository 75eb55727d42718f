------------------------------ MODULE FmtTrans ------------------------------
(***************************************************************************)
(* fmt_trans.c: bytes to hexadecimal text and back, and pairs of decimal   *)
(* digits to bytes.  A text is a sequence of ASCII codes, 1 .. 127.        *)
(***************************************************************************)
EXTENDS Integers, Sequences, SequencesExt

atom_unit == <<48, 49, 50, 51, 52, 53, 54, 55, 56, 57, 65, 66, 67, 68, 69, 70>>

Decimal == 48 .. 57
HexLetter == 97 .. 102 \cup 65 .. 70
IsHexData == Decimal \cup HexLetter

Halves(b) == <<atom_unit[(b \div 16) + 1], atom_unit[(b % 16) + 1]>>

arrayToStr(s) == FlattenSeq([i \in DOMAIN s |-> Halves(s[i])])

\* The comparison with 'F' adds nothing to the one with 'f'.
Value(c) == IF c > 57 /\ c <= 102 THEN c - 48 - 7 ELSE c - 48

\* Mutant: the letters have no upper end.
PairPassesOpen(c, d) == c \in IsHexData \/ d >= 97

\* IS_HEX_DATA has no outer parentheses: the && binds to the 0 of the first ?: and the first
\* comparison of the second.
PairPasses(c, d) == c \in IsHexData \/ d \in HexLetter

\* ret is -1 or the number of bytes; a last character alone is neither tested nor masked.
StringToHex(str) ==
  LET n     == Len(str) \div 2
      tail  == IF Len(str) % 2 = 0 THEN <<>> ELSE <<Value(Last(str)) % 256>>
      bytes == [i \in 1 .. n |-> (Value(str[2 * i - 1]) % 16) * 16 + (Value(str[2 * i]) % 16)]
  IN IF \E i \in 1 .. n : ~PairPasses(str[2 * i - 1], str[2 * i])
     THEN [ret |-> -1, out |-> <<>>]
     ELSE [ret |-> n + Len(tail), out |-> bytes \o tail]

\* *p and *(++p) of one expression (78): which of the two is read first is the compiler's choice,
\* and p has moved on for the other.
StringToCom(str, leftFirst) ==
  LET tens(i) == IF leftFirst THEN str[2 * i - 1] ELSE str[2 * i] IN
  IF Len(str) % 2 # 0 THEN [ret |-> -1, out |-> <<>>]
  ELSE [ret |-> Len(str) \div 2,
        out |-> [i \in 1 .. Len(str) \div 2 |-> ((tens(i) - 48) * 10 + (str[2 * i] - 48)) % 256]]

-----------------------------------------------------------------------------
Small(str) == [i \in DOMAIN str |-> IF str[i] \in 65 .. 70 THEN str[i] + 32 ELSE str[i]]

(* Text made from bytes, in capital or small letters, is read as those bytes *)
(* (16, 29); a last character alone as its value only if it is no small      *)
(* letter, for which 32 is added (55).                                       *)
HexReadsBack(s) ==
  /\ StringToHex(arrayToStr(s)) = [ret |-> Len(s), out |-> s]
  /\ StringToHex(Small(arrayToStr(s))) = [ret |-> Len(s), out |-> s]
  /\ \A h \in 0 .. 15 :
       LET str == arrayToStr(s) \o <<atom_unit[h + 1]>> IN
       /\ Last(StringToHex(str).out) = h
       /\ Last(StringToHex(Small(str)).out) = h + (IF h > 9 THEN 32 ELSE 0)

(* A text with a pair of characters of which none is a hexadecimal digit is  *)
(* refused; one that is read has one in every pair.  One of the two is all   *)
(* that is sure (42).                                                        *)
RefusedIfNoDigit(str) ==
  LET pair(i) == {str[2 * i - 1], str[2 * i]}
      read    == StringToHex(str).ret >= 0
  IN /\ read => \A i \in 1 .. Len(str) \div 2 : pair(i) \cap IsHexData # {}
     /\ (\A i \in 1 .. Len(str) \div 2 : pair(i) \subseteq IsHexData) => read

(* Two decimal digits are read as the number they write, and an odd number   *)
(* of them as none (69).  In a build that reads the second digit first, the  *)
(* number is right only if both digits are the same (78).                    *)
DecimalReadsBack(n, m) ==
  LET str == <<48 + (n \div 10), 48 + (n % 10), 48 + (m \div 10), 48 + (m % 10)>> IN
  \A leftFirst \in BOOLEAN :
    /\ StringToCom(str, leftFirst).ret = 2
    /\ leftFirst \/ n % 11 = 0 => StringToCom(str, leftFirst).out[1] = n
    /\ leftFirst \/ m % 11 = 0 => StringToCom(str, leftFirst).out[2] = m
    /\ StringToCom(SubSeq(str, 1, 3), leftFirst).ret = -1
=============================================================================
