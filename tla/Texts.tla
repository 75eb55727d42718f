-------------------------------- MODULE Texts --------------------------------
(***************************************************************************)
(* The functions on texts: conversions, packets, printing.  Every state    *)
(* but the first holds the input of one of them, and the invariants        *)
(* compare what it computes with what it stands for.                       *)
(***************************************************************************)
EXTENDS Integers, Sequences

CONSTANTS ByteString,    \* sequences of bytes
          HexText,       \* sequences of ASCII codes
          Packet, DecimalDigits,
          Character,     \* of a packet or a format
          FormatText, Arguments, Width, Precision, LongMod, ShortMod, PointerDigits, Strings

VARIABLE text

Fmt == INSTANCE FmtTrans

At == INSTANCE AtPacket WITH Digits <- DecimalDigits, CntMod <- 256, NUM_LENTH <- 8

Pf == INSTANCE Printf

FlagName == {"LEFT", "PLUS", "SPACE", "SPECIAL", "ZEROPAD", "SIGN", "LARGE"}

\* With the flag SIGN a number is a long, without it an unsigned long.
InWidth(flags) ==
  IF "SIGN" \in flags THEN -(LongMod \div 2) .. LongMod \div 2 - 1 ELSE 0 .. LongMod - 1

\* A packet has the length it says; digits are ten, and none of them separates fields.
ASSUME TextAssumption ==
  /\ ByteString \subseteq Seq(0 .. 255) /\ HexText \subseteq Seq(1 .. 127)
  /\ \A p \in Packet : /\ p = [uuid |-> p.uuid, len |-> Len(p.data), data |-> p.data]
                       /\ p.uuid \in Nat /\ p.data \in Seq(Character) /\ p.len < 256
  /\ \A d \in DOMAIN DecimalDigits : DecimalDigits[d] \in 0 .. 9
  /\ \A v \in 0 .. 9 : \E d \in DOMAIN DecimalDigits : DecimalDigits[d] = v
  /\ At!Comma \notin DOMAIN DecimalDigits /\ At!Space \notin DOMAIN DecimalDigits
  /\ FormatText \subseteq Seq(Character) /\ Pf!Nul \notin Character
  /\ Arguments \in Seq(Int) /\ Width \subseteq Int /\ Precision \subseteq Int
  /\ LongMod \in Nat /\ LongMod % 2 = 0

Nothing == [of |-> "nothing"]

TextInit == text = Nothing

TextGiven ==
  /\ text = Nothing
  /\ \/ \E s \in ByteString : text' = [of |-> "bytes", s |-> s]
     \/ \E s \in HexText : text' = [of |-> "hex", s |-> s]
     \/ \E n, m \in 0 .. 99 : text' = [of |-> "decimal", n |-> n, m |-> m]
     \/ \E p \in Packet : text' = [of |-> "packet", pack |-> p]
     \/ \E f \in FormatText : text' = [of |-> "format", s |-> f]
     \/ \E fl \in SUBSET FlagName, b \in {8, 10, 16}, w \in Width, p \in Precision :
          \E n \in InWidth(fl) :
            text' = [of |-> "number", n |-> n, base |-> b, width |-> w, precision |-> p, flags |-> fl]

TextTaken == text # Nothing /\ text' = Nothing

TextNext == TextGiven \/ TextTaken

TextSpec == TextInit /\ [][TextNext]_text

-----------------------------------------------------------------------------
(* Texts made from bytes or numbers, and packets, are read as what they were *)
(* made from; which texts are refused (fmt_trans.c:29, at_code.c:118).       *)
TextsReadBack ==
  /\ text.of = "bytes" => Fmt!HexReadsBack(text.s)
  /\ text.of = "decimal" => Fmt!DecimalReadsBack(text.n, text.m)
  /\ text.of = "hex" => Fmt!RefusedIfNoDigit(text.s)
  /\ text.of = "packet" => At!PacketReadsBack(text.pack)

(* Numbers are printed as in ISO C, with the exceptions named in Printf, and *)
(* no format leads behind its end (util_printf.c:51, 291).                   *)
PrintsAsIso ==
  /\ text.of = "number" =>
       Pf!NumberIsIso(text.n, text.base, text.width, text.precision, text.flags)
  /\ text.of = "format" => Pf!FormatEndsAtNul(text.s, Arguments)
=============================================================================
