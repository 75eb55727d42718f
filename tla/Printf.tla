------------------------------- MODULE Printf -------------------------------
(***************************************************************************)
(* util_printf.c: Debug_Vsprintf, a printf of its own.  A format is a      *)
(* sequence of characters.  An argument is an integer in the width of a    *)
(* long; for %s it selects one of Strings.                                 *)
(*                                                                         *)
(* A directive is read in the order of the code: flags, width, precision,  *)
(* qualifier, conversion.  Each part maps a record of what is known so far *)
(* to the next: at is the place of *fmt, used the number of arguments      *)
(* taken.                                                                  *)
(***************************************************************************)
EXTENDS Integers, FiniteSets, Sequences, SequencesExt

CONSTANTS LongMod,       \* 2^32 in C: unsigned long
          ShortMod,      \* 2^16 in C: unsigned short
          PointerDigits, \* 2 * sizeof(void *)
          Strings        \* sequence of the texts a %s may print

Nul == "nul"                 \* the end of a string
Space == " "
Digit == <<"0", "1", "2", "3", "4", "5", "6", "7", "8", "9">>
Lower == Digit \o <<"a", "b", "c", "d", "e", "f">>
Upper == Digit \o <<"A", "B", "C", "D", "E", "F">>

FlagOf == [c \in {"-", "+", " ", "#", "0"} |->
  CASE c = "-" -> "LEFT" [] c = "+" -> "PLUS" [] c = " " -> "SPACE" [] c = "#" -> "SPECIAL"
    [] c = "0" -> "ZEROPAD"]

Repeat(c, n) == [i \in 1 .. n |-> c]

-----------------------------------------------------------------------------
(* debug_number.  num is a bit pattern, negative from LongMod / 2 on. *)

\* The digits of n, by _div; of 0 there is one.
Digits(n, base, digits) ==
  LET written[k \in 0 .. n] ==
        IF k < base THEN <<digits[k + 1]>>
        ELSE Append(written[k \div base], digits[(k % base) + 1])
  IN written[n]

Sign(num, type) ==
  IF "SIGN" \notin type THEN <<>>
  ELSE IF num >= LongMod \div 2 THEN <<"-">>
  ELSE IF "PLUS" \in type THEN <<"+">>
  ELSE IF "SPACE" \in type THEN <<Space>> ELSE <<>>

\* -num; the least number is its own negative, and is read as unsigned.
Magnitude(num, type) ==
  IF "SIGN" \in type /\ num >= LongMod \div 2 THEN LongMod - num ELSE num

Prefix(base, type) ==
  IF "SPECIAL" \notin type THEN <<>>
  ELSE CASE base = 8  -> <<"0">>
         [] base = 16 -> <<"0", IF "LARGE" \in type THEN "X" ELSE "x">>
         [] OTHER     -> <<>>

\* Mutant: the prefix takes no room.
RoomNoPrefix(size, sign, prefix, digits) == size - Len(sign) - digits

\* What is left of size once everything is printed.
Room(size, sign, prefix, digits) == size - Len(sign) - Len(prefix) - digits

debug_number(num, base, size, precision, type) ==
  LET digits == Digits(Magnitude(num, type), base, IF "LARGE" \in type THEN Upper ELSE Lower)
      sign   == Sign(num, type)
      prefix == Prefix(base, type)
      zeros  == Repeat("0", precision - Len(digits))
      room   == Room(size, sign, prefix, Len(zeros \o digits))
      left   == "LEFT" \in type
      pad    == "ZEROPAD" \in type
  IN Repeat(Space, IF left \/ pad THEN 0 ELSE room) \o sign \o prefix
       \o Repeat("0", IF pad /\ ~left THEN room ELSE 0) \o zeros \o digits
       \o Repeat(Space, IF left THEN room ELSE 0)

-----------------------------------------------------------------------------
(* Debug_Vsprintf *)

At(f, i) == IF i <= Len(f) THEN f[i] ELSE Nul

\* The first place from i on, the end included, with a character outside S.
PlaceAfter(f, i, S) ==
  CHOOSE j \in i .. Len(f) + 1 : At(f, j) \notin S /\ \A k \in i .. j - 1 : At(f, k) \in S

IsDigit(c) == c \in ToSet(Digit)
ValueOf(c) == (CHOOSE i \in 1 .. 10 : Digit[i] = c) - 1

skip_atoi(f, i) ==
  LET j == PlaceAfter(f, i, ToSet(Digit))
  IN [value |-> FoldLeft(LAMBDA v, c : v * 10 + ValueOf(c), 0, SubSeq(f, i, j - 1)), at |-> j]

\* va_arg; a caller who passes too few gets whatever is there, 0 here.
Argument(args, n) == IF n < Len(args) THEN args[n + 1] ELSE 0

WithFlags(f, r) ==
  LET j == PlaceAfter(f, r.at + 1, DOMAIN FlagOf)
  IN [r EXCEPT !.at = j, !.flags = {FlagOf[f[k]] : k \in r.at + 1 .. j - 1}]

\* A width from an argument; a negative one means LEFT.
FromStar(r, n) ==
  [r EXCEPT !.at = @ + 1, !.used = @ + 1, !.width = IF n < 0 THEN -n ELSE n,
            !.flags = IF n < 0 THEN @ \cup {"LEFT"} ELSE @]

WithWidth(f, args, r) ==
  CASE IsDigit(At(f, r.at)) ->
         LET n == skip_atoi(f, r.at) IN [r EXCEPT !.at = n.at, !.width = n.value]
    [] At(f, r.at) = "*" -> FromStar(r, Argument(args, r.used))
    [] OTHER -> r

WithPrecision(f, args, r) ==
  LET given == Argument(args, r.used)
      n == skip_atoi(f, r.at + 1)
  IN IF At(f, r.at) # "." THEN r
     ELSE CASE IsDigit(At(f, r.at + 1)) -> [r EXCEPT !.at = n.at, !.precision = n.value]
            [] At(f, r.at + 1) = "*" ->
                 [r EXCEPT !.at = @ + 2, !.used = @ + 1, !.precision = IF given < 0 THEN 0 ELSE given]
            [] OTHER -> [r EXCEPT !.at = @ + 1, !.precision = 0]

WithQualifier(f, r) ==
  IF At(f, r.at) \in {"h", "l", "L"} THEN [r EXCEPT !.at = @ + 1, !.qualifier = f[r.at]] ELSE r

Directive(f, args, i, used) ==
  LET nothing == [at |-> i, used |-> used, flags |-> {}, width |-> -1, precision |-> -1,
                  qualifier |-> "none"]
  IN WithQualifier(f, WithPrecision(f, args, WithWidth(f, args, WithFlags(f, nothing))))

\* text in a field of r.width characters
InField(r, text) ==
  LET room == Repeat(Space, r.width - Len(text))
  IN IF "LEFT" \in r.flags THEN text \o room ELSE room \o text

strnlen(s, cnt) == IF cnt < 0 \/ Len(s) < cnt THEN Len(s) ELSE cnt

Base(c) == CASE c = "o" -> 8 [] c \in {"x", "X", "p"} -> 16 [] OTHER -> 10

\* The argument as the qualifier says, sign extended from a short or cut to one.
Number(qualifier, signed, n) ==
  LET short == n % ShortMod
  IN IF qualifier # "h" THEN n % LongMod
     ELSE IF signed /\ short >= ShortMod \div 2 THEN LongMod - (ShortMod - short) ELSE short

\* Mutant: the end of the format, where a conversion is missing, is passed.
AfterBeyond(f, r) == r.at + 1

\* Where the loop goes on; the end of the string is not passed.
After(f, r) == IF At(f, r.at) = Nul THEN r.at ELSE r.at + 1

\* What the directive r prints; c is its conversion, n its argument.
Converted(r, c, n) ==
  LET type == r.flags \cup (IF c \in {"d", "i"} THEN {"SIGN"} ELSE {})
                \cup (IF c = "X" THEN {"LARGE"} ELSE {})
  IN CASE c = "c" -> InField(r, <<Lower[(n % 16) + 1]>>)
       [] c = "s" -> LET s == Strings[(n % Len(Strings)) + 1]
                     IN InField(r, SubSeq(s, 1, strnlen(s, r.precision)))
       [] c = "p" -> IF r.width = -1
                     THEN debug_number(n % LongMod, 16, PointerDigits, r.precision, type \cup {"ZEROPAD"})
                     ELSE debug_number(n % LongMod, 16, r.width, r.precision, type)
       [] c = "n" -> <<>>
       [] c = "%" -> <<"%">>
       [] c \in {"o", "x", "X", "d", "i", "u"} ->
            debug_number(Number(r.qualifier, "SIGN" \in type, n), Base(c), r.width, r.precision, type)
       [] c = Nul -> <<"%">>
       [] OTHER   -> <<"%", c>>

Converts == {"c", "s", "p", "n", "o", "x", "X", "d", "i", "u"}

\* From the place first on: the text, where it ends, and the number of arguments taken.
Printed(f, args, first) ==
  LET from[i \in Nat \ {0}] == [used \in Nat |->
        IF At(f, i) = Nul THEN [text |-> <<>>, at |-> i, used |-> used]
        ELSE IF f[i] # "%"
        THEN [from[i + 1][used] EXCEPT !.text = <<f[i]>> \o @]
        ELSE LET r == Directive(f, args, i, used)
                 c == At(f, r.at)
             IN [from[After(f, r)][r.used + (IF c \in Converts THEN 1 ELSE 0)] EXCEPT
                   !.text = Converted(r, c, Argument(args, r.used)) \o @]]
  IN from[first][0]

Debug_Vsprintf(f, args) == Printed(f, args, 1)

-----------------------------------------------------------------------------
(* Whatever the format, and wherever it breaks off within a directive, the   *)
(* loop finds the end of the string and never looks behind it (291-297); and *)
(* each '*' or conversion takes one argument at most.                        *)
FormatEndsAtNul(f, args) ==
  LET p == Debug_Vsprintf(f, args) IN
  /\ p.at = Len(f) + 1
  /\ p.used <= Cardinality({i \in DOMAIN f : f[i] \in Converts \cup {"*"}})

Power(b, k) == LET power[i \in 0 .. k] == IF i = 0 THEN 1 ELSE b * power[i - 1] IN power[k]

(* ISO C: a number is sign, prefix, zeros up to the precision, and digits.   *)
(* The field pads it with zeros after the prefix, or with spaces.            *)
IsoNumber(n, base, width, precision, flags) ==
  LET sign == IF "SIGN" \notin flags THEN <<>> ELSE IF n < 0 THEN <<"-">>
              ELSE IF "PLUS" \in flags THEN <<"+">> ELSE IF "SPACE" \in flags THEN <<Space>> ELSE <<>>
      prefix == IF "SPECIAL" \notin flags \/ base # 16 THEN <<>>
                ELSE IF "LARGE" \in flags THEN <<"0", "X">> ELSE <<"0", "x">>
      digit  == IF "LARGE" \in flags THEN Upper ELSE Lower
      value  == IF n < 0 THEN -n ELSE n
      places == CHOOSE k \in 1 .. value + 1 :
                  Power(base, k) > value /\ (k > 1 => Power(base, k - 1) <= value)
      digits == [i \in 1 .. places |-> digit[((value \div Power(base, places - i)) % base) + 1]]
      number == Repeat("0", precision - Len(digits)) \o digits
      length == Len(sign \o prefix \o number)
  IN IF "LEFT" \in flags THEN sign \o prefix \o number \o Repeat(Space, width - length)
     ELSE IF "ZEROPAD" \in flags THEN sign \o prefix \o Repeat("0", width - length) \o number
     ELSE Repeat(Space, width - length) \o sign \o prefix \o number

(* Numbers are printed as ISO C prints them, the least one included (67),    *)
(* but for what it says of %#o, of 0 with # or the precision 0, and of the   *)
(* flag 0 with a precision.                                                  *)
NumberIsIso(n, base, width, precision, flags) ==
  ( /\ "SPECIAL" \in flags => base # 8 /\ n # 0
    /\ n = 0 => precision # 0
    /\ "ZEROPAD" \in flags => precision < 0 ) =>
    debug_number(n % LongMod, base, width, precision, flags)
       = IsoNumber(n, base, width, precision, flags)
=============================================================================
