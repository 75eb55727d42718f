---------------------------- MODULE MCAlgorithms ----------------------------
(* A message is hashed in pieces; or two contexts make calls on static       *)
(* variables, an interrupt before a task; or a function on texts or on       *)
(* numbers is probed.                                                        *)
(* Words of three bits and blocks of four bytes of two bits: the lower word  *)
(* of a count comes round every four bytes, both after 32.                   *)
EXTENDS HashStream, CryptoCalls, Texts

CONSTANTS isr, task

VARIABLES scene, probe

Probe == INSTANCE Probes

Blocks == <<<<"a">>, <<"b">>>>

\* One block more than temp_buff holds.
TooMany == Blocks \o <<<<"a">>>>

MCPriority == [c \in {isr, task} |-> IF c = isr THEN 1 ELSE 0]

MCData == Range(Message(5)) \cup Range(Key(5)) \cup Range(Blocks)

MCRequest ==
  {[kind |-> "sha", key |-> <<>>, iv |-> <<>>, input |-> Message(n)] : n \in {0, 5}}
    \cup {[kind |-> "hmac", key |-> Key(n), iv |-> <<>>, input |-> Message(1)] : n \in {3, 5}}
    \cup {[kind |-> k, key |-> <<"k">>, iv |-> <<"iv">>, input |-> Blocks] : k \in CbcKind}
    \cup {[kind |-> k, key |-> <<"l">>, iv |-> <<>>, input |-> Blocks] : k \in EcbKind}
    \cup {[kind |-> "cbc encrypt", key |-> <<"k">>, iv |-> <<"iv">>, input |-> TooMany],
          [kind |-> "ecb decrypt", key |-> <<"l">>, iv |-> <<>>, input |-> TooMany]}

\* Characters at and next to the boundaries of the ranges of digits.
Edge == {47, 48, 57, 58, 64, 65, 70, 71, 96, 97, 102, 103}

FormatChars == {"%", "d", "s", "*", "0", "-", ".", "l", "z"}

Payload(len) == [i \in 1 .. len |-> CASE i % 3 = 1 -> "," [] i % 3 = 2 -> " " [] OTHER -> "7"]

MCByteString == {<<>>} \cup {<<b, 255 - b>> : b \in 0 .. 255}
MCHexText == UNION {[1 .. n -> Edge] : n \in {1, 4}}

MCDecimalDigits == [d \in {"0", "1", "2", "3", "4", "5", "6", "7", "8", "9"} |->
  CASE d = "0" -> 0 [] d = "1" -> 1 [] d = "2" -> 2 [] d = "3" -> 3 [] d = "4" -> 4
    [] d = "5" -> 5 [] d = "6" -> 6 [] d = "7" -> 7 [] d = "8" -> 8 [] d = "9" -> 9]

MCPacket ==
  {[uuid |-> u, len |-> len, data |-> Payload(len)] :
     u \in {0, 9, 10, 99, 255, 256, 12345}, len \in {0, 1, 9, 10, 99, 100, 230, 240, 255}}

MCCharacter == FormatChars \cup {" ", ","} \cup DOMAIN MCDecimalDigits
MCFormatText == UNION {[1 .. n -> FormatChars] : n \in 1 .. 4}
MCArguments == <<3, -2, 5, 1>>
MCWidth == {-1, 3, 5}
MCPrecision == {-1, 0, 2}
MCStrings == <<<<"a", "b", "c">>, <<>>>>

MCInit ==
  /\ scene \in {"stream", "calls", "texts", "probe"}
  /\ Init /\ CallsInit /\ TextInit /\ probe = Probe!Start

StreamStep == scene = "stream" /\ Next /\ UNCHANGED <<scene, callsVars, text, probe>>
CallStep == scene = "calls" /\ CallsNext /\ UNCHANGED <<scene, vars, text, probe>>
TextStep == scene = "texts" /\ TextNext /\ UNCHANGED <<scene, vars, callsVars, probe>>
ProbeStep == scene = "probe" /\ Probe!Next /\ UNCHANGED <<scene, vars, callsVars, text>>

MCNext == StreamStep \/ CallStep \/ TextStep \/ ProbeStep

MCSpec == MCInit /\ [][MCNext]_<<scene, vars, callsVars, text, probe>>

-----------------------------------------------------------------------------
(* Both computations of a CRC agree and find bursts of errors (crc16.c:27).  *)
ChecksumsAreRight == Probe!ChecksumsAreRight

(* The cipher is that of FIPS 197 and decrypts (aes_base.c:109).             *)
AesIsFips == Probe!AesIsFips

(* The arithmetic of the curve, keys and signatures are right, with          *)
(* exceptions (easy_ecc.c:518, 934).                                         *)
EccIsRight == Probe!EccIsRight

(* "Computes p_result = p_left * p_right." (easy_ecc.c:270, of vli_mult),    *)
(* as the program is compiled.                                               *)
ProductIsExact == Probe!ProductIsExact
=============================================================================
