------------------------------- MODULE Probes -------------------------------
(* Functions on numbers: every state but the first holds the input of one of *)
(* them, and the invariants compare what it computes with what it stands     *)
(* for.                                                                      *)
EXTENDS Crc16

VARIABLE probe

Aes128 == INSTANCE Aes WITH Nk <- 4, Nr <- 10
Aes192 == INSTANCE Aes WITH Nk <- 6, Nr <- 12
Aes256 == INSTANCE Aes WITH Nk <- 8, Nr <- 14

\* The curve y^2 = x^3 - 3x + 64 modulo 199 has 191 points.
Ecc == INSTANCE EasyEcc WITH
  HalfBits <- 1, SUPPORTS_INT128 <- FALSE, prime <- 199, curve_b <- 64,
  curve_G <- [x |-> 2, y |-> 128], curve_n <- 191

\* The other multiplication; numbers of four bits a digit.
Vli128 == INSTANCE Vli WITH HalfBits <- 1, SUPPORTS_INT128 <- TRUE
VliWide == INSTANCE Vli WITH HalfBits <- 2, SUPPORTS_INT128 <- FALSE

Byte == 0 .. 255

\* The CRCs are linear: errors of one bit in the second byte stand for the others there.
Second == {0, 255} \cup {2 ^ i : i \in 0 .. 7}

\* Numbers at the ends and at the moduli of the small curve, and a few between.
Number == {0, 1, 2, 3, 15, 16, 63, 64, 77, 127, 128, 150, 190, 191, 192, 198, 199, 200, 254, 255}

\* Ends and middle of the private keys, and one whose point has x = 0.
Exponent == {2, 64, 69, 95, 189}

Start == [of |-> "start"]

\* Most inputs begin with a byte.
Begin == probe = Start /\ \E b \in Byte : probe' = [of |-> "byte", b |-> b]

Continue ==
  /\ probe.of = "byte"
  /\ LET b == probe.b IN
     \/ probe' = [of |-> "crc", s |-> <<b, 255 - b, (7 * b + 3) % 256>>]
     \/ probe' = [of |-> "burst", s |-> <<1, 0, 65, 255>>, first |-> b]
     \/ probe' = [of |-> "field", b |-> b]
     \/ b \in Number /\ \E c \in Number : probe' = [of |-> "ecc numbers", a |-> b, b |-> c]
     \/ probe' = [of |-> "ecc products", high |-> b]
     \/ \E d \in Exponent : probe' = [of |-> "ecc points", d |-> d, k |-> b]
     \/ b # 0 /\ \E d \in Exponent :
          probe' = [of |-> "ecc signatures", d |-> d, e |-> 255 * ((b + d) % 2), k |-> b]

Draw ==
  /\ probe = Start
  /\ \/ \E n \in {4, 6, 8} : probe' = [of |-> "aes example", words |-> n]
     \/ \E k \in {17, 200}, s \in SUBSET {1, 2} :
          probe' = [of |-> "aes text", key |-> [i \in 1 .. 16 |-> (k * i) % 256],
                    s |-> FlattenSeq([b \in 1 .. Cardinality(s) + 1 |->
                            [i \in 1 .. 16 |-> IF b \in s THEN (41 * i) % 256 ELSE i + k]])]
     \/ \E n \in {0, 1, 15, 17} : probe' = [of |-> "aes text", key |-> <<>>, s |-> [i \in 1 .. n |-> 0]]

Return == probe.of \notin {"start", "byte"} /\ probe' = Start

Next == Begin \/ Continue \/ Draw \/ Return

-----------------------------------------------------------------------------
(* Crc16: the two computations of a CRC agree, a frame and its CRC have CRC  *)
(* zero, and an error in two bytes next to each other is detected            *)
(* (crc16.c:27, uart_protocol.c:119, checksum.c:63).                         *)
ChecksumsAreRight ==
  /\ probe.of = "crc" => BuildsAgree(probe.s) /\ ResidueIsZero(probe.s)
  /\ probe.of = "burst" => \A b \in Second : BurstIsDetected(probe.s, 2, <<probe.first, b>>)

(* Aes: the tables, the columns and the cipher are those of FIPS 197, and    *)
(* what is encrypted is decrypted (aes_base.c:109, algo_api.c:7).            *)
AesIsFips ==
  /\ probe.of = "field" =>
       /\ Aes128!TablesAreRight(probe.b)
       /\ \A i \in 1 .. 4 :
            Aes128!ColumnsAreMixed([j \in 1 .. 4 |-> IF i = j THEN probe.b ELSE 255 - probe.b])
  /\ probe.of = "aes example" =>
       CASE probe.words = 4 -> Aes128!CipherIsFips
         [] probe.words = 6 -> Aes192!CipherIsFips
         [] probe.words = 8 -> Aes256!CipherIsFips
  /\ probe.of = "aes text" => Aes128!Decrypts(probe.key, probe.key, probe.s)

(* EasyEcc: sums, remainders and inverses are those of the numbers; products *)
(* too, as far as carries are not lost; the ladder multiplies points, keys   *)
(* agree, a signature is valid, and what is accepted is (easy_ecc.c:235,     *)
(* 362, 518, 934, 1169, 1216).                                               *)
EccIsRight ==
  /\ probe.of = "start" => Ecc!CurveFits
  /\ probe.of = "ecc numbers" =>
       /\ Ecc!SumsAreExact(probe.a, probe.b)
       /\ Ecc!ProductIsExactOrShort(probe.a, probe.b) /\ Vli128!ProductIsExactOrShort(probe.a, probe.b)
       /\ VliWide!SumsAreExact(257 * probe.a, 101 * probe.b)
       /\ VliWide!ReductionIsExact(200 * probe.a * probe.b)
       /\ \A m \in {191, 199} :
            /\ probe.a < m /\ probe.b < m => Ecc!ModularSumsAreExact(probe.a, probe.b, m)
            /\ Ecc!ModuloIsExact(probe.a, probe.b, m)
  /\ probe.of = "ecc products" => \A b \in Byte : Ecc!ReductionIsExact(256 * probe.high + b)
  /\ probe.of = "ecc points" => Ecc!MultIsRight(probe.d, probe.k, 1) /\ Ecc!MultIsRight(probe.d, probe.k, 255)
  /\ probe.of = "ecc signatures" =>
       /\ Ecc!KeysAgree(probe.k) /\ Ecc!PartiesAgree(probe.k, probe.d, 7)
       /\ Ecc!SignIsRight(probe.d, probe.e, probe.k)

(* "Computes p_result = p_left * p_right." (easy_ecc.c:270, of vli_mult):    *)
(* the digits are those of the product, as the program is compiled.          *)
ProductIsExact == probe.of = "ecc numbers" => Ecc!ProductIsExact(probe.a, probe.b)
=============================================================================
