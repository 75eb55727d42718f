------------------------------- MODULE Crc16 --------------------------------
(***************************************************************************)
(* crc16.c and checksum.c: the CRCs of the UART frames and of T=1 blocks.  *)
(* crc16.c has each CRC twice, computed bit by bit or from a table; a      *)
(* macro chooses between them when the code is built.                      *)
(***************************************************************************)
EXTENDS Naturals, Sequences, SequencesExt, Bitwise, Loops

\* The C arrays begin at 0, these sequences at 1.
CRC16_TABLE_IBM == <<
    \h0000, \hC0C1, \hC181, \h0140, \hC301, \h03C0, \h0280, \hC241, \hC601, \h06C0, \h0780, \hC741,
    \h0500, \hC5C1, \hC481, \h0440, \hCC01, \h0CC0, \h0D80, \hCD41, \h0F00, \hCFC1, \hCE81, \h0E40,
    \h0A00, \hCAC1, \hCB81, \h0B40, \hC901, \h09C0, \h0880, \hC841, \hD801, \h18C0, \h1980, \hD941,
    \h1B00, \hDBC1, \hDA81, \h1A40, \h1E00, \hDEC1, \hDF81, \h1F40, \hDD01, \h1DC0, \h1C80, \hDC41,
    \h1400, \hD4C1, \hD581, \h1540, \hD701, \h17C0, \h1680, \hD641, \hD201, \h12C0, \h1380, \hD341,
    \h1100, \hD1C1, \hD081, \h1040, \hF001, \h30C0, \h3180, \hF141, \h3300, \hF3C1, \hF281, \h3240,
    \h3600, \hF6C1, \hF781, \h3740, \hF501, \h35C0, \h3480, \hF441, \h3C00, \hFCC1, \hFD81, \h3D40,
    \hFF01, \h3FC0, \h3E80, \hFE41, \hFA01, \h3AC0, \h3B80, \hFB41, \h3900, \hF9C1, \hF881, \h3840,
    \h2800, \hE8C1, \hE981, \h2940, \hEB01, \h2BC0, \h2A80, \hEA41, \hEE01, \h2EC0, \h2F80, \hEF41,
    \h2D00, \hEDC1, \hEC81, \h2C40, \hE401, \h24C0, \h2580, \hE541, \h2700, \hE7C1, \hE681, \h2640,
    \h2200, \hE2C1, \hE381, \h2340, \hE101, \h21C0, \h2080, \hE041, \hA001, \h60C0, \h6180, \hA141,
    \h6300, \hA3C1, \hA281, \h6240, \h6600, \hA6C1, \hA781, \h6740, \hA501, \h65C0, \h6480, \hA441,
    \h6C00, \hACC1, \hAD81, \h6D40, \hAF01, \h6FC0, \h6E80, \hAE41, \hAA01, \h6AC0, \h6B80, \hAB41,
    \h6900, \hA9C1, \hA881, \h6840, \h7800, \hB8C1, \hB981, \h7940, \hBB01, \h7BC0, \h7A80, \hBA41,
    \hBE01, \h7EC0, \h7F80, \hBF41, \h7D00, \hBDC1, \hBC81, \h7C40, \hB401, \h74C0, \h7580, \hB541,
    \h7700, \hB7C1, \hB681, \h7640, \h7200, \hB2C1, \hB381, \h7340, \hB101, \h71C0, \h7080, \hB041,
    \h5000, \h90C1, \h9181, \h5140, \h9301, \h53C0, \h5280, \h9241, \h9601, \h56C0, \h5780, \h9741,
    \h5500, \h95C1, \h9481, \h5440, \h9C01, \h5CC0, \h5D80, \h9D41, \h5F00, \h9FC1, \h9E81, \h5E40,
    \h5A00, \h9AC1, \h9B81, \h5B40, \h9901, \h59C0, \h5880, \h9841, \h8801, \h48C0, \h4980, \h8941,
    \h4B00, \h8BC1, \h8A81, \h4A40, \h4E00, \h8EC1, \h8F81, \h4F40, \h8D01, \h4DC0, \h4C80, \h8C41,
    \h4400, \h84C1, \h8581, \h4540, \h8701, \h47C0, \h4680, \h8641, \h8201, \h42C0, \h4380, \h8341,
    \h4100, \h81C1, \h8081, \h4040 >>

CRC16_TABLE_CCITT == <<
    \h0000, \h1189, \h2312, \h329B, \h4624, \h57AD, \h6536, \h74BF, \h8C48, \h9DC1, \hAF5A, \hBED3,
    \hCA6C, \hDBE5, \hE97E, \hF8F7, \h1081, \h0108, \h3393, \h221A, \h56A5, \h472C, \h75B7, \h643E,
    \h9CC9, \h8D40, \hBFDB, \hAE52, \hDAED, \hCB64, \hF9FF, \hE876, \h2102, \h308B, \h0210, \h1399,
    \h6726, \h76AF, \h4434, \h55BD, \hAD4A, \hBCC3, \h8E58, \h9FD1, \hEB6E, \hFAE7, \hC87C, \hD9F5,
    \h3183, \h200A, \h1291, \h0318, \h77A7, \h662E, \h54B5, \h453C, \hBDCB, \hAC42, \h9ED9, \h8F50,
    \hFBEF, \hEA66, \hD8FD, \hC974, \h4204, \h538D, \h6116, \h709F, \h0420, \h15A9, \h2732, \h36BB,
    \hCE4C, \hDFC5, \hED5E, \hFCD7, \h8868, \h99E1, \hAB7A, \hBAF3, \h5285, \h430C, \h7197, \h601E,
    \h14A1, \h0528, \h37B3, \h263A, \hDECD, \hCF44, \hFDDF, \hEC56, \h98E9, \h8960, \hBBFB, \hAA72,
    \h6306, \h728F, \h4014, \h519D, \h2522, \h34AB, \h0630, \h17B9, \hEF4E, \hFEC7, \hCC5C, \hDDD5,
    \hA96A, \hB8E3, \h8A78, \h9BF1, \h7387, \h620E, \h5095, \h411C, \h35A3, \h242A, \h16B1, \h0738,
    \hFFCF, \hEE46, \hDCDD, \hCD54, \hB9EB, \hA862, \h9AF9, \h8B70, \h8408, \h9581, \hA71A, \hB693,
    \hC22C, \hD3A5, \hE13E, \hF0B7, \h0840, \h19C9, \h2B52, \h3ADB, \h4E64, \h5FED, \h6D76, \h7CFF,
    \h9489, \h8500, \hB79B, \hA612, \hD2AD, \hC324, \hF1BF, \hE036, \h18C1, \h0948, \h3BD3, \h2A5A,
    \h5EE5, \h4F6C, \h7DF7, \h6C7E, \hA50A, \hB483, \h8618, \h9791, \hE32E, \hF2A7, \hC03C, \hD1B5,
    \h2942, \h38CB, \h0A50, \h1BD9, \h6F66, \h7EEF, \h4C74, \h5DFD, \hB58B, \hA402, \h9699, \h8710,
    \hF3AF, \hE226, \hD0BD, \hC134, \h39C3, \h284A, \h1AD1, \h0B58, \h7FE7, \h6E6E, \h5CF5, \h4D7C,
    \hC60C, \hD785, \hE51E, \hF497, \h8028, \h91A1, \hA33A, \hB2B3, \h4A44, \h5BCD, \h6956, \h78DF,
    \h0C60, \h1DE9, \h2F72, \h3EFB, \hD68D, \hC704, \hF59F, \hE416, \h90A9, \h8120, \hB3BB, \hA232,
    \h5AC5, \h4B4C, \h79D7, \h685E, \h1CE1, \h0D68, \h3FF3, \h2E7A, \hE70E, \hF687, \hC41C, \hD595,
    \hA12A, \hB0A3, \h8238, \h93B1, \h6B46, \h7ACF, \h4854, \h59DD, \h2D62, \h3CEB, \h0E70, \h1FF9,
    \hF78F, \hE606, \hD49D, \hC514, \hB1AB, \hA022, \h92B9, \h8330, \h7BC7, \h6A4E, \h58D5, \h495C,
    \h3DE3, \h2C6A, \h1EF1, \h0F78 >>

crctab == <<
    \h0000, \h1189, \h2312, \h329B, \h4624, \h57AD, \h6536, \h74BF, \h8C48, \h9DC1, \hAF5A, \hBED3,
    \hCA6C, \hDBE5, \hE97E, \hF8F7, \h1081, \h0108, \h3393, \h221A, \h56A5, \h472C, \h75B7, \h643E,
    \h9CC9, \h8D40, \hBFDB, \hAE52, \hDAED, \hCB64, \hF9FF, \hE876, \h2102, \h308B, \h0210, \h1399,
    \h6726, \h76AF, \h4434, \h55BD, \hAD4A, \hBCC3, \h8E58, \h9FD1, \hEB6E, \hFAE7, \hC87C, \hD9F5,
    \h3183, \h200A, \h1291, \h0318, \h77A7, \h662E, \h54B5, \h453C, \hBDCB, \hAC42, \h9ED9, \h8F50,
    \hFBEF, \hEA66, \hD8FD, \hC974, \h4204, \h538D, \h6116, \h709F, \h0420, \h15A9, \h2732, \h36BB,
    \hCE4C, \hDFC5, \hED5E, \hFCD7, \h8868, \h99E1, \hAB7A, \hBAF3, \h5285, \h430C, \h7197, \h601E,
    \h14A1, \h0528, \h37B3, \h263A, \hDECD, \hCF44, \hFDDF, \hEC56, \h98E9, \h8960, \hBBFB, \hAA72,
    \h6306, \h728F, \h4014, \h519D, \h2522, \h34AB, \h0630, \h17B9, \hEF4E, \hFEC7, \hCC5C, \hDDD5,
    \hA96A, \hB8E3, \h8A78, \h9BF1, \h7387, \h620E, \h5095, \h411C, \h35A3, \h242A, \h16B1, \h0738,
    \hFFCF, \hEE46, \hDCDD, \hCD54, \hB9EB, \hA862, \h9AF9, \h8B70, \h8408, \h9581, \hA71A, \hB693,
    \hC22C, \hD3A5, \hE13E, \hF0B7, \h0840, \h19C9, \h2B52, \h3ADB, \h4E64, \h5FED, \h6D76, \h7CFF,
    \h9489, \h8500, \hB79B, \hA612, \hD2AD, \hC324, \hF1BF, \hE036, \h18C1, \h0948, \h3BD3, \h2A5A,
    \h5EE5, \h4F6C, \h7DF7, \h6C7E, \hA50A, \hB483, \h8618, \h9791, \hE32E, \hF2A7, \hC03C, \hD1B5,
    \h2942, \h38CB, \h0A50, \h1BD9, \h6F66, \h7EEF, \h4C74, \h5DFD, \hB58B, \hA402, \h9699, \h8710,
    \hF3AF, \hE226, \hD0BD, \hC134, \h39C3, \h284A, \h1AD1, \h0B58, \h7FE7, \h6E6E, \h5CF5, \h4D7C,
    \hC60C, \hD785, \hE51E, \hF497, \h8028, \h91A1, \hA33A, \hB2B3, \h4A44, \h5BCD, \h6956, \h78DF,
    \h0C60, \h1DE9, \h2F72, \h3EFB, \hD68D, \hC704, \hF59F, \hE416, \h90A9, \h8120, \hB3BB, \hA232,
    \h5AC5, \h4B4C, \h79D7, \h685E, \h1CE1, \h0D68, \h3FF3, \h2E7A, \hE70E, \hF687, \hC41C, \hD595,
    \hA12A, \hB0A3, \h8238, \h93B1, \h6B46, \h7ACF, \h4854, \h59DD, \h2D62, \h3CEB, \h0E70, \h1FF9,
    \hF78F, \hE606, \hD49D, \hC514, \hB1AB, \hA022, \h92B9, \h8330, \h7BC7, \h6A4E, \h58D5, \h495C,
    \h3DE3, \h2C6A, \h1EF1, \h0F78 >>

\* The bits of x, an n bit number, in reverse order.
Inverted(x, n) ==
  Loop(LAMBDA sum, i : sum + ((x \div 2 ^ (i - 1)) % 2) * 2 ^ (n - i), 0, [i \in 1 .. n |-> i])

InvertUint8(b) == Inverted(b, 8)
InvertUint16(w) == Inverted(w, 16)

\* Mutant: the bit that leaves is looked for in the shifted value.
ShiftedAfter(w, poly) ==
  LET s == (2 * w) % 65536 IN IF s >= 32768 THEN s ^^ poly ELSE s

\* One turn of the inner loop: shift, and reduce if a bit left the register.
Shifted(w, poly) == IF w >= 32768 THEN ((2 * w) % 65536) ^^ poly ELSE 2 * w

CrcByBits(poly, s) ==
  LET Step(w, b) ==
        Loop(LAMBDA v, i : Shifted(v, poly), w ^^ (InvertUint8(b) * 256), [i \in 1 .. 8 |-> i])
  IN InvertUint16(Loop(Step, 0, s))

crc16_cal_ccitt(s) == CrcByBits(\h1021, s)
crc16_cal_ibm(s) == CrcByBits(\h8005, s)

\* One turn of the loops over a table.
TableStep(table, w, b) == (w \div 256) ^^ table[((w % 256) ^^ b) + 1]

CrcByTable(table, w, s) == Loop(LAMBDA v, b : TableStep(table, v, b), w, s)

crc16_cal_ccitt_table(s) == CrcByTable(CRC16_TABLE_CCITT, 0, s)
crc16_cal_ibm_table(s) == CrcByTable(CRC16_TABLE_IBM, 0, s)

(* checksum.c: the bytes that follow the block *)

\* Mutant: a byte counts once, however often it occurs.
csum_lrc_compute_once(s) == <<Loop(LAMBDA x, y : x ^^ y, 0, SetToSeq(ToSet(s)))>>

csum_lrc_compute(s) == <<Loop(LAMBDA x, y : x ^^ y, 0, s)>>

csum_crc_compute(s) ==
  LET v == CrcByTable(crctab, 65535, s) IN <<v \div 256, v % 256>>

-----------------------------------------------------------------------------
(* Which of the two computations the build chooses makes no difference:      *)
(* they agree on s (crc16.c:27, 165).                                        *)
BuildsAgree(s) ==
  /\ crc16_cal_ccitt(s) = crc16_cal_ccitt_table(s)
  /\ crc16_cal_ibm(s) = crc16_cal_ibm_table(s)

(* A decoder accepts a frame if the CRC of a message and its CRC, low byte   *)
(* first, is zero (uart_protocol.c): so it is.                               *)
ResidueIsZero(s) ==
  LET c == crc16_cal_ccitt_table(s)
  IN crc16_cal_ccitt_table(s \o <<c % 256, c \div 256>>) = 0

Changed(s, i, error) == [s EXCEPT ![i] = @ ^^ error[1], ![i + 1] = @ ^^ error[2]]

(* Whatever happens to two bytes next to each other, or to the byte i of s,  *)
(* no CRC stays the same.  The LRC of T=1 only notices that the two bytes    *)
(* changed in different ways (checksum.c:63, 79).                            *)
BurstIsDetected(s, i, error) ==
  error # <<0, 0>> =>
    LET t == Changed(s, i, error) IN
    /\ csum_crc_compute(t) # csum_crc_compute(s)
    /\ crc16_cal_ccitt_table(t) # crc16_cal_ccitt_table(s)
    /\ crc16_cal_ibm_table(t) # crc16_cal_ibm_table(s)
    /\ csum_lrc_compute(t) = csum_lrc_compute(s) <=> error[1] = error[2]
=============================================================================
