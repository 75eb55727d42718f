-------------------------------- MODULE Aes ---------------------------------
(***************************************************************************)
(* aes_base.c and algo_api.c: AES, block by block (ECB) or chained (CBC).  *)
(* A block is a sequence of bytes; the code's state[i][j] is byte 4i + j,  *)
(* the byte j of column i.  The round keys are a sequence of words, which  *)
(* are sequences of four bytes.                                            *)
(***************************************************************************)
EXTENDS Integers, Sequences, SequencesExt, Bitwise, Loops

CONSTANTS Nk,      \* words of the key: 4, 6 or 8
          Nr       \* rounds: 10, 12 or 14

BLOCKLEN == 16

\* The C arrays begin at 0, these sequences at 1.
sbox == <<
  \h63, \h7C, \h77, \h7B, \hF2, \h6B, \h6F, \hC5, \h30, \h01, \h67, \h2B, \hFE, \hD7, \hAB, \h76,
  \hCA, \h82, \hC9, \h7D, \hFA, \h59, \h47, \hF0, \hAD, \hD4, \hA2, \hAF, \h9C, \hA4, \h72, \hC0,
  \hB7, \hFD, \h93, \h26, \h36, \h3F, \hF7, \hCC, \h34, \hA5, \hE5, \hF1, \h71, \hD8, \h31, \h15,
  \h04, \hC7, \h23, \hC3, \h18, \h96, \h05, \h9A, \h07, \h12, \h80, \hE2, \hEB, \h27, \hB2, \h75,
  \h09, \h83, \h2C, \h1A, \h1B, \h6E, \h5A, \hA0, \h52, \h3B, \hD6, \hB3, \h29, \hE3, \h2F, \h84,
  \h53, \hD1, \h00, \hED, \h20, \hFC, \hB1, \h5B, \h6A, \hCB, \hBE, \h39, \h4A, \h4C, \h58, \hCF,
  \hD0, \hEF, \hAA, \hFB, \h43, \h4D, \h33, \h85, \h45, \hF9, \h02, \h7F, \h50, \h3C, \h9F, \hA8,
  \h51, \hA3, \h40, \h8F, \h92, \h9D, \h38, \hF5, \hBC, \hB6, \hDA, \h21, \h10, \hFF, \hF3, \hD2,
  \hCD, \h0C, \h13, \hEC, \h5F, \h97, \h44, \h17, \hC4, \hA7, \h7E, \h3D, \h64, \h5D, \h19, \h73,
  \h60, \h81, \h4F, \hDC, \h22, \h2A, \h90, \h88, \h46, \hEE, \hB8, \h14, \hDE, \h5E, \h0B, \hDB,
  \hE0, \h32, \h3A, \h0A, \h49, \h06, \h24, \h5C, \hC2, \hD3, \hAC, \h62, \h91, \h95, \hE4, \h79,
  \hE7, \hC8, \h37, \h6D, \h8D, \hD5, \h4E, \hA9, \h6C, \h56, \hF4, \hEA, \h65, \h7A, \hAE, \h08,
  \hBA, \h78, \h25, \h2E, \h1C, \hA6, \hB4, \hC6, \hE8, \hDD, \h74, \h1F, \h4B, \hBD, \h8B, \h8A,
  \h70, \h3E, \hB5, \h66, \h48, \h03, \hF6, \h0E, \h61, \h35, \h57, \hB9, \h86, \hC1, \h1D, \h9E,
  \hE1, \hF8, \h98, \h11, \h69, \hD9, \h8E, \h94, \h9B, \h1E, \h87, \hE9, \hCE, \h55, \h28, \hDF,
  \h8C, \hA1, \h89, \h0D, \hBF, \hE6, \h42, \h68, \h41, \h99, \h2D, \h0F, \hB0, \h54, \hBB, \h16 >>

rsbox == <<
  \h52, \h09, \h6A, \hD5, \h30, \h36, \hA5, \h38, \hBF, \h40, \hA3, \h9E, \h81, \hF3, \hD7, \hFB,
  \h7C, \hE3, \h39, \h82, \h9B, \h2F, \hFF, \h87, \h34, \h8E, \h43, \h44, \hC4, \hDE, \hE9, \hCB,
  \h54, \h7B, \h94, \h32, \hA6, \hC2, \h23, \h3D, \hEE, \h4C, \h95, \h0B, \h42, \hFA, \hC3, \h4E,
  \h08, \h2E, \hA1, \h66, \h28, \hD9, \h24, \hB2, \h76, \h5B, \hA2, \h49, \h6D, \h8B, \hD1, \h25,
  \h72, \hF8, \hF6, \h64, \h86, \h68, \h98, \h16, \hD4, \hA4, \h5C, \hCC, \h5D, \h65, \hB6, \h92,
  \h6C, \h70, \h48, \h50, \hFD, \hED, \hB9, \hDA, \h5E, \h15, \h46, \h57, \hA7, \h8D, \h9D, \h84,
  \h90, \hD8, \hAB, \h00, \h8C, \hBC, \hD3, \h0A, \hF7, \hE4, \h58, \h05, \hB8, \hB3, \h45, \h06,
  \hD0, \h2C, \h1E, \h8F, \hCA, \h3F, \h0F, \h02, \hC1, \hAF, \hBD, \h03, \h01, \h13, \h8A, \h6B,
  \h3A, \h91, \h11, \h41, \h4F, \h67, \hDC, \hEA, \h97, \hF2, \hCF, \hCE, \hF0, \hB4, \hE6, \h73,
  \h96, \hAC, \h74, \h22, \hE7, \hAD, \h35, \h85, \hE2, \hF9, \h37, \hE8, \h1C, \h75, \hDF, \h6E,
  \h47, \hF1, \h1A, \h71, \h1D, \h29, \hC5, \h89, \h6F, \hB7, \h62, \h0E, \hAA, \h18, \hBE, \h1B,
  \hFC, \h56, \h3E, \h4B, \hC6, \hD2, \h79, \h20, \h9A, \hDB, \hC0, \hFE, \h78, \hCD, \h5A, \hF4,
  \h1F, \hDD, \hA8, \h33, \h88, \h07, \hC7, \h31, \hB1, \h12, \h10, \h59, \h27, \h80, \hEC, \h5F,
  \h60, \h51, \h7F, \hA9, \h19, \hB5, \h4A, \h0D, \h2D, \hE5, \h7A, \h9F, \h93, \hC9, \h9C, \hEF,
  \hA0, \hE0, \h3B, \h4D, \hAE, \h2A, \hF5, \hB0, \hC8, \hEB, \hBB, \h3C, \h83, \h53, \h99, \h61,
  \h17, \h2B, \h04, \h7E, \hBA, \h77, \hD6, \h26, \hE1, \h69, \h14, \h63, \h55, \h21, \h0C, \h7D >>

Rcon == <<\h8D, \h01, \h02, \h04, \h08, \h10, \h20, \h40, \h80, \h1B, \h36>>

getSBoxValue(b) == sbox[b + 1]

getSBoxInvert(b) == rsbox[b + 1]

\* Two sequences of bytes of the same length, byte by byte.
Bytewise(s, t) == [i \in DOMAIN s |-> s[i] ^^ t[i]]
XorAll(s) == Loop(LAMBDA x, y : x ^^ y, 0, s)

SubWord(w) == [i \in 1 .. 4 |-> getSBoxValue(w[i])]
RotWord(w) == <<w[2], w[3], w[4], w[1]>>

\* The first word of the key number n, out of the last of the one before.
FirstMixed(w, n) == LET s == SubWord(RotWord(w)) IN [s EXCEPT ![1] = @ ^^ Rcon[n + 1]]

\* The words, from 0; word i depends on the ones before it.
KeyExpansion(key) ==
  LET Grow(keys, i) ==
        LET temp  == Last(keys)
            mixed == IF i % Nk = 0 THEN FirstMixed(temp, i \div Nk)
                     ELSE IF Nk = 8 /\ i % Nk = 4 THEN SubWord(temp) ELSE temp
        IN Append(keys, Bytewise(keys[i - Nk + 1], mixed))
  IN Loop(Grow, [i \in 1 .. Nk |-> SubSeq(key, 4 * i - 3, 4 * i)],
          [i \in 1 .. 4 * (Nr + 1) - Nk |-> i + Nk - 1])

AddRoundKey(s, round, keys) == Bytewise(s, FlattenSeq(SubSeq(keys, 4 * round + 1, 4 * round + 4)))

SubBytes(s) == [k \in 1 .. 16 |-> getSBoxValue(s[k])]
InvSubBytes(s) == [k \in 1 .. 16 |-> getSBoxInvert(s[k])]

\* Byte j of every column comes from the column j to the right, or back from the left.
ShiftRows(s) == [k \in 1 .. 16 |-> s[((4 * ((k - 1) % 4) + k - 1) % 16) + 1]]
InvShiftRows(s) == [k \in 1 .. 16 |-> s[((k - 1 - 4 * ((k - 1) % 4)) % 16) + 1]]

\* Mutant: the product is not reduced.
xtimeUnreduced(x) == (2 * x) % 256

xtime(x) == ((2 * x) % 256) ^^ ((x \div 128) * \h1B)

\* Each column c of the block s becomes Mix(c).
Columns(s, Mix(_)) == FlattenSeq([i \in 1 .. 4 |-> Mix(SubSeq(s, 4 * i - 3, 4 * i))])

MixColumn(c) ==
  LET Tmp   == XorAll(c)
      Tm(i) == xtime(c[i] ^^ c[(i % 4) + 1])
  IN [i \in 1 .. 4 |-> XorAll(<<c[i], Tm(i), Tmp>>)]

Multiply(x, y) ==
  LET bit(i) == (y \div 2 ^ i) % 2
      times(i) == Loop(LAMBDA v, k : xtime(v), x, [k \in 1 .. i |-> k])
  IN XorAll([i \in 1 .. 5 |-> bit(i - 1) * times(i - 1)])

InvMixColumn(c) ==
  LET factor == <<\h0E, \h0B, \h0D, \h09>>
      from(i, j) == Multiply(c[j], factor[((j - i) % 4) + 1])
  IN [i \in 1 .. 4 |-> XorAll([j \in 1 .. 4 |-> from(i, j)])]

MixColumns(s) == Columns(s, MixColumn)
InvMixColumns(s) == Columns(s, InvMixColumn)

\* The last round, number Nr, has no MixColumns.
Cipher(block, keys) ==
  LET Round(s, r) ==
        LET t == ShiftRows(SubBytes(s))
        IN AddRoundKey(IF r < Nr THEN MixColumns(t) ELSE t, r, keys)
  IN Loop(Round, AddRoundKey(block, 0, keys), [r \in 1 .. Nr |-> r])

InvCipher(block, keys) ==
  LET Round(s, r) ==
        LET t == AddRoundKey(InvSubBytes(InvShiftRows(s)), r, keys)
        IN IF r > 0 THEN InvMixColumns(t) ELSE t
  IN Loop(Round, AddRoundKey(block, Nr, keys), [i \in 1 .. Nr |-> Nr - i])

-----------------------------------------------------------------------------
(* Modes.  algo_api.c only lets whole blocks through, and an iv. *)

Block(s, n) == SubSeq(s, BLOCKLEN * (n - 1) + 1, BLOCKLEN * n)
Blocks(s) == [n \in 1 .. Len(s) \div BLOCKLEN |-> Block(s, n)]

AES_ECB_encrypt(block, key) == Cipher(block, KeyExpansion(key))
AES_ECB_decrypt(block, key) == InvCipher(block, KeyExpansion(key))

\* Mutant: every block is chained to the iv.
ChainedToFirst(Iv, output) == Iv

\* What Iv is for the next block once output has been written.
ChainedTo(Iv, output) == output

AES_CBC_encrypt_buffer(s, key, iv) ==
  LET keys == KeyExpansion(key)
      Step(r, block) ==
        LET output == Cipher(Bytewise(block, r.Iv), keys)
        IN [out |-> r.out \o output, Iv |-> ChainedTo(r.Iv, output)]
  IN Loop(Step, [out |-> <<>>, Iv |-> iv], Blocks(s)).out

AES_CBC_decrypt_buffer(s, key, iv) ==
  LET keys == KeyExpansion(key)
      Step(r, block) ==
        [out |-> r.out \o Bytewise(InvCipher(block, keys), r.Iv), Iv |-> block]
  IN Loop(Step, [out |-> <<>>, Iv |-> iv], Blocks(s)).out

\* What every function of algo_api.c tests first; NULL pointers are left out.
Refusal(s) == IF s = <<>> THEN -1 ELSE IF Len(s) % BLOCKLEN # 0 THEN -2 ELSE 0

simp_aes_cbc_cipher_nopadding(key, iv, s, mode) ==
  [ret |-> Refusal(s),
   out |-> IF Refusal(s) # 0 THEN <<>>
           ELSE IF mode THEN AES_CBC_encrypt_buffer(s, key, iv) ELSE AES_CBC_decrypt_buffer(s, key, iv)]

simp_aes_ecb_cipher_nopadding(key, s, mode) ==
  LET one(block) == IF mode THEN AES_ECB_encrypt(block, key) ELSE AES_ECB_decrypt(block, key)
  IN [ret |-> Refusal(s),
      out |-> IF Refusal(s) # 0 THEN <<>>
              ELSE FlattenSeq([n \in DOMAIN Blocks(s) |-> one(Block(s, n))])]

-----------------------------------------------------------------------------
(* The field GF(2^8), by its definition: polynomials modulo 1 0001 1011.     *)
FieldProduct(x, y) ==
  Loop(LAMBDA p, i : (IF p >= 128 THEN (2 * p - 256) ^^ \h1B ELSE 2 * p)
                       ^^ (((y \div 2 ^ (8 - i)) % 2) * x),
       0, [i \in 1 .. 8 |-> i])

Rotated(x, n) == ((x * 2 ^ n) % 256) + ((x * 2 ^ n) \div 256)

(* The table sbox is the inverse in the field followed by the affine map of  *)
(* FIPS 197, and rsbox undoes it (aes_base.c:55, 74); its Rcon are the       *)
(* powers of x.                                                              *)
TablesAreRight(x) ==
  /\ getSBoxInvert(getSBoxValue(x)) = x
  /\ LET inverse == CHOOSE y \in 0 .. 255 : FieldProduct(x, y) = IF x = 0 THEN y ELSE 1
         i == IF x = 0 THEN 0 ELSE inverse
     IN getSBoxValue(x) =
          XorAll(<<i, Rotated(i, 1), Rotated(i, 2), Rotated(i, 3), Rotated(i, 4), \h63>>)
  /\ Rcon[2] = 1 /\ \A n \in 2 .. 10 : Rcon[n + 1] = FieldProduct(Rcon[n], 2)

(* MixColumns multiplies a column with the matrix of FIPS 197, although it   *)
(* does so with one xtime per byte, and InvMixColumns undoes it (245, 283).  *)
ColumnsAreMixed(c) ==
  /\ MixColumn(c) = [i \in 1 .. 4 |->
       XorAll(<<FieldProduct(c[i], 2), FieldProduct(c[(i % 4) + 1], 3), c[((i + 1) % 4) + 1],
                c[((i + 2) % 4) + 1]>>)]
  /\ InvMixColumn(MixColumn(c)) = c

(* The cipher of the examples of FIPS 197, appendix C, for all three lengths *)
(* of the key (aes_base.c:109, 346).                                         *)
CipherIsFips ==
  AES_ECB_encrypt([i \in 1 .. 16 |-> 17 * (i - 1)], [i \in 1 .. 4 * Nk |-> i - 1]) =
    CASE Nk = 4 -> <<\h69, \hC4, \hE0, \hD8, \h6A, \h7B, \h04, \h30, \hD8, \hCD, \hB7, \h80,
                     \h70, \hB4, \hC5, \h5A>>
      [] Nk = 6 -> <<\hDD, \hA9, \h7C, \hA4, \h86, \h4C, \hDF, \hE0, \h6E, \hAF, \h70, \hA0,
                     \hEC, \h0D, \h71, \h91>>
      [] Nk = 8 -> <<\h8E, \hA2, \hB7, \hCA, \h51, \h67, \h45, \hBF, \hEA, \hFC, \h49, \h90,
                     \h4B, \h49, \h60, \h89>>

(* What was encrypted decrypts to what it was, in both modes; CBC chains the *)
(* blocks, so that equal blocks are not equal afterwards (algo_api.c:7, 33). *)
Decrypts(key, iv, s) ==
  LET cbc == simp_aes_cbc_cipher_nopadding(key, iv, s, TRUE)
      ecb == simp_aes_ecb_cipher_nopadding(key, s, TRUE)
  IN IF Len(s) % BLOCKLEN # 0 \/ s = <<>> THEN cbc.ret < 0 /\ ecb.ret < 0
     ELSE /\ simp_aes_cbc_cipher_nopadding(key, iv, cbc.out, FALSE) = [ret |-> 0, out |-> s]
          /\ simp_aes_ecb_cipher_nopadding(key, ecb.out, FALSE) = [ret |-> 0, out |-> s]
          /\ \A n, m \in DOMAIN Blocks(s) :
               n # m => /\ Block(cbc.out, n) # Block(cbc.out, m)
                        /\ Block(ecb.out, n) = Block(ecb.out, m) <=> Block(s, n) = Block(s, m)
=============================================================================
