------------------------------- MODULE Sha256 -------------------------------
(***************************************************************************)
(* algo_sha256.c and algo_hmac.c: a message is hashed as it comes, block   *)
(* by block, and the last block padded.                                    *)
(*                                                                         *)
(* What sha256Hash does to a block is of no matter: a digest is the        *)
(* sequence of the blocks it has taken in.  A byte is a tuple that says    *)
(* where it comes from; a word of the length is one byte here.             *)
(***************************************************************************)
EXTENDS Integers, Sequences, SequencesExt

CONSTANTS BlockLen,   \* SHA256_STATE_LENGTH, HMAC_MD_SLEN: 64
          DigestLen,  \* SHA256_DIGEST_LENGTH, HMAC_MD_DLEN: 32
          WordMod,    \* 2^32
          Bits,       \* bits in a byte: 8
          LenMod      \* 2^16: lengths are u2

ASSUME HashAssumption ==
  /\ BlockLen \in Nat /\ BlockLen > 2 /\ DigestLen \in 1 .. BlockLen
  /\ Bits \in Nat \ {0} /\ WordMod \in Nat \ {0} /\ WordMod % (Bits * BlockLen) = 0
  /\ LenMod \in Nat \ {0} /\ LenMod * Bits <= WordMod * WordMod   \* such a length is counted

Zero == <<"zero">>
End == <<"end">>                     \* 0x80
Word(w) == <<"length", w>>
Zeros(n) == [i \in 1 .. n |-> Zero]
Room == BlockLen - 2                 \* bytes of a block before the length: 56

\* The digest as bytes.
Bytes(digest) == [i \in 1 .. DigestLen |-> <<"digest", digest, i>>]

\* A struct SHA256_CONTEXT: the digest, the bytes waiting, and the bits counted in two words.
core_algo_sha256Initial ==
  [digest |-> <<>>, state |-> Zeros(BlockLen), count1 |-> 0, count2 |-> 0, ok |-> TRUE]

sha256Hash(c) == [c EXCEPT !.digest = Append(@, c.state), !.state = Zeros(BlockLen)]

data_count(c) == (c.count2 \div Bits) % BlockLen

\* Mutant: a carry is noticed one byte late.
CarryLate(w) == w = Bits

\* The lower word has just come round.
Carry(w) == w = 0

\* One byte of an update; s.at is data_count.  Nothing is done once the count has overflowed.
UpdateByte(s, b) ==
  LET low    == (s.count2 + Bits) % WordMod
      filled == [s EXCEPT !.state[s.at + 1] = b, !.at = @ + 1, !.count2 = low]
      over   == Carry(low) /\ s.count1 = WordMod - 1
      next   == IF Carry(low) THEN [filled EXCEPT !.count1 = @ + 1] ELSE filled
  IN IF ~s.ok THEN s
     ELSE IF over THEN [filled EXCEPT !.ok = FALSE]
     ELSE IF next.at = BlockLen THEN [sha256Hash(next) EXCEPT !.at = 0] ELSE next

\* ok is what it returns; the counts are only written back if it is true.
core_algo_sha256Update(c, buf) ==
  LET first == [digest |-> c.digest, state |-> c.state, count1 |-> c.count1, count2 |-> c.count2,
                at |-> data_count(c), ok |-> TRUE]
      turn[i \in 0 .. Len(buf)] == IF i = 0 THEN first ELSE UpdateByte(turn[i - 1], buf[i])
      r == turn[Len(buf)]
  IN [digest |-> r.digest, state |-> r.state, ok |-> r.ok,
      count1 |-> IF r.ok THEN r.count1 ELSE c.count1, count2 |-> IF r.ok THEN r.count2 ELSE c.count2]

\* Mutant: the length is taken to fit after one byte too many.
NoRoomLate(n) == n > Room

\* With n bytes in it a block has no room for the end mark and the length.
NoRoom(n) == n > Room - 1

core_algo_sha256Final(c) ==
  LET ended == [c EXCEPT !.state[data_count(c) + 1] = End]
      last  == IF NoRoom(data_count(c)) THEN sha256Hash(ended) ELSE ended
  IN sha256Hash([last EXCEPT !.state[Room + 1] = Word(c.count1), !.state[Room + 2] = Word(c.count2)])

\* A call with more than LenMod - 1 bytes takes in only the first of them.
simp_sha256_md(input) ==
  core_algo_sha256Final(core_algo_sha256Update(core_algo_sha256Initial,
    SubSeq(input, 1, Len(input) % LenMod))).digest

-----------------------------------------------------------------------------
(* HMAC *)

core_algo_xor(s, pad) == [i \in 1 .. BlockLen |-> <<"xor", pad, IF i <= Len(s) THEN s[i] ELSE Zero>>]

KeyIsLong(key) == Len(key) > BlockLen

\* The key as it is used, at most a block.
HmacKey(key) ==
  IF KeyIsLong(key)
  THEN Bytes(core_algo_sha256Final(core_algo_sha256Update(core_algo_sha256Initial, key)).digest)
  ELSE key

core_algo_hmacInitial(key) ==
  core_algo_sha256Update(core_algo_sha256Initial, core_algo_xor(HmacKey(key), "ipad"))

k_pad1(key) == core_algo_xor(HmacKey(key), "opad")

core_algo_hmacUpdate(c, buf) == IF buf # <<>> THEN core_algo_sha256Update(c, buf) ELSE c

\* pad is the key's k_pad1.
core_algo_hmacFinal(c, pad) ==
  LET inner == Bytes(core_algo_sha256Final(c).digest)
      outer == core_algo_sha256Update(core_algo_sha256Update(core_algo_sha256Initial, pad), inner)
  IN core_algo_sha256Final(outer)

simp_hmac_sha256(key, input) ==
  core_algo_hmacFinal(core_algo_hmacUpdate(core_algo_hmacInitial(SubSeq(key, 1, Len(key) % LenMod)),
    SubSeq(input, 1, Len(input) % LenMod)), k_pad1(SubSeq(key, 1, Len(key) % LenMod))).digest

-----------------------------------------------------------------------------
(* The definitions of FIPS 180 and RFC 2104, on whole messages.              *)

InBlocks(s) ==
  [n \in 1 .. Len(s) \div BlockLen |-> SubSeq(s, BlockLen * (n - 1) + 1, BlockLen * n)]

\* m, the end mark, as many zeros as fill a block, and the given words.
Padded(m, words) ==
  LET zeros == CHOOSE z \in 0 .. BlockLen - 1 : (Len(m) + 1 + z + 2) % BlockLen = 0
  IN InBlocks(m \o <<End>> \o Zeros(zeros) \o words)

High(m) == ((Len(m) * Bits) \div WordMod) % WordMod
Low(m) == (Len(m) * Bits) % WordMod

Sha(m) == Padded(m, <<Word(High(m)), Word(Low(m))>>)

Hmac(key, m) ==
  LET k == IF Len(key) > BlockLen THEN Bytes(Sha(key)) ELSE key
      padded(pad) ==
        [i \in 1 .. BlockLen |-> <<"xor", pad, IF i \in DOMAIN k THEN k[i] ELSE Zero>>]
  IN Sha(padded("opad") \o Bytes(Sha(padded("ipad") \o m)))
=============================================================================
