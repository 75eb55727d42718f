-------------------------- MODULE Algorithms_proofs --------------------------
(***************************************************************************)
(* What is proved of HashStream.tla, for every size of a block, a word and *)
(* a digest, every key and every way to cut a message into pieces: a       *)
(* digest is the one of the whole message, and an update is refused when   *)
(* its bits cannot be counted, and only then.                              *)
(*                                                                         *)
(* The invariant says that a context has taken in what it was given: the   *)
(* whole blocks of it are in the digest, in order, the rest of it waits,   *)
(* and its counts are those of its length.  For SHA-256 that goes byte by  *)
(* byte, by induction over a piece; for MD5 by the cases of an update.     *)
(* The last call then closes the message in one block or in two, and       *)
(* either way its blocks are those of the padded message, which OneWay     *)
(* shows to be determined.                                                 *)
(*                                                                         *)
(* And of CryptoCalls.tla, for any contexts, priorities and calls: only    *)
(* calls of the same kind disturb each other.  The invariant says how far  *)
(* each call has come and what its variables then hold, unless another     *)
(* has used the same ones since it began.                                  *)
(*                                                                         *)
(* And of Texts.tla, for any texts, packets, formats, numbers and widths   *)
(* of a long: what is written is read back, and what is printed is as in   *)
(* ISO C.  Each recursive function is first shown to exist.  That a        *)
(* packet's numbers are found needs that no digit separates fields; that   *)
(* a format is left at its end, that what a directive takes and what may   *)
(* still be taken behind it do not grow; and that numbers are printed as   *)
(* ISO C says, that a number has its digits by dividing again and again    *)
(* and by powers of the base.                                              *)
(***************************************************************************)
EXTENDS HashStream, CryptoCalls, Texts, Induction

-----------------------------------------------------------------------------
(* Division                                                                  *)

LEMMA Division ==
  ASSUME NEW n \in Nat, NEW k \in Nat \ {0}
  PROVE  n = k * (n \div k) + (n % k) /\ n % k \in 0 .. k - 1 /\ n \div k \in Nat
OBVIOUS

\* A multiple below another is below it by the factor at least.
LEMMA NextMultiple ==
  ASSUME NEW k \in Nat \ {0}, NEW q \in Int, NEW p \in Int, q < p
  PROVE  k * q + k <= k * p
<1>1. k * (q + 1) = k * q + k
  OBVIOUS
<1>2. k * (q + 1) <= k * p
  BY SMTT(20)
<1> QED
  BY <1>1, <1>2

LEMMA Parts ==
  ASSUME NEW k \in Nat \ {0}, NEW q \in Nat, NEW r \in 0 .. k - 1, NEW n, n = k * q + r
  PROVE  n \in Nat /\ n \div k = q /\ n % k = r
<1>1. k * q \in Nat
  OBVIOUS
<1>2. n \in Nat
  BY <1>1
<1>3. PICK p \in Nat, s \in 0 .. k - 1 : p = n \div k /\ s = n % k /\ n = k * p + s
  BY <1>2, Division
<1>4. ~(p < q)
  BY <1>1, <1>3, NextMultiple
<1>5. ~(q < p)
  BY <1>1, <1>3, NextMultiple
<1> QED
  BY <1>1, <1>2, <1>3, <1>4, <1>5

LEMMA Products ==
  ASSUME NEW a \in Nat, NEW b \in Nat, NEW c \in Nat, NEW d \in Nat
  PROVE  /\ a * b \in Nat /\ a * b = b * a /\ (a * b) * c = a * (b * c) /\ (a * b) * c \in Nat
         /\ a * (b + c) = a * b + a * c
         /\ (b * c + d) * a = (a * b) * c + a * d
OBVIOUS

LEMMA Successor ==
  ASSUME NEW k \in Nat \ {0}, NEW n \in Nat
  PROVE  IF n % k = k - 1 THEN (n + 1) \div k = (n \div k) + 1 /\ (n + 1) % k = 0
         ELSE (n + 1) \div k = n \div k /\ (n + 1) % k = (n % k) + 1
<1>1. PICK q \in Nat, r \in 0 .. k - 1 : q = n \div k /\ r = n % k /\ n = k * q + r
  BY Division
<1>2. k * q \in Nat /\ k * (q + 1) = k * q + k
  BY <1>1
<1>3. CASE r = k - 1
  <2>1. PICK p \in Nat, z \in 0 .. k - 1 : p = q + 1 /\ z = 0
    OBVIOUS
  <2>2. n + 1 = k * p + z
    BY <1>1, <1>2, <1>3, <2>1
  <2>3. (n + 1) \div k = p /\ (n + 1) % k = z
    BY <2>2, Parts
  <2> QED
    BY <1>1, <1>3, <2>1, <2>3
<1>4. CASE r # k - 1
  <2>1. n + 1 = k * q + (r + 1) /\ r + 1 \in 0 .. k - 1
    BY <1>1, <1>2, <1>4
  <2>2. (n + 1) \div k = q /\ (n + 1) % k = r + 1
    BY <1>1, <2>1, Parts
  <2> QED
    BY <1>1, <1>4, <2>2
<1> QED
  BY <1>3, <1>4

-----------------------------------------------------------------------------
(* The two words of a count                                                  *)

\* The bytes after which the lower word comes round.
Round == WordMod \div Bits

LEMMA Sizes ==
  /\ BlockLen \in Nat /\ BlockLen > 2 /\ Bits \in Nat \ {0} /\ WordMod \in Nat \ {0}
  /\ Round \in Nat \ {0} /\ WordMod = Bits * Round
  /\ \E k \in Nat \ {0} : Round = BlockLen * k
<1>1. /\ BlockLen \in Nat /\ BlockLen > 2 /\ Bits \in Nat \ {0} /\ WordMod \in Nat \ {0}
      /\ WordMod % (Bits * BlockLen) = 0
  BY HashAssumption
<1>2. PICK m \in Nat \ {0} : m = Bits * BlockLen
  BY <1>1
<1>3. PICK k \in Nat : WordMod = m * k
  <2>1. PICK w \in Nat : w = WordMod
    BY <1>1
  <2>2. w = m * (w \div m) + (w % m) /\ w \div m \in Nat
    BY <1>2, Division
  <2>3. w % m = 0
    BY <1>1, <1>2, <2>1
  <2>4. PICK k \in Nat : k = w \div m
    BY <2>2
  <2>5. WordMod = m * k + 0 /\ m * k \in Nat
    BY <2>1, <2>2, <2>3, <2>4
  <2> QED
    BY <2>5
<1>4. k # 0
  BY <1>1, <1>2, <1>3
<1>5. PICK r \in Nat : r = BlockLen * k
  BY <1>1, <1>3
<1>6. r # 0
  BY <1>1, <1>3, <1>4, <1>5
<1>7. WordMod = Bits * r
  <2>1. (Bits * BlockLen) * k = Bits * (BlockLen * k)
    BY <1>1, <1>3
  <2> QED
    BY <1>2, <1>3, <1>5, <2>1
<1>8. Round = r
  <2>1. WordMod = Bits * r + 0 /\ 0 \in 0 .. Bits - 1
    BY <1>1, <1>5, <1>7
  <2> QED
    BY <1>1, <1>5, <2>1, Parts DEF Round
<1> QED
  BY <1>1, <1>3, <1>4, <1>5, <1>6, <1>7, <1>8

\* The count of n bytes in two words.
LEMMA CountIs ==
  ASSUME NEW n \in Nat
  PROVE  /\ n * Bits \in Nat
         /\ (n * Bits) \div WordMod = n \div Round
         /\ (n * Bits) % WordMod = Bits * (n % Round)
         /\ n * Bits < WordMod * WordMod <=> n \div Round < WordMod
<1>1. Bits \in Nat \ {0} /\ WordMod \in Nat \ {0} /\ Round \in Nat \ {0} /\ WordMod = Bits * Round
  BY Sizes
<1>2. PICK q \in Nat, r \in 0 .. Round - 1 : q = n \div Round /\ r = n % Round /\ n = Round * q + r
  BY <1>1, Division
<1>3. PICK low \in Nat : low = Bits * r
  BY <1>1, <1>2
<1>4. low \in 0 .. WordMod - 1
  <2>1. Bits * r + Bits <= Bits * Round
    BY <1>1, <1>2, NextMultiple
  <2> QED
    BY <1>1, <1>3, <2>1
<1>5. n * Bits = WordMod * q + low
  <2>1. (Round * q + r) * Bits = (Bits * Round) * q + Bits * r
    <3>1. Round \in Nat /\ q \in Nat /\ r \in Nat /\ Bits \in Nat
      BY <1>1, <1>2
    <3>2. (Round * q + r) * Bits = (Bits * Round) * q + Bits * r
      BY <3>1
    <3> QED
      BY <3>2
  <2> QED
    BY <1>1, <1>2, <1>3, <2>1, Zenon
<1>6. n * Bits \in Nat /\ (n * Bits) \div WordMod = q /\ (n * Bits) % WordMod = low
  <2>1. PICK b : b = n * Bits
    OBVIOUS
  <2>2. b \in Nat /\ b \div WordMod = q /\ b % WordMod = low
    <3>1. b = WordMod * q + low
      BY <1>5, <2>1
    <3> QED
      <4>1. PICK w \in Nat \ {0} : w = WordMod
        BY <1>1
      <4>2. low \in 0 .. w - 1 /\ b = w * q + low
        BY <1>4, <3>1, <4>1
      <4>3. b \in Nat /\ b \div w = q /\ b % w = low
        BY <4>2, Parts
      <4> QED
        BY <4>1, <4>3
  <2> QED
    BY <2>1, <2>2
<1>7. n * Bits < WordMod * WordMod <=> q < WordMod
  <2>1. CASE q < WordMod
    <3>1. WordMod * q + WordMod <= WordMod * WordMod
      BY <1>1, <1>2, <2>1, NextMultiple
    <3>2. WordMod * q \in Nat /\ WordMod * WordMod \in Nat
      BY <1>1, <1>2
    <3> QED
      BY <1>1, <1>4, <1>5, <2>1, <3>1, <3>2
  <2>2. CASE ~(q < WordMod)
    <3>1. q = WordMod \/ WordMod * WordMod + WordMod <= WordMod * q
      BY <1>1, <1>2, <2>2, NextMultiple
    <3>2. WordMod * q \in Nat /\ WordMod * WordMod \in Nat
      BY <1>1, <1>2
    <3> QED
      BY <1>1, <1>4, <1>5, <2>2, <3>1, <3>2
  <2> QED
    BY <2>1, <2>2
<1> QED
  BY <1>2, <1>3, <1>6, <1>7

\* The bytes waiting, from the lower word.
LEMMA WaitingIs ==
  ASSUME NEW n \in Nat
  PROVE  /\ ((Bits * (n % Round)) \div Bits) % BlockLen = n % BlockLen
         /\ (n % WordMod) % BlockLen = n % BlockLen
<1>1. PICK k \in Nat \ {0} : Round = BlockLen * k
  BY Sizes
<1>2. BlockLen \in Nat \ {0} /\ Bits \in Nat \ {0} /\ Round \in Nat \ {0} /\ WordMod \in Nat \ {0}
  BY Sizes
<1>3. ASSUME NEW m \in Nat \ {0}, NEW f \in Nat, m = BlockLen * f PROVE (n % m) % BlockLen = n % BlockLen
  <2>1. PICK q \in Nat, r \in 0 .. m - 1 : q = n \div m /\ r = n % m /\ n = m * q + r
    <3>1. n = m * (n \div m) + (n % m) /\ n % m \in 0 .. m - 1 /\ n \div m \in Nat
      BY Division
    <3> QED
      BY <3>1, Zenon
  <2>2. PICK p \in Nat, s \in 0 .. BlockLen - 1 : s = r % BlockLen /\ r = BlockLen * p + s
    <3>1. r \in Nat
      BY <2>1
    <3> QED
      BY <1>2, <3>1, Division
  <2>3. n = BlockLen * (f * q + p) + s
    <3>1. (BlockLen * f) * q + BlockLen * p = BlockLen * (f * q + p)
      <4>1. /\ (BlockLen * f) * q = BlockLen * (f * q) /\ f * q \in Nat
            /\ BlockLen * (f * q) \in Nat
        <5>1. BlockLen \in Nat /\ f \in Nat /\ q \in Nat
          BY <1>2, <1>3, <2>1
        <5>2. f * q \in Nat /\ BlockLen * (f * q) \in Nat
          BY <5>1
        <5>3. (BlockLen * f) * q = BlockLen * (f * q)
          BY <5>1
        <5> QED
          BY <5>2, <5>3
      <4>2. BlockLen * (f * q + p) = BlockLen * (f * q) + BlockLen * p
        BY <1>2, <2>2, <4>1, Products
      <4> QED
        BY <4>1, <4>2
    <3>2. BlockLen * p \in Nat /\ BlockLen * (f * q + p) \in Nat /\ m * q \in Nat
      BY <1>2, <1>3, <2>1, <2>2
    <3> QED
      BY <1>3, <2>1, <2>2, <3>1, <3>2
  <2>4. f * q + p \in Nat
    <3>1. f * q \in Nat
      <4>1. f \in Nat /\ q \in Nat
        BY <1>3, <2>1
      <4> QED
        BY <4>1, Products, Zenon
    <3> QED
      BY <2>2, <3>1
  <2> QED
    <3>1. n % BlockLen = s
      <4>1. PICK x \in Nat : x = f * q + p
        BY <2>4
      <4>2. PICK l \in Nat \ {0} : l = BlockLen
        BY <1>2
      <4>3. n = l * x + s /\ s \in 0 .. l - 1
        BY <2>2, <2>3, <4>1, <4>2
      <4>4. n % l = s
        BY <4>3, Parts
      <4> QED
        BY <4>2, <4>4
    <3> QED
      BY <2>1, <2>2, <3>1, Zenon
<1>4. PICK low \in Nat : low = n % Round
  BY <1>2, Division
<1>5. (Bits * low) \div Bits = low
  BY <1>2, <1>4, Parts
<1>6. WordMod = BlockLen * (Bits * k)
  <2>1. Bits * (BlockLen * k) = BlockLen * (Bits * k)
    BY <1>1, <1>2
  <2> QED
    BY <1>1, <2>1, Sizes
<1>7. Bits * k \in Nat
  BY <1>1, <1>2
<1> QED
  BY <1>1, <1>2, <1>3, <1>4, <1>5, <1>6, <1>7

\* One byte more.
LEMMA CountNext ==
  ASSUME NEW n \in Nat, NEW low, low = (Bits * (n % Round) + Bits) % WordMod
  PROVE  /\ low = Bits * ((n + 1) % Round)
         /\ (n + 1) \div Round = (n \div Round) + (IF low = 0 THEN 1 ELSE 0)
<1>1. Bits \in Nat \ {0} /\ WordMod \in Nat \ {0} /\ Round \in Nat \ {0} /\ WordMod = Bits * Round
  BY Sizes
<1>2. PICK q \in Nat, r \in 0 .. Round - 1 : q = n \div Round /\ r = n % Round
  BY <1>1, Division
<1>3. Bits * r + Bits = Bits * (r + 1) /\ Bits * (r + 1) \in Nat /\ Bits * (r + 1) # 0
  BY <1>1, <1>2
<1>4. CASE r = Round - 1
  <2>1. (n + 1) % Round = 0 /\ (n + 1) \div Round = q + 1
    BY <1>1, <1>2, <1>4, Successor
  <2>2. Bits * (r + 1) = WordMod
    <3>1. r + 1 = Round
      BY <1>1, <1>4
    <3> QED
      BY <1>1, <3>1
  <2>3. low = 0
    <3>1. low = WordMod % WordMod
      BY <1>2, <1>3, <2>2
    <3>2. WordMod % WordMod = 0
      <4>1. WordMod = WordMod * 1 + 0 /\ 0 \in 0 .. WordMod - 1
        BY <1>1
      <4> QED
        BY <1>1, <4>1, Parts
    <3> QED
      BY <3>1, <3>2
  <2> QED
    BY <1>1, <1>2, <2>1, <2>3
<1>5. CASE r # Round - 1
  <2>1. (n + 1) % Round = r + 1 /\ (n + 1) \div Round = q
    BY <1>1, <1>2, <1>5, Successor
  <2>2. Bits * (r + 1) < WordMod
    <3>1. Bits * (r + 1) + Bits <= Bits * Round
      BY <1>1, <1>2, <1>5, NextMultiple
    <3> QED
      BY <1>1, <1>3, <3>1
  <2>3. low = Bits * (r + 1)
    <3>1. PICK b \in Nat : b = Bits * (r + 1)
      BY <1>3
    <3>2. b % WordMod = b
      <4>1. b < WordMod
        BY <2>2, <3>1
      <4> HIDE <3>1
      <4> QED
        BY <1>1, <4>1, Remainder
    <3> QED
      BY <1>2, <1>3, <3>1, <3>2
  <2> QED
    BY <1>2, <1>3, <2>1, <2>3
<1> QED
  BY <1>4, <1>5

-----------------------------------------------------------------------------
(* Blocks                                                                    *)

BlockOf(S) == [1 .. BlockLen -> S]

\* q blocks have been taken in, the first of m.
TakesIn(d, q, m, S) ==
  /\ d \in Seq(BlockOf(S)) /\ Len(d) = q
  /\ \A k \in 1 .. q, i \in 1 .. BlockLen : d[k][i] = m[BlockLen * (k - 1) + i]

LEMMA Place ==
  ASSUME NEW q \in Nat, NEW k \in 1 .. q, NEW i \in 1 .. BlockLen
  PROVE  BlockLen * (k - 1) + i \in 1 .. BlockLen * q
<1>1. BlockLen \in Nat \ {0} /\ k - 1 \in Nat /\ k - 1 < q
  BY Sizes
<1>2. BlockLen * (k - 1) + BlockLen <= BlockLen * q
  BY <1>1, NextMultiple
<1>3. BlockLen * (k - 1) \in Nat /\ BlockLen * q \in Nat
  BY <1>1
<1> QED
  BY <1>1, <1>2, <1>3

IsPiece(s, m, a, l, S) == s \in [1 .. l -> S] /\ \A i \in 1 .. l : s[i] = m[a + i]

LEMMA PieceIs ==
  ASSUME NEW S, NEW m \in Seq(S), NEW a \in Nat, NEW l \in Nat, a + l <= Len(m)
  PROVE  IsPiece(SubSeq(m, a + 1, a + l), m, a, l, S)
<1>1. /\ SubSeq(m, a + 1, a + l) \in Seq(S) /\ Len(SubSeq(m, a + 1, a + l)) = l
      /\ \A i \in 1 .. l : SubSeq(m, a + 1, a + l)[i] = m[a + i]
  OBVIOUS
<1>2. \A s \in Seq(S) : s \in [1 .. Len(s) -> S]
  OBVIOUS
<1> QED
  BY <1>1, <1>2, Zenon DEF IsPiece

\* The blocks of m are the first of it.
LEMMA InBlocksTakesIn ==
  ASSUME NEW S, NEW m \in Seq(S)
  PROVE  TakesIn(InBlocks(m), Len(m) \div BlockLen, m, S)
<1> DEFINE q == Len(m) \div BlockLen
<1>1. BlockLen \in Nat \ {0}
  BY Sizes
<1>2. q \in Nat /\ BlockLen * q \in Nat /\ BlockLen * q <= Len(m)
  <2>1. Len(m) \in Nat
    OBVIOUS
  <2>2. Len(m) = BlockLen * q + (Len(m) % BlockLen) /\ Len(m) % BlockLen \in 0 .. BlockLen - 1 /\ q \in Nat
    BY <1>1, <2>1, Division
  <2> HIDE DEF q
  <2>3. BlockLen * q \in Nat
    BY <1>1, <2>2
  <2> QED
    BY <1>1, <2>1, <2>2, <2>3
<1>3. InBlocks(m) = [k \in 1 .. q |-> SubSeq(m, BlockLen * (k - 1) + 1, BlockLen * k)]
  BY DEF InBlocks
<1> HIDE DEF q
<1>4. ASSUME NEW k \in 1 .. q
      PROVE  /\ SubSeq(m, BlockLen * (k - 1) + 1, BlockLen * k) \in BlockOf(S)
             /\ \A i \in 1 .. BlockLen :
                  SubSeq(m, BlockLen * (k - 1) + 1, BlockLen * k)[i] = m[BlockLen * (k - 1) + i]
  <2>1. PICK a \in Nat : a = BlockLen * (k - 1)
    BY <1>1, <1>2
  <2>2. BlockLen * k = a + BlockLen
    BY <1>1, <1>2, <2>1
  <2>3. a + BlockLen <= Len(m)
    <3>1. BlockLen \in 1 .. BlockLen
      BY <1>1
    <3>2. BlockLen * (k - 1) + BlockLen \in 1 .. BlockLen * q
      BY <1>2, <3>1, Place
    <3> QED
      BY <1>2, <2>1, <3>2
  <2>4. /\ SubSeq(m, a + 1, a + BlockLen) \in BlockOf(S)
        /\ \A i \in 1 .. BlockLen : SubSeq(m, a + 1, a + BlockLen)[i] = m[a + i]
    <3>1. BlockLen \in Nat
      BY <1>1
    <3>2. IsPiece(SubSeq(m, a + 1, a + BlockLen), m, a, BlockLen, S)
      BY <2>3, <3>1, PieceIs, Zenon
    <3> QED
      BY <3>2, Zenon DEF BlockOf, IsPiece
  <2> QED
    BY <2>1, <2>2, <2>4
<1>5. /\ InBlocks(m) \in Seq(BlockOf(S)) /\ Len(InBlocks(m)) = q
      /\ \A k \in 1 .. q : InBlocks(m)[k] = SubSeq(m, BlockLen * (k - 1) + 1, BlockLen * k)
  <2>1. InBlocks(m) \in [1 .. q -> BlockOf(S)]
    BY <1>3, <1>4
  <2>2. \A f \in [1 .. q -> BlockOf(S)] : f \in Seq(BlockOf(S)) /\ Len(f) = q
    BY <1>2
  <2> QED
    BY <1>3, <2>1, <2>2
<1> QED
  BY <1>4, <1>5 DEF TakesIn, q

\* There is only one way to take them in.
LEMMA OneWay ==
  ASSUME NEW S, NEW d, NEW e, NEW q \in Nat, NEW m, TakesIn(d, q, m, S), TakesIn(e, q, m, S)
  PROVE  d = e
<1>1. /\ d \in Seq(BlockOf(S)) /\ Len(d) = q /\ e \in Seq(BlockOf(S)) /\ Len(e) = q
      /\ \A k \in 1 .. q, i \in 1 .. BlockLen : d[k][i] = m[BlockLen * (k - 1) + i]
      /\ \A k \in 1 .. q, i \in 1 .. BlockLen : e[k][i] = m[BlockLen * (k - 1) + i]
  BY DEF TakesIn
<1>2. ASSUME NEW k \in 1 .. q PROVE d[k] = e[k]
  <2>1. d[k] \in BlockOf(S) /\ e[k] \in BlockOf(S)
    BY <1>1
  <2>2. \A i \in 1 .. BlockLen : d[k][i] = e[k][i]
    BY <1>1
  <2>3. d[k] = [i \in 1 .. BlockLen |-> d[k][i]] /\ e[k] = [i \in 1 .. BlockLen |-> e[k][i]]
    BY <2>1 DEF BlockOf
  <2> QED
    BY <2>2, <2>3, Zenon
<1> QED
  BY <1>1, <1>2

\* Only the blocks taken in matter.
LEMMA OnlyThose ==
  ASSUME NEW S, NEW d, NEW q \in Nat, NEW m, NEW t, TakesIn(d, q, m, S),
         \A j \in 1 .. BlockLen * q : m[j] = t[j]
  PROVE  TakesIn(d, q, t, S)
<1>1. \A k \in 1 .. q, i \in 1 .. BlockLen :
        d[k][i] = m[BlockLen * (k - 1) + i] /\ BlockLen * (k - 1) + i \in 1 .. BlockLen * q
  BY Place DEF TakesIn
<1> QED
  BY <1>1 DEF TakesIn

\* The next blocks.
LEMMA NextBlocks ==
  ASSUME NEW S, NEW d, NEW q \in Nat, NEW m, TakesIn(d, q, m, S),
         NEW e, NEW p \in Nat, NEW x, TakesIn(e, p, x, S),
         \A j \in 1 .. BlockLen * p : m[BlockLen * q + j] = x[j]
  PROVE  TakesIn(d \o e, q + p, m, S)
<1>1. d \in Seq(BlockOf(S)) /\ Len(d) = q /\ e \in Seq(BlockOf(S)) /\ Len(e) = p
  BY DEF TakesIn
<1>2. d \o e \in Seq(BlockOf(S)) /\ Len(d \o e) = q + p
  BY <1>1
<1>3. ASSUME NEW k \in 1 .. q + p, NEW i \in 1 .. BlockLen
      PROVE  (d \o e)[k][i] = m[BlockLen * (k - 1) + i]
  <2>1. CASE k <= q
    <3>1. (d \o e)[k] = d[k] /\ k \in 1 .. q
      BY <1>1, <2>1
    <3> QED
      BY <3>1 DEF TakesIn
  <2>2. CASE k > q
    <3>1. PICK l \in 1 .. p : k = q + l
      <4>1. k - q \in 1 .. p /\ k = q + (k - q)
        BY <2>2
      <4> QED
        BY <4>1
    <3>2. (d \o e)[k] = e[l]
      BY <1>1, <3>1
    <3>3. e[l][i] = x[BlockLen * (l - 1) + i]
      BY DEF TakesIn
    <3>4. BlockLen * (l - 1) + i \in 1 .. BlockLen * p
      BY Place
    <3>5. BlockLen * (k - 1) + i = BlockLen * q + (BlockLen * (l - 1) + i)
      <4>1. BlockLen \in Nat /\ l - 1 \in Nat /\ k - 1 = q + (l - 1)
        BY <3>1, Sizes
      <4>2. PICK c \in Nat : c = l - 1 /\ k - 1 = q + c
        BY <4>1
      <4>3. BlockLen * (q + c) = BlockLen * q + BlockLen * c
        BY <4>1
      <4>4. BlockLen * q \in Nat /\ BlockLen * c \in Nat
        BY <4>1
      <4> QED
        BY <4>2, <4>3, <4>4
    <3> QED
      BY <3>2, <3>3, <3>4, <3>5
  <2> QED
    BY <1>1, <2>1, <2>2
<1> QED
  BY <1>2, <1>3 DEF TakesIn

\* The next block.
LEMMA NextBlock ==
  ASSUME NEW S, NEW d, NEW q \in Nat, NEW m, TakesIn(d, q, m, S),
         NEW b \in BlockOf(S), \A j \in 1 .. BlockLen : m[BlockLen * q + j] = b[j]
  PROVE  TakesIn(Append(d, b), q + 1, m, S)
<1>1. BlockLen \in Nat /\ BlockLen * 1 = BlockLen /\ BlockLen * (1 - 1) = 0
  BY Sizes
<1>2. TakesIn(<<b>>, 1, b, S)
  BY <1>1 DEF TakesIn, BlockOf
<1>3. TakesIn(d \o <<b>>, q + 1, m, S)
  BY <1>1, <1>2, NextBlocks
<1>4. d \o <<b>> = Append(d, b)
  BY DEF TakesIn
<1> QED
  BY <1>3, <1>4

-----------------------------------------------------------------------------
(* The context of SHA-256                                                    *)

Symbols(S) == Zero \in S /\ End \in S /\ \A w \in Nat : Word(w) \in S

\* Of m, whole blocks have been taken in, and the rest waits in a cleared block.
Waits(state, m) ==
  \A i \in 1 .. BlockLen :
    state[i] = IF i <= Len(m) % BlockLen THEN m[BlockLen * (Len(m) \div BlockLen) + i] ELSE Zero

HasTaken(c, m, S) ==
  /\ c.ok
  /\ TakesIn(c.digest, Len(m) \div BlockLen, m, S)
  /\ c.state \in BlockOf(S) /\ Waits(c.state, m)
  /\ c.count1 = Len(m) \div Round /\ c.count2 = Bits * (Len(m) % Round)

Turn(S) ==
  [digest : Seq(BlockOf(S)), state : BlockOf(S), count1 : Nat, count2 : Nat, at : Nat, ok : BOOLEAN]

Running(s, m, S) == s \in Turn(S) /\ HasTaken(s, m, S) /\ s.at = Len(m) % BlockLen

Fields(s, digest, state, count1, count2, at, ok) ==
  /\ s.digest = digest /\ s.state = state /\ s.count1 = count1 /\ s.count2 = count2
  /\ s.at = at /\ s.ok = ok

LEMMA ZerosType ==
  ASSUME NEW S, Symbols(S)
  PROVE  Zeros(BlockLen) \in BlockOf(S)
  BY DEF Symbols, Zeros, BlockOf

LEMMA FilledIs ==
  ASSUME NEW S, NEW s \in Turn(S), NEW b \in S, NEW low \in Nat,
         NEW f, f = [s EXCEPT !.state[s.at + 1] = b, !.at = @ + 1, !.count2 = low]
  PROVE  /\ f \in Turn(S)
         /\ Fields(f, s.digest, [s.state EXCEPT ![s.at + 1] = b], s.count1, low, s.at + 1, s.ok)
<1>1. Fields(f, s.digest, [s.state EXCEPT ![s.at + 1] = b], s.count1, low, s.at + 1, s.ok)
  BY DEF Turn, Fields
<1>2. PICK state \in BlockOf(S) : state = [s.state EXCEPT ![s.at + 1] = b]
  BY DEF Turn, BlockOf
<1>3. PICK at \in Nat : at = s.at + 1
  BY DEF Turn
<1>4. f = [s EXCEPT !.state = state, !.at = at, !.count2 = low]
  BY <1>2, <1>3
<1>5. \A c \in BlockOf(S) : [s EXCEPT !.state = c, !.at = at, !.count2 = low] \in Turn(S)
  BY DEF Turn
<1> QED
  BY <1>1, <1>2, <1>4, <1>5

LEMMA CarriedIs ==
  ASSUME NEW S, NEW s \in Turn(S), NEW f, f = [s EXCEPT !.count1 = @ + 1]
  PROVE  /\ f \in Turn(S)
         /\ Fields(f, s.digest, s.state, s.count1 + 1, s.count2, s.at, s.ok)
  BY DEF Turn, Fields

LEMMA HashedIs ==
  ASSUME NEW S, Symbols(S), NEW s \in Turn(S), NEW f, f = [sha256Hash(s) EXCEPT !.at = 0]
  PROVE  /\ f \in Turn(S)
         /\ Fields(f, Append(s.digest, s.state), Zeros(BlockLen), s.count1, s.count2, 0, s.ok)
<1>1. Fields(f, Append(s.digest, s.state), Zeros(BlockLen), s.count1, s.count2, 0, s.ok)
  BY DEF Turn, sha256Hash, Fields
<1>2. Append(s.digest, s.state) \in Seq(BlockOf(S))
  BY DEF Turn
<1>3. sha256Hash(s) \in Turn(S)
  BY <1>2, ZerosType DEF Turn, sha256Hash
<1>4. \A c \in Turn(S) : [c EXCEPT !.at = 0] \in Turn(S)
  BY DEF Turn
<1> QED
  BY <1>1, <1>3, <1>4

\* r is what is left of s after a byte that leads to this block and this count.
Updated(r, s, state, count1, low) ==
  IF low = 0 /\ s.count1 = WordMod - 1 THEN ~r.ok
  ELSE IF s.at + 1 = BlockLen
       THEN Fields(r, Append(s.digest, state), Zeros(BlockLen), count1, low, 0, TRUE)
       ELSE Fields(r, s.digest, state, count1, low, s.at + 1, TRUE)

LEMMA UpdateByteIs ==
  ASSUME NEW S, Symbols(S), NEW s \in Turn(S), s.ok, NEW b \in S,
         NEW low \in Nat, low = (s.count2 + Bits) % WordMod,
         NEW state, state = [s.state EXCEPT ![s.at + 1] = b],
         NEW count1, count1 = s.count1 + (IF low = 0 THEN 1 ELSE 0),
         NEW r, r = UpdateByte(s, b)
  PROVE  r \in Turn(S) /\ Updated(r, s, state, count1, low)
<1>1. PICK f : f = [s EXCEPT !.state[s.at + 1] = b, !.at = @ + 1, !.count2 = low]
  OBVIOUS
<1>2. f \in Turn(S) /\ Fields(f, s.digest, state, s.count1, low, s.at + 1, TRUE)
  <2>1. s.ok = TRUE
    BY DEF Turn
  <2> QED
    BY <1>1, <2>1, FilledIs
<1>3. PICK n : n = IF low = 0 THEN [f EXCEPT !.count1 = @ + 1] ELSE f
  OBVIOUS
<1>4. n \in Turn(S) /\ Fields(n, s.digest, state, count1, low, s.at + 1, TRUE)
  <2>1. CASE low = 0
    <3>1. n = [f EXCEPT !.count1 = @ + 1]
      BY <1>3, <2>1
    <3>2. n \in Turn(S) /\ Fields(n, f.digest, f.state, f.count1 + 1, f.count2, f.at, f.ok)
      BY <1>2, <3>1, CarriedIs
    <3>3. count1 = s.count1 + 1
      BY <2>1
    <3> QED
      BY <1>2, <3>2, <3>3 DEF Fields
  <2>2. CASE low # 0
    <3>1. n = f /\ count1 = s.count1
      BY <1>3, <2>2 DEF Turn
    <3> QED
      BY <1>2, <3>1
  <2> QED
    BY <2>1, <2>2
<1>5. r = IF low = 0 /\ s.count1 = WordMod - 1 THEN [f EXCEPT !.ok = FALSE]
          ELSE IF n.at = BlockLen THEN [sha256Hash(n) EXCEPT !.at = 0] ELSE n
  BY <1>1, <1>3 DEF UpdateByte, Carry
<1>6. [f EXCEPT !.ok = FALSE] \in Turn(S) /\ ~[f EXCEPT !.ok = FALSE].ok
  BY <1>2 DEF Turn
<1>7. PICK h : h = [sha256Hash(n) EXCEPT !.at = 0]
  OBVIOUS
<1>8. h \in Turn(S) /\ Fields(h, Append(s.digest, state), Zeros(BlockLen), count1, low, 0, TRUE)
  <2>1. h \in Turn(S) /\ Fields(h, Append(n.digest, n.state), Zeros(BlockLen), n.count1, n.count2, 0, n.ok)
    BY <1>4, <1>7, HashedIs
  <2> QED
    BY <1>4, <2>1 DEF Fields
<1>9. n.at = s.at + 1
  BY <1>4 DEF Fields
<1> QED
  BY <1>4, <1>5, <1>6, <1>7, <1>8, <1>9, Zenon DEF Updated

LEMMA LowIs ==
  ASSUME NEW S, NEW s \in Turn(S)
  PROVE  \E low \in Nat : low = (s.count2 + Bits) % WordMod
<1>1. s.count2 + Bits \in Int /\ WordMod \in Nat \ {0}
  BY Sizes DEF Turn
<1> QED
  BY <1>1, Remainder

LEMMA UpdateByteType ==
  ASSUME NEW S, Symbols(S), NEW s \in Turn(S), NEW b \in S
  PROVE  UpdateByte(s, b) \in Turn(S)
<1>1. CASE ~s.ok
  BY <1>1 DEF UpdateByte
<1>2. CASE s.ok
  <2>1. PICK low \in Nat : low = (s.count2 + Bits) % WordMod
    BY LowIs
  <2> QED
    BY <1>2, <2>1, UpdateByteIs
<1> QED
  BY <1>1, <1>2

\* A byte is taken in if it is counted.
LEMMA ByteIsTaken ==
  ASSUME NEW S, Symbols(S), NEW m \in Seq(S), NEW s, Running(s, m, S), NEW b \in S, Countable(Len(m))
  PROVE  IF Countable(Len(m) + 1) THEN Running(UpdateByte(s, b), Append(m, b), S)
         ELSE ~UpdateByte(s, b).ok
<1> DEFINE n == Len(m)
           q == n \div BlockLen
           r == n % BlockLen
           t == Append(m, b)
<1>0. PICK state : state = [s.state EXCEPT ![s.at + 1] = b]
  OBVIOUS
<1>1. /\ s \in Turn(S) /\ s.ok /\ TakesIn(s.digest, q, m, S) /\ s.state \in BlockOf(S)
      /\ Waits(s.state, m)
      /\ s.count1 = n \div Round /\ s.count2 = Bits * (n % Round) /\ s.at = r
  BY DEF Running, HasTaken
<1>2. BlockLen \in Nat \ {0} /\ WordMod \in Nat \ {0} /\ Round \in Nat \ {0} /\ BlockLen > 2
  BY Sizes
<1>3. n \in Nat /\ t \in Seq(S) /\ Len(t) = n + 1 /\ t[n + 1] = b /\ \A j \in 1 .. n : t[j] = m[j]
  OBVIOUS
<1>4. n = BlockLen * q + r /\ r \in 0 .. BlockLen - 1 /\ q \in Nat
  BY <1>2, <1>3, Division
<1> HIDE DEF n, q, r, t
<1>5. BlockLen * q \in Nat
  BY <1>2, <1>4
<1>6. PICK low \in Nat : low = (s.count2 + Bits) % WordMod
  BY <1>1, LowIs
<1>7. PICK count1 : count1 = s.count1 + (IF low = 0 THEN 1 ELSE 0)
  OBVIOUS
<1>8. low = Bits * ((n + 1) % Round) /\ count1 = (n + 1) \div Round
  <2>1. low = (Bits * (n % Round) + Bits) % WordMod
    BY <1>1, <1>6
  <2> QED
    BY <1>1, <1>3, <1>7, <2>1, CountNext
<1>9. (low = 0 /\ s.count1 = WordMod - 1) <=> ~Countable(n + 1)
  <2>1. n \div Round < WordMod /\ n \div Round \in Nat
    <3>1. n \div Round \in Nat
      BY <1>2, <1>3, Division
    <3> QED
      BY <1>3, <3>1, CountIs DEF Countable, n
  <2>2. Countable(n + 1) <=> count1 < WordMod
    <3>1. n + 1 \in Nat
      BY <1>3
    <3> QED
      BY <1>8, <3>1, CountIs DEF Countable
  <2> QED
    BY <1>1, <1>2, <1>7, <2>1, <2>2
<1>10. PICK u : u = UpdateByte(s, b)
  OBVIOUS
<1>11. u \in Turn(S) /\ Updated(u, s, state, count1, low)
  BY <1>0, <1>1, <1>6, <1>7, <1>10, UpdateByteIs
<1>12. TakesIn(s.digest, q, t, S)
  <2>1. \A j \in 1 .. BlockLen * q : m[j] = t[j]
    BY <1>3, <1>4, <1>5
  <2> QED
    BY <1>1, <1>4, <2>1, OnlyThose
<1>13. state \in BlockOf(S) /\ \A i \in 1 .. BlockLen :
         state[i] = IF i <= r + 1 THEN t[BlockLen * q + i] ELSE Zero
  <2>1. state \in BlockOf(S)
    BY <1>0, <1>1 DEF BlockOf
  <2>2. ASSUME NEW i \in 1 .. BlockLen
        PROVE  state[i] = IF i <= r + 1 THEN t[BlockLen * q + i] ELSE Zero
    <3>1. s.state[i] = IF i <= r THEN m[BlockLen * q + i] ELSE Zero
      BY <1>1 DEF Waits, n, q, r
    <3>2. state[i] = IF i = r + 1 THEN b ELSE s.state[i]
      BY <1>0, <1>1 DEF BlockOf
    <3>3. /\ i <= r => BlockLen * q + i \in 1 .. n
          /\ i = r + 1 => BlockLen * q + i = n + 1
      BY <1>2, <1>4, <1>5
    <3>4. i <= r => t[BlockLen * q + i] = m[BlockLen * q + i]
      BY <1>3, <3>3
    <3>5. i = r + 1 => t[BlockLen * q + i] = b
      BY <1>3, <3>3
    <3>6. i <= r + 1 <=> i <= r \/ i = r + 1
      BY <1>4
    <3>7. i <= r => i # r + 1
      BY <1>4
    <3> QED
      BY <3>1, <3>2, <3>4, <3>5, <3>6, <3>7, Zenon
  <2> QED
    BY <2>1, <2>2
<1>14. IF r = BlockLen - 1 THEN (n + 1) \div BlockLen = q + 1 /\ (n + 1) % BlockLen = 0
       ELSE (n + 1) \div BlockLen = q /\ (n + 1) % BlockLen = r + 1
  BY <1>2, <1>3, Successor, Zenon DEF q, r
<1>15. CASE ~Countable(n + 1)
  BY <1>9, <1>10, <1>11, <1>15 DEF n, Updated
<1>16. CASE Countable(n + 1) /\ r + 1 = BlockLen
  <2>1. (n + 1) \div BlockLen = q + 1 /\ (n + 1) % BlockLen = 0
    BY <1>2, <1>4, <1>14, <1>16
  <2>2. Fields(u, Append(s.digest, state), Zeros(BlockLen), count1, low, 0, TRUE)
    BY <1>1, <1>9, <1>11, <1>16 DEF Updated
  <2>3. TakesIn(Append(s.digest, state), q + 1, t, S)
    <3>1. \A i \in 1 .. BlockLen : t[BlockLen * q + i] = state[i]
      BY <1>13, <1>16
    <3> QED
      BY <1>4, <1>12, <1>13, <3>1, NextBlock
  <2>4. Waits(Zeros(BlockLen), t)
    BY <1>2, <1>3, <2>1 DEF Waits, Zeros
  <2>5. Running(u, t, S)
    BY <1>3, <1>8, <1>11, <2>1, <2>2, <2>3, <2>4, ZerosType DEF Fields, Running, HasTaken
  <2> QED
    BY <1>10, <1>16, <2>5 DEF n, t
<1>17. CASE Countable(n + 1) /\ r + 1 # BlockLen
  <2>1. (n + 1) \div BlockLen = q /\ (n + 1) % BlockLen = r + 1
    BY <1>2, <1>4, <1>14, <1>17
  <2>2. Fields(u, s.digest, state, count1, low, r + 1, TRUE)
    BY <1>1, <1>9, <1>11, <1>17 DEF Updated
  <2>3. Waits(state, t)
    BY <1>3, <1>13, <2>1 DEF Waits
  <2>4. Running(u, t, S)
    BY <1>3, <1>8, <1>11, <1>12, <1>13, <2>1, <2>2, <2>3 DEF Fields, Running, HasTaken
  <2> QED
    BY <1>10, <1>17, <2>4 DEF n, t
<1> QED
  BY <1>15, <1>16, <1>17

-----------------------------------------------------------------------------
(* An update                                                                 *)

ShaContext(S) ==
  [digest : Seq(BlockOf(S)), state : BlockOf(S), count1 : Nat, count2 : Nat, ok : BOOLEAN]

First(c) ==
  [digest |-> c.digest, state |-> c.state, count1 |-> c.count1, count2 |-> c.count2,
   at |-> data_count(c), ok |-> TRUE]

\* The successive states of the loop over s.
Turns(s, first, g, S) ==
  /\ g \in [0 .. Len(s) -> Turn(S)]
  /\ g[0] = first /\ \A i \in 1 .. Len(s) : g[i] = UpdateByte(g[i - 1], s[i])

LEMMA UpdateTurns ==
  ASSUME NEW S, Symbols(S), NEW c, First(c) \in Turn(S), NEW s \in Seq(S)
  PROVE  \E g : /\ Turns(s, First(c), g, S)
               /\ core_algo_sha256Update(c, s) =
                    [digest |-> g[Len(s)].digest, state |-> g[Len(s)].state, ok |-> g[Len(s)].ok,
                     count1 |-> IF g[Len(s)].ok THEN g[Len(s)].count1 ELSE c.count1,
                     count2 |-> IF g[Len(s)].ok THEN g[Len(s)].count2 ELSE c.count2]
<1> DEFINE n == Len(s)
           first == First(c)
           step == [i \in Nat |-> [t \in Turn(S) |-> IF i \in 1 .. n THEN UpdateByte(t, s[i]) ELSE t]]
           Chain(g) == g = [i \in 0 .. n |-> IF i = 0 THEN first ELSE UpdateByte(g[i - 1], s[i])]
           turn == CHOOSE g : Chain(g)
<1>1. n \in Nat /\ \A i \in 1 .. n : s[i] \in S
  OBVIOUS
<1>2. core_algo_sha256Update(c, s) =
        [digest |-> turn[n].digest, state |-> turn[n].state, ok |-> turn[n].ok,
         count1 |-> IF turn[n].ok THEN turn[n].count1 ELSE c.count1,
         count2 |-> IF turn[n].ok THEN turn[n].count2 ELSE c.count2]
  BY DEF core_algo_sha256Update, First
<1> HIDE DEF n, first
<1>3. first \in Turn(S)
  BY DEF first
<1>4. \A i \in 1 .. n : \A t \in Turn(S) : UpdateByte(t, s[i]) \in Turn(S)
  BY <1>1, UpdateByteType
<1>5. step \in [Nat -> [Turn(S) -> Turn(S)]]
  <2>1. \A i \in Nat : \A t \in Turn(S) : (IF i \in 1 .. n THEN UpdateByte(t, s[i]) ELSE t) \in Turn(S)
    BY <1>4
  <2> QED
    BY <2>1
<1>6. \A i \in 1 .. n : \A t \in Turn(S) : step[i][t] = UpdateByte(t, s[i])
  <2>1. \A i \in 1 .. n : step[i] = [t \in Turn(S) |-> UpdateByte(t, s[i])]
    BY <1>1
  <2> HIDE DEF step
  <2> QED
    BY <2>1
<1> HIDE DEF step
<1>7. PICK g \in [0 .. n -> Turn(S)] : Recursion(g, n, first, step)
  BY <1>1, <1>3, <1>5, RecursionExists
<1>8. Chain(g)
  <2>1. \A i \in 0 .. n : i = 0 \/ i \in 1 .. n
    BY <1>1
  <2>2. \A i \in 1 .. n : g[i - 1] \in Turn(S)
    BY <1>1
  <2>3. \A i \in 0 .. n : g[i] = IF i = 0 THEN first ELSE UpdateByte(g[i - 1], s[i])
    BY <1>6, <1>7, <2>1, <2>2 DEF Recursion
  <2> QED
    BY <2>3
<1>9. Chain(turn)
  <2> HIDE DEF Chain
  <2> QED
    BY <1>8
<1> HIDE DEF turn
<1>10. turn[0] = first /\ \A i \in 1 .. n : turn[i] = UpdateByte(turn[i - 1], s[i])
  <2>1. \A i \in 0 .. n : turn[i] = IF i = 0 THEN first ELSE UpdateByte(turn[i - 1], s[i])
    BY <1>9
  <2>2. 0 \in 0 .. n /\ \A i \in 1 .. n : i \in 0 .. n /\ i # 0
    BY <1>1
  <2> HIDE DEF Chain
  <2>3. turn[0] = first
    BY <2>1, <2>2
  <2> QED
    BY <2>1, <2>2, <2>3
<1>11. turn \in [0 .. n -> Turn(S)]
  <2> DEFINE T == {k \in Nat : k \in 0 .. n => turn[k] \in Turn(S)}
  <2>1. 0 \in T
    BY <1>3, <1>10
  <2>2. ASSUME NEW k \in Nat, k \in T PROVE k + 1 \in T
    <3> SUFFICES ASSUME k + 1 \in 0 .. n PROVE turn[k + 1] \in Turn(S)
      OBVIOUS
    <3>1. turn[k] \in Turn(S) /\ k + 1 \in 1 .. n /\ (k + 1) - 1 = k
      BY <1>1, <2>2
    <3>2. turn[k + 1] = UpdateByte(turn[k], s[k + 1])
      BY <1>10, <3>1
    <3> QED
      BY <1>4, <3>1, <3>2
  <2>3. Nat \subseteq T
    <3> HIDE DEF T
    <3> QED
      BY <2>1, <2>2, InductionOverNat
  <2>4. \A k \in 0 .. n : turn[k] \in Turn(S)
    BY <1>1, <2>3
  <2>5. turn = [i \in 0 .. n |-> turn[i]]
    BY <1>9
  <2> QED
    BY <2>4, <2>5
<1> HIDE DEF Chain
<1>12. Turns(s, First(c), turn, S)
  BY <1>10, <1>11 DEF Turns, n, first
<1> QED
  BY <1>2, <1>12 DEF n

LEMMA FewerAreCountable ==
  ASSUME NEW a \in Nat, NEW b \in Nat, a <= b, Countable(b)
  PROVE  Countable(a)
<1>1. PICK c \in Nat : b = a + c
  <2>1. b - a \in Nat /\ b = a + (b - a)
    OBVIOUS
  <2> QED
    BY <2>1
<1>2. Bits \in Nat /\ WordMod \in Nat
  BY Sizes
<1>3. (a + c) * Bits = a * Bits + c * Bits /\ c * Bits \in Nat /\ a * Bits \in Nat
  BY <1>2
<1>4. WordMod * WordMod \in Nat
  BY <1>2
<1> QED
  BY <1>1, <1>3, <1>4 DEF Countable

LEMMA OneByteMore ==
  ASSUME NEW S, NEW m \in Seq(S), NEW s \in Seq(S), NEW k \in Nat, k + 1 \in 1 .. Len(s)
  PROVE  /\ m \o SubSeq(s, 1, k) \in Seq(S) /\ Len(m \o SubSeq(s, 1, k)) = Len(m) + k
         /\ Append(m \o SubSeq(s, 1, k), s[k + 1]) = m \o SubSeq(s, 1, k + 1)
<1>1. SubSeq(s, 1, k) \in Seq(S) /\ Len(SubSeq(s, 1, k)) = k
  OBVIOUS
<1>2. SubSeq(s, 1, k + 1) = Append(SubSeq(s, 1, k), s[k + 1])
  OBVIOUS
<1>3. \A t \in Seq(S) : \A b \in S : Append(m \o t, b) = m \o Append(t, b)
  OBVIOUS
<1>4. s[k + 1] \in S
  OBVIOUS
<1>5. PICK t \in Seq(S) : t = SubSeq(s, 1, k) /\ Len(t) = k
  BY <1>1
<1>6. m \o t \in Seq(S) /\ Len(m \o t) = Len(m) + k
  BY <1>5
<1>7. Append(m \o t, s[k + 1]) = m \o Append(t, s[k + 1])
  BY <1>3, <1>4
<1> QED
  BY <1>2, <1>5, <1>6, <1>7, Zenon

\* A piece of a message is taken in if the whole can be counted.
LEMMA PieceIsTaken ==
  ASSUME NEW S, Symbols(S), NEW m \in Seq(S), NEW c \in ShaContext(S), HasTaken(c, m, S),
         Countable(Len(m)), NEW s \in Seq(S)
  PROVE  LET r == core_algo_sha256Update(c, s)
         IN IF Countable(Len(m) + Len(s)) THEN r \in ShaContext(S) /\ HasTaken(r, m \o s, S)
            ELSE r.ok = FALSE
<1> DEFINE r == core_algo_sha256Update(c, s)
<1>1. data_count(c) = Len(m) % BlockLen
  <2>1. Len(m) \in Nat
    OBVIOUS
  <2> QED
    BY <2>1, WaitingIs DEF HasTaken, data_count
<1>2. Len(m) \in Nat /\ Len(s) \in Nat /\ Len(m) % BlockLen \in Nat
  <2>1. BlockLen \in Nat \ {0} /\ Len(m) \in Nat /\ Len(s) \in Nat
    BY Sizes
  <2> QED
    BY <2>1, Division
<1>3. Running(First(c), m, S)
  <2>1. First(c) \in Turn(S)
    BY <1>1, <1>2 DEF First, Turn, ShaContext
  <2>2. HasTaken(First(c), m, S)
    BY DEF HasTaken, First
  <2> QED
    BY <1>1, <2>1, <2>2 DEF Running, First
<1>4. PICK g : /\ Turns(s, First(c), g, S)
               /\ r = [digest |-> g[Len(s)].digest, state |-> g[Len(s)].state, ok |-> g[Len(s)].ok,
                       count1 |-> IF g[Len(s)].ok THEN g[Len(s)].count1 ELSE c.count1,
                       count2 |-> IF g[Len(s)].ok THEN g[Len(s)].count2 ELSE c.count2]
  BY <1>3, UpdateTurns DEF Running
<1> HIDE DEF r
<1> DEFINE T == {k \in Nat : k \in 0 .. Len(s) =>
                   IF Countable(Len(m) + k) THEN Running(g[k], m \o SubSeq(s, 1, k), S) ELSE ~g[k].ok}
<1>5. 0 \in T
  <2>1. m \o SubSeq(s, 1, 0) = m
    OBVIOUS
  <2>2. g[0] = First(c)
    BY <1>4 DEF Turns
  <2>3. Len(m) + 0 = Len(m)
    OBVIOUS
  <2> QED
    BY <1>3, <2>1, <2>2, <2>3
<1>6. ASSUME NEW k \in Nat, k \in T PROVE k + 1 \in T
  <2> SUFFICES ASSUME k + 1 \in 0 .. Len(s)
               PROVE  IF Countable(Len(m) + (k + 1)) THEN Running(g[k + 1], m \o SubSeq(s, 1, k + 1), S)
                      ELSE ~g[k + 1].ok
    OBVIOUS
  <2>1. k \in 0 .. Len(s) /\ k + 1 \in 1 .. Len(s) /\ (k + 1) - 1 = k
    BY <1>2
  <2>2. g[k + 1] = UpdateByte(g[k], s[k + 1]) /\ s[k + 1] \in S
    BY <1>4, <2>1 DEF Turns
  <2>3. IF Countable(Len(m) + k) THEN Running(g[k], m \o SubSeq(s, 1, k), S) ELSE ~g[k].ok
    BY <1>6, <2>1
  <2>4. Len(m) + (k + 1) = (Len(m) + k) + 1 /\ Len(m) + k \in Nat /\ Len(m) + (k + 1) \in Nat
    BY <1>2
  <2>5. PICK t : t = m \o SubSeq(s, 1, k)
    OBVIOUS
  <2>6. t \in Seq(S) /\ Len(t) = Len(m) + k /\ Append(t, s[k + 1]) = m \o SubSeq(s, 1, k + 1)
    BY <2>1, <2>5, OneByteMore
  <2>7. CASE Countable(Len(m) + k)
    <3>1. IF Countable(Len(t) + 1) THEN Running(UpdateByte(g[k], s[k + 1]), Append(t, s[k + 1]), S)
          ELSE ~UpdateByte(g[k], s[k + 1]).ok
      BY <2>2, <2>3, <2>5, <2>6, <2>7, ByteIsTaken
    <3> QED
      BY <2>2, <2>4, <2>6, <3>1
  <2>8. CASE ~Countable(Len(m) + k)
    <3>1. ~Countable(Len(m) + (k + 1))
      <4>1. Len(m) + k <= Len(m) + (k + 1)
        BY <2>4
      <4> QED
        BY <2>4, <2>8, <4>1, FewerAreCountable
    <3>2. ~g[k].ok /\ g[k + 1] = g[k]
      BY <2>2, <2>3, <2>8 DEF UpdateByte
    <3> QED
      BY <3>1, <3>2
  <2> QED
    BY <2>7, <2>8
<1>7. Nat \subseteq T
  <2> HIDE DEF T
  <2> QED
    BY <1>5, <1>6, InductionOverNat
<1>8. IF Countable(Len(m) + Len(s)) THEN Running(g[Len(s)], m \o s, S) ELSE ~g[Len(s)].ok
  <2>1. SubSeq(s, 1, Len(s)) = s
    OBVIOUS
  <2>2. Len(s) \in T /\ Len(s) \in 0 .. Len(s)
    BY <1>2, <1>7
  <2>3. IF Countable(Len(m) + Len(s)) THEN Running(g[Len(s)], m \o SubSeq(s, 1, Len(s)), S)
        ELSE ~g[Len(s)].ok
    BY <2>2
  <2> QED
    BY <2>1, <2>3
<1>9. g[Len(s)] \in Turn(S)
  BY <1>2, <1>4 DEF Turns
<1> HIDE DEF T
<1>10. CASE Countable(Len(m) + Len(s))
  <2>1. Running(g[Len(s)], m \o s, S)
    BY <1>8, <1>10
  <2>2. r = [digest |-> g[Len(s)].digest, state |-> g[Len(s)].state, ok |-> g[Len(s)].ok,
             count1 |-> g[Len(s)].count1, count2 |-> g[Len(s)].count2]
    BY <1>4, <2>1 DEF Running, HasTaken
  <2>3. r \in ShaContext(S)
    BY <1>9, <2>2 DEF ShaContext, Turn
  <2>4. HasTaken(r, m \o s, S)
    BY <2>1, <2>2 DEF Running, HasTaken
  <2> QED
    BY <1>10, <2>3, <2>4 DEF r
<1>11. CASE ~Countable(Len(m) + Len(s))
  <2>1. r.ok = g[Len(s)].ok /\ g[Len(s)].ok = FALSE
    BY <1>4, <1>8, <1>9, <1>11 DEF Turn
  <2> QED
    BY <1>11, <2>1 DEF r
<1> QED
  BY <1>10, <1>11

-----------------------------------------------------------------------------
(* The padding                                                               *)

\* The blocks that hold what is left of n bytes, the end mark and the length.
Closing(n) == IF n % BlockLen <= BlockLen - 3 THEN 1 ELSE 2

\* n bytes of m, the end mark, and the words w as the last of last bytes.
Close(m, w, last, j) ==
  IF j <= Len(m) THEN m[j] ELSE IF j = Len(m) + 1 THEN End
  ELSE IF j <= last - 2 THEN Zero ELSE w[j - (last - 2)]

\* The zeros of a padding are determined.
LEMMA PaddingIs ==
  ASSUME NEW n \in Nat, NEW last, last = BlockLen * ((n \div BlockLen) + Closing(n))
  PROVE  /\ last \in Nat /\ last - n - 3 \in 0 .. BlockLen - 1
         /\ \A z \in 0 .. BlockLen - 1 : (n + 1 + z + 2) % BlockLen = 0 <=> z = last - n - 3
<1>1. BlockLen \in Nat \ {0} /\ BlockLen > 2
  BY Sizes
<1>2. PICK q \in Nat, r \in 0 .. BlockLen - 1 : q = n \div BlockLen /\ r = n % BlockLen /\ n = BlockLen * q + r
  BY <1>1, Division
<1>3. PICK k \in Nat : k = Closing(n) /\ k = IF r <= BlockLen - 3 THEN 1 ELSE 2
  BY <1>2 DEF Closing
<1>4. BlockLen * q \in Nat /\ BlockLen * (q + k) = BlockLen * q + BlockLen * k
  BY <1>1, <1>2, <1>3
<1>5. BlockLen * 1 = BlockLen /\ BlockLen * 2 = BlockLen + BlockLen
  BY <1>1
<1>6. last = BlockLen * q + BlockLen * k /\ last = BlockLen * (q + k)
  BY <1>2, <1>3, <1>4
<1>7. last \in Nat /\ last - n - 3 \in 0 .. BlockLen - 1
  BY <1>1, <1>2, <1>3, <1>4, <1>5, <1>6
<1>8. ASSUME NEW z \in 0 .. BlockLen - 1
      PROVE  (n + 1 + z + 2) % BlockLen = 0 <=> z = last - n - 3
  <2>1. PICK t \in Nat : t = n + 1 + z + 2
    OBVIOUS
  <2>2. PICK x \in Nat, y \in 0 .. BlockLen - 1 : y = t % BlockLen /\ t = BlockLen * x + y
    BY <1>1, <2>1, Division
  <2>3. ASSUME y = 0 PROVE z = last - n - 3
    <3>1. BlockLen * x \in Nat
      BY <1>1
    <3>2. ~(x < q + k)
      <4>1. x < q + k => BlockLen * x + BlockLen <= BlockLen * (q + k)
        BY <1>1, NextMultiple
      <4> QED
        BY <1>1, <1>2, <1>6, <1>7, <2>1, <2>2, <2>3, <3>1, <4>1
    <3>3. ~(q + k < x)
      <4>1. q + k < x => BlockLen * (q + k) + BlockLen <= BlockLen * x
        BY <1>1, NextMultiple
      <4> QED
        BY <1>1, <1>2, <1>6, <1>7, <2>1, <2>2, <2>3, <3>1, <4>1
    <3>4. x = q + k
      BY <3>2, <3>3
    <3> QED
      BY <1>6, <1>7, <2>1, <2>2, <2>3, <3>4
  <2>4. ASSUME z = last - n - 3 PROVE y = 0
    <3>1. PICK p \in Nat : p = q + k
      OBVIOUS
    <3>2. t = BlockLen * p + 0 /\ 0 \in 0 .. BlockLen - 1
      BY <1>1, <1>6, <1>7, <2>1, <2>4, <3>1
    <3>3. t % BlockLen = 0
      BY <1>1, <3>2, Parts
    <3> QED
      BY <2>2, <3>3
  <2> QED
    BY <2>1, <2>2, <2>3, <2>4
<1> QED
  BY <1>7, <1>8

\* x is s and then t, of lengths a and b.
Joins(x, s, a, t, b) ==
  Len(x) = a + b /\ \A j \in 1 .. a + b : x[j] = IF j <= a THEN s[j] ELSE t[j - a]

LEMMA Concatenation ==
  ASSUME NEW S, NEW s \in Seq(S), NEW t \in Seq(S)
  PROVE  s \o t \in Seq(S) /\ Joins(s \o t, s, Len(s), t, Len(t))
  BY DEF Joins

LEMMA PaddedIs ==
  ASSUME NEW S, Symbols(S), NEW m \in Seq(S), NEW w \in Seq(S), Len(w) = 2,
         NEW q, q = (Len(m) \div BlockLen) + Closing(Len(m)),
         NEW d, NEW p, TakesIn(d, q, p, S),
         \A j \in 1 .. BlockLen * q : p[j] = Close(m, w, BlockLen * q, j)
  PROVE  d = Padded(m, w)
<1> DEFINE n == Len(m)
           last == BlockLen * q
           zeros == CHOOSE z \in 0 .. BlockLen - 1 : (n + 1 + z + 2) % BlockLen = 0
           t == m \o <<End>> \o Zeros(zeros) \o w
<1>1. n \in Nat /\ BlockLen \in Nat \ {0} /\ BlockLen > 2
  BY Sizes
<1>2. q \in Nat /\ q # 0
  <2>1. n \div BlockLen \in Nat
    BY <1>1, Division
  <2> QED
    BY <2>1 DEF Closing
<1>3. Padded(m, w) = InBlocks(t)
  BY DEF Padded
<1> HIDE DEF last
<1>4. last \in Nat /\ last - n - 3 \in 0 .. BlockLen - 1 /\ zeros = last - n - 3
  <2>1. last = BlockLen * ((n \div BlockLen) + Closing(n))
    BY DEF last
  <2>2. /\ last \in Nat /\ last - n - 3 \in 0 .. BlockLen - 1
        /\ \A z \in 0 .. BlockLen - 1 : (n + 1 + z + 2) % BlockLen = 0 <=> z = last - n - 3
    BY <1>1, <2>1, PaddingIs
  <2> QED
    BY <2>2
<1> HIDE DEF zeros, n
<1>5. PICK z \in Nat : z = zeros /\ last = n + 1 + z + 2
  BY <1>1, <1>4
<1>6. t \in Seq(S) /\ Len(t) = last /\ \A j \in 1 .. last : t[j] = Close(m, w, last, j)
  <2>1. Zeros(z) \in Seq(S) /\ Len(Zeros(z)) = z /\ \A j \in 1 .. z : Zeros(z)[j] = Zero
    BY DEF Zeros, Symbols
  <2>2. /\ m \o <<End>> \in Seq(S) /\ Len(m \o <<End>>) = n + 1
        /\ \A j \in 1 .. n + 1 : (m \o <<End>>)[j] = IF j <= n THEN m[j] ELSE End
    <3>1. PICK e \in Seq(S) : e = <<End>> /\ Len(e) = 1 /\ e[1] = End
      <4>1. \A x \in S : <<x>> \in Seq(S) /\ Len(<<x>>) = 1 /\ <<x>>[1] = x
        OBVIOUS
      <4> QED
        BY <4>1 DEF Symbols
    <3>2. m \o e \in Seq(S) /\ Joins(m \o e, m, n, e, 1)
      BY <3>1, Concatenation DEF n
    <3>3. \A j \in 1 .. n + 1 : ~(j <= n) => j - n = 1
      BY <1>1
    <3> QED
      BY <3>1, <3>2, <3>3 DEF Joins
  <2>3. PICK u \in Seq(S) : u = m \o <<End>>
    BY <2>2
  <2>4. PICK v \in Seq(S) : v = Zeros(z)
    BY <2>1
  <2>5. PICK a \in Nat, b \in Nat : a = n + 1 /\ b = a + z
    BY <1>1
  <2>6. /\ u \o v \in Seq(S) /\ Len(u \o v) = b
        /\ \A j \in 1 .. b : (u \o v)[j] = IF j <= a THEN u[j] ELSE v[j - a]
    <3>1. Len(u) = a /\ Len(v) = z
      BY <2>1, <2>2, <2>3, <2>4, <2>5
    <3>2. u \o v \in Seq(S) /\ Joins(u \o v, u, a, v, z)
      BY <3>1, Concatenation
    <3> QED
      BY <2>5, <3>2 DEF Joins
  <2>7. PICK x \in Seq(S) : x = u \o v
    BY <2>6
  <2>8. /\ x \o w \in Seq(S) /\ Len(x \o w) = b + 2
        /\ \A j \in 1 .. b + 2 : (x \o w)[j] = IF j <= b THEN x[j] ELSE w[j - b]
    <3>1. Len(x) = b
      BY <2>6, <2>7
    <3>2. x \o w \in Seq(S) /\ Joins(x \o w, x, b, w, 2)
      BY <3>1, Concatenation
    <3> QED
      BY <3>2 DEF Joins
  <2>9. t = x \o w
    BY <1>5, <2>3, <2>4, <2>7
  <2> HIDE DEF t
  <2>10. last = b + 2
    BY <1>1, <1>5, <2>5
  <2>11. ASSUME NEW j \in 1 .. b + 2 PROVE t[j] = Close(m, w, last, j)
    <3>1. t[j] = IF j <= b THEN x[j] ELSE w[j - b]
      BY <2>8, <2>9
    <3>2. j <= b => x[j] = IF j <= a THEN u[j] ELSE v[j - a]
      BY <2>6, <2>7
    <3>3. j <= a => u[j] = IF j <= n THEN m[j] ELSE End
      BY <2>2, <2>3, <2>5
    <3>4. j > a /\ j <= b => v[j - a] = Zero
      <4>1. j > a /\ j <= b => j - a \in 1 .. z
        BY <2>5
      <4> QED
        BY <2>1, <2>4, <4>1
    <3>5. /\ j <= a => j <= b
          /\ j <= a => j <= n \/ j = a
          /\ j <= b \/ j > b
          /\ j > b => ~(j <= b) /\ ~(j <= a) /\ ~(j <= n) /\ j # a
          /\ j > a => ~(j <= a) /\ ~(j <= n) /\ j # a
          /\ ~(a <= n) /\ (j <= a \/ j > a)
      BY <1>1, <2>5
    <3>6. last - 2 = b
      BY <2>10
    <3>7. Close(m, w, last, j) =
            IF j <= n THEN m[j] ELSE IF j = a THEN End ELSE IF j <= b THEN Zero ELSE w[j - b]
      BY <2>5, <3>6 DEF Close, n
    <3> QED
      BY <3>1, <3>2, <3>3, <3>4, <3>5, <3>7, Zenon
  <2> QED
    BY <2>8, <2>9, <2>10, <2>11
<1> HIDE DEF t
<1>7. TakesIn(InBlocks(t), q, t, S)
  <2>1. last \div BlockLen = q
    <3>1. last = BlockLen * q + 0 /\ 0 \in 0 .. BlockLen - 1
      BY <1>1, <1>4 DEF last
    <3> QED
      BY <1>1, <1>2, <3>1, Parts
  <2> QED
    BY <1>6, <2>1, InBlocksTakesIn
<1>8. TakesIn(d, q, t, S)
  <2>1. \A j \in 1 .. BlockLen * q : p[j] = t[j]
    BY <1>6 DEF last
  <2> QED
    BY <1>2, <2>1, OnlyThose
<1> QED
  BY <1>2, <1>3, <1>7, <1>8, OneWay

\* The rest of m, the end mark and zeros, up to the place of the words w.
LastBlock(b, m, q, r, w) ==
  \A i \in 1 .. BlockLen :
    b[i] = IF i <= r THEN m[BlockLen * q + i] ELSE IF i = r + 1 THEN End
           ELSE IF i <= Room THEN Zero ELSE w[i - Room]

\* The same without room for the words, and a block for them.
FullBlock(b, m, q, r) ==
  \A i \in 1 .. BlockLen :
    b[i] = IF i <= r THEN m[BlockLen * q + i] ELSE IF i = r + 1 THEN End ELSE Zero

WordBlock(b, w) ==
  \A i \in 1 .. BlockLen : b[i] = IF i <= Room THEN Zero ELSE w[i - Room]

LEMMA ClosedInOne ==
  ASSUME NEW S, Symbols(S), NEW m \in Seq(S), NEW w \in Seq(S), Len(w) = 2,
         NEW q, q = Len(m) \div BlockLen, NEW r, r = Len(m) % BlockLen, r <= BlockLen - 3,
         NEW d, TakesIn(d, q, m, S), NEW b \in BlockOf(S), LastBlock(b, m, q, r, w)
  PROVE  Append(d, b) = Padded(m, w)
<1>1. BlockLen \in Nat \ {0} /\ BlockLen > 2
  BY Sizes
<1>2. PICK n \in Nat : n = Len(m)
  OBVIOUS
<1>3. n = BlockLen * q + r /\ r \in 0 .. BlockLen - 1 /\ q \in Nat
  BY <1>1, <1>2, Division
<1>4. PICK a \in Nat : a = BlockLen * q /\ BlockLen * (q + 1) = a + BlockLen
  <2>1. BlockLen * q \in Nat /\ BlockLen * (q + 1) = BlockLen * q + BlockLen
    BY <1>1, <1>3
  <2> QED
    BY <2>1
<1>5. PICK last \in Nat : last = a + BlockLen
  BY <1>1, <1>4
<1>6. PICK p : p = [j \in 1 .. last |-> Close(m, w, last, j)]
  OBVIOUS
<1>7. \A j \in 1 .. last : p[j] = Close(m, w, last, j)
  BY <1>6
<1>8. TakesIn(d, q, p, S)
  <2>1. ASSUME NEW j \in 1 .. a PROVE m[j] = p[j]
    <3>1. j \in 1 .. last /\ j <= n
      BY <1>1, <1>3, <1>4, <1>5
    <3> QED
      BY <1>2, <1>7, <3>1 DEF Close
  <2> QED
    BY <1>3, <1>4, <2>1, OnlyThose
<1>9. ASSUME NEW i \in 1 .. BlockLen PROVE p[a + i] = b[i]
  <2>1. a + i \in 1 .. last
    BY <1>1, <1>4, <1>5
  <2>2. /\ a + i <= n <=> i <= r
        /\ a + i = n + 1 <=> i = r + 1
        /\ a + i <= last - 2 <=> i <= Room
        /\ (a + i) - (last - 2) = i - Room
    BY <1>1, <1>3, <1>4, <1>5 DEF Room
  <2>3. p[a + i] = IF i <= r THEN m[a + i] ELSE IF i = r + 1 THEN End
                   ELSE IF i <= Room THEN Zero ELSE w[i - Room]
    BY <1>2, <1>7, <2>1, <2>2 DEF Close
  <2> QED
    BY <1>4, <2>3 DEF LastBlock
<1>10. TakesIn(Append(d, b), q + 1, p, S)
  BY <1>3, <1>4, <1>8, <1>9, NextBlock
<1>11. q + 1 = (Len(m) \div BlockLen) + Closing(Len(m))
  BY DEF Closing
<1>12. \A j \in 1 .. BlockLen * (q + 1) : p[j] = Close(m, w, BlockLen * (q + 1), j)
  BY <1>4, <1>5, <1>7
<1>13. PICK x : x = q + 1
  OBVIOUS
<1>14. /\ x = (Len(m) \div BlockLen) + Closing(Len(m))
       /\ TakesIn(Append(d, b), x, p, S)
       /\ \A j \in 1 .. BlockLen * x : p[j] = Close(m, w, BlockLen * x, j)
  BY <1>10, <1>11, <1>12, <1>13
<1> QED
  BY <1>14, PaddedIs, Zenon

LEMMA ClosedInTwo ==
  ASSUME NEW S, Symbols(S), NEW m \in Seq(S), NEW w \in Seq(S), Len(w) = 2,
         NEW q, q = Len(m) \div BlockLen, NEW r, r = Len(m) % BlockLen, r > BlockLen - 3,
         NEW d, TakesIn(d, q, m, S), NEW b \in BlockOf(S), FullBlock(b, m, q, r),
         NEW c \in BlockOf(S), WordBlock(c, w)
  PROVE  Append(Append(d, b), c) = Padded(m, w)
<1>1. BlockLen \in Nat \ {0} /\ BlockLen > 2
  BY Sizes
<1>2. PICK n \in Nat : n = Len(m)
  OBVIOUS
<1>3. n = BlockLen * q + r /\ r \in 0 .. BlockLen - 1 /\ q \in Nat
  BY <1>1, <1>2, Division
<1>4. PICK a \in Nat : /\ a = BlockLen * q /\ BlockLen * (q + 1) = a + BlockLen
                       /\ BlockLen * (q + 2) = a + BlockLen + BlockLen
  <2>1. /\ BlockLen * q \in Nat /\ BlockLen * (q + 1) = BlockLen * q + BlockLen
        /\ BlockLen * (q + 2) = BlockLen * q + BlockLen + BlockLen
    BY <1>1, <1>3
  <2> QED
    BY <2>1
<1>5. PICK last \in Nat : last = a + BlockLen + BlockLen
  BY <1>1, <1>4
<1>6. PICK p : p = [j \in 1 .. last |-> Close(m, w, last, j)]
  OBVIOUS
<1>7. \A j \in 1 .. last : p[j] = Close(m, w, last, j)
  BY <1>6
<1>8. TakesIn(d, q, p, S)
  <2>1. ASSUME NEW j \in 1 .. a PROVE m[j] = p[j]
    <3>1. j \in 1 .. last /\ j <= n
      BY <1>1, <1>3, <1>4, <1>5
    <3> QED
      BY <1>2, <1>7, <3>1 DEF Close
  <2> QED
    BY <1>3, <1>4, <2>1, OnlyThose
<1>9. ASSUME NEW i \in 1 .. BlockLen PROVE p[a + i] = b[i]
  <2>1. a + i \in 1 .. last
    BY <1>1, <1>4, <1>5
  <2>2. /\ a + i <= n <=> i <= r
        /\ a + i = n + 1 <=> i = r + 1
        /\ a + i <= last - 2
    BY <1>1, <1>3, <1>4, <1>5
  <2>3. p[a + i] = IF i <= r THEN m[a + i] ELSE IF i = r + 1 THEN End ELSE Zero
    BY <1>2, <1>7, <2>1, <2>2 DEF Close
  <2> QED
    BY <1>4, <2>3 DEF FullBlock
<1>10. ASSUME NEW i \in 1 .. BlockLen PROVE p[(a + BlockLen) + i] = c[i]
  <2>1. (a + BlockLen) + i \in 1 .. last
    BY <1>1, <1>4, <1>5
  <2>2. /\ ~((a + BlockLen) + i <= n) /\ (a + BlockLen) + i # n + 1
        /\ (a + BlockLen) + i <= last - 2 <=> i <= Room
        /\ ((a + BlockLen) + i) - (last - 2) = i - Room
    BY <1>1, <1>3, <1>4, <1>5 DEF Room
  <2>3. p[(a + BlockLen) + i] = IF i <= Room THEN Zero ELSE w[i - Room]
    BY <1>2, <1>7, <2>1, <2>2 DEF Close
  <2> QED
    BY <2>3 DEF WordBlock
<1>11. TakesIn(Append(d, b), q + 1, p, S)
  BY <1>3, <1>4, <1>8, <1>9, NextBlock
<1>12. TakesIn(Append(Append(d, b), c), (q + 1) + 1, p, S)
  <2>1. q + 1 \in Nat
    BY <1>3
  <2> QED
    BY <1>4, <1>10, <1>11, <2>1, NextBlock
<1>13. q + 2 = (Len(m) \div BlockLen) + Closing(Len(m)) /\ (q + 1) + 1 = q + 2
  <2>1. ~(r <= BlockLen - 3)
    BY <1>1, <1>3
  <2> QED
    BY <1>3, <2>1 DEF Closing
<1>14. \A j \in 1 .. BlockLen * (q + 2) : p[j] = Close(m, w, BlockLen * (q + 2), j)
  BY <1>4, <1>5, <1>7
<1>15. TakesIn(Append(Append(d, b), c), q + 2, p, S)
  BY <1>12, <1>13
<1>16. PICK x, e : x = q + 2 /\ e = Append(Append(d, b), c)
  OBVIOUS
<1>17. /\ x = (Len(m) \div BlockLen) + Closing(Len(m))
       /\ TakesIn(e, x, p, S)
       /\ \A j \in 1 .. BlockLen * x : p[j] = Close(m, w, BlockLen * x, j)
  BY <1>13, <1>14, <1>15, <1>16
<1>18. e = Padded(m, w)
  BY <1>17, PaddedIs
<1> QED
  BY <1>16, <1>18

-----------------------------------------------------------------------------
(* The digest of SHA-256                                                     *)

LEMMA WordsOfCount ==
  ASSUME NEW S, Symbols(S), NEW m \in Seq(S), Countable(Len(m)), NEW c, HasTaken(c, m, S)
  PROVE  /\ Word(c.count1) \in S /\ Word(c.count2) \in S
         /\ Sha(m) = Padded(m, <<Word(c.count1), Word(c.count2)>>)
<1>1. Len(m) \in Nat /\ WordMod \in Nat \ {0} /\ Round \in Nat \ {0} /\ Bits \in Nat
  BY Sizes
<1>2. Len(m) \div Round \in Nat /\ Len(m) % Round \in Nat /\ Len(m) \div Round < WordMod
  <2>1. Len(m) \div Round \in Nat /\ Len(m) % Round \in Nat
    <3>1. PICK n \in Nat, k \in Nat \ {0} : n = Len(m) /\ k = Round
      BY <1>1
    <3>2. n \div k \in Nat /\ n % k \in Nat
      BY Division
    <3> QED
      BY <3>1, <3>2
  <2> QED
    BY <1>1, <2>1, CountIs DEF Countable
<1>3. High(m) = c.count1
  <2>1. High(m) = (Len(m) \div Round) % WordMod
    BY <1>1, CountIs DEF High
  <2>2. (Len(m) \div Round) % WordMod = Len(m) \div Round
    <3>1. PICK n \in Nat, k \in Nat \ {0} : n = Len(m) \div Round /\ k = WordMod
      BY <1>1, <1>2
    <3>2. n < k => n % k = n
      BY Remainder
    <3> QED
      BY <1>2, <3>1, <3>2
  <2> QED
    BY <2>1, <2>2 DEF HasTaken
<1>4. Low(m) = c.count2
  BY <1>1, CountIs DEF Low, HasTaken
<1>5. c.count1 \in Nat /\ c.count2 \in Nat
  <2>1. Bits * (Len(m) % Round) \in Nat
    BY <1>1, <1>2
  <2> QED
    BY <1>2, <2>1 DEF HasTaken
<1> QED
  BY <1>3, <1>4, <1>5 DEF Sha, Symbols

LEMMA FinalIsSha ==
  ASSUME NEW S, Symbols(S), NEW m \in Seq(S), Countable(Len(m)), NEW c \in ShaContext(S), HasTaken(c, m, S)
  PROVE  core_algo_sha256Final(c).digest = Sha(m)
<1>1. BlockLen \in Nat \ {0} /\ BlockLen > 2 /\ Len(m) \in Nat
  BY Sizes
<1>2. PICK q, r : q = Len(m) \div BlockLen /\ r = Len(m) % BlockLen
  OBVIOUS
<1>3. q \in Nat /\ r \in 0 .. BlockLen - 1
  BY <1>1, <1>2, Division
<1>4. data_count(c) = r
  BY <1>1, <1>2, WaitingIs DEF HasTaken, data_count
<1>5. PICK w \in Seq(S) : /\ w = <<Word(c.count1), Word(c.count2)>> /\ Len(w) = 2
                          /\ w[1] = Word(c.count1) /\ w[2] = Word(c.count2)
  <2>1. Word(c.count1) \in S /\ Word(c.count2) \in S
    BY WordsOfCount
  <2>2. \A x \in S, y \in S : <<x, y>> \in Seq(S) /\ Len(<<x, y>>) = 2
    OBVIOUS
  <2> QED
    BY <2>1, <2>2
<1>6. Sha(m) = Padded(m, w)
  BY <1>5, WordsOfCount
<1>7. /\ c.digest \in Seq(BlockOf(S)) /\ c.state \in BlockOf(S) /\ TakesIn(c.digest, q, m, S)
      /\ \A i \in 1 .. BlockLen : c.state[i] = IF i <= r THEN m[BlockLen * q + i] ELSE Zero
  BY <1>2 DEF ShaContext, HasTaken, Waits
<1>8. PICK b : b = [c.state EXCEPT ![r + 1] = End]
  OBVIOUS
<1>9. b \in BlockOf(S) /\ FullBlock(b, m, q, r)
  <2>1. b \in BlockOf(S) /\ \A i \in 1 .. BlockLen : b[i] = IF i = r + 1 THEN End ELSE c.state[i]
    BY <1>7, <1>8 DEF BlockOf, Symbols
  <2>2. \A i \in 1 .. BlockLen : i <= r => i # r + 1
    BY <1>3
  <2> QED
    BY <1>7, <2>1, <2>2 DEF FullBlock
<1>10. PICK ended : ended = [c EXCEPT !.state[data_count(c) + 1] = End]
  OBVIOUS
<1>11. ended.digest = c.digest /\ ended.state = b /\ ended.count1 = c.count1 /\ ended.count2 = c.count2
  BY <1>4, <1>8, <1>10 DEF ShaContext
<1>12. PICK last : last = IF NoRoom(data_count(c)) THEN sha256Hash(ended) ELSE ended
  OBVIOUS
<1>13. core_algo_sha256Final(c) =
         sha256Hash([last EXCEPT !.state[Room + 1] = Word(c.count1), !.state[Room + 2] = Word(c.count2)])
  BY <1>10, <1>12 DEF core_algo_sha256Final
<1>14. ended \in ShaContext(S)
  <2>1. [c EXCEPT !.state = b] \in ShaContext(S)
    BY <1>9 DEF ShaContext
  <2>2. ended = [c EXCEPT !.state = b]
    BY <1>4, <1>8, <1>10
  <2> QED
    BY <2>1, <2>2
<1>15. ASSUME last \in ShaContext(S)
       PROVE  core_algo_sha256Final(c).digest =
                Append(last.digest, [last.state EXCEPT ![Room + 1] = w[1], ![Room + 2] = w[2]])
  BY <1>5, <1>13, <1>15 DEF ShaContext, sha256Hash
<1>16. ASSUME NEW s \in BlockOf(S)
       PROVE  /\ [s EXCEPT ![Room + 1] = w[1], ![Room + 2] = w[2]] \in BlockOf(S)
              /\ \A i \in 1 .. BlockLen : [s EXCEPT ![Room + 1] = w[1], ![Room + 2] = w[2]][i] =
                   IF i <= Room THEN s[i] ELSE w[i - Room]
  <2>1. Room + 1 \in 1 .. BlockLen /\ Room + 2 \in 1 .. BlockLen /\ Room + 1 # Room + 2
    BY <1>1 DEF Room
  <2>2. w[1] \in S /\ w[2] \in S
    BY <1>5
  <2>3. [s EXCEPT ![Room + 1] = w[1], ![Room + 2] = w[2]] \in BlockOf(S)
    BY <2>2 DEF BlockOf
  <2>4. ASSUME NEW i \in 1 .. BlockLen
        PROVE  [s EXCEPT ![Room + 1] = w[1], ![Room + 2] = w[2]][i] = IF i <= Room THEN s[i] ELSE w[i - Room]
    <3>1. \/ i <= Room /\ i # Room + 1 /\ i # Room + 2
          \/ ~(i <= Room) /\ i = Room + 1 /\ i - Room = 1 /\ i # Room + 2
          \/ ~(i <= Room) /\ i = Room + 2 /\ i - Room = 2 /\ i # Room + 1
      BY <1>1 DEF Room
    <3> QED
      BY <2>1, <3>1 DEF BlockOf
  <2> QED
    BY <2>3, <2>4
<1>17. PICK d : d = c.digest /\ TakesIn(d, q, m, S)
  BY <1>7
<1>18. CASE ~NoRoom(r)
  <2>1. last = ended /\ r <= BlockLen - 3
    BY <1>1, <1>3, <1>4, <1>12, <1>18 DEF NoRoom, Room
  <2>2. PICK s : s = [b EXCEPT ![Room + 1] = w[1], ![Room + 2] = w[2]]
    OBVIOUS
  <2>3. core_algo_sha256Final(c).digest = Append(c.digest, s)
    BY <1>11, <1>14, <1>15, <2>1, <2>2
  <2>4. s \in BlockOf(S) /\ LastBlock(s, m, q, r, w)
    <3>1. s \in BlockOf(S) /\ \A i \in 1 .. BlockLen : s[i] = IF i <= Room THEN b[i] ELSE w[i - Room]
      BY <1>9, <1>16, <2>2
    <3>2. \A i \in 1 .. BlockLen : ~(i <= Room) => ~(i <= r) /\ i # r + 1
      BY <1>1, <1>3, <2>1 DEF Room
    <3> QED
      BY <1>9, <3>1, <3>2 DEF FullBlock, LastBlock
  <2> QED
    <3>1. /\ w \in Seq(S) /\ Len(w) = 2 /\ q = Len(m) \div BlockLen /\ r = Len(m) % BlockLen
          /\ r <= BlockLen - 3 /\ TakesIn(d, q, m, S) /\ s \in BlockOf(S) /\ LastBlock(s, m, q, r, w)
      BY <1>2, <1>5, <1>17, <2>1, <2>4
    <3>2. Append(d, s) = Padded(m, w)
      BY <3>1, ClosedInOne
    <3> QED
      BY <1>6, <1>17, <2>3, <3>2
<1>19. CASE NoRoom(r)
  <2>1. last = sha256Hash(ended) /\ r > BlockLen - 3
    BY <1>1, <1>3, <1>4, <1>12, <1>19 DEF NoRoom, Room
  <2>2. last.digest = Append(c.digest, b) /\ last.state = Zeros(BlockLen) /\ last \in ShaContext(S)
    <3>1. last.digest = Append(c.digest, b) /\ last.state = Zeros(BlockLen)
      BY <1>11, <1>14, <2>1 DEF ShaContext, sha256Hash
    <3>2. Append(ended.digest, ended.state) \in Seq(BlockOf(S))
      BY <1>14 DEF ShaContext
    <3>3. sha256Hash(ended) \in ShaContext(S)
      BY <1>14, <3>2, ZerosType DEF ShaContext, sha256Hash
    <3> QED
      BY <2>1, <3>1, <3>3
  <2>3. PICK s : s = [Zeros(BlockLen) EXCEPT ![Room + 1] = w[1], ![Room + 2] = w[2]]
    OBVIOUS
  <2>4. core_algo_sha256Final(c).digest = Append(Append(c.digest, b), s)
    BY <1>15, <2>2, <2>3
  <2>5. s \in BlockOf(S) /\ WordBlock(s, w)
    <3>1. s \in BlockOf(S) /\ \A i \in 1 .. BlockLen : s[i] = IF i <= Room THEN Zeros(BlockLen)[i] ELSE w[i - Room]
      BY <1>16, <2>3, ZerosType
    <3> QED
      BY <3>1 DEF WordBlock, Zeros
  <2> QED
    <3>1. /\ w \in Seq(S) /\ Len(w) = 2 /\ q = Len(m) \div BlockLen /\ r = Len(m) % BlockLen
          /\ r > BlockLen - 3 /\ TakesIn(d, q, m, S) /\ b \in BlockOf(S) /\ FullBlock(b, m, q, r)
          /\ s \in BlockOf(S) /\ WordBlock(s, w)
      BY <1>2, <1>5, <1>9, <1>17, <2>1, <2>5
    <3>2. Append(Append(d, b), s) = Padded(m, w)
      BY <3>1, ClosedInTwo
    <3> QED
      BY <1>6, <1>17, <2>4, <3>2
<1> QED
  BY <1>18, <1>19

-----------------------------------------------------------------------------
(* Whole messages, and HMAC                                                  *)

Everything(T) == T \cup {Zero, End} \cup {Word(w) : w \in Nat}

LEMMA EverythingHasSymbols ==
  ASSUME NEW T
  PROVE  Symbols(Everything(T)) /\ T \subseteq Everything(T)
  BY DEF Symbols, Everything

\* Two blocks can be counted.
LEMMA BlocksAreCountable ==
  ASSUME NEW n \in Nat, n <= BlockLen + BlockLen
  PROVE  Countable(n)
<1>1. PICK k \in Nat \ {0} : Round = BlockLen * k
  BY Sizes
<1>2. /\ BlockLen \in Nat /\ BlockLen > 2 /\ Bits \in Nat \ {0} /\ Round \in Nat \ {0}
      /\ WordMod \in Nat \ {0} /\ WordMod = Bits * Round
  BY Sizes
<1>3. BlockLen <= Round
  <2>1. BlockLen * 0 + BlockLen <= BlockLen * k
    BY <1>1, <1>2, NextMultiple
  <2> QED
    BY <1>1, <1>2, <2>1
<1>4. Round <= WordMod
  <2>1. Round * 0 + Round <= Round * Bits
    BY <1>2, NextMultiple
  <2>2. Round * Bits = Bits * Round
    BY <1>2
  <2> QED
    BY <1>2, <2>1, <2>2
<1>5. PICK q \in Nat, r \in 0 .. Round - 1 : q = n \div Round /\ n = Round * q + r
  <2>1. n = Round * (n \div Round) + (n % Round) /\ n % Round \in 0 .. Round - 1 /\ n \div Round \in Nat
    BY <1>2, Division
  <2> QED
    BY <2>1
<1>6. q <= 2
  <2>1. 2 < q => Round * 2 + Round <= Round * q
    BY <1>2, <1>5, NextMultiple
  <2>2. Round * 2 = Round + Round
    BY <1>2
  <2>3. Round * q \in Nat
    BY <1>2, <1>5
  <2> QED
    BY <1>2, <1>3, <1>5, <2>1, <2>2, <2>3
<1>7. q < WordMod
  BY <1>2, <1>3, <1>4, <1>5, <1>6
<1> QED
  BY <1>5, <1>7, CountIs DEF Countable

LEMMA InitialHasTaken ==
  ASSUME NEW S, Symbols(S)
  PROVE  /\ core_algo_sha256Initial \in ShaContext(S) /\ HasTaken(core_algo_sha256Initial, <<>>, S)
         /\ Countable(Len(<<>>)) /\ <<>> \in Seq(S)
<1>1. BlockLen \in Nat \ {0} /\ Round \in Nat \ {0} /\ Bits \in Nat /\ BlockLen > 2
  BY Sizes
<1>2. ASSUME NEW k \in Nat \ {0} PROVE 0 \div k = 0 /\ 0 % k = 0
  <2>1. 0 = k * 0 + 0 /\ 0 \in 0 .. k - 1
    OBVIOUS
  <2> QED
    BY <2>1, Parts
<1>3. PICK z \in Nat : z = 0
  OBVIOUS
<1>4. core_algo_sha256Initial \in ShaContext(S)
  BY ZerosType DEF core_algo_sha256Initial, ShaContext
<1>5. TakesIn(<<>>, 0, <<>>, S)
  BY DEF TakesIn
<1>6. Waits(Zeros(BlockLen), <<>>)
  BY <1>1, <1>2 DEF Waits, Zeros
<1>7. Bits * 0 = 0
  BY <1>1
<1>8. HasTaken(core_algo_sha256Initial, <<>>, S)
  BY <1>1, <1>2, <1>5, <1>6, <1>7, ZerosType DEF HasTaken, core_algo_sha256Initial
<1>9. Countable(0)
  <2>1. 0 <= BlockLen + BlockLen
    BY <1>1
  <2> QED
    BY <2>1, BlocksAreCountable
<1> QED
  BY <1>4, <1>8, <1>9

\* A context that has only been given s.
LEMMA WholeIsTaken ==
  ASSUME NEW S, Symbols(S), NEW s \in Seq(S), Countable(Len(s))
  PROVE  /\ core_algo_sha256Update(core_algo_sha256Initial, s) \in ShaContext(S)
         /\ HasTaken(core_algo_sha256Update(core_algo_sha256Initial, s), s, S)
<1>1. PICK c \in ShaContext(S), m \in Seq(S) :
        c = core_algo_sha256Initial /\ m = <<>> /\ HasTaken(c, m, S) /\ Countable(Len(m))
  BY InitialHasTaken
<1>2. Len(m) + Len(s) = Len(s) /\ m \o s = s
  BY <1>1
<1>3. LET r == core_algo_sha256Update(c, s)
      IN IF Countable(Len(m) + Len(s)) THEN r \in ShaContext(S) /\ HasTaken(r, m \o s, S)
         ELSE r.ok = FALSE
  BY <1>1, PieceIsTaken
<1> QED
  BY <1>1, <1>2, <1>3

LEMMA DigestIsSha ==
  ASSUME NEW T, NEW s \in Seq(T), Countable(Len(s))
  PROVE  core_algo_sha256Final(core_algo_sha256Update(core_algo_sha256Initial, s)).digest = Sha(s)
<1>1. PICK S : S = Everything(T)
  OBVIOUS
<1>2. Symbols(S) /\ s \in Seq(S)
  BY <1>1, EverythingHasSymbols, SeqOfMore
<1> QED
  BY <1>2, WholeIsTaken, FinalIsSha

\* A digest as bytes, whatever it is.
ByteOf(d) == {<<"digest", d, i>> : i \in 1 .. DigestLen}

LEMMA BytesType ==
  ASSUME NEW d
  PROVE  Bytes(d) \in Seq(ByteOf(d)) /\ Len(Bytes(d)) = DigestLen /\ DigestLen \in 1 .. BlockLen
  BY HashAssumption DEF Bytes, ByteOf

PadOf(secret, pad) == core_algo_xor(HmacKey(secret), pad)

IsPad(p) == p \in Seq({p[i] : i \in 1 .. BlockLen}) /\ Len(p) = BlockLen

LEMMA PadType ==
  ASSUME NEW k, NEW pad
  PROVE  IsPad(core_algo_xor(k, pad))
<1>1. BlockLen \in Nat
  BY Sizes
<1>2. PICK s, T : s = core_algo_xor(k, pad) /\ T = {s[i] : i \in 1 .. BlockLen}
  OBVIOUS
<1>3. s \in [1 .. BlockLen -> T]
  BY <1>2 DEF core_algo_xor
<1>4. s \in Seq(T) /\ Len(s) = BlockLen
  BY <1>1, <1>3
<1>5. IsPad(s)
  BY <1>2, <1>4 DEF IsPad
<1> QED
  BY <1>2, <1>5

\* HMAC by what the code pads the key with.
LEMMA HmacIs ==
  ASSUME NEW T, NEW secret \in Seq(T), Countable(Len(secret)), NEW m
  PROVE  Hmac(secret, m) = Sha(PadOf(secret, "opad") \o Bytes(Sha(PadOf(secret, "ipad") \o m)))
<1> DEFINE k == IF Len(secret) > BlockLen THEN Bytes(Sha(secret)) ELSE secret
           padded(pad) == [i \in 1 .. BlockLen |-> <<"xor", pad, IF i \in DOMAIN k THEN k[i] ELSE Zero>>]
<1>1. HmacKey(secret) = k
  BY DigestIsSha DEF HmacKey, KeyIsLong
<1>2. DOMAIN k = 1 .. Len(k) /\ Len(k) \in Nat
  <2>1. DOMAIN secret = 1 .. Len(secret) /\ Len(secret) \in Nat
    OBVIOUS
  <2>2. PICK b, d : b = Bytes(d) /\ d = Sha(secret)
    OBVIOUS
  <2>3. b \in Seq(ByteOf(d)) 
    BY <2>2, BytesType
  <2>4. DOMAIN b = 1 .. Len(b) /\ Len(b) \in Nat
    BY <2>3
  <2> QED
    BY <2>1, <2>2, <2>4
<1>3. Hmac(secret, m) = Sha(padded("opad") \o Bytes(Sha(padded("ipad") \o m)))
  BY DEF Hmac
<1> HIDE DEF k
<1>4. ASSUME NEW pad PROVE PadOf(secret, pad) = padded(pad)
  <2>1. ASSUME NEW i \in 1 .. BlockLen PROVE i \in DOMAIN k <=> i <= Len(k)
    <3>1. BlockLen \in Nat
      BY Sizes
    <3> QED
      BY <1>2, <3>1
  <2> QED
    BY <1>1, <2>1 DEF PadOf, core_algo_xor
<1> QED
  BY <1>3, <1>4

\* The last call of HMAC, after m.
LEMMA HmacFinalIs ==
  ASSUME NEW T, NEW secret \in Seq(T), Countable(Len(secret)), NEW m,
         NEW S, Symbols(S), PadOf(secret, "ipad") \o m \in Seq(S), Countable(Len(PadOf(secret, "ipad") \o m)),
         NEW c \in ShaContext(S), HasTaken(c, PadOf(secret, "ipad") \o m, S)
  PROVE  core_algo_hmacFinal(c, k_pad1(secret)).digest = Hmac(secret, m)
<1>1. PICK d : d = Sha(PadOf(secret, "ipad") \o m)
  OBVIOUS
<1>2. core_algo_sha256Final(c).digest = d
  BY <1>1, FinalIsSha
<1>3. PICK pad : pad = PadOf(secret, "opad") /\ pad = k_pad1(secret)
  BY DEF PadOf, k_pad1
<1>4. PICK U : /\ U = Everything({pad[i] : i \in 1 .. BlockLen} \cup ByteOf(d))
  OBVIOUS
<1>5. Symbols(U) /\ {pad[i] : i \in 1 .. BlockLen} \subseteq U /\ ByteOf(d) \subseteq U
  BY <1>4, EverythingHasSymbols
<1>6. pad \in Seq(U) /\ Len(pad) = BlockLen
  <2>1. IsPad(pad)
    BY <1>3, PadType DEF PadOf
  <2> QED
    BY <1>5, <2>1, SeqOfMore DEF IsPad
<1>7. PICK b \in Seq(U) : b = Bytes(d) /\ Len(b) = DigestLen /\ DigestLen \in 1 .. BlockLen
  BY <1>5, BytesType, SeqOfMore
<1>8. BlockLen \in Nat
  BY Sizes
<1>9. Countable(Len(pad)) /\ Countable(Len(pad) + Len(b)) /\ Len(pad \o b) = Len(pad) + Len(b)
  <2>1. BlockLen <= BlockLen + BlockLen /\ BlockLen + DigestLen \in Nat /\ BlockLen + DigestLen <= BlockLen + BlockLen
    BY <1>7, <1>8
  <2>2. Countable(BlockLen) /\ Countable(BlockLen + DigestLen)
    BY <1>8, <2>1, BlocksAreCountable
  <2>3. Len(pad \o b) = Len(pad) + Len(b)
    BY <1>6, <1>7, Concatenation DEF Joins
  <2>4. Len(pad) = BlockLen /\ Len(b) = DigestLen
    BY <1>6, <1>7
  <2> QED
    BY <2>2, <2>3, <2>4
<1>10. PICK a : a = core_algo_sha256Update(core_algo_sha256Initial, pad)
  OBVIOUS
<1>11. a \in ShaContext(U) /\ HasTaken(a, pad, U)
  BY <1>5, <1>6, <1>9, <1>10, WholeIsTaken
<1>12. PICK e : e = core_algo_sha256Update(a, b)
  OBVIOUS
<1>13. e \in ShaContext(U) /\ HasTaken(e, pad \o b, U)
  BY <1>5, <1>6, <1>7, <1>9, <1>11, <1>12, PieceIsTaken
<1>14. core_algo_sha256Final(e).digest = Sha(pad \o b)
  <2>1. pad \o b \in Seq(U) /\ Countable(Len(pad \o b))
    BY <1>6, <1>7, <1>9
  <2> QED
    BY <1>5, <1>13, <2>1, FinalIsSha
<1>15. core_algo_hmacFinal(c, k_pad1(secret)) = core_algo_sha256Final(e)
  BY <1>2, <1>3, <1>7, <1>10, <1>12 DEF core_algo_hmacFinal
<1> QED
  BY <1>1, <1>3, <1>7, <1>14, <1>15, HmacIs

-----------------------------------------------------------------------------
(* The context of MD5                                                        *)

MdContext(S) == [digest : Seq(BlockOf(S)), buffer : BlockOf(S), total0 : Nat, total1 : Nat]

\* Of m, whole blocks have been taken in, and the rest waits in the buffer.
MdBlocks(digest, buffer, m, S) ==
  /\ TakesIn(digest, Len(m) \div BlockLen, m, S)
  /\ \A i \in 1 .. Len(m) % BlockLen : buffer[i] = m[BlockLen * (Len(m) \div BlockLen) + i]

MdCounts(c, n) == c.total0 = n % WordMod /\ c.total1 = (n \div WordMod) % WordMod

MdHasTaken(c, m, S) == MdBlocks(c.digest, c.buffer, m, S) /\ MdCounts(c, Len(m))

MdStored(new, old, left, s) ==
  \A i \in 1 .. BlockLen : new[i] = IF i \in left + 1 .. left + Len(s) THEN s[i - left] ELSE old[i]

MdBuffered(f, c, left, s, S) ==
  /\ f \in MdContext(S) /\ f.digest = c.digest /\ f.total0 = c.total0 /\ f.total1 = c.total1
  /\ MdStored(f.buffer, c.buffer, left, s)

LEMMA BufferIs ==
  ASSUME NEW S, NEW c \in MdContext(S), NEW left \in Nat, NEW s \in Seq(S)
  PROVE  MdBuffered(Filled(c, left, s), c, left, s, S)
<1>5. PICK f : f = Filled(c, left, s)
  OBVIOUS
<1>1. PICK b : b = [i \in 1 .. BlockLen |-> IF i \in left + 1 .. left + Len(s) THEN s[i - left] ELSE c.buffer[i]]
  OBVIOUS
<1>2. f = [c EXCEPT !.buffer = b]
  BY <1>1, <1>5 DEF Filled
<1>3. b \in BlockOf(S)
  <2>1. ASSUME NEW i \in 1 .. BlockLen
        PROVE  (IF i \in left + 1 .. left + Len(s) THEN s[i - left] ELSE c.buffer[i]) \in S
    <3>1. c.buffer[i] \in S
      BY DEF MdContext, BlockOf
    <3>2. i \in left + 1 .. left + Len(s) => i - left \in 1 .. Len(s)
      BY Sizes
    <3> QED
      BY <3>1, <3>2
  <2> QED
    BY <1>1, <2>1 DEF BlockOf
<1>4. MdStored(b, c.buffer, left, s)
  BY <1>1 DEF MdStored
<1> QED
  BY <1>2, <1>3, <1>4, <1>5 DEF MdContext, MdBuffered

\* A block taken in.
LEMMA ProcessedIs ==
  ASSUME NEW S, NEW c \in MdContext(S), NEW b \in BlockOf(S), NEW f, f = algo_internal_md5_process(c, b)
  PROVE  /\ f \in MdContext(S) /\ f.digest = Append(c.digest, b) /\ f.buffer = c.buffer
         /\ f.total0 = c.total0 /\ f.total1 = c.total1
<1>1. Append(c.digest, b) \in Seq(BlockOf(S))
  BY DEF MdContext
<1> QED
  BY <1>1 DEF algo_internal_md5_process, MdContext

LEMMA CountedIs ==
  ASSUME NEW S, NEW c \in MdContext(S), NEW n \in Nat, MdCounts(c, n),
         NEW l \in Nat, l < WordMod, NEW f, f = Counted(c, l)
  PROVE  f \in MdContext(S) /\ f.digest = c.digest /\ f.buffer = c.buffer /\ MdCounts(f, n + l)
<1>1. PICK k \in Nat \ {0} : k = WordMod
  BY Sizes
<1>2. PICK q \in Nat, r \in 0 .. k - 1 : q = n \div k /\ r = n % k /\ n = k * q + r
  BY Division
<1>3. PICK p \in Nat : p = q % k
  <2>1. q % k \in Nat
    BY Division
  <2> QED
    BY <2>1
<1>4. c.total0 = r /\ c.total1 = p
  BY <1>1, <1>2, <1>3 DEF MdCounts
<1>5. PICK low : low = (r + l) % k
  OBVIOUS
<1>6. PICK high : high = IF low < l THEN (p + 1) % k ELSE p
  OBVIOUS
<1>7. f = [c EXCEPT !.total0 = low, !.total1 = high]
  BY <1>1, <1>4, <1>5, <1>6 DEF Counted
<1>10. low \in Nat /\ high \in Nat => f \in MdContext(S) /\ f.digest = c.digest /\ f.buffer = c.buffer
  <2>1. \A a \in Nat, b \in Nat : [c EXCEPT !.total0 = a, !.total1 = b] \in MdContext(S)
    BY DEF MdContext
  <2> QED
    BY <1>7, <2>1 DEF MdContext
<1>8. CASE r + l < k
  <2>1. low = r + l
    <3>1. \A a \in 0 .. k - 1 : a % k = a
      OBVIOUS
    <3> QED
      BY <1>5, <1>8, <3>1
  <2>2. high = p
    BY <1>6, <2>1
  <2>3. n + l = k * q + (r + l)
    <3>1. k * q \in Nat
      OBVIOUS
    <3> QED
      BY <1>2, <3>1
  <2>4. PICK a \in 0 .. k - 1 : a = r + l
    BY <1>8
  <2>5. (n + l) \div k = q /\ (n + l) % k = r + l
    <3>1. PICK e : e = n + l
      OBVIOUS
    <3>2. e = k * q + a
      BY <2>3, <2>4, <3>1
    <3>3. e \div k = q /\ e % k = a
      BY <3>2, Parts
    <3> QED
      BY <2>4, <3>1, <3>3
  <2>6. MdCounts(f, n + l)
    BY <1>1, <1>3, <1>7, <2>1, <2>2, <2>5 DEF MdCounts, MdContext
  <2> QED
    BY <1>3, <2>1, <2>2, <2>6, <1>10
<1>9. CASE ~(r + l < k)
  <2>1. PICK a \in 0 .. k - 1 : r + l = k + a
    <3>1. r + l - k \in 0 .. k - 1 /\ r + l = k + (r + l - k)
      BY <1>1, <1>9
    <3> QED
      BY <3>1
  <2>2. low = a
    <3>1. r + l = k * 1 + a
      BY <2>1
    <3> QED
      BY <1>5, <3>1, Parts
  <2>3. low < l
    BY <2>1, <2>2
  <2>4. n + l = k * (q + 1) + a
    <3>1. k * q \in Nat /\ k * (q + 1) = k * q + k
      OBVIOUS
    <3> QED
      BY <1>2, <2>1, <3>1
  <2>5. (n + l) \div k = q + 1 /\ (n + l) % k = a
    <3>1. PICK e, z \in Nat : e = n + l /\ z = q + 1
      OBVIOUS
    <3>2. e = k * z + a
      BY <2>4, <3>1
    <3>3. e \div k = z /\ e % k = a
      BY <3>2, Parts
    <3> QED
      BY <3>1, <3>3
  <2>6. high = (q + 1) % k
    <3>1. p \in 0 .. k - 1
      BY <1>3, Division
    <3>2. IF p = k - 1 THEN (q + 1) % k = 0 ELSE (q + 1) % k = p + 1
      BY <1>3, Successor
    <3>3. IF p = k - 1 THEN (p + 1) % k = 0 ELSE (p + 1) % k = p + 1
      <4>1. \A b \in 0 .. k - 1 : b % k = b
        OBVIOUS
      <4>2. IF p % k = k - 1 THEN (p + 1) % k = 0 ELSE (p + 1) % k = (p % k) + 1
        BY Successor
      <4> QED
        BY <3>1, <4>1, <4>2
    <3> QED
      BY <1>6, <2>3, <3>2, <3>3
  <2>7. MdCounts(f, n + l)
    BY <1>1, <1>7, <2>2, <2>5, <2>6 DEF MdCounts, MdContext
  <2>8. high \in Nat
    BY <2>6, Division
  <2> QED
    BY <1>10, <2>2, <2>7, <2>8
<1> QED
  BY <1>8, <1>9

\* What is taken in without the buffer: y, the part of x after its first blocks.
MdRest(f, c, x, S) ==
  /\ f \in MdContext(S) /\ MdBlocks(f.digest, f.buffer, x, S)
  /\ f.total0 = c.total0 /\ f.total1 = c.total1

LEMMA RestIsTaken ==
  ASSUME NEW S, NEW c \in MdContext(S), NEW p \in Nat, NEW x, NEW y \in Seq(S),
         Len(x) = BlockLen * p + Len(y), TakesIn(c.digest, p, x, S),
         \A j \in 1 .. Len(y) : x[BlockLen * p + j] = y[j]
  PROVE  MdRest(Filled(Whole(c, y).block, 0, Whole(c, y).rest), c, x, S)
<1>18. PICK f : f = Filled(Whole(c, y).block, 0, Whole(c, y).rest)
  OBVIOUS
<1>1. BlockLen \in Nat \ {0} /\ BlockLen > 2
  BY Sizes
<1>2. PICK l \in Nat : l = Len(y)
  OBVIOUS
<1>3. PICK q \in Nat, r \in 0 .. BlockLen - 1 : q = l \div BlockLen /\ r = l % BlockLen /\ l = BlockLen * q + r
  BY <1>1, Division
<1>4. PICK a \in Nat, b \in Nat : a = BlockLen * p /\ b = BlockLen * q
  BY <1>1
<1>5. BlockLen * (p + q) = a + b /\ q * BlockLen = b
  BY <1>1, <1>4
<1>16. l = b + r /\ r \in Nat /\ r < BlockLen /\ b + r = l
  <2>1. l = b + r
    BY <1>3, <1>4
  <2> QED
    BY <1>1, <2>1
<1>17. Len(x) = a + l
  BY <1>2, <1>4
<1>6. Len(x) \div BlockLen = p + q /\ Len(x) % BlockLen = r
  <2>1. PICK n, k \in Nat : n = Len(x) /\ k = p + q
    OBVIOUS
  <2>2. n = BlockLen * k + r
    <3>1. n = (a + b) + r /\ BlockLen * k = a + b
      BY <1>5, <1>16, <1>17, <2>1
    <3> QED
      BY <3>1
  <2>3. n \div BlockLen = k /\ n % BlockLen = r
    BY <1>1, <2>2, Parts
  <2> QED
    BY <2>1, <2>3
<1>7. PICK e : e = InBlocks(y) /\ TakesIn(e, q, y, S)
  BY <1>2, <1>3, InBlocksTakesIn
<1>8. PICK d : d = c.digest \o e
  OBVIOUS
<1>9. TakesIn(d, p + q, x, S)
  <2>1. \A j \in 1 .. BlockLen * q : x[BlockLen * p + j] = y[j]
    <3>1. \A j \in 1 .. b : j \in 1 .. l
      BY <1>16
    <3> QED
      BY <1>2, <1>4, <3>1
  <2> QED
    BY <1>7, <1>8, <2>1, NextBlocks
<1>10. PICK g : g = Whole(c, y).block
  OBVIOUS
<1>11. g \in MdContext(S) /\ g.digest = d /\ g.total0 = c.total0 /\ g.total1 = c.total1
  <2>1. g = [c EXCEPT !.digest = d]
    BY <1>7, <1>8, <1>10 DEF Whole
  <2>2. d \in Seq(BlockOf(S))
    BY <1>9 DEF TakesIn
  <2>3. \A z \in Seq(BlockOf(S)) : [c EXCEPT !.digest = z] \in MdContext(S)
    BY DEF MdContext
  <2> QED
    BY <2>1, <2>2, <2>3 DEF MdContext
<1>12. PICK s : s = Whole(c, y).rest
  OBVIOUS
<1>13. s \in Seq(S) /\ Len(s) = r /\ \A i \in 1 .. r : s[i] = y[b + i]
  <2>1. s = SubSeq(y, b + 1, b + r)
    BY <1>2, <1>3, <1>4, <1>5, <1>12 DEF Whole
  <2>2. b + r <= Len(y) /\ r \in Nat
    BY <1>2, <1>16
  <2>5. IsPiece(SubSeq(y, b + 1, b + r), y, b, r, S)
    BY <2>2, PieceIs
  <2>3. s \in [1 .. r -> S] /\ \A i \in 1 .. r : s[i] = y[b + i]
    BY <2>1, <2>5 DEF IsPiece
  <2>4. \A z \in [1 .. r -> S] : z \in Seq(S) /\ Len(z) = r
    OBVIOUS
  <2> QED
    BY <2>3, <2>4
<1>14. /\ f \in MdContext(S) /\ f.digest = d /\ f.total0 = c.total0 /\ f.total1 = c.total1
       /\ MdStored(f.buffer, g.buffer, 0, s)
  <2>1. PICK z \in Nat : z = 0 /\ f = Filled(g, z, s)
    BY <1>10, <1>12, <1>18
  <2>2. g \in MdContext(S) /\ s \in Seq(S)
    BY <1>11, <1>13
  <2>3. MdBuffered(Filled(g, z, s), g, z, s, S)
    BY <2>2, BufferIs
  <2> QED
    BY <1>11, <2>1, <2>3 DEF MdBuffered
<1>15. ASSUME NEW i \in 1 .. r PROVE f.buffer[i] = x[BlockLen * (p + q) + i]
  <2>1. i \in 1 .. BlockLen /\ i \in 0 + 1 .. 0 + r /\ i - 0 = i
    BY <1>1
  <2>2. f.buffer[i] = s[i]
    BY <1>13, <1>14, <2>1 DEF MdStored
  <2>3. b + i \in 1 .. Len(y)
    BY <1>2, <1>4, <1>16
  <2>4. x[BlockLen * p + (b + i)] = y[b + i]
    BY <2>3
  <2>5. BlockLen * p + (b + i) = BlockLen * (p + q) + i
    BY <1>4, <1>5
  <2> QED
    BY <1>13, <2>2, <2>4, <2>5
<1> QED
  BY <1>6, <1>9, <1>14, <1>15, <1>18 DEF MdBlocks, MdRest

LEMMA MdPieceIsTaken ==
  ASSUME NEW S, NEW m \in Seq(S), NEW c \in MdContext(S), MdHasTaken(c, m, S),
         NEW s \in Seq(S), Len(s) < WordMod
  PROVE  algo_md5_update_ret(c, s) \in MdContext(S) /\ MdHasTaken(algo_md5_update_ret(c, s), m \o s, S)
<1>1. BlockLen \in Nat \ {0} /\ BlockLen > 2 /\ WordMod \in Nat \ {0}
  BY Sizes
<1>2. PICK n \in Nat, l \in Nat : n = Len(m) /\ l = Len(s)
  OBVIOUS
<1>3. PICK q \in Nat, r \in 0 .. BlockLen - 1 : q = n \div BlockLen /\ r = n % BlockLen /\ n = BlockLen * q + r
  BY <1>1, Division
<1>4. PICK a \in Nat : a = BlockLen * q /\ BlockLen * (q + 1) = a + BlockLen
  <2>1. BlockLen * q \in Nat /\ BlockLen * (q + 1) = BlockLen * q + BlockLen
    BY <1>1
  <2> QED
    BY <2>1
<1>12. n = a + r /\ r \in Nat /\ r < BlockLen /\ BlockLen - r \in Nat /\ BlockLen - r > 0
  BY <1>1, <1>3, <1>4
<1>5. c.total0 % BlockLen = r
  BY <1>2, <1>3, WaitingIs DEF MdHasTaken, MdCounts
<1>6. /\ TakesIn(c.digest, q, m, S) /\ MdCounts(c, n)
      /\ \A i \in 1 .. r : c.buffer[i] = m[a + i]
  BY <1>2, <1>3, <1>4 DEF MdHasTaken, MdBlocks
<1>7. PICK x \in Seq(S) : x = m \o s /\ Joins(x, m, n, s, l)
  BY <1>2, Concatenation
<1>8. Len(x) = n + l /\ \A j \in 1 .. n + l : x[j] = IF j <= n THEN m[j] ELSE s[j - n]
  BY <1>7 DEF Joins
<1>9. PICK r0 : r0 = algo_md5_update_ret(c, s)
  OBVIOUS
<1>10. CASE s = <<>>
  <2>1. r0 = c /\ x = m
    BY <1>7, <1>9, <1>10 DEF algo_md5_update_ret
  <2> QED
    BY <1>7, <1>9, <2>1
<1>11. CASE s # <<>>
  <2>1. PICK g : g = Counted(c, l)
    OBVIOUS
  <2>2. g \in MdContext(S) /\ g.digest = c.digest /\ g.buffer = c.buffer /\ MdCounts(g, n + l)
    <3>1. l < WordMod
      BY <1>2
    <3> QED
      BY <1>6, <2>1, <3>1, CountedIs
  <2>3. PICK fill \in Nat : fill = BlockLen - r
    BY <1>1
  <2>4. TakesIn(c.digest, q, x, S)
    <3>a. \A j \in 1 .. a : m[j] = x[j]
      BY <1>8, <1>12
    <3>1. \A j \in 1 .. BlockLen * q : m[j] = x[j]
      BY <1>4, <3>a
    <3> QED
      BY <1>6, <3>1, OnlyThose
  <2>5. ASSUME r0 \in MdContext(S), MdBlocks(r0.digest, r0.buffer, x, S), r0.total0 = g.total0, r0.total1 = g.total1
        PROVE  r0 \in MdContext(S) /\ MdHasTaken(r0, x, S)
    BY <1>8, <2>2, <2>5 DEF MdHasTaken, MdCounts
  <2>6. CASE r = 0
    <3>1. r0 = Filled(Whole(g, s).block, 0, Whole(g, s).rest)
      BY <1>2, <1>5, <1>9, <1>11, <2>1, <2>6 DEF algo_md5_update_ret, Fills
    <3>2. /\ Len(x) = BlockLen * q + Len(s) /\ TakesIn(g.digest, q, x, S)
          /\ \A j \in 1 .. Len(s) : x[BlockLen * q + j] = s[j]
      <4>1. n = a /\ Len(x) = a + l
        BY <1>8, <1>12, <2>6
      <4>2. ASSUME NEW j \in 1 .. l PROVE x[a + j] = s[j]
        <5>1. a + j \in 1 .. n + l /\ ~(a + j <= n) /\ (a + j) - n = j
          BY <4>1
        <5> QED
          BY <1>8, <5>1
      <4> QED
        BY <1>2, <1>4, <2>2, <2>4, <4>1, <4>2
    <3>3. /\ r0 \in MdContext(S) /\ MdBlocks(r0.digest, r0.buffer, x, S)
          /\ r0.total0 = g.total0 /\ r0.total1 = g.total1
      <4>1. MdRest(Filled(Whole(g, s).block, 0, Whole(g, s).rest), g, x, S)
        BY <2>2, <3>2, RestIsTaken
      <4> QED
        BY <3>1, <4>1 DEF MdRest
    <3> QED
      BY <1>7, <1>9, <2>5, <3>3
  <2>7. CASE r > 0 /\ l < fill
    <3>1. r0 = Filled(Whole(g, s).block, r, Whole(g, s).rest)
      BY <1>2, <1>5, <1>9, <1>11, <2>1, <2>3, <2>7 DEF algo_md5_update_ret, Fills
    <3>2. l \div BlockLen = 0
      <4>1. l \in 0 .. BlockLen - 1 /\ l = BlockLen * 0 + l
        BY <1>1, <2>3, <2>7
      <4>2. PICK z \in Nat, l1 \in 0 .. BlockLen - 1 : z = 0 /\ l1 = l /\ l = BlockLen * z + l1
        BY <4>1
      <4> QED
        BY <1>1, <4>2, Parts
    <3>3. Whole(g, s).rest = s
      <4>1. 0 * BlockLen + 1 = 1 /\ SubSeq(s, 1, Len(s)) = s
        BY <1>1
      <4> QED
        BY <1>2, <3>2, <4>1 DEF Whole
    <3>4. Whole(g, s).block = g
      <4>1. TakesIn(InBlocks(s), 0, s, S)
        BY <1>2, <3>2, InBlocksTakesIn
      <4>2. InBlocks(s) = <<>>
        BY <4>1 DEF TakesIn
      <4>3. g.digest \o <<>> = g.digest
        BY <2>2 DEF MdContext
      <4>4. [g EXCEPT !.digest = g.digest] = g
        BY <2>2 DEF MdContext
      <4> QED
        BY <4>2, <4>3, <4>4 DEF Whole
    <3>5. /\ r0 \in MdContext(S) /\ r0.digest = g.digest /\ r0.total0 = g.total0 /\ r0.total1 = g.total1
          /\ MdStored(r0.buffer, g.buffer, r, s)
      <4>1. r0 = Filled(g, r, s) /\ r \in Nat /\ g \in MdContext(S)
        BY <1>12, <2>2, <3>1, <3>3, <3>4
      <4>2. MdBuffered(Filled(g, r, s), g, r, s, S)
        BY <4>1, BufferIs
      <4> QED
        BY <4>1, <4>2 DEF MdBuffered
    <3>6. Len(x) \div BlockLen = q /\ Len(x) % BlockLen = r + l
      <4>1. PICK k \in 0 .. BlockLen - 1 : k = r + l
        <5>1. r + l \in 0 .. BlockLen - 1
          BY <1>1, <1>12, <2>3, <2>7
        <5> QED
          BY <5>1
      <4>5. PICK y : y = Len(x)
        OBVIOUS
      <4>2. y = BlockLen * q + k
        BY <1>4, <1>8, <1>12, <4>1, <4>5
      <4>3. y \div BlockLen = q /\ y % BlockLen = k
        BY <1>1, <4>2, Parts
      <4> QED
        BY <4>1, <4>3, <4>5
    <3>7. ASSUME NEW i \in 1 .. r + l PROVE r0.buffer[i] = x[a + i]
      <4>1. i \in 1 .. BlockLen /\ a + i \in 1 .. n + l
        BY <1>1, <1>12, <2>3, <2>7
      <4>2. CASE i <= r
        <5>1. i \notin r + 1 .. r + Len(s) /\ i \in 1 .. r /\ a + i <= n
          BY <1>12, <4>2
        <5>2. r0.buffer[i] = g.buffer[i]
          BY <3>5, <4>1, <5>1 DEF MdStored
        <5> QED
          BY <1>6, <1>8, <2>2, <4>1, <5>1, <5>2
      <4>3. CASE i > r
        <5>1. i \in r + 1 .. r + Len(s) /\ ~(a + i <= n) /\ (a + i) - n = i - r
          BY <1>2, <1>12, <4>3
        <5>2. r0.buffer[i] = s[i - r]
          BY <3>5, <4>1, <5>1 DEF MdStored
        <5> QED
          BY <1>8, <4>1, <5>1, <5>2
      <4> QED
        BY <4>2, <4>3
    <3>8. MdBlocks(r0.digest, r0.buffer, x, S)
      BY <1>4, <2>2, <2>4, <3>5, <3>6, <3>7 DEF MdBlocks
    <3> QED
      BY <1>7, <1>9, <2>5, <3>5, <3>8
  <2>8. CASE r > 0 /\ l >= fill
    <3>1. PICK piece \in Seq(S) : /\ piece = SubSeq(s, 1, fill) /\ Len(piece) = fill
                                  /\ \A i \in 1 .. fill : piece[i] = s[i]
      <4>1. SubSeq(s, 1, fill) \in Seq(S)
        BY <1>2, <2>3, <2>8
      <4>2. Len(SubSeq(s, 1, fill)) = fill /\ \A i \in 1 .. fill : SubSeq(s, 1, fill)[i] = s[i]
        BY <1>2, <2>3, <2>8
      <4> QED
        BY <4>1, <4>2
    <3>2. PICK first : first = Filled(g, r, piece)
      OBVIOUS
    <3>3. /\ first \in MdContext(S) /\ first.digest = g.digest
          /\ first.total0 = g.total0 /\ first.total1 = g.total1
          /\ MdStored(first.buffer, g.buffer, r, piece)
      <4>1. r \in Nat /\ g \in MdContext(S)
        BY <1>12, <2>2
      <4>2. MdBuffered(Filled(g, r, piece), g, r, piece, S)
        BY <4>1, BufferIs
      <4> QED
        BY <3>2, <4>2 DEF MdBuffered
    <3>4. PICK done : done = algo_internal_md5_process(first, first.buffer)
      OBVIOUS
    <3>5. /\ done \in MdContext(S) /\ done.digest = Append(g.digest, first.buffer)
          /\ done.total0 = g.total0 /\ done.total1 = g.total1 /\ first.buffer \in BlockOf(S)
      <4>1. first.buffer \in BlockOf(S)
        BY <3>3 DEF MdContext
      <4> QED
        BY <3>3, <3>4, <4>1, ProcessedIs
    <3>6. ASSUME NEW i \in 1 .. BlockLen PROVE x[a + i] = first.buffer[i]
      <4>1. a + i \in 1 .. n + l
        BY <1>1, <1>12, <2>3, <2>8
      <4>2. CASE i <= r
        <5>1. i \notin r + 1 .. r + Len(piece) /\ i \in 1 .. r /\ a + i <= n
          BY <1>12, <4>2
        <5>2. first.buffer[i] = g.buffer[i]
          BY <3>3, <5>1 DEF MdStored
        <5> QED
          BY <1>6, <1>8, <2>2, <4>1, <5>1, <5>2
      <4>3. CASE i > r
        <5>1. i \in r + 1 .. r + Len(piece) /\ ~(a + i <= n) /\ (a + i) - n = i - r /\ i - r \in 1 .. fill
          BY <1>1, <1>12, <2>3, <3>1, <4>3
        <5>2. first.buffer[i] = piece[i - r]
          BY <3>3, <5>1 DEF MdStored
        <5> QED
          BY <1>8, <3>1, <4>1, <5>1, <5>2
      <4> QED
        BY <4>2, <4>3
    <3>7. TakesIn(done.digest, q + 1, x, S)
      <4>1. PICK b \in BlockOf(S) : b = first.buffer
        BY <3>5
      <4>5. PICK d : d = g.digest /\ TakesIn(d, q, x, S)
        BY <2>2, <2>4
      <4>2. \A j \in 1 .. BlockLen : x[BlockLen * q + j] = b[j]
        BY <1>4, <3>6, <4>1
      <4>3. TakesIn(Append(d, b), q + 1, x, S)
        BY <4>2, <4>5, NextBlock
      <4> QED
        BY <3>5, <4>1, <4>3, <4>5
    <3>8. PICK y : y = SubSeq(s, fill + 1, l)
      OBVIOUS
    <3>9. y \in Seq(S) /\ Len(y) = l - fill /\ \A i \in 1 .. l - fill : y[i] = s[fill + i]
      <4>1. l - fill \in Nat /\ fill + (l - fill) = l
        BY <2>8
      <4>2. PICK k \in Nat : k = l - fill /\ fill + k = l
        BY <4>1
      <4>3. y \in [1 .. k -> S] /\ \A i \in 1 .. k : y[i] = s[fill + i]
        <5>1. fill + k <= Len(s)
          BY <1>2, <4>2
        <5>3. y = SubSeq(s, fill + 1, fill + k)
          BY <3>8, <4>2
        <5>2. IsPiece(SubSeq(s, fill + 1, fill + k), s, fill, k, S)
          BY <5>1, PieceIs
        <5> QED
          BY <5>2, <5>3 DEF IsPiece
      <4>4. \A z \in [1 .. k -> S] : z \in Seq(S) /\ Len(z) = k
        OBVIOUS
      <4> QED
        BY <4>2, <4>3, <4>4
    <3>10. r0 = Filled(Whole(done, y).block, 0, Whole(done, y).rest)
      <4>1. Fills(r, l)
        BY <2>3, <2>8 DEF Fills
      <4> QED
        BY <1>2, <1>5, <1>9, <1>11, <2>1, <2>3, <3>1, <3>2, <3>4, <3>8, <4>1 DEF algo_md5_update_ret
    <3>11. PICK p \in Nat : p = q + 1 /\ BlockLen * p = a + BlockLen
      BY <1>4
    <3>12. Len(x) = BlockLen * p + Len(y)
      BY <1>1, <1>8, <1>12, <2>3, <3>9, <3>11
    <3>13. ASSUME NEW j \in 1 .. Len(y) PROVE x[BlockLen * p + j] = y[j]
      <4>1. /\ BlockLen * p + j \in 1 .. n + l /\ ~(BlockLen * p + j <= n)
            /\ (BlockLen * p + j) - n = fill + j /\ j \in 1 .. l - fill
        BY <1>1, <1>12, <2>3, <2>8, <3>9, <3>11
      <4> QED
        BY <1>8, <3>9, <4>1
    <3>14. TakesIn(done.digest, p, x, S)
      BY <3>7, <3>11
    <3>15. /\ r0 \in MdContext(S) /\ MdBlocks(r0.digest, r0.buffer, x, S)
           /\ r0.total0 = done.total0 /\ r0.total1 = done.total1
      <4>1. done \in MdContext(S) /\ y \in Seq(S)
        BY <3>5, <3>9
      <4>2. MdRest(Filled(Whole(done, y).block, 0, Whole(done, y).rest), done, x, S)
        BY <3>12, <3>13, <3>14, <4>1, RestIsTaken
      <4> QED
        BY <3>10, <4>2 DEF MdRest
    <3> QED
      BY <1>7, <1>9, <2>5, <3>5, <3>15
  <2> QED
    BY <2>3, <2>6, <2>7, <2>8
<1> QED
  BY <1>10, <1>11

\* Divided by a factor.
LEMMA Nested ==
  ASSUME NEW k \in Nat \ {0}, NEW j \in Nat, NEW p \in Nat, NEW t \in Nat, NEW n, n = (k * j) * p + t
  PROVE  n \div k = j * p + (t \div k) /\ n % k = t % k
<1>1. PICK u \in Nat, v \in 0 .. k - 1 : u = t \div k /\ v = t % k /\ t = k * u + v
  BY Division
<1>2. PICK a \in Nat : a = j * p /\ (k * j) * p = k * a
  BY Products
<1>3. PICK b \in Nat : b = a + u /\ k * b = k * a + k * u
  BY Products
<1>4. n = k * b + v
  <2>1. t = k * u + v
    BY <1>1
  <2>2. k * a \in Nat /\ k * u \in Nat
    BY Products
  <2> QED
    BY <1>2, <1>3, <2>1, <2>2
<1>5. n \div k = b /\ n % k = v
  BY <1>4, Parts
<1> QED
  BY <1>1, <1>2, <1>3, <1>5

\* The words of the length, counted in bytes.
LEMMA WordsOfTotal ==
  ASSUME NEW n \in Nat, NEW c, MdCounts(c, n)
  PROVE  /\ (c.total0 * Bits) % WordMod = (n * Bits) % WordMod
         /\ ((c.total0 * Bits) \div WordMod) + ((c.total1 * Bits) % WordMod) = ((n * Bits) \div WordMod) % WordMod
<1>1. PICK w \in Nat \ {0}, k \in Nat \ {0}, d \in Nat \ {0} :
        w = WordMod /\ k = Round /\ d = Bits /\ w = d * k /\ w = k * d
  <2>1. /\ Bits \in Nat \ {0} /\ WordMod \in Nat \ {0} /\ Round \in Nat \ {0} /\ WordMod = Bits * Round
    BY Sizes
  <2>2. Bits * Round = Round * Bits
    BY <2>1
  <2> QED
    BY <2>1, <2>2
<1>2. PICK p \in Nat, t \in Nat : p = n \div w /\ t = n % w /\ n = w * p + t /\ t < w
  <2>1. n = w * (n \div w) + (n % w) /\ n % w \in 0 .. w - 1 /\ n \div w \in Nat
    BY Division
  <2>2. n % w \in Nat /\ n % w < w
    BY <2>1
  <2> QED
    BY <2>1, <2>2
<1>3. PICK z \in Nat, e \in Nat : z = p \div w /\ e = p % w /\ p = w * z + e
  <2>1. p = w * (p \div w) + (p % w) /\ p % w \in 0 .. w - 1 /\ p \div w \in Nat
    BY Division
  <2>2. p % w \in Nat
    BY <2>1
  <2> QED
    BY <2>1, <2>2
<1>4. c.total0 = t /\ c.total1 = e
  BY <1>1, <1>2, <1>3 DEF MdCounts
<1>5. PICK u \in Nat, v \in 0 .. k - 1 : u = t \div k /\ v = t % k /\ t = k * u + v
  BY Division
<1>6. PICK y \in Nat, x \in 0 .. k - 1 : y = p \div k /\ x = p % k /\ p = k * y + x
  <2>1. p = k * (p \div k) + (p % k) /\ p % k \in 0 .. k - 1 /\ p \div k \in Nat
    BY Division
  <2> QED
    BY <2>1
<1>7. n \div k = d * p + u /\ n % k = v
  <2>1. n = (k * d) * p + t
    BY <1>1, <1>2
  <2>2. n \div k = d * p + (t \div k) /\ n % k = t % k
    BY <2>1, Nested
  <2> QED
    BY <1>5, <2>2
<1>8. e % k = x
  <2>1. p = (k * d) * z + e
    BY <1>1, <1>3
  <2>2. p \div k = d * z + (e \div k) /\ p % k = e % k
    BY <2>1, Nested
  <2> QED
    BY <1>6, <2>2
<1>9. u < d
  <2>1. d < u + 1 => k * d + k <= k * (u + 1)
    BY NextMultiple
  <2>2. k * (u + 1) = k * u + k /\ k * u \in Nat /\ k * d \in Nat
    OBVIOUS
  <2>3. t = k * u + v /\ t < k * d
    BY <1>1, <1>2, <1>5
  <2> QED
    BY <2>1, <2>2, <2>3
<1>10. PICK f \in 0 .. w - 1 : f = d * x + u
  <2>1. d * x + d <= d * k
    BY NextMultiple
  <2>2. d * x \in Nat
    OBVIOUS
  <2>3. d * x + u \in 0 .. w - 1
    BY <1>1, <1>9, <2>1, <2>2
  <2> QED
    BY <2>3
<1>11. (d * p + u) % w = f
  <2>1. d * p = w * y + d * x
    <3>1. (k * y + x) * d = (d * k) * y + d * x
      BY Products
    <3>2. p * d = d * p
      OBVIOUS
    <3>3. p = k * y + x
      BY <1>6
    <3> QED
      BY <1>1, <3>1, <3>2, <3>3
  <2>2. PICK g : g = d * p + u
    OBVIOUS
  <2>3. g = w * y + f
    <3>1. w * y \in Nat /\ d * x \in Nat
      OBVIOUS
    <3> QED
      BY <1>10, <2>1, <2>2, <3>1
  <2>4. g % w = f
    BY <2>3, Parts
  <2> QED
    BY <2>2, <2>4
<1>12. (t * Bits) \div WordMod = u /\ (t * Bits) % WordMod = d * v
  BY <1>1, <1>5, CountIs
<1>13. (e * Bits) % WordMod = d * x
  BY <1>1, <1>8, CountIs
<1>14. (n * Bits) % WordMod = d * v
  BY <1>1, <1>7, CountIs
<1>15. ((n * Bits) \div WordMod) % WordMod = f
  BY <1>1, <1>7, <1>11, CountIs
<1>16. u + d * x = d * x + u
  <2>1. d * x \in Nat
    OBVIOUS
  <2> QED
    BY <2>1
<1> QED
  BY <1>4, <1>10, <1>12, <1>13, <1>14, <1>15, <1>16

LEMMA ZerosAre ==
  ASSUME NEW S, Symbols(S), NEW n \in Nat
  PROVE  Zeros(n) \in Seq(S) /\ Len(Zeros(n)) = n /\ \A i \in 1 .. n : Zeros(n)[i] = Zero
<1>1. Zeros(n) \in [1 .. n -> S] /\ \A i \in 1 .. n : Zeros(n)[i] = Zero
  BY DEF Zeros, Symbols
<1>2. \A f \in [1 .. n -> S] : f \in Seq(S) /\ Len(f) = n
  OBVIOUS
<1> QED
  BY <1>1, <1>2

\* What finish returns, and the context it leaves.
MdFinished(f, m, S) == f \in MdContext(S) /\ f.digest = Md(m)

LEMMA FinishIsMd ==
  ASSUME NEW S, Symbols(S), NEW m \in Seq(S), NEW c \in MdContext(S), MdHasTaken(c, m, S)
  PROVE  MdFinished(algo_md5_finish_ret(c), m, S)
<1>1. BlockLen \in Nat \ {0} /\ BlockLen > 2 /\ Len(m) \in Nat
  BY Sizes
<1>2. PICK q, r : q = Len(m) \div BlockLen /\ r = Len(m) % BlockLen
  OBVIOUS
<1>3. q \in Nat /\ r \in 0 .. BlockLen - 1
  BY <1>1, <1>2, Division
<1>4. r \in Nat /\ r < BlockLen /\ BlockLen - (r + 1) \in Nat /\ Room \in Nat /\ Room = BlockLen - 2
  BY <1>1, <1>3 DEF Room
<1>5. c.total0 % BlockLen = r
  BY <1>1, <1>2, WaitingIs DEF MdHasTaken, MdCounts
<1>6. PICK high, low : /\ high = ((c.total0 * Bits) \div WordMod) + ((c.total1 * Bits) % WordMod)
                       /\ low = (c.total0 * Bits) % WordMod
  OBVIOUS
<1>7. high = High(m) /\ low = Low(m)
  BY <1>1, <1>6, WordsOfTotal DEF MdHasTaken, High, Low
<1>8. high \in Nat /\ low \in Nat
  <2>1. ASSUME NEW a \in Nat PROVE a % WordMod \in Nat /\ a \div WordMod \in Nat
    <3>1. PICK k \in Nat \ {0} : k = WordMod
      BY Sizes
    <3>2. a % k \in Nat /\ a \div k \in Nat
      <4>1. a % k \in 0 .. k - 1 /\ a \div k \in Nat
        BY Division
      <4> QED
        BY <4>1
    <3> QED
      BY <3>1, <3>2
  <2>2. Len(m) * Bits \in Nat
    BY <1>1, CountIs
  <2> QED
    BY <1>7, <2>1, <2>2 DEF High, Low
<1>9. PICK w \in Seq(S) : w = <<Word(low), Word(high)>> /\ Len(w) = 2
  <2>1. Word(low) \in S /\ Word(high) \in S
    BY <1>8 DEF Symbols
  <2>2. \A x \in S, y \in S : <<x, y>> \in Seq(S) /\ Len(<<x, y>>) = 2
    OBVIOUS
  <2> QED
    BY <2>1, <2>2
<1>10. Md(m) = Padded(m, w)
  BY <1>7, <1>9 DEF Md
<1>11. /\ TakesIn(c.digest, q, m, S) /\ \A i \in 1 .. r : c.buffer[i] = m[BlockLen * q + i]
  BY <1>2 DEF MdHasTaken, MdBlocks
<1>12. PICK end \in Seq(S) : end = <<End>> /\ Len(end) = 1 /\ end[1] = End
  <2>1. End \in S
    BY DEF Symbols
  <2>2. \A x \in S : <<x>> \in Seq(S) /\ Len(<<x>>) = 1 /\ <<x>>[1] = x
    OBVIOUS
  <2> QED
    BY <2>1, <2>2
<1>13. PICK ended : ended = Filled(c, r, end)
  OBVIOUS
<1>14. ended \in MdContext(S) /\ ended.digest = c.digest /\ MdStored(ended.buffer, c.buffer, r, end)
  <2>1. MdBuffered(Filled(c, r, end), c, r, end, S)
    BY <1>4, BufferIs
  <2> QED
    BY <1>13, <2>1 DEF MdBuffered
<1>15. \A i \in 1 .. BlockLen : i <= r + 1 =>
         ended.buffer[i] = IF i <= r THEN m[BlockLen * q + i] ELSE End
  <2> SUFFICES ASSUME NEW i \in 1 .. BlockLen, i <= r + 1
               PROVE  ended.buffer[i] = IF i <= r THEN m[BlockLen * q + i] ELSE End
    OBVIOUS
  <2>1. CASE i <= r
    <3>1. i \notin r + 1 .. r + Len(end) /\ i \in 1 .. r
      BY <1>4, <1>12, <2>1
    <3> QED
      BY <1>11, <1>14, <2>1, <3>1 DEF MdStored
  <2>2. CASE ~(i <= r)
    <3>1. i \in r + 1 .. r + Len(end) /\ i - r = 1
      BY <1>4, <1>12, <2>2
    <3> QED
      BY <1>12, <1>14, <2>2, <3>1 DEF MdStored
  <2> QED
    BY <2>1, <2>2
<1>16. PICK used \in Nat : used = r + 1
  BY <1>4
<1>17. PICK full : full = Filled(ended, used, Zeros(BlockLen - used))
  OBVIOUS
<1>18. PICK last : last = IF used <= Room THEN Cleared(ended, used)
                          ELSE Cleared(algo_internal_md5_process(full, full.buffer), 0)
  OBVIOUS
<1>19. PICK closed : closed = Filled(last, Room, w)
  OBVIOUS
<1>20. algo_md5_finish_ret(c) = algo_internal_md5_process(closed, closed.buffer)
  <2>1. used - 1 = r
    BY <1>4, <1>16
  <2> QED
    BY <1>5, <1>6, <1>9, <1>12, <1>13, <1>16, <1>17, <1>18, <1>19, <2>1 DEF algo_md5_finish_ret
<1>21. ASSUME last \in MdContext(S)
       PROVE  /\ closed \in MdContext(S) /\ closed.digest = last.digest /\ closed.buffer \in BlockOf(S)
              /\ \A i \in 1 .. BlockLen : closed.buffer[i] = IF i <= Room THEN last.buffer[i] ELSE w[i - Room]
              /\ algo_md5_finish_ret(c) \in MdContext(S)
              /\ algo_md5_finish_ret(c).digest = Append(last.digest, closed.buffer)
  <2>1. MdBuffered(Filled(last, Room, w), last, Room, w, S)
    BY <1>4, <1>21, BufferIs
  <2>2. closed \in MdContext(S) /\ closed.digest = last.digest /\ MdStored(closed.buffer, last.buffer, Room, w)
    BY <1>19, <2>1 DEF MdBuffered
  <2>3. closed.buffer \in BlockOf(S)
    BY <2>2 DEF MdContext
  <2>4. \A i \in 1 .. BlockLen : i \in Room + 1 .. Room + Len(w) <=> ~(i <= Room)
    BY <1>1, <1>4, <1>9
  <2>5. /\ algo_internal_md5_process(closed, closed.buffer) \in MdContext(S)
        /\ algo_internal_md5_process(closed, closed.buffer).digest = Append(closed.digest, closed.buffer)
    BY <2>2, <2>3, ProcessedIs
  <2>6. \A i \in 1 .. BlockLen : closed.buffer[i] = IF i <= Room THEN last.buffer[i] ELSE w[i - Room]
    BY <2>2, <2>4 DEF MdStored
  <2> QED
    BY <1>20, <2>2, <2>3, <2>5, <2>6
<1>22. CASE used <= Room
  <2>1. Room - used \in Nat /\ r <= BlockLen - 3
    BY <1>1, <1>4, <1>16, <1>22
  <2>2. PICK z \in Seq(S) : z = Zeros(Room - used) /\ Len(z) = Room - used /\ \A i \in 1 .. Room - used : z[i] = Zero
    BY <2>1, ZerosAre
  <2>3. last = Filled(ended, used, z)
    BY <1>18, <1>22, <2>2 DEF Cleared
  <2>4. last \in MdContext(S) /\ last.digest = ended.digest /\ MdStored(last.buffer, ended.buffer, used, z)
    <3>1. MdBuffered(Filled(ended, used, z), ended, used, z, S)
      BY <1>14, BufferIs
    <3> QED
      BY <2>3, <3>1 DEF MdBuffered
  <2>5. LastBlock(closed.buffer, m, q, r, w)
    <3> SUFFICES ASSUME NEW i \in 1 .. BlockLen
                 PROVE  closed.buffer[i] = IF i <= r THEN m[BlockLen * q + i] ELSE IF i = r + 1 THEN End
                                           ELSE IF i <= Room THEN Zero ELSE w[i - Room]
      BY DEF LastBlock
    <3>1. closed.buffer[i] = IF i <= Room THEN last.buffer[i] ELSE w[i - Room]
      BY <1>21, <2>4
    <3>2. CASE i <= r + 1
      <4>1. i \notin used + 1 .. used + Len(z) /\ i <= Room /\ (i <= r \/ i = r + 1)
        BY <1>4, <1>16, <1>22, <2>2, <3>2
      <4>2. last.buffer[i] = ended.buffer[i]
        BY <2>4, <4>1 DEF MdStored
      <4> QED
        BY <1>15, <3>1, <3>2, <4>1, <4>2
    <3>3. CASE ~(i <= r + 1) /\ i <= Room
      <4>1. i \in used + 1 .. used + Len(z) /\ i - used \in 1 .. Room - used /\ ~(i <= r) /\ i # r + 1
        BY <1>4, <1>16, <1>22, <2>2, <3>3
      <4>2. last.buffer[i] = z[i - used]
        BY <2>4, <4>1 DEF MdStored
      <4> QED
        BY <2>2, <3>1, <3>3, <4>1, <4>2
    <3>4. CASE ~(i <= Room)
      <4>1. ~(i <= r) /\ i # r + 1
        BY <1>4, <1>16, <1>22, <3>4
      <4> QED
        BY <3>1, <3>4, <4>1
    <3> QED
      BY <3>2, <3>3, <3>4
  <2>9. PICK d : d = c.digest
    OBVIOUS
  <2>6. PICK b \in BlockOf(S) : b = closed.buffer
    BY <1>21, <2>4
  <2>7. /\ w \in Seq(S) /\ Len(w) = 2 /\ q = Len(m) \div BlockLen /\ r = Len(m) % BlockLen
        /\ r <= BlockLen - 3 /\ TakesIn(d, q, m, S) /\ LastBlock(b, m, q, r, w)
    BY <1>2, <1>9, <1>11, <2>1, <2>5, <2>6, <2>9
  <2>8. Append(d, b) = Padded(m, w)
    BY <2>7, ClosedInOne
  <2> QED
    BY <1>10, <1>14, <1>21, <2>4, <2>6, <2>8, <2>9 DEF MdFinished
<1>23. CASE ~(used <= Room)
  <2>1. BlockLen - used \in Nat /\ r > BlockLen - 3
    BY <1>1, <1>4, <1>16, <1>23
  <2>2. PICK z \in Seq(S) : /\ z = Zeros(BlockLen - used) /\ Len(z) = BlockLen - used
                            /\ \A i \in 1 .. BlockLen - used : z[i] = Zero
    BY <2>1, ZerosAre
  <2>3. full \in MdContext(S) /\ full.digest = ended.digest /\ MdStored(full.buffer, ended.buffer, used, z)
    <3>1. MdBuffered(Filled(ended, used, z), ended, used, z, S)
      BY <1>14, BufferIs
    <3> QED
      BY <1>17, <2>2, <3>1 DEF MdBuffered
  <2>4. PICK b \in BlockOf(S) : b = full.buffer
    BY <2>3 DEF MdContext
  <2>5. FullBlock(b, m, q, r)
    <3> SUFFICES ASSUME NEW i \in 1 .. BlockLen
                 PROVE  full.buffer[i] = IF i <= r THEN m[BlockLen * q + i] ELSE IF i = r + 1 THEN End ELSE Zero
      BY <2>4 DEF FullBlock
    <3>1. CASE i <= r + 1
      <4>1. i \notin used + 1 .. used + Len(z) /\ (i <= r \/ i = r + 1)
        BY <1>4, <1>16, <2>2, <3>1
      <4>2. full.buffer[i] = ended.buffer[i]
        BY <2>3, <4>1 DEF MdStored
      <4> QED
        BY <1>15, <3>1, <4>1, <4>2
    <3>2. CASE ~(i <= r + 1)
      <4>1. i \in used + 1 .. used + Len(z) /\ i - used \in 1 .. BlockLen - used /\ ~(i <= r) /\ i # r + 1
        BY <1>1, <1>4, <1>16, <2>2, <3>2
      <4>2. full.buffer[i] = z[i - used]
        BY <2>3, <4>1 DEF MdStored
      <4> QED
        BY <2>2, <4>1, <4>2
    <3> QED
      BY <3>1, <3>2
  <2>6. PICK done : done = algo_internal_md5_process(full, b)
    OBVIOUS
  <2>7. done \in MdContext(S) /\ done.digest = Append(c.digest, b)
    BY <1>14, <2>3, <2>6, ProcessedIs
  <2>8. PICK y \in Seq(S) : y = Zeros(Room) /\ Len(y) = Room /\ \A i \in 1 .. Room : y[i] = Zero
    BY <1>4, ZerosAre
  <2>9. PICK o \in Nat : o = 0
    OBVIOUS
  <2>10. last = Filled(done, o, y)
    <3>1. Room - 0 = Room
      BY <1>4
    <3> QED
      BY <1>18, <1>23, <2>4, <2>6, <2>8, <2>9, <3>1 DEF Cleared
  <2>11. last \in MdContext(S) /\ last.digest = done.digest /\ MdStored(last.buffer, done.buffer, o, y)
    <3>1. MdBuffered(Filled(done, o, y), done, o, y, S)
      BY <2>7, BufferIs
    <3> QED
      BY <2>10, <3>1 DEF MdBuffered
  <2>12. PICK e \in BlockOf(S) : e = closed.buffer
    BY <1>21, <2>11
  <2>13. WordBlock(e, w)
    <3> SUFFICES ASSUME NEW i \in 1 .. BlockLen
                 PROVE  closed.buffer[i] = IF i <= Room THEN Zero ELSE w[i - Room]
      BY <2>12 DEF WordBlock
    <3>1. closed.buffer[i] = IF i <= Room THEN last.buffer[i] ELSE w[i - Room]
      BY <1>21, <2>11
    <3>2. i <= Room => i \in o + 1 .. o + Len(y) /\ i - o = i /\ i \in 1 .. Room
      BY <1>4, <2>8, <2>9
    <3>3. i <= Room => last.buffer[i] = Zero
      BY <2>8, <2>11, <3>2 DEF MdStored
    <3> QED
      BY <3>1, <3>3
  <2>14. PICK d : d = c.digest
    OBVIOUS
  <2>15. /\ w \in Seq(S) /\ Len(w) = 2 /\ q = Len(m) \div BlockLen /\ r = Len(m) % BlockLen
         /\ r > BlockLen - 3 /\ TakesIn(d, q, m, S) /\ FullBlock(b, m, q, r) /\ WordBlock(e, w)
    BY <1>2, <1>9, <1>11, <2>1, <2>5, <2>13, <2>14
  <2>16. Append(Append(d, b), e) = Padded(m, w)
    BY <2>15, ClosedInTwo
  <2> QED
    BY <1>10, <1>21, <2>7, <2>11, <2>12, <2>14, <2>16 DEF MdFinished
<1> QED
  BY <1>22, <1>23

LEMMA MdStartHasTaken ==
  ASSUME NEW S, NEW c \in MdContext(S)
  PROVE  /\ algo_md5_starts_ret(c) \in MdContext(S) /\ <<>> \in Seq(S)
         /\ MdHasTaken(algo_md5_starts_ret(c), <<>>, S)
<1>1. ASSUME NEW k \in Nat \ {0} PROVE 0 \div k = 0 /\ 0 % k = 0
  <2>1. 0 = k * 0 + 0 /\ 0 \in 0 .. k - 1
    OBVIOUS
  <2> QED
    BY <2>1, Parts
<1>2. BlockLen \in Nat \ {0} /\ WordMod \in Nat \ {0}
  BY Sizes
<1>3. PICK f : f = algo_md5_starts_ret(c)
  OBVIOUS
<1>4. f \in MdContext(S) /\ f.digest = <<>> /\ f.total0 = 0 /\ f.total1 = 0
  <2>1. <<>> \in Seq(BlockOf(S))
    OBVIOUS
  <2> QED
    BY <1>3, <2>1 DEF algo_md5_starts_ret, MdContext
<1>5. TakesIn(<<>>, 0, <<>>, S)
  BY DEF TakesIn
<1>6. MdCounts(f, 0)
  BY <1>1, <1>2, <1>4 DEF MdCounts
<1>7. MdBlocks(f.digest, f.buffer, <<>>, S)
  BY <1>1, <1>2, <1>4, <1>5 DEF MdBlocks
<1> QED
  BY <1>3, <1>4, <1>6, <1>7 DEF MdHasTaken

-----------------------------------------------------------------------------
(* The stream                                                                *)

\* What a message and its padding consist of.
Symbol == Everything({<<"message", i>> : i \in Nat})

HmacSymbol(k) == Everything({<<"message", i>> : i \in Nat} \cup {PadOf(k, "ipad")[i] : i \in 1 .. BlockLen})

\* c has taken m in, if m can be counted at all.
ShaHolds(c, ok, m, S) ==
  IF Countable(Len(m)) THEN ok = TRUE /\ c \in ShaContext(S) /\ HasTaken(c, m, S) ELSE ok = FALSE

LEMMA MessageIs ==
  ASSUME NEW n \in Nat, NEW S, {<<"message", i>> : i \in Nat} \subseteq S
  PROVE  Message(n) \in Seq(S) /\ Len(Message(n)) = n /\ \A i \in 1 .. n : Message(n)[i] = <<"message", i>>
<1>1. Message(n) \in [1 .. n -> S] /\ \A i \in 1 .. n : Message(n)[i] = <<"message", i>>
  <2>1. ASSUME NEW i \in 1 .. n PROVE <<"message", i>> \in S
    <3>1. i \in Nat
      OBVIOUS
    <3> QED
      BY <3>1
  <2> QED
    BY <2>1 DEF Message
<1>2. \A f \in [1 .. n -> S] : f \in Seq(S) /\ Len(f) = n
  OBVIOUS
<1> QED
  BY <1>1, <1>2

Piece(f, n) == SubSeq(Message(f + n), f + 1, f + n)

LEMMA PieceOfMessage ==
  ASSUME NEW f \in Nat, NEW n \in Nat, NEW S, {<<"message", i>> : i \in Nat} \subseteq S
  PROVE  Piece(f, n) \in Seq(S) /\ Len(Piece(f, n)) = n /\ Message(f) \o Piece(f, n) = Message(f + n)
<1>1. f + n \in Nat /\ f + n <= f + n
  OBVIOUS
<1>2. PICK t \in Nat : t = f + n
  BY <1>1
<1>3. PICK x \in Seq(S) : x = Message(t) /\ Len(x) = t /\ \A i \in 1 .. t : x[i] = <<"message", i>>
  BY MessageIs
<1>4. PICK y \in Seq(S) : y = Message(f) /\ Len(y) = f /\ \A i \in 1 .. f : y[i] = <<"message", i>>
  BY MessageIs
<1>5. PICK p : p = Piece(f, n)
  OBVIOUS
<1>6. IsPiece(SubSeq(x, f + 1, f + n), x, f, n, S)
  <2>1. f + n <= Len(x)
    BY <1>2, <1>3
  <2> QED
    BY <2>1, PieceIs
<1>7. p = SubSeq(x, f + 1, f + n)
  BY <1>2, <1>3, <1>5 DEF Piece
<1>8. p \in Seq(S) /\ Len(p) = n /\ \A i \in 1 .. n : p[i] = x[f + i]
  <2>1. \A g \in [1 .. n -> S] : g \in Seq(S) /\ Len(g) = n
    OBVIOUS
  <2> QED
    BY <1>6, <1>7, <2>1 DEF IsPiece
<1>9. PICK j \in Seq(S) : j = y \o p /\ Joins(j, y, f, p, n)
  BY <1>4, <1>8, Concatenation
<1>10. Len(j) = t /\ \A i \in 1 .. t : j[i] = IF i <= f THEN y[i] ELSE p[i - f]
  BY <1>2, <1>9 DEF Joins
<1>11. ASSUME NEW i \in 1 .. t PROVE j[i] = x[i]
  <2>1. CASE i <= f
    <3>1. i \in 1 .. f
      BY <2>1
    <3> QED
      BY <1>3, <1>4, <1>10, <2>1, <3>1
  <2>2. CASE ~(i <= f)
    <3>1. i - f \in 1 .. n /\ f + (i - f) = i
      BY <1>2, <2>2
    <3> QED
      BY <1>8, <1>10, <2>2, <3>1
  <2> QED
    BY <2>1, <2>2
<1>12. j = x
  BY <1>3, <1>10, <1>11
<1> QED
  BY <1>2, <1>3, <1>4, <1>5, <1>8, <1>9, <1>12

\* A piece is taken in, or refused.
LEMMA ShaFeeds ==
  ASSUME NEW S, Symbols(S), NEW m \in Seq(S), NEW c, ShaHolds(c, TRUE, m, S), NEW s \in Seq(S)
  PROVE  ShaHolds(core_algo_sha256Update(c, s), core_algo_sha256Update(c, s).ok, m \o s, S)
<1>1. Countable(Len(m)) /\ c \in ShaContext(S) /\ HasTaken(c, m, S)
  BY DEF ShaHolds
<1>2. PICK r : r = core_algo_sha256Update(c, s)
  OBVIOUS
<1>3. IF Countable(Len(m) + Len(s)) THEN r \in ShaContext(S) /\ HasTaken(r, m \o s, S) ELSE r.ok = FALSE
  BY <1>1, <1>2, PieceIsTaken
<1>4. Len(m \o s) = Len(m) + Len(s)
  BY Concatenation DEF Joins
<1>5. r \in ShaContext(S) /\ r.ok => r.ok = TRUE
  BY DEF ShaContext
<1> QED
  BY <1>2, <1>3, <1>4, <1>5 DEF ShaHolds, HasTaken

\* A key, and what it is padded to.
LEMMA KeyIs ==
  ASSUME NEW n \in KeyLength
  PROVE  Key(n) \in Seq({<<"key", i>> : i \in Nat}) /\ Countable(Len(Key(n)))
<1>1. n \in 0 .. LenMod - 1 /\ LenMod \in Nat \ {0} /\ LenMod * Bits <= WordMod * WordMod
  BY StreamAssumption, HashAssumption
<1>2. n \in Nat /\ n < LenMod
  BY <1>1
<1>3. Key(n) \in Seq({<<"key", i>> : i \in Nat}) /\ Len(Key(n)) = n
  <2>1. PICK T : T = {<<"key", i>> : i \in Nat}
    OBVIOUS
  <2>2. ASSUME NEW i \in 1 .. n PROVE <<"key", i>> \in T
    BY <1>2, <2>1
  <2>3. Key(n) \in [1 .. n -> T]
    BY <2>2 DEF Key
  <2>4. \A f \in [1 .. n -> T] : f \in Seq(T) /\ Len(f) = n
    BY <1>2
  <2> QED
    BY <2>1, <2>3, <2>4
<1>4. Countable(n)
  <2>1. PICK a \in Nat, b \in Nat \ {0}, w \in Nat : a = LenMod /\ b = Bits /\ w = WordMod
    BY <1>1, Sizes
  <2>2. b * n + b <= b * a
    BY <1>2, <2>1, NextMultiple
  <2>3. n * b = b * n /\ a * b = b * a /\ b * n \in Nat /\ b * a \in Nat /\ w * w \in Nat
    BY <1>2, Products
  <2>4. a * b <= w * w
    BY <1>1, <2>1
  <2>5. n * b < w * w
    BY <2>2, <2>3, <2>4
  <2> QED
    BY <2>1, <2>5 DEF Countable
<1> QED
  BY <1>3, <1>4

LEMMA HmacPad ==
  ASSUME NEW k
  PROVE  /\ Symbols(HmacSymbol(k)) /\ {<<"message", i>> : i \in Nat} \subseteq HmacSymbol(k)
         /\ PadOf(k, "ipad") \in Seq(HmacSymbol(k)) /\ Len(PadOf(k, "ipad")) = BlockLen
<1>1. PICK pad : pad = PadOf(k, "ipad")
  OBVIOUS
<1>2. PICK P, Q : P = {pad[i] : i \in 1 .. BlockLen} /\ Q = {<<"message", i>> : i \in Nat}
  OBVIOUS
<1>3. HmacSymbol(k) = Everything(Q \cup P)
  BY <1>1, <1>2 DEF HmacSymbol
<1>4. PICK S : S = HmacSymbol(k)
  OBVIOUS
<1>5. Symbols(S) /\ Q \subseteq S /\ P \subseteq S
  <2>1. Symbols(S) /\ (Q \cup P) \subseteq S
    BY <1>3, <1>4, EverythingHasSymbols
  <2> QED
    BY <2>1
<1>6. pad \in Seq(P) /\ Len(pad) = BlockLen
  <2>1. PICK h : pad = core_algo_xor(h, "ipad")
    BY <1>1 DEF PadOf
  <2>2. IsPad(pad)
    BY <2>1, PadType
  <2> QED
    BY <1>2, <2>2 DEF IsPad
<1>7. pad \in Seq(S)
  BY <1>5, <1>6, SeqOfMore
<1> QED
  BY <1>1, <1>2, <1>4, <1>5, <1>6, <1>7

LEMMA ShaStarts ==
  ASSUME NEW S, Symbols(S)
  PROVE  ShaHolds(core_algo_sha256Initial, TRUE, <<>>, S) /\ <<>> \in Seq(S)
BY InitialHasTaken DEF ShaHolds

LEMMA HmacStarts ==
  ASSUME NEW k
  PROVE  ShaHolds(core_algo_hmacInitial(k), TRUE, PadOf(k, "ipad"), HmacSymbol(k))
<1>1. PICK S, pad : S = HmacSymbol(k) /\ pad = PadOf(k, "ipad")
  OBVIOUS
<1>2. Symbols(S) /\ pad \in Seq(S) /\ Len(pad) = BlockLen
  BY <1>1, HmacPad
<1>3. Countable(Len(pad))
  <2>1. BlockLen \in Nat /\ BlockLen <= BlockLen + BlockLen
    BY Sizes
  <2> QED
    BY <1>2, <2>1, BlocksAreCountable
<1>4. core_algo_hmacInitial(k) = core_algo_sha256Update(core_algo_sha256Initial, pad)
  BY <1>1 DEF core_algo_hmacInitial, PadOf
<1>5. /\ core_algo_sha256Update(core_algo_sha256Initial, pad) \in ShaContext(S)
      /\ HasTaken(core_algo_sha256Update(core_algo_sha256Initial, pad), pad, S)
  BY <1>2, <1>3, WholeIsTaken
<1> QED
  BY <1>1, <1>3, <1>4, <1>5 DEF ShaHolds

\* The contexts have taken in what was given so far, and a digest is of all of it.
StreamInv ==
  /\ fed \in Nat /\ ret \in BOOLEAN
  /\ md5 \in MdContext(Symbol)
  /\ algo \in {"hmac", "hmac done"} => \E n \in KeyLength : key = Key(n)
  /\ algo = "sha" => ShaHolds(sha, ret, Message(fed), Symbol)
  /\ algo = "hmac" => ShaHolds(sha, ret, PadOf(key, "ipad") \o Message(fed), HmacSymbol(key))
  /\ algo = "md5" => ret /\ MdHasTaken(md5, Message(fed), Symbol)
  /\ DigestIsOfTheWhole

LEMMA SymbolIs ==
  Symbols(Symbol) /\ {<<"message", i>> : i \in Nat} \subseteq Symbol
BY EverythingHasSymbols DEF Symbol

LEMMA NoMessage ==
  Message(0) = <<>>
<1>1. PICK z \in Nat : z = 0
  OBVIOUS
<1>2. PICK m \in Seq(Symbol) : m = Message(z) /\ Len(m) = z
  BY SymbolIs, MessageIs
<1> QED
  BY <1>1, <1>2

LEMMA StreamStarts ==
  Init => StreamInv
<1> SUFFICES ASSUME Init PROVE StreamInv
  OBVIOUS
<1>1. md5 \in MdContext(Symbol)
  <2>1. Zeros(BlockLen) \in BlockOf(Symbol)
    BY SymbolIs, ZerosType
  <2>2. <<>> \in Seq(BlockOf(Symbol))
    OBVIOUS
  <2> QED
    BY <2>1, <2>2 DEF Init, algo_md5_init, MdContext
<1> QED
  BY <1>1 DEF Init, StreamInv, DigestIsOfTheWhole

LEMMA StreamStep ==
  StreamInv /\ [Next]_vars => StreamInv'
<1> SUFFICES ASSUME StreamInv, [Next]_vars PROVE StreamInv'
  OBVIOUS
<1>1. /\ fed \in Nat /\ ret \in BOOLEAN /\ md5 \in MdContext(Symbol)
  BY DEF StreamInv
<1>2. CASE StartSha
  <2>1. ShaHolds(sha', ret', Message(fed'), Symbol)
    BY <1>2, NoMessage, SymbolIs, ShaStarts DEF StartSha
  <2> QED
    BY <1>1, <1>2, <2>1 DEF StartSha, StreamInv, DigestIsOfTheWhole
<1>3. CASE StartHmac
  <2>1. PICK n \in KeyLength : key' = Key(n)
    BY <1>3 DEF StartHmac
  <2>2. PICK k : k = key'
    OBVIOUS
  <2>3. PadOf(k, "ipad") \o <<>> = PadOf(k, "ipad")
    <3>1. PadOf(k, "ipad") \in Seq(HmacSymbol(k))
      BY HmacPad
    <3> QED
      BY <3>1
  <2>4. ShaHolds(sha', ret', PadOf(key', "ipad") \o Message(fed'), HmacSymbol(key'))
    BY <1>3, <2>2, <2>3, NoMessage, HmacStarts DEF StartHmac
  <2> QED
    BY <1>1, <1>3, <2>1, <2>4 DEF StartHmac, StreamInv, DigestIsOfTheWhole
<1>4. CASE StartMd5
  <2>1. md5' \in MdContext(Symbol) /\ MdHasTaken(md5', Message(fed'), Symbol)
    BY <1>1, <1>4, NoMessage, MdStartHasTaken DEF StartMd5
  <2> QED
    BY <1>1, <1>4, <2>1 DEF StartMd5, StreamInv, DigestIsOfTheWhole
<1>5. CASE Feed
  <2>1. ret = TRUE /\ UNCHANGED <<algo, key>>
    BY <1>1, <1>5 DEF Feed
  <2>2. PICK n \in 0 .. MaxPiece :
          /\ fed' = fed + n
          /\ \/ /\ algo = "sha"
                /\ sha' = core_algo_sha256Update(sha, Piece(fed, n))
                /\ ret' = sha'.ok /\ UNCHANGED md5
             \/ /\ algo = "hmac"
                /\ sha' = core_algo_hmacUpdate(sha, Piece(fed, n))
                /\ ret' = sha'.ok /\ UNCHANGED md5
             \/ /\ algo = "md5"
                /\ md5' = algo_md5_update_ret(md5, Piece(fed, n))
                /\ UNCHANGED <<sha, ret>>
    BY <1>5 DEF Feed, Piece
  <2>3. n \in Nat /\ n < WordMod
    BY StreamAssumption, Sizes
  <2>4. PICK f \in Nat : f = fed
    BY <1>1
  <2>5. PICK p : p = Piece(f, n)
    OBVIOUS
  <2>6. p \in Seq(Symbol) /\ Len(p) = n /\ Message(f) \o p = Message(f + n) /\ Message(f) \in Seq(Symbol)
    BY <2>3, <2>5, SymbolIs, PieceOfMessage, MessageIs
  <2>7. fed' = f + n /\ f + n \in Nat
    BY <2>2, <2>3, <2>4
  <2>8. CASE algo = "sha"
    <3>1. sha' = core_algo_sha256Update(sha, p) /\ ret' = sha'.ok /\ md5' = md5
      BY <2>2, <2>4, <2>5, <2>8
    <3>2. ShaHolds(sha, TRUE, Message(f), Symbol)
      BY <2>1, <2>4, <2>8 DEF StreamInv
    <3>3. ShaHolds(core_algo_sha256Update(sha, p), core_algo_sha256Update(sha, p).ok, Message(f) \o p, Symbol)
      BY <2>6, <3>2, SymbolIs, ShaFeeds
    <3>4. ShaHolds(sha', ret', Message(fed'), Symbol)
      BY <2>6, <2>7, <3>1, <3>3
    <3>5. ret' \in BOOLEAN
      BY <3>4 DEF ShaHolds
    <3> QED
      BY <1>1, <2>1, <2>7, <2>8, <3>1, <3>4, <3>5 DEF StreamInv, DigestIsOfTheWhole
  <2>9. CASE algo = "hmac"
    <3>1. sha' = core_algo_hmacUpdate(sha, p) /\ ret' = sha'.ok /\ md5' = md5
      BY <2>2, <2>4, <2>5, <2>9
    <3>2. PICK S, pad : S = HmacSymbol(key) /\ pad = PadOf(key, "ipad")
      OBVIOUS
    <3>3. Symbols(S) /\ {<<"message", i>> : i \in Nat} \subseteq S /\ pad \in Seq(S)
      BY <3>2, HmacPad
    <3>4. p \in Seq(S) /\ Message(f) \in Seq(S)
      BY <2>3, <2>5, <3>3, PieceOfMessage, MessageIs
    <3>5. PICK m \in Seq(S) : m = pad \o Message(f)
      <4>1. pad \o Message(f) \in Seq(S)
        BY <3>3, <3>4, Concatenation
      <4> QED
        BY <4>1
    <3>6. m \o p = pad \o Message(fed')
      <4>1. (pad \o Message(f)) \o p = pad \o (Message(f) \o p)
        BY <3>3, <3>4
      <4> QED
        BY <2>6, <2>7, <3>5, <4>1
    <3>7. ShaHolds(sha, TRUE, m, S)
      BY <2>1, <2>4, <2>9, <3>2, <3>5 DEF StreamInv
    <3>8. ShaHolds(sha', ret', m \o p, S)
      <4>1. CASE p = <<>>
        <5>1. sha' = sha /\ m \o p = m
          BY <3>1, <3>5, <4>1 DEF core_algo_hmacUpdate
        <5>2. sha.ok = TRUE \/ ~Countable(Len(m))
          BY <3>7 DEF ShaHolds, ShaContext, HasTaken
        <5> QED
          BY <3>1, <3>7, <5>1, <5>2 DEF ShaHolds
      <4>2. CASE p # <<>>
        <5>1. sha' = core_algo_sha256Update(sha, p)
          BY <3>1, <4>2 DEF core_algo_hmacUpdate
        <5>2. ShaHolds(core_algo_sha256Update(sha, p), core_algo_sha256Update(sha, p).ok, m \o p, S)
          BY <3>3, <3>4, <3>7, ShaFeeds
        <5> QED
          BY <3>1, <5>1, <5>2
      <4> QED
        BY <4>1, <4>2
    <3>9. ShaHolds(sha', ret', PadOf(key', "ipad") \o Message(fed'), HmacSymbol(key'))
      BY <2>1, <3>2, <3>6, <3>8
    <3>10. ret' \in BOOLEAN
      BY <3>8 DEF ShaHolds
    <3>11. \E k \in KeyLength : key' = Key(k)
      BY <2>1, <2>9 DEF StreamInv
    <3> QED
      BY <1>1, <2>1, <2>7, <2>9, <3>1, <3>9, <3>10, <3>11 DEF StreamInv, DigestIsOfTheWhole
  <2>10. CASE algo = "md5"
    <3>1. md5' = algo_md5_update_ret(md5, p) /\ UNCHANGED <<sha, ret>>
      BY <2>2, <2>4, <2>5, <2>10
    <3>2. MdHasTaken(md5, Message(f), Symbol)
      BY <2>4, <2>10 DEF StreamInv
    <3>3. /\ algo_md5_update_ret(md5, p) \in MdContext(Symbol)
          /\ MdHasTaken(algo_md5_update_ret(md5, p), Message(f) \o p, Symbol)
      BY <1>1, <2>3, <2>6, <3>2, MdPieceIsTaken
    <3>4. md5' \in MdContext(Symbol) /\ MdHasTaken(md5', Message(fed'), Symbol)
      BY <2>6, <2>7, <3>1, <3>3
    <3> QED
      BY <1>1, <2>1, <2>7, <2>10, <3>1, <3>4 DEF StreamInv, DigestIsOfTheWhole
  <2> QED
    BY <2>2, <2>8, <2>9, <2>10
<1>6. CASE Finish
  <2>1. UNCHANGED <<key, fed, ret>>
    BY <1>6 DEF Finish
  <2>2. PICK f \in Nat : f = fed /\ Message(f) \in Seq(Symbol)
    BY <1>1, SymbolIs, MessageIs
  <2>3. CASE algo = "sha"
    <3>1. algo' = "sha done" /\ sha' = core_algo_sha256Final(sha) /\ md5' = md5
      BY <1>6, <2>3 DEF Finish
    <3>2. ASSUME ret PROVE core_algo_sha256Final(sha).digest = Sha(Message(f))
      <4>1. Countable(Len(Message(f))) /\ sha \in ShaContext(Symbol) /\ HasTaken(sha, Message(f), Symbol)
        BY <2>2, <2>3, <3>2 DEF StreamInv, ShaHolds
      <4> QED
        BY <2>2, <4>1, SymbolIs, FinalIsSha
    <3> QED
      BY <1>1, <2>1, <2>2, <3>1, <3>2 DEF StreamInv, DigestIsOfTheWhole
  <2>4. CASE algo = "hmac"
    <3>1. algo' = "hmac done" /\ sha' = core_algo_hmacFinal(sha, k_pad1(key)) /\ md5' = md5
      BY <1>6, <2>4 DEF Finish
    <3>2. ASSUME ret PROVE core_algo_hmacFinal(sha, k_pad1(key)).digest = Hmac(key, Message(f))
      <4>1. PICK m : m = PadOf(key, "ipad") \o Message(f)
        OBVIOUS
      <4>2. PICK S, T : S = HmacSymbol(key) /\ T = {<<"key", i>> : i \in Nat}
        OBVIOUS
      <4>3. Countable(Len(m)) /\ sha \in ShaContext(S) /\ HasTaken(sha, m, S)
        BY <2>2, <2>4, <3>2, <4>1, <4>2 DEF StreamInv, ShaHolds
      <4>4. Symbols(S) /\ m \in Seq(S)
        <5>1. Symbols(S) /\ {<<"message", i>> : i \in Nat} \subseteq S /\ PadOf(key, "ipad") \in Seq(S)
          BY <4>2, HmacPad
        <5>2. Message(f) \in Seq(S)
          BY <5>1, MessageIs
        <5> QED
          BY <4>1, <5>1, <5>2
      <4>5. key \in Seq(T) /\ Countable(Len(key))
        BY <2>4, <4>2, KeyIs DEF StreamInv
      <4> QED
        BY <4>1, <4>3, <4>4, <4>5, HmacFinalIs
    <3>3. \E n \in KeyLength : key' = Key(n)
      BY <2>1, <2>4 DEF StreamInv
    <3> QED
      BY <1>1, <2>1, <2>2, <3>1, <3>2, <3>3 DEF StreamInv, DigestIsOfTheWhole
  <2>5. CASE algo = "md5"
    <3>1. algo' = "md5 done" /\ md5' = algo_md5_finish_ret(md5) /\ sha' = sha
      BY <1>6, <2>5 DEF Finish
    <3>2. MdFinished(algo_md5_finish_ret(md5), Message(f), Symbol)
      <4>1. MdHasTaken(md5, Message(f), Symbol)
        BY <2>2, <2>5 DEF StreamInv
      <4> QED
        BY <1>1, <2>2, <4>1, SymbolIs, FinishIsMd
    <3>3. md5' \in MdContext(Symbol) /\ md5'.digest = Md(Message(fed'))
      BY <2>1, <2>2, <3>1, <3>2 DEF MdFinished
    <3> QED
      BY <1>1, <2>1, <3>1, <3>3 DEF StreamInv, DigestIsOfTheWhole
  <2> QED
    BY <1>6, <2>3, <2>4, <2>5 DEF Finish
<1>7. CASE Taken
  BY <1>1, <1>7 DEF Taken, StreamInv, DigestIsOfTheWhole
<1>8. CASE UNCHANGED vars
  BY <1>8 DEF vars, StreamInv, DigestIsOfTheWhole
<1> QED
  BY <1>2, <1>3, <1>4, <1>5, <1>6, <1>7, <1>8 DEF Next

LEMMA StreamHolds ==
  Spec => []StreamInv
BY StreamStarts, StreamStep, PTL DEF Spec

(* However a message is cut into pieces, the digest is the one of the whole  *)
(* message (algo_sha256.c:223, algo_md5.c:255, algo_hmac.c:51): whatever the *)
(* sizes of a block and of a word, the key, and what the contexts were used  *)
(* for before.                                                               *)
THEOREM DigestsAreOfTheWhole ==
  Spec => []DigestIsOfTheWhole
<1>1. StreamInv => DigestIsOfTheWhole
  BY DEF StreamInv
<1> QED
  BY <1>1, StreamHolds, PTL

(* An update is refused exactly when the bits of the message, and of the     *)
(* padded key of HMAC, outgrow two words (algo_sha256.c:202).                *)
THEOREM RefusalsAreDue ==
  Spec => []RefusedIfUncountable
<1>1. StreamInv => RefusedIfUncountable
  <2> SUFFICES ASSUME StreamInv PROVE RefusedIfUncountable
    OBVIOUS
  <2>1. fed \in Nat /\ ret \in BOOLEAN
    BY DEF StreamInv
  <2>2. PICK f \in Nat : f = fed
    BY <2>1
  <2>3. CASE algo = "sha"
    <3>1. Len(Message(f)) = f /\ f + 0 = f
      BY SymbolIs, MessageIs
    <3>2. ret <=> Countable(f)
      BY <2>1, <2>2, <2>3, <3>1 DEF StreamInv, ShaHolds
    <3> QED
      BY <2>2, <2>3, <3>1, <3>2 DEF RefusedIfUncountable, Countable
  <2>4. CASE algo = "hmac"
    <3>1. PICK S, pad : S = HmacSymbol(key) /\ pad = PadOf(key, "ipad")
      OBVIOUS
    <3>2. {<<"message", i>> : i \in Nat} \subseteq S /\ pad \in Seq(S) /\ Len(pad) = BlockLen
      BY <3>1, HmacPad
    <3>3. PICK m \in Seq(S) : m = Message(f) /\ Len(m) = f
      BY <3>2, MessageIs
    <3>4. Len(pad \o m) = f + BlockLen
      <4>1. Len(pad \o m) = Len(pad) + Len(m) /\ BlockLen \in Nat
        BY <3>2, <3>3, Concatenation, Sizes DEF Joins
      <4> QED
        BY <3>2, <3>3, <4>1
    <3>5. ShaHolds(sha, ret, pad \o m, S)
      BY <2>2, <2>4, <3>1, <3>3 DEF StreamInv
    <3>6. ret <=> Countable(f + BlockLen)
      BY <2>1, <3>4, <3>5 DEF ShaHolds
    <3> QED
      BY <2>2, <2>4, <3>6 DEF RefusedIfUncountable, Countable
  <2> QED
    BY <2>3, <2>4 DEF RefusedIfUncountable
<1> QED
  BY <1>1, StreamHolds, PTL

-----------------------------------------------------------------------------
(* The calls on static variables                                             *)

-----------------------------------------------------------------------------
(* The steps of a call                                                       *)

StepName ==
  {"initial", "input", "key", "ipad", "opad", "update inner", "final", "key is digest", "inner", "copy",
   "temp", "keys", "iv", "chained block", "block"}

LEMMA PairsAre ==
  ASSUME NEW n \in Nat, NEW q, q = FlattenSeq([i \in 1 .. n |-> <<"keys", "block">>])
  PROVE  /\ q \in Seq(StepName) /\ Len(q) = 2 * n
         /\ \A j \in 1 .. n : q[2 * j - 1] = "keys" /\ q[2 * j] = "block"
<1>a. <<"keys", "block">> \in Seq(StepName)
  BY DEF StepName
<1>b. PICK p : p = <<"keys", "block">>
  OBVIOUS
<1>1. p \in Seq(StepName) /\ Len(p) = 2 /\ p[1] = "keys" /\ p[2] = "block"
  BY <1>a, <1>b
<1>c. PICK s : s = [i \in 1 .. n |-> p]
  OBVIOUS
<1>2. s \in Seq(Seq(StepName)) /\ Len(s) = n
  BY <1>1, <1>c
<1>3. PICK g \in [0 .. n -> Seq(StepName)] : Joining(g, s) /\ q = g[n]
  BY <1>b, <1>2, <1>c, FlattenSeqJoins
<1> DEFINE Paired(k) == /\ Len(g[k]) = 2 * k
                        /\ \A j \in 1 .. k : g[k][2 * j - 1] = "keys" /\ g[k][2 * j] = "block"
           T == {k \in Nat : k \in 0 .. n => Paired(k)}
<1>4. 0 \in T
  BY <1>2, <1>3 DEF Joining
<1>5. ASSUME NEW k \in Nat, k \in T PROVE k + 1 \in T
  <2> SUFFICES ASSUME k + 1 \in 0 .. n PROVE Paired(k + 1)
    OBVIOUS
  <2>1. Paired(k) /\ k + 1 \in 1 .. n /\ (k + 1) - 1 = k /\ g[k] \in Seq(StepName)
    BY <1>5
  <2>2. g[k + 1] = g[k] \o p
    <3>1. s[k + 1] = p
      BY <1>c, <2>1
    <3>2. g[k + 1] = g[k] \o s[k + 1]
      BY <1>2, <1>3, <2>1 DEF Joining
    <3> QED
      BY <3>1, <3>2
  <2>3. PICK x, y : x = g[k] /\ y = g[k + 1]
    OBVIOUS
  <2>a. Joins(y, x, 2 * k, p, 2)
    BY <1>1, <2>1, <2>2, <2>3, Concatenation
  <2>4. Len(y) = 2 * (k + 1)
    BY <2>a DEF Joins
  <2>5. ASSUME NEW j \in 1 .. k + 1 PROVE y[2 * j - 1] = "keys" /\ y[2 * j] = "block"
    <3>1. CASE j = k + 1
      <4>1. 2 * j - 1 = 2 * k + 1 /\ 2 * j = 2 * k + 2
        BY <3>1
      <4>2. 2 * k + 1 \in 1 .. 2 * k + 2 /\ 2 * k + 2 \in 1 .. 2 * k + 2 /\ 2 * k \in Nat
        OBVIOUS
      <4>3. y[2 * k + 1] = p[1] /\ y[2 * k + 2] = p[2]
        BY <2>a, <4>2 DEF Joins
      <4> QED
        BY <1>1, <4>1, <4>3
    <3>2. CASE j \in 1 .. k
      <4>1. 2 * j - 1 \in 1 .. 2 * k /\ 2 * j \in 1 .. 2 * k
        BY <3>2
      <4>2. y[2 * j - 1] = x[2 * j - 1] /\ y[2 * j] = x[2 * j]
        BY <2>a, <4>1 DEF Joins
      <4> QED
        BY <2>1, <2>3, <3>2, <4>2
    <3> QED
      BY <3>1, <3>2
  <2> QED
    BY <2>3, <2>4, <2>5
<1>6. Nat \subseteq T
  <2> HIDE DEF T
  <2> QED
    BY <1>4, <1>5, InductionOverNat
<1>7. Paired(n)
  <2>1. n \in 0 .. n
    OBVIOUS
  <2> HIDE DEF Paired
  <2> QED
    BY <1>6, <2>1
<1>8. n \in 0 .. n
  OBVIOUS
<1> QED
  BY <1>3, <1>7, <1>8

\* How many steps there are before the hash of an HMAC proper.
Lead(r) == IF KeyIsLong(r.key) THEN 4 ELSE 0

CountOf(r) ==
  IF r.kind = "sha" THEN 4
  ELSE IF r.kind = "hmac" THEN Lead(r) + 10
  ELSE IF r.kind \in CbcKind THEN 3 + Len(r.input)
  ELSE 1 + 2 * Len(r.input)

Named(s, r) ==
  /\ r.kind = "sha" => s[1] = "initial" /\ s[2] = "input" /\ s[3] = "final" /\ s[4] = "copy"
  /\ r.kind = "hmac" =>
       /\ Lead(r) = 4 => \A i \in 1 .. 4 : s[i] = LongKeySteps[i]
       /\ \A i \in 1 .. 10 : s[Lead(r) + i] = HmacSteps[i]
  /\ r.kind \in CbcKind =>
       /\ s[1] = "temp" /\ s[2] = "keys" /\ s[3] = "iv"
       /\ \A j \in 1 .. Len(r.input) : s[3 + j] = "chained block"
  /\ r.kind \in EcbKind =>
       /\ s[1] = "temp"
       /\ \A j \in 1 .. Len(r.input) : s[2 * j] = "keys" /\ s[2 * j + 1] = "block"

HmacNamed(h) ==
  /\ h[1] = "initial" /\ h[2] = "ipad" /\ h[3] = "input" /\ h[4] = "final" /\ h[5] = "inner"
  /\ h[6] = "initial" /\ h[7] = "opad" /\ h[8] = "update inner" /\ h[9] = "final" /\ h[10] = "copy"

LeadNamed(h) == h[1] = "initial" /\ h[2] = "key" /\ h[3] = "final" /\ h[4] = "key is digest"

LEMMA NamesOfSteps ==
  /\ HmacSteps \in Seq(StepName) /\ Len(HmacSteps) = 10 /\ HmacNamed(HmacSteps)
  /\ LongKeySteps \in Seq(StepName) /\ Len(LongKeySteps) = 4 /\ LeadNamed(LongKeySteps)
<1>1. <<"initial", "ipad", "input", "final", "inner", "initial", "opad", "update inner", "final", "copy">> \in Seq(StepName)
  BY DEF StepName
<1>2. <<"initial", "key", "final", "key is digest">> \in Seq(StepName)
  BY DEF StepName
<1>3. HmacSteps \in Seq(StepName) /\ LongKeySteps \in Seq(StepName)
  BY <1>1, <1>2 DEF HmacSteps, LongKeySteps
<1>4. Len(HmacSteps) = 10 /\ Len(LongKeySteps) = 4
  BY DEF HmacSteps, LongKeySteps
<1> QED
  BY <1>3, <1>4 DEF HmacSteps, LongKeySteps, HmacNamed, LeadNamed

LEMMA StepsAre ==
  ASSUME RequestsAreCountable, NEW r \in Request, NEW s, s = StepsOf(r)
  PROVE  s \in Seq(StepName) /\ Len(s) = CountOf(r) /\ Named(s, r)
<1>1. r.kind \in HashKind \cup CbcKind \cup EcbKind /\ r.input \in Seq(Data) /\ Len(r.input) \in Nat
  BY DEF RequestsAreCountable
<1>2. CASE r.kind = "sha"
  <2>1. r.kind # "hmac" /\ r.kind \notin CbcKind /\ r.kind \notin EcbKind
    BY <1>2 DEF CbcKind, EcbKind
  <2>2. s = HashSteps
    BY <1>2, <2>1 DEF StepsOf
  <2>3. <<"initial", "input", "final", "copy">> \in Seq(StepName)
    BY DEF StepName
  <2>4. s \in Seq(StepName) /\ Len(s) = 4
    BY <2>2, <2>3 DEF HashSteps
  <2>5. s[1] = "initial" /\ s[2] = "input" /\ s[3] = "final" /\ s[4] = "copy"
    BY <2>2 DEF HashSteps
  <2> QED
    BY <1>2, <2>1, <2>4, <2>5 DEF CountOf, Named
<1>3. CASE r.kind = "hmac"
  <2>1. PICK t : t = HmacSteps
    OBVIOUS
  <2>2. t \in Seq(StepName) /\ Len(t) = 10
    BY <2>1, NamesOfSteps
  <2>3. PICK u : u = IF KeyIsLong(r.key) THEN LongKeySteps ELSE <<>>
    OBVIOUS
  <2>4. u \in Seq(StepName) /\ Len(u) = Lead(r) /\ (Lead(r) = 4 => u = LongKeySteps)
    <3>1. CASE KeyIsLong(r.key)
      BY <2>3, <3>1, NamesOfSteps DEF Lead
    <3>2. CASE ~KeyIsLong(r.key)
      BY <2>3, <3>2 DEF Lead
    <3> QED
      BY <3>1, <3>2
  <2>5. s = u \o t
    BY <1>3, <2>1, <2>3 DEF StepsOf, CbcKind, EcbKind
  <2>6. s \in Seq(StepName) /\ Joins(s, u, Lead(r), t, 10)
    BY <2>2, <2>4, <2>5, Concatenation
  <2>7. Lead(r) \in {0, 4}
    BY DEF Lead
  <2>8. CountOf(r) = Lead(r) + 10
    BY <1>3 DEF CountOf
  <2>9. ASSUME NEW i \in 1 .. 10 PROVE s[Lead(r) + i] = t[i]
    BY <2>6, <2>7 DEF Joins
  <2>10. Lead(r) = 4 => \A i \in 1 .. 4 : s[i] = u[i]
    BY <2>6 DEF Joins
  <2>11. Named(s, r)
    BY <1>3, <2>1, <2>4, <2>9, <2>10 DEF Named, CbcKind, EcbKind
  <2> QED
    BY <2>6, <2>7, <2>8, <2>11 DEF Joins
<1>4. CASE r.kind \in CbcKind
  <2>1. PICK n \in Nat : n = Len(r.input)
    BY <1>1
  <2>a. PICK u, t : u = <<"temp", "keys", "iv">> /\ t = [i \in 1 .. n |-> "chained block"]
    OBVIOUS
  <2>2. u \in Seq(StepName) /\ Len(u) = 3 /\ u[1] = "temp" /\ u[2] = "keys" /\ u[3] = "iv"
    <3>1. <<"temp", "keys", "iv">> \in Seq(StepName)
      BY DEF StepName
    <3> QED
      BY <2>a, <3>1
  <2>3. t \in Seq(StepName) /\ Len(t) = n
    <3>1. PICK e : e = "chained block"
      OBVIOUS
    <3>2. e \in StepName
      BY <3>1 DEF StepName
    <3>3. t = [i \in 1 .. n |-> e]
      BY <2>a, <3>1
    <3> QED
      BY <3>2, <3>3
  <2>4. s = u \o t
    BY <1>4, <2>1, <2>a DEF StepsOf, CbcSteps, CbcKind, EcbKind
  <2>5. s \in Seq(StepName) /\ Joins(s, u, 3, t, n)
    BY <2>2, <2>3, <2>4, Concatenation
  <2>6. CountOf(r) = 3 + n
    BY <1>4, <2>1 DEF CountOf, CbcKind
  <2>7. \A j \in 1 .. n : s[3 + j] = "chained block"
    <3>1. ASSUME NEW j \in 1 .. n PROVE s[3 + j] = t[j]
      BY <2>5 DEF Joins
    <3> QED
      BY <2>a, <3>1
  <2>8. s[1] = "temp" /\ s[2] = "keys" /\ s[3] = "iv"
    BY <2>2, <2>5 DEF Joins
  <2>9. Named(s, r)
    BY <1>4, <2>1, <2>7, <2>8 DEF Named, CbcKind, EcbKind
  <2> QED
    BY <2>5, <2>6, <2>9 DEF Joins
<1>5. CASE r.kind \in EcbKind
  <2>1. PICK n \in Nat : n = Len(r.input)
    BY <1>1
  <2>a. PICK u : u = <<"temp">>
    OBVIOUS
  <2>2. u \in Seq(StepName) /\ Len(u) = 1 /\ u[1] = "temp"
    <3>1. <<"temp">> \in Seq(StepName)
      BY DEF StepName
    <3> QED
      BY <2>a, <3>1
  <2>3. PICK t : t = FlattenSeq([i \in 1 .. n |-> <<"keys", "block">>])
    OBVIOUS
  <2>4. /\ t \in Seq(StepName) /\ Len(t) = 2 * n
        /\ \A j \in 1 .. n : t[2 * j - 1] = "keys" /\ t[2 * j] = "block"
    BY <2>3, PairsAre
  <2>5. s = u \o t
    <3>1. s = EcbSteps(n)
      BY <1>5, <2>1 DEF StepsOf, CbcKind, EcbKind
    <3> QED
      BY <2>a, <2>3, <3>1 DEF EcbSteps
  <2>6. s \in Seq(StepName) /\ Joins(s, u, 1, t, 2 * n)
    BY <2>2, <2>4, <2>5, Concatenation
  <2>7. CountOf(r) = 1 + 2 * n
    BY <1>5, <2>1 DEF CountOf, CbcKind, EcbKind
  <2>8. \A j \in 1 .. n : s[2 * j] = "keys" /\ s[2 * j + 1] = "block"
    <3>1. ASSUME NEW j \in 1 .. n PROVE s[2 * j] = t[2 * j - 1] /\ s[2 * j + 1] = t[2 * j]
      <4>1. 2 * j \in 2 .. 1 + 2 * n /\ 2 * j + 1 \in 2 .. 1 + 2 * n /\ (2 * j + 1) - 1 = 2 * j
        OBVIOUS
      <4> QED
        BY <2>6, <4>1 DEF Joins
    <3> QED
      BY <2>4, <3>1
  <2>9. s[1] = "temp"
    BY <2>2, <2>6 DEF Joins
  <2>10. Named(s, r)
    BY <1>5, <2>1, <2>8, <2>9 DEF Named, CbcKind, EcbKind
  <2> QED
    BY <2>6, <2>7, <2>10 DEF Joins
<1> QED
  BY <1>1, <1>2, <1>3, <1>4, <1>5 DEF HashKind

\* What is left of s after k steps.
After(s, k) == SubSeq(s, k + 1, Len(s))

LEMMA NextOf ==
  ASSUME NEW s \in Seq(StepName), NEW k \in 0 .. Len(s), NEW t, t = After(s, k)
  PROVE  /\ t \in Seq(StepName) /\ (t = <<>> <=> k = Len(s))
         /\ k # Len(s) => k + 1 \in 0 .. Len(s) /\ t[1] = s[k + 1] /\ Tail(t) = After(s, k + 1)
<1>1. Len(s) \in Nat /\ t \in Seq(StepName) /\ Len(t) = Len(s) - k /\ \A i \in 1 .. Len(s) - k : t[i] = s[k + i]
  BY DEF After
<1>2. t = <<>> <=> k = Len(s)
  BY <1>1
<1>3. ASSUME k # Len(s) PROVE t[1] = s[k + 1] /\ Tail(t) = After(s, k + 1)
  <2>1. t # <<>> /\ 1 \in 1 .. Len(s) - k
    BY <1>1, <1>2, <1>3
  <2>2. PICK x, y : x = Tail(t) /\ y = After(s, k + 1)
    OBVIOUS
  <2>3. x \in Seq(StepName) /\ Len(x) = Len(s) - k - 1 /\ \A i \in 1 .. Len(s) - k - 1 : x[i] = t[i + 1]
    BY <1>1, <2>1, <2>2
  <2>4. y \in Seq(StepName) /\ Len(y) = Len(s) - k - 1 /\ \A i \in 1 .. Len(s) - k - 1 : y[i] = s[k + 1 + i]
    BY <1>1, <1>3, <2>2 DEF After
  <2>5. \A i \in 1 .. Len(s) - k - 1 : x[i] = y[i]
    <3>1. \A i \in 1 .. Len(s) - k - 1 : i + 1 \in 1 .. Len(s) - k /\ k + (i + 1) = k + 1 + i
      BY <1>1
    <3> QED
      BY <1>1, <2>3, <2>4, <3>1
  <2>6. x = y
    <3>1. x \in Seq(StepName) /\ y \in Seq(StepName) /\ Len(x) = Len(y)
          /\ \A i \in 1 .. Len(x) : x[i] = y[i]
      BY <2>3, <2>4, <2>5
    <3> QED
      BY ONLY <3>1
  <2> QED
    BY <1>1, <2>1, <2>2, <2>6
<1> QED
  BY <1>1, <1>2, <1>3

-----------------------------------------------------------------------------
(* How far a call has come                                                   *)

\* A context that has been given s.
Of(s) == core_algo_sha256Update(core_algo_sha256Initial, s)

InnerOf(r) == core_algo_sha256Update(Of(PadOf(r.key, "ipad")), r.input)
InnerDigest(r) == Bytes(core_algo_sha256Final(InnerOf(r)).digest)
OuterOf(r) == core_algo_sha256Update(Of(PadOf(r.key, "opad")), InnerDigest(r))

ShaReached(c, r, k) ==
  /\ k = 1 => hash = core_algo_sha256Initial
  /\ k = 2 => hash = Of(r.input)
  /\ k = 3 => hash = core_algo_sha256Final(Of(r.input))
  /\ k = 4 => out[c] = core_algo_sha256Final(Of(r.input)).digest

\* A long key is hashed first.
LeadReached(c, r, k) ==
  /\ c_key[c] = r.key
  /\ k = 1 => hash = core_algo_sha256Initial
  /\ k = 2 => hash = Of(r.key)
  /\ k = 3 => hash = core_algo_sha256Final(Of(r.key))

HmacReached(c, r, k) ==
  /\ c_key[c] = HmacKey(r.key)
  /\ k \in {1, 6} => hash = core_algo_sha256Initial
  /\ k = 2 => hash = Of(PadOf(r.key, "ipad"))
  /\ k = 3 => hash = InnerOf(r)
  /\ k = 4 => hash = core_algo_sha256Final(InnerOf(r))
  /\ k \in 5 .. 9 => inner[c] = InnerDigest(r)
  /\ k = 7 => hash = Of(PadOf(r.key, "opad"))
  /\ k = 8 => hash = OuterOf(r)
  /\ k = 9 => hash = core_algo_sha256Final(OuterOf(r))
  /\ k = 10 => out[c] = core_algo_sha256Final(OuterOf(r)).digest

\* The first n blocks of the result.
Blocks(r, n) == [i \in 1 .. n |-> Expected(r)[i]]

\* What block n + 1 is chained to.
Chained(r, n) ==
  IF n = 0 THEN r.iv ELSE IF r.kind = "cbc encrypt" THEN Expected(r)[n] ELSE r.input[n]

CbcReached(c, r, k) ==
  /\ out[c] = Blocks(r, IF k < 3 THEN 0 ELSE k - 3)
  /\ k < 3 + Len(r.input) =>
       /\ k >= 1 => temp_buff = r.input
       /\ k >= 2 => RoundKey = r.key
       /\ k >= 3 => Iv = Chained(r, k - 3)

EcbReached(c, r, k) ==
  \E j \in 0 .. Len(r.input) :
    /\ out[c] = Blocks(r, j)
    /\ \/ k = 0 /\ j = 0
       \/ k = 2 * j + 1 /\ (j < Len(r.input) => temp_buff = r.input)
       \/ k = 2 * j + 2 /\ j < Len(r.input) /\ temp_buff = r.input /\ RoundKey = r.key

Reached(c, r, k) ==
  /\ r.kind = "sha" => ShaReached(c, r, k)
  /\ r.kind = "hmac" => /\ k < Lead(r) => LeadReached(c, r, k)
                        /\ \A i \in 0 .. 10 : k = Lead(r) + i => HmacReached(c, r, i)
  /\ r.kind \in CbcKind => CbcReached(c, r, k)
  /\ r.kind \in EcbKind => EcbReached(c, r, k)

\* Where c is in the call r; what that means only holds if nobody has disturbed it.
Within(c, r) ==
  \E k \in 0 .. CountOf(r) :
    todo[c] = After(StepsOf(r), k) /\ (~stained[c] => Reached(c, r, k))

Underway(c) ==
  IF request[c] = NoRequest THEN todo[c] = <<>> /\ out[c] = <<>>
  ELSE request[c] \in Request /\ Within(c, request[c])

OfEach(f) == f = [c \in Context |-> f[c]]

Locals ==
  /\ OfEach(request) /\ OfEach(todo) /\ OfEach(c_key) /\ OfEach(inner) /\ OfEach(out)
  /\ stained \in [Context -> BOOLEAN]

CallsInv == Locals /\ \A c \in Context : Underway(c)

LEMMA NobodyCalls ==
  ASSUME NEW r \in Request, RequestsAreCountable
  PROVE  r # NoRequest
<1>1. r.kind \in HashKind \cup CbcKind \cup EcbKind
  BY DEF RequestsAreCountable
<1>2. r.kind # "none"
  BY <1>1 DEF HashKind, CbcKind, EcbKind
<1>3. NoRequest.kind = "none"
  BY DEF NoRequest
<1> QED
  BY <1>2, <1>3

LEMMA CallsStart ==
  CallsInit => CallsInv
  BY DEF CallsInit, CallsInv, Locals, OfEach, Underway

-----------------------------------------------------------------------------
(* What the steps do                                                         *)

HashName == {"initial", "input", "key", "ipad", "opad", "update inner", "final"}
DigestName == {"key is digest", "inner", "copy"}
CipherName == {"temp", "keys", "iv", "chained block", "block"}

HashEffect(c, n) ==
  /\ n = "initial" => hash' = core_algo_sha256Initial
  /\ n = "input" => hash' = core_algo_sha256Update(hash, request[c].input)
  /\ n = "key" => hash' = core_algo_sha256Update(hash, c_key[c])
  /\ n = "ipad" => hash' = core_algo_sha256Update(hash, core_algo_xor(c_key[c], "ipad"))
  /\ n = "opad" => hash' = core_algo_sha256Update(hash, core_algo_xor(c_key[c], "opad"))
  /\ n = "update inner" => hash' = core_algo_sha256Update(hash, inner[c])
  /\ n = "final" => hash' = core_algo_sha256Final(hash)
  /\ UNCHANGED <<temp_buff, RoundKey, Iv, c_key, inner, out>>

DigestEffect(c, n) ==
  /\ c_key' = IF n = "key is digest" THEN [c_key EXCEPT ![c] = Bytes(hash.digest)] ELSE c_key
  /\ inner' = IF n = "inner" THEN [inner EXCEPT ![c] = Bytes(hash.digest)] ELSE inner
  /\ out' = IF n = "copy" THEN [out EXCEPT ![c] = hash.digest] ELSE out
  /\ UNCHANGED <<hash, temp_buff, RoundKey, Iv>>

\* What a block becomes.
Ciphered(c, n) ==
  LET encrypts == request[c].kind = "cbc encrypt" IN
  IF n = "chained block"
  THEN IF encrypts THEN Encrypted(RoundKey, Xored(Block(c), Iv))
       ELSE Xored(Decrypted(RoundKey, Block(c)), Iv)
  ELSE IF request[c].kind = "ecb encrypt" THEN Encrypted(RoundKey, Block(c))
       ELSE Decrypted(RoundKey, Block(c))

CipherEffect(c, n) ==
  /\ temp_buff' = IF n = "temp" THEN request[c].input ELSE temp_buff
  /\ RoundKey' = IF n = "keys" THEN request[c].key ELSE RoundKey
  /\ n = "iv" => Iv' = request[c].iv
  /\ n = "chained block" => Iv' = IF request[c].kind = "cbc encrypt" THEN Ciphered(c, n) ELSE Block(c)
  /\ n \in {"chained block", "block"} => out' = [out EXCEPT ![c] = Append(@, Ciphered(c, n))]
  /\ n \notin {"chained block", "block"} => out' = out
  /\ UNCHANGED <<hash, c_key, inner>>

Effect(c, n) ==
  /\ Does(c, n) /\ n \in StepName
  /\ n \in HashName => HashEffect(c, n)
  /\ n \in DigestName => DigestEffect(c, n)
  /\ n \in CipherName => CipherEffect(c, n)

Acts(c) ==
  \/ HashStep(c) \/ ReadDigest(c)
  \/ Prepare(c) \/ ChainedBlock(c) \/ EcbBlock(c)

LEMMA Effects ==
  ASSUME NEW c \in Context, Acts(c)
  PROVE  \E n : Effect(c, n)
<1>1. CASE HashStep(c)
  <2>1. \E n \in HashName : Does(c, n) /\ HashEffect(c, n)
    BY <1>1 DEF HashStep, Hashes, Initialized, locals, HashName, HashEffect
  <2>2. \A n \in HashName : n \in StepName /\ n \notin DigestName /\ n \notin CipherName
    BY DEF HashName, StepName, DigestName, CipherName
  <2> QED
    BY <2>1, <2>2 DEF Effect
<1>2. CASE ReadDigest(c)
  <2>1. \E n \in DigestName : Does(c, n) /\ DigestEffect(c, n)
    BY <1>2 DEF ReadDigest, statics, DigestName, DigestEffect
  <2>2. \A n \in DigestName : n \in StepName /\ n \notin HashName /\ n \notin CipherName
    BY DEF HashName, StepName, DigestName, CipherName
  <2> QED
    BY <2>1, <2>2 DEF Effect
<1>3. CASE Prepare(c) \/ ChainedBlock(c) \/ EcbBlock(c)
  <2>1. \E n \in CipherName : Does(c, n) /\ CipherEffect(c, n)
    <3>1. CASE Prepare(c)
      BY <3>1 DEF Prepare, locals, CipherName, CipherEffect
    <3>2. CASE ChainedBlock(c)
      BY <3>2 DEF ChainedBlock, CipherName, CipherEffect, Ciphered
    <3>3. CASE EcbBlock(c)
      BY <3>3 DEF EcbBlock, statics, CipherName, CipherEffect, Ciphered
    <3> QED
      BY <1>3, <3>1, <3>2, <3>3
  <2>2. \A n \in CipherName : n \in StepName /\ n \notin HashName /\ n \notin DigestName
    BY DEF HashName, StepName, DigestName, CipherName
  <2> QED
    BY <2>1, <2>2 DEF Effect
<1> QED
  BY <1>1, <1>2, <1>3 DEF Acts

\* The steps of a call are those of its group.
LEMMA StepsOfGroup ==
  ASSUME RequestsAreCountable, NEW r \in Request, NEW k \in 0 .. CountOf(r) - 1,
         NEW n, n = StepsOf(r)[k + 1]
  PROVE  /\ r.kind \in HashKind => n \in HashName \cup DigestName
         /\ r.kind \notin HashKind => n \in CipherName
<1>1. PICK s : s = StepsOf(r)
  OBVIOUS
<1>2. Named(s, r) /\ n = s[k + 1]
  BY <1>1, StepsAre
<1>3. r.kind \in HashKind \cup CbcKind \cup EcbKind /\ r.input \in Seq(Data) /\ Len(r.input) \in Nat
  BY DEF RequestsAreCountable
<1>4. CASE r.kind = "sha"
  <2>1. CountOf(r) = 4
    BY <1>4 DEF CountOf
  <2>2. s[1] = "initial" /\ s[2] = "input" /\ s[3] = "final" /\ s[4] = "copy"
    BY <1>2, <1>4 DEF Named
  <2>3. k + 1 \in {1, 2, 3, 4}
    BY <2>1
  <2>4. n \in {"initial", "input", "final", "copy"}
    BY <1>2, <2>2, <2>3
  <2> QED
    BY <1>4, <2>4 DEF HashKind, HashName, DigestName
<1>5. CASE r.kind = "hmac"
  <2>1. CountOf(r) = Lead(r) + 10 /\ Lead(r) \in {0, 4}
    BY <1>5 DEF CountOf, Lead
  <2>2. ASSUME NEW i \in 1 .. 10 PROVE HmacSteps[i] \in HashName \cup DigestName
    <3>1. i \in {1, 2, 3, 4, 5, 6, 7, 8, 9, 10}
      OBVIOUS
    <3> QED
      BY <3>1, NamesOfSteps DEF HmacNamed, LeadNamed, HashName, DigestName
  <2>3. ASSUME NEW i \in 1 .. 4 PROVE LongKeySteps[i] \in HashName \cup DigestName
    <3>1. i \in {1, 2, 3, 4}
      OBVIOUS
    <3> QED
      BY <3>1, NamesOfSteps DEF HmacNamed, LeadNamed, HashName, DigestName
  <2>4. CASE Lead(r) = 4 /\ k < 4
    <3>1. PICK i \in 1 .. 4 : k + 1 = i
      BY <2>1, <2>4
    <3>2. n = LongKeySteps[i]
      BY <1>2, <1>5, <2>4, <3>1 DEF Named
    <3> QED
      BY <1>5, <2>3, <3>2 DEF HashKind
  <2>5. CASE k >= Lead(r)
    <3>1. PICK i \in 1 .. 10 : k + 1 = Lead(r) + i
      <4>1. k + 1 - Lead(r) \in 1 .. 10 /\ k + 1 = Lead(r) + (k + 1 - Lead(r))
        BY <2>1, <2>5
      <4> QED
        BY <4>1
    <3>2. n = HmacSteps[i]
      BY <1>2, <1>5, <3>1 DEF Named
    <3> QED
      BY <1>5, <2>2, <3>2 DEF HashKind
  <2> QED
    BY <2>1, <2>4, <2>5
<1>6. CASE r.kind \in CbcKind
  <2>1. CountOf(r) = 3 + Len(r.input) /\ r.kind \notin HashKind
    BY <1>6 DEF CountOf, CbcKind, HashKind
  <2>2. CASE k < 3
    <3>1. s[1] = "temp" /\ s[2] = "keys" /\ s[3] = "iv"
      BY <1>2, <1>6 DEF Named
    <3>2. k + 1 \in {1, 2, 3}
      BY <2>2
    <3>3. n \in {"temp", "keys", "iv"}
      BY <1>2, <3>1, <3>2
    <3> QED
      BY <2>1, <3>3 DEF CipherName
  <2>3. CASE k >= 3
    <3>1. k - 2 \in 1 .. Len(r.input) /\ k + 1 = 3 + (k - 2)
      BY <1>3, <2>1, <2>3
    <3>2. n = "chained block"
      BY <1>2, <1>6, <3>1 DEF Named
    <3> QED
      BY <2>1, <3>2 DEF CipherName
  <2> QED
    BY <2>2, <2>3
<1>7. CASE r.kind \in EcbKind
  <2>1. CountOf(r) = 1 + 2 * Len(r.input) /\ r.kind \notin HashKind
    BY <1>7 DEF CountOf, EcbKind, CbcKind, HashKind
  <2>2. CASE k = 0
    <3>1. s[1] = "temp"
      BY <1>2, <1>7 DEF Named
    <3>2. n = "temp"
      BY <1>2, <2>2, <3>1
    <3> QED
      BY <2>1, <3>2 DEF CipherName
  <2>3. CASE k # 0
    <3>1. PICK j \in Nat : k + 1 = 2 * j \/ k + 1 = 2 * j + 1
      <4>1. (k + 1) \div 2 \in Nat /\ (k + 1 = 2 * ((k + 1) \div 2) \/ k + 1 = 2 * ((k + 1) \div 2) + 1)
        OBVIOUS
      <4> QED
        BY <4>1
    <3>2. j \in 1 .. Len(r.input)
      BY <1>3, <2>1, <2>3, <3>1
    <3>3. n \in {"keys", "block"}
      BY <1>2, <1>7, <3>1, <3>2 DEF Named
    <3> QED
      BY <2>1, <3>3 DEF CipherName
  <2> QED
    BY <2>2, <2>3
<1> QED
  BY <1>3, <1>4, <1>5, <1>6, <1>7 DEF HashKind

-----------------------------------------------------------------------------
(* The results of the ciphers                                                *)

\* CBC is what its recursive definition says.
LEMMA CbcIs ==
  ASSUME NEW r, Len(r.input) \in Nat
  PROVE  /\ Cbc(r) = [i \in 1 .. Len(r.input) |-> Cbc(r)[i]]
         /\ \A i \in 1 .. Len(r.input) :
              Cbc(r)[i] = Encrypted(r.key, Xored(r.input[i],
                                  IF i = 1 THEN r.iv ELSE Cbc(r)[i - 1]))
<1> DEFINE n == Len(r.input)
           Chain(g, k) == g = [i \in 0 .. k |-> IF i = 0 THEN r.iv
                              ELSE Encrypted(r.key, Xored(r.input[i], g[i - 1]))]
           c == CHOOSE g : Chain(g, n)
           T == {k \in Nat : \E g : Chain(g, k)}
<1>1. Cbc(r) = [i \in 1 .. n |-> c[i]]
  BY DEF Cbc
<1>2. 0 \in T
  <2>1. Chain([i \in 0 .. 0 |-> r.iv], 0)
    OBVIOUS
  <2> HIDE DEF Chain
  <2> QED
    BY <2>1
<1>3. ASSUME NEW k \in Nat, k \in T PROVE k + 1 \in T
  <2>1. PICK g : Chain(g, k)
    BY <1>3
  <2>2. PICK h : h = [i \in 0 .. k + 1 |-> IF i <= k THEN g[i]
                      ELSE Encrypted(r.key, Xored(r.input[i], g[i - 1]))]
    OBVIOUS
  <2>3. ASSUME NEW i \in 0 .. k + 1
        PROVE  h[i] = IF i = 0 THEN r.iv ELSE Encrypted(r.key, Xored(r.input[i], h[i - 1]))
    <3>1. i # 0 => i - 1 \in 0 .. k + 1 /\ i - 1 <= k
      OBVIOUS
    <3>2. i # 0 => h[i - 1] = g[i - 1]
      BY <2>2, <3>1
    <3>3. CASE i <= k
      <4>1. i \in 0 .. k
        BY <3>3
      <4>2. g[i] = IF i = 0 THEN r.iv ELSE Encrypted(r.key, Xored(r.input[i], g[i - 1]))
        BY <2>1, <4>1
      <4>3. h[i] = g[i]
        BY <2>2, <3>3
      <4> QED
        BY <3>2, <4>2, <4>3
    <3>4. CASE ~(i <= k)
      <4>1. i # 0
        BY <3>4
      <4>2. h[i] = Encrypted(r.key, Xored(r.input[i], g[i - 1]))
        BY <2>2, <3>4
      <4> QED
        BY <3>2, <4>1, <4>2
    <3> QED
      BY <3>3, <3>4
  <2>4. Chain(h, k + 1)
    BY <2>2, <2>3
  <2> HIDE DEF Chain
  <2> QED
    BY <2>4
<1>4. Chain(c, n)
  <2> HIDE DEF Chain
  <2>1. Nat \subseteq T
    <3> HIDE DEF T
    <3> QED
      BY <1>2, <1>3, InductionOverNat
  <2>2. \E g : Chain(g, n)
    BY <2>1
  <2> QED
    BY <2>2
<1> HIDE DEF c
<1>5. ASSUME NEW i \in 0 .. n
      PROVE  c[i] = IF i = 0 THEN r.iv ELSE Encrypted(r.key, Xored(r.input[i], c[i - 1]))
  BY <1>4
<1> HIDE DEF Chain
<1>6. ASSUME NEW i \in 1 .. n
      PROVE  Cbc(r)[i] = Encrypted(r.key, Xored(r.input[i],
                                 IF i = 1 THEN r.iv ELSE Cbc(r)[i - 1]))
  <2>1. i \in 0 .. n /\ i # 0 /\ 0 \in 0 .. n
    OBVIOUS
  <2>2. Cbc(r)[i] = c[i] /\ c[i] = Encrypted(r.key, Xored(r.input[i], c[i - 1]))
    BY <1>1, <1>5, <2>1
  <2>3. CASE i = 1
    <3>1. c[i - 1] = r.iv
      BY <1>5, <2>1, <2>3
    <3> QED
      BY <2>2, <2>3, <3>1
  <2>4. CASE i # 1
    <3>1. i - 1 \in 1 .. n
      BY <2>4
    <3>2. Cbc(r)[i - 1] = c[i - 1]
      BY <1>1, <3>1
    <3> QED
      BY <2>2, <2>4, <3>2
  <2> QED
    BY <2>3, <2>4
<1> QED
  BY <1>1, <1>6

\* What block n + 1 of the result is.
NextResult(r, n) ==
  CASE r.kind = "cbc encrypt" -> Encrypted(r.key, Xored(r.input[n + 1], Chained(r, n)))
    [] r.kind = "cbc decrypt" -> Xored(Decrypted(r.key, r.input[n + 1]), Chained(r, n))
    [] r.kind = "ecb encrypt" -> Encrypted(r.key, r.input[n + 1])
    [] r.kind = "ecb decrypt" -> Decrypted(r.key, r.input[n + 1])

LEMMA BlocksAre ==
  ASSUME NEW r, r.kind \in CbcKind \cup EcbKind, r.input \in Seq(Data)
  PROVE  /\ Expected(r) = Blocks(r, Len(r.input))
         /\ \A n \in 0 .. Len(r.input) - 1 : Expected(r)[n + 1] = NextResult(r, n)
<1>1. Len(r.input) \in Nat /\ DOMAIN r.input = 1 .. Len(r.input)
  OBVIOUS
<1>2. CASE r.kind = "cbc encrypt"
  <2>1. PICK e : e = Cbc(r)
    OBVIOUS
  <2>2. Expected(r) = e
    BY <1>2, <2>1 DEF Expected
  <2>3. e = [i \in 1 .. Len(r.input) |-> e[i]]
    BY <1>1, <2>1, CbcIs
  <2>4. ASSUME NEW n \in 0 .. Len(r.input) - 1 PROVE e[n + 1] = NextResult(r, n)
    <3>1. n + 1 \in 1 .. Len(r.input) /\ (n + 1 = 1 <=> n = 0) /\ (n + 1) - 1 = n
      BY <1>1
    <3>2. e[n + 1] = Encrypted(r.key, Xored(r.input[n + 1], IF n + 1 = 1 THEN r.iv ELSE e[(n + 1) - 1]))
      BY <1>1, <2>1, <3>1, CbcIs
    <3>3. (IF n + 1 = 1 THEN r.iv ELSE e[(n + 1) - 1]) = Chained(r, n)
      BY <1>2, <2>2, <3>1 DEF Chained
    <3>4. NextResult(r, n) = Encrypted(r.key, Xored(r.input[n + 1], Chained(r, n)))
      BY <1>2 DEF NextResult
    <3> QED
      BY <3>2, <3>3, <3>4
  <2> QED
    BY <2>2, <2>3, <2>4 DEF Blocks
<1>3. CASE r.kind = "cbc decrypt"
  <2>1. PICK e : e = CbcBack(r)
    OBVIOUS
  <2>2. Expected(r) = e
    BY <1>3, <2>1 DEF Expected
  <2>3. e = [i \in 1 .. Len(r.input) |-> e[i]]
    BY <2>1 DEF CbcBack
  <2>4. ASSUME NEW n \in 0 .. Len(r.input) - 1 PROVE e[n + 1] = NextResult(r, n)
    <3>1. n + 1 \in 1 .. Len(r.input) /\ (n + 1 = 1 <=> n = 0) /\ (n + 1) - 1 = n
      BY <1>1
    <3>2. e[n + 1] = Xored(Decrypted(r.key, r.input[n + 1]), IF n + 1 = 1 THEN r.iv ELSE r.input[(n + 1) - 1])
      BY <2>1, <3>1 DEF CbcBack
    <3>3. (IF n + 1 = 1 THEN r.iv ELSE r.input[(n + 1) - 1]) = Chained(r, n)
      BY <1>3, <3>1 DEF Chained
    <3>4. NextResult(r, n) = Xored(Decrypted(r.key, r.input[n + 1]), Chained(r, n))
      BY <1>3 DEF NextResult
    <3> QED
      BY <3>2, <3>3, <3>4
  <2> QED
    BY <2>2, <2>3, <2>4 DEF Blocks
<1>4. CASE r.kind \in EcbKind
  <2>1. PICK e : e = Expected(r)
    OBVIOUS
  <2>2. e = [i \in 1 .. Len(r.input) |-> IF r.kind = "ecb encrypt" THEN Encrypted(r.key, r.input[i])
                                          ELSE Decrypted(r.key, r.input[i])]
    <3>1. CASE r.kind = "ecb encrypt"
      BY <1>1, <2>1, <3>1 DEF Expected
    <3>2. CASE r.kind = "ecb decrypt"
      BY <1>1, <2>1, <3>2 DEF Expected
    <3> QED
      BY <1>4, <3>1, <3>2 DEF EcbKind
  <2>3. ASSUME NEW n \in 0 .. Len(r.input) - 1 PROVE e[n + 1] = NextResult(r, n)
    <3>1. n + 1 \in 1 .. Len(r.input)
      BY <1>1
    <3>2. e[n + 1] = IF r.kind = "ecb encrypt" THEN Encrypted(r.key, r.input[n + 1])
                     ELSE Decrypted(r.key, r.input[n + 1])
      BY <2>2, <3>1
    <3> QED
      BY <1>4, <3>2 DEF NextResult, EcbKind
  <2>4. e = [i \in 1 .. Len(r.input) |-> e[i]]
    BY <2>2
  <2> QED
    BY <2>1, <2>3, <2>4 DEF Blocks
<1> QED
  BY <1>2, <1>3, <1>4 DEF CbcKind

LEMMA OneBlockMore ==
  ASSUME NEW r, NEW n \in Nat
  PROVE  /\ Len(Blocks(r, n)) = n
         /\ Append(Blocks(r, n), Expected(r)[n + 1]) = Blocks(r, n + 1)
<1>1. PICK e, T : e = Expected(r) /\ T = {e[i] : i \in 1 .. n + 1}
  OBVIOUS
<1>2. PICK a, b : a = [i \in 1 .. n |-> e[i]] /\ b = [i \in 1 .. n + 1 |-> e[i]]
  OBVIOUS
<1>3. n + 1 \in 1 .. n + 1 /\ \A i \in 1 .. n : i \in 1 .. n + 1
  OBVIOUS
<1>4. e[n + 1] \in T /\ \A i \in 1 .. n : e[i] \in T
  BY <1>1, <1>3
<1>5. a \in Seq(T) /\ Len(a) = n
  BY <1>2, <1>4
<1>6. b \in Seq(T) /\ Len(b) = n + 1
  <2>1. \A i \in 1 .. n + 1 : e[i] \in T
    BY <1>1
  <2> QED
    BY <1>2, <2>1
<1>7. PICK d : d = Append(a, e[n + 1])
  OBVIOUS
<1>8. d \in Seq(T) /\ Len(d) = n + 1 /\ d[n + 1] = e[n + 1] /\ \A i \in 1 .. n : d[i] = a[i]
  BY <1>4, <1>5, <1>7
<1>9. \A i \in 1 .. n + 1 : d[i] = b[i]
  <2>1. \A i \in 1 .. n + 1 : i \in 1 .. n \/ i = n + 1
    OBVIOUS
  <2>2. \A i \in 1 .. n : d[i] = e[i]
    BY <1>2, <1>8
  <2>3. \A i \in 1 .. n + 1 : b[i] = e[i]
    BY <1>2
  <2> QED
    BY <1>8, <2>1, <2>2, <2>3
<1>10. d = b
  BY <1>6, <1>8, <1>9
<1> QED
  BY <1>1, <1>2, <1>5, <1>7, <1>10 DEF Blocks

-----------------------------------------------------------------------------
(* A step of a call nobody has disturbed                                     *)

LEMMA ShaGoesOn ==
  ASSUME NEW c \in Context, Locals, NEW r, r = request[c], r.kind = "sha",
         NEW k \in 0 .. 3, NEW s, Named(s, r), NEW n, n = s[k + 1], Effect(c, n), ShaReached(c, r, k)
  PROVE  ShaReached(c, r, k + 1)'
<1>1. s[1] = "initial" /\ s[2] = "input" /\ s[3] = "final" /\ s[4] = "copy"
  BY DEF Named
<1>2. CASE k = 0
  <2>1. n = "initial"
    BY <1>1, <1>2
  <2>2. hash' = core_algo_sha256Initial
    BY <2>1 DEF Effect, HashName, HashEffect
  <2> QED
    BY <1>2, <2>2 DEF ShaReached
<1>3. CASE k = 1
  <2>1. n = "input"
    BY <1>1, <1>3
  <2>2. hash' = core_algo_sha256Update(hash, r.input)
    BY <2>1 DEF Effect, HashName, HashEffect
  <2> QED
    BY <1>3, <2>2 DEF ShaReached, Of
<1>4. CASE k = 2
  <2>1. n = "final"
    BY <1>1, <1>4
  <2>2. hash' = core_algo_sha256Final(hash)
    BY <2>1 DEF Effect, HashName, HashEffect
  <2> QED
    BY <1>4, <2>2 DEF ShaReached
<1>5. CASE k = 3
  <2>1. n = "copy"
    BY <1>1, <1>5
  <2>2. out'[c] = hash.digest
    BY <2>1 DEF Effect, DigestName, DigestEffect, Locals, OfEach
  <2> QED
    BY <1>5, <2>2 DEF ShaReached
<1> QED
  BY <1>2, <1>3, <1>4, <1>5

LEMMA KeyGoesOn ==
  ASSUME NEW c \in Context, Locals, NEW r, r = request[c], r.kind = "hmac", KeyIsLong(r.key),
         NEW k \in 0 .. 3, NEW s, LeadNamed(s), NEW n, n = s[k + 1], Effect(c, n), LeadReached(c, r, k)
  PROVE  IF k = 3 THEN HmacReached(c, r, 0)' ELSE LeadReached(c, r, k + 1)'
<1>a1. s[1] = "initial"
  BY DEF LeadNamed
<1>a2. s[2] = "key"
  BY DEF LeadNamed
<1>a3. s[3] = "final"
  BY DEF LeadNamed
<1>a4. s[4] = "key is digest"
  BY DEF LeadNamed
<1>1. CASE k = 0
  <2>1. n = "initial"
    BY <1>a1, <1>1
  <2>2. hash' = core_algo_sha256Initial /\ c_key' = c_key
    BY <2>1 DEF Effect, HashName, HashEffect
  <2> QED
    BY <1>1, <2>2 DEF LeadReached
<1>2. CASE k = 1
  <2>1. n = "key"
    BY <1>a2, <1>2
  <2>2. hash' = core_algo_sha256Update(hash, c_key[c]) /\ c_key' = c_key
    BY <2>1 DEF Effect, HashName, HashEffect
  <2> QED
    BY <1>2, <2>2 DEF LeadReached, Of
<1>3. CASE k = 2
  <2>1. n = "final"
    BY <1>a3, <1>3
  <2>2. hash' = core_algo_sha256Final(hash) /\ c_key' = c_key
    BY <2>1 DEF Effect, HashName, HashEffect
  <2> QED
    BY <1>3, <2>2 DEF LeadReached
<1>4. CASE k = 3
  <2>a. k + 1 = 4
    BY <1>4
  <2>1. n = "key is digest"
    BY <1>a4, <2>a
  <2>2. c_key'[c] = Bytes(hash.digest)
    BY <2>1 DEF Effect, DigestName, DigestEffect, Locals, OfEach
  <2>3. c_key'[c] = HmacKey(r.key)
    BY <1>4, <2>2 DEF LeadReached, Of, HmacKey
  <2> QED
    BY <1>4, <2>3 DEF HmacReached
<1> QED
  BY <1>1, <1>2, <1>3, <1>4

LEMMA HmacGoesOn ==
  ASSUME NEW c \in Context, Locals, NEW r, r = request[c], r.kind = "hmac",
         NEW k \in 0 .. 9, NEW s, HmacNamed(s), NEW n, n = s[k + 1], Effect(c, n), HmacReached(c, r, k)
  PROVE  HmacReached(c, r, k + 1)'
<1>1. n \in HashName => c_key' = c_key /\ inner' = inner
  BY DEF Effect, HashEffect
<1>2. n \in {"inner", "copy"} => c_key' = c_key
  BY DEF Effect, DigestName, DigestEffect
<1>a1. s[1] = "initial"
  BY DEF HmacNamed
<1>a2. s[2] = "ipad"
  BY DEF HmacNamed
<1>a3. s[3] = "input"
  BY DEF HmacNamed
<1>a4. s[4] = "final"
  BY DEF HmacNamed
<1>a5. s[5] = "inner"
  BY DEF HmacNamed
<1>a6. s[6] = "initial"
  BY DEF HmacNamed
<1>a7. s[7] = "opad"
  BY DEF HmacNamed
<1>a8. s[8] = "update inner"
  BY DEF HmacNamed
<1>a9. s[9] = "final"
  BY DEF HmacNamed
<1>a10. s[10] = "copy"
  BY DEF HmacNamed
<1>3. CASE k = 0
  <2>1. n = "initial"
    BY <1>a1, <1>3
  <2>2. hash' = core_algo_sha256Initial /\ c_key' = c_key
    BY <2>1 DEF Effect, HashName, HashEffect
  <2> QED
    BY <1>3, <2>2 DEF HmacReached
<1>4. CASE k = 1
  <2>1. n = "ipad"
    BY <1>a2, <1>4
  <2>2. hash' = core_algo_sha256Update(hash, core_algo_xor(c_key[c], "ipad")) /\ c_key' = c_key
    BY <2>1 DEF Effect, HashName, HashEffect
  <2> QED
    BY <1>4, <2>2 DEF HmacReached, Of, PadOf
<1>5. CASE k = 2
  <2>1. n = "input"
    BY <1>a3, <1>5
  <2>2. hash' = core_algo_sha256Update(hash, r.input) /\ c_key' = c_key
    BY <2>1 DEF Effect, HashName, HashEffect
  <2> QED
    BY <1>5, <2>2 DEF HmacReached, InnerOf
<1>6. CASE k = 3
  <2>1. n = "final"
    BY <1>a4, <1>6
  <2>2. hash' = core_algo_sha256Final(hash) /\ c_key' = c_key
    BY <2>1 DEF Effect, HashName, HashEffect
  <2> QED
    BY <1>6, <2>2 DEF HmacReached
<1>7. CASE k = 4
  <2>1. n = "inner"
    BY <1>a5, <1>7
  <2>2. inner'[c] = Bytes(hash.digest) /\ c_key' = c_key
    BY <2>1 DEF Effect, DigestName, DigestEffect, Locals, OfEach
  <2> QED
    BY <1>7, <2>2 DEF HmacReached, InnerDigest
<1>8. CASE k = 5
  <2>1. n = "initial"
    BY <1>a6, <1>8
  <2>2. hash' = core_algo_sha256Initial /\ c_key' = c_key /\ inner' = inner
    BY <2>1 DEF Effect, HashName, HashEffect
  <2> QED
    BY <1>8, <2>2 DEF HmacReached
<1>9. CASE k = 6
  <2>1. n = "opad"
    BY <1>a7, <1>9
  <2>2. hash' = core_algo_sha256Update(hash, core_algo_xor(c_key[c], "opad")) /\ c_key' = c_key /\ inner' = inner
    BY <2>1 DEF Effect, HashName, HashEffect
  <2> QED
    BY <1>9, <2>2 DEF HmacReached, Of, PadOf
<1>10. CASE k = 7
  <2>a. k + 1 = 8
    BY <1>10
  <2>1. n = "update inner"
    BY <1>a8, <2>a
  <2>2. hash' = core_algo_sha256Update(hash, inner[c]) /\ c_key' = c_key /\ inner' = inner
    BY <2>1 DEF Effect, HashName, HashEffect
  <2> QED
    BY <1>10, <2>2 DEF HmacReached, OuterOf
<1>11. CASE k = 8
  <2>1. n = "final"
    BY <1>a9, <1>11
  <2>2. hash' = core_algo_sha256Final(hash) /\ c_key' = c_key /\ inner' = inner
    BY <2>1 DEF Effect, HashName, HashEffect
  <2> QED
    BY <1>11, <2>2 DEF HmacReached
<1>12. CASE k = 9
  <2>1. n = "copy"
    BY <1>a10, <1>12
  <2>2. out'[c] = hash.digest /\ c_key' = c_key
    BY <2>1 DEF Effect, DigestName, DigestEffect, Locals, OfEach
  <2> QED
    BY <1>12, <2>2 DEF HmacReached
<1>13. k \in {0, 1, 2, 3, 4, 5, 6, 7, 8, 9}
  OBVIOUS
<1> QED
  BY <1>3, <1>4, <1>5, <1>6, <1>7, <1>8, <1>9, <1>10, <1>11, <1>12, <1>13

\* The step n gives block j + 1.
GivesBlock(r, n, j) ==
  \/ r.kind \in CbcKind /\ n = "chained block" /\ Iv = Chained(r, j)
  \/ r.kind \in EcbKind /\ n = "block"

LEMMA NextIsResult ==
  ASSUME NEW c \in Context, NEW r, r = request[c], r.input \in Seq(Data),
         NEW j \in Nat, Len(r.input) \in Nat, j < Len(r.input),
         out[c] = Blocks(r, j), temp_buff = r.input, RoundKey = r.key,
         NEW n, GivesBlock(r, n, j)
  PROVE  /\ Block(c) = r.input[j + 1]
         /\ Ciphered(c, n) = Expected(r)[j + 1]
<1>a. PICK m \in Nat : m = Len(r.input)
  OBVIOUS
<1>b. j + 1 <= m /\ j \in 0 .. m - 1
  BY <1>a
<1>c. Len(out[c]) = j
  BY OneBlockMore
<1>1. Len(out[c]) = j /\ j + 1 <= Len(temp_buff) /\ j \in 0 .. Len(r.input) - 1
  BY <1>a, <1>b, <1>c
<1>2. Block(c) = r.input[j + 1]
  BY <1>1 DEF Block
<1>d. r.kind \in CbcKind \cup EcbKind
  BY DEF GivesBlock
<1>3. Expected(r)[j + 1] = NextResult(r, j)
  BY <1>1, <1>d, BlocksAre
<1>4. Ciphered(c, n) = NextResult(r, j)
  BY <1>2 DEF GivesBlock, Ciphered, NextResult, CbcKind, EcbKind
<1> QED
  BY <1>2, <1>3, <1>4

LEMMA CbcGoesOn ==
  ASSUME NEW c \in Context, Locals, NEW r, r = request[c], r.kind \in CbcKind, r.input \in Seq(Data),
         NEW k \in 0 .. 2 + Len(r.input), NEW s, Named(s, r), NEW n, n = s[k + 1], Effect(c, n),
         CbcReached(c, r, k)
  PROVE  CbcReached(c, r, k + 1)'
<1>a. s[1] = "temp" /\ s[2] = "keys" /\ s[3] = "iv"
  BY DEF Named
<1>1. s[1] = "temp" /\ s[2] = "keys" /\ s[3] = "iv" /\ Len(r.input) \in Nat
  BY <1>a
<1>2. CASE k = 0
  <2>1. n = "temp"
    BY <1>1, <1>2
  <2>2. temp_buff' = r.input /\ out' = out
    BY <2>1 DEF Effect, CipherName, CipherEffect
  <2>3. out[c] = Blocks(r, 0)
    BY <1>2 DEF CbcReached
  <2> QED
    BY <1>2, <2>2, <2>3 DEF CbcReached
<1>3. CASE k = 1
  <2>1. n = "keys"
    BY <1>1, <1>3
  <2>2. temp_buff' = temp_buff /\ RoundKey' = r.key /\ out' = out
    BY <2>1 DEF Effect, CipherName, CipherEffect
  <2>3. out[c] = Blocks(r, 0) /\ temp_buff = r.input
    BY <1>1, <1>3 DEF CbcReached
  <2> QED
    BY <1>3, <2>2, <2>3 DEF CbcReached
<1>4. CASE k = 2
  <2>1. n = "iv"
    BY <1>1, <1>4
  <2>2. temp_buff' = temp_buff /\ RoundKey' = RoundKey /\ Iv' = r.iv /\ out' = out
    BY <2>1 DEF Effect, CipherName, CipherEffect
  <2>3. out[c] = Blocks(r, 0) /\ temp_buff = r.input /\ RoundKey = r.key
    BY <1>1, <1>4 DEF CbcReached
  <2>4. Chained(r, 0) = r.iv
    BY DEF Chained
  <2> QED
    BY <1>4, <2>2, <2>3, <2>4 DEF CbcReached
<1>5. CASE k >= 3
  <2>1. PICK j \in 0 .. Len(r.input) - 1 : k = 3 + j
    <3>1. k - 3 \in 0 .. Len(r.input) - 1 /\ k = 3 + (k - 3)
      BY <1>1, <1>5
    <3> QED
      BY <3>1
  <2>2. k + 1 = 3 + (j + 1) /\ j + 1 \in 1 .. Len(r.input) /\ k - 3 = j /\ (k + 1) - 3 = j + 1
    BY <1>1, <2>1
  <2>3. n = "chained block"
    BY <2>2 DEF Named
  <2>4. out[c] = Blocks(r, j) /\ temp_buff = r.input /\ RoundKey = r.key /\ Iv = Chained(r, j)
    BY <1>1, <1>5, <2>1, <2>2 DEF CbcReached
  <2>b. PICK m \in Nat : m = Len(r.input)
    BY <1>1
  <2>c. j \in Nat /\ j < m
    BY <2>1, <2>b
  <2>d. j \in Nat /\ j < Len(r.input)
    BY <2>b, <2>c
  <2>5. Block(c) = r.input[j + 1] /\ Ciphered(c, n) = Expected(r)[j + 1]
    <3>1. GivesBlock(r, n, j)
      BY <2>3, <2>4 DEF GivesBlock
    <3> QED
      BY <1>1, <2>d, <2>4, <3>1, NextIsResult
  <2>6. /\ temp_buff' = temp_buff /\ RoundKey' = RoundKey
        /\ Iv' = IF r.kind = "cbc encrypt" THEN Ciphered(c, n) ELSE Block(c)
        /\ out' = [out EXCEPT ![c] = Append(@, Ciphered(c, n))]
    BY <2>3 DEF Effect, CipherName, CipherEffect
  <2>7. out'[c] = Append(out[c], Ciphered(c, n))
    BY <2>6 DEF Locals, OfEach
  <2>8. out'[c] = Blocks(r, j + 1)
    <3>1. out'[c] = Append(Blocks(r, j), Expected(r)[j + 1])
      BY <2>4, <2>5, <2>7
    <3> QED
      BY <2>d, <3>1, OneBlockMore
  <2>9. Iv' = Chained(r, j + 1)
    <3>1. j + 1 # 0
      BY <2>2
    <3>2. Chained(r, j + 1) = IF r.kind = "cbc encrypt" THEN Expected(r)[j + 1] ELSE r.input[j + 1]
      BY <3>1 DEF Chained
    <3> QED
      BY <2>5, <2>6, <3>2
  <2>10. ~(k + 1 < 3)
    BY <1>5
  <2> QED
    BY <2>2, <2>4, <2>6, <2>8, <2>9, <2>10 DEF CbcReached
<1> QED
  BY <1>2, <1>3, <1>4, <1>5

LEMMA EcbGoesOn ==
  ASSUME NEW c \in Context, Locals, NEW r, r = request[c], r.kind \in EcbKind, r.input \in Seq(Data),
         NEW k \in 0 .. 2 * Len(r.input), NEW s, Named(s, r), NEW n, n = s[k + 1], Effect(c, n),
         EcbReached(c, r, k)
  PROVE  EcbReached(c, r, k + 1)'
<1>1. PICK j \in 0 .. Len(r.input) :
        /\ out[c] = Blocks(r, j)
        /\ \/ k = 0 /\ j = 0
           \/ k = 2 * j + 1 /\ (j < Len(r.input) => temp_buff = r.input)
           \/ k = 2 * j + 2 /\ j < Len(r.input) /\ temp_buff = r.input /\ RoundKey = r.key
  BY DEF EcbReached
<1>2. Len(r.input) \in Nat
  OBVIOUS
<1>3. CASE k = 0 /\ j = 0
  <2>a. s[1] = "temp"
    BY DEF Named
  <2>1. n = "temp"
    BY <1>3, <2>a
  <2>2. temp_buff' = r.input /\ out' = out
    BY <2>1 DEF Effect, CipherName, CipherEffect
  <2>3. k + 1 = 2 * j + 1
    BY <1>3
  <2> QED
    BY <1>1, <2>2, <2>3 DEF EcbReached
<1>4. CASE k = 2 * j + 1 /\ (j < Len(r.input) => temp_buff = r.input)
  <2>1. j < Len(r.input) /\ j + 1 \in 1 .. Len(r.input) /\ k + 1 = 2 * (j + 1) /\ k + 1 = 2 * j + 2
    BY <1>2, <1>4
  <2>2. n = "keys"
    BY <2>1 DEF Named
  <2>3. temp_buff' = temp_buff /\ RoundKey' = r.key /\ out' = out
    BY <2>2 DEF Effect, CipherName, CipherEffect
  <2> QED
    BY <1>1, <1>4, <2>1, <2>3 DEF EcbReached
<1>5. CASE k = 2 * j + 2 /\ j < Len(r.input) /\ temp_buff = r.input /\ RoundKey = r.key
  <2>1. j \in 0 .. Len(r.input) - 1 /\ j \in Nat /\ j + 1 \in 1 .. Len(r.input) /\ k + 1 = 2 * (j + 1) + 1
    BY <1>2, <1>5
  <2>2. n = "block"
    BY <2>1 DEF Named
  <2>3. Ciphered(c, n) = Expected(r)[j + 1]
    <3>1. GivesBlock(r, n, j)
      BY <2>2 DEF GivesBlock
    <3> QED
      BY <1>1, <1>2, <1>5, <2>1, <3>1, NextIsResult
  <2>4. temp_buff' = temp_buff /\ out' = [out EXCEPT ![c] = Append(@, Ciphered(c, n))]
    BY <2>2 DEF Effect, CipherName, CipherEffect
  <2>5. out'[c] = Append(out[c], Ciphered(c, n))
    BY <2>4 DEF Locals, OfEach
  <2>6. out'[c] = Blocks(r, j + 1)
    <3>1. out'[c] = Append(Blocks(r, j), Expected(r)[j + 1])
      BY <1>1, <2>3, <2>5
    <3> QED
      BY <2>1, <3>1, OneBlockMore
  <2>7. j + 1 \in 0 .. Len(r.input)
    BY <2>1
  <2> QED
    BY <1>5, <2>1, <2>4, <2>6, <2>7 DEF EcbReached
<1> QED
  BY <1>1, <1>3, <1>4, <1>5

-----------------------------------------------------------------------------
(* The results of the hashes                                                 *)

LEMMA OuterIsHmac ==
  ASSUME NEW r, r.kind = "hmac", r.key \in Seq(Data), r.input \in Seq(Data),
         Countable(Len(r.key)), Countable(BlockLen + Len(r.input))
  PROVE  core_algo_sha256Final(OuterOf(r)).digest = Hmac(r.key, r.input)
<1>1. PICK pad : pad = PadOf(r.key, "ipad")
  OBVIOUS
<1>2. PICK P, S : P = {pad[i] : i \in 1 .. BlockLen} /\ S = Everything(P \cup Data)
  OBVIOUS
<1>3. Symbols(S) /\ P \subseteq S /\ Data \subseteq S
  BY <1>2, EverythingHasSymbols
<1>4. pad \in Seq(S) /\ Len(pad) = BlockLen
  <2>1. IsPad(pad)
    BY <1>1, PadType DEF PadOf
  <2>2. pad \in Seq(P) /\ Len(pad) = BlockLen
    BY <1>2, <2>1 DEF IsPad
  <2> QED
    BY <1>3, <2>2, SeqOfMore
<1>5. PICK m \in Seq(S) : m = r.input
  BY <1>3, SeqOfMore
<1>6. Countable(Len(pad)) /\ Countable(Len(pad) + Len(m)) /\ Len(pad \o m) = Len(pad) + Len(m)
  <2>1. BlockLen \in Nat /\ BlockLen <= BlockLen + BlockLen
    BY Sizes
  <2>2. Countable(BlockLen)
    BY <2>1, BlocksAreCountable
  <2>3. Len(pad \o m) = Len(pad) + Len(m)
    BY <1>4, Concatenation DEF Joins
  <2>4. Countable(BlockLen + Len(m))
    BY <1>5
  <2> QED
    BY <1>4, <2>2, <2>3, <2>4
<1>7. PICK a : a = Of(pad)
  OBVIOUS
<1>8. a \in ShaContext(S) /\ HasTaken(a, pad, S)
  BY <1>3, <1>4, <1>6, <1>7, WholeIsTaken DEF Of
<1>9. PICK e : e = core_algo_sha256Update(a, m)
  OBVIOUS
<1>10. e \in ShaContext(S) /\ HasTaken(e, pad \o m, S)
  BY <1>3, <1>4, <1>6, <1>8, <1>9, PieceIsTaken
<1>11. core_algo_hmacFinal(e, k_pad1(r.key)).digest = Hmac(r.key, m)
  <2>1. pad \o m \in Seq(S) /\ Countable(Len(pad \o m))
    BY <1>4, <1>6
  <2> QED
    BY <1>1, <1>3, <1>10, <2>1, HmacFinalIs
<1>12. e = InnerOf(r)
  BY <1>1, <1>5, <1>7, <1>9 DEF InnerOf
<1>13. core_algo_hmacFinal(InnerOf(r), k_pad1(r.key)) = core_algo_sha256Final(OuterOf(r))
  BY DEF core_algo_hmacFinal, OuterOf, InnerDigest, Of, PadOf, k_pad1
<1> QED
  BY <1>5, <1>11, <1>12, <1>13

LEMMA EndIsExpected ==
  ASSUME RequestsAreCountable, NEW c, NEW r \in Request, Reached(c, r, CountOf(r))
  PROVE  out[c] = Expected(r)
<1>1. r.kind \in HashKind \cup CbcKind \cup EcbKind /\ r.input \in Seq(Data) /\ Len(r.input) \in Nat
  BY DEF RequestsAreCountable
<1>2. CASE r.kind = "sha"
  <2>1. CountOf(r) = 4 /\ Countable(Len(r.input))
    BY <1>2 DEF CountOf, RequestsAreCountable
  <2>2. out[c] = core_algo_sha256Final(Of(r.input)).digest
    BY <1>2, <2>1 DEF Reached, ShaReached
  <2>3. out[c] = Sha(r.input)
    BY <1>1, <2>1, <2>2, DigestIsSha DEF Of
  <2> QED
    BY <1>2, <2>3 DEF Expected
<1>3. CASE r.kind = "hmac"
  <2>1. /\ r.key \in Seq(Data) /\ Countable(Len(r.key)) /\ Countable(BlockLen + Len(r.input))
    BY <1>3 DEF RequestsAreCountable
  <2>2. Lead(r) \in {0, 4} /\ CountOf(r) = Lead(r) + 10
    BY <1>3 DEF Lead, CountOf
  <2>4. HmacReached(c, r, 10)
    BY <1>3, <2>2 DEF Reached
  <2>5. out[c] = core_algo_sha256Final(OuterOf(r)).digest
    BY <2>4 DEF HmacReached
  <2>6. out[c] = Hmac(r.key, r.input)
    BY <1>1, <1>3, <2>1, <2>5, OuterIsHmac
  <2> QED
    BY <1>3, <2>6 DEF Expected
<1>4. CASE r.kind \in CbcKind
  <2>1. CountOf(r) = 3 + Len(r.input)
    BY <1>4 DEF CountOf, CbcKind
  <2>2. ~(CountOf(r) < 3) /\ CountOf(r) - 3 = Len(r.input)
    BY <1>1, <2>1
  <2>3. out[c] = Blocks(r, Len(r.input))
    BY <1>4, <2>2 DEF Reached, CbcReached
  <2> QED
    BY <1>1, <1>4, <2>3, BlocksAre
<1>5. CASE r.kind \in EcbKind
  <2>1. CountOf(r) = 1 + 2 * Len(r.input)
    BY <1>5 DEF CountOf, CbcKind, EcbKind
  <2>2. PICK j \in 0 .. Len(r.input) :
          out[c] = Blocks(r, j) /\ CountOf(r) \in {0, 2 * j + 1, 2 * j + 2} /\ (CountOf(r) = 2 * j + 2 => j < Len(r.input))
                   /\ (CountOf(r) = 0 => j = 0)
    BY <1>5 DEF Reached, EcbReached
  <2>3. j = Len(r.input)
    BY <1>1, <2>1, <2>2
  <2> QED
    BY <1>1, <1>5, <2>2, <2>3, BlocksAre
<1> QED
  BY <1>1, <1>2, <1>3, <1>4, <1>5 DEF HashKind

-----------------------------------------------------------------------------
(* Every step of every context                                               *)

\* A call goes on when its context does its next step.
LEMMA ReachesNext ==
  ASSUME RequestsAreCountable, NEW c \in Context, Locals, NEW r \in Request, r = request[c],
         NEW k \in 0 .. CountOf(r) - 1, NEW n, n = StepsOf(r)[k + 1], Effect(c, n), Reached(c, r, k)
  PROVE  Reached(c, r, k + 1)'
<1>1. r.kind \in HashKind \cup CbcKind \cup EcbKind /\ r.input \in Seq(Data) /\ Len(r.input) \in Nat
  BY DEF RequestsAreCountable
<1>2. PICK s : s = StepsOf(r)
  OBVIOUS
<1>3. Named(s, r) /\ n = s[k + 1]
  BY <1>2, StepsAre
<1>4. CASE r.kind = "sha"
  <2>1. k \in 0 .. 3
    BY <1>4 DEF CountOf
  <2>2. ShaReached(c, r, k + 1)'
    BY <1>3, <1>4, <2>1, ShaGoesOn DEF Reached
  <2> QED
    BY <1>4, <2>2 DEF Reached, CbcKind, EcbKind
<1>5. CASE r.kind = "hmac"
  <2>1. Lead(r) \in {0, 4} /\ CountOf(r) = Lead(r) + 10
    BY <1>5 DEF Lead, CountOf
  <2>a. Lead(r)' = Lead(r)
    BY DEF Lead, KeyIsLong
  <2>b. r.kind # "sha" /\ r.kind \notin CbcKind /\ r.kind \notin EcbKind
    BY <1>5 DEF CbcKind, EcbKind
  <2>2. CASE k < Lead(r)
    <3>1. Lead(r) = 4 /\ k \in 0 .. 3 /\ k + 1 \in 1 .. 4
      BY <2>1, <2>2
    <3>2. KeyIsLong(r.key)
      BY <3>1 DEF Lead
    <3>3. n = LongKeySteps[k + 1]
      BY <1>3, <1>5, <3>1 DEF Named
    <3>4. PICK h : h = LongKeySteps
      OBVIOUS
    <3>5. LeadNamed(h) /\ n = h[k + 1]
      BY <3>3, <3>4, NamesOfSteps
    <3>6. LeadReached(c, r, k)
      BY <1>5, <2>2 DEF Reached
    <3>7. IF k = 3 THEN HmacReached(c, r, 0)' ELSE LeadReached(c, r, k + 1)'
      BY <1>5, <3>1, <3>2, <3>5, <3>6, KeyGoesOn
    <3>8. k + 1 < Lead(r) => LeadReached(c, r, k + 1)'
      <4>1. k + 1 < Lead(r) => k # 3
        BY <3>1
      <4> QED
        BY <3>7, <4>1
    <3>9. ASSUME NEW i \in 0 .. 10, k + 1 = Lead(r) + i PROVE HmacReached(c, r, i)'
      <4>1. k = 3 /\ i = 0
        BY <3>1, <3>9
      <4> QED
        BY <3>7, <4>1
    <3> QED
      BY <2>a, <2>b, <3>8, <3>9 DEF Reached
  <2>3. CASE ~(k < Lead(r))
    <3>1. PICK i \in 0 .. 9 : k = Lead(r) + i
      <4>1. k - Lead(r) \in 0 .. 9 /\ k = Lead(r) + (k - Lead(r))
        BY <2>1, <2>3
      <4> QED
        BY <4>1
    <3>2. k + 1 = Lead(r) + (i + 1) /\ i + 1 \in 1 .. 10 /\ i \in 0 .. 10 /\ ~(k + 1 < Lead(r))
      BY <2>1, <3>1
    <3>3. n = HmacSteps[i + 1]
      BY <1>3, <1>5, <3>2 DEF Named
    <3>4. PICK h : h = HmacSteps
      OBVIOUS
    <3>5. HmacNamed(h) /\ n = h[i + 1]
      BY <3>3, <3>4, NamesOfSteps
    <3>6. HmacReached(c, r, i)
      BY <1>5, <3>1, <3>2 DEF Reached
    <3>7. HmacReached(c, r, i + 1)'
      BY <1>5, <3>5, <3>6, HmacGoesOn
    <3>8. k + 1 < Lead(r) => LeadReached(c, r, k + 1)'
      BY <3>2
    <3>9. ASSUME NEW q \in 0 .. 10, k + 1 = Lead(r) + q PROVE HmacReached(c, r, q)'
      <4>1. q = i + 1
        BY <2>1, <3>2, <3>9
      <4> QED
        BY <3>7, <4>1
    <3> QED
      BY <2>a, <2>b, <3>8, <3>9 DEF Reached
  <2> QED
    BY <2>2, <2>3
<1>6. CASE r.kind \in CbcKind
  <2>1. CountOf(r) = 3 + Len(r.input)
    BY <1>6 DEF CountOf, CbcKind
  <2>2. k \in 0 .. 2 + Len(r.input)
    BY <1>1, <2>1
  <2>3. CbcReached(c, r, k + 1)'
    BY <1>1, <1>3, <1>6, <2>2, CbcGoesOn DEF Reached
  <2> QED
    BY <1>6, <2>3 DEF Reached, CbcKind, EcbKind
<1>7. CASE r.kind \in EcbKind
  <2>1. CountOf(r) = 1 + 2 * Len(r.input)
    BY <1>7 DEF CountOf, CbcKind, EcbKind
  <2>2. k \in 0 .. 2 * Len(r.input)
    BY <1>1, <2>1
  <2>3. EcbReached(c, r, k + 1)'
    BY <1>1, <1>3, <1>7, <2>2, EcbGoesOn DEF Reached
  <2> QED
    BY <1>7, <2>3 DEF Reached, CbcKind, EcbKind
<1> QED
  BY <1>1, <1>4, <1>5, <1>6, <1>7 DEF HashKind

\* What o has in its call is as it was.
Kept(o) ==
  /\ request'[o] = request[o] /\ todo'[o] = todo[o]
  /\ c_key'[o] = c_key[o] /\ inner'[o] = inner[o] /\ out'[o] = out[o]

\* What a call needs of the static variables is as it was, or it needs them no more.
NotDisturbed(r, k) ==
  \/ k = CountOf(r)
  \/ r.kind \in HashKind /\ hash' = hash
  \/ r.kind \notin HashKind /\ UNCHANGED <<temp_buff, RoundKey, Iv>>

LEMMA ReachedStays ==
  ASSUME RequestsAreCountable, NEW o, NEW r \in Request, NEW k \in 0 .. CountOf(r),
         Reached(o, r, k), Kept(o), NotDisturbed(r, k)
  PROVE  Reached(o, r, k)'
<1>1. r.kind \in HashKind \cup CbcKind \cup EcbKind /\ Len(r.input) \in Nat
  BY DEF RequestsAreCountable
<1>2. CASE r.kind = "sha"
  <2>1. k = 4 \/ hash' = hash
    BY <1>2 DEF NotDisturbed, CountOf, HashKind
  <2>2. ShaReached(o, r, k)
    BY <1>2 DEF Reached
  <2>3. ShaReached(o, r, k)'
    BY <2>1, <2>2 DEF ShaReached, Kept
  <2>4. r.kind # "hmac" /\ r.kind \notin CbcKind /\ r.kind \notin EcbKind
    BY <1>2 DEF CbcKind, EcbKind
  <2> QED
    BY <2>3, <2>4 DEF Reached
<1>3. CASE r.kind = "hmac"
  <2>1. r.kind # "sha" /\ r.kind \notin CbcKind /\ r.kind \notin EcbKind /\ r.kind \in HashKind
    BY <1>3 DEF CbcKind, EcbKind, HashKind
  <2>2. CountOf(r) = Lead(r) + 10 /\ Lead(r) \in {0, 4}
    BY <1>3 DEF CountOf, Lead
  <2>3. k = Lead(r) + 10 \/ hash' = hash
    BY <2>1, <2>2 DEF NotDisturbed
  <2>4. ASSUME k < Lead(r) PROVE LeadReached(o, r, k)'
    <3>1. LeadReached(o, r, k) /\ hash' = hash
      BY <1>3, <2>2, <2>3, <2>4 DEF Reached
    <3> QED
      BY <3>1 DEF LeadReached, Kept
  <2>5. ASSUME NEW i \in 0 .. 10, k = Lead(r) + i PROVE HmacReached(o, r, i)'
    <3>1. HmacReached(o, r, i) /\ (i = 10 \/ hash' = hash)
      BY <1>3, <2>2, <2>3, <2>5 DEF Reached
    <3>2. CASE hash' = hash
      BY <3>1, <3>2 DEF HmacReached, Kept
    <3>3. CASE i = 10
      <4>1. i \notin {1, 6} /\ i \notin 5 .. 9 /\ i # 2 /\ i # 3 /\ i # 4 /\ i # 7 /\ i # 8 /\ i # 9
        BY <3>3
      <4> QED
        BY <3>1, <4>1 DEF HmacReached, Kept
    <3> QED
      BY <3>1, <3>2, <3>3
  <2>a. Lead(r)' = Lead(r)
    BY DEF Lead, KeyIsLong
  <2> QED
    BY <2>a, <2>1, <2>4, <2>5 DEF Reached
<1>4. CASE r.kind \in CbcKind
  <2>1. r.kind # "sha" /\ r.kind # "hmac" /\ r.kind \notin EcbKind /\ r.kind \notin HashKind
    BY <1>4 DEF CbcKind, EcbKind, HashKind
  <2>2. CountOf(r) = 3 + Len(r.input)
    BY <1>4, <2>1 DEF CountOf
  <2>3. ~(k < 3 + Len(r.input)) \/ UNCHANGED <<temp_buff, RoundKey, Iv>>
    BY <1>1, <2>1, <2>2 DEF NotDisturbed
  <2>4. CbcReached(o, r, k)
    BY <1>4 DEF Reached
  <2>5. CbcReached(o, r, k)'
    <3>1. out'[o] = out[o]
      BY DEF Kept
    <3>2. CASE UNCHANGED <<temp_buff, RoundKey, Iv>>
      BY <2>4, <3>1, <3>2 DEF CbcReached
    <3>3. CASE ~(k < 3 + Len(r.input))
      BY <2>4, <3>1, <3>3 DEF CbcReached
    <3> QED
      BY <2>3, <3>2, <3>3
  <2> QED
    BY <2>1, <2>5 DEF Reached
<1>5. CASE r.kind \in EcbKind
  <2>1. r.kind # "sha" /\ r.kind # "hmac" /\ r.kind \notin CbcKind /\ r.kind \notin HashKind
    BY <1>5 DEF CbcKind, EcbKind, HashKind
  <2>2. CountOf(r) = 1 + 2 * Len(r.input)
    BY <1>5, <2>1 DEF CountOf, HashKind
  <2>3. k = 1 + 2 * Len(r.input) \/ UNCHANGED <<temp_buff, RoundKey, Iv>>
    BY <2>1, <2>2 DEF NotDisturbed
  <2>4. PICK j \in 0 .. Len(r.input) :
          /\ out[o] = Blocks(r, j)
          /\ \/ k = 0 /\ j = 0
             \/ k = 2 * j + 1 /\ (j < Len(r.input) => temp_buff = r.input)
             \/ k = 2 * j + 2 /\ j < Len(r.input) /\ temp_buff = r.input /\ RoundKey = r.key
    BY <1>5 DEF Reached, EcbReached
  <2>5. out'[o] = Blocks(r, j)
    BY <2>4 DEF Kept
  <2>6. EcbReached(o, r, k)'
    <3>1. CASE UNCHANGED <<temp_buff, RoundKey, Iv>>
      BY <2>4, <2>5, <3>1 DEF EcbReached
    <3>2. CASE k = 1 + 2 * Len(r.input)
      <4>1. j = Len(r.input) /\ k = 2 * j + 1 /\ ~(j < Len(r.input))
        BY <1>1, <2>4, <3>2
      <4> QED
        BY <2>5, <4>1 DEF EcbReached
    <3> QED
      BY <2>3, <3>1, <3>2
  <2> QED
    BY <2>1, <2>6 DEF Reached
<1> QED
  BY <1>1, <1>2, <1>3, <1>4, <1>5 DEF HashKind

\* The context that does the step.
LEMMA OwnStep ==
  ASSUME RequestsAreCountable, CallsInv, NEW c \in Context, NEW n, Effect(c, n)
  PROVE  /\ Underway(c)'
         /\ request[c] # NoRequest
         /\ \E k \in 0 .. CountOf(request[c]) - 1 :
              request[c] \in Request /\ n = StepsOf(request[c])[k + 1]
<1>1. Locals /\ Underway(c)
  BY DEF CallsInv
<1>2. todo[c] # <<>> /\ todo[c][1] = n /\ todo' = [todo EXCEPT ![c] = Tail(@)] /\ request' = request
  BY DEF Effect, Does
<1>3. request[c] # NoRequest
  BY <1>1, <1>2 DEF Underway
<1>4. PICK r \in Request : r = request[c] /\ Within(c, r)
  BY <1>1, <1>3 DEF Underway
<1>5. PICK k \in 0 .. CountOf(r) : todo[c] = After(StepsOf(r), k) /\ (~stained[c] => Reached(c, r, k))
  BY <1>4 DEF Within
<1>6. PICK s \in Seq(StepName) : s = StepsOf(r) /\ Len(s) = CountOf(r)
  BY StepsAre
<1>7. k # CountOf(r) /\ k + 1 \in 0 .. CountOf(r) /\ n = s[k + 1] /\ Tail(todo[c]) = After(s, k + 1)
  <2>1. k \in 0 .. Len(s) /\ todo[c] = After(s, k)
    BY <1>5, <1>6
  <2> QED
    BY <1>2, <1>6, <2>1, NextOf
<1>8. k \in 0 .. CountOf(r) - 1
  <2>1. CountOf(r) \in Nat
    BY <1>6
  <2> QED
    BY <1>7, <2>1
<1>9. todo'[c] = After(s, k + 1)
  BY <1>1, <1>2, <1>7 DEF Locals, OfEach
<1>10. stained'[c] = stained[c]
  <2>1. stained' = [o \in Context |->
          stained[o] \/ (o # c /\ todo[o] # <<>> /\ Group(request[o].kind) = Group(request[c].kind))]
    BY DEF Effect, Does
  <2>2. stained[c] \in BOOLEAN
    BY <1>1 DEF Locals
  <2> QED
    BY <2>1, <2>2
<1>11. ASSUME ~stained'[c] PROVE Reached(c, r, k + 1)'
  <2>1. Reached(c, r, k)
    BY <1>5, <1>10, <1>11
  <2>2. n = StepsOf(r)[k + 1]
    BY <1>6, <1>7
  <2> QED
    BY <1>1, <1>4, <1>8, <2>1, <2>2, ReachesNext
<1>a. CountOf(r)' = CountOf(r) /\ StepsOf(r)' = StepsOf(r)
  OBVIOUS
<1>12. Within(c, r)'
  BY <1>a, <1>6, <1>7, <1>9, <1>11 DEF Within
<1>13. Underway(c)'
  <2>1. request'[c] = r
    BY <1>2, <1>4
  <2>2. (NoRequest)' = NoRequest
    BY DEF NoRequest
  <2> QED
    BY <1>3, <1>4, <1>12, <2>1, <2>2 DEF Underway
<1> QED
  BY <1>3, <1>4, <1>6, <1>7, <1>8, <1>13

\* A context that does nothing, if what it is in is not disturbed.
LEMMA StaysUnderway ==
  ASSUME RequestsAreCountable, NEW o \in Context, Underway(o), Kept(o),
         \/ request[o] = NoRequest
         \/ /\ stained[o] => stained'[o]
            /\ \A k \in 0 .. CountOf(request[o]) :
                 ~stained'[o] /\ todo[o] = After(StepsOf(request[o]), k) => NotDisturbed(request[o], k)
  PROVE  Underway(o)'
<1>1. (NoRequest)' = NoRequest
  BY DEF NoRequest
<1>2. CASE request[o] = NoRequest
  BY <1>1, <1>2 DEF Underway, Kept
<1>3. CASE request[o] # NoRequest
  <2>1. PICK r \in Request : r = request[o] /\ Within(o, r)
    BY <1>3 DEF Underway
  <2>2. PICK k \in 0 .. CountOf(r) : todo[o] = After(StepsOf(r), k) /\ (~stained[o] => Reached(o, r, k))
    BY <2>1 DEF Within
  <2>3. ASSUME ~stained'[o] PROVE Reached(o, r, k)'
    <3>1. ~stained[o] /\ NotDisturbed(r, k)
      BY <1>3, <2>1, <2>2, <2>3
    <3> QED
      BY <2>2, <3>1, ReachedStays
  <2>4. todo'[o] = After(StepsOf(r), k)
    BY <2>2 DEF Kept
  <2>5. Within(o, r)'
    BY <2>2, <2>3, <2>4 DEF Within
  <2>6. request'[o] = r
    BY <2>1 DEF Kept
  <2> QED
    BY <1>1, <1>3, <2>1, <2>5, <2>6 DEF Underway
<1> QED
  BY <1>2, <1>3

\* The kinds of the calls, and of the steps, that share variables.
LEMMA GroupsAre ==
  ASSUME NEW a, NEW b, a \in HashKind \cup CbcKind \cup EcbKind, b \in HashKind \cup CbcKind \cup EcbKind
  PROVE  Group(a) = Group(b) <=> (a \in HashKind <=> b \in HashKind)
<1>1. a \in HashKind => Group(a) = "hash"
  BY DEF Group, HashKind
<1>2. b \in HashKind => Group(b) = "hash"
  BY DEF Group, HashKind
<1>3. a \notin HashKind => Group(a) = "aes"
  BY DEF Group, HashKind, CbcKind, EcbKind
<1>4. b \notin HashKind => Group(b) = "aes"
  BY DEF Group, HashKind, CbcKind, EcbKind
<1> QED
  BY <1>1, <1>2, <1>3, <1>4

\* The step of one context, for another.
LEMMA OtherStep ==
  ASSUME RequestsAreCountable, CallsInv, NEW c \in Context, NEW n, Effect(c, n),
         NEW o \in Context, o # c
  PROVE  Underway(o)'
<1>1. Locals /\ Underway(o)
  BY DEF CallsInv
<1>a. PICK r \in Request : r = request[c] /\ \E k \in 0 .. CountOf(r) - 1 : n = StepsOf(r)[k + 1]
  BY OwnStep
<1>2. PICK k \in 0 .. CountOf(r) - 1 : r = request[c] /\ n = StepsOf(r)[k + 1]
  BY <1>a
<1>3. n \in StepName /\ (r.kind \in HashKind => n \in HashName \cup DigestName) /\ (r.kind \notin HashKind => n \in CipherName)
  BY <1>2, StepsOfGroup DEF Effect
<1>4. r.kind \in HashKind => UNCHANGED <<temp_buff, RoundKey, Iv>>
  BY <1>3 DEF Effect, HashEffect, DigestEffect
<1>5. r.kind \notin HashKind => hash' = hash
  BY <1>3 DEF Effect, CipherEffect
<1>6. request' = request /\ todo'[o] = todo[o]
  BY <1>1 DEF Effect, Does, Locals, OfEach
<1>7. c_key'[o] = c_key[o] /\ inner'[o] = inner[o] /\ out'[o] = out[o]
  <2>1. CASE n \in HashName
    BY <2>1 DEF Effect, HashEffect
  <2>2. CASE n \in DigestName
    BY <1>1, <2>2 DEF Effect, DigestEffect, Locals, OfEach
  <2>3. CASE n \in CipherName
    BY <1>1, <2>3 DEF Effect, CipherEffect, Locals, OfEach
  <2> QED
    BY <1>3, <2>1, <2>2, <2>3
<1>8. Kept(o)
  BY <1>6, <1>7 DEF Kept
<1>9. stained'[o] <=> (stained[o] \/ (todo[o] # <<>> /\ Group(request[o].kind) = Group(r.kind)))
  <2>1. stained' = [x \in Context |->
          stained[x] \/ (x # c /\ todo[x] # <<>> /\ Group(request[x].kind) = Group(request[c].kind))]
    BY DEF Effect, Does
  <2> QED
    BY <1>2, <2>1
<1>10. CASE request[o] = NoRequest
  BY <1>1, <1>8, <1>10, StaysUnderway
<1>11. CASE request[o] # NoRequest
  <2>1. PICK q \in Request : q = request[o]
    BY <1>1, <1>11 DEF Underway
  <2>2. q.kind \in HashKind \cup CbcKind \cup EcbKind /\ r.kind \in HashKind \cup CbcKind \cup EcbKind
    BY DEF RequestsAreCountable
  <2>3. PICK s \in Seq(StepName) : s = StepsOf(q) /\ Len(s) = CountOf(q)
    BY StepsAre
  <2>4. ASSUME NEW i \in 0 .. CountOf(q), ~stained'[o], todo[o] = After(s, i)
        PROVE  NotDisturbed(q, i)
    <3>1. CASE todo[o] = <<>>
      <4>1. i = CountOf(q)
        BY <2>3, <2>4, <3>1, NextOf
      <4> QED
        BY <4>1 DEF NotDisturbed
    <3>2. CASE todo[o] # <<>>
      <4>1. Group(q.kind) # Group(r.kind)
        BY <1>9, <2>1, <2>4, <3>2
      <4>2. ~(q.kind \in HashKind <=> r.kind \in HashKind)
        BY <2>2, <4>1, GroupsAre
      <4> QED
        BY <1>4, <1>5, <4>2 DEF NotDisturbed
    <3> QED
      BY <3>1, <3>2
  <2> QED
    BY <1>1, <1>8, <1>9, <2>1, <2>3, <2>4, StaysUnderway
<1> QED
  BY <1>10, <1>11

LEMMA LocalsStay ==
  ASSUME Locals, [CallsNext]_callsVars
  PROVE  Locals'
<1>1. CASE UNCHANGED callsVars
  BY <1>1 DEF callsVars, statics, locals, Locals, OfEach
<1>2. ASSUME NEW c \in Context, NEW r \in Request, Begin(c, r) PROVE Locals'
  BY <1>2 DEF Begin, statics, Locals, OfEach
<1>3. ASSUME NEW c \in Context, Return(c) PROVE Locals'
  BY <1>3 DEF Return, statics, Locals, OfEach
<1>4. ASSUME NEW c \in Context, Acts(c) PROVE Locals'
  <2>1. PICK n : Effect(c, n)
    BY <1>4, Effects
  <2>2. OfEach(request)' /\ OfEach(todo)' /\ (stained \in [Context -> BOOLEAN])'
    BY <2>1 DEF Effect, Does, Locals, OfEach
  <2>3. OfEach(c_key)' /\ OfEach(inner)' /\ OfEach(out)'
    <3>1. CASE n \in HashName
      BY <2>1, <3>1 DEF Effect, HashEffect, Locals, OfEach
    <3>2. CASE n \in DigestName
      BY <2>1, <3>2 DEF Effect, DigestEffect, Locals, OfEach
    <3>3. CASE n \in CipherName
      BY <2>1, <3>3 DEF Effect, CipherEffect, Locals, OfEach
    <3>4. n \in HashName \cup DigestName \cup CipherName
      BY <2>1 DEF Effect, StepName, HashName, DigestName, CipherName
    <3> QED
      BY <3>1, <3>2, <3>3, <3>4
  <2> QED
    BY <2>2, <2>3 DEF Locals
<1> QED
  BY <1>1, <1>2, <1>3, <1>4 DEF CallsNext, Acts

LEMMA CallBegins ==
  ASSUME RequestsAreCountable, CallsInv, NEW c \in Context, NEW r \in Request, Begin(c, r)
  PROVE  \A o \in Context : Underway(o)'
<1>1. Locals
  BY DEF CallsInv
<1>2. /\ request[c] = NoRequest /\ request' = [request EXCEPT ![c] = r]
      /\ todo' = [todo EXCEPT ![c] = StepsOf(r)] /\ c_key' = [c_key EXCEPT ![c] = r.key]
      /\ UNCHANGED <<hash, temp_buff, RoundKey, Iv, inner, out, stained>>
  BY DEF Begin, statics
<1>3. ASSUME NEW o \in Context, o # c PROVE Underway(o)'
  <2>1. Kept(o)
    BY <1>1, <1>2, <1>3 DEF Kept, Locals, OfEach
  <2>2. Underway(o)
    BY DEF CallsInv
  <2>3. request[o] # NoRequest => request[o] \in Request
    BY <2>2 DEF Underway
  <2>4. ASSUME NEW k PROVE NotDisturbed(request[o], k)
    BY <1>2 DEF NotDisturbed
  <2>5. stained[o] => stained'[o]
    BY <1>2
  <2> QED
    BY <2>1, <2>2, <2>4, <2>5, StaysUnderway
<1>4. Underway(c)'
  <2>1. request'[c] = r /\ todo'[c] = StepsOf(r) /\ c_key'[c] = r.key /\ out'[c] = <<>>
    <3>1. out[c] = <<>>
      BY <1>2 DEF CallsInv, Underway
    <3> QED
      BY <1>1, <1>2, <3>1 DEF Locals, OfEach
  <2>2. PICK s \in Seq(StepName) : s = StepsOf(r) /\ Len(s) = CountOf(r)
    BY StepsAre
  <2>3. s = After(s, 0) /\ 0 \in 0 .. CountOf(r)
    BY <2>2 DEF After
  <2>4. Reached(c, r, 0)'
    <3>1. r.kind \in HashKind \cup CbcKind \cup EcbKind /\ r.input \in Seq(Data) /\ Len(r.input) \in Nat
      BY DEF RequestsAreCountable
    <3>2. Blocks(r, 0) = <<>>
      BY DEF Blocks
    <3>3. ShaReached(c, r, 0)'
      BY DEF ShaReached
    <3>4. LeadReached(c, r, 0)'
      BY <2>1 DEF LeadReached
    <3>5. ASSUME NEW i \in 0 .. 10, r.kind = "hmac", 0 = Lead(r) + i PROVE HmacReached(c, r, i)'
      <4>1. Lead(r) = 0 /\ i = 0
        BY <3>5 DEF Lead
      <4>2. ~KeyIsLong(r.key)
        BY <4>1 DEF Lead
      <4>3. c_key'[c] = HmacKey(r.key)
        BY <2>1, <4>2 DEF HmacKey
      <4> QED
        BY <4>1, <4>3 DEF HmacReached
    <3>6. CbcReached(c, r, 0)'
      BY <2>1, <3>2 DEF CbcReached
    <3>7. EcbReached(c, r, 0)'
      <4>1. 0 \in 0 .. Len(r.input)
        BY <3>1
      <4> QED
        BY <2>1, <3>2, <4>1 DEF EcbReached
    <3>a. Lead(r)' = Lead(r)
      BY DEF Lead, KeyIsLong
    <3> QED
      BY <3>a, <3>3, <3>4, <3>5, <3>6, <3>7 DEF Reached
  <2>5. Within(c, r)'
    BY <2>1, <2>2, <2>3, <2>4 DEF Within
  <2>6. (NoRequest)' = NoRequest /\ r # NoRequest
    BY NobodyCalls DEF NoRequest
  <2> QED
    BY <2>1, <2>5, <2>6 DEF Underway
<1> QED
  BY <1>3, <1>4

LEMMA CallReturns ==
  ASSUME RequestsAreCountable, CallsInv, NEW c \in Context, Return(c)
  PROVE  \A o \in Context : Underway(o)'
<1>1. Locals
  BY DEF CallsInv
<1>2. /\ todo[c] = <<>> /\ todo' = todo /\ request' = [request EXCEPT ![c] = NoRequest]
      /\ c_key' = [c_key EXCEPT ![c] = <<>>] /\ inner' = [inner EXCEPT ![c] = <<>>]
      /\ out' = [out EXCEPT ![c] = <<>>] /\ stained' = [stained EXCEPT ![c] = FALSE]
      /\ UNCHANGED <<hash, temp_buff, RoundKey, Iv>>
  BY DEF Return, statics
<1>3. ASSUME NEW o \in Context, o # c PROVE Underway(o)'
  <2>1. Kept(o)
    BY <1>1, <1>2, <1>3 DEF Kept, Locals, OfEach
  <2>2. Underway(o)
    BY DEF CallsInv
  <2>4. ASSUME NEW k PROVE NotDisturbed(request[o], k)
    BY <1>2 DEF NotDisturbed
  <2>5. stained[o] => stained'[o]
    BY <1>1, <1>2, <1>3 DEF Locals
  <2> QED
    BY <2>1, <2>2, <2>4, <2>5, StaysUnderway
<1>4. Underway(c)'
  <2>1. request'[c] = NoRequest /\ todo'[c] = <<>> /\ out'[c] = <<>>
    BY <1>1, <1>2 DEF Locals, OfEach
  <2>2. (NoRequest)' = NoRequest
    BY DEF NoRequest
  <2> QED
    BY <2>1, <2>2 DEF Underway
<1> QED
  BY <1>3, <1>4

LEMMA CallsGoOn ==
  ASSUME RequestsAreCountable, CallsInv, [CallsNext]_callsVars
  PROVE  CallsInv'
<1>1. Locals'
  BY LocalsStay DEF CallsInv
<1>2. CASE UNCHANGED callsVars
  <2>1. ASSUME NEW o \in Context PROVE Underway(o)'
    <3>1. Kept(o) /\ (stained[o] => stained'[o]) /\ \A r, k : NotDisturbed(r, k)
      BY <1>2 DEF callsVars, statics, locals, Kept, NotDisturbed
    <3>2. Underway(o)
      BY DEF CallsInv
    <3> QED
      BY <3>1, <3>2, StaysUnderway
  <2> QED
    BY <1>1, <2>1 DEF CallsInv
<1>3. ASSUME NEW c \in Context, Acts(c) PROVE CallsInv'
  <2>1. PICK n : Effect(c, n)
    BY <1>3, Effects
  <2>2. \A o \in Context : Underway(o)'
    BY <2>1, OwnStep, OtherStep
  <2> QED
    BY <1>1, <2>2 DEF CallsInv
<1>4. ASSUME NEW c \in Context, NEW r \in Request, Begin(c, r) PROVE CallsInv'
  BY <1>1, <1>4, CallBegins DEF CallsInv
<1>5. ASSUME NEW c \in Context, Return(c) PROVE CallsInv'
  BY <1>1, <1>5, CallReturns DEF CallsInv
<1> QED
  BY <1>2, <1>3, <1>4, <1>5 DEF CallsNext, Acts

(* Only calls of the same kind, hashes or ciphers, disturb each other: a     *)
(* call none of its own kind overlapped has the result its definition        *)
(* gives, whatever the calls before it left in the static variables          *)
(* (algo_sha256.c:27, aes_base.c:39): for any number of contexts, every      *)
(* priority and key, every length of what is hashed that can be counted, and *)
(* as long as no AES input was longer than temp_buff (algo_api.c:6).         *)
THEOREM OnlyOwnKindDisturbsHolds == CallsSpec => []OnlyOwnKindDisturbs
<1>1. CallsInv => OnlyOwnKindDisturbs
  <2> SUFFICES ASSUME CallsInv, NEW c \in Context, todo[c] = <<>>, request[c] # NoRequest, ~stained[c]
               PROVE  out[c] = Expected(request[c])
    BY DEF OnlyOwnKindDisturbs
  <2>1. PICK r \in Request : r = request[c] /\ Within(c, r)
    BY DEF CallsInv, Underway
  <2>2. PICK k \in 0 .. CountOf(r) : todo[c] = After(StepsOf(r), k) /\ Reached(c, r, k)
    BY <2>1 DEF Within
  <2>3. PICK s \in Seq(StepName) : s = StepsOf(r) /\ Len(s) = CountOf(r)
    BY RequestsAreCountable, StepsAre
  <2>4. k = CountOf(r)
    BY <2>2, <2>3, NextOf
  <2> QED
    BY RequestsAreCountable, <2>1, <2>2, <2>4, EndIsExpected
<1>2. CallsInv /\ [CallsNext]_callsVars => CallsInv'
  BY RequestsAreCountable, CallsGoOn
<1> QED
  BY <1>1, <1>2, CallsStart, PTL DEF CallsSpec

-----------------------------------------------------------------------------
(* FlattenSeq of pairs: two places each.                                     *)
LEMMA FlattenPairs ==
  ASSUME NEW S, NEW q \in Seq(Seq(S)), \A i \in 1 .. Len(q) : Len(q[i]) = 2
  PROVE  /\ FlattenSeq(q) \in Seq(S)
         /\ Len(FlattenSeq(q)) = 2 * Len(q)
         /\ \A i \in 1 .. Len(q) :
              FlattenSeq(q)[2 * i - 1] = q[i][1] /\ FlattenSeq(q)[2 * i] = q[i][2]
<1>1. PICK g \in [0 .. Len(q) -> Seq(S)] : Joining(g, q) /\ FlattenSeq(q) = g[Len(q)]
  BY FlattenSeqJoins
<1>0. Len(q) \in Nat /\ \A i \in 1 .. Len(q) : q[i] \in Seq(S)
  OBVIOUS
<1> DEFINE Done(k) == /\ Len(g[k]) = 2 * k
                      /\ \A i \in 1 .. k : g[k][2 * i - 1] = q[i][1] /\ g[k][2 * i] = q[i][2]
           T == {k \in Nat : k <= Len(q) => Done(k)}
<1>2. 0 \in T
  BY <1>1 DEF Joining
<1>3. ASSUME NEW k \in Nat, k \in T
      PROVE  k + 1 \in T
  <2>0. (k + 1 <= Len(q) => Done(k + 1)) => k + 1 \in T
    <3> HIDE DEF Done
    <3> QED OBVIOUS
  <2> SUFFICES ASSUME k + 1 <= Len(q) PROVE Done(k + 1)
    BY <2>0, Zenon
  <2>1. k + 1 \in 1 .. Len(q) /\ k \in 0 .. Len(q) /\ Done(k)
    <3>1. k + 1 \in 1 .. Len(q) /\ k \in 0 .. Len(q) /\ k <= Len(q)
      BY <1>0
    <3> QED BY <1>3, <3>1
  <2>2. g[k + 1] = g[k] \o q[k + 1]
    <3>1. g[k + 1] = g[(k + 1) - 1] \o q[k + 1] /\ (k + 1) - 1 = k
      <4>1. g[k + 1] = g[(k + 1) - 1] \o q[k + 1]
        BY <1>1, <2>1 DEF Joining
      <4> QED BY <4>1
    <3> QED BY <3>1
  <2>3. g[k] \in Seq(S) /\ q[k + 1] \in Seq(S) /\ Len(q[k + 1]) = 2
    <3> HIDE DEF Done
    <3> QED BY <1>0, <2>1
  <2>4. Len(g[k + 1]) = 2 * (k + 1)
    <3>1. Len(g[k]) = 2 * k
      BY <2>1
    <3>2. \A a, b \in Seq(S) : Len(a \o b) = Len(a) + Len(b)
      OBVIOUS
    <3>3. Len(g[k] \o q[k + 1]) = Len(g[k]) + Len(q[k + 1])
      BY <2>3, <3>2, Zenon
    <3>4. Len(g[k] \o q[k + 1]) = 2 * k + 2
      BY <2>3, <3>1, <3>3
    <3> QED BY <2>2, <3>4
  <2>5. g[k + 1][2 * (k + 1) - 1] = q[k + 1][1] /\ g[k + 1][2 * (k + 1)] = q[k + 1][2]
    BY <2>1, <2>2, <2>3
  <2>6. ASSUME NEW i \in 1 .. k
        PROVE  g[k + 1][2 * i - 1] = q[i][1] /\ g[k + 1][2 * i] = q[i][2]
    <3>1. 2 * i - 1 \in 1 .. Len(g[k]) /\ 2 * i \in 1 .. Len(g[k])
      BY <2>1
    <3>2. g[k + 1][2 * i - 1] = g[k][2 * i - 1] /\ g[k + 1][2 * i] = g[k][2 * i]
      BY <2>2, <2>3, <3>1
    <3> QED BY <2>1, <3>2
  <2> QED BY <2>4, <2>5, <2>6
<1>4. Len(q) \in T
  <2> HIDE DEF T
  <2> QED BY <1>0, <1>2, <1>3, InductionOverNat
<1> QED BY <1>0, <1>1, <1>4

-----------------------------------------------------------------------------
(* fmt_trans.c *)

Byte == 0 .. 255

\* The two digits of a byte.
LEMMA HalvesAreHex ==
  ASSUME NEW b \in Byte
  PROVE  /\ Fmt!Halves(b) \in Seq(Fmt!IsHexData) /\ Len(Fmt!Halves(b)) = 2
         /\ Fmt!Halves(b)[1] = Fmt!atom_unit[(b \div 16) + 1]
         /\ Fmt!Halves(b)[2] = Fmt!atom_unit[(b % 16) + 1]
         /\ b \div 16 \in 0 .. 15 /\ b % 16 \in 0 .. 15 /\ b = (b \div 16) * 16 + (b % 16)
<1>1. b \div 16 \in 0 .. 15 /\ b % 16 \in 0 .. 15 /\ b = (b \div 16) * 16 + (b % 16)
  BY DEF Byte
<1>2. \A h \in 0 .. 15 : Fmt!atom_unit[h + 1] \in Fmt!IsHexData
  BY DEF Fmt!atom_unit, Fmt!IsHexData, Fmt!Decimal, Fmt!HexLetter
<1> HIDE DEF Byte
<1> QED BY <1>1, <1>2 DEF Fmt!Halves

\* A digit, in a capital or a small letter, is read as its value.
Lowered(c) == IF c \in 65 .. 70 THEN c + 32 ELSE c

LEMMA DigitsAreRead ==
  ASSUME NEW h \in 0 .. 15
  PROVE  /\ Fmt!atom_unit[h + 1] \in Int
         /\ Fmt!Value(Fmt!atom_unit[h + 1]) = h
         /\ Fmt!Value(Lowered(Fmt!atom_unit[h + 1])) = h + (IF h > 9 THEN 32 ELSE 0)
         /\ Fmt!Value(Lowered(Fmt!atom_unit[h + 1])) % 16 = h
         /\ Lowered(Fmt!atom_unit[h + 1]) \in Fmt!IsHexData
BY DEF Fmt!Value, Fmt!atom_unit, Lowered, Fmt!IsHexData, Fmt!Decimal, Fmt!HexLetter

\* arrayToStr: two digits for each byte.
LEMMA TextOfBytes ==
  ASSUME NEW s \in Seq(Byte)
  PROVE  LET str == Fmt!arrayToStr(s) IN
         /\ str \in Seq(Fmt!IsHexData) /\ Len(str) = 2 * Len(s)
         /\ \A i \in 1 .. Len(s) : /\ str[2 * i - 1] = Fmt!atom_unit[(s[i] \div 16) + 1]
                                   /\ str[2 * i] = Fmt!atom_unit[(s[i] % 16) + 1]
<1> DEFINE q == [i \in DOMAIN s |-> Fmt!Halves(s[i])]
<1>1. \A i \in 1 .. Len(s) : s[i] \in Byte
  OBVIOUS
<1>2. q \in Seq(Seq(Fmt!IsHexData)) /\ Len(q) = Len(s)
  BY <1>1, HalvesAreHex
<1>3. \A i \in 1 .. Len(q) : q[i] = Fmt!Halves(s[i]) /\ Len(q[i]) = 2
  BY <1>1, <1>2, HalvesAreHex
<1>4. Fmt!arrayToStr(s) = FlattenSeq(q)
  BY DEF Fmt!arrayToStr, Fmt!FlattenSeq, FlattenSeq
<1> HIDE DEF q
<1>5. /\ FlattenSeq(q) \in Seq(Fmt!IsHexData) /\ Len(FlattenSeq(q)) = 2 * Len(q)
      /\ \A i \in 1 .. Len(q) :
           FlattenSeq(q)[2 * i - 1] = q[i][1] /\ FlattenSeq(q)[2 * i] = q[i][2]
  BY <1>2, <1>3, FlattenPairs
<1>6. ASSUME NEW i \in 1 .. Len(s)
      PROVE  /\ q[i][1] = Fmt!atom_unit[(s[i] \div 16) + 1]
             /\ q[i][2] = Fmt!atom_unit[(s[i] % 16) + 1]
  BY <1>1, <1>2, <1>3, HalvesAreHex
<1> QED BY <1>2, <1>4, <1>5, <1>6

\* The two bytes a text of digits is read as, pair by pair.
LEMMA PairsAreRead ==
  ASSUME NEW s \in Seq(Byte), NEW str \in Seq(Int),
         Len(str) \in {2 * Len(s), 2 * Len(s) + 1},
         \A i \in 1 .. Len(s) :
           /\ str[2 * i - 1] \in Fmt!IsHexData
           /\ Fmt!Value(str[2 * i - 1]) % 16 = s[i] \div 16
           /\ Fmt!Value(str[2 * i]) % 16 = s[i] % 16
  PROVE  /\ Len(str) = 2 * Len(s) => Fmt!StringToHex(str) = [ret |-> Len(s), out |-> s]
         /\ Len(str) = 2 * Len(s) + 1 =>
              Fmt!StringToHex(str)
                = [ret |-> Len(s) + 1, out |-> s \o <<Fmt!Value(str[Len(str)]) % 256>>]
<1>1. Len(str) \div 2 = Len(s) /\ Len(s) \in Nat
  OBVIOUS
<1>2. \A i \in 1 .. Len(s) : Fmt!PairPasses(str[2 * i - 1], str[2 * i])
  BY DEF Fmt!PairPasses
<1> DEFINE bytes == [i \in 1 .. Len(s) |->
             (Fmt!Value(str[2 * i - 1]) % 16) * 16 + (Fmt!Value(str[2 * i]) % 16)]
<1>3. bytes = s
  <2>1. \A i \in 1 .. Len(s) : bytes[i] = s[i]
    <3> SUFFICES ASSUME NEW i \in 1 .. Len(s) PROVE bytes[i] = s[i]
      OBVIOUS
    <3>1. s[i] \in Byte
      OBVIOUS
    <3>2. s[i] = (s[i] \div 16) * 16 + (s[i] % 16)
      BY <3>1, HalvesAreHex
    <3> QED BY <3>2
  <2>2. s = [i \in 1 .. Len(s) |-> s[i]]
    OBVIOUS
  <2> QED BY <2>1, <2>2
<1> DEFINE tail == IF Len(str) % 2 = 0 THEN <<>> ELSE <<Fmt!Value(Last(str)) % 256>>
<1>4. Fmt!StringToHex(str) = [ret |-> Len(s) + Len(tail), out |-> bytes \o tail]
  BY <1>1, <1>2 DEF Fmt!StringToHex, Fmt!Last, Last
<1> HIDE DEF bytes
<1>5. CASE Len(str) = 2 * Len(s)
  <2>1. Len(str) % 2 = 0
    BY <1>1, <1>5
  <2>2. tail = <<>> /\ s \o tail = s
    BY <2>1
  <2>3. Fmt!StringToHex(str) = [ret |-> Len(s), out |-> s]
    <3>1. Len(s) + Len(tail) = Len(s)
      BY <1>1, <2>2
    <3> QED BY <1>3, <1>4, <2>2, <3>1
  <2> QED BY <1>1, <1>5, <2>3
<1>6. CASE Len(str) = 2 * Len(s) + 1
  <2>1. Len(str) % 2 = 1
    BY <1>1, <1>6
  <2>2. tail = <<Fmt!Value(str[Len(str)]) % 256>> /\ Len(tail) = 1
    BY <2>1 DEF Last
  <2> HIDE DEF tail
  <2>3. Fmt!StringToHex(str) = [ret |-> Len(s) + 1, out |-> s \o tail]
    BY <1>3, <1>4, <2>2
  <2>4. Fmt!StringToHex(str)
          = [ret |-> Len(s) + 1, out |-> s \o <<Fmt!Value(str[Len(str)]) % 256>>]
    BY <2>2, <2>3, Zenon
  <2>5. Len(str) # 2 * Len(s)
    <3>1. \A x \in Nat : 2 * x # 2 * x + 1
      OBVIOUS
    <3>2. 2 * Len(s) # 2 * Len(s) + 1
      BY <1>1, <3>1, Zenon
    <3> QED BY <1>6, <3>2, Zenon
  <2> QED BY <2>4, <2>5, Zenon
<1>7. Len(str) = 2 * Len(s) \/ Len(str) = 2 * Len(s) + 1
  OBVIOUS
<1> HIDE DEF tail
<1> QED BY <1>5, <1>6, <1>7, Zenon

\* The text of any bytes, in capitals or not, is read as those bytes, with an odd digit ignored
\* (StringToHex, fmt_trans.c:29).
LEMMA HexReadsBackHolds ==
  ASSUME NEW s \in Seq(Byte) PROVE Fmt!HexReadsBack(s)
<1> DEFINE str == Fmt!arrayToStr(s)
<1>1. /\ str \in Seq(Fmt!IsHexData) /\ Len(str) = 2 * Len(s) /\ Len(s) \in Nat
      /\ \A i \in 1 .. Len(s) : /\ str[2 * i - 1] = Fmt!atom_unit[(s[i] \div 16) + 1]
                                /\ str[2 * i] = Fmt!atom_unit[(s[i] % 16) + 1]
  BY TextOfBytes
<1>2. Fmt!IsHexData \subseteq Int
  BY DEF Fmt!IsHexData, Fmt!Decimal, Fmt!HexLetter
<1> HIDE DEF str
<1>3. str \in Seq(Int)
  BY <1>1, <1>2, SeqOfMore
<1> USE DEF Lowered
<1>4. ASSUME NEW t \in Seq(Int)
      PROVE  /\ Fmt!Small(t) \in Seq(Int) /\ Len(Fmt!Small(t)) = Len(t)
             /\ \A i \in 1 .. Len(t) : Fmt!Small(t)[i] = Lowered(t[i])
  <2>1. Fmt!Small(t) = [i \in 1 .. Len(t) |-> Lowered(t[i])]
    BY DEF Fmt!Small
  <2>2. \A i \in 1 .. Len(t) : Lowered(t[i]) \in Int
    OBVIOUS
  <2> HIDE DEF Lowered
  <2> QED BY <2>1, <2>2
<1>5. ASSUME NEW i \in 1 .. Len(s)
      PROVE  s[i] \div 16 \in 0 .. 15 /\ s[i] % 16 \in 0 .. 15
  <2>1. s[i] \in Byte
    OBVIOUS
  <2> QED BY <2>1, HalvesAreHex
<1> HIDE DEF Lowered
<1>6. Fmt!StringToHex(str) = [ret |-> Len(s), out |-> s]
  <2>1. ASSUME NEW i \in 1 .. Len(s)
        PROVE  /\ str[2 * i - 1] \in Fmt!IsHexData
               /\ Fmt!Value(str[2 * i - 1]) % 16 = s[i] \div 16
               /\ Fmt!Value(str[2 * i]) % 16 = s[i] % 16
    <3>1. 2 * i - 1 \in 1 .. Len(str)
      BY <1>1
    <3>2. (s[i] \div 16) % 16 = s[i] \div 16 /\ (s[i] % 16) % 16 = s[i] % 16
      BY <1>5
    <3>3. str[2 * i - 1] \in Fmt!IsHexData
      BY <1>1, <3>1
    <3> QED BY <1>1, <1>5, <3>2, <3>3, DigitsAreRead
  <2> QED BY <1>1, <1>3, <2>1, PairsAreRead
<1>7. Fmt!StringToHex(Fmt!Small(str)) = [ret |-> Len(s), out |-> s]
  <2>1. ASSUME NEW i \in 1 .. Len(s)
        PROVE  /\ Fmt!Small(str)[2 * i - 1] \in Fmt!IsHexData
               /\ Fmt!Value(Fmt!Small(str)[2 * i - 1]) % 16 = s[i] \div 16
               /\ Fmt!Value(Fmt!Small(str)[2 * i]) % 16 = s[i] % 16
    <3>1. 2 * i - 1 \in 1 .. Len(str) /\ 2 * i \in 1 .. Len(str)
      BY <1>1
    <3> QED BY <1>1, <1>3, <1>4, <1>5, <3>1, DigitsAreRead
  <2> QED BY <1>1, <1>3, <1>4, <2>1, PairsAreRead
<1>8. ASSUME NEW h \in 0 .. 15
      PROVE  LET more == str \o <<Fmt!atom_unit[h + 1]>> IN
             /\ Last(Fmt!StringToHex(more).out) = h
             /\ Last(Fmt!StringToHex(Fmt!Small(more)).out) = h + (IF h > 9 THEN 32 ELSE 0)
  <2> DEFINE c == Fmt!atom_unit[h + 1]
             more == str \o <<c>>
  <2>1. /\ c \in Int /\ Fmt!Value(c) = h
        /\ Fmt!Value(Lowered(c)) = h + (IF h > 9 THEN 32 ELSE 0)
    BY DigitsAreRead
  <2> HIDE DEF c
  <2>2. /\ more \in Seq(Int) /\ Len(more) = 2 * Len(s) + 1 /\ more[Len(more)] = c
        /\ \A j \in 1 .. Len(str) : more[j] = str[j]
    BY <1>1, <1>3, <2>1
  <2> HIDE DEF more
  <2>3. ASSUME NEW i \in 1 .. Len(s)
        PROVE  /\ 2 * i - 1 \in 1 .. Len(str) /\ 2 * i \in 1 .. Len(str)
               /\ 2 * i - 1 \in 1 .. Len(more) /\ 2 * i \in 1 .. Len(more)
    BY <1>1, <2>2
  <2>4. ASSUME NEW i \in 1 .. Len(s)
        PROVE  /\ more[2 * i - 1] = Fmt!atom_unit[(s[i] \div 16) + 1]
               /\ more[2 * i] = Fmt!atom_unit[(s[i] % 16) + 1]
    BY <1>1, <2>2, <2>3
  <2>5. Fmt!StringToHex(more) = [ret |-> Len(s) + 1, out |-> s \o <<Fmt!Value(c) % 256>>]
    <3>1. ASSUME NEW i \in 1 .. Len(s)
          PROVE  /\ more[2 * i - 1] \in Fmt!IsHexData
                 /\ Fmt!Value(more[2 * i - 1]) % 16 = s[i] \div 16
                 /\ Fmt!Value(more[2 * i]) % 16 = s[i] % 16
      <4>1. more[2 * i - 1] \in Fmt!IsHexData
        <5>1. str[2 * i - 1] \in Fmt!IsHexData
          BY <1>1, <2>3
        <5>2. more[2 * i - 1] = str[2 * i - 1]
          BY <2>2, <2>3
        <5> QED BY <5>1, <5>2
      <4>2. (s[i] \div 16) % 16 = s[i] \div 16 /\ (s[i] % 16) % 16 = s[i] % 16
        BY <1>5
      <4> QED BY <1>5, <2>4, <4>1, <4>2, DigitsAreRead
    <3> QED BY <1>1, <2>2, <3>1, PairsAreRead
  <2>6. /\ Fmt!Small(more) \in Seq(Int) /\ Len(Fmt!Small(more)) = 2 * Len(s) + 1
        /\ Fmt!Small(more)[2 * Len(s) + 1] = Lowered(c)
        /\ \A j \in 1 .. Len(more) : Fmt!Small(more)[j] = Lowered(more[j])
    <3>1. /\ Fmt!Small(more) \in Seq(Int) /\ Len(Fmt!Small(more)) = Len(more)
          /\ \A j \in 1 .. Len(more) : Fmt!Small(more)[j] = Lowered(more[j])
      BY <1>4, <2>2, Zenon
    <3>2. 2 * Len(s) + 1 \in 1 .. Len(more) /\ Len(more) = 2 * Len(s) + 1
      BY <1>1, <2>2
    <3>3. more[2 * Len(s) + 1] = c
      BY <2>2, <3>2, Zenon
    <3>4. Fmt!Small(more)[2 * Len(s) + 1] = Lowered(c)
      BY <3>1, <3>2, <3>3, Zenon
    <3> QED BY <3>1, <3>2, <3>4, Zenon
  <2>7. Fmt!StringToHex(Fmt!Small(more))
          = [ret |-> Len(s) + 1, out |-> s \o <<Fmt!Value(Lowered(c)) % 256>>]
    <3>1. ASSUME NEW i \in 1 .. Len(s)
          PROVE  /\ Fmt!Small(more)[2 * i - 1] \in Fmt!IsHexData
                 /\ Fmt!Value(Fmt!Small(more)[2 * i - 1]) % 16 = s[i] \div 16
                 /\ Fmt!Value(Fmt!Small(more)[2 * i]) % 16 = s[i] % 16
      BY <1>5, <2>3, <2>4, <2>6, DigitsAreRead
    <3> DEFINE small == Fmt!Small(more)
    <3>2. /\ small \in Seq(Int) /\ Len(small) = 2 * Len(s) + 1
          /\ small[Len(small)] = Lowered(c)
      BY <2>6
    <3> HIDE DEF small
    <3>3. Fmt!StringToHex(small)
            = [ret |-> Len(s) + 1, out |-> s \o <<Fmt!Value(small[Len(small)]) % 256>>]
      BY <1>1, <3>1, <3>2, PairsAreRead DEF small
    <3> QED BY <3>2, <3>3 DEF small
  <2>8. \A v \in Int : Last(s \o <<v>>) = v
    BY <1>1 DEF Last
  <2>9. Fmt!Value(c) % 256 = h
        /\ Fmt!Value(Lowered(c)) % 256 = h + (IF h > 9 THEN 32 ELSE 0)
    BY <2>1
  <2>10. Last(s \o <<Fmt!Value(c) % 256>>) = h
         /\ Last(s \o <<Fmt!Value(Lowered(c)) % 256>>) = h + (IF h > 9 THEN 32 ELSE 0)
    <3> HIDE DEF Last
    <3>1. h \in Int /\ h + (IF h > 9 THEN 32 ELSE 0) \in Int
      OBVIOUS
    <3> QED BY <2>8, <2>9, <3>1
  <2>11. /\ Last(Fmt!StringToHex(more).out) = h
         /\ Last(Fmt!StringToHex(Fmt!Small(more)).out) = h + (IF h > 9 THEN 32 ELSE 0)
    BY <2>5, <2>7, <2>10
  <2> QED BY <2>11 DEF c, more
<1> QED BY <1>6, <1>7, <1>8 DEF Fmt!HexReadsBack, Fmt!Last, Last, str

\* A text is refused only if some pair has a character that is no digit, and always if a pair
\* has two of them (fmt_trans.c:40).
LEMMA RefusedIfNoDigitHolds ==
  ASSUME NEW str \in Seq(1 .. 127) PROVE Fmt!RefusedIfNoDigit(str)
<1> DEFINE n == Len(str) \div 2
           read == \A i \in 1 .. n : Fmt!PairPasses(str[2 * i - 1], str[2 * i])
<1>1. n \in Nat
  OBVIOUS
<1>2. Fmt!StringToHex(str).ret >= 0 <=> read
  <2>1. CASE read
    BY <1>1, <2>1 DEF Fmt!StringToHex
  <2>2. CASE ~read
    BY <1>1, <2>2 DEF Fmt!StringToHex
  <2> QED BY <2>1, <2>2
<1>3. ASSUME read, NEW i \in 1 .. n
      PROVE  {str[2 * i - 1], str[2 * i]} \cap Fmt!IsHexData # {}
  <2>1. Fmt!HexLetter \subseteq Fmt!IsHexData
    BY DEF Fmt!IsHexData
  <2> QED BY <1>3, <2>1 DEF Fmt!PairPasses
<1>4. ASSUME \A i \in 1 .. n : {str[2 * i - 1], str[2 * i]} \subseteq Fmt!IsHexData
      PROVE  read
  BY <1>4 DEF Fmt!PairPasses
<1> HIDE DEF read
<1> QED BY <1>2, <1>3, <1>4 DEF Fmt!RefusedIfNoDigit, n

\* Two numbers below 100 are read as what they were written as (StringToCom, fmt_trans.c).
LEMMA DecimalReadsBackHolds ==
  ASSUME NEW n \in 0 .. 99, NEW m \in 0 .. 99 PROVE Fmt!DecimalReadsBack(n, m)
<1> DEFINE str == <<48 + (n \div 10), 48 + (n % 10), 48 + (m \div 10), 48 + (m % 10)>>
<1>1. /\ Len(str) = 4 /\ str[1] = 48 + (n \div 10) /\ str[2] = 48 + (n % 10)
      /\ str[3] = 48 + (m \div 10) /\ str[4] = 48 + (m % 10)
  OBVIOUS
<1>2. Len(SubSeq(str, 1, 3)) = 3
  OBVIOUS
<1>3. ((str[1] - 48) * 10 + (str[2] - 48)) % 256 = n /\ ((str[3] - 48) * 10 + (str[4] - 48)) % 256 = m
  BY <1>1
<1>4. /\ n % 11 = 0 => str[1] = str[2]
      /\ m % 11 = 0 => str[3] = str[4]
  BY <1>1
<1> HIDE DEF str
<1>5. ASSUME NEW leftFirst \in BOOLEAN PROVE Fmt!StringToCom(SubSeq(str, 1, 3), leftFirst).ret = -1
  BY <1>2 DEF Fmt!StringToCom
<1>6. ASSUME NEW leftFirst \in BOOLEAN
      PROVE  /\ Fmt!StringToCom(str, leftFirst).ret = 2
             /\ leftFirst \/ n % 11 = 0 => Fmt!StringToCom(str, leftFirst).out[1] = n
             /\ leftFirst \/ m % 11 = 0 => Fmt!StringToCom(str, leftFirst).out[2] = m
  <2>1. Len(str) % 2 = 0 /\ Len(str) \div 2 = 2
    BY <1>1
  <2>2. CASE leftFirst
    BY <1>3, <2>1, <2>2 DEF Fmt!StringToCom
  <2>3. CASE ~leftFirst
    BY <1>3, <1>4, <2>1, <2>3 DEF Fmt!StringToCom
  <2> QED BY <2>2, <2>3
<1> QED BY <1>5, <1>6 DEF Fmt!DecimalReadsBack, str
-----------------------------------------------------------------------------
(* at_code.c: the numbers *)

Ten == DOMAIN DecimalDigits

LEMMA DigitsAreTen ==
  /\ \A d \in Ten : DecimalDigits[d] \in 0 .. 9
  /\ \A v \in 0 .. 9 : \E d \in Ten : DecimalDigits[d] = v
  /\ At!Comma \notin Ten /\ At!Space \notin Ten
BY TextAssumption DEF Ten

\* The values of the digits of s, one after the other.
Writes(w, s) ==
  /\ w[0] = 0
  /\ \A k \in 1 .. Len(s) : w[k] = (w[k - 1] * 10 + DecimalDigits[s[k]]) % 256

\* The recursive function of Written exists: each digit is added to ten times what came before.
LEMMA WrittenIs ==
  ASSUME NEW s \in Seq(Ten)
  PROVE  \E w \in [0 .. Len(s) -> Byte] : Writes(w, s) /\ At!Written(s) = w[Len(s)]
<1> DEFINE step == [k \in Nat |-> [v \in Byte |->
             IF k \in 1 .. Len(s) THEN (v * 10 + DecimalDigits[s[k]]) % 256 ELSE 0]]
           Is(f) == f = [k \in 0 .. Len(s) |->
                      IF k = 0 THEN 0 ELSE (f[k - 1] * 10 + DecimalDigits[s[k]]) % 256]
<1>1. Len(s) \in Nat /\ \A k \in 1 .. Len(s) : s[k] \in Ten /\ DecimalDigits[s[k]] \in 0 .. 9
  BY DigitsAreTen
<1>2. step \in [Nat -> [Byte -> Byte]]
  <2>1. \A x \in Byte, d \in 0 .. 9 : (x * 10 + d) % 256 \in Byte
    BY DEF Byte
  <2>2. \A k \in 1 .. Len(s), v \in Byte : (v * 10 + DecimalDigits[s[k]]) % 256 \in Byte
    BY <1>1, <2>1
  <2>3. 0 \in Byte
    BY DEF Byte
  <2> QED BY <2>2, <2>3
<1>3. \A k \in 1 .. Len(s), v \in Byte : step[k][v] = (v * 10 + DecimalDigits[s[k]]) % 256
  BY <1>1
<1> HIDE DEF step
<1>4. PICK g \in [0 .. Len(s) -> Byte] : Recursion(g, Len(s), 0, step)
  <2>1. 0 \in Byte
    BY DEF Byte
  <2> QED BY <1>1, <1>2, <2>1, RecursionExists
<1>5. Is(g)
  <2>1. ASSUME NEW k \in 0 .. Len(s)
        PROVE  g[k] = IF k = 0 THEN 0 ELSE (g[k - 1] * 10 + DecimalDigits[s[k]]) % 256
    <3>1. CASE k = 0
      BY <1>4, <3>1 DEF Recursion
    <3>2. CASE k # 0
      <4>1. k \in 1 .. Len(s) /\ k - 1 \in 0 .. Len(s)
        BY <1>1, <3>2
      <4> QED BY <1>3, <1>4, <3>2, <4>1 DEF Recursion
    <3> QED BY <3>1, <3>2
  <2> QED BY <1>4, <2>1
<1> DEFINE f == CHOOSE h : Is(h)
<1>6. Is(f)
  <2> HIDE DEF Is
  <2> QED BY <1>5
<1>7. At!Written(s) = f[Len(s)]
  BY DEF At!Written
<1>8. f[0] = 0 /\ \A k \in 1 .. Len(s) : f[k] = (f[k - 1] * 10 + DecimalDigits[s[k]]) % 256
  <2> HIDE DEF f
  <2>1. 0 \in 0 .. Len(s) /\ \A k \in 1 .. Len(s) : k \in 0 .. Len(s) /\ k # 0
    BY <1>1
  <2> QED BY <1>6, <2>1
<1>9. f \in [0 .. Len(s) -> Byte]
  <2> HIDE DEF f
  <2> DEFINE T == {k \in Nat : k <= Len(s) => f[k] \in Byte}
  <2>1. 0 \in T
    BY <1>8 DEF Byte
  <2>2. ASSUME NEW k \in Nat, k \in T PROVE k + 1 \in T
    <3> SUFFICES ASSUME k + 1 <= Len(s) PROVE f[k + 1] \in Byte
      OBVIOUS
    <3>1. k + 1 \in 1 .. Len(s) /\ f[k] \in Byte /\ (k + 1) - 1 = k
      BY <1>1, <2>2
    <3>2. f[k + 1] = (f[k] * 10 + DecimalDigits[s[k + 1]]) % 256
      BY <1>8, <3>1
    <3>3. DecimalDigits[s[k + 1]] \in 0 .. 9
      BY <1>1, <3>1
    <3>4. \A x \in Byte, d \in 0 .. 9 : (x * 10 + d) % 256 \in Byte
      BY DEF Byte
    <3>5. (f[k] * 10 + DecimalDigits[s[k + 1]]) % 256 \in Byte
      BY <3>1, <3>3, <3>4
    <3> QED BY <3>2, <3>5, Zenon
  <2>3. Nat \subseteq T
    <3> HIDE DEF T
    <3> QED BY <2>1, <2>2, InductionOverNat
  <2>4. \A k \in 0 .. Len(s) : f[k] \in Byte
    BY <1>1, <2>3
  <2>5. f = [k \in 0 .. Len(s) |-> f[k]]
    BY <1>6
  <2> QED BY <2>4, <2>5
<1> HIDE DEF Is, f
<1> QED BY <1>7, <1>8, <1>9 DEF Writes

LEMMA WrittenOfNone == At!Written(<<>>) = 0
<1>1. <<>> \in Seq(Ten) /\ Len(<<>>) = 0
  OBVIOUS
<1> QED BY <1>1, WrittenIs DEF Writes

\* One digit more.
LEMMA WrittenAppend ==
  ASSUME NEW s \in Seq(Ten), NEW d \in Ten
  PROVE  At!Written(Append(s, d)) = (At!Written(s) * 10 + DecimalDigits[d]) % 256
<1> DEFINE t == Append(s, d)
<1>1. /\ t \in Seq(Ten) /\ Len(t) = Len(s) + 1 /\ t[Len(s) + 1] = d /\ Len(s) \in Nat
      /\ \A k \in 1 .. Len(s) : t[k] = s[k]
  OBVIOUS
<1> HIDE DEF t
<1>2. PICK v \in [0 .. Len(s) -> Byte] : Writes(v, s) /\ At!Written(s) = v[Len(s)]
  BY WrittenIs
<1>3. PICK w \in [0 .. Len(t) -> Byte] : Writes(w, t) /\ At!Written(t) = w[Len(t)]
  BY <1>1, WrittenIs
<1> DEFINE T == {k \in Nat : k <= Len(s) => w[k] = v[k]}
<1>4. 0 \in T
  BY <1>2, <1>3 DEF Writes
<1>5. ASSUME NEW k \in Nat, k \in T PROVE k + 1 \in T
  <2> SUFFICES ASSUME k + 1 <= Len(s) PROVE w[k + 1] = v[k + 1]
    OBVIOUS
  <2>1. k + 1 \in 1 .. Len(s) /\ k + 1 \in 1 .. Len(t) /\ w[k] = v[k] /\ (k + 1) - 1 = k
    BY <1>1, <1>5
  <2>2. /\ w[k + 1] = (w[(k + 1) - 1] * 10 + DecimalDigits[t[k + 1]]) % 256
        /\ v[k + 1] = (v[(k + 1) - 1] * 10 + DecimalDigits[s[k + 1]]) % 256
    BY <1>1, <1>2, <1>3, <2>1 DEF Writes
  <2>3. t[k + 1] = s[k + 1]
    BY <1>1, <2>1
  <2> QED BY <2>1, <2>2, <2>3
<1>6. w[Len(s)] = v[Len(s)]
  <2>1. Nat \subseteq T
    <3> HIDE DEF T
    <3> QED BY <1>4, <1>5, InductionOverNat
  <2> QED BY <1>1, <2>1
<1>7. Len(t) \in 1 .. Len(t) /\ Len(t) - 1 = Len(s)
  BY <1>1
<1>8. w[Len(t)] = (w[Len(s)] * 10 + DecimalDigits[t[Len(t)]]) % 256
  BY <1>3, <1>7 DEF Writes
<1> QED BY <1>1, <1>2, <1>3, <1>6, <1>8 DEF t

\* Of the decimals of every number up to n.
Decimals(f, n, digit) ==
  f = [k \in 0 .. n |-> IF k < 10 THEN <<digit[k]>> ELSE Append(f[k \div 10], digit[k % 10])]

\* The decimals of all numbers up to n.
LEMMA DecimalsExist ==
  ASSUME NEW n \in Nat, NEW digit PROVE \E f : Decimals(f, n, digit)
<1> DEFINE T == {m \in Nat : \E f : Decimals(f, m, digit)}
<1>1. 0 \in T
  <2>1. Decimals([k \in 0 .. 0 |-> <<digit[0]>>], 0, digit)
    BY DEF Decimals
  <2> QED BY <2>1
<1>2. ASSUME NEW m \in Nat, m \in T PROVE m + 1 \in T
  <2>1. PICK f : Decimals(f, m, digit)
    BY <1>2
  <2> DEFINE next == IF m + 1 < 10 THEN <<digit[m + 1]>>
                     ELSE Append(f[(m + 1) \div 10], digit[(m + 1) % 10])
             g == [k \in 0 .. m + 1 |-> IF k = m + 1 THEN next ELSE f[k]]
  <2>2. ASSUME NEW k \in 0 .. m + 1
        PROVE  g[k] = IF k < 10 THEN <<digit[k]>> ELSE Append(g[k \div 10], digit[k % 10])
    <3>1. k >= 10 => k \div 10 \in 0 .. m /\ k \div 10 # m + 1
      OBVIOUS
    <3>2. k >= 10 => g[k \div 10] = f[k \div 10]
      BY <3>1
    <3>3. CASE k = m + 1
      BY <3>2, <3>3
    <3>4. CASE k # m + 1
      <4>1. k \in 0 .. m
        BY <3>4
      <4>2. f[k] = IF k < 10 THEN <<digit[k]>> ELSE Append(f[k \div 10], digit[k % 10])
        BY <2>1, <4>1 DEF Decimals
      <4> QED BY <3>2, <3>4, <4>2
    <3> QED BY <3>3, <3>4
  <2>3. Decimals(g, m + 1, digit)
    <3>1. g = [k \in 0 .. m + 1 |-> g[k]]
      OBVIOUS
    <3> HIDE DEF g
    <3> QED BY <2>2, <3>1 DEF Decimals
  <2> QED BY <2>3
<1>3. n \in T
  <2> HIDE DEF T
  <2> QED BY <1>1, <1>2, InductionOverNat
<1> QED BY <1>3

(* A number is written in digits, and what they write is its low byte.       *)
LEMMA DecimalIsRead ==
  ASSUME NEW n \in Nat
  PROVE  /\ At!Decimal(n) \in Seq(Ten) /\ At!Decimal(n) # <<>>
         /\ At!Written(At!Decimal(n)) = n % 256
<1> DEFINE of(v) == CHOOSE d \in DOMAIN DecimalDigits : DecimalDigits[d] = v
           digit == [v \in 0 .. 9 |-> of(v)]
           Is(f) == f = [k \in 0 .. n |->
                      IF k < 10 THEN <<of(k)>> ELSE Append(f[k \div 10], of(k % 10))]
           f == CHOOSE h : Is(h)
<1>1. \A v \in 0 .. 9 : of(v) \in Ten /\ DecimalDigits[of(v)] = v
  BY DigitsAreTen DEF Ten
<1>2. At!Decimal(n) = f[n]
  BY DEF At!Decimal
<1> HIDE DEF of
<1>3. Is(f)
  <2>1. PICK g : Decimals(g, n, digit)
    BY DecimalsExist
  <2>2. \A k \in 0 .. n : k % 10 \in 0 .. 9 /\ (k < 10 => k \in 0 .. 9)
    OBVIOUS
  <2>3. Is(g)
    BY <2>1, <2>2 DEF Decimals
  <2> HIDE DEF Is
  <2> QED BY <2>3
<1> HIDE DEF f
<1> DEFINE Good(s, k) == s \in Seq(Ten) /\ s # <<>> /\ At!Written(s) = k % 256
           T == {m \in Nat : \A k \in 0 .. n : k <= m => Good(f[k], k)}
<1>4. ASSUME NEW k \in 0 .. n, k < 10 PROVE Good(f[k], k)
  <2>1. f[k] = <<of(k)>> /\ of(k) \in Ten /\ DecimalDigits[of(k)] = k
    BY <1>1, <1>3, <1>4
  <2>2. <<of(k)>> = Append(<<>>, of(k)) /\ <<>> \in Seq(Ten)
    OBVIOUS
  <2>3. At!Written(<<of(k)>>) = (0 * 10 + k) % 256
    BY <2>1, <2>2, WrittenAppend, WrittenOfNone
  <2>4. (0 * 10 + k) % 256 = k % 256
    OBVIOUS
  <2> QED BY <2>1, <2>3, <2>4
<1>5. ASSUME NEW k \in 0 .. n, k >= 10, Good(f[k \div 10], k \div 10) PROVE Good(f[k], k)
  <2> DEFINE q == k \div 10
             r == k % 10
  <2>1. q \in Nat /\ r \in 0 .. 9 /\ k = 10 * q + r
    OBVIOUS
  <2>2. f[k] = Append(f[q], of(r))
    <3>1. f[k] = IF k < 10 THEN <<of(k)>> ELSE Append(f[k \div 10], of(k % 10))
      BY <1>3
    <3> QED BY <1>5, <3>1
  <2>3. Good(f[q], q)
    BY <1>5
  <2> HIDE DEF q, r
  <2>4. At!Written(f[k]) = ((q % 256) * 10 + r) % 256
    BY <1>1, <2>1, <2>2, <2>3, WrittenAppend
  <2>5. ((q % 256) * 10 + r) % 256 = k % 256
    BY <2>1
  <2>6. f[k] \in Seq(Ten) /\ f[k] # <<>>
    BY <1>1, <2>1, <2>2, <2>3
  <2> QED BY <2>4, <2>5, <2>6
<1>6. 0 \in T
  BY <1>4
<1>7. ASSUME NEW m \in Nat, m \in T PROVE m + 1 \in T
  <2> SUFFICES ASSUME NEW k \in 0 .. n, k <= m + 1 PROVE Good(f[k], k)
    OBVIOUS
  <2>1. CASE k < 10
    <3> HIDE DEF Good
    <3> QED BY <1>4, <2>1
  <2>2. CASE k >= 10
    <3>1. k \div 10 \in 0 .. n /\ k \div 10 <= m
      BY <2>2
    <3>2. Good(f[k \div 10], k \div 10)
      <4> HIDE DEF Good
      <4> QED BY <1>7, <3>1
    <3> HIDE DEF Good
    <3> QED BY <1>5, <2>2, <3>2
  <2> QED BY <2>1, <2>2
<1>8. n \in T
  <2> HIDE DEF T
  <2> QED BY <1>6, <1>7, InductionOverNat
<1>9. Good(f[n], n)
  <2> HIDE DEF Good
  <2> QED BY <1>8
<1> QED BY <1>2, <1>9

-----------------------------------------------------------------------------
(* at_code.c: the packets *)

\* Facts on two sequences one after the other.
LEMMA Joined ==
  ASSUME NEW S, NEW a \in Seq(S), NEW b \in Seq(S)
  PROVE  /\ a \o b \in Seq(S) /\ Len(a \o b) = Len(a) + Len(b)
         /\ \A i \in 1 .. Len(a) : (a \o b)[i] = a[i]
         /\ \A i \in 1 .. Len(b) : (a \o b)[Len(a) + i] = b[i]
         /\ SubSeq(a \o b, 1, Len(a)) = a
         /\ SubSeq(a \o b, Len(a) + 1, Len(a) + Len(b)) = b
<1>1. /\ a \o b \in Seq(S) /\ Len(a \o b) = Len(a) + Len(b) /\ Len(a) \in Nat /\ Len(b) \in Nat
      /\ \A i \in 1 .. Len(a) : (a \o b)[i] = a[i]
      /\ \A i \in 1 .. Len(b) : (a \o b)[Len(a) + i] = b[i]
  OBVIOUS
<1> DEFINE c == a \o b
<1> HIDE DEF c
<1>2. SubSeq(c, 1, Len(a)) = a
  BY <1>1 DEF c
<1>3. SubSeq(c, Len(a) + 1, Len(a) + Len(b)) = b
  BY <1>1 DEF c
<1> QED BY <1>1, <1>2, <1>3 DEF c

LEMMA Lengths ==
  ASSUME NEW S, NEW a \in Seq(S), NEW b \in Seq(S)
  PROVE  a \o b \in Seq(S) /\ Len(a \o b) = Len(a) + Len(b)
OBVIOUS

LEMMA Regrouped ==
  ASSUME NEW S, NEW a \in Seq(S), NEW b \in Seq(S), NEW c \in Seq(S)
  PROVE  (a \o b) \o c = a \o (b \o c)
OBVIOUS

LEMMA CountsTo ==
  ASSUME NEW n \in Nat PROVE IsFiniteSet(1 .. n) /\ Cardinality(1 .. n) = n
<1>1. 1 \in Int /\ n \in Int
  OBVIOUS
<1>2. IsFiniteSet(1 .. n) /\ Cardinality(1 .. n) = IF 1 > n THEN 0 ELSE n - 1 + 1
  BY <1>1, FS_Interval, Zenon
<1> QED BY <1>2

\* Number: the digits a text begins with, if they are fewer than eight.
LEMMA NumberOf ==
  ASSUME NEW S, Ten \subseteq S, NEW ds \in Seq(Ten), Len(ds) < 8,
         NEW rest \in Seq(S), rest = <<>> \/ rest[1] \notin Ten
  PROVE  At!Number(ds \o rest) = ds
<1> DEFINE s == ds \o rest
           begun == {k \in 1 .. 8 : \A i \in 1 .. k : i <= Len(s) /\ s[i] \in Ten}
<1>1. Len(ds) \in Nat /\ ds \in Seq(S)
  BY SeqOfMore
<1>2. /\ Len(s) = Len(ds) + Len(rest) /\ Len(rest) \in Nat
      /\ \A i \in 1 .. Len(ds) : s[i] = ds[i] /\ ds[i] \in Ten
      /\ \A i \in 1 .. Len(rest) : s[Len(ds) + i] = rest[i]
      /\ SubSeq(s, 1, Len(ds)) = ds
  <2>1. /\ Len(s) = Len(ds) + Len(rest) /\ SubSeq(s, 1, Len(ds)) = ds
        /\ \A i \in 1 .. Len(ds) : s[i] = ds[i]
        /\ \A i \in 1 .. Len(rest) : s[Len(ds) + i] = rest[i]
    <3>1. ds \in Seq(S) /\ rest \in Seq(S)
      BY <1>1
    <3> QED BY ONLY <3>1, Joined
  <2>2. Len(rest) \in Nat /\ \A i \in 1 .. Len(ds) : ds[i] \in Ten
    <3> HIDE DEF s, begun
    <3> QED OBVIOUS
  <2> QED BY <2>1, <2>2, Zenon
<1> HIDE DEF s
<1>3. begun = 1 .. Len(ds)
  <2>1. ASSUME NEW k \in 1 .. Len(ds) PROVE k \in begun
    BY <1>1, <1>2
  <2>2. ASSUME NEW k \in begun, k > Len(ds) PROVE FALSE
    <3>1. Len(ds) + 1 \in 1 .. k
      BY <1>1, <2>2
    <3>2. Len(ds) + 1 <= Len(s) /\ s[Len(ds) + 1] \in Ten
      BY <2>2, <3>1
    <3>3. 1 \in 1 .. Len(rest) /\ rest # <<>>
      BY <1>1, <1>2, <3>2
    <3> QED BY <1>2, <3>2, <3>3
  <2> QED BY <1>1, <2>1, <2>2
<1>4. Cardinality(begun) = Len(ds)
  BY <1>1, <1>3, CountsTo
<1>5. At!Number(s) = SubSeq(s, 1, Cardinality(begun))
  BY DEF At!Number, Ten, At!Cardinality, Cardinality
<1> HIDE DEF begun
<1> QED BY <1>2, <1>4, <1>5 DEF s

LEMMA ValuesOf ==
  ASSUME NEW S, Ten \subseteq S, NEW ds \in Seq(Ten), ds # <<>>, Len(ds) < 8,
         NEW rest \in Seq(S), rest = <<>> \/ rest[1] \notin Ten, NEW old
  PROVE  At!Values(ds \o rest, old) = {At!Written(ds)}
<1>1. At!Number(ds \o rest) = ds
  BY NumberOf
<1>2. At!Written(ds) \in 0 .. 255
  <2>1. PICK w \in [0 .. Len(ds) -> Byte] : At!Written(ds) = w[Len(ds)]
    BY WrittenIs
  <2>2. Len(ds) \in 0 .. Len(ds)
    OBVIOUS
  <2>3. w[Len(ds)] \in Byte
    BY <2>1, <2>2
  <2> QED BY <2>1, <2>3, Zenon DEF Byte
<1>3. Len(ds) # 8
  <2>1. \A x : x < 8 /\ x \in Nat => x # 8
    OBVIOUS
  <2>2. Len(ds) \in Nat
    OBVIOUS
  <2> QED BY <2>1, <2>2, Zenon
<1>4. {At!Written(ds)} \cap 0 .. 256 - 1 = {At!Written(ds)}
  <2>1. 256 - 1 = 255
    OBVIOUS
  <2>2. \A v \in 0 .. 255 : {v} \cap 0 .. 255 = {v}
    BY Zenon
  <2> QED BY <1>2, <2>1, <2>2, Zenon
<1> QED BY <1>1, <1>3, <1>4, Zenon DEF At!Values

LEMMA PlaceIs ==
  ASSUME NEW S, NEW s \in Seq(S), NEW c, NEW i \in 1 .. Len(s), s[i] = c
  PROVE  At!PlaceOf(c, Cardinality({j \in 1 .. i : s[j] = c}), s) = i
<1> DEFINE upTo(k) == {j \in 1 .. k : s[j] = c}
           places == {k \in DOMAIN s : s[k] = c /\ Cardinality(upTo(k)) = Cardinality(upTo(i))}
<1>1. i \in places
  OBVIOUS
<1>2. \A k \in Nat : IsFiniteSet(upTo(k))
  <2> SUFFICES ASSUME NEW k \in Nat PROVE IsFiniteSet(upTo(k))
    OBVIOUS
  <2>1. upTo(k) \in SUBSET (1 .. k)
    OBVIOUS
  <2>2. IsFiniteSet(1 .. k)
    BY CountsTo
  <2> HIDE DEF upTo
  <2> QED BY <2>1, <2>2, FS_Subset
<1>3. ASSUME NEW k \in 1 .. Len(s), NEW m \in 1 .. Len(s), k < m, s[m] = c
      PROVE  Cardinality(upTo(k)) # Cardinality(upTo(m))
  <2>1. upTo(k) \subseteq upTo(m) /\ m \in upTo(m) /\ m \notin upTo(k)
    BY <1>3
  <2>2. IsFiniteSet(upTo(m))
    BY <1>2
  <2> HIDE DEF upTo
  <2> QED BY <2>1, <2>2, FS_Subset
<1>4. ASSUME NEW k \in places PROVE k = i
  <2>1. k \in 1 .. Len(s) /\ s[k] = c /\ Cardinality(upTo(k)) = Cardinality(upTo(i))
    BY <1>4
  <2> HIDE DEF upTo
  <2> QED BY <1>3, <2>1
<1>5. At!PlaceOf(c, Cardinality(upTo(i)), s) = IF places = {} THEN 0 ELSE CHOOSE k \in places : TRUE
  BY DEF At!PlaceOf, At!Cardinality, Cardinality
<1> HIDE DEF places
<1> QED BY <1>1, <1>4, <1>5

LEMMA FirstPlace ==
  ASSUME NEW S, NEW s \in Seq(S), NEW c, NEW i \in 1 .. Len(s), s[i] = c,
         \A j \in 1 .. i - 1 : s[j] # c
  PROVE  At!PlaceOf(c, 1, s) = i
<1>1. {j \in 1 .. i : s[j] = c} = {i}
  OBVIOUS
<1>2. Cardinality({i}) = 1
  BY FS_Singleton
<1> QED BY <1>1, <1>2, PlaceIs

LEMMA SecondPlace ==
  ASSUME NEW S, NEW s \in Seq(S), NEW c, NEW i \in 1 .. Len(s), s[i] = c,
         NEW f \in 1 .. i - 1, s[f] = c, \A j \in 1 .. i - 1 : j # f => s[j] # c
  PROVE  At!PlaceOf(c, 2, s) = i
<1>1. {j \in 1 .. i : s[j] = c} = {f} \cup {i}
  OBVIOUS
<1>2. Cardinality({f} \cup {i}) = 2
  <2>1. i \notin {f}
    OBVIOUS
  <2>2. IsFiniteSet({f}) /\ Cardinality({f}) = 1
    BY FS_Singleton, Zenon
  <2>3. Cardinality({f} \cup {i}) = IF i \in {f} THEN Cardinality({f}) ELSE Cardinality({f}) + 1
    BY <2>2, FS_AddElement, Zenon
  <2>4. Cardinality({f} \cup {i}) = 1 + 1
    BY <2>1, <2>2, <2>3, Zenon
  <2>5. 1 + 1 = 2
    BY ONLY TRUE
  <2> QED BY <2>4, <2>5, Zenon
<1> DEFINE n == Cardinality({j \in 1 .. i : s[j] = c})
<1>3. At!PlaceOf(c, n, s) = i
  BY PlaceIs, Zenon
<1>4. n = 2
  BY ONLY <1>1, <1>2
<1> HIDE DEF n
<1> QED BY <1>3, <1>4, Zenon

\* The first twelve characters of a packet.
Command == <<"A", "T", "+", "B", At!Space, "D", "A", "T", "I", "N", "D", At!Space>>

LEMMA CommandIs ==
  /\ Len(Command) = 12 /\ Command[5] = At!Space /\ Command[12] = At!Space
  /\ \A i \in 1 .. 11 : i # 5 => Command[i] # At!Space
  /\ \A i \in 1 .. 12 : Command[i] # At!Comma
  /\ \A S : {"A", "T", "+", "B", "D", "I", "N", At!Space} \subseteq S => Command \in Seq(S)
<1>1. /\ At!Space # "A" /\ At!Space # "T" /\ At!Space # "+" /\ At!Space # "B" /\ At!Space # "D"
      /\ At!Space # "I" /\ At!Space # "N" /\ At!Space # At!Comma
  BY DEF At!Space, At!Comma
<1>2. /\ At!Comma # "A" /\ At!Comma # "T" /\ At!Comma # "+" /\ At!Comma # "B" /\ At!Comma # "D"
      /\ At!Comma # "I" /\ At!Comma # "N"
  BY DEF At!Comma
<1>3. Len(Command) = 12 /\ Command[5] = At!Space /\ Command[12] = At!Space
  BY DEF Command
<1>4. \A i \in 1 .. 11 : i # 5 => Command[i] # At!Space
  BY <1>1 DEF Command
<1>5. \A i \in 1 .. 12 : Command[i] # At!Comma
  BY <1>1, <1>2 DEF Command
<1>6. \A S : {"A", "T", "+", "B", "D", "I", "N", At!Space} \subseteq S => Command \in Seq(S)
  BY DEF Command
<1> QED BY <1>3, <1>4, <1>5, <1>6

\* A packet whose numbers are u and n, with the data d.
LEMMA PacketIsRead ==
  ASSUME NEW u \in Seq(Ten), NEW n \in Seq(Ten), u # <<>>, n # <<>>, Len(u) < 8, Len(n) < 8,
         NEW d \in Seq(Character)
  PROVE  LET s == Command \o u \o <<At!Comma>> \o n \o <<At!Comma>> \o d
         IN At!FetchInfoFromData(s)
              = [uuid |-> At!Written(u), len |-> At!Written(n), data |-> d]
<1> DEFINE S == Character \cup Ten \cup {"A", "T", "+", "B", "D", "I", "N", At!Space, At!Comma}
           one == <<At!Comma>>
           s2 == one \o d
           s3 == n \o s2
           s4 == one \o s3
           s5 == u \o s4
           s == Command \o s5
<1>1. /\ Command \in Seq(S) /\ one \in Seq(S) /\ d \in Seq(S) /\ u \in Seq(S) /\ n \in Seq(S)
      /\ Ten \subseteq S /\ Len(one) = 1 /\ one[1] = At!Comma
      /\ Len(u) \in Nat /\ Len(n) \in Nat /\ Len(d) \in Nat
  <2>1. {"A", "T", "+", "B", "D", "I", "N", At!Space} \subseteq S /\ Ten \subseteq S
        /\ Character \subseteq S /\ At!Comma \in S
    OBVIOUS
  <2> HIDE DEF S
  <2>2. Command \in Seq(S)
    BY <2>1, CommandIs
  <2>3. d \in Seq(S) /\ u \in Seq(S) /\ n \in Seq(S)
    BY <2>1, SeqOfMore
  <2> QED BY <2>1, <2>2, <2>3
<1>2. /\ At!Comma \notin Ten /\ At!Space \notin Ten /\ At!Comma # At!Space
  BY DigitsAreTen DEF At!Comma, At!Space
<1> HIDE DEF S
<1> HIDE DEF one
<1>26. Command \in Seq(S)
  BY <1>1
<1>27. one \in Seq(S)
  BY <1>1
<1>28. d \in Seq(S)
  BY <1>1
<1>29. u \in Seq(S)
  BY <1>1
<1>30. n \in Seq(S)
  BY <1>1
<1>3. /\ Command \o u \o one \o n \o one \o d = s
      /\ \E c \in Seq(S) : Len(c) = 13 + Len(u) /\ s = c \o s3
      /\ \E c \in Seq(S) : Len(c) = 14 + Len(u) + Len(n) /\ s = c \o d
  <2>1. s2 \in Seq(S)
    BY <1>27, <1>28
  <2>2. s3 \in Seq(S)
    <3> HIDE DEF s2
    <3> QED BY <1>30, <2>1
  <2>3. s4 \in Seq(S)
    <3> HIDE DEF s3
    <3> QED BY <1>27, <2>2
  <2> DEFINE c2 == Command \o u
             c3 == c2 \o one
             c4 == c3 \o n
  <2>4. c2 \in Seq(S)
    BY <1>26, <1>29
  <2>5. c3 \in Seq(S)
    <3> HIDE DEF c2
    <3> QED BY <1>27, <2>4
  <2>6. c4 \in Seq(S)
    <3> HIDE DEF c3
    <3> QED BY <1>30, <2>5
  <2>7. (c4 \o one) \o d = c4 \o s2
    <3> HIDE DEF c4
    <3> QED BY ONLY <1>27, <1>28, <2>6, Regrouped
  <2>8. c4 \o s2 = c3 \o s3
    <3> HIDE DEF c3, s2
    <3> QED BY ONLY <1>30, <2>1, <2>5, Regrouped
  <2>9. c3 \o s3 = c2 \o s4
    <3> HIDE DEF c2, s3
    <3> QED BY ONLY <1>27, <2>2, <2>4, Regrouped
  <2>10. c2 \o s4 = s
    <3> HIDE DEF s4
    <3> QED BY ONLY <1>26, <1>29, <2>3, Regrouped
  <2>11. Len(c2) = 12 + Len(u)
    <3>1. Len(c2) = Len(Command) + Len(u)
      BY ONLY <1>26, <1>29, Lengths
    <3> QED BY <3>1, CommandIs
  <2>12. Len(c3) = 13 + Len(u)
    <3> HIDE DEF c2
    <3>1. Len(c3) = Len(c2) + Len(one)
      BY ONLY <1>27, <2>4, Lengths
    <3> HIDE DEF c3
    <3> QED BY <1>1, <2>11, <3>1
  <2>13. Len(c4) = 13 + Len(u) + Len(n)
    <3> HIDE DEF c3
    <3>1. Len(c4) = Len(c3) + Len(n)
      BY ONLY <1>30, <2>5, Lengths
    <3> HIDE DEF c4
    <3> QED BY <1>1, <2>12, <3>1
  <2>14. c4 \o one \in Seq(S) /\ Len(c4 \o one) = 14 + Len(u) + Len(n)
    <3> HIDE DEF c4
    <3>1. c4 \o one \in Seq(S) /\ Len(c4 \o one) = Len(c4) + Len(one)
      BY ONLY <1>27, <2>6, Lengths
    <3> QED BY <1>1, <2>13, <3>1
  <2> HIDE DEF s2, s3, s4, s5, s, c3, c4
  <2>15. s = c3 \o s3 /\ s = (c4 \o one) \o d
    BY <2>7, <2>8, <2>9, <2>10
  <2>16. Command \o u \o one \o n \o one \o d = s
    BY <2>15 DEF c3, c4
  <2> HIDE DEF c2
  <2> QED BY <2>5, <2>12, <2>14, <2>15, <2>16
<1>4. s2 \in Seq(S) /\ Len(s2) = 1 + Len(d) /\ s2[1] = At!Comma
      /\ SubSeq(s2, 2, 1 + Len(d)) = d
  <2>1. /\ s2 \in Seq(S) /\ Len(s2) = Len(one) + Len(d)
        /\ \A i \in 1 .. Len(one) : s2[i] = one[i]
        /\ SubSeq(s2, Len(one) + 1, Len(one) + Len(d)) = d
    BY ONLY <1>27, <1>28, Joined
  <2> QED BY <1>1, <2>1
<1> HIDE DEF s2
<1>5. /\ s3 \in Seq(S) /\ Len(s3) = Len(n) + 1 + Len(d)
      /\ \A i \in 1 .. Len(n) : s3[i] = n[i]
      /\ s3[Len(n) + 1] = At!Comma
  <2>1. /\ s3 \in Seq(S) /\ Len(s3) = Len(n) + Len(s2)
        /\ \A i \in 1 .. Len(n) : s3[i] = n[i]
        /\ \A i \in 1 .. Len(s2) : s3[Len(n) + i] = s2[i]
    <3>1. s2 \in Seq(S)
      BY <1>4
    <3> QED BY ONLY <1>30, <3>1, Joined
  <2> QED BY <1>1, <1>4, <2>1
<1> HIDE DEF s3
<1>6. /\ s4 \in Seq(S) /\ Len(s4) = Len(n) + 2 + Len(d) /\ s4[1] = At!Comma
      /\ \A i \in 1 .. Len(s3) : s4[1 + i] = s3[i]
  <2>1. /\ s4 \in Seq(S) /\ Len(s4) = Len(one) + Len(s3)
        /\ \A i \in 1 .. Len(one) : s4[i] = one[i]
        /\ \A i \in 1 .. Len(s3) : s4[Len(one) + i] = s3[i]
    <3>1. s3 \in Seq(S)
      BY <1>5
    <3> QED BY ONLY <1>27, <3>1, Joined
  <2> QED BY <1>1, <1>5, <2>1
<1> HIDE DEF s4
<1>7. /\ s5 \in Seq(S) /\ Len(s5) = Len(u) + Len(n) + 2 + Len(d)
      /\ \A i \in 1 .. Len(u) : s5[i] = u[i]
      /\ \A i \in 1 .. Len(s4) : s5[Len(u) + i] = s4[i]
  <2>1. Len(s5) = Len(u) + Len(s4)
    BY <1>1, <1>6, Joined
  <2> QED BY <1>1, <1>6, <2>1, Joined
<1> HIDE DEF s5
<1>8. /\ s \in Seq(S) /\ Len(s) = 14 + Len(u) + Len(n) + Len(d)
      /\ \A i \in 1 .. 12 : s[i] = Command[i]
      /\ \A i \in 1 .. Len(s5) : s[12 + i] = s5[i]
  <2>1. /\ s \in Seq(S) /\ Len(s) = Len(Command) + Len(s5)
        /\ \A i \in 1 .. Len(Command) : s[i] = Command[i]
        /\ \A i \in 1 .. Len(s5) : s[Len(Command) + i] = s5[i]
    <3>1. s5 \in Seq(S)
      BY <1>7
    <3> QED BY ONLY <1>26, <3>1, Joined
  <2> QED BY <1>1, <1>7, <2>1, CommandIs
<1>9. SubSeq(s, 13, Len(s)) = s5
  <2>1. SubSeq(s, Len(Command) + 1, Len(Command) + Len(s5)) = s5
    BY <1>1, <1>7, Joined
  <2>2. Len(Command) + 1 = 13 /\ Len(Command) + Len(s5) = Len(s)
    BY <1>1, <1>7, <1>8, CommandIs
  <2> QED BY <2>1, <2>2
<1> DEFINE x == 13 + Len(u)
           y == 14 + Len(u) + Len(n)
<1>10. ASSUME NEW i \in 1 .. Len(u) PROVE s[12 + i] = u[i] /\ u[i] \in Ten
  <2>1. i \in 1 .. Len(s5)
    BY <1>1, <1>7
  <2>2. u[i] \in Ten
    OBVIOUS
  <2>3. s[12 + i] = s5[i] /\ s5[i] = u[i]
    BY <1>7, <1>8, <2>1
  <2> QED BY <2>2, <2>3
<1>11. ASSUME NEW i \in 1 .. Len(s4) PROVE s[12 + Len(u) + i] = s4[i]
  <2>1. Len(u) + i \in 1 .. Len(s5) /\ 12 + (Len(u) + i) = 12 + Len(u) + i
    BY <1>1, <1>6, <1>7
  <2>2. s[12 + (Len(u) + i)] = s5[Len(u) + i]
    BY <1>8, <2>1
  <2> QED BY <1>7, <2>1, <2>2
<1>12. s[x] = At!Comma
  <2>1. 1 \in 1 .. Len(s4)
    BY <1>1, <1>6
  <2>2. s[12 + Len(u) + 1] = s4[1]
    BY <1>11, <2>1
  <2>3. 12 + Len(u) + 1 = x
    BY <1>1
  <2> QED BY <1>6, <2>2, <2>3
<1>13. ASSUME NEW i \in 1 .. Len(n) PROVE s[13 + Len(u) + i] = n[i] /\ n[i] \in Ten
  <2>1. 1 + i \in 1 .. Len(s4) /\ 12 + Len(u) + (1 + i) = 13 + Len(u) + i
        /\ i \in 1 .. Len(s3)
    BY <1>1, <1>5, <1>6
  <2>2. s[12 + Len(u) + (1 + i)] = s4[1 + i]
    BY <1>11, <2>1
  <2>3. n[i] \in Ten
    OBVIOUS
  <2>4. s4[1 + i] = s3[i] /\ s3[i] = n[i]
    BY <1>5, <1>6, <2>1
  <2> QED BY <2>1, <2>2, <2>3, <2>4
<1>14. s[y] = At!Comma
  <2>1. 2 + Len(n) \in 1 .. Len(s4) /\ 12 + Len(u) + (2 + Len(n)) = y
        /\ Len(n) + 1 \in 1 .. Len(s3) /\ 1 + (Len(n) + 1) = 2 + Len(n)
    BY <1>1, <1>5, <1>6
  <2>2. s[12 + Len(u) + (2 + Len(n))] = s4[2 + Len(n)]
    BY <1>11, <2>1
  <2>3. s4[1 + (Len(n) + 1)] = s3[Len(n) + 1]
    BY <1>6, <2>1
  <2> QED BY <1>5, <2>1, <2>2, <2>3
<1>15. ASSUME NEW j \in 1 .. y - 1, j # x PROVE s[j] # At!Comma
  <2>1. CASE j \in 1 .. 12
    BY <1>8, <2>1, CommandIs
  <2>2. CASE j \in 13 .. x - 1
    <3>1. j - 12 \in 1 .. Len(u) /\ 12 + (j - 12) = j
      BY <1>1, <2>2
    <3> QED BY <1>2, <1>10, <3>1
  <2>3. CASE j \in x + 1 .. y - 1
    <3>1. j - x \in 1 .. Len(n) /\ 13 + Len(u) + (j - x) = j
      BY <1>1, <2>3
    <3> QED BY <1>2, <1>13, <3>1
  <2>4. j \in 1 .. 12 \/ j \in 13 .. x - 1 \/ j \in x + 1 .. y - 1
    BY <1>1, <1>15
  <2> QED BY <2>1, <2>2, <2>3, <2>4
<1>16. x \in 1 .. Len(s) /\ y \in 1 .. Len(s) /\ x \in 1 .. y - 1 /\ 12 \in 1 .. Len(s)
  <2> HIDE DEF s
  <2> QED BY <1>1, <1>8
<1> HIDE DEF s, x, y
<1>17. At!PlaceOf(At!Space, 2, s) = 12
  <2>1. s[12] = At!Space /\ s[5] = At!Space
    BY <1>8, CommandIs
  <2>2. \A j \in 1 .. 12 - 1 : j # 5 => s[j] # At!Space
    BY <1>8, CommandIs
  <2>3. 5 \in 1 .. 12 - 1
    OBVIOUS
  <2>4. s \in Seq(S) /\ 12 \in 1 .. Len(s)
    BY <1>8, <1>16
  <2> QED BY ONLY <2>1, <2>2, <2>3, <2>4, SecondPlace
<1>18. At!PlaceOf(At!Comma, 1, s) = x
  <2>1. \A j \in 1 .. x - 1 : s[j] # At!Comma
    <3>1. \A j \in 1 .. x - 1 : j \in 1 .. y - 1 /\ j # x
      BY <1>1 DEF x, y
    <3> QED BY <1>15, <3>1
  <2> QED BY <1>8, <1>12, <1>16, <2>1, FirstPlace
<1>19. At!PlaceOf(At!Comma, 2, s) = y
  BY <1>8, <1>12, <1>14, <1>15, <1>16, SecondPlace
<1>20. SubSeq(s, 12 + 1, Len(s)) = u \o s4
  BY <1>9 DEF s5
<1>21. SubSeq(s, x + 1, Len(s)) = n \o s2
  <2>1. SubSeq(s, x + 1, Len(s)) = s3
    <3>1. PICK c \in Seq(S) : Len(c) = 13 + Len(u) /\ s = c \o s3
      BY <1>3
    <3>2. s3 \in Seq(S) /\ Len(s) = Len(c) + Len(s3) /\ Len(c) + 1 = x + 1
      BY <1>1, <1>5, <1>8, <3>1 DEF x
    <3>3. SubSeq(c \o s3, Len(c) + 1, Len(c) + Len(s3)) = s3
      BY <3>1, <3>2, Joined
    <3> QED BY <3>1, <3>2, <3>3
  <2> QED BY <2>1 DEF s3
<1>22. SubSeq(s, y + 1, Len(s)) = d
  <2>1. PICK c \in Seq(S) : Len(c) = 14 + Len(u) + Len(n) /\ s = c \o d
    BY <1>3
  <2>2. Len(s) = Len(c) + Len(d) /\ Len(c) + 1 = y + 1
    BY <1>1, <1>8, <2>1 DEF y
  <2>3. SubSeq(c \o d, Len(c) + 1, Len(c) + Len(d)) = d
    BY <1>28, <2>1, Joined
  <2> QED BY <2>1, <2>2, <2>3
<1>23. At!Values(u \o s4, 0) = {At!Written(u)}
  <2>1. s4 \in Seq(S) /\ s4[1] \notin Ten /\ Ten \subseteq S
    BY <1>1, <1>2, <1>6
  <2> QED BY <2>1, ValuesOf
<1>24. At!Values(n \o s2, 0) = {At!Written(n)}
  <2>1. s2 \in Seq(S) /\ s2[1] \notin Ten /\ Ten \subseteq S
    BY <1>1, <1>2, <1>4
  <2> QED BY <2>1, ValuesOf
<1>25. At!FetchInfoFromData(s) = [uuid |-> At!Written(u), len |-> At!Written(n), data |-> d]
  BY <1>17, <1>18, <1>19, <1>20, <1>21, <1>22, <1>23, <1>24 DEF At!FetchInfoFromData, At!DataAfter
<1> QED BY <1>3, <1>25 DEF one

\* A packet assembled by AssembleInfoToData is read with its data; its id modulo 256 (at_code.c:118).
LEMMA PacketReadsBackHolds ==
  ASSUME NEW p \in Packet PROVE At!PacketReadsBack(p)
<1> DEFINE u == At!Decimal(p.uuid)
           n == At!Decimal(p.len)
           d == p.data
           h == At!StringData(p)
           s == At!AssembleInfoToData(p)
           one == <<At!Comma>>
           S == Character \cup Ten \cup {"A", "T", "+", "B", "D", "I", "N", At!Space, At!Comma}
<1> SUFFICES ASSUME At!StringDataFits(p)
             PROVE  IF Len(h) + p.len < 256
                    THEN At!FetchInfoFromData(s) = [p EXCEPT !.uuid = @ % 256]
                    ELSE At!IsStrictPrefix(s, h)
  BY DEF At!PacketReadsBack
<1>1. /\ p = [uuid |-> p.uuid, len |-> Len(d), data |-> d]
      /\ p.uuid \in Nat /\ d \in Seq(Character) /\ p.len < 256 /\ p.len = Len(d) /\ p.len \in Nat
  BY TextAssumption
<1>2. /\ u \in Seq(Ten) /\ u # <<>> /\ At!Written(u) = p.uuid % 256
      /\ n \in Seq(Ten) /\ n # <<>> /\ At!Written(n) = p.len % 256 /\ p.len % 256 = p.len
  BY <1>1, DecimalIsRead
<1>3. h = Command \o u \o one \o n \o one
  BY DEF At!StringData, Command
<1>4. one \in Seq(S) /\ Command \in Seq(S) /\ u \in Seq(S) /\ n \in Seq(S) /\ d \in Seq(S)
      /\ Len(one) = 1
  <2>1. {"A", "T", "+", "B", "D", "I", "N", At!Space} \subseteq S /\ Ten \subseteq S
        /\ Character \subseteq S /\ At!Comma \in S
    OBVIOUS
  <2> HIDE DEF S, u, n, d
  <2> QED BY <1>1, <1>2, <2>1, CommandIs, SeqOfMore
<1> HIDE DEF u, n, d, one, S
<1>5. h \in Seq(S) /\ Len(h) = 14 + Len(u) + Len(n)
  <2> DEFINE c2 == Command \o u
             c3 == c2 \o one
             c4 == c3 \o n
  <2>1. c2 \in Seq(S) /\ Len(c2) = 12 + Len(u)
    BY <1>4, Lengths, CommandIs
  <2> HIDE DEF c2
  <2>a. one \in Seq(S)
    BY <1>4
  <2>b. n \in Seq(S)
    BY <1>4
  <2>c. c2 \in Seq(S)
    BY <2>1
  <2>2. c3 \in Seq(S) /\ Len(c3) = Len(c2) + Len(one)
    BY ONLY <2>a, <2>c, Lengths
  <2>d. c3 \in Seq(S)
    BY <2>2
  <2> HIDE DEF c3
  <2>3. c4 \in Seq(S) /\ Len(c4) = Len(c3) + Len(n)
    BY ONLY <2>b, <2>d, Lengths
  <2>e. c4 \in Seq(S)
    BY <2>3
  <2> HIDE DEF c4
  <2>4. c4 \o one \in Seq(S) /\ Len(c4 \o one) = Len(c4) + Len(one)
    BY ONLY <2>a, <2>e, Lengths
  <2> DEFINE t == c4 \o one
  <2>5. t = h
    BY <1>3 DEF c2, c3, c4
  <2> HIDE DEF t, h
  <2>6. t \in Seq(S) /\ Len(t) = 12 + Len(u) + Len(one) + Len(n) + Len(one)
    BY <2>1, <2>2, <2>3, <2>4 DEF t
  <2>7. Len(u) \in Nat /\ Len(n) \in Nat /\ Len(one) = 1
    BY <1>4
  <2> QED BY ONLY <2>5, <2>6, <2>7
<1>6. Len(u) \in Nat /\ Len(n) \in Nat /\ Len(u) < 8 /\ Len(n) < 8 /\ Len(h) <= 19 /\ Len(h) \in Nat
  <2>1. Len(u) \in Nat /\ Len(n) \in Nat /\ Len(u) # 0 /\ Len(n) # 0
    BY <1>2
  <2>2. Len(h) + 1 <= 20
    BY DEF At!StringDataFits
  <2> HIDE DEF h
  <2> QED BY <1>5, <2>1, <2>2
<1> DEFINE all == h \o d
<1>7. all \in Seq(S) /\ Len(all) = Len(h) + p.len
  <2> HIDE DEF h
  <2> QED BY <1>1, <1>4, <1>5, Lengths
<1>8. s = SubSeq(all, 1, (Len(h) + p.len) % 256)
  BY DEF At!AssembleInfoToData, At!Sum, d
<1> HIDE DEF h, s, all
<1>9. CASE Len(h) + p.len < 256
  <2>1. (Len(h) + p.len) % 256 = Len(all)
    <3>1. \A x \in Nat : x < 256 => x % 256 = x
      OBVIOUS
    <3>2. Len(h) + p.len \in Nat
      BY <1>1, <1>6
    <3> QED BY <1>7, <1>9, <3>1, <3>2
  <2>2. s = all
    BY <1>7, <1>8, <2>1
  <2>3. At!FetchInfoFromData(s) = [uuid |-> At!Written(u), len |-> At!Written(n), data |-> d]
    BY <1>1, <1>2, <1>3, <1>6, <2>2, PacketIsRead DEF all, one
  <2>4. [uuid |-> p.uuid % 256, len |-> p.len, data |-> d] = [p EXCEPT !.uuid = @ % 256]
    BY <1>1
  <2> QED BY <1>2, <1>9, <2>3, <2>4
<1>10. CASE ~(Len(h) + p.len < 256)
  <2> DEFINE k == (Len(h) + p.len) % 256
  <2>1. k = Len(h) + p.len - 256 /\ k \in 0 .. Len(h) - 1
    BY <1>1, <1>6, <1>10
  <2> HIDE DEF k
  <2>2. SubSeq(all, 1, Len(h)) = h
    BY <1>4, <1>5, Joined DEF all
  <2>3. s \in Seq(S) /\ Len(s) = k /\ \A i \in 1 .. k : s[i] = all[i]
    <3>1. s = SubSeq(all, 1, k)
      BY <1>8 DEF k
    <3>2. k \in 0 .. Len(all) /\ all \in Seq(S)
      BY <1>1, <1>6, <1>7, <2>1
    <3> QED BY <3>1, <3>2
  <2>4. \A i \in 1 .. k : all[i] = h[i]
    BY <1>5, <1>6, <2>1, <1>4 DEF all
  <2>5. SubSeq(s, 1, k) = SubSeq(h, 1, k)
    BY <1>5, <1>6, <2>1, <2>3, <2>4
  <2>6. s # h /\ Len(s) <= Len(h)
    BY <1>6, <2>1, <2>3
  <2>7. At!IsStrictPrefix(s, h)
    BY <2>3, <2>5, <2>6 DEF At!IsStrictPrefix, At!IsPrefix
  <2> QED BY <1>10, <2>7
<1> QED BY <1>9, <1>10

-----------------------------------------------------------------------------
(* util_printf.c: the end of a format *)

Takes == Pf!Converts \cup {"*"}

\* How many characters from i on may take an argument.
Ahead(f, i) == Cardinality({k \in i .. Len(f) : f[k] \in Takes})

\* What takes an argument is passed once.
LEMMA AheadShrinks ==
  ASSUME NEW f \in Seq(Character), NEW i \in Nat \ {0}
  PROVE  /\ Ahead(f, i) \in Nat
         /\ Ahead(f, i + 1) <= Ahead(f, i)
         /\ i <= Len(f) /\ f[i] \in Takes => Ahead(f, i + 1) + 1 = Ahead(f, i)
<1> DEFINE A(k) == {j \in k .. Len(f) : f[j] \in Takes}
<1>1. \A k \in Nat \ {0} : IsFiniteSet(A(k))
  <2> SUFFICES ASSUME NEW k \in Nat \ {0} PROVE IsFiniteSet(A(k))
    OBVIOUS
  <2>1. A(k) \in SUBSET (1 .. Len(f))
    OBVIOUS
  <2>2. IsFiniteSet(1 .. Len(f))
    <3>1. Len(f) \in Nat
      OBVIOUS
    <3>2. 1 \in Int /\ \A n \in Nat : n \in Int
      OBVIOUS
    <3> QED BY <3>1, <3>2, FS_Interval, Zenon
  <2> HIDE DEF A
  <2> QED BY <2>1, <2>2, FS_Subset
<1>2. A(i + 1) \in SUBSET A(i) /\ i \notin A(i + 1)
  OBVIOUS
<1>3. i <= Len(f) /\ f[i] \in Takes => A(i) = A(i + 1) \cup {i}
  OBVIOUS
<1>4. Ahead(f, i) = Cardinality(A(i)) /\ Ahead(f, i + 1) = Cardinality(A(i + 1))
  BY DEF Ahead
<1>5. i \in Nat \ {0} /\ i + 1 \in Nat \ {0}
  OBVIOUS
<1> HIDE DEF A
<1>6. Cardinality(A(i)) \in Nat /\ Cardinality(A(i + 1)) \in Nat
  BY <1>1, <1>5, FS_CardinalityType
<1>7. Cardinality(A(i + 1)) <= Cardinality(A(i))
  BY <1>1, <1>2, <1>5, FS_Subset
<1>8. Cardinality(A(i + 1) \cup {i})
        = IF i \in A(i + 1) THEN Cardinality(A(i + 1)) ELSE Cardinality(A(i + 1)) + 1
  BY <1>1, <1>5, FS_AddElement, Zenon
<1> QED BY <1>2, <1>3, <1>4, <1>6, <1>7, <1>8

LEMMA AheadFrom ==
  ASSUME NEW f \in Seq(Character), NEW i \in Nat \ {0}, NEW j \in Nat, i <= j
  PROVE  Ahead(f, j) <= Ahead(f, i) /\ Ahead(f, i) \in Nat /\ Ahead(f, j) \in Nat
<1> DEFINE T == {n \in Nat : Ahead(f, i + n) <= Ahead(f, i) /\ Ahead(f, i + n) \in Nat}
<1>1. 0 \in T
  <2>1. i + 0 = i
    OBVIOUS
  <2>2. Ahead(f, i) \in Nat
    BY AheadShrinks
  <2> QED BY <2>1, <2>2
<1>2. ASSUME NEW n \in Nat, n \in T PROVE n + 1 \in T
  <2>1. i + n \in Nat \ {0} /\ (i + n) + 1 = i + (n + 1) /\ i + (n + 1) \in Nat \ {0}
    OBVIOUS
  <2>2. Ahead(f, i + (n + 1)) <= Ahead(f, i + n) /\ Ahead(f, i + (n + 1)) \in Nat
    BY <2>1, AheadShrinks
  <2>3. Ahead(f, i) \in Nat
    BY AheadShrinks
  <2> QED BY <1>2, <2>2, <2>3
<1>3. j - i \in T
  <2>1. j - i \in Nat
    OBVIOUS
  <2> HIDE DEF T
  <2> QED BY <1>1, <1>2, <2>1, InductionOverNat
<1>4. i + (j - i) = j
  OBVIOUS
<1>5. Ahead(f, i) \in Nat
  BY AheadShrinks
<1> QED BY <1>3, <1>4, <1>5

LEMMA EndIsNul ==
  ASSUME NEW f \in Seq(Character), NEW i \in Nat \ {0}
  PROVE  /\ Pf!At(f, i) = Pf!Nul <=> i > Len(f)
         /\ i <= Len(f) => Pf!At(f, i) = f[i]
<1>1. Len(f) \in Nat /\ Pf!Nul \notin Character /\ \A k \in 1 .. Len(f) : f[k] \in Character
  BY TextAssumption
<1>2. i <= Len(f) => i \in 1 .. Len(f)
  BY <1>1
<1> QED BY <1>1, <1>2 DEF Pf!At

LEMMA PlaceAfterIs ==
  ASSUME NEW f \in Seq(Character), NEW i \in 1 .. Len(f) + 1, NEW S, Pf!Nul \notin S
  PROVE  LET j == Pf!PlaceAfter(f, i, S)
         IN /\ j \in i .. Len(f) + 1 /\ Pf!At(f, j) \notin S
            /\ \A k \in i .. j - 1 : Pf!At(f, k) \in S
<1> DEFINE n == Len(f) + 1
           T == {m \in Nat : i + m <= n /\ Pf!At(f, i + m) \notin S}
           Is(j) == Pf!At(f, j) \notin S /\ \A k \in i .. j - 1 : Pf!At(f, k) \in S
<1>1. n \in Nat /\ i \in Nat
  OBVIOUS
<1>2. n - i \in T
  <2>1. n - i \in Nat /\ i + (n - i) = n /\ n \in Nat \ {0} /\ n > Len(f)
    OBVIOUS
  <2>2. Pf!At(f, n) = Pf!Nul
    BY <2>1, EndIsNul
  <2> QED BY <2>1, <2>2
<1>3. PICK m \in T : \A k \in T : m <= k
  <2>1. T \in SUBSET Nat /\ T # {}
    BY <1>2
  <2> HIDE DEF T
  <2> QED BY <2>1, LeastNumber
<1>4. i + m \in i .. n /\ Is(i + m)
  <2>1. ASSUME NEW k \in i .. (i + m) - 1 PROVE Pf!At(f, k) \in S
    <3>1. k - i \in Nat /\ k - i < m /\ i + (k - i) = k /\ k <= n
      BY <1>1, <1>3
    <3>2. k - i \notin T
      <4>1. m \in Nat /\ k - i \in Int
        BY <3>1
      <4> HIDE DEF T
      <4> QED BY <1>3, <3>1, <4>1
    <3> QED BY <3>1, <3>2
  <2> QED BY <1>1, <1>3, <2>1
<1>5. Pf!PlaceAfter(f, i, S) = CHOOSE j \in i .. n : Is(j)
  BY DEF Pf!PlaceAfter
<1> HIDE DEF Is, n
<1>6. LET j == Pf!PlaceAfter(f, i, S) IN j \in i .. n /\ Is(j)
  BY <1>4, <1>5
<1> QED BY <1>6 DEF Is, n

DirectiveParts == {"at", "used", "flags", "width", "precision", "qualifier"}

\* A directive that began at i, when u arguments were taken, has been read up to r.at.
Stage(f, i, u, r) ==
  /\ r = [part \in DirectiveParts |-> r[part]]
  /\ r.at \in i + 1 .. Len(f) + 1 /\ r.used \in Nat
  /\ r.used + Ahead(f, r.at) <= u + Ahead(f, i)

\* Going on to the place j, with one argument taken if any of those passed may take one.
LEMMA StageOn ==
  ASSUME NEW f \in Seq(Character), NEW i \in 1 .. Len(f), NEW u \in Nat, NEW r, Stage(f, i, u, r),
         NEW j \in r.at .. Len(f) + 1, NEW b \in {0, 1},
         b = 1 => \E k \in r.at .. j - 1 : f[k] \in Takes,
         NEW s, s.at = j, s.used = r.used + b,
         s = [part \in DirectiveParts |-> s[part]]
  PROVE  Stage(f, i, u, s)
<1>1. /\ r.at \in i + 1 .. Len(f) + 1 /\ r.used \in Nat
      /\ r.used + Ahead(f, r.at) <= u + Ahead(f, i)
  BY DEF Stage
<1>2. r.at \in Nat \ {0} /\ j \in Nat \ {0} /\ r.at <= j /\ i \in Nat \ {0} /\ Len(f) \in Nat
  BY <1>1
<1>3. Ahead(f, j) <= Ahead(f, r.at) /\ Ahead(f, r.at) \in Nat /\ Ahead(f, j) \in Nat
  BY <1>2, AheadFrom
<1>4. ASSUME b = 1 PROVE Ahead(f, j) + 1 <= Ahead(f, r.at)
  <2>1. PICK k \in r.at .. j - 1 : f[k] \in Takes
    BY <1>4
  <2>2. k \in Nat \ {0} /\ r.at <= k /\ k + 1 <= j /\ k <= Len(f) /\ k + 1 \in Nat \ {0}
    BY <1>2, <2>1
  <2>3. Ahead(f, k + 1) + 1 = Ahead(f, k)
    BY <2>1, <2>2, AheadShrinks
  <2>4. Ahead(f, k) <= Ahead(f, r.at) /\ Ahead(f, k) \in Nat
    BY <1>2, <2>2, AheadFrom
  <2>5. Ahead(f, j) <= Ahead(f, k + 1) /\ Ahead(f, k + 1) \in Nat
    BY <1>2, <2>2, AheadFrom
  <2> QED BY <1>3, <2>3, <2>4, <2>5
<1>5. Ahead(f, i) \in Nat
  BY <1>2, AheadShrinks
<1>6. s.used + Ahead(f, s.at) <= u + Ahead(f, i) /\ s.used \in Nat
  <2> DEFINE x == Ahead(f, j)
             y == Ahead(f, r.at)
             z == Ahead(f, i)
             v == r.used
  <2>1. x \in Nat /\ y \in Nat /\ z \in Nat /\ v \in Nat /\ x <= y /\ (b = 1 => x + 1 <= y)
        /\ v + y <= u + z
    BY <1>1, <1>3, <1>4, <1>5
  <2>2. s.used = v + b /\ Ahead(f, s.at) = x
    OBVIOUS
  <2>3. b \in {0, 1}
    OBVIOUS
  <2> HIDE DEF x, y, z, v
  <2>4. s.used + Ahead(f, s.at) <= u + z /\ s.used \in Nat
    BY ONLY <2>1, <2>2, <2>3, u \in Nat
  <2> QED BY <2>4 DEF z
<1>7. s.at \in i + 1 .. Len(f) + 1
  BY <1>1, <1>2
<1> QED BY <1>6, <1>7 DEF Stage

LEMMA StageStays ==
  ASSUME NEW f \in Seq(Character), NEW i \in 1 .. Len(f), NEW u \in Nat, NEW r, Stage(f, i, u, r),
         NEW j \in r.at .. Len(f) + 1,
         NEW s, s.at = j, s.used = r.used, s = [part \in DirectiveParts |-> s[part]]
  PROVE  Stage(f, i, u, s)
<1>1. 0 \in {0, 1} /\ ~(0 = 1)
  OBVIOUS
<1>2. s.used = r.used + 0
  BY DEF Stage
<1> QED BY <1>1, <1>2, StageOn, Zenon

LEMMA StageTakes ==
  ASSUME NEW f \in Seq(Character), NEW i \in 1 .. Len(f), NEW u \in Nat, NEW r, Stage(f, i, u, r),
         NEW j \in r.at .. Len(f) + 1, NEW k \in r.at .. j - 1, f[k] \in Takes,
         NEW s, s.at = j, s.used = r.used + 1, s = [part \in DirectiveParts |-> s[part]]
  PROVE  Stage(f, i, u, s)
<1>1. 1 \in {0, 1}
  OBVIOUS
<1> QED BY <1>1, StageOn, Zenon

LEMMA SetsOfCharacters ==
  /\ Pf!Nul \notin DOMAIN Pf!FlagOf
  /\ Pf!Nul \notin Pf!ToSet(Pf!Digit) /\ ~Pf!IsDigit("*")
  /\ Pf!Nul # "*" /\ Pf!Nul # "." /\ Pf!Nul \notin {"h", "l", "L"} /\ "*" \in Takes
  /\ Pf!Nul \notin Takes
<1>1. Pf!Nul \notin Pf!ToSet(Pf!Digit) /\ "*" \notin Pf!ToSet(Pf!Digit)
  <2>1. \A i \in 1 .. 10 : Pf!Digit[i] # "nul" /\ Pf!Digit[i] # "*"
    BY DEF Pf!Digit
  <2>2. Len(Pf!Digit) = 10 /\ DOMAIN Pf!Digit = 1 .. 10
    BY DEF Pf!Digit
  <2> QED BY <2>1, <2>2 DEF Pf!ToSet, Pf!Nul
<1>2. Pf!Nul \notin DOMAIN Pf!FlagOf
  BY DEF Pf!Nul, Pf!FlagOf
<1>3. ~Pf!IsDigit("*")
  BY <1>1 DEF Pf!IsDigit
<1>4. /\ Pf!Nul # "*" /\ Pf!Nul # "." /\ Pf!Nul \notin {"h", "l", "L"} /\ "*" \in Takes
      /\ Pf!Nul \notin Takes
  BY DEF Pf!Nul, Takes, Pf!Converts
<1> QED BY <1>1, <1>2, <1>3, <1>4

Nowhere(i, u) == [at |-> i, used |-> u, flags |-> {}, width |-> -1, precision |-> -1,
                  qualifier |-> "none"]

LEMMA FlagsAreRead ==
  ASSUME NEW f \in Seq(Character), NEW i \in 1 .. Len(f), NEW u \in Nat
  PROVE  Stage(f, i, u, Pf!WithFlags(f, Nowhere(i, u)))
<1> DEFINE n == Nowhere(i, u)
           j == Pf!PlaceAfter(f, n.at + 1, DOMAIN Pf!FlagOf)
           fl == {Pf!FlagOf[f[k]] : k \in n.at + 1 .. j - 1}
           r == [n EXCEPT !.at = j, !.flags = fl]
<1>1. i + 1 \in 1 .. Len(f) + 1
  OBVIOUS
<1>2. j \in i + 1 .. Len(f) + 1
  <2>1. n.at = i
    BY DEF Nowhere
  <2> HIDE DEF n
  <2> QED BY <1>1, <2>1, PlaceAfterIs, SetsOfCharacters
<1>3. Pf!WithFlags(f, n) = r
  BY DEF Pf!WithFlags
<1>4. i \in Nat \ {0} /\ j \in Nat /\ i <= j
  BY <1>2
<1>5. Ahead(f, j) <= Ahead(f, i) /\ Ahead(f, i) \in Nat /\ Ahead(f, j) \in Nat
  BY <1>4, AheadFrom
<1> HIDE DEF j, fl
<1>6. r.at = j /\ r.used = u /\ r = [part \in DirectiveParts |-> r[part]]
  <2>1. n = [part \in DirectiveParts |-> n[part]] /\ n.used = u
    BY DEF Nowhere, DirectiveParts
  <2> HIDE DEF n
  <2> QED BY <2>1 DEF DirectiveParts
<1> HIDE DEF r
<1> QED BY <1>2, <1>3, <1>5, <1>6 DEF Stage

LEMMA DigitsArePassed ==
  ASSUME NEW f \in Seq(Character), NEW i \in 1 .. Len(f) + 1
  PROVE  Pf!skip_atoi(f, i).at \in i .. Len(f) + 1
<1>1. Pf!skip_atoi(f, i).at = Pf!PlaceAfter(f, i, Pf!ToSet(Pf!Digit))
  BY DEF Pf!skip_atoi
<1> QED BY <1>1, PlaceAfterIs, SetsOfCharacters

LEMMA StageIs ==
  ASSUME NEW f \in Seq(Character), NEW i \in 1 .. Len(f), NEW u, NEW r, Stage(f, i, u, r)
  PROVE  /\ r = [part \in DirectiveParts |-> r[part]]
         /\ r.at \in i + 1 .. Len(f) + 1 /\ r.used \in Nat
         /\ r.at \in Nat \ {0} /\ r.at \in 1 .. Len(f) + 1 /\ Len(f) \in Nat
BY DEF Stage

\* A character other than the end is one of the format.
LEMMA CharacterAt ==
  ASSUME NEW f \in Seq(Character), NEW i \in 1 .. Len(f) + 1, Pf!At(f, i) # Pf!Nul
  PROVE  i \in 1 .. Len(f) /\ Pf!At(f, i) = f[i] /\ i + 1 \in 1 .. Len(f) + 1
<1>1. i \in Nat \ {0} /\ Len(f) \in Nat
  OBVIOUS
<1> QED BY <1>1, EndIsNul

\* Each part of a directive goes on in the format and takes arguments only where it may.
LEMMA WidthIsRead ==
  ASSUME NEW f \in Seq(Character), NEW args, NEW i \in 1 .. Len(f), NEW u \in Nat, NEW r,
         Stage(f, i, u, r)
  PROVE  Stage(f, i, u, Pf!WithWidth(f, args, r))
<1> DEFINE s == Pf!WithWidth(f, args, r)
<1>1. /\ r = [part \in DirectiveParts |-> r[part]]
      /\ r.at \in 1 .. Len(f) + 1 /\ r.used \in Nat /\ Len(f) \in Nat
  BY StageIs
<1>2. CASE Pf!IsDigit(Pf!At(f, r.at))
  <2> DEFINE n == Pf!skip_atoi(f, r.at)
  <2>1. s = [r EXCEPT !.at = n.at, !.width = n.value]
    BY <1>2, SetsOfCharacters DEF Pf!WithWidth
  <2>2. n.at \in r.at .. Len(f) + 1
    BY <1>1, DigitsArePassed
  <2> HIDE DEF n, s
  <2>3. s = [part \in DirectiveParts |-> s[part]] /\ s.at = n.at /\ s.used = r.used
    BY <1>1, <2>1 DEF DirectiveParts
  <2>9. Stage(f, i, u, s)
    BY <2>2, <2>3, StageStays
  <2> QED BY <2>9 DEF s
<1>3. CASE ~Pf!IsDigit(Pf!At(f, r.at)) /\ Pf!At(f, r.at) = "*"
  <2> DEFINE n == Pf!Argument(args, r.used)
  <2>1. s = Pf!FromStar(r, n)
    BY <1>3 DEF Pf!WithWidth
  <2> HIDE DEF n, s
  <2>2. s = [part \in DirectiveParts |-> s[part]] /\ s.at = r.at + 1 /\ s.used = r.used + 1
    <3>1. s = [r EXCEPT !.at = @ + 1, !.used = @ + 1, !.width = IF n < 0 THEN -n ELSE n,
                        !.flags = IF n < 0 THEN @ \cup {"LEFT"} ELSE @]
      BY <2>1 DEF Pf!FromStar
    <3> QED BY <1>1, <3>1 DEF DirectiveParts
  <2>3. r.at \in 1 .. Len(f) /\ f[r.at] = "*"
    BY <1>1, <1>3, CharacterAt, SetsOfCharacters
  <2>4. r.at + 1 \in r.at .. Len(f) + 1 /\ r.at \in r.at .. (r.at + 1) - 1
    BY <2>3
  <2>5. f[r.at] \in Takes
    BY <2>3, SetsOfCharacters
  <2>9. Stage(f, i, u, s)
    BY <2>2, <2>4, <2>5, StageTakes
  <2> QED BY <2>9 DEF s
<1>4. CASE ~Pf!IsDigit(Pf!At(f, r.at)) /\ Pf!At(f, r.at) # "*"
  BY <1>4 DEF Pf!WithWidth
<1> QED BY <1>2, <1>3, <1>4

LEMMA PrecisionIsRead ==
  ASSUME NEW f \in Seq(Character), NEW args, NEW i \in 1 .. Len(f), NEW u \in Nat, NEW r,
         Stage(f, i, u, r)
  PROVE  Stage(f, i, u, Pf!WithPrecision(f, args, r))
<1> DEFINE s == Pf!WithPrecision(f, args, r)
           given == Pf!Argument(args, r.used)
<1>1. /\ r = [part \in DirectiveParts |-> r[part]]
      /\ r.at \in 1 .. Len(f) + 1 /\ r.used \in Nat /\ Len(f) \in Nat
  BY StageIs
<1>2. CASE Pf!At(f, r.at) # "."
  BY <1>2 DEF Pf!WithPrecision
<1>3. CASE Pf!At(f, r.at) = "."
  <2>1. r.at \in 1 .. Len(f) /\ r.at + 1 \in 1 .. Len(f) + 1 /\ r.at + 1 \in r.at .. Len(f) + 1
    <3>1. r.at \in 1 .. Len(f) /\ r.at + 1 \in 1 .. Len(f) + 1
      BY <1>1, <1>3, CharacterAt, SetsOfCharacters
    <3> QED BY <3>1
  <2>2. CASE Pf!IsDigit(Pf!At(f, r.at + 1))
    <3> DEFINE n == Pf!skip_atoi(f, r.at + 1)
    <3>1. s = [r EXCEPT !.at = n.at, !.precision = n.value]
      BY <1>3, <2>2, SetsOfCharacters DEF Pf!WithPrecision
    <3>2. n.at \in r.at + 1 .. Len(f) + 1
      BY <2>1, DigitsArePassed
    <3>3. n.at \in r.at .. Len(f) + 1
      BY <1>1, <3>2
    <3> HIDE DEF n, s
    <3>4. s = [part \in DirectiveParts |-> s[part]] /\ s.at = n.at /\ s.used = r.used
      BY <1>1, <3>1 DEF DirectiveParts
    <3>9. Stage(f, i, u, s)
      BY <3>3, <3>4, StageStays
    <3> QED BY <3>9 DEF s
  <2>3. CASE ~Pf!IsDigit(Pf!At(f, r.at + 1)) /\ Pf!At(f, r.at + 1) = "*"
    <3>1. s = [r EXCEPT !.at = @ + 2, !.used = @ + 1, !.precision = IF given < 0 THEN 0 ELSE given]
      BY <1>3, <2>3 DEF Pf!WithPrecision
    <3> HIDE DEF s, given
    <3>2. s = [part \in DirectiveParts |-> s[part]] /\ s.at = r.at + 2 /\ s.used = r.used + 1
      BY <1>1, <3>1 DEF DirectiveParts
    <3>3. r.at + 1 \in 1 .. Len(f) /\ f[r.at + 1] = "*"
      BY <2>1, <2>3, CharacterAt, SetsOfCharacters
    <3>4. r.at + 2 \in r.at .. Len(f) + 1 /\ r.at + 1 \in r.at .. (r.at + 2) - 1
      BY <2>1, <3>3
    <3>5. f[r.at + 1] \in Takes
      BY <3>3, SetsOfCharacters
    <3>9. Stage(f, i, u, s)
      BY <3>2, <3>4, <3>5, StageTakes
    <3> QED BY <3>9 DEF s
  <2>4. CASE ~Pf!IsDigit(Pf!At(f, r.at + 1)) /\ Pf!At(f, r.at + 1) # "*"
    <3>1. s = [r EXCEPT !.at = @ + 1, !.precision = 0]
      BY <1>3, <2>4 DEF Pf!WithPrecision
    <3> HIDE DEF s
    <3>2. s = [part \in DirectiveParts |-> s[part]] /\ s.at = r.at + 1 /\ s.used = r.used
      BY <1>1, <3>1 DEF DirectiveParts
    <3>9. Stage(f, i, u, s)
      BY <2>1, <3>2, StageStays
    <3> QED BY <3>9 DEF s
  <2> QED BY <2>2, <2>3, <2>4
<1> QED BY <1>2, <1>3

LEMMA QualifierIsRead ==
  ASSUME NEW f \in Seq(Character), NEW i \in 1 .. Len(f), NEW u \in Nat, NEW r, Stage(f, i, u, r)
  PROVE  Stage(f, i, u, Pf!WithQualifier(f, r))
<1> DEFINE s == Pf!WithQualifier(f, r)
<1>1. /\ r = [part \in DirectiveParts |-> r[part]]
      /\ r.at \in 1 .. Len(f) + 1 /\ r.used \in Nat /\ Len(f) \in Nat
  BY StageIs
<1>2. CASE Pf!At(f, r.at) \notin {"h", "l", "L"}
  BY <1>2 DEF Pf!WithQualifier
<1>3. CASE Pf!At(f, r.at) \in {"h", "l", "L"}
  <2>1. r.at \in 1 .. Len(f)
    BY <1>1, <1>3, CharacterAt, SetsOfCharacters
  <2>2. s = [r EXCEPT !.at = @ + 1, !.qualifier = f[r.at]]
    BY <1>3 DEF Pf!WithQualifier
  <2> HIDE DEF s
  <2>3. s = [part \in DirectiveParts |-> s[part]] /\ s.at = r.at + 1 /\ s.used = r.used
    BY <1>1, <2>2 DEF DirectiveParts
  <2>4. r.at + 1 \in r.at .. Len(f) + 1
    BY <1>1, <2>1
  <2>9. Stage(f, i, u, s)
    BY <2>3, <2>4, StageStays
  <2> QED BY <2>9 DEF s
<1> QED BY <1>2, <1>3

LEMMA DirectiveIsRead ==
  ASSUME NEW f \in Seq(Character), NEW args, NEW i \in 1 .. Len(f), NEW u \in Nat
  PROVE  Stage(f, i, u, Pf!Directive(f, args, i, u))
<1>1. Pf!Directive(f, args, i, u)
        = Pf!WithQualifier(f, Pf!WithPrecision(f, args, Pf!WithWidth(f, args,
            Pf!WithFlags(f, Nowhere(i, u)))))
  BY DEF Pf!Directive, Nowhere
<1> QED BY <1>1, FlagsAreRead, WidthIsRead, PrecisionIsRead, QualifierIsRead

\* What is printed from i on when u arguments were taken, with g for what comes after it.
From(f, args, g, i, u) ==
  IF Pf!At(f, i) = Pf!Nul THEN [text |-> <<>>, at |-> i, used |-> u]
  ELSE IF f[i] # "%"
  THEN [g[i + 1][u] EXCEPT !.text = <<f[i]>> \o @]
  ELSE LET r == Pf!Directive(f, args, i, u)
           c == Pf!At(f, r.at)
       IN [g[Pf!After(f, r)][r.used + (IF c \in Pf!Converts THEN 1 ELSE 0)] EXCEPT
             !.text = Pf!Converted(r, c, Pf!Argument(args, r.used)) \o @]

AllFrom(f, args, g, i) == [u \in Nat |-> From(f, args, g, i, u)]

LEMMA DirectiveEnds ==
  ASSUME NEW f \in Seq(Character), NEW args, NEW i \in 1 .. Len(f), NEW u \in Nat
  PROVE  LET r == Pf!Directive(f, args, i, u)
             v == r.used + (IF Pf!At(f, r.at) \in Pf!Converts THEN 1 ELSE 0)
         IN /\ Pf!After(f, r) \in i + 1 .. Len(f) + 1 /\ v \in Nat
            /\ v + Ahead(f, Pf!After(f, r)) <= u + Ahead(f, i)
<1> DEFINE r == Pf!Directive(f, args, i, u)
           v == r.used + (IF Pf!At(f, r.at) \in Pf!Converts THEN 1 ELSE 0)
           j == Pf!After(f, r)
<1>1. Stage(f, i, u, r)
  BY DirectiveIsRead
<1> HIDE DEF r
<1>2. /\ r.at \in i + 1 .. Len(f) + 1 /\ r.used \in Nat
      /\ r.used + Ahead(f, r.at) <= u + Ahead(f, i)
      /\ r.at \in Nat \ {0} /\ r.at \in 1 .. Len(f) + 1 /\ Len(f) \in Nat
  BY <1>1 DEF Stage
<1> DEFINE Goal == j \in i + 1 .. Len(f) + 1 /\ v \in Nat /\ v + Ahead(f, j) <= u + Ahead(f, i)
<1>3. ASSUME Pf!At(f, r.at) = Pf!Nul PROVE Goal
  <2>1. j = r.at
    BY <1>3 DEF Pf!After
  <2>2. v = r.used
    BY <1>2, <1>3, SetsOfCharacters DEF Takes
  <2> HIDE DEF j, v
  <2> QED BY <1>2, <2>1, <2>2
<1>4. ASSUME Pf!At(f, r.at) # Pf!Nul PROVE Goal
  <2>1. j = r.at + 1
    BY <1>4 DEF Pf!After
  <2>2. r.at \in 1 .. Len(f) /\ Pf!At(f, r.at) = f[r.at] /\ r.at + 1 \in Nat \ {0}
    BY <1>2, <1>4, CharacterAt
  <2>3. /\ Ahead(f, j) <= Ahead(f, r.at) /\ Ahead(f, r.at) \in Nat /\ Ahead(f, j) \in Nat
        /\ (f[r.at] \in Takes => Ahead(f, j) + 1 = Ahead(f, r.at))
    <3> HIDE DEF j
    <3>1. /\ Ahead(f, r.at) \in Nat /\ Ahead(f, r.at + 1) <= Ahead(f, r.at)
          /\ r.at <= Len(f) /\ f[r.at] \in Takes => Ahead(f, r.at + 1) + 1 = Ahead(f, r.at)
      BY <1>2, AheadShrinks
    <3>2. Ahead(f, r.at + 1) \in Nat
      BY <2>2, AheadShrinks
    <3>3. r.at <= Len(f)
      BY <2>2
    <3> QED BY <2>1, <3>1, <3>2, <3>3
  <2>4. Ahead(f, i) \in Nat
    BY AheadShrinks
  <2> DEFINE x == Ahead(f, j)
             y == Ahead(f, r.at)
             z == Ahead(f, i)
  <2>5. v + x <= u + z /\ v \in Nat
    <3>1. CASE f[r.at] \in Pf!Converts
      <4>1. v = r.used + 1 /\ f[r.at] \in Takes
        BY <2>2, <3>1 DEF Takes
      <4>2. x + 1 = y /\ x \in Nat /\ y \in Nat /\ z \in Nat /\ r.used \in Nat
            /\ r.used + y <= u + z /\ u \in Nat
        BY <1>2, <2>3, <2>4, <4>1
      <4> HIDE DEF v, x, y, z
      <4> QED BY ONLY <4>1, <4>2
    <3>2. CASE f[r.at] \notin Pf!Converts
      <4>1. v = r.used + 0
        BY <2>2, <3>2
      <4>2. x <= y /\ x \in Nat /\ y \in Nat /\ z \in Nat /\ r.used \in Nat
            /\ r.used + y <= u + z /\ u \in Nat
        BY <1>2, <2>3, <2>4
      <4> HIDE DEF v, x, y, z
      <4> QED BY ONLY <4>1, <4>2
    <3> QED BY <3>1, <3>2
  <2>6. j \in i + 1 .. Len(f) + 1
    BY <1>2, <2>1, <2>2
  <2> HIDE DEF j, v
  <2> QED BY <2>5, <2>6
<1>5. Goal
  <2> HIDE DEF Goal
  <2> QED BY <1>3, <1>4
<1> QED BY <1>5 DEF r

\* What is printed from i on depends only on what comes after it.
LEMMA FromDepends ==
  ASSUME NEW f \in Seq(Character), NEW args, NEW g, NEW h, NEW i \in Nat \ {0},
         i <= Len(f) => \A j \in Nat \ {0} : j > i => g[j] = h[j]
  PROVE  AllFrom(f, args, g, i) = AllFrom(f, args, h, i)
<1>1. ASSUME NEW u \in Nat PROVE From(f, args, g, i, u) = From(f, args, h, i, u)
  <2>1. CASE Pf!At(f, i) = Pf!Nul
    BY <2>1 DEF From
  <2>2. CASE Pf!At(f, i) # Pf!Nul
    <3>1. i \in 1 .. Len(f) /\ Len(f) \in Nat
      BY <2>2, EndIsNul
    <3>2. g[i + 1] = h[i + 1]
      BY <3>1
    <3> DEFINE r == Pf!Directive(f, args, i, u)
    <3>3. Pf!After(f, r) \in i + 1 .. Len(f) + 1
      BY <3>1, DirectiveEnds
    <3>4. g[Pf!After(f, r)] = h[Pf!After(f, r)]
      <4> HIDE DEF r
      <4> QED BY <3>1, <3>3
    <3> QED BY <2>2, <3>2, <3>4, Zenon DEF From
  <2> QED BY <2>1, <2>2
<1> QED BY <1>1 DEF AllFrom

PrintingFrom(f, args, g) == g = [i \in Nat \ {0} |-> AllFrom(f, args, g, i)]

\* The recursive function of Printed exists: it is built from the end of the format to its beginning.
LEMMA LoopExists ==
  ASSUME NEW f \in Seq(Character), NEW args PROVE \E g : PrintingFrom(f, args, g)
<1> DEFINE n == Len(f)
           N1 == Nat \ {0}
           T == {m \in Nat : \E g : /\ g = [i \in N1 |-> g[i]]
                                    /\ \A i \in N1 : i + m > n => g[i] = AllFrom(f, args, g, i)}
<1>1. n \in Nat
  OBVIOUS
<1>2. 0 \in T
  <2> DEFINE g == [i \in N1 |-> AllFrom(f, args, <<>>, i)]
  <2>1. ASSUME NEW i \in N1, i + 0 > n PROVE g[i] = AllFrom(f, args, g, i)
    <3>1. ~(i <= n)
      BY <1>1, <2>1
    <3>2. g[i] = AllFrom(f, args, <<>>, i)
      OBVIOUS
    <3> HIDE DEF g
    <3>3. AllFrom(f, args, <<>>, i) = AllFrom(f, args, g, i)
      BY <3>1, FromDepends
    <3> QED BY <3>2, <3>3
  <2>2. g = [i \in N1 |-> g[i]]
    OBVIOUS
  <2> HIDE DEF g
  <2> QED BY <2>1, <2>2
<1>3. ASSUME NEW m \in Nat, m \in T PROVE m + 1 \in T
  <2>1. PICK g : /\ g = [i \in N1 |-> g[i]]
                 /\ \A i \in N1 : i + m > n => g[i] = AllFrom(f, args, g, i)
    BY <1>3
  <2> DEFINE h == [i \in N1 |-> IF i + m > n THEN g[i] ELSE AllFrom(f, args, g, i)]
  <2>2. ASSUME NEW i \in N1, i + (m + 1) > n PROVE h[i] = AllFrom(f, args, h, i)
    <3>1. h[i] = AllFrom(f, args, g, i)
      BY <2>1
    <3>2. ASSUME NEW j \in N1, j > i PROVE g[j] = h[j]
      <4>1. j + m > n
        BY <1>1, <2>2, <3>2
      <4> QED BY <4>1
    <3> HIDE DEF h
    <3>3. AllFrom(f, args, g, i) = AllFrom(f, args, h, i)
      BY <3>2, FromDepends
    <3> QED BY <3>1, <3>3
  <2>3. h = [i \in N1 |-> h[i]]
    OBVIOUS
  <2> HIDE DEF h
  <2> QED BY <2>2, <2>3
<1>4. n \in T
  <2> HIDE DEF T, n
  <2> QED BY <1>1, <1>2, <1>3, InductionOverNat
<1>5. PICK g : /\ g = [i \in N1 |-> g[i]]
               /\ \A i \in N1 : i + n > n => g[i] = AllFrom(f, args, g, i)
  BY <1>4
<1>6. \A i \in N1 : i + n > n
  BY <1>1
<1>7. g = [i \in N1 |-> AllFrom(f, args, g, i)]
  <2>1. \A i \in N1 : g[i] = AllFrom(f, args, g, i)
    BY <1>5, <1>6
  <2> QED BY <1>5, <2>1
<1> QED BY <1>7 DEF PrintingFrom

\* From i on, everything is printed, and no argument taken without need.
Ends(f, i, g) ==
  \A u \in Nat : \E t, v : /\ g[i][u] = [text |-> t, at |-> Len(f) + 1, used |-> v]
                           /\ v \in Nat /\ v <= u + Ahead(f, i)

LEMMA TextPut ==
  ASSUME NEW q, NEW t, NEW a, NEW v, NEW x, q = [text |-> t, at |-> a, used |-> v]
  PROVE  [q EXCEPT !.text = x] = [text |-> x, at |-> a, used |-> v]
OBVIOUS

LEMMA EndsBefore ==
  ASSUME NEW f \in Seq(Character), NEW args, NEW g, PrintingFrom(f, args, g), NEW i \in 1 .. Len(f) + 1,
         \A j \in i + 1 .. Len(f) + 1 : Ends(f, j, g)
  PROVE  Ends(f, i, g)
<1> SUFFICES ASSUME NEW u \in Nat
             PROVE  \E t, v : /\ g[i][u] = [text |-> t, at |-> Len(f) + 1, used |-> v]
                              /\ v \in Nat /\ v <= u + Ahead(f, i)
  BY DEF Ends
<1>1. i \in Nat \ {0} /\ Len(f) \in Nat
  OBVIOUS
<1>2. g[i][u] = From(f, args, g, i, u)
  <2>1. g[i] = AllFrom(f, args, g, i)
    BY <1>1 DEF PrintingFrom
  <2> QED BY <2>1 DEF AllFrom
<1>3. Ahead(f, i) \in Nat
  BY <1>1, AheadShrinks
<1>4. CASE Pf!At(f, i) = Pf!Nul
  <2>1. i = Len(f) + 1
    BY <1>1, <1>4, EndIsNul
  <2>2. From(f, args, g, i, u) = [text |-> <<>>, at |-> i, used |-> u]
    BY <1>4 DEF From
  <2>3. u <= u + Ahead(f, i)
    BY <1>3
  <2> QED BY <1>2, <2>1, <2>2, <2>3
<1>5. CASE Pf!At(f, i) # Pf!Nul /\ f[i] # "%"
  <2>1. i + 1 \in i + 1 .. Len(f) + 1
    BY <1>1, <1>5, EndIsNul
  <2>2. PICK t, v : /\ g[i + 1][u] = [text |-> t, at |-> Len(f) + 1, used |-> v]
                    /\ v \in Nat /\ v <= u + Ahead(f, i + 1)
    BY <2>1 DEF Ends
  <2>3. From(f, args, g, i, u) = [g[i + 1][u] EXCEPT !.text = <<f[i]>> \o @]
    BY <1>5 DEF From
  <2> DEFINE q == g[i + 1][u]
             x == <<f[i]>> \o q.text
  <2>4. From(f, args, g, i, u) = [text |-> x, at |-> Len(f) + 1, used |-> v]
    <3>1. From(f, args, g, i, u) = [q EXCEPT !.text = x]
      BY <2>3
    <3> HIDE DEF q, x
    <3>2. [q EXCEPT !.text = x] = [text |-> x, at |-> Len(f) + 1, used |-> v]
      BY <2>2, TextPut DEF q
    <3> QED BY <3>1, <3>2
  <2>5. v <= u + Ahead(f, i)
    <3>1. Ahead(f, i + 1) <= Ahead(f, i)
      BY <1>1, AheadShrinks
    <3>2. i + 1 \in Nat \ {0}
      BY <1>1
    <3>3. Ahead(f, i + 1) \in Nat
      BY <3>2, AheadShrinks
    <3> QED BY <1>3, <2>2, <3>1, <3>3
  <2> HIDE DEF x
  <2> QED BY <1>2, <2>2, <2>4, <2>5
<1>6. CASE Pf!At(f, i) # Pf!Nul /\ f[i] = "%"
  <2> DEFINE r == Pf!Directive(f, args, i, u)
             c == Pf!At(f, r.at)
             w == r.used + (IF c \in Pf!Converts THEN 1 ELSE 0)
             j == Pf!After(f, r)
             y == Pf!Converted(r, c, Pf!Argument(args, r.used))
  <2>1. i \in 1 .. Len(f)
    BY <1>1, <1>6, EndIsNul
  <2>2. j \in i + 1 .. Len(f) + 1 /\ w \in Nat /\ w + Ahead(f, j) <= u + Ahead(f, i)
    BY <2>1, DirectiveEnds
  <2>3. From(f, args, g, i, u) = [g[j][w] EXCEPT !.text = y \o @]
    BY <1>6 DEF From
  <2> DEFINE q == g[j][w]
             x == y \o q.text
  <2>8. From(f, args, g, i, u) = [q EXCEPT !.text = x]
    BY <2>3
  <2> HIDE DEF r, c, w, j, y
  <2>4. PICK t, v : /\ g[j][w] = [text |-> t, at |-> Len(f) + 1, used |-> v]
                    /\ v \in Nat /\ v <= w + Ahead(f, j)
    BY <2>2 DEF Ends
  <2>5. From(f, args, g, i, u) = [text |-> x, at |-> Len(f) + 1, used |-> v]
    <3> HIDE DEF q, x
    <3>2. [q EXCEPT !.text = x] = [text |-> x, at |-> Len(f) + 1, used |-> v]
      BY <2>4, TextPut DEF q
    <3> QED BY <2>8, <3>2
  <2>6. Ahead(f, j) \in Nat
    <3>1. j \in Nat \ {0}
      BY <2>2
    <3> QED BY <3>1, AheadShrinks
  <2>7. v <= u + Ahead(f, i)
    BY <1>3, <2>2, <2>4, <2>6
  <2> HIDE DEF x
  <2> QED BY <1>2, <2>4, <2>5, <2>7
<1> QED BY <1>4, <1>5, <1>6

\* Whatever the format, the loop ends at its end, and takes no more arguments than there are
\* characters that may take one (util_printf.c:291).
LEMMA FormatEndsAtNulHolds ==
  ASSUME NEW f \in Seq(Character), NEW args PROVE Pf!FormatEndsAtNul(f, args)
<1> DEFINE g == CHOOSE h : PrintingFrom(f, args, h)
           n == Len(f)
<1>1. PrintingFrom(f, args, g)
  BY LoopExists
<1>2. Pf!Debug_Vsprintf(f, args) = g[1][0]
  BY DEF Pf!Debug_Vsprintf, Pf!Printed, PrintingFrom, AllFrom, From
<1> HIDE DEF g
<1> DEFINE T == {m \in Nat : \A i \in 1 .. n + 1 : i + m > n => Ends(f, i, g)}
<1>3. n \in Nat
  OBVIOUS
<1>4. 0 \in T
  <2> SUFFICES ASSUME NEW i \in 1 .. n + 1, i + 0 > n PROVE Ends(f, i, g)
    OBVIOUS
  <2>1. \A j \in i + 1 .. n + 1 : FALSE
    BY <1>3
  <2> QED BY <1>1, <2>1, EndsBefore
<1>5. ASSUME NEW m \in Nat, m \in T PROVE m + 1 \in T
  <2> SUFFICES ASSUME NEW i \in 1 .. n + 1, i + (m + 1) > n PROVE Ends(f, i, g)
    OBVIOUS
  <2>1. \A j \in i + 1 .. n + 1 : j \in 1 .. n + 1 /\ j + m > n
    BY <1>3
  <2>2. \A j \in i + 1 .. n + 1 : Ends(f, j, g)
    BY <1>5, <2>1
  <2> QED BY <1>1, <2>2, EndsBefore
<1>6. n \in T
  <2> HIDE DEF T, n
  <2> QED BY <1>3, <1>4, <1>5, InductionOverNat
<1>7. Ends(f, 1, g)
  <2>1. 1 \in 1 .. n + 1 /\ 1 + n > n
    BY <1>3
  <2> QED BY <1>6, <2>1
<1>8. PICK t, v : /\ g[1][0] = [text |-> t, at |-> n + 1, used |-> v]
                  /\ v \in Nat /\ v <= 0 + Ahead(f, 1)
  BY <1>7 DEF Ends
<1>9. DOMAIN f = 1 .. n /\ Ahead(f, 1) \in Nat
  BY AheadShrinks
<1>10. Ahead(f, 1) = Cardinality({i \in DOMAIN f : f[i] \in Pf!Converts \cup {"*"}})
  BY <1>9 DEF Ahead, Takes
<1>11. v <= Ahead(f, 1)
  BY <1>8, <1>9
<1> QED BY <1>2, <1>8, <1>10, <1>11 DEF Pf!FormatEndsAtNul, Pf!Cardinality, Cardinality

-----------------------------------------------------------------------------
(* Quotients                                                                 *)

\* Division and remainder are determined.
LEMMA OneDivision ==
  ASSUME NEW d \in Nat \ {0}, NEW q \in Nat, NEW p \in Nat,
         NEW r \in 0 .. d - 1, NEW s \in 0 .. d - 1, d * q + r = d * p + s
  PROVE  q = p
<1>1. d * q \in Nat /\ d * p \in Nat /\ d \in Nat
  OBVIOUS
<1>2. ASSUME q < p PROVE FALSE
  <2>1. d * q + d <= d * p
    BY <1>1, <1>2, NextMultiple
  <2> QED BY <1>1, <2>1
<1>3. ASSUME p < q PROVE FALSE
  <2>1. d * p + d <= d * q
    BY <1>1, <1>3, NextMultiple
  <2> QED BY <1>1, <2>1
<1> QED BY <1>2, <1>3

LEMMA QuotientOf ==
  ASSUME NEW d \in Nat \ {0}, NEW q \in Nat, NEW r \in 0 .. d - 1
  PROVE  (d * q + r) \div d = q
<1> DEFINE n == d * q + r
<1>1. n \in Nat
  <2>1. d * q \in Nat
    OBVIOUS
  <2> QED BY <2>1
<1>2. n \div d \in Nat /\ n % d \in 0 .. d - 1 /\ n = d * (n \div d) + (n % d)
  <2> HIDE DEF n
  <2> QED BY <1>1, Division
<1> QED BY <1>2, OneDivision

\* Dividing by the base and then by one of its powers.
LEMMA TwoDivisions ==
  ASSUME NEW n \in Nat, NEW b \in {8, 10, 16}, NEW p \in Nat \ {0}
  PROVE  (n \div b) \div p = n \div (b * p)
<1> DEFINE m == n \div b
           s == n % b
           q == m \div p
           r == m % p
<1>1. m \in Nat /\ s \in 0 .. b - 1 /\ n = b * m + s
  OBVIOUS
<1> HIDE DEF m, s
<1>2. q \in Nat /\ r \in 0 .. p - 1 /\ m = p * q + r
  BY <1>1, Division
<1> HIDE DEF q, r
<1> DEFINE d == b * p
           t == b * r + s
<1>3. d \in Nat \ {0} /\ t \in 0 .. d - 1
  BY <1>1, <1>2
<1>4. n = d * q + t
  <2> DEFINE z == p * q
  <2>1. b * z = d * q
    BY <1>2
  <2>2. z \in Nat
    BY <1>2
  <2>3. m = z + r
    BY <1>2
  <2> HIDE DEF z, d
  <2>4. n = b * z + t
    BY <1>1, <1>2, <2>2, <2>3
  <2> QED BY <2>1, <2>4
<1> HIDE DEF d, t
<1>5. (d * q + t) \div d = q
  BY <1>2, <1>3, QuotientOf
<1> QED BY <1>4, <1>5 DEF q, m, d

-----------------------------------------------------------------------------
(* util_printf.c: the digits of a number *)

Powers(w, b, n) == w[0] = 1 /\ \A i \in 1 .. n : w[i] = b * w[i - 1]

\* The powers of b up to the n-th.
LEMMA PowersExist ==
  ASSUME NEW b \in Nat \ {0}, NEW n \in Nat
  PROVE  \E w \in [0 .. n -> Nat \ {0}] : Powers(w, b, n) /\ Pf!Power(b, n) = w[n]
<1> DEFINE step == [i \in Nat |-> [v \in Nat \ {0} |-> b * v]]
           Is(f) == f = [i \in 0 .. n |-> IF i = 0 THEN 1 ELSE b * f[i - 1]]
           f == CHOOSE h : Is(h)
<1>1. step \in [Nat -> [Nat \ {0} -> Nat \ {0}]]
  <2>1. \A v \in Nat \ {0} : b * v \in Nat \ {0}
    OBVIOUS
  <2> QED BY <2>1
<1>2. PICK g \in [0 .. n -> Nat \ {0}] : Recursion(g, n, 1, step)
  <2>1. 1 \in Nat \ {0}
    OBVIOUS
  <2> HIDE DEF step
  <2> QED BY <1>1, <2>1, RecursionExists
<1>3. Is(g)
  <2>1. ASSUME NEW i \in 0 .. n PROVE g[i] = IF i = 0 THEN 1 ELSE b * g[i - 1]
    <3>1. CASE i = 0
      BY <1>2, <3>1 DEF Recursion
    <3>2. CASE i # 0
      <4>1. i \in 1 .. n /\ i - 1 \in 0 .. n /\ i \in Nat
        BY <3>2
      <4>2. g[i] = step[i][g[i - 1]]
        BY <1>2, <4>1 DEF Recursion
      <4> QED BY <3>2, <4>1, <4>2
    <3> QED BY <3>1, <3>2
  <2> QED BY <1>2, <2>1
<1>4. Is(f)
  <2> HIDE DEF Is
  <2> QED BY <1>3
<1>5. Pf!Power(b, n) = f[n]
  BY DEF Pf!Power
<1> HIDE DEF f
<1>6. f[0] = 1 /\ \A i \in 1 .. n : f[i] = b * f[i - 1]
  <2>1. 0 \in 0 .. n /\ \A i \in 1 .. n : i \in 0 .. n /\ i # 0
    OBVIOUS
  <2> QED BY <1>4, <2>1
<1> DEFINE T == {i \in Nat : i <= n => f[i] \in Nat \ {0}}
<1>7. 0 \in T
  BY <1>6
<1>8. ASSUME NEW i \in Nat, i \in T PROVE i + 1 \in T
  <2> SUFFICES ASSUME i + 1 <= n PROVE f[i + 1] \in Nat \ {0}
    OBVIOUS
  <2>1. i + 1 \in 1 .. n /\ (i + 1) - 1 = i /\ f[i] \in Nat \ {0}
    BY <1>8
  <2>2. f[i + 1] = b * f[i]
    BY <1>6, <2>1
  <2>3. \A v \in Nat \ {0} : b * v \in Nat \ {0}
    OBVIOUS
  <2> QED BY <2>1, <2>2, <2>3
<1>9. Nat \subseteq T
  <2> HIDE DEF T
  <2> QED BY <1>7, <1>8, InductionOverNat
<1>10. \A i \in 0 .. n : f[i] \in Nat \ {0}
  BY <1>9
<1>11. f \in [0 .. n -> Nat \ {0}]
  <2>1. f = [i \in 0 .. n |-> f[i]]
    BY <1>4
  <2> QED BY <1>10, <2>1
<1> HIDE DEF Is
<1> QED BY <1>5, <1>6, <1>11 DEF Powers

LEMMA PowerIs ==
  ASSUME NEW b \in Nat \ {0}, NEW n \in Nat
  PROVE  /\ Pf!Power(b, 0) = 1 /\ Pf!Power(b, n) \in Nat \ {0}
         /\ Pf!Power(b, n + 1) = b * Pf!Power(b, n)
<1>1. PICK z \in [0 .. 0 -> Nat \ {0}] : Powers(z, b, 0) /\ Pf!Power(b, 0) = z[0]
  <2>1. 0 \in Nat
    OBVIOUS
  <2> QED BY <2>1, PowersExist
<1>2. PICK v \in [0 .. n -> Nat \ {0}] : Powers(v, b, n) /\ Pf!Power(b, n) = v[n]
  BY PowersExist
<1>3. PICK w \in [0 .. n + 1 -> Nat \ {0}] : Powers(w, b, n + 1) /\ Pf!Power(b, n + 1) = w[n + 1]
  <2>1. n + 1 \in Nat
    OBVIOUS
  <2> QED BY <2>1, PowersExist
<1> DEFINE T == {k \in Nat : k <= n => w[k] = v[k]}
<1>4. 0 \in T
  BY <1>2, <1>3 DEF Powers
<1>5. ASSUME NEW k \in Nat, k \in T PROVE k + 1 \in T
  <2> SUFFICES ASSUME k + 1 <= n PROVE w[k + 1] = v[k + 1]
    OBVIOUS
  <2>1. k + 1 \in 1 .. n /\ k + 1 \in 1 .. n + 1 /\ w[k] = v[k] /\ (k + 1) - 1 = k
    BY <1>5
  <2>2. w[k + 1] = b * w[k] /\ v[k + 1] = b * v[k]
    BY <1>2, <1>3, <2>1 DEF Powers
  <2> QED BY <2>1, <2>2
<1>6. n \in T
  <2> HIDE DEF T
  <2> QED BY <1>4, <1>5, InductionOverNat
<1>7. n + 1 \in 1 .. n + 1 /\ (n + 1) - 1 = n
  OBVIOUS
<1>8. w[n + 1] = b * w[n]
  BY <1>3, <1>7 DEF Powers
<1>9. v[n] \in Nat \ {0} /\ z[0] = 1
  <2>1. n \in 0 .. n
    OBVIOUS
  <2> QED BY <1>1, <2>1 DEF Powers
<1> QED BY <1>1, <1>2, <1>3, <1>6, <1>8, <1>9

\* A number is below a power of the base with one place more than it.
LEMMA PowerGrows ==
  ASSUME NEW b \in Nat \ {0}, NEW k \in Nat, NEW n \in Nat, k <= n
  PROVE  Pf!Power(b, k) <= Pf!Power(b, n)
<1> DEFINE T == {m \in Nat : Pf!Power(b, k) <= Pf!Power(b, k + m)}
<1>1. 0 \in T
  <2>1. k + 0 = k /\ Pf!Power(b, k) \in Nat
    BY PowerIs
  <2> QED BY <2>1
<1>2. ASSUME NEW m \in Nat, m \in T PROVE m + 1 \in T
  <2>1. k + m \in Nat /\ (k + m) + 1 = k + (m + 1)
    OBVIOUS
  <2> DEFINE x == Pf!Power(b, k)
             y == Pf!Power(b, k + m)
             z == Pf!Power(b, k + (m + 1))
  <2>2. x \in Nat /\ y \in Nat /\ z = b * y /\ x <= y
    BY <1>2, <2>1, PowerIs
  <2> HIDE DEF x, y, z
  <2>3. y <= b * y /\ b * y \in Nat
    BY <2>2
  <2>4. x <= z
    BY <2>2, <2>3
  <2> QED BY <2>4 DEF x, z
<1>3. n - k \in T
  <2>1. n - k \in Nat
    OBVIOUS
  <2> HIDE DEF T
  <2> QED BY <1>1, <1>2, <2>1, InductionOverNat
<1>4. k + (n - k) = n
  OBVIOUS
<1> QED BY <1>3, <1>4

\* k is the number of places of n.
PlacesOf(k, b, n) == Pf!Power(b, k) > n /\ (k > 1 => Pf!Power(b, k - 1) <= n)

\* A number has one number of places.
LEMMA PlacesOnce ==
  ASSUME NEW b \in Nat \ {0}, NEW n \in Nat, NEW k \in Nat \ {0}, NEW m \in Nat \ {0},
         PlacesOf(k, b, n), PlacesOf(m, b, n)
  PROVE  k = m
<1>1. ASSUME NEW i \in Nat \ {0}, NEW j \in Nat \ {0}, i < j, PlacesOf(i, b, n), PlacesOf(j, b, n)
      PROVE  FALSE
  <2>1. i <= j - 1 /\ j > 1 /\ j - 1 \in Nat /\ i \in Nat
    BY <1>1
  <2>2. Pf!Power(b, i) <= Pf!Power(b, j - 1) /\ Pf!Power(b, i) > n /\ Pf!Power(b, j - 1) <= n
    BY <1>1, <2>1, PowerGrows DEF PlacesOf
  <2>3. Pf!Power(b, i) \in Nat /\ Pf!Power(b, j - 1) \in Nat
    BY <2>1, PowerIs
  <2> QED BY <2>2, <2>3
<1>2. k < m \/ k = m \/ m < k
  OBVIOUS
<1> QED BY <1>1, <1>2

\* s shows n in base b.
Shown(s, n, b, digits) ==
  /\ PlacesOf(Len(s), b, n) /\ Len(s) \in 1 .. n + 1
  /\ \A i \in 1 .. Len(s) : s[i] = digits[((n \div Pf!Power(b, Len(s) - i)) % b) + 1]

LEMMA OneDigit ==
  ASSUME NEW b \in {8, 10, 16}, NEW n \in 0 .. b - 1, NEW digits
  PROVE  Shown(<<digits[n + 1]>>, n, b, digits)
<1> DEFINE s == <<digits[n + 1]>>
<1>1. Len(s) = 1 /\ s[1] = digits[n + 1]
  OBVIOUS
<1>2. b \in Nat \ {0} /\ 0 + 1 = 1 /\ 0 \in Nat /\ 1 - 1 = 0 /\ b * 1 = b
  OBVIOUS
<1>3. Pf!Power(b, 0) = 1 /\ Pf!Power(b, 1) = b
  <2>1. Pf!Power(b, 0) = 1 /\ Pf!Power(b, 0 + 1) = b * Pf!Power(b, 0)
    BY <1>2, PowerIs
  <2> QED BY <1>2, <2>1
<1>4. ((n \div 1) % b) + 1 = n + 1
  OBVIOUS
<1>5. PlacesOf(1, b, n) /\ 1 \in 1 .. n + 1
  BY <1>3 DEF PlacesOf
<1>6. \A i \in 1 .. 1 : s[i] = digits[((n \div Pf!Power(b, 1 - i)) % b) + 1]
  <2>1. \A i \in 1 .. 1 : i = 1
    OBVIOUS
  <2>2. s[1] = digits[((n \div Pf!Power(b, 1 - 1)) % b) + 1]
    BY <1>1, <1>2, <1>3, <1>4
  <2> QED BY <2>1, <2>2
<1> HIDE DEF s
<1> QED BY <1>1, <1>5, <1>6 DEF Shown, s

\* A digit behind those of n \div b.
LEMMA OneDigitMore ==
  ASSUME NEW b \in {8, 10, 16}, NEW n \in Nat, n >= b, NEW S, NEW digits, NEW s \in Seq(S),
         Shown(s, n \div b, b, digits), digits[(n % b) + 1] \in S
  PROVE  Shown(Append(s, digits[(n % b) + 1]), n, b, digits)
<1> DEFINE m == n \div b
           d == digits[(n % b) + 1]
           t == Append(s, d)
           k == Len(s)
           P(i) == Pf!Power(b, i)
<1>1. /\ t \in Seq(S) /\ Len(t) = k + 1 /\ t[k + 1] = d /\ k \in Nat
      /\ \A i \in 1 .. k : t[i] = s[i]
  <2>1. d \in S
    OBVIOUS
  <2> HIDE DEF d
  <2> QED BY <2>1
<1>2. m \in Nat /\ b * m <= n /\ n < b * m + b /\ m < n /\ b \in Nat \ {0} /\ m >= 1
  OBVIOUS
<1>3. /\ P(k) > m /\ (k > 1 => P(k - 1) <= m) /\ k \in 1 .. m + 1
      /\ \A i \in 1 .. k : s[i] = digits[((m \div P(k - i)) % b) + 1]
  BY DEF Shown, PlacesOf
<1> HIDE DEF t, m, d, k
<1>4. /\ P(k) \in Nat \ {0} /\ P(k + 1) = b * P(k) /\ P(0) = 1
      /\ (k > 1 => P(k - 1) \in Nat \ {0} /\ P(k) = b * P(k - 1))
  <2>1. k > 1 => k - 1 \in Nat /\ (k - 1) + 1 = k
    BY <1>1
  <2> QED BY <1>1, <1>2, <2>1, PowerIs
<1>5. P(k + 1) > n
  <2> DEFINE p == P(k)
  <2>1. p \in Nat /\ p > m
    BY <1>3, <1>4
  <2> HIDE DEF p
  <2>2. b * p > n
    BY <1>2, <2>1
  <2> QED BY <1>4, <2>2 DEF p
<1>6. P(k) <= n
  <2>1. CASE k = 1
    <3>1. P(0 + 1) = b * P(0) /\ 0 + 1 = 1
      BY <1>2, PowerIs
    <3>2. b * 1 = b
      OBVIOUS
    <3>3. P(1) = b
      BY <1>4, <3>1, <3>2
    <3> QED BY <2>1, <3>3
  <2>2. CASE k > 1
    <3> DEFINE p == P(k - 1)
    <3>1. p \in Nat /\ p <= m /\ P(k) = b * p
      BY <1>3, <1>4, <2>2
    <3> HIDE DEF p
    <3>2. b * p <= n
      BY <1>2, <3>1
    <3> QED BY <3>1, <3>2
  <2> QED BY <1>3, <2>1, <2>2
<1>7. PlacesOf(k + 1, b, n) /\ k + 1 \in 1 .. n + 1
  <2>1. (k + 1) - 1 = k /\ k + 1 \in 1 .. n + 1
    BY <1>1, <1>2, <1>3
  <2> QED BY <1>5, <1>6, <2>1 DEF PlacesOf
<1>8. ASSUME NEW i \in 1 .. k + 1
      PROVE  t[i] = digits[((n \div P((k + 1) - i)) % b) + 1]
  <2>1. CASE i = k + 1
    <3>1. (k + 1) - i = 0 /\ n \div 1 = n
      BY <1>1, <2>1
    <3> QED BY <1>1, <1>4, <2>1, <3>1 DEF d
  <2>2. CASE i # k + 1
    <3>1. i \in 1 .. k /\ k - i \in Nat /\ (k - i) + 1 = (k + 1) - i
      BY <1>1, <2>2
    <3>2. P(k - i) \in Nat \ {0} /\ P((k + 1) - i) = b * P(k - i)
      BY <1>2, <3>1, PowerIs
    <3>3. m \div P(k - i) = n \div (b * P(k - i))
      BY <3>2, TwoDivisions DEF m
    <3> QED BY <1>1, <1>3, <3>1, <3>2, <3>3
  <2> QED BY <2>1, <2>2
<1>9. Shown(t, n, b, digits)
  BY <1>1, <1>7, <1>8 DEF Shown
<1> QED BY <1>9 DEF t, d

\* Of the digits of every number up to n.
DigitsTo(f, n, b, digits) ==
  f = [k \in 0 .. n |-> IF k < b THEN <<digits[k + 1]>>
                        ELSE Append(f[k \div b], digits[(k % b) + 1])]

LEMMA DigitsExist ==
  ASSUME NEW n \in Nat, NEW b \in {8, 10, 16}, NEW digits PROVE \E f : DigitsTo(f, n, b, digits)
<1> DEFINE T == {m \in Nat : \E f : DigitsTo(f, m, b, digits)}
<1>1. 0 \in T
  <2>1. DigitsTo([k \in 0 .. 0 |-> <<digits[0 + 1]>>], 0, b, digits)
    <3>1. \A k \in 0 .. 0 : k = 0 /\ k < b
      OBVIOUS
    <3> QED BY <3>1 DEF DigitsTo
  <2> QED BY <2>1
<1>2. ASSUME NEW m \in Nat, m \in T PROVE m + 1 \in T
  <2>1. PICK f : DigitsTo(f, m, b, digits)
    BY <1>2
  <2> DEFINE next == IF m + 1 < b THEN <<digits[(m + 1) + 1]>>
                     ELSE Append(f[(m + 1) \div b], digits[((m + 1) % b) + 1])
             g == [k \in 0 .. m + 1 |-> IF k = m + 1 THEN next ELSE f[k]]
  <2>2. ASSUME NEW k \in 0 .. m + 1
        PROVE  g[k] = IF k < b THEN <<digits[k + 1]>>
                      ELSE Append(g[k \div b], digits[(k % b) + 1])
    <3>1. k >= b => k \div b \in 0 .. m /\ k \div b # m + 1
      OBVIOUS
    <3>2. k >= b => g[k \div b] = f[k \div b]
      BY <3>1
    <3>3. CASE k = m + 1
      BY <3>2, <3>3
    <3>4. CASE k # m + 1
      <4>1. k \in 0 .. m
        BY <3>4
      <4>2. f[k] = IF k < b THEN <<digits[k + 1]>>
                   ELSE Append(f[k \div b], digits[(k % b) + 1])
        BY <2>1, <4>1 DEF DigitsTo
      <4> QED BY <3>2, <3>4, <4>2
    <3> QED BY <3>3, <3>4
  <2>3. DigitsTo(g, m + 1, b, digits)
    <3>1. g = [k \in 0 .. m + 1 |-> g[k]]
      OBVIOUS
    <3> HIDE DEF g
    <3> QED BY <2>2, <3>1 DEF DigitsTo
  <2> QED BY <2>3
<1>3. n \in T
  <2> HIDE DEF T
  <2> QED BY <1>1, <1>2, InductionOverNat
<1> QED BY <1>3

\* Digits writes the digits of n, each the quotient by its power of the base (_div, util_printf.c).
LEMMA DigitsAre ==
  ASSUME NEW n \in Nat, NEW b \in {8, 10, 16}, NEW S, NEW digits,
         \A i \in 1 .. 16 : digits[i] \in S
  PROVE  Pf!Digits(n, b, digits) \in Seq(S) /\ Shown(Pf!Digits(n, b, digits), n, b, digits)
<1> DEFINE f == CHOOSE h : DigitsTo(h, n, b, digits)
           Good(k) == f[k] \in Seq(S) /\ Shown(f[k], k, b, digits)
<1>1. DigitsTo(f, n, b, digits)
  BY DigitsExist
<1>2. Pf!Digits(n, b, digits) = f[n]
  BY DEF Pf!Digits, DigitsTo
<1> HIDE DEF f
<1>3. \A k \in 0 .. n : f[k] = IF k < b THEN <<digits[k + 1]>>
                               ELSE Append(f[k \div b], digits[(k % b) + 1])
  BY <1>1 DEF DigitsTo
<1> DEFINE T == {m \in Nat : \A k \in 0 .. n : k <= m => Good(k)}
<1>4. ASSUME NEW k \in 0 .. n, k < b PROVE Good(k)
  <2>1. k \in 0 .. b - 1 /\ f[k] = <<digits[k + 1]>> /\ k + 1 \in 1 .. 16
    <3>1. f[k] = <<digits[k + 1]>>
      BY <1>3, <1>4, Zenon
    <3>2. k \in 0 .. b - 1 /\ k + 1 \in 1 .. 16
      BY <1>4
    <3> QED BY <3>1, <3>2
  <2>2. digits[k + 1] \in S
    BY <2>1
  <2> QED BY <2>1, <2>2, OneDigit
<1>5. ASSUME NEW k \in 0 .. n, k >= b, Good(k \div b) PROVE Good(k)
  <2>1. f[k] = Append(f[k \div b], digits[(k % b) + 1])
    <3>1. ~(k < b)
      BY <1>5
    <3> QED BY <1>3, <3>1, Zenon
  <2>2. (k % b) + 1 \in 1 .. 16 /\ k \in Nat
    OBVIOUS
  <2>3. digits[(k % b) + 1] \in S
    BY <2>2
  <2> DEFINE s == f[k \div b]
             d == digits[(k % b) + 1]
  <2>4. s \in Seq(S) /\ Shown(s, k \div b, b, digits)
    BY <1>5
  <2> HIDE DEF s
  <2>5. Shown(Append(s, d), k, b, digits)
    BY <1>5, <2>2, <2>3, <2>4, OneDigitMore
  <2>6. Append(s, d) \in Seq(S)
    <3>1. d \in S
      BY <2>3
    <3> HIDE DEF d
    <3> QED BY <2>4, <3>1
  <2> QED BY <2>1, <2>5, <2>6 DEF s
<1>6. 0 \in T
  <2> HIDE DEF Good
  <2>1. \A k \in 0 .. n : k <= 0 => k < b
    OBVIOUS
  <2> QED BY <1>4, <2>1
<1>7. ASSUME NEW m \in Nat, m \in T PROVE m + 1 \in T
  <2> SUFFICES ASSUME NEW k \in 0 .. n, k <= m + 1 PROVE Good(k)
    OBVIOUS
  <2> HIDE DEF Good
  <2>1. CASE k < b
    BY <1>4, <2>1
  <2>2. CASE k >= b
    <3>1. k \div b \in 0 .. n /\ k \div b <= m
      BY <2>2
    <3> QED BY <1>5, <1>7, <2>2, <3>1
  <2>3. k < b \/ k >= b
    OBVIOUS
  <2> QED BY <2>1, <2>2, <2>3
<1>8. n \in T
  <2> HIDE DEF T
  <2> QED BY <1>6, <1>7, InductionOverNat
<1>9. Good(n)
  <2> HIDE DEF Good
  <2> QED BY <1>8
<1> QED BY <1>2, <1>9

-----------------------------------------------------------------------------
(* util_printf.c: the field of a number *)

LEMMA RepeatIs ==
  ASSUME NEW S, NEW c \in S, NEW n \in Int
  PROVE  Pf!Repeat(c, n) \in Seq(S) /\ (n <= 0 => Pf!Repeat(c, n) = <<>>)
<1>1. CASE n <= 0
  <2>1. 1 .. n = {}
    BY <1>1
  <2>2. Pf!Repeat(c, n) = <<>>
    BY <2>1 DEF Pf!Repeat
  <2> QED BY <2>2
<1>2. CASE n > 0
  <2>1. Pf!Repeat(c, n) \in [1 .. n -> S] /\ n \in Nat
    BY <1>2 DEF Pf!Repeat
  <2> QED BY <1>2, <2>1
<1> QED BY <1>1, <1>2

LEMMA WithEmpty ==
  ASSUME NEW S, NEW a \in Seq(S) PROVE <<>> \o a = a /\ a \o <<>> = a
OBVIOUS

\* A field of width characters, as it is printed and as ISO C describes it.
Field(space, zero, sign, prefix, zeros, digits, width, flags) ==
  LET left == "LEFT" \in flags
      pad  == "ZEROPAD" \in flags
      room == width - Len(sign) - Len(prefix) - Len(zeros \o digits)
  IN Pf!Repeat(space, IF left \/ pad THEN 0 ELSE room) \o sign \o prefix
       \o Pf!Repeat(zero, IF pad /\ ~left THEN room ELSE 0) \o zeros \o digits
       \o Pf!Repeat(space, IF left THEN room ELSE 0)

FieldIso(space, zero, sign, prefix, zeros, digits, width, flags) ==
  LET number == zeros \o digits
      length == Len(sign \o prefix \o number)
  IN IF "LEFT" \in flags THEN sign \o prefix \o number \o Pf!Repeat(space, width - length)
     ELSE IF "ZEROPAD" \in flags THEN sign \o prefix \o Pf!Repeat(zero, width - length) \o number
     ELSE Pf!Repeat(space, width - length) \o sign \o prefix \o number

\* The two descriptions of a field are the same text.
LEMMA PaddedNumber ==
  ASSUME NEW S, NEW space \in S, NEW zero \in S, NEW sign \in Seq(S), NEW prefix \in Seq(S),
         NEW zeros \in Seq(S), NEW digits \in Seq(S), NEW width \in Int,
         NEW flags
  PROVE  Field(space, zero, sign, prefix, zeros, digits, width, flags)
           = FieldIso(space, zero, sign, prefix, zeros, digits, width, flags)
<1> DEFINE left   == "LEFT" \in flags
           pad    == "ZEROPAD" \in flags
           number == zeros \o digits
           length == Len(sign \o prefix \o number)
           room   == width - Len(sign) - Len(prefix) - Len(number)
           both   == sign \o prefix
<1>1. number \in Seq(S)
  BY Lengths
<1>2. both \in Seq(S) /\ Len(both) = Len(sign) + Len(prefix)
  BY Lengths
<1>3. length = Len(sign) + Len(prefix) + Len(number)
  <2>1. length = Len(both \o number)
    OBVIOUS
  <2>2. both \in Seq(S)
    BY <1>2
  <2> HIDE DEF both, number, length
  <2>3. Len(both \o number) = Len(both) + Len(number)
    BY ONLY <1>1, <2>2, Lengths
  <2> QED BY <1>2, <2>1, <2>3
<1>4. width - length = room /\ room \in Int
  <2>1. \A s \in Seq(S) : Len(s) \in Nat
    OBVIOUS
  <2>2. Len(sign) \in Nat /\ Len(prefix) \in Nat /\ Len(number) \in Nat
    BY <1>1, <2>1, Zenon
  <2>3. width \in Int
    OBVIOUS
  <2> HIDE DEF number, length
  <2> QED BY ONLY <1>3, <2>2, <2>3
<1>5. Pf!Repeat(space, 0) = <<>> /\ Pf!Repeat(zero, 0) = <<>>
  <2>1. 0 \in Int /\ 0 <= 0
    OBVIOUS
  <2> QED BY <2>1, RepeatIs, Zenon
<1>6. Pf!Repeat(space, room) \in Seq(S) /\ Pf!Repeat(zero, room) \in Seq(S)
  <2> HIDE DEF room
  <2> QED BY <1>4, RepeatIs
<1>7. \A a \in Seq(S) : /\ (a \o zeros) \o digits = a \o number
                        /\ <<>> \o a = a /\ a \o <<>> = a /\ a \o number \in Seq(S)
  <2> SUFFICES ASSUME NEW a \in Seq(S)
               PROVE  /\ (a \o zeros) \o digits = a \o number
                      /\ <<>> \o a = a /\ a \o <<>> = a /\ a \o number \in Seq(S)
    OBVIOUS
  <2>3. zeros \in Seq(S) /\ digits \in Seq(S) /\ a \in Seq(S)
    OBVIOUS
  <2>1. (a \o zeros) \o digits = a \o number
    BY ONLY <2>3, Regrouped
  <2>2. a \o number \in Seq(S)
    <3> HIDE DEF number
    <3> QED BY <1>1, Lengths
  <2> HIDE DEF number
  <2> QED BY <2>1, <2>2, WithEmpty
<1> DEFINE R1 == Pf!Repeat(space, IF left \/ pad THEN 0 ELSE room)
           R0 == Pf!Repeat(zero, IF pad /\ ~left THEN room ELSE 0)
           R2 == Pf!Repeat(space, IF left THEN room ELSE 0)
           all == R1 \o sign \o prefix \o R0 \o zeros \o digits \o R2
           iso == IF left THEN both \o number \o Pf!Repeat(space, room)
                  ELSE IF pad THEN both \o Pf!Repeat(zero, room) \o number
                  ELSE Pf!Repeat(space, room) \o sign \o prefix \o number
<1> HIDE DEF room, length, number
<1>8. ASSUME left PROVE all = iso
  <2>1. R1 = <<>> /\ R0 = <<>> /\ R2 = Pf!Repeat(space, room)
    BY <1>5, <1>8
  <2> HIDE DEF R1, R0, R2
  <2>2. R1 \o sign = sign
    BY <1>7, <2>1
  <2>3. both \o R0 = both
    BY <1>2, <1>7, <2>1
  <2>4. (both \o zeros) \o digits = both \o number
    BY <1>2, <1>7
  <2>5. all = ((both \o zeros) \o digits) \o R2
    BY <2>2, <2>3
  <2> QED BY <1>8, <2>1, <2>4, <2>5
<1>9. ASSUME ~left, pad PROVE all = iso
  <2>1. R1 = <<>> /\ R0 = Pf!Repeat(zero, room) /\ R2 = <<>>
    BY <1>5, <1>9
  <2> HIDE DEF R1, R0, R2
  <2>2. R1 \o sign = sign
    BY <1>7, <2>1
  <2>3. both \o R0 \in Seq(S)
    <3>1. R0 \in Seq(S) /\ both \in Seq(S)
      BY <1>2, <1>6, <2>1
    <3> HIDE DEF both
    <3> QED BY <3>1, Lengths
  <2>4. ((both \o R0) \o zeros) \o digits = (both \o R0) \o number
    <3> HIDE DEF both
    <3> QED BY <1>7, <2>3
  <2>5. ((both \o R0) \o number) \o R2 = (both \o R0) \o number
    <3> HIDE DEF both
    <3> QED BY <1>7, <2>1, <2>3
  <2>6. all = (((both \o R0) \o zeros) \o digits) \o R2
    BY <2>2
  <2> HIDE DEF all, both
  <2> QED BY <1>9, <2>1, <2>4, <2>5, <2>6
<1>10. ASSUME ~left, ~pad PROVE all = iso
  <2>1. R1 = Pf!Repeat(space, room) /\ R0 = <<>> /\ R2 = <<>>
    BY <1>5, <1>10
  <2> HIDE DEF R1, R0, R2
  <2> DEFINE a == (R1 \o sign) \o prefix
  <2>2. a \in Seq(S)
    <3>1. R1 \in Seq(S)
      BY <1>6, <2>1
    <3>2. R1 \o sign \in Seq(S)
      BY <3>1, Lengths
    <3> QED BY <3>2, Lengths
  <2>3. all = (((a \o R0) \o zeros) \o digits) \o R2
    OBVIOUS
  <2>7. iso = a \o number
    BY <1>10, <2>1
  <2> HIDE DEF a, all, iso
  <2>4. a \o R0 = a
    BY <1>7, <2>1, <2>2
  <2>5. (a \o zeros) \o digits = a \o number
    BY <1>7, <2>2
  <2>6. (a \o number) \o R2 = a \o number
    BY <1>7, <2>1, <2>2
  <2> QED BY <2>3, <2>4, <2>5, <2>6, <2>7
<1>11. all = iso
  <2> HIDE DEF all, iso
  <2> QED BY <1>8, <1>9, <1>10
<1>12. Field(space, zero, sign, prefix, zeros, digits, width, flags) = all
  BY DEF Field, room, number
<1>13. FieldIso(space, zero, sign, prefix, zeros, digits, width, flags) = iso
  <2>1. FieldIso(space, zero, sign, prefix, zeros, digits, width, flags)
          = IF left THEN both \o number \o Pf!Repeat(space, width - length)
            ELSE IF pad THEN both \o Pf!Repeat(zero, width - length) \o number
            ELSE Pf!Repeat(space, width - length) \o sign \o prefix \o number
    BY DEF FieldIso, number, length
  <2> QED BY <1>4, <2>1
<1> HIDE DEF all, iso
<1> QED BY <1>11, <1>12, <1>13

\* A bit pattern and the number it stands for, the least one included (util_printf.c:67).
LEMMA MagnitudeIs ==
  ASSUME NEW flags \in SUBSET FlagName, NEW n \in InWidth(flags)
  PROVE  LET num == n % LongMod
             value == IF n < 0 THEN -n ELSE n
         IN /\ Pf!Magnitude(num, flags) = value /\ value \in Nat
            /\ "SIGN" \in flags => (num >= LongMod \div 2 <=> n < 0)
<1> DEFINE num == n % LongMod
           half == LongMod \div 2
           value == IF n < 0 THEN -n ELSE n
<1>1. LongMod \in Nat /\ LongMod % 2 = 0
  BY TextAssumption
<1>2. LongMod = 2 * half /\ half \in Nat
  BY <1>1
<1>3. CASE "SIGN" \in flags
  <2>1. n \in -half .. half - 1
    BY <1>3 DEF InWidth
  <2> HIDE DEF half
  <2>2. CASE n < 0
    <3>1. num = n + LongMod
      <4>1. n + LongMod \in 0 .. LongMod - 1 /\ n \in Int /\ LongMod \in Nat \ {0}
        BY <1>2, <2>1, <2>2
      <4>2. (n + LongMod) % LongMod = n + LongMod /\ n % LongMod = (n + LongMod) % LongMod
        BY <4>1
      <4> QED BY <4>2
    <3>2. num >= half /\ LongMod - num = -n
      <4> HIDE DEF num
      <4> QED BY <1>2, <2>1, <2>2, <3>1
    <3>3. Pf!Magnitude(num, flags) = LongMod - num
      BY <1>3, <3>2 DEF Pf!Magnitude, half
    <3> HIDE DEF num
    <3> QED BY <2>1, <2>2, <3>2, <3>3 DEF half, num
  <2>3. CASE n >= 0
    <3>1. num = n
      <4>1. n \in 0 .. LongMod - 1 /\ LongMod \in Nat \ {0}
        BY <1>2, <2>1, <2>3
      <4> QED BY <4>1
    <3>2. ~(num >= half) /\ ~(n < 0)
      BY <1>2, <2>1, <2>3, <3>1
    <3>3. Pf!Magnitude(num, flags) = num
      BY <3>2 DEF Pf!Magnitude, half
    <3> HIDE DEF num
    <3> QED BY <2>1, <2>3, <3>1, <3>2, <3>3 DEF half, num
  <2> QED BY <2>1, <2>2, <2>3
<1>4. CASE "SIGN" \notin flags
  <2>1. n \in 0 .. LongMod - 1
    BY <1>4 DEF InWidth
  <2>2. num = n /\ ~(n < 0)
    <3>1. LongMod \in Nat \ {0}
      BY <1>1, <2>1
    <3> QED BY <2>1, <3>1
  <2>3. Pf!Magnitude(num, flags) = num
    BY <1>4 DEF Pf!Magnitude
  <2> HIDE DEF num
  <2> QED BY <1>4, <2>1, <2>2, <2>3 DEF num
<1> QED BY <1>3, <1>4

\* Every number is printed as in ISO C, with the exceptions named in Printf (util_printf.c:51).
LEMMA NumberIsIsoHolds ==
  ASSUME NEW flags \in SUBSET FlagName, NEW n \in InWidth(flags), NEW base \in {8, 10, 16},
         NEW width \in Int, NEW precision \in Int
  PROVE  Pf!NumberIsIso(n, base, width, precision, flags)
<1> SUFFICES ASSUME "SPECIAL" \in flags => base # 8
             PROVE  Pf!debug_number(n % LongMod, base, width, precision, flags)
                      = Pf!IsoNumber(n, base, width, precision, flags)
  BY DEF Pf!NumberIsIso
<1> DEFINE num    == n % LongMod
           value  == IF n < 0 THEN -n ELSE n
           S == {Pf!Space, "0", "-", "+", "x", "X"}
                  \cup {Pf!Lower[i] : i \in 1 .. 16} \cup {Pf!Upper[i] : i \in 1 .. 16}
           table  == IF "LARGE" \in flags THEN Pf!Upper ELSE Pf!Lower
           mag    == Pf!Magnitude(num, flags)
           digits == Pf!Digits(mag, base, table)
           sign   == Pf!Sign(num, flags)
           prefix == Pf!Prefix(base, flags)
           zeros  == Pf!Repeat("0", precision - Len(digits))
           room   == width - Len(sign) - Len(prefix) - Len(zeros \o digits)
           left   == "LEFT" \in flags
           pad    == "ZEROPAD" \in flags
           signIso == IF "SIGN" \notin flags THEN <<>> ELSE IF n < 0 THEN <<"-">>
                      ELSE IF "PLUS" \in flags THEN <<"+">>
                      ELSE IF "SPACE" \in flags THEN <<Pf!Space>> ELSE <<>>
           prefixIso == IF "SPECIAL" \notin flags \/ base # 16 THEN <<>>
                        ELSE IF "LARGE" \in flags THEN <<"0", "X">> ELSE <<"0", "x">>
           places == CHOOSE k \in 1 .. value + 1 :
                       Pf!Power(base, k) > value /\ (k > 1 => Pf!Power(base, k - 1) <= value)
           digitsIso == [i \in 1 .. places |->
                           table[((value \div Pf!Power(base, places - i)) % base) + 1]]
           zerosIso == Pf!Repeat("0", precision - Len(digitsIso))
           number == zerosIso \o digitsIso
           length == Len(signIso \o prefixIso \o number)
           shown == zeros \o digits
           long  == Len(sign \o prefix \o shown)
           ours == Pf!Repeat(Pf!Space, IF left \/ pad THEN 0 ELSE room) \o sign \o prefix
                     \o Pf!Repeat("0", IF pad /\ ~left THEN room ELSE 0) \o zeros \o digits
                     \o Pf!Repeat(Pf!Space, IF left THEN room ELSE 0)
           iso  == IF left THEN sign \o prefix \o shown \o Pf!Repeat(Pf!Space, width - long)
                   ELSE IF pad THEN sign \o prefix \o Pf!Repeat("0", width - long) \o shown
                   ELSE Pf!Repeat(Pf!Space, width - long) \o sign \o prefix \o shown
<1>1. mag = value /\ value \in Nat /\ ("SIGN" \in flags => (num >= LongMod \div 2 <=> n < 0))
  BY MagnitudeIs
<1>2. Pf!debug_number(num, base, width, precision, flags)
        = ours
  BY DEF Pf!debug_number, Pf!Room
<1>3. Pf!IsoNumber(n, base, width, precision, flags)
        = IF left THEN signIso \o prefixIso \o number \o Pf!Repeat(Pf!Space, width - length)
          ELSE IF pad THEN signIso \o prefixIso \o Pf!Repeat("0", width - length) \o number
          ELSE Pf!Repeat(Pf!Space, width - length) \o signIso \o prefixIso \o number
  BY DEF Pf!IsoNumber
<1>4. sign = signIso
  <2> HIDE DEF num
  <2> QED BY <1>1 DEF Pf!Sign
<1>5. prefix = prefixIso
  BY DEF Pf!Prefix
<1>6. \A i \in 1 .. 16 : table[i] \in S
  OBVIOUS
<1>7. Pf!Space \in S /\ "0" \in S /\ sign \in Seq(S) /\ prefix \in Seq(S)
  <2>1. Pf!Space \in S /\ "0" \in S /\ "-" \in S /\ "+" \in S /\ "x" \in S /\ "X" \in S
    OBVIOUS
  <2> HIDE DEF S
  <2>2. signIso \in Seq(S)
    BY <2>1
  <2>3. prefixIso \in Seq(S)
    BY <2>1
  <2> HIDE DEF signIso, prefixIso, sign, prefix
  <2> QED BY <1>4, <1>5, <2>1, <2>2, <2>3
<1>8. digits \in Seq(S) /\ Shown(digits, value, base, table)
  <2> HIDE DEF S, table, mag, value
  <2> QED BY <1>1, <1>6, DigitsAre
<1> HIDE DEF S, table, mag, value, digits, num
<1>9. digitsIso = digits
  <2>1. /\ PlacesOf(Len(digits), base, value) /\ Len(digits) \in 1 .. value + 1
        /\ \A i \in 1 .. Len(digits) :
             digits[i] = table[((value \div Pf!Power(base, Len(digits) - i)) % base) + 1]
    BY <1>8 DEF Shown
  <2>2. places = CHOOSE k \in 1 .. value + 1 : PlacesOf(k, base, value)
    BY DEF PlacesOf
  <2>3. places \in 1 .. value + 1 /\ PlacesOf(places, base, value)
    BY <2>1, <2>2
  <2> HIDE DEF places
  <2>4. places = Len(digits)
    <3>1. places \in Nat \ {0} /\ Len(digits) \in Nat \ {0} /\ base \in Nat \ {0}
      BY <1>1, <2>1, <2>3
    <3> QED BY <1>1, <2>1, <2>3, <3>1, PlacesOnce
  <2>5. digits = [i \in 1 .. Len(digits) |-> digits[i]]
    BY <1>8
  <2> QED BY <2>1, <2>4, <2>5
<1>10. zeros \in Seq(S) /\ zerosIso = zeros
  <2>1. precision - Len(digits) \in Int
    BY <1>8
  <2> HIDE DEF digitsIso
  <2> QED BY <1>7, <1>9, <2>1, RepeatIs
<1> HIDE DEF sign, signIso, prefix, prefixIso, digitsIso, zeros, zerosIso
<1>11. number = shown /\ length = long
  BY <1>4, <1>5, <1>9, <1>10
<1>12. ours = iso
  <2>1. /\ Pf!Space \in S /\ "0" \in S /\ sign \in Seq(S) /\ prefix \in Seq(S)
        /\ zeros \in Seq(S) /\ digits \in Seq(S) /\ width \in Int
    BY <1>7, <1>8, <1>10
  <2>2. Field(Pf!Space, "0", sign, prefix, zeros, digits, width, flags)
          = FieldIso(Pf!Space, "0", sign, prefix, zeros, digits, width, flags)
    <3> HIDE DEF S
    <3> QED BY ONLY <2>1, PaddedNumber
  <2>3. ours = Field(Pf!Space, "0", sign, prefix, zeros, digits, width, flags)
    BY DEF Field
  <2>4. iso = FieldIso(Pf!Space, "0", sign, prefix, zeros, digits, width, flags)
    BY DEF FieldIso
  <2> HIDE DEF ours, iso
  <2> QED BY <2>2, <2>3, <2>4
<1> HIDE DEF room, left, pad, number, length, shown, long
<1>13. Pf!IsoNumber(n, base, width, precision, flags)
         = iso
  BY <1>3, <1>4, <1>5, <1>11
<1> HIDE DEF ours, iso
<1>14. Pf!debug_number(num, base, width, precision, flags)
         = Pf!IsoNumber(n, base, width, precision, flags)
  BY <1>2, <1>12, <1>13
<1> QED BY <1>14 DEF num

-----------------------------------------------------------------------------
(* The theorems *)

\* What text holds is an input of the function it names.
Known ==
  /\ text.of = "bytes" => text.s \in ByteString
  /\ text.of = "hex" => text.s \in HexText
  /\ text.of = "decimal" => text.n \in 0 .. 99 /\ text.m \in 0 .. 99
  /\ text.of = "packet" => text.pack \in Packet
  /\ text.of = "format" => text.s \in FormatText
  /\ text.of = "number" => /\ text.flags \in SUBSET FlagName /\ text.n \in InWidth(text.flags)
                           /\ text.base \in {8, 10, 16}
                           /\ text.width \in Width /\ text.precision \in Precision

LEMMA KnownHolds == TextSpec => []Known
<1>1. TextInit => Known
  BY DEF TextInit, Nothing, Known
<1>2. Known /\ [TextNext]_text => Known'
  <2> SUFFICES ASSUME Known, [TextNext]_text PROVE Known'
    OBVIOUS
  <2>1. CASE UNCHANGED text
    BY <2>1 DEF Known
  <2>2. CASE TextTaken
    BY <2>2 DEF TextTaken, Nothing, Known
  <2>3. CASE TextGiven
    <3>1. ASSUME NEW s \in ByteString, text' = [of |-> "bytes", s |-> s] PROVE Known'
      BY <3>1 DEF Known
    <3>2. ASSUME NEW s \in HexText, text' = [of |-> "hex", s |-> s] PROVE Known'
      BY <3>2 DEF Known
    <3>3. ASSUME NEW n \in 0 .. 99, NEW m \in 0 .. 99, text' = [of |-> "decimal", n |-> n, m |-> m]
          PROVE  Known'
      BY <3>3 DEF Known
    <3>4. ASSUME NEW p \in Packet, text' = [of |-> "packet", pack |-> p] PROVE Known'
      BY <3>4 DEF Known
    <3>5. ASSUME NEW f \in FormatText, text' = [of |-> "format", s |-> f] PROVE Known'
      BY <3>5 DEF Known
    <3>6. ASSUME NEW fl \in SUBSET FlagName, NEW b \in {8, 10, 16}, NEW w \in Width,
                 NEW p \in Precision, NEW n \in InWidth(fl),
                 text' = [of |-> "number", n |-> n, base |-> b, width |-> w, precision |-> p,
                          flags |-> fl]
          PROVE  Known'
      <4>1. /\ text'.of = "number" /\ text'.flags = fl /\ text'.base = b /\ text'.width = w
            /\ text'.precision = p /\ text'.n = n
        BY <3>6
      <4>2. fl \in SUBSET FlagName /\ b \in {8, 10, 16} /\ w \in Width /\ p \in Precision
            /\ n \in InWidth(fl)
        BY <3>6
      <4> QED BY ONLY <4>1, <4>2 DEF Known
    <3> QED BY <2>3, <3>1, <3>2, <3>3, <3>4, <3>5, <3>6 DEF TextGiven
  <2> QED BY <2>1, <2>2, <2>3 DEF TextNext
<1> QED BY <1>1, <1>2, PTL DEF TextSpec

(* Texts made from bytes or numbers are read back as what they were made     *)
(* from, a text is refused only for a character that is no digit, and        *)
(* packets come back as they were assembled: whatever the bytes, texts,      *)
(* packets and digits (fmt_trans.c:29, at_code.c:118).                       *)
THEOREM TextsReadBackHolds == TextSpec => []TextsReadBack
<1>1. Known => TextsReadBack
  <2>1. ASSUME Known, text.of = "bytes" PROVE Fmt!HexReadsBack(text.s)
    <3>1. text.s \in Seq(Byte)
      BY <2>1, TextAssumption DEF Known, Byte
    <3> QED BY <3>1, HexReadsBackHolds
  <2>2. ASSUME Known, text.of = "decimal" PROVE Fmt!DecimalReadsBack(text.n, text.m)
    BY <2>2, DecimalReadsBackHolds DEF Known
  <2>3. ASSUME Known, text.of = "hex" PROVE Fmt!RefusedIfNoDigit(text.s)
    <3>1. text.s \in Seq(1 .. 127)
      BY <2>3, TextAssumption DEF Known
    <3> QED BY <3>1, RefusedIfNoDigitHolds
  <2>4. ASSUME Known, text.of = "packet" PROVE At!PacketReadsBack(text.pack)
    BY <2>4, PacketReadsBackHolds DEF Known
  <2> QED BY <2>1, <2>2, <2>3, <2>4 DEF TextsReadBack
<1> QED BY <1>1, KnownHolds, PTL

(* Every number, of any width of a long, in any base, field and precision    *)
(* and with any flags, is printed as in ISO C but for the exceptions named   *)
(* in Printf; and no format, wherever it breaks off, leads behind its end or *)
(* takes more arguments than it says (util_printf.c:51, 291).                *)
THEOREM PrintsAsIsoHolds == TextSpec => []PrintsAsIso
<1>1. Known => PrintsAsIso
  <2>1. ASSUME Known, text.of = "number"
        PROVE  Pf!NumberIsIso(text.n, text.base, text.width, text.precision, text.flags)
    <3>1. /\ text.flags \in SUBSET FlagName /\ text.n \in InWidth(text.flags)
          /\ text.base \in {8, 10, 16} /\ text.width \in Int /\ text.precision \in Int
      BY <2>1, TextAssumption DEF Known
    <3> QED BY ONLY <3>1, NumberIsIsoHolds
  <2>2. ASSUME Known, text.of = "format" PROVE Pf!FormatEndsAtNul(text.s, Arguments)
    <3>1. text.s \in Seq(Character)
      BY <2>2, TextAssumption DEF Known
    <3> QED BY <3>1, FormatEndsAtNulHolds
  <2> QED BY <2>1, <2>2 DEF PrintsAsIso
<1> QED BY <1>1, KnownHolds, PTL
=============================================================================
