------------------------------ MODULE EasyEcc ------------------------------
(***************************************************************************)
(* easy_ecc.c, the curve y^2 = x^3 - 3x + b modulo p: points, keys,        *)
(* Diffie-Hellman and ECDSA.                                               *)
(*                                                                         *)
(* Numbers are integers below 2^256 (VliMod); Vli says how their digits    *)
(* compute what the operators here take for granted.  A byte of a key has  *)
(* HalfBits bits.  With HalfBits = 1 the prime is 199.                     *)
(***************************************************************************)
EXTENDS Vli

CONSTANTS prime,              \* curve_p as a number
          curve_b, curve_G,   \* curve_G = [x |-> .., y |-> ..]
          curve_n             \* the order of curve_G, a prime below p

O == [x |-> 0, y |-> 0]              \* what EccPoint_isZero tests for

vli_modMult_P(a, b) == (a * b) % prime
ModAdd(a, b, m) == IF a + b >= m THEN (a + b - m) % VliMod ELSE a + b
ModSub(a, b, m) == IF a < b THEN (a - b + m) % VliMod ELSE a - b

a ** b == vli_modMult_P(a, b)
a ++ b == ModAdd(a, b, prime)
a -- b == ModSub(a, b, prime)
Sq(a) == a ** a

\* vli_modInv: the inverse of 0 is 0.
ModInv(a, m) == IF a = 0 THEN 0 ELSE CHOOSE i \in 1 .. m - 1 : (i * a) % m = 1

TestBit(v, i) == (v \div 2 ^ i) % 2
NumBits(v) == IF v = 0 THEN 0 ELSE 1 + CHOOSE i \in 0 .. 8 * HalfBits - 1 : v \div 2 ^ i = 1

-----------------------------------------------------------------------------
(* Points, in coordinates (x z^2, y z^3).                                    *)

EccPoint_double_jacobian(q, z) ==
  LET a    == q.x ** Sq(q.y)
      m    == (q.x ++ Sq(z)) ** ((q.x ++ Sq(z)) -- (Sq(z) ++ Sq(z)))
      m3   == m ++ (m ++ m)
      half == IF TestBit(m3, 0) = 1 THEN (m3 + prime) \div 2 ELSE m3 \div 2
      x3   == (Sq(half) -- a) -- a
  IN IF z = 0 THEN [q |-> q, z |-> z]
     ELSE [q |-> [x |-> x3, y |-> (half ** (a -- x3)) -- Sq(Sq(q.y))], z |-> q.y ** z]

apply_z(q, z) == [x |-> q.x ** Sq(z), y |-> q.y ** (Sq(z) ** z)]

\* 2q, and q in the coordinates of the result.
XYcZ_initial_double(q, initialZ) ==
  LET d == EccPoint_double_jacobian(apply_z(q, initialZ), initialZ)
  IN [double |-> d.q, same |-> apply_z(q, d.z)]

\* q in the coordinates of the sum, and q + r.
XYcZ_add(q, r) ==
  LET a  == Sq(r.x -- q.x)
      b  == q.x ** a
      c  == r.x ** a
      x3 == (Sq(r.y -- q.y) -- b) -- c
      y1 == q.y ** (c -- b)
  IN [same |-> [x |-> b, y |-> y1], sum |-> [x |-> x3, y |-> ((r.y -- q.y) ** (b -- x3)) -- y1]]

\* q - r and q + r.
XYcZ_addC(q, r) ==
  LET a  == Sq(r.x -- q.x)
      b  == q.x ** a
      c  == r.x ** a
      y1 == q.y ** (c -- b)
      x3 == Sq(r.y -- q.y) -- (b ++ c)
      xd == Sq(r.y ++ q.y) -- (b ++ c)
  IN [diff |-> [x |-> xd, y |-> ((xd -- b) ** (r.y ++ q.y)) -- y1],
      sum  |-> [x |-> x3, y |-> ((r.y -- q.y) ** (b -- x3)) -- y1]]

\* Mutant: the ladder looks at the same bit twice.
LadderBits(scalar) == [j \in 1 .. NumBits(scalar) - 2 |-> NumBits(scalar) - j]

\* The bits the ladder's loop looks at, from the second highest down to bit 1.
Ladder(scalar) == [j \in 1 .. NumBits(scalar) - 2 |-> NumBits(scalar) - 1 - j]

nb(scalar, i) == 1 - TestBit(scalar, i)

\* Half a turn each: R[nb] and R[1-nb] become their sum and difference; then R[1-nb] their sum.
addC(R, n) ==
  LET r == XYcZ_addC(R[1 - n], R[n]) IN [k \in {0, 1} |-> IF k = n THEN r.sum ELSE r.diff]
add(R, n) ==
  LET r == XYcZ_add(R[n], R[1 - n]) IN [k \in {0, 1} |-> IF k = n THEN r.same ELSE r.sum]

\* The inverse of the final z, from the two points in the middle of the last turn.
FinalZ(q, R, b) == (ModInv(((R[1].x -- R[0].x) ** b.y) ** q.x, prime) ** q.y) ** b.x

LastTurn(q, R, n) == apply_z(add(R, n)[0], FinalZ(q, R, R[1 - n]))

\* R[1] and R[0] keep apart by q.  The loop starts below the highest bit and the last turn is written out.
EccPoint_mult(q, scalar, initialZ) ==
  LET start == XYcZ_initial_double(q, initialZ)
      Turn(R, i)  == add(addC(R, nb(scalar, i)), nb(scalar, i))
      HalfTurn(R) == addC(R, nb(scalar, 0))
      Ending(R)   == LastTurn(q, R, nb(scalar, 0))
      turns == Loop(Turn, [k \in {0, 1} |-> IF k = 1 THEN start.double ELSE start.same], Ladder(scalar))
  IN Then(Then(turns, HalfTurn), Ending)

-----------------------------------------------------------------------------
(* Keys as bytes.                                                            *)

ecc_bytes2native(bytes) ==
  Value([i \in Digit |->
    LET digit == 2 * (NUM_ECC_DIGITS - i) IN bytes[digit + 1] * HalfMod + bytes[digit + 2]])

ecc_native2bytes(v) ==
  [j \in 1 .. 2 * NUM_ECC_DIGITS |->
    LET d == Digits(v)[NUM_ECC_DIGITS - (j - 1) \div 2] IN IF j % 2 = 1 THEN Hi(d) ELSE Lo(d)]

ECC_BYTES == 2 * NUM_ECC_DIGITS

\* The square root of a, if it has one, by raising it to (p + 1) / 4.
mod_sqrt(a) ==
  LET p1 == prime + 1
  IN Loop(LAMBDA r, i : IF TestBit(p1, i) = 1 THEN Sq(r) ** a ELSE Sq(r), 1,
          [j \in 1 .. NumBits(p1) - 2 |-> NumBits(p1) - j])

\* A compressed key is a sign and the bytes of x.
ecc_point_decompress(key) ==
  LET x == ecc_bytes2native(key.bytes)
      y == mod_sqrt(((Sq(x) -- 3) ** x) ++ curve_b)
  IN [x |-> x, y |-> IF y % 2 = key.sign % 2 THEN y ELSE (prime - y) % VliMod]

\* Once at most: n is above half of what a number can be.
BelowN(k) == IF curve_n > k THEN k ELSE k - curve_n

\* getRandomNumber hashes the same array at every call: a second try is like the first, and never 0.
Generated(random) ==
  LET private == BelowN(random) IN [private |-> private, public |-> EccPoint_mult(curve_G, private, 1)]

Compressed(q) == [sign |-> 2 + (q.y % 2), bytes |-> ecc_native2bytes(q.x)]

Uncompressed(q) == ecc_native2bytes(q.x) \o ecc_native2bytes(q.y)

MadeKey(g, public) == [ok |-> g.public # O, private |-> ecc_native2bytes(g.private), public |-> public]

ecc_make_key(random) ==
  LET Made(g) == MadeKey(g, Compressed(g.public)) IN Made(Generated(random))

easy_ecc_gen_key(random) ==
  LET Made(g) == MadeKey(g, Uncompressed(g.public)) IN Made(Generated(random))

easy_pri_trans_pubkey(private) ==
  LET Made(q) == [ok |-> q # O, public |-> Uncompressed(q)]
  IN Made(EccPoint_mult(curve_G, BelowN(ecc_bytes2native(private)), 1))

\* The bytes of y are read where they lie: their first is taken for the lowest of y.
easy_pub_key_transform(xy) ==
  [sign |-> 2 + (xy[ECC_BYTES + 1] % 2), bytes |-> SubSeq(xy, 1, ECC_BYTES)]

ecdh_shared_secret(public, private, random) ==
  LET Made(product) == [ok |-> product # O, secret |-> ecc_native2bytes(product.x)]
  IN Made(EccPoint_mult(ecc_point_decompress(public), ecc_bytes2native(private), random))

easy_ecdh_shared_secret(xy, private, random) ==
  ecdh_shared_secret(easy_pub_key_transform(xy), private, random)

-----------------------------------------------------------------------------
(* ECDSA *)

\* r = 0 would be tried again, with the same k; s = 0 is not.
ecdsa_sign(private, hash, random) ==
  LET k == BelowN(random)
      e(r) == ModAdd(ecc_bytes2native(hash), (r * ecc_bytes2native(private)) % curve_n, curve_n)
      s(r) == (e(r) * ModInv(k, curve_n)) % curve_n
      Signed(r) == [ok |-> r # 0, signature |-> ecc_native2bytes(r) \o ecc_native2bytes(s(r))]
  IN Signed(BelowN(EccPoint_mult(curve_G, k, 1).x))

Affine(s) == apply_z(s.q, ModInv(s.z, prime))

\* The point r is added to s, which has a z of its own.
Added(s, r) ==
  LET Plus_r(t) == [q |-> XYcZ_add(t, s.q).sum, z |-> s.z ** (s.q.x -- t.x)] IN Plus_r(apply_z(r, s.z))

\* u1 G + u2 q, both factors bit by bit at once, with q + G prepared.
Shamir(u1, u2, q) ==
  LET points  == <<curve_G, q, Affine([q |-> XYcZ_add(curve_G, q).sum, z |-> q.x -- curve_G.x])>>
      bits    == NumBits(IF u1 > u2 THEN u1 ELSE u2)
      at(i)   == TestBit(u1, i) + 2 * TestBit(u2, i)
      turn(s, n) == IF n = 0 THEN s ELSE Added(s, points[n])
  IN Affine(Loop(LAMBDA s, i : turn(EccPoint_double_jacobian(s.q, s.z), at(i)),
                 [q |-> points[at(bits - 1)], z |-> 1], [j \in 1 .. bits - 1 |-> bits - 1 - j]))

\* Mutant: the bounds of r and s are not tested.
InRangeAnyway(v) == v # 0

InRange(v) == v # 0 /\ curve_n > v

ecdsa_verify(public, hash, signature) ==
  LET r == ecc_bytes2native(SubSeq(signature, 1, ECC_BYTES))
      s == ecc_bytes2native(SubSeq(signature, ECC_BYTES + 1, 2 * ECC_BYTES))
      z == ModInv(s, curve_n)
      u1 == (ecc_bytes2native(hash) * z) % curve_n
      u2 == (r * z) % curve_n
  IN InRange(r) /\ InRange(s) /\ BelowN(Shamir(u1, u2, ecc_point_decompress(public)).x) = r

easy_ecdsa_verify(xy, hash, signature) == ecdsa_verify(easy_pub_key_transform(xy), hash, signature)

-----------------------------------------------------------------------------
(* The group of the curve, and what the functions promise about it.          *)

Sum(q, r) ==
  LET slope == IF q.x = r.x THEN (3 * q.x * q.x - 3) * ModInv((2 * q.y) % prime, prime)
               ELSE (r.y - q.y) * ModInv((r.x - q.x) % prime, prime)
      x == ((slope % prime) * (slope % prime) - q.x - r.x) % prime
  IN IF q = O THEN r ELSE IF r = O THEN q
     ELSE IF q.x = r.x /\ (q.y + r.y) % prime = 0 THEN O
     ELSE [x |-> x, y |-> ((slope % prime) * (q.x - x) - q.y) % prime]

RECURSIVE Multiple(_)
Multiple(k) ==
  IF k = 0 THEN O
  ELSE IF k % 2 = 1 THEN Sum(Multiple(k - 1), curve_G)
  ELSE LET half == Multiple(k \div 2) IN Sum(half, half)

Times(k) == Multiple(k % curve_n)

\* The constants are those of a curve: p as in Vli, G a point of order n.
CurveFits ==
  /\ prime = P
  /\ Sq(curve_G.y) = ((Sq(curve_G.x) -- 3) ** curve_G.x) ++ curve_b
  /\ Multiple(curve_n) = O

(* EccPoint_mult: the ladder goes wrong at its ends.  The factor 1 gives the *)
(* third multiple, and n - 1 none.  A point with x = 0 leaves the last       *)
(* inverse without its factor.  initialZ is no multiple of p.                *)
MultIsRight(d, k, initialZ) ==
  EccPoint_mult(Times(d), k, initialZ) =
    IF k \in {0, 1} /\ Times(d).x # 0 THEN Times((k + 2) * d)
    ELSE IF Times(d).x = 0 \/ (k + 1) % curve_n = 0 THEN O ELSE Times(k * d)

\* Factors for which it is right.
Fit(k) == k \notin {0, 1, curve_n - 1} /\ k < curve_n

(* Two parties with keys made from these numbers agree on a secret, the x of *)
(* the common multiple, although each may take the other's y for its         *)
(* negative: x is all that is used.                                          *)
PartiesAgree(random1, random2, initialZ) ==
  LET d1 == BelowN(random1)
      d2 == BelowN(random2)
      shared == [ok |-> TRUE, secret |-> ecc_native2bytes(Times(d1 * d2).x)]
  IN Fit(d1) /\ Fit(d2) /\ 0 \notin {Times(d1).x, Times(d2).x} =>
       \A k1 \in {easy_ecc_gen_key(random1)}, k2 \in {easy_ecc_gen_key(random2)} :
         /\ k1.ok /\ k2.ok
         /\ easy_ecdh_shared_secret(k2.public, k1.private, initialZ) = shared
         /\ easy_ecdh_shared_secret(k1.public, k2.private, initialZ) = shared

\* FIPS 186: (r, s) is a signature of e by the key of d.
Valid(d, e, r, s) ==
  LET w == ModInv(s, curve_n)
      k == (e * w + r * w * d) % curve_n
  IN r \in 1 .. curve_n - 1 /\ s \in 1 .. curve_n - 1 /\ k # 0 /\ Times(k).x % curve_n = r

\* Nowhere on its way does Shamir's trick add a point to itself or to its negative, which XYcZ_add cannot.
Unhindered(d, u1, u2) ==
  /\ d \notin {1, curve_n - 1}
  /\ \A i \in 0 .. 8 * HalfBits - 1 :
       LET adds == TestBit(u1, i) + d * TestBit(u2, i)
           at   == 2 * ((u1 \div 2 ^ (i + 1)) + d * (u2 \div 2 ^ (i + 1)))
       IN adds = 0 \/ at = 0 \/ ((at - adds) % curve_n # 0 /\ (at + adds) % curve_n # 0)

(* What is accepted is valid, and what is valid accepted unless such an      *)
(* addition gets in the way.                                                 *)
VerifyIsRight(d, e, r, s) ==
  LET w        == ModInv(s % curve_n, curve_n)
      accepted == ecdsa_verify(Compressed(Times(d)), ecc_native2bytes(e),
                               ecc_native2bytes(r) \o ecc_native2bytes(s))
  IN /\ accepted => Valid(d, e, r, s)
     /\ Valid(d, e, r, s) /\ Unhindered(d, (e * w) % curve_n, (r * w) % curve_n) => accepted

(* The key with both coordinates is verified with as the key it is, or as    *)
(* its negative where the first byte of y is odd and y even, or the reverse. *)
EasyVerifies(d, e, r, s) ==
  LET q     == Times(d)
      bytes == ecc_native2bytes(q.y)
      taken == IF bytes[1] % 2 = q.y % 2 THEN d ELSE curve_n - d
      sig   == ecc_native2bytes(r) \o ecc_native2bytes(s)
  IN easy_ecdsa_verify(ecc_native2bytes(q.x) \o bytes, ecc_native2bytes(e), sig)
       = ecdsa_verify(Compressed(Times(taken)), ecc_native2bytes(e), sig)

(* A signature is valid, unless the number it is made with is none the       *)
(* ladder can do, or s has come out as 0.  It and its neighbours are         *)
(* verified as they should be.                                               *)
SignIsRight(d, e, random) ==
  \A sign \in {ecdsa_sign(ecc_native2bytes(d), ecc_native2bytes(e), random)} :
    LET r == ecc_bytes2native(SubSeq(sign.signature, 1, ECC_BYTES))
        s == ecc_bytes2native(SubSeq(sign.signature, ECC_BYTES + 1, 2 * ECC_BYTES))
        Beyond(v) == (v + curve_n) % VliMod
    IN /\ Fit(BelowN(random)) /\ r # 0 /\ s # 0 => sign.ok /\ Valid(d, e, r, s)
       /\ \A t \in {<<r, s>>, <<r, (s + 1) % curve_n>>, <<r, Beyond(s)>>, <<Beyond(r), s>>} :
            VerifyIsRight(d, e, t[1], t[2]) /\ EasyVerifies(d, e, t[1], t[2])

(* All ways to a public key lead to the same.                                *)
KeysAgree(random) ==
  \A a \in {easy_ecc_gen_key(random)}, c \in {ecc_make_key(random)} :
    a.ok => /\ easy_pri_trans_pubkey(a.private) = [ok |-> TRUE, public |-> a.public]
            /\ c.ok /\ c.private = a.private
            /\ Uncompressed(ecc_point_decompress(c.public)) = a.public
=============================================================================
