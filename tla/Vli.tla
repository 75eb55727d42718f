-------------------------------- MODULE Vli --------------------------------
(***************************************************************************)
(* easy_ecc.c, its big numbers: four digits each, the lowest first, and    *)
(* arithmetic on them that has to find out for itself whether a digit has  *)
(* overflowed.                                                             *)
(*                                                                         *)
(* A digit of the program has 64 bits and is taken apart into halves of    *)
(* 32.  Here a half has HalfBits bits.  The prime of secp256r1 is          *)
(* t^8 - t^7 + t^6 + t^3 - 1 with t = 2^32, and its reduction only moves   *)
(* halves about: both carry over to any t.                                 *)
(***************************************************************************)
EXTENDS Integers, Sequences, SequencesExt, Loops

CONSTANTS HalfBits,
          SUPPORTS_INT128   \* which of the two multiplications is compiled: FALSE, the one without 128 bits

NUM_ECC_DIGITS == 4
Digit == 1 .. NUM_ECC_DIGITS

DigitBits == 2 * HalfBits
HalfMod == 2 ^ HalfBits
DigitMod == 2 ^ DigitBits
VliMod == DigitMod ^ NUM_ECC_DIGITS

Bit(b) == IF b THEN 1 ELSE 0

\* The number that digits stand for, and the digits of a number.
RECURSIVE Value(_)
Value(d) == IF d = <<>> THEN 0 ELSE d[1] + DigitMod * Value(Tail(d))

Digits(n) == [i \in Digit |-> (n \div DigitMod ^ (i - 1)) % DigitMod]

curve_p == <<DigitMod - 1, HalfMod - 1, 0, (HalfMod - 1) * HalfMod + 1>>
P == Value(curve_p)

Zero == [i \in Digit |-> 0]
One == [Zero EXCEPT ![1] = 1]

-----------------------------------------------------------------------------
(* Bits, comparison, shifts.                                                 *)

vli_testBit(v, bit) == (v[bit \div DigitBits + 1] \div 2 ^ (bit % DigitBits)) % 2 = 1

vli_numDigits(v) == LET used == {i \in Digit : v[i] # 0} IN IF used = {} THEN 0 ELSE Max(used)

vli_numBits(v) ==
  LET n == vli_numDigits(v)
  IN IF n = 0 THEN 0 ELSE (n - 1) * DigitBits + Max({i \in 1 .. DigitBits : v[n] \div 2 ^ (i - 1) # 0})

\* 1, 0 or -1.
vli_cmp(left, right) ==
  LET differ == {i \in Digit : left[i] # right[i]}
  IN IF differ = {} THEN 0 ELSE IF left[Max(differ)] > right[Max(differ)] THEN 1 ELSE -1

vli_lshift(v, shift) ==
  LET out(i) == IF i = 0 THEN 0 ELSE v[i] \div 2 ^ (DigitBits - shift)
  IN [result |-> [i \in Digit |-> ((v[i] * 2 ^ shift) % DigitMod) + out(i - 1)],
      carry |-> out(NUM_ECC_DIGITS)]

\* carry is what comes in at the top.
ShiftedRight(v, carry) ==
  [i \in Digit |-> v[i] \div 2 +
     (DigitMod \div 2) * (IF i = NUM_ECC_DIGITS THEN carry ELSE v[i + 1] % 2)]

vli_rshift1(v) == ShiftedRight(v, 0)

-----------------------------------------------------------------------------
(* Sums and products.                                                        *)

\* Mutant: a sum equal to its operand carries nothing.
CarryBySizeOnly(wrapped, equal, carry) == Bit(wrapped)

\* Whether a digit has wrapped round is seen by its size; adding zero, or all ones and a carry, hands the carry on.
CarryOf(wrapped, equal, carry) == IF equal THEN carry ELSE Bit(wrapped)

vli_add(left, right) ==
  LET step(s, i) ==
        LET sum == (left[i] + right[i] + s.carry) % DigitMod
        IN [result |-> Append(s.result, sum), carry |-> CarryOf(sum < left[i], sum = left[i], s.carry)]
  IN Loop(step, [result |-> <<>>, carry |-> 0], [i \in Digit |-> i])

vli_sub(left, right) ==
  LET step(s, i) ==
        LET diff == (left[i] - right[i] - s.carry) % DigitMod
        IN [result |-> Append(s.result, diff), carry |-> CarryOf(diff > left[i], diff = left[i], s.carry)]
  IN Loop(step, [result |-> <<>>, carry |-> 0], [i \in Digit |-> i])

Hi(digit) == digit \div HalfMod
Lo(digit) == digit % HalfMod

\* Two digits.
mul_64_64(left, right) ==
  LET m0 == Lo(left) * Lo(right)
      m1 == Lo(left) * Hi(right)
      m2 == (Hi(left) * Lo(right) + Hi(m0) + m1) % DigitMod
      m3 == Hi(left) * Hi(right) + (IF m2 < m1 THEN HalfMod ELSE 0)
  IN [low |-> Lo(m0) + ((m2 * HalfMod) % DigitMod), high |-> (m3 + Hi(m2)) % DigitMod]

add_128_128(a, b) ==
  LET low == (a.low + b.low) % DigitMod
  IN [low |-> low, high |-> (a.high + b.high + Bit(low < a.low)) % DigitMod]

\* A sum of double digits has overflowed.  Without 128 bits only the upper digits are compared.
HasOverflowed(sum, product) ==
  \/ sum.high < product.high
  \/ SUPPORTS_INT128 /\ sum.high = product.high /\ sum.low < product.low

\* A product a square needs twice, and the bit that leaves at its top.
Once(product) == [product |-> product, out |-> 0]
Twice(product) ==
  [product |-> [low |-> (2 * product.low) % DigitMod,
                high |-> ((2 * product.high) % DigitMod) + ((2 * product.low) \div DigitMod)],
   out |-> (2 * product.high) \div DigitMod]

\* The digits of the sum of columns of products; column k weighs DigitMod^(k-1).
Columns(columns) ==
  LET term(s, t) ==
        LET sum == add_128_128(s.r01, t.product)
        IN [r01 |-> sum, r2 |-> s.r2 + t.out + Bit(HasOverflowed(sum, t.product))]
      column(s, terms) ==
        LET c == Loop(term, [r01 |-> s.r01, r2 |-> 0], terms)
        IN [result |-> Append(s.result, c.r01.low), r01 |-> [low |-> c.r01.high, high |-> c.r2]]
      all == Loop(column, [result |-> <<>>, r01 |-> [low |-> 0, high |-> 0]], columns)
  IN Append(all.result, all.r01.low)

\* From, to: the first factor's digits in column k + 1.
First(k) == IF k < NUM_ECC_DIGITS THEN 0 ELSE k + 1 - NUM_ECC_DIGITS

vli_mult(left, right) ==
  Columns([k1 \in 1 .. 2 * NUM_ECC_DIGITS - 1 |->
    LET k == k1 - 1
        last == IF k < NUM_ECC_DIGITS THEN k ELSE NUM_ECC_DIGITS - 1
    IN [j \in 1 .. last - First(k) + 1 |->
         LET i == First(k) + j - 1 IN Once(mul_64_64(left[i + 1], right[k - i + 1]))]])

vli_square(left) ==
  Columns([k1 \in 1 .. 2 * NUM_ECC_DIGITS - 1 |->
    LET k == k1 - 1
    IN [j \in 1 .. k \div 2 - First(k) + 1 |->
         LET i == First(k) + j - 1
             product == mul_64_64(left[i + 1], left[k - i + 1])
         IN IF i < k - i THEN Twice(product) ELSE Once(product)]])

-----------------------------------------------------------------------------
(* Modulo.                                                                   *)

vli_modAdd(left, right, mod) ==
  LET s == vli_add(left, right)
  IN IF s.carry = 1 \/ vli_cmp(s.result, mod) >= 0 THEN vli_sub(s.result, mod).result ELSE s.result

vli_modSub(left, right, mod) ==
  LET d == vli_sub(left, right)
  IN IF d.carry = 1 THEN vli_add(d.result, mod).result ELSE d.result

\* s is a result and how often it has left the four digits: up (positive) or down.
Plus(s, v) ==
  LET sum == vli_add(s.result, v) IN [result |-> sum.result, carry |-> s.carry + sum.carry]

PlusTwice(s, v) ==
  LET shifted == vli_lshift(v, 1) IN Plus([s EXCEPT !.carry = @ + shifted.carry], shifted.result)

Minus(s, v) ==
  LET diff == vli_sub(s.result, v) IN [result |-> diff.result, carry |-> s.carry - diff.carry]

RECURSIVE IntoRange(_)
IntoRange(s) ==
  IF s.carry < 0 THEN IntoRange(Plus(s, curve_p))
  ELSE IF s.carry > 0 \/ vli_cmp(curve_p, s.result) # 1 THEN IntoRange(Minus(s, curve_p))
  ELSE s.result

\* A product of eight digits, modulo curve_p: its upper halves, a8 to a15, come back as multiples of 1, t, .., t^7.
vli_mmod_fast(product) ==
  LET a(i) == IF i % 2 = 0 THEN Lo(product[i \div 2 + 1]) ELSE Hi(product[i \div 2 + 1])
      \* The digits with these halves, the highest first, 0 for none.
      of(h) == [i \in Digit |->
        LET half(j) == IF h[j] = 0 THEN 0 ELSE a(h[j])
        IN half(9 - 2 * i) * HalfMod + half(10 - 2 * i)]
      t  == [result |-> SubSeq(product, 1, NUM_ECC_DIGITS), carry |-> 0]
      s1 == PlusTwice(t,  of(<<15, 14, 13, 12, 11,  0,  0,  0>>))
      s2 == PlusTwice(s1, of(<< 0, 15, 14, 13, 12,  0,  0,  0>>))
      s3 == Plus(s2,      of(<<15, 14,  0,  0,  0, 10,  9,  8>>))
      s4 == Plus(s3,      of(<< 8, 13, 15, 14, 13, 11, 10,  9>>))
      d1 == Minus(s4,     of(<<10,  8,  0,  0,  0, 13, 12, 11>>))
      d2 == Minus(d1,     of(<<11,  9,  0,  0, 15, 14, 13, 12>>))
      d3 == Minus(d2,     of(<<12,  0, 10,  9,  8, 15, 14, 13>>))
      d4 == Minus(d3,     of(<<13,  0, 11, 10,  9,  0, 15, 14>>))
  IN IntoRange(d4)

vli_modMult_fast(left, right) == vli_mmod_fast(vli_mult(left, right))
vli_modSquare_fast(left) == vli_mmod_fast(vli_square(left))

Even(v) == v[1] % 2 = 0

\* u / 2 modulo mod.
Halved(u, mod) ==
  IF Even(u) THEN vli_rshift1(u)
  ELSE LET s == vli_add(u, mod) IN ShiftedRight(s.result, s.carry)

\* u - v modulo mod, the sum not reduced.
Less(u, v, mod) ==
  vli_sub(IF vli_cmp(u, v) < 0 THEN vli_add(u, mod).result ELSE u, v).result

RECURSIVE Euclid(_, _, _, _, _)
Euclid(a, b, u, v, mod) ==
  IF a = b THEN u
  ELSE IF Even(a) THEN Euclid(vli_rshift1(a), b, Halved(u, mod), v, mod)
  ELSE IF Even(b) THEN Euclid(a, vli_rshift1(b), u, Halved(v, mod), mod)
  ELSE IF vli_cmp(a, b) > 0
  THEN Euclid(vli_rshift1(vli_sub(a, b).result), b, Halved(Less(u, v, mod), mod), v, mod)
  ELSE Euclid(a, vli_rshift1(vli_sub(b, a).result), u, Halved(Less(v, u, mod), mod), mod)

vli_modInv(input, mod) == IF input = Zero THEN Zero ELSE Euclid(input, mod, One, Zero, mod)

\* product and multiple have two halves; the multiple of mod is taken off where it fits, and halved.
RECURSIVE TakenOff(_, _, _, _)
TakenOff(product, multiple, bits, mod) ==
  LET high == vli_cmp(multiple.high, product.high)
      fits == high < 0 \/ (high = 0 /\ vli_cmp(multiple.low, product.low) <= 0)
      low  == vli_sub(product.low, multiple.low)
      rest == [low |-> low.result,
               high |-> vli_sub(vli_sub(product.high, [One EXCEPT ![1] = low.carry]).result, multiple.high).result]
      next == [low |-> ShiftedRight(multiple.low, multiple.high[1] % 2), high |-> vli_rshift1(multiple.high)]
  IN IF bits > NUM_ECC_DIGITS * DigitBits \/ vli_cmp(multiple.low, mod) >= 0
     THEN TakenOff(IF fits THEN rest ELSE product, next, bits - 1, mod)
     ELSE product.low

\* mod, up bits further up.
Placed(mod, up) ==
  LET shifted == IF up % DigitBits = 0 THEN [result |-> mod, carry |-> 0] ELSE vli_lshift(mod, up % DigitBits)
      digit(from) == IF from \in Digit THEN shifted.result[from]
                     ELSE IF from = NUM_ECC_DIGITS + 1 THEN shifted.carry ELSE 0
      Halves(all) == [low |-> SubSeq(all, 1, NUM_ECC_DIGITS), high |-> SubSeq(all, NUM_ECC_DIGITS + 1, 2 * NUM_ECC_DIGITS)]
  IN Halves([i \in 1 .. 2 * NUM_ECC_DIGITS |-> digit(i - up \div DigitBits)])

Remainder(product, bits, mod) ==
  LET up == bits - vli_numBits(mod)
  IN IF up < 0 THEN product.low ELSE TakenOff(product, Placed(mod, up), bits, mod)

vli_modMult(left, right, mod) ==
  LET Modulo(product) ==
        LET low  == SubSeq(product, 1, NUM_ECC_DIGITS)
            high == SubSeq(product, NUM_ECC_DIGITS + 1, 2 * NUM_ECC_DIGITS)
            bits == IF high = Zero THEN vli_numBits(low) ELSE vli_numBits(high) + NUM_ECC_DIGITS * DigitBits
        IN Remainder([low |-> low, high |-> high], bits, mod)
  IN Modulo(vli_mult(left, right))

-----------------------------------------------------------------------------
(* What they stand for.                                                      *)

SumsAreExact(a, b) ==
  LET s == vli_add(Digits(a), Digits(b))
      d == vli_sub(Digits(a), Digits(b))
  IN /\ Value(s.result) + VliMod * s.carry = a + b
     /\ Value(d.result) - VliMod * d.carry = a - b
     /\ vli_cmp(Digits(a), Digits(b)) = IF a > b THEN 1 ELSE IF a < b THEN -1 ELSE 0

\* (a op b) modulo m, of numbers below m.
ModularSumsAreExact(a, b, m) ==
  /\ Value(vli_modAdd(Digits(a), Digits(b), Digits(m))) = (a + b) % m
  /\ Value(vli_modSub(Digits(a), Digits(b), Digits(m))) = (a - b) % m

ProductIsExact(a, b) == Value(vli_mult(Digits(a), Digits(b))) = a * b

\* Products of numbers of two digits cannot lose a carry.
Short(a) == Cardinality({i \in Digit : Digits(a)[i] # 0}) <= 2

\* A carry is lost where the upper digit of a partial sum is all ones; the first one weighs as much as a fifth digit.
ProductIsExactOrShort(a, b) ==
  LET missing == a * b - Value(vli_mult(Digits(a), Digits(b)))
      square  == a * a - Value(vli_square(Digits(a)))
  IN /\ missing >= 0 /\ missing % VliMod = 0 /\ square >= 0 /\ square % VliMod = 0
     /\ SUPPORTS_INT128 \/ (Short(a) /\ Short(b)) => missing = 0 /\ square = 0

ReductionIsExact(product) ==
  Value(vli_mmod_fast([i \in 1 .. 2 * NUM_ECC_DIGITS |-> (product \div DigitMod ^ (i - 1)) % DigitMod]))
    = product % P

\* m is a prime.  The general product is given any numbers, the inverse numbers below m.
ModuloIsExact(a, b, m) ==
  /\ Value(vli_modMult(Digits(a), Digits(b), Digits(m))) = Value(vli_mult(Digits(a), Digits(b))) % m
  /\ a \in 1 .. m - 1 => (a * Value(vli_modInv(Digits(a), Digits(m)))) % m = 1
=============================================================================
