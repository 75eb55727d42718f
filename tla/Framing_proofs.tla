--------------------------- MODULE Framing_proofs ----------------------------
(***************************************************************************)
(* What is proved of the three protocols that mark where a packet begins   *)
(* and ends.                                                               *)
(*                                                                         *)
(* AT (AtFrame.tla), for every buffer, header, digits and frames: whatever *)
(* the line does, the length MslFrameCapture goes by is the one written    *)
(* between the first two commas of what it has stored, so that what it     *)
(* reports is a frame, and only its last byte may be late.  And a frame    *)
(* that arrives whole is captured: the matcher goes through its header     *)
(* whatever came before, and finds no other in what follows.               *)
(*                                                                         *)
(* UART (UartProtocol.tla): a frame whose bytes all arrive is decoded, for *)
(* every CRC table, message and length of buffer that frames fit in.       *)
(* Three facts of data carry it: a message followed by its CRC has CRC     *)
(* zero, an escaped byte is no head or tail, and un-escaping gives back    *)
(* what was escaped.  The invariant follows the bytes of the frame.        *)
(*                                                                         *)
(* BLE (DkProtocol.tla, at the end): the buffer is overrun for a reason,   *)
(* for every header length, buffer and set of packets.                     *)
(*                                                                         *)
(* The three have no state in common, and of their constants only MaxFaults.*)
(* MCFrames drives one of them at a time; what is proved of each holds of   *)
(* it (at the end).                                                         *)
(***************************************************************************)
EXTENDS MCFrames, Induction, SequenceTheorems

-----------------------------------------------------------------------------
(* The inductive invariant                                                   *)

\* The first n bytes of frame hold the commas counted; first is the place of the first, and
\* len what follows from the second, which only counts once it is there.
FirstComma(frame, n, commas, first) ==
  /\ commas = 0 => \A i \in 1 .. n : frame[i] # Comma
  /\ commas > 0 => /\ first \in 1 .. n /\ frame[first] = Comma
                   /\ \A i \in 1 .. first - 1 : frame[i] # Comma
  /\ commas = 1 => \A i \in first + 1 .. n : frame[i] # Comma

SecondComma(frame, n, commas, first, len) ==
  IF commas < 2 THEN len = 0
  ELSE \E j \in first + 1 .. n :
         /\ frame[j] = Comma /\ \A i \in first + 1 .. j - 1 : frame[i] # Comma
         /\ \E v \in Values(SubSeq(frame, first + 1, j), 0) : len = (j + v) % CntMod

Scanned(frame, n, commas, first, len) ==
  /\ FirstComma(frame, n, commas, first)
  /\ SecondComma(frame, n, commas, first, len)

Types == TypeOK /\ wire \in Seq(Byte) /\ late \in Nat

\* A frame under way: more bytes than the header's, as many commas as follow it, none of them late.
UnderWay ==
  sUartRecStartFlg =>
    /\ sRxCnt \in 3 .. MaxCnt /\ sCommaCount <= sRxCnt - 3 /\ late = 0
    /\ Scanned(gUartFrame, sRxCnt, sCommaCount, pFristComma, gUartFrameLen)

\* A frame reported is as long as its length says, and that length was read.
Reported ==
  FlagResult =>
    /\ late <= 1
    /\ ~sUartRecStartFlg =>
         /\ gUartFrameLen = sRxCnt /\ sCommaCount > 1
         /\ Scanned(gUartFrame, sRxCnt, sCommaCount, pFristComma, gUartFrameLen)

AtInv == Types /\ UnderWay /\ Reported
-----------------------------------------------------------------------------
(* Reading numbers, and frames                                               *)

Stores(S) == [1 .. FrameSize -> S]

\* A buffer is a sequence.
LEMMA BufferIsSeq ==
  ASSUME NEW S, NEW f \in Stores(S)
  PROVE  f \in Seq(S) /\ Len(f) = FrameSize
  BY FrameAssumption DEF Stores, FrameSize

\* Sequences that agree from k to j have the same piece there.
LEMMA SamePiece ==
  ASSUME NEW S, NEW f \in Seq(S), NEW g \in Seq(S), NEW k \in Nat \ {0}, NEW j \in Nat,
         j <= Len(f), j <= Len(g), \A i \in k .. j : f[i] = g[i]
  PROVE  SubSeq(f, k, j) = SubSeq(g, k, j)
<1>1. /\ SubSeq(f, k, j) = [i \in 1 .. (j - k) + 1 |-> f[i + k - 1]]
      /\ SubSeq(g, k, j) = [i \in 1 .. (j - k) + 1 |-> g[i + k - 1]]
  OBVIOUS
<1>2. \A i \in 1 .. (j - k) + 1 : i + k - 1 \in k .. j
  OBVIOUS
<1> QED
  BY <1>1, <1>2

\* What follows the first byte that is no digit does not matter to the number before it.
LEMMA NumberEnds ==
  ASSUME NEW S, NEW s \in Seq(S), NEW m \in 1 .. Len(s), s[m] \notin DOMAIN Digits
  PROVE  Number(SubSeq(s, 1, m)) = Number(s)
<1> DEFINE t        == SubSeq(s, 1, m)
           begun(x) == {k \in 1 .. NUM_LENTH :
                          \A i \in 1 .. k : i <= Len(x) /\ x[i] \in DOMAIN Digits}
<1>1. t \in Seq(S) /\ Len(t) = m /\ \A i \in 1 .. m : t[i] = s[i]
  OBVIOUS
<1>2. \A k \in begun(s) : k < m
  OBVIOUS
<1>3. begun(s) = begun(t)
  <2>1. \A k \in begun(t) : k \in begun(s)
    BY <1>1, FrameAssumption
  <2>2. \A k \in begun(s) : k \in begun(t)
    BY <1>1, <1>2, FrameAssumption
  <2> QED
    BY <2>1, <2>2
<1>4. begun(s) \subseteq 1 .. m - 1
  BY <1>2, FrameAssumption
<1> DEFINE n == Cardinality(begun(s))
<1>5. n \in 0 .. m - 1
  <2>1. IsFiniteSet(1 .. m - 1) /\ Cardinality(1 .. m - 1) = m - 1
    <3>1. m - 1 \in Int /\ 1 \in Int
      OBVIOUS
    <3>2. /\ IsFiniteSet(1 .. m - 1)
          /\ Cardinality(1 .. m - 1) = IF 1 > m - 1 THEN 0 ELSE (m - 1) - 1 + 1
      BY <3>1, FS_Interval, Zenon
    <3> QED
      BY <3>2
  <2>2. IsFiniteSet(begun(s)) /\ Cardinality(begun(s)) <= Cardinality(1 .. m - 1)
    BY <1>4, <2>1, FS_Subset
  <2>3. Cardinality(begun(s)) \in Nat
    BY <2>2, FS_CardinalityType
  <2> QED
    BY <2>1, <2>2, <2>3
<1>6. Number(t) = SubSeq(t, 1, n) /\ Number(s) = SubSeq(s, 1, n)
  BY <1>3 DEF Number
<1> HIDE DEF n
<1>7. SubSeq(t, 1, n) = SubSeq(s, 1, n)
  <2>1. \A i \in 1 .. n : t[i] = s[i]
    BY <1>1, <1>5
  <2>2. n \in Nat /\ n <= Len(t) /\ n <= Len(s) /\ 1 \in Nat \ {0}
    BY <1>1, <1>5
  <2> QED
    BY <1>1, <2>1, <2>2, SamePiece
<1> QED
  BY <1>6, <1>7

LEMMA ValuesEnd ==
  ASSUME NEW S, NEW s \in Seq(S), NEW m \in 1 .. Len(s), s[m] \notin DOMAIN Digits
  PROVE  Values(SubSeq(s, 1, m), 0) = Values(s, 0)
  BY NumberEnds, Zenon DEF Values

\* A value is a uint8_t.
LEMMA ValuesType ==
  ASSUME NEW s PROVE Values(s, 0) \subseteq 0 .. CntMod - 1
<1>1. 0 \in 0 .. CntMod - 1
  BY FrameAssumption
<1> QED
  BY <1>1, Zenon DEF Values

-----------------------------------------------------------------------------
(* A byte b is stored at n + 1                                               *)

Store(frame, n, b) == [frame EXCEPT ![n + 1] = b]

\* What is stored before stays.
LEMMA StoreKeeps ==
  ASSUME NEW S, NEW frame \in Stores(S), NEW n \in Nat, n + 1 <= FrameSize, NEW b \in S
  PROVE  /\ Store(frame, n, b) \in Stores(S)
         /\ Store(frame, n, b)[n + 1] = b
         /\ \A i \in 1 .. n : Store(frame, n, b)[i] = frame[i]
  BY FrameAssumption DEF Store, Stores, FrameSize

\* The second comma, once found, stays where it is, and so does what was read before it.
LEMMA SecondStays ==
  ASSUME NEW S, NEW frame \in Stores(S), NEW n \in Nat, n + 1 <= FrameSize, NEW b \in S,
         NEW commas \in Nat, NEW more \in Nat, NEW first \in Nat \ {0}, NEW len,
         commas > 1, more > 1, SecondComma(frame, n, commas, first, len)
  PROVE  SecondComma(Store(frame, n, b), n + 1, more, first, len)
<1> DEFINE f == Store(frame, n, b)
<1>1. PICK j \in first + 1 .. n :
         /\ frame[j] = Comma /\ \A i \in first + 1 .. j - 1 : frame[i] # Comma
         /\ \E v \in Values(SubSeq(frame, first + 1, j), 0) : len = (j + v) % CntMod
  BY DEF SecondComma
<1>2. \A i \in 1 .. n : f[i] = frame[i]
  BY StoreKeeps
<1>3. f \in Seq(S) /\ frame \in Seq(S) /\ Len(f) = FrameSize /\ Len(frame) = FrameSize
  BY StoreKeeps, BufferIsSeq
<1>4. SubSeq(frame, first + 1, j) = SubSeq(f, first + 1, j)
  <2>1. \A i \in first + 1 .. j : frame[i] = f[i]
    BY <1>2
  <2>2. first + 1 \in Nat \ {0} /\ j \in Nat /\ j <= Len(frame) /\ j <= Len(f)
    BY <1>3
  <2> QED
    BY <1>3, <2>1, <2>2, SamePiece
<1>5. /\ j \in first + 1 .. n + 1
      /\ f[j] = Comma
      /\ \A i \in first + 1 .. j - 1 : f[i] # Comma
  BY <1>1, <1>2
<1> HIDE DEF f
<1>6. \E v \in Values(SubSeq(f, first + 1, j), 0) : len = (j + v) % CntMod
  BY <1>1, <1>4
<1>7. SecondComma(f, n + 1, more, first, len)
  BY <1>5, <1>6 DEF SecondComma
<1> QED
  BY <1>7 DEF f

\* A byte that is no comma, or comes after two.
LEMMA ScanOther ==
  ASSUME NEW S, NEW frame \in Stores(S), NEW n \in Nat, n + 1 <= FrameSize, NEW b \in S,
         NEW commas \in Nat, NEW more \in Nat, NEW first \in Nat, NEW len,
         Scanned(frame, n, commas, first, len),
         (b # Comma /\ more = commas) \/ (commas > 1 /\ more > 1)
  PROVE  Scanned(Store(frame, n, b), n + 1, more, first, len)
<1> DEFINE f == Store(frame, n, b)
<1>1. f[n + 1] = b /\ \A i \in 1 .. n : f[i] = frame[i]
  BY StoreKeeps
<1>2. FirstComma(f, n + 1, more, first)
  <2> HIDE DEF f
  <2>1. \A i \in 1 .. n + 1 : i \in 1 .. n \/ i = n + 1
    OBVIOUS
  <2>2. CASE commas = 0
    BY <1>1, <2>1, <2>2 DEF FirstComma, Scanned
  <2>3. CASE commas > 0
    <3>1. first \in 1 .. n /\ frame[first] = Comma /\ \A i \in 1 .. first - 1 : frame[i] # Comma
      BY <2>3 DEF FirstComma, Scanned
    <3>2. first \in 1 .. n + 1 /\ f[first] = Comma /\ \A i \in 1 .. first - 1 : f[i] # Comma
      BY <1>1, <3>1
    <3>3. more = 1 => \A i \in first + 1 .. n + 1 : f[i] # Comma
      <4>1. more = 1 => b # Comma /\ commas = 1
        OBVIOUS
      <4>2. commas = 1 => \A i \in first + 1 .. n : frame[i] # Comma
        BY DEF FirstComma, Scanned
      <4>3. \A i \in first + 1 .. n + 1 : i \in first + 1 .. n \/ i = n + 1
        BY <3>1
      <4> QED
        BY <1>1, <3>1, <4>1, <4>2, <4>3
    <3>4. more > 0
      BY <2>3
    <3> QED
      BY <3>2, <3>3, <3>4 DEF FirstComma
  <2> QED
    BY <2>2, <2>3
<1>3. SecondComma(f, n + 1, more, first, len)
  <2>1. CASE commas > 1
    <3>1. first \in Nat \ {0} /\ more > 1 /\ SecondComma(frame, n, commas, first, len)
      BY <2>1 DEF FirstComma, Scanned
    <3> QED
      BY <2>1, <3>1, SecondStays
  <2>2. CASE commas < 2
    BY <2>2 DEF Scanned, SecondComma
  <2> QED
    BY <2>1, <2>2
<1> QED
  BY <1>2, <1>3 DEF Scanned

\* The first comma.
LEMMA ScanFirst ==
  ASSUME NEW S, NEW frame \in Stores(S), NEW n \in Nat, n + 1 <= FrameSize, Comma \in S,
         NEW first, NEW len, Scanned(frame, n, 0, first, len)
  PROVE  Scanned(Store(frame, n, Comma), n + 1, 1, n + 1, len)
<1> DEFINE f == Store(frame, n, Comma)
<1>1. f[n + 1] = Comma /\ \A i \in 1 .. n : f[i] = frame[i]
  BY StoreKeeps
<1> HIDE DEF f
<1>2. \A i \in 1 .. n : f[i] # Comma
  BY <1>1 DEF Scanned, FirstComma
<1>3. len = 0
  BY DEF Scanned, SecondComma
<1>4. Scanned(f, n + 1, 1, n + 1, len)
  BY <1>1, <1>2, <1>3 DEF Scanned, FirstComma, SecondComma
<1> QED
  BY <1>4 DEF f

\* The second comma: the number in front of it is read, whatever the buffer holds behind it.
LEMMA ScanSecond ==
  ASSUME NEW S, NEW frame \in Stores(S), NEW n \in Nat, n + 1 <= FrameSize, Comma \in S,
         NEW first \in Nat, NEW len, Scanned(frame, n, 1, first, len),
         NEW told, told \in Length(SubSeq(Store(frame, n, Comma), first + 1, FrameSize), n + 1)
  PROVE  /\ Scanned(Store(frame, n, Comma), n + 1, 2, first, told)
         /\ told \in 0 .. CntMod - 1
<1> DEFINE f == Store(frame, n, Comma)
           s == SubSeq(f, first + 1, FrameSize)
           m == n + 1 - first
<1>1. f[n + 1] = Comma /\ \A i \in 1 .. n : f[i] = frame[i]
  BY StoreKeeps
<1>2. f \in Seq(S) /\ Len(f) = FrameSize /\ FrameSize \in Nat
  BY StoreKeeps, BufferIsSeq
<1>3. PICK v \in Values(s, 0) : told = (n + 1 + v) % CntMod
  BY DEF Length
<1>4. /\ first \in 1 .. n /\ frame[first] = Comma /\ \A i \in 1 .. first - 1 : frame[i] # Comma
      /\ \A i \in first + 1 .. n : frame[i] # Comma
  BY DEF Scanned, FirstComma
<1> HIDE DEF f
<1>5. Values(SubSeq(s, 1, m), 0) = Values(s, 0)
  <2>1. s \in Seq(S) /\ Len(s) = FrameSize - first /\ s[m] = f[n + 1] /\ m \in 1 .. Len(s)
    BY <1>2, <1>4
  <2>2. s[m] \notin DOMAIN Digits
    BY <1>1, <2>1, FrameAssumption, Zenon
  <2> QED
    BY <2>1, <2>2, ValuesEnd
<1>6. SubSeq(s, 1, m) = SubSeq(f, first + 1, n + 1)
  BY <1>2, <1>4
<1>7. FirstComma(f, n + 1, 2, first)
  BY <1>1, <1>4 DEF FirstComma
<1>8. SecondComma(f, n + 1, 2, first, told)
  <2>1. v \in Values(SubSeq(f, first + 1, n + 1), 0)
    BY <1>5, <1>6
  <2>2. n + 1 \in first + 1 .. n + 1 /\ \A i \in first + 1 .. n + 1 - 1 : f[i] # Comma
    BY <1>1, <1>4
  <2> QED
    BY <1>1, <1>3, <2>1, <2>2 DEF SecondComma
<1>9. told \in 0 .. CntMod - 1
  <2>1. v \in 0 .. CntMod - 1
    BY ValuesType
  <2> QED
    BY <1>3, <2>1, FrameAssumption
<1> QED
  BY <1>7, <1>8, <1>9 DEF Scanned, f

-----------------------------------------------------------------------------
(* One byte: Stored, then Taken                                              *)

Letter == Byte \cup {Nul}

\* What Stored and Kept make of the frame has the types of its variables ...
Fits(r) ==
  /\ r.frame \in Stores(Letter) /\ r.cnt \in 0 .. MaxCnt + 1 /\ r.commas \in 0 .. MaxCnt
  /\ r.first \in 0 .. MaxCnt + 1 /\ r.len \in 0 .. CntMod - 1

\* ... and holds what it has counted.
Counted(r) ==
  /\ r.cnt \in 3 .. MaxCnt + 1 /\ r.commas <= r.cnt - 3
  /\ Scanned(r.frame, r.cnt, r.commas, r.first, r.len)

LEMMA StoredCounts ==
  ASSUME AtInv, sUartRecStartFlg, NEW b \in Byte, NEW r \in Stored(b)
  PROVE  Fits(r) /\ Counted(r)
<1> DEFINE f == Store(gUartFrame, sRxCnt, b)
<1>1. /\ gUartFrame \in Stores(Letter) /\ b \in Letter
      /\ sRxCnt \in 3 .. MaxCnt /\ sRxCnt \in Nat /\ sRxCnt + 1 <= FrameSize
      /\ sCommaCount \in Nat /\ sCommaCount <= sRxCnt - 3
      /\ pFristComma \in Nat /\ pFristComma <= MaxCnt + 1 /\ gUartFrameLen \in 0 .. CntMod - 1
      /\ Scanned(gUartFrame, sRxCnt, sCommaCount, pFristComma, gUartFrameLen)
  BY FrameAssumption DEF AtInv, Types, TypeOK, UnderWay, Stores, Letter, FrameSize
<1>2. /\ r.frame = f /\ r.cnt = sRxCnt + 1
      /\ r.commas = IF b = Comma THEN sCommaCount + 1 ELSE sCommaCount
      /\ r.first = IF b = Comma /\ sCommaCount + 1 = 1 THEN sRxCnt + 1 ELSE pFristComma
      /\ r.len \in IF b = Comma /\ sCommaCount + 1 = 2
                   THEN Length(SubSeq(f, pFristComma + 1, FrameSize), sRxCnt + 1)
                   ELSE {gUartFrameLen}
  BY DEF Stored, Store
<1>3. f \in Stores(Letter)
  BY <1>1, StoreKeeps
<1> HIDE DEF f
<1>4. /\ r.frame \in Stores(Letter) /\ r.cnt \in 3 .. MaxCnt + 1 /\ r.commas \in 0 .. MaxCnt
      /\ r.commas <= r.cnt - 3 /\ r.first \in 0 .. MaxCnt + 1
  BY <1>1, <1>2, <1>3, FrameAssumption
<1>5. r.len \in 0 .. CntMod - 1 /\ Scanned(r.frame, r.cnt, r.commas, r.first, r.len)
  <2>1. CASE b = Comma /\ sCommaCount = 0
    <3>1. r.first = sRxCnt + 1 /\ r.commas = 1 /\ r.len = gUartFrameLen
      BY <1>2, <2>1
    <3>2. Scanned(f, sRxCnt + 1, 1, sRxCnt + 1, gUartFrameLen)
      BY <1>1, <2>1, ScanFirst DEF f
    <3> QED
      BY <1>1, <1>2, <3>1, <3>2
  <2>2. CASE b = Comma /\ sCommaCount = 1
    <3>1. /\ r.first = pFristComma /\ r.commas = 2
          /\ r.len \in Length(SubSeq(f, pFristComma + 1, FrameSize), sRxCnt + 1)
      BY <1>2, <2>2
    <3>2. /\ Scanned(f, sRxCnt + 1, 2, pFristComma, r.len)
          /\ r.len \in 0 .. CntMod - 1
      BY <1>1, <2>2, <3>1, ScanSecond DEF f
    <3> QED
      BY <1>2, <3>1, <3>2
  <2>3. CASE b # Comma \/ sCommaCount > 1
    <3>1. r.first = pFristComma /\ r.len = gUartFrameLen /\ r.commas \in Nat
      BY <1>1, <1>2, <2>3
    <3>2. (b # Comma /\ r.commas = sCommaCount) \/ (sCommaCount > 1 /\ r.commas > 1)
      BY <1>1, <1>2, <2>3
    <3>3. Scanned(f, sRxCnt + 1, r.commas, pFristComma, gUartFrameLen)
      BY <1>1, <3>1, <3>2, ScanOther DEF f
    <3> QED
      BY <1>1, <1>2, <3>1, <3>3
  <2> QED
    BY <1>1, <2>1, <2>2, <2>3
<1> QED
  BY <1>4, <1>5, FrameAssumption DEF Fits, Counted

LEMMA KeptFits ==
  ASSUME AtInv
  PROVE  Fits(Kept)
  BY DEF AtInv, Types, TypeOK, Fits, Kept, Stores, Letter

\* The letters of the header are no commas.
LEMMA HeaderLetters == "A" # Comma /\ "T" # Comma /\ "-" # Comma
  BY Zenon DEF Comma

\* What the buffer holds once a header has been seen.
HeaderFrame == [Cleared EXCEPT ![1] = "A", ![2] = "T", ![3] = "-"]

LEMMA HeaderIsStored ==
  /\ HeaderFrame \in Stores(Letter)
  /\ \A first : Scanned(HeaderFrame, 3, 0, first, 0)
<1>1. 3 <= FrameSize /\ FrameSize \in Nat
  BY FrameAssumption DEF FrameSize
<1>2. "A" \in Letter /\ "T" \in Letter /\ "-" \in Letter /\ Nul \in Letter
  BY DEF Letter, Byte
<1>3. HeaderFrame \in Stores(Letter)
  BY <1>1, <1>2 DEF HeaderFrame, Cleared, Stores
<1>4. HeaderFrame[1] = "A" /\ HeaderFrame[2] = "T" /\ HeaderFrame[3] = "-"
  BY <1>1 DEF HeaderFrame, Cleared
<1>5. \A i \in 1 .. 3 : i = 1 \/ i = 2 \/ i = 3
  OBVIOUS
<1>6. \A i \in 1 .. 3 : HeaderFrame[i] # Comma
  BY <1>4, <1>5, HeaderLetters
<1> QED
  BY <1>3, <1>6 DEF Scanned, FirstComma, SecondComma

LEMMA TakenKeeps ==
  ASSUME AtInv, NEW b \in Byte, NEW r, Taken(b, r), Fits(r), sUartRecStartFlg => Counted(r)
  PROVE  TypeOK' /\ (late \in Nat)' /\ UnderWay' /\ Reported'
<1> DEFINE done == sUartRecStartFlg /\ r.cnt > MinCnt /\ r.cnt = r.len
<1>1. /\ FlagResult' = done
      /\ sFlagHeader' \in 0 .. 2 /\ FlagResult' \in BOOLEAN /\ sUartRecStartFlg' \in BOOLEAN
  <2>1. sFlagHeader \in 0 .. 2 /\ sUartRecStartFlg \in BOOLEAN
    BY DEF AtInv, Types, TypeOK
  <2>2. FlagResult' = done
    BY DEF Taken
  <2>3. sFlagHeader' = CASE b = "A" -> 1 [] b = "T" -> IF sFlagHeader = 1 THEN 2 ELSE 0
                         [] b = "-" -> 0 [] OTHER -> sFlagHeader
    BY DEF Taken
  <2>4. sFlagHeader' \in 0 .. 2
    BY <2>1, <2>3
  <2>5. sUartRecStartFlg' \in BOOLEAN /\ FlagResult' \in BOOLEAN
    BY Zenon, <2>2 DEF Taken
  <2> QED
    BY <2>2, <2>4, <2>5
<1>2. /\ sUartRecStartFlg => late = 0
      /\ late \in Nat /\ age \in 0 .. MaxAge
  BY DEF AtInv, Types, TypeOK, UnderWay
<1>3. CASE Header(b)
  <2>1. /\ gUartFrame' = HeaderFrame /\ gUartFrameLen' = 0 /\ sCommaCount' = 0
        /\ pFristComma' = r.first /\ sRxCnt' = 3 /\ age' = 0 /\ late' = 0
    BY <1>3 DEF Taken, HeaderFrame, CommasAtHeader
  <2>2. sUartRecStartFlg'
    BY <1>3, FrameAssumption DEF Taken
  <2>3. TypeOK'
    BY <1>1, <2>1, HeaderIsStored, FrameAssumption
      DEF TypeOK, Fits, Stores, Letter, MaxAge
  <2>4. UnderWay'
    BY <2>1, HeaderIsStored, FrameAssumption DEF UnderWay
  <2> QED
    BY <2>1, <2>2, <2>3, <2>4 DEF Reported
<1>4. CASE ~Header(b)
  <2>1. /\ gUartFrame' = r.frame /\ gUartFrameLen' = r.len /\ sCommaCount' = r.commas
        /\ pFristComma' = r.first /\ sRxCnt' = r.cnt /\ age' = age
        /\ late' = IF sUartRecStartFlg /\ age > 2 THEN late + 1 ELSE late
    BY <1>4 DEF Taken
  <2>2. sUartRecStartFlg' => sUartRecStartFlg /\ ~done /\ r.cnt <= MaxCnt /\ age <= 2
    BY <1>4 DEF Taken, Age
  <2>3. TypeOK'
    BY <1>1, <1>2, <2>1, <2>2, FrameAssumption DEF TypeOK, Fits, Stores, Letter
  <2>4. (late \in Nat)'
    BY <1>2, <2>1
  <2>5. UnderWay'
    <3>1. sUartRecStartFlg' => late' = 0
      <4>1. CASE sUartRecStartFlg /\ ~(age > 2)
        BY <1>2, <2>1, <4>1
      <4>2. CASE ~(sUartRecStartFlg /\ ~(age > 2))
        <5>1. age <= 2 => ~(age > 2)
          BY <1>2 DEF MaxAge
        <5> QED
          BY <2>2, <4>2, <5>1
      <4> QED
        BY <4>1, <4>2
    <3> QED
      BY <2>1, <2>2, <3>1, FrameAssumption DEF UnderWay, Counted
  <2>6. Reported'
    <3>1. FlagResult' => late' <= 1
      <4>1. sUartRecStartFlg => late' = 0 \/ late' = 1
        BY <1>2, <2>1
      <4>2. FlagResult' => late' = 0 \/ late' = 1
        BY <1>1, <4>1, Zenon
      <4>3. late' = 0 \/ late' = 1 => late' <= 1
        OBVIOUS
      <4> QED
        BY <4>2, <4>3, Zenon
    <3>2. FlagResult' => Counted(r) /\ r.cnt = r.len /\ r.cnt > MinCnt
      BY <1>1
    <3>3. FlagResult' => r.commas > 1
      <4>1. Fits(r) /\ MinCnt \in Nat
        BY FrameAssumption
      <4> QED
        BY <3>2, <4>1, FrameAssumption DEF Fits, Counted, Scanned, SecondComma
    <3>4. FlagResult' => Scanned(r.frame, r.cnt, r.commas, r.first, r.len)
      BY <3>2 DEF Counted
    <3> QED
      BY <2>1, <3>1, <3>2, <3>3, <3>4 DEF Reported
  <2> QED
    BY <2>3, <2>4, <2>5, <2>6
<1> QED
  BY <1>3, <1>4

\* A byte of the line, or made up by it.
LEMMA CaptureKeeps ==
  ASSUME AtInv, NEW b \in Byte, MslFrameCapture(b)
  PROVE  TypeOK' /\ (late \in Nat)' /\ UnderWay' /\ Reported'
<1>1. CASE sUartRecStartFlg
  <2>1. PICK r \in Stored(b) : Taken(b, r)
    BY <1>1 DEF MslFrameCapture
  <2>2. Fits(r) /\ Counted(r)
    BY <1>1, StoredCounts
  <2> QED
    BY <2>1, <2>2, TakenKeeps
<1>2. CASE ~sUartRecStartFlg
  <2>1. Taken(b, Kept)
    BY <1>2 DEF MslFrameCapture
  <2> QED
    BY <1>2, <2>1, KeptFits, TakenKeeps
<1> QED
  BY <1>1, <1>2

-----------------------------------------------------------------------------
(* Every step                                                                *)

\* What MslFrameCapture writes, and the clock.
taken == <<capture, age>>

LEMMA Unmoved ==
  ASSUME AtInv, UNCHANGED capture, (age \in 0 .. MaxAge)'
  PROVE  TypeOK' /\ (late \in Nat)' /\ UnderWay' /\ Reported'
  BY DEF capture, AtInv, Types, TypeOK, UnderWay, Reported

LEMMA NextByte ==
  ASSUME wire \in Seq(Byte), wire # <<>>
  PROVE  wire[1] \in Byte /\ Tail(wire) \in Seq(Byte)
  OBVIOUS

LEMMA AtStep ==
  ASSUME AtInv, [Next]_vars
  PROVE  AtInv'
<1>1. wire \in Seq(Byte) /\ age \in 0 .. MaxAge
  BY DEF AtInv, Types, TypeOK
<1>2. ASSUME NEW f \in Frame, Send(f) PROVE AtInv'
  <2>1. (wire \in Seq(Byte))'
    BY <1>2, FrameAssumption DEF Send
  <2>2. UNCHANGED capture /\ age' = age
    BY <1>2 DEF Send
  <2> QED
    BY <1>1, <2>1, <2>2, Unmoved DEF AtInv, Types
<1>3. CASE Arrive
  <2>1. MslFrameCapture(wire[1]) /\ wire # <<>> /\ wire' = Tail(wire)
    BY <1>3 DEF Arrive
  <2>2. wire[1] \in Byte /\ (wire \in Seq(Byte))'
    BY <1>1, <2>1, NextByte
  <2> QED
    BY <2>1, <2>2, CaptureKeeps DEF AtInv, Types
<1>4. CASE Lose
  <2>1. wire # <<>> /\ wire' = Tail(wire) /\ UNCHANGED capture /\ age' = age
    BY <1>4 DEF Lose
  <2>2. (wire \in Seq(Byte))'
    BY <1>1, <2>1, NextByte
  <2> QED
    BY <1>1, <2>1, <2>2, Unmoved DEF AtInv, Types
<1>5. ASSUME NEW b \in Byte, Noise(b) PROVE AtInv'
  <2>1. MslFrameCapture(b) /\ wire' = wire
    BY <1>5 DEF Noise
  <2> QED
    BY <1>1, <2>1, CaptureKeeps DEF AtInv, Types
<1>6. CASE Tick
  <2>1. UNCHANGED capture /\ (age \in 0 .. MaxAge)' /\ wire' = wire
    BY <1>1, <1>6 DEF Tick, line, MaxAge
  <2> QED
    BY <1>1, <2>1, Unmoved DEF AtInv, Types
<1>7. CASE UNCHANGED vars
  <2>1. UNCHANGED capture /\ age' = age /\ wire' = wire
    BY <1>7 DEF vars, line
  <2> QED
    BY <1>1, <2>1, Unmoved DEF AtInv, Types
<1> QED
  BY <1>2, <1>3, <1>4, <1>5, <1>6, <1>7 DEF Next

LEMMA AtStart == Init => AtInv
<1> SUFFICES ASSUME Init PROVE AtInv
  OBVIOUS
<1>1. Cleared \in [1 .. FrameSize -> Letter]
  BY DEF Cleared, Letter
<1>2. Types
  <2>1. /\ 0 \in 0 .. 2 /\ 0 \in 0 .. MaxCnt + 1 /\ 0 \in 0 .. MaxCnt
        /\ 0 \in 0 .. CntMod - 1 /\ 0 \in 0 .. MaxAge /\ 0 \in Nat
    BY FrameAssumption DEF MaxAge
  <2>2. TypeOK
    BY <1>1, <2>1, Zenon DEF Init, TypeOK, Letter
  <2>3. wire \in Seq(Byte)
    BY DEF Init
  <2> QED
    BY <2>1, <2>2, <2>3 DEF Init, Types
<1>3. UnderWay /\ Reported
  BY DEF Init, UnderWay, Reported
<1> QED
  BY <1>2, <1>3 DEF AtInv

LEMMA AtInvariant == Spec => []AtInv
  BY AtStart, AtStep, PTL DEF Spec

-----------------------------------------------------------------------------
(* The buffers, counters and flags of MslFrameCapture keep their types: the  *)
(* byte stored last, one past the limit (at_code.c:104), still has a place.  *)
THEOREM CaptureIsWellTyped == Spec => []TypeOK
<1>1. AtInv => TypeOK
  BY DEF AtInv, Types
<1> QED
  BY AtInvariant, <1>1, PTL

(* Of a frame delivered, only the last byte may be late (at_code.c:109).     *)
THEOREM LateBytesEndFrames == Spec => []OnlyTheLastIsLate
<1>1. AtInv => OnlyTheLastIsLate
  BY DEF AtInv, Reported, OnlyTheLastIsLate
<1> QED
  BY AtInvariant, <1>1, PTL

LEMMA ScannedIsWellFormed ==
  ASSUME AtInv
  PROVE  ReportedIsWellFormed
<1> SUFFICES ASSUME FlagResult, ~sUartRecStartFlg
             PROVE  LET commas == {i \in 1 .. gUartFrameLen : gUartFrame[i] = Comma}
                    IN \E i, j \in commas :
                         /\ i < j /\ \A k \in commas : k = i \/ k >= j
                         /\ \E v \in Values(SubSeq(gUartFrame, i + 1, j), 0) : gUartFrameLen = j + v
  BY DEF ReportedIsWellFormed
<1> DEFINE commas == {i \in 1 .. gUartFrameLen : gUartFrame[i] = Comma}
<1>1. /\ gUartFrameLen \in 0 .. MaxCnt + 1 /\ sCommaCount > 1 /\ sCommaCount \in 0 .. MaxCnt
      /\ Scanned(gUartFrame, gUartFrameLen, sCommaCount, pFristComma, gUartFrameLen)
  BY DEF AtInv, Types, TypeOK, Reported
<1>2. /\ pFristComma \in 1 .. gUartFrameLen /\ gUartFrame[pFristComma] = Comma
      /\ \A k \in 1 .. pFristComma - 1 : gUartFrame[k] # Comma
  BY <1>1, FrameAssumption DEF Scanned, FirstComma
<1>3. PICK j \in pFristComma + 1 .. gUartFrameLen :
         /\ gUartFrame[j] = Comma
         /\ \A k \in pFristComma + 1 .. j - 1 : gUartFrame[k] # Comma
         /\ \E v \in Values(SubSeq(gUartFrame, pFristComma + 1, j), 0) :
              gUartFrameLen = (j + v) % CntMod
  BY <1>1, FrameAssumption DEF Scanned, SecondComma
<1>4. PICK v \in Values(SubSeq(gUartFrame, pFristComma + 1, j), 0) :
         gUartFrameLen = (j + v) % CntMod
  BY <1>3
<1>5. gUartFrameLen = j + v
  <2>1. v \in 0 .. CntMod - 1
    BY <1>4, ValuesType
  <2>2. j \in 1 .. CntMod - 1 /\ j <= gUartFrameLen
    BY <1>1, <1>2, <1>3, FrameAssumption
  <2>3. CASE j + v < CntMod
    BY <1>4, <2>1, <2>2, <2>3, FrameAssumption
  <2>4. CASE j + v >= CntMod
    <3>1. (j + v) % CntMod = j + v - CntMod
      BY <2>1, <2>2, <2>4, FrameAssumption
    <3> QED
      BY <1>4, <2>1, <2>2, <3>1, FrameAssumption
  <2> QED
    BY <2>1, <2>2, <2>3, <2>4, FrameAssumption
<1>6. pFristComma \in commas /\ j \in commas /\ pFristComma < j
  BY <1>1, <1>2, <1>3
<1>7. \A k \in commas : k = pFristComma \/ k >= j
  BY <1>1, <1>2, <1>3
<1> QED
  BY <1>4, <1>5, <1>6, <1>7

(* What is reported as a frame is as long as it says: the number between its *)
(* first two commas counts the bytes behind the second one (at_code.c:76).   *)
THEOREM ReportsAreWellFormed == Spec => []ReportedIsWellFormed
  BY AtInvariant, ScannedIsWellFormed, PTL
-----------------------------------------------------------------------------
(* A frame whose bytes all arrive                                            *)

\* The matcher has seen an A, or an A and a T, among the bytes 4 .. n of f, and none of the
\* header's bytes since.
SeenA(f, n) == \E i \in 4 .. n : f[i] = "A" /\ \A l \in i + 1 .. n : f[l] \notin HeaderBytes

SeenAT(f, n) ==
  \E i, j \in 4 .. n : /\ i < j /\ f[i] = "A" /\ f[j] = "T"
                       /\ \A l \in i + 1 .. n : f[l] \in HeaderBytes => l = j

Matched(f, n) ==
  /\ sFlagHeader = 1 => SeenA(f, n)
  /\ sFlagHeader = 2 => SeenAT(f, n)

\* n bytes of f have arrived, the header among them: if none was late they are stored.
Collected(f, n) ==
  late = 0 =>
    /\ \A i \in 1 .. n : gUartFrame[i] = f[i]
    /\ n < Len(f) => sUartRecStartFlg /\ sRxCnt = n
    /\ n = Len(f) /\ n > MinCnt => FlagResult /\ gUartFrameLen = n

\* What has become of the first n bytes of f.
Progress(f, n) ==
  /\ n \in {1, 2} => sFlagHeader = n
  /\ n >= 3 => Matched(f, n) /\ Collected(f, n)

Arrived == Len(current) - Len(wire)

Arriving ==
  intact =>
    /\ current \in Frame /\ Arrived \in 0 .. Len(current)
    /\ \A i \in 1 .. Len(wire) : wire[i] = current[Arrived + i]
    /\ NoHeaderInside(current) => Progress(current, Arrived)

\* f holds one more byte than n.
LEMMA MatchedNext ==
  ASSUME NEW f, NEW n \in Nat, n >= 3, n + 1 <= Len(f), Len(f) \in Nat, NoHeaderInside(f),
         Matched(f, n), NEW r, Taken(f[n + 1], r)
  PROVE  ~Header(f[n + 1]) /\ Matched(f, n + 1)'
<1> DEFINE b == f[n + 1]
<1>1. \A l \in 4 .. n + 1 : l \in 4 .. n \/ l = n + 1
  OBVIOUS
<1>2. sFlagHeader' = CASE b = "A" -> 1
                       [] b = "T" -> IF sFlagHeader = 1 THEN 2 ELSE 0
                       [] b = "-" -> 0
                       [] OTHER   -> sFlagHeader
  BY DEF Taken
<1>3. ASSUME Header(b) PROVE FALSE
  <2>1. b = "-" /\ sFlagHeader = 2
    BY <1>3 DEF Header
  <2>2. PICK i \in 4 .. n, j \in 4 .. n :
               /\ i < j /\ f[i] = "A" /\ f[j] = "T"
               /\ \A l \in i + 1 .. n : f[l] \in HeaderBytes => l = j
    BY <2>1 DEF Matched, SeenAT
  <2>3. \A l \in i .. n + 1 : f[l] \in HeaderBytes => l \in {i, j, n + 1}
    <3>1. \A l \in i .. n + 1 : l = i \/ l \in i + 1 .. n \/ l = n + 1
      OBVIOUS
    <3> QED
      BY <2>2, <3>1
  <2>4. i \in 4 .. Len(f) /\ j \in 4 .. Len(f) /\ n + 1 \in 4 .. Len(f) /\ j < n + 1
    OBVIOUS
  <2> QED
    BY <2>1, <2>2, <2>3, <2>4 DEF NoHeaderInside
<1>4. CASE b = "A"
  <2>1. sFlagHeader' = 1
    BY <1>2, <1>4
  <2>2. n + 1 \in 4 .. n + 1 /\ \A l \in (n + 1) + 1 .. n + 1 : FALSE
    OBVIOUS
  <2>3. SeenA(f, n + 1)
    BY <1>4, <2>2 DEF SeenA
  <2> QED
    BY <1>3, <2>1, <2>3 DEF Matched
<1>5. CASE b = "T"
  <2>1. sFlagHeader' = IF sFlagHeader = 1 THEN 2 ELSE 0
    BY <1>2, <1>5
  <2>2. ASSUME sFlagHeader = 1 PROVE SeenAT(f, n + 1)
    <3>1. PICK i \in 4 .. n : f[i] = "A" /\ \A l \in i + 1 .. n : f[l] \notin HeaderBytes
      BY <2>2 DEF Matched, SeenA
    <3>2. i \in 4 .. n + 1 /\ n + 1 \in 4 .. n + 1 /\ i < n + 1
      OBVIOUS
    <3>3. \A l \in i + 1 .. n + 1 : f[l] \in HeaderBytes => l = n + 1
      <4>1. \A l \in i + 1 .. n + 1 : l \in i + 1 .. n \/ l = n + 1
        OBVIOUS
      <4> QED
        BY <3>1, <4>1
    <3> QED
      BY <1>5, <3>1, <3>2, <3>3 DEF SeenAT
  <2> QED
    BY <1>3, <2>1, <2>2 DEF Matched
<1>6. CASE b = "-"
  <2>1. sFlagHeader' = 0
    BY <1>2, <1>6
  <2> QED
    BY <1>3, <2>1 DEF Matched
<1>7. CASE b \notin HeaderBytes
  <2>1. b # "A" /\ b # "T" /\ b # "-"
    BY <1>7 DEF HeaderBytes
  <2>2. sFlagHeader' = sFlagHeader
    BY <1>2, <2>1
  <2>3. SeenA(f, n) => SeenA(f, n + 1)
    <3>1. \A i \in 4 .. n : \A l \in i + 1 .. n + 1 : l \in i + 1 .. n \/ l = n + 1
      OBVIOUS
    <3> QED
      BY <1>1, <1>7, <3>1 DEF SeenA
  <2>4. SeenAT(f, n) => SeenAT(f, n + 1)
    <3>1. \A i \in 4 .. n : \A l \in i + 1 .. n + 1 : l \in i + 1 .. n \/ l = n + 1
      OBVIOUS
    <3>2. \A i \in 4 .. n : i \in 4 .. n + 1
      OBVIOUS
    <3> QED
      BY <1>7, <3>1, <3>2 DEF SeenAT
  <2> QED
    BY <1>3, <2>2, <2>3, <2>4 DEF Matched
<1> QED
  BY <1>4, <1>5, <1>6, <1>7 DEF HeaderBytes

\* The length read from the bytes stored is that of the frame, and is read before its end.
LEMMA LengthIsAnnounced ==
  ASSUME NEW f \in Seq(Byte), IsFrame(f), NEW n \in 3 .. Len(f),
         NEW frame \in Stores(Letter), \A i \in 1 .. n : frame[i] = f[i],
         NEW commas \in Nat, NEW first, NEW len, Scanned(frame, n, commas, first, len)
  PROVE  (commas > 1 => len = Len(f)) /\ (n = Len(f) => commas > 1)
<1>1. Len(f) \in 3 .. MaxCnt + 1 /\ f[1] = "A" /\ f[2] = "T" /\ f[3] = "-"
  BY DEF IsFrame
<1>2. PICK i \in 4 .. Len(f), j \in 4 .. Len(f) :
             /\ i < j /\ f[i] = Comma /\ f[j] = Comma
             /\ \A k \in 4 .. j - 1 : f[k] = Comma => k = i
             /\ Values(SubSeq(f, i + 1, j), 0) = {Len(f) - j}
  BY DEF IsFrame
<1>3. \A k \in 1 .. 3 : f[k] # Comma
  <2>1. \A k \in 1 .. 3 : k = 1 \/ k = 2 \/ k = 3
    OBVIOUS
  <2> QED
    BY <1>1, <2>1, HeaderLetters
<1>4. \A k \in 1 .. j - 1 : f[k] = Comma => k = i
  <2>1. \A k \in 1 .. j - 1 : k \in 1 .. 3 \/ k \in 4 .. j - 1
    OBVIOUS
  <2> QED
    BY <1>2, <1>3, <2>1
<1>5. ASSUME commas > 0, j <= n PROVE first = i
  <2>1. /\ first \in 1 .. n /\ frame[first] = Comma
        /\ \A k \in 1 .. first - 1 : frame[k] # Comma
    BY <1>5 DEF Scanned, FirstComma
  <2>2. f[first] = Comma /\ \A k \in 1 .. first - 1 : f[k] # Comma
    BY <2>1
  <2>3. ~(i < first)
    BY <1>2, <2>1, <2>2
  <2>4. first \in 1 .. j - 1
    BY <1>2, <2>1, <2>3
  <2> QED
    BY <1>4, <2>2, <2>4
<1>6. ASSUME commas > 1 PROVE len = Len(f)
  <2>1. first \in 1 .. n /\ frame[first] = Comma /\ \A k \in 1 .. first - 1 : frame[k] # Comma
    BY <1>6 DEF Scanned, FirstComma
  <2>2. PICK m \in first + 1 .. n :
               /\ frame[m] = Comma /\ \A k \in first + 1 .. m - 1 : frame[k] # Comma
               /\ \E v \in Values(SubSeq(frame, first + 1, m), 0) : len = (m + v) % CntMod
    BY <1>6 DEF Scanned, SecondComma
  <2>3. f[first] = Comma /\ f[m] = Comma /\ m \in Nat /\ first \in Nat /\ first < m
    BY <2>1, <2>2
  <2>4. ~(m < j)
    <3> SUFFICES ASSUME m < j PROVE FALSE
      OBVIOUS
    <3>1. m \in 1 .. j - 1 /\ first \in 1 .. j - 1
      BY <2>1, <2>2
    <3> QED
      BY <1>4, <2>3, <3>1
  <2>5. j <= n
    BY <2>2, <2>4
  <2>6. first = i
    BY <1>5, <1>6, <2>5
  <2>7. m = j
    <3>1. ASSUME j < m PROVE FALSE
      <4>1. j \in first + 1 .. m - 1 /\ j \in 1 .. n
        BY <1>2, <2>5, <2>6, <3>1
      <4> QED
        BY <1>2, <2>2, <4>1
    <3> QED
      BY <2>4, <3>1
  <2>8. SubSeq(frame, first + 1, m) = SubSeq(f, i + 1, j)
    <3>1. /\ frame \in Seq(Letter) /\ f \in Seq(Letter) /\ Len(frame) = FrameSize
          /\ i + 1 \in Nat \ {0} /\ j \in Nat
      BY BufferIsSeq DEF Letter
    <3>2. j <= Len(frame) /\ j <= Len(f)
      BY <1>1, <3>1, FrameAssumption DEF FrameSize
    <3>3. \A k \in i + 1 .. j : frame[k] = f[k]
      BY <2>5
    <3> QED
      BY <2>6, <2>7, <3>1, <3>2, <3>3, SamePiece
  <2>9. len = (j + (Len(f) - j)) % CntMod
    BY <1>2, <2>2, <2>7, <2>8
  <2>10. Len(f) % CntMod = Len(f)
    BY <1>1, FrameAssumption
  <2>11. j + (Len(f) - j) = Len(f)
    BY <1>1
  <2> QED
    BY <2>9, <2>10, <2>11
<1>7. ASSUME n = Len(f) PROVE commas > 1
  <2>1. j <= n /\ i \in 1 .. n /\ j \in 1 .. n
    BY <1>7
  <2>2. commas # 0
    <3>1. frame[i] = Comma
      BY <1>2, <2>1
    <3> QED
      BY <2>1, <3>1 DEF Scanned, FirstComma
  <2>3. commas # 1
    <3>1. frame[j] = Comma
      BY <1>2, <2>1
    <3>2. first = i
      BY <1>5, <2>1, <2>2
    <3>3. j \in first + 1 .. n
      BY <1>2, <2>1, <3>2
    <3> QED
      BY <3>1, <3>3 DEF Scanned, FirstComma
  <2> QED
    BY <2>2, <2>3
<1> QED
  BY <1>6, <1>7

LEMMA CollectedNext ==
  ASSUME AtInv, NEW f \in Seq(Byte), IsFrame(f), NEW n \in 3 .. Len(f) - 1,
         ~Header(f[n + 1]), Collected(f, n), MslFrameCapture(f[n + 1])
  PROVE  Collected(f, n + 1)'
<1> SUFFICES ASSUME late' = 0
             PROVE  /\ \A i \in 1 .. n + 1 : gUartFrame'[i] = f[i]
                    /\ n + 1 < Len(f) => sUartRecStartFlg' /\ sRxCnt' = n + 1
                    /\ n + 1 = Len(f) /\ n + 1 > MinCnt => FlagResult' /\ gUartFrameLen' = n + 1
  BY DEF Collected
<1> DEFINE b == f[n + 1]
<1>1. b \in Byte /\ n \in Nat /\ Len(f) \in 3 .. MaxCnt + 1
  BY DEF IsFrame
<1>2. late \in Nat /\ age \in 0 .. MaxAge
  BY DEF AtInv, Types, TypeOK
<1>3. PICK r : Taken(b, r) /\ (sUartRecStartFlg => r \in Stored(b))
  BY Zenon DEF MslFrameCapture
<1>4. late' = IF sUartRecStartFlg /\ age > 2 THEN late + 1 ELSE late
  BY <1>3 DEF Taken
<1>5. late = 0 /\ ~(sUartRecStartFlg /\ age > 2)
  BY <1>2, <1>4
<1>6. sUartRecStartFlg /\ sRxCnt = n /\ \A i \in 1 .. n : gUartFrame[i] = f[i]
  BY <1>1, <1>5 DEF Collected
<1>7. Fits(r) /\ Counted(r)
  BY <1>1, <1>3, <1>6, StoredCounts
<1>8. r.frame = Store(gUartFrame, n, b) /\ r.cnt = n + 1
  BY <1>3, <1>6 DEF Stored, Store
<1>9. \A i \in 1 .. n + 1 : r.frame[i] = f[i]
  <2>1. gUartFrame \in Stores(Letter) /\ b \in Letter /\ n + 1 <= FrameSize
    BY <1>1, FrameAssumption DEF AtInv, Types, TypeOK, Stores, Letter, FrameSize
  <2>2. r.frame[n + 1] = b /\ \A i \in 1 .. n : r.frame[i] = gUartFrame[i]
    BY <1>1, <1>8, <2>1, StoreKeeps
  <2>3. \A i \in 1 .. n + 1 : i \in 1 .. n \/ i = n + 1
    OBVIOUS
  <2> QED
    BY <1>6, <2>2, <2>3
<1>10. (r.commas > 1 => r.len = Len(f)) /\ (n + 1 = Len(f) => r.commas > 1)
  <2>1. /\ r.frame \in Stores(Letter) /\ r.commas \in Nat /\ n + 1 \in 3 .. Len(f)
        /\ Scanned(r.frame, n + 1, r.commas, r.first, r.len)
    BY <1>7, <1>8, FrameAssumption DEF Fits, Counted
  <2> QED
    BY <1>9, <2>1, LengthIsAnnounced
<1>11. r.commas \in Nat /\ (~(r.commas > 1) => r.len = 0)
  BY <1>7, FrameAssumption DEF Fits, Counted, Scanned, SecondComma
<1> DEFINE done == sUartRecStartFlg /\ r.cnt > MinCnt /\ r.cnt = r.len
<1>12. /\ gUartFrame' = r.frame /\ gUartFrameLen' = r.len /\ sRxCnt' = r.cnt /\ FlagResult' = done
       /\ sUartRecStartFlg' = (sUartRecStartFlg /\ ~done /\ r.cnt <= MaxCnt /\ age <= 2)
  <2>1. sUartRecStartFlg' = /\ Header(b) \/ (sUartRecStartFlg /\ ~done)
                            /\ (IF Header(b) THEN 3 ELSE r.cnt) <= MaxCnt
                            /\ (IF Header(b) THEN 0 ELSE Age) <= 2
    BY <1>3 DEF Taken
  <2>2. (IF Header(b) THEN 3 ELSE r.cnt) = r.cnt /\ (IF Header(b) THEN 0 ELSE Age) = age
    BY DEF Age
  <2>3. sUartRecStartFlg' = (sUartRecStartFlg /\ ~done /\ r.cnt <= MaxCnt /\ age <= 2)
    BY <2>1, <2>2, Zenon
  <2> QED
    BY <1>3, <2>3 DEF Taken
<1>13. age <= 2
  BY <1>2, <1>5, <1>6 DEF MaxAge
<1>14. n + 1 < Len(f) => sUartRecStartFlg' /\ sRxCnt' = n + 1
  <2>1. n + 1 < Len(f) => ~(r.cnt = r.len) /\ r.cnt <= MaxCnt
    <3>1. r.len = Len(f) \/ r.len = 0
      BY <1>10, <1>11
    <3>2. n + 1 < Len(f) => n + 1 # Len(f) /\ n + 1 # 0 /\ n + 1 <= MaxCnt
      BY <1>1, FrameAssumption
    <3> QED
      BY <1>8, <3>1, <3>2
  <2> QED
    BY <1>6, <1>8, <1>12, <1>13, <2>1
<1>15. n + 1 = Len(f) /\ n + 1 > MinCnt => FlagResult' /\ gUartFrameLen' = n + 1
  BY <1>6, <1>8, <1>10, <1>12
<1> QED
  BY <1>9, <1>12, <1>14, <1>15

\* The third byte of a frame ends a header, whatever went before.
LEMMA HeaderArrives ==
  ASSUME NEW f \in Seq(Byte), IsFrame(f), sFlagHeader = 2, MslFrameCapture("-")
  PROVE  Matched(f, 3)' /\ Collected(f, 3)'
<1>1. PICK r : Taken("-", r)
  BY Zenon DEF MslFrameCapture
<1>2. Header("-")
  BY DEF Header
<1>3. /\ sFlagHeader' = 0 /\ gUartFrame' = HeaderFrame /\ sRxCnt' = 3
  BY <1>1, <1>2 DEF Taken, HeaderFrame
<1>4. sUartRecStartFlg'
  BY <1>1, <1>2, FrameAssumption DEF Taken
<1>5. \A i \in 1 .. 3 : HeaderFrame[i] = f[i]
  <2>1. 3 <= FrameSize /\ FrameSize \in Nat
    BY FrameAssumption DEF FrameSize
  <2>2. HeaderFrame[1] = "A" /\ HeaderFrame[2] = "T" /\ HeaderFrame[3] = "-"
    BY <2>1 DEF HeaderFrame, Cleared
  <2>3. \A i \in 1 .. 3 : i = 1 \/ i = 2 \/ i = 3
    OBVIOUS
  <2> QED
    BY <2>2, <2>3 DEF IsFrame
<1>6. 3 < Len(f) /\ 3 # Len(f)
  BY DEF IsFrame
<1>7. Matched(f, 3)'
  BY <1>3 DEF Matched
<1>8. Collected(f, 3)'
  BY <1>3, <1>4, <1>5, <1>6 DEF Collected
<1> QED
  BY <1>7, <1>8

LEMMA ProgressNext ==
  ASSUME AtInv, NEW f \in Seq(Byte), IsFrame(f), NoHeaderInside(f), NEW n \in 0 .. Len(f) - 1,
         Progress(f, n), MslFrameCapture(f[n + 1])
  PROVE  Progress(f, n + 1)'
<1>1. f[1] = "A" /\ f[2] = "T" /\ f[3] = "-" /\ Len(f) \in Nat /\ n \in Nat
  BY DEF IsFrame
<1>2. PICK r : Taken(f[n + 1], r)
  BY Zenon DEF MslFrameCapture
<1>3. CASE n = 0
  <2>1. sFlagHeader' = 1
    BY <1>1, <1>2, <1>3 DEF Taken
  <2> QED
    BY <1>3, <2>1 DEF Progress
<1>4. CASE n = 1
  <2>1. sFlagHeader = 1
    BY <1>4 DEF Progress
  <2>2. sFlagHeader' = 2
    BY <1>1, <1>2, <1>4, <2>1 DEF Taken
  <2> QED
    BY <1>4, <2>2 DEF Progress
<1>5. CASE n = 2
  <2>1. sFlagHeader = 2 /\ MslFrameCapture("-")
    BY <1>1, <1>5 DEF Progress
  <2>2. Matched(f, 3)' /\ Collected(f, 3)'
    BY <2>1, HeaderArrives
  <2>3. n + 1 = 3 /\ n + 1 \notin {1, 2}
    BY <1>5
  <2> QED
    BY <2>2, <2>3 DEF Progress
<1>6. CASE n >= 3
  <2>1. Matched(f, n) /\ Collected(f, n)
    BY <1>6 DEF Progress
  <2>2. ~Header(f[n + 1]) /\ Matched(f, n + 1)'
    BY <1>1, <1>2, <1>6, <2>1, MatchedNext
  <2>3. n \in 3 .. Len(f) - 1
    BY <1>1, <1>6
  <2>4. Collected(f, n + 1)'
    BY <2>1, <2>2, <2>3, CollectedNext
  <2>5. n + 1 \notin {1, 2}
    BY <1>6
  <2> QED
    BY <2>2, <2>4, <2>5 DEF Progress
<1> QED
  BY <1>1, <1>3, <1>4, <1>5, <1>6

LEMMA ArrivingNext ==
  ASSUME FramesAreFrames, AtInv, Arriving, [Next]_vars
  PROVE  Arriving'
<1>1. wire \in Seq(Byte)
  BY DEF AtInv, Types
<1>2. ASSUME NEW f \in Frame, Send(f) PROVE Arriving'
  <2>1. wire' = f /\ current' = f
    BY <1>2 DEF Send
  <2>2. f \in Seq(Byte)
    BY FrameAssumption
  <2>3. Arrived' = 0
    BY <2>1, <2>2 DEF Arrived
  <2>4. Progress(current, Arrived)'
    BY <2>3 DEF Progress
  <2> QED
    BY <2>1, <2>2, <2>3, <2>4 DEF Arriving
<1>3. CASE Arrive
  <2> SUFFICES ASSUME intact
               PROVE  /\ current \in Frame /\ Arrived' \in 0 .. Len(current)
                      /\ \A i \in 1 .. Len(wire') : wire'[i] = current[Arrived' + i]
                      /\ NoHeaderInside(current) => Progress(current, Arrived)'
    BY <1>3 DEF Arrive, Arriving
  <2>1. /\ wire # <<>> /\ MslFrameCapture(wire[1]) /\ wire' = Tail(wire) /\ current' = current
    BY <1>3 DEF Arrive
  <2>2. /\ current \in Frame /\ Arrived \in 0 .. Len(current)
        /\ \A i \in 1 .. Len(wire) : wire[i] = current[Arrived + i]
        /\ NoHeaderInside(current) => Progress(current, Arrived)
    BY DEF Arriving
  <2>3. current \in Seq(Byte) /\ IsFrame(current)
    BY <2>2, FrameAssumption DEF FramesAreFrames
  <2>4. Len(wire) \in Nat \ {0} /\ Len(wire') = Len(wire) - 1 /\ Len(current) \in Nat
    BY <1>1, <2>1, <2>3
  <2>5. Arrived \in 0 .. Len(current) - 1 /\ Arrived' = Arrived + 1
    BY <2>1, <2>2, <2>4 DEF Arrived
  <2>6. \A i \in 1 .. Len(wire') : wire'[i] = current[Arrived' + i]
    <3>1. \A i \in 1 .. Len(wire') : wire'[i] = wire[i + 1] /\ i + 1 \in 1 .. Len(wire)
      BY <1>1, <2>1
    <3>2. \A i \in 1 .. Len(wire') : Arrived + (i + 1) = Arrived' + i
      BY <2>4, <2>5
    <3> QED
      BY <2>2, <3>1, <3>2
  <2>7. wire[1] = current[Arrived + 1]
    BY <2>2, <2>4
  <2>8. ASSUME NoHeaderInside(current) PROVE Progress(current, Arrived)'
    <3>1. PICK f \in Seq(Byte) : f = current
      BY <2>3
    <3> PICK n \in 0 .. Len(f) - 1 : n = Arrived
      BY <2>5, <3>1
    <3>2. IsFrame(f) /\ NoHeaderInside(f) /\ Progress(f, n) /\ MslFrameCapture(f[n + 1])
      BY <2>1, <2>2, <2>3, <2>7, <2>8, <3>1
    <3>3. Progress(f, n + 1)'
      BY <3>1, <3>2, ProgressNext
    <3>4. current' = f /\ Arrived' = n + 1
      BY <2>1, <2>5, <3>1
    <3> QED
      BY <3>3, <3>4 DEF Progress, Matched, Collected
  <2> QED
    BY <2>2, <2>5, <2>6, <2>8
<1>4. CASE Lose \/ \E b \in Byte : Noise(b)
  BY <1>4 DEF Lose, Noise, Arriving
<1>5. CASE Tick \/ UNCHANGED vars
  <2>1. UNCHANGED <<capture, line>>
    BY <1>5 DEF Tick, vars
  <2> QED
    BY <2>1 DEF capture, line, Arriving, Arrived, Progress, Matched, Collected
<1> QED
  BY <1>2, <1>3, <1>4, <1>5 DEF Next

LEMMA AllArrived ==
  ASSUME AtInv, Arriving, FramesAreFrames
  PROVE  IntactFrameIsCaptured
<1> SUFFICES ASSUME intact, wire = <<>>, late = 0, NoHeaderInside(current), Len(current) > MinCnt
             PROVE  FlagResult /\ SubSeq(gUartFrame, 1, gUartFrameLen) = current
  BY DEF IntactFrameIsCaptured
<1>1. current \in Seq(Byte) /\ IsFrame(current) /\ Arrived = Len(current)
  BY FrameAssumption DEF Arriving, Arrived, FramesAreFrames
<1>2. Len(current) \in 3 .. MaxCnt + 1
  BY <1>1 DEF IsFrame
<1>3. Collected(current, Len(current))
  BY <1>1, <1>2 DEF Arriving, Progress
<1>4. FlagResult /\ gUartFrameLen = Len(current) /\ \A i \in 1 .. Len(current) : gUartFrame[i] = current[i]
  BY <1>2, <1>3 DEF Collected
<1>5. SubSeq(gUartFrame, 1, Len(current)) = SubSeq(current, 1, Len(current))
  <2>1. gUartFrame \in Seq(Letter) /\ Len(gUartFrame) = FrameSize /\ current \in Seq(Letter)
    BY <1>1, BufferIsSeq DEF AtInv, Types, TypeOK, Stores, Letter
  <2>2. Len(current) <= Len(gUartFrame) /\ Len(current) \in Nat /\ 1 \in Nat \ {0}
    BY <1>2, <2>1, FrameAssumption DEF FrameSize
  <2> QED
    BY <1>4, <2>1, <2>2, SamePiece
<1>6. SubSeq(current, 1, Len(current)) = current
  BY <1>1
<1> QED
  BY <1>4, <1>5, <1>6

(* A frame whose bytes all arrive, none of them late, is captured as it was  *)
(* sent (at_code.c:53-115), whatever the line lost or made up before it, for *)
(* every header, buffer, digits and frames whose length is what they say.    *)
THEOREM IntactFramesAreCaptured ==
  ASSUME FramesAreFrames
  PROVE  Spec => []IntactFrameIsCaptured
<1>1. Init => AtInv /\ Arriving
  BY AtStart DEF Init, Arriving
<1>2. AtInv /\ Arriving /\ [Next]_vars => (AtInv /\ Arriving)'
  BY AtStep, ArrivingNext
<1>3. AtInv /\ Arriving => IntactFrameIsCaptured
  BY AllArrived
<1> QED
  BY <1>1, <1>2, <1>3, PTL DEF Spec

-----------------------------------------------------------------------------
(* The UART protocol                                                         *)

-----------------------------------------------------------------------------
(* The CRC                                                                   *)

Pair == Uart!Byte \X Uart!Byte

\* The successive values of the CRC over s.
CrcRun(s, g) ==
  /\ g \in [0 .. Len(s) -> Pair]
  /\ g[0] = <<0, 0>> /\ \A i \in 1 .. Len(s) : g[i] = Uart!CrcStep(g[i - 1], s[i])

LEMMA ByteIs ==
  ASSUME Uart!UartAssumption
  PROVE  /\ ByteMod \in Nat \ {0} /\ Uart!Byte \subseteq Int /\ 0 \in Uart!Byte
         /\ \A n \in Int : n % ByteMod \in Uart!Byte
         /\ \A b \in Uart!Byte : b % ByteMod = b
<1>1. ByteMod \in Nat \ {0}
  BY DEF Uart!UartAssumption
<1>2. \A n \in Int : n % ByteMod \in 0 .. ByteMod - 1
  BY <1>1, Remainder
<1>3. \A n \in 0 .. ByteMod - 1 : n % ByteMod = n
  BY <1>1, Remainder
<1>4. 0 .. ByteMod - 1 \subseteq Int /\ 0 \in 0 .. ByteMod - 1
  BY <1>1
<1> QED
  BY <1>1, <1>2, <1>3, <1>4, Zenon DEF Uart!Byte

LEMMA CrcStepType ==
  ASSUME Uart!UartAssumption, NEW r \in Pair, NEW b \in Uart!Byte
  PROVE  Uart!CrcStep(r, b) \in Pair
<1> DEFINE t == (b - r[1]) % ByteMod
<1>1. b \in Int /\ r[1] \in Int /\ r[2] \in Int
  BY ByteIs DEF Pair
<1>2. t \in Uart!Byte
  <2>1. b - r[1] \in Int
    BY <1>1
  <2> QED
    BY <2>1, ByteIs, Zenon
<1>3. TableLo[t] \in Uart!Byte /\ TableHi[t] \in Uart!Byte
  BY <1>2 DEF Uart!UartAssumption
<1>4. (r[2] + TableLo[t]) % ByteMod \in Uart!Byte
  <2>1. TableLo[t] \in Int
    BY <1>3, ByteIs
  <2> HIDE DEF t
  <2>2. r[2] + TableLo[t] \in Int
    BY <1>1, <2>1
  <2> QED
    BY <2>2, ByteIs, Zenon
<1> HIDE DEF t
<1>5. <<(r[2] + TableLo[t]) % ByteMod, TableHi[t]>> \in Pair
  BY <1>3, <1>4 DEF Pair
<1> QED
  BY <1>5 DEF Uart!CrcStep, t

LEMMA CrcRuns ==
  ASSUME Uart!UartAssumption, NEW s \in Seq(Uart!Byte)
  PROVE  \E g : CrcRun(s, g) /\ Uart!Crc(s) = g[Len(s)]
<1> DEFINE n == Len(s)
           step == [i \in Nat |-> [x \in Pair |-> IF i \in 1 .. n THEN Uart!CrcStep(x, s[i]) ELSE x]]
           Runs(g) == g = [i \in 0 .. n |-> IF i = 0 THEN <<0, 0>> ELSE Uart!CrcStep(g[i - 1], s[i])]
           crc == CHOOSE g : Runs(g)
<1>1. n \in Nat /\ \A i \in 1 .. n : s[i] \in Uart!Byte
  OBVIOUS
<1>2. <<0, 0>> \in Pair
  BY ByteIs DEF Pair
<1> HIDE DEF n
<1>3. step \in [Nat -> [Pair -> Pair]]
  BY <1>1, CrcStepType
<1>4. \A i \in 1 .. n : \A x \in Pair : step[i][x] = Uart!CrcStep(x, s[i])
  <2>1. \A i \in 1 .. n : step[i] = [x \in Pair |-> Uart!CrcStep(x, s[i])]
    BY <1>1
  <2> HIDE DEF step
  <2> QED
    BY <2>1
<1> HIDE DEF step
<1>5. PICK g \in [0 .. n -> Pair] : Recursion(g, n, <<0, 0>>, step)
  BY <1>1, <1>2, <1>3, RecursionExists
<1>6. Runs(g)
  <2>1. \A i \in 0 .. n : i = 0 \/ i \in 1 .. n
    BY <1>1
  <2>2. \A i \in 1 .. n : g[i - 1] \in Pair
    BY <1>1
  <2>3. \A i \in 0 .. n : g[i] = IF i = 0 THEN <<0, 0>> ELSE Uart!CrcStep(g[i - 1], s[i])
    BY <1>4, <1>5, <2>1, <2>2 DEF Recursion
  <2> QED
    BY <2>3
<1>7. Runs(crc)
  <2> HIDE DEF Runs
  <2> QED
    BY <1>6
<1>8. Uart!Crc(s) = crc[n]
  BY DEF Uart!Crc, n
<1> HIDE DEF crc
<1>9. crc[0] = <<0, 0>> /\ \A i \in 1 .. n : crc[i] = Uart!CrcStep(crc[i - 1], s[i])
  <2>1. \A i \in 0 .. n : crc[i] = IF i = 0 THEN <<0, 0>> ELSE Uart!CrcStep(crc[i - 1], s[i])
    BY <1>7
  <2>2. 0 \in 0 .. n /\ \A i \in 1 .. n : i \in 0 .. n /\ i # 0
    BY <1>1
  <2> HIDE DEF Runs
  <2>3. crc[0] = <<0, 0>>
    BY <2>1, <2>2
  <2> QED
    BY <2>1, <2>2, <2>3
<1>10. crc \in [0 .. n -> Pair]
  <2> DEFINE T == {k \in Nat : k \in 0 .. n => crc[k] \in Pair}
  <2>1. 0 \in T
    BY <1>2, <1>9
  <2>2. ASSUME NEW k \in Nat, k \in T PROVE k + 1 \in T
    <3> SUFFICES ASSUME k + 1 \in 0 .. n PROVE crc[k + 1] \in Pair
      OBVIOUS
    <3>1. crc[k] \in Pair /\ s[k + 1] \in Uart!Byte /\ k + 1 \in 1 .. n /\ (k + 1) - 1 = k
      BY <1>1, <2>2
    <3>2. crc[k + 1] = Uart!CrcStep(crc[k], s[k + 1])
      BY <1>9, <3>1
    <3> QED
      BY <3>1, <3>2, CrcStepType
  <2>3. Nat \subseteq T
    <3> HIDE DEF T
    <3> QED
      BY <2>1, <2>2, InductionOverNat
  <2>4. \A k \in 0 .. n : crc[k] \in Pair
    BY <1>1, <2>3
  <2>5. crc = [i \in 0 .. n |-> crc[i]]
    BY <1>7
  <2> QED
    BY <2>4, <2>5
<1> HIDE DEF Runs
<1>11. CrcRun(s, crc)
  BY <1>9, <1>10 DEF CrcRun, n
<1> QED
  BY <1>8, <1>11 DEF n

\* The CRC has only seen what it has been given.
LEMMA SameCrc ==
  ASSUME NEW s \in Seq(Uart!Byte), NEW t \in Seq(Uart!Byte), NEW g, NEW h, CrcRun(s, g), CrcRun(t, h),
         Len(s) <= Len(t), \A i \in 1 .. Len(s) : s[i] = t[i]
  PROVE  \A i \in 0 .. Len(s) : g[i] = h[i]
<1> DEFINE n == Len(s)
           T == {k \in Nat : k \in 0 .. n => g[k] = h[k]}
<1>1. n \in Nat /\ Len(t) \in Nat
  OBVIOUS
<1>2. 0 \in T
  BY DEF CrcRun
<1>3. ASSUME NEW k \in Nat, k \in T PROVE k + 1 \in T
  <2> SUFFICES ASSUME k + 1 \in 0 .. n PROVE g[k + 1] = h[k + 1]
    OBVIOUS
  <2>1. k \in 0 .. n /\ k + 1 \in 1 .. Len(s) /\ k + 1 \in 1 .. Len(t) /\ (k + 1) - 1 = k
    BY <1>1
  <2>2. g[k + 1] = Uart!CrcStep(g[k], s[k + 1]) /\ h[k + 1] = Uart!CrcStep(h[k], t[k + 1])
    BY <2>1 DEF CrcRun
  <2> QED
    BY <1>3, <2>1, <2>2
<1>4. Nat \subseteq T
  <2> HIDE DEF T
  <2> QED
    BY <1>2, <1>3, InductionOverNat
<1> QED
  BY <1>1, <1>4

\* A message followed by its CRC has CRC zero.
LEMMA OwnCrcIsZero ==
  ASSUME Uart!UartAssumption, NEW m \in Seq(Uart!Byte)
  PROVE  /\ m \o Uart!Crc(m) \in Seq(Uart!Byte) /\ Len(m \o Uart!Crc(m)) = Len(m) + 2
         /\ Uart!Crc(m \o Uart!Crc(m)) = <<0, 0>>
<1> DEFINE n == Len(m)
           s == m \o Uart!Crc(m)
<1>1. PICK g : CrcRun(m, g) /\ Uart!Crc(m) = g[n]
  BY CrcRuns
<1>2. n \in Nat
  OBVIOUS
<1>3. g[n] \in Pair
  BY <1>1, <1>2 DEF CrcRun
<1>4. PICK lo \in Uart!Byte, hi \in Uart!Byte : g[n] = <<lo, hi>>
  BY <1>3 DEF Pair
<1>5. /\ s \in Seq(Uart!Byte) /\ Len(s) = n + 2 /\ s[n + 1] = lo /\ s[n + 2] = hi
      /\ \A i \in 1 .. n : m[i] = s[i]
  BY <1>1, <1>4
<1> HIDE DEF s, n
<1>6. PICK h : CrcRun(s, h) /\ Uart!Crc(s) = h[Len(s)]
  BY <1>5, CrcRuns
<1>7. h[n] = <<lo, hi>>
  <2>1. \A i \in 0 .. n : g[i] = h[i]
    BY <1>1, <1>2, <1>5, <1>6, SameCrc DEF n
  <2> QED
    BY <1>2, <1>4, <2>1
<1>8. /\ h[n + 1] = Uart!CrcStep(h[n], lo)
      /\ h[n + 2] = Uart!CrcStep(h[n + 1], hi)
  <2>1. n + 1 \in 1 .. Len(s) /\ n + 2 \in 1 .. Len(s) /\ (n + 1) - 1 = n /\ (n + 2) - 1 = n + 1
    BY <1>2, <1>5
  <2> QED
    BY <1>5, <1>6, <2>1 DEF CrcRun
<1>9. ASSUME NEW b \in Uart!Byte, NEW c \in Uart!Byte PROVE Uart!CrcStep(<<b, c>>, b) = <<c, 0>>
  <2>1. (b - b) % ByteMod = 0
    BY ByteIs
  <2>2. (c + 0) % ByteMod = c
    BY ByteIs
  <2> QED
    BY <2>1, <2>2 DEF Uart!CrcStep, Uart!UartAssumption
<1>10. h[n + 1] = <<hi, 0>>
  BY <1>7, <1>8, <1>9
<1>11. h[n + 2] = <<0, 0>>
  BY <1>8, <1>9, <1>10, ByteIs
<1> QED
  BY <1>5, <1>6, <1>11 DEF s, n
-----------------------------------------------------------------------------
(* Un-escaping                                                               *)

Buffer == [1 .. BuffLen -> Uart!Byte]

Turn == [skip : BOOLEAN, len : Nat, out : Buffer]

\* The successive states of the loop over the first n bytes of s.
Turns(s, n, out, g) ==
  /\ g \in [0 .. n -> Turn]
  /\ g[0] = [skip |-> FALSE, len |-> 0, out |-> out]
  /\ \A i \in 1 .. n : g[i] = Uart!Reduced(s, g[i - 1], i)

LEMMA ReducedType ==
  ASSUME Uart!UartAssumption, NEW s \in Seq(Uart!Byte), NEW i \in Nat, i > 0, i < Len(s), NEW r \in Turn
  PROVE  Uart!Reduced(s, r, i) \in Turn /\ Uart!Reduced(s, r, i).len <= r.len + 1
<1>1. s[i] \in Uart!Byte /\ s[i + 1] \in Uart!Byte
  OBVIOUS
<1>2. r.out \in Buffer /\ r.len \in Nat /\ r.skip \in BOOLEAN
  BY DEF Turn
<1>3. FRAME_HEAD \in Uart!Byte /\ FRAME_TAIL \in Uart!Byte /\ uart_Esc \in Uart!Byte
  BY DEF Uart!UartAssumption
<1>4. \A b \in Uart!Byte, k \in Nat : [r.out EXCEPT ![k] = b] \in Buffer
  BY <1>2 DEF Buffer
<1>5. Uart!Unescaped(r.out, r.len + 1, s[i + 1]) \in Buffer
  <2>1. r.len + 1 \in Nat
    BY <1>2
  <2> QED
    BY <1>2, <1>3, <1>4, <2>1 DEF Uart!Unescaped
<1>6. [r.out EXCEPT ![r.len + 1] = s[i]] \in Buffer
  <2>1. r.len + 1 \in Nat
    BY <1>2
  <2> QED
    BY <1>1, <1>4, <2>1
<1>7. r.len + 1 \in Nat
  BY <1>2
<1>8. CASE r.skip
  <2>1. Uart!Reduced(s, r, i) = [r EXCEPT !.skip = FALSE]
    BY <1>8 DEF Uart!Reduced
  <2>2. [r EXCEPT !.skip = FALSE] \in Turn /\ [r EXCEPT !.skip = FALSE].len = r.len
    BY DEF Turn
  <2>3. r.len <= r.len + 1
    BY <1>2
  <2> QED
    BY <2>1, <2>2, <2>3
<1>9. CASE ~r.skip /\ s[i] = uart_Esc
  <2>1. Uart!Reduced(s, r, i) = [skip |-> TRUE, len |-> r.len + 1, out |-> Uart!Unescaped(r.out, r.len + 1, s[i + 1])]
    BY <1>9 DEF Uart!Reduced
  <2> QED
    BY <1>5, <1>7, <2>1 DEF Turn
<1>10. CASE ~r.skip /\ s[i] # uart_Esc
  <2>1. Uart!Reduced(s, r, i) = [skip |-> FALSE, len |-> r.len + 1, out |-> [r.out EXCEPT ![r.len + 1] = s[i]]]
    BY <1>10 DEF Uart!Reduced
  <2> QED
    BY <1>6, <1>7, <2>1 DEF Turn
<1> QED
  BY <1>8, <1>9, <1>10

LEMMA ReductionTurns ==
  ASSUME Uart!UartAssumption, NEW s \in Seq(Uart!Byte), NEW n \in Nat, n < Len(s), NEW out \in Buffer
  PROVE  \E g : Turns(s, n, out, g) /\ g[n].len <= n /\ Uart!Reduction_frame_data(s, n, out) = g[n]
<1> DEFINE first == [skip |-> FALSE, len |-> 0, out |-> out]
           step == [i \in Nat |-> [r \in Turn |-> IF i \in 1 .. n THEN Uart!Reduced(s, r, i) ELSE r]]
           Runs(g) == g = [i \in 0 .. n |-> IF i = 0 THEN first ELSE Uart!Reduced(s, g[i - 1], i)]
           turn == CHOOSE g : Runs(g)
<1>1. \A i \in 1 .. n : i \in Nat /\ i > 0 /\ i < Len(s)
  OBVIOUS
<1>2. first \in Turn /\ first.len = 0
  BY DEF Turn
<1>3. step \in [Nat -> [Turn -> Turn]]
  <2>1. \A i \in Nat : \A r \in Turn : (IF i \in 1 .. n THEN Uart!Reduced(s, r, i) ELSE r) \in Turn
    BY <1>1, ReducedType
  <2> QED
    BY <2>1
<1>4. \A i \in 1 .. n : \A r \in Turn : step[i][r] = Uart!Reduced(s, r, i)
  <2>1. \A i \in 1 .. n : step[i] = [r \in Turn |-> Uart!Reduced(s, r, i)]
    BY <1>1
  <2> HIDE DEF step
  <2> QED
    BY <2>1
<1>5. Uart!Reduction_frame_data(s, n, out) = turn[n]
  BY DEF Uart!Reduction_frame_data
<1> HIDE DEF step, first
<1>6. PICK g \in [0 .. n -> Turn] : Recursion(g, n, first, step)
  BY <1>2, <1>3, RecursionExists
<1>7. Runs(g)
  <2>1. \A i \in 0 .. n : i = 0 \/ i \in 1 .. n
    OBVIOUS
  <2>2. \A i \in 1 .. n : g[i - 1] \in Turn
    OBVIOUS
  <2>3. \A i \in 0 .. n : g[i] = IF i = 0 THEN first ELSE Uart!Reduced(s, g[i - 1], i)
    BY <1>4, <1>6, <2>1, <2>2 DEF Recursion
  <2> QED
    BY <2>3
<1>8. Runs(turn)
  <2> HIDE DEF Runs
  <2> QED
    BY <1>7
<1> HIDE DEF turn
<1>9. turn[0] = first /\ \A i \in 1 .. n : turn[i] = Uart!Reduced(s, turn[i - 1], i)
  <2>1. \A i \in 0 .. n : turn[i] = IF i = 0 THEN first ELSE Uart!Reduced(s, turn[i - 1], i)
    BY <1>8
  <2>2. 0 \in 0 .. n /\ \A i \in 1 .. n : i \in 0 .. n /\ i # 0
    OBVIOUS
  <2> HIDE DEF Runs
  <2>3. turn[0] = first
    BY <2>1, <2>2
  <2> QED
    BY <2>1, <2>2, <2>3
<1>10. \A i \in 0 .. n : turn[i] \in Turn /\ turn[i].len <= i
  <2> DEFINE T == {k \in Nat : k \in 0 .. n => turn[k] \in Turn /\ turn[k].len <= k}
  <2>1. 0 \in T
    BY <1>2, <1>9
  <2>2. ASSUME NEW k \in Nat, k \in T PROVE k + 1 \in T
    <3> SUFFICES ASSUME k + 1 \in 0 .. n PROVE turn[k + 1] \in Turn /\ turn[k + 1].len <= k + 1
      OBVIOUS
    <3>1. turn[k] \in Turn /\ turn[k].len <= k /\ k + 1 \in 1 .. n /\ (k + 1) - 1 = k
      BY <2>2
    <3>2. turn[k + 1] = Uart!Reduced(s, turn[k], k + 1)
      BY <1>9, <3>1
    <3>3. turn[k + 1] \in Turn /\ turn[k + 1].len <= turn[k].len + 1
      BY <1>1, <3>1, <3>2, ReducedType
    <3>4. turn[k].len \in Nat /\ turn[k + 1].len \in Nat
      BY <3>1, <3>3 DEF Turn
    <3> QED
      BY <3>1, <3>3, <3>4
  <2>3. Nat \subseteq T
    <3> HIDE DEF T
    <3> QED
      BY <2>1, <2>2, InductionOverNat
  <2> QED
    BY <2>3
<1>11. turn = [i \in 0 .. n |-> turn[i]]
  BY <1>8
<1>12. turn \in [0 .. n -> Turn]
  BY <1>10, <1>11
<1>13. Turns(s, n, out, turn)
  BY <1>9, <1>12 DEF Turns, first
<1> QED
  BY <1>5, <1>10, <1>13

\* What a byte becomes holds neither head nor tail, and is undone.
Undoes(b) ==
  \/ Uart!EscapeOne(b) = <<b>> /\ b \notin {FRAME_HEAD, FRAME_TAIL, uart_Esc}
  \/ \E code \in Uart!Byte \ {FRAME_HEAD, FRAME_TAIL} :
       /\ Uart!EscapeOne(b) = <<uart_Esc, code>>
       /\ \A out, i : Uart!Unescaped(out, i, code) = [out EXCEPT ![i] = b]

LEMMA EscapeIsUndone ==
  ASSUME Uart!UartAssumption, NEW b \in Uart!Byte
  PROVE  /\ Undoes(b) /\ Uart!EscapeOne(b) \in Seq(Uart!Byte \ {FRAME_HEAD, FRAME_TAIL})
         /\ Len(Uart!EscapeOne(b)) \in Nat /\ Len(Uart!EscapeOne(b)) >= 1
<1>1. /\ uart_Esc \in Uart!Byte \ {FRAME_HEAD, FRAME_TAIL} /\ SubHead \in Uart!Byte \ {FRAME_HEAD, FRAME_TAIL}
      /\ SubTail \in Uart!Byte \ {FRAME_HEAD, FRAME_TAIL} /\ uart_SubEsc \in Uart!Byte \ {FRAME_HEAD, FRAME_TAIL}
      /\ FRAME_HEAD # FRAME_TAIL /\ SubHead # SubTail /\ SubHead # uart_SubEsc /\ SubTail # uart_SubEsc
  BY DEF Uart!UartAssumption
<1>2. CASE b = FRAME_HEAD
  <2>1. Uart!EscapeOne(b) = <<uart_Esc, SubHead>>
    BY <1>2 DEF Uart!EscapeOne
  <2>2. \A out, i : Uart!Unescaped(out, i, SubHead) = [out EXCEPT ![i] = b]
    BY <1>2 DEF Uart!Unescaped
  <2> QED
    BY <1>1, <2>1, <2>2 DEF Undoes
<1>3. CASE b = FRAME_TAIL
  <2>1. Uart!EscapeOne(b) = <<uart_Esc, SubTail>>
    BY <1>1, <1>3 DEF Uart!EscapeOne
  <2>2. \A out, i : Uart!Unescaped(out, i, SubTail) = [out EXCEPT ![i] = b]
    BY <1>1, <1>3 DEF Uart!Unescaped
  <2> QED
    BY <1>1, <2>1, <2>2 DEF Undoes
<1>4. CASE b = uart_Esc
  <2>1. Uart!EscapeOne(b) = <<uart_Esc, uart_SubEsc>>
    BY <1>1, <1>4 DEF Uart!EscapeOne
  <2>2. \A out, i : Uart!Unescaped(out, i, uart_SubEsc) = [out EXCEPT ![i] = b]
    BY <1>1, <1>4 DEF Uart!Unescaped
  <2> QED
    BY <1>1, <2>1, <2>2 DEF Undoes
<1>5. CASE b \notin {FRAME_HEAD, FRAME_TAIL, uart_Esc}
  <2>1. Uart!EscapeOne(b) = <<b>>
    BY <1>5 DEF Uart!EscapeOne
  <2> QED
    BY <1>5, <2>1 DEF Undoes
<1> QED
  BY <1>2, <1>3, <1>4, <1>5

-----------------------------------------------------------------------------
(* A frame undone: the bytes of c, escaped, come back.                       *)

LEMMA Escaped ==
  ASSUME Uart!UartAssumption, NEW c \in Seq(Uart!Byte)
  PROVE  /\ Uart!Escape_frame_data(c) \in Seq(Uart!Byte \ {FRAME_HEAD, FRAME_TAIL})
         /\ \E g \in [0 .. Len(c) -> Seq(Uart!Byte \ {FRAME_HEAD, FRAME_TAIL})] :
              /\ g[0] = <<>> /\ Uart!Escape_frame_data(c) = g[Len(c)]
              /\ \A i \in 1 .. Len(c) : g[i] = g[i - 1] \o Uart!EscapeOne(c[i])
<1> DEFINE S == Uart!Byte \ {FRAME_HEAD, FRAME_TAIL}
           q == [i \in DOMAIN c |-> Uart!EscapeOne(c[i])]
<1>1. Len(c) \in Nat /\ DOMAIN c = 1 .. Len(c) /\ \A i \in 1 .. Len(c) : c[i] \in Uart!Byte
  OBVIOUS
<1>2. \A i \in DOMAIN c : Uart!EscapeOne(c[i]) \in Seq(S)
  BY <1>1, EscapeIsUndone
<1> HIDE DEF S
<1>3. q \in Seq(Seq(S)) /\ Len(q) = Len(c)
  BY <1>1, <1>2
<1>4. \A i \in 1 .. Len(c) : q[i] = Uart!EscapeOne(c[i])
  BY <1>1
<1>5. Uart!Escape_frame_data(c) = Uart!FlattenSeq(q)
  BY DEF Uart!Escape_frame_data
<1> HIDE DEF q
<1>10. Uart!FlattenSeq(q) = FlattenSeq(q)
  BY DEF Uart!FlattenSeq, FlattenSeq
<1>6. PICK g \in [0 .. Len(q) -> Seq(S)] : Joining(g, q) /\ FlattenSeq(q) = g[Len(q)]
  BY <1>3, FlattenSeqJoins
<1>7. g \in [0 .. Len(c) -> Seq(S)] /\ g[0] = <<>> /\ Uart!Escape_frame_data(c) = g[Len(c)]
  BY <1>3, <1>5, <1>6, <1>10 DEF Joining
<1>8. \A i \in 1 .. Len(c) : g[i] = g[i - 1] \o Uart!EscapeOne(c[i])
  BY <1>3, <1>4, <1>6 DEF Joining
<1>9. g[Len(c)] \in Seq(S)
  <2>1. Len(c) \in 0 .. Len(c)
    BY <1>1
  <2> QED
    BY <1>7, <2>1
<1> QED
  BY <1>7, <1>8, <1>9 DEF S

\* g[k] begins e, and is no shorter than k.
Begins(p, e) == Len(p) <= Len(e) /\ \A j \in 1 .. Len(p) : e[j] = p[j]

LEMMA JoinedBegin ==
  ASSUME NEW S, NEW n \in Nat, NEW q, \A i \in 1 .. n : q[i] \in Seq(S) /\ Len(q[i]) >= 1,
         NEW g \in [0 .. n -> Seq(S)], \A i \in 1 .. n : g[i] = g[i - 1] \o q[i]
  PROVE  \A k \in 0 .. n : Begins(g[k], g[n]) /\ k <= Len(g[k])
<1> DEFINE T == {m \in Nat : m \in 0 .. n => \A k \in 0 .. m : Begins(g[k], g[m])}
           U == {m \in Nat : m \in 0 .. n => m <= Len(g[m])}
<1>1. \A k \in 0 .. n : g[k] \in Seq(S) /\ Len(g[k]) \in Nat
  OBVIOUS
<1>2. ASSUME NEW m \in Nat, m + 1 \in 0 .. n
      PROVE  /\ m \in 0 .. n /\ m + 1 \in 1 .. n /\ Begins(g[m], g[m + 1]) /\ Begins(g[m + 1], g[m + 1])
             /\ Len(g[m + 1]) >= Len(g[m]) + 1
  <2>1. m \in 0 .. n /\ m + 1 \in 1 .. n /\ (m + 1) - 1 = m
    BY <1>2
  <2>2. g[m + 1] = g[m] \o q[m + 1]
    BY <2>1
  <2>3. q[m + 1] \in Seq(S) /\ Len(q[m + 1]) >= 1 /\ g[m] \in Seq(S)
    BY <2>1
  <2> QED
    BY <2>1, <2>2, <2>3 DEF Begins
<1>3. 0 \in T
  <2>1. \A k \in 0 .. 0 : k = 0
    OBVIOUS
  <2>2. Begins(g[0], g[0])
    BY <1>1 DEF Begins
  <2> QED
    BY <2>1, <2>2
<1>4. ASSUME NEW m \in Nat, m \in T PROVE m + 1 \in T
  <2> SUFFICES ASSUME m + 1 \in 0 .. n, NEW k \in 0 .. m + 1 PROVE Begins(g[k], g[m + 1])
    OBVIOUS
  <2>1. CASE k = m + 1
    BY <1>2, <2>1
  <2>2. CASE k # m + 1
    <3>1. k \in 0 .. m /\ k \in 0 .. n
      BY <2>2
    <3>2. Begins(g[k], g[m]) /\ Begins(g[m], g[m + 1])
      BY <1>2, <1>4, <3>1
    <3>3. Len(g[k]) \in Nat /\ Len(g[m]) \in Nat /\ Len(g[m + 1]) \in Nat
      BY <1>1, <1>2, <3>1
    <3> QED
      BY <3>2, <3>3 DEF Begins
  <2> QED
    BY <2>1, <2>2
<1>5. 0 \in U
  BY <1>1
<1>6. ASSUME NEW m \in Nat, m \in U PROVE m + 1 \in U
  <2> SUFFICES ASSUME m + 1 \in 0 .. n PROVE m + 1 <= Len(g[m + 1])
    OBVIOUS
  <2>1. m <= Len(g[m]) /\ Len(g[m + 1]) >= Len(g[m]) + 1
    BY <1>2, <1>6
  <2>2. Len(g[m]) \in Nat /\ Len(g[m + 1]) \in Nat
    BY <1>1, <1>2
  <2> QED
    BY <2>1, <2>2
<1>7. Nat \subseteq T
  <2> HIDE DEF T
  <2> QED
    BY <1>3, <1>4, InductionOverNat
<1>8. Nat \subseteq U
  <2> HIDE DEF U
  <2> QED
    BY <1>5, <1>6, InductionOverNat
<1> QED
  BY <1>7, <1>8

\* r stands after the first k bytes of c.
Undone(r, c, k) ==
  /\ r.skip = FALSE /\ r.len = k
  /\ \A j \in 1 .. k : r.out[j] = c[j]

\* One byte more.
LEMMA ByteUndone ==
  ASSUME Uart!UartAssumption, NEW s \in Seq(Uart!Byte), NEW n \in Nat, n < Len(s), NEW out, NEW h, Turns(s, n, out, h),
         NEW c, NEW k \in Nat, k < BuffLen, c[k + 1] \in Uart!Byte,
         NEW l \in Nat, Undone(h[l], c, k), NEW q, q = Uart!EscapeOne(c[k + 1]),
         l + Len(q) <= n, \A j \in 1 .. Len(q) : s[l + j] = q[j]
  PROVE  Undone(h[l + Len(q)], c, k + 1)
<1> DEFINE b == c[k + 1]
<1>1. BuffLen \in Nat
  BY DEF Uart!UartAssumption
<1>2. \A i \in 1 .. n : h[i] = Uart!Reduced(s, h[i - 1], i)
  BY DEF Turns
<1>3. Undoes(b)
  BY EscapeIsUndone
<1>4. Len(q) \in Nat /\ Len(q) >= 1
  BY EscapeIsUndone
<1>5. l \in 0 .. n /\ l + 1 \in 1 .. n /\ (l + 1) - 1 = l
  BY <1>4
<1>6. h[l + 1] = Uart!Reduced(s, h[l], l + 1) /\ s[l + 1] = q[1]
  <2>1. h[l + 1] = Uart!Reduced(s, h[(l + 1) - 1], l + 1)
    BY <1>2, <1>5, Zenon
  <2>2. 1 \in 1 .. Len(q)
    BY <1>4
  <2> QED
    BY <1>5, <2>1, <2>2
<1>7. h[l] \in Turn /\ h[l].skip = FALSE /\ h[l].len = k /\ \A j \in 1 .. k : h[l].out[j] = c[j]
  BY <1>5 DEF Turns, Undone
<1>8. h[l].out \in [1 .. BuffLen -> Uart!Byte]
  BY <1>7 DEF Turn, Buffer
<1> DEFINE o == [h[l].out EXCEPT ![k + 1] = b]
<1>9. \A j \in 1 .. k + 1 : o[j] = c[j]
  <2>1. \A j \in 1 .. BuffLen : o[j] = IF j = k + 1 THEN b ELSE h[l].out[j]
    BY <1>8
  <2>2. \A j \in 1 .. k + 1 : j \in 1 .. BuffLen /\ (j = k + 1 \/ j \in 1 .. k)
    BY <1>1
  <2> HIDE DEF o
  <2> QED
    BY <1>7, <2>1, <2>2
<1>10. CASE q = <<b>> /\ b # uart_Esc
  <2>1. h[l + 1] = [skip |-> FALSE, len |-> k + 1, out |-> [h[l].out EXCEPT ![k + 1] = b]]
    BY <1>6, <1>7, <1>10 DEF Uart!Reduced
  <2>2. Len(q) = 1
    BY <1>10
  <2> HIDE DEF b, o
  <2>3. h[l + 1].skip = FALSE /\ h[l + 1].len = k + 1 /\ h[l + 1].out = o
    BY <2>1 DEF o
  <2> QED
    BY <1>9, <2>2, <2>3 DEF Undone
<1>11. ASSUME NEW code, q = <<uart_Esc, code>>, \A x, i : Uart!Unescaped(x, i, code) = [x EXCEPT ![i] = b]
       PROVE  Undone(h[l + Len(q)], c, k + 1)
  <2>1. Len(q) = 2 /\ q[1] = uart_Esc /\ q[2] = code
    BY <1>11
  <2>2. s[l + 2] = code
    <3>1. 2 \in 1 .. Len(q)
      BY <2>1
    <3> QED
      BY <2>1, <3>1
  <2>3. (l + 1) + 1 = l + 2
    OBVIOUS
  <2>4. h[l + 1] = [skip |-> TRUE, len |-> k + 1, out |-> Uart!Unescaped(h[l].out, k + 1, code)]
    BY <1>6, <1>7, <2>1, <2>2, <2>3 DEF Uart!Reduced
  <2>5. h[l + 1] = [skip |-> TRUE, len |-> k + 1, out |-> [h[l].out EXCEPT ![k + 1] = b]]
    <3> HIDE DEF b
    <3>1. Uart!Unescaped(h[l].out, k + 1, code) = [h[l].out EXCEPT ![k + 1] = b]
      BY <1>11, Zenon
    <3> QED
      BY <2>4, <3>1, Zenon
  <2>6. h[l + 2] = Uart!Reduced(s, h[l + 1], l + 2)
    <3>1. l + 2 \in 1 .. n /\ (l + 2) - 1 = l + 1
      BY <2>1
    <3>2. h[l + 2] = Uart!Reduced(s, h[(l + 2) - 1], l + 2)
      BY <1>2, <3>1, Zenon
    <3> QED
      BY <3>1, <3>2
  <2> HIDE DEF b, o
  <2>7. h[l + 2] = [h[l + 1] EXCEPT !.skip = FALSE]
    <3>1. h[l + 1].skip
      BY <2>5
    <3> QED
      BY <2>6, <3>1 DEF Uart!Reduced
  <2>8. h[l + 2].skip = FALSE /\ h[l + 2].len = k + 1 /\ h[l + 2].out = o
    BY <2>5, <2>7 DEF o
  <2> QED
    BY <1>9, <2>1, <2>8 DEF Undone
<1> HIDE DEF b, o
<1> QED
  <2>1. CASE q = <<b>> /\ b \notin {FRAME_HEAD, FRAME_TAIL, uart_Esc}
    BY <1>10, <2>1
  <2>2. CASE \E code \in Uart!Byte \ {FRAME_HEAD, FRAME_TAIL} :
               q = <<uart_Esc, code>> /\ \A x, i : Uart!Unescaped(x, i, code) = [x EXCEPT ![i] = b]
    BY <1>11, <2>2
  <2> QED
    BY <1>3, <2>1, <2>2 DEF Undoes, b

LEMMA Joined ==
  ASSUME NEW S, NEW p \in Seq(S), NEW q \in Seq(S)
  PROVE  /\ Len(p) \in Nat /\ Len(q) \in Nat /\ Len(p \o q) = Len(p) + Len(q)
         /\ \A j \in 1 .. Len(q) : (p \o q)[Len(p) + j] = q[j]
  OBVIOUS

\* c is what r has put into the buffer.
Restored(r, c) == r.out \in Buffer /\ r.len = Len(c) /\ SubSeq(r.out, 1, r.len) = c

LEMMA FrameIsUndone ==
  ASSUME Uart!UartAssumption, NEW c \in Seq(Uart!Byte), NEW e, e = Uart!Escape_frame_data(c), Len(e) <= BuffLen,
         NEW s \in Seq(Uart!Byte), s = e \o <<FRAME_TAIL>>, NEW out \in Buffer,
         NEW r, r = Uart!Reduction_frame_data(s, Len(e), out)
  PROVE  Restored(r, c) /\ Len(c) <= Len(e)
<1> DEFINE n == Len(c)
           S == Uart!Byte \ {FRAME_HEAD, FRAME_TAIL}
           q == [i \in 1 .. n |-> Uart!EscapeOne(c[i])]
<1>1. PICK g \in [0 .. n -> Seq(S)] : g[0] = <<>> /\ e = g[n] /\ \A i \in 1 .. n : g[i] = g[i - 1] \o Uart!EscapeOne(c[i])
  BY Escaped
<1>2. n \in Nat /\ \A i \in 1 .. n : c[i] \in Uart!Byte
  OBVIOUS
<1>3. e \in Seq(Uart!Byte) /\ Len(e) \in Nat /\ Len(s) = Len(e) + 1 /\ \A j \in 1 .. Len(e) : s[j] = e[j]
  <2>1. n \in 0 .. n
    BY <1>2
  <2>2. e \in Seq(S)
    BY <1>1, <2>1
  <2>3. Len(e) \in Nat /\ DOMAIN e = 1 .. Len(e) /\ \A j \in 1 .. Len(e) : e[j] \in Uart!Byte
    BY <2>2
  <2>4. e \in Seq(Uart!Byte)
    BY <2>2, <2>3, SeqInto
  <2> QED
    BY <2>4
<1>4. PICK h : Turns(s, Len(e), out, h) /\ Uart!Reduction_frame_data(s, Len(e), out) = h[Len(e)]
  <2>1. Len(e) < Len(s)
    BY <1>3
  <2> QED
    BY <1>3, <2>1, ReductionTurns
<1>5. \A i \in 1 .. n : q[i] \in Seq(S) /\ Len(q[i]) >= 1
  <2> SUFFICES ASSUME NEW i \in 1 .. n PROVE q[i] \in Seq(S) /\ Len(q[i]) >= 1
    OBVIOUS
  <2>1. Uart!EscapeOne(c[i]) \in Seq(S) /\ Len(Uart!EscapeOne(c[i])) >= 1
    BY <1>2, EscapeIsUndone
  <2> QED
    BY <2>1
<1>6. \A i \in 1 .. n : g[i] = g[i - 1] \o q[i]
  BY <1>1
<1>7. \A i \in 1 .. n : q[i] = Uart!EscapeOne(c[i])
  OBVIOUS
<1> HIDE DEF q, S, n
<1>8. \A k \in 0 .. n : Begins(g[k], g[n]) /\ k <= Len(g[k])
  BY <1>1, <1>2, <1>5, <1>6, JoinedBegin
<1> DEFINE T == {k \in Nat : k \in 0 .. n => Undone(h[Len(g[k])], c, k)}
<1>16. Len(e) < Len(s)
  BY <1>3
<1>9. 0 \in T
  <2>1. Len(g[0]) = 0
    BY <1>1
  <2>2. h[0] = [skip |-> FALSE, len |-> 0, out |-> out]
    BY <1>4 DEF Turns
  <2> QED
    BY <2>1, <2>2 DEF Undone
<1>10. ASSUME NEW k \in Nat, k \in T PROVE k + 1 \in T
  <2> SUFFICES ASSUME k + 1 \in 0 .. n PROVE Undone(h[Len(g[k + 1])], c, k + 1)
    OBVIOUS
  <2>1. k \in 0 .. n /\ k + 1 \in 1 .. n /\ (k + 1) - 1 = k /\ n \in 0 .. n
    BY <1>2
  <2>2. g[k + 1] = g[k] \o q[k + 1]
    <3>1. g[k + 1] = g[(k + 1) - 1] \o q[k + 1]
      BY <1>6, <2>1, Zenon
    <3> QED
      BY <2>1, <3>1
  <2>3. g[k] \in Seq(S) /\ g[k + 1] \in Seq(S) /\ q[k + 1] \in Seq(S) /\ g[n] \in Seq(S)
    BY <1>1, <1>5, <2>1
  <2>4. /\ Len(g[k]) \in Nat /\ Len(q[k + 1]) \in Nat
        /\ Len(g[k + 1]) = Len(g[k]) + Len(q[k + 1])
        /\ \A j \in 1 .. Len(q[k + 1]) : g[k + 1][Len(g[k]) + j] = q[k + 1][j]
    <3>1. /\ Len(g[k]) \in Nat /\ Len(q[k + 1]) \in Nat
          /\ Len(g[k] \o q[k + 1]) = Len(g[k]) + Len(q[k + 1])
          /\ \A j \in 1 .. Len(q[k + 1]) : (g[k] \o q[k + 1])[Len(g[k]) + j] = q[k + 1][j]
      BY <2>3, Joined, Zenon
    <3> QED
      BY <2>2, <3>1, Zenon
  <2> DEFINE a == Len(g[k])
             m == Len(q[k + 1])
             z == Len(g[k + 1])
  <2>12. a \in Nat /\ m \in Nat /\ z = a + m
    BY <2>4
  <2>5. Begins(g[k + 1], g[n]) /\ k + 1 <= Len(g[k + 1]) /\ Undone(h[Len(g[k])], c, k)
    BY <1>8, <1>10, <2>1
  <2>6. \A j \in 1 .. Len(q[k + 1]) : Len(g[k]) + j \in 1 .. Len(g[k + 1])
    <3>1. \A j \in 1 .. m : a + j \in 1 .. z
      <4> HIDE DEF a, m, z
      <4> QED
        BY <2>12
    <3> QED
      BY <3>1
  <2>7. Len(g[k + 1]) <= Len(e) /\ \A j \in 1 .. Len(g[k + 1]) : j \in 1 .. Len(e) /\ e[j] = g[k + 1][j]
    <3>1. z <= Len(e) /\ \A j \in 1 .. z : e[j] = g[k + 1][j]
      BY <1>1, <2>5 DEF Begins
    <3>2. \A j \in 1 .. z : j \in 1 .. Len(e)
      <4> HIDE DEF a, m, z
      <4> QED
        BY <1>3, <2>12, <3>1
    <3> QED
      BY <3>1, <3>2
  <2>8. \A j \in 1 .. Len(q[k + 1]) : s[Len(g[k]) + j] = q[k + 1][j]
    BY <1>3, <2>4, <2>6, <2>7
  <2>9. k < BuffLen /\ Len(g[k]) + Len(q[k + 1]) <= Len(e) /\ Len(e) < Len(s)
    <3>1. BuffLen \in Nat
      BY DEF Uart!UartAssumption
    <3>2. z <= Len(e) /\ k + 1 <= z /\ Len(e) <= BuffLen /\ Len(e) \in Nat
      BY <1>3, <2>5, <2>7
    <3>3. k < BuffLen /\ a + m <= Len(e)
      <4> HIDE DEF a, m, z
      <4> QED
        BY <2>12, <3>1, <3>2
    <3> QED
      BY <1>16, <3>3
  <2>10. c[k + 1] \in Uart!Byte /\ q[k + 1] = Uart!EscapeOne(c[k + 1])
    BY <1>2, <1>7, <2>1
  <2>11. Undone(h[Len(g[k]) + Len(q[k + 1])], c, k + 1)
    BY <1>3, <1>4, <2>4, <2>5, <2>8, <2>9, <2>10, ByteUndone
  <2> QED
    BY <2>4, <2>11
<1>11. n \in T
  <2> HIDE DEF T
  <2> QED
    BY <1>2, <1>9, <1>10, InductionOverNat
<1>12. Undone(h[Len(e)], c, n)
  BY <1>1, <1>2, <1>11
<1>13. r = h[Len(e)] /\ r \in Turn
  <2>1. Len(e) \in 0 .. Len(e)
    BY <1>3
  <2> QED
    BY <1>4, <2>1 DEF Turns
<1>14. r.len = n /\ \A j \in 1 .. n : r.out[j] = c[j]
  BY <1>12, <1>13 DEF Undone
<1>15. SubSeq(r.out, 1, n) = c
  <2>1. SubSeq(r.out, 1, n) = [j \in 1 .. n |-> r.out[j]]
    BY <1>2
  <2>2. c = [j \in 1 .. n |-> c[j]]
    BY <1>2 DEF n
  <2> QED
    BY <1>14, <2>1, <2>2
<1>17. n <= Len(e)
  <2>1. n \in 0 .. n
    BY <1>2
  <2> QED
    BY <1>1, <1>8, <2>1
<1> QED
  BY <1>13, <1>14, <1>15, <1>17 DEF Turn, n, Restored

LEMMA Above ==
  ASSUME NEW n \in Nat, n > 2
  PROVE  n # 2
  OBVIOUS

\* What un-escaping the frame f of m leaves in the buffer.
Ends(m, f, out) ==
  \E r : /\ r = Uart!Reduction_frame_data(SubSeq(f, 2, Len(f)), Len(f) - 2, out)
         /\ r.out \in Buffer /\ Len(f) - 2 # 2
         /\ SubSeq(r.out, 1, r.len) = m \o Uart!Crc(m) /\ Uart!Crc(SubSeq(r.out, 1, r.len)) = <<0, 0>>

\* The bytes of a frame, and what the tail does that ends it.
LEMMA FrameBytes ==
  ASSUME Uart!UartAssumption, NEW m \in Message, NEW f, f = Uart!Encode(m), Len(f) <= BuffLen
  PROVE  /\ f \in Seq(Uart!Byte) /\ Len(f) \in Nat /\ Len(f) > 2
         /\ f[1] = FRAME_HEAD /\ f[Len(f)] = FRAME_TAIL
         /\ \A i \in 2 .. Len(f) - 1 : f[i] \notin {FRAME_HEAD, FRAME_TAIL}
         /\ \A out \in Buffer : Ends(m, f, out)
<1>17. PICK c : c = m \o Uart!Crc(m)
  OBVIOUS
<1>15. PICK e : e = Uart!Escape_frame_data(c)
  OBVIOUS
<1>1. m \in Seq(Uart!Byte) /\ Len(m) \in Nat /\ Len(m) > 0
  <2>1. m \in Seq(Uart!Byte) /\ m # <<>>
    BY DEF Uart!UartAssumption
  <2> QED
    BY <2>1
<1>2. c \in Seq(Uart!Byte) /\ Len(c) = Len(m) + 2 /\ Uart!Crc(c) = <<0, 0>>
  BY <1>1, <1>17, OwnCrcIsZero
<1>3. e \in Seq(Uart!Byte \ {FRAME_HEAD, FRAME_TAIL})
  BY <1>2, <1>15, Escaped
<1>4. e \in Seq(Uart!Byte)
  BY <1>3
<1>5. FRAME_HEAD \in Uart!Byte /\ FRAME_TAIL \in Uart!Byte
  BY DEF Uart!UartAssumption
<1>6. f = <<FRAME_HEAD>> \o e \o <<FRAME_TAIL>>
  BY <1>15, <1>17 DEF Uart!Encode
<1>16. Len(c) \in Nat /\ Len(c) > 2
  BY <1>1, <1>2
<1>7. f \in Seq(Uart!Byte) /\ Len(f) = Len(e) + 2 /\ Len(e) \in Nat
  BY <1>4, <1>5, <1>6
<1>8. f[1] = FRAME_HEAD /\ f[Len(f)] = FRAME_TAIL
  BY <1>4, <1>5, <1>6
<1>9. \A i \in 2 .. Len(f) - 1 : f[i] \notin {FRAME_HEAD, FRAME_TAIL}
  <2> SUFFICES ASSUME NEW i \in 2 .. Len(f) - 1 PROVE f[i] \notin {FRAME_HEAD, FRAME_TAIL}
    OBVIOUS
  <2>1. i - 1 \in 1 .. Len(e)
    BY <1>7
  <2>2. f[i] = e[i - 1]
    BY <1>4, <1>5, <1>6, <2>1
  <2> QED
    BY <1>3, <2>1, <2>2
<1>10. SubSeq(f, 2, Len(f)) = e \o <<FRAME_TAIL>> /\ e \o <<FRAME_TAIL>> \in Seq(Uart!Byte)
  BY <1>4, <1>5, <1>6
<1>11. Len(f) - 2 = Len(e) /\ Len(e) <= BuffLen
  <2>1. BuffLen \in Nat
    BY DEF Uart!UartAssumption
  <2> QED
    BY <1>7, <2>1
<1>12. ASSUME NEW out \in Buffer, NEW r, r = Uart!Reduction_frame_data(e \o <<FRAME_TAIL>>, Len(e), out)
       PROVE  r.out \in Buffer /\ SubSeq(r.out, 1, r.len) = c /\ Len(c) <= Len(e)
  <2> DEFINE s == e \o <<FRAME_TAIL>>
  <2>1. s \in Seq(Uart!Byte) /\ s = e \o <<FRAME_TAIL>> /\ r = Uart!Reduction_frame_data(s, Len(e), out)
    BY <1>10, <1>12
  <2> HIDE DEF s
  <2>2. c \in Seq(Uart!Byte) /\ Len(e) <= BuffLen
    BY <1>2, <1>11
  <2>3. Restored(r, c) /\ Len(c) <= Len(e)
    BY <1>15, <2>1, <2>2, FrameIsUndone
  <2> QED
    BY <2>3 DEF Restored
<1>13. ASSUME NEW out \in Buffer
       PROVE  Ends(m, f, out)
  <2> DEFINE r == Uart!Reduction_frame_data(e \o <<FRAME_TAIL>>, Len(e), out)
  <2>1. r.out \in Buffer /\ SubSeq(r.out, 1, r.len) = c /\ Len(c) <= Len(e)
    BY <1>12
  <2> HIDE DEF r
  <2>2. Len(e) # 2
    <3>1. Len(c) <= Len(e)
      BY <2>1
    <3>2. Len(e) > 2 /\ Len(e) \in Nat
      BY <1>7, <1>16, <3>1
    <3> QED
      BY <3>2, Above
  <2>3. r = Uart!Reduction_frame_data(SubSeq(f, 2, Len(f)), Len(f) - 2, out)
    BY <1>10, <1>11 DEF r
  <2> QED
    BY <1>2, <1>11, <2>1, <2>2, <2>3, <1>17 DEF Ends
<1>14. Len(f) > 2
  <2>1. Buffer # {}
    <3>1. [i \in 1 .. BuffLen |-> FRAME_HEAD] \in Buffer
      BY <1>5 DEF Buffer
    <3> QED
      BY <3>1
  <2>2. PICK out \in Buffer : TRUE
    BY <2>1
  <2>3. Len(c) <= Len(e)
    BY <1>12
  <2> QED
    BY <1>1, <1>2, <1>7, <2>3
<1> QED
  BY <1>7, <1>8, <1>9, <1>13, <1>14

-----------------------------------------------------------------------------
(* The decoder is well typed, whatever the line brings.                      *)

LEMMA CompleteType ==
  ASSUME Uart!UartAssumption, Uart!TypeOK, NEW bytes \in Seq(Uart!Byte), Len(bytes) >= 2, Len(bytes) <= BuffLen,
         Uart!Complete(bytes)
  PROVE  /\ e_status' = "INIT" /\ recv' = <<>> /\ uart_ret' \in 0 .. 3
         /\ decoded' \in Buffer /\ u32_len' \in 0 .. BuffLen
<1> DEFINE n == Len(bytes) - 2
           s == SubSeq(bytes, 2, Len(bytes))
           r == Uart!Reduction_frame_data(s, n, decoded)
<1>1. n \in Nat /\ s \in Seq(Uart!Byte) /\ n < Len(s) /\ decoded \in Buffer /\ u32_len \in 0 .. BuffLen
  <2>1. n \in Nat
    OBVIOUS
  <2>2. s \in Seq(Uart!Byte) /\ Len(s) = Len(bytes) - 1
    OBVIOUS
  <2>3. n < Len(s)
    BY <2>2
  <2> QED
    BY <2>1, <2>2, <2>3 DEF Uart!TypeOK, Buffer
<1>2. /\ e_status' = "INIT" /\ recv' = <<>>
      /\ \/ uart_ret' = 3 /\ decoded' = decoded /\ u32_len' = u32_len
         \/ decoded' = r.out /\ u32_len' = r.len /\ uart_ret' \in {0, 1}
  BY DEF Uart!Complete
<1>3. n <= BuffLen /\ BuffLen \in Nat
  BY DEF Uart!UartAssumption
<1> HIDE DEF n, s
<1>4. PICK g : Turns(s, n, decoded, g) /\ g[n].len <= n /\ r = g[n]
  BY <1>1, ReductionTurns
<1>5. r \in Turn /\ r.len <= n
  <2>1. n \in 0 .. n
    BY <1>1
  <2> QED
    BY <1>4, <2>1 DEF Turns
<1> HIDE DEF r
<1>6. r.out \in Buffer /\ r.len \in Nat /\ r.len <= n
  BY <1>5 DEF Turn
<1>7. r.len \in 0 .. BuffLen
  BY <1>1, <1>3, <1>6
<1> QED
  BY <1>1, <1>2, <1>6, <1>7

LEMMA DecodeType ==
  ASSUME Uart!UartAssumption, Uart!TypeOK, NEW b \in Uart!Byte, Uart!Decode(b)
  PROVE  /\ e_status' \in {"INIT", "HEAD"}
         /\ recv' \in Seq(Uart!Byte) /\ Len(recv') <= BuffLen
         /\ e_status' = "HEAD" => recv' # <<>> /\ recv'[1] = FRAME_HEAD
         /\ decoded' \in Buffer /\ u32_len' \in 0 .. BuffLen /\ uart_ret' \in 0 .. 3
<1>1. /\ recv \in Seq(Uart!Byte) /\ Len(recv) <= BuffLen /\ Len(recv) \in Nat
      /\ e_status \in {"INIT", "HEAD"} /\ (e_status = "HEAD" => recv # <<>> /\ recv[1] = FRAME_HEAD)
      /\ decoded \in Buffer /\ u32_len \in 0 .. BuffLen
  BY DEF Uart!TypeOK, Buffer
<1>2. BuffLen \in Nat \ {0} /\ FRAME_HEAD \in Uart!Byte
  BY DEF Uart!UartAssumption
<1>3. <<FRAME_HEAD>> \in Seq(Uart!Byte) /\ Len(<<FRAME_HEAD>>) <= BuffLen /\ <<FRAME_HEAD>> # <<>> /\ <<FRAME_HEAD>>[1] = FRAME_HEAD
  BY <1>2
<1>4. CASE e_status = "INIT" /\ UNCHANGED <<decoded, u32_len>> /\ uart_ret' = 0
           /\ e_status' = (IF b = FRAME_HEAD THEN "HEAD" ELSE "INIT")
           /\ recv' = (IF b = FRAME_HEAD THEN <<FRAME_HEAD>> ELSE recv)
  BY <1>1, <1>3, <1>4
<1>5. CASE e_status = "HEAD" /\ Uart!Room /\ Uart!Store(b)
  <2>1. Append(recv, b) \in Seq(Uart!Byte) /\ Len(Append(recv, b)) = Len(recv) + 1
        /\ Append(recv, b)[1] = FRAME_HEAD /\ Append(recv, b) # <<>>
    BY <1>1, <1>5
  <2>2. Len(recv) >= 1
    BY <1>1, <1>5
  <2>3. Len(recv) + 1 >= 2 /\ Len(recv) + 1 <= BuffLen
    BY <1>1, <1>2, <1>5, <2>2 DEF Uart!Room
  <2>4. CASE b = FRAME_TAIL
    <3>1. Uart!Complete(Append(recv, b))
      BY <1>5, <2>4 DEF Uart!Store
    <3>2. /\ e_status' = "INIT" /\ recv' = <<>> /\ uart_ret' \in 0 .. 3
          /\ decoded' \in Buffer /\ u32_len' \in 0 .. BuffLen
      BY <2>1, <2>3, <3>1, CompleteType
    <3> QED
      BY <1>2, <3>2
  <2>5. CASE b # FRAME_TAIL
    <3>1. /\ recv' = (IF b = FRAME_HEAD THEN <<FRAME_HEAD>> ELSE Append(recv, b))
          /\ uart_ret' = 0 /\ UNCHANGED <<e_status, decoded, u32_len>>
      BY <1>5, <2>5 DEF Uart!Store
    <3> QED
      BY <1>1, <1>3, <2>1, <2>3, <3>1
  <2> QED
    BY <2>4, <2>5
<1>6. CASE e_status = "HEAD" /\ e_status' = "INIT" /\ recv' = <<>> /\ uart_ret' = 0 /\ UNCHANGED <<decoded, u32_len>>
  BY <1>1, <1>2, <1>6
<1> QED
  BY <1>4, <1>5, <1>6 DEF Uart!Decode

LEMMA EncodeType ==
  ASSUME Uart!UartAssumption, NEW m \in Message
  PROVE  Uart!Encode(m) \in Seq(Uart!Byte)
<1>1. m \in Seq(Uart!Byte) /\ FRAME_HEAD \in Uart!Byte /\ FRAME_TAIL \in Uart!Byte
  BY DEF Uart!UartAssumption
<1>2. m \o Uart!Crc(m) \in Seq(Uart!Byte)
  BY <1>1, OwnCrcIsZero
<1>3. Uart!Escape_frame_data(m \o Uart!Crc(m)) \in Seq(Uart!Byte)
  <2> DEFINE c == m \o Uart!Crc(m)
             e == Uart!Escape_frame_data(c)
  <2>1. c \in Seq(Uart!Byte)
    BY <1>2
  <2> HIDE DEF c
  <2>2. e \in Seq(Uart!Byte \ {FRAME_HEAD, FRAME_TAIL})
    BY <2>1, Escaped
  <2> HIDE DEF e
  <2>3. e \in Seq(Uart!Byte)
    BY <2>2
  <2> QED
    BY <2>3 DEF e, c
<1> QED
  BY <1>1, <1>3 DEF Uart!Encode

LEMMA TypeNext ==
  ASSUME Uart!UartAssumption, Uart!TypeOK, [Uart!Next]_(Uart!vars)
  PROVE  Uart!TypeOK'
<1>1. MaxFaults \in Nat
  BY DEF Uart!UartAssumption
<1>2. uart_wire \in Seq(Uart!Byte) /\ uart_intact \in BOOLEAN /\ full \in BOOLEAN /\ uart_faults \in 0 .. MaxFaults
  BY DEF Uart!TypeOK
<1>3. ASSUME NEW b \in Uart!Byte, Uart!Decode(b), uart_wire' \in Seq(Uart!Byte), uart_intact' \in BOOLEAN, full' = full,
             uart_faults' \in 0 .. MaxFaults
      PROVE  Uart!TypeOK'
  <2>1. /\ e_status' \in {"INIT", "HEAD"}
        /\ recv' \in Seq(Uart!Byte) /\ Len(recv') <= BuffLen
        /\ e_status' = "HEAD" => recv' # <<>> /\ recv'[1] = FRAME_HEAD
        /\ decoded' \in [1 .. BuffLen -> Uart!Byte] /\ u32_len' \in 0 .. BuffLen /\ uart_ret' \in 0 .. 3
    BY <1>3, DecodeType, Zenon DEF Buffer
  <2> QED
    BY <1>2, <1>3, <2>1 DEF Uart!TypeOK
<1>4. ASSUME uart_wire # <<>>
      PROVE  uart_wire[1] \in Uart!Byte /\ SubSeq(uart_wire, 2, Len(uart_wire)) \in Seq(Uart!Byte)
  BY <1>2, <1>4
<1>5. ASSUME uart_faults < MaxFaults
      PROVE  uart_faults + 1 \in 0 .. MaxFaults
  BY <1>1, <1>2, <1>5
<1>6. CASE \E m \in Message : Uart!SendFrame(m)
  <2>1. PICK m \in Message : Uart!SendFrame(m)
    BY <1>6
  <2>2. uart_wire' \in Seq(Uart!Byte)
    BY <2>1, EncodeType DEF Uart!SendFrame
  <2>3. uart_intact' \in BOOLEAN /\ full' \in BOOLEAN /\ uart_faults' = uart_faults
    BY <2>1 DEF Uart!SendFrame
  <2>4. UNCHANGED <<e_status, recv, decoded, u32_len, uart_ret>>
    BY <2>1 DEF Uart!SendFrame, Uart!decoder
  <2> QED
    BY <2>2, <2>3, <2>4 DEF Uart!TypeOK
<1>7. CASE Uart!Arrive
  <2>1. uart_wire # <<>> /\ Uart!Decode(uart_wire[1]) /\ uart_wire' = SubSeq(uart_wire, 2, Len(uart_wire))
        /\ full' = full /\ uart_intact' = uart_intact /\ uart_faults' = uart_faults
    BY <1>7 DEF Uart!Arrive
  <2>2. uart_wire[1] \in Uart!Byte /\ uart_wire' \in Seq(Uart!Byte)
    BY <1>4, <2>1
  <2> QED
    BY <1>2, <1>3, <2>1, <2>2
<1>8. CASE Uart!Lose
  <2>1. uart_wire # <<>> /\ uart_wire' = SubSeq(uart_wire, 2, Len(uart_wire)) /\ full' = full /\ uart_intact' = FALSE
        /\ uart_faults < MaxFaults /\ uart_faults' = uart_faults + 1
    BY <1>8 DEF Uart!Lose, Uart!Fault
  <2>2. UNCHANGED <<e_status, recv, decoded, u32_len, uart_ret>>
    BY <1>8 DEF Uart!Lose, Uart!decoder
  <2>3. uart_wire' \in Seq(Uart!Byte) /\ uart_faults' \in 0 .. MaxFaults
    BY <1>4, <1>5, <2>1
  <2> QED
    BY <2>1, <2>2, <2>3 DEF Uart!TypeOK
<1>9. ASSUME NEW b \in Uart!Byte, Uart!Garble(b) \/ Uart!Noise(b)
      PROVE  Uart!TypeOK'
  <2>1. Uart!Decode(b) /\ full' = full /\ uart_intact' = FALSE /\ uart_faults < MaxFaults /\ uart_faults' = uart_faults + 1
    BY <1>9 DEF Uart!Garble, Uart!Noise, Uart!Fault
  <2>2. uart_wire' \in Seq(Uart!Byte)
    BY <1>2, <1>4, <1>9 DEF Uart!Garble, Uart!Noise
  <2>3. uart_faults' \in 0 .. MaxFaults
    BY <1>5, <2>1
  <2> QED
    BY <1>3, <2>1, <2>2, <2>3
<1>10. CASE UNCHANGED Uart!vars
  <2>1. UNCHANGED <<e_status, recv, decoded, u32_len, uart_ret, uart_wire, uart_intact, full, uart_faults>>
    BY <1>10 DEF Uart!vars, Uart!decoder
  <2> QED
    BY <2>1 DEF Uart!TypeOK
<1> QED
  BY <1>6, <1>7, <1>8, <1>9, <1>10 DEF Uart!Next

LEMMA TypeInit ==
  ASSUME Uart!UartAssumption, Uart!Init
  PROVE  Uart!TypeOK
<1>1. BuffLen \in Nat /\ MaxFaults \in Nat /\ 0 \in Uart!Byte
  BY ByteIs DEF Uart!UartAssumption
<1>2. [i \in 1 .. BuffLen |-> 0] \in [1 .. BuffLen -> Uart!Byte]
  BY <1>1
<1> QED
  <2>1. decoded \in [1 .. BuffLen -> Uart!Byte]
    BY <1>2, Zenon DEF Uart!Init
  <2>2. /\ e_status = "INIT" /\ recv = <<>> /\ u32_len = 0 /\ uart_ret = 0 /\ uart_wire = <<>>
        /\ uart_intact = FALSE /\ full = FALSE /\ uart_faults = 0
    BY DEF Uart!Init
  <2>3. recv \in Seq(Uart!Byte) /\ Len(recv) <= BuffLen /\ uart_wire \in Seq(Uart!Byte)
    BY <1>1, <2>2
  <2>4. u32_len \in 0 .. BuffLen /\ uart_faults \in 0 .. MaxFaults /\ uart_ret \in 0 .. 3
    BY <1>1, <2>2
  <2> QED
    BY <2>1, <2>2, <2>3, <2>4, Zenon DEF Uart!TypeOK

(* The buffers hold bytes, within their length, and a frame under way begins *)
(* with its head (uart_protocol.c:75), whatever the line brings.             *)
THEOREM DecoderIsWellTyped == ASSUME Uart!UartAssumption PROVE Uart!Spec => []Uart!TypeOK
<1>1. Uart!Init => Uart!TypeOK
  BY TypeInit
<1>2. Uart!TypeOK /\ [Uart!Next]_(Uart!vars) => Uart!TypeOK'
  BY TypeNext
<1> QED
  BY <1>1, <1>2, PTL DEF Uart!Spec

-----------------------------------------------------------------------------
(* A frame on its way.                                                       *)

\* n bytes of the frame of m have arrived, and have been taken for what they are.
Midway(m, n) ==
  /\ uart_wire = SubSeq(Uart!Encode(m), n + 1, Len(Uart!Encode(m)))
  /\ n = 0 /\ e_status = "HEAD" => Len(recv) # BuffLen
  /\ 0 < n /\ n < Len(Uart!Encode(m)) => e_status = "HEAD" /\ recv = SubSeq(Uart!Encode(m), 1, n)
  /\ n = Len(Uart!Encode(m)) => uart_ret = 1 /\ Uart!Output = m \o Uart!Crc(m)

Recovering ==
  uart_intact /\ ~full => \E m \in Message : m = uart_current /\ \E n \in 0 .. Len(Uart!Encode(m)) : Midway(m, n)

LEMMA FirstOf ==
  ASSUME NEW S, NEW s \in Seq(S), Len(s) > 0
  PROVE  SubSeq(s, 1, 1) = <<s[1]>>
<1> DEFINE p == SubSeq(s, 1, 1)
<1>1. p \in Seq(S) /\ Len(p) = 1 /\ p[1] = s[1]
  OBVIOUS
<1>2. s[1] \in S
  OBVIOUS
<1> HIDE DEF p
<1>3. p = <<s[1]>>
  <2>1. <<s[1]>> \in Seq(S) /\ Len(<<s[1]>>) = 1 /\ <<s[1]>>[1] = s[1]
    BY <1>2
  <2> QED
    BY <1>1, <2>1
<1> QED
  BY <1>3 DEF p

LEMMA OneMore ==
  ASSUME NEW S, NEW s \in Seq(S), NEW n \in Nat, n < Len(s)
  PROVE  Append(SubSeq(s, 1, n), s[n + 1]) = SubSeq(s, 1, n + 1)
<1> DEFINE p == SubSeq(s, 1, n)
           q == SubSeq(s, 1, n + 1)
<1>1. p \in Seq(S) /\ Len(p) = n /\ \A i \in 1 .. n : p[i] = s[i]
  OBVIOUS
<1>2. q \in Seq(S) /\ Len(q) = n + 1 /\ \A i \in 1 .. n + 1 : q[i] = s[i]
  OBVIOUS
<1>3. s[n + 1] \in S
  OBVIOUS
<1> HIDE DEF p, q
<1>4. Append(p, s[n + 1]) = q
  BY <1>1, <1>2, <1>3
<1> QED
  BY <1>4 DEF p, q

\* The next byte of the frame.
LEMMA MidwayArrive ==
  ASSUME Uart!UartAssumption, Uart!FramesFit, Uart!TypeOK, NEW m \in Message, NEW n \in 0 .. Len(Uart!Encode(m)), Midway(m, n), Uart!Arrive
  PROVE  n + 1 \in 0 .. Len(Uart!Encode(m)) /\ Midway(m, n + 1)'
<1>1. PICK f : f = Uart!Encode(m)
  OBVIOUS
<1>2. Len(f) <= BuffLen /\ BuffLen \in Nat \ {0} /\ FRAME_HEAD # FRAME_TAIL
  BY <1>1 DEF Uart!FramesFit, Uart!UartAssumption
<1>3. /\ f \in Seq(Uart!Byte) /\ Len(f) \in Nat /\ Len(f) > 2
      /\ f[1] = FRAME_HEAD /\ f[Len(f)] = FRAME_TAIL
      /\ \A i \in 2 .. Len(f) - 1 : f[i] \notin {FRAME_HEAD, FRAME_TAIL}
      /\ \A out \in Buffer : Ends(m, f, out)
  BY <1>1, <1>2, FrameBytes
<1>4. /\ n \in Nat /\ n <= Len(f) /\ uart_wire = SubSeq(f, n + 1, Len(f))
      /\ n = 0 /\ e_status = "HEAD" => Len(recv) # BuffLen
      /\ 0 < n /\ n < Len(f) => e_status = "HEAD" /\ recv = SubSeq(f, 1, n)
  BY <1>1, <1>3 DEF Midway
<1>5. uart_wire # <<>> /\ Uart!Decode(uart_wire[1]) /\ uart_wire' = SubSeq(uart_wire, 2, Len(uart_wire))
  BY DEF Uart!Arrive
<1>6. n < Len(f) /\ uart_wire[1] = f[n + 1] /\ uart_wire' = SubSeq(f, (n + 1) + 1, Len(f))
  <2>1. n # Len(f)
    BY <1>3, <1>4, <1>5
  <2>2. n < Len(f)
    BY <1>3, <1>4, <2>1
  <2> QED
    BY <1>3, <1>4, <1>5, <2>2
<1>7. Uart!Decode(f[n + 1])
  BY <1>5, <1>6
<1>8. recv \in Seq(Uart!Byte) /\ Len(recv) \in Nat /\ Len(recv) <= BuffLen /\ e_status \in {"INIT", "HEAD"} /\ decoded \in Buffer
  BY DEF Uart!TypeOK, Buffer
<1>9. n + 1 \in 0 .. Len(f)
  BY <1>3, <1>4, <1>6
<1>10. CASE n = 0
  <2>1. f[n + 1] = FRAME_HEAD /\ n + 1 = 1 /\ Len(f) # 1
    BY <1>3, <1>10
  <2>2. Uart!Decode(FRAME_HEAD)
    BY <1>7, <2>1
  <2>3. e_status = "HEAD" => Uart!Room
    BY <1>2, <1>4, <1>8, <1>10 DEF Uart!Room
  <2>4. Uart!Store(FRAME_HEAD) => e_status' = e_status /\ recv' = <<FRAME_HEAD>>
    BY <1>2 DEF Uart!Store
  <2>6. e_status' = "HEAD" /\ recv' = <<FRAME_HEAD>>
    <3>1. CASE e_status = "INIT"
      BY <2>2, <3>1 DEF Uart!Decode
    <3>2. CASE e_status = "HEAD"
      <4>1. Uart!Store(FRAME_HEAD)
        BY <2>2, <2>3, <3>2 DEF Uart!Decode
      <4> QED
        BY <2>4, <3>2, <4>1
    <3> QED
      BY <1>8, <3>1, <3>2
  <2>7. SubSeq(f, 1, 1) = <<FRAME_HEAD>>
    BY <1>3, FirstOf
  <2>8. Midway(m, 1)'
    BY <1>1, <1>6, <1>10, <2>1, <2>6, <2>7 DEF Midway
  <2> QED
    BY <1>1, <1>9, <1>10, <2>8
<1>11. CASE n > 0
  <2>1. e_status = "HEAD" /\ recv = SubSeq(f, 1, n)
    BY <1>4, <1>6, <1>11
  <2>2. Len(recv) = n
    BY <1>3, <1>4, <2>1
  <2>3. Uart!Room
    BY <1>2, <1>3, <1>4, <1>6, <2>2 DEF Uart!Room
  <2>4. Uart!Store(f[n + 1])
    BY <1>7, <2>1, <2>3 DEF Uart!Decode
  <2>5. Append(recv, f[n + 1]) = SubSeq(f, 1, n + 1)
    BY <1>3, <1>4, <1>6, <2>1, OneMore
  <2>6. CASE n + 1 < Len(f)
    <3>1. n + 1 \in 2 .. Len(f) - 1
      BY <1>3, <1>4, <1>11, <2>6
    <3>2. f[n + 1] # FRAME_HEAD /\ f[n + 1] # FRAME_TAIL
      BY <1>3, <3>1
    <3>3. e_status' = "HEAD" /\ recv' = SubSeq(f, 1, n + 1)
      BY <2>1, <2>4, <2>5, <3>2 DEF Uart!Store
    <3>4. n + 1 # 0 /\ n + 1 # Len(f)
      BY <1>3, <1>4, <2>6
    <3>5. Midway(m, n + 1)'
      BY <1>1, <1>6, <3>3, <3>4 DEF Midway
    <3> QED
      BY <1>1, <1>9, <3>5
  <2>7. CASE n + 1 = Len(f)
    <3>1. Uart!Complete(f)
      <4>1. f[n + 1] = FRAME_TAIL
        BY <1>3, <2>7
      <4>2. SubSeq(f, 1, n + 1) = f
        BY <1>3, <2>7
      <4> QED
        BY <2>4, <2>5, <4>1, <4>2 DEF Uart!Store
    <3>2. PICK r : /\ r = Uart!Reduction_frame_data(SubSeq(f, 2, Len(f)), Len(f) - 2, decoded)
                   /\ r.out \in Buffer /\ Len(f) - 2 # 2
                   /\ SubSeq(r.out, 1, r.len) = m \o Uart!Crc(m) /\ Uart!Crc(SubSeq(r.out, 1, r.len)) = <<0, 0>>
      BY <1>3, <1>8 DEF Ends
    <3>3. decoded' = r.out /\ u32_len' = r.len /\ uart_ret' = 1
      BY <3>1, <3>2 DEF Uart!Complete
    <3>4. Uart!Output' = m \o Uart!Crc(m)
      BY <3>2, <3>3 DEF Uart!Output
    <3>5. n + 1 # 0 /\ ~(n + 1 < Len(f))
      BY <1>3, <1>4, <2>7
    <3>6. Midway(m, n + 1)'
      BY <1>1, <1>6, <3>3, <3>4, <3>5 DEF Midway
    <3> QED
      BY <1>1, <1>9, <3>6
  <2> QED
    BY <1>3, <1>4, <1>6, <2>6, <2>7
<1> QED
  BY <1>4, <1>10, <1>11

LEMMA RecoveringNext ==
  ASSUME Uart!UartAssumption, Uart!FramesFit, Uart!TypeOK, Recovering, [Uart!Next]_(Uart!vars)
  PROVE  Recovering'
<1> SUFFICES ASSUME uart_intact', ~full'
             PROVE  \E m \in Message : m = uart_current' /\ \E n \in 0 .. Len(Uart!Encode(m)) : Midway(m, n)'
  BY DEF Recovering
<1>1. ASSUME NEW m \in Message, Uart!SendFrame(m)
      PROVE  \E l \in Message : l = uart_current' /\ \E n \in 0 .. Len(Uart!Encode(l)) : Midway(l, n)'
  <2>1. uart_current' = m /\ uart_wire' = Uart!Encode(m) /\ full' = (Len(recv) = BuffLen) /\ recv' = recv
    BY <1>1 DEF Uart!SendFrame, Uart!decoder
  <2>2. PICK f : f = Uart!Encode(m)
    OBVIOUS
  <2>3. f \in Seq(Uart!Byte) /\ Len(f) \in Nat /\ Len(f) > 2
    <3>1. Len(f) <= BuffLen
      BY <2>2 DEF Uart!FramesFit
    <3> QED
      BY <2>2, <3>1, FrameBytes
  <2>4. SubSeq(f, 0 + 1, Len(f)) = f /\ 0 # Len(f) /\ 0 \in 0 .. Len(f)
    BY <2>3
  <2>5. Len(recv') # BuffLen
    BY <2>1
  <2>6. Midway(m, 0)'
    BY <2>1, <2>2, <2>4, <2>5 DEF Midway
  <2> QED
    BY <2>1, <2>2, <2>4, <2>6
<1>2. CASE Uart!Arrive
  <2>1. uart_intact /\ ~full /\ uart_current' = uart_current
    BY <1>2 DEF Uart!Arrive
  <2>2. PICK m \in Message : m = uart_current /\ \E n \in 0 .. Len(Uart!Encode(m)) : Midway(m, n)
    BY <2>1 DEF Recovering
  <2>3. PICK n \in 0 .. Len(Uart!Encode(m)) : Midway(m, n)
    BY <2>2
  <2>4. n + 1 \in 0 .. Len(Uart!Encode(m)) /\ Midway(m, n + 1)'
    BY <1>2, <2>3, MidwayArrive
  <2>5. uart_current' = m
    BY <2>1, <2>2
  <2> QED
    BY <2>4, <2>5
<1>3. CASE Uart!Lose \/ \E b \in Uart!Byte : Uart!Garble(b) \/ Uart!Noise(b)
  BY <1>3 DEF Uart!Lose, Uart!Garble, Uart!Noise, Uart!Fault
<1>4. CASE UNCHANGED Uart!vars
  <2>1. /\ uart_intact /\ ~full /\ uart_current' = uart_current /\ uart_wire' = uart_wire /\ e_status' = e_status /\ recv' = recv
        /\ uart_ret' = uart_ret /\ decoded' = decoded /\ u32_len' = u32_len
    BY <1>4 DEF Uart!vars, Uart!decoder
  <2>2. PICK m \in Message : m = uart_current /\ \E n \in 0 .. Len(Uart!Encode(m)) : Midway(m, n)
    BY <2>1 DEF Recovering
  <2>3. PICK n \in 0 .. Len(Uart!Encode(m)) : Midway(m, n)
    BY <2>2
  <2>4. Midway(m, n)'
    BY <2>1, <2>3 DEF Midway, Uart!Output
  <2>5. uart_current' = m
    BY <2>1, <2>2
  <2> QED
    BY <2>3, <2>4, <2>5
<1> QED
  BY <1>1, <1>2, <1>3, <1>4 DEF Uart!Next

\* What follows the first n.
IsRest(r, s, n, S) == r \in Seq(S) /\ Len(r) = Len(s) - n /\ \A i \in 1 .. Len(s) - n : r[i] = s[n + i]

LEMMA RestOf ==
  ASSUME NEW S, NEW s \in Seq(S), NEW n \in Nat, n <= Len(s)
  PROVE  IsRest(SubSeq(s, n + 1, Len(s)), s, n, S)
  BY DEF IsRest

LEMMA RecoveringRecovers ==
  ASSUME Uart!UartAssumption, Uart!FramesFit, Recovering
  PROVE  Uart!IntactFrameRecovers
<1> SUFFICES ASSUME uart_intact, uart_wire = <<>>, ~full PROVE Uart!Arrived
  BY DEF Uart!IntactFrameRecovers
<1>1. PICK m \in Message : m = uart_current /\ \E n \in 0 .. Len(Uart!Encode(m)) : Midway(m, n)
  BY DEF Recovering
<1>2. PICK n \in 0 .. Len(Uart!Encode(m)) : Midway(m, n)
  BY <1>1
<1>3. PICK f : f = Uart!Encode(m)
  OBVIOUS
<1>4. f \in Seq(Uart!Byte) /\ Len(f) \in Nat
  <2>1. f \in Seq(Uart!Byte)
    BY <1>3, EncodeType
  <2> QED
    BY <2>1
<1>5. n \in Nat /\ n <= Len(f) /\ SubSeq(f, n + 1, Len(f)) = <<>>
  BY <1>2, <1>3, <1>4 DEF Midway
<1>6. n = Len(f)
  <2>1. IsRest(SubSeq(f, n + 1, Len(f)), f, n, Uart!Byte)
    BY <1>4, <1>5, RestOf
  <2>2. Len(f) - n = 0
    BY <1>5, <2>1 DEF IsRest
  <2> QED
    BY <1>4, <1>5, <2>2
<1> QED
  BY <1>1, <1>2, <1>3, <1>6 DEF Midway, Uart!Arrived

(* A frame whose own bytes all arrive is decoded to its message and CRC,     *)
(* whatever the line did before it (uart_protocol.c:75), unless it began     *)
(* with the receive buffer exactly full: for every table, every message and  *)
(* every length of buffer the frames fit in.                                 *)
THEOREM IntactFramesRecover == ASSUME Uart!UartAssumption, Uart!FramesFit PROVE Uart!Spec => []Uart!IntactFrameRecovers
<1> DEFINE IInv == Uart!TypeOK /\ Recovering
<1>1. Uart!Init => IInv
  <2>1. Uart!Init => Recovering
    BY DEF Uart!Init, Recovering
  <2> QED
    BY <2>1, TypeInit
<1>2. IInv /\ [Uart!Next]_(Uart!vars) => IInv'
  BY TypeNext, RecoveringNext
<1>3. IInv => Uart!IntactFrameRecovers
  BY RecoveringRecovers
<1> QED
  BY <1>1, <1>2, <1>3, PTL DEF Uart!Spec

-----------------------------------------------------------------------------
(* The BLE protocol                                                          *)

-----------------------------------------------------------------------------
(* Frames and their fragments                                                *)

Symbol == (0 .. 255) \cup {Ble!check_sum(p) : p \in Packet} \cup {Flag, Esc, SubFlag, SubEsc}

LEMMA EscapesLeaveNoFlag ==
  ASSUME Ble!DkAssumption, NEW p \in Packet
  PROVE  \E x \in Seq(Symbol \ {Flag}) : Ble!Framed(p) = <<Flag>> \o x \o <<Flag>>
<1> DEFINE s == Append(p, Ble!check_sum(p))
           q == [i \in DOMAIN s |-> Ble!EscapeOne(s[i])]
<1>1. s \in Seq(Symbol)
  <2>1. p \in Seq(0 .. 255)
    BY DEF Ble!DkAssumption
  <2>2. 0 .. 255 \subseteq Symbol /\ Ble!check_sum(p) \in Symbol
    BY DEF Symbol
  <2>3. p \in Seq(Symbol)
    BY <2>1, <2>2, SeqOfMore
  <2> HIDE DEF Symbol
  <2> QED
    BY <2>2, <2>3
<1>2. ASSUME NEW b \in Symbol
      PROVE  Ble!EscapeOne(b) \in Seq(Symbol \ {Flag})
  <2>1. {Esc, SubFlag, SubEsc} \subseteq Symbol \ {Flag}
    BY DEF Symbol, Ble!DkAssumption
  <2>2. ASSUME NEW S, NEW x \in S, NEW y \in S
        PROVE  <<x>> \in Seq(S) /\ <<x, y>> \in Seq(S)
    OBVIOUS
  <2>3. b # Flag => b \in Symbol \ {Flag}
    OBVIOUS
  <2> QED
    BY <2>1, <2>2, <2>3 DEF Ble!EscapeOne
<1>3. q \in Seq(Seq(Symbol \ {Flag}))
  BY <1>1, <1>2
<1>4. FlattenSeq(q) \in Seq(Symbol \ {Flag})
  BY <1>3, FlattenSeqType
<1>5. Ble!Framed(p) = <<Flag>> \o FlattenSeq(q) \o <<Flag>>
  <2>1. Ble!FlattenSeq(q) = FlattenSeq(q)
    BY DEF Ble!FlattenSeq, FlattenSeq
  <2>2. Ble!Framed(p) = <<Flag>> \o Ble!FlattenSeq(q) \o <<Flag>>
    BY DEF Ble!Framed, Ble!Escape_frame_data
  <2> QED
    BY <2>1, <2>2
<1> QED
  BY <1>4, <1>5

\* A packet begins and ends with a flag, and has no other.
LEMMA FrameIs ==
  ASSUME Ble!DkAssumption, NEW p \in Packet
  PROVE  /\ Ble!Framed(p) \in Seq(Symbol) /\ Len(Ble!Framed(p)) >= 2
         /\ Ble!Framed(p)[1] = Flag /\ Ble!Framed(p)[Len(Ble!Framed(p))] = Flag
         /\ \A i \in 2 .. Len(Ble!Framed(p)) - 1 : Ble!Framed(p)[i] # Flag
<1>1. PICK x \in Seq(Symbol \ {Flag}) : Ble!Framed(p) = <<Flag>> \o x \o <<Flag>>
  BY EscapesLeaveNoFlag
<1>2. x \in Seq(Symbol)
  BY SeqOfMore
<1>3. Flag \in Symbol
  BY DEF Symbol
<1> QED
  BY <1>1, <1>2, <1>3

LEMMA CutsType ==
  ASSUME Ble!DkAssumption, NEW p \in Packet, NEW w \in Ble!Cuts(Ble!Framed(p))
  PROVE  w \in Seq(Seq(Symbol))
<1>1. Ble!Framed(p) \in Seq(Symbol) /\ HeadLen \in Nat
  BY FrameIs DEF Ble!DkAssumption
<1> DEFINE s == Ble!Framed(p)
           Piece(i, j) == SubSeq(s, i, j)
<1>2. <<s>> \in Seq(Seq(Symbol))
  BY <1>1
<1>3. \A n \in (HeadLen + 2) .. (Len(s) - HeadLen - 2) :
         Piece(1, n) \in Seq(Symbol) /\ Piece(n + 1, Len(s)) \in Seq(Symbol)
  BY <1>1
<1> HIDE DEF s, Piece
<1>4. \A n \in (HeadLen + 2) .. (Len(s) - HeadLen - 2) :
         <<Piece(1, n), Piece(n + 1, Len(s))>> \in Seq(Seq(Symbol))
  BY <1>3
<1> QED
  BY <1>2, <1>4 DEF Ble!Cuts, s, Piece

\* Two fragments, the first of which begins with a flag, and the second ends with one.
Halves(w) ==
  /\ w = <<w[1], w[2]>> /\ w[1] \in Seq(Symbol) /\ w[2] \in Seq(Symbol)
  /\ Len(w[1]) > HeadLen + 1 /\ Len(w[2]) > HeadLen + 1
  /\ w[1][1] = Flag /\ w[2][1] # Flag /\ w[2][Len(w[2])] = Flag

LEMMA CutInTwo ==
  ASSUME Ble!DkAssumption, NEW p \in Packet, NEW w \in Ble!Cuts(Ble!Framed(p)), Len(w) = 2
  PROVE  Halves(w)
<1> DEFINE s == Ble!Framed(p)
<1>1. s \in Seq(Symbol) /\ HeadLen \in Nat
  BY FrameIs DEF Ble!DkAssumption
<1>2. PICK n \in (HeadLen + 2) .. (Len(s) - HeadLen - 2) :
             w = <<SubSeq(s, 1, n), SubSeq(s, n + 1, Len(s))>>
  BY DEF Ble!Cuts
<1>3. s[1] = Flag /\ s[Len(s)] = Flag /\ s[n + 1] # Flag
  BY <1>1, <1>2, FrameIs
<1> HIDE DEF s
<1>4. /\ SubSeq(s, 1, n) \in Seq(Symbol) /\ Len(SubSeq(s, 1, n)) = n
      /\ SubSeq(s, 1, n)[1] = s[1]
  BY <1>1, <1>2
<1>5. /\ SubSeq(s, n + 1, Len(s)) \in Seq(Symbol) /\ Len(SubSeq(s, n + 1, Len(s))) = Len(s) - n
      /\ SubSeq(s, n + 1, Len(s))[1] = s[n + 1]
      /\ SubSeq(s, n + 1, Len(s))[Len(s) - n] = s[Len(s)]
  <2>1. n \in Nat /\ n <= Len(s) /\ 1 \in 1 .. Len(s) - n /\ Len(s) - n \in 1 .. Len(s) - n /\ n + (Len(s) - n) = Len(s)
    BY <1>1, <1>2
  <2>2. IsRest(SubSeq(s, n + 1, Len(s)), s, n, Symbol)
    BY <1>1, <2>1, RestOf
  <2> QED
    BY <2>1, <2>2 DEF IsRest
<1>6. w[1] = SubSeq(s, 1, n) /\ w[2] = SubSeq(s, n + 1, Len(s)) /\ w = <<w[1], w[2]>>
  BY <1>2
<1>7. n > HeadLen + 1 /\ Len(s) - n > HeadLen + 1
  BY <1>1, <1>2
<1> QED
  BY <1>3, <1>4, <1>5, <1>6, <1>7 DEF Halves

-----------------------------------------------------------------------------
(* What the BLE decoder keeps                                                *)

BleTypes ==
  /\ index \in 0 .. TempLen - 1
  /\ dk_wire \in Seq(Seq(Symbol))
  /\ dk_faults \in Nat
  /\ wild \in BOOLEAN /\ risky \in BOOLEAN

\* The level that a fragment brings about.
LEMMA LevelIs ==
  ASSUME Ble!DkAssumption, BleTypes, NEW f \in Seq(Symbol)
  PROVE  /\ Len(f) \in Nat /\ index \in Nat /\ TempLen \in Nat \ {0}
         /\ Ble!Level(f) \in 0 .. TempLen - 1
         /\ index + Len(f) < TempLen => Ble!Level(f) = index + Len(f)
<1>1. Len(f) \in Nat /\ index \in Nat /\ TempLen \in Nat \ {0}
  BY DEF Ble!DkAssumption, BleTypes
<1>2. index + Len(f) \in Nat
  BY <1>1
<1>3. (index + Len(f)) % TempLen \in 0 .. TempLen - 1
  BY <1>1, <1>2, Remainder
<1>4. index + Len(f) < TempLen => (index + Len(f)) % TempLen = index + Len(f)
  <2> DEFINE l == index + Len(f)
  <2>1. l \in Int /\ 0 <= l
    BY <1>2
  <2> HIDE DEF l
  <2>2. l < TempLen => l % TempLen = l
    BY <1>1, <2>1, Remainder
  <2> QED
    BY <2>2 DEF l
<1> QED
  BY <1>1, <1>3, <1>4 DEF Ble!Level

LEMMA StoreTypes ==
  ASSUME NEW at \in Nat, NEW f \in Seq(Symbol), Ble!Store(at, f)
  PROVE  wild' \in BOOLEAN
<1>1. wild' = (at + Len(f) > TempLen)
  BY DEF Ble!Store
<1> QED
  BY <1>1, SMT

LEMMA CombineTypes ==
  ASSUME Ble!DkAssumption, BleTypes, NEW f \in Seq(Symbol), Ble!Combine(f)
  PROVE  index' \in 0 .. TempLen - 1 /\ wild' \in BOOLEAN
<1>1. Ble!Level(f) \in 0 .. TempLen - 1 /\ index \in Nat /\ 0 \in 0 .. TempLen - 1
  BY LevelIs
<1>2. CASE Ble!TooShort(f)
  BY <1>2 DEF Ble!TooShort, BleTypes
<1>3. CASE Ble!HeadFragment(f)
  <2>1. Ble!Store(index, f) /\ index' = Ble!Level(f)
    BY <1>3 DEF Ble!HeadFragment, Ble!GET_MSG_BIT, Ble!Level
  <2> QED
    BY <1>1, <2>1, StoreTypes
<1>4. CASE Ble!NextFragment(f)
  <2>1. Ble!Store(Ble!Level(f), f) /\ index' \in {0, Ble!Level(f)}
    BY <1>4 DEF Ble!NextFragment, Ble!Parsed, Ble!IndexAfter, Ble!Level
  <2>2. Ble!Level(f) \in Nat
    BY <1>1
  <2>3. wild' \in BOOLEAN
    BY <2>1, <2>2, StoreTypes
  <2> QED
    BY <1>1, <2>1, <2>3
<1> QED
  BY <1>2, <1>3, <1>4 DEF Ble!Combine

LEMMA TypesInit ==
  ASSUME Ble!DkAssumption, Ble!Init
  PROVE  BleTypes
<1>1. 0 \in 0 .. TempLen - 1 /\ dk_wire = <<>>
  BY DEF Ble!DkAssumption, Ble!Init
<1>2. <<>> \in Seq(Seq(Symbol))
  OBVIOUS
<1> QED
  BY <1>1, <1>2 DEF Ble!Init, BleTypes

LEMMA FirstFragment ==
  ASSUME BleTypes, dk_wire # <<>>
  PROVE  dk_wire[1] \in Seq(Symbol) /\ Tail(dk_wire) \in Seq(Seq(Symbol))
<1> DEFINE T == Seq(Symbol)
<1>1. dk_wire \in Seq(T)
  BY DEF BleTypes
<1> HIDE DEF T
<1>2. dk_wire[1] \in T /\ Tail(dk_wire) \in Seq(T)
  BY <1>1
<1> QED
  BY <1>2 DEF T

LEMMA TypesNext ==
  ASSUME Ble!DkAssumption, BleTypes, [Ble!Next]_(Ble!vars)
  PROVE  BleTypes'
<1>1. ASSUME NEW p \in Packet, Ble!Send(p)
      PROVE  BleTypes'
  <2>1. dk_wire' \in Seq(Seq(Symbol)) /\ risky' \in BOOLEAN
    <3>1. dk_wire' \in Seq(Seq(Symbol))
      BY <1>1, CutsType DEF Ble!Send
    <3>2. risky' = (risky \/ ~Ble!Fits(dk_wire'))
      BY <1>1 DEF Ble!Send
    <3>3. risky' \in BOOLEAN
      BY <3>2, SMT
    <3> QED
      BY <3>1, <3>3
  <2>2. UNCHANGED <<Ble!decoder, dk_faults>>
    BY <1>1 DEF Ble!Send
  <2> QED
    BY <2>1, <2>2 DEF BleTypes, Ble!decoder
<1>2. CASE Ble!Arrive
  <2>1. dk_wire[1] \in Seq(Symbol) /\ dk_wire' \in Seq(Seq(Symbol)) /\ Ble!Combine(dk_wire[1])
    BY <1>2, FirstFragment DEF Ble!Arrive
  <2> QED
    BY <1>2, <2>1, CombineTypes DEF Ble!Arrive, BleTypes
<1>3. CASE Ble!Lose
  <2>1. dk_wire' \in Seq(Seq(Symbol))
    BY <1>3, FirstFragment DEF Ble!Lose
  <2> QED
    BY <1>3, <2>1 DEF Ble!Lose, BleTypes, Ble!decoder
<1>4. CASE Ble!Repeat
  <2>1. dk_wire[1] \in Seq(Symbol) /\ Ble!Combine(dk_wire[1])
    BY <1>4, FirstFragment DEF Ble!Repeat
  <2> QED
    BY <1>4, <2>1, CombineTypes DEF Ble!Repeat, BleTypes
<1>5. CASE Ble!Abandon
  <2>1. index' \in 0 .. TempLen - 1
    BY <1>5 DEF Ble!Abandon, Ble!DkAssumption
  <2>2. UNCHANGED <<wild, dk_wire, risky, dk_faults>>
    BY <1>5 DEF Ble!Abandon
  <2> QED
    BY <2>1, <2>2 DEF BleTypes
<1>6. CASE Ble!Restart
  <2>1. index' \in 0 .. TempLen - 1
    BY <1>6 DEF Ble!Restart, Ble!DkAssumption
  <2>2. wild' = FALSE /\ risky' = FALSE /\ dk_wire' = <<>> /\ UNCHANGED dk_faults
    BY <1>6 DEF Ble!Restart
  <2>3. <<>> \in Seq(Seq(Symbol))
    OBVIOUS
  <2> QED
    BY <2>1, <2>2, <2>3 DEF BleTypes
<1>7. CASE UNCHANGED Ble!vars
  BY <1>7 DEF Ble!vars, Ble!decoder, BleTypes
<1> QED
  BY <1>1, <1>2, <1>3, <1>4, <1>5, <1>6, <1>7 DEF Ble!Next

-----------------------------------------------------------------------------
(* Where a copy ends                                                         *)

\* The fragments of a packet sent in two that are still to come, and the level they find.
Underway(w) ==
  \/ dk_wire = w /\ index = 0
  \/ dk_wire = <<w[2]>> /\ index \in {0, Len(w[1])}

InOrder ==
  \/ dk_wire = <<>> /\ index = 0
  \/ \E p \in Packet : \E w \in Ble!Cuts(Ble!Framed(p)) : Ble!Fits(w) /\ Underway(w)

CauseInv == BleTypes /\ (dk_faults = 0 /\ ~risky => ~wild /\ InOrder)

\* Room for the second half twice.
LEMMA RoomForHalves ==
  ASSUME NEW a \in Nat, NEW b \in Nat \ {0}, NEW t \in Nat, a + 2 * b <= t
  PROVE  /\ ~(0 + a > t) /\ a < t
         /\ \A i \in {0, a} : i + b < t
         /\ \A l \in Nat : l <= a + b => ~(l + b > t)
OBVIOUS

LEMMA FirstHalfArrives ==
  ASSUME Ble!DkAssumption, BleTypes, ~wild, index = 0,
         NEW w, Halves(w), Ble!Fits(w), dk_wire = w, Ble!Arrive
  PROVE  ~wild' /\ Underway(w)'
<1>1. /\ w = <<w[1], w[2]>> /\ w[1] \in Seq(Symbol) /\ w[2] \in Seq(Symbol)
      /\ Len(w[1]) > HeadLen + 1 /\ Len(w[2]) > HeadLen + 1
      /\ w[1][1] = Flag
  BY DEF Halves
<1>2. Len(w[1]) \in Nat /\ Len(w[2]) \in Nat \ {0} /\ TempLen \in Nat /\ Len(w[1]) + 2 * Len(w[2]) <= TempLen
  BY <1>1 DEF Ble!Fits, Ble!DkAssumption
<1>3. dk_wire' = <<w[2]>>
  <2>1. Tail(<<w[1], w[2]>>) = <<w[2]>>
    OBVIOUS
  <2>2. dk_wire' = Tail(w)
    BY DEF Ble!Arrive
  <2> QED
    BY <1>1, <2>1, <2>2, Zenon
<1>4. Ble!HeadFragment(w[1])
  BY <1>1, <1>2 DEF Ble!Arrive, Ble!Combine, Ble!TooShort, Ble!NextFragment, Ble!DkAssumption
<1>5. Ble!Store(index, w[1]) /\ index' = Ble!Level(w[1])
  BY <1>4 DEF Ble!HeadFragment, Ble!GET_MSG_BIT, Ble!Level
<1>6. index' = Len(w[1])
  BY <1>1, <1>2, <1>5, LevelIs
<1>7. ~wild'
  <2>1. wild' = (index + Len(w[1]) > TempLen)
    BY <1>5 DEF Ble!Store
  <2>2. ~(0 + Len(w[1]) > TempLen)
    BY <1>2, RoomForHalves
  <2> QED
    BY <2>1, <2>2, Zenon
<1> QED
  BY <1>3, <1>6, <1>7 DEF Underway

LEMMA SecondHalfArrives ==
  ASSUME Ble!DkAssumption, BleTypes, ~wild,
         NEW w, Halves(w), Ble!Fits(w), dk_wire = <<w[2]>>, index \in {0, Len(w[1])}, Ble!Arrive
  PROVE  ~wild' /\ dk_wire' = <<>> /\ index' = 0
<1>1. /\ w[1] \in Seq(Symbol) /\ w[2] \in Seq(Symbol)
      /\ Len(w[2]) > HeadLen + 1 /\ w[2][1] # Flag /\ w[2][Len(w[2])] = Flag
  BY DEF Halves
<1>2. /\ Len(w[1]) \in Nat /\ Len(w[2]) \in Nat \ {0} /\ TempLen \in Nat
      /\ Len(w[1]) + 2 * Len(w[2]) <= TempLen
  BY <1>1 DEF Ble!Fits, Ble!DkAssumption
<1>3. dk_wire' = <<>>
  BY DEF Ble!Arrive
<1>4. Ble!NextFragment(w[2])
  <2>1. dk_wire[1] = w[2]
    OBVIOUS
  <2>2. Ble!Combine(w[2])
    BY <2>1, Zenon DEF Ble!Arrive
  <2>3. ~(Len(w[2]) <= HeadLen + 1)
    BY <1>1, <1>2 DEF Ble!DkAssumption
  <2> QED
    BY <1>1, <2>2, <2>3 DEF Ble!Combine, Ble!TooShort, Ble!HeadFragment
<1>5. Ble!Store(Ble!Level(w[2]), w[2])
  BY <1>4 DEF Ble!NextFragment
<1>6. Ble!Level(w[2]) <= Len(w[1]) + Len(w[2])
  <2>1. index + Len(w[2]) < TempLen
    BY <1>2, RoomForHalves
  <2>2. Ble!Level(w[2]) = index + Len(w[2])
    BY <1>1, <2>1, LevelIs
  <2>3. ASSUME NEW a \in Nat, NEW b \in Nat, NEW i \in {0, a}
        PROVE  i + b <= a + b
    OBVIOUS
  <2> QED
    BY <1>2, <2>2, <2>3
<1>7. ~wild'
  <2>1. wild' = (Ble!Level(w[2]) + Len(w[2]) > TempLen)
    BY <1>5 DEF Ble!Store
  <2>2. Ble!Level(w[2]) \in Nat
    BY <1>1, LevelIs
  <2>3. ~(Ble!Level(w[2]) + Len(w[2]) > TempLen)
    <3>1. \A l \in Nat : l <= Len(w[1]) + Len(w[2]) => ~(l + Len(w[2]) > TempLen)
      BY <1>2, RoomForHalves
    <3> QED
      BY <1>6, <2>2, <3>1
  <2> QED
    BY <2>1, <2>3, Zenon
<1>8. index' = 0
  BY <1>1, <1>4 DEF Ble!NextFragment, Ble!Parsed, Ble!IndexAfter, Ble!Last
<1> QED
  BY <1>3, <1>7, <1>8

LEMMA CauseNext ==
  ASSUME Ble!DkAssumption, CauseInv, [Ble!Next]_(Ble!vars)
  PROVE  CauseInv'
<1>1. BleTypes' /\ BleTypes
  BY TypesNext DEF CauseInv
<1>2. SUFFICES ASSUME dk_faults' = 0, ~risky'
               PROVE  ~wild' /\ InOrder'
  BY <1>1 DEF CauseInv
<1>3. ASSUME NEW p \in Packet, Ble!Send(p)
      PROVE  ~wild' /\ InOrder'
  <2>1. dk_wire = <<>> /\ dk_wire' \in Ble!Cuts(Ble!Framed(p)) /\ UNCHANGED <<Ble!decoder, dk_faults>>
    BY <1>3 DEF Ble!Send
  <2>2. ~risky /\ Ble!Fits(dk_wire')
    BY <1>2, <1>3 DEF Ble!Send
  <2>3. ~wild /\ InOrder
    BY <1>2, <2>1, <2>2 DEF CauseInv
  <2>4. index = 0
    <3>1. ASSUME NEW q \in Packet, NEW w \in Ble!Cuts(Ble!Framed(q)), Ble!Fits(w), Underway(w)
          PROVE  FALSE
      BY <2>1, <3>1 DEF Underway, Ble!Fits
    <3> QED
      BY <2>3, <3>1 DEF InOrder
  <2>5. ~wild' /\ index' = 0
    BY <2>1, <2>3, <2>4 DEF Ble!decoder
  <2> QED
    BY <2>1, <2>2, <2>5 DEF InOrder, Underway
<1>4. CASE Ble!Arrive
  <2>1. ~wild /\ InOrder /\ dk_wire # <<>>
    BY <1>2, <1>4 DEF CauseInv, Ble!Arrive
  <2>2. PICK p \in Packet : \E w \in Ble!Cuts(Ble!Framed(p)) : Ble!Fits(w) /\ Underway(w)
    BY <2>1 DEF InOrder
  <2>3. PICK w \in Ble!Cuts(Ble!Framed(p)) : Ble!Fits(w) /\ Underway(w)
    BY <2>2
  <2>4. Halves(w)
    BY <2>3, CutInTwo DEF Ble!Fits
  <2>5. CASE dk_wire = w /\ index = 0
    <3>1. ~wild' /\ Underway(w)'
      BY <1>1, <1>4, <2>1, <2>3, <2>4, <2>5, FirstHalfArrives
    <3> QED
      BY <2>3, <3>1 DEF InOrder, Underway
  <2>6. CASE dk_wire = <<w[2]>> /\ index \in {0, Len(w[1])}
    <3>1. ~wild' /\ dk_wire' = <<>> /\ index' = 0
      BY <1>1, <1>4, <2>1, <2>3, <2>4, <2>6, SecondHalfArrives
    <3> QED
      BY <3>1 DEF InOrder
  <2> QED
    BY <2>3, <2>5, <2>6 DEF Underway
<1>5. CASE Ble!Lose \/ Ble!Repeat
  BY <1>1, <1>2, <1>5 DEF Ble!Lose, Ble!Repeat, BleTypes
<1>6. CASE Ble!Abandon
  <2>1. ~wild /\ InOrder /\ index' = 0 /\ UNCHANGED <<dk_wire, wild>> /\ index > 0
    BY <1>2, <1>6 DEF CauseInv, Ble!Abandon
  <2>2. PICK p \in Packet : \E w \in Ble!Cuts(Ble!Framed(p)) : Ble!Fits(w) /\ Underway(w)
    BY <2>1 DEF InOrder
  <2>3. PICK w \in Ble!Cuts(Ble!Framed(p)) : Ble!Fits(w) /\ Underway(w)
    BY <2>2
  <2>4. Underway(w)'
    BY <2>1, <2>3 DEF Underway
  <2> QED
    BY <2>1, <2>3, <2>4 DEF InOrder
<1>7. CASE Ble!Restart
  BY <1>7 DEF Ble!Restart, InOrder
<1>8. CASE UNCHANGED Ble!vars
  BY <1>2, <1>8 DEF Ble!vars, Ble!decoder, CauseInv, InOrder, Underway
<1> QED
  BY <1>3, <1>4, <1>5, <1>6, <1>7, <1>8 DEF Ble!Next

(* Packets sent in two fragments, of which none is lost or repeated, never   *)
(* make a copy run past the buffer, as long as there is room for the second  *)
(* once more behind the packet (dk_protocol.c:206-207).                      *)
THEOREM OverrunsHaveACause ==
  ASSUME Ble!DkAssumption
  PROVE  Ble!Spec => []Ble!OverrunHasACause
<1>1. Ble!Init => CauseInv
  BY TypesInit DEF Ble!Init, CauseInv, InOrder
<1>2. CauseInv /\ [Ble!Next]_(Ble!vars) => CauseInv'
  BY CauseNext
<1>3. CauseInv => Ble!OverrunHasACause
  BY DEF CauseInv, Ble!OverrunHasACause, BleTypes
<1> QED
  BY <1>1, <1>2, <1>3, PTL DEF Ble!Spec

-----------------------------------------------------------------------------
(* The three side by side: what the runs check                               *)

LEMMA UartAlone == MCSpec => Uart!Spec
<1>1. MCInit => Uart!Init
  BY DEF MCInit
<1>2. [MCNext]_<<kind, uart, vars, ble>> => [Uart!Next]_(Uart!vars)
  <2>1. UNCHANGED uart => UNCHANGED Uart!vars
    BY DEF uart, Uart!vars, Uart!decoder
  <2> QED
    BY <2>1 DEF MCNext, UartDriven, AtDriven, BleDriven
<1> QED
  BY <1>1, <1>2, PTL DEF MCSpec, Uart!Spec

LEMMA AtAlone == MCSpec => Spec
<1>1. MCInit => Init
  BY DEF MCInit
<1>2. [MCNext]_<<kind, uart, vars, ble>> => [Next]_vars
  BY DEF MCNext, UartDriven, AtDriven, BleDriven
<1> QED
  BY <1>1, <1>2, PTL DEF MCSpec, Spec

LEMMA BleAlone == MCSpec => Ble!Spec
<1>1. MCInit => Ble!Init
  BY DEF MCInit
<1>2. [MCNext]_<<kind, uart, vars, ble>> => [Ble!Next]_(Ble!vars)
  <2>1. UNCHANGED ble => UNCHANGED Ble!vars
    BY DEF ble, Ble!vars, Ble!decoder
  <2> QED
    BY <2>1 DEF MCNext, UartDriven, AtDriven, BleDriven
<1> QED
  BY <1>1, <1>2, PTL DEF MCSpec, Ble!Spec

(* UART, as it is checked: a frame whose own bytes all arrive is decoded,    *)
(* whatever the line did before it (uart_protocol.c:75), unless it began     *)
(* with the receive buffer exactly full.                                     *)
THEOREM IntactFrameRecoversHolds == MCSpec => []IntactFrameRecovers
BY UartFits, IntactFramesRecover, UartAlone, PTL DEF IntactFrameRecovers

(* BLE, as it is checked: packets sent in two fragments that arrive once     *)
(* never make a copy run past the buffer (dk_protocol.c:198).                *)
THEOREM OverrunHasACauseHolds == MCSpec => []OverrunHasACause
BY BleFits, OverrunsHaveACause, BleAlone, PTL DEF OverrunHasACause

(* AT, as it is checked: a frame whose own bytes all arrive in time is       *)
(* reported whole, what is reported has the length written in it, and only   *)
(* its last byte may be late (at_code.c:209).                                *)
THEOREM CaptureHolds ==
  MCSpec => [](IntactFrameIsCaptured /\ ReportedIsWellFormed /\ OnlyTheLastIsLate)
BY AtFits, IntactFramesAreCaptured, ReportsAreWellFormed, LateBytesEndFrames, AtAlone, PTL
=============================================================================
