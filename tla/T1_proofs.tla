------------------------------ MODULE T1_proofs ------------------------------
(***************************************************************************)
(* What the reader of proto-t1.c keeps true against every card and line,   *)
(* and the driver's timeout with it.  Inv, the reader's invariant, is      *)
(* inductive as it stands: each conjunct only needs the types.             *)
(*                                                                         *)
(* Then the system with the card: exactly-once execution and whole         *)
(* answers, for every APDU, every answer and any number of faults,         *)
(* requests and calls.  Card and reader take turns, so between two resets  *)
(* the exchange is always in one of few phases, told apart by who has      *)
(* flipped its sequence number.  SysInv names the phases and what each has *)
(* done.                                                                   *)
(***************************************************************************)
EXTENDS T1Xcv, T1System, SequenceTheorems, TLAPS

Inv == TypeOK /\ AckInBounds /\ ChainIsContiguous /\ RepeatsAreFresh

-----------------------------------------------------------------------------
(* The helpers *)

LEMMA LeftType == retries \in 0 .. UIntMod - 1 => Left \in 0 .. UIntMod - 1
BY ReaderAssumption DEF Left

LEMMA FlipType == ASSUME NEW b \in Bit PROVE Flip(b) \in Bit
BY DEF Bit, Flip

(* The blocks the reader makes up are R-blocks and S-blocks.                 *)
LEMMA MadeBlocks ==
  /\ \A q \in Bit, err \in {"none", "edc", "other"} : R(q, err) \in RBlock
  /\ \A kind \in SKind, resp \in BOOLEAN, val \in 0 .. MaxIfs :
        S(kind, resp, val) \in SBlock
BY DEF R, S, RBlock, SBlock

LEMMA Types ==
  /\ \A b \in RBlock : b.type = "R"
  /\ \A b \in SBlock : b.type = "S"
  /\ NoBlock.type = "none"
  /\ Truncated.type = "truncated"
BY DEF RBlock, SBlock, NoBlock, Truncated

(* t1_build of an I-block: a block within bounds, right after the first h    *)
(* units.                                                                    *)
LEMMA BuildITypes ==
  ASSUME NEW a \in Seq(Unit), NEW h \in Nat, NEW n \in Bit, h <= Len(a),
         ifsc \in Nat, BuildI(a, h, n)
  PROVE  /\ turn' = "card" /\ line' \in ReaderBlock
         /\ line'.type = "I" /\ line'.seq = n
         /\ line'.data = SubSeq(a, h + 1, h + last_send')
         /\ line'.more = (h + last_send' < Len(a)) /\ line'.more = more'
         /\ more' \in BOOLEAN /\ last_send' \in Nat /\ h + last_send' <= Len(a)
         /\ previous' = NoBlock
<1> DEFINE left == Len(a) - h
           len  == IF left > ifsc THEN ifsc ELSE left
           b    == [type |-> "I", seq |-> n, more |-> left > ifsc,
                    data |-> SubSeq(a, h + 1, h + len)]
<1>1. Len(a) \in Nat /\ left \in Nat /\ len \in Nat /\ h + len <= Len(a)
  BY LenProperties
<1>2. SubSeq(a, h + 1, h + len) \in Seq(Unit)
  <2>1. \A i \in h + 1 .. h + len : a[i] \in Unit
    BY <1>1, ElementOfSeq
  <2> QED BY <1>1, <2>1, SubSeqProperties
<1>3. b \in ReaderBlock
  BY <1>2 DEF ReaderBlock
<1>4. line' = b /\ turn' = "card" /\ more' = (left > ifsc) /\ last_send' = len
      /\ previous' = IF b.type = "R" THEN b ELSE NoBlock
  BY DEF BuildI, Build, Transmit
<1>5. (left > ifsc) = (h + len < Len(a))
  BY <1>1
<1>6. b.type = "I" /\ b.seq = n /\ b.more = (left > ifsc) /\ b.data = SubSeq(a, h + 1, h + len)
  OBVIOUS
<1> HIDE DEF left, len, b
<1>7. (left > ifsc) \in BOOLEAN
  OBVIOUS
<1> QED BY <1>1, <1>3, <1>4, <1>5, <1>6, <1>7

-----------------------------------------------------------------------------
(* The invariant in two halves: what Resync and Complain decide, and sbuf    *)
(* and rbuf, which they leave to the action that calls them.                 *)

ProtocolOK ==
  /\ state \in {"SENDING", "RECEIVING", "RESYNCH", "DEAD"}
  /\ ns \in Bit /\ nr \in Bit
  /\ ifsc \in 1 .. MaxIfs
  /\ more \in BOOLEAN
  /\ previous \in RBlock \cup {NoBlock}
  /\ retries \in 0 .. UIntMod - 1
  /\ resyncs \in 0 .. MaxResyncs
  /\ result \in {"none", "done", "error"}
  /\ \/ turn = "host" /\ line = NoBlock
     \/ turn = "card" /\ line \in ReaderBlock
     \/ turn = "reader" /\ line \in IBlock \cup RBlock \cup SBlock \cup Fault
  /\ RepeatsAreFresh

BuffersOK ==
  /\ snd \in Seq(Unit)
  /\ head \in Nat /\ last_send \in Nat /\ head + last_send <= Len(snd)
  /\ rbuf \in Seq(Unit) /\ Len(rbuf) <= RcvLen

\* No I-block is under way to the card: ChainIsContiguous says nothing.
NoI == turn = "card" => line.type # "I"

LEMMA Halves ==
  /\ Inv <=> ProtocolOK /\ BuffersOK /\ ChainIsContiguous
  /\ NoI => ChainIsContiguous
BY DEF Inv, ProtocolOK, BuffersOK, TypeOK, AckInBounds, ChainIsContiguous, NoI

LEMMA HalvesNext ==
  /\ Inv' <=> ProtocolOK' /\ BuffersOK' /\ ChainIsContiguous'
  /\ NoI' => ChainIsContiguous'
BY Halves, PTL

LEMMA UnchangedBuffers ==
  ASSUME BuffersOK, UNCHANGED Buffers
  PROVE  BuffersOK'
BY DEF BuffersOK, Buffers

LEMMA ErrorProtocol ==
  ASSUME ProtocolOK, NEW n \in Bit, Error(n)
  PROVE  ProtocolOK' /\ NoI'
<1>1. Left \in 0 .. UIntMod - 1
  BY LeftType DEF ProtocolOK
<1> QED BY <1>1 DEF ProtocolOK, Error, Return, RepeatsAreFresh, NoI

LEMMA ResyncProtocol ==
  ASSUME ProtocolOK, NEW n \in Bit, Resync(n)
  PROVE  ProtocolOK' /\ NoI'
<1>1. CASE resyncs = 0 /\ Error(n)
  BY <1>1, ErrorProtocol
<1>2. CASE ~(resyncs = 0 /\ Error(n))
  <2>1. /\ resyncs > 0 /\ resyncs' = resyncs - 1 /\ ns' = 0 /\ nr' = 0
        /\ state' = "RESYNCH" /\ more' = FALSE /\ retries' = 1
        /\ ifsc' = ifsc /\ result' = result
        /\ Build(S("resync", FALSE, 0))
    BY <1>2 DEF Resync
  <2>2. S("resync", FALSE, 0) \in SBlock
    BY ReaderAssumption DEF S, SBlock, SKind
  <2>3. turn' = "card" /\ line' \in ReaderBlock /\ line'.type = "S" /\ previous' = NoBlock
    BY <2>1, <2>2, Types DEF Build, Transmit, ReaderBlock
  <2>4. resyncs' \in 0 .. MaxResyncs /\ retries' \in 0 .. UIntMod - 1
    BY <2>1, ReaderAssumption DEF ProtocolOK, MaxResyncs
  <2> QED BY <2>1, <2>3, <2>4, Types DEF ProtocolOK, RepeatsAreFresh, NoI, Bit
<1> QED BY <1>1, <1>2

LEMMA ComplainProtocol ==
  ASSUME ProtocolOK, turn = "reader", NEW err \in {"none", "edc", "other"}, Complain(err)
  PROVE  ProtocolOK' /\ NoI'
<1>1. CASE Left = 0 /\ Resync(ns)
  BY <1>1, ResyncProtocol DEF ProtocolOK
<1>2. CASE ~(Left = 0 /\ Resync(ns))
  <2>1. /\ IF previous.type = "R" THEN Rebuild ELSE Build(R(nr, err))
        /\ retries' = Left
        /\ UNCHANGED <<state, ns, nr, ifsc, more, resyncs, result>>
    BY <1>2 DEF Complain
  <2>2. R(nr, err) \in RBlock /\ R(nr, err).type = "R" /\ R(nr, err).seq = nr
    BY MadeBlocks DEF ProtocolOK, R
  <2>3. /\ turn' = "card" /\ line' \in ReaderBlock /\ line'.type # "I"
        /\ previous' \in RBlock \cup {NoBlock}
        /\ previous'.type = "R" => previous'.seq = nr
    <3>1. CASE previous.type = "R"
      <4>1. previous \in RBlock /\ previous.seq = nr
        BY <3>1, Types DEF ProtocolOK, RepeatsAreFresh
      <4> QED BY <2>1, <3>1, <4>1, Types DEF Rebuild, Transmit, ReaderBlock
    <3>2. CASE previous.type # "R"
      BY <2>1, <2>2, <3>2 DEF Build, Transmit, ReaderBlock
    <3> QED BY <3>1, <3>2
  <2>4. retries' \in 0 .. UIntMod - 1
    BY <2>1, LeftType DEF ProtocolOK
  <2> QED BY <2>1, <2>3, <2>4 DEF ProtocolOK, RepeatsAreFresh, NoI
<1> QED BY <1>1, <1>2

-----------------------------------------------------------------------------
(* One lemma per action *)

LEMMA ComplaintInv ==
  ASSUME Inv, turn = "reader", NEW err \in {"none", "edc", "other"}, Complain(err),
         UNCHANGED Buffers
  PROVE  Inv'
BY Halves, HalvesNext, ComplainProtocol, UnchangedBuffers

LEMMA XcvFailsInv == Inv /\ XcvFails => Inv'
BY Halves, HalvesNext, ErrorProtocol, UnchangedBuffers DEF XcvFails, ProtocolOK

LEMMA ComplaintsInv ==
  Inv /\ (GarbledBlock \/ IllegalR \/ WrongR \/ StrayResponse) => Inv'
BY ComplaintInv DEF GarbledBlock, IllegalR, WrongR, StrayResponse, Receives

LEMMA RWhileReceivingInv == Inv /\ RWhileReceiving => Inv'
<1> SUFFICES ASSUME Inv, RWhileReceiving PROVE Inv'
  OBVIOUS
<1>1. turn = "reader" /\ UNCHANGED Buffers
  BY DEF RWhileReceiving, ExpectedR, Receives
<1>2. CASE previous.type = "R" /\ Complain("none")
  BY <1>1, <1>2, ComplaintInv
<1>3. CASE ~(previous.type = "R" /\ Complain("none"))
  <2>1. /\ Build(R(nr, "none")) /\ retries' = 3
        /\ UNCHANGED <<state, ns, nr, ifsc, more, resyncs, result>>
    BY <1>3 DEF RWhileReceiving, Splendid, MaxRetries
  <2>2. R(nr, "none") \in RBlock /\ R(nr, "none").type = "R" /\ R(nr, "none").seq = nr
    BY MadeBlocks, Halves DEF ProtocolOK, R
  <2>3. ProtocolOK' /\ NoI'
    BY <2>1, <2>2, Halves, ReaderAssumption
       DEF ProtocolOK, RepeatsAreFresh, NoI, Build, Transmit, ReaderBlock
  <2> QED BY <1>1, <2>3, Halves, HalvesNext, UnchangedBuffers
<1> QED BY <1>2, <1>3

LEMMA RWhileSendingInv == Inv /\ RWhileSending => Inv'
<1> SUFFICES ASSUME Inv, RWhileSending PROVE Inv'
  OBVIOUS
<1> DEFINE acked == line.seq # ns
           h == IF acked THEN head + last_send ELSE head
           n == IF acked THEN Flip(ns) ELSE ns
<1>1. ProtocolOK /\ BuffersOK
  BY Halves
<1>2. n \in Bit /\ h \in Nat /\ h <= Len(snd) /\ Len(snd) \in Nat
  BY <1>1, FlipType, LenProperties DEF ProtocolOK, BuffersOK
<1>3. /\ head' = h /\ snd' = snd /\ rbuf' = rbuf
      /\ \/ h = Len(snd) /\ Resync(n) /\ last_send' = IF acked THEN 0 ELSE last_send
         \/ /\ h < Len(snd)
            /\ BuildI(snd, h, n) /\ ns' = n /\ retries' = 3
            /\ UNCHANGED <<state, nr, ifsc, resyncs, result>>
  BY DEF RWhileSending, Splendid, MaxRetries
<1>4. CASE h = Len(snd) /\ Resync(n) /\ last_send' = IF acked THEN 0 ELSE last_send
  <2>1. ProtocolOK' /\ NoI'
    BY <1>1, <1>2, <1>4, ResyncProtocol
  <2>2. BuffersOK'
    BY <1>1, <1>2, <1>3, <1>4 DEF BuffersOK
  <2> QED BY <2>1, <2>2, HalvesNext
<1>5. CASE /\ h < Len(snd)
           /\ BuildI(snd, h, n) /\ ns' = n /\ retries' = 3
           /\ UNCHANGED <<state, nr, ifsc, resyncs, result>>
  <2>1. /\ turn' = "card" /\ line' \in ReaderBlock
        /\ line'.type = "I" /\ line'.seq = n
        /\ line'.data = SubSeq(snd, h + 1, h + last_send')
        /\ line'.more = (h + last_send' < Len(snd)) /\ line'.more = more'
        /\ more' \in BOOLEAN /\ last_send' \in Nat /\ h + last_send' <= Len(snd)
        /\ previous' = NoBlock
    <3>1. ifsc \in Nat /\ snd \in Seq(Unit)
      BY <1>1 DEF ProtocolOK, BuffersOK
    <3> HIDE DEF h, n
    <3> QED BY <1>2, <1>5, <3>1, BuildITypes
  <2> HIDE DEF h, n, acked
  <2>2. ProtocolOK'
    BY <1>1, <1>2, <1>5, <2>1, ReaderAssumption, Types DEF ProtocolOK, RepeatsAreFresh
  <2>3. BuffersOK'
    BY <1>1, <1>2, <1>3, <2>1 DEF BuffersOK
  <2>4. ChainIsContiguous'
    BY <1>3, <1>5, <2>1 DEF ChainIsContiguous
  <2> QED BY <2>2, <2>3, <2>4, HalvesNext
<1> QED BY <1>3, <1>4, <1>5

(* The I-blocks acknowledge the last block sent and may add to rbuf.         *)
LEMMA ReceivesIBuffers ==
  ASSUME Inv, ReceivesI
  PROVE  /\ turn = "reader" /\ line \in IBlock /\ NsAfterI \in Bit /\ Flip(nr) \in Bit
         /\ snd' = snd /\ head' \in Nat /\ last_send' \in Nat
         /\ head' + last_send' <= Len(snd)
         /\ Len(snd) \in Nat
<1>1. ProtocolOK /\ BuffersOK
  BY Halves
<1>2. line \in IBlock
  BY <1>1, Types DEF ReceivesI, Receives, ProtocolOK, Fault
<1>3. Len(snd) \in Nat
  BY <1>1, LenProperties DEF BuffersOK
<1> QED BY <1>1, <1>2, <1>3, FlipType DEF ReceivesI, Receives, NsAfterI, BuffersOK, ProtocolOK

LEMMA WrongIInv == Inv /\ WrongI => Inv'
<1> SUFFICES ASSUME Inv, WrongI PROVE Inv'
  OBVIOUS
<1>1. ProtocolOK /\ BuffersOK
  BY Halves
<1>2. ReceivesI /\ rbuf' = rbuf
  BY DEF WrongI
<1>3. BuffersOK'
  BY <1>1, <1>2, ReceivesIBuffers DEF BuffersOK
<1>4. ProtocolOK' /\ NoI'
  <2>1. CASE Left = 0 /\ Resync(NsAfterI)
    BY <1>1, <1>2, <2>1, ReceivesIBuffers, ResyncProtocol
  <2>2. CASE ~(Left = 0 /\ Resync(NsAfterI))
    <3>1. /\ Build(R(nr, "other")) /\ retries' = Left
          /\ state' = "RECEIVING" /\ ns' = NsAfterI
          /\ UNCHANGED <<nr, ifsc, more, resyncs, result>>
      BY <2>2 DEF WrongI
    <3>2. R(nr, "other") \in RBlock /\ R(nr, "other").type = "R" /\ R(nr, "other").seq = nr
      BY <1>1, MadeBlocks DEF ProtocolOK, R
    <3>3. Left \in 0 .. UIntMod - 1 /\ NsAfterI \in Bit
      BY <1>1, <1>2, LeftType, ReceivesIBuffers DEF ProtocolOK
    <3> QED BY <1>1, <3>1, <3>2, <3>3
            DEF ProtocolOK, RepeatsAreFresh, NoI, Build, Transmit, ReaderBlock
  <2> QED BY <2>1, <2>2
<1> QED BY <1>3, <1>4, HalvesNext

LEMMA OverlongIInv == Inv /\ OverlongI => Inv'
<1> SUFFICES ASSUME Inv, OverlongI PROVE Inv'
  OBVIOUS
<1>1. ProtocolOK /\ BuffersOK
  BY Halves
<1>2. BuffersOK'
  BY <1>1, ReceivesIBuffers DEF BuffersOK, OverlongI
<1>3. Left \in 0 .. UIntMod - 1 /\ NsAfterI \in Bit /\ Flip(nr) \in Bit
  BY <1>1, LeftType, ReceivesIBuffers DEF ProtocolOK, OverlongI
<1>4. ProtocolOK' /\ NoI'
  BY <1>1, <1>3 DEF OverlongI, ProtocolOK, RepeatsAreFresh, NoI, Return
<1> QED BY <1>2, <1>4, HalvesNext

LEMMA RightIInv == Inv /\ RightI => Inv'
<1> SUFFICES ASSUME Inv, RightI PROVE Inv'
  OBVIOUS
<1>1. ProtocolOK /\ BuffersOK
  BY Halves
<1>2. line \in IBlock /\ NsAfterI \in Bit /\ Flip(nr) \in Bit
  BY ReceivesIBuffers DEF RightI
<1>3. BuffersOK'
  <2>1. line.data \in Seq(Unit)
    BY <1>2, SeqDef, ReaderAssumption DEF IBlock
  <2>2. rbuf' \in Seq(Unit) /\ Len(rbuf') = Len(rbuf) + Len(line.data)
    BY <1>1, <2>1, ConcatProperties DEF RightI, BuffersOK
  <2>3. Len(rbuf') <= RcvLen
    BY <2>2 DEF RightI
  <2>4. /\ snd' = snd /\ head' \in Nat /\ last_send' \in Nat
        /\ head' + last_send' <= Len(snd)
    BY ReceivesIBuffers DEF RightI
  <2> QED BY <1>1, <2>2, <2>3, <2>4 DEF BuffersOK
<1>4. ProtocolOK' /\ NoI'
  <2>1. state' = "RECEIVING" /\ ns' = NsAfterI /\ nr' = Flip(nr)
        /\ UNCHANGED <<ifsc, more, resyncs>>
    BY DEF RightI
  <2>2. CASE line.more /\ Build(R(Flip(nr), "none")) /\ Splendid /\ UNCHANGED result
    <3>1. /\ R(Flip(nr), "none") \in RBlock /\ R(Flip(nr), "none").type = "R"
          /\ R(Flip(nr), "none").seq = Flip(nr)
      BY <1>2, MadeBlocks DEF R
    <3>2. retries' \in 0 .. UIntMod - 1
      BY <2>2, ReaderAssumption DEF Splendid, MaxRetries
    <3> QED BY <1>1, <1>2, <2>1, <2>2, <3>1, <3>2
            DEF ProtocolOK, RepeatsAreFresh, NoI, Build, Transmit, ReaderBlock
  <2>3. CASE Return("done") /\ retries' = Left /\ UNCHANGED previous
    <3>1. Left \in 0 .. UIntMod - 1
      BY <1>1, LeftType DEF ProtocolOK
    <3> QED BY <1>1, <1>2, <2>1, <2>3, <3>1
            DEF ProtocolOK, RepeatsAreFresh, NoI, Return
  <2> QED BY <2>2, <2>3 DEF RightI
<1> QED BY <1>3, <1>4, HalvesNext

LEMMA ResyncAnsweredInv == Inv /\ ResyncAnswered => Inv'
<1> SUFFICES ASSUME Inv, ResyncAnswered PROVE Inv'
  OBVIOUS
<1>1. ProtocolOK /\ BuffersOK
  BY Halves
<1>2. /\ BuildI(snd, head, ns) /\ state' = "SENDING" /\ rbuf' = <<>>
      /\ resyncs' = 3 /\ retries' = 3
      /\ UNCHANGED <<snd, head, ns, nr, ifsc, result>>
  BY DEF ResyncAnswered, MaxResyncs, MaxRetries
<1>3. ns \in Bit /\ head <= Len(snd) /\ ifsc \in Nat /\ snd \in Seq(Unit) /\ head \in Nat
  BY <1>1, LenProperties DEF ProtocolOK, BuffersOK
<1>4. /\ turn' = "card" /\ line' \in ReaderBlock
      /\ line'.type = "I" /\ line'.seq = ns
      /\ line'.data = SubSeq(snd, head + 1, head + last_send')
      /\ line'.more = (head + last_send' < Len(snd)) /\ line'.more = more'
      /\ more' \in BOOLEAN /\ last_send' \in Nat /\ head + last_send' <= Len(snd)
      /\ previous' = NoBlock
  BY <1>2, <1>3, BuildITypes
<1>5. ProtocolOK'
  BY <1>1, <1>2, <1>4, ReaderAssumption, Types DEF ProtocolOK, RepeatsAreFresh, MaxResyncs
<1>6. BuffersOK'
  BY <1>1, <1>2, <1>4, ReaderAssumption, EmptySeq DEF BuffersOK
<1>7. ChainIsContiguous'
  BY <1>2, <1>4 DEF ChainIsContiguous
<1> QED BY <1>5, <1>6, <1>7, HalvesNext

LEMMA WrongLengthSInv == Inv /\ WrongLengthS => Inv'
<1> SUFFICES ASSUME Inv, WrongLengthS PROVE Inv'
  OBVIOUS
<1>1. ProtocolOK /\ BuffersOK
  BY Halves
<1>2. R(nr, "other") \in RBlock /\ R(nr, "other").type = "R" /\ R(nr, "other").seq = nr
  BY <1>1, MadeBlocks DEF ProtocolOK, R
<1>3. Left \in 0 .. UIntMod - 1
  BY <1>1, LeftType DEF ProtocolOK
<1>4. /\ line' = R(nr, "other") /\ previous' = R(nr, "other") /\ turn' = "card"
      /\ retries' = Left
      /\ UNCHANGED <<state, ns, nr, ifsc, more, resyncs, result>>
      /\ UNCHANGED Buffers
  BY <1>2 DEF WrongLengthS, Build, Transmit
<1>5. line' \in ReaderBlock /\ previous' \in RBlock
  BY <1>2, <1>4 DEF ReaderBlock
<1>6. NoI' /\ RepeatsAreFresh'
  BY <1>2, <1>4 DEF RepeatsAreFresh, NoI
<1>7. ProtocolOK'
  BY <1>1, <1>3, <1>4, <1>5, <1>6 DEF ProtocolOK
<1> QED BY <1>1, <1>4, <1>6, <1>7, HalvesNext, UnchangedBuffers

LEMMA RefusedSInv == Inv /\ RefusedS => Inv'
<1> SUFFICES ASSUME Inv, RefusedS PROVE Inv'
  OBVIOUS
<1>1. ProtocolOK /\ BuffersOK /\ ns \in Bit
  BY Halves DEF ProtocolOK
<1>2. ProtocolOK' /\ NoI'
  BY <1>1, ResyncProtocol DEF RefusedS
<1> QED BY <1>1, <1>2, HalvesNext, UnchangedBuffers DEF RefusedS

LEMMA GrantedSInv == Inv /\ GrantedS => Inv'
<1> SUFFICES ASSUME Inv, GrantedS PROVE Inv'
  OBVIOUS
<1>1. ProtocolOK /\ BuffersOK
  BY Halves
<1>2. line.type = "S" /\ turn = "reader" /\ line.kind \in {"ifs", "abort", "wtx"}
  BY DEF GrantedS, Requests, Receives
<1>3. line \in SBlock
  BY <1>1, <1>2 DEF ProtocolOK, Fault, IBlock, RBlock
<1>4. S(line.kind, TRUE, line.val) \in SBlock /\ S(line.kind, TRUE, line.val).type = "S"
  BY <1>3 DEF S, SBlock
<1>5. ifsc' \in 1 .. MaxIfs
  BY <1>1, <1>3 DEF GrantedS, ProtocolOK, SBlock
<1>6. ProtocolOK' /\ NoI'
  <2>1. line' \in SBlock /\ line'.type = "S" /\ turn' = "card" /\ previous' = NoBlock
    BY <1>4 DEF GrantedS, Build, Transmit
  <2>2. retries' \in 0 .. UIntMod - 1
    BY ReaderAssumption DEF GrantedS, Splendid, MaxRetries
  <2>3. UNCHANGED <<state, ns, nr, more, resyncs, result>>
    BY DEF GrantedS
  <2>4. RepeatsAreFresh' /\ NoI'
    BY <2>1, Types DEF RepeatsAreFresh, NoI
  <2> QED BY <1>1, <1>5, <2>1, <2>2, <2>3, <2>4 DEF ProtocolOK, ReaderBlock
<1> QED BY <1>1, <1>6, HalvesNext, UnchangedBuffers DEF GrantedS

LEMMA HostInv == Inv /\ Host => Inv'
<1>1. ASSUME Inv, Reset PROVE Inv'
  <2>1. ProtocolOK /\ BuffersOK /\ UNCHANGED Buffers /\ turn' = "host"
    BY <1>1, Halves DEF Reset
  <2>2. turn = "host" /\ line = NoBlock /\ line' = line
    BY <1>1, <2>1 DEF Reset, ProtocolOK
  <2>3. NoI' /\ RepeatsAreFresh'
    BY <2>1 DEF NoI, RepeatsAreFresh
  <2>4. ifsc' \in 1 .. MaxIfs /\ ns' \in Bit /\ nr' \in Bit /\ more' \in BOOLEAN /\ state' = "SENDING"
    BY <1>1, ReaderAssumption DEF Reset, Bit
  <2>5. UNCHANGED <<previous, retries, resyncs, result>>
    BY <1>1 DEF Reset
  <2>6. ProtocolOK'
    BY <2>1, <2>2, <2>3, <2>4, <2>5 DEF ProtocolOK
  <2> QED BY <2>1, <2>3, <2>6, HalvesNext, UnchangedBuffers
<1>2. ASSUME Inv, NEW a \in Apdu, Transceive(a) PROVE Inv'
  <2>1. ProtocolOK /\ BuffersOK
    BY <1>2, Halves
  <2>2. /\ BuildI(a, 0, ns) /\ state' = "SENDING" /\ snd' = a /\ head' = 0 /\ rbuf' = <<>>
        /\ resyncs' = 3 /\ retries' = 3 /\ result' = "none"
        /\ UNCHANGED <<ns, nr, ifsc>>
    BY <1>2 DEF Transceive, MaxResyncs, MaxRetries
  <2>3. ns \in Bit /\ 0 <= Len(a) /\ ifsc \in Nat /\ a \in Seq(Unit) /\ 0 \in Nat
    <3>1. a \in Seq(Unit)
      BY ReaderAssumption
    <3> QED BY <2>1, <3>1, LenProperties DEF ProtocolOK
  <2>4. /\ turn' = "card" /\ line' \in ReaderBlock
        /\ line'.type = "I" /\ line'.seq = ns
        /\ line'.data = SubSeq(a, 0 + 1, 0 + last_send')
        /\ line'.more = (0 + last_send' < Len(a)) /\ line'.more = more'
        /\ more' \in BOOLEAN /\ last_send' \in Nat /\ 0 + last_send' <= Len(a)
        /\ previous' = NoBlock
    BY <2>2, <2>3, BuildITypes
  <2>5. ProtocolOK'
    BY <2>1, <2>2, <2>4, ReaderAssumption, Types DEF ProtocolOK, RepeatsAreFresh, MaxResyncs
  <2>6. BuffersOK'
    BY <2>2, <2>3, <2>4, ReaderAssumption, EmptySeq DEF BuffersOK
  <2>7. ChainIsContiguous'
    BY <2>2, <2>4 DEF ChainIsContiguous
  <2> QED BY <2>5, <2>6, <2>7, HalvesNext
<1> QED BY <1>1, <1>2 DEF Host

LEMMA AnyAnswerInv == Inv /\ AnyAnswer => Inv'
<1> SUFFICES ASSUME Inv, AnyAnswer PROVE Inv'
  OBVIOUS
<1>1. ProtocolOK /\ BuffersOK
  BY Halves
<1>2. ProtocolOK' /\ NoI' /\ UNCHANGED Buffers
  BY <1>1 DEF AnyAnswer, ProtocolOK, RepeatsAreFresh, NoI, t1
<1> QED BY <1>1, <1>2, HalvesNext, UnchangedBuffers

-----------------------------------------------------------------------------

LEMMA InitInv == Init => Inv
<1> SUFFICES ASSUME Init PROVE Inv
  OBVIOUS
<1>1. <<>> \in Seq(Unit) /\ Len(<<>>) = 0
  BY EmptySeq
<1>2. ProtocolOK /\ NoI
  <2>1. NoI /\ RepeatsAreFresh
    BY DEF Init, NoI, RepeatsAreFresh
  <2>2. retries \in 0 .. UIntMod - 1 /\ resyncs \in 0 .. MaxResyncs /\ ifsc \in 1 .. MaxIfs
    BY ReaderAssumption DEF Init, MaxRetries, MaxResyncs
  <2> QED BY <2>1, <2>2 DEF Init, ProtocolOK, Bit
<1>3. BuffersOK
  BY <1>1, ReaderAssumption DEF Init, BuffersOK
<1> QED BY <1>2, <1>3, Halves

LEMMA NextInv == Inv /\ [Next]_vars => Inv'
<1> SUFFICES ASSUME Inv, [Next]_vars PROVE Inv'
  OBVIOUS
<1>1. CASE Loop
  BY <1>1, XcvFailsInv, ComplaintsInv, RWhileReceivingInv, RWhileSendingInv, WrongIInv,
     OverlongIInv, RightIInv, ResyncAnsweredInv, WrongLengthSInv, RefusedSInv, GrantedSInv
  DEF Loop
<1>2. CASE Host
  BY <1>2, HostInv
<1>3. CASE AnyAnswer
  BY <1>3, AnyAnswerInv
<1>4. CASE UNCHANGED vars
  <2>1. ProtocolOK /\ BuffersOK /\ ChainIsContiguous
    BY Halves
  <2>2. ProtocolOK' /\ BuffersOK' /\ ChainIsContiguous'
    BY <1>4, <2>1 DEF vars, t1, ProtocolOK, BuffersOK, ChainIsContiguous, RepeatsAreFresh
  <2> QED BY <2>2, HalvesNext
<1> QED BY <1>1, <1>2, <1>3, <1>4 DEF Next

(* Against every card the reader's state stays well-formed: in particular    *)
(* rbuf never holds more than the caller's rcv_len (382) and the sequence    *)
(* numbers stay bits.                                                        *)
THEOREM ReaderTypes == Spec => []TypeOK
<1>1. Inv => TypeOK
  BY DEF Inv
<1> QED BY <1>1, InitInv, NextInv, PTL DEF Spec

(* Whatever the card answers, sbuf is never read past its end, although the  *)
(* result of ct_buf_get is ignored (338, 357).                               *)
THEOREM AcksStayInBounds == Spec => []AckInBounds
<1>1. Inv => AckInBounds
  BY DEF Inv
<1> QED BY <1>1, InitInv, NextInv, PTL DEF Spec

(* Every I-block, first or repeated, carries the units that follow the       *)
(* acknowledged ones, and the last of them alone has no more bit.            *)
THEOREM ChainsAreContiguous == Spec => []ChainIsContiguous
<1>1. Inv => ChainIsContiguous
  BY DEF Inv
<1> QED BY <1>1, InitInv, NextInv, PTL DEF Spec

(* Rule 7.2 never repeats an R-block older than the last I-block accepted.   *)
THEOREM RepeatsStayFresh == Spec => []RepeatsAreFresh
<1>1. Inv => RepeatsAreFresh
  BY DEF Inv
<1> QED BY <1>1, InitInv, NextInv, PTL DEF Spec

-----------------------------------------------------------------------------
(* Rule 7.4.2 *)

Tested == turn' = "card" => retries' # 0

LEMMA ResyncTests == ASSUME NEW n, Resync(n) PROVE Tested
BY DEF Resync, Error, Return, Tested

LEMMA ComplainTests == ASSUME NEW err, Complain(err) PROVE Tested
BY ResyncTests DEF Complain, Tested

LEMMA LoopTests == Loop => Tested \/ WrongLengthS
<1>1. Splendid => Tested
  BY DEF Splendid, MaxRetries, Tested
<1>2. ASSUME NEW r, Return(r) PROVE Tested
  BY <1>2 DEF Return, Tested
<1>3. XcvFails => Tested
  BY <1>2 DEF XcvFails, Error
<1>4. GarbledBlock \/ IllegalR \/ WrongR \/ StrayResponse => Tested
  BY ComplainTests DEF GarbledBlock, IllegalR, WrongR, StrayResponse
<1>5. RWhileReceiving => Tested
  BY <1>1, ComplainTests DEF RWhileReceiving
<1>6. RWhileSending => Tested
  BY <1>1, ResyncTests DEF RWhileSending
<1>7. WrongI => Tested
  BY ResyncTests DEF WrongI, Tested
<1>8. OverlongI => Tested
  BY <1>2 DEF OverlongI
<1>9. RightI => Tested
  BY <1>1, <1>2 DEF RightI
<1>10. ResyncAnswered => Tested
  BY DEF ResyncAnswered, MaxRetries, Tested
<1>11. RefusedS => Tested
  BY ResyncTests DEF RefusedS
<1>12. GrantedS => Tested
  BY <1>1 DEF GrantedS
<1> QED BY <1>3, <1>4, <1>5, <1>6, <1>7, <1>8, <1>9, <1>10, <1>11, <1>12 DEF Loop

(* Whatever the card answers, the reader only sends with its retries used up *)
(* when it answers an S-request of the wrong length: that is the one error   *)
(* path of the loop without a test of retries.                               *)
THEOREM RetriesAreAlwaysTested == Spec => RetriesAreTested
<1>1. [Next]_vars =>
        [turn = "reader" /\ turn' = "card" /\ retries' = 0
           => line.type = "S" /\ ~line.resp /\ ~line.ok]_vars
  <2> SUFFICES ASSUME Next, turn = "reader", turn' = "card", retries' = 0
               PROVE  line.type = "S" /\ ~line.resp /\ ~line.ok
    OBVIOUS
  <2>1. Loop
    BY DEF Next, Host, Reset, Transceive, AnyAnswer
  <2>2. WrongLengthS
    BY <2>1, LoopTests DEF Tested
  <2> QED BY <2>2 DEF WrongLengthS, Requests, Receives
<1> QED BY <1>1, PTL DEF Spec, RetriesAreTested

-----------------------------------------------------------------------------
(* T1Xcv: the read timeout of t1_xcv.  What makes it grow, and when an       *)
(* exchange is extended, against every card.  TimeInv follows wtx around the *)
(* loop: it is granted in a turn of the reader together with the block on    *)
(* the line, used by the exchange that sends that block, and gone when the   *)
(* exchange returns.                                                         *)

Answered == turn = "reader" => line \in IBlock \cup RBlock \cup SBlock \cup Fault

Timeouts == wtx \in Nat /\ readTimeout \in Nat /\ readTimeout >= BaseTimeout

GrantsTime == line.type = "S" /\ line.resp /\ line.kind = "wtx"

\* At block level only a block that grants time meets a multiplier.
Granted == ~CharLevel => wtx = 0 \/ (turn = "card" /\ GrantsTime)

TimeInv == Answered /\ Timeouts /\ Granted

-----------------------------------------------------------------------------
LEMMA Extension ==
  ASSUME Timeouts
  PROVE  /\ Extended \in Nat /\ Extended >= readTimeout
         /\ Extended > readTimeout => wtx > 1
<1>1. CASE wtx > 1
  <2>1. PICK c \in Nat : wtx = c + 1 BY <1>1 DEF Timeouts
  <2>2. readTimeout * wtx = readTimeout * c + readTimeout BY <2>1 DEF Timeouts
  <2>3. readTimeout * c \in Nat BY <2>1 DEF Timeouts
  <2> QED BY <1>1, <2>2, <2>3 DEF Extended, Timeouts
<1>2. CASE ~(wtx > 1)
  BY <1>2 DEF Extended, Timeouts
<1> QED BY <1>1, <1>2

(* A turn of the reader ends with a block for the card or with the call.     *)
LEMMA ResyncTurns ==
  ASSUME NEW n, Resync(n)
  PROVE  turn' \in {"card", "host"}
BY DEF Resync, Error, Return, Build, Transmit

LEMMA ComplainTurns ==
  ASSUME NEW err, Complain(err)
  PROVE  turn' \in {"card", "host"}
<1>1. CASE Resync(ns) BY <1>1, ResyncTurns
<1>2. CASE ~Resync(ns)
  BY <1>2 DEF Complain, Rebuild, Build, Transmit
<1> QED BY <1>1, <1>2

LEMMA BuildITurns ==
  ASSUME NEW a, NEW h, NEW n, BuildI(a, h, n)
  PROVE  turn' = "card"
BY DEF BuildI, Build, Transmit

LEMMA LoopTurns ==
  ASSUME Loop
  PROVE  turn = "reader" /\ turn' \in {"card", "host"}
<1>1. CASE XcvFails BY <1>1 DEF XcvFails, Receives, Error, Return
<1>2. CASE GarbledBlock BY <1>2, ComplainTurns DEF GarbledBlock
<1>3. CASE IllegalR \/ WrongR \/ StrayResponse
  BY <1>3, ComplainTurns DEF IllegalR, WrongR, StrayResponse, Receives
<1>4. CASE RWhileReceiving
  BY <1>4, ComplainTurns DEF RWhileReceiving, ExpectedR, Receives, Build, Transmit
<1>5. CASE RWhileSending
  BY <1>5, ResyncTurns, BuildITurns DEF RWhileSending, ExpectedR, Receives
<1>6. CASE WrongI
  BY <1>6, ResyncTurns DEF WrongI, ReceivesI, Receives, Build, Transmit
<1>7. CASE OverlongI \/ RightI
  BY <1>7 DEF OverlongI, RightI, ReceivesI, Receives, Return, Build, Transmit
<1>8. CASE ResyncAnswered
  BY <1>8, BuildITurns DEF ResyncAnswered, Receives
<1>9. CASE WrongLengthS \/ GrantedS
  BY <1>9 DEF WrongLengthS, GrantedS, Requests, Receives, Build, Transmit
<1>10. CASE RefusedS
  BY <1>10, ResyncTurns DEF RefusedS, Requests, Receives
<1> QED BY <1>1, <1>2, <1>3, <1>4, <1>5, <1>6, <1>7, <1>8, <1>9, <1>10 DEF Loop

-----------------------------------------------------------------------------
(* The invariant, action by action *)

LEMMA TimeInit == XInit => TimeInv
BY XcvAssumption DEF XInit, Init, TimeInv, Answered, Timeouts, Granted

LEMMA XcvInv == TimeInv /\ Xcv => TimeInv'
<1> SUFFICES ASSUME TimeInv, Xcv PROVE TimeInv' OBVIOUS
<1>1. Answered' BY DEF Xcv, AnyAnswer, Answered
<1>2. Timeouts'
  BY XcvAssumption, Extension DEF TimeInv, Timeouts, Xcv, TimeoutAfter, WtxAfter
<1>3. Granted' BY DEF Granted, Xcv, WtxAfter
<1> QED BY <1>1, <1>2, <1>3 DEF TimeInv

LEMMA TurnInv == TimeInv /\ Turn => TimeInv'
<1> SUFFICES ASSUME TimeInv, Turn PROVE TimeInv' OBVIOUS
<1>1. turn = "reader" /\ turn' \in {"card", "host"} BY LoopTurns DEF Turn
<1>2. CASE GrantedS /\ line.kind = "wtx"
  <2>1. line \in SBlock
    BY <1>1, <1>2 DEF TimeInv, Answered, GrantedS, Requests, Receives, IBlock, RBlock, Fault
  <2>2. line.val \in Nat BY <2>1, ReaderAssumption DEF SBlock
  <2>3. turn' = "card" /\ line' = S("wtx", TRUE, line.val)
    BY <1>2 DEF GrantedS, Build, Transmit
  <2>4. GrantsTime' BY <2>3 DEF GrantsTime, S
  <2>5. wtx' = line.val /\ readTimeout' = readTimeout BY <1>2 DEF Turn
  <2> QED BY <1>1, <2>2, <2>3, <2>4, <2>5, XcvAssumption DEF TimeInv, Answered, Timeouts, Granted
<1>3. CASE ~(GrantedS /\ line.kind = "wtx")
  <2>1. wtx' = wtx /\ readTimeout' = readTimeout BY <1>3 DEF Turn
  <2> QED BY <1>1, <2>1, XcvAssumption DEF TimeInv, Answered, Timeouts, Granted
<1> QED BY <1>2, <1>3

LEMMA CallInv ==
  ASSUME TimeInv, Attach \/ Call \/ \E ifsd \in 1 .. MaxIfs : NegotiateIfsd(ifsd)
  PROVE  TimeInv'
<1>1. CASE Attach
  BY <1>1, XcvAssumption DEF Attach, Reset, TimeInv, Answered, Timeouts, Granted
<1>2. CASE Call
  <2>1. turn = "host" /\ turn' = "card" /\ wtx' = wtx /\ readTimeout' = readTimeout
    BY <1>2, BuildITurns DEF Call, Transceive
  <2> QED BY <2>1, XcvAssumption DEF TimeInv, Answered, Timeouts, Granted
<1>3. CASE \E ifsd \in 1 .. MaxIfs : NegotiateIfsd(ifsd)
  <2>1. turn = "host" /\ turn' = "card" /\ wtx' = wtx /\ readTimeout' = readTimeout
    BY <1>3 DEF NegotiateIfsd, Build, Transmit
  <2> QED BY <2>1, XcvAssumption DEF TimeInv, Answered, Timeouts, Granted
<1> QED BY <1>1, <1>2, <1>3

LEMMA NegotiationInv == TimeInv /\ IfsdAnswered => TimeInv'
<1> SUFFICES ASSUME TimeInv, IfsdAnswered PROVE TimeInv' OBVIOUS
<1>1. turn = "reader" /\ turn' \in {"card", "host"} /\ wtx' = wtx /\ readTimeout' = readTimeout
  BY DEF IfsdAnswered, Return, Build, Transmit
<1> QED BY <1>1, XcvAssumption DEF TimeInv, Answered, Timeouts, Granted

LEMMA TimeNext == TimeInv /\ [XNext]_xvars => TimeInv'
<1>1. TimeInv /\ UNCHANGED xvars => TimeInv'
  BY DEF TimeInv, Answered, Timeouts, Granted, GrantsTime, xvars, vars
<1> QED BY <1>1, XcvInv, TurnInv, CallInv, NegotiationInv DEF XNext

(* The timeouts, the grant and the state of the exchange fit together in    *)
(* every reachable state of t1_xcv and of the negotiation.                   *)
THEOREM TimeInvHolds == XSpec => []TimeInv
BY TimeInit, TimeNext, PTL DEF XSpec

-----------------------------------------------------------------------------
(* At block level only the exchange that carries the grant of more time is   *)
(* extended, whatever the card asks for and whatever fails in between        *)
(* (proto-t1.c:665, 737): a grant that was not used up meets no other block. *)
THEOREM ExtensionIsTemporaryHolds ==
  ASSUME ~CharLevel
  PROVE  XSpec => []ExtensionIsTemporary
<1>1. TimeInv => ExtensionIsTemporary
  <2> SUFFICES ASSUME TimeInv, turn = "card", Extended > readTimeout PROVE GrantsTime
    BY DEF ExtensionIsTemporary, GrantsTime
  <2>1. wtx > 1 BY Extension DEF TimeInv
  <2> QED BY <2>1 DEF TimeInv, Granted
<1> QED BY <1>1, TimeInvHolds, PTL

(* The timeout of the driver grows in no other step than an extended         *)
(* exchange that fails or comes back with a parity error (proto-t1.c:718):   *)
(* every other way out, and attaching a card, never leaves it longer.        *)
THEOREM TimeoutGrowsOnFaultsHolds == XSpec => TimeoutGrowsOnFaults
<1> DEFINE Step == readTimeout' > readTimeout => wtx > 1 /\ line'.type \in {"failure", "parity"}
<1>1. TimeInv /\ [XNext]_xvars => [Step]_xvars
  <2> SUFFICES ASSUME TimeInv, XNext, readTimeout' > readTimeout
      PROVE  wtx > 1 /\ line'.type \in {"failure", "parity"}
    OBVIOUS
  <2>1. CASE Xcv BY <2>1, Extension DEF TimeInv, Timeouts, Xcv, TimeoutAfter
  <2>2. CASE Attach BY <2>2, XcvAssumption DEF TimeInv, Timeouts, Attach
  <2>3. CASE UNCHANGED readTimeout BY <2>3 DEF TimeInv, Timeouts
  <2> QED BY <2>1, <2>2, <2>3 DEF XNext, Turn, Call, NegotiateIfsd, IfsdAnswered
<1> QED BY <1>1, TimeInvHolds, PTL DEF TimeoutGrowsOnFaults, XSpec

-----------------------------------------------------------------------------
(* The card by itself *)

CardBlock == IBlock \cup RBlock \cup SBlock

\* It holds a block back until its request is answered.
Asking == clast.type = "S" /\ ~clast.resp

CardTypes ==
  /\ cnr \in Bit /\ cns \in Bit
  /\ cin \in Seq(Unit) /\ cout \in Seq(Unit)
  /\ clast \in CardBlock \cup {NoBlock}
  /\ cheld \in CardBlock \cup {NoBlock}
  /\ executed \in Seq(Seq(Unit))

\* An R-block asks for block r, an I-block is the next of answer a, with number n.
Current(b, r, n, a) ==
  /\ b.type = "R" => b.seq = r /\ b.ok
  /\ b.type = "I" => a # <<>> /\ b = Chunk(a, n)

CardOK ==
  /\ Current(clast, cnr, cns, cout) /\ Current(cheld, cnr, cns, cout)
  /\ cheld.type = "R" => cout = <<>>
  /\ cheld.type # "S"
  /\ Asking <=> cheld # NoBlock
  /\ Asking =>
       clast.ok /\ clast.kind \in {"ifs", "wtx"} /\ (clast.kind = "ifs" => clast.val > 0)
  /\ clast.type = "S" /\ clast.resp =>
       cnr = 0 /\ cns = 0 /\ cin = <<>> /\ cout = <<>>

-----------------------------------------------------------------------------
(* What is on the line *)

HostTypes == calls \in Seq(Seq(Unit)) /\ resynced \in {"no", "clean", "lossy"}

LineOK ==
  /\ turn = "reader" => clast # NoBlock /\ line \in Fault \cup {clast}
  /\ turn = "card" /\ line.type = "R" => line.seq = nr
  /\ turn = "card" /\ line.type = "S" => IF line.resp THEN Asking ELSE state = "RESYNCH"
  /\ turn = "card" /\ line.type = "I" => cheld = NoBlock
  /\ turn = "host" /\ state # "DEAD" => cheld = NoBlock
  /\ turn # "host" => result = "none"
  /\ turn = "host" => state # "RESYNCH"
  /\ state = "DEAD" => turn = "host" /\ result = "error"
  /\ state = "RESYNCH" => resynced # "no"

-----------------------------------------------------------------------------
(* The phases of a call *)

\* Number of the card's next I-block, once the reader acknowledges the last.
NextFromCard == IF cout # <<>> THEN Flip(cns) ELSE cns

ExecutedLast == executed # <<>> /\ executed[Len(executed)] = snd

NothingPending == resynced = "no" => calls = executed

ApduPending == resynced = "no" => calls = Append(executed, snd)

\* Nothing is in progress.
Idle ==
  /\ turn = "host"
  /\ ns = cnr /\ nr = NextFromCard
  /\ cin = <<>> /\ Len(cout) <= CardIfs /\ cheld = NoBlock
  /\ NothingPending
  /\ result = "done" => snd \in Apdu /\ ExecutedLast /\ rbuf = Reply[snd]

Sending ==
  /\ turn # "host" /\ state = "SENDING"
  /\ snd \in Apdu /\ rbuf = <<>>
  /\ more = (head + last_send < Len(snd))

\* The card has not received the I-block the reader last built.
NotReceived ==
  /\ Sending /\ head < Len(snd)
  /\ ns = cnr /\ nr = NextFromCard
  /\ cin = SubSeq(snd, 1, head) /\ Len(cout) <= CardIfs /\ cheld = NoBlock
  /\ ApduPending
  /\ (turn = "card" /\ line.type = "I") \/ clast.type = "R"

\* It has received the block and waits for the next one of the chain.
Received ==
  /\ Sending /\ head + last_send < Len(snd)
  /\ Flip(ns) = cnr /\ nr = cns
  /\ cin = SubSeq(snd, 1, head + last_send) /\ cout = <<>>
  /\ ApduPending
  /\ NoI /\ (clast.type = "R" \/ Asking)

\* It has received the APDU to its end and executed it.
Executed ==
  /\ Sending /\ head + last_send = Len(snd)
  /\ Flip(ns) = cnr /\ nr = cns
  /\ cin = <<>> /\ cout = Reply[snd]
  /\ ExecutedLast /\ NothingPending
  /\ NoI /\ (clast.type \in {"R", "I"} \/ Asking)

\* The reader collects the answer.
Receiving ==
  /\ turn # "host" /\ state = "RECEIVING"
  /\ snd \in Apdu /\ head = Len(snd) /\ last_send = 0
  /\ ns = cnr
  /\ cin = <<>> /\ cout # <<>>
  /\ ExecutedLast /\ NothingPending

\* It waits for the card's I-block.
Awaiting ==
  /\ Receiving
  /\ nr = cns /\ rbuf \o cout = Reply[snd]
  /\ NoI /\ (clast.type \in {"R", "I"} \/ Asking)

\* It has the block, the card has not received the acknowledgement.
Collected ==
  /\ Receiving
  /\ nr = Flip(cns)
  /\ Len(cout) > CardIfs /\ rbuf \o SubSeq(cout, CardIfs + 1, Len(cout)) = Reply[snd]
  /\ cheld = NoBlock
  /\ NoI /\ (clast.type = "R" \/ (turn = "card" /\ clast.type = "I"))

\* The reader has dropped the numbers, with nothing of the APDU acknowledged.
Resynching ==
  /\ turn # "host" /\ state = "RESYNCH"
  /\ snd \in Apdu /\ head = 0 /\ ns = 0 /\ nr = 0
  /\ NoI

Phases ==
  state # "DEAD" /\ resynced # "lossy" =>
    Idle \/ NotReceived \/ Received \/ Executed \/ Awaiting \/ Collected \/ Resynching

SysInv ==
  /\ Inv /\ CardTypes /\ HostTypes /\ CardOK
  /\ LineOK /\ OnlyWhatWasSent /\ Phases
-----------------------------------------------------------------------------
(* The helpers *)

LEMMA Records ==
  /\ \A q, err : /\ R(q, err).type = "R" /\ R(q, err).seq = q /\ R(q, err).ok
  /\ \A kind, resp, val : /\ S(kind, resp, val).type = "S" /\ S(kind, resp, val).kind = kind
                           /\ S(kind, resp, val).resp = resp /\ S(kind, resp, val).val = val
                           /\ S(kind, resp, val).ok
BY DEF R, S

LEMMA MadeByCard ==
  /\ \A q \in Bit, err \in {"none", "edc", "other"} : R(q, err) \in CardBlock
  /\ \A kind \in SKind, resp \in BOOLEAN, val \in 0 .. MaxIfs :
        S(kind, resp, val) \in CardBlock
BY MadeBlocks DEF CardBlock

LEMMA CardBlocks ==
  /\ \A b \in CardBlock : b.type \in {"I", "R", "S"} /\ b # NoBlock
  /\ \A b \in CardBlock : b.type = "I" => b \in IBlock
  /\ \A b \in CardBlock : b.type = "R" => b \in RBlock
  /\ \A b \in CardBlock : b.type = "S" => b \in SBlock
  /\ NoBlock.type = "none" /\ Truncated.type = "truncated"
  /\ \A b \in Fault : b.type \notin {"I", "R", "S"}
BY DEF CardBlock, IBlock, RBlock, SBlock, NoBlock, Truncated, Fault

LEMMA FlipFlips ==
  ASSUME NEW b \in Bit
  PROVE  Flip(b) \in Bit /\ Flip(b) # b /\ Flip(Flip(b)) = b
BY DEF Bit, Flip

LEMMA Regrouped ==
  ASSUME NEW x \in Seq(Unit), NEW y \in Seq(Unit), NEW z \in Seq(Unit)
  PROVE  (x \o y) \o z = x \o (y \o z)
BY ConcatAssociative

(* The end of a sequence just appended to, and what was there before.        *)
LEMMA Appended ==
  ASSUME NEW T, NEW s \in Seq(T), NEW x \in T
  PROVE  /\ Append(s, x) # <<>> /\ Append(s, x)[Len(Append(s, x))] = x
         /\ SubSeq(Append(s, x), 1, Len(Append(s, x)) - 1) = s
<1>1. Len(s) \in Nat
  BY LenProperties
<1> DEFINE t == Append(s, x)
           front == SubSeq(t, 1, Len(t) - 1)
<1>2. /\ t \in Seq(T) /\ t # <<>> /\ Len(t) = Len(s) + 1
      /\ \A i \in 1 .. Len(s) : t[i] = s[i]
      /\ t[Len(s) + 1] = x
  BY AppendProperties
<1> HIDE DEF t
<1>3. Len(t) - 1 = Len(s)
  BY <1>1, <1>2
<1>4. \A i \in 1 .. Len(s) : t[i] \in T
  BY <1>1, <1>2, ElementOfSeq
<1>5. /\ front \in Seq(T) /\ Len(front) = Len(s)
      /\ \A i \in 1 .. Len(s) : front[i] = t[i]
  BY <1>1, <1>3, <1>4, SubSeqProperties
<1> HIDE DEF front
<1>6. front = s
  BY <1>2, <1>5, SeqEqual
<1> QED BY <1>2, <1>6 DEF t, front

(* The I-block the card makes of an answer a: it fits, and it is the start   *)
(* of a or the whole of it.                                                  *)
LEMMA ChunkOf ==
  ASSUME NEW a \in Seq(Unit), a # <<>>, NEW n \in Bit
  PROVE  /\ Chunk(a, n) \in CardBlock /\ Chunk(a, n).type = "I" /\ Chunk(a, n).seq = n
         /\ Chunk(a, n).more = (Len(a) > CardIfs)
         /\ Chunk(a, n).data \in Seq(Unit)
         /\ Len(a) <= CardIfs => Chunk(a, n).data = a
         /\ Len(a) > CardIfs =>
              /\ SubSeq(a, CardIfs + 1, Len(a)) \in Seq(Unit) \ {<<>>}
              /\ Chunk(a, n).data \o SubSeq(a, CardIfs + 1, Len(a)) = a
<1> DEFINE len  == IF Len(a) > CardIfs THEN CardIfs ELSE Len(a)
           data == SubSeq(a, 1, len)
           rest == SubSeq(a, CardIfs + 1, Len(a))
<1>1. /\ Chunk(a, n) = [type |-> "I", seq |-> n, more |-> Len(a) > CardIfs, data |-> data]
      /\ Chunk(a, n).type = "I" /\ Chunk(a, n).seq = n
      /\ Chunk(a, n).more = (Len(a) > CardIfs) /\ Chunk(a, n).data = data
  BY DEF Chunk
<1>2. Len(a) \in Nat /\ CardIfs \in Nat /\ 1 <= CardIfs /\ CardIfs <= MaxLen /\ MaxLen \in Nat
  BY LenProperties, SystemAssumption, ReaderAssumption
<1>3. len \in 0 .. MaxLen /\ len <= Len(a)
  BY <1>2
<1>4. data \in [1 .. len -> Unit] /\ data \in Seq(Unit)
  <2> HIDE DEF len
  <2>1. \A i \in 1 .. len : a[i] \in Unit
    BY <1>2, <1>3, ElementOfSeq
  <2>2. data \in Seq(Unit) /\ Len(data) = len
    BY <1>2, <1>3, <2>1, SubSeqProperties
  <2> HIDE DEF data
  <2> QED BY <2>2, LenProperties
<1>5. Chunk(a, n) \in CardBlock
  <2> HIDE DEF len, data
  <2>1. data \in UNION {[1 .. m -> Unit] : m \in 0 .. MaxLen}
    BY <1>3, <1>4
  <2>2. (Len(a) > CardIfs) \in BOOLEAN
    OBVIOUS
  <2>3. Chunk(a, n) \in IBlock
    BY <1>1, <2>1, <2>2 DEF IBlock
  <2> QED BY <2>3 DEF CardBlock
<1>6. ASSUME Len(a) <= CardIfs PROVE data = a
  BY <1>2, <1>6, SubSeqFull
<1>7. ASSUME Len(a) > CardIfs
      PROVE  rest \in Seq(Unit) \ {<<>>} /\ data \o rest = a
  <2>1. len = CardIfs
    BY <1>7
  <2>2. SubSeq(a, 1, CardIfs) \o rest = SubSeq(a, 1, Len(a))
    BY <1>2, <1>7, ConcatAdjacentSubSeq
  <2>3. SubSeq(a, 1, Len(a)) = a
    BY SubSeqFull
  <2>4. \A i \in CardIfs + 1 .. Len(a) : a[i] \in Unit
    BY <1>2, ElementOfSeq
  <2>5. rest \in Seq(Unit) /\ Len(rest) = Len(a) - CardIfs
    BY <1>2, <1>7, <2>4, SubSeqProperties
  <2>6. rest # <<>>
    <3> HIDE DEF rest
    <3> QED BY <1>2, <1>7, <2>5, EmptySeq
  <2> QED BY <2>1, <2>2, <2>3, <2>5, <2>6
<1> QED BY <1>1, <1>4, <1>5, <1>6, <1>7

-----------------------------------------------------------------------------
(* What the card does with a block *)

(* It answers with b, at once or after it has asked for something.           *)
LEMMA Answers ==
  ASSUME NEW b \in CardBlock, b.type # "S", Answer(b),
         cnr' \in Bit, cns' \in Bit, cin' \in Seq(Unit), cout' \in Seq(Unit),
         executed' \in Seq(Seq(Unit)),
         Current(b, cnr', cns', cout'), b.type = "R" => cout' = <<>>
  PROVE  CardTypes' /\ CardOK' /\ clast' \in CardBlock /\ (clast' = b \/ Asking')
<1>1. CASE Say(b) /\ cheld' = NoBlock
  <2>1. clast' = b /\ cheld' = NoBlock
    BY <1>1 DEF Say
  <2>2. ~Asking'
    BY <2>1 DEF Asking
  <2>3. Current(NoBlock, cnr', cns', cout') /\ NoBlock.type = "none"
    BY CardBlocks DEF Current
  <2> QED BY <2>1, <2>2, <2>3 DEF CardTypes, CardOK
<1>2. CASE /\ cheld' = b
           /\ Say(S("wtx", FALSE, 1)) \/ \E v \in 1 .. MaxIfs : Say(S("ifs", FALSE, v))
  <2>1. clast' = S("wtx", FALSE, 1) \/ \E v \in 1 .. MaxIfs : clast' = S("ifs", FALSE, v)
    BY <1>2 DEF Say
  <2>2. /\ clast' \in SBlock
        /\ clast'.type = "S" /\ ~clast'.resp /\ clast'.ok
        /\ clast'.kind \in {"ifs", "wtx"} /\ clast'.val > 0
    <3>1. CASE clast' = S("wtx", FALSE, 1)
      BY <3>1, ReaderAssumption DEF S, SBlock, SKind
    <3>2. ASSUME NEW v \in 1 .. MaxIfs, clast' = S("ifs", FALSE, v) 
                 PROVE  /\ clast' \in SBlock
                        /\ clast'.type = "S" /\ ~clast'.resp /\ clast'.ok
                        /\ clast'.kind \in {"ifs", "wtx"} /\ clast'.val > 0
      BY <3>2, ReaderAssumption DEF S, SBlock, SKind
    <3> QED BY <2>1, <3>1, <3>2
  <2>3. clast' \in CardBlock
    BY <2>2 DEF CardBlock
  <2>4. Asking' /\ b # NoBlock
    BY <2>2, CardBlocks DEF Asking
  <2>5. Current(clast', cnr', cns', cout')
    BY <2>2 DEF Current
  <2>6. CardOK'
    BY <1>2, <2>2, <2>4, <2>5 DEF CardOK
  <2> QED BY <1>2, <2>3, <2>4, <2>6 DEF CardTypes
<1> QED BY <1>1, <1>2 DEF Answer

(* It says b, and nothing else changes.                                      *)
LEMMA Repeats ==
  ASSUME CardTypes, CardOK, NEW b \in CardBlock, Repeat(b),
         Current(b, cnr, cns, cout), b.type # "S" => cheld = NoBlock,
         b.type = "S" => b = clast
  PROVE  CardTypes' /\ CardOK' /\ clast' = b /\ UNCHANGED <<CardBuffers, cheld>>
<1>1. /\ clast' = b
      /\ UNCHANGED <<cnr, cns, cin, cout, executed, cheld>>
  BY DEF Repeat, Say, CardBuffers
<1>2. CardTypes'
  BY <1>1 DEF CardTypes
<1>3. CardOK'
  <2>1. CASE b.type = "S"
    <3>1. clast' = clast
      BY <1>1, <2>1
    <3> QED BY <1>1, <3>1 DEF CardOK, Asking
  <2>2. CASE b.type # "S"
    <3>1. ~Asking' /\ cheld' = NoBlock /\ Current(cheld', cnr', cns', cout') /\ cheld' = cheld
      BY <1>1, <2>2 DEF CardOK, Asking
    <3> QED BY <1>1, <2>2, <3>1 DEF CardOK
  <2> QED BY <2>1, <2>2
<1> QED BY <1>1, <1>2, <1>3 DEF CardBuffers

(* Whatever it takes for garbage makes it say what it expects.               *)
LEMMA GarbageRead ==
  ASSUME CardTypes, CardOK, ReadsGarbage
  PROVE  /\ CardTypes' /\ CardOK' /\ clast' \in CardBlock
         /\ UNCHANGED <<CardBuffers, cheld>>
         /\ clast'.type = "R" \/ Asking'
<1>1. CASE clast.type = "R" \/ Asking
  <2>1. Repeat(clast) /\ clast \in CardBlock
    BY <1>1, CardBlocks DEF ReadsGarbage, Asking, CardTypes
  <2>2. Current(clast, cnr, cns, cout) /\ (clast.type # "S" => cheld = NoBlock)
    BY DEF CardOK, Asking
  <2>3. CardTypes' /\ CardOK' /\ clast' = clast /\ UNCHANGED <<CardBuffers, cheld>>
    BY <2>1, <2>2, Repeats
  <2> QED BY <1>1, <2>1, <2>3 DEF Asking
<1>2. CASE ~(clast.type = "R" \/ Asking)
  <2>1. Repeat(R(cnr, "edc")) /\ cheld = NoBlock
    BY <1>2 DEF ReadsGarbage, Asking, CardOK
  <2>2. R(cnr, "edc") \in CardBlock /\ Current(R(cnr, "edc"), cnr, cns, cout)
    BY MadeByCard, Records DEF CardTypes, Current
  <2>3. /\ CardTypes' /\ CardOK' /\ clast' = R(cnr, "edc")
        /\ UNCHANGED <<CardBuffers, cheld>>
    BY <2>1, <2>2, Records, Repeats
  <2> QED BY <2>2, <2>3, Records
<1> QED BY <1>1, <1>2

(* It takes an I-block with the number it expects, and refuses any other.    *)
LEMMA IRead ==
  ASSUME CardTypes, CardOK, line \in ReaderBlock, cheld = NoBlock, ReadsI
  PROVE  /\ CardTypes' /\ CardOK' /\ clast' \in CardBlock
         /\ line.seq = cnr =>
              /\ cnr' = Flip(cnr) /\ cns' = NextFromCard
              /\ line.more =>
                   /\ cin' = cin \o line.data /\ cout' = <<>> /\ executed' = executed
                   /\ clast'.type = "R" \/ Asking'
              /\ ~line.more =>
                   /\ cin' = <<>> /\ executed' = Append(executed, cin \o line.data)
                   /\ cin \o line.data \in Apdu => cout' = Reply[cin \o line.data]
                   /\ clast'.type = "I" \/ Asking'
<1> DEFINE command == cin \o line.data
           reply   == IF command \in Apdu THEN Reply[command] ELSE Refusal
<1>1. line.type = "I" /\ line.data \in Seq(Unit)
  <2>1. line.type = "I"
    BY DEF ReadsI
  <2>2. \A b \in RBlock \cup SBlock : b.type # "I"
    BY Types
  <2> QED BY <2>1, <2>2, Types DEF ReaderBlock
<1>2. CASE line.seq # cnr
  <2>1. Repeat(R(cnr, "other"))
    BY <1>2 DEF ReadsI
  <2>2. R(cnr, "other") \in CardBlock /\ Current(R(cnr, "other"), cnr, cns, cout)
    BY MadeByCard, Records DEF CardTypes, Current
  <2>3. CardTypes' /\ CardOK' /\ clast' \in CardBlock
    BY <2>1, <2>2, Records, Repeats
  <2> QED BY <1>2, <2>3
<1>3. CASE line.seq = cnr
  <2>1. command \in Seq(Unit)
    BY <1>1, ConcatProperties DEF CardTypes
  <2>2. reply \in Seq(Unit) /\ reply # <<>> /\ (command \in Apdu => reply = Reply[command])
    BY SystemAssumption
  <2> HIDE DEF command, reply
  <2>3. cnr' = Flip(cnr) /\ cns' = NextFromCard /\ cnr' \in Bit /\ cns' \in Bit
    BY <1>3, FlipFlips DEF ReadsI, NextFromCard, CardTypes
  <2>4. CASE line.more
    <3>1. /\ cin' = command /\ cout' = <<>> /\ executed' = executed
          /\ Answer(R(Flip(cnr), "none"))
      BY <1>3, <2>4 DEF ReadsI, command
    <3>2. <<>> \in Seq(Unit) /\ executed' \in Seq(Seq(Unit)) /\ Flip(cnr) \in Bit
      BY <2>3, <3>1, EmptySeq DEF CardTypes
    <3>3. /\ R(Flip(cnr), "none") \in CardBlock /\ R(Flip(cnr), "none").type = "R"
          /\ Current(R(Flip(cnr), "none"), cnr', cns', cout')
      BY <2>3, <3>2, MadeByCard, Records DEF Current
    <3>4. CardTypes' /\ CardOK' /\ clast' \in CardBlock /\ (clast' = R(Flip(cnr), "none") \/ Asking')
      BY <2>1, <2>3, <3>1, <3>2, <3>3, Answers
    <3> QED BY <2>3, <2>4, <3>1, <3>3, <3>4 DEF command
  <2>5. CASE ~line.more
    <3>1. /\ cin' = <<>> /\ cout' = reply /\ executed' = Append(executed, command)
          /\ Answer(Chunk(reply, NextFromCard))
      BY <1>3, <2>5 DEF ReadsI, command, reply, NextFromCard
    <3>2. <<>> \in Seq(Unit) /\ executed' \in Seq(Seq(Unit))
      <4>1. executed \in Seq(Seq(Unit))
        BY DEF CardTypes
      <4>2. Append(executed, command) \in Seq(Seq(Unit))
        BY <2>1, <4>1, AppendProperties
      <4> QED BY <3>1, <4>2, EmptySeq
    <3>3. /\ Chunk(reply, NextFromCard) \in CardBlock
          /\ Chunk(reply, NextFromCard).type = "I"
          /\ Current(Chunk(reply, NextFromCard), cnr', cns', cout')
      BY <2>2, <2>3, <3>1, ChunkOf DEF Current
    <3>4. CardTypes' /\ CardOK' /\ clast' \in CardBlock /\ (clast' = Chunk(reply, NextFromCard) \/ Asking')
      BY <2>2, <2>3, <3>1, <3>2, <3>3, Answers
    <3> QED BY <2>2, <2>3, <2>5, <3>1, <3>3, <3>4 DEF command
  <2> QED BY <2>4, <2>5
<1> QED BY <1>2, <1>3

\* An R-block that asks for the card's next I-block, when there is one to send.
GoesOn == cout # <<>> /\ cheld = NoBlock /\ line.seq # cns /\ Len(cout) > CardIfs

(* It goes on with its answer, or repeats what it has said.                  *)
LEMMA RRead ==
  ASSUME CardTypes, CardOK, ReadsR
  PROVE  /\ CardTypes' /\ CardOK' /\ clast' \in CardBlock
         /\ GoesOn =>
              /\ cout' = SubSeq(cout, CardIfs + 1, Len(cout)) /\ cout' # <<>>
              /\ cns' = Flip(cns)
              /\ UNCHANGED <<cnr, cin, executed>>
              /\ clast'.type = "I" \/ Asking'
         /\ ~GoesOn =>
              /\ UNCHANGED <<CardBuffers, cheld>>
              /\ \/ clast' = clast
                 \/ clast'.type = "R"
                 \/ clast'.type = "I" /\ cout # <<>> /\ line.seq = cns
<1>1. /\ R(cnr, "other") \in CardBlock /\ Current(R(cnr, "other"), cnr, cns, cout)
      /\ R(cnr, "other").type = "R"
  BY MadeByCard, Records DEF CardTypes, Current
<1>2. CASE cout = <<>> \/ cheld # NoBlock
  <2>1. Repeat(IF clast = NoBlock THEN R(cnr, "other") ELSE clast)
    BY <1>2 DEF ReadsR
  <2>2. CASE clast = NoBlock
    <3>1. Repeat(R(cnr, "other")) /\ cheld = NoBlock
      BY <2>1, <2>2, CardBlocks DEF CardOK, Asking
    <3>2. /\ CardTypes' /\ CardOK' /\ clast' = R(cnr, "other")
          /\ UNCHANGED <<CardBuffers, cheld>>
      BY <1>1, <3>1, Repeats
    <3> QED BY <1>1, <1>2, <3>2 DEF GoesOn
  <2>3. CASE clast # NoBlock
    <3>1. Repeat(clast) /\ clast \in CardBlock
      BY <2>1, <2>3 DEF CardTypes
    <3>2. Current(clast, cnr, cns, cout) /\ (clast.type # "S" => cheld = NoBlock)
      BY DEF CardOK, Asking
    <3>3. /\ CardTypes' /\ CardOK' /\ clast' = clast
          /\ UNCHANGED <<CardBuffers, cheld>>
      BY <3>1, <3>2, Repeats
    <3> QED BY <1>2, <3>1, <3>3 DEF GoesOn
  <2> QED BY <2>2, <2>3
<1>3. CASE ~(cout = <<>> \/ cheld # NoBlock) /\ line.seq = cns
  <2>1. Repeat(Chunk(cout, cns)) /\ cout # <<>> /\ cheld = NoBlock
    BY <1>3 DEF ReadsR
  <2>2. /\ Chunk(cout, cns) \in CardBlock /\ Chunk(cout, cns).type = "I"
        /\ Current(Chunk(cout, cns), cnr, cns, cout)
    BY <2>1, ChunkOf DEF CardTypes, Current
  <2>3. /\ CardTypes' /\ CardOK' /\ clast' = Chunk(cout, cns)
        /\ UNCHANGED <<CardBuffers, cheld>>
    BY <2>1, <2>2, Repeats
  <2> QED BY <1>3, <2>2, <2>3 DEF GoesOn
<1>4. CASE ~(cout = <<>> \/ cheld # NoBlock) /\ line.seq # cns /\ Len(cout) <= CardIfs
  <2>1. Repeat(R(cnr, "other")) /\ cheld = NoBlock
    BY <1>4 DEF ReadsR
  <2>2. /\ CardTypes' /\ CardOK' /\ clast' = R(cnr, "other")
        /\ UNCHANGED <<CardBuffers, cheld>>
    BY <1>1, <2>1, Repeats
  <2>3. Len(cout) \in Nat /\ CardIfs \in Nat
    BY LenProperties, SystemAssumption, ReaderAssumption DEF CardTypes
  <2> QED BY <1>1, <1>4, <2>2, <2>3 DEF GoesOn
<1>5. CASE ~(cout = <<>> \/ cheld # NoBlock) /\ line.seq # cns /\ ~(Len(cout) <= CardIfs)
  <2> DEFINE rest == SubSeq(cout, CardIfs + 1, Len(cout))
  <2>1. /\ cns' = Flip(cns) /\ cout' = rest
        /\ Answer(Chunk(rest, Flip(cns)))
        /\ UNCHANGED <<cnr, cin, executed>>
    BY <1>5 DEF ReadsR
  <2>2. Len(cout) \in Nat /\ CardIfs \in Nat /\ Flip(cns) \in Bit
    BY LenProperties, FlipFlips, SystemAssumption, ReaderAssumption DEF CardTypes
  <2>3. Len(cout) > CardIfs /\ GoesOn
    BY <1>5, <2>2 DEF GoesOn
  <2>4. rest \in Seq(Unit) /\ rest # <<>>
    BY <2>2, <2>3, ChunkOf DEF CardTypes, GoesOn
  <2> HIDE DEF rest
  <2>5. /\ Chunk(rest, Flip(cns)) \in CardBlock /\ Chunk(rest, Flip(cns)).type = "I"
        /\ Current(Chunk(rest, Flip(cns)), cnr', cns', cout')
    BY <2>1, <2>2, <2>4, ChunkOf DEF Current
  <2>6. CardTypes' /\ CardOK' /\ clast' \in CardBlock /\ (clast' = Chunk(rest, Flip(cns)) \/ Asking')
    <3>1. cnr' \in Bit /\ cin' \in Seq(Unit) /\ executed' \in Seq(Seq(Unit))
      BY <2>1 DEF CardTypes
    <3> QED BY <2>1, <2>2, <2>4, <2>5, <3>1, Answers
  <2> QED BY <2>1, <2>3, <2>4, <2>5, <2>6 DEF rest
<1> QED BY <1>2, <1>3, <1>4, <1>5

(* It takes up the block it held, or starts anew.                            *)
LEMMA SRead ==
  ASSUME CardTypes, CardOK, LineOK, turn = "card", ReadsS
  PROVE  /\ CardTypes' /\ CardOK' /\ clast' \in CardBlock
         /\ state # "RESYNCH" =>
              /\ Asking /\ UNCHANGED CardBuffers
              /\ clast'.type \in {"R", "I"} \/ Asking'
<1>1. CASE ~line.resp
  <2>1. /\ cnr' = 0 /\ cns' = 0 /\ cin' = <<>> /\ cout' = <<>> /\ cheld' = NoBlock
        /\ clast' = S("resync", TRUE, 0)
        /\ executed' = executed
    BY <1>1 DEF ReadsS, Say
  <2>2. /\ clast' \in CardBlock /\ clast'.type = "S" /\ clast'.resp
    BY <2>1, ReaderAssumption DEF S, SBlock, SKind, CardBlock
  <2>3. <<>> \in Seq(Unit) /\ 0 \in Bit
    BY EmptySeq DEF Bit
  <2>4. CardTypes'
    BY <2>1, <2>2, <2>3 DEF CardTypes
  <2>5. CardOK'
    BY <2>1, <2>2, CardBlocks DEF CardOK, Current, Asking
  <2>6. state = "RESYNCH"
    BY <1>1 DEF ReadsS, LineOK
  <2> QED BY <2>2, <2>4, <2>5, <2>6
<1>2. CASE line.resp
  <2>1. Asking /\ cheld # NoBlock
    BY <1>2 DEF ReadsS, LineOK, CardOK
  <2>2. Answer(cheld) /\ UNCHANGED CardBuffers
    BY <1>2, <2>1 DEF ReadsS
  <2>3. cheld \in CardBlock /\ cheld.type \in {"R", "I"}
    BY <2>1, CardBlocks DEF CardTypes, CardOK
  <2>4. CardTypes' /\ CardOK' /\ clast' \in CardBlock /\ (clast' = cheld \/ Asking')
    BY <2>2, <2>3, Answers DEF CardTypes, CardOK, CardBuffers
  <2> QED BY <2>1, <2>2, <2>3, <2>4
<1> QED BY <1>1, <1>2

-----------------------------------------------------------------------------
(* A step of the card, in every phase *)

\* What CardStep leaves to the reader and the host.
ReaderKept ==
  UNCHANGED <<state, ns, nr, more, snd, head, last_send, rbuf, result, calls, resynced>>

LEMMA CardReads ==
  ASSUME SysInv, CardStep
  PROVE  /\ turn = "card" /\ turn' = "reader" /\ ReaderKept
         /\ line \in ReaderBlock
         /\ CardTypes' /\ CardOK' /\ clast' \in CardBlock
         /\ line' \in Fault \cup {clast'}
         /\ \/ ReadsGarbage
            \/ ReadsI /\ line.type = "I" /\ cheld = NoBlock
            \/ ReadsR /\ line.type = "R"
            \/ ReadsS /\ line.type = "S"
<1>1. turn = "card" /\ turn' = "reader" /\ ReaderKept
  BY DEF CardStep, ReaderKept, t1, Buffers
<1>2. line \in ReaderBlock
  BY <1>1 DEF SysInv, Inv, TypeOK
<1>3. ReadsGarbage \/ ReadsI \/ ReadsR \/ ReadsS
  BY DEF CardStep
<1>4. line' \in Fault \cup {clast'}
  BY DEF CardStep
<1>5. CardTypes /\ CardOK /\ LineOK
  BY DEF SysInv
<1>6. ReadsI => line.type = "I" /\ cheld = NoBlock
  BY <1>1, <1>5 DEF ReadsI, LineOK
<1>7. CardTypes' /\ CardOK' /\ clast' \in CardBlock
  BY <1>1, <1>2, <1>3, <1>5, <1>6, GarbageRead, IRead, RRead, SRead
<1> QED BY <1>1, <1>2, <1>3, <1>4, <1>6, <1>7 DEF ReadsR, ReadsS

LEMMA CardLine == SysInv /\ CardStep => LineOK'
<1> SUFFICES ASSUME SysInv, CardStep PROVE LineOK'
  OBVIOUS
<1>1. /\ turn = "card" /\ turn' = "reader" /\ UNCHANGED <<state, result, resynced>>
      /\ clast' # NoBlock /\ line' \in Fault \cup {clast'}
  BY CardReads, CardBlocks DEF ReaderKept
<1> QED BY <1>1 DEF SysInv, LineOK

(* While the card has nothing more to do than to say what it expects or to   *)
(* send its I-block again, nothing of the exchange moves.                    *)
LEMMA CardWaits ==
  ASSUME SysInv, CardStep, NoI, state # "RESYNCH",
         cout = <<>> \/ nr = cns, clast.type \in {"R", "I"} \/ Asking
  PROVE  /\ UNCHANGED CardBuffers
         /\ clast'.type \in {"R", "I"} \/ Asking'
<1>1. CardTypes /\ CardOK /\ LineOK /\ turn = "card"
  BY CardReads DEF SysInv
<1>2. CASE ReadsGarbage
  BY <1>1, <1>2, GarbageRead
<1>3. CASE ReadsI /\ line.type = "I"
  BY <1>1, <1>3 DEF NoI
<1>4. CASE ReadsR /\ line.type = "R"
  <2>1. line.seq = nr
    BY <1>1, <1>4 DEF LineOK
  <2>2. ~GoesOn
    BY <2>1 DEF GoesOn
  <2>3. UNCHANGED <<CardBuffers, cheld>>
        /\ (clast' = clast \/ clast'.type = "R" \/ clast'.type = "I")
    BY <1>1, <1>4, <2>2, RRead
  <2> QED BY <2>3 DEF Asking
<1>5. CASE ReadsS
  BY <1>1, <1>5, SRead
<1> QED BY <1>2, <1>3, <1>4, <1>5, CardReads

LEMMA CardInNotReceived ==
  ASSUME SysInv, CardStep, NotReceived
  PROVE  NotReceived' \/ Received' \/ Executed'
<1>1. /\ CardTypes /\ CardOK /\ LineOK /\ Inv
      /\ turn = "card" /\ turn' = "reader" /\ ReaderKept
      /\ CardTypes' /\ CardOK'
  BY CardReads DEF SysInv
<1>2. Sending' /\ state # "RESYNCH"
  BY <1>1 DEF NotReceived, Sending, ReaderKept
<1>3. CASE UNCHANGED <<CardBuffers, cheld>> /\ (clast'.type = "R" \/ Asking')
  <2>1. clast'.type = "R"
    BY <1>1, <1>3 DEF NotReceived, CardOK
  <2> QED BY <1>1, <1>2, <1>3, <2>1
          DEF NotReceived, CardBuffers, ReaderKept, NextFromCard, ApduPending
<1>4. CASE ReadsI /\ line.type = "I" /\ cheld = NoBlock
  <2>1. /\ line.seq = ns /\ line.data = SubSeq(snd, head + 1, head + last_send)
        /\ line.more = (head + last_send < Len(snd))
    BY <1>1, <1>4 DEF Inv, ChainIsContiguous
  <2>2. line \in ReaderBlock /\ line.seq = cnr
    BY <2>1, CardReads DEF NotReceived
  <2>3. /\ snd \in Seq(Unit) /\ Len(snd) \in Nat
        /\ head \in Nat /\ last_send \in Nat /\ head + last_send <= Len(snd)
    BY <1>1, LenProperties DEF Inv, TypeOK, AckInBounds
  <2>4. cin \o line.data = SubSeq(snd, 1, head + last_send)
    <3>1. 1 \in 1 .. Len(snd) + 1 /\ head \in 1 - 1 .. Len(snd)
          /\ head + last_send \in head .. Len(snd)
      BY <2>3
    <3> QED BY <2>1, <2>3, <3>1, ConcatAdjacentSubSeq DEF NotReceived
  <2>5. Flip(ns') = cnr' /\ nr' = cns'
    BY <1>1, <1>4, <2>1, <2>2, IRead DEF NotReceived, ReaderKept
  <2>6. CASE line.more
    <3>1. /\ cin' = SubSeq(snd, 1, head + last_send) /\ cout' = <<>> /\ executed' = executed
          /\ clast'.type = "R" \/ Asking'
      BY <1>1, <1>4, <2>2, <2>4, <2>6, IRead
    <3> QED BY <1>1, <1>2, <2>1, <2>5, <2>6, <3>1
            DEF NotReceived, Received, ReaderKept, ApduPending, NoI
  <2>7. CASE ~line.more
    <3>1. head + last_send = Len(snd)
      <4>1. ~(head + last_send < Len(snd))
        BY <2>1, <2>7
      <4> QED BY <2>3, <4>1
    <3>2. cin \o line.data = snd
      BY <2>3, <2>4, <3>1, SubSeqFull
    <3>3. /\ cin' = <<>> /\ executed' = Append(executed, snd) /\ cout' = Reply[snd]
          /\ clast'.type = "I" \/ Asking'
      BY <1>1, <1>4, <2>2, <2>7, <3>2, IRead DEF NotReceived, Sending
    <3>4. ExecutedLast' /\ NothingPending'
      <4>1. executed' # <<>> /\ executed'[Len(executed')] = snd
        <5>1. executed \in Seq(Seq(Unit))
          BY <1>1 DEF CardTypes
        <5> QED BY <2>3, <3>3, <5>1, Appended
      <4> QED BY <1>1, <3>3, <4>1 DEF ExecutedLast, NothingPending, NotReceived, ApduPending, ReaderKept
    <3> QED BY <1>1, <1>2, <2>5, <3>1, <3>3, <3>4 DEF Executed, ReaderKept, NoI
  <2> QED BY <2>6, <2>7
<1>5. CASE ReadsR /\ line.type = "R"
  <2>1. clast.type = "R" /\ line.seq = nr /\ Len(cout) \in Nat /\ CardIfs \in Nat
    BY <1>1, <1>5, LenProperties, SystemAssumption, ReaderAssumption
       DEF NotReceived, LineOK, CardTypes
  <2>2. ~GoesOn /\ (cout # <<>> => line.seq # cns)
    BY <1>1, <2>1, FlipFlips DEF NotReceived, GoesOn, NextFromCard, CardTypes
  <2>3. UNCHANGED <<CardBuffers, cheld>> /\ clast'.type = "R"
    BY <1>1, <1>5, <2>1, <2>2, RRead
  <2> QED BY <1>3, <2>3
<1>6. CASE ReadsS
  <2>1. Asking
    BY <1>1, <1>2, <1>6, SRead
  <2> QED BY <1>1, <2>1 DEF NotReceived, CardOK
<1> QED BY <1>1, <1>3, <1>4, <1>5, <1>6, CardReads, GarbageRead

LEMMA CardInReceived ==
  ASSUME SysInv, CardStep, Received
  PROVE  Received'
<1>1. turn' = "reader" /\ ReaderKept /\ CardOK'
  BY CardReads
<1>2. UNCHANGED CardBuffers /\ (clast'.type \in {"R", "I"} \/ Asking')
  BY CardWaits DEF Received, Sending
<1>3. clast'.type = "R" \/ Asking'
  BY <1>1, <1>2 DEF CardOK, Current, Received, CardBuffers
<1> QED BY <1>1, <1>2, <1>3
        DEF Received, Sending, ReaderKept, CardBuffers, ApduPending, NoI

LEMMA CardInExecuted ==
  ASSUME SysInv, CardStep, Executed
  PROVE  Executed'
<1>1. turn' = "reader" /\ ReaderKept
  BY CardReads
<1>2. UNCHANGED CardBuffers /\ (clast'.type \in {"R", "I"} \/ Asking')
  BY CardWaits DEF Executed, Sending
<1> QED BY <1>1, <1>2
        DEF Executed, Sending, ReaderKept, CardBuffers, ExecutedLast, NothingPending, NoI

LEMMA CardInAwaiting ==
  ASSUME SysInv, CardStep, Awaiting
  PROVE  Awaiting'
<1>1. turn' = "reader" /\ ReaderKept
  BY CardReads
<1>2. UNCHANGED CardBuffers /\ (clast'.type \in {"R", "I"} \/ Asking')
  BY CardWaits DEF Awaiting, Receiving
<1> QED BY <1>1, <1>2
        DEF Awaiting, Receiving, ReaderKept, CardBuffers, ExecutedLast, NothingPending, NoI

LEMMA CardInCollected ==
  ASSUME SysInv, CardStep, Collected
  PROVE  Collected' \/ Awaiting'
<1>1. /\ CardTypes /\ CardOK /\ LineOK
      /\ turn = "card" /\ turn' = "reader" /\ ReaderKept /\ CardOK'
  BY CardReads DEF SysInv
<1>2. Receiving /\ NoI' /\ state # "RESYNCH" /\ turn' # "host"
  BY <1>1 DEF Collected, Receiving, NoI
<1>3. CASE ReadsGarbage
  <2>1. UNCHANGED <<CardBuffers, cheld>> /\ (clast'.type = "R" \/ Asking')
    BY <1>1, <1>3, GarbageRead
  <2>2. clast'.type = "R"
    BY <1>1, <2>1 DEF Collected, CardOK
  <2> QED BY <1>1, <1>2, <2>1, <2>2
          DEF Collected, Receiving, ReaderKept, CardBuffers, ExecutedLast, NothingPending
<1>4. CASE ReadsR /\ line.type = "R"
  <2>1. line.seq = nr /\ GoesOn
    BY <1>1, <1>4, FlipFlips DEF LineOK, GoesOn, Collected, Receiving, CardTypes
  <2>2. /\ cout' = SubSeq(cout, CardIfs + 1, Len(cout)) /\ cout' # <<>>
        /\ cns' = Flip(cns)
        /\ UNCHANGED <<cnr, cin, executed>>
        /\ clast'.type = "I" \/ Asking'
    BY <1>1, <1>4, <2>1, RRead
  <2> QED BY <1>1, <1>2, <2>2
          DEF Collected, Awaiting, Receiving, ReaderKept, ExecutedLast, NothingPending
<1>5. CASE ReadsS
  <2>1. Asking
    BY <1>1, <1>2, <1>5, SRead
  <2> QED BY <1>1, <2>1 DEF Collected, CardOK
<1> QED BY <1>1, <1>3, <1>4, <1>5, CardReads DEF Collected, NoI

LEMMA CardPhases == SysInv /\ CardStep => Phases'
<1> SUFFICES ASSUME SysInv, CardStep, state' # "DEAD", resynced' # "lossy"
             PROVE  \/ Idle' \/ NotReceived' \/ Received' \/ Executed'
                    \/ Awaiting' \/ Collected' \/ Resynching'
  BY DEF Phases
<1>1. turn = "card" /\ turn' = "reader" /\ ReaderKept /\ Phases
  BY CardReads DEF SysInv
<1>2. \/ NotReceived \/ Received \/ Executed \/ Awaiting \/ Collected \/ Resynching
  BY <1>1 DEF Phases, ReaderKept, Idle
<1>3. Resynching => Resynching'
  BY <1>1 DEF Resynching, ReaderKept, NoI
<1> QED BY <1>2, <1>3, CardInNotReceived, CardInReceived, CardInExecuted, CardInAwaiting,
           CardInCollected

-----------------------------------------------------------------------------
(* A turn of the reader's loop, in every phase *)

\* What ReaderStep leaves to the card and the host.
CardKept == UNCHANGED <<cnr, cns, cin, cout, clast, cheld, executed, calls>>

LEMMA ReaderTurns ==
  ASSUME SysInv, ReaderStep
  PROVE  /\ turn = "reader" /\ result = "none" /\ state # "DEAD" /\ CardKept
         /\ line \in Fault \cup {clast} /\ clast \in CardBlock
         /\ ProtocolOK /\ BuffersOK /\ Inv'
         /\ resynced' \in {"no", "clean", "lossy"}
         /\ resynced' = "no" => resynced = "no" /\ state' # "RESYNCH"
         /\ resynced' # "lossy" => resynced # "lossy" /\ ~Lossy
<1>1. turn = "reader" /\ Loop
  BY DEF ReaderStep, Loop, XcvFails, GarbledBlock, IllegalR, WrongR, RWhileReceiving,
         RWhileSending, ExpectedR, WrongI, OverlongI, RightI, ReceivesI, ResyncAnswered,
         StrayResponse, WrongLengthS, RefusedS, GrantedS, Requests, Receives
<1>2. result = "none" /\ state # "DEAD" /\ line \in Fault \cup {clast} /\ clast \in CardBlock
  BY <1>1 DEF SysInv, LineOK, CardTypes
<1>3. CardKept
  BY DEF ReaderStep, CardKept, card
<1>4. ProtocolOK /\ BuffersOK /\ Inv'
  BY <1>1, Halves, NextInv DEF SysInv, Next
<1>5. /\ resynced' \in {"no", "clean", "lossy"}
      /\ resynced' = "no" => resynced = "no" /\ state' # "RESYNCH"
      /\ resynced' # "lossy" => resynced # "lossy" /\ ~Lossy
  <2>1. resynced \in {"no", "clean", "lossy"}
    BY DEF SysInv, HostTypes
  <2>2. resynced' = IF Lossy THEN "lossy"
                    ELSE IF state' = "RESYNCH" /\ resynced = "no" THEN "clean"
                    ELSE resynced
    BY DEF ReaderStep
  <2>3. state = "RESYNCH" => resynced # "no"
    BY DEF SysInv, LineOK
  <2> QED BY <2>1, <2>2, <2>3
<1> QED BY <1>1, <1>2, <1>3, <1>4, <1>5

(* In the middle of a call the host's APDU is known.                         *)
LEMMA DuringACall ==
  ASSUME SysInv, turn # "host", resynced # "lossy"
  PROVE  /\ NotReceived \/ Received \/ Executed \/ Awaiting \/ Collected \/ Resynching
         /\ snd \in Apdu /\ snd \in Seq(Unit) /\ Len(snd) \in Nat \ {0}
<1>1. NotReceived \/ Received \/ Executed \/ Awaiting \/ Collected \/ Resynching
  BY DEF SysInv, LineOK, Phases, Idle
<1>2. snd \in Apdu
  BY <1>1 DEF NotReceived, Received, Executed, Awaiting, Collected, Resynching, Sending, Receiving
<1>3. snd \in Seq(Unit) /\ snd # <<>>
  BY <1>2, ReaderAssumption
<1> QED BY <1>1, <1>2, <1>3, LenProperties, EmptySeq

(* The loop ends with an error: nothing is promised until the next reset.    *)
LEMMA Fails ==
  ASSUME SysInv, ReaderStep, state' = "DEAD", turn' = "host", result' = "error"
  PROVE  LineOK' /\ Phases'
BY DEF LineOK, Phases

(* The reader starts a resynchronisation, or gives up.                       *)
LEMMA Resyncs ==
  ASSUME SysInv, ReaderStep, NEW n, Resync(n), snd' = snd
  PROVE  LineOK' /\ Phases'
<1>1. CASE resyncs = 0 /\ Error(n)
  BY <1>1, Fails DEF Error, Return
<1>2. CASE ~(resyncs = 0 /\ Error(n))
  <2>1. /\ ns' = 0 /\ nr' = 0 /\ state' = "RESYNCH" /\ result' = result
        /\ Build(S("resync", FALSE, 0))
    BY <1>2 DEF Resync
  <2>2. turn' = "card" /\ line'.type = "S" /\ ~line'.resp
    BY <2>1 DEF Build, Transmit, S
  <2>3. LineOK'
    BY <2>1, <2>2, ReaderTurns DEF LineOK
  <2>4. ASSUME resynced' # "lossy" PROVE Resynching'
    <3>1. snd \in Apdu
      BY <2>4, ReaderTurns, DuringACall
    <3>2. head' = 0
      BY <2>1, <2>4, ReaderTurns DEF Lossy, Inv, TypeOK
    <3> QED BY <2>1, <2>2, <3>1, <3>2 DEF Resynching, NoI
  <2> QED BY <2>3, <2>4 DEF Phases
<1> QED BY <1>1, <1>2

(* The reader sends a block that leaves the exchange where it is.            *)
LEMMA Stays ==
  ASSUME SysInv, ReaderStep, turn' = "card",
         UNCHANGED <<state, ns, nr, more, result, snd, head, last_send, rbuf>>,
         line'.type # "I", line'.type = "R" => line'.seq = nr,
         line'.type = "S" => line'.resp /\ Asking
  PROVE  LineOK' /\ Phases'
<1>1. LineOK'
  BY ReaderTurns DEF LineOK, CardKept, Asking
<1>2. ASSUME resynced' # "lossy"
      PROVE  \/ NotReceived' \/ Received' \/ Executed' \/ Awaiting' \/ Collected'
             \/ Resynching'
  <2>1. CardKept /\ NoI' /\ turn = "reader" /\ (resynced' = "no" => resynced = "no")
    BY ReaderTurns DEF NoI
  <2>2. Sending => Sending'
    BY DEF Sending
  <2>3. /\ NothingPending => NothingPending'
        /\ ApduPending => ApduPending'
        /\ ExecutedLast => ExecutedLast'
    BY <2>1 DEF NothingPending, ApduPending, ExecutedLast, CardKept
  <2>4. Receiving => Receiving'
    BY <2>1, <2>3 DEF Receiving, CardKept
  <2>5. NotReceived => NotReceived'
    BY <2>1, <2>2, <2>3 DEF NotReceived, NextFromCard, CardKept
  <2>6. Received => Received'
    BY <2>1, <2>2, <2>3 DEF Received, CardKept, Asking
  <2>7. Executed => Executed'
    BY <2>1, <2>2, <2>3 DEF Executed, CardKept, Asking
  <2>8. Awaiting => Awaiting'
    BY <2>1, <2>4 DEF Awaiting, CardKept, Asking
  <2>9. Collected => Collected'
    BY <2>1, <2>4 DEF Collected, CardKept
  <2>10. Resynching => Resynching'
    BY <2>1 DEF Resynching
  <2> QED BY <1>2, <2>5, <2>6, <2>7, <2>8, <2>9, <2>10, ReaderTurns, DuringACall
<1> QED BY <1>1, <1>2 DEF Phases

LEMMA Complains ==
  ASSUME SysInv, ReaderStep, NEW err, Complain(err), UNCHANGED Buffers
  PROVE  LineOK' /\ Phases'
<1>1. CASE Left = 0 /\ Resync(ns)
  BY <1>1, Resyncs DEF Buffers
<1>2. CASE ~(Left = 0 /\ Resync(ns))
  <2>1. /\ IF previous.type = "R" THEN Rebuild ELSE Build(R(nr, err))
        /\ UNCHANGED <<state, ns, nr, more, result>>
    BY <1>2 DEF Complain
  <2>2. /\ turn' = "card"
        /\ \/ line' = previous /\ previous.type = "R"
           \/ line' = Truncated
           \/ line' = R(nr, err)
    BY <2>1 DEF Rebuild, Build, Transmit
  <2>3. previous.type = "R" => previous.seq = nr
    BY ReaderTurns DEF SysInv, Inv, RepeatsAreFresh
  <2>4. line'.type \in {"R", "truncated"} /\ (line'.type = "R" => line'.seq = nr)
    BY <2>2, <2>3, Records, CardBlocks
  <2> QED BY <2>1, <2>2, <2>4, Stays DEF Buffers
<1> QED BY <1>1, <1>2

LEMMA ReaderFails == ASSUME SysInv, ReaderStep, XcvFails \/ OverlongI PROVE LineOK' /\ Phases'
BY Fails DEF XcvFails, OverlongI, Error, Return

LEMMA ReaderComplains ==
  ASSUME SysInv, ReaderStep, GarbledBlock \/ IllegalR \/ WrongR \/ StrayResponse
  PROVE  LineOK' /\ Phases'
BY Complains DEF GarbledBlock, IllegalR, WrongR, StrayResponse

LEMMA ReaderAcknowledges ==
  ASSUME SysInv, ReaderStep, RWhileReceiving \/ WrongLengthS
  PROVE  LineOK' /\ Phases'
<1>1. CASE previous.type = "R" /\ Complain("none") /\ UNCHANGED Buffers
  BY <1>1, Complains
<1>2. CASE ~(previous.type = "R" /\ Complain("none") /\ UNCHANGED Buffers)
  <2>1. PICK err \in {"none", "other"} :
          /\ Build(R(nr, err))
          /\ UNCHANGED <<state, ns, nr, more, result, Buffers>>
    BY <1>2 DEF RWhileReceiving, WrongLengthS
  <2>2. line' = R(nr, err) /\ turn' = "card"
    BY <2>1 DEF Build, Transmit
  <2> QED BY <2>1, <2>2, Records, Stays DEF Buffers
<1> QED BY <1>1, <1>2

LEMMA ReaderGrants ==
  ASSUME SysInv, ReaderStep, GrantedS
  PROVE  LineOK' /\ Phases'
<1>1. /\ line.type = "S" /\ ~line.resp
      /\ Build(S(line.kind, TRUE, line.val))
      /\ UNCHANGED <<state, ns, nr, more, result, Buffers>>
  BY DEF GrantedS, Requests, Receives
<1>2. Asking
  BY <1>1, ReaderTurns, CardBlocks DEF Asking
<1>3. turn' = "card" /\ line'.type = "S" /\ line'.resp
  BY <1>1 DEF Build, Transmit, S
<1> QED BY <1>1, <1>2, <1>3, Stays DEF Buffers

LEMMA ReaderRefuses ==
  ASSUME SysInv, ReaderStep, RefusedS
  PROVE  LineOK' /\ Phases'
BY Resyncs DEF RefusedS, Buffers

(* An R-block tells the reader whether the card has its last I-block.        *)
LEMMA ReaderSends ==
  ASSUME SysInv, ReaderStep, RWhileSending
  PROVE  LineOK' /\ Phases'
<1> DEFINE acked == line.seq # ns
           h == IF acked THEN head + last_send ELSE head
           n == IF acked THEN Flip(ns) ELSE ns
<1>1. /\ head' = h /\ snd' = snd /\ rbuf' = rbuf
      /\ \/ h = Len(snd) /\ Resync(n)
         \/ /\ h < Len(snd)
            /\ BuildI(snd, h, n) /\ ns' = n
            /\ UNCHANGED <<state, nr, ifsc, resyncs, result>>
  BY DEF RWhileSending
<1>2. CASE h = Len(snd) /\ Resync(n)
  <2> HIDE DEF n, h, acked
  <2> QED BY <1>1, <1>2, Resyncs
<1>3. CASE /\ h < Len(snd)
           /\ BuildI(snd, h, n) /\ ns' = n
           /\ UNCHANGED <<state, nr, ifsc, resyncs, result>>
  <2>1. /\ ifsc \in Nat /\ snd \in Seq(Unit) /\ Len(snd) \in Nat /\ h \in Nat /\ h <= Len(snd)
        /\ ns \in Bit /\ n \in Bit
    BY <1>3, ReaderTurns, FlipFlips, LenProperties DEF ProtocolOK, BuffersOK
  <2>2. /\ turn' = "card" /\ line'.type = "I" /\ line'.more = more'
        /\ line'.more = (h + last_send' < Len(snd))
    <3> HIDE DEF h, n, acked
    <3> QED BY <1>3, <2>1, BuildITypes
  <2>3. /\ line.type = "R" /\ line = clast /\ line.seq = cnr /\ cheld = NoBlock
        /\ line.seq = ns \/ more
        /\ state # "RECEIVING"
    <3>1. line.type = "R" /\ (line.seq = ns \/ more) /\ state # "RECEIVING"
      BY DEF RWhileSending, ExpectedR, Receives
    <3>2. line = clast
      BY <3>1, ReaderTurns, CardBlocks
    <3> QED BY <3>1, <3>2 DEF SysInv, CardOK, Current, Asking
  <2>4. LineOK'
    BY <1>3, <2>2, <2>3, ReaderTurns DEF LineOK, CardKept, SysInv
  <2>5. ASSUME resynced' # "lossy" PROVE NotReceived'
    <3>1. state = "SENDING" /\ state' = "SENDING"
      BY <1>3, <2>2, <2>3, <2>5, ReaderTurns DEF Lossy, ProtocolOK
    <3>2. /\ NotReceived \/ Received \/ Executed
          /\ snd \in Apdu /\ cnr \in Bit /\ cns \in Bit
          /\ head \in Nat /\ last_send \in Nat
      BY <2>5, <3>1, ReaderTurns, DuringACall
         DEF Awaiting, Collected, Resynching, Receiving, SysInv, CardTypes, BuffersOK
    <3>3. ~Executed
      <4> SUFFICES ASSUME Executed PROVE FALSE
        OBVIOUS
      <4>1. Flip(ns) = cnr /\ more = (head + last_send < Len(snd))
            /\ head + last_send = Len(snd)
        BY DEF Executed, Sending
      <4>2. ~(head + last_send < Len(snd))
        BY <2>1, <4>1
      <4>3. line.seq # ns
        BY <2>1, <2>3, <4>1, FlipFlips
      <4> QED BY <2>3, <4>1, <4>2, <4>3
    <3>4. /\ NotReceived => ~acked
          /\ Received => acked
      BY <2>1, <2>3, FlipFlips DEF NotReceived, Received
    <3>5. /\ n = cnr /\ nr = NextFromCard /\ Len(cout) <= CardIfs
          /\ cin = SubSeq(snd, 1, h) /\ cheld = NoBlock /\ rbuf = <<>>
          /\ ApduPending
      <4>1. CASE NotReceived
        BY <3>4, <4>1 DEF NotReceived, Sending
      <4>2. CASE Received
        <5>1. Len(<<>>) = 0 /\ 0 <= CardIfs
          BY EmptySeq, SystemAssumption, ReaderAssumption
        <5> QED BY <2>3, <3>4, <4>2, <5>1 DEF Received, Sending, NextFromCard
      <4> QED BY <3>2, <3>3, <4>1, <4>2
    <3>6. Sending'
      BY <1>1, <2>2, <3>1, <3>2, <3>5 DEF Sending
    <3>7. ApduPending'
      BY <1>1, <3>5, ReaderTurns DEF ApduPending, CardKept
    <3>8. CardKept
      BY ReaderTurns
    <3> HIDE DEF h, n, acked
    <3> QED BY <1>1, <1>3, <2>2, <3>5, <3>6, <3>7, <3>8 DEF NotReceived, NextFromCard, CardKept
  <2> QED BY <2>4, <2>5 DEF Phases
<1> QED BY <1>1, <1>2, <1>3

(* The only I-block the card sends in the course of a call is the next one   *)
(* of its answer.                                                            *)
LEMMA TheCardsI ==
  ASSUME SysInv, turn = "reader", line.type = "I", resynced # "lossy", state # "RESYNCH"
  PROVE  /\ Executed \/ Awaiting
         /\ line = Chunk(cout, cns) /\ cout # <<>> /\ nr = cns
         /\ rbuf \o cout = Reply[snd]
         /\ snd \in Apdu /\ cin = <<>> /\ ExecutedLast /\ NothingPending
<1>1. line = clast /\ clast.type = "I" /\ ~Asking
  BY CardBlocks DEF SysInv, LineOK, Asking
<1>2. cout # <<>> /\ line = Chunk(cout, cns)
  BY <1>1 DEF SysInv, CardOK, Current
<1>3. Executed \/ Awaiting
  BY <1>1, DuringACall DEF NotReceived, Received, Collected, Resynching
<1>4. rbuf \o cout = Reply[snd]
  <2>1. Executed => <<>> \o cout = cout
    BY ConcatEmptySeq DEF SysInv, CardTypes
  <2> QED BY <1>3, <2>1 DEF Executed, Sending, Awaiting
<1>5. snd \in Apdu
  BY DuringACall
<1> QED BY <1>2, <1>3, <1>4, <1>5 DEF Executed, Awaiting, Receiving

LEMMA ReaderMissesI ==
  ASSUME SysInv, ReaderStep, WrongI
  PROVE  LineOK' /\ Phases'
<1>1. line.type = "I" /\ snd' = snd /\ line.seq # nr
  BY DEF WrongI, ReceivesI, Receives
<1>2. CASE Left = 0 /\ Resync(NsAfterI)
  BY <1>1, <1>2, Resyncs
<1>3. CASE ~(Left = 0 /\ Resync(NsAfterI))
  <2>1. /\ Build(R(nr, "other")) /\ state' = "RECEIVING" /\ UNCHANGED <<nr, result>>
    BY <1>3 DEF WrongI
  <2>2. turn' = "card" /\ line' = R(nr, "other")
    BY <2>1 DEF Build, Transmit
  <2>3. LineOK'
    BY <2>1, <2>2, ReaderTurns, Records DEF LineOK
  <2>4. resynced' = "lossy"
    <3> SUFFICES ASSUME resynced' # "lossy" PROVE FALSE
      OBVIOUS
    <3>1. resynced # "lossy" /\ state # "RESYNCH" /\ turn = "reader"
      BY <1>1, <2>2, ReaderTurns, Records DEF Lossy
    <3>2. line = Chunk(cout, cns) /\ cout # <<>> /\ nr = cns
      BY <1>1, <3>1, TheCardsI
    <3>3. cout \in Seq(Unit) /\ cns \in Bit
      BY DEF SysInv, CardTypes
    <3> QED BY <1>1, <3>2, <3>3, ChunkOf
  <2> QED BY <2>3, <2>4 DEF Phases
<1> QED BY <1>2, <1>3

LEMMA ReaderCollects ==
  ASSUME SysInv, ReaderStep, RightI
  PROVE  LineOK' /\ Phases'
<1>1. /\ line.type = "I" /\ snd' = snd
      /\ head' = IF state = "SENDING" THEN head + last_send ELSE head
      /\ last_send' = IF state = "SENDING" THEN 0 ELSE last_send
      /\ rbuf' = rbuf \o line.data
      /\ state' = "RECEIVING" /\ nr' = Flip(nr)
      /\ ns' = IF state = "SENDING" THEN Flip(ns) ELSE ns
  BY DEF RightI, ReceivesI, Receives, NsAfterI
<1>2. \/ line.more /\ turn' = "card" /\ line' = R(Flip(nr), "none") /\ result' = result
      \/ ~line.more /\ turn' = "host" /\ line' = NoBlock /\ result' = "done"
  BY DEF RightI, Build, Transmit, Return
<1>3. cheld = NoBlock
  BY <1>1, ReaderTurns, CardBlocks DEF SysInv, CardOK, Asking
<1>4. LineOK'
  BY <1>1, <1>2, <1>3, ReaderTurns, Records, CardBlocks DEF LineOK, CardKept
<1>5. ASSUME resynced' # "lossy"
      PROVE  Collected' \/ Idle'
  <2>1. resynced # "lossy" /\ state # "RESYNCH" /\ turn = "reader"
    BY <1>1, <1>2, <1>5, ReaderTurns, Records, CardBlocks DEF Lossy
  <2>2. /\ Executed \/ Awaiting
        /\ line = Chunk(cout, cns) /\ cout # <<>> /\ nr = cns
        /\ rbuf \o cout = Reply[snd]
        /\ snd \in Apdu /\ cin = <<>> /\ ExecutedLast /\ NothingPending
    BY <1>1, <2>1, TheCardsI
  <2>3. /\ cnr \in Bit /\ cns \in Bit /\ cout \in Seq(Unit) /\ Len(cout) \in Nat
        /\ CardIfs \in Nat /\ ns \in Bit /\ rbuf \in Seq(Unit)
    BY LenProperties, SystemAssumption, ReaderAssumption, ReaderTurns
       DEF SysInv, CardTypes, ProtocolOK, BuffersOK
  <2>4. ns' = cnr /\ head' = Len(snd) /\ last_send' = 0
    <3>1. CASE Executed
      BY <1>1, <3>1 DEF Executed, Sending
    <3>2. CASE Awaiting
      BY <1>1, <3>2 DEF Awaiting, Receiving
    <3> QED BY <2>2, <3>1, <3>2
  <2>5. /\ CardKept /\ nr' = Flip(cns) /\ ExecutedLast' /\ NothingPending'
        /\ clast = line
    <3>1. CardKept /\ clast = line /\ (resynced' = "no" => resynced = "no")
      BY <1>1, ReaderTurns, CardBlocks
    <3> QED BY <1>1, <2>2, <3>1 DEF ExecutedLast, NothingPending, CardKept
  <2>6. CASE line.more
    <3> DEFINE rest == SubSeq(cout, CardIfs + 1, Len(cout))
    <3>1. /\ Len(cout) > CardIfs
          /\ line.data \in Seq(Unit) /\ rest \in Seq(Unit)
          /\ line.data \o rest = cout
      BY <2>2, <2>3, <2>6, ChunkOf
    <3>2. rbuf' \o rest = Reply[snd]
      <4> HIDE DEF rest
      <4>1. (rbuf \o line.data) \o rest = rbuf \o (line.data \o rest)
        BY <2>3, <3>1, Regrouped
      <4> QED BY <1>1, <2>2, <3>1, <4>1
    <3>3. Receiving'
      BY <1>1, <1>2, <2>2, <2>4, <2>5, <2>6 DEF Receiving, CardKept
    <3>4. NoI' /\ turn' = "card" /\ clast'.type = "I" /\ cheld' = NoBlock
      BY <1>1, <1>2, <1>3, <2>5, <2>6, Records DEF NoI, CardKept
    <3> QED BY <1>1, <2>5, <3>1, <3>2, <3>3, <3>4 DEF Collected, CardKept
  <2>7. CASE ~line.more
    <3>1. Len(cout) <= CardIfs /\ line.data = cout
      <4>1. line.more = (Len(cout) > CardIfs)
        BY <2>2, <2>3, ChunkOf
      <4>2. ~(Len(cout) > CardIfs)
        BY <2>7, <4>1
      <4>3. Len(cout) <= CardIfs
        BY <2>3, <4>2
      <4> QED BY <2>2, <2>3, <4>3, ChunkOf
    <3>2. rbuf' = Reply[snd] /\ turn' = "host"
      BY <1>1, <1>2, <2>2, <2>7, <3>1
    <3>3. nr' = NextFromCard'
      BY <2>2, <2>5 DEF NextFromCard, CardKept
    <3> QED BY <1>1, <1>3, <2>2, <2>4, <2>5, <3>1, <3>2, <3>3 DEF Idle, CardKept
  <2> QED BY <2>6, <2>7
<1> QED BY <1>4, <1>5 DEF Phases

LEMMA ReaderResumes ==
  ASSUME SysInv, ReaderStep, ResyncAnswered
  PROVE  LineOK' /\ Phases'
<1>1. /\ line.type = "S" /\ line.resp /\ state = "RESYNCH" /\ state' = "SENDING"
      /\ BuildI(snd, head, ns) /\ rbuf' = <<>>
      /\ UNCHANGED <<snd, head, ns, nr, result>>
  BY DEF ResyncAnswered, Receives
<1>2. /\ ifsc \in Nat /\ snd \in Seq(Unit) /\ Len(snd) \in Nat /\ head \in Nat
      /\ head <= Len(snd) /\ ns \in Bit
  BY ReaderTurns, LenProperties DEF ProtocolOK, BuffersOK
<1>3. /\ turn' = "card" /\ line'.type = "I" /\ line'.more = more'
      /\ line'.more = (head + last_send' < Len(snd))
  BY <1>1, <1>2, BuildITypes
<1>4. /\ line = clast /\ ~Asking /\ cheld = NoBlock
      /\ cnr = 0 /\ cns = 0 /\ cin = <<>> /\ cout = <<>>
  BY <1>1, ReaderTurns, CardBlocks DEF SysInv, CardOK, Asking
<1>5. LineOK'
  BY <1>1, <1>3, <1>4, ReaderTurns DEF LineOK, CardKept
<1>6. ASSUME resynced' # "lossy" PROVE NotReceived'
  <2>1. Resynching /\ Len(snd) > 0
    BY <1>1, <1>6, ReaderTurns, DuringACall
       DEF NotReceived, Received, Executed, Awaiting, Collected, Sending, Receiving
  <2>2. SubSeq(snd, 1, 0) = <<>>
    BY SubSeqEmpty
  <2>3. Len(<<>>) = 0 /\ 0 <= CardIfs
    BY EmptySeq, SystemAssumption, ReaderAssumption
  <2>4. resynced' # "no" /\ CardKept
    BY <1>1, ReaderTurns DEF SysInv, LineOK
  <2>5. Sending'
    BY <1>1, <1>3, <2>1 DEF Sending, Resynching
  <2> QED BY <1>1, <1>2, <1>3, <1>4, <2>1, <2>2, <2>3, <2>4, <2>5
          DEF NotReceived, Resynching, CardKept, NextFromCard, ApduPending
<1> QED BY <1>5, <1>6 DEF Phases

LEMMA ReaderPhases == SysInv /\ ReaderStep => LineOK' /\ Phases'
<1> SUFFICES ASSUME SysInv, ReaderStep PROVE LineOK' /\ Phases'
  OBVIOUS
<1>1. Loop
  BY DEF ReaderStep
<1> QED BY <1>1, ReaderFails, ReaderComplains, ReaderAcknowledges, ReaderGrants, ReaderRefuses,
           ReaderSends, ReaderMissesI, ReaderCollects, ReaderResumes DEF Loop

-----------------------------------------------------------------------------
(* The host *)

LEMMA HostCallsInv == SysInv /\ HostCalls => SysInv'
<1> SUFFICES ASSUME SysInv, HostCalls PROVE SysInv'
  OBVIOUS
<1>1. PICK a \in Apdu : Transceive(a) /\ calls' = Append(calls, a)
  BY DEF HostCalls
<1>2. /\ turn = "host" /\ state # "DEAD" /\ state' = "SENDING"
      /\ snd' = a /\ head' = 0 /\ rbuf' = <<>> /\ result' = "none"
      /\ BuildI(a, 0, ns) /\ UNCHANGED <<ns, nr, ifsc>>
  BY <1>1 DEF Transceive
<1>3. UNCHANGED <<cnr, cns, cin, cout, clast, cheld, executed, resynced>>
  BY DEF HostCalls, card
<1>4. a \in Seq(Unit) /\ a # <<>> /\ Len(a) \in Nat \ {0}
  <2>1. a \in Seq(Unit) /\ a # <<>>
    BY ReaderAssumption
  <2> QED BY <2>1, LenProperties, EmptySeq
<1>5. Inv'
  BY <1>1, HostInv DEF SysInv, Host
<1>6. /\ turn' = "card" /\ line'.type = "I" /\ line'.more = more'
      /\ line'.more = (0 + last_send' < Len(a))
  <2>1. 0 \in Nat /\ 0 <= Len(a) /\ ns \in Bit /\ ifsc \in Nat
    BY <1>4 DEF SysInv, Inv, TypeOK
  <2> QED BY <1>2, <1>4, <2>1, BuildITypes
<1>7. CardTypes' /\ CardOK'
  BY <1>3 DEF SysInv, CardTypes, CardOK, Asking
<1>8. HostTypes'
  BY <1>1, <1>3, <1>4, AppendProperties DEF SysInv, HostTypes
<1>9. LineOK'
  BY <1>2, <1>3, <1>6 DEF SysInv, LineOK
<1>10. ASSUME resynced # "lossy"
       PROVE  Idle /\ (resynced = "no" => calls = executed)
  BY <1>2, <1>10 DEF SysInv, Phases, NotReceived, Received, Executed, Awaiting, Collected,
                     Resynching, Sending, Receiving, Idle, NothingPending
<1>11. OnlyWhatWasSent'
  <2> SUFFICES ASSUME resynced = "no"
               PROVE  calls' # <<>> /\ executed' = SubSeq(calls', 1, Len(calls') - 1)
    BY <1>3 DEF OnlyWhatWasSent
  <2>1. calls = executed /\ calls \in Seq(Seq(Unit)) /\ a \in Seq(Unit)
    BY <1>4, <1>10 DEF SysInv, HostTypes
  <2> QED BY <1>1, <1>3, <2>1, Appended
<1>12. ASSUME resynced # "lossy" PROVE NotReceived'
  <2>1. SubSeq(a, 1, 0) = <<>>
    BY SubSeqEmpty
  <2>2. Sending'
    BY <1>2, <1>4, <1>6 DEF Sending
  <2>3. ApduPending'
    BY <1>1, <1>2, <1>3, <1>10, <1>12 DEF ApduPending
  <2> QED BY <1>2, <1>3, <1>4, <1>6, <1>10, <1>12, <2>1, <2>2, <2>3
          DEF NotReceived, Idle, NextFromCard
<1>13. Phases'
  BY <1>3, <1>12 DEF Phases
<1> QED BY <1>5, <1>7, <1>8, <1>9, <1>11, <1>13 DEF SysInv

\* A card just powered up and a protocol just attached.
Fresh ==
  /\ turn = "host" /\ state = "SENDING" /\ ns = 0 /\ nr = 0
  /\ cnr = 0 /\ cns = 0 /\ cin = <<>> /\ cout = <<>>
  /\ clast = NoBlock /\ cheld = NoBlock
  /\ executed = <<>> /\ calls = <<>> /\ resynced = "no"
  /\ result # "done"

LEMMA FreshInv == Inv /\ Fresh => SysInv
<1> SUFFICES ASSUME Inv, Fresh PROVE SysInv
  OBVIOUS
<1>1. <<>> \in Seq(Unit) /\ <<>> \in Seq(Seq(Unit)) /\ 0 \in Bit /\ Len(<<>>) = 0
  BY EmptySeq DEF Bit
<1>2. CardTypes /\ HostTypes
  BY <1>1 DEF Fresh, CardTypes, HostTypes
<1>3. CardOK
  BY CardBlocks DEF Fresh, CardOK, Current, Asking
<1>4. LineOK /\ OnlyWhatWasSent
  BY DEF Fresh, LineOK, OnlyWhatWasSent
<1>5. Idle
  <2>1. 0 <= CardIfs
    BY SystemAssumption, ReaderAssumption
  <2> QED BY <1>1, <2>1 DEF Fresh, Idle, NextFromCard, NothingPending
<1> QED BY <1>2, <1>3, <1>4, <1>5 DEF SysInv, Phases

LEMMA PowerCycleInv == SysInv /\ PowerCycle => SysInv'
<1> SUFFICES ASSUME SysInv, PowerCycle PROVE SysInv'
  OBVIOUS
<1>1. Inv'
  BY HostInv DEF SysInv, PowerCycle, Host
<1>2. Fresh'
  BY DEF SysInv, LineOK, PowerCycle, Reset, Fresh
<1>3. Inv' /\ Fresh' => SysInv'
  BY FreshInv, PTL
<1> QED BY <1>1, <1>2, <1>3

-----------------------------------------------------------------------------
(* The system *)

(* A step of the system is a step of the reader against a card that may      *)
(* answer anything, or one the reader takes no notice of.                    *)
LEMMA StepsOfTheReader == SysInv /\ [SysNext]_svars => [Next]_vars
<1> SUFFICES ASSUME SysInv, SysNext PROVE [Next]_vars
  BY DEF svars
<1>1. CASE HostCalls
  BY <1>1 DEF HostCalls, Next, Host
<1>2. CASE PowerCycle
  BY <1>2 DEF PowerCycle, Next, Host
<1>3. CASE ReaderStep
  BY <1>3 DEF ReaderStep, Next
<1>4. CASE CardStep
  <2>1. line' \in IBlock \cup RBlock \cup SBlock \cup Fault
    BY <1>4, CardReads DEF CardBlock
  <2> QED BY <1>4, <2>1 DEF CardStep, AnyAnswer, Next
<1> QED BY <1>1, <1>2, <1>3, <1>4 DEF SysNext

Busy == turn # "host"

(* In a call the phase tells what the card has executed.                     *)
LEMMA PhasesTell ==
  Inv /\ CardTypes /\ LineOK /\ Phases /\ Busy => OnlyWhatWasSent
<1> SUFFICES ASSUME Inv, CardTypes, LineOK, Phases, Busy, resynced = "no"
             PROVE  \/ executed = calls
                    \/ calls # <<>> /\ executed = SubSeq(calls, 1, Len(calls) - 1)
  BY DEF OnlyWhatWasSent
<1>1. calls = executed \/ calls = Append(executed, snd)
  BY DEF Busy, LineOK, Phases, Idle, NotReceived, Received, Executed, Awaiting, Collected,
         Resynching, Receiving, NothingPending, ApduPending
<1>2. executed \in Seq(Seq(Unit)) /\ snd \in Seq(Unit)
  BY DEF CardTypes, Inv, TypeOK
<1> QED BY <1>1, <1>2, Appended

LEMMA CardStepInv == SysInv /\ CardStep => SysInv'
<1> SUFFICES ASSUME SysInv, CardStep PROVE SysInv'
  OBVIOUS
<1>1. Inv'
  BY StepsOfTheReader, NextInv DEF SysInv, SysNext
<1>2. CardTypes' /\ CardOK' /\ LineOK' /\ Phases' /\ Busy'
  BY CardReads, CardLine, CardPhases DEF Busy
<1>3. HostTypes'
  BY CardReads DEF SysInv, HostTypes, ReaderKept
<1>4. Inv' /\ CardTypes' /\ LineOK' /\ Phases' /\ Busy' => OnlyWhatWasSent'
  BY PhasesTell, PTL
<1> QED BY <1>1, <1>2, <1>3, <1>4 DEF SysInv

LEMMA ReaderStepInv == SysInv /\ ReaderStep => SysInv'
<1> SUFFICES ASSUME SysInv, ReaderStep PROVE SysInv'
  OBVIOUS
<1>1. Inv' /\ CardKept /\ (resynced' = "no" => resynced = "no")
      /\ resynced' \in {"no", "clean", "lossy"}
  BY ReaderTurns
<1>2. CardTypes' /\ CardOK' /\ HostTypes' /\ OnlyWhatWasSent'
  BY <1>1 DEF SysInv, CardTypes, CardOK, HostTypes, OnlyWhatWasSent, Asking, CardKept
<1> QED BY <1>1, <1>2, ReaderPhases DEF SysInv

LEMMA SysInitInv == SysInit => SysInv
<1> SUFFICES ASSUME SysInit PROVE SysInv
  OBVIOUS
<1>1. Inv
  BY InitInv DEF SysInit
<1>2. Fresh
  BY DEF SysInit, Init, Fresh
<1> QED BY <1>1, <1>2, FreshInv

LEMMA StutterInv == SysInv /\ UNCHANGED svars => SysInv'
<1> SUFFICES ASSUME SysInv, UNCHANGED svars PROVE SysInv'
  OBVIOUS
<1>1. Inv'
  BY NextInv DEF SysInv, svars
<1>2. CardTypes' /\ CardOK' /\ HostTypes' /\ LineOK' /\ OnlyWhatWasSent'
  BY DEF SysInv, svars, card, vars, t1, CardTypes, CardOK, HostTypes, LineOK, OnlyWhatWasSent,
         Asking
<1>3. Phases'
  <2>1. /\ UNCHANGED <<state, ns, nr, more, snd, head, last_send, rbuf, result, turn, line>>
        /\ UNCHANGED <<cnr, cns, cin, cout, clast, cheld, executed, calls, resynced>>
    BY DEF svars, vars, t1, card
  <2>2. /\ Sending => Sending'
        /\ NothingPending => NothingPending'
        /\ ApduPending => ApduPending'
        /\ ExecutedLast => ExecutedLast'
        /\ NoI => NoI'
        /\ Asking => Asking'
        /\ NextFromCard' = NextFromCard
    BY <2>1 DEF Sending, NothingPending, ApduPending, ExecutedLast, NoI, Asking, NextFromCard
  <2>3. Receiving => Receiving'
    BY <2>1, <2>2 DEF Receiving
  <2>4. Idle => Idle'
    BY <2>1, <2>2 DEF Idle
  <2>5. NotReceived => NotReceived'
    BY <2>1, <2>2 DEF NotReceived
  <2>6. Received => Received'
    BY <2>1, <2>2 DEF Received
  <2>7. Executed => Executed'
    BY <2>1, <2>2 DEF Executed
  <2>8. Awaiting => Awaiting'
    BY <2>1, <2>2, <2>3 DEF Awaiting
  <2>9. Collected => Collected'
    BY <2>1, <2>2, <2>3 DEF Collected
  <2>10. Resynching => Resynching'
    BY <2>1, <2>2 DEF Resynching
  <2> QED BY <2>1, <2>4, <2>5, <2>6, <2>7, <2>8, <2>9, <2>10 DEF SysInv, Phases
<1> QED BY <1>1, <1>2, <1>3 DEF SysInv

LEMMA SysNextInv == SysInv /\ [SysNext]_svars => SysInv'
BY HostCallsInv, PowerCycleInv, ReaderStepInv, CardStepInv, StutterInv DEF SysNext

(* As long as no resynchronisation was needed, a call of t1_transceive that  *)
(* returns an answer has had its APDU executed exactly once, and returns the *)
(* whole answer: for any number of garbled blocks, retries and requests.     *)
THEOREM CallsAreExecutedOnce == SysSpec => []ExactlyOnce
<1>1. SysInv => ExactlyOnce
  BY DEF SysInv, LineOK, Phases, Idle, NotReceived, Received, Executed, Awaiting, Collected,
         Resynching, Sending, Receiving, NothingPending, ExactlyOnce
<1> QED BY <1>1, SysInitInv, SysNextInv, PTL DEF SysSpec

(* Before a resynchronisation the card executes the host's commands in their *)
(* order, none twice and none that was not sent: also when the call fails.   *)
THEOREM CommandsAreTheHosts == SysSpec => []OnlyWhatWasSent
<1>1. SysInv => OnlyWhatWasSent
  BY DEF SysInv
<1> QED BY <1>1, SysInitInv, SysNextInv, PTL DEF SysSpec

(* A resynchronisation that the card answers before any of the APDU was      *)
(* acknowledged may have it executed again, but costs none of its answer.    *)
THEOREM CleanResyncsAreHarmless == SysSpec => []CleanResyncIsHarmless
<1>1. SysInv => CleanResyncIsHarmless
  BY DEF SysInv, LineOK, Phases, Idle, NotReceived, Received, Executed, Awaiting, Collected,
         Resynching, Sending, Receiving, ExecutedLast, CleanResyncIsHarmless
<1> QED BY <1>1, SysInitInv, SysNextInv, PTL DEF SysSpec

(* Before every call the numbers of reader and card agree and nothing of the *)
(* call before is left half done, unless a resynchronisation lost a part of  *)
(* an APDU: both sides keep their numbers from call to call (proto-t1.c:166).*)
THEOREM CallsStartInStep == SysSpec => []StartsInStep
<1>1. SysInv => StartsInStep
  BY DEF SysInv, Phases, Idle, Sending, Receiving, NotReceived, Received, Executed, Awaiting,
         Collected, Resynching, NextFromCard, StartsInStep
<1> QED BY <1>1, SysInitInv, SysNextInv, PTL DEF SysSpec
=============================================================================
