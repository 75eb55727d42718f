-------------------------- MODULE Shared_proofs --------------------------
(***************************************************************************)
(* The ring queue with one pusher and one popper implements a FIFO, for    *)
(* every buffer length, every set of bytes and every priority.             *)
(*                                                                         *)
(* Inv adds to the type invariant that only a pusher is between the two    *)
(* steps of a push and a popper between those of a pop: with one of each,  *)
(* nobody else can fill the slot, or take the byte, a check has found.     *)
(* So it is with more of them, as long as no two are between the two steps *)
(* of the same operation.                                                  *)
(***************************************************************************)
EXTENDS MCShared, Sequences, SequenceTheorems, TLAPS

PcUsers ==
  \A c \in Context :
    /\ pc[c] = "push" => c \in Pusher
    /\ pc[c] = "pop" => c \in Popper

Inv == TypeOK /\ PcUsers /\ ChecksStayValid

-----------------------------------------------------------------------------
(* Arithmetic of the ring *)

(* The index of the slot after i, without the modulus.                       *)
LEMMA SuccMod ==
  ASSUME NEW i \in Slot
  PROVE  /\ (i + 1) % DataBufLen = IF i = DataBufLen - 1 THEN 0 ELSE i + 1
         /\ (i + 1) % DataBufLen \in Slot
<1>1. CASE i = DataBufLen - 1
  BY <1>1, RingAssumption DEF Slot
<1>2. CASE i # DataBufLen - 1
  BY <1>2, RingAssumption DEF Slot
<1> QED BY <1>1, <1>2

(* A modulus stays below its divisor.                                        *)
LEMMA ModRange ==
  ASSUME NEW a \in Int, NEW m \in Nat \ {0}
  PROVE  a % m \in 0 .. m - 1
OBVIOUS

(* The contents are a sequence of bytes as long as the volume; the two tests *)
(* of the code are tests of its length.                                      *)
LEMMA ContentsType ==
  TypeOK =>
         /\ Volume \in 0 .. DataBufLen - 1
         /\ \A i \in 1 .. Volume : SlotAt(i - 1) \in Slot
         /\ Contents \in Seq(Byte)
         /\ Len(Contents) = Volume
         /\ RingQueueIsFull <=> Volume = DataBufLen - 1
         /\ RingQueueIsEmpty <=> Volume = 0
<1> SUFFICES ASSUME TypeOK
             PROVE  /\ Volume \in 0 .. DataBufLen - 1
                    /\ \A i \in 1 .. Volume : SlotAt(i - 1) \in Slot
                    /\ Contents \in Seq(Byte)
                    /\ Len(Contents) = Volume
                    /\ RingQueueIsFull <=> Volume = DataBufLen - 1
                    /\ RingQueueIsEmpty <=> Volume = 0
  OBVIOUS
<1> USE RingAssumption
<1>1. head \in Slot /\ tail \in Slot /\ pData \in [Slot -> Byte]
  BY DEF TypeOK
<1>2. Volume \in 0 .. DataBufLen - 1
  BY <1>1 DEF Volume, Slot
<1>3. \A i \in 1 .. Volume : SlotAt(i - 1) \in Slot
  BY <1>1, <1>2 DEF SlotAt, Slot
<1>4. Contents \in [1 .. Volume -> Byte]
  BY <1>1, <1>3 DEF Contents
<1>5. Contents \in Seq(Byte)
  BY <1>2, <1>4, SeqDef
<1>6. Len(Contents) = Volume
  BY <1>2, <1>4, <1>5, LenProperties
<1>7. RingQueueIsFull <=> Volume = DataBufLen - 1
  BY <1>1, SuccMod DEF RingQueueIsFull, Volume, Slot
<1>8. RingQueueIsEmpty <=> Volume = 0
  BY <1>1 DEF RingQueueIsEmpty, Volume, Slot
<1> QED BY <1>2, <1>3, <1>5, <1>6, <1>7, <1>8

LEMMA ContentsTypeNext ==
  TypeOK' => (Contents \in Seq(Byte) /\ Len(Contents) = Volume)'
BY ContentsType, PTL

(* The critical section of a push into a queue that is not full appends.     *)
LEMMA PushAppends ==
  ASSUME TypeOK, TypeOK', NEW d \in Byte, ~RingQueueIsFull,
         pData' = [pData EXCEPT ![tail] = d],
         tail' = (tail + 1) % DataBufLen,
         head' = head
  PROVE  Contents' = Append(Contents, d)
<1> USE RingAssumption
<1>1. head \in Slot /\ tail \in Slot /\ pData \in [Slot -> Byte]
  BY DEF TypeOK
<1>2. Volume < DataBufLen - 1 /\ Volume \in Nat
  BY ContentsType
<1>3. Volume' = Volume + 1
  <2>1. tail' = IF tail = DataBufLen - 1 THEN 0 ELSE tail + 1
    BY <1>1, SuccMod
  <2> QED BY <1>1, <1>2, <2>1 DEF Volume, Slot
<1>4. \A i \in 1 .. Volume : SlotAt(i - 1) # tail
  BY <1>1, <1>2 DEF SlotAt, Volume, Slot
<1>5. SlotAt(Volume) = tail
  BY <1>1, <1>2 DEF SlotAt, Volume, Slot
<1>6. Contents' = [i \in 1 .. Volume + 1 |-> pData'[SlotAt(i - 1)]]
  BY <1>3 DEF Contents, SlotAt
<1>7. Contents' \in Seq(Byte) /\ Len(Contents') = Volume + 1
  BY <1>3, ContentsTypeNext
<1>8. Contents \in Seq(Byte) /\ Len(Contents) = Volume
  BY ContentsType
<1>9. /\ Append(Contents, d) \in Seq(Byte)
      /\ Len(Append(Contents, d)) = Volume + 1
      /\ \A i \in 1 .. Volume : Append(Contents, d)[i] = Contents[i]
      /\ Append(Contents, d)[Volume + 1] = d
  BY <1>8, AppendProperties
<1>10. ASSUME NEW i \in 1 .. Volume + 1
       PROVE  Contents'[i] = Append(Contents, d)[i]
  <2>1. CASE i = Volume + 1
    BY <2>1, <1>1, <1>2, <1>5, <1>6, <1>9
  <2>2. CASE i # Volume + 1
    <3>1. i \in 1 .. Volume
      BY <2>2, <1>2
    <3>2. Contents[i] = pData[SlotAt(i - 1)] /\ SlotAt(i - 1) \in Slot
      BY <3>1, ContentsType DEF Contents
    <3>3. pData'[SlotAt(i - 1)] = pData[SlotAt(i - 1)]
      BY <3>1, <3>2, <1>1, <1>4
    <3> QED BY <3>1, <3>2, <3>3, <1>6, <1>9
  <2> QED BY <2>1, <2>2
<1> QED BY <1>7, <1>9, <1>10, SeqEqual

(* The critical section of a pop from a queue that is not empty takes the    *)
(* first byte.                                                               *)
LEMMA PopTakesHead ==
  ASSUME TypeOK, TypeOK', ~RingQueueIsEmpty,
         pData' = pData,
         head' = (head + 1) % DataBufLen,
         tail' = tail
  PROVE  /\ Contents # <<>>
         /\ pData[head] = Head(Contents)
         /\ Contents' = Tail(Contents)
<1> USE RingAssumption
<1>1. head \in Slot /\ tail \in Slot /\ pData \in [Slot -> Byte]
  BY DEF TypeOK
<1>2. Volume > 0 /\ Volume \in Nat
  BY ContentsType
<1>3. Volume' = Volume - 1
  BY <1>1, <1>2, SuccMod DEF Volume, Slot
<1>4. ASSUME NEW i \in 1 .. Volume - 1
      PROVE  SlotAt(i - 1)' = SlotAt(i)
  <2>1. head' = IF head = DataBufLen - 1 THEN 0 ELSE head + 1
    BY <1>1, SuccMod
  <2> QED BY <1>1, <1>2, <2>1 DEF SlotAt, Volume, Slot
<1>5. SlotAt(0) = head
  BY <1>1 DEF SlotAt, Slot
<1>6. Contents' = [i \in 1 .. Volume - 1 |-> pData[SlotAt(i - 1)']]
  BY <1>3 DEF Contents
<1>7. Contents' \in Seq(Byte) /\ Len(Contents') = Volume - 1
  BY <1>3, ContentsTypeNext
<1>8. Contents \in Seq(Byte) /\ Len(Contents) = Volume
  BY ContentsType
<1>9. Contents # <<>>
  BY <1>2, <1>8, EmptySeq
<1>10. /\ Tail(Contents) \in Seq(Byte)
       /\ Len(Tail(Contents)) = Volume - 1
       /\ \A i \in 1 .. Volume - 1 : Tail(Contents)[i] = Contents[i + 1]
  BY <1>8, <1>9, HeadTailProperties
<1>11. ASSUME NEW i \in 1 .. Volume - 1
       PROVE  Contents'[i] = Tail(Contents)[i]
  <2>1. Contents[i + 1] = pData[SlotAt(i)]
    BY <1>2 DEF Contents
  <2> QED BY <2>1, <1>4, <1>6, <1>10
<1>12. Contents' = Tail(Contents)
  BY <1>7, <1>10, <1>11, SeqEqual
<1>13. Contents[1] = pData[head]
  BY <1>2, <1>5 DEF Contents
<1> QED BY <1>9, <1>12, <1>13

-----------------------------------------------------------------------------
(* The inductive invariant *)

LEMMA InitInv == Init => Inv
<1> SUFFICES ASSUME Init PROVE Inv
  OBVIOUS
<1> USE RingAssumption
<1>1. TypeOK
  BY DEF Init, TypeOK, Slot, NothingSeen, NoAnswer
<1>2. PcUsers
  BY DEF Init, PcUsers
<1>3. ChecksStayValid
  BY DEF Init, ChecksStayValid
<1> QED BY <1>1, <1>2, <1>3 DEF Inv

LEMMA TypeOKStep ==
  ASSUME TypeOK, NEW c \in Context, Step(c)
  PROVE  TypeOK'
<1> USE RingAssumption DEF TypeOK, Slot
<1>1. ASSUME c \in Pusher, NEW d \in Byte, PushCheck(c, d)
      PROVE  TypeOK'
  BY <1>1 DEF PushCheck
<1>2. CASE PushCommit(c)
  <2>1. tail' \in Slot
    BY <1>2, SuccMod DEF PushCommit
  <2> QED BY <1>2, <2>1 DEF PushCommit
<1>3. CASE PopCheck(c)
  BY <1>3 DEF PopCheck
<1>4. CASE PopCommit(c)
  <2>1. head' \in Slot
    BY <1>4, SuccMod DEF PopCommit
  <2>2. pData[head] \in Byte
    OBVIOUS
  <2> QED BY <1>4, <2>1, <2>2 DEF PopCommit
<1>5. CASE VolumeCompare(c)
  BY <1>5 DEF VolumeCompare
<1>6. CASE VolumeReturn(c)
  <2>1. PICK t \in {seen[c].tail, tail}, h \in {seen[c].head, head} :
          filled' = [filled EXCEPT ![c] = GetVolume(seen[c], t, h) % CharMod]
    BY <1>6 DEF VolumeReturn
  <2>2. GetVolume(seen[c], t, h) \in Int
    BY <2>1, ModRange DEF GetVolume
  <2>3. GetVolume(seen[c], t, h) % CharMod \in 0 .. CharMod - 1
    BY <2>2, ModRange
  <2>4. NothingSeen \in [tail : Slot, head : Slot]
    BY DEF NothingSeen
  <2> QED BY <1>6, <2>1, <2>3, <2>4 DEF VolumeReturn
<1> QED BY <1>1, <1>2, <1>3, <1>4, <1>5, <1>6 DEF Step

LEMMA PcUsersStep ==
  ASSUME TypeOK, PcUsers, NEW c \in Context, Step(c)
  PROVE  PcUsers'
BY DEF TypeOK, PcUsers, Step, PushCheck, PushCommit, PopCheck, PopCommit,
       VolumeCompare, VolumeReturn

\* One pusher does not overlap with itself.
LEMMA SingleUserAlone ==
  ASSUME SingleUser, PcUsers
  PROVE  ~Overlap
BY DEF SingleUser, PcUsers, Overlap

(* Only the context that pushes can make the queue full and only the one     *)
(* that pops empty, and neither is between its own two steps when it does.   *)
LEMMA ChecksStayValidStep ==
  ASSUME ~Overlap, Inv, NEW c \in Context, Step(c)
  PROVE  ChecksStayValid'
<1> USE RingAssumption
<1>1. /\ TypeOK /\ PcUsers /\ ChecksStayValid
      /\ head \in Slot /\ tail \in Slot /\ pc \in [Context -> {"idle", "push", "pop", "volume"}]
  BY DEF Inv, TypeOK
<1>2. \A o \in Context : o # c /\ pc[o] = pc[c] => pc[c] \notin {"push", "pop"}
  BY DEF Overlap
<1>4. ASSUME c \in Pusher, NEW d \in Byte, PushCheck(c, d)
      PROVE  ChecksStayValid'
  BY <1>1, <1>4 DEF PushCheck, ChecksStayValid, RingQueueIsFull, RingQueueIsEmpty
<1>5. CASE PushCommit(c)
  <2>1. c \in Pusher /\ ~RingQueueIsFull
    BY <1>1, <1>5 DEF PushCommit, PcUsers, ChecksStayValid
  <2>2. \A o \in Context : pc'[o] # "push"
    BY <1>1, <1>2, <1>5 DEF PushCommit
  <2>3. ~RingQueueIsEmpty'
    BY <1>5, <2>1 DEF PushCommit, RingQueueIsFull, RingQueueIsEmpty
  <2> QED BY <2>2, <2>3 DEF ChecksStayValid
<1>6. CASE PopCheck(c)
  BY <1>1, <1>6 DEF PopCheck, ChecksStayValid, RingQueueIsFull, RingQueueIsEmpty
<1>7. CASE PopCommit(c)
  <2>1. c \in Popper /\ ~RingQueueIsEmpty
    BY <1>1, <1>7 DEF PopCommit, PcUsers, ChecksStayValid
  <2>2. \A o \in Context : pc'[o] # "pop"
    BY <1>1, <1>2, <1>7 DEF PopCommit
  <2>3. (tail + 1) % DataBufLen # (head + 1) % DataBufLen
    <3>1. /\ (tail + 1) % DataBufLen = IF tail = DataBufLen - 1 THEN 0 ELSE tail + 1
          /\ (head + 1) % DataBufLen = IF head = DataBufLen - 1 THEN 0 ELSE head + 1
      BY <1>1, SuccMod
    <3> QED BY <1>1, <2>1, <3>1 DEF RingQueueIsEmpty, Slot
  <2>4. ~RingQueueIsFull'
    BY <1>7, <2>3 DEF PopCommit, RingQueueIsFull
  <2> QED BY <2>2, <2>4 DEF ChecksStayValid
<1>8. CASE VolumeCompare(c)
  BY <1>1, <1>8 DEF VolumeCompare, ChecksStayValid, RingQueueIsFull, RingQueueIsEmpty
<1>9. CASE VolumeReturn(c)
  BY <1>1, <1>9 DEF VolumeReturn, ChecksStayValid, RingQueueIsFull, RingQueueIsEmpty
<1> QED BY <1>4, <1>5, <1>6, <1>7, <1>8, <1>9 DEF Step

LEMMA NextInv ==
  ASSUME ~Overlap, Inv, [Next]_vars
  PROVE  Inv'
<1>1. CASE Next
  <2>1. PICK c \in Context : Step(c)
    BY <1>1 DEF Next
  <2> QED BY <2>1, TypeOKStep, PcUsersStep, ChecksStayValidStep DEF Inv
<1>2. CASE UNCHANGED vars
  BY <1>2 DEF vars, Inv, TypeOK, PcUsers, ChecksStayValid, RingQueueIsFull, RingQueueIsEmpty
<1> QED BY <1>1, <1>2

LEMMA InvHolds ==
  ASSUME SingleUser
  PROVE  Spec => []Inv
<1>1. Inv /\ [Next]_vars => Inv'
  BY NextInv, SingleUserAlone DEF Inv
<1> QED BY <1>1, InitInv, PTL DEF Spec

(* The tests that kit_ring_queue.c makes before it disables interrupts       *)
(* (lines 112 and 131) are still true inside the critical section, whatever  *)
(* interleaving the priorities allow, if one context pushes and one pops.    *)
THEOREM ChecksAreNeverStale ==
  ASSUME SingleUser
  PROVE  Spec => []ChecksStayValid
<1>1. Inv => ChecksStayValid
  BY DEF Inv
<1> QED BY <1>1, InvHolds, PTL

-----------------------------------------------------------------------------
(* Refinement *)

LEMMA RefinesInit == Init => Ring!Init
<1> SUFFICES ASSUME Init PROVE Ring!Init
  OBVIOUS
<1>1. TypeOK
  BY InitInv DEF Inv
<1>2. Contents = <<>>
  <2>1. Contents \in Seq(Byte) /\ Len(Contents) = 0
    BY <1>1, ContentsType DEF Init, Volume
  <2> QED BY <2>1, EmptySeq
<1> QED BY <1>1, <1>2 DEF Init, Ring!Init, TypeOK

(* A step of the code is a step of the FIFO: the critical section if the     *)
(* call succeeds, the test if it fails; every other step is a stutter.       *)
LEMMA RefinesStep ==
  ASSUME Inv, Inv', NEW c \in Context, Step(c)
  PROVE  [Ring!Next]_(Ring!vars)
<1>1. TypeOK /\ TypeOK' /\ PcUsers /\ ChecksStayValid
  BY DEF Inv
<1>2. /\ Contents \in Seq(Byte) /\ Len(Contents) = Volume /\ Volume \in 0 .. DataBufLen - 1
      /\ RingQueueIsFull <=> Volume = DataBufLen - 1
      /\ RingQueueIsEmpty <=> Volume = 0
  BY <1>1, ContentsType
<1>3. UNCHANGED <<head, tail, pData>> => UNCHANGED Contents
  BY DEF Contents, Volume, SlotAt
<1>4. ASSUME c \in Pusher, NEW d \in Byte, PushCheck(c, d)
      PROVE  [Ring!Next]_(Ring!vars)
  <2>1. UNCHANGED Contents /\ UNCHANGED got
    BY <1>3, <1>4 DEF PushCheck
  <2>2. CASE RingQueueIsFull
    <3>1. Ring!PutFull(c)
      BY <1>2, <1>4, <2>1, <2>2 DEF PushCheck, Ring!PutFull
    <3> QED BY <3>1 DEF Ring!Next
  <2>3. CASE ~RingQueueIsFull
    BY <1>4, <2>1, <2>3 DEF PushCheck, Ring!vars
  <2> QED BY <2>2, <2>3
<1>5. CASE PushCommit(c)
  <2>1. arg[c] \in Byte /\ ~RingQueueIsFull
    BY <1>1, <1>5 DEF TypeOK, ChecksStayValid, PushCommit
  <2>2. Contents' = Append(Contents, arg[c])
    BY <1>1, <1>5, <2>1, PushAppends DEF PushCommit
  <2>3. Len(Contents) < DataBufLen - 1
    BY <1>2, <2>1, RingAssumption
  <2>4. Ring!Put(c, arg[c])
    BY <1>5, <2>2, <2>3 DEF PushCommit, Ring!Put
  <2> QED BY <2>1, <2>4 DEF Ring!Next
<1>6. CASE PopCheck(c)
  <2>1. UNCHANGED Contents /\ UNCHANGED got
    BY <1>3, <1>6 DEF PopCheck
  <2>2. CASE RingQueueIsEmpty
    <3>1. Contents = <<>>
      BY <1>2, <2>2, EmptySeq
    <3>2. Ring!GetEmpty(c)
      BY <1>6, <2>1, <2>2, <3>1 DEF PopCheck, Ring!GetEmpty
    <3> QED BY <3>2 DEF Ring!Next
  <2>3. CASE ~RingQueueIsEmpty
    BY <1>6, <2>1, <2>3 DEF PopCheck, Ring!vars
  <2> QED BY <2>2, <2>3
<1>7. CASE PopCommit(c)
  <2>1. ~RingQueueIsEmpty
    BY <1>1, <1>7 DEF ChecksStayValid, PopCommit
  <2>2. Contents # <<>> /\ pData[head] = Head(Contents) /\ Contents' = Tail(Contents)
    BY <1>1, <1>7, <2>1, PopTakesHead DEF PopCommit
  <2>3. Ring!Get(c)
    BY <1>7, <2>2 DEF PopCommit, Ring!Get
  <2> QED BY <2>3 DEF Ring!Next
<1>8. CASE VolumeCompare(c)
  BY <1>3, <1>8 DEF VolumeCompare, Ring!vars
<1>9. CASE VolumeReturn(c)
  BY <1>3, <1>9 DEF VolumeReturn, Ring!vars
<1> QED BY <1>4, <1>5, <1>6, <1>7, <1>8, <1>9 DEF Step

LEMMA RefinesNext ==
  Inv /\ Inv' /\ [Next]_vars => [Ring!Next]_(Ring!vars)
<1> SUFFICES ASSUME Inv, Inv', [Next]_vars
             PROVE  [Ring!Next]_(Ring!vars)
  OBVIOUS
<1>1. CASE Next
  BY <1>1, RefinesStep DEF Next
<1>2. CASE UNCHANGED vars
  BY <1>2 DEF vars, Contents, Volume, SlotAt, Ring!vars
<1> QED BY <1>1, <1>2

(* With one pusher and one popper the ring queue of kit_ring_queue.c is a    *)
(* FIFO of DataBufLen - 1 bytes: no byte is lost, duplicated or reordered,   *)
(* and a call fails only at an instant when the queue is full or empty.      *)
THEOREM RingQueueIsAFifo ==
  ASSUME SingleUser
  PROVE  Spec => ImplementsFifo
BY RefinesInit, RefinesNext, InvHolds, PTL DEF Spec, ImplementsFifo, Ring!Spec

-----------------------------------------------------------------------------
(* Any number of pushers and poppers *)

SharedInv == ~overlapped => Inv /\ ~Overlap

LEMMA SharedInitInv ==
  ASSUME SharedInit
  PROVE  SharedInv
<1>1. Inv BY InitInv DEF SharedInit
<1>2. ~Overlap BY DEF SharedInit, Init, Overlap
<1> QED BY <1>1, <1>2 DEF SharedInv

LEMMA SharedNextInv ==
  ASSUME SharedInv, [SharedNext]_sharedVars
  PROVE  SharedInv' /\ (overlapped' \/ [Ring!Next]_(Ring!vars))
<1>1. CASE overlapped'
  BY <1>1 DEF SharedInv
<1>2. CASE ~overlapped'
  <2>1. ~overlapped /\ ~Overlap' /\ [Next]_vars
    <3>1. CASE SharedNext
      BY <3>1, <1>2, Zenon DEF SharedNext
    <3>2. CASE UNCHANGED sharedVars
      <4>1. overlapped' = overlapped /\ UNCHANGED vars /\ pc' = pc
        BY <3>2 DEF sharedVars, vars
      <4>2. ~overlapped
        BY <4>1, <1>2, Zenon
      <4> QED BY <4>1, <4>2 DEF SharedInv, Overlap
    <3> QED BY <3>1, <3>2
  <2>2. Inv /\ ~Overlap
    BY <2>1 DEF SharedInv
  <2>3. Inv'
    BY <2>1, <2>2, NextInv
  <2> QED BY <2>1, <2>2, <2>3, RefinesNext DEF SharedInv
<1> QED BY <1>1, <1>2

(* Whoever pushes and pops, at any priorities: a push overruns the queue, or *)
(* a pop underruns it, only after two contexts were between test and         *)
(* critical section of the same operation (kit_ring_queue.c:112-118).        *)
THEOREM StaleNeedsOverlapHolds == SharedSpec => []StaleNeedsOverlap
<1>1. SharedInit => SharedInv
  BY SharedInitInv
<1>2. SharedInv /\ [SharedNext]_sharedVars => SharedInv'
  BY SharedNextInv
<1>3. SharedInv => StaleNeedsOverlap
  BY DEF SharedInv, Inv, StaleNeedsOverlap
<1> QED BY <1>1, <1>2, <1>3, PTL DEF SharedSpec

(* Until then the queue is a FIFO for all of them, not only for one pusher   *)
(* and one popper.                                                           *)
THEOREM SharedRingIsAFifoUntilOverlap == SharedSpec => FifoUntilOverlap
<1>1. SharedInit => SharedInv /\ Ring!Init
  BY SharedInitInv, RefinesInit DEF SharedInit
<1>2. SharedInv /\ [SharedNext]_sharedVars =>
        SharedInv' /\ [overlapped' \/ [Ring!Next]_(Ring!vars)]_sharedVars
  BY SharedNextInv
<1> QED BY <1>1, <1>2, PTL DEF SharedSpec, FifoUntilOverlap

-----------------------------------------------------------------------------
(* ...IsFilled and the torn reads of UtilRingQueueGetVolume *)

(* While the popper is between the two reads the head stands still, and the  *)
(* queue can only have become empty if it was seen empty.                    *)
VolumeInv ==
  \A c \in Popper :
    /\ pc[c] = "volume" => /\ seen[c].head = head
                           /\ RingQueueIsEmpty => seen[c].tail = head
    /\ filled[c] > 0 => pc[c] = "idle" /\ ~RingQueueIsEmpty

LEMMA VolumeInvInit == Init => VolumeInv
BY RingAssumption DEF Init, VolumeInv, NoAnswer, Context

LEMMA VolumeInvStep ==
  ASSUME SingleUser, Inv, VolumeInv, NEW c \in Context, Step(c)
  PROVE  VolumeInv'
<1> USE RingAssumption
<1>1. /\ TypeOK /\ PcUsers /\ ChecksStayValid
      /\ head \in Slot /\ tail \in Slot
      /\ pc \in [Context -> {"idle", "push", "pop", "volume"}]
      /\ seen \in [Context -> [tail : Slot, head : Slot]]
      /\ filled \in [Context -> {NoAnswer} \cup 0 .. CharMod - 1]
      /\ Popper \subseteq Context
  BY DEF Inv, TypeOK, Context
<1>2. \A o, p \in Popper : o = p
  BY DEF SingleUser
<1>3. ~(NoAnswer > 0)
  BY DEF NoAnswer
<1>4. ASSUME c \in Pusher, NEW d \in Byte, PushCheck(c, d)
      PROVE  VolumeInv'
  BY <1>1, <1>3, <1>4 DEF PushCheck, VolumeInv, RingQueueIsEmpty
<1>5. CASE PushCommit(c)
  <2>1. ~RingQueueIsEmpty'
    BY <1>1, <1>5 DEF PushCommit, ChecksStayValid, RingQueueIsFull, RingQueueIsEmpty
  <2> QED BY <1>1, <1>5, <2>1 DEF PushCommit, VolumeInv
<1>6. CASE PopCheck(c)
  BY <1>1, <1>3, <1>6 DEF PopCheck, VolumeInv, RingQueueIsEmpty
<1>7. CASE PopCommit(c)
  <2>1. \A o \in Popper : o = c
    BY <1>1, <1>2, <1>7 DEF PopCommit, PcUsers
  <2>2. \A o \in Popper : pc'[o] = "idle" /\ ~(filled'[o] > 0)
    BY <1>1, <1>7, <2>1 DEF PopCommit, VolumeInv
  <2> QED BY <2>2 DEF VolumeInv
<1>8. CASE VolumeCompare(c)
  BY <1>1, <1>3, <1>8 DEF VolumeCompare, VolumeInv, RingQueueIsEmpty
<1>9. CASE VolumeReturn(c)
  <2>1. ASSUME c \in Popper, RingQueueIsEmpty
        PROVE  filled'[c] = 0
    <3>1. PICK t \in {seen[c].tail, tail}, h \in {seen[c].head, head} :
            filled' = [filled EXCEPT ![c] = GetVolume(seen[c], t, h) % CharMod]
      BY <1>9 DEF VolumeReturn
    <3>2. seen[c].tail = head /\ seen[c].head = head /\ t = head /\ h = head
      BY <1>9, <2>1, <3>1 DEF VolumeReturn, VolumeInv, RingQueueIsEmpty
    <3>3. GetVolume(seen[c], t, h) = 0
      BY <1>1, <3>2 DEF GetVolume, Slot
    <3> QED BY <1>1, <3>1, <3>3
  <2> QED BY <1>1, <1>9, <2>1 DEF VolumeReturn, VolumeInv, RingQueueIsEmpty
<1> QED BY <1>4, <1>5, <1>6, <1>7, <1>8, <1>9 DEF Step

LEMMA VolumeInvNext ==
  ASSUME SingleUser
  PROVE  Inv /\ VolumeInv /\ [Next]_vars => VolumeInv'
<1> SUFFICES ASSUME Inv, VolumeInv, [Next]_vars PROVE VolumeInv'
  OBVIOUS
<1>1. CASE Next
  BY <1>1, VolumeInvStep DEF Next
<1>2. CASE UNCHANGED vars
  BY <1>2 DEF vars, VolumeInv, RingQueueIsEmpty
<1> QED BY <1>1, <1>2

(* A popper that KitQueueIsFilled or UartTxQueueIsFilled told "not empty"    *)
(* finds a byte, for every queue length and both truncations, although       *)
(* GetVolume may mix indices from before and after a push.                   *)
THEOREM FilledIsSound ==
  ASSUME SingleUser
  PROVE  Spec => []FilledMeansData
<1>1. VolumeInv => FilledMeansData
  BY DEF VolumeInv, FilledMeansData
<1> QED BY <1>1, VolumeInvInit, VolumeInvNext, InvHolds, PTL DEF Spec

-----------------------------------------------------------------------------
(* ...IsFilled answers 0 *)

\* The receive queue: a volume fits in a char, and a short is a whole number of chars.
VolumeFitsChar == DataBufLen <= CharMod /\ ShortMod % CharMod = 0

(* While the popper is between the two reads, a tail seen below the head     *)
(* stays below it: it cannot come round past a free slot.                    *)
TailInv ==
  \A c \in Popper :
    pc[c] = "volume" /\ seen[c].tail < seen[c].head => tail < head

LEMMA TailInvInit == Init => TailInv
BY RingAssumption DEF Init, TailInv, Context

LEMMA TailInvStep ==
  ASSUME SingleUser, Inv, VolumeInv, TailInv, NEW c \in Context, Step(c)
  PROVE  TailInv'
<1> USE RingAssumption
<1>1. /\ TypeOK /\ PcUsers /\ ChecksStayValid
      /\ head \in Slot /\ tail \in Slot
      /\ pc \in [Context -> {"idle", "push", "pop", "volume"}]
      /\ seen \in [Context -> [tail : Slot, head : Slot]]
      /\ Popper \subseteq Context
  BY DEF Inv, TypeOK, Context
<1>2. \A o, p \in Popper : o = p
  BY DEF SingleUser
<1>3. ASSUME c \in Pusher, NEW d \in Byte, PushCheck(c, d)
      PROVE  TailInv'
  BY <1>1, <1>3 DEF PushCheck, TailInv
<1>4. CASE PushCommit(c)
  <2>1. ASSUME tail < head PROVE (tail + 1) % DataBufLen < head
    <3>1. tail + 1 \in 1 .. DataBufLen - 1
      BY <1>1, <2>1 DEF Slot
    <3>2. (tail + 1) % DataBufLen = tail + 1
      BY <3>1
    <3>3. (tail + 1) % DataBufLen # head
      BY <1>1, <1>4 DEF PushCommit, ChecksStayValid, RingQueueIsFull
    <3> QED BY <1>1, <2>1, <3>2, <3>3 DEF Slot
  <2> QED BY <1>1, <1>4, <2>1 DEF PushCommit, TailInv
<1>5. CASE PopCheck(c)
  BY <1>1, <1>5 DEF PopCheck, TailInv
<1>6. CASE PopCommit(c)
  <2>1. \A o \in Popper : pc'[o] = "idle"
    BY <1>1, <1>2, <1>6 DEF PopCommit, PcUsers
  <2> QED BY <2>1 DEF TailInv
<1>7. CASE VolumeCompare(c)
  BY <1>1, <1>7 DEF VolumeCompare, TailInv
<1>8. CASE VolumeReturn(c)
  BY <1>1, <1>8 DEF VolumeReturn, TailInv
<1> QED BY <1>3, <1>4, <1>5, <1>6, <1>7, <1>8 DEF Step

LEMMA TailInvNext ==
  ASSUME SingleUser
  PROVE  Inv /\ VolumeInv /\ TailInv /\ [Next]_vars => TailInv'
<1> SUFFICES ASSUME Inv, VolumeInv, TailInv, [Next]_vars PROVE TailInv'
  OBVIOUS
<1>1. CASE Next
  BY <1>1, TailInvStep DEF Next
<1>2. CASE UNCHANGED vars
  BY <1>2 DEF vars, TailInv
<1> QED BY <1>1, <1>2

(* A number below m, or its negative in the width of a multiple of m, is not *)
(* zero modulo m unless it is zero.                                          *)
LEMMA SmallIsNotZero ==
  ASSUME NEW m \in Nat \ {0}, NEW w \in Nat \ {0}, w % m = 0, NEW k \in 1 .. m - 1
  PROVE  (k % w) % m # 0 /\ ((-k) % w) % m # 0
<1> DEFINE q == w \div m
<1>1. q \in Nat /\ w = m * q
  <2>1. w = m * q + (w % m) /\ q \in Nat
    OBVIOUS
  <2> QED BY <2>1
<1> HIDE DEF q
<1>2. q >= 1
  BY <1>1
<1>3. m * q >= m
  <2>1. PICK e \in Nat : q = e + 1
    BY <1>1, <1>2
  <2>2. m * e \in Nat /\ m * q = m * e + m
    BY <2>1
  <2> QED BY <2>2
<1>4. k < w /\ k % w = k /\ (-k) % w = w - k
  <2>1. k < w
    BY <1>1, <1>3
  <2>2. w - k \in 0 .. w - 1
    BY <2>1
  <2>3. (-k) % w = w - k
    BY <2>2
  <2> QED BY <2>1, <2>3
<1>5. k % m = k
  OBVIOUS
<1>6. (w - k) % m = m - k
  <2> DEFINE r == (w - k) % m
             p == (w - k) \div m
  <2>1. w - k = m * p + r /\ p \in Int /\ r \in 0 .. m - 1
    BY <1>1
  <2> HIDE DEF r, p
  <2>2. m * (q - 1 - p) = r - (m - k)
    BY <1>1, <2>1
  <2>3. r - (m - k) < m /\ r - (m - k) > -m
    BY <2>1
  <2>4. q - 1 - p < 1
    <3> SUFFICES ASSUME q - 1 - p >= 1 PROVE FALSE
      BY <1>1, <2>1
    <3>1. m * (q - 1 - p) = m + m * (q - 2 - p) /\ m * (q - 2 - p) >= 0
      BY <1>1, <2>1
    <3> QED BY <1>1, <2>1, <2>2, <2>3, <3>1
  <2>5. q - 1 - p > -1
    <3> SUFFICES ASSUME q - p <= 0 PROVE FALSE
      BY <1>1, <2>1
    <3>1. m * (q - 1 - p) = m * (q - p) - m /\ m * (q - p) <= 0
      BY <1>1, <2>1
    <3> QED BY <1>1, <2>1, <2>2, <2>3, <3>1
  <2>6. q - 1 - p = 0
    BY <1>1, <2>1, <2>4, <2>5
  <2>7. r = m - k
    BY <2>1, <2>2, <2>6
  <2> QED BY <2>7 DEF r
<1> QED BY <1>4, <1>5, <1>6

LEMMA ZeroVolume ==
  ASSUME SingleUser, VolumeFitsChar, Inv, VolumeInv, TailInv,
         NEW c \in Popper, VolumeReturn(c), filled'[c] = 0
  PROVE  seen[c].tail = seen[c].head
<1> USE RingAssumption
<1>1. /\ head \in Slot /\ tail \in Slot /\ c \in Context
      /\ seen[c].tail \in Slot /\ seen[c].head = head /\ pc[c] = "volume"
      /\ tail = head => seen[c].tail = head
      /\ filled \in [Context -> {NoAnswer} \cup 0 .. CharMod - 1]
  BY DEF Inv, TypeOK, Context, VolumeReturn, VolumeInv, RingQueueIsEmpty
<1>2. PICK t \in {seen[c].tail, tail} :
        filled' = [filled EXCEPT ![c] = GetVolume(seen[c], t, head) % CharMod]
  BY <1>1 DEF VolumeReturn
<1> DEFINE v == IF seen[c].tail >= head THEN t - head ELSE t + DataBufLen - head
<1>3. (v % ShortMod) % CharMod = 0
  BY <1>1, <1>2 DEF GetVolume
<1> SUFFICES ASSUME seen[c].tail # head PROVE FALSE
  BY <1>1
<1>4. t # head /\ t \in Slot
  BY <1>1
<1>5. CASE seen[c].tail >= head /\ t > head
  <2>1. v \in 1 .. CharMod - 1
    BY <1>1, <1>4, <1>5 DEF Slot, VolumeFitsChar
  <2> HIDE DEF v
  <2> QED BY <1>3, <2>1, SmallIsNotZero DEF VolumeFitsChar
<1>6. CASE seen[c].tail >= head /\ t < head
  <2>1. head - t \in 1 .. CharMod - 1 /\ v = -(head - t)
    BY <1>1, <1>4, <1>6 DEF Slot, VolumeFitsChar
  <2> HIDE DEF v
  <2> QED BY <1>3, <2>1, SmallIsNotZero DEF VolumeFitsChar
<1>7. CASE seen[c].tail < head
  <2>1. t < head
    BY <1>1, <1>7 DEF TailInv
  <2>2. v \in 1 .. CharMod - 1
    BY <1>1, <1>4, <1>7, <2>1 DEF Slot, VolumeFitsChar
  <2> HIDE DEF v
  <2> QED BY <1>3, <2>2, SmallIsNotZero DEF VolumeFitsChar
<1> QED BY <1>1, <1>4, <1>5, <1>6, <1>7 DEF Slot

(* A popper is told "nothing" only if the queue was empty when its call      *)
(* began, if a volume fits in a char: 0 never comes of a volume cut to a     *)
(* char, nor of indices from before and after a push.                        *)
THEOREM ZeroMeansEmptyHolds ==
  ASSUME SingleUser, VolumeFitsChar
  PROVE  Spec => ZeroMeansEmpty
<1> DEFINE Zero == \A c \in Popper :
             filled[c] = NoAnswer /\ filled'[c] = 0 => seen[c].tail = seen[c].head
<1>1. Inv /\ VolumeInv /\ TailInv /\ [Next]_vars => [Zero]_vars
  <2> SUFFICES ASSUME Inv, VolumeInv, TailInv, NEW o \in Context, Step(o), NEW c \in Popper,
                      filled[c] = NoAnswer, filled'[c] = 0
               PROVE  seen[c].tail = seen[c].head
    BY DEF Next
  <2>1. filled \in [Context -> {NoAnswer} \cup 0 .. CharMod - 1] /\ Popper \subseteq Context
    BY DEF Inv, TypeOK, Context
  <2>2. filled'[c] # filled[c] /\ filled'[c] # NoAnswer
    BY DEF NoAnswer
  <2>3. VolumeReturn(o) /\ o = c
    BY <2>1, <2>2 DEF Step, PushCheck, PushCommit, PopCheck, PopCommit, VolumeCompare, VolumeReturn
  <2> QED BY <2>3, ZeroVolume
<1>2. Spec => [][Zero]_vars
  <2> HIDE DEF Zero
  <2> QED BY <1>1, VolumeInvInit, VolumeInvNext, TailInvInit, TailInvNext, InvHolds, PTL DEF Spec
<1> QED BY <1>2 DEF ZeroMeansEmpty

-----------------------------------------------------------------------------
(* log_printf: the inductive invariant                                       *)

Char == Caller \cup {Printer!Nul}

PrintTypeOK ==
  /\ gTempBuff \in [1 .. BuffCnt -> Char]
  /\ todo \in [Caller -> Seq(0 .. BuffCnt - 1)]
  /\ p_pc \in [Caller -> {"idle", "format", "test", "send"}]
  /\ str \in [Caller -> 0 .. BuffCnt]
  /\ disturbed \in [Caller -> BOOLEAN]

\* A context has stored at most the text it prints, all of it once it tests the length.
Progress(c) ==
  /\ p_pc[c] = "idle" => str[c] = 0
  /\ p_pc[c] # "idle" => todo[c] # <<>> /\ str[c] <= todo[c][1]
  /\ p_pc[c] \in {"test", "send"} => str[c] = todo[c][1]

\* What n characters of c, and their end if they are all, look like in the buffer b.
Holds(b, c, n, all) ==
  /\ \A i \in 1 .. n : b[i] = c
  /\ all => b[n + 1] = Printer!Nul

\* The buffer holds what an undisturbed context has stored, and passed the test with.
Own(c) ==
  Printer!Begun(c) /\ ~disturbed[c] =>
    /\ Holds(gTempBuff, c, str[c], p_pc[c] \in {"test", "send"})
    /\ p_pc[c] = "send" => str[c] < BuffCnt - 1

PrintInv ==
  /\ PrintTypeOK
  /\ \A c \in Caller : Progress(c) /\ Own(c)
  /\ Printer!UndisturbedLineIsWhole

-----------------------------------------------------------------------------
(* The buffer as a string                                                    *)

LEMMA PrintSizes ==
  /\ BuffCnt \in Nat
  /\ Printer!Nul \notin Caller
  /\ \A d \in Dump : Printer!HexDump(d[1], d[2]) \in Seq(0 .. BuffCnt - 1) \ {<<>>}
BY PrintFits DEF Printer!PrintAssumption

LEMMA StrLenIs ==
  ASSUME PrintTypeOK, NEW c \in Caller, NEW n \in 0 .. BuffCnt - 1, Holds(gTempBuff, c, n, TRUE)
  PROVE  Printer!StrLen = n
<1> DEFINE ends == {i \in 1 .. BuffCnt : gTempBuff[i] = Printer!Nul}
           Least(i) == \A j \in ends : i <= j
<1>1. n + 1 \in ends
  BY PrintSizes DEF Holds
<1>2. \A i \in ends : n + 1 <= i
  <2> SUFFICES ASSUME NEW i \in ends, i <= n PROVE FALSE
    BY PrintSizes
  <2>1. gTempBuff[i] = c /\ gTempBuff[i] = Printer!Nul
    BY PrintSizes DEF Holds
  <2> QED
    BY <2>1, PrintSizes
<1>3. \A i \in ends : Least(i) => i = n + 1
  BY <1>1, <1>2, PrintSizes
<1>4. (CHOOSE i \in ends : Least(i)) = n + 1
  <2>1. Least(n + 1)
    BY <1>2
  <2> HIDE DEF ends, Least
  <2>2. (CHOOSE i \in ends : Least(i)) \in ends /\ Least(CHOOSE i \in ends : Least(i))
    BY <1>1, <2>1
  <2> QED
    BY <1>3, <2>2
<1> DEFINE first == CHOOSE i \in ends : Least(i)
<1>5. Printer!StrLen = first - 1
  BY <1>1, Zenon DEF Printer!StrLen
<1>6. first = n + 1
  BY <1>4
<1> HIDE DEF first
<1> QED
  BY <1>5, <1>6

LEMMA PieceIs ==
  ASSUME PrintTypeOK, NEW c \in Caller, NEW n \in 0 .. BuffCnt - 1, Holds(gTempBuff, c, n, TRUE)
  PROVE  SubSeq(gTempBuff, 1, n) = [i \in 1 .. n |-> c]
<1>1. gTempBuff \in Seq(Char) /\ Len(gTempBuff) = BuffCnt
  BY PrintSizes DEF PrintTypeOK
<1> QED
  BY <1>1, PrintSizes DEF Holds

-----------------------------------------------------------------------------
(* A step of c                                                               *)

\* What a step of c leaves alone of the others; c itself stays undisturbed if it was.
LEMMA RunsDisturbs ==
  ASSUME NEW c \in Caller, Printer!Runs(c), PrintTypeOK
  PROVE  /\ disturbed' \in [Caller -> BOOLEAN]
         /\ \A o \in Caller \ {c} : disturbed'[o] = (p_pc[o] # "idle")
         /\ ~disturbed'[c] => ~disturbed[c] \/ ~Printer!Begun(c)
         /\ Printer!Begun(c) => disturbed'[c] = disturbed[c]
<1>1. disturbed' = [o \in Caller |-> IF o = c THEN disturbed[c] /\ Printer!Begun(c) ELSE p_pc[o] # "idle"]
  BY DEF Printer!Runs
<1>2. disturbed'[c] = (disturbed[c] /\ Printer!Begun(c))
  BY <1>1, Zenon
<1>3. disturbed[c] \in BOOLEAN
  BY DEF PrintTypeOK
<1>4. \A o \in Caller : disturbed'[o] \in BOOLEAN
  BY <1>1, <1>3, Zenon DEF Printer!Begun
<1>5. \A o \in Caller \ {c} : disturbed'[o] = (p_pc[o] # "idle")
  BY <1>1, Zenon
<1>6. Printer!Begun(c) => disturbed'[c] = disturbed[c]
  BY <1>2, <1>3, Zenon
<1> QED
  BY <1>1, <1>2, <1>4, <1>5, <1>6, Zenon

\* Where a context is; what c does changes nothing of the others.
Same(o) == p_pc'[o] = p_pc[o] /\ str'[o] = str[o] /\ todo'[o] = todo[o]

LEMMA OthersKeep ==
  ASSUME PrintInv, NEW c \in Caller, Printer!Runs(c), NEW o \in Caller \ {c}, Same(o)
  PROVE  Progress(o)' /\ Own(o)'
<1>1. Progress(o)'
  <2>1. Progress(o)
    BY DEF PrintInv
  <2> QED
    BY <2>1, Zenon DEF Progress, Same
<1>2. disturbed'[o] = (p_pc[o] # "idle")
  BY RunsDisturbs DEF PrintInv
<1>3. p_pc[o] = "idle" => ~Printer!Begun(o)'
  <2>1. p_pc[o] = "idle" => str[o] = 0
    BY DEF PrintInv, Progress
  <2> QED
    BY <2>1 DEF Printer!Begun, Same
<1> QED
  BY <1>1, <1>2, <1>3, Zenon DEF Own

\* c begins nothing: it is idle, or before its first character.
LEMMA NotBegun ==
  ASSUME NEW c \in Caller, str'[c] = 0, p_pc'[c] \in {"idle", "format"}
  PROVE  Own(c)'
<1>1. ~Printer!Begun(c)'
  BY DEF Printer!Begun
<1> QED
  BY <1>1, Zenon DEF Own

LEMMA Texts ==
  ASSUME NEW S, NEW s \in Seq(S), s # <<>>
  PROVE  /\ s[1] \in S /\ Tail(s) \in Seq(S)
         /\ Len(s) # 1 => Tail(s) # <<>>
<1>1. Len(s) \in Nat \ {0}
  OBVIOUS
<1>2. s[1] \in S
  BY <1>1
<1>3. Tail(s) \in Seq(S) /\ Len(Tail(s)) = Len(s) - 1
  BY <1>1
<1>4. Len(s) # 1 => Len(Tail(s)) # 0
  BY <1>1, <1>3
<1>5. Tail(s) = <<>> => Len(Tail(s)) = 0
  <2>1. Len(<<>>) = 0
    OBVIOUS
  <2> QED
    BY <2>1, Zenon
<1> QED
  BY <1>2, <1>3, <1>4, <1>5, Zenon

\* It is enough to look at c: the types, where it is, and what it owns.
LEMMA Enough ==
  ASSUME PrintInv, NEW c \in Caller, Printer!Runs(c), \A o \in Caller \ {c} : Same(o),
         PrintTypeOK', Progress(c)', Own(c)', Printer!UndisturbedLineIsWhole'
  PROVE  PrintInv'
<1>1. \A o \in Caller \ {c} : Progress(o)' /\ Own(o)'
  BY OthersKeep
<1> QED
  BY <1>1, Zenon DEF PrintInv

LEMMA StartKeeps ==
  ASSUME PrintInv, NEW c \in Caller,
         \/ Printer!log_printf_int(c)
         \/ \E texts \in Seq(0 .. BuffCnt - 1) \ {<<>>} : Printer!Call(c, texts)
  PROVE  PrintInv'
<1>1. p_pc[c] = "idle" /\ Printer!Runs(c) /\ str' = str /\ sent' = sent /\ gTempBuff' = gTempBuff
  BY DEF Printer!log_printf_int, Printer!Call
<1>2. PrintTypeOK /\ str[c] = 0
  BY <1>1 DEF PrintInv, Progress
<1>3. disturbed' \in [Caller -> BOOLEAN]
  BY <1>1, <1>2, RunsDisturbs
<1>4. Printer!UndisturbedLineIsWhole'
  BY <1>1 DEF PrintInv, Printer!UndisturbedLineIsWhole
<1>5. CASE Printer!log_printf_int(c)
  <2>1. p_pc' = p_pc /\ todo' = todo
    BY <1>5 DEF Printer!log_printf_int
  <2>2. PrintTypeOK' /\ \A o \in Caller \ {c} : Same(o)
    BY <1>1, <1>2, <1>3, <2>1, Zenon DEF PrintTypeOK, Same
  <2>3. Progress(c)' /\ Own(c)'
    BY <1>1, <1>2, <2>1, NotBegun DEF Progress
  <2> QED
    BY <1>1, <1>4, <2>2, <2>3, Enough
<1>6. ASSUME NEW texts \in Seq(0 .. BuffCnt - 1) \ {<<>>}, Printer!Call(c, texts) PROVE PrintInv'
  <2>1. todo' = [todo EXCEPT ![c] = texts] /\ p_pc' = [p_pc EXCEPT ![c] = "format"]
    BY <1>6 DEF Printer!Call
  <2>2. \A o \in Caller \ {c} : Same(o)
    BY <1>1, <1>2, <2>1 DEF PrintTypeOK, Same
  <2>3. PrintTypeOK'
    BY <1>1, <1>2, <1>3, <2>1 DEF PrintTypeOK
  <2>4. p_pc'[c] = "format" /\ todo'[c] = texts /\ str'[c] = 0
    BY <1>1, <1>2, <2>1 DEF PrintTypeOK
  <2>5. Progress(c)'
    <3>1. texts[1] \in 0 .. BuffCnt - 1 /\ texts # <<>>
      BY Texts, Zenon
    <3> QED
      BY <2>4, <3>1, PrintSizes DEF Progress
  <2>6. Own(c)'
    BY <2>4, NotBegun
  <2> QED
    BY <1>1, <1>4, <2>2, <2>3, <2>5, <2>6, Enough
<1> QED
  BY <1>5, <1>6

\* The text c prints, and how much of it there is.
LEMMA TextFits ==
  ASSUME PrintInv, NEW c \in Caller, p_pc[c] # "idle"
  PROVE  /\ todo[c] # <<>> /\ todo[c][1] \in 0 .. BuffCnt - 1
         /\ str[c] \in 0 .. BuffCnt - 1 /\ str[c] <= todo[c][1]
<1>1. todo[c] # <<>> /\ str[c] <= todo[c][1] /\ todo[c] \in Seq(0 .. BuffCnt - 1)
  BY DEF PrintInv, PrintTypeOK, Progress
<1>2. todo[c][1] \in 0 .. BuffCnt - 1
  BY <1>1, Texts, Zenon
<1>3. str[c] \in 0 .. BuffCnt
  BY DEF PrintInv, PrintTypeOK
<1> QED
  BY <1>1, <1>2, <1>3, PrintSizes

LEMMA FormatKeeps ==
  ASSUME PrintInv, NEW c \in Caller, Printer!Format(c)
  PROVE  PrintInv'
<1>1. p_pc[c] = "format" /\ Printer!Runs(c) /\ sent' = sent /\ todo' = todo /\ PrintTypeOK
  BY DEF Printer!Format, PrintInv
<1>2. /\ disturbed' \in [Caller -> BOOLEAN]
      /\ ~disturbed'[c] => ~disturbed[c] \/ ~Printer!Begun(c)
  BY <1>1, RunsDisturbs
<1>3. /\ todo[c] # <<>> /\ todo[c][1] \in 0 .. BuffCnt - 1
      /\ str[c] \in 0 .. BuffCnt - 1 /\ str[c] <= todo[c][1]
  BY <1>1, TextFits
<1>4. Printer!UndisturbedLineIsWhole'
  BY <1>1 DEF PrintInv, Printer!UndisturbedLineIsWhole
<1>5. ~disturbed'[c] => \A i \in 1 .. str[c] : gTempBuff[i] = c
  <2>1. CASE Printer!Begun(c)
    BY <1>2, <2>1 DEF PrintInv, Own, Holds
  <2>2. CASE ~Printer!Begun(c)
    <3>1. str[c] = 0
      BY <1>3, <2>2 DEF Printer!Begun
    <3> QED
      BY <3>1
  <2> QED
    BY <2>1, <2>2
<1>6. CASE /\ str[c] < todo[c][1]
           /\ gTempBuff' = [gTempBuff EXCEPT ![str[c] + 1] = c]
           /\ str' = [str EXCEPT ![c] = @ + 1] /\ p_pc' = p_pc
  <2>1. str'[c] = str[c] + 1 /\ str'[c] \in 1 .. BuffCnt - 1 /\ str'[c] <= todo[c][1]
    BY <1>1, <1>3, <1>6, PrintSizes DEF PrintTypeOK
  <2>2. PrintTypeOK'
    <3>1. str' \in [Caller -> 0 .. BuffCnt]
      <4>1. str[c] + 1 \in 0 .. BuffCnt
        BY <1>3, PrintSizes
      <4> QED
        BY <1>1, <1>6, <4>1 DEF PrintTypeOK
    <3>2. gTempBuff' \in [1 .. BuffCnt -> Char]
      BY <1>1, <1>6 DEF PrintTypeOK, Char
    <3> QED
      BY <1>1, <1>2, <1>6, <3>1, <3>2 DEF PrintTypeOK
  <2>3. \A o \in Caller \ {c} : Same(o)
    BY <1>1, <1>6 DEF PrintTypeOK, Same
  <2>4. Progress(c)'
    BY <1>1, <1>3, <1>6, <2>1 DEF Progress
  <2>5. gTempBuff'[str[c] + 1] = c /\ \A i \in 1 .. str[c] : gTempBuff'[i] = gTempBuff[i]
    BY <1>1, <1>3, <1>6, PrintSizes DEF PrintTypeOK
  <2>6. ~disturbed'[c] => \A i \in 1 .. str'[c] : gTempBuff'[i] = c
    <3>1. \A i \in 1 .. str'[c] : i \in 1 .. str[c] \/ i = str[c] + 1
      BY <1>3, <2>1
    <3> QED
      BY <1>5, <2>5, <3>1
  <2>7. Own(c)'
    BY <1>1, <1>6, <2>6 DEF Own, Holds
  <2> QED
    BY <1>1, <1>4, <2>2, <2>3, <2>4, <2>7, Enough
<1>7. CASE /\ str[c] = todo[c][1]
           /\ gTempBuff' = [gTempBuff EXCEPT ![Printer!EndOfText(str[c])] = Printer!Nul]
           /\ p_pc' = [p_pc EXCEPT ![c] = "test"] /\ str' = str
  <2>1. gTempBuff' = [gTempBuff EXCEPT ![str[c] + 1] = Printer!Nul]
    BY <1>7 DEF Printer!EndOfText
  <2>2. PrintTypeOK'
    <3>1. p_pc' \in [Caller -> {"idle", "format", "test", "send"}]
      BY <1>1, <1>7 DEF PrintTypeOK
    <3>2. gTempBuff' \in [1 .. BuffCnt -> Char]
      BY <1>1, <2>1 DEF PrintTypeOK, Char
    <3> QED
      BY <1>1, <1>2, <1>7, <3>1, <3>2 DEF PrintTypeOK
  <2>3. p_pc'[c] = "test" /\ \A o \in Caller \ {c} : Same(o)
    BY <1>1, <1>7 DEF PrintTypeOK, Same
  <2>4. Progress(c)'
    BY <1>1, <1>3, <1>7, <2>3 DEF Progress
  <2>5. gTempBuff'[str[c] + 1] = Printer!Nul /\ \A i \in 1 .. str[c] : gTempBuff'[i] = gTempBuff[i]
    BY <1>1, <1>3, <2>1, PrintSizes DEF PrintTypeOK
  <2>6. Own(c)'
    BY <1>5, <1>7, <2>3, <2>5 DEF Own, Holds
  <2> QED
    BY <1>1, <1>4, <2>2, <2>3, <2>4, <2>6, Enough
<1> QED
  BY <1>6, <1>7 DEF Printer!Format

\* c goes on with its next text, or is done.
LEMMA ReturnKeeps ==
  ASSUME PrintInv, NEW c \in Caller, p_pc[c] # "idle", Printer!Runs(c), Printer!Returns(c), gTempBuff' = gTempBuff,
         Printer!UndisturbedLineIsWhole'
  PROVE  PrintInv'
<1>1. /\ todo' = [todo EXCEPT ![c] = Tail(@)] /\ str' = [str EXCEPT ![c] = 0]
      /\ p_pc' = [p_pc EXCEPT ![c] = IF Len(todo[c]) = 1 THEN "idle" ELSE "format"]
  BY DEF Printer!Returns
<1>2. PrintTypeOK /\ todo[c] # <<>> /\ todo[c] \in Seq(0 .. BuffCnt - 1)
  BY TextFits DEF PrintInv, PrintTypeOK
<1>3. disturbed' \in [Caller -> BOOLEAN]
  BY <1>2, RunsDisturbs
<1>4. Tail(todo[c]) \in Seq(0 .. BuffCnt - 1) /\ (Len(todo[c]) # 1 => Tail(todo[c]) # <<>>)
  BY <1>2, Texts, Zenon
<1>5. /\ todo'[c] = Tail(todo[c]) /\ str'[c] = 0
      /\ p_pc'[c] = IF Len(todo[c]) = 1 THEN "idle" ELSE "format"
      /\ \A o \in Caller \ {c} : Same(o)
  BY <1>1, <1>2 DEF PrintTypeOK, Same
<1>6. PrintTypeOK'
  <2>1. str' \in [Caller -> 0 .. BuffCnt]
    BY <1>1, <1>2, PrintSizes DEF PrintTypeOK
  <2>2. todo' \in [Caller -> Seq(0 .. BuffCnt - 1)]
    BY <1>1, <1>2, <1>4 DEF PrintTypeOK
  <2>3. p_pc' \in [Caller -> {"idle", "format", "test", "send"}]
    BY <1>1, <1>2 DEF PrintTypeOK
  <2> QED
    BY <1>2, <1>3, <2>1, <2>2, <2>3 DEF PrintTypeOK
<1>7. Progress(c)'
  <2>1. CASE Len(todo[c]) = 1
    BY <1>5, <2>1 DEF Progress
  <2>2. CASE Len(todo[c]) # 1
    <3>1. todo'[c] # <<>> /\ todo'[c][1] \in 0 .. BuffCnt - 1
      BY <1>4, <1>5, <2>2, Texts, Zenon
    <3> QED
      BY <1>5, <2>2, <3>1, PrintSizes DEF Progress
  <2> QED
    BY <2>1, <2>2
<1>8. Own(c)'
  BY <1>5, NotBegun
<1> QED
  BY <1>5, <1>6, <1>7, <1>8, Enough

\* Of an undisturbed context, the length found is the one of the text.
LEMMA LengthIs ==
  ASSUME PrintInv, NEW c \in Caller, p_pc[c] \in {"test", "send"}, ~disturbed[c]
  PROVE  /\ PrintTypeOK /\ str[c] \in 0 .. BuffCnt - 1
         /\ Holds(gTempBuff, c, str[c], TRUE) /\ Printer!StrLen = str[c]
<1>1. PrintTypeOK /\ str[c] \in 0 .. BuffCnt - 1
  BY TextFits DEF PrintInv
<1>2. Holds(gTempBuff, c, str[c], TRUE)
  BY DEF PrintInv, Own, Printer!Begun, Holds
<1> QED
  BY <1>1, <1>2, StrLenIs

LEMMA TestKeeps ==
  ASSUME PrintInv, NEW c \in Caller, Printer!Test(c)
  PROVE  PrintInv'
<1>1. p_pc[c] = "test" /\ Printer!Runs(c) /\ sent' = sent /\ gTempBuff' = gTempBuff /\ PrintTypeOK
  BY DEF Printer!Test, PrintInv
<1>2. Printer!UndisturbedLineIsWhole'
  BY <1>1 DEF PrintInv, Printer!UndisturbedLineIsWhole
<1>3. CASE Printer!SentIf /\ p_pc' = [p_pc EXCEPT ![c] = "send"] /\ todo' = todo /\ str' = str
  <2>1. disturbed' \in [Caller -> BOOLEAN] /\ disturbed'[c] = disturbed[c]
    BY <1>1, RunsDisturbs DEF Printer!Begun
  <2>2. p_pc'[c] = "send" /\ \A o \in Caller \ {c} : Same(o)
    BY <1>1, <1>3 DEF PrintTypeOK, Same
  <2>3. PrintTypeOK'
    <3>1. p_pc' \in [Caller -> {"idle", "format", "test", "send"}]
      BY <1>1, <1>3 DEF PrintTypeOK
    <3> QED
      BY <1>1, <1>3, <2>1, <3>1 DEF PrintTypeOK
  <2>4. Progress(c)'
    BY <1>1, <1>3, <2>2 DEF PrintInv, Progress
  <2>5. Own(c)'
    <3>1. ~disturbed[c] => Holds(gTempBuff, c, str[c], TRUE) /\ str[c] < BuffCnt - 1
      BY <1>1, <1>3, LengthIs DEF Printer!SentIf
    <3> QED
      BY <1>1, <1>3, <2>1, <2>2, <3>1 DEF Own, Holds
  <2> QED
    BY <1>1, <1>2, <2>2, <2>3, <2>4, <2>5, Enough
<1>4. CASE ~Printer!SentIf /\ Printer!Returns(c)
  BY <1>1, <1>2, <1>4, ReturnKeeps
<1> QED
  BY <1>3, <1>4 DEF Printer!Test

LEMMA SendKeeps ==
  ASSUME PrintInv, NEW c \in Caller, Printer!Send(c)
  PROVE  PrintInv'
<1>1. /\ p_pc[c] = "send" /\ Printer!Runs(c) /\ Printer!Returns(c) /\ gTempBuff' = gTempBuff
      /\ sent' = [by |-> c, chars |-> SubSeq(gTempBuff, 1, Printer!StrLen), length |-> Printer!StrLen,
                  wanted |-> todo[c][1], whole |-> ~disturbed[c]]
  BY DEF Printer!Send
<1>2. sent'.whole => ~disturbed[c]
  BY <1>1
<1>3. ~disturbed[c] => /\ Printer!StrLen = str[c] /\ SubSeq(gTempBuff, 1, str[c]) = [i \in 1 .. str[c] |-> c]
                       /\ str[c] < BuffCnt - 1 /\ str[c] = todo[c][1]
  <2>1. ~disturbed[c] => str[c] < BuffCnt - 1 /\ str[c] = todo[c][1]
    BY <1>1 DEF PrintInv, Own, Progress, Printer!Begun
  <2> QED
    BY <1>1, <2>1, LengthIs, PieceIs
<1>4. ~disturbed[c] => /\ sent'.chars = [i \in 1 .. sent'.wanted |-> sent'.by]
                       /\ sent'.length < BuffCnt - 1
  BY <1>1, <1>3
<1>5. Printer!UndisturbedLineIsWhole'
  BY <1>2, <1>4, Zenon DEF Printer!UndisturbedLineIsWhole
<1> QED
  BY <1>1, <1>5, ReturnKeeps

LEMMA PrintStep == PrintInv /\ [Printer!Next]_(Printer!vars) => PrintInv'
<1> SUFFICES ASSUME PrintInv, [Printer!Next]_(Printer!vars) PROVE PrintInv'
  OBVIOUS
<1>1. ASSUME NEW c \in Caller, Printer!log_printf_int(c) PROVE PrintInv'
  BY <1>1, StartKeeps
<1>2. ASSUME NEW c \in Caller, NEW n \in 0 .. BuffCnt - 1, Printer!Call(c, <<n>>) PROVE PrintInv'
  <2>1. <<n>> \in Seq(0 .. BuffCnt - 1) \ {<<>>}
    OBVIOUS
  <2> QED
    BY <1>2, <2>1, StartKeeps
<1>3. ASSUME NEW c \in Caller, NEW d \in Dump, Printer!Call(c, Printer!HexDump(d[1], d[2])) PROVE PrintInv'
  BY <1>3, PrintSizes, StartKeeps
<1>4. ASSUME NEW c \in Caller, Printer!Format(c) PROVE PrintInv'
  BY <1>4, FormatKeeps
<1>5. ASSUME NEW c \in Caller, Printer!Test(c) PROVE PrintInv'
  BY <1>5, TestKeeps
<1>6. ASSUME NEW c \in Caller, Printer!Send(c) PROVE PrintInv'
  BY <1>6, SendKeeps
<1>7. CASE UNCHANGED Printer!vars
  BY <1>7, Zenon DEF Printer!vars, PrintInv, PrintTypeOK, Progress, Own, Printer!Begun, Printer!UndisturbedLineIsWhole
<1> QED
  BY <1>1, <1>2, <1>3, <1>4, <1>5, <1>6, <1>7 DEF Printer!Next

LEMMA PrintStart == Printer!Init => PrintInv
<1> SUFFICES ASSUME Printer!Init PROVE PrintInv
  OBVIOUS
<1>1. PrintTypeOK
  BY PrintSizes DEF Printer!Init, PrintTypeOK, Char
<1>2. \A c \in Caller : Progress(c) /\ Own(c)
  BY DEF Printer!Init, Progress, Own, Printer!Begun
<1>3. Printer!UndisturbedLineIsWhole
  BY DEF Printer!Init, Printer!Nothing, Printer!UndisturbedLineIsWhole
<1> QED
  BY <1>1, <1>2, <1>3 DEF PrintInv

-----------------------------------------------------------------------------
(* The three side by side: whichever is used, the others stay as they were.  *)

BulkP == INSTANCE BulkQueue_proofs WITH pc <- b_pc, got <- b_got

LEMMA RingAlone == MCNext \/ UNCHANGED <<object, sharedVars, bulk, print>> => [SharedNext]_sharedVars
BY DEF MCNext, RingUsed, BulkUsed, PrintUsed, sharedVars, vars

LEMMA PrintAlone ==
  MCNext \/ UNCHANGED <<object, sharedVars, bulk, print>> => [Printer!Next]_(Printer!vars)
BY DEF MCNext, RingUsed, BulkUsed, PrintUsed, print, Printer!vars

\* The batch queue here is the one that is proved about.
LEMMA BulkIsProved ==
  /\ BulkP!BulkAssumption
  /\ Bulk!SharedInit = BulkP!SharedInit
  /\ Bulk!SharedNext = BulkP!SharedNext
  /\ Bulk!HarmNeedsOverlap = BulkP!HarmNeedsOverlap
<1>1. BulkP!BulkAssumption
  BY BulkFits DEF Bulk!BulkAssumption, BulkP!BulkAssumption, Bulk!Context, BulkP!Context
<1>2. Bulk!SharedInit = BulkP!SharedInit
  BY DEF Bulk!SharedInit, BulkP!SharedInit, Bulk!Init, BulkP!Init, Bulk!Context, BulkP!Context
<1>3. ASSUME NEW c PROVE Bulk!Step(c) = BulkP!Step(c)
  <2>1. \A b : Bulk!PutCheck(c, b) = BulkP!PutCheck(c, b)
    BY DEF Bulk!PutCheck, BulkP!PutCheck, Bulk!queue_last_size, BulkP!queue_last_size
  <2>2. Bulk!PutCommit(c) = BulkP!PutCommit(c)
    BY DEF Bulk!PutCommit, BulkP!PutCommit, Bulk!Stored, BulkP!Stored, Bulk!After, BulkP!After,
           Bulk!At, BulkP!At, Bulk!Max, BulkP!Max
  <2>3. \A n : Bulk!GetCheck(c, n) = BulkP!GetCheck(c, n)
    BY DEF Bulk!GetCheck, BulkP!GetCheck, Bulk!queue_data_size, BulkP!queue_data_size
  <2>4. Bulk!GetCommit(c) = BulkP!GetCommit(c)
    BY DEF Bulk!GetCommit, BulkP!GetCommit, Bulk!After, BulkP!After, Bulk!At, BulkP!At
  <2>5. /\ Bulk!ClearFront(c) = BulkP!ClearFront(c)
        /\ Bulk!ClearRear(c) = BulkP!ClearRear(c)
        /\ Bulk!ClearLenght(c) = BulkP!ClearLenght(c)
    BY DEF Bulk!ClearFront, BulkP!ClearFront, Bulk!ClearRear, BulkP!ClearRear,
           Bulk!ClearLenght, BulkP!ClearLenght
  <2> QED
    BY <2>1, <2>2, <2>3, <2>4, <2>5 DEF Bulk!Step, BulkP!Step, Bulk!Batch, BulkP!Batch
<1>4. ASSUME NEW c PROVE Bulk!Runs(c) = BulkP!Runs(c)
  BY DEF Bulk!Runs, BulkP!Runs, Bulk!Context, BulkP!Context
<1>5. Bulk!SharedNext = BulkP!SharedNext
  BY <1>3, <1>4 DEF Bulk!SharedNext, BulkP!SharedNext, Bulk!Next, BulkP!Next, Bulk!Clash,
                    BulkP!Clash, Bulk!Context, BulkP!Context
<1>6. Bulk!HarmNeedsOverlap = BulkP!HarmNeedsOverlap
  BY DEF Bulk!HarmNeedsOverlap, BulkP!HarmNeedsOverlap, Bulk!IndicesAgree, BulkP!IndicesAgree,
         Bulk!Context, BulkP!Context
<1> QED
  BY <1>1, <1>2, <1>5, <1>6

LEMMA BulkAlone ==
  MCNext \/ UNCHANGED <<object, sharedVars, bulk, print>> => [BulkP!SharedNext]_(BulkP!sharedVars)
<1>1. UNCHANGED bulk => UNCHANGED BulkP!sharedVars
  BY DEF bulk, BulkP!sharedVars, BulkP!vars
<1> QED
  BY <1>1, BulkIsProved DEF MCNext, RingUsed, BulkUsed, PrintUsed

(* Whatever other contexts print before and after it, and whatever was left  *)
(* in the buffer, a line no other context disturbed reaches XX_Debug_Sent as *)
(* it was printed, and below the limit (util_printf.c:323).                  *)
THEOREM UndisturbedLineIsWholeHolds == MCSpec => []UndisturbedLineIsWhole
<1>1. MCInit => PrintInv
  BY PrintStart DEF MCInit
<1>2. PrintInv /\ [MCNext]_<<object, sharedVars, bulk, print>> => PrintInv'
  BY PrintAlone, PrintStep
<1>3. PrintInv => UndisturbedLineIsWhole
  BY DEF PrintInv, UndisturbedLineIsWhole
<1> QED
  BY <1>1, <1>2, <1>3, PTL DEF MCSpec

(* Whoever uses them, at any priorities: a push overruns the byte queue, or  *)
(* a pop underruns it, only after two contexts were between test and         *)
(* critical section of the same operation (kit_ring_queue.c:112-118), and    *)
(* front, rear and lenght of the batch queue only go apart after two puts,   *)
(* two gets, or a clear and another call have overlapped (queue.c:48,        *)
(* queue.h:126).                                                             *)
THEOREM HarmNeedsOverlapHolds == MCSpec => []HarmNeedsOverlap
<1>1. MCInit => SharedInit /\ BulkP!SharedInit
  BY BulkIsProved DEF MCInit
<1>2. [MCNext]_<<object, sharedVars, bulk, print>> =>
        [SharedNext]_sharedVars /\ [BulkP!SharedNext]_(BulkP!sharedVars)
  BY RingAlone, BulkAlone
<1>3. StaleNeedsOverlap /\ BulkP!HarmNeedsOverlap => HarmNeedsOverlap
  BY BulkIsProved DEF HarmNeedsOverlap
<1>4. SharedSpec => []StaleNeedsOverlap
  BY StaleNeedsOverlapHolds
<1>5. BulkP!SharedSpec => []BulkP!HarmNeedsOverlap
  BY BulkIsProved, BulkP!HarmNeedsOverlapHolds
<1> QED
  BY <1>1, <1>2, <1>3, <1>4, <1>5, PTL DEF MCSpec, SharedSpec, BulkP!SharedSpec
=============================================================================
