----------------------------- MODULE RingQueue ------------------------------
(***************************************************************************)
(* kit_ring_queue.c: the byte queue between a UART interrupt and a task.   *)
(*                                                                         *)
(* A call tests head and tail with interrupts on, and only then moves one  *)
(* of them inside a critical section (interrupts off): every call is two   *)
(* steps, and other contexts run between them.  GetVolume reads both       *)
(* indices twice, with no critical section at all.                         *)
(***************************************************************************)
EXTENDS Integers

CONSTANTS Pusher,      \* contexts (tasks, interrupt handlers) that push
          Popper,      \* contexts that pop
          Priority,    \* Priority[c]: a running c keeps lower contexts off the CPU
          Byte,        \* the values of an unsigned char, as far as they matter
          DataBufLen,  \* number of slots; one is always left free
          CharMod,     \* 2^8 in C: the wrappers return the volume as a char
          ShortMod     \* 2^16 in C: GetVolume returns an unsigned short

Context == Pusher \cup Popper
Slot == 0 .. DataBufLen - 1

ASSUME RingAssumption ==
  /\ DataBufLen \in Nat /\ DataBufLen >= 2
  /\ CharMod \in Nat \ {0}
  /\ ShortMod \in Nat \ {0}
  /\ DataBufLen <= ShortMod
  /\ \A c \in Context : Priority[c] \in Nat

VARIABLES head, tail, pData,   \* struct S_RING_QUEUE
          pc,      \* pc[c]: the call c has begun and not finished
          arg,     \* arg[c]: the byte c is pushing
          seen,    \* seen[c]: tail and head as the first read of GetVolume saw them
          got,     \* got[c]: *pu16Rdata of the last successful pop
          ret,     \* ret[c]: E_true / E_false of the last push or pop
          filled   \* filled[c]: last answer of ...IsFilled, NoAnswer once c called again

vars == <<head, tail, pData, pc, arg, seen, got, ret, filled>>

NoAnswer == -1
NothingSeen == [tail |-> 0, head |-> 0]

RingQueueIsFull == (tail + 1) % DataBufLen = head
RingQueueIsEmpty == head = tail

TypeOK ==
  /\ head \in Slot
  /\ tail \in Slot
  /\ pData \in [Slot -> Byte]
  /\ pc \in [Context -> {"idle", "push", "pop", "volume"}]
  /\ arg \in [Context -> Byte]
  /\ seen \in [Context -> [tail : Slot, head : Slot]]
  /\ got \in [Context -> Byte]
  /\ ret \in [Context -> BOOLEAN]
  /\ filled \in [Context -> {NoAnswer} \cup 0 .. CharMod - 1]

\* UtilRingQueueInit, run before any interrupt is on; the buffers are zeroed statics.
Init ==
  /\ head = 0
  /\ tail = 0
  /\ \E zero \in Byte :
       /\ pData = [i \in Slot |-> zero]
       /\ arg = [c \in Context |-> zero]
       /\ got = [c \in Context |-> zero]
  /\ pc = [c \in Context |-> "idle"]
  /\ seen = [c \in Context |-> NothingSeen]
  /\ ret = [c \in Context |-> TRUE]
  /\ filled = [c \in Context |-> NoAnswer]

\* c has the processor: nothing of a higher priority is in the middle of a call.
Runs(c) == \A o \in Context : pc[o] # "idle" => Priority[o] <= Priority[c]

-----------------------------------------------------------------------------
(* UtilRingQueuePush: the test, then the critical section *)

\* Mutant: the test is forgotten.
PushCheckUntested(c, d) ==
  /\ pc[c] = "idle"
  /\ filled' = [filled EXCEPT ![c] = NoAnswer]
  /\ pc' = [pc EXCEPT ![c] = "push"]
  /\ arg' = [arg EXCEPT ![c] = d]
  /\ UNCHANGED <<head, tail, pData, seen, got, ret>>

PushCheck(c, d) ==
  /\ pc[c] = "idle"
  /\ filled' = [filled EXCEPT ![c] = NoAnswer]
  /\ \/ /\ RingQueueIsFull
        /\ ret' = [ret EXCEPT ![c] = FALSE]
        /\ UNCHANGED <<pc, arg>>
     \/ /\ ~RingQueueIsFull
        /\ pc' = [pc EXCEPT ![c] = "push"]
        /\ arg' = [arg EXCEPT ![c] = d]
        /\ UNCHANGED ret
  /\ UNCHANGED <<head, tail, pData, seen, got>>

\* Mutant: tail moves before the store.
PushCommitAhead(c) ==
  /\ pc[c] = "push"
  /\ tail' = (tail + 1) % DataBufLen
  /\ pData' = [pData EXCEPT ![tail'] = arg[c]]
  /\ pc' = [pc EXCEPT ![c] = "idle"]
  /\ ret' = [ret EXCEPT ![c] = TRUE]
  /\ UNCHANGED <<head, arg, seen, got, filled>>

PushCommit(c) ==
  /\ pc[c] = "push"
  /\ pData' = [pData EXCEPT ![tail] = arg[c]]
  /\ tail' = (tail + 1) % DataBufLen
  /\ pc' = [pc EXCEPT ![c] = "idle"]
  /\ ret' = [ret EXCEPT ![c] = TRUE]
  /\ UNCHANGED <<head, arg, seen, got, filled>>

(* UtilRingQueuePop *)

PopCheck(c) ==
  /\ pc[c] = "idle"
  /\ filled' = [filled EXCEPT ![c] = NoAnswer]
  /\ \/ /\ RingQueueIsEmpty
        /\ ret' = [ret EXCEPT ![c] = FALSE]
        /\ UNCHANGED pc
     \/ /\ ~RingQueueIsEmpty
        /\ pc' = [pc EXCEPT ![c] = "pop"]
        /\ UNCHANGED ret
  /\ UNCHANGED <<head, tail, pData, arg, seen, got>>

\* Mutant: head moves before the load.
PopCommitAhead(c) ==
  /\ pc[c] = "pop"
  /\ head' = (head + 1) % DataBufLen
  /\ got' = [got EXCEPT ![c] = pData[head']]
  /\ pc' = [pc EXCEPT ![c] = "idle"]
  /\ ret' = [ret EXCEPT ![c] = TRUE]
  /\ UNCHANGED <<tail, pData, arg, seen, filled>>

PopCommit(c) ==
  /\ pc[c] = "pop"
  /\ got' = [got EXCEPT ![c] = pData[head]]
  /\ head' = (head + 1) % DataBufLen
  /\ pc' = [pc EXCEPT ![c] = "idle"]
  /\ ret' = [ret EXCEPT ![c] = TRUE]
  /\ UNCHANGED <<tail, pData, arg, seen, filled>>

(* KitQueueIsFilled, UartTxQueueIsFilled: UtilRingQueueGetVolume as a char.  *)
(* The indices are not volatile: the subtraction may use the values the      *)
(* comparison loaded or load them again.                                     *)

VolumeCompare(c) ==
  /\ pc[c] = "idle"
  /\ pc' = [pc EXCEPT ![c] = "volume"]
  /\ seen' = [seen EXCEPT ![c] = [tail |-> tail, head |-> head]]
  /\ filled' = [filled EXCEPT ![c] = NoAnswer]
  /\ UNCHANGED <<head, tail, pData, arg, got, ret>>

\* Mutants: the slot at tail is counted; the wrapped case is forgotten.
GetVolumeInclusive(s, t, h) ==
  (IF s.tail >= s.head THEN t - h + 1 ELSE t + DataBufLen - h + 1) % ShortMod

GetVolumeUnwrapped(s, t, h) == IF s.tail >= s.head THEN t - h ELSE 0

\* The value of GetVolume whose comparison saw s and whose subtraction reads t and h.
GetVolume(s, t, h) ==
  (IF s.tail >= s.head THEN t - h ELSE t + DataBufLen - h) % ShortMod

VolumeReturn(c) ==
  /\ pc[c] = "volume"
  /\ \E t \in {seen[c].tail, tail}, h \in {seen[c].head, head} :
       filled' = [filled EXCEPT ![c] = GetVolume(seen[c], t, h) % CharMod]
  /\ seen' = [seen EXCEPT ![c] = NothingSeen]
  /\ pc' = [pc EXCEPT ![c] = "idle"]
  /\ UNCHANGED <<head, tail, pData, arg, got, ret>>

-----------------------------------------------------------------------------

Step(c) ==
  \/ c \in Pusher /\ \E d \in Byte : PushCheck(c, d)
  \/ PushCommit(c)
  \/ c \in Popper /\ PopCheck(c)
  \/ PopCommit(c)
  \/ VolumeCompare(c)
  \/ VolumeReturn(c)

Next == \E c \in Context : Runs(c) /\ Step(c)

Spec == Init /\ [][Next]_vars

-----------------------------------------------------------------------------
(* What the queue holds, read off the ring *)

SlotAt(i) == IF head + i < DataBufLen THEN head + i ELSE head + i - DataBufLen

Volume == IF tail >= head THEN tail - head ELSE tail + DataBufLen - head

Contents == [i \in 1 .. Volume |-> pData[SlotAt(i - 1)]]

Ring == INSTANCE Fifo WITH Capacity <- DataBufLen - 1, q <- Contents

\* The use the wrappers are made for: one context fills the queue, one drains it.
SingleUser == (\E p : Pusher = {p}) /\ (\E c : Popper = {c})

(* The queue is a first-in first-out buffer of DataBufLen - 1 bytes whose    *)
(* calls are atomic, although UtilRingQueuePush and Pop test head and tail   *)
(* before they disable interrupts.  True with one pusher and one popper.     *)
ImplementsFifo == Ring!Spec

(* A push past its full test still finds a free slot, a pop past its empty   *)
(* test still finds a byte: the tests outside the critical section have not  *)
(* gone stale when it is entered.  True with one pusher and one popper.      *)
ChecksStayValid ==
  \A c \in Context :
    /\ pc[c] = "push" => ~RingQueueIsFull
    /\ pc[c] = "pop" => ~RingQueueIsEmpty

(* The consumer that was told the queue is not empty can pop: no torn read   *)
(* of the two indices and no truncation of the volume invents a byte.        *)
FilledMeansData ==
  \A c \in Popper : filled[c] > 0 => ~RingQueueIsEmpty

(* The consumer is told "nothing" only if the queue was empty when the call  *)
(* began.  True of the 250-byte receive queue, whose volume fits in a char;  *)
(* the 500-byte transmit queue answers 0 when it holds 256 bytes.            *)
ZeroMeansEmpty ==
  [][\A c \in Popper :
        filled[c] = NoAnswer /\ filled'[c] = 0 => seen[c].tail = seen[c].head]_vars
=============================================================================
