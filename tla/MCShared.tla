------------------------------ MODULE MCShared ------------------------------
(* Several contexts push to, or pop from, one queue, or print.  Nothing in   *)
(* the code forbids it, and the tests before the critical sections do not    *)
(* allow it.  One of the three is used, each with variables of its own.      *)
EXTENDS RingQueue

-----------------------------------------------------------------------------
(* The byte queue with any number of pushers and poppers, and a history      *)
(* variable: whether two of them have been between test and critical section *)
(* of the same operation.                                                    *)

VARIABLE overlapped

sharedVars == <<vars, overlapped>>

Overlap == \E c, o \in Context : c # o /\ pc[c] = pc[o] /\ pc[c] \in {"push", "pop"}

SharedInit == Init /\ overlapped = FALSE

SharedNext == Next /\ overlapped' = (overlapped \/ Overlap')

SharedSpec == SharedInit /\ [][SharedNext]_sharedVars

(* With several pushers and poppers a push overruns the queue, or a pop      *)
(* underruns it, only if another context got in between its test and its     *)
(* critical section with the same operation (kit_ring_queue.c:112-118).      *)
StaleNeedsOverlap == ~overlapped => ChecksStayValid

(* Until then the queue is the FIFO of DataBufLen - 1 bytes, whoever pushes  *)
(* and pops.                                                                 *)
FifoUntilOverlap == Ring!Init /\ [][overlapped' \/ [Ring!Next]_(Ring!vars)]_sharedVars

-----------------------------------------------------------------------------
(* The three together.                                                       *)

CONSTANTS Putter, Getter, Clearer, Element, count, MaxBatch, WordMod,
          Caller, BuffCnt, Row, Dump,
          isr, task, task2

MCPriority == [c \in {isr, task, task2} |-> IF c = isr THEN 1 ELSE 0]
MCDump == {<<1, 3>>}

VARIABLES object,
  front, rear, lenght, data, b_pc, batch, want, b_got, clashed,
  gTempBuff, XX_Debug_Sent, todo, p_pc, str, disturbed, sent

Bulk == INSTANCE SharedBulk WITH pc <- b_pc, got <- b_got

ASSUME BulkFits == Bulk!BulkAssumption

Printer == INSTANCE DebugPrint WITH pc <- p_pc

ASSUME PrintFits == Printer!PrintAssumption

bulk == <<front, rear, lenght, data, b_pc, batch, want, b_got, clashed>>
print == <<gTempBuff, XX_Debug_Sent, todo, p_pc, str, disturbed, sent>>

MCInit ==
  /\ object \in {"ring", "bulk", "print"}
  /\ SharedInit /\ Bulk!SharedInit /\ Printer!Init

RingUsed == object = "ring" /\ SharedNext /\ UNCHANGED <<object, bulk, print>>

BulkUsed == object = "bulk" /\ Bulk!SharedNext /\ UNCHANGED <<object, sharedVars, print>>

PrintUsed == object = "print" /\ Printer!Next /\ UNCHANGED <<object, sharedVars, bulk>>

MCNext == RingUsed \/ BulkUsed \/ PrintUsed

MCSpec == MCInit /\ [][MCNext]_<<object, sharedVars, bulk, print>>

-----------------------------------------------------------------------------
(* With several pushers and poppers a push overruns the byte queue, or a pop *)
(* underruns it, only if another context got in between its test and its     *)
(* critical section with the same operation (kit_ring_queue.c:112-118).  The *)
(* indices of the batch queue only go apart after two puts, two gets, or a   *)
(* clear and another call have overlapped (queue.c:48, queue.h:126).         *)
HarmNeedsOverlap == StaleNeedsOverlap /\ Bulk!HarmNeedsOverlap

(* log_printf: a line that no other context disturbed is sent as it was      *)
(* printed, and below the limit (util_printf.c:323).                         *)
UndisturbedLineIsWhole == Printer!UndisturbedLineIsWhole
=============================================================================
