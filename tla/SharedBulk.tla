----------------------------- MODULE SharedBulk ------------------------------
(* The batch queue with any number of users in any roles, as nothing in the  *)
(* code forbids it, and a history variable: whether two calls that do not    *)
(* tolerate each other have overlapped.                                      *)
EXTENDS BulkQueue

VARIABLE clashed

sharedVars == <<vars, clashed>>

\* The later test, or the stores of a clear, went between the steps of another call.
Clash ==
  \E c, o \in Context : c # o /\
    \/ pc[c] = pc[o] /\ pc[c] \in {"put", "get"}
    \/ pc[c] \in {"clear rear", "clear lenght"} /\ pc[o] # "idle"

SharedInit == Init /\ clashed = FALSE

SharedNext == Next /\ clashed' = (clashed \/ Clash')

SharedSpec == SharedInit /\ [][SharedNext]_sharedVars

-----------------------------------------------------------------------------
(* The indices of the batch queue only go apart after two puts, two gets, or *)
(* a clear and another call have overlapped (queue.c:48, queue.h:126).       *)
HarmNeedsOverlap == ~clashed => IndicesAgree

(* Until then the queue is the FIFO of whole batches, whoever puts, gets and *)
(* clears.                                                                   *)
FifoUntilClash == Abstract!Init /\ [][clashed' \/ [Abstract!Next]_(Abstract!vars)]_sharedVars
=============================================================================
