---------------------------- MODULE MCRingQueue -----------------------------
(* One interrupt handler and one task share the queue: the only use the two  *)
(* wrappers of kit_ring_queue.c are made for.                                *)
EXTENDS RingQueue

CONSTANTS isr, task   \* the handler outranks the task

MCPriority == [c \in {isr, task} |-> IF c = isr THEN 1 ELSE 0]
=============================================================================
