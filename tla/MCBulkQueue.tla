---------------------------- MODULE MCBulkQueue -----------------------------
(* A task puts; an interrupt handler gets, and clears the queue.             *)
EXTENDS BulkQueue

CONSTANTS isr, task

ASSUME MCRoles == Roles

MCPriority == [c \in {isr, task} |-> IF c = isr THEN 1 ELSE 0]
=============================================================================
