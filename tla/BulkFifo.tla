------------------------------ MODULE BulkFifo ------------------------------
(***************************************************************************)
(* What a queue of element batches promises: a batch goes in or comes out  *)
(* whole, in order, at one instant.  BulkQueue implements it.              *)
(***************************************************************************)
EXTENDS Naturals, Sequences

CONSTANTS Context,   \* tasks and interrupt handlers that call the queue
          Batch,     \* the non-empty sequences that are put or asked for
          Capacity

VARIABLES q,     \* the stored elements, oldest first
          got    \* got[c]: the last batch c received

vars == <<q, got>>

Init == q = <<>> /\ got = [c \in Context |-> <<>>]

Put(b) ==
  /\ Len(q) + Len(b) <= Capacity
  /\ q' = q \o b
  /\ UNCHANGED got

Get(c, n) ==
  /\ n <= Len(q)
  /\ got' = [got EXCEPT ![c] = SubSeq(q, 1, n)]
  /\ q' = SubSeq(q, n + 1, Len(q))

Clear == q' = <<>> /\ UNCHANGED got

Next ==
  \/ \E b \in Batch : Put(b)
  \/ \E c \in Context, b \in Batch : Get(c, Len(b))
  \/ Clear

Spec == Init /\ [][Next]_vars
=============================================================================
