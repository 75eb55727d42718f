-------------------------------- MODULE Fifo --------------------------------
(***************************************************************************)
(* What a byte queue of this repository promises its callers: a bounded    *)
(* first-in first-out buffer whose calls take effect at one instant.       *)
(* RingQueue implements it byte by byte (see RingQueue!Ring).              *)
(***************************************************************************)
EXTENDS Naturals, Sequences

CONSTANTS Context,   \* tasks and interrupt handlers that call the queue
          Byte,      \* what it stores
          Capacity   \* how many it can hold

VARIABLES q,     \* the stored bytes, oldest first
          got,   \* got[c]: the byte the last successful pop of c delivered
          ret    \* ret[c]: did the last finished push or pop of c succeed

vars == <<q, got, ret>>

Init ==
  /\ q = <<>>
  /\ got \in [Context -> Byte]
  /\ ret = [c \in Context |-> TRUE]

Put(c, d) ==
  /\ Len(q) < Capacity
  /\ q' = Append(q, d)
  /\ ret' = [ret EXCEPT ![c] = TRUE]
  /\ UNCHANGED got

PutFull(c) ==
  /\ Len(q) = Capacity
  /\ ret' = [ret EXCEPT ![c] = FALSE]
  /\ UNCHANGED <<q, got>>

Get(c) ==
  /\ q # <<>>
  /\ got' = [got EXCEPT ![c] = Head(q)]
  /\ q' = Tail(q)
  /\ ret' = [ret EXCEPT ![c] = TRUE]

GetEmpty(c) ==
  /\ q = <<>>
  /\ ret' = [ret EXCEPT ![c] = FALSE]
  /\ UNCHANGED <<q, got>>

Next ==
  \E c \in Context :
    \/ \E d \in Byte : Put(c, d)
    \/ PutFull(c)
    \/ Get(c)
    \/ GetEmpty(c)

Spec == Init /\ [][Next]_vars
=============================================================================
