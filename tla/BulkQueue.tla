----------------------------- MODULE BulkQueue ------------------------------
(***************************************************************************)
(* queuefromlhj/queue.c: a ring of fixed-size elements, moved in batches.  *)
(*                                                                         *)
(* front and rear are counted in elements (the code counts bytes, always a *)
(* multiple of size) and wrap late: an index may rest at count, one past   *)
(* the last element.  As in the ring queue the test precedes the critical  *)
(* section; queue_clear_data has no critical section at all.               *)
(***************************************************************************)
EXTENDS Integers, Sequences, FiniteSetsExt

CONSTANTS Putter, Getter, Clearer,  \* contexts that call queue_put, _get, _clear_data
          Priority,   \* Priority[c]: a running c keeps lower contexts off the CPU
          Element,
          count,      \* capacity, in elements
          MaxBatch,   \* largest cnt a caller uses
          WordMod     \* 2^32 in C: lenght is a u32_t

Context == Putter \cup Getter \cup Clearer
Batch == UNION {[1 .. n -> Element] : n \in 1 .. MaxBatch}

ASSUME BulkAssumption ==
  /\ count \in Nat \ {0}
  /\ MaxBatch \in Nat
  /\ WordMod \in Nat /\ WordMod > count
  /\ \A c \in Context : Priority[c] \in Nat

VARIABLES front, rear, lenght, data,   \* struct queue (the source's spelling)
          pc,     \* pc[c]: where c is in its call
          batch,  \* batch[c]: what c is putting
          want,   \* want[c]: how many elements c is getting
          got     \* got[c]: what the last queue_get of c copied out

vars == <<front, rear, lenght, data, pc, batch, want, got>>

TypeOK ==
  /\ front \in 0 .. count
  /\ rear \in 0 .. count
  /\ lenght \in 0 .. WordMod - 1
  /\ data \in [0 .. count - 1 -> Element]
  /\ pc \in [Context -> {"idle", "put", "get", "clear rear", "clear lenght"}]
  /\ batch \in [Context -> Batch \cup {<<>>}]
  /\ want \in [Context -> 0 .. MaxBatch]
  /\ got \in [Context -> Batch \cup {<<>>}]

\* queue_init, before any interrupt is on
Init ==
  /\ front = 0 /\ rear = 0 /\ lenght = 0
  /\ \E e \in Element : data = [i \in 0 .. count - 1 |-> e]
  /\ pc = [c \in Context |-> "idle"]
  /\ batch = [c \in Context |-> <<>>]
  /\ want = [c \in Context |-> 0]
  /\ got = [c \in Context |-> <<>>]

Runs(c) == \A o \in Context : pc[o] # "idle" => Priority[o] <= Priority[c]

queue_last_size == (count - lenght) % WordMod
queue_data_size == lenght

(* The loops of queue_put and queue_get.  The place of turn j of a loop that *)
(* begins with its index at i, and the index after n > 0 turns.              *)
At(i, j) == (i + j - 1) % count
After(i, n) == At(i, n) + 1

\* Mutant: the elements are stored one place ahead of front.
StoredAhead(b) ==
  [i \in DOMAIN data |->
     LET turns == {j \in DOMAIN b : At(front, j + 1) = i}
     IN IF turns = {} THEN data[i] ELSE b[Max(turns)]]

\* An element stored twice keeps what the later turn stored.
Stored(b) ==
  [i \in DOMAIN data |->
     LET turns == {j \in DOMAIN b : At(front, j) = i}
     IN IF turns = {} THEN data[i] ELSE b[Max(turns)]]

-----------------------------------------------------------------------------

\* Mutant: the room is not counted.
PutCheckUntested(c, b) ==
  /\ pc[c] = "idle"
  /\ pc' = [pc EXCEPT ![c] = "put"]
  /\ batch' = [batch EXCEPT ![c] = b]
  /\ UNCHANGED <<front, rear, lenght, data, want, got>>

\* Too large a batch is dropped in silence: the call returns and nothing changes.
PutCheck(c, b) ==
  /\ pc[c] = "idle"
  /\ queue_last_size >= Len(b)
  /\ pc' = [pc EXCEPT ![c] = "put"]
  /\ batch' = [batch EXCEPT ![c] = b]
  /\ UNCHANGED <<front, rear, lenght, data, want, got>>

PutCommit(c) ==
  /\ pc[c] = "put"
  /\ front' = After(front, Len(batch[c]))
  /\ lenght' = (lenght + Len(batch[c])) % WordMod
  /\ data' = Stored(batch[c])
  /\ pc' = [pc EXCEPT ![c] = "idle"]
  /\ batch' = [batch EXCEPT ![c] = <<>>]
  /\ UNCHANGED <<rear, want, got>>

GetCheck(c, n) ==
  /\ pc[c] = "idle"
  /\ queue_data_size >= n
  /\ pc' = [pc EXCEPT ![c] = "get"]
  /\ want' = [want EXCEPT ![c] = n]
  /\ UNCHANGED <<front, rear, lenght, data, batch, got>>

GetCommit(c) ==
  /\ pc[c] = "get"
  /\ rear' = After(rear, want[c])
  /\ lenght' = (lenght - want[c]) % WordMod
  /\ got' = [got EXCEPT ![c] = [j \in 1 .. want[c] |-> data[At(rear, j)]]]
  /\ pc' = [pc EXCEPT ![c] = "idle"]
  /\ want' = [want EXCEPT ![c] = 0]
  /\ UNCHANGED <<front, data, batch>>

(* queue_clear_data: three stores, interrupts on *)

ClearFront(c) ==
  /\ pc[c] = "idle"
  /\ front' = 0
  /\ pc' = [pc EXCEPT ![c] = "clear rear"]
  /\ UNCHANGED <<rear, lenght, data, batch, want, got>>

\* Mutant: rear is forgotten.
ClearRearForgotten(c) ==
  /\ pc[c] = "clear rear"
  /\ pc' = [pc EXCEPT ![c] = "clear lenght"]
  /\ UNCHANGED <<front, rear, lenght, data, batch, want, got>>

ClearRear(c) ==
  /\ pc[c] = "clear rear"
  /\ rear' = 0
  /\ pc' = [pc EXCEPT ![c] = "clear lenght"]
  /\ UNCHANGED <<front, lenght, data, batch, want, got>>

ClearLenght(c) ==
  /\ pc[c] = "clear lenght"
  /\ lenght' = 0
  /\ pc' = [pc EXCEPT ![c] = "idle"]
  /\ UNCHANGED <<front, rear, data, batch, want, got>>

Step(c) ==
  \/ c \in Putter /\ \E b \in Batch : PutCheck(c, b)
  \/ PutCommit(c)
  \/ c \in Getter /\ \E n \in 1 .. MaxBatch : GetCheck(c, n)
  \/ GetCommit(c)
  \/ c \in Clearer /\ ClearFront(c)
  \/ ClearRear(c)
  \/ ClearLenght(c)

Next == \E c \in Context : Runs(c) /\ Step(c)

Spec == Init /\ [][Next]_vars

-----------------------------------------------------------------------------
\* The stored elements; once a clear has reset rear there are none.
Contents ==
  IF \E c \in Context : pc[c] = "clear lenght" THEN <<>>
  ELSE [i \in 1 .. lenght |-> data[At(rear, i)]]

Abstract == INSTANCE BulkFifo WITH Capacity <- count, q <- Contents

(* Who may use the queue: one putter and one getter, in any contexts, if the *)
(* queue is never cleared; only the getter clears, and it outranks the other.*)
Roles ==
  /\ \A c, o \in Putter : c = o
  /\ \A c, o \in Getter : c = o
  /\ \A c \in Clearer, o \in Getter : c = o
  /\ \A c \in Clearer, o \in Context : c # o => Priority[o] < Priority[c]

(* Batches go in and out whole and in order, although the room and the data  *)
(* are counted before interrupts are off and a clear is three stores.  True  *)
(* in the Roles above.                                                       *)
ImplementsFifo == Abstract!Spec

(* front, rear and lenght, which every call updates apart, describe the same *)
(* elements whenever no clear is half done.                                  *)
IndicesAgree ==
  (\A c \in Context : pc[c] \notin {"clear rear", "clear lenght"}) =>
    /\ lenght <= count
    /\ (rear + lenght - front) % count = 0
=============================================================================
