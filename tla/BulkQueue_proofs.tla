-------------------------- MODULE BulkQueue_proofs ---------------------------
(***************************************************************************)
(* The batch queue implements a FIFO of batches, for every capacity, every *)
(* size of batch and every assignment of contexts that keeps the Roles.    *)
(*                                                                         *)
(* Inv adds to the agreement of front, rear and lenght that what a call    *)
(* has counted before its critical section is still there, and what a      *)
(* clear has already stored.  A step keeps it if no other context is at a  *)
(* place where that step would disturb it: the Roles see to that, and so   *)
(* does the luck of calls that do not overlap.                             *)
(***************************************************************************)
EXTENDS SharedBulk, SequenceTheorems, TLAPS

Clearing(c) == pc[c] \in {"clear rear", "clear lenght"}

\* front and rear are lenght elements apart, around the ring or not.
Agree ==
  \/ rear + lenght = front - count \/ rear + lenght = front
  \/ rear + lenght = front + count \/ rear + lenght = front + count + count

Users ==
  \A c \in Context :
    /\ pc[c] = "put" => c \in Putter /\ batch[c] \in Batch /\ lenght + Len(batch[c]) <= count
    /\ pc[c] = "get" => c \in Getter /\ want[c] > 0 /\ want[c] <= lenght
    /\ Clearing(c) => c \in Clearer /\ front = 0
    /\ pc[c] = "clear lenght" => rear = 0

Inv ==
  /\ TypeOK /\ lenght <= count /\ Users
  /\ (\A c \in Context : ~Clearing(c)) => Agree

-----------------------------------------------------------------------------
(* Arithmetic of the ring *)

LEMMA AtIs ==
  ASSUME NEW i \in 0 .. count, NEW j \in 1 .. count
  PROVE  /\ At(i, j) = IF i + j - 1 < count THEN i + j - 1 ELSE i + j - 1 - count
         /\ At(i, j) \in 0 .. count - 1
         /\ After(i, j) \in 1 .. count
<1>1. CASE i + j - 1 < count
  BY <1>1, BulkAssumption DEF At, After
<1>2. CASE ~(i + j - 1 < count)
  BY <1>2, BulkAssumption DEF At, After
<1> QED BY <1>1, <1>2

LEMMA Multiples ==
  ASSUME NEW k \in Nat \ {0}, NEW x \in Int, -k <= x, x <= k + k
  PROVE  x % k = 0 <=> x \in {-k, 0, k, k + k}
<1>1. CASE x < 0
  <2>1. PICK y \in 0 .. k - 1 : x = y - k BY <1>1
  <2>2. x % k = y BY <2>1
  <2> QED BY <2>1, <2>2
<1>2. CASE x >= 0 /\ x < k
  <2>1. x % k = x BY <1>2
  <2> QED BY <2>1, <1>2
<1>3. CASE x >= k /\ x < k + k
  <2>1. PICK y \in 0 .. k - 1 : x = y + k BY <1>3
  <2>2. x % k = y BY <2>1
  <2> QED BY <2>1, <2>2
<1>4. CASE x = k + k
  <2>1. x % k = 0 BY <1>4
  <2> QED BY <2>1, <1>4
<1> QED BY <1>1, <1>2, <1>3, <1>4

LEMMA Counters ==
  ASSUME TypeOK, lenght <= count
  PROVE  /\ front \in 0 .. count /\ rear \in 0 .. count /\ lenght \in 0 .. count
         /\ count \in Nat \ {0} /\ WordMod \in Nat /\ WordMod > count
<1>1. front \in 0 .. count /\ rear \in 0 .. count /\ lenght \in 0 .. WordMod - 1
  BY DEF TypeOK
<1> QED BY <1>1, BulkAssumption

LEMMA AgreeIs ==
  ASSUME TypeOK, lenght <= count
  PROVE  Agree <=> (rear + lenght - front) % count = 0
<1> DEFINE x == rear + lenght - front
<1>0. front \in 0 .. count /\ rear \in 0 .. count /\ lenght \in 0 .. count /\ count \in Nat \ {0}
  BY Counters
<1>1. x \in Int /\ -count <= x /\ x <= count + count /\ count \in Nat \ {0}
  BY <1>0
<1>2. Agree <=> x \in {-count, 0, count, count + count}
  BY <1>0 DEF Agree
<1> HIDE DEF x
<1>3. Agree <=> x % count = 0 BY <1>1, <1>2, Multiples
<1> QED BY <1>3 DEF x

(* Turns of a loop over at most count elements come to different places.     *)
LEMMA AtInjective ==
  ASSUME NEW i \in 0 .. count, NEW j \in 1 .. count, NEW k \in 1 .. count, At(i, j) = At(i, k)
  PROVE  j = k
<1>1. (IF i + j - 1 < count THEN i + j - 1 ELSE i + j - 1 - count)
        = (IF i + k - 1 < count THEN i + k - 1 ELSE i + k - 1 - count)
  <2>1. At(i, j) = IF i + j - 1 < count THEN i + j - 1 ELSE i + j - 1 - count BY AtIs
  <2>2. At(i, k) = IF i + k - 1 < count THEN i + k - 1 ELSE i + k - 1 - count BY AtIs
  <2> QED BY <2>1, <2>2
<1>2. i \in Int /\ j \in 1 .. count /\ k \in 1 .. count /\ count \in Int BY BulkAssumption
<1>3. CASE i + j - 1 < count /\ i + k - 1 < count BY <1>1, <1>2, <1>3
<1>4. CASE i + j - 1 < count /\ ~(i + k - 1 < count) BY <1>1, <1>2, <1>4
<1>5. CASE ~(i + j - 1 < count) /\ i + k - 1 < count BY <1>1, <1>2, <1>5
<1>6. CASE ~(i + j - 1 < count) /\ ~(i + k - 1 < count) BY <1>1, <1>2, <1>6
<1> QED BY <1>3, <1>4, <1>5, <1>6

-----------------------------------------------------------------------------
(* Batches *)

LEMMA BatchIs ==
  ASSUME NEW b \in Batch
  PROVE  /\ b \in Seq(Element) /\ Len(b) \in 1 .. MaxBatch /\ DOMAIN b = 1 .. Len(b)
         /\ \A j \in 1 .. Len(b) : b[j] \in Element
<1>1. PICK n \in 1 .. MaxBatch : b \in [1 .. n -> Element] BY DEF Batch
<1>2. n \in Nat BY BulkAssumption
<1>3. b \in Seq(Element) BY <1>1, <1>2, SeqDef
<1>4. Len(b) = n BY <1>1, <1>2, <1>3, LenProperties
<1> QED BY <1>1, <1>3, <1>4

LEMMA IsBatch ==
  ASSUME NEW n \in 1 .. MaxBatch, NEW b \in [1 .. n -> Element]
  PROVE  b \in Batch
BY DEF Batch

(* What queue_put leaves in the ring: the batch, and around it what was there.*)
LEMMA StoredIs ==
  ASSUME TypeOK, NEW b \in Batch, Len(b) <= count
  PROVE  /\ Stored(b) \in [0 .. count - 1 -> Element]
         /\ \A j \in 1 .. Len(b) : Stored(b)[At(front, j)] = b[j]
         /\ \A i \in 0 .. count - 1 :
              (\A j \in 1 .. Len(b) : At(front, j) # i) => Stored(b)[i] = data[i]
<1> DEFINE turns(i) == {j \in DOMAIN b : At(front, j) = i}
<1>1. /\ DOMAIN b = 1 .. Len(b) /\ Len(b) \in Nat /\ count \in Nat
      /\ \A j \in 1 .. Len(b) : b[j] \in Element /\ j \in 1 .. count
  BY BatchIs, BulkAssumption
<1>2. front \in 0 .. count /\ data \in [0 .. count - 1 -> Element] BY DEF TypeOK
<1>3. Stored(b) = [i \in 0 .. count - 1 |-> IF turns(i) = {} THEN data[i] ELSE b[Max(turns(i))]]
  BY <1>2 DEF Stored
<1>4. ASSUME NEW j \in 1 .. Len(b)
      PROVE  turns(At(front, j)) = {j} /\ At(front, j) \in 0 .. count - 1
  BY <1>1, <1>2, <1>4, AtIs, AtInjective
<1>5. ASSUME NEW j PROVE j \in 1 .. Len(b) => Max({j}) = j
  BY <1>1 DEF Max
<1>6. \A j \in 1 .. Len(b) : Stored(b)[At(front, j)] = b[j]
  <2> TAKE j \in 1 .. Len(b)
  <2>1. Stored(b)[At(front, j)] = b[Max({j})] BY <1>3, <1>4
  <2> QED BY <2>1, <1>5
<1>7. \A i \in 0 .. count - 1 :
        (\A j \in 1 .. Len(b) : At(front, j) # i) => Stored(b)[i] = data[i]
  BY <1>1, <1>3
<1>8. ASSUME NEW i \in 0 .. count - 1 PROVE Stored(b)[i] \in Element
  <2>1. CASE \E j \in 1 .. Len(b) : At(front, j) = i BY <2>1, <1>1, <1>6
  <2>2. CASE \A j \in 1 .. Len(b) : At(front, j) # i BY <2>2, <1>2, <1>7
  <2> QED BY <2>1, <2>2
<1>9. Stored(b) \in [0 .. count - 1 -> Element] BY <1>3, <1>8
<1> QED BY <1>6, <1>7, <1>9

-----------------------------------------------------------------------------
(* Every step keeps Inv. *)

\* No other context is where a step of c would disturb it, or it c.
Undisturbed(c) ==
  \A o \in Context : o # c =>
    /\ pc[c] # "idle" => ~Clearing(o)
    /\ pc[c] \in {"put", "get"} => pc[o] # pc[c]
    /\ pc[c] = "clear lenght" => pc[o] # "get"

(* In the Roles nobody runs while another context clears, and nobody puts,   *)
(* or gets, while another does.                                              *)
LEMMA RolesUndisturbed ==
  ASSUME Roles, Inv, NEW c \in Context, Runs(c)
  PROVE  Undisturbed(c)
<1>1. ASSUME NEW o \in Context, o # c
      PROVE  ~Clearing(o)
  <2>1. Priority[o] \in Nat /\ Priority[c] \in Nat BY BulkAssumption
  <2>2. Clearing(o) => o \in Clearer /\ pc[o] # "idle" BY DEF Inv, Users, Clearing
  <2>3. Clearing(o) => Priority[o] <= Priority[c] BY <2>2 DEF Runs
  <2>4. Clearing(o) => Priority[c] < Priority[o] BY <1>1, <2>2 DEF Roles
  <2> QED BY <2>1, <2>3, <2>4
<1>2. ASSUME NEW o \in Context, o # c
      PROVE  /\ pc[c] \in {"put", "get"} => pc[o] # pc[c]
             /\ pc[c] = "clear lenght" => pc[o] # "get"
  BY <1>2 DEF Roles, Inv, Users, Clearing
<1> QED BY <1>1, <1>2 DEF Undisturbed

(* Without a clash the calls leave each other alone.                         *)
LEMMA ApartUndisturbed ==
  ASSUME ~Clash, NEW c \in Context
  PROVE  Undisturbed(c)
BY DEF Clash, Undisturbed, Clearing

LEMMA InitInv == Init => Inv
<1> SUFFICES ASSUME Init PROVE Inv OBVIOUS
<1>1. TypeOK BY BulkAssumption DEF Init, TypeOK
<1>2. lenght <= count BY BulkAssumption DEF Init
<1>3. Users BY DEF Init, Users, Clearing
<1>4. Agree BY DEF Init, Agree
<1> QED BY <1>1, <1>2, <1>3, <1>4 DEF Inv

LEMMA PutCheckInv ==
  ASSUME Inv, NEW c \in Putter, NEW b \in Batch, PutCheck(c, b)
  PROVE  Inv'
<1>1. c \in Context BY DEF Context
<1>2. /\ pc[c] = "idle" /\ pc' = [pc EXCEPT ![c] = "put"] /\ batch' = [batch EXCEPT ![c] = b]
      /\ front' = front /\ rear' = rear /\ lenght' = lenght /\ data' = data
      /\ want' = want /\ got' = got
  BY DEF PutCheck
<1>3. lenght + Len(b) <= count
  <2>1. lenght \in 0 .. count /\ WordMod > count /\ WordMod \in Nat /\ count \in Nat
    BY Counters DEF Inv
  <2>2. (count - lenght) % WordMod = count - lenght BY <2>1
  <2>3. Len(b) \in Nat BY BatchIs, BulkAssumption
  <2> QED BY <2>1, <2>2, <2>3 DEF PutCheck, queue_last_size
<1>4. TypeOK' BY <1>1, <1>2 DEF Inv, TypeOK
<1>5. Users' BY <1>1, <1>2, <1>3 DEF Inv, TypeOK, Users, Clearing
<1>6. (\A o \in Context : ~Clearing(o))' => Agree'
  BY <1>1, <1>2 DEF Inv, TypeOK, Clearing, Agree
<1> QED BY <1>2, <1>4, <1>5, <1>6 DEF Inv

LEMMA PutCommitInv ==
  ASSUME Inv, NEW c \in Context, Undisturbed(c), PutCommit(c)
  PROVE  Inv'
<1> DEFINE b == batch[c]
           n == Len(batch[c])
<1>1. /\ pc[c] = "put" /\ pc' = [pc EXCEPT ![c] = "idle"]
      /\ batch' = [batch EXCEPT ![c] = <<>>] /\ data' = Stored(b)
      /\ front' = After(front, n) /\ lenght' = (lenght + n) % WordMod
      /\ rear' = rear /\ want' = want /\ got' = got
  BY DEF PutCommit
<1>2. c \in Putter /\ b \in Batch /\ lenght + n <= count
  BY <1>1 DEF Inv, Users
<1>3. /\ front \in 0 .. count /\ rear \in 0 .. count /\ lenght \in 0 .. count
      /\ count \in Nat \ {0} /\ WordMod \in Nat /\ WordMod > count
  BY Counters DEF Inv
<1>4. n \in 1 .. count BY <1>2, <1>3, BatchIs, BulkAssumption
<1>5. front' = At(front, n) + 1 BY <1>1 DEF After
<1>6. data' \in [0 .. count - 1 -> Element] BY <1>1, <1>2, <1>3, <1>4, StoredIs DEF Inv
<1> HIDE DEF n, b
<1>7. lenght' = lenght + n BY <1>1, <1>2, <1>3, <1>4
<1>8. front' \in 1 .. count /\ (front' = front + n \/ front' = front + n - count)
  <2>1. At(front, n) = IF front + n - 1 < count THEN front + n - 1 ELSE front + n - 1 - count
    BY <1>3, <1>4, AtIs
  <2>2. CASE front + n - 1 < count BY <2>1, <2>2, <1>3, <1>4, <1>5
  <2>3. CASE ~(front + n - 1 < count) BY <2>1, <2>3, <1>3, <1>4, <1>5
  <2> QED BY <2>2, <2>3
<1>9. \A o \in Context : ~Clearing(o) BY <1>1 DEF Undisturbed, Clearing
<1>10. TypeOK'
  <2>1. front' \in 0 .. count /\ lenght' \in 0 .. WordMod - 1
    BY <1>2, <1>3, <1>4, <1>7, <1>8
  <2> QED BY <1>1, <1>6, <2>1 DEF Inv, TypeOK
<1>11. ASSUME NEW o \in Context
       PROVE  /\ pc'[o] = "put" => FALSE
              /\ pc'[o] = "get" => pc[o] = "get"
              /\ ~(pc'[o] \in {"clear rear", "clear lenght"})
  <2>1. pc[o] = "put" => o = c BY <1>1 DEF Undisturbed
  <2> QED BY <1>1, <1>9, <2>1 DEF Inv, TypeOK, Clearing
<1>12. Users'
  <2>1. ASSUME NEW o \in Context, pc[o] = "get"
        PROVE  o \in Getter /\ want'[o] > 0 /\ want'[o] <= lenght'
    <3>1. want \in [Context -> 0 .. MaxBatch] BY DEF Inv, TypeOK
    <3>2. o \in Getter /\ want[o] > 0 /\ want[o] <= lenght BY <2>1 DEF Inv, Users
    <3>3. want[o] \in Int BY <3>1, BulkAssumption
    <3> QED BY <3>2, <3>3, <1>1, <1>3, <1>4, <1>7
  <2> QED BY <1>11, <2>1 DEF Users, Clearing
<1>13. Agree'
  <2>1. Agree BY <1>9 DEF Inv
  <2>2. CASE front' = front + n
    BY <2>1, <2>2, <1>1, <1>3, <1>4, <1>7 DEF Agree
  <2>3. CASE front' = front + n - count
    BY <2>1, <2>3, <1>1, <1>3, <1>4, <1>7, <1>8, <1>2 DEF Agree
  <2> QED BY <2>2, <2>3, <1>8
<1>14. lenght' <= count' BY <1>2, <1>7
<1> QED BY <1>10, <1>12, <1>13, <1>14 DEF Inv

LEMMA GetCheckInv ==
  ASSUME Inv, NEW c \in Getter, NEW n \in 1 .. MaxBatch, GetCheck(c, n)
  PROVE  Inv'
<1>1. c \in Context BY DEF Context
<1>2. /\ pc[c] = "idle" /\ pc' = [pc EXCEPT ![c] = "get"] /\ want' = [want EXCEPT ![c] = n]
      /\ front' = front /\ rear' = rear /\ lenght' = lenght /\ data' = data
      /\ batch' = batch /\ got' = got /\ lenght >= n
  BY DEF GetCheck, queue_data_size
<1>3. n \in 0 .. MaxBatch /\ n > 0 /\ n <= lenght
  BY <1>2, Counters, BulkAssumption DEF Inv
<1>4. TypeOK' BY <1>1, <1>2, <1>3 DEF Inv, TypeOK
<1>5. Users' BY <1>1, <1>2, <1>3 DEF Inv, TypeOK, Users, Clearing
<1>6. (\A o \in Context : ~Clearing(o))' => Agree'
  BY <1>1, <1>2 DEF Inv, TypeOK, Clearing, Agree
<1> QED BY <1>2, <1>4, <1>5, <1>6 DEF Inv

LEMMA GetCommitInv ==
  ASSUME Inv, NEW c \in Context, Undisturbed(c), GetCommit(c)
  PROVE  Inv'
<1> DEFINE n == want[c]
           b == [j \in 1 .. n |-> data[At(rear, j)]]
<1>1. /\ pc[c] = "get" /\ pc' = [pc EXCEPT ![c] = "idle"]
      /\ want' = [want EXCEPT ![c] = 0] /\ got' = [got EXCEPT ![c] = b]
      /\ rear' = After(rear, n) /\ lenght' = (lenght - n) % WordMod
      /\ front' = front /\ data' = data /\ batch' = batch
  BY DEF GetCommit
<1>2. c \in Getter /\ n > 0 /\ n <= lenght
  BY <1>1 DEF Inv, Users
<1>3. /\ front \in 0 .. count /\ rear \in 0 .. count /\ lenght \in 0 .. count
      /\ count \in Nat \ {0} /\ WordMod \in Nat /\ WordMod > count
  BY Counters DEF Inv
<1>4. n \in 1 .. count /\ n \in 1 .. MaxBatch
  <2>1. want \in [Context -> 0 .. MaxBatch] BY DEF Inv, TypeOK
  <2>2. n \in 0 .. MaxBatch BY <2>1
  <2> QED BY <2>2, <1>2, <1>3, BulkAssumption
<1>5. rear' = At(rear, n) + 1 BY <1>1 DEF After
<1>6. b \in Batch
  <2>1. data \in [0 .. count - 1 -> Element] BY DEF Inv, TypeOK
  <2>2. ASSUME NEW j \in 1 .. n PROVE data[At(rear, j)] \in Element
    <3>1. j \in 1 .. count BY <1>3, <1>4
    <3>2. At(rear, j) \in 0 .. count - 1 BY <3>1, <1>3, AtIs
    <3> QED BY <2>1, <3>2
  <2>3. b \in [1 .. n -> Element] BY <2>2
  <2> QED BY <2>3, <1>4, IsBatch
<1> HIDE DEF n, b
<1>7. lenght' = lenght - n BY <1>1, <1>2, <1>3, <1>4
<1>8. rear' \in 1 .. count /\ (rear' = rear + n \/ rear' = rear + n - count)
  <2>1. At(rear, n) = IF rear + n - 1 < count THEN rear + n - 1 ELSE rear + n - 1 - count
    BY <1>3, <1>4, AtIs
  <2>2. CASE rear + n - 1 < count BY <2>1, <2>2, <1>3, <1>4, <1>5
  <2>3. CASE ~(rear + n - 1 < count) BY <2>1, <2>3, <1>3, <1>4, <1>5
  <2> QED BY <2>2, <2>3
<1>9. \A o \in Context : ~Clearing(o) BY <1>1 DEF Undisturbed, Clearing
<1>10. TypeOK'
  <2>1. rear' \in 0 .. count /\ lenght' \in 0 .. WordMod - 1
    BY <1>2, <1>3, <1>4, <1>7, <1>8
  <2>2. got' \in [Context -> Batch \cup {<<>>}] BY <1>1, <1>6 DEF Inv, TypeOK
  <2>3. want' \in [Context -> 0 .. MaxBatch]
    <3>1. 0 \in 0 .. MaxBatch BY BulkAssumption
    <3> QED BY <1>1, <3>1 DEF Inv, TypeOK
  <2> QED BY <1>1, <2>1, <2>2, <2>3 DEF Inv, TypeOK
<1>11. ASSUME NEW o \in Context
       PROVE  /\ pc'[o] = "get" => FALSE
              /\ pc'[o] = "put" => pc[o] = "put"
              /\ ~(pc'[o] \in {"clear rear", "clear lenght"})
  <2>1. pc[o] = "get" => o = c BY <1>1 DEF Undisturbed
  <2> QED BY <1>1, <1>9, <2>1 DEF Inv, TypeOK, Clearing
<1>12. Users'
  <2>1. ASSUME NEW o \in Context, pc[o] = "put"
        PROVE  o \in Putter /\ batch'[o] \in Batch /\ lenght' + Len(batch'[o]) <= count
    <3>1. o \in Putter /\ batch[o] \in Batch /\ lenght + Len(batch[o]) <= count
      BY <2>1 DEF Inv, Users
    <3>2. Len(batch[o]) \in Int BY <3>1, BatchIs, BulkAssumption
    <3> QED BY <3>1, <3>2, <1>1, <1>3, <1>4, <1>7
  <2> QED BY <1>11, <2>1 DEF Users, Clearing
<1>13. Agree'
  <2>1. Agree BY <1>9 DEF Inv
  <2>2. CASE rear' = rear + n
    BY <2>1, <2>2, <1>1, <1>3, <1>4, <1>7 DEF Agree
  <2>3. CASE rear' = rear + n - count
    BY <2>1, <2>3, <1>1, <1>3, <1>4, <1>7, <1>8, <1>2 DEF Agree
  <2> QED BY <2>2, <2>3, <1>8
<1>14. lenght' <= count' BY <1>2, <1>3, <1>4, <1>7
<1> QED BY <1>10, <1>12, <1>13, <1>14 DEF Inv

LEMMA ClearFrontInv ==
  ASSUME Inv, NEW c \in Clearer, ClearFront(c)
  PROVE  Inv'
<1>0. 0 \in 0 .. count /\ 0 \in 0 .. WordMod - 1 /\ count \in Nat BY BulkAssumption
<1>1. c \in Context BY DEF Context
<1>2. /\ pc[c] = "idle" /\ pc' = [pc EXCEPT ![c] = "clear rear"] /\ front' = 0
      /\ rear' = rear /\ lenght' = lenght /\ data' = data /\ batch' = batch
      /\ want' = want /\ got' = got
  BY DEF ClearFront
<1>3. TypeOK'
  <2>1. front' \in 0 .. count BY <1>0, <1>2
  <2> QED BY <1>1, <1>2, <2>1 DEF Inv, TypeOK
<1>4. Users' BY <1>1, <1>2 DEF Inv, TypeOK, Users, Clearing
<1>5. Clearing(c)' BY <1>1, <1>2 DEF Inv, TypeOK, Clearing
<1> QED BY <1>1, <1>2, <1>3, <1>4, <1>5 DEF Inv

LEMMA ClearRearInv ==
  ASSUME Inv, NEW c \in Context, ClearRear(c)
  PROVE  Inv'
<1>0. 0 \in 0 .. count /\ 0 \in 0 .. WordMod - 1 /\ count \in Nat BY BulkAssumption
<1>2. /\ pc[c] = "clear rear" /\ pc' = [pc EXCEPT ![c] = "clear lenght"] /\ rear' = 0
      /\ front' = front /\ lenght' = lenght /\ data' = data /\ batch' = batch
      /\ want' = want /\ got' = got
  BY DEF ClearRear
<1>3. TypeOK'
  <2>1. rear' \in 0 .. count BY <1>0, <1>2
  <2> QED BY <1>2, <2>1 DEF Inv, TypeOK
<1>4. Users' BY <1>2 DEF Inv, TypeOK, Users, Clearing
<1>5. Clearing(c)' BY <1>2 DEF Inv, TypeOK, Clearing
<1> QED BY <1>2, <1>3, <1>4, <1>5 DEF Inv

LEMMA ClearLenghtInv ==
  ASSUME Inv, NEW c \in Context, Undisturbed(c), ClearLenght(c)
  PROVE  Inv'
<1>0. 0 \in 0 .. count /\ 0 \in 0 .. WordMod - 1 /\ count \in Nat BY BulkAssumption
<1>1. /\ pc[c] = "clear lenght" /\ pc' = [pc EXCEPT ![c] = "idle"] /\ lenght' = 0
      /\ front' = front /\ rear' = rear /\ data' = data /\ batch' = batch
      /\ want' = want /\ got' = got
  BY DEF ClearLenght
<1>2. front = 0 /\ rear = 0 /\ c \in Clearer BY <1>1 DEF Inv, Users, Clearing
<1>9. lenght' = 0 BY <1>1
<1>3. TypeOK'
  <2>1. lenght' \in 0 .. WordMod - 1 BY <1>0, <1>9
  <2> QED BY <1>1, <2>1 DEF Inv, TypeOK
<1>4. ASSUME NEW o \in Context
      PROVE  ~Clearing(o)' /\ (pc'[o] = "put" => pc[o] = "put") /\ pc'[o] # "get"
  <2>1. Clearing(o) => o = c BY <1>1 DEF Undisturbed
  <2>2. pc[o] = "get" => o = c BY <1>1 DEF Undisturbed
  <2> QED BY <1>1, <2>1, <2>2 DEF Inv, TypeOK, Clearing
<1>5. ASSUME NEW o \in Context, pc[o] = "put"
      PROVE  o \in Putter /\ batch'[o] \in Batch /\ lenght' + Len(batch'[o]) <= count
  <2>1. o \in Putter /\ batch[o] \in Batch /\ lenght + Len(batch[o]) <= count
    BY <1>5 DEF Inv, Users
  <2>2. Len(batch[o]) \in Int BY <2>1, BatchIs, BulkAssumption
  <2>3. lenght \in 0 .. count /\ count \in Nat BY Counters DEF Inv
  <2>4. batch' = batch BY <1>1
  <2> QED BY <2>1, <2>2, <2>3, <2>4, <1>9
<1>6. Users' BY <1>4, <1>5 DEF Users, Clearing
<1>7. Agree'
  <2>1. front' = 0 /\ rear' = 0 BY <1>1, <1>2
  <2> QED BY <2>1, <1>9 DEF Agree
<1>8. lenght' <= count' BY <1>0, <1>9
<1> QED BY <1>3, <1>6, <1>7, <1>8 DEF Inv

LEMMA StepInv ==
  ASSUME Inv, NEW c \in Context, Undisturbed(c), Step(c)
  PROVE  Inv'
<1>1. ASSUME c \in Putter, NEW b \in Batch, PutCheck(c, b) PROVE Inv'
  BY <1>1, PutCheckInv
<1>2. ASSUME c \in Getter, NEW n \in 1 .. MaxBatch, GetCheck(c, n) PROVE Inv'
  BY <1>2, GetCheckInv
<1> QED
  BY <1>1, <1>2, PutCommitInv, GetCommitInv, ClearFrontInv, ClearRearInv, ClearLenghtInv
  DEF Step

LEMMA StutterInv ==
  ASSUME Inv, UNCHANGED vars
  PROVE  Inv'
BY DEF vars, Inv, TypeOK, Users, Clearing, Agree

LEMMA NextInv ==
  ASSUME Roles, Inv, [Next]_vars
  PROVE  Inv'
BY StepInv, StutterInv, RolesUndisturbed DEF Next

(* The three stores of an index or a length per call keep front, rear and    *)
(* lenght of queue.c in agreement outside a clear, for every capacity.       *)
THEOREM IndicesAgreeHolds == ASSUME Roles PROVE Spec => []IndicesAgree
<1>1. Inv => IndicesAgree
  BY AgreeIs DEF Inv, IndicesAgree, Clearing
<1> QED BY <1>1, InitInv, NextInv, PTL DEF Spec

-----------------------------------------------------------------------------
(* Every step is a step of BulkFifo, or changes nothing that BulkFifo shows.  *)

\* The n elements of d that begin after index r.
Line(d, r, n) == [i \in 1 .. n |-> d[At(r, i)]]

LEMMA LineIs ==
  ASSUME NEW d \in [0 .. count - 1 -> Element], NEW r \in 0 .. count, NEW n \in 0 .. count
  PROVE  /\ Line(d, r, n) \in Seq(Element) /\ Len(Line(d, r, n)) = n
         /\ \A i \in 1 .. n : Line(d, r, n)[i] = d[At(r, i)] /\ d[At(r, i)] \in Element
<1>1. ASSUME NEW i \in 1 .. n PROVE d[At(r, i)] \in Element
  <2>1. i \in 1 .. count BY BulkAssumption
  <2>2. At(r, i) \in 0 .. count - 1 BY <2>1, AtIs
  <2> QED BY <2>2
<1>2. n \in Nat BY BulkAssumption
<1>3. Line(d, r, n) \in [1 .. n -> Element] BY <1>1 DEF Line
<1>4. Line(d, r, n) \in Seq(Element) BY <1>2, <1>3, SeqDef
<1>5. Len(Line(d, r, n)) = n BY <1>2, <1>3, <1>4, LenProperties
<1> QED BY <1>1, <1>4, <1>5 DEF Line

\* The element after the stored ones goes where front is.
LEMMA NextPlace ==
  ASSUME TypeOK, lenght <= count, Agree, NEW j \in 1 .. count, lenght + j <= count
  PROVE  At(rear, lenght + j) = At(front, j)
<1>1. front \in 0 .. count /\ rear \in 0 .. count /\ lenght \in 0 .. count /\ count \in Nat \ {0}
  BY Counters
<1>2. lenght + j \in 1 .. count /\ j \in 1 .. count BY <1>1
<1> DEFINE k == lenght + j
<1>3. At(rear, k) = (IF rear + k - 1 < count THEN rear + k - 1 ELSE rear + k - 1 - count)
      /\ At(rear, k) \in 0 .. count - 1
  BY <1>1, <1>2, AtIs
<1>4. At(front, j) = (IF front + j - 1 < count THEN front + j - 1 ELSE front + j - 1 - count)
      /\ At(front, j) \in 0 .. count - 1
  BY <1>1, <1>2, AtIs
<1>5. k = lenght + j OBVIOUS
<1> HIDE DEF k
<1>6. PICK x \in 0 .. count - 1 : x = At(rear, k) BY <1>3
<1>7. PICK y \in 0 .. count - 1 : y = At(front, j) BY <1>4
<1>8. x = rear + lenght + j - 1 \/ x = rear + lenght + j - 1 - count
  BY <1>1, <1>2, <1>3, <1>5, <1>6
<1>9. y = front + j - 1 \/ y = front + j - 1 - count
  BY <1>1, <1>2, <1>4, <1>7
<1>10. x = y
  BY <1>1, <1>2, <1>8, <1>9 DEF Agree
<1> QED BY <1>5, <1>6, <1>7, <1>10

\* What a putter stores leaves the elements that are stored alone.
LEMMA OtherPlaces ==
  ASSUME TypeOK, lenght <= count, Agree,
         NEW i \in 1 .. lenght, NEW j \in 1 .. count, lenght + j <= count
  PROVE  At(rear, i) # At(front, j)
<1>1. rear \in 0 .. count /\ lenght \in 0 .. count /\ count \in Nat \ {0} BY Counters
<1>2. i \in 1 .. count /\ lenght + j \in 1 .. count /\ i # lenght + j BY <1>1
<1>3. At(rear, i) # At(rear, lenght + j) BY <1>1, <1>2, AtInjective
<1> QED BY <1>3, NextPlace

\* After n turns of queue_get's loop the next are where the later ones would be.
LEMMA LaterPlace ==
  ASSUME NEW r \in 0 .. count, NEW n \in 1 .. count, NEW i \in 1 .. count, n + i <= count
  PROVE  At(After(r, n), i) = At(r, n + i)
<1>1. count \in Nat \ {0} BY BulkAssumption
<1>2. n + i \in 1 .. count BY <1>1
<1>3. At(r, n) = (IF r + n - 1 < count THEN r + n - 1 ELSE r + n - 1 - count)
      /\ After(r, n) \in 1 .. count
  BY AtIs
<1>4. At(r, n + i) = (IF r + (n + i) - 1 < count THEN r + (n + i) - 1 ELSE r + (n + i) - 1 - count)
      /\ At(r, n + i) \in 0 .. count - 1
  BY <1>2, AtIs
<1>5. PICK s \in 1 .. count : s = After(r, n) BY <1>3
<1>6. s = (IF r + n - 1 < count THEN r + n - 1 ELSE r + n - 1 - count) + 1
  BY <1>3, <1>5 DEF After
<1>7. s = r + n \/ s = r + n - count BY <1>1, <1>6
<1>8. At(s, i) = (IF s + i - 1 < count THEN s + i - 1 ELSE s + i - 1 - count)
      /\ At(s, i) \in 0 .. count - 1
  BY <1>1, AtIs
<1>9. PICK x \in 0 .. count - 1 : x = At(s, i) BY <1>8
<1>10. PICK y \in 0 .. count - 1 : y = At(r, n + i) BY <1>4
<1>11. x = s + i - 1 \/ x = s + i - 1 - count BY <1>1, <1>8, <1>9
<1>12. y = r + n + i - 1 \/ y = r + n + i - 1 - count BY <1>1, <1>4, <1>10
<1>13. x = y BY <1>1, <1>7, <1>11, <1>12
<1> QED BY <1>5, <1>9, <1>10, <1>13

LEMMA PutCommitPuts ==
  ASSUME Inv, NEW c \in Context, Undisturbed(c), PutCommit(c)
  PROVE  Abstract!Next
<1> DEFINE b == batch[c]
           n == Len(batch[c])
<1>1. /\ pc[c] = "put" /\ pc' = [pc EXCEPT ![c] = "idle"] /\ data' = Stored(b)
      /\ lenght' = (lenght + n) % WordMod /\ rear' = rear /\ got' = got
  BY DEF PutCommit
<1>2. b \in Batch /\ lenght + n <= count BY <1>1 DEF Inv, Users
<1>3. /\ rear \in 0 .. count /\ lenght \in 0 .. count
      /\ count \in Nat \ {0} /\ WordMod \in Nat /\ WordMod > count
  BY Counters DEF Inv
<1>4. n \in 1 .. count /\ b \in Seq(Element) BY <1>2, <1>3, BatchIs, BulkAssumption
<1>5. /\ data' \in [0 .. count - 1 -> Element]
      /\ \A j \in 1 .. n : data'[At(front, j)] = b[j]
      /\ \A i \in 0 .. count - 1 :
           (\A j \in 1 .. n : At(front, j) # i) => data'[i] = data[i]
  BY <1>1, <1>2, <1>3, <1>4, StoredIs DEF Inv
<1>6. \A o \in Context : ~Clearing(o) BY <1>1 DEF Undisturbed, Clearing
<1>7. Agree /\ TypeOK /\ lenght <= count /\ data \in [0 .. count - 1 -> Element]
  BY <1>6 DEF Inv, TypeOK
<1>8. Contents = Line(data, rear, lenght) BY <1>6 DEF Contents, Line, Clearing
<1>9. lenght' = lenght + n
  <2> HIDE DEF n
  <2> QED BY <1>1, <1>2, <1>3, <1>4
<1>10. Contents' = Line(data', rear, lenght')
  <2>1. \A o \in Context : pc'[o] # "clear lenght" BY <1>1, <1>6 DEF Inv, TypeOK, Clearing
  <2> QED BY <1>1, <2>1 DEF Contents, Line
<1>11. lenght' \in 0 .. count
  <2> HIDE DEF n
  <2> QED BY <1>2, <1>3, <1>4, <1>9
<1>12. /\ Contents \in Seq(Element) /\ Len(Contents) = lenght
       /\ \A i \in 1 .. lenght : Contents[i] = data[At(rear, i)]
  BY <1>3, <1>7, <1>8, LineIs
<1>13. /\ Contents' \in Seq(Element) /\ Len(Contents') = lenght'
       /\ \A i \in 1 .. lenght' : Contents'[i] = data'[At(rear, i)]
  BY <1>3, <1>5, <1>10, <1>11, LineIs
<1>14. /\ Contents \o b \in Seq(Element) /\ Len(Contents \o b) = lenght + n
       /\ \A i \in 1 .. lenght + n :
            (Contents \o b)[i] = IF i <= lenght THEN Contents[i] ELSE b[i - lenght]
  BY <1>4, <1>12, ConcatProperties
<1> HIDE DEF n, b
<1>15. ASSUME NEW i \in 1 .. lenght PROVE data'[At(rear, i)] = data[At(rear, i)]
  <2>1. ASSUME NEW j \in 1 .. n PROVE At(front, j) # At(rear, i)
    <3>1. j \in 1 .. count /\ lenght + j <= count BY <1>2, <1>3, <1>4
    <3> QED BY <1>7, <3>1, OtherPlaces
  <2>2. i \in 1 .. count BY <1>3
  <2>3. At(rear, i) \in 0 .. count - 1 BY <1>3, <2>2, AtIs
  <2> QED BY <1>5, <2>1, <2>3
<1>16. ASSUME NEW j \in 1 .. n PROVE data'[At(rear, lenght + j)] = b[j]
  <2>1. j \in 1 .. count /\ lenght + j <= count BY <1>2, <1>3, <1>4
  <2>2. At(rear, lenght + j) = At(front, j) BY <1>7, <2>1, NextPlace
  <2> QED BY <1>5, <2>2
<1>17. ASSUME NEW i \in 1 .. lenght' PROVE Contents'[i] = (Contents \o b)[i]
  <2>1. i \in 1 .. lenght + n BY <1>9
  <2>2. CASE i <= lenght
    <3>1. i \in 1 .. lenght BY <2>2, <1>3
    <3>2. (Contents \o b)[i] = Contents[i] BY <1>14, <2>1, <2>2
    <3> QED BY <1>12, <1>13, <1>15, <3>1, <3>2
  <2>3. CASE ~(i <= lenght)
    <3>1. i - lenght \in 1 .. n /\ lenght + (i - lenght) = i BY <2>1, <2>3, <1>3, <1>4
    <3>2. (Contents \o b)[i] = b[i - lenght] BY <1>14, <2>1, <2>3
    <3>3. data'[At(rear, lenght + (i - lenght))] = b[i - lenght] BY <3>1, <1>16
    <3> QED BY <1>13, <3>1, <3>2, <3>3
  <2> QED BY <2>2, <2>3
<1>18. Contents' = Contents \o b
  BY <1>9, <1>13, <1>14, <1>17, SeqEqual
<1>19. Len(Contents) + Len(b) <= count BY <1>2, <1>12 DEF n, b
<1>20. Abstract!Put(b) BY <1>1, <1>18, <1>19 DEF Abstract!Put
<1> QED BY <1>2, <1>20 DEF Abstract!Next

LEMMA GetCommitGets ==
  ASSUME Inv, NEW c \in Context, Undisturbed(c), GetCommit(c)
  PROVE  Abstract!Next
<1> DEFINE n == want[c]
           b == [j \in 1 .. n |-> data[At(rear, j)]]
<1>1. /\ pc[c] = "get" /\ pc' = [pc EXCEPT ![c] = "idle"] /\ data' = data
      /\ lenght' = (lenght - n) % WordMod /\ rear' = After(rear, n)
      /\ got' = [got EXCEPT ![c] = b]
  BY DEF GetCommit
<1>2. n > 0 /\ n <= lenght BY <1>1 DEF Inv, Users
<1>3. /\ rear \in 0 .. count /\ lenght \in 0 .. count
      /\ count \in Nat \ {0} /\ WordMod \in Nat /\ WordMod > count
  BY Counters DEF Inv
<1>4. n \in 1 .. count /\ n \in 1 .. MaxBatch
  <2>1. want \in [Context -> 0 .. MaxBatch] BY DEF Inv, TypeOK
  <2>2. n \in 0 .. MaxBatch BY <2>1
  <2> QED BY <2>2, <1>2, <1>3, BulkAssumption
<1>5. \A o \in Context : ~Clearing(o) BY <1>1 DEF Undisturbed, Clearing
<1>6. data \in [0 .. count - 1 -> Element] BY DEF Inv, TypeOK
<1>7. Contents = Line(data, rear, lenght) BY <1>5 DEF Contents, Line, Clearing
<1>8. lenght' = lenght - n
  <2> HIDE DEF n
  <2> QED BY <1>1, <1>2, <1>3, <1>4
<1>9. Contents' = Line(data, After(rear, n), lenght')
  <2>1. \A o \in Context : pc'[o] # "clear lenght" BY <1>1, <1>5 DEF Inv, TypeOK, Clearing
  <2> QED BY <1>1, <2>1 DEF Contents, Line
<1>10. /\ Contents \in Seq(Element) /\ Len(Contents) = lenght
       /\ \A i \in 1 .. lenght : Contents[i] = data[At(rear, i)] /\ Contents[i] \in Element
  BY <1>3, <1>6, <1>7, LineIs
<1>11. b = Line(data, rear, n) BY DEF Line
<1> HIDE DEF n, b
<1>12. lenght' \in 0 .. count /\ After(rear, n) \in 0 .. count /\ n \in 0 .. count
  <2>1. After(rear, n) \in 1 .. count BY <1>3, <1>4, AtIs
  <2> QED BY <1>2, <1>3, <1>4, <1>8, <2>1
<1>13. /\ b \in Seq(Element) /\ Len(b) = n
       /\ \A i \in 1 .. n : b[i] = data[At(rear, i)] /\ b[i] \in Element
  <2>1. /\ Line(data, rear, n) \in Seq(Element) /\ Len(Line(data, rear, n)) = n
        /\ \A i \in 1 .. n : Line(data, rear, n)[i] = data[At(rear, i)]
        /\ \A i \in 1 .. n : data[At(rear, i)] \in Element
    BY <1>3, <1>6, <1>12, LineIs
  <2> QED BY <1>11, <2>1, ZenonT(30)
<1>14. /\ Contents' \in Seq(Element) /\ Len(Contents') = lenght'
       /\ \A i \in 1 .. lenght' : Contents'[i] = data[At(After(rear, n), i)]
  BY <1>6, <1>9, <1>12, LineIs
<1>15. b = SubSeq(Contents, 1, n)
  <2>1. \A i \in 1 .. n : i \in 1 .. lenght BY <1>2, <1>3, <1>4
  <2>2. /\ SubSeq(Contents, 1, n) \in Seq(Element) /\ Len(SubSeq(Contents, 1, n)) = n
        /\ \A i \in 1 .. n : SubSeq(Contents, 1, n)[i] = Contents[i]
    <3>1. \A i \in 1 .. n : Contents[i] \in Element BY <1>10, <2>1
    <3>2. 1 \in Int /\ n \in Int /\ 1 <= n BY <1>4, <1>3
    <3>3. /\ SubSeq(Contents, 1, n) \in Seq(Element)
          /\ Len(SubSeq(Contents, 1, n)) = IF 1 <= n THEN n - 1 + 1 ELSE 0
          /\ \A i \in 1 .. n - 1 + 1 : SubSeq(Contents, 1, n)[i] = Contents[1 + i - 1]
      BY <3>1, <3>2, SubSeqProperties
    <3>4. n - 1 + 1 = n /\ \A i \in 1 .. n : 1 + i - 1 = i BY <3>2
    <3> QED BY <3>2, <3>3, <3>4
  <2>3. \A i \in 1 .. n : b[i] = SubSeq(Contents, 1, n)[i] BY <1>10, <1>13, <2>1, <2>2
  <2> QED BY <1>13, <2>2, <2>3, SeqEqual
<1>16. Contents' = SubSeq(Contents, n + 1, lenght)
  <2> DEFINE rest == SubSeq(Contents, n + 1, lenght)
  <2>1. /\ rest \in Seq(Element) /\ Len(rest) = lenght'
        /\ \A i \in 1 .. lenght' : rest[i] = Contents[n + i]
    <3>1. \A i \in n + 1 .. lenght : Contents[i] \in Element BY <1>2, <1>3, <1>4, <1>10
    <3>2. n + 1 \in Int /\ lenght \in Int BY <1>3, <1>4
    <3>3. /\ rest \in Seq(Element)
          /\ Len(rest) = IF n + 1 <= lenght THEN lenght - (n + 1) + 1 ELSE 0
          /\ \A i \in 1 .. lenght - (n + 1) + 1 : rest[i] = Contents[n + 1 + i - 1]
      BY <3>1, <3>2, SubSeqProperties
    <3> HIDE DEF rest
    <3>4. lenght - (n + 1) + 1 = lenght' /\ \A i \in 1 .. lenght' : n + 1 + i - 1 = n + i
      BY <1>2, <1>3, <1>4, <1>8
    <3>5. (IF n + 1 <= lenght THEN lenght - (n + 1) + 1 ELSE 0) = lenght'
      BY <1>2, <1>3, <1>4, <1>8
    <3> QED BY <3>3, <3>4, <3>5
  <2>2. ASSUME NEW i \in 1 .. lenght' PROVE Contents'[i] = rest[i]
    <3>1. n \in 1 .. count /\ i \in 1 .. count /\ n + i \in 1 .. lenght /\ n + i <= count
      BY <1>2, <1>3, <1>4, <1>8
    <3>2. At(After(rear, n), i) = At(rear, n + i) BY <1>3, <3>1, LaterPlace
    <3>3. rest[i] = Contents[n + i] BY <2>1
    <3> HIDE DEF rest
    <3> QED BY <1>10, <1>14, <3>1, <3>2, <3>3
  <2> HIDE DEF rest
  <2>3. Contents' = rest BY <1>14, <2>1, <2>2, SeqEqual
  <2> QED BY <2>3 DEF rest
<1>17. b \in Batch
  <2>1. b \in [1 .. n -> Element] BY <1>13, LenProperties
  <2> QED BY <2>1, <1>4, IsBatch
<1>18. Abstract!Get(c, Len(b))
  BY <1>1, <1>2, <1>10, <1>13, <1>15, <1>16 DEF Abstract!Get
<1> QED BY <1>17, <1>18 DEF Abstract!Next

(* A clear is seen when rear is reset: until then the elements are there, and *)
(* afterwards a length that is not yet reset is not read by anyone.           *)
LEMMA ClearFrontStutters ==
  ASSUME Inv, NEW c \in Clearer, ClearFront(c)
  PROVE  UNCHANGED <<Contents, got>>
<1>1. c \in Context BY DEF Context
<1>2. /\ pc[c] = "idle" /\ pc' = [pc EXCEPT ![c] = "clear rear"]
      /\ rear' = rear /\ lenght' = lenght /\ data' = data /\ got' = got
  BY DEF ClearFront
<1>3. \A o \in Context : pc'[o] = "clear lenght" <=> pc[o] = "clear lenght"
  BY <1>1, <1>2 DEF Inv, TypeOK
<1> QED BY <1>2, <1>3 DEF Contents

LEMMA ClearRearClears ==
  ASSUME Inv, NEW c \in Context, ClearRear(c)
  PROVE  Abstract!Next
<1>1. pc' = [pc EXCEPT ![c] = "clear lenght"] /\ got' = got BY DEF ClearRear
<1>2. pc'[c] = "clear lenght" BY <1>1 DEF Inv, TypeOK
<1>3. Contents' = <<>> BY <1>2 DEF Contents
<1> QED BY <1>1, <1>3 DEF Abstract!Next, Abstract!Clear

LEMMA ClearLenghtStutters ==
  ASSUME Inv, NEW c \in Context, Undisturbed(c), ClearLenght(c)
  PROVE  UNCHANGED <<Contents, got>>
<1>1. /\ pc[c] = "clear lenght" /\ pc' = [pc EXCEPT ![c] = "idle"] /\ lenght' = 0 /\ got' = got
  BY DEF ClearLenght
<1>2. Contents = <<>> BY <1>1 DEF Contents
<1>3. \A o \in Context : pc'[o] # "clear lenght"
  <2>1. \A o \in Context : Clearing(o) => o = c BY <1>1 DEF Undisturbed
  <2> QED BY <1>1, <2>1 DEF Inv, TypeOK, Clearing
<1>4. Contents' = [i \in 1 .. 0 |-> data'[At(rear', i)]] BY <1>1, <1>3 DEF Contents
<1>5. Contents' = <<>> BY <1>4
<1> QED BY <1>1, <1>2, <1>5

LEMMA StepRefines ==
  ASSUME Inv, NEW c \in Context, Undisturbed(c), Step(c)
  PROVE  [Abstract!Next]_(Abstract!vars)
<1>1. ASSUME c \in Putter, NEW b \in Batch, PutCheck(c, b)
      PROVE  UNCHANGED <<Contents, got>>
  <2>1. /\ pc[c] = "idle" /\ pc' = [pc EXCEPT ![c] = "put"]
        /\ rear' = rear /\ lenght' = lenght /\ data' = data /\ got' = got
    BY <1>1 DEF PutCheck
  <2>2. \A o \in Context : pc'[o] = "clear lenght" <=> pc[o] = "clear lenght"
    BY <2>1 DEF Inv, TypeOK
  <2> QED BY <2>1, <2>2 DEF Contents
<1>2. ASSUME c \in Getter, NEW n \in 1 .. MaxBatch, GetCheck(c, n)
      PROVE  UNCHANGED <<Contents, got>>
  <2>1. /\ pc[c] = "idle" /\ pc' = [pc EXCEPT ![c] = "get"]
        /\ rear' = rear /\ lenght' = lenght /\ data' = data /\ got' = got
    BY <1>2 DEF GetCheck
  <2>2. \A o \in Context : pc'[o] = "clear lenght" <=> pc[o] = "clear lenght"
    BY <2>1 DEF Inv, TypeOK
  <2> QED BY <2>1, <2>2 DEF Contents
<1>3. Abstract!Next \/ UNCHANGED <<Contents, got>>
  BY <1>1, <1>2, PutCommitPuts, GetCommitGets, ClearFrontStutters, ClearRearClears,
     ClearLenghtStutters
  DEF Step
<1> QED BY <1>3 DEF Abstract!vars

LEMMA StutterRefines ==
  ASSUME UNCHANGED vars
  PROVE  UNCHANGED Abstract!vars
BY DEF vars, Contents, Abstract!vars

LEMMA NextRefines ==
  ASSUME Roles, Inv, [Next]_vars
  PROVE  [Abstract!Next]_(Abstract!vars)
BY StepRefines, StutterRefines, RolesUndisturbed DEF Next

LEMMA InitRefines ==
  ASSUME Init
  PROVE  Abstract!Init
<1>1. lenght = 0 /\ \A c \in Context : pc[c] = "idle" BY DEF Init
<1>2. Contents = [i \in 1 .. 0 |-> data[At(rear, i)]] BY <1>1 DEF Contents
<1>3. Contents = <<>> BY <1>2
<1> QED BY <1>3 DEF Init, Abstract!Init

(* In the Roles queue.c is a FIFO of whole batches, although a caller counts  *)
(* the room or the data before interrupts are off, an interrupt handler may   *)
(* run in between, and a clear is three stores: for every capacity and batch. *)
THEOREM BulkQueueIsAFifo == ASSUME Roles PROVE Spec => ImplementsFifo
BY InitRefines, InitInv, NextInv, NextRefines, PTL DEF Spec, ImplementsFifo, Abstract!Spec

-----------------------------------------------------------------------------
(* Any users in any roles *)

SharedInv == ~clashed => Inv /\ ~Clash

LEMMA SharedInitInv ==
  ASSUME SharedInit
  PROVE  SharedInv
<1>1. Inv BY InitInv DEF SharedInit
<1>2. ~Clash BY DEF SharedInit, Init, Clash
<1> QED BY <1>1, <1>2 DEF SharedInv

LEMMA SharedNextInv ==
  ASSUME SharedInv, [SharedNext]_sharedVars
  PROVE  SharedInv' /\ (clashed' \/ [Abstract!Next]_(Abstract!vars))
<1>1. CASE clashed'
  BY <1>1 DEF SharedInv
<1>2. CASE ~clashed' /\ SharedNext
  <2>1. ~clashed /\ ~Clash' /\ Next BY <1>2, Zenon DEF SharedNext
  <2>2. Inv /\ ~Clash BY <2>1 DEF SharedInv
  <2>3. PICK c \in Context : Step(c) BY <2>1 DEF Next
  <2>4. Undisturbed(c) BY <2>2, ApartUndisturbed
  <2> QED BY <2>1, <2>2, <2>3, <2>4, StepInv, StepRefines DEF SharedInv
<1>3. CASE ~clashed' /\ UNCHANGED sharedVars
  <2>1. clashed' = clashed /\ UNCHANGED vars /\ pc' = pc BY <1>3 DEF sharedVars, vars
  <2>2. ~clashed BY <2>1, <1>3, Zenon
  <2>3. Inv /\ ~Clash BY <2>2 DEF SharedInv
  <2>4. ~Clash' BY <2>1, <2>3 DEF Clash
  <2> QED BY <2>1, <2>3, <2>4, StutterInv, StutterRefines DEF SharedInv
<1> QED BY <1>1, <1>2, <1>3

(* Whoever puts, gets and clears, at any priorities: front, rear and lenght  *)
(* only go apart after two puts, two gets, or a clear and another call have  *)
(* overlapped (queue.c:48, queue.h:126).                                     *)
THEOREM HarmNeedsOverlapHolds == SharedSpec => []HarmNeedsOverlap
<1>1. SharedInit => SharedInv BY SharedInitInv
<1>2. SharedInv /\ [SharedNext]_sharedVars => SharedInv' BY SharedNextInv
<1>3. Inv => IndicesAgree BY AgreeIs DEF Inv, IndicesAgree, Clearing
<1>4. SharedInv => HarmNeedsOverlap BY <1>3 DEF SharedInv, HarmNeedsOverlap
<1> QED BY <1>1, <1>2, <1>4, PTL DEF SharedSpec

(* Until then the queue is the FIFO of whole batches for all of them, not    *)
(* only in the Roles.                                                        *)
THEOREM SharedBulkIsAFifoUntilClash == SharedSpec => FifoUntilClash
<1>1. SharedInit => SharedInv /\ Abstract!Init BY SharedInitInv, InitRefines DEF SharedInit
<1>2. SharedInv /\ [SharedNext]_sharedVars =>
        SharedInv' /\ [clashed' \/ [Abstract!Next]_(Abstract!vars)]_sharedVars
  BY SharedNextInv
<1> QED BY <1>1, <1>2, PTL DEF SharedSpec, FifoUntilClash
=============================================================================
