---------------------------- MODULE Flash_proofs ----------------------------
(***************************************************************************)
(* What is proved of W25Flash.tla and Sst25Flash.tla, for every size of    *)
(* memory, sector and page, and every write that fits: as long as the      *)
(* processor does not restart while the chip works, the W25Qxx driver      *)
(* programs erased cells only, stays in the page, and implements           *)
(* FlashMemory.                                                            *)
(*                                                                         *)
(* Inv says what holds at each place of the driver: the chip works only    *)
(* where the driver waits for it, the latch is set when an erase command   *)
(* is sent, and the cells still to be programmed are erased.  Copies adds  *)
(* what the driver knows of the memory: the sector it has read, the page   *)
(* it has programmed.                                                      *)
(*                                                                         *)
(* The SST25VF driver reads more than its buffer holds, and its chip stores*)
(* the first byte of a series only.  SInv says what the cells a transfer   *)
(* reaches would hold if every byte still to come were stored: at every    *)
(* step what the caller expects, or the erased byte where one was ignored; *)
(* and that the latch is set where a sector's first byte is programmed.    *)
(***************************************************************************)
EXTENDS Sst25Flash, Integers, SequenceTheorems, TLAPS

\* Bytes to be written that lie in the memory.
Piece(w) ==
  /\ w \in [addr : Nat, data : Seq(Byte)]
  /\ Len(w.data) > 0
  /\ w.addr + Len(w.data) <= Size

Page(n) == [addr |-> prog.addr, data |-> SubSeq(prog.data, 1, n)]

TypeOK ==
  /\ cells \in [Address -> Byte] /\ wel \in BOOLEAN
  /\ pc \in {"idle", "read", "enable", "erase", "erased", "program", "programmed"}
  /\ job = Nothing \/ Piece(job)
  /\ prog = Nothing \/ Piece(prog)
  /\ target \subseteq Address
  /\ buf \in [1 .. SectorSize -> Byte]

ErasedIn(set) == \A x \in set : cells[x] = Erased

\* What is left of prog after the page being programmed.
Rest == {x \in F!Range(prog) : x >= prog.addr + PageRemain}

Places ==
  /\ pc \in {"idle", "read", "enable", "erase"} => busy = Idle
  /\ pc = "idle" => job = Nothing
  /\ pc = "read" => job # Nothing
  /\ pc \in {"enable", "erase", "erased"} /\ job # Nothing => target = F!InSector(Sector)
  /\ pc = "erase" => wel
  /\ pc = "erased" =>
       \/ busy = Idle /\ ErasedIn(target)
       \/ busy = [op |-> "erase", area |-> target]
  /\ pc = "program" => busy = Idle /\ prog # Nothing /\ ErasedIn(F!Range(prog))
  /\ pc = "programmed" =>
       /\ prog # Nothing /\ ErasedIn(Rest)
       /\ \/ busy = Idle
          \/ busy = [op |-> "program", page |-> Page(PageRemain)] /\ ErasedIn(F!Range(busy.page))

Inv == TypeOK /\ Places

-----------------------------------------------------------------------------
(* Division *)

LEMMA Division ==
  ASSUME NEW a \in Nat, NEW k \in Nat \ {0}
  PROVE  a = k * (a \div k) + (a % k) /\ a % k \in 0 .. k - 1 /\ a \div k \in Nat
OBVIOUS

(* A multiple below another is below it by the factor at least.              *)
LEMMA NextMultiple ==
  ASSUME NEW k \in Nat \ {0}, NEW q \in Int, NEW p \in Int, q < p
  PROVE  k * q + k <= k * p
<1>1. k * (q + 1) = k * q + k OBVIOUS
<1>2. k * (q + 1) <= k * p BY SMTT(20)
<1> QED BY <1>1, <1>2

LEMMA Quotient ==
  ASSUME NEW k \in Nat \ {0}, NEW q \in Nat, NEW r \in 0 .. k - 1
  PROVE  (k * q + r) \div k = q
<1> DEFINE a == k * q + r
           p == a \div k
<1>0. k * q \in Nat OBVIOUS
<1>1. a \in Nat BY <1>0
<1>2. a = k * p + (a % k) /\ a % k \in 0 .. k - 1 /\ p \in Nat BY <1>1, Division
<1>3. ~(p < q) BY <1>2, NextMultiple
<1>4. ~(q < p) BY <1>2, NextMultiple
<1> QED BY <1>2, <1>3, <1>4

(* Addresses from a on, as many as there is room to the next multiple of k,  *)
(* have the same quotient.                                                   *)
LEMMA SameQuotient ==
  ASSUME NEW k \in Nat \ {0}, NEW a \in Nat, NEW x \in a .. a + (k - (a % k)) - 1
  PROVE  x \div k = a \div k
<1> DEFINE q == a \div k
<1>1. a = k * q + (a % k) /\ a % k \in 0 .. k - 1 /\ q \in Nat BY Division
<1>2. k * q \in Nat BY <1>1
<1>3. PICK r \in 0 .. k - 1 : x = k * q + r
  <2>1. x - k * q \in 0 .. k - 1 BY <1>1, <1>2
  <2> QED BY <2>1, <1>2
<1> QED BY <1>1, <1>3, Quotient

(* Multiples of k that are below a multiple of k have room for k more.       *)
LEMMA WholeBelow ==
  ASSUME NEW k \in Nat \ {0}, NEW n \in Nat, n % k = 0, NEW a \in 0 .. n - 1
  PROVE  /\ a - (a % k) \in Nat
         /\ (a - (a % k)) + k <= n
         /\ (a - (a % k)) % k = 0
         /\ (a - (a % k)) \div k = a \div k
<1> DEFINE q == a \div k
           p == n \div k
<1>0. a \in Nat OBVIOUS
<1>1. a = k * q + (a % k) /\ a % k \in 0 .. k - 1 /\ q \in Nat BY <1>0, Division
<1>2. n = k * p + (n % k) /\ p \in Nat BY Division
<1>3. k * q \in Nat /\ k * p \in Nat BY <1>1, <1>2
<1>4. q < p
  <2>1. SUFFICES ASSUME ~(q < p) PROVE FALSE OBVIOUS
  <2>2. CASE p = q BY <2>2, <1>1, <1>2, <1>3
  <2>3. CASE p < q
    <3>1. k * p + k <= k * q BY <2>3, <1>1, <1>2, NextMultiple
    <3> QED BY <3>1, <1>1, <1>2, <1>3
  <2> QED BY <2>1, <2>2, <2>3, <1>1, <1>2
<1>5. k * q + k <= k * p BY <1>4, <1>1, <1>2, NextMultiple
<1>6. a - (a % k) = k * q BY <1>1, <1>3
<1>7. (k * q + 0) \div k = q BY <1>1, Quotient
<1>8. (k * q) \div k = q BY <1>7, <1>3
<1>9. k * q = k * ((k * q) \div k) + ((k * q) % k) /\ (k * q) % k \in 0 .. k - 1 BY <1>3, Division
<1>10. (k * q) % k = 0 BY <1>8, <1>9, <1>3
<1> QED BY <1>2, <1>3, <1>5, <1>6, <1>8, <1>10
-----------------------------------------------------------------------------
(* Pieces *)

(* A piece lies in the memory.                                               *)
LEMMA PieceInMemory ==
  ASSUME NEW w, Piece(w)
  PROVE  /\ w.addr \in Address
         /\ F!Range(w) = w.addr .. w.addr + Len(w.data) - 1
         /\ F!Range(w) \subseteq Address
BY FlashAssumption DEF Piece, F!Range, Address, F!Address

LEMMA NothingIsEmpty == F!Range(Nothing) = {} /\ Nothing.data = <<>> /\ Nothing.addr = 0 /\ ~Piece(Nothing)
BY DEF F!Range, Nothing, F!Nothing, Piece

(* What is left of a piece after n bytes is a piece that begins n further on.*)
LEMMA WithoutPiece ==
  ASSUME NEW w, Piece(w), NEW n \in 1 .. Len(w.data)
  PROVE  /\ n = Len(w.data) => F!Without(w, n) = Nothing
         /\ n < Len(w.data) =>
              /\ Piece(F!Without(w, n))
              /\ F!Without(w, n) # Nothing
              /\ F!Range(F!Without(w, n)) = w.addr + n .. w.addr + Len(w.data) - 1
<1> DEFINE rest == SubSeq(w.data, n + 1, Len(w.data))
<1>1. w.addr \in Nat /\ w.data \in Seq(Byte) /\ Len(w.data) \in Nat BY DEF Piece
<1>2. \A i \in n + 1 .. Len(w.data) : w.data[i] \in Byte BY <1>1, ElementOfSeq
<1>3. rest \in Seq(Byte) /\ (n < Len(w.data) => Len(rest) = Len(w.data) - n)
  <2>1. n + 1 \in Int /\ Len(w.data) \in Int BY <1>1
  <2>2. /\ rest \in Seq(Byte)
        /\ Len(rest) = IF n + 1 <= Len(w.data) THEN Len(w.data) - (n + 1) + 1 ELSE 0
    BY <1>2, <2>1, SubSeqProperties
  <2> QED BY <2>2, <1>1
<1>4. CASE n = Len(w.data)
  BY <1>4, <1>1 DEF F!Without, Nothing, F!Nothing
<1>5. CASE n < Len(w.data)
  <2>1. F!Without(w, n) = [addr |-> w.addr + n, data |-> rest] BY <1>5, <1>1 DEF F!Without
  <2>2. Piece(F!Without(w, n)) BY <2>1, <1>1, <1>3, <1>5 DEF Piece
  <2>3. F!Without(w, n).addr = w.addr + n /\ F!Without(w, n).data = rest BY <2>1
  <2>4. F!Without(w, n) # Nothing BY <2>2, NothingIsEmpty
  <2>5. F!Range(F!Without(w, n)) = w.addr + n .. w.addr + Len(w.data) - 1
    <3>1. w.addr + n + (Len(w.data) - n) - 1 = w.addr + Len(w.data) - 1 BY <1>1
    <3> QED BY <2>3, <1>3, <1>5, <3>1 DEF F!Range
  <2> QED BY <2>2, <2>4, <2>5, <1>5, <1>1
<1> QED BY <1>4, <1>5, <1>1

(* A page program stays in the piece and in the page.                        *)
LEMMA PageRemainFits ==
  ASSUME Piece(prog)
  PROVE  /\ PageRemain \in 1 .. Len(prog.data)
         /\ PageRemain <= PageSize - (prog.addr % PageSize)
<1>1. prog.addr \in Nat /\ Len(prog.data) \in Nat \ {0} BY DEF Piece
<1>2. prog.addr % PageSize \in 0 .. PageSize - 1 BY <1>1, FlashAssumption, Division
<1>3. PageSize \in Nat BY FlashAssumption
<1> QED BY <1>1, <1>2, <1>3 DEF PageRemain, PageRoom

(* A page's bytes are the first of the piece.                                *)
LEMMA PageInPiece ==
  ASSUME Piece(prog)
  PROVE  /\ F!Range(Page(PageRemain)) = prog.addr .. prog.addr + PageRemain - 1
         /\ F!Range(Page(PageRemain)) \subseteq F!Range(prog)
         /\ \A i \in 1 .. PageRemain : Page(PageRemain).data[i] = prog.data[i]
<1>1. prog.addr \in Nat /\ prog.data \in Seq(Byte) /\ Len(prog.data) \in Nat BY DEF Piece
<1>2. PageRemain \in 1 .. Len(prog.data) BY PageRemainFits
<1>3. \A i \in 1 .. PageRemain : prog.data[i] \in Byte BY <1>1, <1>2, ElementOfSeq
<1>4. PageRemain \in Int /\ 1 \in Int BY <1>1, <1>2
<1>5. /\ Len(SubSeq(prog.data, 1, PageRemain)) =
            IF 1 <= PageRemain THEN PageRemain - 1 + 1 ELSE 0
      /\ \A i \in 1 .. PageRemain - 1 + 1 : SubSeq(prog.data, 1, PageRemain)[i] = prog.data[1 + i - 1]
  BY <1>3, <1>4, SubSeqProperties
<1>6. Page(PageRemain).addr = prog.addr /\ Page(PageRemain).data = SubSeq(prog.data, 1, PageRemain)
  BY DEF Page
<1>7. Len(Page(PageRemain).data) = PageRemain BY <1>2, <1>5, <1>6
<1>8. \A i \in 1 .. PageRemain : Page(PageRemain).data[i] = prog.data[i]
  BY <1>1, <1>2, <1>5, <1>6
<1> QED BY <1>1, <1>2, <1>6, <1>7, <1>8 DEF F!Range

(* With no write under way there is nothing to do after it.                  *)
LEMMA NothingShare ==
  job = Nothing => F!Without(job, Len(Share.data)) = Nothing
<1> SUFFICES ASSUME job = Nothing PROVE F!Without(job, Len(Share.data)) = Nothing OBVIOUS
<1>1. Len(job.data) = 0 /\ job.addr = 0 BY NothingIsEmpty
<1>2. 0 % SectorSize \in 0 .. SectorSize - 1 BY FlashAssumption, Division
<1>3. Len(job.data) <= SectorSize - (job.addr % SectorSize) BY <1>1, <1>2, FlashAssumption
<1>4. Share = job BY <1>3 DEF Share, F!Share
<1> QED BY <1>4, <1>1 DEF F!Without, Nothing

(* The share of a sector: it begins where the write does, and ends with the  *)
(* sector at the latest.                                                     *)
LEMMA ShareFits ==
  ASSUME Piece(job)
  PROVE  /\ Piece(Share)
         /\ Share.addr = job.addr
         /\ Len(Share.data) \in 1 .. Len(job.data)
         /\ Offset \in 0 .. SectorSize - 1
         /\ Offset + Len(Share.data) <= SectorSize
         /\ Share # Nothing
<1> DEFINE room == SectorSize - (job.addr % SectorSize)
<1>1. /\ job.addr \in Nat /\ job.data \in Seq(Byte) /\ Len(job.data) \in Nat \ {0}
      /\ job.addr + Len(job.data) <= Size
  BY DEF Piece
<1>2. job.addr % SectorSize \in 0 .. SectorSize - 1 BY <1>1, FlashAssumption, Division
<1>3. room \in 1 .. SectorSize /\ SectorSize \in Nat BY <1>2, FlashAssumption
<1>4. CASE Len(job.data) <= room
  <2>1. Share = job BY <1>4 DEF Share, F!Share
  <2> QED BY <2>1, <1>1, <1>2, <1>3, <1>4, NothingIsEmpty DEF Offset
<1>5. CASE ~(Len(job.data) <= room)
  <2>1. Share = [addr |-> job.addr, data |-> SubSeq(job.data, 1, room)] BY <1>5 DEF Share, F!Share
  <2>2. \A i \in 1 .. room : job.data[i] \in Byte BY <1>1, <1>3, <1>5, ElementOfSeq
  <2>3. SubSeq(job.data, 1, room) \in Seq(Byte) /\ Len(SubSeq(job.data, 1, room)) = room
    <3>1. 1 \in Int /\ room \in Int BY <1>3
    <3>2. /\ SubSeq(job.data, 1, room) \in Seq(Byte)
          /\ Len(SubSeq(job.data, 1, room)) = IF 1 <= room THEN room - 1 + 1 ELSE 0
      BY <2>2, <3>1, SubSeqProperties
    <3> QED BY <3>2, <1>3
  <2>4. Share.addr = job.addr /\ Share.data = SubSeq(job.data, 1, room) /\ Len(Share.data) = room
    BY <2>1, <2>3
  <2>5. Share \in [addr : Nat, data : Seq(Byte)] BY <2>1, <2>3, <1>1
  <2>6. Piece(Share)
    <3>1. job.addr + room <= Size BY <1>1, <1>3, <1>5, FlashAssumption
    <3> QED BY <2>4, <2>5, <3>1, <1>3 DEF Piece
  <2>7. Offset + room = SectorSize BY <1>2, <1>3 DEF Offset
  <2>8. room \in 1 .. Len(job.data) BY <1>1, <1>3, <1>5
  <2>9. Share # Nothing BY <2>6, NothingIsEmpty
  <2>10. Offset \in 0 .. SectorSize - 1 BY <1>2 DEF Offset
  <2> HIDE DEF room
  <2> QED BY <2>4, <2>6, <2>7, <2>8, <2>9, <2>10, <1>3
<1> QED BY <1>4, <1>5

(* The sector of a write.                                                    *)
LEMMA SectorFits ==
  ASSUME Piece(job)
  PROVE  /\ Sector \in Nat /\ Sector + SectorSize <= Size
         /\ Sector + Offset = job.addr
         /\ F!InSector(Sector) \subseteq Address
         /\ Sector .. Sector + SectorSize - 1 \subseteq F!InSector(Sector)
<1>1. job.addr \in 0 .. Size - 1 BY PieceInMemory DEF Address, F!Address
<1>2. SectorSize \in Nat \ {0} /\ Size \in Nat \ {0} /\ Size % SectorSize = 0 BY FlashAssumption
<1>3. /\ Sector \in Nat /\ Sector + SectorSize <= Size
      /\ Sector % SectorSize = 0
  BY <1>1, <1>2, WholeBelow DEF Sector, Offset
<1>4. ASSUME NEW x \in Sector .. Sector + SectorSize - 1
      PROVE  x \in F!InSector(Sector)
  <2>1. x \in Sector .. Sector + (SectorSize - (Sector % SectorSize)) - 1 BY <1>2, <1>3
  <2>2. x \div SectorSize = Sector \div SectorSize BY <2>1, <1>2, <1>3, SameQuotient
  <2>3. x \in Address BY <1>2, <1>3 DEF Address, F!Address
  <2> QED BY <2>2, <2>3 DEF F!InSector, Address
<1>5. Sector + Offset = job.addr
  <2>1. job.addr \in Nat BY <1>1
  <2>2. job.addr % SectorSize \in 0 .. SectorSize - 1 BY <2>1, <1>2, Division
  <2> QED BY <2>1, <2>2, <1>2 DEF Sector, Offset
<1> QED BY <1>3, <1>4, <1>5 DEF F!InSector, Address
-----------------------------------------------------------------------------
(* Every step keeps Inv. *)

LEMMA WritesArePieces ==
  ASSUME NEW w \in Writes
  PROVE  Piece(w)
<1>1. PICK n \in 1 .. MaxWrite : w.data \in [1 .. n -> Byte] BY DEF Writes
<1>2. n \in Nat /\ n > 0 BY FlashAssumption
<1>3. w.data \in Seq(Byte) BY <1>1, <1>2, SeqDef
<1>4. Len(w.data) = n BY <1>1, <1>2, <1>3, LenProperties
<1>5. w \in [addr : Nat, data : Seq(Byte)] /\ w.addr + Len(w.data) <= Size
  BY <1>3, FlashAssumption DEF Writes, Address, F!Address
<1> QED BY <1>2, <1>4, <1>5 DEF Piece

LEMMA InitInv == Init => Inv
<1> SUFFICES ASSUME Init PROVE Inv OBVIOUS
<1>1. [i \in 1 .. SectorSize |-> Erased] \in [1 .. SectorSize -> Byte] BY DEF Erased, Byte
<1>2. TypeOK BY <1>1 DEF Init, TypeOK, NoSector
<1>3. Places BY DEF Init, Places
<1> QED BY <1>2, <1>3 DEF Inv

LEMMA WriteInv ==
  ASSUME Inv, NEW w \in Writes, Write(w)
  PROVE  Inv'
<1>1. TypeOK' BY WritesArePieces DEF Inv, TypeOK, Write, chip
<1>2. Places' BY WritesArePieces, NothingIsEmpty DEF Inv, Places, Write, chip
<1> QED BY <1>1, <1>2 DEF Inv

LEMMA ReadSectorInv ==
  ASSUME Inv, ReadSector
  PROVE  Inv'
<1>1. pc = "read" /\ busy = Idle /\ Piece(job) BY DEF ReadSector, Inv, TypeOK, Places
<1>2. buf' = [i \in 1 .. SectorSize |-> cells[Sector + i - 1]] BY <1>1 DEF ReadSector
<1>3. \A i \in 1 .. SectorSize : Sector + i - 1 \in Address
  BY <1>1, SectorFits, FlashAssumption DEF Address, F!Address
<1>4. buf' \in [1 .. SectorSize -> Byte] BY <1>2, <1>3 DEF Inv, TypeOK
<1>5. CASE Clean(buf') /\ pc' = "program" /\ prog' = Share /\ UNCHANGED target
  <2>1. ASSUME NEW x \in F!Range(Share) PROVE cells[x] = Erased
    <3> DEFINE i == x - job.addr + 1
    <3>1. i \in 1 .. Len(Share.data) /\ x \in Int
      BY <1>1, ShareFits, PieceInMemory DEF Piece
    <3>2. Offset + i \in 1 .. SectorSize /\ Sector + (Offset + i) - 1 = x
      <4>1. /\ Offset \in Nat /\ Offset + Len(Share.data) <= SectorSize
            /\ Len(Share.data) \in Nat /\ job.addr \in Nat /\ Sector \in Nat
            /\ Sector + Offset = job.addr
        BY <1>1, ShareFits, SectorFits, FlashAssumption DEF Piece
      <4>2. SectorSize \in Nat BY FlashAssumption
      <4>3. i \in Nat /\ 1 <= i /\ i <= Len(Share.data) BY <3>1, <4>1
      <4>4. Sector + (Offset + i) - 1 = x BY <3>1, <4>1
      <4> HIDE DEF i
      <4>5. Offset + i \in 1 .. SectorSize BY <4>1, <4>2, <4>3
      <4> QED BY <4>4, <4>5
    <3>3. buf'[Offset + i] = Erased BY <3>1, <1>5 DEF Clean
    <3> QED BY <3>2, <3>3, <1>2
  <2>2. TypeOK' BY <1>1, <1>4, <1>5, ShareFits DEF Inv, TypeOK, ReadSector, chip
  <2>3. ErasedIn(F!Range(prog))' BY <2>1, <1>5 DEF ErasedIn, ReadSector, chip, F!Range
  <2>4. Places' BY <2>3, <1>1, <1>5, ShareFits DEF Places, ReadSector, chip
  <2> QED BY <2>2, <2>4 DEF Inv
<1>6. CASE ~Clean(buf') /\ pc' = "enable" /\ target' = F!InSector(Sector) /\ UNCHANGED prog
  <2>1. TypeOK' BY <1>1, <1>4, <1>6, SectorFits DEF Inv, TypeOK, ReadSector, chip
  <2>2. Places' BY <1>1, <1>6 DEF Places, ReadSector, chip, Sector, Offset
  <2> QED BY <2>1, <2>2 DEF Inv
<1> QED BY <1>5, <1>6 DEF ReadSector
LEMMA CallEraseInv ==
  ASSUME Inv, CallErase
  PROVE  Inv'
<1>1. target' \subseteq Address BY DEF CallErase, F!InSector, Address
<1>2. pc = "idle" /\ job' = job /\ busy' = Idle /\ job = Nothing /\ pc' = "enable"
  BY DEF CallErase, Inv, Places, chip
<1>3. TypeOK' BY <1>1 DEF Inv, TypeOK, CallErase, chip
<1>4. Places' BY <1>2 DEF Places
<1> QED BY <1>3, <1>4 DEF Inv

LEMMA WriteEnableInv ==
  ASSUME Inv, WriteEnable
  PROVE  Inv'
<1>1. TypeOK' BY DEF Inv, TypeOK, WriteEnable
<1>2. Places' BY DEF Inv, Places, WriteEnable, Sector, Offset
<1> QED BY <1>1, <1>2 DEF Inv

LEMMA EraseCommandInv ==
  ASSUME Inv, EraseCommand
  PROVE  Inv'
<1>1. TypeOK' BY DEF Inv, TypeOK, EraseCommand
<1>2. Places' BY DEF Inv, Places, EraseCommand, Sector, Offset
<1> QED BY <1>1, <1>2 DEF Inv

(* The buffer with the new bytes in it is the sector to be programmed.       *)
LEMMA MergedFits ==
  ASSUME TypeOK, Piece(job)
  PROVE  /\ Merged \in [1 .. SectorSize -> Byte]
         /\ Piece([addr |-> Sector, data |-> Merged])
         /\ F!Range([addr |-> Sector, data |-> Merged]) = Sector .. Sector + SectorSize - 1
<1> DEFINE w == [addr |-> Sector, data |-> Merged]
<1>1. SectorSize \in Nat \ {0} BY FlashAssumption
<1>2. ASSUME NEW i \in 1 .. SectorSize, i > Offset, i <= Offset + Len(Share.data)
      PROVE  Share.data[i - Offset] \in Byte
  <2>1. Share.data \in Seq(Byte) /\ Len(Share.data) \in Nat /\ Offset \in Nat
    BY <1>1, ShareFits DEF Piece
  <2>2. i - Offset \in 1 .. Len(Share.data) BY <1>2, <2>1
  <2> QED BY <2>1, <2>2, ElementOfSeq
<1>3. Merged \in [1 .. SectorSize -> Byte] BY <1>2 DEF Merged, TypeOK
<1>4. Merged \in Seq(Byte) /\ Len(Merged) = SectorSize BY <1>1, <1>3, SeqDef, LenProperties
<1>5. Sector \in Nat /\ Sector + SectorSize <= Size BY SectorFits
<1>6. w.addr = Sector /\ w.data = Merged /\ w \in [addr : Nat, data : Seq(Byte)] BY <1>4, <1>5
<1> HIDE DEF w
<1>7. Piece(w) BY <1>1, <1>4, <1>5, <1>6 DEF Piece
<1>8. F!Range(w) = Sector .. Sector + SectorSize - 1 BY <1>4, <1>6 DEF F!Range
<1> QED BY <1>3, <1>7, <1>8 DEF w

LEMMA ErasureInv ==
  ASSUME Inv, Erasure
  PROVE  Inv'
<1>1. pc = "erased" /\ busy = Idle /\ target' = {} /\ cells' = cells /\ wel' = wel /\ busy' = busy /\ job' = job
  BY DEF Erasure, chip
<1>2. ErasedIn(target) BY <1>1 DEF Inv, Places, Idle
<1>3. CASE job = Nothing /\ pc' = "idle" /\ UNCHANGED <<buf, prog>>
  <2>1. TypeOK' BY <1>1, <1>3 DEF Inv, TypeOK
  <2>2. Places' BY <1>1, <1>3 DEF Places
  <2> QED BY <2>1, <2>2 DEF Inv
<1>4. CASE /\ job # Nothing /\ buf' = Merged
           /\ pc' = "program" /\ prog' = [addr |-> Sector, data |-> Merged]
  <2>1. Piece(job) BY <1>4 DEF Inv, TypeOK
  <2>2. TypeOK' BY <1>1, <1>4, <2>1, MergedFits DEF Inv, TypeOK
  <2>3. target = F!InSector(Sector) BY <1>1, <1>4 DEF Inv, Places
  <2>4. F!Range(prog') \subseteq target BY <2>1, <2>3, <1>4, MergedFits, SectorFits DEF Inv
  <2>5. \A x \in F!Range(prog') : cells'[x] = Erased BY <2>4, <1>1, <1>2 DEF ErasedIn
  <2>6. ErasedIn(F!Range(prog))' BY <2>5 DEF ErasedIn
  <2>7. prog' # Nothing BY <2>1, <1>4, MergedFits, NothingIsEmpty DEF Inv
  <2>8. Places' BY <1>1, <1>4, <2>6, <2>7 DEF Places
  <2> QED BY <2>2, <2>8 DEF Inv
<1> QED BY <1>3, <1>4 DEF Erasure

LEMMA WritePageInv ==
  ASSUME Inv, WritePage
  PROVE  Inv'
<1>1. /\ pc = "program" /\ busy = Idle /\ prog # Nothing /\ Piece(prog)
      /\ ErasedIn(F!Range(prog))
  BY DEF WritePage, Inv, TypeOK, Places
<1>2. /\ busy' = [op |-> "program", page |-> Page(PageRemain)] /\ pc' = "programmed"
      /\ cells' = cells /\ prog' = prog /\ wel' = FALSE
      /\ job' = job /\ target' = target /\ buf' = buf
  BY <1>1 DEF WritePage, Page
<1>3. TypeOK' BY <1>2 DEF Inv, TypeOK
<1>4. Page(PageRemain)' = Page(PageRemain) BY <1>2 DEF Page, PageRemain, PageRoom
<1>5. F!Range(Page(PageRemain)) \subseteq F!Range(prog) BY <1>1, PageInPiece
<1>6. ErasedIn(F!Range(busy.page))' BY <1>1, <1>2, <1>5 DEF ErasedIn
<1>7. ErasedIn(Rest)' BY <1>1, <1>2 DEF ErasedIn, Rest
<1>8. Places' BY <1>1, <1>2, <1>4, <1>6, <1>7 DEF Places
<1> QED BY <1>3, <1>8 DEF Inv

LEMMA PageWrittenInv ==
  ASSUME Inv, PageWritten
  PROVE  Inv'
<1>1. pc = "programmed" /\ busy = Idle /\ ErasedIn(Rest) /\ Piece(prog)
  BY DEF PageWritten, Inv, TypeOK, Places
<1>2. cells' = cells /\ wel' = wel /\ busy' = busy /\ target' = target
  BY DEF PageWritten, chip
<1>3. PageRemain \in 1 .. Len(prog.data) BY <1>1, PageRemainFits
<1> DEFINE rest == F!Without(prog, PageRemain)
           jobs == F!Without(job, Len(Share.data))
<1>4. CASE rest # Nothing /\ pc' = "program" /\ prog' = rest /\ UNCHANGED <<job, buf>>
  <2>1. /\ Piece(rest)
        /\ F!Range(rest) = prog.addr + PageRemain .. prog.addr + Len(prog.data) - 1
    BY <1>1, <1>3, <1>4, WithoutPiece
  <2>2. F!Range(rest) \subseteq Rest
    BY <2>1, <1>1, <1>3, PieceInMemory DEF Rest, Piece
  <2>3. \A x \in F!Range(prog') : cells'[x] = Erased BY <2>2, <1>1, <1>2, <1>4 DEF ErasedIn
  <2>4. ErasedIn(F!Range(prog))' BY <2>3 DEF ErasedIn
  <2>5. TypeOK' BY <2>1, <1>2, <1>4 DEF Inv, TypeOK
  <2>6. Places' BY <2>4, <1>1, <1>2, <1>4 DEF Places
  <2> QED BY <2>5, <2>6 DEF Inv
<1>5. CASE /\ prog' = Nothing /\ buf' = NoSector /\ job' = jobs
           /\ pc' = IF jobs = Nothing THEN "idle" ELSE "read"
  <2>1. buf' \in [1 .. SectorSize -> Byte] BY <1>5 DEF NoSector, Erased, Byte
  <2>2. job' = Nothing \/ Piece(job')
    <3>1. CASE job = Nothing BY <3>1, <1>5, NothingShare
    <3>2. CASE Piece(job)
      <4>1. Len(Share.data) \in 1 .. Len(job.data) /\ Len(job.data) \in Nat
        BY <3>2, ShareFits DEF Piece
      <4>2. Len(Share.data) = Len(job.data) \/ Len(Share.data) < Len(job.data) BY <4>1
      <4> QED BY <4>1, <4>2, <3>2, <1>5, WithoutPiece
    <3> QED BY <3>1, <3>2 DEF Inv, TypeOK
  <2>3. TypeOK' BY <2>1, <2>2, <1>2, <1>5 DEF Inv, TypeOK
  <2>4. Places' BY <1>1, <1>2, <1>5 DEF Places
  <2> QED BY <2>3, <2>4 DEF Inv
<1> QED BY <1>4, <1>5 DEF PageWritten

LEMMA FinishInv ==
  ASSUME Inv, Finish
  PROVE  Inv'
<1>1. /\ busy # Idle /\ cells' = Worked /\ busy' = Idle
      /\ wel' = wel /\ pc' = pc /\ job' = job /\ target' = target /\ buf' = buf /\ prog' = prog
  BY DEF Finish
<1>2. CASE pc = "erased" /\ busy = [op |-> "erase", area |-> target]
  <2>1. cells' = [x \in Address |-> IF x \in target THEN Erased ELSE cells[x]]
    BY <1>1, <1>2 DEF Worked
  <2>2. TypeOK' BY <2>1, <1>1 DEF Inv, TypeOK, Erased, Byte
  <2>3. \A x \in target' : cells'[x] = Erased BY <2>1, <1>1 DEF Inv, TypeOK
  <2>4. ErasedIn(target)' BY <2>3 DEF ErasedIn
  <2>5. Places' BY <2>4, <1>1, <1>2 DEF Inv, Places, Sector, Offset
  <2> QED BY <2>2, <2>5 DEF Inv
<1>3. CASE /\ pc = "programmed" /\ Piece(prog) /\ ErasedIn(Rest)
           /\ busy = [op |-> "program", page |-> Page(PageRemain)]
  <2> DEFINE page == Page(PageRemain)
  <2>1. /\ cells' = [x \in Address |->
                       IF x \in F!Range(page) THEN cells[x] \cup page.data[x - page.addr + 1]
                       ELSE cells[x]]
        /\ page.addr = prog.addr
    BY <1>1, <1>3 DEF Worked, Page
  <2>2. ASSUME NEW x \in F!Range(page) PROVE page.data[x - page.addr + 1] \in Byte
    <3>1. prog.addr \in Nat /\ prog.data \in Seq(Byte) /\ PageRemain \in 1 .. Len(prog.data) /\ Len(prog.data) \in Nat
      BY <1>3, PageRemainFits DEF Piece
    <3>2. x \in prog.addr .. prog.addr + PageRemain - 1 BY <1>3, PageInPiece
    <3>3. x - page.addr + 1 \in 1 .. PageRemain BY <2>1, <3>1, <3>2
    <3>4. page.data[x - page.addr + 1] = prog.data[x - page.addr + 1] BY <1>3, <3>3, PageInPiece
    <3>5. x - page.addr + 1 \in 1 .. Len(prog.data) BY <3>1, <3>3
    <3> QED BY <3>1, <3>4, <3>5, ElementOfSeq
  <2>3. cells' \in [Address -> Byte] BY <2>1, <2>2 DEF Inv, TypeOK, Byte
  <2>4. TypeOK' BY <2>3, <1>1 DEF Inv, TypeOK
  <2>5. ASSUME NEW x \in Rest PROVE cells'[x] = Erased
    <3>1. x \in Address /\ x >= prog.addr + PageRemain
      BY <1>3, PieceInMemory DEF Rest
    <3>2. prog.addr \in Nat /\ PageRemain \in Nat /\ x \in Int
      BY <3>1, <1>3, PageRemainFits DEF Piece, Address, F!Address
    <3>3. x \notin F!Range(page) BY <3>1, <3>2, <1>3, PageInPiece
    <3> QED BY <3>1, <3>3, <2>1, <2>5, <1>3 DEF ErasedIn
  <2>6. Rest' = Rest BY <1>1 DEF Rest, PageRemain, PageRoom
  <2>7. ErasedIn(Rest)' BY <2>5, <2>6 DEF ErasedIn
  <2>8. Places' BY <2>7, <1>1, <1>3 DEF Inv, Places
  <2> QED BY <2>4, <2>8 DEF Inv
<1>4. \/ pc = "erased" /\ busy = [op |-> "erase", area |-> target]
      \/ /\ pc = "programmed" /\ Piece(prog) /\ ErasedIn(Rest)
         /\ busy = [op |-> "program", page |-> Page(PageRemain)]
  BY <1>1 DEF Inv, TypeOK, Places
<1> QED BY <1>2, <1>3, <1>4

LEMMA PowerLossInv ==
  ASSUME Inv, PowerLoss
  PROVE  Inv'
<1>1. cells' \in [Address -> Byte] BY DEF Inv, TypeOK, PowerLoss
<1>2. NoSector \in [1 .. SectorSize -> Byte] BY DEF NoSector, Erased, Byte
<1>3. TypeOK' BY <1>1, <1>2 DEF TypeOK, PowerLoss, Restart
<1>4. Places' BY DEF Places, PowerLoss, Restart
<1> QED BY <1>3, <1>4 DEF Inv

LEMMA NextInv ==
  ASSUME ~McuResets, Inv, [Next]_vars
  PROVE  Inv'
<1>1. CASE \E w \in Writes : Write(w) BY <1>1, WriteInv
<1>2. CASE CallErase BY <1>2, CallEraseInv
<1>3. CASE Driver
  BY <1>3, ReadSectorInv, WriteEnableInv, EraseCommandInv, ErasureInv, WritePageInv,
     PageWrittenInv DEF Driver
<1>4. CASE Finish BY <1>4, FinishInv
<1>5. CASE PowerLoss BY <1>5, PowerLossInv
<1>6. CASE McuReset BY <1>6 DEF McuReset
<1>7. CASE UNCHANGED vars
  <2>1. TypeOK' BY <1>7 DEF Inv, TypeOK, vars
  <2>2. Places'
    BY <1>7 DEF Inv, Places, vars, Sector, Offset, Rest, PageRemain, PageRoom, Page, ErasedIn
  <2> QED BY <2>1, <2>2 DEF Inv
<1> QED BY <1>1, <1>2, <1>3, <1>4, <1>5, <1>6, <1>7 DEF Next

(* What the driver knows about the chip at each of its steps is true, power  *)
(* loss included, as long as the processor does not restart alone.           *)
THEOREM InvHolds ==
  ASSUME ~McuResets
  PROVE  Spec => []Inv
<1>1. Init => Inv BY InitInv
<1>2. Inv /\ [Next]_vars => Inv' BY NextInv
<1> QED BY <1>1, <1>2, PTL DEF Spec

-----------------------------------------------------------------------------
(* The bytes of a page program, while the chip works on it.                  *)
LEMMA BusyPage ==
  ASSUME Inv, busy # Idle, busy.op = "program"
  PROVE  /\ Piece(prog) /\ busy.page = Page(PageRemain)
         /\ ErasedIn(F!Range(busy.page))
<1>1. pc = "programmed" BY DEF Inv, TypeOK, Places
<1> QED BY <1>1 DEF Inv, TypeOK, Places

(* W25QXX_Write and W25QXX_Write_NoCheck program no cell that is not erased, *)
(* whatever is written where, whatever the memory held (w25qxx.c:206).       *)
THEOREM ProgramsErasedCellsHolds ==
  ASSUME ~McuResets
  PROVE  Spec => []ProgramsErasedCells
<1>1. Inv => ProgramsErasedCells BY BusyPage DEF ProgramsErasedCells, ErasedIn
<1> QED BY <1>1, InvHolds, PTL

(* No page program runs over the end of its page (w25qxx.c:187).             *)
THEOREM StaysInPageHolds ==
  ASSUME ~McuResets
  PROVE  Spec => []StaysInPage
<1>1. ASSUME Inv, busy # Idle, busy.op = "program",
             NEW x \in F!Range(busy.page)
      PROVE  x \div PageSize = prog.addr \div PageSize
  <2>1. Piece(prog) /\ x \in prog.addr .. prog.addr + PageRemain - 1 BY <1>1, BusyPage, PageInPiece
  <2>2. prog.addr \in Nat /\ PageSize \in Nat \ {0} BY <2>1, FlashAssumption DEF Piece
  <2>3. PageRemain <= PageSize - (prog.addr % PageSize) /\ PageRemain \in Nat
    BY <2>1, PageRemainFits DEF Piece
  <2>4. prog.addr % PageSize \in 0 .. PageSize - 1 BY <2>2, Division
  <2>5. x \in prog.addr .. prog.addr + (PageSize - (prog.addr % PageSize)) - 1
    BY <2>1, <2>2, <2>3, <2>4
  <2> QED BY <2>2, <2>5, SameQuotient
<1>2. Inv => StaysInPage BY <1>1 DEF StaysInPage
<1> QED BY <1>2, InvHolds, PTL

-----------------------------------------------------------------------------
(* W25Qxx: the memory                                                        *)

Copies ==
  /\ pc \notin {"program", "programmed"} => prog = Nothing
  /\ pc \in {"enable", "erase"} /\ job # Nothing =>
       buf = [i \in 1 .. SectorSize |-> cells[Sector + i - 1]]
  /\ pc \in {"enable", "erase"} /\ job = Nothing =>
       target = Address \/ \E a \in Address : target = F!InSector(a)
  /\ pc = "programmed" /\ busy = Idle =>
       \A x \in F!Range(Page(PageRemain)) : cells[x] = prog.data[x - prog.addr + 1]

\* The refinement mapping, by name.
Todo == IF Working /\ job # Nothing THEN F!Without(job, Len(Share.data)) ELSE job
Open == (IF pc = "erased" THEN target ELSE {}) \cup F!Range(prog)

-----------------------------------------------------------------------------
(* Memories *)

LEMMA StoredIs ==
  ASSUME NEW m \in [Address -> Byte], NEW w
  PROVE  F!Stored(m, w) =
           [x \in Address |-> IF x \in F!Range(w) THEN w.data[x - w.addr + 1] ELSE m[x]]
BY DEF F!Stored

\* A store hides what its cells held.
LEMMA SameStored ==
  ASSUME NEW m \in [Address -> Byte], NEW n \in [Address -> Byte], NEW w,
         \A x \in Address \ F!Range(w) : m[x] = n[x]
  PROVE  F!Stored(m, w) = F!Stored(n, w)
<1>1. ASSUME NEW x \in Address
      PROVE  (IF x \in F!Range(w) THEN w.data[x - w.addr + 1] ELSE m[x])
               = (IF x \in F!Range(w) THEN w.data[x - w.addr + 1] ELSE n[x])
  OBVIOUS
<1>2. /\ F!Stored(m, w) =
           [x \in Address |-> IF x \in F!Range(w) THEN w.data[x - w.addr + 1] ELSE m[x]]
      /\ F!Stored(n, w) =
           [x \in Address |-> IF x \in F!Range(w) THEN w.data[x - w.addr + 1] ELSE n[x]]
  BY StoredIs
<1> QED BY <1>1, <1>2

LEMMA StoredNothing ==
  ASSUME NEW m \in [Address -> Byte]
  PROVE  F!Stored(m, Nothing) = m
BY StoredIs, NothingIsEmpty

LEMMA ViewOfCells ==
  ASSUME TypeOK, pc # "erased", prog = Nothing
  PROVE  View = cells
BY StoredNothing DEF View, TypeOK

LEMMA ViewOfCellsNext ==
  TypeOK' /\ pc' # "erased" /\ prog' = Nothing => View' = cells'
<1>1. TypeOK /\ pc # "erased" /\ prog = Nothing => View = cells BY ViewOfCells
<1>2. (TypeOK /\ pc # "erased" /\ prog = Nothing => View = cells)' BY <1>1, PTL
<1> QED BY <1>2, NothingIsEmpty DEF Nothing, F!Nothing

(* A sector is the addresses from its first on, as many as it has.           *)
LEMMA SectorIs ==
  ASSUME Piece(job)
  PROVE  /\ F!InSector(Sector) = Sector .. Sector + SectorSize - 1
         /\ F!InSector(Sector) = F!InSector(job.addr)
<1>1. job.addr \in 0 .. Size - 1 BY PieceInMemory DEF Address, F!Address
<1>2. SectorSize \in Nat \ {0} /\ Size \in Nat \ {0} /\ Size % SectorSize = 0 BY FlashAssumption
<1>3. /\ Sector \in Nat /\ Sector % SectorSize = 0
      /\ Sector \div SectorSize = job.addr \div SectorSize
  BY <1>1, <1>2, WholeBelow DEF Sector, Offset
<1>4. ASSUME NEW x \in F!InSector(Sector)
      PROVE  x \in Sector .. Sector + SectorSize - 1
  <2> DEFINE q == Sector \div SectorSize
  <2>1. x \in Nat /\ x \div SectorSize = q BY FlashAssumption DEF F!InSector, F!Address
  <2>2. x = SectorSize * q + (x % SectorSize) /\ x % SectorSize \in 0 .. SectorSize - 1
    BY <2>1, <1>2, Division
  <2>3. Sector = SectorSize * q + (Sector % SectorSize) /\ q \in Nat BY <1>2, <1>3, Division
  <2>4. SectorSize * q \in Nat BY <2>3, <1>2
  <2> QED BY <2>1, <2>2, <2>3, <2>4, <1>2, <1>3
<1> QED BY <1>3, <1>4, SectorFits DEF F!InSector

-----------------------------------------------------------------------------
(* Steps of the memory *)

LEMMA StartStep ==
  ASSUME Todo = Nothing, Open = {}, View' = View, Open' = {},
         Todo' \in [addr : Address, data : Seq(Byte) \ {<<>>}]
  PROVE  Memory!Next
BY DEF Memory!Next, Memory!Start, Todo, Open, Nothing, F!Nothing, Memory!Nothing,
       Address, F!Address, Memory!Address

LEMMA PieceStep ==
  ASSUME Todo # Nothing, Open = {},
         View' = F!Stored(View, F!Share(Todo)),
         Todo' = F!Without(Todo, Len(F!Share(Todo).data)),
         \/ Open' = F!InSector(Todo.addr)
         \/ Open' = F!Range(F!Share(Todo)) /\ \A x \in F!Range(F!Share(Todo)) : View[x] = Erased
  PROVE  Memory!Next
BY DEF Memory!Next, Memory!Piece, Todo, Open, Nothing, F!Nothing, Memory!Nothing,
       F!Stored, Memory!Stored, F!Range, Memory!Range, F!Share, Memory!Share,
       F!Without, Memory!Without, F!InSector, Memory!InSector, F!Address, Memory!Address

LEMMA EraseStep ==
  ASSUME Todo = Nothing, Todo' = Nothing, Open = {},
         Open' = Address \/ \E a \in Address : Open' = F!InSector(a),
         View' = [x \in Address |-> IF x \in Open' THEN Erased ELSE View[x]]
  PROVE  Memory!Next
BY DEF Memory!Next, Memory!Erase, Todo, Open, Nothing, F!Nothing, Memory!Nothing,
       F!InSector, Memory!InSector, Address, F!Address, Memory!Address

LEMMA SettleStep ==
  ASSUME View' = View, Todo' = Todo, Open' \subseteq Open
  PROVE  Memory!Next
BY DEF Memory!Next, Memory!Settle, Todo, Open

LEMMA PowerLossStep ==
  ASSUME View' \in [Address -> Byte], \A x \in Address \ Open : View'[x] = View[x],
         Todo' = Nothing, Open' = {}
  PROVE  Memory!Next
BY DEF Memory!Next, Memory!PowerLoss, Todo, Open, Nothing, F!Nothing, Memory!Nothing,
       Address, F!Address, Memory!Address

-----------------------------------------------------------------------------
(* Every step of the driver and of the chip is a step of the memory. *)

(* Between two sectors nothing is open, and the memory is the cells.         *)
LEMMA Quiet ==
  ASSUME Inv, Copies, pc \in {"idle", "read", "enable", "erase"}
  PROVE  View = cells /\ Todo = job /\ Open = {} /\ prog = Nothing /\ busy = Idle
BY ViewOfCells, NothingIsEmpty DEF Inv, Copies, Places, Todo, Open, Working

LEMMA QuietNext ==
  Inv' /\ Copies' /\ pc' \in {"idle", "read", "enable", "erase"} =>
    View' = cells' /\ Todo' = job' /\ Open' = {}
<1>1. Inv /\ Copies /\ pc \in {"idle", "read", "enable", "erase"} =>
        View = cells /\ Todo = job /\ Open = {}
  BY Quiet
<1>2. (Inv /\ Copies /\ pc \in {"idle", "read", "enable", "erase"} =>
        View = cells /\ Todo = job /\ Open = {})'
  BY <1>1, PTL
<1> QED BY <1>2

LEMMA WriteStep ==
  ASSUME Inv, Inv', Copies, NEW w \in Writes, Write(w)
  PROVE  Copies' /\ Memory!Next
<1>1. /\ pc = "idle" /\ pc' = "read" /\ job' = w /\ cells' = cells /\ prog' = prog
  BY DEF Write, chip
<1>2. Copies' BY <1>1 DEF Copies
<1>3. View = cells /\ Todo = job /\ Open = {} /\ job = Nothing BY <1>1, Quiet DEF Inv, Places
<1>4. View' = cells' /\ Todo' = job' /\ Open' = {} BY <1>1, <1>2, QuietNext
<1>5. Piece(w) BY WritesArePieces
<1>6. w.addr \in Address /\ w.data \in Seq(Byte) \ {<<>>} /\ w \in [addr : Nat, data : Seq(Byte)]
  BY <1>5, PieceInMemory DEF Piece
<1>7. w \in [addr : Address, data : Seq(Byte) \ {<<>>}] BY <1>6
<1> QED BY <1>1, <1>2, <1>3, <1>4, <1>7, StartStep

LEMMA ReadSectorStep ==
  ASSUME Inv, Inv', Copies, ReadSector
  PROVE  Copies' /\ Memory!Next
<1>1. /\ pc = "read" /\ busy = Idle /\ Piece(job) /\ job # Nothing
      /\ cells' = cells /\ job' = job /\ busy' = busy
  BY DEF ReadSector, Inv, TypeOK, Places, chip
<1>2. View = cells /\ Todo = job /\ Open = {} /\ prog = Nothing BY <1>1, Quiet
<1>3. buf' = [i \in 1 .. SectorSize |-> cells[Sector + i - 1]] BY <1>1 DEF ReadSector
<1>4. CASE pc' = "program" /\ prog' = Share
  <2>1. Copies' BY <1>4 DEF Copies
  <2>2. View' = F!Stored(cells, F!Share(job)) BY <1>1, <1>4 DEF View, Share
  <2>3. Todo' = F!Without(job, Len(F!Share(job).data)) BY <1>1, <1>4 DEF Todo, Working, Share
  <2>4. Open' = F!Range(F!Share(job)) BY <1>4 DEF Open, Share, F!Range
  <2>5. \A x \in F!Range(F!Share(job)) : cells[x] = Erased
    BY <1>1, <1>4 DEF Inv, Places, ErasedIn, Share, F!Range
  <2> QED BY <1>1, <1>2, <2>1, <2>2, <2>3, <2>4, <2>5, PieceStep
<1>5. CASE pc' = "enable" /\ UNCHANGED prog
  <2>1. Copies' BY <1>1, <1>2, <1>3, <1>5 DEF Copies, Sector, Offset
  <2>2. View' = View /\ Todo' = Todo /\ Open' = Open BY <1>1, <1>2, <1>5, <2>1, QuietNext
  <2> QED BY <2>1, <2>2, SettleStep
<1> QED BY <1>4, <1>5 DEF ReadSector

LEMMA CallEraseStep ==
  ASSUME Inv, Inv', Copies, CallErase
  PROVE  Copies' /\ Memory!Next
<1>1. /\ pc = "idle" /\ job = Nothing /\ pc' = "enable"
      /\ cells' = cells /\ job' = job /\ busy' = busy /\ prog' = prog
      /\ target' = Address \/ \E a \in Address : target' = F!InSector(a)
  BY DEF CallErase, Inv, Places, chip
<1>2. View = cells /\ Todo = job /\ Open = {} /\ prog = Nothing BY <1>1, Quiet
<1>3. Copies' BY <1>1, <1>2 DEF Copies
<1>4. View' = View /\ Todo' = Todo /\ Open' = Open BY <1>1, <1>2, <1>3, QuietNext
<1> QED BY <1>3, <1>4, SettleStep

LEMMA WriteEnableStep ==
  ASSUME Inv, Inv', Copies, WriteEnable
  PROVE  Copies' /\ Memory!Next
<1>1. /\ pc = "enable" /\ pc' = "erase" /\ cells' = cells /\ job' = job
      /\ buf' = buf /\ prog' = prog /\ target' = target
  BY DEF WriteEnable
<1>2. View = cells /\ Todo = job /\ Open = {} /\ prog = Nothing BY <1>1, Quiet
<1>3. Copies' BY <1>1, <1>2 DEF Copies, Sector, Offset
<1>4. View' = View /\ Todo' = Todo /\ Open' = Open BY <1>1, <1>2, <1>3, QuietNext
<1> QED BY <1>3, <1>4, SettleStep

(* The sector with the new bytes merged in is the memory with them stored.   *)
LEMMA MergedIsStored ==
  ASSUME TypeOK, Piece(job), buf = [i \in 1 .. SectorSize |-> cells[Sector + i - 1]]
  PROVE  F!Stored(cells, [addr |-> Sector, data |-> Merged]) = F!Stored(cells, Share)
<1> DEFINE w == [addr |-> Sector, data |-> Merged]
<1>0. w.addr = Sector /\ w.data = Merged OBVIOUS
<1>1. F!Range(w) = Sector .. Sector + SectorSize - 1 BY MergedFits
<1>2. /\ Sector \in Nat /\ Sector + Offset = job.addr /\ Offset \in 0 .. SectorSize - 1
      /\ Offset + Len(Share.data) <= SectorSize /\ Len(Share.data) \in Nat
      /\ Share.addr = job.addr /\ job.addr \in Nat /\ SectorSize \in Nat
  BY SectorFits, ShareFits, FlashAssumption DEF Piece
<1>3. F!Range(Share) = job.addr .. job.addr + Len(Share.data) - 1 BY <1>2 DEF F!Range
<1> HIDE DEF w
<1>4. ASSUME NEW x \in Address
      PROVE  (IF x \in F!Range(w) THEN w.data[x - w.addr + 1] ELSE cells[x])
               = (IF x \in F!Range(Share) THEN Share.data[x - Share.addr + 1] ELSE cells[x])
  <2> DEFINE i == x - Sector + 1
  <2>1. x \in Nat BY FlashAssumption DEF Address, F!Address
  <2>2. CASE x \notin F!Range(w)
    <3>1. x \notin F!Range(Share) BY <2>1, <2>2, <1>1, <1>2, <1>3
    <3> QED BY <2>2, <3>1
  <2>3. CASE x \in F!Range(w)
    <3>1. i \in 1 .. SectorSize /\ Sector + i - 1 = x BY <2>1, <2>3, <1>1, <1>2
    <3>2. x \in F!Range(Share) <=> i > Offset /\ i <= Offset + Len(Share.data)
      BY <2>1, <1>2, <1>3
    <3>3. i - Offset = x - Share.addr + 1 BY <2>1, <1>2
    <3>4. w.data[x - w.addr + 1] = Merged[i] BY <1>0
    <3>5. Merged[i] = IF i > Offset /\ i <= Offset + Len(Share.data)
                        THEN Share.data[i - Offset] ELSE buf[i]
      BY <3>1 DEF Merged
    <3>6. buf[i] = cells[x] BY <3>1
    <3> HIDE DEF i
    <3> QED BY <2>3, <3>2, <3>3, <3>4, <3>5, <3>6
  <2> QED BY <2>2, <2>3
<1>5. cells \in [Address -> Byte] BY DEF TypeOK
<1>6. /\ F!Stored(cells, w) =
           [x \in Address |-> IF x \in F!Range(w) THEN w.data[x - w.addr + 1] ELSE cells[x]]
      /\ F!Stored(cells, Share) =
           [x \in Address |-> IF x \in F!Range(Share) THEN Share.data[x - Share.addr + 1] ELSE cells[x]]
  BY <1>5, StoredIs
<1>7. F!Stored(cells, w) = F!Stored(cells, Share) BY <1>4, <1>6
<1> QED BY <1>7 DEF w

LEMMA EraseCommandStep ==
  ASSUME Inv, Inv', Copies, EraseCommand
  PROVE  Copies' /\ Memory!Next
<1>1. /\ pc = "erase" /\ pc' = "erased" /\ cells' = cells /\ job' = job
      /\ buf' = buf /\ prog' = prog /\ target' = target
  BY DEF EraseCommand
<1>2. View = cells /\ Todo = job /\ Open = {} /\ prog = Nothing BY <1>1, Quiet
<1>3. Copies' BY <1>1, <1>2 DEF Copies
<1>4. Open' = target BY <1>1, <1>2, NothingIsEmpty DEF Open, F!Range
<1>5. CASE job = Nothing
  <2>1. Todo' = Nothing BY <1>1, <1>5 DEF Todo
  <2>2. View' = [x \in Address |-> IF x \in target THEN Erased ELSE cells[x]]
    BY <1>1, <1>5 DEF View
  <2>3. target = Address \/ \E a \in Address : target = F!InSector(a)
    BY <1>1, <1>5 DEF Copies
  <2> QED BY <1>2, <1>3, <1>4, <1>5, <2>1, <2>2, <2>3, EraseStep
<1>6. CASE job # Nothing
  <2>1. Piece(job) BY <1>6 DEF Inv, TypeOK
  <2>2. buf = [i \in 1 .. SectorSize |-> cells[Sector + i - 1]] BY <1>1, <1>6 DEF Copies
  <2>3. Merged' = Merged /\ Sector' = Sector BY <1>1 DEF Merged, Sector, Offset, Share, F!Share
  <2>4. View' = F!Stored(cells, [addr |-> Sector, data |-> Merged])
    BY <1>1, <1>6, <2>3 DEF View, F!Stored, F!Range
  <2>5. View' = F!Stored(View, F!Share(Todo))
    BY <1>2, <2>1, <2>2, <2>4, MergedIsStored DEF Inv, Share
  <2>6. Todo' = F!Without(Todo, Len(F!Share(Todo).data))
    BY <1>1, <1>2, <1>6 DEF Todo, Working, Share, F!Without, F!Share
  <2>7. Open' = F!InSector(Todo.addr)
    BY <1>1, <1>2, <1>4, <1>6, <2>1, SectorIs DEF Inv, Places
  <2> QED BY <1>2, <1>3, <1>6, <2>5, <2>6, <2>7, PieceStep
<1> QED BY <1>5, <1>6

LEMMA ErasureStep ==
  ASSUME Inv, Inv', Copies, Erasure
  PROVE  Copies' /\ Memory!Next
<1>1. /\ pc = "erased" /\ busy = Idle /\ target' = {} /\ cells' = cells /\ job' = job
      /\ cells \in [Address -> Byte]
  BY DEF Erasure, chip, Inv, TypeOK
<1>2. prog = Nothing /\ ErasedIn(target) BY <1>1 DEF Inv, Places, Copies, Idle
<1>3. CASE job = Nothing /\ pc' = "idle" /\ UNCHANGED <<buf, prog>>
  <2>1. Copies' BY <1>2, <1>3 DEF Copies
  <2>2. View' = cells /\ Todo' = job /\ Open' = {} BY <1>1, <1>3, <2>1, QuietNext
  <2>3. Todo = job BY <1>3 DEF Todo
  <2>4. View = [x \in Address |-> IF x \in target THEN Erased ELSE cells[x]]
    BY <1>1, <1>3 DEF View
  <2>5. View = cells BY <1>1, <1>2, <2>4 DEF ErasedIn
  <2> QED BY <2>1, <2>2, <2>3, <2>5, SettleStep
<1>4. CASE /\ job # Nothing
           /\ pc' = "program" /\ prog' = [addr |-> Sector, data |-> Merged]
  <2>1. Copies' BY <1>4 DEF Copies
  <2>2. Piece(job) BY <1>4 DEF Inv, TypeOK
  <2>3. View = F!Stored(cells, [addr |-> Sector, data |-> Merged]) BY <1>1, <1>4 DEF View
  <2>4. View' = F!Stored(cells, [addr |-> Sector, data |-> Merged])
    BY <1>1, <1>4 DEF View, F!Stored, F!Range
  <2>5. Todo' = Todo BY <1>1, <1>4 DEF Todo, Working, Share, F!Share, F!Without
  <2>6. Open = F!InSector(Sector)
    BY <1>1, <1>2, <1>4, NothingIsEmpty DEF Open, Inv, Places
  <2>7. Open' = F!Range([addr |-> Sector, data |-> Merged]) BY <1>4 DEF Open, F!Range
  <2>8. Open' = Open BY <2>2, <2>6, <2>7, MergedFits, SectorIs DEF Inv
  <2> QED BY <2>1, <2>3, <2>4, <2>5, <2>8, SettleStep
<1> QED BY <1>3, <1>4 DEF Erasure

LEMMA WritePageStep ==
  ASSUME Inv, Inv', Copies, WritePage
  PROVE  Copies' /\ Memory!Next
<1>1. /\ pc = "program" /\ busy = Idle /\ pc' = "programmed"
      /\ cells' = cells /\ prog' = prog /\ job' = job /\ target' = target
  BY DEF WritePage, Inv, Places
<1>2. busy' # Idle BY <1>1 DEF WritePage, Idle
<1>3. Copies' BY <1>1, <1>2 DEF Copies
<1>4. View' = View BY <1>1 DEF View, F!Stored, F!Range
<1>5. Todo' = Todo BY <1>1 DEF Todo, Working, Share, F!Share, F!Without
<1>6. Open' = Open BY <1>1 DEF Open, F!Range
<1> QED BY <1>3, <1>4, <1>5, <1>6, SettleStep

(* What is left of a piece holds the bytes that follow.                      *)
LEMMA WithoutData ==
  ASSUME NEW w, Piece(w), NEW n \in 1 .. Len(w.data), n < Len(w.data)
  PROVE  /\ F!Without(w, n).addr = w.addr + n
         /\ \A i \in 1 .. Len(w.data) - n : F!Without(w, n).data[i] = w.data[n + i]
<1>1. w.data \in Seq(Byte) /\ Len(w.data) \in Nat BY DEF Piece
<1>2. F!Without(w, n) = [addr |-> w.addr + n, data |-> SubSeq(w.data, n + 1, Len(w.data))]
  BY <1>1 DEF F!Without
<1>3. \A i \in n + 1 .. Len(w.data) : w.data[i] \in Byte BY <1>1, ElementOfSeq
<1>4. n + 1 \in Int /\ Len(w.data) \in Int BY <1>1
<1>5. \A i \in 1 .. Len(w.data) - (n + 1) + 1 :
        SubSeq(w.data, n + 1, Len(w.data))[i] = w.data[n + 1 + i - 1]
  BY <1>3, <1>4, SubSeqProperties
<1>6. ASSUME NEW i \in 1 .. Len(w.data) - n
      PROVE  SubSeq(w.data, n + 1, Len(w.data))[i] = w.data[n + i]
  <2>1. i \in 1 .. Len(w.data) - (n + 1) + 1 /\ n + 1 + i - 1 = n + i BY <1>1
  <2> QED BY <2>1, <1>5
<1> QED BY <1>2, <1>6

(* With its first page in the cells, a piece is stored once the rest is.     *)
LEMMA RestIsStored ==
  ASSUME TypeOK, Piece(prog),
         \A x \in F!Range(Page(PageRemain)) : cells[x] = prog.data[x - prog.addr + 1]
  PROVE  F!Stored(cells, F!Without(prog, PageRemain)) = F!Stored(cells, prog)
<1> DEFINE rest == F!Without(prog, PageRemain)
           n == PageRemain
<1>0. cells \in [Address -> Byte] BY DEF TypeOK
<1>1. /\ n \in 1 .. Len(prog.data) /\ Len(prog.data) \in Nat /\ prog.addr \in Nat
      /\ F!Range(prog) = prog.addr .. prog.addr + Len(prog.data) - 1
      /\ F!Range(Page(n)) = prog.addr .. prog.addr + n - 1
  BY PageRemainFits, PageInPiece, PieceInMemory DEF Piece
<1>2. \/ rest = Nothing /\ F!Range(rest) = {} /\ n = Len(prog.data)
      \/ /\ n < Len(prog.data)
         /\ F!Range(rest) = prog.addr + n .. prog.addr + Len(prog.data) - 1
         /\ rest.addr = prog.addr + n
         /\ \A i \in 1 .. Len(prog.data) - n : rest.data[i] = prog.data[n + i]
  <2>1. n = Len(prog.data) \/ n < Len(prog.data) BY <1>1
  <2> QED BY <1>1, <2>1, WithoutPiece, WithoutData, NothingIsEmpty
<1>3. /\ F!Stored(cells, rest) =
           [x \in Address |-> IF x \in F!Range(rest) THEN rest.data[x - rest.addr + 1] ELSE cells[x]]
      /\ F!Stored(cells, prog) =
           [x \in Address |-> IF x \in F!Range(prog) THEN prog.data[x - prog.addr + 1] ELSE cells[x]]
  BY <1>0, StoredIs
<1> HIDE DEF rest, n
<1>4. ASSUME NEW x \in Address
      PROVE  (IF x \in F!Range(rest) THEN rest.data[x - rest.addr + 1] ELSE cells[x])
               = (IF x \in F!Range(prog) THEN prog.data[x - prog.addr + 1] ELSE cells[x])
  <2>1. x \in Nat BY FlashAssumption DEF Address, F!Address
  <2>2. CASE x \in F!Range(Page(n))
    <3>1. x \notin F!Range(rest) /\ x \in F!Range(prog) BY <2>1, <2>2, <1>1, <1>2
    <3>2. cells[x] = prog.data[x - prog.addr + 1] BY <2>2 DEF n
    <3> QED BY <3>1, <3>2
  <2>3. CASE x \in F!Range(rest)
    <3>1. n < Len(prog.data) BY <2>3, <1>2
    <3>2. x \in F!Range(prog) BY <2>3, <1>1, <1>2, <3>1
    <3> DEFINE i == x - prog.addr - n + 1
    <3>3. i \in 1 .. Len(prog.data) - n BY <2>1, <2>3, <1>1, <1>2, <3>1
    <3>4. x - rest.addr + 1 = i /\ n + i = x - prog.addr + 1 BY <2>1, <1>1, <1>2, <3>1
    <3>5. rest.data[i] = prog.data[n + i] BY <3>1, <3>3, <1>2
    <3> HIDE DEF i
    <3> QED BY <2>3, <3>2, <3>4, <3>5
  <2>4. CASE x \notin F!Range(Page(n)) /\ x \notin F!Range(rest)
    <3>1. x \notin F!Range(prog) BY <2>1, <2>4, <1>1, <1>2
    <3> QED BY <2>4, <3>1
  <2> QED BY <2>2, <2>3, <2>4
<1>5. F!Stored(cells, rest) = F!Stored(cells, prog) BY <1>3, <1>4
<1> QED BY <1>5 DEF rest, n

LEMMA PageWrittenStep ==
  ASSUME Inv, Inv', Copies, PageWritten
  PROVE  Copies' /\ Memory!Next
<1> DEFINE rest == F!Without(prog, PageRemain)
           jobs == F!Without(job, Len(Share.data))
<1>1. /\ pc = "programmed" /\ busy = Idle /\ Piece(prog)
      /\ cells' = cells /\ cells \in [Address -> Byte]
  BY DEF PageWritten, Inv, TypeOK, Places, chip
<1>2. F!Stored(cells, rest) = F!Stored(cells, prog)
  BY <1>1, RestIsStored DEF Inv, Copies
<1>3. View = F!Stored(cells, prog) /\ Open = F!Range(prog) BY <1>1 DEF View, Open
<1>4. CASE rest # Nothing /\ pc' = "program" /\ prog' = rest /\ UNCHANGED job
  <2>1. Copies' BY <1>4 DEF Copies
  <2>2. View' = F!Stored(cells, rest) BY <1>1, <1>4 DEF View, F!Stored, F!Range
  <2>3. Todo' = Todo BY <1>1, <1>4 DEF Todo, Working, Share, F!Share, F!Without
  <2>4. Open' = F!Range(rest) BY <1>4 DEF Open, F!Range
  <2>5. F!Range(rest) \subseteq F!Range(prog)
    <3>1. PageRemain \in 1 .. Len(prog.data) /\ Len(prog.data) \in Nat /\ prog.addr \in Nat
      BY <1>1, PageRemainFits DEF Piece
    <3>2. PageRemain < Len(prog.data) BY <1>1, <1>4, <3>1, WithoutPiece
    <3>3. F!Range(rest) = prog.addr + PageRemain .. prog.addr + Len(prog.data) - 1
      BY <1>1, <3>1, <3>2, WithoutPiece
    <3>4. F!Range(prog) = prog.addr .. prog.addr + Len(prog.data) - 1 BY <1>1, PieceInMemory
    <3> HIDE DEF rest
    <3> QED BY <3>1, <3>3, <3>4
  <2> QED BY <1>2, <1>3, <2>1, <2>2, <2>3, <2>4, <2>5, SettleStep
<1>5. CASE /\ rest = Nothing /\ prog' = Nothing /\ job' = jobs
           /\ pc' = IF jobs = Nothing THEN "idle" ELSE "read"
  <2>1. pc' \in {"idle", "read"} BY <1>5
  <2>2. Copies' BY <1>5, <2>1 DEF Copies
  <2>3. View' = cells /\ Todo' = jobs /\ Open' = {} BY <1>1, <1>5, <2>1, <2>2, QuietNext
  <2>4. F!Stored(cells, rest) = cells BY <1>1, <1>5, StoredNothing
  <2>5. Todo = jobs
    <3>1. CASE job = Nothing BY <3>1, NothingShare DEF Todo
    <3>2. CASE job # Nothing BY <1>1, <3>2 DEF Todo, Working
    <3> QED BY <3>1, <3>2
  <2> QED BY <1>2, <1>3, <2>2, <2>3, <2>4, <2>5, SettleStep
<1> QED BY <1>4, <1>5 DEF PageWritten

(* What the chip is doing, wherever it is doing something.                   *)
LEMMA Work ==
  ASSUME Inv, busy # Idle
  PROVE  \/ /\ pc = "erased" /\ busy = [op |-> "erase", area |-> target]
            /\ Worked = [x \in Address |-> IF x \in target THEN Erased ELSE cells[x]]
         \/ /\ pc = "programmed" /\ Piece(prog) /\ busy.op = "program"
            /\ ErasedIn(F!Range(Page(PageRemain)))
            /\ Worked = [x \in Address |->
                           IF x \in F!Range(Page(PageRemain))
                           THEN cells[x] \cup Page(PageRemain).data[x - prog.addr + 1]
                           ELSE cells[x]]
<1>1. \/ pc = "erased" /\ busy = [op |-> "erase", area |-> target]
      \/ /\ pc = "programmed" /\ Piece(prog)
         /\ busy = [op |-> "program", page |-> Page(PageRemain)]
         /\ ErasedIn(F!Range(busy.page))
  BY DEF Inv, TypeOK, Places
<1>2. CASE pc = "erased" /\ busy = [op |-> "erase", area |-> target]
  BY <1>2 DEF Worked
<1>3. CASE /\ pc = "programmed" /\ Piece(prog)
           /\ busy = [op |-> "program", page |-> Page(PageRemain)]
           /\ ErasedIn(F!Range(busy.page))
  <2>1. busy.page = Page(PageRemain) /\ busy.op = "program" /\ busy.page.addr = prog.addr
    BY <1>3 DEF Page
  <2> QED BY <1>3, <2>1 DEF Worked
<1> QED BY <1>1, <1>2, <1>3

(* A page done leaves its bytes in the cells, and the others as they were.   *)
LEMMA PageIsStored ==
  ASSUME Inv, Piece(prog), ErasedIn(F!Range(Page(PageRemain))), NEW x \in F!Range(Page(PageRemain))
  PROVE  /\ cells[x] \cup Page(PageRemain).data[x - prog.addr + 1] = prog.data[x - prog.addr + 1]
         /\ x \in F!Range(prog)
<1>1. prog.addr \in Nat /\ PageRemain \in Nat BY PageRemainFits DEF Piece
<1>2. x \in prog.addr .. prog.addr + PageRemain - 1 BY PageInPiece
<1>3. x - prog.addr + 1 \in 1 .. PageRemain BY <1>1, <1>2
<1>4. cells[x] = {} BY DEF ErasedIn, Erased
<1> QED BY <1>3, <1>4, PageInPiece

LEMMA FinishStep ==
  ASSUME Inv, Inv', Copies, Finish
  PROVE  Copies' /\ Memory!Next
<1>1. /\ busy # Idle /\ cells' = Worked /\ busy' = Idle
      /\ pc' = pc /\ job' = job /\ target' = target /\ buf' = buf /\ prog' = prog
  BY DEF Finish
<1>2. Todo' = Todo /\ Open' = Open
  BY <1>1 DEF Todo, Open, Working, Share, F!Share, F!Without, F!Range
<1>3. Merged' = Merged /\ Sector' = Sector BY <1>1 DEF Merged, Sector, Offset, Share, F!Share
<1>4. cells \in [Address -> Byte] /\ cells' \in [Address -> Byte] BY DEF Inv, TypeOK
<1>5. CASE pc = "erased" /\ Worked = [x \in Address |-> IF x \in target THEN Erased ELSE cells[x]]
  <2>1. Copies' BY <1>1, <1>5 DEF Copies
  <2>2. CASE job = Nothing
    <3>1. View = [x \in Address |-> IF x \in target THEN Erased ELSE cells[x]]
      BY <1>5, <2>2 DEF View
    <3>2. View' = [x \in Address |-> IF x \in target THEN Erased ELSE cells'[x]]
      BY <1>1, <1>5, <2>2 DEF View
    <3>3. View' = View BY <1>1, <1>5, <3>1, <3>2
    <3> QED BY <1>2, <2>1, <3>3, SettleStep
  <2>3. CASE job # Nothing
    <3> DEFINE w == [addr |-> Sector, data |-> Merged]
    <3>1. Piece(job) /\ target = F!InSector(Sector) BY <1>5, <2>3 DEF Inv, TypeOK, Places
    <3>2. F!Range(w) = target BY <3>1, MergedFits, SectorIs DEF Inv
    <3>3. View = F!Stored(cells, w) BY <1>5, <2>3 DEF View
    <3>4. View' = F!Stored(cells', w) BY <1>1, <1>3, <1>5, <2>3 DEF View, F!Stored, F!Range
    <3> HIDE DEF w
    <3>5. \A x \in Address \ F!Range(w) : cells'[x] = cells[x] BY <1>1, <1>5, <3>2
    <3>6. F!Stored(cells', w) = F!Stored(cells, w) BY <1>4, <3>5, SameStored
    <3> QED BY <1>2, <2>1, <3>3, <3>4, <3>6, SettleStep
  <2> QED BY <2>2, <2>3
<1>6. CASE /\ pc = "programmed" /\ Piece(prog)
           /\ ErasedIn(F!Range(Page(PageRemain)))
           /\ Worked = [x \in Address |->
                          IF x \in F!Range(Page(PageRemain))
                          THEN cells[x] \cup Page(PageRemain).data[x - prog.addr + 1]
                          ELSE cells[x]]
  <2>1. \A x \in F!Range(Page(PageRemain)) :
          cells'[x] = prog.data[x - prog.addr + 1] /\ x \in F!Range(prog)
    BY <1>1, <1>6, PageIsStored, PageInPiece, PieceInMemory
  <2>2. \A x \in Address \ F!Range(Page(PageRemain)) : cells'[x] = cells[x] BY <1>1, <1>6
  <2>3. F!Range(Page(PageRemain))' = F!Range(Page(PageRemain))
    BY <1>1 DEF F!Range, Page, PageRemain, PageRoom
  <2>4. Copies' BY <1>1, <1>6, <2>1, <2>3 DEF Copies
  <2>5. View = F!Stored(cells, prog) BY <1>6 DEF View
  <2>6. View' = F!Stored(cells', prog) BY <1>1, <1>6 DEF View, F!Stored, F!Range
  <2>7. F!Stored(cells', prog) = F!Stored(cells, prog)
    <3>1. \A x \in Address \ F!Range(prog) : cells'[x] = cells[x] BY <2>1, <2>2
    <3> QED BY <1>4, <3>1, SameStored
  <2> QED BY <1>2, <2>4, <2>5, <2>6, <2>7, SettleStep
<1> QED BY <1>1, <1>5, <1>6, Work

LEMMA PowerLossStepOfDriver ==
  ASSUME Inv, Inv', Copies, PowerLoss
  PROVE  Copies' /\ Memory!Next
<1>1. pc' = "idle" /\ job' = Nothing /\ prog' = Nothing BY DEF PowerLoss, Restart
<1>2. Copies' BY <1>1 DEF Copies
<1>3. View' = cells' /\ Todo' = Nothing /\ Open' = {} BY <1>1, <1>2, QuietNext
<1>4. cells \in [Address -> Byte] /\ cells' \in [Address -> Byte] BY DEF Inv, TypeOK
<1>5. \A x \in Address \ Open : View[x] = cells[x]
  <2>1. CASE pc = "erased" /\ job = Nothing
    BY <2>1 DEF View, Open
  <2>2. CASE pc = "erased" /\ job # Nothing
    <3> DEFINE w == [addr |-> Sector, data |-> Merged]
    <3>1. Piece(job) /\ target = F!InSector(Sector) BY <2>2 DEF Inv, TypeOK, Places
    <3>2. F!Range(w) = target BY <3>1, MergedFits, SectorIs DEF Inv
    <3>3. View = F!Stored(cells, w) BY <2>2 DEF View
    <3> HIDE DEF w
    <3> QED BY <1>4, <2>2, <3>2, <3>3, StoredIs DEF Open
  <2>3. CASE pc # "erased"
    <3>1. View = F!Stored(cells, prog) BY <2>3 DEF View
    <3> QED BY <1>4, <3>1, StoredIs DEF Open
  <2> QED BY <2>1, <2>2, <2>3
<1>6. \A x \in Address \ Open : cells'[x] = cells[x]
  <2>1. CASE busy = Idle BY <2>1 DEF PowerLoss
  <2>2. CASE busy # Idle
    <3>1. \A x \in Address \ Open : Worked[x] = cells[x]
      BY <2>2, Work, PageInPiece DEF Open
    <3>2. \A x \in Address : /\ cells[x] \cap Worked[x] \subseteq cells'[x]
                             /\ cells'[x] \subseteq cells[x] \cup Worked[x]
      BY <2>2 DEF PowerLoss
    <3> QED BY <3>1, <3>2
  <2> QED BY <2>1, <2>2
<1> QED BY <1>2, <1>3, <1>4, <1>5, <1>6, PowerLossStep

LEMMA StutterStep ==
  ASSUME Copies, UNCHANGED vars
  PROVE  Copies' /\ Memory!Next
<1>1. Copies' BY DEF Copies, vars, Sector, Offset, Page, PageRemain, PageRoom, F!Range
<1>2. Todo' = Todo /\ Open' = Open
  BY DEF vars, Todo, Open, Working, Share, F!Share, F!Without, F!Range
<1>3. View' = View
  BY DEF vars, View, F!Stored, F!Range, Sector, Offset, Merged, Share, F!Share
<1> QED BY <1>1, <1>2, <1>3, SettleStep

LEMMA NextStep ==
  ASSUME ~McuResets, Inv, Inv', Copies, [Next]_vars
  PROVE  Copies' /\ Memory!Next
<1>1. CASE \E w \in Writes : Write(w) BY <1>1, WriteStep
<1>2. CASE CallErase BY <1>2, CallEraseStep
<1>3. CASE Driver
  BY <1>3, ReadSectorStep, WriteEnableStep, EraseCommandStep, ErasureStep, WritePageStep,
     PageWrittenStep DEF Driver
<1>4. CASE Finish BY <1>4, FinishStep
<1>5. CASE PowerLoss BY <1>5, PowerLossStepOfDriver
<1>6. CASE McuReset BY <1>6 DEF McuReset
<1>7. CASE UNCHANGED vars BY <1>7, StutterStep
<1> QED BY <1>1, <1>2, <1>3, <1>4, <1>5, <1>6, <1>7 DEF Next

LEMMA InitStep ==
  ASSUME Init
  PROVE  Copies /\ Memory!Init
<1>1. Inv BY InitInv
<1>2. Copies BY DEF Init, Copies
<1>3. View = cells /\ Todo = job /\ Open = {} BY <1>1, <1>2, Quiet DEF Init
<1>4. View \in [Address -> Byte] BY <1>3 DEF Init
<1>5. Memory!Init
  BY <1>3, <1>4 DEF Init, Memory!Init, Todo, Open, Nothing, F!Nothing, Memory!Nothing,
     Address, F!Address, Memory!Address
<1> QED BY <1>2, <1>5

-----------------------------------------------------------------------------
(* W25QXX_Write changes exactly the bytes it was given, whatever the sector  *)
(* held, whatever the alignment and the geometry, and a power loss at any    *)
(* step spoils the sector being rewritten at most (w25qxx.c:240): as long as *)
(* the processor does not restart while the chip works.                      *)
THEOREM DriverIsAMemory ==
  ASSUME ~McuResets
  PROVE  Spec => ImplementsMemory
<1>1. Init => Inv /\ Copies /\ Memory!Init BY InitInv, InitStep
<1>2. Inv /\ Copies /\ [Next]_vars => Inv' /\ Copies' /\ Memory!Next
  BY NextInv, NextStep
<1> QED BY <1>1, <1>2, PTL DEF Spec, ImplementsMemory, Memory!Spec

-----------------------------------------------------------------------------
(* SST25VF: the bytes a transfer can reach                                   *)

\* What a cell at x that holds v holds once w is stored.
Put(w, x, v) == IF x \in F!Range(w) THEN w.data[x - w.addr + 1] ELSE v

\* What the write under way has still to do after this sector.
Later == F!Without(job, Len(Share.data))

\* What the cell at x holds once the call under way has returned, if no byte is ignored.
Due(x) ==
  IF pc \in {"program", "programmed"} THEN Put(Later, x, Put(prog, x, cells[x]))
  ELSE IF pc = "erased" /\ job # Nothing
    THEN Put(job, x, IF x \in target THEN buf[x - Sector + 1] ELSE cells[x])
  ELSE IF pc \in {"enable", "erase", "erased"} /\ job = Nothing
    THEN IF x \in target THEN Erased ELSE cells[x]
  ELSE Put(job, x, cells[x])

\* All the bytes of w lie in the sector of the first.
InOneSector(w) == (w.addr % SectorSize) + Len(w.data) <= SectorSize

\* The cell at x, which should hold v, may hold c.
Allowed(x, v, c) == c = v \/ (c = Erased /\ x % SectorSize # 0)

\* What holds at each place of the driver.
SPlaces ==
  /\ pc \in {"idle", "read", "enable", "erase"} => busy = Idle
  /\ pc = "idle" => job = Nothing
  /\ pc = "read" => job # Nothing
  /\ pc \in {"enable", "erase", "erased"} /\ job # Nothing => target = F!InSector(Sector)
  /\ pc \in {"enable", "erase"} /\ job # Nothing =>
       \A i \in 1 .. SectorSize : Readable(i) => buf[i] = cells[Sector + i - 1]
  /\ pc = "erase" => wel
  /\ pc = "erased" =>
       \/ busy = Idle /\ ErasedIn(target)
       \/ busy = [op |-> "erase", area |-> target]
  /\ pc \notin {"program", "programmed"} => locked /\ left = 0
  /\ pc = "program" =>
       /\ busy = Idle /\ prog # Nothing /\ ErasedIn(Near \cap F!Range(prog))
       /\ InOneSector(prog)
       /\ locked => left = 0
       /\ ~locked => (wel \/ prog.addr % SectorSize # 0) /\ left \in 0 .. Len(prog.data)
  /\ pc = "programmed" =>
       /\ prog # Nothing /\ ErasedIn((Near \cap F!Range(prog)) \ {prog.addr})
       /\ InOneSector(prog)
       /\ ~locked /\ left \in 1 .. Len(prog.data)
       /\ \/ busy = Idle /\ (prog.addr \in Near => Allowed(prog.addr, prog.data[1], cells[prog.addr]))
          \/ busy = [op |-> "program", page |-> Page(1)] /\ ErasedIn(Near \cap {prog.addr})

Expected ==
  /\ DOMAIN expect = Near
  /\ \A x \in Near : Allowed(x, expect[x], Due(x))

SInv == TypeOK /\ SPlaces /\ Expected

LEMMA NearIsAddress == \A x \in Near : x \in Address /\ x \in Nat
BY FlashAssumption DEF Near, Address, F!Address

LEMMA PutNothing ==
  ASSUME NEW x, NEW v
  PROVE  Put(Nothing, x, v) = v
BY NothingIsEmpty DEF Put

LEMMA PutWithout ==
  ASSUME NEW w, Piece(w), NEW n \in 1 .. Len(w.data), NEW x \in Nat, NEW v
  PROVE  Put(F!Without(w, n), x, v) =
           IF x \in w.addr + n .. w.addr + Len(w.data) - 1 THEN w.data[x - w.addr + 1] ELSE v
<1> DEFINE rest == F!Without(w, n)
<1>1. w.addr \in Nat /\ Len(w.data) \in Nat BY DEF Piece
<1>2. CASE n = Len(w.data)
  BY <1>1, <1>2, WithoutPiece, PutNothing
<1>3. CASE n < Len(w.data)
  <2>1. /\ F!Range(rest) = w.addr + n .. w.addr + Len(w.data) - 1
        /\ rest.addr = w.addr + n
        /\ \A i \in 1 .. Len(w.data) - n : rest.data[i] = w.data[n + i]
    BY <1>3, WithoutPiece, WithoutData
  <2> HIDE DEF rest
  <2>2. CASE x \in w.addr + n .. w.addr + Len(w.data) - 1
    <3> DEFINE i == x - w.addr - n + 1
    <3>1. i \in 1 .. Len(w.data) - n BY <1>1, <1>3, <2>2
    <3>2. x - rest.addr + 1 = i /\ n + i = x - w.addr + 1 BY <1>1, <2>1
    <3>3. rest.data[i] = w.data[n + i] BY <3>1, <2>1
    <3> HIDE DEF i
    <3>4. Put(rest, x, v) = w.data[x - w.addr + 1] BY <2>1, <2>2, <3>2, <3>3 DEF Put
    <3> QED BY <3>4, <2>2 DEF rest
  <2>3. CASE x \notin w.addr + n .. w.addr + Len(w.data) - 1
    <3>1. Put(rest, x, v) = v BY <2>1, <2>3 DEF Put
    <3> QED BY <3>1, <2>3 DEF rest
  <2> QED BY <2>2, <2>3
<1> QED BY <1>1, <1>2, <1>3

(* The share of a sector holds the first bytes of the write.                 *)
LEMMA ShareIs ==
  ASSUME Piece(job), NEW i \in 1 .. Len(Share.data)
  PROVE  Share.data[i] = job.data[i]
<1> DEFINE room == SectorSize - (job.addr % SectorSize)
<1>1. job.addr \in Nat /\ job.data \in Seq(Byte) /\ Len(job.data) \in Nat BY DEF Piece
<1>2. job.addr % SectorSize \in 0 .. SectorSize - 1 BY <1>1, FlashAssumption, Division
<1>3. room \in Nat /\ room > 0 BY <1>2, FlashAssumption
<1>4. CASE Len(job.data) <= room
  BY <1>4 DEF Share, F!Share
<1>5. CASE ~(Len(job.data) <= room)
  <2>1. Share.data = SubSeq(job.data, 1, room) BY <1>5 DEF Share, F!Share
  <2> HIDE DEF room
  <2>2. \A j \in 1 .. room : job.data[j] \in Byte BY <1>1, <1>3, <1>5, ElementOfSeq
  <2>3. 1 \in Int /\ room \in Int BY <1>3
  <2>4. /\ Len(SubSeq(job.data, 1, room)) = IF 1 <= room THEN room - 1 + 1 ELSE 0
        /\ \A j \in 1 .. room - 1 + 1 : SubSeq(job.data, 1, room)[j] = job.data[1 + j - 1]
    BY <2>2, <2>3, SubSeqProperties
  <2>5. i \in 1 .. room - 1 + 1 /\ 1 + i - 1 = i BY <1>3, <2>1, <2>4
  <2> QED BY <2>1, <2>4, <2>5
<1> QED BY <1>4, <1>5

LEMMA PutShare ==
  ASSUME Piece(job), NEW x \in Nat, NEW v
  PROVE  Put(Share, x, v) =
           IF x \in job.addr .. job.addr + Len(Share.data) - 1 THEN job.data[x - job.addr + 1] ELSE v
<1>1. job.addr \in Nat /\ Len(Share.data) \in Nat /\ Share.addr = job.addr
  BY ShareFits DEF Piece
<1>2. F!Range(Share) = job.addr .. job.addr + Len(Share.data) - 1 BY <1>1 DEF F!Range
<1>3. CASE x \in job.addr .. job.addr + Len(Share.data) - 1
  <2>1. x - job.addr + 1 \in 1 .. Len(Share.data) BY <1>1, <1>3
  <2>2. Share.data[x - job.addr + 1] = job.data[x - job.addr + 1] BY <2>1, ShareIs
  <2> QED BY <1>1, <1>2, <1>3, <2>2 DEF Put
<1>4. CASE x \notin job.addr .. job.addr + Len(Share.data) - 1
  BY <1>2, <1>4 DEF Put
<1> QED BY <1>3, <1>4

(* The share of a sector and what comes after it are the write.              *)
LEMMA PutLater ==
  ASSUME Piece(job), NEW x \in Nat, NEW v
  PROVE  Put(Later, x, Put(Share, x, v)) = Put(job, x, v)
<1> DEFINE n == Len(Share.data)
           l == Len(job.data)
           u == Put(Share, x, v)
<1>1. job.addr \in Nat /\ l \in Nat /\ n \in 1 .. l
      /\ F!Range(job) = job.addr .. job.addr + l - 1
  BY ShareFits, PieceInMemory DEF Piece
<1>2. Put(Later, x, u) =
        IF x \in job.addr + n .. job.addr + l - 1 THEN job.data[x - job.addr + 1] ELSE u
  BY <1>1, PutWithout DEF Later
<1>3. u = IF x \in job.addr .. job.addr + n - 1 THEN job.data[x - job.addr + 1] ELSE v
  BY PutShare
<1>4. Put(job, x, v) =
        IF x \in job.addr .. job.addr + l - 1 THEN job.data[x - job.addr + 1] ELSE v
  BY <1>1 DEF Put
<1>5. x \in job.addr .. job.addr + l - 1
        <=> x \in job.addr + n .. job.addr + l - 1 \/ x \in job.addr .. job.addr + n - 1
  BY <1>1
<1> HIDE DEF n, l, u
<1>6. Put(Later, x, u) = Put(job, x, v) BY <1>2, <1>3, <1>4, <1>5
<1> QED BY <1>6 DEF u

(* So are the merged sector and what comes after it.                         *)
LEMMA PutMerged ==
  ASSUME TypeOK, Piece(job), NEW x \in Nat, NEW v
  PROVE  Put(Later, x, Put([addr |-> Sector, data |-> Merged], x, v)) =
           Put(job, x, IF x \in F!InSector(Sector) THEN buf[x - Sector + 1] ELSE v)
<1> DEFINE w == [addr |-> Sector, data |-> Merged]
           old == IF x \in F!InSector(Sector) THEN buf[x - Sector + 1] ELSE v
<1>1. w.addr = Sector /\ w.data = Merged /\ F!Range(w) = Sector .. Sector + SectorSize - 1
  BY MergedFits
<1>2. /\ Sector \in Nat /\ Sector + Offset = job.addr /\ Offset \in 0 .. SectorSize - 1
      /\ Offset + Len(Share.data) <= SectorSize /\ Len(Share.data) \in Nat
      /\ Share.addr = job.addr /\ job.addr \in Nat /\ SectorSize \in Nat
  BY SectorFits, ShareFits, FlashAssumption DEF Piece
<1>3. F!Range(Share) = job.addr .. job.addr + Len(Share.data) - 1 BY <1>2 DEF F!Range
<1>4. F!InSector(Sector) = Sector .. Sector + SectorSize - 1 BY SectorIs
<1> HIDE DEF w
<1>5. Put(w, x, v) = Put(Share, x, old)
  <2>1. CASE x \notin F!Range(w)
    <3>1. x \notin F!Range(Share) BY <2>1, <1>1, <1>2, <1>3
    <3> QED BY <2>1, <3>1, <1>1, <1>4 DEF Put
  <2>2. CASE x \in F!Range(w)
    <3> DEFINE i == x - Sector + 1
    <3>1. i \in 1 .. SectorSize BY <2>2, <1>1, <1>2
    <3>2. x \in F!Range(Share) <=> i > Offset /\ i <= Offset + Len(Share.data)
      BY <1>2, <1>3
    <3>3. i - Offset = x - Share.addr + 1 BY <1>2
    <3>4. w.data[x - w.addr + 1] = Merged[i] BY <1>1
    <3>5. Merged[i] = IF i > Offset /\ i <= Offset + Len(Share.data)
                        THEN Share.data[i - Offset] ELSE buf[i]
      BY <3>1 DEF Merged
    <3>6. old = buf[i] BY <2>2, <1>1, <1>4
    <3> HIDE DEF i, old
    <3> QED BY <2>2, <3>2, <3>3, <3>4, <3>5, <3>6 DEF Put
  <2> QED BY <2>1, <2>2
<1> HIDE DEF old
<1>6. Put(Later, x, Put(w, x, v)) = Put(job, x, old) BY <1>5, PutLater
<1> QED BY <1>6 DEF w, old

\* A byte of the sector that a transfer reaches.
LEMMA NearIsReadable ==
  ASSUME Piece(job), TransferAssumption, NEW x \in Near, x \in F!InSector(Sector)
  PROVE  /\ x - Sector + 1 \in 1 .. SectorSize
         /\ Readable(x - Sector + 1)
         /\ Sector + (x - Sector + 1) - 1 = x
<1>1. job.addr \in 0 .. Size - 1 BY PieceInMemory DEF Address, F!Address
<1>2. SectorSize \in Nat \ {0} /\ Size \in Nat \ {0} /\ Size % SectorSize = 0 BY FlashAssumption
<1>3. /\ Sector \in Nat /\ Sector % SectorSize = 0
      /\ Sector \div SectorSize = job.addr \div SectorSize
  BY <1>1, <1>2, WholeBelow DEF Sector, Offset
<1>4. x \in Sector .. Sector + SectorSize - 1 BY SectorIs
<1> DEFINE q == Sector \div SectorSize
<1>5. x \in Nat /\ x \div SectorSize = q BY NearIsAddress DEF F!InSector
<1>6. x = SectorSize * q + (x % SectorSize) /\ x % SectorSize \in 0 .. SectorSize - 1
  BY <1>5, <1>2, Division
<1>7. Sector = SectorSize * q + (Sector % SectorSize) /\ q \in Nat BY <1>2, <1>3, Division
<1>8. SectorSize * q = Sector BY <1>7, <1>2, <1>3
<1>9. x % SectorSize < Transfer BY DEF Near
<1>10. x % SectorSize = x - Sector BY <1>2, <1>3, <1>5, <1>6, <1>8
<1>11. x - Sector + 1 <= Transfer BY <1>3, <1>5, <1>9, <1>10 DEF TransferAssumption
<1> QED BY <1>2, <1>3, <1>4, <1>5, <1>11 DEF Readable

\* The next address of a sector is not its first.
LEMMA NextInSector ==
  ASSUME NEW a \in Nat, NEW k \in Nat \ {0}, (a % k) + 1 < k
  PROVE  (a + 1) % k = (a % k) + 1
<1>1. a + 1 \in Nat /\ a % k \in 0 .. k - 1 BY Division
<1>2. (a + 1) \div k = a \div k
  <2>1. a + 1 \in a .. a + (k - (a % k)) - 1 BY <1>1
  <2> QED BY <2>1, SameQuotient
<1> DEFINE q == a \div k
<1>3. a = k * q + (a % k) /\ q \in Nat BY Division
<1>4. a + 1 = k * q + ((a + 1) % k) /\ (a + 1) % k \in 0 .. k - 1 BY <1>1, <1>2, Division
<1>5. k * q \in Nat BY <1>3
<1> HIDE DEF q
<1> QED BY <1>1, <1>3, <1>4, <1>5

LEMMA ShareIsInOneSector ==
  ASSUME Piece(job)
  PROVE  InOneSector(Share)
BY ShareFits DEF InOneSector, Offset

LEMMA MergedIsInOneSector ==
  ASSUME TypeOK, Piece(job)
  PROVE  InOneSector([addr |-> Sector, data |-> Merged])
<1>1. job.addr \in 0 .. Size - 1 BY PieceInMemory DEF Address, F!Address
<1>2. SectorSize \in Nat \ {0} /\ Size \in Nat \ {0} /\ Size % SectorSize = 0 BY FlashAssumption
<1>3. Sector % SectorSize = 0 BY <1>1, <1>2, WholeBelow DEF Sector, Offset
<1>4. Merged \in [1 .. SectorSize -> Byte] BY MergedFits
<1>5. Len(Merged) = SectorSize BY <1>2, <1>4, SeqDef, LenProperties
<1> QED BY <1>2, <1>3, <1>5 DEF InOneSector

(* A step that leaves what is due and what is expected as they are.          *)
LEMMA SameDue ==
  ASSUME SInv, expect' = expect, \A x \in Near : Due(x)' = Due(x)
  PROVE  Expected'
<1>1. Near' = Near BY DEF Near
<1>2. \A x \in Near : Allowed(x, expect'[x], Due(x)') BY DEF SInv, Expected
<1> QED BY <1>1, <1>2 DEF SInv, Expected, Allowed

LEMMA AllowedTwice ==
  ASSUME NEW x, NEW u, NEW v, NEW c, Allowed(x, u, v), Allowed(x, v, c)
  PROVE  Allowed(x, u, c)
BY DEF Allowed

-----------------------------------------------------------------------------
(* Every step of the SST25VF driver keeps SInv. *)

LEMMA SInitInv ==
  ASSUME SInit
  PROVE  SInv
<1>1. TypeOK BY InitInv DEF SInit, Inv
<1>2. SPlaces BY DEF SInit, Init, SPlaces
<1>3. \A x \in Near : Due(x) = cells[x] BY PutNothing DEF SInit, Init, Due
<1>4. Expected BY <1>3 DEF Expected, SInit, Allowed
<1> QED BY <1>1, <1>2, <1>4 DEF SInv

LEMMA SWriteInv ==
  ASSUME SInv, NEW w \in Writes, SWrite(w)
  PROVE  SInv'
<1>1. /\ pc = "idle" /\ job = Nothing /\ Piece(w) /\ pc' = "read" /\ job' = w
      /\ cells' = cells /\ wel' = wel /\ busy' = busy /\ target' = target /\ buf' = buf
      /\ prog' = prog /\ left' = left /\ locked' = locked
  BY WritesArePieces DEF SInv, SPlaces, SWrite, Write, chip
<1>2. TypeOK' BY <1>1 DEF SInv, TypeOK
<1>3. w # Nothing BY <1>1, NothingIsEmpty
<1>4. SPlaces' BY <1>1, <1>3 DEF SInv, SPlaces
<1>5. \A x \in Near : Due(x) = cells[x] BY <1>1, PutNothing DEF Due
<1>6. ASSUME NEW x \in Near
      PROVE  expect'[x] = Put(w, x, expect[x])
  BY DEF SInv, Expected, SWrite, F!Stored, Put
<1>7. \A x \in Near : Due(x)' = Put(w, x, cells[x]) BY <1>1 DEF Due, Put, F!Range
<1>8. ASSUME NEW x \in Near
      PROVE  Allowed(x, expect'[x], Due(x)')
  <2>1. Allowed(x, expect[x], cells[x]) BY <1>5 DEF SInv, Expected
  <2> QED BY <1>6, <1>7, <2>1 DEF Allowed, Put
<1>9. DOMAIN expect' = Near /\ Near' = Near BY DEF SWrite, Near
<1>10. Expected' BY <1>8, <1>9 DEF Expected, Allowed
<1> QED BY <1>2, <1>4, <1>10 DEF SInv

LEMMA SEraseInv ==
  ASSUME SInv, NEW a \in Address, SErase(a)
  PROVE  SInv'
<1>1. /\ pc = "idle" /\ job = Nothing /\ pc' = "enable" /\ target' = F!InSector(a)
      /\ cells' = cells /\ wel' = wel /\ busy' = busy /\ job' = job /\ buf' = buf
      /\ prog' = prog /\ left' = left /\ locked' = locked
      /\ expect' = [x \in Near |-> IF x \in F!InSector(a) THEN Erased ELSE expect[x]]
  BY DEF SInv, SPlaces, SErase, chip
<1>2. TypeOK' BY <1>1 DEF SInv, TypeOK, F!InSector, Address
<1>3. SPlaces' BY <1>1 DEF SInv, SPlaces
<1>4. \A x \in Near : Due(x) = cells[x] BY <1>1, PutNothing DEF Due
<1>5. \A x \in Near : Due(x)' = IF x \in F!InSector(a) THEN Erased ELSE cells[x]
  BY <1>1 DEF Due
<1>7. ASSUME NEW x \in Near
      PROVE  Allowed(x, expect'[x], Due(x)')
  <2>1. Allowed(x, expect[x], cells[x]) BY <1>4 DEF SInv, Expected
  <2> QED BY <1>1, <1>5, <2>1 DEF Allowed
<1>8. DOMAIN expect' = Near /\ Near' = Near BY <1>1 DEF Near
<1>6. Expected' BY <1>7, <1>8 DEF Expected, Allowed
<1> QED BY <1>2, <1>3, <1>6 DEF SInv

LEMMA SReadSectorInv ==
  ASSUME TransferAssumption, SInv, SReadSector
  PROVE  SInv'
<1>1. /\ pc = "read" /\ busy = Idle /\ Piece(job) /\ job # Nothing /\ locked /\ left = 0
      /\ cells' = cells /\ wel' = wel /\ busy' = busy /\ job' = job
      /\ left' = left /\ locked' = locked /\ expect' = expect
  BY DEF SInv, TypeOK, SPlaces, SReadSector, chip
<1>2. PICK spilled \in [{i \in 1 .. SectorSize : ~Readable(i)} -> Byte] :
        buf' = [i \in 1 .. SectorSize |-> IF Readable(i) THEN cells[Sector + i - 1] ELSE spilled[i]]
  BY DEF SReadSector
<1>3. \A i \in 1 .. SectorSize : Sector + i - 1 \in Address
  BY <1>1, SectorFits, FlashAssumption DEF Address, F!Address
<1>4. buf' \in [1 .. SectorSize -> Byte] BY <1>2, <1>3 DEF SInv, TypeOK
<1>5. \A x \in Near : Due(x) = Put(job, x, cells[x]) BY <1>1 DEF Due
<1>6. Sector' = Sector BY <1>1 DEF Sector, Offset
<1>7. CASE Clean(buf') /\ pc' = "program" /\ prog' = Share /\ UNCHANGED target
  <2>1. ASSUME NEW x \in Near \cap F!Range(Share) PROVE cells[x] = Erased
    <3> DEFINE j == x - job.addr + 1
               i == x - Sector + 1
    <3>1. /\ Offset \in Nat /\ Offset + Len(Share.data) <= SectorSize
          /\ Len(Share.data) \in Nat /\ job.addr \in Nat /\ Sector \in Nat
          /\ Sector + Offset = job.addr /\ SectorSize \in Nat /\ Share.addr = job.addr
      BY <1>1, ShareFits, SectorFits, FlashAssumption DEF Piece
    <3>7. x \in job.addr .. job.addr + Len(Share.data) - 1 BY <3>1 DEF F!Range
    <3>2. j \in 1 .. Len(Share.data) /\ i = Offset + j BY <3>1, <3>7
    <3>3. x \in F!InSector(Sector) BY <3>1, <3>7, <1>1, SectorIs
    <3>4. i \in 1 .. SectorSize /\ Readable(i) /\ Sector + i - 1 = x
      BY <1>1, <3>3, NearIsReadable
    <3> HIDE DEF i, j
    <3>5. buf'[i] = cells[x] BY <3>4, <1>2
    <3>6. buf'[i] = Erased BY <3>2, <1>7 DEF Clean
    <3> QED BY <3>5, <3>6
  <2>2. TypeOK' BY <1>1, <1>4, <1>7, ShareFits DEF SInv, TypeOK
  <2>3. ErasedIn(Near \cap F!Range(prog))' BY <2>1, <1>1, <1>7 DEF ErasedIn, F!Range, Near
  <2>8. InOneSector(prog)' BY <1>1, <1>7, ShareIsInOneSector DEF InOneSector
  <2>4. SPlaces' BY <2>3, <2>8, <1>1, <1>7, ShareFits DEF SPlaces
  <2>5. \A x \in Near : Due(x)' = Put(Later, x, Put(Share, x, cells[x]))
    BY <1>1, <1>7 DEF Due, Put, Later, F!Range, F!Without, Share, F!Share
  <2>6. \A x \in Near : Due(x)' = Put(job, x, cells[x]) BY <1>1, <2>5, PutLater, NearIsAddress
  <2>7. Expected' BY <1>1, <1>5, <2>6, SameDue
  <2> QED BY <2>2, <2>4, <2>7 DEF SInv
<1>8. CASE ~Clean(buf') /\ pc' = "enable" /\ target' = F!InSector(Sector) /\ UNCHANGED prog
  <2>1. TypeOK' BY <1>1, <1>4, <1>8, SectorFits DEF SInv, TypeOK
  <2>2. \A i \in 1 .. SectorSize : Readable(i) => buf'[i] = cells'[Sector' + i - 1]
    BY <1>1, <1>2, <1>6
  <2>3. SPlaces' BY <1>1, <1>6, <1>8, <2>2 DEF SPlaces, Readable
  <2>4. \A x \in Near : Due(x)' = Put(job, x, cells[x]) BY <1>1, <1>8 DEF Due, Put, F!Range
  <2>5. Expected' BY <1>1, <1>5, <2>4, SameDue
  <2> QED BY <2>1, <2>3, <2>5 DEF SInv
<1> QED BY <1>7, <1>8 DEF SReadSector

LEMMA SWriteEnableInv ==
  ASSUME SInv, WriteEnable, UNCHANGED <<left, locked, place, expect>>
  PROVE  SInv'
<1>1. /\ pc = "enable" /\ pc' = "erase" /\ busy = Idle /\ wel'
      /\ cells' = cells /\ busy' = busy /\ job' = job /\ target' = target /\ buf' = buf
      /\ prog' = prog /\ left' = left /\ locked' = locked /\ expect' = expect
  BY DEF WriteEnable, SInv, SPlaces
<1>2. TypeOK' BY DEF SInv, TypeOK, WriteEnable
<1>3. SPlaces' BY <1>1 DEF SInv, SPlaces, Sector, Offset, Readable
<1>4. \A x \in Near : Due(x)' = Due(x) BY <1>1 DEF Due, Put, F!Range
<1>5. Expected' BY <1>1, <1>4, SameDue
<1> QED BY <1>2, <1>3, <1>5 DEF SInv

LEMMA SEraseCommandInv ==
  ASSUME TransferAssumption, SInv, EraseCommand, UNCHANGED <<left, locked, place, expect>>
  PROVE  SInv'
<1>1. /\ pc = "erase" /\ pc' = "erased" /\ wel
      /\ busy' = [op |-> "erase", area |-> target] /\ wel' = FALSE
      /\ cells' = cells /\ job' = job /\ target' = target /\ buf' = buf
      /\ prog' = prog /\ left' = left /\ locked' = locked /\ expect' = expect
  BY DEF EraseCommand, SInv, SPlaces
<1>2. TypeOK' BY <1>1 DEF SInv, TypeOK
<1>3. SPlaces' BY <1>1 DEF SInv, SPlaces, Sector, Offset
<1>4. ASSUME NEW x \in Near PROVE Due(x)' = Due(x)
  <2>1. CASE job = Nothing BY <1>1, <2>1 DEF Due
  <2>2. CASE job # Nothing
    <3>1. Piece(job) /\ target = F!InSector(Sector) BY <1>1, <2>2 DEF SInv, TypeOK, SPlaces
    <3>2. x \in target => buf[x - Sector + 1] = cells[x]
      <4>1. SUFFICES ASSUME x \in target PROVE buf[x - Sector + 1] = cells[x] OBVIOUS
      <4> DEFINE i == x - Sector + 1
      <4>2. i \in 1 .. SectorSize /\ Readable(i) /\ Sector + i - 1 = x
        BY <3>1, <4>1, NearIsReadable
      <4> HIDE DEF i
      <4>3. buf[i] = cells[Sector + i - 1] BY <4>2, <1>1, <2>2 DEF SInv, SPlaces
      <4> QED BY <4>2, <4>3 DEF i
    <3>3. Due(x) = Put(job, x, cells[x]) BY <1>1, <2>2 DEF Due
    <3>4. Due(x)' = Put(job, x, IF x \in target THEN buf[x - Sector + 1] ELSE cells[x])
      BY <1>1, <2>2 DEF Due, Put, F!Range, Sector, Offset
    <3> QED BY <3>2, <3>3, <3>4
  <2> QED BY <2>1, <2>2
<1>5. Expected' BY <1>1, <1>4, SameDue
<1> QED BY <1>2, <1>3, <1>5 DEF SInv

LEMMA SErasureInv ==
  ASSUME SInv, Erasure, UNCHANGED <<left, locked, place, expect>>
  PROVE  SInv'
<1>1. /\ pc = "erased" /\ busy = Idle /\ target' = {} /\ cells' = cells /\ wel' = wel
      /\ busy' = busy /\ job' = job /\ left' = left /\ locked' = locked /\ expect' = expect
      /\ locked /\ left = 0
  BY DEF Erasure, chip, SInv, SPlaces
<1>2. ErasedIn(target) BY <1>1 DEF SInv, SPlaces, Idle
<1>3. CASE job = Nothing /\ pc' = "idle" /\ UNCHANGED <<buf, prog>>
  <2>1. TypeOK' BY <1>1, <1>3 DEF SInv, TypeOK
  <2>2. SPlaces' BY <1>1, <1>3 DEF SPlaces
  <2>3. \A x \in Near : Due(x) = cells[x] BY <1>1, <1>2, <1>3 DEF Due, ErasedIn
  <2>4. \A x \in Near : Due(x)' = cells[x] BY <1>1, <1>3, PutNothing DEF Due
  <2>5. Expected' BY <1>1, <2>3, <2>4, SameDue
  <2> QED BY <2>1, <2>2, <2>5 DEF SInv
<1>4. CASE /\ job # Nothing /\ buf' = Merged
           /\ pc' = "program" /\ prog' = [addr |-> Sector, data |-> Merged]
  <2>1. Piece(job) /\ target = F!InSector(Sector) BY <1>1, <1>4 DEF SInv, TypeOK, SPlaces
  <2>2. TypeOK' BY <1>1, <1>4, <2>1, MergedFits DEF SInv, TypeOK
  <2>3. F!Range(prog') \subseteq target BY <2>1, <1>4, MergedFits, SectorFits DEF SInv
  <2>4. \A x \in F!Range(prog') : cells'[x] = Erased BY <2>3, <1>1, <1>2 DEF ErasedIn
  <2>5. ErasedIn(Near \cap F!Range(prog))' BY <2>4 DEF ErasedIn, Near
  <2>6. prog' # Nothing BY <2>1, <1>4, MergedFits, NothingIsEmpty DEF SInv
  <2>10. InOneSector(prog)' BY <1>1, <1>4, <2>1, MergedIsInOneSector DEF SInv, InOneSector
  <2>7. SPlaces' BY <1>1, <1>4, <2>5, <2>6, <2>10 DEF SPlaces
  <2>8. ASSUME NEW x \in Near PROVE Due(x)' = Due(x)
    <3>1. Due(x) = Put(job, x, IF x \in target THEN buf[x - Sector + 1] ELSE cells[x])
      BY <1>1, <1>4 DEF Due
    <3>2. Due(x)' = Put(Later, x, Put([addr |-> Sector, data |-> Merged], x, cells[x]))
      BY <1>1, <1>4 DEF Due, Put, Later, F!Range, F!Without, Share, F!Share
    <3> QED BY <2>1, <3>1, <3>2, NearIsAddress, PutMerged DEF SInv
  <2>9. Expected' BY <1>1, <2>8, SameDue
  <2> QED BY <2>2, <2>7, <2>9 DEF SInv
<1> QED BY <1>3, <1>4 DEF Erasure

LEMMA SFinishInv ==
  ASSUME SInv, Finish, UNCHANGED <<left, locked, place, expect>>
  PROVE  SInv'
<1>1. /\ busy # Idle /\ cells' = Worked /\ busy' = Idle
      /\ wel' = wel /\ pc' = pc /\ job' = job /\ target' = target /\ buf' = buf /\ prog' = prog
      /\ left' = left /\ locked' = locked /\ expect' = expect
  BY DEF Finish
<1>2. CASE pc = "erased" /\ busy = [op |-> "erase", area |-> target]
  <2>1. cells' = [x \in Address |-> IF x \in target THEN Erased ELSE cells[x]]
    BY <1>1, <1>2 DEF Worked
  <2>2. TypeOK' BY <2>1, <1>1 DEF SInv, TypeOK, Erased, Byte
  <2>3. \A x \in target' : cells'[x] = Erased BY <2>1, <1>1 DEF SInv, TypeOK
  <2>4. ErasedIn(target)' BY <2>3 DEF ErasedIn
  <2>5. SPlaces' BY <2>4, <1>1, <1>2 DEF SInv, SPlaces, Sector, Offset
  <2>6. ASSUME NEW x \in Near PROVE Due(x)' = Due(x)
    <3>1. x \in Address BY NearIsAddress
    <3>2. CASE job = Nothing BY <3>1, <3>2, <2>1, <1>1, <1>2 DEF Due
    <3>3. CASE job # Nothing
      <4>1. /\ Due(x) = Put(job, x, IF x \in target THEN buf[x - Sector + 1] ELSE cells[x])
            /\ Due(x)' = Put(job, x, IF x \in target THEN buf[x - Sector + 1] ELSE cells'[x])
        BY <1>1, <1>2, <3>3 DEF Due, Put, F!Range, Sector, Offset
      <4> QED BY <4>1, <3>1, <2>1
    <3> QED BY <3>2, <3>3
  <2>7. Expected' BY <1>1, <2>6, SameDue
  <2> QED BY <2>2, <2>5, <2>7 DEF SInv
<1>3. CASE /\ pc = "programmed" /\ Piece(prog)
           /\ busy = [op |-> "program", page |-> Page(1)] /\ ErasedIn(Near \cap {prog.addr})
  <2>1. prog.addr \in Nat /\ prog.data \in Seq(Byte) /\ Len(prog.data) \in Nat \ {0} BY <1>3 DEF Piece
  <2>2. prog.data[1] \in Byte BY <2>1, ElementOfSeq
  <2>3. Page(1).addr = prog.addr /\ Page(1).data[1] = prog.data[1] /\ Len(Page(1).data) = 1
    BY <2>1 DEF Page
  <2>4. F!Range(Page(1)) = {prog.addr}
    <3>1. F!Range(Page(1)) = prog.addr .. prog.addr + 1 - 1 BY <2>3 DEF F!Range
    <3>2. prog.addr .. prog.addr + 1 - 1 = {prog.addr} BY <2>1
    <3> QED BY <3>1, <3>2
  <2>5. cells' = [x \in Address |-> IF x = prog.addr THEN cells[x] \cup prog.data[1] ELSE cells[x]]
    <3>1. cells' = [x \in Address |->
                      IF x \in F!Range(Page(1)) THEN cells[x] \cup Page(1).data[x - Page(1).addr + 1]
                      ELSE cells[x]]
      BY <1>1, <1>3 DEF Worked
    <3>2. \A x \in Address : x = prog.addr => Page(1).data[x - Page(1).addr + 1] = prog.data[1]
      BY <2>1, <2>3
    <3> QED BY <3>1, <3>2, <2>4
  <2>6. TypeOK' BY <1>1, <2>2, <2>5 DEF SInv, TypeOK, Byte
  <2>7. prog.addr \in Near => cells'[prog.addr] = prog.data[1]
    BY <1>3, <2>5, NearIsAddress DEF ErasedIn, Erased
  <2>8. ErasedIn((Near \cap F!Range(prog)) \ {prog.addr})'
    <3>1. ErasedIn((Near \cap F!Range(prog)) \ {prog.addr}) BY <1>3 DEF SInv, SPlaces
    <3>2. \A x \in (Near \cap F!Range(prog)) \ {prog.addr} : cells'[x] = Erased
      BY <3>1, <2>5, NearIsAddress DEF ErasedIn
    <3> QED BY <3>2, <1>1 DEF ErasedIn, Near, F!Range
  <2>9. SPlaces' BY <1>1, <1>3, <2>7, <2>8 DEF SInv, SPlaces, Near, Allowed, InOneSector
  <2>10. ASSUME NEW x \in Near PROVE Due(x)' = Due(x)
    <3>1. x \in Address BY NearIsAddress
    <3>2. /\ Due(x) = Put(Later, x, Put(prog, x, cells[x]))
          /\ Due(x)' = Put(Later, x, Put(prog, x, cells'[x]))
      BY <1>1, <1>3 DEF Due, Put, Later, F!Range, F!Without, Share, F!Share
    <3>3. Put(prog, x, cells'[x]) = Put(prog, x, cells[x])
      <4>1. CASE x = prog.addr
        <5>1. x \in F!Range(prog) BY <4>1, <2>1 DEF F!Range
        <5> QED BY <5>1 DEF Put
      <4>2. CASE x # prog.addr BY <4>2, <3>1, <2>5
      <4> QED BY <4>1, <4>2
    <3> QED BY <3>2, <3>3
  <2>11. Expected' BY <1>1, <2>10, SameDue
  <2> QED BY <2>6, <2>9, <2>11 DEF SInv
<1>4. \/ pc = "erased" /\ busy = [op |-> "erase", area |-> target]
      \/ /\ pc = "programmed" /\ Piece(prog)
         /\ busy = [op |-> "program", page |-> Page(1)] /\ ErasedIn(Near \cap {prog.addr})
  BY <1>1 DEF SInv, TypeOK, SPlaces
<1> QED BY <1>2, <1>3, <1>4

LEMMA UnlockInv ==
  ASSUME SInv, Unlock
  PROVE  SInv'
<1>1. /\ pc = "program" /\ locked /\ busy = Idle /\ left = 0 /\ wel' = TRUE /\ locked' = FALSE
      /\ cells' = cells /\ busy' = busy /\ pc' = pc /\ job' = job /\ target' = target
      /\ buf' = buf /\ prog' = prog /\ left' = left /\ expect' = expect /\ Piece(prog)
  BY DEF Unlock, SInv, TypeOK, SPlaces
<1>2. TypeOK' BY <1>1 DEF SInv, TypeOK
<1>3. 0 \in 0 .. Len(prog.data) BY <1>1 DEF Piece
<1>4. SPlaces' BY <1>1, <1>3 DEF SInv, SPlaces, ErasedIn, Near, F!Range, InOneSector
<1>5. \A x \in Near : Due(x)' = Due(x)
  BY <1>1 DEF Due, Put, Later, F!Range, F!Without, Share, F!Share
<1>6. Expected' BY <1>1, <1>5, SameDue
<1> QED BY <1>2, <1>4, <1>6 DEF SInv

LEMMA StartPageInv ==
  ASSUME SInv, StartPage
  PROVE  SInv'
<1>1. /\ pc = "program" /\ ~locked /\ left' = PageRemain /\ Piece(prog)
      /\ cells' = cells /\ wel' = wel /\ busy' = busy /\ pc' = pc /\ job' = job
      /\ target' = target /\ buf' = buf /\ prog' = prog /\ locked' = locked /\ expect' = expect
  BY DEF StartPage, SInv, TypeOK, SPlaces, vars
<1>2. TypeOK' BY <1>1 DEF SInv, TypeOK
<1>3. PageRemain \in 0 .. Len(prog.data) BY <1>1, PageRemainFits
<1>4. SPlaces' BY <1>1, <1>3 DEF SInv, SPlaces, ErasedIn, Near, F!Range, InOneSector
<1>5. \A x \in Near : Due(x)' = Due(x)
  BY <1>1 DEF Due, Put, Later, F!Range, F!Without, Share, F!Share
<1>6. Expected' BY <1>1, <1>5, SameDue
<1> QED BY <1>2, <1>4, <1>6 DEF SInv

LEMMA ByteProgramInv ==
  ASSUME SInv, ByteProgram
  PROVE  SInv'
<1>1. /\ pc = "program" /\ left > 0 /\ pc' = "programmed" /\ Piece(prog) /\ prog # Nothing
      /\ busy = Idle /\ ErasedIn(Near \cap F!Range(prog)) /\ InOneSector(prog)
      /\ cells' = cells /\ wel' = FALSE /\ job' = job /\ target' = target /\ buf' = buf
      /\ prog' = prog /\ left' = left /\ locked' = locked /\ expect' = expect
  BY DEF ByteProgram, SInv, TypeOK, SPlaces
<1>2. ~locked /\ (wel \/ prog.addr % SectorSize # 0) /\ left \in 1 .. Len(prog.data)
  <2>1. ~locked BY <1>1 DEF SInv, SPlaces
  <2>2. (wel \/ prog.addr % SectorSize # 0) /\ left \in 0 .. Len(prog.data)
    BY <2>1, <1>1 DEF SInv, SPlaces
  <2> QED BY <2>1, <2>2, <1>1
<1>3. busy' = IF wel THEN [op |-> "program", page |-> Page(1)] ELSE busy BY DEF ByteProgram, Page
<1>4. TypeOK' BY <1>1 DEF SInv, TypeOK
<1>5. prog.addr \in F!Range(prog) BY <1>1 DEF Piece, F!Range
<1>6. /\ ErasedIn((Near \cap F!Range(prog)) \ {prog.addr})'
      /\ ErasedIn(Near \cap {prog.addr})'
  BY <1>1, <1>5 DEF ErasedIn, Near, F!Range
<1>7. Page(1)' = Page(1) BY <1>1 DEF Page
<1>11. InOneSector(prog)' BY <1>1 DEF InOneSector
<1>12. \/ busy' = Idle /\ (prog.addr \in Near => Allowed(prog.addr, prog.data[1], cells[prog.addr]))
       \/ busy' = [op |-> "program", page |-> Page(1)]
  <2>1. CASE wel BY <2>1, <1>3
  <2>2. CASE ~wel
    <3>1. busy' = Idle /\ prog.addr % SectorSize # 0 BY <2>2, <1>1, <1>2, <1>3
    <3>2. prog.addr \in Near => cells[prog.addr] = Erased BY <1>1, <1>5 DEF ErasedIn
    <3> QED BY <3>1, <3>2 DEF Allowed
  <2> QED BY <2>1, <2>2
<1>8. SPlaces'
  <2>1. CASE busy' = Idle /\ (prog.addr \in Near => Allowed(prog.addr, prog.data[1], cells[prog.addr]))
    BY <2>1, <1>1, <1>2, <1>6, <1>11 DEF SPlaces, Near, Allowed
  <2>2. CASE busy' = [op |-> "program", page |-> Page(1)]
    BY <2>2, <1>1, <1>2, <1>6, <1>7, <1>11 DEF SPlaces
  <2> QED BY <1>12, <2>1, <2>2
<1>9. \A x \in Near : Due(x)' = Due(x)
  BY <1>1 DEF Due, Put, Later, F!Range, F!Without, Share, F!Share
<1>10. Expected' BY <1>1, <1>9, SameDue
<1> QED BY <1>4, <1>8, <1>10 DEF SInv

LEMMA ByteWrittenInv ==
  ASSUME SInv, ByteWritten
  PROVE  SInv'
<1> DEFINE rest == F!Without(prog, 1)
<1>0. \A n \in Nat \ {0} : n = 1 <=> ~(n > 1) OBVIOUS
<1>1. /\ pc = "programmed" /\ busy = Idle /\ Piece(prog) /\ left' = left - 1
      /\ ErasedIn((Near \cap F!Range(prog)) \ {prog.addr})
      /\ ~locked /\ left \in 1 .. Len(prog.data) /\ InOneSector(prog)
      /\ prog.addr \in Near => Allowed(prog.addr, prog.data[1], cells[prog.addr])
      /\ cells' = cells /\ busy' = busy /\ target' = target /\ expect' = expect
  BY DEF ByteWritten, SInv, TypeOK, SPlaces, Idle
<1>2. /\ prog.addr \in Nat /\ prog.data \in Seq(Byte) /\ Len(prog.data) \in Nat \ {0}
      /\ F!Range(prog) = prog.addr .. prog.addr + Len(prog.data) - 1
  BY <1>1, PieceInMemory DEF Piece
<1>3. ASSUME NEW x \in Near PROVE Allowed(x, Put(prog, x, cells[x]), Put(rest, x, cells[x]))
  <2>1. x \in Nat BY NearIsAddress
  <2>2. 1 \in 1 .. Len(prog.data) BY <1>2
  <2>3. Put(rest, x, cells[x]) =
          IF x \in prog.addr + 1 .. prog.addr + Len(prog.data) - 1
          THEN prog.data[x - prog.addr + 1] ELSE cells[x]
    BY <1>1, <2>1, <2>2, PutWithout
  <2> HIDE DEF rest
  <2>4. CASE x = prog.addr
    <3>1. x - prog.addr + 1 = 1 /\ x \in F!Range(prog) BY <2>4, <1>2
    <3>2. x \notin prog.addr + 1 .. prog.addr + Len(prog.data) - 1 BY <2>4, <1>2
    <3>3. Put(rest, x, cells[x]) = cells[x] BY <2>3, <3>2
    <3>4. Put(prog, x, cells[x]) = prog.data[1] BY <2>4, <3>1 DEF Put
    <3>5. Allowed(x, prog.data[1], cells[x]) BY <2>4, <1>1
    <3> QED BY <3>3, <3>4, <3>5
  <2>5. CASE x # prog.addr
    <3>1. x \in F!Range(prog) <=> x \in prog.addr + 1 .. prog.addr + Len(prog.data) - 1
      BY <2>1, <2>5, <1>2
    <3> QED BY <2>3, <3>1 DEF Put, Allowed
  <2> QED BY <2>4, <2>5
<1>4. ASSUME NEW x \in Near
      PROVE  Allowed(x, expect[x], Put(Later, x, Put(rest, x, cells[x])))
  <2>1. Due(x) = Put(Later, x, Put(prog, x, cells[x])) BY <1>1 DEF Due
  <2>2. Allowed(x, expect[x], Put(Later, x, Put(prog, x, cells[x]))) BY <2>1 DEF SInv, Expected
  <2> DEFINE u == Put(prog, x, cells[x])
             v == Put(rest, x, cells[x])
  <2>3. Allowed(x, u, v) BY <1>3
  <2> HIDE DEF u, v
  <2>4. Allowed(x, Put(Later, x, u), Put(Later, x, v)) BY <2>3 DEF Allowed, Put
  <2>5. Allowed(x, expect[x], Put(Later, x, u)) BY <2>2 DEF u
  <2>6. Allowed(x, expect[x], Put(Later, x, v)) BY <2>4, <2>5, AllowedTwice
  <2> QED BY <2>6 DEF v
<1>5. CASE rest # Nothing /\ pc' = "program" /\ prog' = rest /\ UNCHANGED <<wel, job, buf, locked>>
  <2>1. Len(prog.data) > 1 BY <1>1, <1>2, <1>5, WithoutPiece
  <2>2. Piece(rest) /\ F!Range(rest) = prog.addr + 1 .. prog.addr + Len(prog.data) - 1
    <3>1. 1 \in 1 .. Len(prog.data) /\ 1 < Len(prog.data) BY <1>2, <2>1
    <3> QED BY <1>1, <3>1, WithoutPiece
  <2>3. Len(rest.data) = Len(prog.data) - 1
    <3>0. 1 # Len(prog.data) /\ 1 + 1 = 2
      <4>1. 1 + 1 = 2 OBVIOUS
      <4> QED BY <1>0, <1>2, <2>1, <4>1, Zenon
    <3>1. rest.data = SubSeq(prog.data, 2, Len(prog.data)) BY <3>0 DEF F!Without
    <3>2. \A i \in 2 .. Len(prog.data) : prog.data[i] \in Byte BY <1>2, ElementOfSeq
    <3>3. 2 \in Int /\ Len(prog.data) \in Int BY <1>2
    <3>4. Len(SubSeq(prog.data, 2, Len(prog.data))) =
            IF 2 <= Len(prog.data) THEN Len(prog.data) - 2 + 1 ELSE 0
      BY <3>2, <3>3, SubSeqProperties
    <3> HIDE DEF rest
    <3> QED BY <1>2, <2>1, <3>1, <3>4
  <2>12. rest.addr = prog.addr + 1
    <3>1. 1 # Len(prog.data) BY <1>0, <1>2, <2>1, Zenon
    <3> QED BY <3>1 DEF F!Without
  <2> HIDE DEF rest
  <2>4. TypeOK' BY <1>1, <1>5, <2>2 DEF SInv, TypeOK
  <2>5. F!Range(rest) \subseteq F!Range(prog) \ {prog.addr} BY <1>2, <2>2
  <2>6. ErasedIn(Near \cap F!Range(prog))'
    <3>1. \A x \in Near \cap F!Range(rest) : cells[x] = Erased BY <1>1, <2>5 DEF ErasedIn
    <3> QED BY <3>1, <1>1, <1>5 DEF ErasedIn, Near, F!Range
  <2>7. left' \in 0 .. Len(prog'.data) BY <1>1, <1>2, <1>5, <2>3
  <2>11. /\ InOneSector(rest) /\ rest.addr % SectorSize # 0
    <3>1. rest.addr = prog.addr + 1 BY <1>5, <2>12
    <3>2. SectorSize \in Nat \ {0} /\ prog.addr % SectorSize \in 0 .. SectorSize - 1
      BY <1>2, FlashAssumption, Division
    <3>3. (prog.addr % SectorSize) + 1 < SectorSize
      BY <1>1, <1>2, <2>1, <3>2 DEF InOneSector
    <3>4. (prog.addr + 1) % SectorSize = (prog.addr % SectorSize) + 1
      BY <1>2, <3>2, <3>3, NextInSector
    <3> QED BY <1>1, <1>2, <2>1, <2>3, <3>1, <3>2, <3>4 DEF InOneSector
  <2>8. SPlaces'
    <3>1. InOneSector(prog)' BY <1>5, <2>11 DEF InOneSector
    <3> QED BY <1>1, <1>5, <2>6, <2>7, <2>11, <3>1 DEF SPlaces
  <2>9. \A x \in Near : Due(x)' = Put(Later, x, Put(rest, x, cells[x]))
    BY <1>1, <1>5 DEF Due, Put, Later, F!Range, F!Without, Share, F!Share
  <2>10. Expected'
    <3>1. Near' = Near BY DEF Near
    <3> QED BY <1>1, <1>4, <2>9, <3>1 DEF SInv, Expected, Allowed
  <2> QED BY <2>4, <2>8, <2>10 DEF SInv
<1>6. CASE /\ rest = Nothing /\ wel' = FALSE /\ locked' = TRUE
           /\ prog' = Nothing /\ buf' = NoSector /\ job' = Later
           /\ pc' = IF Later = Nothing THEN "idle" ELSE "read"
  <2>1. Len(prog.data) = 1
    <3>1. ASSUME Len(prog.data) > 1 PROVE FALSE
      <4>1. 1 \in 1 .. Len(prog.data) /\ 1 < Len(prog.data) BY <1>2, <3>1
      <4> QED BY <1>1, <1>6, <4>1, WithoutPiece
    <3> QED BY <1>0, <1>2, <3>1, Zenon
  <2>2. left' = 0 BY <1>1, <2>1
  <2>3. buf' \in [1 .. SectorSize -> Byte] BY <1>6 DEF NoSector, Erased, Byte
  <2>4. job' = Nothing \/ Piece(job')
    <3>1. CASE job = Nothing BY <3>1, <1>6, NothingShare DEF Later
    <3>2. CASE Piece(job)
      <4>1. Len(Share.data) \in 1 .. Len(job.data) /\ Len(job.data) \in Nat
        BY <3>2, ShareFits DEF Piece
      <4>2. Len(Share.data) = Len(job.data) \/ Len(Share.data) < Len(job.data) BY <4>1
      <4> QED BY <4>1, <4>2, <3>2, <1>6, WithoutPiece DEF Later
    <3> QED BY <3>1, <3>2 DEF SInv, TypeOK
  <2>5. TypeOK' BY <2>3, <2>4, <1>1, <1>6 DEF SInv, TypeOK
  <2>6. SPlaces' BY <1>1, <1>6, <2>2 DEF SPlaces
  <2>7. \A x \in Near : Put(rest, x, cells[x]) = cells[x] BY <1>6, PutNothing
  <2>8. \A x \in Near : Due(x)' = Put(Later, x, cells[x]) BY <1>1, <1>6 DEF Due, Put, F!Range
  <2>9. Expected'
    <3>1. Near' = Near BY DEF Near
    <3>2. \A x \in Near : Allowed(x, expect[x], Put(Later, x, cells[x])) BY <1>4, <2>7
    <3> QED BY <1>1, <2>8, <3>1, <3>2 DEF SInv, Expected, Allowed
  <2> QED BY <2>5, <2>6, <2>9 DEF SInv
<1> QED BY <1>5, <1>6 DEF ByteWritten, Later

LEMMA PowerCycleInv ==
  ASSUME SInv, PowerCycle
  PROVE  SInv'
<1>1. /\ cells' \in [Address -> Byte] /\ wel' = FALSE /\ busy' = Idle /\ pc' = "idle"
      /\ job' = Nothing /\ target' = {} /\ buf' = NoSector /\ prog' = Nothing
      /\ left' = 0 /\ locked' = TRUE /\ expect' = [x \in Near |-> cells'[x]]
  BY DEF PowerCycle, Restart
<1>2. TypeOK' BY <1>1 DEF TypeOK, NoSector, Erased, Byte
<1>3. SPlaces' BY <1>1 DEF SPlaces
<1>4. \A x \in Near : Due(x)' = cells'[x] BY <1>1, PutNothing DEF Due
<1>5. Near' = Near BY DEF Near
<1>6. Expected' BY <1>1, <1>4, <1>5 DEF Expected, Allowed
<1> QED BY <1>2, <1>3, <1>6 DEF SInv

LEMMA SNextInv ==
  ASSUME TransferAssumption, SInv, [SNext]_svars
  PROVE  SInv'
<1>1. CASE \E w \in Writes : SWrite(w) BY <1>1, SWriteInv
<1>2. CASE \E a \in Address : SErase(a) BY <1>2, SEraseInv
<1>3. CASE SDriver
  BY <1>3, SReadSectorInv, SWriteEnableInv, SEraseCommandInv, SErasureInv, SFinishInv,
     UnlockInv, StartPageInv, ByteProgramInv, ByteWrittenInv DEF SDriver, Shared
<1>4. CASE UNCHANGED svars
  <2>1. TypeOK' BY <1>4 DEF SInv, TypeOK, svars, vars
  <2>2. SPlaces'
    BY <1>4 DEF SInv, SPlaces, svars, vars, Sector, Offset, Page, ErasedIn, Near, F!Range, InOneSector,
       Allowed
  <2>3. \A x \in Near : Due(x)' = Due(x)
    BY <1>4 DEF svars, vars, Due, Put, Later, F!Range, F!Without, Share, F!Share, Sector, Offset
  <2>5. expect' = expect BY <1>4 DEF svars
  <2>4. Expected' BY <2>3, <2>5, SameDue
  <2> QED BY <2>1, <2>2, <2>4 DEF SInv
<1>5. CASE PowerCycle BY <1>5, PowerCycleInv
<1> QED BY <1>1, <1>2, <1>3, <1>4, <1>5 DEF SNext

LEMMA SInvKeeps ==
  ASSUME TransferAssumption, SInv
  PROVE  NearIsRightOrErased
<1>1. ASSUME pc = "idle", NEW x \in Near
      PROVE  Allowed(x, expect[x], cells[x])
  <2>1. Due(x) = cells[x] BY <1>1, PutNothing DEF SInv, SPlaces, Due
  <2> QED BY <2>1 DEF SInv, Expected
<1> QED BY <1>1 DEF NearIsRightOrErased, Allowed

(* SST25VF: once a call of W25QXX_Write or W25QXX_Erase_Sector has returned, *)
(* no byte that a transfer reaches is garbled: it holds what was written to  *)
(* it last or what the erase left, or is erased, although the bytes beyond   *)
(* the transfer are any (spi_flash.c:107) and the chip ignores all bytes of  *)
(* a series but the first (150); a sector's first byte holds what was        *)
(* written to it.                                                            *)
THEOREM NearIsRightOrErasedHolds ==
  ASSUME TransferAssumption
  PROVE  SSpec => []NearIsRightOrErased
<1>1. SInit => SInv BY SInitInv
<1>2. SInv /\ [SNext]_svars => SInv' BY SNextInv
<1>3. SInv => NearIsRightOrErased BY SInvKeeps
<1> QED BY <1>1, <1>2, <1>3, PTL DEF SSpec
=============================================================================
