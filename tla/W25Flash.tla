------------------------------ MODULE W25Flash ------------------------------
(***************************************************************************)
(* w25qxx.c: writing bytes to a NOR flash that programs bits one way, a    *)
(* page at a time, and erases them the other way, a sector at a time.      *)
(*                                                                         *)
(* W25QXX_Write reads a sector, erases it if a byte to be written is not   *)
(* erased, and programs it back whole.  The chip (external) goes on with   *)
(* an erase or a page while the driver polls its BUSY bit; it ignores any  *)
(* other command meanwhile, and a read then returns what the bus gives.    *)
(* A byte is the set of its bits that are 0: programming is union.         *)
(***************************************************************************)
EXTENDS Naturals, Sequences

CONSTANTS Bits,        \* the bits of a byte
          Size, SectorSize, PageSize,   \* 4096 and 256 in the code
          MaxWrite,    \* bound on NumByteToWrite, at least 1 as used
          McuResets    \* may the processor restart while the chip keeps its power

ASSUME FlashAssumption ==
  /\ PageSize \in Nat \ {0} /\ SectorSize \in Nat \ {0} /\ Size \in Nat \ {0}
  /\ SectorSize % PageSize = 0 /\ Size % SectorSize = 0
  /\ MaxWrite \in Nat
  /\ McuResets \in BOOLEAN

Byte == SUBSET Bits
Erased == {}

VARIABLES cells, wel, busy,   \* the chip: its memory, its write enable latch, its work
          pc,                 \* where the driver is
          job,                \* WriteAddr, and NumByteToWrite bytes at pBuffer, of W25QXX_Write
          target,             \* the cells to erase
          buf,                \* W25QXX_BUFFER
          prog                \* WriteAddr, NumByteToWrite and pBuffer of W25QXX_Write_NoCheck

vars == <<cells, wel, busy, pc, job, target, buf, prog>>
chip == <<cells, wel, busy>>

F == INSTANCE FlashMemory WITH mem <- cells, todo <- job, open <- target
Address == F!Address
Nothing == F!Nothing

Idle == [op |-> "none"]
NoSector == [i \in 1 .. SectorSize |-> Erased]

Init ==   \* W25QXX_Init does not touch the memory
  /\ cells \in [Address -> Byte] /\ wel = FALSE /\ busy = Idle
  /\ pc = "idle" /\ job = Nothing /\ target = {} /\ buf = NoSector /\ prog = Nothing

-----------------------------------------------------------------------------
(* The chip *)

\* What the work under way makes of the memory.
Worked ==
  IF busy.op = "erase"
    THEN [x \in Address |-> IF x \in busy.area THEN Erased ELSE cells[x]]
  ELSE [x \in Address |->
          IF x \in F!Range(busy.page) THEN cells[x] \cup busy.page.data[x - busy.page.addr + 1]
          ELSE cells[x]]

Finish ==
  /\ busy # Idle
  /\ cells' = Worked /\ busy' = Idle
  /\ UNCHANGED <<wel, pc, job, target, buf, prog>>

-----------------------------------------------------------------------------
(* W25QXX_Write *)

Write(w) ==
  /\ pc = "idle"
  /\ job' = w /\ pc' = "read"
  /\ UNCHANGED <<chip, target, buf, prog>>

Share == F!Share(job)
Offset == job.addr % SectorSize
Sector == job.addr - Offset

\* Mutant: the last byte is not looked at.
CleanButLast(b) == \A i \in 1 .. Len(Share.data) - 1 : b[Offset + i] = Erased

\* No byte to be written needs an erase.
Clean(b) == \A i \in 1 .. Len(Share.data) : b[Offset + i] = Erased

\* W25QXX_Read does not ask whether the chip is busy.
ReadSector ==
  /\ pc = "read"
  /\ buf' \in IF busy = Idle THEN {[i \in 1 .. SectorSize |-> cells[Sector + i - 1]]}
              ELSE [1 .. SectorSize -> Byte]
  /\ \/ /\ Clean(buf')
        /\ pc' = "program" /\ prog' = Share
        /\ UNCHANGED target
     \/ /\ ~Clean(buf')
        /\ pc' = "enable" /\ target' = F!InSector(Sector)
        /\ UNCHANGED prog
  /\ UNCHANGED <<chip, job>>

(* W25QXX_Erase_Sector and W25QXX_Erase_Chip, called by W25QXX_Write or not  *)

CallErase ==
  /\ pc = "idle"
  /\ target' = Address \/ \E a \in Address : target' = F!InSector(a)
  /\ pc' = "enable"
  /\ UNCHANGED <<chip, job, buf, prog>>

WriteEnable ==
  /\ pc = "enable"
  /\ wel' = (wel \/ busy = Idle)
  /\ pc' = "erase"
  /\ UNCHANGED <<cells, busy, job, target, buf, prog>>

\* W25QXX_Wait_Busy, and the command, which the chip ignores without its latch.
EraseCommand ==
  /\ pc = "erase" /\ busy = Idle
  /\ busy' = IF wel THEN [op |-> "erase", area |-> target] ELSE Idle
  /\ wel' = FALSE
  /\ pc' = "erased"
  /\ UNCHANGED <<cells, job, target, buf, prog>>

\* Mutant: one byte too many is taken from pBuffer's place.
MergedLate ==
  [i \in 1 .. SectorSize |->
     IF i > Offset + 1 /\ i <= Offset + Len(Share.data) THEN Share.data[i - Offset] ELSE buf[i]]

Merged ==
  [i \in 1 .. SectorSize |->
     IF i > Offset /\ i <= Offset + Len(Share.data) THEN Share.data[i - Offset] ELSE buf[i]]

Erasure ==
  /\ pc = "erased" /\ busy = Idle
  /\ target' = {}
  /\ \/ /\ job = Nothing
        /\ pc' = "idle"
        /\ UNCHANGED <<buf, prog>>
     \/ /\ job # Nothing
        /\ buf' = Merged
        /\ pc' = "program" /\ prog' = [addr |-> Sector, data |-> Merged]
  /\ UNCHANGED <<chip, job>>

(* W25QXX_Write_NoCheck *)

\* Mutants: the place in the page is ignored; a page boundary leaves no room.
PageRoomWhole(a) == PageSize
PageRoomNone(a) == (PageSize - (a % PageSize)) % PageSize

PageRoom(a) == PageSize - (a % PageSize)

PageRemain ==
  IF Len(prog.data) <= PageRoom(prog.addr) THEN Len(prog.data) ELSE PageRoom(prog.addr)

\* W25QXX_Write_Page: write enable and page program, with no wait between.
WritePage ==
  /\ pc = "program"
  /\ busy' = IF busy = Idle
             THEN [op |-> "program",
                   page |-> [addr |-> prog.addr, data |-> SubSeq(prog.data, 1, PageRemain)]]
             ELSE busy
  /\ wel' = FALSE
  /\ pc' = "programmed"
  /\ UNCHANGED <<cells, job, target, buf, prog>>

\* Mutant: W25QXX_Write_Page does not wait for its end.
PageWrittenEarly ==
  /\ pc = "programmed"
  /\ LET rest == F!Without(prog, PageRemain)
         jobs == F!Without(job, Len(Share.data))
     IN \/ /\ rest # Nothing
           /\ pc' = "program" /\ prog' = rest
           /\ UNCHANGED <<job, buf>>
        \/ /\ rest = Nothing
           /\ prog' = Nothing /\ buf' = NoSector
           /\ job' = jobs
           /\ pc' = IF jobs = Nothing THEN "idle" ELSE "read"
  /\ UNCHANGED <<chip, target>>

\* After W25QXX_Wait_Busy: the next page, the next sector, or the end.
PageWritten ==
  /\ pc = "programmed" /\ busy = Idle
  /\ LET rest == F!Without(prog, PageRemain)
         jobs == F!Without(job, Len(Share.data))
     IN \/ /\ rest # Nothing
           /\ pc' = "program" /\ prog' = rest
           /\ UNCHANGED <<job, buf>>
        \/ /\ rest = Nothing
           /\ prog' = Nothing /\ buf' = NoSector   \* every call reads buf before it uses it
           /\ job' = jobs
           /\ pc' = IF jobs = Nothing THEN "idle" ELSE "read"
  /\ UNCHANGED <<chip, target>>

-----------------------------------------------------------------------------
(* Restarts *)

Restart ==
  /\ pc' = "idle" /\ job' = Nothing /\ target' = {} /\ buf' = NoSector /\ prog' = Nothing

\* Work under way leaves every cell it touches as it was, as it was to be, or between.
PowerLoss ==
  /\ Restart
  /\ wel' = FALSE /\ busy' = Idle
  /\ IF busy = Idle THEN UNCHANGED cells
     ELSE /\ cells' \in [Address -> Byte]
          /\ \A x \in Address : /\ cells[x] \cap Worked[x] \subseteq cells'[x]
                                /\ cells'[x] \subseteq cells[x] \cup Worked[x]

McuReset == McuResets /\ pc # "idle" /\ Restart /\ UNCHANGED chip

Driver ==
  \/ ReadSector \/ WriteEnable \/ EraseCommand \/ Erasure \/ WritePage \/ PageWritten

Writes ==
  {w \in [addr : Address, data : UNION {[1 .. n -> Byte] : n \in 1 .. MaxWrite}] :
     w.addr + Len(w.data) <= Size}

Next ==
  \/ \E w \in Writes : Write(w)
  \/ CallErase \/ Driver \/ Finish \/ PowerLoss \/ McuReset

\* The driver's loops run on, and the chip gets its work done.
Spec == Init /\ [][Next]_vars /\ WF_vars(Driver) /\ WF_vars(Finish)

-----------------------------------------------------------------------------
(* What the memory is to become once the driver is through with the sector   *)
(* it works on, and the cells it may lose until then.                        *)

Working == pc \in {"erased", "program", "programmed"}

View ==
  IF pc = "erased" THEN
    IF job = Nothing THEN [x \in Address |-> IF x \in target THEN Erased ELSE cells[x]]
    ELSE F!Stored(cells, [addr |-> Sector, data |-> Merged])
  ELSE F!Stored(cells, prog)

Memory == INSTANCE FlashMemory WITH
  mem <- View,
  todo <- IF Working /\ job # Nothing THEN F!Without(job, Len(Share.data)) ELSE job,
  open <- (IF pc = "erased" THEN target ELSE {}) \cup F!Range(prog)

(* W25QXX_Write changes exactly the bytes it was given, whatever the sector  *)
(* held, whatever its alignment; a power loss at any step spoils at most the *)
(* sector being rewritten, or only the bytes being written if it was clean.  *)
ImplementsMemory == Memory!Spec

(* "Make sure the range is all 0xFF, otherwise the write fails where it is   *)
(* not" (206): Write_NoCheck is only called on erased cells.                 *)
ProgramsErasedCells ==
  busy # Idle /\ busy.op = "program" => \A x \in F!Range(busy.page) : cells[x] = Erased

(* "The number should not exceed the bytes left in the page" (187): a page   *)
(* program never runs over the page's end, where the chip would wrap around. *)
StaysInPage ==
  busy # Idle /\ busy.op = "program" =>
    \A x, y \in F!Range(busy.page) : x \div PageSize = y \div PageSize

(* A write returns: its loops over sectors and pages end.                    *)
WriteReturns == pc # "idle" ~> pc = "idle"
=============================================================================
