----------------------------- MODULE Sst25Flash -----------------------------
(***************************************************************************)
(* spi_flash.c: the driver of W25Flash on an SST25VF chip, which programs  *)
(* a byte at a time.                                                       *)
(*                                                                         *)
(* All transfers go through g_spi_inout_buff, which holds Transfer bytes   *)
(* after a command and its address; W25QXX_Write reads whole sectors, and  *)
(* SPI_Comm stores what does not fit behind it.  The build decides what    *)
(* that is.  g_sector_buff, declared next, has room for it; but the copy   *)
(* then goes from one place to an overlapping one, and what it makes of    *)
(* the bytes past the transfer is any byte.  Other memory is overwritten:  *)
(* nothing is known then of what runs on, until the power is cycled.       *)
(*                                                                         *)
(* W25QXX_Write_NoCheck enables writing once for all its bytes; the chip   *)
(* the driver identifies (0xBF2541) disables it after each of them.        *)
(***************************************************************************)
EXTENDS W25Flash

CONSTANT Transfer    \* bytes of a read that fit into g_spi_inout_buff

\* What an instance has to respect.
TransferAssumption == Transfer \in Nat

VARIABLES left,      \* bytes of the page still to be programmed
          locked,    \* W25QXX_Write_NoCheck has not enabled writing yet
          behind,    \* what the build has placed behind g_spi_inout_buff
          wild,      \* other memory was overwritten
          expect     \* history: what the first Transfer bytes of every sector should hold

place == <<behind, wild>>
svars == <<vars, left, locked, place, expect>>

Near == {x \in Address : x % SectorSize < Transfer}

SInit ==
  /\ Init /\ left = 0 /\ locked = TRUE
  /\ behind \in {"g_sector_buff", "other"} /\ wild = FALSE
  /\ expect = [x \in Near |-> cells[x]]

SWrite(w) ==
  /\ Write(w)
  /\ expect' = [x \in Near |-> F!Stored(expect, w)[x]]
  /\ UNCHANGED <<left, locked, place>>

\* W25QXX_Erase_Sector, called from outside
SErase(a) ==
  /\ pc = "idle"
  /\ target' = F!InSector(a) /\ pc' = "enable"
  /\ expect' = [x \in Near |-> IF x \in F!InSector(a) THEN Erased ELSE expect[x]]
  /\ UNCHANGED <<chip, job, buf, prog, left, locked, place>>

\* Mutant: one byte more of the sector is lost.
ReadableOneLess(i) == i < Transfer

Readable(i) == i <= Transfer

\* W25QXX_Read of a whole sector, and what W25QXX_Write makes of it.
SReadSector ==
  /\ pc = "read"
  /\ wild' = (behind = "other" /\ SectorSize > Transfer)
  /\ \E spilled \in [{i \in 1 .. SectorSize : ~Readable(i)} -> Byte] :
       buf' = [i \in 1 .. SectorSize |-> IF Readable(i) THEN cells[Sector + i - 1] ELSE spilled[i]]
  /\ \/ Clean(buf') /\ pc' = "program" /\ prog' = Share /\ UNCHANGED target
     \/ ~Clean(buf') /\ pc' = "enable" /\ target' = F!InSector(Sector) /\ UNCHANGED prog
  /\ UNCHANGED <<chip, job, left, locked, behind, expect>>

\* W25QXX_Write_NoCheck: enable, wait, then page after page.
Unlock ==
  /\ pc = "program" /\ locked /\ busy = Idle
  /\ wel' = TRUE /\ locked' = FALSE
  /\ UNCHANGED <<cells, busy, pc, job, target, buf, prog, left, place, expect>>

StartPage ==
  /\ pc = "program" /\ ~locked /\ left = 0
  /\ left' = PageRemain
  /\ UNCHANGED <<vars, locked, place, expect>>

\* W25QXX_Write_Page: one byte, which the chip ignores without its latch, and clears with it.
ByteProgram ==
  /\ pc = "program" /\ left > 0
  /\ busy' = IF wel THEN [op |-> "program",
                          page |-> [addr |-> prog.addr, data |-> SubSeq(prog.data, 1, 1)]]
             ELSE busy
  /\ wel' = FALSE
  /\ pc' = "programmed"
  /\ UNCHANGED <<cells, job, target, buf, prog, left, locked, place, expect>>

\* After W25QXX_Wait_Busy: the next byte, page or sector, or the end.
ByteWritten ==
  /\ pc = "programmed" /\ busy = Idle
  /\ left' = left - 1
  /\ LET rest == F!Without(prog, 1)
         jobs == F!Without(job, Len(Share.data))
     IN \/ /\ rest # Nothing
           /\ pc' = "program" /\ prog' = rest
           /\ UNCHANGED <<wel, job, buf, locked>>
        \/ /\ rest = Nothing
           /\ wel' = FALSE /\ locked' = TRUE     \* W25QXX_Write_Disable
           /\ prog' = Nothing /\ buf' = NoSector /\ job' = jobs
           /\ pc' = IF jobs = Nothing THEN "idle" ELSE "read"
  /\ UNCHANGED <<cells, busy, target, place, expect>>

Shared == (WriteEnable \/ EraseCommand \/ Erasure \/ Finish) /\ UNCHANGED <<left, locked, place, expect>>

SDriver ==
  ~wild /\ (SReadSector \/ Shared \/ Unlock \/ StartPage \/ ByteProgram \/ ByteWritten)

\* Whatever ran on may have left anything in the chip.
PowerCycle ==
  /\ wild
  /\ Restart /\ cells' \in [Address -> Byte] /\ wel' = FALSE /\ busy' = Idle
  /\ left' = 0 /\ locked' = TRUE /\ wild' = FALSE
  /\ expect' = [x \in Near |-> cells'[x]]
  /\ UNCHANGED behind

SNext ==
  \/ \E w \in Writes : SWrite(w)
  \/ \E a \in Address : SErase(a)
  \/ SDriver \/ PowerCycle

\* The driver's loops run on, and the chip gets its work done.
SSpec == SInit /\ [][SNext]_svars /\ WF_svars(SDriver)

-----------------------------------------------------------------------------
(* Once a call has returned, no byte of a sector that a transfer reaches is  *)
(* garbled, whatever the writes and erases before: it holds what was written *)
(* to it last, or is erased, as the bytes after the first of a series are    *)
(* left; and the first byte of a sector, which no series begins before,      *)
(* holds what was written to it.                                             *)
NearIsRightOrErased ==
  pc = "idle" =>
    \A x \in Near : \/ cells[x] = expect[x]
                    \/ cells[x] = Erased /\ x % SectorSize # 0

(* A write returns, unless it has overwritten what it runs on.               *)
SWriteReturns == pc # "idle" ~> pc = "idle" \/ wild
=============================================================================
