------------------------------- MODULE MCFlash -------------------------------
(* One flash of four kinds is driven, each with variables of its own:        *)
(*   "pages"    W25Qxx, two sectors of two pages of two bytes                *)
(*   "sectors"  W25Qxx, three small sectors, writes that span all of them    *)
(*   "restart"  W25Qxx, the processor may restart while the chip works       *)
(*   "sst25"    SST25VF, two sectors of three pages of a byte; a transfer    *)
(*              reaches the first two of the three                           *)
EXTENDS W25Flash

CONSTANTS l_Size, l_SectorSize, l_PageSize, l_MaxWrite,
          r_Size, r_SectorSize, r_PageSize, r_MaxWrite,
          s_Size, s_SectorSize, s_PageSize, s_MaxWrite, s_Transfer

VARIABLES device,
  l_cells, l_wel, l_busy, l_pc, l_job, l_target, l_buf, l_prog,
  r_cells, r_wel, r_busy, r_pc, r_job, r_target, r_buf, r_prog,
  s_cells, s_wel, s_busy, s_pc, s_job, s_target, s_buf, s_prog, s_left, s_locked,
  s_behind, s_wild, s_expect

Sectors == INSTANCE W25Flash WITH
  Size <- l_Size, SectorSize <- l_SectorSize, PageSize <- l_PageSize, MaxWrite <- l_MaxWrite,
  cells <- l_cells, wel <- l_wel, busy <- l_busy, pc <- l_pc, job <-
  l_job, target <- l_target, buf <- l_buf, prog <- l_prog

ASSUME SectorsFit == Sectors!FlashAssumption

Restarted == INSTANCE W25Flash WITH
  Size <- r_Size, SectorSize <- r_SectorSize, PageSize <- r_PageSize, MaxWrite <- r_MaxWrite,
  McuResets <- TRUE,
  cells <- r_cells, wel <- r_wel, busy <- r_busy, pc <- r_pc, job <-
  r_job, target <- r_target, buf <- r_buf, prog <- r_prog

ASSUME RestartedFits == Restarted!FlashAssumption

Sst25 == INSTANCE Sst25Flash WITH
  Size <- s_Size, SectorSize <- s_SectorSize, PageSize <- s_PageSize, MaxWrite <- s_MaxWrite,
  Transfer <- s_Transfer,
  cells <- s_cells, wel <- s_wel, busy <- s_busy, pc <- s_pc, job <-
  s_job, target <- s_target, buf <- s_buf, prog <- s_prog,
  left <- s_left, locked <- s_locked,
  behind <- s_behind, wild <- s_wild, expect <- s_expect

ASSUME Sst25Fits == Sst25!FlashAssumption /\ Sst25!TransferAssumption

l_vars == <<l_cells, l_wel, l_busy, l_pc, l_job, l_target, l_buf, l_prog>>
r_vars == <<r_cells, r_wel, r_busy, r_pc, r_job, r_target, r_buf, r_prog>>
s_vars == <<s_cells, s_wel, s_busy, s_pc, s_job, s_target, s_buf, s_prog, s_left, s_locked,
  s_behind, s_wild, s_expect>>
all == <<device, vars, l_vars, r_vars, s_vars>>

\* A flash that is not driven stays as it was delivered: erased.
Unused(memory, kind) == device # kind => \A x \in DOMAIN memory : memory[x] = Erased

MCInit ==
  /\ device \in {"pages", "sectors", "restart", "sst25"}
  /\ Init /\ Unused(cells, "pages")
  /\ Sectors!Init /\ Unused(l_cells, "sectors")
  /\ Restarted!Init /\ Unused(r_cells, "restart")
  /\ Sst25!SInit /\ Unused(s_cells, "sst25")
  /\ device # "sst25" => s_behind = "g_sector_buff"

PagesDriven == device = "pages" /\ Next /\ UNCHANGED <<device, l_vars, r_vars, s_vars>>
SectorsDriven == device = "sectors" /\ Sectors!Next /\ UNCHANGED <<device, vars, r_vars, s_vars>>
RestartedDriven == device = "restart" /\ Restarted!Next /\ UNCHANGED <<device, vars, l_vars, s_vars>>
Sst25Driven == device = "sst25" /\ Sst25!SNext /\ UNCHANGED <<device, vars, l_vars, r_vars>>

MCNext == PagesDriven \/ SectorsDriven \/ RestartedDriven \/ Sst25Driven

(* As in the specifications of the two drivers; for those whose writes are   *)
(* shown to return.                                                          *)
MCSpec ==
  /\ MCInit /\ [][MCNext]_all
  /\ WF_r_vars(Restarted!Driver) /\ WF_r_vars(Restarted!Finish) /\ WF_s_vars(Sst25!SDriver)

-----------------------------------------------------------------------------
(* The W25Qxx driver implements the abstract memory (W25Flash), also where a *)
(* write covers a sector in the middle whole (w25qxx.c:240).                 *)
DriversImplementMemory == ImplementsMemory /\ Sectors!ImplementsMemory

(* A write returns although the processor restarted while the chip worked,   *)
(* and so does one to the SST25VF, where only the sector buffer is           *)
(* overwritten (w25qxx.c:320, spi_flash.c:94).                               *)
WritesReturn == Restarted!WriteReturns /\ Sst25!SWriteReturns

(* SST25VF: no byte a transfer can reach is ever garbled, although the rest  *)
(* of its sector is (spi_flash.c:107) and most bytes are ignored (150).      *)
NearBytesAreRightOrErased == Sst25!NearIsRightOrErased
=============================================================================
