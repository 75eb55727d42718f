--------------------------- MODULE MCFlash_proofs ---------------------------
(***************************************************************************)
(* What is proved of the flashes of MCFlash.tla side by side: both W25Qxx, *)
(* whatever their geometry, implement the memory, and the SST25VF garbles  *)
(* no byte that a transfer reaches.  A flash that is not driven does not   *)
(* change; for the one that is, the theorems of Flash_proofs.tla are taken *)
(* over.                                                                   *)
(***************************************************************************)
EXTENDS MCFlash, Flash_proofs

SectorsP == INSTANCE Flash_proofs WITH
  Size <- l_Size, SectorSize <- l_SectorSize, PageSize <- l_PageSize, MaxWrite <- l_MaxWrite,
  cells <- l_cells, wel <- l_wel, busy <- l_busy, pc <- l_pc, job <- l_job, target <- l_target,
  buf <- l_buf, prog <- l_prog

Sst25P == INSTANCE Flash_proofs WITH
  Size <- s_Size, SectorSize <- s_SectorSize, PageSize <- s_PageSize, MaxWrite <- s_MaxWrite,
  Transfer <- s_Transfer,
  cells <- s_cells, wel <- s_wel, busy <- s_busy, pc <- s_pc, job <- s_job, target <- s_target,
  buf <- s_buf, prog <- s_prog, left <- s_left, locked <- s_locked,
  behind <- s_behind, wild <- s_wild, expect <- s_expect

-----------------------------------------------------------------------------
(* The second W25Qxx is one that is proved about                            *)

LEMMA SectorsInit == Sectors!Init = SectorsP!Init
BY DEF Sectors!Init, SectorsP!Init, Sectors!Byte, SectorsP!Byte, Sectors!Erased, SectorsP!Erased,
       Sectors!F!Address, SectorsP!F!Address, Sectors!Address, SectorsP!Address, Sectors!Nothing,
       SectorsP!Nothing, Sectors!F!Nothing, SectorsP!F!Nothing, Sectors!Idle, SectorsP!Idle,
       Sectors!NoSector, SectorsP!NoSector

LEMMA SectorsWrites ==
  /\ Sectors!Writes = SectorsP!Writes
  /\ \A w : Sectors!Write(w) = SectorsP!Write(w)
BY DEF Sectors!Writes, SectorsP!Writes, Sectors!Write, SectorsP!Write, Sectors!chip,
       SectorsP!chip, Sectors!Address, SectorsP!Address, Sectors!F!Address, SectorsP!F!Address,
       Sectors!Byte, SectorsP!Byte

LEMMA SectorsReadSector == Sectors!ReadSector = SectorsP!ReadSector
BY DEF Sectors!ReadSector, SectorsP!ReadSector, Sectors!Clean, SectorsP!Clean, Sectors!chip,
       SectorsP!chip, Sectors!F!InSector, SectorsP!F!InSector, Sectors!Share, SectorsP!Share,
       Sectors!F!Share, SectorsP!F!Share, Sectors!Offset, SectorsP!Offset, Sectors!Sector,
       SectorsP!Sector, Sectors!Byte, SectorsP!Byte, Sectors!Erased, SectorsP!Erased,
       Sectors!F!Address, SectorsP!F!Address, Sectors!Address, SectorsP!Address, Sectors!Nothing,
       SectorsP!Nothing, Sectors!F!Nothing, SectorsP!F!Nothing, Sectors!Idle, SectorsP!Idle,
       Sectors!NoSector, SectorsP!NoSector

LEMMA SectorsErase ==
  /\ Sectors!CallErase = SectorsP!CallErase
  /\ Sectors!WriteEnable = SectorsP!WriteEnable
  /\ Sectors!EraseCommand = SectorsP!EraseCommand
  /\ Sectors!Erasure = SectorsP!Erasure
BY DEF Sectors!CallErase, SectorsP!CallErase, Sectors!WriteEnable, SectorsP!WriteEnable,
       Sectors!EraseCommand, SectorsP!EraseCommand, Sectors!Erasure, SectorsP!Erasure,
       Sectors!Merged, SectorsP!Merged, Sectors!chip, SectorsP!chip, Sectors!F!InSector,
       SectorsP!F!InSector, Sectors!Share, SectorsP!Share, Sectors!F!Share, SectorsP!F!Share,
       Sectors!Offset, SectorsP!Offset, Sectors!Sector, SectorsP!Sector, Sectors!Byte,
       SectorsP!Byte, Sectors!Erased, SectorsP!Erased, Sectors!F!Address, SectorsP!F!Address,
       Sectors!Address, SectorsP!Address, Sectors!Nothing, SectorsP!Nothing, Sectors!F!Nothing,
       SectorsP!F!Nothing, Sectors!Idle, SectorsP!Idle, Sectors!NoSector, SectorsP!NoSector

LEMMA SectorsPages ==
  /\ Sectors!WritePage = SectorsP!WritePage
  /\ Sectors!PageWritten = SectorsP!PageWritten
BY DEF Sectors!WritePage, SectorsP!WritePage, Sectors!PageWritten, SectorsP!PageWritten,
       Sectors!PageRoom, SectorsP!PageRoom, Sectors!PageRemain, SectorsP!PageRemain,
       Sectors!F!Without, SectorsP!F!Without, Sectors!chip, SectorsP!chip, Sectors!Share,
       SectorsP!Share, Sectors!F!Share, SectorsP!F!Share, Sectors!Offset, SectorsP!Offset,
       Sectors!Sector, SectorsP!Sector, Sectors!Byte, SectorsP!Byte, Sectors!Erased,
       SectorsP!Erased, Sectors!F!Address, SectorsP!F!Address, Sectors!Address, SectorsP!Address,
       Sectors!Nothing, SectorsP!Nothing, Sectors!F!Nothing, SectorsP!F!Nothing, Sectors!Idle,
       SectorsP!Idle, Sectors!NoSector, SectorsP!NoSector

LEMMA SectorsRestarts ==
  /\ Sectors!Finish = SectorsP!Finish
  /\ Sectors!PowerLoss = SectorsP!PowerLoss
  /\ Sectors!McuReset = SectorsP!McuReset
BY DEF Sectors!Finish, SectorsP!Finish, Sectors!PowerLoss, SectorsP!PowerLoss, Sectors!McuReset,
       SectorsP!McuReset, Sectors!Worked, SectorsP!Worked, Sectors!Restart, SectorsP!Restart,
       Sectors!F!Range, SectorsP!F!Range, Sectors!chip, SectorsP!chip, Sectors!Byte,
       SectorsP!Byte, Sectors!Erased, SectorsP!Erased, Sectors!F!Address, SectorsP!F!Address,
       Sectors!Address, SectorsP!Address, Sectors!Nothing, SectorsP!Nothing, Sectors!F!Nothing,
       SectorsP!F!Nothing, Sectors!Idle, SectorsP!Idle, Sectors!NoSector, SectorsP!NoSector

LEMMA SectorsNext == Sectors!Next = SectorsP!Next
BY SectorsWrites, SectorsReadSector, SectorsErase, SectorsPages, SectorsRestarts
   DEF Sectors!Next, SectorsP!Next, Sectors!Driver, SectorsP!Driver

LEMMA SectorsMemoryInit == Sectors!Memory!Init = SectorsP!Memory!Init
BY DEF Sectors!Memory!Init, SectorsP!Memory!Init, Sectors!Memory!Address, SectorsP!Memory!Address,
       Sectors!Memory!InSector, SectorsP!Memory!InSector, Sectors!Memory!Nothing,
       SectorsP!Memory!Nothing, Sectors!Memory!Range, SectorsP!Memory!Range,
       Sectors!Memory!Stored, SectorsP!Memory!Stored, Sectors!Memory!Share, SectorsP!Memory!Share,
       Sectors!Memory!Without, SectorsP!Memory!Without, Sectors!Working, SectorsP!Working,
       Sectors!View, SectorsP!View, Sectors!Merged, SectorsP!Merged, Sectors!F!Stored,
       SectorsP!F!Stored, Sectors!F!Without, SectorsP!F!Without, Sectors!F!Range,
       SectorsP!F!Range, Sectors!Share, SectorsP!Share, Sectors!F!Share, SectorsP!F!Share,
       Sectors!Offset, SectorsP!Offset, Sectors!Sector, SectorsP!Sector, Sectors!Byte,
       SectorsP!Byte, Sectors!Erased, SectorsP!Erased, Sectors!F!Address, SectorsP!F!Address,
       Sectors!Address, SectorsP!Address, Sectors!Nothing, SectorsP!Nothing, Sectors!F!Nothing,
       SectorsP!F!Nothing, Sectors!Idle, SectorsP!Idle, Sectors!NoSector, SectorsP!NoSector

LEMMA SectorsMemoryStart == Sectors!Memory!Start = SectorsP!Memory!Start
BY DEF Sectors!Memory!Start, SectorsP!Memory!Start, Sectors!Memory!Address,
       SectorsP!Memory!Address, Sectors!Memory!InSector, SectorsP!Memory!InSector,
       Sectors!Memory!Nothing, SectorsP!Memory!Nothing, Sectors!Memory!Range,
       SectorsP!Memory!Range, Sectors!Memory!Stored, SectorsP!Memory!Stored, Sectors!Memory!Share,
       SectorsP!Memory!Share, Sectors!Memory!Without, SectorsP!Memory!Without, Sectors!Working,
       SectorsP!Working, Sectors!View, SectorsP!View, Sectors!Merged, SectorsP!Merged,
       Sectors!F!Stored, SectorsP!F!Stored, Sectors!F!Without, SectorsP!F!Without,
       Sectors!F!Range, SectorsP!F!Range, Sectors!Share, SectorsP!Share, Sectors!F!Share,
       SectorsP!F!Share, Sectors!Offset, SectorsP!Offset, Sectors!Sector, SectorsP!Sector,
       Sectors!Byte, SectorsP!Byte, Sectors!Erased, SectorsP!Erased, Sectors!F!Address,
       SectorsP!F!Address, Sectors!Address, SectorsP!Address, Sectors!Nothing, SectorsP!Nothing,
       Sectors!F!Nothing, SectorsP!F!Nothing, Sectors!Idle, SectorsP!Idle, Sectors!NoSector,
       SectorsP!NoSector

LEMMA SectorsMemoryPiece == Sectors!Memory!Piece = SectorsP!Memory!Piece
BY DEF Sectors!Memory!Piece, SectorsP!Memory!Piece, Sectors!Memory!Address,
       SectorsP!Memory!Address, Sectors!Memory!InSector, SectorsP!Memory!InSector,
       Sectors!Memory!Nothing, SectorsP!Memory!Nothing, Sectors!Memory!Range,
       SectorsP!Memory!Range, Sectors!Memory!Stored, SectorsP!Memory!Stored, Sectors!Memory!Share,
       SectorsP!Memory!Share, Sectors!Memory!Without, SectorsP!Memory!Without, Sectors!Working,
       SectorsP!Working, Sectors!View, SectorsP!View, Sectors!Merged, SectorsP!Merged,
       Sectors!F!Stored, SectorsP!F!Stored, Sectors!F!Without, SectorsP!F!Without,
       Sectors!F!Range, SectorsP!F!Range, Sectors!Share, SectorsP!Share, Sectors!F!Share,
       SectorsP!F!Share, Sectors!Offset, SectorsP!Offset, Sectors!Sector, SectorsP!Sector,
       Sectors!Byte, SectorsP!Byte, Sectors!Erased, SectorsP!Erased, Sectors!F!Address,
       SectorsP!F!Address, Sectors!Address, SectorsP!Address, Sectors!Nothing, SectorsP!Nothing,
       Sectors!F!Nothing, SectorsP!F!Nothing, Sectors!Idle, SectorsP!Idle, Sectors!NoSector,
       SectorsP!NoSector

LEMMA SectorsMemoryErase == Sectors!Memory!Erase = SectorsP!Memory!Erase
BY DEF Sectors!Memory!Erase, SectorsP!Memory!Erase, Sectors!Memory!Address,
       SectorsP!Memory!Address, Sectors!Memory!InSector, SectorsP!Memory!InSector,
       Sectors!Memory!Nothing, SectorsP!Memory!Nothing, Sectors!Memory!Range,
       SectorsP!Memory!Range, Sectors!Memory!Stored, SectorsP!Memory!Stored, Sectors!Memory!Share,
       SectorsP!Memory!Share, Sectors!Memory!Without, SectorsP!Memory!Without, Sectors!Working,
       SectorsP!Working, Sectors!View, SectorsP!View, Sectors!Merged, SectorsP!Merged,
       Sectors!F!Stored, SectorsP!F!Stored, Sectors!F!Without, SectorsP!F!Without,
       Sectors!F!Range, SectorsP!F!Range, Sectors!Share, SectorsP!Share, Sectors!F!Share,
       SectorsP!F!Share, Sectors!Offset, SectorsP!Offset, Sectors!Sector, SectorsP!Sector,
       Sectors!Byte, SectorsP!Byte, Sectors!Erased, SectorsP!Erased, Sectors!F!Address,
       SectorsP!F!Address, Sectors!Address, SectorsP!Address, Sectors!Nothing, SectorsP!Nothing,
       Sectors!F!Nothing, SectorsP!F!Nothing, Sectors!Idle, SectorsP!Idle, Sectors!NoSector,
       SectorsP!NoSector

LEMMA SectorsMemorySettle == Sectors!Memory!Settle = SectorsP!Memory!Settle
BY DEF Sectors!Memory!Settle, SectorsP!Memory!Settle, Sectors!Memory!Address,
       SectorsP!Memory!Address, Sectors!Memory!InSector, SectorsP!Memory!InSector,
       Sectors!Memory!Nothing, SectorsP!Memory!Nothing, Sectors!Memory!Range,
       SectorsP!Memory!Range, Sectors!Memory!Stored, SectorsP!Memory!Stored, Sectors!Memory!Share,
       SectorsP!Memory!Share, Sectors!Memory!Without, SectorsP!Memory!Without, Sectors!Working,
       SectorsP!Working, Sectors!View, SectorsP!View, Sectors!Merged, SectorsP!Merged,
       Sectors!F!Stored, SectorsP!F!Stored, Sectors!F!Without, SectorsP!F!Without,
       Sectors!F!Range, SectorsP!F!Range, Sectors!Share, SectorsP!Share, Sectors!F!Share,
       SectorsP!F!Share, Sectors!Offset, SectorsP!Offset, Sectors!Sector, SectorsP!Sector,
       Sectors!Byte, SectorsP!Byte, Sectors!Erased, SectorsP!Erased, Sectors!F!Address,
       SectorsP!F!Address, Sectors!Address, SectorsP!Address, Sectors!Nothing, SectorsP!Nothing,
       Sectors!F!Nothing, SectorsP!F!Nothing, Sectors!Idle, SectorsP!Idle, Sectors!NoSector,
       SectorsP!NoSector

LEMMA SectorsMemoryPowerLoss == Sectors!Memory!PowerLoss = SectorsP!Memory!PowerLoss
BY DEF Sectors!Memory!PowerLoss, SectorsP!Memory!PowerLoss, Sectors!Memory!Address,
       SectorsP!Memory!Address, Sectors!Memory!InSector, SectorsP!Memory!InSector,
       Sectors!Memory!Nothing, SectorsP!Memory!Nothing, Sectors!Memory!Range,
       SectorsP!Memory!Range, Sectors!Memory!Stored, SectorsP!Memory!Stored, Sectors!Memory!Share,
       SectorsP!Memory!Share, Sectors!Memory!Without, SectorsP!Memory!Without, Sectors!Working,
       SectorsP!Working, Sectors!View, SectorsP!View, Sectors!Merged, SectorsP!Merged,
       Sectors!F!Stored, SectorsP!F!Stored, Sectors!F!Without, SectorsP!F!Without,
       Sectors!F!Range, SectorsP!F!Range, Sectors!Share, SectorsP!Share, Sectors!F!Share,
       SectorsP!F!Share, Sectors!Offset, SectorsP!Offset, Sectors!Sector, SectorsP!Sector,
       Sectors!Byte, SectorsP!Byte, Sectors!Erased, SectorsP!Erased, Sectors!F!Address,
       SectorsP!F!Address, Sectors!Address, SectorsP!Address, Sectors!Nothing, SectorsP!Nothing,
       Sectors!F!Nothing, SectorsP!F!Nothing, Sectors!Idle, SectorsP!Idle, Sectors!NoSector,
       SectorsP!NoSector

LEMMA SectorsMemoryNext == Sectors!Memory!Next = SectorsP!Memory!Next
BY SectorsMemoryStart, SectorsMemoryPiece, SectorsMemoryErase, SectorsMemorySettle, SectorsMemoryPowerLoss
   DEF Sectors!Memory!Next, SectorsP!Memory!Next

LEMMA SectorsMemoryVars == Sectors!Memory!vars = SectorsP!Memory!vars
BY DEF Sectors!Memory!vars, SectorsP!Memory!vars, Sectors!Working, SectorsP!Working, Sectors!View,
       SectorsP!View, Sectors!Merged, SectorsP!Merged, Sectors!F!Stored, SectorsP!F!Stored,
       Sectors!F!Without, SectorsP!F!Without, Sectors!F!Range, SectorsP!F!Range, Sectors!Share,
       SectorsP!Share, Sectors!F!Share, SectorsP!F!Share, Sectors!Offset, SectorsP!Offset,
       Sectors!Sector, SectorsP!Sector, Sectors!Byte, SectorsP!Byte, Sectors!Erased,
       SectorsP!Erased, Sectors!F!Address, SectorsP!F!Address, Sectors!Address, SectorsP!Address,
       Sectors!Nothing, SectorsP!Nothing, Sectors!F!Nothing, SectorsP!F!Nothing, Sectors!Idle,
       SectorsP!Idle, Sectors!NoSector, SectorsP!NoSector

-----------------------------------------------------------------------------
(* The SST25VF is the one that is proved about                               *)

LEMMA Sst25Init == Sst25!SInit = Sst25P!SInit
BY DEF Sst25!SInit, Sst25P!SInit, Sst25!Init, Sst25P!Init, Sst25!Near, Sst25P!Near, Sst25!Byte,
       Sst25P!Byte, Sst25!Erased, Sst25P!Erased, Sst25!F!Address, Sst25P!F!Address, Sst25!Address,
       Sst25P!Address, Sst25!Nothing, Sst25P!Nothing, Sst25!F!Nothing, Sst25P!F!Nothing,
       Sst25!Idle, Sst25P!Idle, Sst25!NoSector, Sst25P!NoSector

LEMMA Sst25Calls ==
  /\ Sst25!Writes = Sst25P!Writes
  /\ \A w : Sst25!SWrite(w) = Sst25P!SWrite(w)
  /\ \A a : Sst25!SErase(a) = Sst25P!SErase(a)
BY DEF Sst25!Writes, Sst25P!Writes, Sst25!SWrite, Sst25P!SWrite, Sst25!SErase, Sst25P!SErase,
       Sst25!Write, Sst25P!Write, Sst25!Near, Sst25P!Near, Sst25!F!Stored, Sst25P!F!Stored,
       Sst25!F!Range, Sst25P!F!Range, Sst25!F!InSector, Sst25P!F!InSector, Sst25!Byte,
       Sst25P!Byte, Sst25!Erased, Sst25P!Erased, Sst25!F!Address, Sst25P!F!Address, Sst25!Address,
       Sst25P!Address, Sst25!Nothing, Sst25P!Nothing, Sst25!F!Nothing, Sst25P!F!Nothing,
       Sst25!Idle, Sst25P!Idle, Sst25!NoSector, Sst25P!NoSector, Sst25!chip, Sst25P!chip,
       Sst25!place, Sst25P!place

LEMMA Sst25Read == Sst25!SReadSector = Sst25P!SReadSector
BY DEF Sst25!SReadSector, Sst25P!SReadSector, Sst25!Readable, Sst25P!Readable, Sst25!Clean,
       Sst25P!Clean, Sst25!F!InSector, Sst25P!F!InSector, Sst25!Share, Sst25P!Share,
       Sst25!F!Share, Sst25P!F!Share, Sst25!Offset, Sst25P!Offset, Sst25!Sector, Sst25P!Sector,
       Sst25!Byte, Sst25P!Byte, Sst25!Erased, Sst25P!Erased, Sst25!F!Address, Sst25P!F!Address,
       Sst25!Address, Sst25P!Address, Sst25!Nothing, Sst25P!Nothing, Sst25!F!Nothing,
       Sst25P!F!Nothing, Sst25!Idle, Sst25P!Idle, Sst25!NoSector, Sst25P!NoSector, Sst25!chip,
       Sst25P!chip

LEMMA Sst25Erases ==
  /\ Sst25!WriteEnable = Sst25P!WriteEnable
  /\ Sst25!EraseCommand = Sst25P!EraseCommand
  /\ Sst25!Erasure = Sst25P!Erasure
  /\ Sst25!Finish = Sst25P!Finish
BY DEF Sst25!WriteEnable, Sst25P!WriteEnable, Sst25!EraseCommand, Sst25P!EraseCommand,
       Sst25!Erasure, Sst25P!Erasure, Sst25!Merged, Sst25P!Merged, Sst25!Finish, Sst25P!Finish,
       Sst25!Worked, Sst25P!Worked, Sst25!F!Range, Sst25P!F!Range, Sst25!F!InSector,
       Sst25P!F!InSector, Sst25!Share, Sst25P!Share, Sst25!F!Share, Sst25P!F!Share, Sst25!Offset,
       Sst25P!Offset, Sst25!Sector, Sst25P!Sector, Sst25!Byte, Sst25P!Byte, Sst25!Erased,
       Sst25P!Erased, Sst25!F!Address, Sst25P!F!Address, Sst25!Address, Sst25P!Address,
       Sst25!Nothing, Sst25P!Nothing, Sst25!F!Nothing, Sst25P!F!Nothing, Sst25!Idle, Sst25P!Idle,
       Sst25!NoSector, Sst25P!NoSector, Sst25!chip, Sst25P!chip

LEMMA Sst25Programs ==
  /\ Sst25!Unlock = Sst25P!Unlock
  /\ Sst25!StartPage = Sst25P!StartPage
  /\ Sst25!ByteProgram = Sst25P!ByteProgram
  /\ Sst25!ByteWritten = Sst25P!ByteWritten
BY DEF Sst25!Unlock, Sst25P!Unlock, Sst25!StartPage, Sst25P!StartPage, Sst25!ByteProgram,
       Sst25P!ByteProgram, Sst25!ByteWritten, Sst25P!ByteWritten, Sst25!PageRoom, Sst25P!PageRoom,
       Sst25!PageRemain, Sst25P!PageRemain, Sst25!F!Without, Sst25P!F!Without, Sst25!vars,
       Sst25P!vars, Sst25!Share, Sst25P!Share, Sst25!F!Share, Sst25P!F!Share, Sst25!Offset,
       Sst25P!Offset, Sst25!Sector, Sst25P!Sector, Sst25!Byte, Sst25P!Byte, Sst25!Erased,
       Sst25P!Erased, Sst25!F!Address, Sst25P!F!Address, Sst25!Address, Sst25P!Address,
       Sst25!Nothing, Sst25P!Nothing, Sst25!F!Nothing, Sst25P!F!Nothing, Sst25!Idle, Sst25P!Idle,
       Sst25!NoSector, Sst25P!NoSector, Sst25!chip, Sst25P!chip,
       Sst25!place, Sst25P!place

LEMMA Sst25PowerCycle == Sst25!PowerCycle = Sst25P!PowerCycle
BY DEF Sst25!PowerCycle, Sst25P!PowerCycle, Sst25!Restart, Sst25P!Restart, Sst25!Near,
       Sst25P!Near, Sst25!Byte, Sst25P!Byte, Sst25!Erased, Sst25P!Erased, Sst25!F!Address,
       Sst25P!F!Address, Sst25!Address, Sst25P!Address, Sst25!Nothing, Sst25P!Nothing,
       Sst25!F!Nothing, Sst25P!F!Nothing, Sst25!Idle, Sst25P!Idle, Sst25!NoSector, Sst25P!NoSector

LEMMA Sst25Next ==
  /\ Sst25!SNext = Sst25P!SNext
  /\ Sst25!NearIsRightOrErased = Sst25P!NearIsRightOrErased
<1>1. Sst25!Address = Sst25P!Address
  BY DEF Sst25!Address, Sst25P!Address, Sst25!F!Address, Sst25P!F!Address
<1>2. Sst25!SDriver = Sst25P!SDriver
  BY Sst25Read, Sst25Erases, Sst25Programs
     DEF Sst25!SDriver, Sst25P!SDriver, Sst25!Shared, Sst25P!Shared, Sst25!place, Sst25P!place
<1>3. Sst25!SNext = Sst25P!SNext
  BY <1>1, <1>2, Sst25Calls, Sst25PowerCycle DEF Sst25!SNext, Sst25P!SNext
<1>4. Sst25!NearIsRightOrErased = Sst25P!NearIsRightOrErased
  BY <1>1 DEF Sst25!NearIsRightOrErased, Sst25P!NearIsRightOrErased, Sst25!Near, Sst25P!Near,
     Sst25!Erased, Sst25P!Erased
<1> QED
  BY <1>3, <1>4

-----------------------------------------------------------------------------
(* Side by side                                                              *)

LEMMA Fits ==
  /\ SectorsP!FlashAssumption
  /\ Sst25P!FlashAssumption /\ Sst25P!TransferAssumption
BY SectorsFit, Sst25Fits
   DEF Sectors!FlashAssumption, SectorsP!FlashAssumption, Sst25!FlashAssumption,
       Sst25P!FlashAssumption, Sst25!TransferAssumption, Sst25P!TransferAssumption

LEMMA PagesAlone == [MCNext]_all => [Next]_vars
BY DEF MCNext, PagesDriven, SectorsDriven, RestartedDriven, Sst25Driven, all, vars

LEMMA SectorsAlone == [MCNext]_all => [SectorsP!Next]_(SectorsP!vars)
<1>1. UNCHANGED l_vars => UNCHANGED SectorsP!vars
  BY DEF l_vars, SectorsP!vars
<1> QED
  BY <1>1, SectorsNext DEF MCNext, PagesDriven, SectorsDriven, RestartedDriven, Sst25Driven, all

LEMMA Sst25Alone == [MCNext]_all => [Sst25P!SNext]_(Sst25P!svars)
<1>1. UNCHANGED s_vars => UNCHANGED Sst25P!svars
  BY DEF s_vars, Sst25P!svars, Sst25P!vars, Sst25P!place
<1> QED
  BY <1>1, Sst25Next DEF MCNext, PagesDriven, SectorsDriven, RestartedDriven, Sst25Driven, all

(* Both W25Qxx drivers implement the memory, whatever their geometries: a    *)
(* write changes exactly the bytes it was given, also where it covers        *)
(* sectors whole, and a power loss at any step spoils the sector being       *)
(* rewritten at most (w25qxx.c:240): as long as the processor does not       *)
(* restart while the chip works.                                             *)
THEOREM DriversImplementMemoryHolds ==
  ASSUME ~McuResets
  PROVE  MCSpec => DriversImplementMemory
<1>1. Init => Inv /\ Copies /\ Memory!Init
  BY InitInv, InitStep
<1>2. Inv /\ Copies /\ [MCNext]_all => Inv' /\ Copies' /\ Memory!Next
  BY PagesAlone, NextInv, NextStep
<1>3. Sectors!Init => SectorsP!Inv /\ SectorsP!Copies /\ Sectors!Memory!Init
  BY Fits, SectorsInit, SectorsMemoryInit, SectorsP!InitInv, SectorsP!InitStep
<1>4. SectorsP!Inv /\ SectorsP!Copies /\ [MCNext]_all =>
        SectorsP!Inv' /\ SectorsP!Copies' /\ [Sectors!Memory!Next]_(Sectors!Memory!vars)
  BY Fits, SectorsAlone, SectorsMemoryNext, SectorsP!NextInv, SectorsP!NextStep
<1> QED
  BY <1>1, <1>2, <1>3, <1>4, PTL
     DEF MCSpec, MCInit, DriversImplementMemory, ImplementsMemory, Sectors!ImplementsMemory,
         Memory!Spec, Sectors!Memory!Spec

(* SST25VF: once a call has returned, no byte of a sector that a transfer    *)
(* reaches is garbled: it holds what was written to it last or what the      *)
(* erase left, or is erased, although the bytes beyond the transfer are any  *)
(* (spi_flash.c:107) and most bytes of a series are ignored (150).           *)
THEOREM NearBytesAreRightOrErasedHolds == MCSpec => []NearBytesAreRightOrErased
<1>1. Sst25!SInit => Sst25P!SInv
  BY Fits, Sst25Init, Sst25P!SInitInv
<1>2. Sst25P!SInv /\ [MCNext]_all => Sst25P!SInv'
  BY Fits, Sst25Alone, Sst25P!SNextInv
<1>3. Sst25P!SInv => NearBytesAreRightOrErased
  BY Fits, Sst25Next, Sst25P!SInvKeeps DEF NearBytesAreRightOrErased
<1> QED
  BY <1>1, <1>2, <1>3, PTL DEF MCSpec, MCInit
=============================================================================
