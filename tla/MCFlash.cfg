SPECIFICATION MCSpec
CONSTANTS
  Bits = {b}
  Size = 8
  SectorSize = 4
  PageSize = 2
  MaxWrite = 3
  McuResets = FALSE
  l_Size = 6
  l_SectorSize = 2
  l_PageSize = 1
  l_MaxWrite = 5
  r_Size = 4
  r_SectorSize = 2
  r_PageSize = 1
  r_MaxWrite = 4
  s_Size = 6
  s_SectorSize = 3
  s_PageSize = 1
  s_MaxWrite = 4
  s_Transfer = 2
INVARIANTS ProgramsErasedCells StaysInPage NearBytesAreRightOrErased
PROPERTIES DriversImplementMemory WritesReturn
