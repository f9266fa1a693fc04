SPECIFICATION Spec
CONSTANTS
  Files = {f, g}
  Faults = {"crash", "crashInWrite", "writeFails", "torn", "emptyFile"}
  MaxEntries = 6
SYMMETRY Symmetry
INVARIANTS DiskMatchesMemory StoreHoldsSessions AckedIsKept
PROPERTIES DiskAppendOnly
CHECK_DEADLOCK FALSE
