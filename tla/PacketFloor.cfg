SPECIFICATION PacketSpec
CONSTANTS
  a1 = a1  a2 = a2
  Attempts <- Both
  Size <- OneAndTwo
  Space = 3
  MinFree = 1
  MaxRounds = 3
  GateMarks = {"red"}
  None = None
CHECK_DEADLOCK FALSE
INVARIANTS FloorKept
