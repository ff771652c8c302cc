SPECIFICATION LandSpec
CONSTANTS
  l1 = l1  l2 = l2  p1 = p1  p2 = p2
  Packets <- TwoPackets
  Landers <- TwoLanders
  Built <- TwoPackets
  BoardTracked = FALSE
  MaxCrashes = 0
  NoPacket = NoPacket
CHECK_DEADLOCK FALSE
INVARIANTS LandedStaysInBase
