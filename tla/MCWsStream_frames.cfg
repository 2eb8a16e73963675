SPECIFICATION FairSpec
CONSTANTS
  Lengths = {0, 8, 126}
  MaxFrames = 2
  MaxPackets = 3
  Noise <- NoiseHeaders
  Pieces = {5, 13}
INVARIANTS
  FramesIntact
  RepliesRead
PROPERTIES
  LostOnlyAtShortOrCut
  FramesDelivered
CHECK_DEADLOCK FALSE
