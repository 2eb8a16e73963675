SPECIFICATION Spec
CONSTANTS
  Lengths = {5, 8, 300}
  MaxFrames = 2
  MaxPackets = 3
  Noise <- NoiseHeaders
  Pieces = {1, 3, 5, 7}
INVARIANTS
  NeverDecodesMissing
CHECK_DEADLOCK FALSE
