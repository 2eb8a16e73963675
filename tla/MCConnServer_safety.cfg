SPECIFICATION Spec
CONSTANTS
  NoPeer = NoPeer
  Peers = {p1, p2, p3}
  Fds = {4, 5, 6}
  ListenFd = 3
  Data = {d}
  MaxUnread = 1
  MaxConnections = 3
  Results = {"KILL", "KEEP_ALIVE"}
  ListenerMayFail = TRUE
SYMMETRY PeerSymmetry
INVARIANTS
  TypeOK
  Lockstep
  NoStaleClient
  PairedCallbacks
PROPERTIES
  LostOnlyAtCapacity
CHECK_DEADLOCK FALSE
