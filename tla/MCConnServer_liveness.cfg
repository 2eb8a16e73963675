SPECIFICATION FairSpec
CONSTANTS
  NoPeer = NoPeer
  Peers = {p1, p2}
  Fds = {4, 5}
  ListenFd = 3
  Data = {d}
  MaxUnread = 1
  MaxConnections = 3
  Results = {"KILL", "KEEP_ALIVE", "RETRY"}
  ListenerMayFail = TRUE
INVARIANTS
  SweepComplete
PROPERTIES
  DeadConnectionsReaped
  BacklogAccepted
  PingsWhenQuiet
CHECK_DEADLOCK FALSE
