SPECIFICATION FairServer
CONSTANTS
  NoPeer = NoPeer
  Peers = {p1, p2}
  Fds = {4, 5}
  ListenFd = 3
  Data = {"upgrade", "noise", "text", "hello", "pong", "close", "unknown", "frag", "head", "rest", "torn"}
  Sends = {"upgrade", "text"}
  MaxSends = 1
  Upsets = {"reset", "stall", "silence"}
  MaxUnread = 1
  MaxConnections = 3
  Results = {"KILL", "KEEP_ALIVE"}
  ListenerMayFail = FALSE
PROPERTIES
  HandshakeDoesNotBlock
CHECK_DEADLOCK FALSE
