SPECIFICATION WsSpec
CONSTANTS
  NoPeer = NoPeer
  Peers = {p1}
  Fds = {4}
  ListenFd = 3
  Data = {"upgrade", "noise", "text", "hello", "pong", "close", "unknown", "frag", "head", "rest", "torn"}
  Sends = {"upgrade", "noise", "pong", "hello", "unknown", "head", "rest"}
  MaxSends = 3
  Upsets = {"reset", "stall", "silence"}
  MaxUnread = 3
  MaxConnections = 3
  Results = {"KILL", "KEEP_ALIVE"}
  ListenerMayFail = FALSE
PROPERTIES
  ImplementsChatRoom
CHECK_DEADLOCK FALSE
