SPECIFICATION MCSpec
CONSTANTS
  Sockets = 3
  Callers = {c}
  Hosts = {h}
  NoPeer = NoPeer
  StreamLen = 3
  MaxSeg = 2
  SeqWrap = 32
  HostISN = 5
  PeerISN = 28
  RingSize = 3
  GetLen = 2
  RequestLen = 2
  ResponseLen = 2
  FDs = {f}
  WriteLen = 1
  MaxAllocs = 5
  MaxSends = 1
INVARIANTS StreamInOrder OneSocketPerConnection
CHECK_DEADLOCK FALSE
PROPERTY EverythingArrives
