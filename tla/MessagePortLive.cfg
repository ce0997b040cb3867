\* The calls return, also when late answers to earlier ones come, and the dead leave
\* nothing behind.
SPECIFICATION MPFairSpec
CONSTANTS
  Owner = {o1, o2}
  Name = {n1}
  Addr = {d1}
  IdSpace = 2
  MaxCounter = 1
  App = {p1, p2}
  Pid = {p1, p2}
  Cert = {c1, c2}
  NoCert = NoCert
  Signer <- Unsigned
  ThreadApp <- TwoPids
  ThreadPid <- TwoPids
  Api <- Asking
  CallName = {n1}
  Peer = {p1}
  MaxLate = 1
  MaxSignals = 1
  o1 = o1
  o2 = o2
  a1 = a1
  a2 = a2
  c1 = c1
  c2 = c2
  p1 = p1
  p2 = p2
PROPERTIES
  CallsReturn
  PortsOfTheDeadGo
CHECK_DEADLOCK FALSE
