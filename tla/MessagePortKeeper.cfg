\* A thread registers, unregisters and reads its ports and sends from one to the
\* other; late answers meet its next calls.
SPECIFICATION MPSpec
CONSTANTS
  Owner = {o1, o2}
  Name = {n1}
  Addr = {d1, d2}
  IdSpace = 3
  MaxCounter = 2
  App = {p1, p2}
  Pid = {p1, p2}
  Cert = {c1, c2}
  NoCert = NoCert
  Signer <- Unsigned
  ThreadApp <- TwoPids
  ThreadPid <- TwoPids
  Api <- Keeper
  CallName = {n1}
  Peer = {p1}
  MaxLate = 1
  MaxSignals = 1
  o1 = o1
  o2 = o2
  a1 = a1
  a2 = a2
  c1 = c1
  c2 = c2
  p1 = p1
  p2 = p2
SYMMETRY AddrSymmetry
VIEW View
INVARIANTS
  CachedPortsRegistered
PROPERTIES
  LocalIdsNamePorts
  ImplementsMessaging
CHECK_DEADLOCK FALSE
