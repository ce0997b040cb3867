\* Unregistering under the fairness of the code, without timeouts.
SPECIFICATION MPFairSpec
CONSTANTS
  Owner = {o1, o2}
  Name = {n1}
  Addr = {d1, d2}
  IdSpace = 3
  MaxCounter = 2
  App = {a1, a2, p1, p2}
  Pid = {p1, p2}
  Cert = {c1, c2}
  NoCert = NoCert
  Signer <- TwoSigners
  ThreadApp <- TwoApps
  ThreadPid <- TwoPids
  Api <- Unregisters
  CallName = {n1}
  Peer = {a1}
  MaxLate = 0
  MaxSignals = 1
  o1 = o1
  o2 = o2
  a1 = a1
  a2 = a2
  c1 = c1
  c2 = c2
  p1 = p1
  p2 = p2
PROPERTIES
  UnregisterReturns
CHECK_DEADLOCK FALSE
