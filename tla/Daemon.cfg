\* Applications of two developers, an unsigned one, one that is only a pid.
SPECIFICATION DSpec
CONSTANTS
  Owner = {o1, o2}
  Name = {n1}
  Addr = {d1, d2}
  IdSpace = 3
  MaxCounter = 2
  App = {a1, a2, a3, pid}
  Pid = {pid}
  Cert = {c1, c2}
  NoCert = NoCert
  Signer <- Signers
  a1 = a1
  a2 = a2
  a3 = a3
  pid = pid
  c1 = c1
  c2 = c2
SYMMETRY Symmetry
INVARIANTS
  DTypeOK
  CertsSound
  TrustedDelivery
  CheckSound
  CheckFinds
  ReturnAddress
CHECK_DEADLOCK FALSE
