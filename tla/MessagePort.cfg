\* An application has ports, a process without certificate sends to them; late
\* answers meet its next calls.
SPECIFICATION MPSpec
CONSTANTS
  Owner = {o1, o2}
  Name = {n1}
  Addr = {d1, d2}
  IdSpace = 3
  MaxCounter = 2
  App = {a1, p1, p2}
  Pid = {p1, p2}
  Cert = {c1, c2}
  NoCert = NoCert
  Signer <- UnsignedSender
  ThreadApp <- AppAndProcess
  ThreadPid <- TwoPids
  Api <- ServerClient
  CallName = {n1}
  Peer = {a1}
  MaxLate = 1
  MaxSignals = 1
  o1 = o1
  o2 = o2
  a1 = a1
  a2 = a2
  c1 = c1
  c2 = c2
  p1 = p1
  p2 = p2
SYMMETRY AddrSymmetry
VIEW View
INVARIANTS
  NoMisdelivery
  TrustedCallback
  AnswerUnderWay
PROPERTIES
  ImplementsMessaging
CHECK_DEADLOCK FALSE
