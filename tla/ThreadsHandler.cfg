\* A thread without main context of its own: the main thread calls its handlers.
SPECIFICATION TSpec
CONSTANTS
  Process = {p1, p2}
  Client = {m1, m2}
  Builds = {FALSE}
  Refusals = {FALSE}
  None = None
  Thread = {t0, t1}
  Main = t0
  Handler = {h1, h2}
  PortBuilds = {FALSE}
SYMMETRY Symmetry
INVARIANTS
  HandlerPair
CHECK_DEADLOCK FALSE
