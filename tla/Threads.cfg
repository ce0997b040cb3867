\* Two threads of an application, two daemon processes, both builds.
SPECIFICATION TFairSpec
CONSTANTS
  Process = {p1, p2}
  Client = {m1, m2}
  Builds = {FALSE, TRUE}
  Refusals = {FALSE}
  None = None
  Thread = {t0, t1}
  Main = t0
  PortBuilds = {FALSE}
  Handler = {h1, h2}
INVARIANTS
  FileLeadsToDaemon
  OwnManager
  HandlerPairOwn
PROPERTIES
  LockReleased
  SplitEnds
CHECK_DEADLOCK FALSE
