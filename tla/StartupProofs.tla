---------------------------- MODULE StartupProofs ----------------------------
(***************************************************************************)
(* Theorems about Startup for every set of processes and clients.          *)
(***************************************************************************)
EXTENDS Startup, TLAPS

Phase == {"none", "starting", "running", "replaced", "quitting"}

STypeOK == /\ session_bus \in BOOLEAN
           /\ phase \in [Process -> Phase]
           /\ bound \subseteq Process
           /\ refused \subseteq Process
           /\ file \in Process \cup {None, Stale}

\* In the default build at most one process is there, and none is replaced.  It finds
\* the path cleared when it binds, or was refused the unlink; a server is bound only by
\* a process that runs.
Alone ==
  ~ session_bus =>
    /\ \A p, q \in Process : phase[p] # "none" /\ phase[q] # "none" => p = q
    /\ \A p \in Process : phase[p] = "starting" /\ p \notin refused => file = None
    /\ \A p \in bound : phase[p] \in {"running", "quitting"}

SInv == STypeOK /\ Alone /\ FileLeadsToDaemon

\* Nothing runs at the start.
LEMMA SInvInit == SInit => SInv
  BY BuildsAssumption DEF SInit, SInv, STypeOK, Phase, Alone, FileLeadsToDaemon

\* The end of a process leaves the file to it at most as Stale.
LEMMA EndedLemma ==
  ASSUME SInv, NEW p \in Process, Ended(p), phase[p] # "none",
         file' \in {file, None, Stale}
  PROVE  SInv'
<1>1. /\ session_bus' = session_bus
      /\ phase' = [phase EXCEPT ![p] = "none"]
      /\ bound' = bound \ {p}
      /\ refused' = refused \ {p}
  BY DEF Ended
<1>2. STypeOK'
  BY <1>1 DEF SInv, STypeOK, Phase
<1>3. Alone' /\ FileLeadsToDaemon'
  <2>1. SUFFICES ASSUME ~ session_bus
                 PROVE  Alone' /\ FileLeadsToDaemon'
    BY <1>1 DEF Alone, FileLeadsToDaemon
  <2>2. \A q \in Process : phase'[q] = "none"
    BY <1>1, <2>1 DEF SInv, STypeOK, Alone
  <2>3. bound' = {}
    BY <1>1, <2>1 DEF SInv, STypeOK, Alone
  <2> QED
    BY <2>2, <2>3 DEF Alone, FileLeadsToDaemon
<1> QED
  BY <1>2, <1>3 DEF SInv

\* Each step of a daemon keeps the socket file where clients look for it.
LEMMA SInvStep == SInv /\ [SNext]_startupVars => SInv'
<1> SUFFICES ASSUME SInv, [SNext]_startupVars PROVE SInv'
  OBVIOUS
<1> USE DEF SInv, STypeOK
<1>1. ASSUME NEW p \in Process, Start(p) PROVE SInv'
  BY <1>1 DEF Start, Refused, FileCleared, Phase, Alone, FileLeadsToDaemon
<1>2. ASSUME NEW p \in Process, StartBusServer(p) PROVE SInv'
  <2>0. /\ phase[p] = "starting" /\ phase' = [phase EXCEPT ![p] = "running"]
        /\ session_bus' = session_bus
    BY <1>2 DEF StartBusServer
  <2>1. CASE Bind(p)
    BY <2>0, <2>1 DEF Bind, Phase, Alone, FileLeadsToDaemon
  <2>2. CASE PathTaken(p)
    BY <2>0, <2>2 DEF PathTaken, Phase, Alone, FileLeadsToDaemon
  <2>3. CASE BindRefused(p)
    BY <2>0, <2>3 DEF BindRefused, Refused, Phase, Alone, FileLeadsToDaemon
  <2> QED
    BY <1>2, <2>1, <2>2, <2>3 DEF StartBusServer
<1>3. ASSUME NEW p \in Process, OwnName(p) PROVE SInv'
  BY <1>3 DEF OwnName, Phase, Alone, FileLeadsToDaemon
<1>4. ASSUME NEW p \in Process, NameLost(p) PROVE SInv'
  BY <1>4 DEF NameLost, AfterNameLost, Phase, Alone, FileLeadsToDaemon
<1>5. ASSUME NEW p \in Process, UnixSignal(p) PROVE SInv'
  BY <1>5 DEF UnixSignal, Looping, Phase, Alone, FileLeadsToDaemon
<1>6. ASSUME NEW p \in Process, MainReturns(p) PROVE SInv'
  BY <1>6, EndedLemma DEF MainReturns
<1>7. ASSUME NEW p \in Process, Kill(p) PROVE SInv'
  BY <1>7, EndedLemma DEF Kill
<1>8. CASE UNCHANGED <<session_bus, phase, bound, refused, file, name>>
  BY <1>8 DEF Alone, FileLeadsToDaemon
<1>9. ASSUME NEW c \in Client, ManagerInit(c) \/ ConnectStep(c)
      PROVE  UNCHANGED <<session_bus, phase, bound, refused, file, name>>
  BY <1>9 DEF ManagerInit, ConnectStep, Activated, GetBusAddress, Dial, HandshakeDone, Linked
<1> QED
  BY <1>1, <1>2, <1>3, <1>4, <1>5, <1>6, <1>7, <1>8, <1>9
  DEF SNext, DaemonNext, ProcessStep, startupVars

LEMMA StartupInvariance == SSpec => []SInv
  BY SInvInit, SInvStep, PTL DEF SSpec

\* In the default build a running daemon that was refused nothing has its server bound
\* to the file clients look for, whatever ended the daemons before it and whatever
\* unlink or bind those were refused.
THEOREM NothingLeftBlocksDaemon == SSpec => []FileLeadsToDaemon
  BY StartupInvariance, PTL DEF SInv
=============================================================================
