------------------------------- MODULE Startup -------------------------------
(***************************************************************************)
(* How daemon and library find each other: the life of the daemon process  *)
(* (daemon/main.c), its socket file (daemon/dbus-server.c) and the connect *)
(* of a client manager (msgport_manager_init in lib/msgport-manager.c), in *)
(* both builds of the program.                                             *)
(*                                                                         *)
(* In the default build systemd runs one daemon after the other.  With     *)
(* USE_SESSION_BUS daemons are started by D-Bus activation or by hand, the *)
(* last one takes the bus name over, and clients ask the owner of the name *)
(* for the address; it is the same path for every daemon.                  *)
(***************************************************************************)
EXTENDS Sequences

CONSTANTS
  Process,   \* process ids a daemon may run under
  Client,    \* managers of clients; each connects once, when it is created
  Builds,    \* BOUND: the values of session_bus to look at
  Refusals,  \* BOUND: those where the system may refuse an unlink or a bind
  None

ASSUME BuildsAssumption == Builds \subseteq BOOLEAN
VARIABLES
  session_bus,  \* USE_SESSION_BUS was defined when the program was compiled
  phase,        \* process -> how far its main () is
  bound,        \* the processes whose server has a bus_server, and its address
  refused,      \* those whom the system refused to unlink the path or to bind
  file,         \* the process that made the socket file; Stale if that is gone
  name,         \* the queue for the bus name, its owner first
  link          \* manager -> its connection: how far, and to which process

startupVars == <<session_bus, phase, bound, refused, file, name, link>>

\* The socket file of a process that no longer runs.
Stale == "stale"

ASSUME NoneAssumption == None # Stale /\ {None, Stale} \cap (Process \cup Client) = {}

Link(at, p) == [at |-> at, to |-> p]

\* A process whose main loop runs; one that has lost the name still serves.
Looping(p) == phase[p] \in {"running", "replaced"}

Queued(p) == \E i \in DOMAIN name : name[i] = p

-----------------------------------------------------------------------------
(* The daemon process.                                                     *)

SInit == /\ session_bus \in Builds
         /\ phase = [p \in Process |-> "none"]
         /\ bound = {}
         /\ refused = {}
         /\ file = None
         /\ name = <<>>
         /\ link = [c \in Client |-> Link("none", None)]

\* Mutant: a socket file left behind is not removed.
FileCleared_Keeps == file

\* _start_bus_server unlinks whatever is at the path.
FileCleared == None

Refused(p) == session_bus \in Refusals /\ refused' = refused \cup {p}

\* A daemon starts: systemd runs it again whenever it has ended (Restart=always); on
\* the session bus another one may be started while one is running.  It does not look
\* at the result of the unlink.
Start(p) ==
  /\ phase[p] = "none"
  /\ session_bus \/ \A q \in Process : phase[q] = "none"
  /\ phase' = [phase EXCEPT ![p] = "starting"]
  /\ \/ file' = FileCleared /\ UNCHANGED refused
     \/ file # None /\ Refused(p) /\ UNCHANGED file
  /\ UNCHANGED <<session_bus, bound, name, link>>

\* The path is there: the bind fails.
PathTaken(p) == file # None /\ UNCHANGED <<file, bound, refused>>

\* Or for any other reason: the directory is missing and could not be made, say.
BindRefused(p) == Refused(p) /\ UNCHANGED <<file, bound>>

Bind(p) == file = None /\ file' = p /\ bound' = bound \cup {p} /\ UNCHANGED refused

\* g_dbus_server_new_sync binds or fails.  Nobody looks at the result: the daemon
\* goes on without a socket.
StartBusServer(p) ==
  /\ phase[p] = "starting"
  /\ phase' = [phase EXCEPT ![p] = "running"]
  /\ Bind(p) \/ PathTaken(p) \/ BindRefused(p)
  /\ UNCHANGED <<session_bus, name, link>>

\* The process asks for the bus name and gets it: everybody allows replacement.
\* The former owner stays in the queue and is told.
OwnName(p) ==
  /\ session_bus
  /\ phase[p] = "running"
  /\ ~ Queued(p)
  /\ name' = <<p>> \o name
  /\ phase' = [q \in Process |-> IF name # <<>> /\ q = Head(name) /\ phase[q] = "running"
                                 THEN "replaced" ELSE phase[q]]
  /\ UNCHANGED <<session_bus, bound, refused, file, link>>

\* Mutant: the loss of the name is only logged.
AfterNameLost_Runs == "running"

\* _on_name_lost quits the main loop.
AfterNameLost == "quitting"

NameLost(p) == /\ phase[p] = "replaced"
               /\ phase' = [phase EXCEPT ![p] = AfterNameLost]
               /\ UNCHANGED <<session_bus, bound, refused, file, name, link>>

\* SIGTERM or SIGINT.
UnixSignal(p) == /\ Looping(p)
                 /\ phase' = [phase EXCEPT ![p] = "quitting"]
                 /\ UNCHANGED <<session_bus, bound, refused, file, name, link>>

\* The system closes the connections of a process that has ended, the bus drops
\* its name and fails the calls it has not answered.
Ended(p) ==
  /\ phase' = [phase EXCEPT ![p] = "none"]
  /\ bound' = bound \ {p}
  /\ refused' = refused \ {p}
  /\ name' = SelectSeq(name, LAMBDA q : q # p)
  /\ link' = [c \in Client |-> IF link[c].to # p THEN link[c]
                               ELSE IF link[c].at = "up" THEN Link("down", None)
                               ELSE Link("noproxy", None)]
  /\ UNCHANGED session_bus

\* main () leaves its loop and returns.  The finalize of the server unlinks the path
\* it was bound to, whoever has the file at that path by now.
MainReturns(p) == /\ phase[p] = "quitting"
              /\ Ended(p)
              /\ file' = IF p \in bound THEN None ELSE file

\* The daemon crashes or is killed: its socket file stays.
Kill(p) == /\ phase[p] # "none"
           /\ Ended(p)
           /\ file' = IF file = p THEN Stale ELSE file

-----------------------------------------------------------------------------
(* msgport_manager_init of a client manager.                               *)

Linked(c, l) == /\ link' = [link EXCEPT ![c] = l]
                /\ UNCHANGED <<session_bus, phase, bound, refused, file, name>>

\* The address is the configured one, or the name's owner is asked for it; if there
\* is none the bus tries to start one and keeps the call until then.
ManagerInit(c) ==
  /\ link[c].at = "none"
  /\ \/ ~ session_bus /\ Linked(c, Link("addressed", None))
     \/ session_bus /\ Linked(c, Link("asking", IF name = <<>> THEN None ELSE Head(name)))

\* The bus passes a call on that waited for the activation, or gives up.
Activated(c) ==
  /\ link[c] = Link("asking", None)
  /\ Linked(c, IF name = <<>> THEN Link("noproxy", None) ELSE Link("asking", Head(name)))

\* _handle_get_bus_address answers with the address, or an error if there is no
\* bus_server.  The client frees that error without clearing it, so whatever it
\* tries next counts as failed, if the process survives freeing it again.
GetBusAddress(c) ==
  /\ link[c].at = "asking"
  /\ \E p \in Process :
       /\ link[c].to = p
       /\ Looping(p)
       /\ Linked(c, Link(IF p \in bound THEN "addressed" ELSE "noproxy", None))

\* g_dbus_connection_new_for_address_sync finds a listening socket at the path.
Dial(c) ==
  /\ link[c].at = "addressed"
  /\ Linked(c, IF file \in bound THEN Link("dialing", file) ELSE Link("noproxy", None))

\* The daemon's main loop completes the handshake.
HandshakeDone(c) ==
  /\ link[c].at = "dialing"
  /\ \E p \in bound : link[c].to = p /\ Looping(p) /\ Linked(c, Link("up", p))

Connecting(c) == link[c].at \in {"asking", "addressed", "dialing"}

ConnectStep(c) == Activated(c) \/ GetBusAddress(c) \/ Dial(c) \/ HandshakeDone(c)

ProcessStep(p) == \/ StartBusServer(p) \/ OwnName(p) \/ NameLost(p)
                  \/ MainReturns(p)

DaemonNext == \E p \in Process : Start(p) \/ ProcessStep(p) \/ UnixSignal(p) \/ Kill(p)

SNext == DaemonNext \/ \E c \in Client : ManagerInit(c) \/ ConnectStep(c)

SSpec == SInit /\ [][SNext]_startupVars

-----------------------------------------------------------------------------
(* Properties.                                                             *)

\* In the default build a daemon that runs has bound its socket, and the file at the
\* path is its own, unless the system itself refused it the unlink or the bind: however
\* its predecessors ended, and whatever they were refused, nothing of them is in its way.
FileLeadsToDaemon ==
  \A p \in Process :
    ~ session_bus /\ phase[p] = "running" /\ p \notin refused => p \in bound /\ file = p

\* Two clients connected to different daemons cannot hear of each other's ports.
Split(c, d) == link[c].at = "up" /\ link[d].at = "up" /\ link[c].to # link[d].to

\* When a daemon replaces another one on the session bus, their clients are not served
\* apart for good: the replaced daemon ends, or one of the two dies before, and a
\* connection goes down.  It stays down: a manager connects once.
SplitEnds ==
  \A c, d \in Client : Split(c, d) ~> link[c].at = "down" \/ link[d].at = "down"
=============================================================================
