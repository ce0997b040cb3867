------------------------------- MODULE Threads -------------------------------
(***************************************************************************)
(* The threads of one application in the library: the factory that gives   *)
(* each of them its manager (lib/msgport-factory.c), and the handler of a  *)
(* port, which its thread may replace while a main loop calls it           *)
(* (lib/msgport-service.c).  Managers connect as Startup says.             *)
(*                                                                         *)
(* A thread is named by the address of its GThread, which another thread   *)
(* may get when it has ended; the table of managers never forgets.  Each   *)
(* manager has at most one port here.                                      *)
(***************************************************************************)
EXTENDS Startup

CONSTANTS
  Thread,    \* addresses of GThread structures
  Main,      \* the thread that runs the default GMainContext
  Handler,   \* callbacks, each with a user data of its own
  PortBuilds \* BOUND: the builds in which ports are registered

ASSUME MainAssumption == Main \in Thread
ASSUME NullAssumption == None \notin Thread \cup Handler

VARIABLES
  created,   \* __managers is no longer NULL
  managers,  \* its entries: thread -> manager, or None
  lock,      \* the thread that has the lock of managers, or None
  pc,        \* thread -> where it is
  mine,      \* thread -> the manager it works with, None before its first call
  work,      \* thread -> the handler it stores or loads
  port       \* manager -> handler of its port and the thread whose loop calls it

threadVars == <<created, managers, lock, pc, mine, work, port>>
tVars == <<startupVars, threadVars>>

\* The two words of a handler in MsgPortService.
Field == {"client_cb", "client_data"}

NoEntries == [t \in Thread |-> None]

NoHandler == [f \in Field |-> None]
NoPort == [handler |-> NoHandler, loop |-> None]

HasPort(m) == port[m].handler # NoHandler

\* A manager, a handler, and the words of it not stored or loaded yet.
Work(m, handler, todo) == [manager |-> m, handler |-> handler, todo |-> todo]
Idle == Work(None, NoHandler, {})

-----------------------------------------------------------------------------
(* Threads come and go.                                                    *)

TInit == /\ SInit
         /\ created = FALSE
         /\ managers = NoEntries
         /\ lock = None
         /\ pc = [t \in Thread |-> IF t = Main THEN "out" ELSE "ended"]
         /\ mine = [t \in Thread |-> None]
         /\ work = [t \in Thread |-> Idle]
         /\ port = [m \in Client |-> NoPort]

\* A thread starts at an address where none, or one that ended, has been before.
ThreadStarts(t) == /\ pc[t] = "ended"
                   /\ pc' = [pc EXCEPT ![t] = "out"]
                   /\ UNCHANGED <<startupVars, created, managers, lock, mine, work, port>>

\* Its main context is gone with it: nobody calls the handlers of its ports.
ThreadEnds(t) ==
  /\ t # Main
  /\ pc[t] = "out"
  /\ pc' = [pc EXCEPT ![t] = "ended"]
  /\ mine' = [mine EXCEPT ![t] = None]
  /\ port' = [m \in Client |-> IF port[m].loop = t THEN [port[m] EXCEPT !.loop = None]
                                                   ELSE port[m]]
  /\ UNCHANGED <<startupVars, created, managers, lock, work>>

-----------------------------------------------------------------------------
(* msgport_factory_get_manager, the beginning of every call of the API.    *)

\* Mutant: one manager for the whole process.
Self_Process(t) == Main

\* The key of a thread.
Self(t) == t

\* __managers is tested without the lock.
GetManager(t) ==
  /\ pc[t] = "out"
  /\ pc' = [pc EXCEPT ![t] = IF created THEN "get" ELSE "init"]
  /\ UNCHANGED <<startupVars, created, managers, lock, mine, work, port>>

\* Mutant: the table is not tested again under the lock.
InitTable_Always == NoEntries

\* msgport_factory_init tests again under the lock.
InitTable == IF created THEN managers ELSE NoEntries

FactoryInit(t) == /\ pc[t] = "init"
                  /\ lock = None
                  /\ created' = TRUE
                  /\ managers' = InitTable
                  /\ pc' = [pc EXCEPT ![t] = "get"]
                  /\ UNCHANGED <<startupVars, lock, mine, work, port>>

\* The manager is in the table.
Lookup(t) ==
  /\ pc[t] = "get"
  /\ lock = None
  /\ managers[Self(t)] # None
  /\ mine' = [mine EXCEPT ![t] = managers[Self(t)]]
  /\ pc' = [pc EXCEPT ![t] = "have"]
  /\ UNCHANGED <<startupVars, created, managers, lock, work, port>>

\* A new manager starts to connect; the lock is kept meanwhile.
ManagerNew(t) ==
  /\ pc[t] = "get"
  /\ lock = None
  /\ managers[Self(t)] = None
  /\ lock' = t
  /\ \E m \in Client : ManagerInit(m) /\ work' = [work EXCEPT ![t] = Work(m, NoHandler, {})]
  /\ pc' = [pc EXCEPT ![t] = "connect"]
  /\ UNCHANGED <<created, managers, mine, port>>

\* One step of the connect.
Connect(t) == /\ pc[t] = "connect"
              /\ ConnectStep(work[t].manager)
              /\ UNCHANGED threadVars

\* Mutant: the lock is kept on the way out of a failed connect.
Unlocked_IfConnected(t) == IF link[work[t].manager].at = "up" THEN None ELSE t

Unlocked(t) == None

\* The manager is connected, or has no proxy; it is entered either way.
Insert(t) ==
  LET m == work[t].manager
  IN  /\ pc[t] = "connect"
      /\ ~ Connecting(m)
      /\ managers' = [managers EXCEPT ![Self(t)] = m]
      /\ lock' = Unlocked(t)
      /\ mine' = [mine EXCEPT ![t] = m]
      /\ work' = [work EXCEPT ![t] = Idle]
      /\ pc' = [pc EXCEPT ![t] = "have"]
      /\ UNCHANGED <<startupVars, created, port>>

-----------------------------------------------------------------------------
(* What the thread does with its manager.                                  *)

\* Any call that changes no handler, a failed registration included.
OtherCall(t) == /\ pc[t] = "have"
                /\ pc' = [pc EXCEPT ![t] = "out"]
                /\ UNCHANGED <<startupVars, created, managers, lock, mine, work, port>>

\* A new port: its proxy calls the handler in the thread's own main context, if it
\* has pushed one, or in the default one.
RegisterPort(t) ==
  /\ session_bus \in PortBuilds
  /\ pc[t] = "have"
  /\ link[mine[t]].at = "up"
  /\ ~ HasPort(mine[t])
  /\ \E h \in Handler, loop \in {t, Main} :
       port' = [port EXCEPT ![mine[t]] = [handler |-> [f \in Field |-> h], loop |-> loop]]
  /\ pc' = [pc EXCEPT ![t] = "out"]
  /\ UNCHANGED <<startupVars, created, managers, lock, mine, work>>

\* The port is cached, whatever has become of the connection: its handler is
\* replaced.
SetMessageHandler(t) ==
  /\ pc[t] = "have"
  /\ HasPort(mine[t])
  /\ \E h \in Handler :
       work' = [work EXCEPT ![t] = Work(mine[t], [f \in Field |-> h], Field)]
  /\ pc' = [pc EXCEPT ![t] = "store"]
  /\ UNCHANGED <<startupVars, created, managers, lock, mine, port>>

\* The two stores are not synchronized with anything, hence in either order.
Store(t) ==
  /\ pc[t] = "store"
  /\ \E f \in work[t].todo :
       /\ port' = [port EXCEPT ![work[t].manager].handler[f] = work[t].handler[f]]
       /\ work' = [work EXCEPT ![t] = IF @.todo = {f} THEN Idle
                                      ELSE Work(@.manager, @.handler, @.todo \ {f})]
  /\ pc' = [pc EXCEPT ![t] = IF work'[t] = Idle THEN "out" ELSE "store"]
  /\ UNCHANGED <<startupVars, created, managers, lock, mine>>

\* The loop of thread t has a message for a port.
OnGotMessage(t) ==
  /\ pc[t] = "out"
  /\ \E m \in Client : /\ HasPort(m)
                       /\ port[m].loop = t
                       /\ work' = [work EXCEPT ![t] = Work(m, NoHandler, Field)]
  /\ pc' = [pc EXCEPT ![t] = "load"]
  /\ UNCHANGED <<startupVars, created, managers, lock, mine, port>>

\* Nor are the two loads.
Load(t) ==
  /\ pc[t] = "load"
  /\ \E f \in work[t].todo :
       work' = [work EXCEPT ![t].handler[f] = port[work[t].manager].handler[f],
                            ![t].todo = @ \ {f}]
  /\ UNCHANGED <<startupVars, created, managers, lock, pc, mine, port>>

\* The handler loaded is called; it returns.
Callback(t) == /\ pc[t] = "load"
               /\ work[t].todo = {}
               /\ work' = [work EXCEPT ![t] = Idle]
               /\ pc' = [pc EXCEPT ![t] = "out"]
               /\ UNCHANGED <<startupVars, created, managers, lock, mine, port>>

TNext ==
  \/ DaemonNext /\ UNCHANGED threadVars
  \/ \E t \in Thread :
       \/ ThreadStarts(t) \/ ThreadEnds(t)
       \/ GetManager(t) \/ FactoryInit(t) \/ Lookup(t) \/ ManagerNew(t) \/ Connect(t)
       \/ Insert(t)
       \/ OtherCall(t) \/ RegisterPort(t) \/ SetMessageHandler(t) \/ Store(t)
       \/ OnGotMessage(t) \/ Load(t) \/ Callback(t)

TSpec == TInit /\ [][TNext]_tVars

\* A daemon and the bus do what is next, a connect goes on and its thread leaves the
\* factory.  Nothing is said of daemons that start, crash or get signals, of threads
\* that wait for the lock, and of what the application calls.
Fairness ==
  /\ \A p \in Process : WF_tVars(ProcessStep(p) /\ UNCHANGED threadVars)
  /\ \A t \in Thread : WF_tVars(Connect(t)) /\ WF_tVars(Insert(t))

TFairSpec == TSpec /\ Fairness

-----------------------------------------------------------------------------
(* Properties.                                                             *)

\* A thread that was given a manager is given the same at its next call, or its
\* ports would be lost to it, and no other thread that runs has that manager.
OwnManager ==
  \A t \in Thread : mine[t] # None =>
    /\ managers[t] = mine[t]
    /\ \A u \in Thread : mine[u] = mine[t] => u = t

\* A thread that waits for a daemon with the lock in its hands gives it back in the
\* end, whatever happens to that daemon.
LockReleased == \A t \in Thread : lock = t ~> lock # t

\* The handler thread t is about to call is the pair of some registration.
Calls(t) == pc[t] = "load" /\ work[t].todo = {}
IsPair(handler) == handler["client_cb"] = handler["client_data"]

\* A port that is called in the loop of the thread that registered it gets the user
\* data of its callback, and the handler registered last.
HandlerPairOwn ==
  \A t \in Thread : Calls(t) /\ work[t].manager = mine[t] =>
    IsPair(work[t].handler) /\ work[t].handler = port[work[t].manager].handler

\* A callback is called with the user data that was passed while registering it.
HandlerPair == \A t \in Thread : Calls(t) => IsPair(work[t].handler)
=============================================================================
