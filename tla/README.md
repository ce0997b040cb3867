# A verification of message-port

message-port lets the applications of a Tizen device send messages to each other's *ports*. A
daemon, `messageportd`, accepts D-Bus connections on a socket; a client library gives the threads
of an application an API to register ports, to look for ports of other applications and to send
messages to them, plain or from a port of their own (*bidirectional*). A port may be *trusted*:
then only applications signed with the same certificate may send to it.

This directory holds TLA+ models of daemon and library, the TLC runs that check them on small
instances, and TLAPS proofs of what the daemon promises. Check one run with
`tlc -config MessagePort.cfg MCMessagePort`, one proof with `tlapm ServiceManagerProofs.tla`.
`PROJECT.json` lists the runs, which source lines each definition stands for, and a mutant of the
code for every property that breaks it.

## 1. Inventory

| part | source | state | operations | interacts with |
|---|---|---|---|---|
| service tables `MsgPortManager` | `daemon/manager.c` | `service_cache`: id -> service, owning; `owner_service_map`: dbus manager -> list of bare pointers | register, look up by name or id, unregister one (no caller) or all of an owner | called by the two below; a singleton kept alive by the dbus managers |
| service `MsgPortDbusService` | `daemon/dbus-service.c` | id from a static counter, owner, name, trust, exported object `/id` | SendMessage, Unregister (D-Bus), delivery | certificate check of its owner; signal to its owner's connection |
| dbus manager `MsgPortDbusManager` | `daemon/dbus-manager.c` | application of the connection, `is_null_cert`, `peer_certs` | RegisterService, CheckForRemoteService, SendMessage (D-Bus), certificate check | pkgmgr and AUL; tables; server |
| dbus server | `daemon/dbus-server.c` | connection -> dbus manager; its GDBusServer and socket file | start, connection opened, closed; find by application; dispose | GDBus; the file outlives a crash |
| daemon process | `daemon/main.c`, `messageportd.service.in` | main loop; the bus name (with `USE_SESSION_BUS`) | start, signals, name lost, getBusAddress | systemd restarts it; on the session bus D-Bus activates it and a second one takes the name over |
| client manager `MsgPortManager` | `lib/msgport-manager.c` | proxy of the daemon, `services`: path -> service, `local_services`: id -> path | connect, register, unregister, check, send, send bidirectional | synchronous D-Bus calls |
| client service `MsgPortService` | `lib/msgport-service.c` | proxy with cached properties, callback and its user data | on message, send, unregister, set handler | signals through the GMainContext |
| API | `lib/message-port.c` | none | twelve calls and two reads | factory, client manager |
| factory | `lib/msgport-factory.c` | thread -> client manager, a lock | get, uninit | |
| error codes | `common/dbus-error.c`, `lib/msgport-utils.c` | error domain registered or not | name -> code -> API error | |

What is hard: the daemon handles one message at a time, but a call of the library is two D-Bus
calls and everything may happen in between. Objects live as long as a table that owns them while
other tables keep bare pointers. Ids come from a counter of finite width. Certificate verdicts are
cached. Calls time out and their answers come late, either side may die at any moment, and the
client never reconnects. A daemon leaves its socket file behind when it crashes, and may be
replaced while it runs. The threads of an application share a table under a lock that one of them
keeps while it waits for the daemon, and a callback may be replaced while it is being called. What
makes each part right:

- tables: both describe the same services; no pointer outlives its object; an id is never given
  to a second port; a connection that closes takes its ports and nobody else's;
- dbus managers: cached verdicts are true; trusted ports hear only their own developer; a check
  finds the port asked for, if it is there;
- client: an answer belongs to its call; its cache agrees with the daemon; a message does not
  reach another port than the one asked for; a sender is told what became of its message; calls
  return;
- process and socket: nothing a daemon leaves behind keeps the next one from being reached; a
  daemon that was replaced does not go on serving clients apart from the others;
- factory and threads: a thread keeps its manager and shares it with nobody; the lock is given
  back; a callback gets its own user data.

`PROJECT.json` lists the hazards with the line where each bites and the properties that watch it.

## 2. Modules

    PortRegistry <-implements- ServiceManager <-extends- Daemon <-extends- MessagePort -implements-> Messaging
                               ServiceManagerProofs      DaemonProofs      MessagePortProofs
                               MCServiceManager          MCDaemon          MCMessagePort

    MessagePortProofs <-extends- CacheProofs <-extends- TrustProofs <-extends- MessagingProofs

    Startup <-extends- Threads
    StartupProofs      ThreadsProofs
                       MCThreads

The two rows meet in the connection of a manager. `MessagePort` takes it as one step (`Open`) that
succeeds or leaves the manager without proxy, gives every thread one manager and calls handlers
at once; `Startup` and `Threads` look at exactly these steps, with the ports reduced to what
matters there.

**PortRegistry** is the promise: connected clients, a set of ports with id, owner, name and trust,
and the ids used. An id is new when it is given.

**ServiceManager** models `daemon/manager.c` and the life of services. `heap` is a function from
addresses to live services, so that a freed service whose pointer remains in a list is visible: a
walk over a list with a dangling pointer (`CanWalk` fails) may find anything. `Exported` is what
GDBus has exported on a connection. `RegisterNew` and `RegisterExportFails` are the two outcomes
of `msgport_dbus_service_new`; the second decrements the counter as the code does. `Disconnect` is the dispose of a
dbus manager, whose early return may leave a key, and which frees the tables when it is the last.

**Daemon** adds certificates, the table of dbus managers and one action for each D-Bus method,
with the whole handler in it. `out` is what the last step wrote: the reply, and before it the
signal, if there is one. `ValidatePeer` gives each verdict with what it remembers.
`DNext` lets any client send any request at any time, whether or not the library would.
`ManagersOf(a)` is the set of connections of which `g_hash_table_find` yields one.

**MessagePort** adds the library and the queues between both ends. A call of the API begins
(`RegisterPort`, `SendPortMessage`, `ReadLocalPort`, ...) by writing a request or returning at once, and goes on
when its D-Bus call ends: with an answer (`Receive`), a timeout (`Timeout`) or an error on a dead
connection (`Broken`). `Complete` says what the library does next, the same for the three.
`Open`, `Exit`, `HangUp`, `Notice`, `Pick` and `DaemonDies` are connections and processes that
come and go. `Serve` is a handler of Daemon. A thread has one connection, and both bear one name
in `Owner`: the name is free again once the daemon has noticed the end of the process.
`Pick` is `_get_app_id_from_connection`: AUL may fail to know the application, of a process that
runs as well as of one that has ended, and then the connection goes by its process id (`ThreadPid`)
and counts as one without certificate.
`mailbox` holds the signals the GDBus worker thread has put in the GMainContext; `Dispatch` may run
while a call waits, since the main context may belong to another thread.

**Messaging** is the promise made to a sender: a request is forwarded at most once, to at most one
thread; a sender is told "sent" only if its message was forwarded; one that gives up may have it
forwarded all the same, once. `ImplementsMessaging` maps the queues, the blocked call and its
timeouts to it: `Sending` reads off the queues what became of the message a call waits for.

**Startup** models the life of daemon processes and the connect of a manager in both builds
(`session_bus`). A process runs `Start` (the path is cleared, or stays if the system refuses the
unlink), `StartBusServer` (it binds, or fails because the path is there, `PathTaken`, or for any
other reason, `BindRefused`, and runs on without a socket) and, on the session bus, `OwnName`; it ends by `NameLost` or
`UnixSignal` and then `MainReturns`, which unlinks the path it was bound to, or by `Kill`, which
leaves the file (`Stale`). `ManagerInit`, `Activated`, `GetBusAddress`, `Dial` and `HandshakeDone`
are the blocking calls of `msgport_manager_init` one by one, so that a daemon can die between any
two of them. `file` says whose socket is at the path, which is all a client finds out. `refused`
are the processes whose unlink or bind the system itself refused.

**Threads** adds the threads of an application. `pc` is where a thread is in
`msgport_factory_get_manager` or in a handler; the unlocked test (`GetManager`) and the test under
the lock (`FactoryInit`) are steps of their own, and the lock is held from `ManagerNew` to
`Insert`. A thread is named by the address of its GThread: `ThreadStarts` may reuse it, and the
thread then finds the manager of its predecessor. A port is reduced to the two words of its handler and to the
thread whose loop calls it; `Store` and `Load` move one word at a time, in either order, since
nothing orders them in the code.

Outside `src/` and taken from how the code uses it: GLib hash tables (`Put`, `Drop`), the
comparison of certificates (`CompareCert`), and GDBus. Of GDBus the models assume: messages of a
connection keep their order; a call on a path without object is answered with UnknownMethod; a
synchronous call ends with its answer, a timeout or the end of the connection; the answer to a
forgotten serial is dropped; an error name whose domain the process has not registered becomes
`G_IO_ERROR_DBUS_ERROR`; a proxy whose `GetAll` failed is created without properties. Of the
session bus: an owner that allows it is replaced and queued behind the new one; a call to a name
without owner waits for an activation that succeeds or fails; a call to a process that ends fails.
Of the system: a process that ends closes its connections and leaves its files.

## 3. Runs

Model values: two connections, one or two names, one or two addresses more than ids, so that an
object can be freed and its address used again. `MaxCounter` bounds registrations in a life of the
daemon, `IdSpace` is the width of a guint; where the first is less than the second ids cannot wrap
(`NoWrap`), which is the situation of 2^32 ids. `registry_wrap` has four ids and lets them wrap.
`MaxLate` and `MaxSignals` say when a thread may begin a *new* call: with at most that many requests
and answers of its earlier calls under way, and with fewer signals than that under way to any
thread. `MaxLate = 1` in `port`, `port_keeper` and `port_live`: after a timeout the next call begins
while the old request or its answer is still under way, and that answer arrives while the new call
waits. Two late answers of one thread, two signals, or two threads that both register are not
reached by the runs; the theorems of section 5 have no such bound.

| run | checks | instance |
|---|---|---|
| registry | `ListsExact`, `PortUnique`, `StableIds`, `ImplementsRegistry` | 2 owners, 2 names, 3 addresses, 4 ids used of 8 |
| registry_wrap | `TypeOK`, `CacheExact` | 4 ids, 4 addresses, ids wrap, lists dangle |
| daemon | `DTypeOK`, `CertsSound`, `TrustedDelivery`, `CheckSound`, `CheckFinds`, `ReturnAddress` | 2 connections, each of any of 4 applications: two of different developers, one unsigned, one only a pid |
| port | `NoMisdelivery`, `TrustedCallback`, `AnswerUnderWay`, `ImplementsMessaging` | a signed application with ports, which AUL may fail to know; a process without certificate that sends to them |
| port_keeper | `CachedPortsRegistered`, `LocalIdsNamePorts`, `ImplementsMessaging` | a thread that registers, unregisters and reads its ports and sends from one to the other |
| port_live | `CallsReturn`, `PortsOfTheDeadGo` | a thread with one port, one that checks and sends, under fairness |
| threads | `FileLeadsToDaemon`, `OwnManager`, `HandlerPairOwn`, `LockReleased`, `SplitEnds` | both builds; 2 daemon processes, 2 threads, 2 managers, 2 handlers, under fairness |

Two connections are enough for the properties of the daemon: each relates one port with one caller,
and a third connection enters a handler only as another candidate of `ManagersOf`, which is
already a set of two in `daemon`. The proofs (section 5) have no bound at all. In `threads` two
processes are a daemon and its successor (ids are used again, so there may be any number, one after
the other), and two threads are one that holds the lock or stores and one that waits or loads.
`PortBuilds` lets ports be registered in the default build only: the code of factory and
handlers is the same in both, and in the other build the daemons and the connect alone are run.
`Refusals = {FALSE}` lets the system refuse an unlink or a bind in the default build only, which is
the one `FileLeadsToDaemon` is about; the theorems have no such bound.

All runs say `CHECK_DEADLOCK FALSE`: without clients the daemon has nothing to do, and with the
counter at its bound a model may stop. `VIEW View` in `port` and `port_keeper` leaves `out` and
`event` out of the fingerprint: no action reads them, no invariant of those runs mentions them, and
`LocalIdsNamePorts` and `ImplementsMessaging` are properties of steps, which TLC checks on every
step it generates; they read `event` only as it is after the step.
Addresses are symmetric, and in the runs of the daemon owners and names too, in `threads_handler`
processes, managers and handlers; runs with fairness use no symmetry.

**Fairness** (`port_live`): the daemon's main loop accepts connections, handles requests and
notices closed ones (`Pick`, `Serve`, `Notice`); the GDBus worker thread of a client reads
answers and the end of its connection, and a call on a dead connection fails (`Receive`,
`HangUp`, `Broken`): one weak fairness for each connection. Both loops run whatever is ready, in turn. Nothing is assumed of timeouts,
of the application's calls, of exits or of crashes; in particular `CallsReturn` does not lean on
timeouts. `unregister` is left out of `CallsReturn` because its return without a timeout is
what `port_unregister` refutes.

**Fairness** (`threads`): a daemon process does what is next (`ProcessStep`: bind, take the name,
notice that it is lost, return from `main`), a connect goes on (`Connect`: the bus answers or fails
a call, the daemon's main loop completes a handshake), and a thread whose connect is over enters
its manager (`Insert`). Nothing is assumed of starts, signals and crashes, of threads that wait for
the lock, and of what the application calls. `LockReleased` therefore does not say that a waiting
thread gets the lock: G_LOCK is not fair. `SplitEnds` does not say that clients of two daemons come
together: a manager connects once, so the clients of the daemon that ended keep a connection that
is down.

## 4. Where the code and its documents disagree

Each of these runs has one property and ends with a counterexample.

| run | the code | what it contradicts |
|---|---|---|
| daemon_many_connections | a check looks at one of several connections (`dbus-server.c:325`) | "Checks if the message port ... is registered" (`message-port.h:210`) |
| port_unregister | the call waits for an answer that is never sent (`msgport-service.c:162`, `dbus-service.c:119`) | "fire and forget" (`msgport-service.c:161`) |
| port_trust | the test is inverted (`message-port.c:66`) | "cannot be found" (`message-port.h:180`) |
| port_stale | the cache outlives the connection (`msgport-manager.c:221`) | "already registered, the previous message port id returned" (`message-port.h:105`) |
| threads_handler | callback and user data are replaced one after the other while another thread's loop may call them (`msgport-service.c:151`) | "client specific userdata that was passed while registering service" (`message-port.h:91`) |

The models show more, for which no run is kept because one step says it: the daemon's unregister
handler leaves the port registered (`dbus-service.c:119`, against "Unregisters the local message
port", `message-port.h:174`); plain messages name their sender (`dbus-manager.c:182`, against
`message-port.h:78-79`); a check for a trusted port compares no certificate (`dbus-manager.c:145`,
against `message-port.h:231`); when AUL fails to know the application of a process, its connection
counts as one without certificate, and trusted ports of a signed application then hear everybody
(`dbus-manager.c:248` and `286`, against `message-port.h:142`); ids wrap to 0, which `manager.c:224`
asserts away; a port registered again after a failed `GetAll` leaves a freed string in
`local_services` (`msgport-manager.c:182`; `Freed` in `ProxyCreated`); every error of the daemon,
NotFound too, becomes `IO_ERROR` (`msgport-utils.c:85`, against `message-port.h:248`), except that a
bidirectional send calls whatever its check ends with NOT_FOUND; registering returns 0 if the
properties of the new port were not received (`message-port.c:51`, against `message-port.h:109`); a
daemon whose bind failed, for whatever reason, runs on without a socket in both builds, since nobody
looks at the result (`dbus-server.c:258`, `262`, `306`); a manager that failed to connect is kept
for good (`msgport-factory.c:73`); on the session bus a replaced daemon unlinks the socket file of
its successor (`dbus-server.c:133`), and a client whose getBusAddress failed never uses the fallback
address, since the error is not cleared (`msgport-manager.c:126`); a thread created at the address
of one that ended inherits its ports, whose callbacks belong to a main context nobody runs
(`msgport-factory.c:61`, against `message-port.h:107`).

## 5. Proofs

`ServiceManagerProofs` proves for all sets of owners, names and addresses and every width:

- `TypeCorrect`, `CacheIsExact`: by the invariant `Tables == TypeOK /\ CacheExact`, which is
  inductive even when ids wrap;
- under `NoWrap`: `ListsAreExact`, `PortsAreUnique`, `IdsAreStable` and
  `RegistryImplemented`, the refinement of `PortRegistry`.

The last four rest on `IInv == Tables /\ IdsBelow /\ ListsExact /\ PortUnique`. None of the parts is
inductive alone. Lists stay exact when a service is entered only if the new id is free in
`service_cache` (otherwise an old service is freed behind its list), which needs `IdsBelow`: all
ids lie in `1 .. object_conter`. `IdsBelow` in turn needs that the export of the new path does not
fail, since the counter would go down: the path is free because no service has that id. And what `Disconnect` drops from `service_cache` is what its owner
had only because lists are exact and the cache leads from each id to its service. `NoWrap` is a
hypothesis of the theorem and an assumption of Daemon: it stands for a daemon with fewer than 2^32 registrations.

`DaemonProofs` shows `DSpec => Spec` (`DaemonUsesManager`): each handler is an operation of the
tables or leaves them alone. So `ListsExact`, the registry refinement and `IInv` hold in the
daemon. On top of them `DInv == DTypeOK /\ CertsSound` is inductive: `ValidateLemma` shows that a
verdict is right and what it remembers is, `ForwardLemma` that a message then forwarded satisfies
`TrustedDelivery`. Results: `DaemonTypeCorrect`, `VerdictsAreSound`, `DeliveryIsTrusted`. Assumed
of the constants: `SignerAssumption` (processes AUL does not know are not signed) and `NoWrap`.

On the way it also proves `ChecksAreSound`, `ChecksFindPorts` and `SendersAreReal`: exact lists make
the lookup by name exact (`PortsNamedLemma`), and the exact id table makes the id in the answer
lead back to that port.

`StartupProofs` proves `NothingLeftBlocksDaemon`. `FileLeadsToDaemon` is not inductive alone: a
second process could clear the path. `SInv` adds `Alone` (in the default build at most one process has
not ended, which is systemd's doing and the guard of `Start`), and that a process that is starting
has nothing at the path unless it was refused the unlink. What was refused to one process has no
effect on the next.

`ThreadsProofs` proves for any number of threads, managers, handlers and processes:

- `ManagersAreOwn`, by `TInv == TTypeOK /\ FactoryInv`: only the thread that holds the lock connects,
  the manager in its hands has begun to connect and is in no entry, entries are distinct and their
  managers have begun to connect, so that a new manager is in none of them;
- `ThreadsUseStartup`: `TSpec => SSpec`, from which `NothingLeftBlocksDaemonOfThreads`;
- `OwnHandlersMatch`, by `HandlersInv`: the words a thread has stored are in its port until it is done,
  since by `ManagersAreOwn` nobody else stores to it; only a port somebody stores to
  can hold words that are not a pair; and a thread that loads from its own port does not store.

`MessagePortProofs` takes the two ends together, for any number of threads and queues of any
length. `BeginsLemma` and `CompletesLemma` first reduce the calls of the library to what they do to
queues and to the call a thread is in; `HandleWrites` says what a handler may write.

- `PortsUseDaemon`: `MPSpec => DSpec`, so every theorem about the daemon holds with its clients. It
  needs `MPTypeOK`: what the library puts into its requests, ids from earlier answers too, are
  requests that Daemon handles.
- `MessagesGoWhereAsked`: `NoMisdelivery`, by `MPInv`. A message is sent under an id that an answer
  brought, so the answer has to be the one to this thread's check (`OneAnswer`: a request that is
  waited for or its answer is under way once at most, even among abandoned ones), its id has to
  have been right when it was written (`CheckLemma` of the daemon) and to have stayed so
  (`Names`: the id is not above `object_conter` and leads to that port or to none; by
  `FreshStep`, `StableStep` and `ManagerStep` no step but a restart of the daemon changes that). A
  restart cuts all connections, and a thread never gets a new one (`LinkInv`).

Three modules build on it. They split a step of the composition in the same way (`MPSteps`): what a
thread does leaves other threads and connections alone (`OthersLeft`), and a handler writes a signal
and an answer at most.

`CacheProofs`: `CacheMatchesDaemon` by `CachesInv`, which follows a port from the handler that
registers it to the cache of its client: a registration in progress is of an own port that was not
cached when the call began (`Registration`), an answer under way tells of a port that is registered
(`AnswerTrue`), what is cached under a path is the port at that path, or has no properties
(`ServiceTrue`), and a local id leads to its own path or to a freed string (`LocalTrue`). It stays true because the ports of a
client that stays connected stay (`PortsStay`: nothing in the daemon unregisters a single port, and
the counter goes up, so a new port gets a new path) and because a thread never connects twice.
`LocalIdsArePorts` is the action property: the id a call returns is in the cache, in an answer or
in the properties just read, so one of these parts says which port it names.

`TrustProofs`: `CallbacksAreTrusted` by `SignedInvs`. `TrustedDelivery` speaks of the moment a
message is written; it waits in two queues before a callback sees it. `SignedInv` says of each
message on its way to a connected thread that it is `Allowed`: its id was given, and if the daemon
has a trusted port under that id, the sender has the certificate of the application the daemon takes
the thread for. It is inductive because ids of messages on the way are not above the counter, so
that no port registered later gets them, and because the daemon does not change its mind about the
application of a connection (`ManagerStep`). What the thread itself holds for trusted is trusted in
the daemon by `CachesInv`. When the daemon is gone so is its view of the application, and nothing is
said of messages read before.

`MessagingProofs`: `MessagingImplemented` is the refinement of `Messaging`, with one lemma for each
step of the abstract specification (`IsAsk`, `IsForward`, ...) that says what the queues must do to
be that step, and one for each step of `MessagePort` (`ReceiveMaps`, `ServeMaps`, ...) that shows
which one it is. The mapping counts requests and signals in queues, hence the lemmas on `Count`:
an append adds one, a read takes one away, to abandon changes nothing. `SendInv` is what `MPInv` lacks:
only the calls that send make the D-Bus calls that send (`RightApi`), so that nothing else can tell a
sender of success, and nothing is left to read on a connection that is gone (`Silent`). The step
that needs most is `ServeMaps`: whether the request at the head of a queue is the one its thread
waits for, `OneAnswer` decides; if not, another one that the thread waits for may be behind it, and the
number of forgotten requests is still positive (`ServeLeaves`).

`CallsWaitForAnswers` is the safety half of `CallsReturn`: `AnswerUnderWay`, by `AllUnderWay`. Every
handler but the one of Unregister writes an answer on every path (`HandleSends`), and no step loses
the one request or answer a call waits for unless it ends the call or the connection.

The assumptions are those of Daemon, and that threads belong to applications
(`ThreadAppAssumption`, `BoundsAssumption`). `MaxLate`, `MaxSignals`, `Api`, `CallName` and `Peer`
are bounds of the runs; the theorems hold for all their values.

Every safety and refinement property of the passing runs is proved. Only model-checked: liveness
under fairness (`CallsReturn`, `PortsOfTheDeadGo`, `LockReleased`, `SplitEnds`), which is out of
the prover's reach.

## 6. Not modelled

Message contents and the conversion between bundles and variants; `daemon/server-socket.c`, which is
not built; the compatibility library, which passes calls through; `msgport_factory_uninit` and the
disposal of client managers, which nothing calls; allocation failures; NULL arguments; the choice
of the address by environment, configuration or run-time directory, which is the same on both
sides. `Signer` is constant: an application is not reinstalled with another certificate while it
runs. Connections without peer credentials (`dbus-manager.c:234-246`), which would have no application
id at all: a unix socket always has them, and what follows is as for a process AUL does not know. Code
behind the guards that macros add (`g_return_val_if_fail` on object types) never sees
wrong objects here. In `Threads` ports are not unregistered: a service that is freed while the main
loop is in its handler is undefined behaviour, with nothing to state about it. Use of freed memory
ends or survives; where it survives the models say with what.

## 7. Plan

Done: the modules above with their runs; the proofs of all safety properties and refinements.

1. More of the safety behind the liveness properties: that the thread that holds the lock of the
   factory is always at a step that can go on, and that `PortRegistry` loses the ports of a
   connection with it, in terms of `MessagePort`.
2. Two threads of one application in `MessagePort`, with the handler of a port in its events, so
   that a message can be followed from `SendPortMessage` to the callback of the right registration.
3. Ids of signed width at the client.
