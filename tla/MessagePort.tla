----------------------------- MODULE MessagePort -----------------------------
(***************************************************************************)
(* The daemon (Daemon) and the client library (lib/message-port.c,         *)
(* msgport-manager.c, msgport-service.c, msgport-utils.c) on both ends of  *)
(* their D-Bus connections.                                                *)
(*                                                                         *)
(* Each thread that uses message ports has one MsgPortManager and, through *)
(* it, one connection; thread and connection bear the same name.  A call   *)
(* of the library blocks on one or two D-Bus calls, so it is a sequence of *)
(* steps: its beginning, then one for each answer, timeout or error.       *)
(***************************************************************************)
EXTENDS Daemon, FiniteSets

CONSTANTS
  ThreadApp,  \* the application a thread belongs to
  ThreadPid,  \* the process id it goes by where AUL knows no application
  Api,        \* BOUND: thread -> the calls it makes
  CallName,   \* BOUND: the port names they use
  Peer,       \* BOUND: the applications they talk to
  MaxLate,    \* BOUND: no new call of a thread with more requests and answers under way
  MaxSignals  \* BOUND: no new call while so many signals are under way to a thread

ASSUME ThreadAppAssumption == ThreadApp \in [Owner -> App] /\ ThreadPid \in [Owner -> Pid]
ASSUME BoundsAssumption == CallName \subseteq AnyName /\ Peer \subseteq App

VARIABLES
  link,            \* thread -> state of its connection
  backlog,         \* connections the daemon has not picked up yet
  services,        \* thread -> (object path -> MsgPortService: cached properties)
  local_services,  \* thread -> (local port id -> object path)
  call,            \* thread -> the call it is blocked in
  toDaemon,        \* connection -> requests under way
  toClient,        \* connection -> answers and signals under way
  mailbox,         \* thread -> signals waiting in its GMainContext
  event            \* what the last step told an application

clientVars == <<link, services, local_services, call, mailbox, event>>
mpVars == <<dVars, clientVars, backlog, toDaemon, toClient>>

\* An object path "/id" is its id; a local id may lead to a freed string.
Freed == -1

\* What a proxy has cached whose GetAll was not answered.
NoProperties == [id |-> 0, port_name |-> "(null)", is_trusted |-> FALSE]

NoRequest == [op |-> "None"]
NoCall == [api |-> "None", re |-> NoRequest]
NoEvent == [type |-> "None"]

\* A call of the library on a port of application a (its own, to register), on
\* the local port id whose proxy is at path from, and the D-Bus call it waits for.
Call(api, a, n, t, id, from, re) ==
  [api |-> api, app_id |-> a, port_name |-> n, is_trusted |-> t, id |-> id, from |-> from,
   re |-> re]

\* Messages on their way to a thread.
Signalled(q) == {i \in DOMAIN q : q[i].message.type = "OnMessage"}
Flying(o) == Len(mailbox[o]) + Cardinality(Signalled(toClient[o]))

\* Requests of calls that have ended, and answers to them, are still under way, or
\* signals pile up.
Busy(o) == \/ Len(toDaemon[o]) + Cardinality(DOMAIN toClient[o] \ Signalled(toClient[o])) > MaxLate
           \/ \E q \in Owner : Flying(q) >= MaxSignals

\* Registrations under way may each use an id up.
Registering ==
  UNION {{<<o, i>> : i \in {j \in DOMAIN toDaemon[o] : toDaemon[o][j].re.op = "RegisterService"}} :
         o \in Owner}

-----------------------------------------------------------------------------
(* Error codes.                                                            *)

\* The code of a GError at the client.  The error domain "messagport" is not
\* registered in its process, so GDBus maps no error name of the daemon.
ClientCode(error) ==
  CASE error = "None" -> "NONE"
    [] error = "Timeout" -> "G_IO_ERROR_TIMED_OUT"
    [] error = "Closed" -> "G_IO_ERROR_CLOSED"
    [] OTHER -> "G_IO_ERROR_DBUS_ERROR"

\* Mutant: an unknown error passes for success.
DaemonErrorToError_Default(code) ==
  CASE code = "MSGPORT_ERROR_OUT_OF_MEMORY" -> "OUT_OF_MEMORY"
    [] code = "MSGPORT_ERROR_NOT_FOUND" -> "MESSAGEPORT_NOT_FOUND"
    [] code = "MSGPORT_ERROR_INVALID_PARAMS" -> "INVALID_PARAMETER"
    [] code = "MSGPORT_ERROR_CERTIFICATE_MISMATCH" -> "CERTIFICATE_NOT_MATCH"
    [] OTHER -> "NONE"

\* msgport_daemon_error_to_error.
DaemonErrorToError(code) ==
  CASE code = "NONE" -> "NONE"
    [] code = "MSGPORT_ERROR_OUT_OF_MEMORY" -> "OUT_OF_MEMORY"
    [] code = "MSGPORT_ERROR_NOT_FOUND" -> "MESSAGEPORT_NOT_FOUND"
    [] code = "MSGPORT_ERROR_INVALID_PARAMS" -> "INVALID_PARAMETER"
    [] code = "MSGPORT_ERROR_CERTIFICATE_MISMATCH" -> "CERTIFICATE_NOT_MATCH"
    [] OTHER -> "IO_ERROR"

ErrorOf(error) == DaemonErrorToError(ClientCode(error))

-----------------------------------------------------------------------------
(* The library's side of a connection.                                     *)

MPInit == /\ DInit
          /\ link = [o \in Owner |-> "none"]
          /\ backlog = {}
          /\ services = [o \in Owner |-> Nothing]
          /\ local_services = [o \in Owner |-> Nothing]
          /\ call = [o \in Owner |-> NoCall]
          /\ toDaemon = [o \in Owner |-> <<>>]
          /\ toClient = [o \in Owner |-> <<>>]
          /\ mailbox = [o \in Owner |-> <<>>]
          /\ event = NoEvent

\* The first call of a thread: msgport_manager_init connects, or fails and leaves
\* the manager without proxy for good.
Open(o) ==
  /\ link[o] = "none"
  /\ \/ link' = [link EXCEPT ![o] = "up"] /\ backlog' = backlog \cup {o}
     \/ link' = [link EXCEPT ![o] = "noproxy"] /\ UNCHANGED backlog
  /\ event' = NoEvent
  /\ Elsewhere
  /\ UNCHANGED <<services, local_services, call, toDaemon, toClient, mailbox>>

\* The call c of thread o returns: a local port id if positive, an error otherwise.
\* why is the error name the D-Bus call ended with.
Return(o, c, error, id, why) ==
  /\ call' = [call EXCEPT ![o] = NoCall]
  /\ event' = [type |-> "Return", thread |-> o, call |-> c, error |-> error, id |-> id,
               why |-> why]

\* A synchronous D-Bus call, after the requests q.  On a dead connection nothing
\* is written.
Ask(o, c, q) ==
  /\ call' = [call EXCEPT ![o] = c]
  /\ toDaemon' = [toDaemon EXCEPT ![o] = IF link[o] = "up"
                                         THEN Append(q, [re |-> c.re, waiting |-> TRUE])
                                         ELSE q]
  /\ event' = NoEvent

\* A thread begins a call of the library.
Begin(o, api) ==
  /\ api \in Api[o]
  /\ link[o] \in {"up", "down", "noproxy"}
  /\ call[o] = NoCall
  /\ ~ Busy(o)
  /\ Elsewhere
  /\ UNCHANGED <<link, backlog, services, toClient, mailbox>>

\* A call that needs no answer of the daemon.
ReturnNow(o, c, error, id) == /\ Return(o, c, error, id, "None")
                              /\ UNCHANGED toDaemon

HasProxy(o) == link[o] # "noproxy"

\* g_return_val_if_fail (manager->proxy, MESSAGEPORT_ERROR_IO_ERROR).
NoProxy(o, c) == ~ HasProxy(o) /\ ReturnNow(o, c, "IO_ERROR", 0)

\* Mutant: the trust is not compared.
Cached_AnyTrust(o, n, t) == {path \in DOMAIN services[o] : services[o][path].port_name = n}

\* _find_service among the cached services.
Cached(o, n, t) == {path \in DOMAIN services[o] : Matches(services[o][path], n, t)}

\* msgport_manager_register_service looks in its own cache first, whether or not
\* the connection is still there.
RegisterPort(o, n, t) ==
  LET re == [op |-> "RegisterService", port_name |-> n, is_trusted |-> t]
      c == Call("register", ThreadApp[o], n, t, 0, 0, re)
  IN  /\ Begin(o, "register")
      /\ UNCHANGED local_services
      /\ \/ NoProxy(o, c)
         \/ \E path \in Cached(o, n, t) : ReturnNow(o, c, "NONE", services[o][path].id)
         \/ /\ HasProxy(o)
            /\ Cached(o, n, t) = {}
            /\ object_conter + Cardinality(Registering) < MaxCounter
            /\ Ask(o, c, toDaemon[o])

\* _get_local_port: the outcomes of looking a local id up, each the path of a
\* service or none.  Once the path string was freed, whatever is there is compared.
LocalPort(o, id) ==
  IF id \notin DOMAIN local_services[o] THEN {{}}
  ELSE IF local_services[o][id] = Freed THEN {{}} \cup {{path} : path \in DOMAIN services[o]}
  ELSE {{local_services[o][id]} \cap DOMAIN services[o]}

\* No service is there: the local id is forgotten.
NoLocalPort(o, c) ==
  /\ local_services' = [local_services EXCEPT ![o] = Drop(@, {c.id})]
  /\ ReturnNow(o, c, "MESSAGEPORT_NOT_FOUND", 0)

\* _messageport_unregister_port goes on only if the trust differs from the one
\* asked for; then it looks the id up again.
UnregisterPort(o, id, t) ==
  LET c(path) == Call("unregister", ThreadApp[o], "", t, id, path,
                      [op |-> "Unregister", from |-> path])
      Trusts(path) == services[o][path].is_trusted = t
  IN  /\ Begin(o, "unregister")
      /\ \/ NoProxy(o, c(0)) /\ UNCHANGED local_services
         \/ /\ HasProxy(o) /\ id = 0
            /\ ReturnNow(o, c(0), "INVALID_PARAMETER", 0)
            /\ UNCHANGED local_services
         \/ /\ HasProxy(o) /\ id # 0
            /\ \E found, again \in LocalPort(o, id) :
                 \/ found = {} /\ NoLocalPort(o, c(0))
                 \/ /\ \E path \in found : Trusts(path)
                    /\ ReturnNow(o, c(0), "MESSAGEPORT_NOT_FOUND", 0)
                    /\ UNCHANGED local_services
                 \/ /\ \E path \in found : ~ Trusts(path)
                    /\ \/ again = {} /\ NoLocalPort(o, c(0))
                       \/ /\ \E path \in again : Ask(o, c(path), toDaemon[o])
                          /\ UNCHANGED local_services

CheckRequest(a, n, t) ==
  [op |-> "CheckForRemoteService", app_id |-> a, port_name |-> n, is_trusted |-> t]

\* msgport_manager_check_remote_service, alone or in msgport_manager_send_message.
CheckFirst(o, api, a, n, t) ==
  LET c == Call(api, a, n, t, 0, 0, CheckRequest(a, n, t))
  IN  /\ Begin(o, api)
      /\ UNCHANGED local_services
      /\ \/ NoProxy(o, c)
         \/ HasProxy(o) /\ Ask(o, c, toDaemon[o])

CheckRemotePort(o, a, n, t) == CheckFirst(o, "check", a, n, t)

SendPortMessage(o, a, n, t) == CheckFirst(o, "send", a, n, t)

\* msgport_manager_send_bidirectional_message looks the local port up before.
SendBidirectional(o, id, a, n, t) ==
  LET c(path) == Call("bidirectional", a, n, t, id, path, CheckRequest(a, n, t))
  IN  /\ Begin(o, "bidirectional")
      /\ \/ NoProxy(o, c(0)) /\ UNCHANGED local_services
         \/ /\ HasProxy(o) /\ id = 0
            /\ ReturnNow(o, c(0), "INVALID_PARAMETER", 0)
            /\ UNCHANGED local_services
         \/ /\ HasProxy(o) /\ id # 0
            /\ \E found \in LocalPort(o, id) :
                 \/ found = {} /\ NoLocalPort(o, c(0))
                 \/ /\ \E path \in found : Ask(o, c(path), toDaemon[o])
                    /\ UNCHANGED local_services

\* messageport_get_local_port_name and messageport_check_trusted_local_port read what
\* is cached: the call that returns has the name and the trust.
ReadLocalPort(o, id) ==
  LET c(n, t) == Call("read", ThreadApp[o], n, t, id, 0, NoRequest)
  IN  /\ Begin(o, "read")
      /\ \/ NoProxy(o, c("", FALSE)) /\ UNCHANGED local_services
         \/ /\ HasProxy(o) /\ id = 0
            /\ ReturnNow(o, c("", FALSE), "INVALID_PARAMETER", 0)
            /\ UNCHANGED local_services
         \/ /\ HasProxy(o) /\ id # 0
            /\ \E found \in LocalPort(o, id) :
                 \/ found = {} /\ NoLocalPort(o, c("", FALSE))
                 \/ /\ \E path \in found :
                         ReturnNow(o, c(services[o][path].port_name, services[o][path].is_trusted),
                                   "NONE", id)
                    /\ UNCHANGED local_services

-----------------------------------------------------------------------------
(* The D-Bus call of a thread ends: with the answer r, or with the error   *)
(* of a timeout or of a lost connection.  q: its requests still under way. *)

Failure(error) == [error |-> error, id |-> 0]

ReturnAfter(o, r, q, error, id) == /\ Return(o, call[o], error, id, r.error)
                                   /\ toDaemon' = [toDaemon EXCEPT ![o] = q]

Proceed(o, q, re) == Ask(o, [call[o] EXCEPT !.re = re], q)

\* msgport_manager_register_service goes on to create the proxy of the service,
\* which asks for its properties.
RegisterAnswered(o, r, q) ==
  /\ call[o].re.op = "RegisterService"
  /\ \/ r.error = "None" /\ Proceed(o, q, [op |-> "GetAll", from |-> r.id])
     \/ r.error # "None" /\ ReturnAfter(o, r, q, ErrorOf(r.error), 0)
  /\ UNCHANGED <<services, local_services>>

\* _create_and_cache_service.  An unanswered GetAll is ignored.  Entering a path
\* again keeps the old key and frees the new string, which local_services gets.
ProxyCreated(o, r, q) ==
  LET path == call[o].re.from
      service == IF r.error = "None"
                 THEN [id |-> r.id, port_name |-> r.port_name, is_trusted |-> r.is_trusted]
                 ELSE NoProperties
      key == IF path \in DOMAIN services[o] THEN Freed ELSE path
  IN  /\ call[o].re.op = "GetAll"
      /\ services' = [services EXCEPT ![o] = Put(@, path, service)]
      /\ local_services' = [local_services EXCEPT ![o] = Put(@, service.id, key)]
      /\ ReturnAfter(o, r, q, "NONE", service.id)

\* msgport_manager_unregister_service: any error is an IO_ERROR.
UnregisterAnswered(o, r, q) ==
  /\ call[o].re.op = "Unregister"
  /\ IF r.error = "None"
     THEN /\ services' = [services EXCEPT ![o] = Drop(@, {call[o].from})]
          /\ local_services' = [local_services EXCEPT ![o] = Drop(@, {call[o].id})]
          /\ ReturnAfter(o, r, q, "NONE", 0)
     ELSE /\ ReturnAfter(o, r, q, "IO_ERROR", 0)
          /\ UNCHANGED <<services, local_services>>

\* The check is all that was wanted, or a message follows under the id found.
CheckAnswered(o, r, q) ==
  /\ call[o].re.op = "CheckForRemoteService"
  /\ \/ /\ call[o].api = "check" \/ (call[o].api = "send" /\ r.error # "None")
        /\ ReturnAfter(o, r, q, ErrorOf(r.error), 0)
     \/ /\ call[o].api = "bidirectional" /\ r.error # "None"
        /\ ReturnAfter(o, r, q, "MESSAGEPORT_NOT_FOUND", 0)
     \/ /\ call[o].api = "send" /\ r.error = "None"
        /\ Proceed(o, q, [op |-> "SendMessage", service_id |-> r.id])
     \/ /\ call[o].api = "bidirectional" /\ r.error = "None"
        /\ Proceed(o, q, [op |-> "ServiceSendMessage", from |-> call[o].from,
                          service_id |-> r.id])
  /\ UNCHANGED <<services, local_services>>

SendAnswered(o, r, q) ==
  /\ call[o].re.op \in {"SendMessage", "ServiceSendMessage"}
  /\ ReturnAfter(o, r, q, ErrorOf(r.error), 0)
  /\ UNCHANGED <<services, local_services>>

Complete(o, r, q) ==
  \/ RegisterAnswered(o, r, q)
  \/ ProxyCreated(o, r, q)
  \/ UnregisterAnswered(o, r, q)
  \/ CheckAnswered(o, r, q)
  \/ SendAnswered(o, r, q)

\* GDBus forgets the serial of a call that timed out: its answer will be dropped.
Abandon(q) == [i \in DOMAIN q |-> [q[i] EXCEPT !.waiting = FALSE]]

\* No answer came within the default timeout of GDBus.
Timeout(o) ==
  /\ link[o] = "up"
  /\ Complete(o, Failure("Timeout"), Abandon(toDaemon[o]))
  /\ toClient' = [toClient EXCEPT ![o] = Abandon(@)]
  /\ Elsewhere
  /\ UNCHANGED <<link, backlog, mailbox>>

\* The connection is gone: the call fails at once.
Broken(o) ==
  /\ link[o] = "down"
  /\ Complete(o, Failure("Closed"), toDaemon[o])
  /\ Elsewhere
  /\ UNCHANGED <<link, backlog, toClient, mailbox>>

\* The proxies that listen for signals: those cached and the one that is being
\* created.
Subscribed(o, path) == \/ path \in DOMAIN services[o]
                       \/ call[o].re = [op |-> "GetAll", from |-> path]

\* The GDBus worker thread of the client takes a message off the connection.
Receive(o) ==
  /\ link[o] = "up"
  /\ toClient[o] # <<>>
  /\ LET head == Head(toClient[o])
         m == head.message
     IN  \/ /\ head.waiting
            /\ Complete(o, m, toDaemon[o])
            /\ UNCHANGED mailbox
         \/ /\ ~ head.waiting
            /\ mailbox' = IF m.type = "OnMessage" /\ Subscribed(o, m.id)
                          THEN [mailbox EXCEPT ![o] = Append(@, m)]
                          ELSE mailbox
            /\ event' = NoEvent
            /\ UNCHANGED <<services, local_services, call, toDaemon>>
  /\ toClient' = [toClient EXCEPT ![o] = Tail(@)]
  /\ Elsewhere
  /\ UNCHANGED <<link, backlog>>

\* _on_got_message: the main loop runs the callback of the port, whose id is what
\* the proxy has cached.  It may do so before the handler is connected.
Dispatch(o) ==
  /\ mailbox[o] # <<>>
  /\ LET m == Head(mailbox[o])
     IN  event' = IF m.id \in DOMAIN services[o]
                  THEN [type |-> "Callback", thread |-> o, id |-> services[o][m.id].id,
                        message |-> m]
                  ELSE NoEvent
  /\ mailbox' = [mailbox EXCEPT ![o] = Tail(@)]
  /\ Elsewhere
  /\ UNCHANGED <<link, backlog, services, local_services, call, toDaemon, toClient>>

\* The worker thread reads the end of a connection the daemon no longer has.
HangUp(o) ==
  /\ link[o] = "up"
  /\ o \notin clients \cup backlog
  /\ toClient[o] = <<>>
  /\ link' = [link EXCEPT ![o] = "down"]
  /\ event' = NoEvent
  /\ Elsewhere
  /\ UNCHANGED <<backlog, services, local_services, call, toDaemon, toClient, mailbox>>

\* The process of the thread ends, whatever it was doing.  Another one may take
\* its place once the daemon has noticed.
Exit(o) ==
  /\ link[o] \in {"up", "down", "noproxy"}
  /\ link' = [link EXCEPT ![o] = IF o \in clients \cup backlog THEN "exited" ELSE "none"]
  /\ services' = [services EXCEPT ![o] = Nothing]
  /\ local_services' = [local_services EXCEPT ![o] = Nothing]
  /\ call' = [call EXCEPT ![o] = NoCall]
  /\ toClient' = [toClient EXCEPT ![o] = <<>>]
  /\ mailbox' = [mailbox EXCEPT ![o] = <<>>]
  /\ toDaemon' = IF o \in clients \cup backlog THEN toDaemon ELSE [toDaemon EXCEPT ![o] = <<>>]
  /\ event' = NoEvent
  /\ Elsewhere
  /\ UNCHANGED backlog

-----------------------------------------------------------------------------
(* The daemon's side.                                                      *)

\* The daemon asks AUL for the application of the process.  AUL may fail, for one
\* that runs as well as for one that has ended: then it goes by its process id and
\* is taken to have no certificate, whatever its application is signed with.
Pick(o) ==
  /\ o \in backlog
  /\ \E a \in {ThreadApp[o], ThreadPid[o]} : Accept(o, a)
  /\ backlog' = backlog \ {o}
  /\ event' = NoEvent
  /\ UNCHANGED <<link, services, local_services, call, toDaemon, toClient, mailbox>>

\* What a handler wrote to connection q, which asked and was waiting or not: it
\* writes two messages at most.
Written(q, waiting) ==
  LET To(i) == IF i \in DOMAIN out' /\ out'[i].to = q
               THEN <<[message |-> out'[i], waiting |-> out'[i].type = "Reply" /\ waiting]>>
               ELSE <<>>
  IN  To(1) \o To(2)

\* The main loop of the daemon runs the handler of the next request of a
\* connection.
Serve(o) ==
  /\ toDaemon[o] # <<>>
  /\ Handle(o, Head(toDaemon[o]).re)
  /\ toDaemon' = [toDaemon EXCEPT ![o] = Tail(@)]
  /\ toClient' = [q \in Owner |->
                    IF link[q] = "up" THEN toClient[q] \o Written(q, Head(toDaemon[o]).waiting)
                                      ELSE toClient[q]]
  /\ event' = NoEvent
  /\ UNCHANGED <<link, backlog, services, local_services, call, mailbox>>

\* The daemon notices the end of a client.  Requests not read by then are lost.
Notice(o) ==
  /\ link[o] = "exited"
  /\ Closed(o)
  /\ link' = [link EXCEPT ![o] = "none"]
  /\ toDaemon' = [toDaemon EXCEPT ![o] = <<>>]
  /\ event' = NoEvent
  /\ UNCHANGED <<backlog, services, local_services, call, toClient, mailbox>>

\* The daemon dies with all it has not read; what it wrote can still be read.
DaemonDies ==
  /\ DaemonRestart
  /\ backlog' = {}
  /\ link' = [o \in Owner |-> IF link[o] = "exited" THEN "none" ELSE link[o]]
  /\ toDaemon' = [o \in Owner |-> <<>>]
  /\ event' = NoEvent
  /\ UNCHANGED <<services, local_services, call, toClient, mailbox>>

MPNext ==
  \/ DaemonDies
  \/ \E o \in Owner :
       \/ Open(o) \/ Exit(o) \/ Timeout(o) \/ Broken(o) \/ Receive(o) \/ Dispatch(o)
       \/ HangUp(o) \/ Pick(o) \/ Serve(o) \/ Notice(o)
       \/ \E n \in CallName, t \in BOOLEAN : RegisterPort(o, n, t)
       \/ \E id \in Id, t \in BOOLEAN : UnregisterPort(o, id, t)
       \/ \E id \in Id : ReadLocalPort(o, id)
       \/ \E a \in Peer, n \in CallName, t \in BOOLEAN :
            \/ CheckRemotePort(o, a, n, t)
            \/ SendPortMessage(o, a, n, t)
            \/ \E id \in Id : SendBidirectional(o, id, a, n, t)

MPSpec == MPInit /\ [][MPNext]_mpVars

\* Both ends read what there is to read and run what is ready: the daemon's main
\* loop and the worker threads of GDBus.  Nothing is said of timeouts, of what
\* the applications call, and of crashes.
Fairness ==
  \A o \in Owner :
    /\ WF_mpVars(Pick(o)) /\ WF_mpVars(Serve(o)) /\ WF_mpVars(Notice(o))
    /\ WF_mpVars(Receive(o)) /\ WF_mpVars(HangUp(o)) /\ WF_mpVars(Broken(o))

MPFairSpec == MPSpec /\ Fairness

-----------------------------------------------------------------------------
(* Properties.                                                             *)

\* Between the check that finds an id and the message sent under it, ports come
\* and go; the id still leads to the port that was asked for, or to none.
NoMisdelivery ==
  \A o \in Owner :
    (o \in clients /\ call[o].re.op \in {"SendMessage", "ServiceSendMessage"}) =>
      \A p \in GetServiceById(call[o].re.service_id) : IsPort(p, call[o])

\* Every port a connected client has in its cache is registered in the daemon
\* under that id, name and trust, unless its properties were never received.
CachedPortsRegistered ==
  \A o \in clients : link[o] = "up" => \A path \in DOMAIN services[o] :
    /\ ServicesAt(o, path) # {}
    /\ \/ services[o][path] = NoProperties
       \/ \E p \in ServicesAt(o, path) :
            /\ services[o][path].id = path
            /\ Matches(heap[p], services[o][path].port_name, services[o][path].is_trusted)

\* An id that a registration returns, or under which a name is read, is that of a
\* port of the thread with that name and trust, registered at this moment, whether it
\* comes from the cache or the daemon and however late answers to earlier calls come.
\* An id whose path string was freed is exempt.
LocalIdsNamePorts ==
  [][\A o \in clients :
       (/\ link[o] = "up"
        /\ event'.type = "Return" /\ event'.thread = o
        /\ event'.call.api \in {"register", "read"} /\ event'.id > 0
        /\ event'.id \in DOMAIN local_services'[o] /\ local_services'[o][event'.id] # Freed) =>
         \E p \in ServicesAt(o, event'.id) :
           Matches(heap[p], event'.call.port_name, event'.call.is_trusted)]_mpVars

\* A message on its way to the callback of a trusted port was sent by an application
\* with the certificate of the one that has the port, while the daemon has the
\* connection and unless it takes that application for one without certificate.
TrustedCallback ==
  \A o \in clients : \A i \in DOMAIN mailbox[o] :
    LET m == mailbox[o][i]
    IN  (m.id \in DOMAIN services[o] /\ services[o][m.id].is_trusted) =>
          Signer[AppOf(o)] \in {NoCert, Signer[m.app_id]}

Sends == {"SendMessage", "ServiceSendMessage"}

\* Messages to send that the daemon has not read, and answers it has written.
Requests(o) == {i \in DOMAIN toDaemon[o] : toDaemon[o][i].re.op \in Sends}
Waiting(q) == {i \in DOMAIN q : q[i].waiting}
Asked(o) == call[o].re.op \in Sends /\ Waiting(toDaemon[o]) # {}
Answers(o) == {toClient[o][i].message : i \in Waiting(toClient[o])}

\* A call that the daemon answers waits for something: while the daemon has the
\* connection, or is going to pick it up, the request or its answer is under way,
\* whatever became of earlier calls.
AnswerUnderWay ==
  \A o \in clients \cup backlog :
    (link[o] = "up" /\ call[o].api \notin {"None", "unregister"}) =>
      Waiting(toDaemon[o]) \cup Waiting(toClient[o]) # {}

\* What became of the message a thread waits to be sent.
Sending(o) ==
  CASE call[o].re.op \notin Sends -> "no"
    [] Asked(o) -> "asked"
    [] call[o].re.op \in Sends /\ ~ Asked(o) ->
         IF Answers(o) = {} THEN "lost"
         ELSE IF \E m \in Answers(o) : m.error = "None" THEN "forwarded" ELSE "refused"

\* Requests to send that no call waits for any more.
Forgotten(o) == Cardinality(Requests(o)) - (IF Asked(o) THEN 1 ELSE 0)

Told == IF event.type # "Return" THEN "nothing"
        ELSE IF event.call.api \notin {"send", "bidirectional"} THEN "nothing"
        ELSE IF event.error = "NONE" THEN "sent" ELSE "failed"

\* Queues, timeouts and late answers implement the promise made to a sender.
Messages == INSTANCE Messaging
              WITH Thread <- Owner,
                   alive <- {o \in Owner : link[o] = "up"},
                   sending <- [o \in Owner |-> Sending(o)],
                   abandoned <- [o \in Owner |-> Forgotten(o)],
                   flying <- [o \in Owner |-> Flying(o)],
                   told <- Told

ImplementsMessaging == Messages!Spec

\* A call that the daemon answers returns without the help of a timeout, even if
\* the daemon dies meanwhile, if earlier answers were late, or if the port it is
\* about disappears.
CallsReturn ==
  \A o \in Owner : call[o].api \notin {"None", "unregister"} ~> call[o] = NoCall

\* The ports of a process that ended do not stay.
PortsOfTheDeadGo ==
  \A o \in Owner : link[o] = "exited" ~> \A p \in DOMAIN heap : heap[p].owner # o

\* Unregistering is "fire and forget": it does not wait for the daemon.
UnregisterReturns ==
  \A o \in Owner : call[o].api = "unregister" ~> call[o] = NoCall

Returned(api) == event.type = "Return" /\ event.call.api = api

\* Unregistering answers that a port is not found only if the thread has no port
\* with that id and trust.
UnregisterFinds ==
  Returned("unregister") /\ event.error = "MESSAGEPORT_NOT_FOUND" =>
    \A path \in DOMAIN services[event.thread] :
      LET s == services[event.thread][path]
      IN  ~ (s.id = event.call.id /\ s.is_trusted = event.call.is_trusted)

\* Registering succeeds only on a connection that is still there.
RegisterIsLive ==
  Returned("register") /\ event.id > 0 => link[event.thread] = "up"
=============================================================================
