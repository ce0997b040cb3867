------------------------------- MODULE Daemon -------------------------------
(***************************************************************************)
(* The message port daemon (daemon/dbus-server.c, dbus-manager.c and       *)
(* dbus-service.c on top of ServiceManager): one dbus manager for each     *)
(* client connection, and one handler for each D-Bus method.  The daemon   *)
(* is one GLib main loop, so a handler is one step; here its call arrives  *)
(* out of nowhere, MessagePort adds the clients and the queues.            *)
(*                                                                         *)
(* Ids do not wrap here (NoWrap): ServiceManager studies that alone.       *)
(***************************************************************************)
EXTENDS ServiceManager, Sequences

CONSTANTS
  App,      \* application ids, as the daemon sees them
  Pid,      \* those that are only a process id: AUL knows no application
  Cert,     \* certificates
  NoCert,   \* no certificate
  Signer    \* the certificate that signed an application, or NoCert

ASSUME NoWrapAssumption == NoWrap
ASSUME SignerAssumption == /\ Pid \subseteq App
                           /\ Signer \in [App -> Cert \cup {NoCert}]
                           /\ \A a \in Pid : Signer[a] = NoCert

VARIABLES
  dbus_managers,  \* connection -> [app_id, is_null_cert, peer_certs]
  out             \* what the last step wrote: replies and signals, in order

dVars == <<smVars, dbus_managers, out>>

AppOf(o) == dbus_managers[o].app_id

\* Port names as they come in calls; the empty one is refused.
AnyName == Name \cup {""}

Request ==
       [op : {"RegisterService"}, port_name : AnyName, is_trusted : BOOLEAN]
  \cup [op : {"CheckForRemoteService"}, app_id : App, port_name : AnyName, is_trusted : BOOLEAN]
  \cup [op : {"SendMessage"}, service_id : Id]
  \cup [op : {"ServiceSendMessage"}, from : Id, service_id : Id]
  \cup [op : {"Unregister"}, from : Id]
  \cup [op : {"GetAll"}, from : Id]

Reply(o, re, error, id) == [type |-> "Reply", to |-> o, re |-> re, error |-> error, id |-> id]

\* The answer to GetAll: the properties of the service at p.
Properties(o, re, p) ==
  [type |-> "Reply", to |-> o, re |-> re, error |-> "None", id |-> heap[p].id,
   port_name |-> heap[p].port_name, is_trusted |-> heap[p].is_trusted]

\* Mutant: the message carries the trust of the port it is sent to.
OnMessage_ReceiverTrust(p, a, port, t) ==
  [type |-> "OnMessage", to |-> heap[p].owner, id |-> heap[p].id,
   app_id |-> a, port |-> port, is_trusted |-> heap[p].is_trusted]

\* The onMessage signal of the service at p, on the connection of its owner.
OnMessage(p, a, port, t) ==
  [type |-> "OnMessage", to |-> heap[p].owner, id |-> heap[p].id,
   app_id |-> a, port |-> port, is_trusted |-> t]

-----------------------------------------------------------------------------
(* Certificates.                                                           *)

\* pkgmgrinfo_pkginfo_compare_app_cert_info, when it succeeds.
CompareCert(lhs, rhs) ==
  CASE Signer[lhs] = NoCert /\ Signer[rhs] = NoCert -> "BOTH_NO_CERT"
    [] Signer[lhs] = NoCert /\ Signer[rhs] # NoCert -> "LHS_NO_CERT"
    [] Signer[lhs] # NoCert /\ Signer[rhs] = NoCert -> "RHS_NO_CERT"
    [] Signer[lhs] # NoCert /\ Signer[rhs] # NoCert ->
         IF Signer[lhs] = Signer[rhs] THEN "MATCH" ELSE "MISMATCH"

\* Mutants: only a mismatch refuses; a failed comparison is remembered.
Verdict_NotMismatch(result) == result # "MISMATCH"
AfterFailure_Cached(q, peer) == [dbus_managers EXCEPT ![q].peer_certs = Put(@, peer, FALSE)]

\* The owner of the port has no certificate: everybody may send to it.
NoCertOwner(result) == result \in {"LHS_NO_CERT", "BOTH_NO_CERT"}

Verdict(result) == result = "MATCH"

\* A comparison that failed leaves nothing behind: the next message tries again.
AfterFailure(q, peer) == dbus_managers

\* msgport_dbus_manager_validate_peer_certificate of the manager of q says
\* valid of the application peer.
ValidatePeer(q, peer, valid) ==
  LET m == dbus_managers[q]
      result == CompareCert(m.app_id, peer)
  IN  \/ /\ m.is_null_cert
         /\ valid
         /\ UNCHANGED dbus_managers
      \/ /\ ~ m.is_null_cert
         /\ peer \in DOMAIN m.peer_certs
         /\ valid = m.peer_certs[peer]
         /\ UNCHANGED dbus_managers
      \/ /\ ~ m.is_null_cert
         /\ peer \notin DOMAIN m.peer_certs
         /\ \/ ~ valid /\ dbus_managers' = AfterFailure(q, peer)
            \/ /\ NoCertOwner(result)
               /\ valid
               /\ dbus_managers' = [dbus_managers EXCEPT ![q].is_null_cert = TRUE]
            \/ /\ ~ NoCertOwner(result)
               /\ valid = Verdict(result)
               /\ dbus_managers' = [dbus_managers EXCEPT
                                      ![q].peer_certs = Put(@, peer, valid)]

-----------------------------------------------------------------------------
(* Handlers.                                                               *)

DInit == /\ Init
         /\ dbus_managers = Nothing
         /\ out = <<>>

\* A client connects; one that AUL does not know goes by its process id and is
\* taken to have no certificate.
Accept(o, a) ==
  /\ Connect(o)
  /\ dbus_managers' = Put(dbus_managers, o, [app_id |-> a, is_null_cert |-> a \in Pid,
                                             peer_certs |-> Nothing])
  /\ out' = <<>>

\* Mutant: the table of dbus managers keeps the entry.
Closed_Keeps(o) == Disconnect(o) /\ UNCHANGED dbus_managers /\ out' = <<>>

\* _on_connection_closed drops the dbus manager, whose dispose drops its services.
Closed(o) == /\ Disconnect(o)
             /\ dbus_managers' = Drop(dbus_managers, {o})
             /\ out' = <<>>

RegisterService(o, re) ==
  /\ o \in clients
  /\ re.op = "RegisterService"
  /\ \/ /\ re.port_name = ""
        /\ out' = <<Reply(o, re, "InvalidParams", 0)>>
        /\ UNCHANGED smVars
     \/ /\ RegisterFound(o, re.port_name, re.is_trusted)
        /\ \E found \in GetService(o, re.port_name, re.is_trusted) : \E p \in found :
             out' = <<Reply(o, re, "None", heap[p].id)>>
     \/ /\ re.port_name \in Name
        /\ RegisterNew(o, re.port_name, re.is_trusted)
        /\ out' = <<Reply(o, re, "None", NextId)>>
  /\ UNCHANGED dbus_managers

\* Mutants: the port is looked up by name only; trust is ignored on the way.
PortsNamed_AnyTrust(m, n, t) == {p \in Services(m) : heap[p].port_name = n}
PortsNamed_Untrusted(m, n, t) == UNION GetService(m, n, FALSE)

\* msgport_manager_get_service on the services of one connection.
PortsNamed(m, n, t) == UNION GetService(m, n, t)

\* msgport_dbus_server_get_dbus_manager_by_app_id takes the first match of a
\* hash table walk, whatever the order: any connection of the application.
ManagersOf(a) == {m \in clients : AppOf(m) = a}

\* Mutant: the handler returns without completing the call.
PortNotFound_Silent(o, re) == <<>>

PortNotFound(o, re) == <<Reply(o, re, "NotFound", 0)>>

CheckForRemoteService(o, re) ==
  /\ o \in clients
  /\ re.op = "CheckForRemoteService"
  /\ \/ /\ ManagersOf(re.app_id) = {}
        /\ out' = PortNotFound(o, re)
     \/ \E m \in ManagersOf(re.app_id) :
          \/ /\ re.port_name = ""
             /\ out' = <<Reply(o, re, "InvalidParams", 0)>>
          \/ /\ re.port_name # ""
             /\ PortsNamed(m, re.port_name, re.is_trusted) = {}
             /\ out' = PortNotFound(o, re)
          \/ \E p \in PortsNamed(m, re.port_name, re.is_trusted) :
               out' = <<Reply(o, re, "None", heap[p].id)>>
  /\ UNCHANGED <<smVars, dbus_managers>>

\* msgport_dbus_service_send_message on the service with the wanted id, and the
\* answer to the caller o: the message comes from port (a, port, t).
Forward(o, re, a, port, t) ==
  \/ /\ re.service_id = 0
     /\ out' = <<Reply(o, re, "InvalidParams", 0)>>
     /\ UNCHANGED dbus_managers
  \/ /\ re.service_id # 0
     /\ GetServiceById(re.service_id) = {}
     /\ out' = <<Reply(o, re, "Unknown", 0)>>
     /\ UNCHANGED dbus_managers
  \/ /\ re.service_id # 0
     /\ \E p \in GetServiceById(re.service_id) :
          \/ /\ ~ heap[p].is_trusted
             /\ out' = <<OnMessage(p, a, port, t), Reply(o, re, "None", 0)>>
             /\ UNCHANGED dbus_managers
          \/ /\ heap[p].is_trusted
             /\ ValidatePeer(heap[p].owner, a, TRUE)
             /\ out' = <<OnMessage(p, a, port, t), Reply(o, re, "None", 0)>>
          \/ /\ heap[p].is_trusted
             /\ ValidatePeer(heap[p].owner, a, FALSE)
             /\ out' = <<Reply(o, re, "CertificateMismatch", 0)>>

\* _dbus_manager_handle_send_message: the sender has no port.
SendMessage(o, re) == /\ o \in clients
                      /\ re.op = "SendMessage"
                      /\ Forward(o, re, AppOf(o), "", FALSE)
                      /\ UNCHANGED smVars

\* The service objects "/id" a call on connection o can reach.
ServicesAt(o, id) == {p \in DOMAIN heap : heap[p].owner = o /\ heap[p].id = id}

\* GDBus answers a call on a path where nothing is exported.
NoSuchObject(o, re) ==
  /\ o \in clients
  /\ re.op \in {"ServiceSendMessage", "Unregister", "GetAll"}
  /\ ServicesAt(o, re.from) = {}
  /\ out' = <<Reply(o, re, "UnknownMethod", 0)>>
  /\ UNCHANGED <<smVars, dbus_managers>>

\* _dbus_service_handle_send_message: the message comes from the service's port.
ServiceSendMessage(o, re) ==
  /\ o \in clients
  /\ re.op = "ServiceSendMessage"
  /\ \E p \in ServicesAt(o, re.from) :
       Forward(o, re, AppOf(heap[p].owner), heap[p].port_name, heap[p].is_trusted)
  /\ UNCHANGED smVars

\* Mutant: the handler unregisters the port, but still answers nothing.
Unregister_Silent(o, re) ==
  /\ o \in clients
  /\ re.op = "Unregister"
  /\ ServicesAt(o, re.from) # {}
  /\ UnregisterService(re.from)
  /\ out' = <<>>
  /\ UNCHANGED dbus_managers

\* _dbus_service_handle_unregister claims the call and does nothing: "FIXME".
\* There is no reply.
Unregister(o, re) ==
  /\ o \in clients
  /\ re.op = "Unregister"
  /\ ServicesAt(o, re.from) # {}
  /\ out' = <<>>
  /\ UNCHANGED <<smVars, dbus_managers>>

\* GDBus answers Properties.GetAll from the skeleton.
GetAll(o, re) ==
  /\ o \in clients
  /\ re.op = "GetAll"
  /\ \E p \in ServicesAt(o, re.from) : out' = <<Properties(o, re, p)>>
  /\ UNCHANGED <<smVars, dbus_managers>>

\* The daemon is killed, or crashes, and is started again.
DaemonRestart == /\ Restart
                 /\ dbus_managers' = Nothing
                 /\ out' = <<>>

\* Something else in the system moves: the daemon writes nothing.
Elsewhere == /\ out' = <<>>
             /\ UNCHANGED <<smVars, dbus_managers>>

Handle(o, re) ==
  \/ RegisterService(o, re)
  \/ CheckForRemoteService(o, re)
  \/ SendMessage(o, re)
  \/ ServiceSendMessage(o, re)
  \/ Unregister(o, re)
  \/ GetAll(o, re)
  \/ NoSuchObject(o, re)

DNext ==
  \/ \E o \in Owner, a \in App : Accept(o, a)
  \/ \E o \in Owner : Closed(o)
  \/ \E o \in Owner, re \in Request : Handle(o, re)
  \/ DaemonRestart
  \/ Elsewhere

DSpec == DInit /\ [][DNext]_dVars

-----------------------------------------------------------------------------
(* Properties.                                                             *)

Outputs(type) == {out[i] : i \in {j \in DOMAIN out : out[j].type = type}}

\* Tables from peer applications to verdicts, and the fields of a dbus manager.
Verdicts == UNION {[S -> BOOLEAN] : S \in SUBSET App}
Manager == [app_id : App, is_null_cert : BOOLEAN, peer_certs : Verdicts]

\* The table of dbus managers has exactly the connections that hold the
\* MsgPortManager, each with an application and its verdicts (type invariant).
DTypeOK == dbus_managers \in [clients -> Manager]

\* What a dbus manager remembers of certificates is true: it gave up checking
\* only for an application without certificate, and a cached verdict is what a
\* comparison would say.  In particular no failed comparison is remembered.
CertsSound ==
  \A o \in clients :
    /\ dbus_managers[o].is_null_cert => Signer[AppOf(o)] = NoCert
    /\ \A a \in DOMAIN dbus_managers[o].peer_certs :
         dbus_managers[o].peer_certs[a] <=> Signer[a] = Signer[AppOf(o)]

\* A message that reaches a trusted port of an application with a certificate
\* comes from an application signed with the same one, by whichever method and
\* from whichever port it was sent.
TrustedDelivery ==
  \A m \in Outputs("OnMessage") : \A p \in GetServiceById(m.id) :
    heap[p].is_trusted => Signer[AppOf(m.to)] \in {NoCert, Signer[m.app_id]}

IsPort(p, re) == /\ AppOf(heap[p].owner) = re.app_id
                 /\ heap[p].port_name = re.port_name
                 /\ heap[p].is_trusted = re.is_trusted

\* The id in the answer to a check is that of the port asked for, registered at
\* this moment by the application asked for.
CheckSound ==
  \A m \in Outputs("Reply") :
    m.re.op = "CheckForRemoteService" /\ m.error = "None" =>
      \E p \in GetServiceById(m.id) : IsPort(p, m.re)

\* A check answers NotFound only when the application has no connection, or one
\* that has not registered the port: with one connection the answer is right.
CheckFinds ==
  \A m \in Outputs("Reply") :
    m.re.op = "CheckForRemoteService" /\ m.error = "NotFound" =>
      \/ ManagersOf(m.re.app_id) = {}
      \/ \E o \in ManagersOf(m.re.app_id) :
           \A p \in DOMAIN heap : heap[p].owner = o => ~ IsPort(p, m.re)

\* A check answers NotFound only when no connection of the application has
\* registered the port.
CheckComplete ==
  \A m \in Outputs("Reply") :
    m.re.op = "CheckForRemoteService" /\ m.error = "NotFound" =>
      \A p \in DOMAIN heap : ~ IsPort(p, m.re)

\* The sender a bidirectional message names is a port, registered now, of the
\* application that sent it, so that an answer can find its way.
ReturnAddress ==
  \A m \in Outputs("OnMessage") :
    m.port # "" => \E p \in DOMAIN heap : /\ AppOf(heap[p].owner) = m.app_id
                                          /\ heap[p].port_name = m.port
                                          /\ heap[p].is_trusted = m.is_trusted
=============================================================================
