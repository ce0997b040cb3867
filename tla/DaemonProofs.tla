---------------------------- MODULE DaemonProofs ----------------------------
(***************************************************************************)
(* Theorems about Daemon for every set of applications and certificates.   *)
(***************************************************************************)
EXTENDS Daemon, ServiceManagerProofs

-----------------------------------------------------------------------------
(* The handlers use the tables only through the operations of             *)
(* ServiceManager, so its theorems hold of the daemon.                     *)

\* Each handler is an operation of the service tables or leaves them alone.
LEMMA DaemonStep == DNext => [Next]_smVars
<1> SUFFICES ASSUME DNext PROVE [Next]_smVars
  OBVIOUS
<1>1. ASSUME NEW o \in Owner, NEW a \in App, Accept(o, a) PROVE [Next]_smVars
  BY <1>1 DEF Accept, Next
<1>2. ASSUME NEW o \in Owner, Closed(o) PROVE [Next]_smVars
  BY <1>2 DEF Closed, Next
<1>3. ASSUME NEW o \in Owner, NEW re \in Request, Handle(o, re) PROVE [Next]_smVars
  <2>1. CASE RegisterService(o, re)
    <3>1. CASE RegisterNew(o, re.port_name, re.is_trusted) /\ re.port_name \in Name
      <4>1. re.is_trusted \in BOOLEAN
        BY <2>1 DEF Request, RegisterService
      <4> QED
        BY <3>1, <4>1 DEF Next
    <3>2. CASE UNCHANGED smVars
      BY <3>2
    <3> QED
      BY <2>1, <3>1, <3>2 DEF RegisterService, RegisterFound
  <2>2. CASE UNCHANGED smVars
    BY <2>2
  <2> QED
    BY <1>3, <2>1, <2>2 DEF Handle, CheckForRemoteService, SendMessage, ServiceSendMessage,
                            Unregister, GetAll, NoSuchObject
<1>4. CASE DaemonRestart
  BY <1>4 DEF DaemonRestart, Next
<1>5. CASE Elsewhere
  BY <1>5 DEF Elsewhere
<1> QED
  BY <1>1, <1>2, <1>3, <1>4, <1>5 DEF DNext

\* The daemon's handlers implement the service manager's operations.
THEOREM DaemonUsesManager == DSpec => Spec
<1>1. DInit => Init
  BY DEF DInit
<1>2. [DNext]_dVars => [Next]_smVars
  BY DaemonStep DEF dVars
<1> QED
  BY <1>1, <1>2, PTL DEF DSpec, Spec

\* Whatever the clients call and whenever they disconnect, the lists of services
\* hold exactly the live services of connected clients.
THEOREM DaemonLists == DSpec => []ListsExact
  BY DaemonUsesManager, ListsAreExact, NoWrapAssumption, PTL

\* The daemon implements the port registry.
THEOREM DaemonRegistry == DSpec => ImplementsRegistry
  BY DaemonUsesManager, RegistryImplemented, NoWrapAssumption, PTL

\* The invariant of the service tables holds in the daemon.
LEMMA DaemonIInv == DSpec => []IInv
  BY DaemonUsesManager, Invariance, NoWrapAssumption, PTL

-----------------------------------------------------------------------------
(* What the dbus managers remember of certificates.                        *)

DInv == DTypeOK /\ CertsSound

\* Tables of verdicts stay so when a verdict is entered.
LEMMA VerdictsLemma ==
  ASSUME NEW f \in Verdicts
  PROVE  /\ DOMAIN f \subseteq App
         /\ f \in [DOMAIN f -> BOOLEAN]
         /\ \A a \in App, v \in BOOLEAN : Put(f, a, v) \in Verdicts
  <1>1. PICK S \in SUBSET App : f \in [S -> BOOLEAN]
    BY DEF Verdicts
  <1>2. ASSUME NEW a \in App, NEW v \in BOOLEAN PROVE Put(f, a, v) \in Verdicts
    <2>1. Put(f, a, v) \in [S \cup {a} -> BOOLEAN]
      BY <1>1 DEF Put
    <2>2. S \cup {a} \in SUBSET App
      OBVIOUS
    <2> QED
      BY <2>1, <2>2 DEF Verdicts
  <1> QED
    BY <1>1, <1>2

\* No dbus manager remembers anything at the start.
LEMMA DInvInit == DInit => DInv
  BY NothingLemma DEF DInit, Init, DInv, DTypeOK, CertsSound, Nothing

\* A verdict of ValidatePeer is sound, and what it remembers is.
LEMMA ValidateLemma ==
  ASSUME DInv, NEW q \in clients, NEW peer \in App, NEW valid \in BOOLEAN,
         ValidatePeer(q, peer, valid), UNCHANGED smVars
  PROVE  /\ DInv'
         /\ \A o \in clients : AppOf(o)' = AppOf(o)
         /\ valid => Signer[AppOf(q)] \in {NoCert, Signer[peer]}
<1> DEFINE m == dbus_managers[q]
           result == CompareCert(m.app_id, peer)
<1> USE DEF AppOf
<1>0. /\ dbus_managers \in [clients -> Manager] /\ clients' = clients
      /\ m.app_id \in App /\ Signer[m.app_id] \in Cert \cup {NoCert}
      /\ Signer[peer] \in Cert \cup {NoCert}
  BY SignerAssumption DEF DInv, DTypeOK, smVars, Manager
<1>1. CASE m.is_null_cert /\ valid /\ UNCHANGED dbus_managers
  BY <1>0, <1>1 DEF DInv, DTypeOK, CertsSound
<1>2. CASE /\ peer \in DOMAIN m.peer_certs
           /\ valid = m.peer_certs[peer]
           /\ UNCHANGED dbus_managers
  BY <1>0, <1>2 DEF DInv, DTypeOK, CertsSound
<1>3. CASE ~ valid /\ dbus_managers' = AfterFailure(q, peer)
  BY <1>0, <1>3 DEF DInv, DTypeOK, CertsSound, AfterFailure
<1>4. CASE /\ NoCertOwner(result)
           /\ valid
           /\ dbus_managers' = [dbus_managers EXCEPT ![q].is_null_cert = TRUE]
  <2>1. Signer[m.app_id] = NoCert
    BY <1>4 DEF CompareCert, NoCertOwner
  <2>2. DTypeOK'
    BY <1>0, <1>4 DEF DTypeOK, Manager
  <2>3. \A o \in clients :
          /\ dbus_managers'[o].app_id = dbus_managers[o].app_id
          /\ dbus_managers'[o].peer_certs = dbus_managers[o].peer_certs
          /\ o # q => dbus_managers'[o] = dbus_managers[o]
    BY <1>0, <1>4 DEF Manager
  <2>4. CertsSound'
    BY <1>0, <2>1, <2>3 DEF DInv, CertsSound
  <2> QED
    BY <1>0, <1>4, <2>1, <2>2, <2>3, <2>4 DEF DInv
<1>5. CASE /\ ~ NoCertOwner(result)
           /\ valid = Verdict(result)
           /\ dbus_managers' = [dbus_managers EXCEPT ![q].peer_certs = Put(@, peer, valid)]
  <2>1. Signer[m.app_id] # NoCert /\ (valid <=> Signer[peer] = Signer[m.app_id])
    BY <1>5 DEF CompareCert, NoCertOwner, Verdict
  <2>2. Put(m.peer_certs, peer, valid) \in Verdicts
    BY <1>0, VerdictsLemma DEF Manager
  <2>3. DTypeOK'
    BY <1>0, <1>5, <2>2 DEF DTypeOK, Manager
  <2>4. \A o \in clients :
          /\ dbus_managers'[o].app_id = dbus_managers[o].app_id
          /\ dbus_managers'[o].is_null_cert = dbus_managers[o].is_null_cert
          /\ o # q => dbus_managers'[o] = dbus_managers[o]
    BY <1>0, <1>5 DEF Manager
  <2>5. dbus_managers'[q].peer_certs = Put(m.peer_certs, peer, valid)
    BY <1>0, <1>5 DEF Manager
  <2>6. CertsSound'
    BY <1>0, <2>1, <2>4, <2>5 DEF DInv, CertsSound, Put
  <2> QED
    BY <1>0, <2>1, <2>3, <2>4, <2>6 DEF DInv
<1> QED
  BY <1>1, <1>2, <1>3, <1>4, <1>5 DEF ValidatePeer

-----------------------------------------------------------------------------
(* Forwarding a message: what Forward adds to the tables is sound, and every *)
(* signal it writes passed the check of the port it is written to.           *)

\* A message forwarded to a trusted port comes from an application that may send it.
LEMMA ForwardLemma ==
  ASSUME IInv, DInv, NEW o \in clients, NEW re, NEW a \in App, NEW port, NEW t,
         Forward(o, re, a, port, t), UNCHANGED smVars
  PROVE  DInv' /\ TrustedDelivery'
<1> USE DEF AppOf
<1>1. CASE out' = <<Reply(o, re, "InvalidParams", 0)>> /\ UNCHANGED dbus_managers
  <2>1. Outputs("OnMessage")' = {}
    BY <1>1 DEF Outputs, Reply
  <2> QED
    BY <1>1, <2>1 DEF DInv, DTypeOK, CertsSound, TrustedDelivery, smVars
<1>2. CASE out' = <<Reply(o, re, "Unknown", 0)>> /\ UNCHANGED dbus_managers
  <2>1. Outputs("OnMessage")' = {}
    BY <1>2 DEF Outputs, Reply
  <2> QED
    BY <1>2, <2>1 DEF DInv, DTypeOK, CertsSound, TrustedDelivery, smVars
<1>3. ASSUME NEW p \in GetServiceById(re.service_id)
      PROVE  /\ p \in DOMAIN heap /\ heap[p].id = re.service_id
             /\ heap[p].owner \in clients
             /\ GetServiceById(heap[p].id) = {p}
  BY <1>3 DEF IInv, Tables, CacheExact, ListsExact, GetServiceById
<1>4. ASSUME NEW p \in GetServiceById(re.service_id), ~ heap[p].is_trusted,
             out' = <<OnMessage(p, a, port, t), Reply(o, re, "None", 0)>>,
             UNCHANGED dbus_managers
      PROVE  DInv' /\ TrustedDelivery'
  <2>1. Outputs("OnMessage")' = {OnMessage(p, a, port, t)}
    BY <1>4 DEF Outputs, Reply, OnMessage
  <2>2. /\ heap' = heap
        /\ \A i : GetServiceById(i)' = GetServiceById(i)
        /\ OnMessage(p, a, port, t).id = heap[p].id
    BY DEF smVars, GetServiceById, OnMessage
  <2>3. \A q \in GetServiceById(heap[p].id) : ~ heap[q].is_trusted
    BY <1>3, <1>4
  <2>4. TrustedDelivery'
    BY <2>1, <2>2, <2>3 DEF TrustedDelivery
  <2> QED
    BY <1>4, <2>4 DEF DInv, DTypeOK, CertsSound, smVars
<1>5. ASSUME NEW p \in GetServiceById(re.service_id),
             ValidatePeer(heap[p].owner, a, TRUE),
             out' = <<OnMessage(p, a, port, t), Reply(o, re, "None", 0)>>
      PROVE  DInv' /\ TrustedDelivery'
  <2>1. Outputs("OnMessage")' = {OnMessage(p, a, port, t)}
    BY <1>5 DEF Outputs, Reply, OnMessage
  <2>2. /\ DInv'
        /\ \A q \in clients : dbus_managers'[q].app_id = dbus_managers[q].app_id
        /\ Signer[dbus_managers[heap[p].owner].app_id] \in {NoCert, Signer[a]}
    BY <1>3, <1>5, ValidateLemma
  <2>3. /\ OnMessage(p, a, port, t).to = heap[p].owner
        /\ OnMessage(p, a, port, t).app_id = a
    BY DEF OnMessage
  <2> QED
    BY <1>3, <2>1, <2>2, <2>3 DEF TrustedDelivery
<1>6. ASSUME NEW p \in GetServiceById(re.service_id),
             ValidatePeer(heap[p].owner, a, FALSE),
             out' = <<Reply(o, re, "CertificateMismatch", 0)>>
      PROVE  DInv' /\ TrustedDelivery'
  <2>1. Outputs("OnMessage")' = {}
    BY <1>6 DEF Outputs, Reply
  <2>2. DInv'
    BY <1>3, <1>6, ValidateLemma
  <2> QED
    BY <2>1, <2>2 DEF TrustedDelivery
<1> QED
  BY <1>1, <1>2, <1>4, <1>5, <1>6 DEF Forward

\* A step that writes no signal delivers nothing.
LEMMA NoSignalLemma ==
  ASSUME \/ out' = <<>>
         \/ \E o, re, e, i : out' = <<Reply(o, re, e, i)>>
         \/ \E o, re, p : out' = <<Properties(o, re, p)>>
  PROVE  TrustedDelivery'
<1>1. Outputs("OnMessage")' = {}
  BY DEF Outputs, Reply, Properties
<1> QED
  BY <1>1 DEF TrustedDelivery

\* Every step of the daemon keeps what its managers remember sound, and hands a
\* message to a trusted port only after the certificates were found to match.
LEMMA DInvStep ==
  ASSUME IInv, DInv, [DNext]_dVars
  PROVE  DInv' /\ (TrustedDelivery => TrustedDelivery')
<1> USE DEF AppOf
<1>0. dbus_managers \in [clients -> Manager]
  BY DEF DInv, DTypeOK
<1>1. ASSUME NEW o \in Owner, NEW a \in App, Accept(o, a)
      PROVE  DInv' /\ TrustedDelivery'
  <2> DEFINE new == [app_id |-> a, is_null_cert |-> a \in Pid, peer_certs |-> Nothing]
  <2>1. Nothing \in Verdicts
    BY NothingLemma DEF Verdicts
  <2>2. new \in Manager
    BY <2>1 DEF Manager
  <2>3. DTypeOK'
    BY <1>0, <1>1, <2>2 DEF Accept, Connect, DTypeOK, Put
  <2>4. new.is_null_cert => Signer[a] = NoCert
    BY SignerAssumption
  <2>5. CertsSound'
    BY <1>0, <1>1, <2>4, NothingLemma DEF DInv, Accept, Connect, CertsSound, Put
  <2> QED
    BY <1>1, <2>3, <2>5, NoSignalLemma DEF DInv, Accept
<1>2. ASSUME NEW o \in Owner, Closed(o)
      PROVE  DInv' /\ TrustedDelivery'
  <2>1. clients' = clients \ {o}
    BY <1>2 DEF Closed, Disconnect
  <2>2. dbus_managers' = [c \in clients \ {o} |-> dbus_managers[c]]
    BY <1>0, <1>2 DEF Closed, Drop, Restrict
  <2>3. DTypeOK'
    BY <1>0, <2>1, <2>2 DEF DTypeOK
  <2>4. CertsSound'
    BY <2>1, <2>2 DEF DInv, CertsSound
  <2>5. TrustedDelivery'
    BY <1>2, NoSignalLemma DEF Closed
  <2> QED
    BY <2>3, <2>4, <2>5 DEF DInv
<1>3. ASSUME NEW o \in Owner, NEW re \in Request, Handle(o, re)
      PROVE  DInv' /\ TrustedDelivery'
  <2>1. CASE RegisterService(o, re)
    <3>1. clients' = clients /\ dbus_managers' = dbus_managers
      BY <2>1 DEF RegisterService, RegisterFound, RegisterNew, smVars
    <3>2. \E e, i : out' = <<Reply(o, re, e, i)>>
      BY <2>1 DEF RegisterService
    <3> QED
      BY <3>1, <3>2, NoSignalLemma DEF DInv, DTypeOK, CertsSound
  <2>2. CASE SendMessage(o, re)
    BY <1>0, <2>2, ForwardLemma DEF SendMessage, Manager
  <2>3. CASE ServiceSendMessage(o, re)
    <3>1. PICK p \in ServicesAt(o, re.from) :
            Forward(o, re, dbus_managers[heap[p].owner].app_id,
                    heap[p].port_name, heap[p].is_trusted)
      BY <2>3 DEF ServiceSendMessage
    <3>2. heap[p].owner = o /\ o \in clients
      BY <2>3 DEF ServicesAt, ServiceSendMessage
    <3> QED
      BY <1>0, <2>3, <3>1, <3>2, ForwardLemma DEF ServiceSendMessage, Manager
  <2>4. CASE \/ CheckForRemoteService(o, re) \/ Unregister(o, re)
             \/ GetAll(o, re) \/ NoSuchObject(o, re)
    <3>1. clients' = clients /\ dbus_managers' = dbus_managers
      BY <2>4 DEF CheckForRemoteService, Unregister, GetAll, NoSuchObject, smVars
    <3>2. \/ out' = <<>>
          \/ \E e, i : out' = <<Reply(o, re, e, i)>>
          \/ \E p : out' = <<Properties(o, re, p)>>
      BY <2>4 DEF CheckForRemoteService, PortNotFound, Unregister, GetAll, NoSuchObject
    <3> QED
      BY <3>1, <3>2, NoSignalLemma DEF DInv, DTypeOK, CertsSound
  <2> QED
    BY <1>3, <2>1, <2>2, <2>3, <2>4 DEF Handle
<1>4. CASE DaemonRestart
  BY <1>4, NothingLemma, NoSignalLemma DEF DaemonRestart, Restart, DInv, DTypeOK, CertsSound
<1>5. CASE Elsewhere
  BY <1>5, NoSignalLemma DEF Elsewhere, smVars, DInv, DTypeOK, CertsSound
<1>6. CASE UNCHANGED dVars
  BY <1>6 DEF dVars, smVars, DInv, DTypeOK, CertsSound, TrustedDelivery, Outputs, GetServiceById
<1> QED
  BY <1>1, <1>2, <1>3, <1>4, <1>5, <1>6 DEF DNext

\* Both invariants and the rule of delivery hold in the daemon.
LEMMA DInvariance == DSpec => [](IInv /\ DInv /\ TrustedDelivery)
<1>1. DInit => DInv /\ TrustedDelivery
  BY DInvInit, NothingLemma DEF DInit, TrustedDelivery, Outputs
<1>2. IInv /\ (DInv /\ TrustedDelivery) /\ [DNext]_dVars => (DInv /\ TrustedDelivery)'
  BY DInvStep
<1> QED
  BY <1>1, <1>2, DaemonIInv, PTL DEF DSpec

\* There is a dbus manager for every connection and for nothing else, each with
\* an application and a table of verdicts.
THEOREM DaemonTypeCorrect == DSpec => []DTypeOK
  BY DInvariance, PTL DEF DInv

\* A cached verdict is the verdict a comparison would give.
THEOREM VerdictsAreSound == DSpec => []CertsSound
  BY DInvariance, PTL DEF DInv

\* No message reaches a trusted port of a signed application from an application
\* signed by somebody else.
THEOREM DeliveryIsTrusted == DSpec => []TrustedDelivery
  BY DInvariance, PTL

-----------------------------------------------------------------------------
(* What the daemon tells its clients of ports.                             *)

Truthful == CheckSound /\ CheckFinds /\ ReturnAddress

\* A step that answers no check and forwards no message says nothing of ports.
LEMMA NoPortLemma ==
  ASSUME \/ out' = <<>>
         \/ \E o, re, e, i : re.op # "CheckForRemoteService" /\ out' = <<Reply(o, re, e, i)>>
         \/ \E o, re, p : re.op # "CheckForRemoteService" /\ out' = <<Properties(o, re, p)>>
  PROVE  Truthful'
<1>1. Outputs("OnMessage")' = {}
  BY DEF Outputs, Reply, Properties
<1>2. \A m \in Outputs("Reply")' : m.re.op # "CheckForRemoteService"
  BY DEF Outputs, Reply, Properties
<1> QED
  BY <1>1, <1>2 DEF Truthful, CheckSound, CheckFinds, ReturnAddress

\* The lookup of a port by name finds it exactly if it is there.
LEMMA PortsNamedLemma ==
  ASSUME IInv, NEW o \in clients, NEW n, NEW t
  PROVE  PortsNamed(o, n, t) =
           {p \in DOMAIN heap : /\ heap[p].owner = o
                                /\ heap[p].port_name = n
                                /\ heap[p].is_trusted = t}
<1>1. Services(o) = {p \in DOMAIN heap : heap[p].owner = o}
  BY DEF IInv, Tables, TypeOK, ListsExact
<1>2. GetService(o, n, t) = {{p \in Services(o) : Matches(heap[p], n, t)}}
  BY <1>1 DEF GetService, CanWalk
<1> QED
  BY <1>1, <1>2 DEF PortsNamed, Matches

\* The answer to a check is true of the ports of the connection that was looked at.
LEMMA CheckLemma ==
  ASSUME IInv, NEW o \in clients, NEW re, re.op = "CheckForRemoteService",
         CheckForRemoteService(o, re)
  PROVE  Truthful'
<1> USE DEF AppOf
<1>1. UNCHANGED <<clients, heap, service_cache, dbus_managers>>
  BY DEF CheckForRemoteService, smVars
<1>2. /\ \A i : GetServiceById(i)' = GetServiceById(i)
      /\ ManagersOf(re.app_id)' = ManagersOf(re.app_id)
      /\ \A p : IsPort(p, re)' = IsPort(p, re)
  BY <1>1 DEF GetServiceById, ManagersOf, IsPort
<1>3. ASSUME NEW e, NEW i, out' = <<Reply(o, re, e, i)>>
      PROVE  /\ Outputs("OnMessage")' = {}
             /\ \A m \in Outputs("Reply")' : m.re = re /\ m.error = e /\ m.id = i
  BY <1>3 DEF Outputs, Reply
\* NotFound.
<1>4. ASSUME out' = PortNotFound(o, re),
             \/ ManagersOf(re.app_id) = {}
             \/ \E c \in ManagersOf(re.app_id) :
                  \A p \in DOMAIN heap : heap[p].owner = c => ~ IsPort(p, re)
      PROVE  Truthful'
  <2>1. /\ Outputs("OnMessage")' = {}
        /\ \A m \in Outputs("Reply")' : m.re = re /\ m.error = "NotFound"
    BY <1>3, <1>4 DEF PortNotFound
  <2>2. CheckSound' /\ ReturnAddress'
    BY <2>1 DEF CheckSound, ReturnAddress
  <2>3. CheckFinds'
    BY <1>1, <1>2, <1>4, <2>1 DEF CheckFinds
  <2> QED
    BY <2>2, <2>3 DEF Truthful
<1>5. CASE ManagersOf(re.app_id) = {} /\ out' = PortNotFound(o, re)
  BY <1>4, <1>5
<1>6. ASSUME NEW c \in ManagersOf(re.app_id), PortsNamed(c, re.port_name, re.is_trusted) = {},
             out' = PortNotFound(o, re)
      PROVE  Truthful'
  <2>1. \A p \in DOMAIN heap : heap[p].owner = c => ~ IsPort(p, re)
    BY <1>6, PortsNamedLemma DEF ManagersOf, IsPort
  <2> QED
    BY <1>4, <1>6, <2>1
\* An empty name.
<1>7. CASE out' = <<Reply(o, re, "InvalidParams", 0)>>
  <2>1. /\ Outputs("OnMessage")' = {}
        /\ \A m \in Outputs("Reply")' : m.error = "InvalidParams"
    BY <1>3, <1>7
  <2> QED
    BY <2>1 DEF Truthful, CheckSound, CheckFinds, ReturnAddress
\* A port was found.
<1>8. ASSUME NEW c \in ManagersOf(re.app_id),
             NEW p \in PortsNamed(c, re.port_name, re.is_trusted),
             out' = <<Reply(o, re, "None", heap[p].id)>>
      PROVE  Truthful'
  <2>1. p \in DOMAIN heap /\ IsPort(p, re)
    BY <1>8, PortsNamedLemma DEF ManagersOf, IsPort
  <2>2. p \in GetServiceById(heap[p].id)
    BY <2>1 DEF IInv, Tables, CacheExact, GetServiceById
  <2>3. /\ Outputs("OnMessage")' = {}
        /\ \A m \in Outputs("Reply")' : m.re = re /\ m.error = "None" /\ m.id = heap[p].id
    BY <1>3, <1>8
  <2> QED
    BY <1>2, <2>1, <2>2, <2>3 DEF Truthful, CheckSound, CheckFinds, ReturnAddress
<1> QED
  BY <1>5, <1>6, <1>7, <1>8 DEF CheckForRemoteService

\* A step that forwards a message and answers writes these two.
LEMMA TwoOutputsLemma ==
  ASSUME NEW m, NEW r, m.type = "OnMessage", r.type = "Reply", out' = <<m, r>>
  PROVE  Outputs("OnMessage")' = {m} /\ Outputs("Reply")' = {r}
  BY DEF Outputs

\* A message that names a sender names a port that is there.
LEMMA SenderLemma ==
  ASSUME IInv, DInv, NEW o \in clients, NEW re, NEW a \in App, NEW port, NEW t,
         re.op # "CheckForRemoteService",
         port # "" => \E p \in DOMAIN heap : /\ AppOf(heap[p].owner) = a
                                             /\ heap[p].port_name = port
                                             /\ heap[p].is_trusted = t,
         Forward(o, re, a, port, t), UNCHANGED smVars
  PROVE  Truthful'
<1> USE DEF AppOf
<1>1. ASSUME NEW e, NEW i, out' = <<Reply(o, re, e, i)>>
      PROVE  Truthful'
  BY <1>1, NoPortLemma
<1>2. ASSUME NEW q \in DOMAIN heap, out' = <<OnMessage(q, a, port, t), Reply(o, re, "None", 0)>>,
             \A c \in clients : dbus_managers'[c].app_id = dbus_managers[c].app_id
      PROVE  Truthful'
  <2> DEFINE sent == OnMessage(q, a, port, t)
             answer == Reply(o, re, "None", 0)
  <2>0. sent.type = "OnMessage" /\ answer.type = "Reply" /\ answer.re = re
    BY DEF OnMessage, Reply
  <2> HIDE DEF sent, answer
  <2>1. Outputs("OnMessage")' = {sent} /\ Outputs("Reply")' = {answer}
    BY <1>2, <2>0, TwoOutputsLemma DEF sent, answer
  <2>2. \A m \in Outputs("Reply")' : m.re = re
    BY <2>0, <2>1
  <2>3. heap' = heap /\ \A p \in DOMAIN heap : heap[p].owner \in clients
    BY DEF smVars, IInv, Tables, ListsExact
  <2>4. sent.app_id = a /\ sent.port = port /\ sent.is_trusted = t
    BY DEF sent, OnMessage
  <2>5. ReturnAddress'
    BY <1>2, <2>1, <2>3, <2>4 DEF ReturnAddress
  <2> QED
    BY <2>2, <2>5 DEF Truthful, CheckSound, CheckFinds
<1>3. \A q \in GetServiceById(re.service_id) : q \in DOMAIN heap /\ heap[q].owner \in clients
  BY DEF IInv, Tables, CacheExact, ListsExact, GetServiceById
<1>4. ASSUME NEW q \in GetServiceById(re.service_id), ValidatePeer(heap[q].owner, a, TRUE)
      PROVE  \A c \in clients : dbus_managers'[c].app_id = dbus_managers[c].app_id
  BY <1>3, <1>4, ValidateLemma
<1> QED
  BY <1>1, <1>2, <1>3, <1>4 DEF Forward

\* Whatever a step says of ports is true when it is said.
LEMMA TruthfulStep ==
  ASSUME IInv, DInv, [DNext]_dVars
  PROVE  Truthful => Truthful'
<1>1. CASE UNCHANGED dVars
  <2>1. CheckSound => CheckSound'
    BY <1>1 DEF dVars, smVars, CheckSound, Outputs, GetServiceById, IsPort, AppOf
  <2>2. CheckFinds => CheckFinds'
    BY <1>1 DEF dVars, smVars, CheckFinds, Outputs, IsPort, ManagersOf, AppOf
  <2>3. ReturnAddress => ReturnAddress'
    <3>1. Outputs("OnMessage")' = Outputs("OnMessage")
      BY <1>1 DEF dVars, Outputs
    <3> QED
      BY <1>1, <3>1 DEF dVars, smVars, ReturnAddress, AppOf
  <2> QED
    BY <2>1, <2>2, <2>3 DEF Truthful
<1>2. CASE out' = <<>>
  BY <1>2, NoPortLemma
<1>3. ASSUME NEW o \in Owner, NEW re \in Request, Handle(o, re) PROVE Truthful'
  <2>1. CASE CheckForRemoteService(o, re)
    BY <2>1, CheckLemma DEF CheckForRemoteService
  <2>2. CASE SendMessage(o, re)
    <3>1. AppOf(o) \in App
      BY <2>2 DEF SendMessage, DInv, DTypeOK, Manager, AppOf
    <3> QED
      BY <2>2, <3>1, SenderLemma DEF SendMessage
  <2>3. CASE ServiceSendMessage(o, re)
    <3>1. PICK p \in ServicesAt(o, re.from) :
            Forward(o, re, AppOf(heap[p].owner), heap[p].port_name, heap[p].is_trusted)
      BY <2>3 DEF ServiceSendMessage
    <3>2. p \in DOMAIN heap /\ heap[p].owner = o /\ o \in clients
      BY <2>3 DEF ServicesAt, ServiceSendMessage
    <3>3. AppOf(o) \in App
      BY <3>2 DEF DInv, DTypeOK, Manager, AppOf
    <3> QED
      BY <2>3, <3>1, <3>2, <3>3, SenderLemma DEF ServiceSendMessage
  <2>4. CASE RegisterService(o, re)
    BY <2>4, NoPortLemma DEF RegisterService
  <2>5. CASE Unregister(o, re) \/ GetAll(o, re) \/ NoSuchObject(o, re)
    BY <2>5, NoPortLemma DEF Unregister, GetAll, NoSuchObject
  <2> QED
    BY <1>3, <2>1, <2>2, <2>3, <2>4, <2>5 DEF Handle
<1> QED
  BY <1>1, <1>2, <1>3 DEF DNext, Accept, Closed, DaemonRestart, Elsewhere

\* What the daemon says of ports is true always.
LEMMA TruthInvariance == DSpec => []Truthful
<1>1. DInit => Truthful
  BY NothingLemma DEF DInit, Truthful, CheckSound, CheckFinds, ReturnAddress, Outputs
<1>2. (IInv /\ DInv /\ TrustedDelivery) /\ Truthful /\ [DNext]_dVars => Truthful'
  BY TruthfulStep
<1> QED
  BY <1>1, <1>2, DInvariance, PTL DEF DSpec

\* An id in the answer to a check names, at that moment, the port asked for.
THEOREM ChecksAreSound == DSpec => []CheckSound
  BY TruthInvariance, PTL DEF Truthful

\* NotFound is the answer only if some connection of the application, or its being
\* without any, justifies it.
THEOREM ChecksFindPorts == DSpec => []CheckFinds
  BY TruthInvariance, PTL DEF Truthful

\* The sender of a bidirectional message is a port that an answer can be sent to.
THEOREM SendersAreReal == DSpec => []ReturnAddress
  BY TruthInvariance, PTL DEF Truthful
=============================================================================
