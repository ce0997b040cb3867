-------------------------- MODULE MessagePortProofs --------------------------
(***************************************************************************)
(* Theorems about MessagePort for every set of threads, applications and   *)
(* ports, and queues of every length.                                      *)
(***************************************************************************)
EXTENDS MessagePort, DaemonProofs, SequenceTheorems

-----------------------------------------------------------------------------
(* Types.                                                                  *)

ErrorName == {"None", "InvalidParams", "NotFound", "Unknown", "CertificateMismatch", "UnknownMethod"}

ReplyMessage == [type : {"Reply"}, to : Owner, re : Request, error : ErrorName, id : Id]
PropertiesMessage == [type : {"Reply"}, to : Owner, re : Request, error : ErrorName, id : Id,
                      port_name : Name, is_trusted : BOOLEAN]
SignalMessage == [type : {"OnMessage"}, to : Owner, id : Id, app_id : App, port : AnyName,
                  is_trusted : BOOLEAN]
Message == ReplyMessage \cup PropertiesMessage \cup SignalMessage

\* What the queues hold.
Asking == [re : Request, waiting : BOOLEAN]
Telling == [message : Message, waiting : BOOLEAN]

OpenCall == [api : {"register", "unregister", "read", "check", "send", "bidirectional"},
             app_id : App, port_name : AnyName, is_trusted : BOOLEAN, id : Id, from : Id, re : Request]

\* Of the cached services only their paths matter here.
PathsOK == /\ services = [o \in Owner |-> services[o]]
           /\ \A o \in Owner : DOMAIN services[o] \subseteq Id

MPTypeOK == /\ link \in [Owner -> {"none", "up", "down", "noproxy", "exited"}]
            /\ backlog \subseteq Owner
            /\ PathsOK
            /\ call \in [Owner -> OpenCall \cup {NoCall}]
            /\ toDaemon \in [Owner -> Seq(Asking)]
            /\ toClient \in [Owner -> Seq(Telling)]

LEMMA MPTypeInit == MPInit => MPTypeOK
  BY NothingLemma DEF MPInit, MPTypeOK, PathsOK

\* Zero is an id.
LEMMA ZeroLemma == 0 \in Id
  BY IdSpaceAssumption DEF Id

-----------------------------------------------------------------------------
(* The steps of the library, by what they leave of the call of thread o    *)
(* and of the queues.                                                      *)

IsCheck(c) ==
  c.re.op = "CheckForRemoteService" => c.re = CheckRequest(c.app_id, c.port_name, c.is_trusted)

\* A call begins: it returns at once or makes its first D-Bus call, which sends
\* no message.
Begins(o) ==
  /\ link[o] \in {"up", "down", "noproxy"}
  /\ call[o] = NoCall
  /\ Elsewhere
  /\ UNCHANGED <<link, backlog, services, toClient>>
  /\ \/ call' = [call EXCEPT ![o] = NoCall] /\ UNCHANGED toDaemon
     \/ \E c \in OpenCall : c.re.op \notin Sends /\ IsCheck(c) /\ Ask(o, c, toDaemon[o])

\* A D-Bus call ends with r: the call returns or, after a success, makes another
\* D-Bus call. A message is sent under the id in the answer to a check.
Completes(o, r, q) ==
  /\ call[o] # NoCall
  /\ \/ /\ call' = [call EXCEPT ![o] = NoCall]
        /\ toDaemon' = [toDaemon EXCEPT ![o] = q]
     \/ /\ r.error = "None"
        /\ \E re \in Request :
             /\ re.op # "CheckForRemoteService"
             /\ re.op \in Sends => call[o].re.op = "CheckForRemoteService" /\ re.service_id = r.id
             /\ Ask(o, [call[o] EXCEPT !.re = re], q)

Calls(o) ==
  \/ \E n \in CallName, t \in BOOLEAN : RegisterPort(o, n, t)
  \/ \E id \in Id, t \in BOOLEAN : UnregisterPort(o, id, t)
  \/ \E id \in Id : ReadLocalPort(o, id)
  \/ \E a \in Peer, n \in CallName, t \in BOOLEAN :
       \/ CheckRemotePort(o, a, n, t)
       \/ SendPortMessage(o, a, n, t)
       \/ \E id \in Id : SendBidirectional(o, id, a, n, t)

\* Local ids lead to paths.
LEMMA LocalPortLemma ==
  ASSUME MPTypeOK, NEW o \in Owner, NEW id, NEW found \in LocalPort(o, id)
  PROVE  found \subseteq Id
  BY DEF LocalPort, MPTypeOK, PathsOK

\* Every call of the library begins so.
LEMMA BeginsLemma ==
  ASSUME MPTypeOK, NEW o \in Owner, Calls(o)
  PROVE  Begins(o)
<1> USE DEF Begin, ReturnNow, Return, NoProxy, NoLocalPort, HasProxy
<1>0. ThreadApp[o] \in App /\ Peer \subseteq App /\ CallName \subseteq AnyName /\ "" \in AnyName
  BY ThreadAppAssumption, BoundsAssumption DEF AnyName
<1>1. ASSUME NEW n \in CallName, NEW t \in BOOLEAN, RegisterPort(o, n, t) PROVE Begins(o)
  <2> DEFINE re == [op |-> "RegisterService", port_name |-> n, is_trusted |-> t]
             c == Call("register", ThreadApp[o], n, t, 0, 0, re)
  <2>1. re \in Request
    BY <1>0 DEF Request
  <2>2. c \in OpenCall /\ c.re.op \notin Sends /\ IsCheck(c)
    BY <1>0, <2>1, ZeroLemma DEF OpenCall, Call, Sends, IsCheck
  <2> HIDE DEF c
  <2> QED
    BY <1>1, <2>2 DEF RegisterPort, Begins, c
<1>2. ASSUME NEW id \in Id, NEW t \in BOOLEAN, UnregisterPort(o, id, t) PROVE Begins(o)
  <2> DEFINE c(path) == Call("unregister", ThreadApp[o], "", t, id, path,
                             [op |-> "Unregister", from |-> path])
  <2>1. ASSUME NEW path \in Id
        PROVE  c(path) \in OpenCall /\ c(path).re.op \notin Sends /\ IsCheck(c(path))
    <3>1. [op |-> "Unregister", from |-> path] \in Request
      BY DEF Request
    <3> QED
      BY <1>0, <3>1 DEF OpenCall, Call, Sends, IsCheck
  <2>2. \A found \in LocalPort(o, id) : \A path \in found : path \in Id
    BY LocalPortLemma
  <2> HIDE DEF c
  <2> QED
    BY <1>2, <2>1, <2>2 DEF UnregisterPort, Begins, c
<1>3. ASSUME NEW id \in Id, ReadLocalPort(o, id) PROVE Begins(o)
  BY <1>3 DEF ReadLocalPort, Begins
<1>4. ASSUME NEW a \in Peer, NEW n \in CallName, NEW t \in BOOLEAN
      PROVE  CheckRequest(a, n, t) \in Request
  BY <1>0 DEF CheckRequest, Request
<1>5. ASSUME NEW a \in Peer, NEW n \in CallName, NEW t \in BOOLEAN,
             NEW api \in {"check", "send"}, CheckFirst(o, api, a, n, t)
      PROVE  Begins(o)
  <2> DEFINE c == Call(api, a, n, t, 0, 0, CheckRequest(a, n, t))
  <2>1. c \in OpenCall /\ c.re.op \notin Sends /\ IsCheck(c)
    BY <1>0, <1>4, ZeroLemma DEF OpenCall, Call, Sends, IsCheck, CheckRequest
  <2> HIDE DEF c
  <2> QED
    BY <1>5, <2>1 DEF CheckFirst, Begins, c
<1>6. ASSUME NEW a \in Peer, NEW n \in CallName, NEW t \in BOOLEAN, NEW id \in Id,
             SendBidirectional(o, id, a, n, t)
      PROVE  Begins(o)
  <2> DEFINE c(path) == Call("bidirectional", a, n, t, id, path, CheckRequest(a, n, t))
  <2>1. ASSUME NEW path \in Id
        PROVE  c(path) \in OpenCall /\ c(path).re.op \notin Sends /\ IsCheck(c(path))
    BY <1>0, <1>4 DEF OpenCall, Call, Sends, IsCheck, CheckRequest
  <2>2. \A found \in LocalPort(o, id) : \A path \in found : path \in Id
    BY LocalPortLemma
  <2> HIDE DEF c
  <2> QED
    BY <1>6, <2>1, <2>2 DEF SendBidirectional, Begins, c
<1> QED
  BY <1>1, <1>2, <1>3, <1>5, <1>6 DEF Calls, CheckRemotePort, SendPortMessage

\* Every D-Bus call ends so, and the cache still has paths.
LEMMA CompletesLemma ==
  ASSUME MPTypeOK, NEW o \in Owner, NEW r, r.id \in Id, NEW q, Complete(o, r, q)
  PROVE  Completes(o, r, q) /\ PathsOK'
<1> USE DEF ReturnAfter, Return
<1>0. call[o] # NoCall
  BY DEF Complete, RegisterAnswered, ProxyCreated, UnregisterAnswered, CheckAnswered, SendAnswered,
         NoCall, NoRequest
<1>00. call[o] \in OpenCall
  BY <1>0 DEF MPTypeOK
<1>1. CASE RegisterAnswered(o, r, q)
  <2>1. [op |-> "GetAll", from |-> r.id] \in Request
    BY DEF Request
  <2> QED
    BY <1>0, <1>1, <2>1 DEF RegisterAnswered, Proceed, Completes, Sends, MPTypeOK, PathsOK
<1>2. CASE ProxyCreated(o, r, q)
  <2>1. call[o].re \in Request /\ call[o].re.op = "GetAll"
    BY <1>00, <1>2 DEF OpenCall, ProxyCreated
  <2>2. call[o].re.from \in Id
    BY <2>1 DEF Request
  <2>3. PathsOK'
    BY <1>2, <2>2 DEF ProxyCreated, MPTypeOK, PathsOK, Put
  <2> QED
    BY <1>0, <1>2, <2>3 DEF ProxyCreated, Completes
<1>3. CASE UnregisterAnswered(o, r, q)
  BY <1>0, <1>3 DEF UnregisterAnswered, Completes, MPTypeOK, PathsOK, Drop, Restrict
<1>4. CASE CheckAnswered(o, r, q)
  <2>1. [op |-> "SendMessage", service_id |-> r.id] \in Request
    BY DEF Request
  <2>2. call[o].from \in Id
    BY <1>00 DEF OpenCall
  <2>3. [op |-> "ServiceSendMessage", from |-> call[o].from, service_id |-> r.id] \in Request
    BY <2>2 DEF Request
  <2> QED
    BY <1>0, <1>4, <2>1, <2>3 DEF CheckAnswered, Proceed, Completes, Sends, MPTypeOK, PathsOK
<1>5. CASE SendAnswered(o, r, q)
  BY <1>0, <1>5 DEF SendAnswered, Completes, MPTypeOK, PathsOK
<1> QED
  BY <1>1, <1>2, <1>3, <1>4, <1>5 DEF Complete

-----------------------------------------------------------------------------
(* What a handler writes.                                                  *)

Answer(o, re) == {m \in ReplyMessage \cup PropertiesMessage : m.to = o /\ m.re = re}
Signal == {m \in SignalMessage : m.to \in clients}

\* One answer to the request re of connection o at most, and one signal before it.
Writes(o, re) ==
  \/ out' = <<>>
  \/ \E r \in Answer(o, re) : out' = <<r>>
  \/ \E m \in Signal, r \in Answer(o, re) : out' = <<m, r>>

LEMMA ReplyLemma ==
  ASSUME NEW o \in Owner, NEW re \in Request, NEW error \in ErrorName, NEW id \in Id
  PROVE  Reply(o, re, error, id) \in Answer(o, re)
  BY DEF Reply, Answer, ReplyMessage

\* A forwarded message and its answer.
LEMMA ForwardWrites ==
  ASSUME IInv, NEW o \in Owner, NEW re \in Request, NEW a \in App, NEW port \in AnyName,
         NEW t \in BOOLEAN, Forward(o, re, a, port, t)
  PROVE  Writes(o, re)
<1>1. ASSUME NEW p \in GetServiceById(re.service_id) PROVE OnMessage(p, a, port, t) \in Signal
  <2>1. p \in DOMAIN heap /\ heap[p] \in Service /\ heap[p].owner \in clients
    BY DEF IInv, Tables, CacheExact, ListsExact, TypeOK, GetServiceById
  <2> QED
    BY <2>1 DEF OnMessage, Signal, SignalMessage, Service
<1>2. \A error \in ErrorName : Reply(o, re, error, 0) \in Answer(o, re)
  BY ReplyLemma, ZeroLemma
<1> QED
  BY <1>1, <1>2 DEF Forward, Writes, ErrorName

LEMMA HandleWrites ==
  ASSUME IInv, DInv, NEW o \in Owner, NEW re \in Request, Handle(o, re)
  PROVE  o \in clients /\ Writes(o, re)
<1>0. o \in clients
  BY DEF Handle, RegisterService, CheckForRemoteService, SendMessage, ServiceSendMessage,
         Unregister, GetAll, NoSuchObject
<1>1. \A error \in ErrorName, id \in Id : Reply(o, re, error, id) \in Answer(o, re)
  BY ReplyLemma
<1>2. \A p \in DOMAIN heap : heap[p] \in Service /\ heap[p].id \in Id
  BY DEF IInv, Tables, TypeOK, Service
<1>3. AppOf(o) \in App
  BY <1>0 DEF DInv, DTypeOK, Manager, AppOf
<1>4. \A c \in clients : \A n, t : PortsNamed(c, n, t) \subseteq DOMAIN heap
  BY PortsNamedLemma
<1>5. CASE RegisterService(o, re)
  <2>1. \A found \in GetService(o, re.port_name, re.is_trusted) : found \subseteq DOMAIN heap
    BY DEF IInv, Tables, TypeOK, ListsExact, GetService, CanWalk
  <2>2. NextId \in Id
    BY NextIdLemma DEF IInv, Tables
  <2> QED
    BY <1>1, <1>2, <1>5, <2>1, <2>2, ZeroLemma DEF RegisterService, Writes, ErrorName
<1>6. CASE CheckForRemoteService(o, re)
  BY <1>1, <1>2, <1>4, <1>6, ZeroLemma
  DEF CheckForRemoteService, ManagersOf, PortNotFound, Writes, ErrorName
<1>7. CASE SendMessage(o, re)
  BY <1>3, <1>7, ForwardWrites DEF SendMessage, AnyName
<1>8. CASE ServiceSendMessage(o, re)
  <2>1. PICK p \in ServicesAt(o, re.from) :
          Forward(o, re, AppOf(heap[p].owner), heap[p].port_name, heap[p].is_trusted)
    BY <1>8 DEF ServiceSendMessage
  <2>2. heap[p].owner = o /\ heap[p].port_name \in AnyName /\ heap[p].is_trusted \in BOOLEAN
    BY <1>2 DEF ServicesAt, Service, AnyName
  <2> QED
    BY <1>0, <1>3, <2>1, <2>2, ForwardWrites
<1>9. CASE GetAll(o, re)
  <2>1. ASSUME NEW p \in ServicesAt(o, re.from) PROVE Properties(o, re, p) \in Answer(o, re)
    BY <1>2 DEF ServicesAt, Properties, Answer, PropertiesMessage, Service, ErrorName
  <2> QED
    BY <1>9, <2>1 DEF GetAll, Writes
<1>10. CASE Unregister(o, re) \/ NoSuchObject(o, re)
  BY <1>1, <1>10, ZeroLemma DEF Unregister, NoSuchObject, Writes, ErrorName
<1> QED
  BY <1>0, <1>5, <1>6, <1>7, <1>8, <1>9, <1>10 DEF Handle

LEMMA ConcatLemma ==
  ASSUME NEW x, NEW y
  PROVE  /\ <<>> \o <<>> = <<>> /\ <<>> \o <<x>> = <<x>> /\ <<x>> \o <<>> = <<x>>
         /\ <<x>> \o <<y>> = <<x, y>>
<1>1. <<x>> \in Seq({x, y}) /\ <<y>> \in Seq({x, y}) /\ <<>> \in Seq({x, y})
  OBVIOUS
<1>2. <<x>> \o <<y>> = <<x, y>>
  <2>1. Len(<<x>>) = 1 /\ Len(<<y>>) = 1
    OBVIOUS
  <2>2. /\ <<x>> \o <<y>> \in Seq({x, y})
        /\ Len(<<x>> \o <<y>>) = 2
        /\ (<<x>> \o <<y>>)[1] = x
        /\ (<<x>> \o <<y>>)[2] = y
    BY <1>1, <2>1, ConcatProperties
  <2>3. \A q \in Seq({x, y}) : Len(q) = 2 /\ q[1] = x /\ q[2] = y => q = <<x, y>>
    OBVIOUS
  <2> QED
    BY <2>2, <2>3
<1> QED
  BY <1>1, <1>2, ConcatEmptySeq

\* What of it goes to connection q: the answer alone, or a signal before it.
LEMMA WrittenParts ==
  ASSUME NEW o \in Owner, NEW re \in Request, NEW r \in Answer(o, re),
         NEW q \in Owner, NEW waiting \in BOOLEAN
  PROVE  /\ out' = <<r>> =>
              /\ r \in Outputs("Reply")'
              /\ Written(q, waiting) = IF q = o THEN <<[message |-> r, waiting |-> waiting]>> ELSE <<>>
         /\ \A m \in Signal : out' = <<m, r>> =>
              /\ r \in Outputs("Reply")'
              /\ Written(q, waiting) =
                   (IF q = m.to THEN <<[message |-> m, waiting |-> FALSE]>> ELSE <<>>) \o
                   (IF q = o THEN <<[message |-> r, waiting |-> waiting]>> ELSE <<>>)
<1> DEFINE To(i) == IF i \in DOMAIN out' /\ out'[i].to = q
                    THEN <<[message |-> out'[i], waiting |-> out'[i].type = "Reply" /\ waiting]>>
                    ELSE <<>>
<1>0. Written(q, waiting) = To(1) \o To(2)
  BY DEF Written
<1>1. \A x : <<>> \o <<x>> = <<x>> /\ <<x>> \o <<>> = <<x>>
  BY ConcatLemma
<1>2. <<>> \o <<>> = <<>>
  BY ConcatLemma
<1>3. r.type = "Reply" /\ r.to = o
  BY DEF Answer, ReplyMessage, PropertiesMessage
<1>4. ASSUME out' = <<r>>
      PROVE  /\ r \in Outputs("Reply")'
             /\ Written(q, waiting) = IF q = o THEN <<[message |-> r, waiting |-> waiting]>> ELSE <<>>
  <2>1. r \in Outputs("Reply")'
    BY <1>3, <1>4 DEF Outputs
  <2>2. To(2) = <<>>
    BY <1>4
  <2>3. To(1) = IF q = o THEN <<[message |-> r, waiting |-> waiting]>> ELSE <<>>
    BY <1>3, <1>4
  <2> HIDE DEF To
  <2> QED
    BY <1>0, <1>1, <1>2, <2>1, <2>2, <2>3
<1>5. ASSUME NEW m \in Signal, out' = <<m, r>>
      PROVE  /\ r \in Outputs("Reply")'
             /\ Written(q, waiting) =
                  (IF q = m.to THEN <<[message |-> m, waiting |-> FALSE]>> ELSE <<>>) \o
                  (IF q = o THEN <<[message |-> r, waiting |-> waiting]>> ELSE <<>>)
  <2>0. m.type = "OnMessage"
    BY DEF Signal, SignalMessage
  <2>1. r \in Outputs("Reply")'
    BY <1>3, <1>5 DEF Outputs
  <2>2. To(1) = IF q = m.to THEN <<[message |-> m, waiting |-> FALSE]>> ELSE <<>>
    <3>1. 1 \in DOMAIN out' /\ out'[1] = m
      BY <1>5
    <3>2. (m.type = "Reply" /\ waiting) = FALSE
      BY <2>0
    <3>3. To(1) = IF m.to = q THEN <<[message |-> m, waiting |-> m.type = "Reply" /\ waiting]>>
                             ELSE <<>>
      BY <3>1
    <3> QED
      BY <3>2, <3>3
  <2>3. To(2) = IF q = o THEN <<[message |-> r, waiting |-> waiting]>> ELSE <<>>
    <3>1. 2 \in DOMAIN out' /\ out'[2] = r
      BY <1>5
    <3> QED
      BY <1>3, <3>1
  <2> HIDE DEF To
  <2> QED
    BY <1>0, <2>1, <2>2, <2>3
<1> QED
  BY <1>4, <1>5

LEMMA NothingWritten ==
  ASSUME NEW q \in Owner, NEW waiting \in BOOLEAN, out' = <<>>
  PROVE  Written(q, waiting) = <<>>
  BY ConcatLemma DEF Written

\* To whom it is an answer.
LEMMA WrittenLemma ==
  ASSUME NEW o \in Owner, NEW re \in Request, Writes(o, re),
         NEW q \in Owner, NEW waiting \in BOOLEAN
  PROVE  \/ Written(q, waiting) = <<>>
         \/ \E m \in Signal : q \in clients /\ Written(q, waiting) = <<[message |-> m, waiting |-> FALSE]>>
         \/ /\ q = o
            /\ \E r \in Answer(o, re) :
                 /\ r \in Outputs("Reply")'
                 /\ \/ Written(q, waiting) = <<[message |-> r, waiting |-> waiting]>>
                    \/ \E m \in Signal : Written(q, waiting) = <<[message |-> m, waiting |-> FALSE],
                                                                 [message |-> r, waiting |-> waiting]>>
<1>1. \A x, y : <<>> \o <<x>> = <<x>> /\ <<x>> \o <<>> = <<x>> /\ <<x>> \o <<y>> = <<x, y>>
  BY ConcatLemma
<1>2. <<>> \o <<>> = <<>>
  BY ConcatLemma
<1>3. \A m \in Signal : m.to \in clients
  BY DEF Signal
<1>4. ASSUME NEW r \in Answer(o, re), out' = <<r>>
      PROVE  \/ Written(q, waiting) = <<>>
             \/ q = o /\ r \in Outputs("Reply")' /\ Written(q, waiting) = <<[message |-> r, waiting |-> waiting]>>
  BY <1>4, WrittenParts
<1>5. ASSUME NEW m \in Signal, NEW r \in Answer(o, re), out' = <<m, r>>
      PROVE  \/ Written(q, waiting) = <<>>
             \/ q \in clients /\ Written(q, waiting) = <<[message |-> m, waiting |-> FALSE]>>
             \/ /\ q = o /\ r \in Outputs("Reply")'
                /\ \/ Written(q, waiting) = <<[message |-> r, waiting |-> waiting]>>
                   \/ Written(q, waiting) = <<[message |-> m, waiting |-> FALSE],
                                              [message |-> r, waiting |-> waiting]>>
  <2>0. /\ r \in Outputs("Reply")'
        /\ Written(q, waiting) =
             (IF q = m.to THEN <<[message |-> m, waiting |-> FALSE]>> ELSE <<>>) \o
             (IF q = o THEN <<[message |-> r, waiting |-> waiting]>> ELSE <<>>)
    BY <1>5, WrittenParts
  <2>1. CASE q # m.to /\ q # o
    BY <1>2, <2>0, <2>1
  <2>2. CASE q = m.to /\ q # o
    BY <1>1, <1>3, <2>0, <2>2
  <2>3. CASE q # m.to /\ q = o
    BY <1>1, <2>0, <2>3
  <2>4. CASE q = m.to /\ q = o
    BY <1>1, <2>0, <2>4
  <2> QED
    BY <2>1, <2>2, <2>3, <2>4
<1> QED
  BY <1>4, <1>5, NothingWritten DEF Writes

-----------------------------------------------------------------------------
(* The steps of the composition are steps of the daemon and keep the types. *)

\* A step of MessagePort, by who takes it.
LEMMA MPSteps ==
  ASSUME MPNext
  PROVE  \/ DaemonDies
         \/ \E o \in Owner :
              \/ Open(o) \/ Exit(o) \/ Timeout(o) \/ Broken(o) \/ Receive(o) \/ Dispatch(o)
              \/ HangUp(o) \/ Pick(o) \/ Serve(o) \/ Notice(o) \/ Calls(o)
  BY DEF MPNext, Calls

LEMMA HeadLemma ==
  ASSUME MPTypeOK, NEW o \in Owner
  PROVE  /\ toDaemon[o] # <<>> => /\ Head(toDaemon[o]).re \in Request
                                  /\ Head(toDaemon[o]).waiting \in BOOLEAN
                                  /\ Tail(toDaemon[o]) \in Seq(Asking)
         /\ toClient[o] # <<>> => /\ Head(toClient[o]).message.id \in Id
                                  /\ Tail(toClient[o]) \in Seq(Telling)
<1>1. toDaemon[o] \in Seq(Asking) /\ toClient[o] \in Seq(Telling)
  BY DEF MPTypeOK
<1>2. toDaemon[o] # <<>> => Head(toDaemon[o]) \in Asking /\ Tail(toDaemon[o]) \in Seq(Asking)
  BY <1>1
<1>3. toClient[o] # <<>> => Head(toClient[o]) \in Telling /\ Tail(toClient[o]) \in Seq(Telling)
  BY <1>1
<1>4. \A m \in Message : m.id \in Id
  BY DEF Message, ReplyMessage, PropertiesMessage, SignalMessage
<1> QED
  BY <1>2, <1>3, <1>4 DEF Asking, Telling

LEMMA ComposeStep == MPTypeOK /\ [MPNext]_mpVars => [DNext]_dVars
<1> SUFFICES ASSUME MPTypeOK, MPNext PROVE [DNext]_dVars
  BY DEF mpVars
<1>1. CASE Elsewhere
  BY <1>1 DEF DNext
<1>2. ASSUME NEW o \in Owner, Pick(o) PROVE DNext
  <2>1. \A a \in {ThreadApp[o], ThreadPid[o]} : a \in App
    BY ThreadAppAssumption, SignerAssumption
  <2> QED
    BY <1>2, <2>1 DEF Pick, DNext
<1>3. ASSUME NEW o \in Owner, Serve(o) PROVE DNext
  BY <1>3, HeadLemma DEF Serve, DNext
<1>4. ASSUME NEW o \in Owner, Notice(o) PROVE DNext
  BY <1>4 DEF Notice, DNext
<1>5. CASE DaemonDies
  BY <1>5 DEF DaemonDies, DNext
<1>6. ASSUME NEW o \in Owner,
             \/ Open(o) \/ Exit(o) \/ Timeout(o) \/ Broken(o) \/ Receive(o) \/ Dispatch(o)
             \/ HangUp(o)
      PROVE  Elsewhere
  BY <1>6 DEF Open, Exit, Timeout, Broken, Receive, Dispatch, HangUp
<1>7. ASSUME NEW o \in Owner, Calls(o) PROVE Elsewhere
  BY <1>7, BeginsLemma DEF Begins
<1> QED
  BY <1>1, <1>2, <1>3, <1>4, <1>5, <1>6, <1>7, MPSteps

\* A call that is made or ends leaves well-typed calls and requests.
LEMMA AskType ==
  ASSUME MPTypeOK, NEW o \in Owner, NEW c \in OpenCall, NEW q \in Seq(Asking), Ask(o, c, q)
  PROVE  /\ call' \in [Owner -> OpenCall \cup {NoCall}]
         /\ toDaemon' \in [Owner -> Seq(Asking)]
<1>1. [re |-> c.re, waiting |-> TRUE] \in Asking
  BY DEF Asking, OpenCall
<1>2. Append(q, [re |-> c.re, waiting |-> TRUE]) \in Seq(Asking)
  BY <1>1
<1> QED
  BY <1>2 DEF Ask, MPTypeOK

LEMMA CompletesType ==
  ASSUME MPTypeOK, NEW o \in Owner, NEW r, NEW q \in Seq(Asking), Completes(o, r, q)
  PROVE  /\ call' \in [Owner -> OpenCall \cup {NoCall}]
         /\ toDaemon' \in [Owner -> Seq(Asking)]
<1>1. CASE call' = [call EXCEPT ![o] = NoCall] /\ toDaemon' = [toDaemon EXCEPT ![o] = q]
  BY <1>1 DEF MPTypeOK
<1>2. ASSUME NEW re \in Request, Ask(o, [call[o] EXCEPT !.re = re], q)
      PROVE  /\ call' \in [Owner -> OpenCall \cup {NoCall}]
             /\ toDaemon' \in [Owner -> Seq(Asking)]
  <2>1. call[o] \in OpenCall
    BY DEF Completes, MPTypeOK
  <2>2. [call[o] EXCEPT !.re = re] \in OpenCall
    BY <2>1 DEF OpenCall
  <2> QED
    BY <1>2, <2>2, AskType
<1> QED
  BY <1>1, <1>2 DEF Completes

LEMMA AbandonLemma ==
  ASSUME NEW S, \A x \in S : [x EXCEPT !.waiting = FALSE] \in S /\ ~ [x EXCEPT !.waiting = FALSE].waiting,
         NEW q \in Seq(S)
  PROVE  /\ Abandon(q) \in Seq(S)
         /\ \A i \in DOMAIN Abandon(q) : ~ Abandon(q)[i].waiting
<1>1. /\ Len(q) \in Nat /\ DOMAIN q = 1 .. Len(q)
      /\ \A i \in 1 .. Len(q) : q[i] \in S
  OBVIOUS
<1>2. Abandon(q) \in [1 .. Len(q) -> S]
  BY <1>1 DEF Abandon
<1> QED
  BY <1>1, <1>2, SeqDef DEF Abandon

LEMMA AbandonType ==
  ASSUME MPTypeOK, NEW o \in Owner
  PROVE  /\ Abandon(toDaemon[o]) \in Seq(Asking)
         /\ Abandon(toClient[o]) \in Seq(Telling)
         /\ \A i \in DOMAIN Abandon(toDaemon[o]) : ~ Abandon(toDaemon[o])[i].waiting
         /\ \A i \in DOMAIN Abandon(toClient[o]) : ~ Abandon(toClient[o])[i].waiting
<1>1. /\ \A x \in Asking : /\ [x EXCEPT !.waiting = FALSE] \in Asking
                           /\ ~ [x EXCEPT !.waiting = FALSE].waiting
      /\ \A x \in Telling : /\ [x EXCEPT !.waiting = FALSE] \in Telling
                            /\ ~ [x EXCEPT !.waiting = FALSE].waiting
  BY DEF Asking, Telling
<1>2. toDaemon[o] \in Seq(Asking) /\ toClient[o] \in Seq(Telling)
  BY DEF MPTypeOK
<1> QED
  BY <1>1, <1>2, AbandonLemma

LEMMA WrittenType ==
  ASSUME NEW o \in Owner, NEW re \in Request, Writes(o, re),
         NEW q \in Owner, NEW waiting \in BOOLEAN
  PROVE  Written(q, waiting) \in Seq(Telling)
<1> DEFINE A(m) == [message |-> m, waiting |-> FALSE]
           B(r) == [message |-> r, waiting |-> waiting]
<1>1. /\ \A m \in Signal : A(m) \in Telling
      /\ \A r \in Answer(o, re) : B(r) \in Telling
  BY DEF Signal, Answer, Telling, Message
<1>2. <<>> \in Seq(Telling) /\ \A x, y \in Telling : {<<x>>, <<x, y>>} \subseteq Seq(Telling)
  OBVIOUS
<1>3. \/ Written(q, waiting) = <<>>
      \/ \E m \in Signal : Written(q, waiting) = <<A(m)>>
      \/ \E r \in Answer(o, re) : \/ Written(q, waiting) = <<B(r)>>
                                  \/ \E m \in Signal : Written(q, waiting) = <<A(m), B(r)>>
  BY WrittenLemma
<1> HIDE DEF A, B
<1> QED
  BY <1>1, <1>2, <1>3

LEMMA MPTypeStep ==
  ASSUME IInv, DInv, MPTypeOK, [MPNext]_mpVars
  PROVE  MPTypeOK'
<1>1. CASE UNCHANGED mpVars
  BY <1>1 DEF mpVars, clientVars, MPTypeOK, PathsOK
<1>2. ASSUME NEW o \in Owner, Open(o) \/ Dispatch(o) \/ HangUp(o) \/ Pick(o) PROVE MPTypeOK'
  BY <1>2 DEF Open, Dispatch, HangUp, Pick, MPTypeOK, PathsOK
<1>3. ASSUME NEW o \in Owner, Exit(o) PROVE MPTypeOK'
  <2>1. PathsOK'
    BY <1>3, NothingLemma DEF Exit, MPTypeOK, PathsOK
  <2>2. toDaemon' \in [Owner -> Seq(Asking)] /\ toClient' \in [Owner -> Seq(Telling)]
    BY <1>3 DEF Exit, MPTypeOK
  <2> QED
    BY <1>3, <2>1, <2>2 DEF Exit, MPTypeOK
<1>4. ASSUME NEW o \in Owner, Calls(o) PROVE MPTypeOK'
  <2>1. toDaemon[o] \in Seq(Asking) /\ Begins(o)
    BY <1>4, BeginsLemma DEF MPTypeOK
  <2>2. /\ call' \in [Owner -> OpenCall \cup {NoCall}]
        /\ toDaemon' \in [Owner -> Seq(Asking)]
    <3>1. CASE call' = [call EXCEPT ![o] = NoCall] /\ UNCHANGED toDaemon
      BY <3>1 DEF MPTypeOK
    <3> QED
      BY <2>1, <3>1, AskType DEF Begins
  <2> QED
    BY <2>1, <2>2 DEF Begins, MPTypeOK, PathsOK
<1>5. ASSUME NEW o \in Owner, Timeout(o) PROVE MPTypeOK'
  <2>1. /\ Abandon(toDaemon[o]) \in Seq(Asking)
        /\ Abandon(toClient[o]) \in Seq(Telling)
        /\ Failure("Timeout").id \in Id
    BY AbandonType, ZeroLemma DEF Failure
  <2>2. Completes(o, Failure("Timeout"), Abandon(toDaemon[o])) /\ PathsOK'
    BY <1>5, <2>1, CompletesLemma DEF Timeout
  <2> QED
    BY <1>5, <2>1, <2>2, CompletesType DEF Timeout, MPTypeOK
<1>6. ASSUME NEW o \in Owner, Broken(o) PROVE MPTypeOK'
  <2>1. toDaemon[o] \in Seq(Asking) /\ Failure("Closed").id \in Id
    BY ZeroLemma DEF MPTypeOK, Failure
  <2>2. Completes(o, Failure("Closed"), toDaemon[o]) /\ PathsOK'
    BY <1>6, <2>1, CompletesLemma DEF Broken
  <2> QED
    BY <1>6, <2>1, <2>2, CompletesType DEF Broken, MPTypeOK
<1>7. ASSUME NEW o \in Owner, Receive(o) PROVE MPTypeOK'
  <2> DEFINE m == Head(toClient[o]).message
  <2>1. m.id \in Id /\ Tail(toClient[o]) \in Seq(Telling) /\ toDaemon[o] \in Seq(Asking)
    BY <1>7, HeadLemma DEF Receive, MPTypeOK
  <2>2. link' = link /\ backlog' = backlog /\ toClient' \in [Owner -> Seq(Telling)]
    BY <1>7, <2>1 DEF Receive, MPTypeOK
  <2>3. CASE Complete(o, m, toDaemon[o])
    <3>1. Completes(o, m, toDaemon[o]) /\ PathsOK'
      BY <2>1, <2>3, CompletesLemma
    <3> QED
      BY <2>1, <2>2, <3>1, CompletesType DEF MPTypeOK
  <2>4. CASE UNCHANGED <<services, call, toDaemon>>
    BY <2>2, <2>4 DEF MPTypeOK, PathsOK
  <2> QED
    BY <1>7, <2>3, <2>4 DEF Receive
<1>8. ASSUME NEW o \in Owner, Serve(o) PROVE MPTypeOK'
  <2> DEFINE head == Head(toDaemon[o])
  <2>1. head.re \in Request /\ head.waiting \in BOOLEAN /\ Tail(toDaemon[o]) \in Seq(Asking)
    BY <1>8, HeadLemma DEF Serve
  <2>2. Writes(o, head.re)
    BY <1>8, <2>1, HandleWrites DEF Serve
  <2>3. \A q \in Owner : Written(q, head.waiting) \in Seq(Telling)
    BY <2>1, <2>2, WrittenType
  <2>4. \A q \in Owner : toClient[q] \o Written(q, head.waiting) \in Seq(Telling)
    BY <2>3 DEF MPTypeOK
  <2> QED
    BY <1>8, <2>1, <2>4 DEF Serve, MPTypeOK, PathsOK
<1>9. ASSUME NEW o \in Owner, Notice(o) PROVE MPTypeOK'
  BY <1>9 DEF Notice, MPTypeOK, PathsOK
<1>10. CASE DaemonDies
  BY <1>10 DEF DaemonDies, MPTypeOK, PathsOK
<1> QED
  BY <1>1, <1>2, <1>3, <1>4, <1>5, <1>6, <1>7, <1>8, <1>9, <1>10, MPSteps

\* The daemon's invariants hold in the composition too.
LEMMA MPInvariance == MPSpec => [](IInv /\ DInv /\ MPTypeOK)
<1>1. MPInit => IInv /\ DInv /\ MPTypeOK
  BY IInvInit, DInvInit, MPTypeInit DEF MPInit, DInit
<1>2. IInv /\ DInv /\ MPTypeOK /\ [MPNext]_mpVars => (IInv /\ DInv /\ MPTypeOK)'
  <2> SUFFICES ASSUME IInv, DInv, MPTypeOK, [MPNext]_mpVars PROVE (IInv /\ DInv /\ MPTypeOK)'
    OBVIOUS
  <2>1. [DNext]_dVars
    BY ComposeStep
  <2>2. [Next]_smVars
    BY <2>1, DaemonStep DEF dVars
  <2> QED
    BY <2>1, <2>2, IInvStep, DInvStep, MPTypeStep, NoWrapAssumption
<1> QED
  BY <1>1, <1>2, PTL DEF MPSpec

\* Behind the queues the daemon runs as Daemon says, so all theorems about the
\* daemon hold when its clients are there, time out and die.
THEOREM PortsUseDaemon == MPSpec => DSpec
<1>1. MPInit => DInit
  BY DEF MPInit
<1>2. (IInv /\ DInv /\ MPTypeOK) /\ [MPNext]_mpVars => [DNext]_dVars
  BY ComposeStep
<1> QED
  BY <1>1, <1>2, MPInvariance, PTL DEF MPSpec, DSpec

-----------------------------------------------------------------------------
(* Messages go where they were asked to go.  An id found by a check is      *)
(* either still that of the port asked for or of no port: the answer says   *)
(* so when it is written, and it stays so because ids below the counter are *)
(* not given again.  The thread gets the answer to its own question because *)
(* at most one message on its connection is waited for.                     *)

\* The id i was given, and leads to the port that re asks for or to none.
Names(i, re) ==
  /\ i <= object_conter
  /\ i \in DOMAIN service_cache =>
       /\ dbus_managers[heap[service_cache[i]].owner].app_id = re.app_id
       /\ heap[service_cache[i]].port_name = re.port_name
       /\ heap[service_cache[i]].is_trusted = re.is_trusted

\* The daemon has the connection or will have it.
Joined(o) == o \in clients \cup backlog

\* A connection that the daemon has yet to pick up has not been written to; a
\* process that has ended waits for nothing.
LinkInv(o) ==
  /\ Joined(o) => link[o] \in {"up", "exited"}
  /\ o \in backlog => o \notin clients /\ toClient[o] = <<>> /\ call[o].re.op \notin Sends
  /\ link[o] \in {"none", "exited"} => call[o] = NoCall /\ toClient[o] = <<>>
  /\ link[o] = "none" => toDaemon[o] = <<>>

\* The request a thread waits for, or the answer to it, is under way once at most.
OneAnswer(o) ==
  /\ \A i, j \in Waiting(toDaemon[o]) : i = j
  /\ \A i, j \in Waiting(toClient[o]) : i = j
  /\ Waiting(toDaemon[o]) = {} \/ Waiting(toClient[o]) = {}
  /\ \A i \in Waiting(toDaemon[o]) : toDaemon[o][i].re = call[o].re
  /\ \A i \in Waiting(toClient[o]) : /\ toClient[o][i].message.type = "Reply"
                                     /\ toClient[o][i].message.re = call[o].re

\* The id a message is sent under, and the one in the answer to a check.
TrueToCall(o) ==
  /\ IsCheck(call[o])
  /\ o \in clients /\ call[o].re.op \in Sends => Names(call[o].re.service_id, call[o])
  /\ o \in clients => \A i \in Waiting(toClient[o]) :
       LET m == toClient[o][i].message
       IN  m.re.op = "CheckForRemoteService" /\ m.error = "None" => Names(m.id, m.re)

PortInv(o) == /\ LinkInv(o)
              /\ link[o] = "up" => OneAnswer(o)
              /\ Joined(o) /\ link[o] = "up" => TrueToCall(o)

MPInv == \A o \in Owner : PortInv(o)

LEMMA MPInvInit == MPInit => MPInv
  BY DEF MPInit, DInit, Init, MPInv, PortInv, LinkInv, Joined, NoCall

\* The invariant is what the property needs.
LEMMA MPInvImplies == IInv /\ MPTypeOK /\ MPInv => NoMisdelivery
<1> SUFFICES ASSUME IInv, MPInv, NEW o \in Owner, o \in clients, call[o].re.op \in Sends,
                    NEW p \in GetServiceById(call[o].re.service_id)
             PROVE  IsPort(p, call[o])
  BY DEF NoMisdelivery, Sends
<1>1. link[o] = "up"
  BY DEF MPInv, PortInv, LinkInv, Joined, NoCall, NoRequest, Sends
<1>2. Names(call[o].re.service_id, call[o])
  BY <1>1 DEF MPInv, PortInv, Joined, TrueToCall
<1> QED
  BY <1>2 DEF Names, GetServiceById, IsPort, AppOf

\* The application of a connection does not change.
LEMMA ManagerStep ==
  ASSUME IInv, DInv, [DNext]_dVars
  PROVE  \A c \in clients \cap clients' : dbus_managers'[c].app_id = dbus_managers[c].app_id
<1> USE DEF AppOf
<1>0. dbus_managers \in [clients -> Manager]
  BY DEF DInv, DTypeOK
<1> DEFINE Same == \A c \in clients \cap clients' : dbus_managers'[c].app_id = dbus_managers[c].app_id
<1> SUFFICES Same
  OBVIOUS
<1>1. CASE UNCHANGED dbus_managers
  BY <1>1
<1>2. ASSUME NEW o \in Owner, NEW a \in App, Accept(o, a) PROVE Same
  BY <1>0, <1>2 DEF Accept, Connect, Put
<1>3. ASSUME NEW o \in Owner, Closed(o) PROVE Same
  BY <1>0, <1>3 DEF Closed, Disconnect, Drop, Restrict
<1>4. ASSUME NEW o, NEW re, NEW a \in App, NEW port, NEW t, Forward(o, re, a, port, t),
             UNCHANGED smVars
      PROVE  Same
  <2>1. ASSUME NEW p \in GetServiceById(re.service_id), NEW valid \in BOOLEAN,
               ValidatePeer(heap[p].owner, a, valid)
        PROVE  Same
    <3>1. heap[p].owner \in clients
      BY DEF IInv, Tables, CacheExact, ListsExact, GetServiceById
    <3> QED
      BY <1>4, <2>1, <3>1, ValidateLemma
  <2> HIDE DEF Same
  <2> QED
    BY <1>1, <1>4, <2>1 DEF Forward
<1>5. ASSUME NEW o \in Owner, NEW re \in Request, Handle(o, re) PROVE Same
  <2>1. CASE SendMessage(o, re)
    BY <1>0, <1>4, <2>1 DEF SendMessage, Manager
  <2>2. CASE ServiceSendMessage(o, re)
    <3>1. \A p \in ServicesAt(o, re.from) : dbus_managers[heap[p].owner].app_id \in App
      BY <1>0, <2>2 DEF ServiceSendMessage, ServicesAt, Manager
    <3> QED
      BY <1>4, <2>2, <3>1 DEF ServiceSendMessage
  <2> HIDE DEF Same
  <2> QED
    BY <1>1, <1>5, <2>1, <2>2
    DEF Handle, RegisterService, CheckForRemoteService, Unregister, GetAll, NoSuchObject
<1>6. CASE DaemonRestart
  BY <1>6 DEF DaemonRestart, Restart
<1> QED
  BY <1>1, <1>2, <1>3, <1>5, <1>6 DEF DNext, Elsewhere, dVars

\* A handler closes no connection and uses one id up at most.
LEMMA HandleCounts ==
  ASSUME IInv, NEW o \in Owner, NEW re \in Request, Handle(o, re)
  PROVE  clients' = clients /\ object_conter' \in {object_conter, object_conter + 1}
<1>1. ASSUME NEW n \in Name, NEW t \in BOOLEAN, RegisterNew(o, n, t)
      PROVE  clients' = clients /\ object_conter' = object_conter + 1
  <2>1. object_conter < MaxCounter
    BY <1>1 DEF RegisterNew, CanCreate
  <2> QED
    BY <1>1, <2>1, NewIdLemma, NoWrapAssumption DEF RegisterNew
<1>2. re.op = "RegisterService" => re.is_trusted \in BOOLEAN
  BY DEF Request
<1> QED
  BY <1>1, <1>2 DEF Handle, RegisterService, RegisterFound, CheckForRemoteService, SendMessage,
                    ServiceSendMessage, Unregister, GetAll, NoSuchObject, smVars

\* While the daemon lives, ids lead to the ports they led to, or to none.
LEMMA NamesStep ==
  ASSUME IInv, DInv, [DNext]_dVars, object_conter' \in {object_conter, object_conter + 1},
         NEW i \in Id, NEW re, Names(i, re)
  PROVE  /\ i <= object_conter'
         /\ i \in DOMAIN service_cache' =>
              /\ dbus_managers'[heap'[service_cache'[i]].owner].app_id = re.app_id
              /\ heap'[service_cache'[i]].port_name = re.port_name
              /\ heap'[service_cache'[i]].is_trusted = re.is_trusted
<1>0. object_conter \in Nat /\ i \in Nat
  BY IdSpaceAssumption DEF IInv, Tables, TypeOK, Id
<1>1. [Next]_smVars
  BY DaemonStep DEF dVars
<1>2. IInv'
  BY <1>1, IInvStep, NoWrapAssumption
<1>3. object_conter' \in Nat /\ object_conter <= object_conter'
  BY <1>0
<1>4. i \in DOMAIN service_cache' => i \in DOMAIN service_cache
  <2>1. [\A k \in DOMAIN service_cache' \ DOMAIN service_cache : k > object_conter]_smVars
    BY <1>1, FreshStep, NoWrapAssumption
  <2>2. \A k \in DOMAIN service_cache' \ DOMAIN service_cache : k > object_conter
    BY <2>1 DEF smVars
  <2> QED
    BY <1>0, <2>2 DEF Names
<1>5. i \in DOMAIN service_cache' => heap'[service_cache'[i]] = heap[service_cache[i]]
  <2>1. [\A k \in DOMAIN service_cache \cap DOMAIN service_cache' :
            heap'[service_cache'[k]] = heap[service_cache[k]]]_smVars
    BY <1>1, StableStep, NoWrapAssumption
  <2>2. \A k \in DOMAIN service_cache \cap DOMAIN service_cache' :
            heap'[service_cache'[k]] = heap[service_cache[k]]
    BY <2>1 DEF smVars
  <2> QED
    BY <1>4, <2>2
<1>6. i \in DOMAIN service_cache' => heap[service_cache[i]].owner \in clients \cap clients'
  <2>1. i \in DOMAIN service_cache => heap[service_cache[i]].owner \in clients
    BY DEF IInv, Tables, CacheExact, ListsExact
  <2>2. i \in DOMAIN service_cache' => heap'[service_cache'[i]].owner \in clients'
    BY <1>2 DEF IInv, Tables, CacheExact, ListsExact
  <2> QED
    BY <1>4, <1>5, <2>1, <2>2
<1> QED
  BY <1>0, <1>3, <1>4, <1>5, <1>6, ManagerStep DEF Names

\* A step that does not touch thread o, its connection or the daemon.
LEMMA FrameStep ==
  ASSUME NEW o \in Owner, PortInv(o), UNCHANGED <<smVars, dbus_managers>>,
         link'[o] = link[o], o \in backlog' <=> o \in backlog, call'[o] = call[o],
         toDaemon'[o] = toDaemon[o], toClient'[o] = toClient[o]
  PROVE  PortInv(o)'
<1> USE DEF smVars
<1>1. LinkInv(o)' /\ (Joined(o)' <=> Joined(o))
  BY DEF PortInv, LinkInv, Joined
<1>2. OneAnswer(o) => OneAnswer(o)'
  BY DEF OneAnswer, Waiting
<1>3. TrueToCall(o) => TrueToCall(o)'
  <2>1. IsCheck(call[o]) => IsCheck(call[o])'
    BY DEF IsCheck, CheckRequest
  <2>2. Names(call[o].re.service_id, call[o]) => Names(call[o].re.service_id, call[o])'
    BY DEF Names
  <2>3. Waiting(toClient[o])' = Waiting(toClient[o]) /\ clients' = clients
    BY DEF Waiting
  <2>4. ASSUME NEW i \in Waiting(toClient[o]),
               Names(toClient[o][i].message.id, toClient[o][i].message.re)
        PROVE  Names(toClient[o][i].message.id, toClient[o][i].message.re)'
    BY <2>4 DEF Names
  <2> QED
    BY <2>1, <2>2, <2>3, <2>4 DEF TrueToCall
<1> QED
  BY <1>1, <1>2, <1>3 DEF PortInv

\* Nothing is waited for.
Quiet(o) == Waiting(toDaemon[o]) = {} /\ Waiting(toClient[o]) = {}

\* A thread that is in no call waits for nothing.
LEMMA IdleLemma ==
  ASSUME MPTypeOK, NEW o \in Owner, call[o] = NoCall, OneAnswer(o)
  PROVE  Quiet(o)
<1>0. \A re \in Request : re # NoRequest
  <2>1. \A re \in Request : re.op # "None"
    BY DEF Request
  <2> QED
    BY <2>1 DEF NoRequest
<1>1. \A i \in DOMAIN toDaemon[o] : toDaemon[o][i].re \in Request
  <2>1. toDaemon[o] \in Seq(Asking)
    BY DEF MPTypeOK
  <2>2. \A i \in DOMAIN toDaemon[o] : toDaemon[o][i] \in Asking
    BY <2>1
  <2> QED
    BY <2>2 DEF Asking
<1>2. \A i \in DOMAIN toClient[o] : toClient[o][i].message \in Message
  <2>1. toClient[o] \in Seq(Telling)
    BY DEF MPTypeOK
  <2>2. \A i \in DOMAIN toClient[o] : toClient[o][i] \in Telling
    BY <2>1
  <2> QED
    BY <2>2 DEF Telling
<1>3. \A m \in Message : m.type = "Reply" => m.re \in Request
  BY DEF Message, ReplyMessage, PropertiesMessage, SignalMessage
<1>4. call[o].re = NoRequest
  BY DEF NoCall
<1>5. Waiting(toDaemon[o]) = {}
  BY <1>0, <1>1, <1>4 DEF OneAnswer, Waiting
<1>6. Waiting(toClient[o]) = {}
  BY <1>0, <1>2, <1>3, <1>4 DEF OneAnswer, Waiting
<1> QED
  BY <1>5, <1>6 DEF Quiet

\* A thread that returns from a call, nothing of which is waited for.
LEMMA ReturnStep ==
  ASSUME NEW o \in Owner, PortInv(o), Elsewhere, UNCHANGED <<link, backlog>>,
         MPTypeOK, link[o] \notin {"none", "exited"},
         call'[o] = NoCall, link[o] = "up" => Quiet(o)',
         o \in backlog => toClient'[o] = <<>>
  PROVE  PortInv(o)'
<1> USE DEF Elsewhere, smVars
<1>1. LinkInv(o)' /\ (Joined(o)' <=> Joined(o))
  BY DEF PortInv, LinkInv, Joined, NoCall, NoRequest, Sends
<1>2. Quiet(o)' => OneAnswer(o)'
  BY DEF Quiet, OneAnswer
<1>3. Quiet(o)' => TrueToCall(o)'
  BY DEF Quiet, TrueToCall, IsCheck, NoCall, NoRequest, Sends
<1> QED
  BY <1>1, <1>2, <1>3 DEF PortInv

\* A thread that asks the daemon something, and had waited for nothing else.
LEMMA AskStep ==
  ASSUME NEW o \in Owner, PortInv(o), Elsewhere, UNCHANGED <<link, backlog>>,
         MPTypeOK, link[o] \notin {"none", "exited"},
         NEW c \in OpenCall, Ask(o, c, toDaemon[o]), IsCheck(c),
         o \in clients /\ c.re.op \in Sends => Names(c.re.service_id, c),
         o \in backlog => toClient'[o] = <<>> /\ c.re.op \notin Sends,
         link[o] = "up" => Waiting(toDaemon[o]) = {} /\ Waiting(toClient'[o]) = {}
  PROVE  PortInv(o)'
<1> USE DEF Elsewhere, smVars
<1>0. call'[o] = c
  BY DEF Ask, MPTypeOK
<1>1. LinkInv(o)' /\ (Joined(o)' <=> Joined(o))
  BY <1>0 DEF PortInv, LinkInv, Joined
<1>2. ASSUME link[o] = "up" PROVE OneAnswer(o)' /\ TrueToCall(o)'
  <2>1. toDaemon[o] \in Seq(Asking) /\ [re |-> c.re, waiting |-> TRUE] \in Asking
    BY DEF MPTypeOK, Asking, OpenCall
  <2>2. toDaemon'[o] = Append(toDaemon[o], [re |-> c.re, waiting |-> TRUE])
    BY <1>2 DEF Ask, MPTypeOK
  <2>3. /\ DOMAIN toDaemon'[o] = 1 .. Len(toDaemon[o]) + 1
        /\ \A i \in DOMAIN toDaemon[o] : toDaemon'[o][i] = toDaemon[o][i]
        /\ toDaemon'[o][Len(toDaemon[o]) + 1] = [re |-> c.re, waiting |-> TRUE]
    BY <2>1, <2>2
  <2>4. \A i \in Waiting(toDaemon'[o]) : i = Len(toDaemon[o]) + 1
    BY <1>2, <2>1, <2>3 DEF Waiting
  <2>5. OneAnswer(o)'
    BY <1>0, <1>2, <2>3, <2>4 DEF OneAnswer
  <2>6. TrueToCall(o)'
    BY <1>0, <1>2 DEF TrueToCall, Names, IsCheck, CheckRequest
  <2> QED
    BY <2>5, <2>6
<1> QED
  BY <1>1, <1>2 DEF PortInv

\* The beginning of a call.
LEMMA BeginsStep ==
  ASSUME MPTypeOK, NEW o \in Owner, PortInv(o), Begins(o)
  PROVE  PortInv(o)'
<1>1. link[o] = "up" => Quiet(o)
  BY IdleLemma DEF Begins, PortInv
<1>2. /\ Elsewhere /\ UNCHANGED <<link, backlog>> /\ link[o] \notin {"none", "exited"}
      /\ toClient' = toClient /\ (o \in backlog => toClient[o] = <<>>)
  BY DEF Begins, PortInv, LinkInv
<1>3. CASE call' = [call EXCEPT ![o] = NoCall] /\ UNCHANGED toDaemon
  <2>1. call'[o] = NoCall
    BY <1>3 DEF MPTypeOK
  <2>2. Quiet(o) => Quiet(o)'
    BY <1>2, <1>3 DEF Quiet, Waiting
  <2> QED
    BY <1>1, <1>2, <2>1, <2>2, ReturnStep
<1>4. ASSUME NEW c \in OpenCall, c.re.op \notin Sends, IsCheck(c), Ask(o, c, toDaemon[o])
      PROVE  PortInv(o)'
  BY <1>1, <1>2, <1>4, AskStep DEF Quiet
<1> QED
  BY <1>3, <1>4 DEF Begins

\* The head of a queue is waited for alone; without it the others remain.
LEMMA TailLemma ==
  ASSUME NEW S, NEW q \in Seq(S), q # <<>>
  PROVE  /\ Head(q).waiting <=> 1 \in Waiting(q)
         /\ q[1] = Head(q)
         /\ \A i \in Waiting(Tail(q)) : i \in Nat /\ i + 1 \in Waiting(q) /\ Tail(q)[i] = q[i + 1]
         /\ (\A i, j \in Waiting(q) : i = j) /\ Head(q).waiting => Waiting(Tail(q)) = {}
<1>1. /\ Len(q) \in Nat \ {0} /\ DOMAIN q = 1 .. Len(q) /\ Head(q) = q[1]
      /\ DOMAIN Tail(q) = 1 .. Len(q) - 1
      /\ \A i \in 1 .. Len(q) - 1 : Tail(q)[i] = q[i + 1]
  OBVIOUS
<1>2. \A i \in Waiting(Tail(q)) : i \in Nat /\ i > 0 /\ i + 1 \in Waiting(q) /\ Tail(q)[i] = q[i + 1]
  BY <1>1 DEF Waiting
<1>3. Head(q).waiting <=> 1 \in Waiting(q)
  BY <1>1 DEF Waiting
<1>4. (\A i, j \in Waiting(q) : i = j) /\ Head(q).waiting => Waiting(Tail(q)) = {}
  <2> SUFFICES ASSUME \A i, j \in Waiting(q) : i = j, 1 \in Waiting(q),
                      NEW i \in Waiting(Tail(q))
               PROVE  FALSE
    BY <1>3
  <2>1. i \in Nat /\ i > 0 /\ i + 1 = 1
    BY <1>2
  <2> QED
    BY <2>1
<1> QED
  BY <1>1, <1>2, <1>3, <1>4

\* The end of a D-Bus call that timed out or lost its connection.
LEMMA TimeoutStep ==
  ASSUME MPTypeOK, NEW o \in Owner, PortInv(o), Timeout(o)
  PROVE  PortInv(o)'
<1>1. Completes(o, Failure("Timeout"), Abandon(toDaemon[o]))
  BY CompletesLemma, ZeroLemma DEF Timeout, Failure
<1>2. Failure("Timeout").error # "None"
  BY DEF Failure
<1>3. call'[o] = NoCall /\ toDaemon'[o] = Abandon(toDaemon[o]) /\ toClient'[o] = Abandon(toClient[o])
  BY <1>1, <1>2 DEF Completes, Timeout, MPTypeOK
<1>4. Quiet(o)'
  BY <1>3, AbandonType DEF Quiet, Waiting
<1>5. o \in backlog => toClient'[o] = <<>>
  <2>1. toClient[o] = <<>> => DOMAIN Abandon(toClient[o]) = {}
    BY DEF Abandon
  <2>2. toClient[o] = <<>> => Abandon(toClient[o]) = <<>>
    BY <2>1, AbandonType
  <2> QED
    BY <1>3, <2>2 DEF PortInv, LinkInv
<1> QED
  BY <1>3, <1>4, <1>5, ReturnStep DEF Timeout

LEMMA BrokenStep ==
  ASSUME MPTypeOK, NEW o \in Owner, PortInv(o), Broken(o)
  PROVE  PortInv(o)'
<1>1. Completes(o, Failure("Closed"), toDaemon[o])
  BY CompletesLemma, ZeroLemma DEF Broken, Failure
<1>2. Failure("Closed").error # "None"
  BY DEF Failure
<1>3. call'[o] = NoCall
  BY <1>1, <1>2 DEF Completes, MPTypeOK
<1>4. o \notin backlog
  BY DEF Broken, PortInv, LinkInv, Joined
<1> QED
  BY <1>3, <1>4, ReturnStep DEF Broken

\* An answer that is waited for is the answer to what the thread asked.
LEMMA ReceiveStep ==
  ASSUME MPTypeOK, NEW o \in Owner, PortInv(o), Receive(o)
  PROVE  PortInv(o)'
<1> DEFINE q == toClient[o]
           m == Head(q).message
<1>0. /\ q \in Seq(Telling) /\ q # <<>> /\ link[o] = "up" /\ Elsewhere
      /\ UNCHANGED <<link, backlog>> /\ toClient'[o] = Tail(q) /\ m.id \in Id
  BY HeadLemma DEF Receive, MPTypeOK
<1>1. o \notin backlog
  BY <1>0 DEF PortInv, LinkInv
<1>2. /\ Head(q).waiting <=> 1 \in Waiting(q)
      /\ q[1] = Head(q)
      /\ \A i \in Waiting(Tail(q)) : i \in Nat /\ i + 1 \in Waiting(q) /\ Tail(q)[i] = q[i + 1]
      /\ (\A i, j \in Waiting(q) : i = j) /\ Head(q).waiting => Waiting(Tail(q)) = {}
  BY <1>0, TailLemma
<1>3. CASE Head(q).waiting /\ Complete(o, m, toDaemon[o])
  <2>1. Completes(o, m, toDaemon[o])
    BY <1>0, <1>3, CompletesLemma
  <2>2. /\ Waiting(toDaemon[o]) = {} /\ Waiting(toClient'[o]) = {} /\ m.re = call[o].re
        /\ Joined(o) => /\ IsCheck(call[o])
                        /\ o \in clients /\ m.re.op = "CheckForRemoteService" /\ m.error = "None" =>
                             Names(m.id, m.re)
    BY <1>0, <1>2, <1>3 DEF PortInv, OneAnswer, TrueToCall
  <2>3. CASE call' = [call EXCEPT ![o] = NoCall] /\ toDaemon' = [toDaemon EXCEPT ![o] = toDaemon[o]]
    <3>1. call'[o] = NoCall /\ toDaemon'[o] = toDaemon[o]
      BY <2>3 DEF MPTypeOK
    <3>2. Quiet(o)'
      BY <2>2, <3>1 DEF Quiet, Waiting
    <3> QED
      BY <1>0, <1>1, <3>1, <3>2, ReturnStep
  <2>4. ASSUME m.error = "None", NEW re \in Request, re.op # "CheckForRemoteService",
               re.op \in Sends => call[o].re.op = "CheckForRemoteService" /\ re.service_id = m.id,
               Ask(o, [call[o] EXCEPT !.re = re], toDaemon[o])
        PROVE  PortInv(o)'
    <3> DEFINE c == [call[o] EXCEPT !.re = re]
    <3>1. call[o] \in OpenCall
      BY <2>1 DEF Completes, MPTypeOK
    <3>2. /\ c \in OpenCall /\ c.re = re /\ c.app_id = call[o].app_id
          /\ c.port_name = call[o].port_name /\ c.is_trusted = call[o].is_trusted
      BY <3>1 DEF OpenCall
    <3>3. IsCheck(c)
      BY <2>4, <3>2 DEF IsCheck
    <3>4. ASSUME o \in clients, re.op \in Sends PROVE Names(c.re.service_id, c)
      <4>1. m.re = CheckRequest(call[o].app_id, call[o].port_name, call[o].is_trusted)
        BY <2>2, <2>4, <3>4 DEF IsCheck, Joined
      <4>2. Names(m.id, m.re)
        BY <2>2, <2>4, <3>4 DEF Joined
      <4>3. re.service_id = m.id
        BY <2>4, <3>4
      <4>4. m.re.app_id = c.app_id /\ m.re.port_name = c.port_name /\ m.re.is_trusted = c.is_trusted
        BY <3>2, <4>1 DEF CheckRequest
      <4> HIDE DEF c, m
      <4> QED
        BY <3>2, <4>2, <4>3, <4>4 DEF Names
    <3> HIDE DEF c
    <3>5. Ask(o, c, toDaemon[o])
      BY <2>4 DEF c
    <3> QED
      BY <1>0, <1>1, <2>2, <3>2, <3>3, <3>4, <3>5, AskStep
  <2> QED
    BY <2>1, <2>3, <2>4 DEF Completes
<1>4. CASE ~ Head(q).waiting /\ UNCHANGED <<call, toDaemon>>
  <2> USE DEF Elsewhere, smVars
  <2>1. LinkInv(o)' /\ (Joined(o)' <=> Joined(o))
    BY <1>0, <1>1, <1>4 DEF PortInv, LinkInv, Joined
  <2>2. \A i \in Waiting(toClient[o])' :
          i \in Nat /\ i + 1 \in Waiting(q) /\ toClient'[o][i] = q[i + 1]
    BY <1>0, <1>2
  <2>3. OneAnswer(o) => OneAnswer(o)'
    <3>1. Waiting(toDaemon[o])' = Waiting(toDaemon[o])
      BY <1>4
    <3>2. (\A i, j \in Waiting(q) : i = j) => \A i, j \in Waiting(toClient[o])' : i = j
      <4> SUFFICES ASSUME \A i, j \in Waiting(q) : i = j,
                          NEW i \in Waiting(toClient[o])', NEW j \in Waiting(toClient[o])'
                   PROVE  i = j
        OBVIOUS
      <4>1. i \in Nat /\ j \in Nat /\ i + 1 = j + 1
        BY <2>2
      <4> QED
        BY <4>1
    <3>3. Waiting(q) = {} => Waiting(toClient[o])' = {}
      BY <2>2
    <3> QED
      BY <1>4, <2>2, <3>1, <3>2, <3>3 DEF OneAnswer
  <2>4. TrueToCall(o) => TrueToCall(o)'
    <3>1. IsCheck(call[o]) => IsCheck(call[o])'
      BY <1>4 DEF IsCheck, CheckRequest
    <3>2. Names(call[o].re.service_id, call[o]) => Names(call[o].re.service_id, call[o])'
      BY <1>0, <1>4 DEF Names
    <3>3. ASSUME NEW x, Names(x.id, x.re) PROVE Names(x.id, x.re)'
      BY <1>0, <3>3 DEF Names
    <3> QED
      BY <1>0, <1>4, <2>2, <3>1, <3>2, <3>3 DEF TrueToCall
  <2> QED
    BY <1>0, <2>1, <2>3, <2>4 DEF PortInv
<1> QED
  BY <1>3, <1>4 DEF Receive

\* What is waited for in a queue that something was written to.
LEMMA ConcatWaiting ==
  ASSUME NEW s \in Seq(Telling), NEW w \in Seq(Telling)
  PROVE  \A i \in Waiting(s \o w) :
           /\ i \in Nat
           /\ \/ i \in Waiting(s) /\ (s \o w)[i] = s[i]
              \/ i - Len(s) \in Waiting(w) /\ (s \o w)[i] = w[i - Len(s)]
<1>1. /\ Len(s) \in Nat /\ Len(w) \in Nat
      /\ DOMAIN s = 1 .. Len(s) /\ DOMAIN w = 1 .. Len(w)
      /\ DOMAIN (s \o w) = 1 .. Len(s) + Len(w)
      /\ \A i \in 1 .. Len(s) + Len(w) : (s \o w)[i] = IF i <= Len(s) THEN s[i] ELSE w[i - Len(s)]
  OBVIOUS
<1> QED
  BY <1>1 DEF Waiting

\* The answer, if anything, is waited for in what a handler writes.
LEMMA WrittenWaiting ==
  ASSUME NEW o \in Owner, NEW re \in Request, Writes(o, re),
         NEW q \in Owner, NEW waiting \in BOOLEAN
  PROVE  /\ \A i \in Waiting(Written(q, waiting)) :
              /\ q = o /\ waiting
              /\ Written(q, waiting)[i].message \in Answer(o, re) \cap Outputs("Reply")'
         /\ \A i, j \in Waiting(Written(q, waiting)) : i = j
         /\ q \notin clients \cup {o} => Written(q, waiting) = <<>>
<1> DEFINE A(m) == [message |-> m, waiting |-> FALSE]
           B(r) == [message |-> r, waiting |-> waiting]
<1>1. CASE Written(q, waiting) = <<>>
  BY <1>1 DEF Waiting
<1>2. ASSUME NEW m \in Signal, q \in clients, Written(q, waiting) = <<A(m)>>
      PROVE  Waiting(Written(q, waiting)) = {}
  BY <1>2 DEF Waiting
<1>3. ASSUME NEW r \in Answer(o, re), Written(q, waiting) = <<B(r)>>
      PROVE  \A i \in Waiting(Written(q, waiting)) :
               i = 1 /\ waiting /\ Written(q, waiting)[i].message = r
  BY <1>3 DEF Waiting
<1>4. ASSUME NEW r \in Answer(o, re), NEW m \in Signal, Written(q, waiting) = <<A(m), B(r)>>
      PROVE  \A i \in Waiting(Written(q, waiting)) :
               i = 2 /\ waiting /\ Written(q, waiting)[i].message = r
  <2>1. /\ DOMAIN Written(q, waiting) = {1, 2}
        /\ Written(q, waiting)[1] = A(m) /\ Written(q, waiting)[2] = B(r)
    BY <1>4
  <2> QED
    BY <2>1 DEF Waiting
<1> QED
  BY <1>1, <1>2, <1>3, <1>4, WrittenLemma

\* What threads know of ports stays true while the daemon lives.
LEMMA TruthStep ==
  ASSUME IInv, DInv, MPTypeOK, [DNext]_dVars, object_conter' \in {object_conter, object_conter + 1},
         NEW q \in Owner, call'[q] = call[q], TrueToCall(q), q \in clients
  PROVE  /\ IsCheck(call[q])'
         /\ call[q].re.op \in Sends => Names(call[q].re.service_id, call[q])'
         /\ \A m \in Message : Names(m.id, m.re) => Names(m.id, m.re)'
<1>1. IsCheck(call[q])'
  BY DEF TrueToCall, IsCheck, CheckRequest
<1>2. ASSUME call[q].re.op \in Sends PROVE Names(call[q].re.service_id, call[q])'
  <2>1. call[q] \in OpenCall
    BY <1>2 DEF MPTypeOK, NoCall, NoRequest, Sends
  <2>2. call[q].re.service_id \in Id
    BY <1>2, <2>1 DEF OpenCall, Request, Sends
  <2>3. Names(call[q].re.service_id, call[q])
    BY <1>2 DEF TrueToCall
  <2> QED
    BY <2>2, <2>3, NamesStep DEF Names
<1>3. ASSUME NEW m \in Message, Names(m.id, m.re) PROVE Names(m.id, m.re)'
  <2>1. m.id \in Id
    BY DEF Message, ReplyMessage, PropertiesMessage, SignalMessage
  <2> QED
    BY <1>3, <2>1, NamesStep DEF Names
<1> QED
  BY <1>1, <1>2, <1>3

\* A handler runs: thread q may get something.
LEMMA ServeStep ==
  ASSUME IInv, DInv, MPTypeOK, NEW o \in Owner, PortInv(o), Serve(o), NEW q \in Owner, PortInv(q)
  PROVE  PortInv(q)'
<1> DEFINE head == Head(toDaemon[o])
           w == Written(q, head.waiting)
<1>1. /\ head.re \in Request /\ head.waiting \in BOOLEAN
      /\ toDaemon[o] # <<>> /\ toDaemon[o] \in Seq(Asking) /\ Handle(o, head.re)
      /\ UNCHANGED <<link, backlog, call>>
      /\ toDaemon' = [toDaemon EXCEPT ![o] = Tail(@)]
      /\ toClient'[q] = IF link[q] = "up" THEN toClient[q] \o w ELSE toClient[q]
  BY HeadLemma DEF Serve, MPTypeOK
<1>2. [DNext]_dVars
  BY <1>1 DEF DNext
<1>3. /\ o \in clients /\ clients' = clients
      /\ object_conter' \in {object_conter, object_conter + 1} /\ Writes(o, head.re)
  BY <1>1, HandleCounts, HandleWrites
<1>4. /\ \A i \in Waiting(w) : /\ q = o /\ head.waiting
                               /\ w[i].message \in Answer(o, head.re) \cap Outputs("Reply")'
      /\ \A i, j \in Waiting(w) : i = j
      /\ q \notin clients \cup {o} => w = <<>>
      /\ w \in Seq(Telling) /\ toClient[q] \in Seq(Telling)
  BY <1>1, <1>3, WrittenWaiting, WrittenType DEF MPTypeOK
<1> HIDE DEF w
<1>5. Joined(q)' <=> Joined(q)
  BY <1>1, <1>3 DEF Joined
<1>6. LinkInv(q)'
  <2>1. q \in backlog => toClient'[q] = <<>>
    <3>1. q \in backlog => w = <<>> /\ toClient[q] = <<>>
      BY <1>3, <1>4 DEF PortInv, LinkInv
    <3> QED
      BY <1>1, <3>1, ConcatLemma
  <2>2. link[q] = "none" => toDaemon'[q] = <<>>
    <3>1. link[q] = "none" => q # o
      BY <1>3 DEF PortInv, LinkInv, Joined
    <3> QED
      BY <1>1, <3>1 DEF PortInv, LinkInv, MPTypeOK
  <2> QED
    BY <1>1, <1>3, <1>5, <2>1, <2>2 DEF PortInv, LinkInv
<1>7. ASSUME Joined(q), link[q] = "up" PROVE OneAnswer(q)' /\ TrueToCall(q)'
  <2>1. OneAnswer(q) /\ TrueToCall(q) /\ toClient'[q] = toClient[q] \o w
    BY <1>1, <1>7 DEF PortInv
  <2>2. \A i \in Waiting(toClient'[q]) :
          \/ i \in Waiting(toClient[q]) /\ toClient'[q][i] = toClient[q][i]
          \/ /\ i - Len(toClient[q]) \in Waiting(w)
             /\ toClient'[q][i] = w[i - Len(toClient[q])]
    <3> DEFINE s == toClient[q]
    <3>1. s \in Seq(Telling) /\ w \in Seq(Telling)
      BY <1>4
    <3>2. \A i \in Waiting(s \o w) :
            \/ i \in Waiting(s) /\ (s \o w)[i] = s[i]
            \/ i - Len(s) \in Waiting(w) /\ (s \o w)[i] = w[i - Len(s)]
      BY <3>1, ConcatWaiting
    <3>3. toClient'[q] = s \o w
      BY <2>1
    <3> HIDE DEF s
    <3>4. s = toClient[q]
      BY DEF s
    <3> QED
      BY <3>2, <3>3, <3>4
  <2>3. ASSUME Waiting(w) = {} PROVE OneAnswer(q)'
    <3>1. \A i \in Waiting(toClient'[q]) : i \in Waiting(toClient[q]) /\ toClient'[q][i] = toClient[q][i]
      BY <2>2, <2>3
    <3>2. CASE q # o
      <4>1. toDaemon'[q] = toDaemon[q]
        BY <1>1, <3>2 DEF MPTypeOK
      <4> QED
        BY <1>1, <2>1, <3>1, <4>1 DEF OneAnswer
    <3>3. CASE q = o
      <4>1. toDaemon'[o] = Tail(toDaemon[o])
        BY <1>1 DEF MPTypeOK
      <4>2. \A i \in Waiting(Tail(toDaemon[o])) :
              /\ i \in Nat /\ i + 1 \in Waiting(toDaemon[o])
              /\ Tail(toDaemon[o])[i] = toDaemon[o][i + 1]
        BY <1>1, TailLemma
      <4>3. \A i, j \in Waiting(Tail(toDaemon[o])) : i = j
        <5> SUFFICES ASSUME NEW i \in Waiting(Tail(toDaemon[o])), NEW j \in Waiting(Tail(toDaemon[o]))
                     PROVE  i = j
          OBVIOUS
        <5>1. i \in Nat /\ j \in Nat /\ i + 1 = j + 1
          BY <2>1, <3>3, <4>2 DEF OneAnswer
        <5> QED
          BY <5>1
      <4> QED
        <5>1. \A i, j \in Waiting(toClient'[q]) : i = j
          BY <2>1, <3>1 DEF OneAnswer
        <5>2. Waiting(toDaemon'[q]) = {} \/ Waiting(toClient'[q]) = {}
          BY <2>1, <3>1, <3>3, <4>1, <4>2 DEF OneAnswer
        <5>3. \A i \in Waiting(toDaemon'[q]) : toDaemon'[q][i].re = call'[q].re
          <6>1. \A i \in Waiting(Tail(toDaemon[o])) : Tail(toDaemon[o])[i].re = call[o].re
            BY <2>1, <3>3, <4>2 DEF OneAnswer
          <6>2. toDaemon'[q] = Tail(toDaemon[o]) /\ call'[q] = call[o]
            BY <1>1, <3>3, <4>1
          <6> QED
            BY <6>1, <6>2, Zenon
        <5>4. \A i \in Waiting(toClient'[q]) : /\ toClient'[q][i].message.type = "Reply"
                                               /\ toClient'[q][i].message.re = call'[q].re
          BY <1>1, <2>1, <3>1 DEF OneAnswer
        <5> QED
          BY <3>3, <4>1, <4>3, <5>1, <5>2, <5>3, <5>4 DEF OneAnswer
    <3> QED
      BY <3>2, <3>3
  <2>4. ASSUME Waiting(w) # {}
        PROVE  /\ OneAnswer(q)'
               /\ \A i \in Waiting(toClient'[q]) :
                    toClient'[q][i].message \in Answer(o, head.re) \cap Outputs("Reply")'
    <3>1. q = o /\ head.waiting
      BY <1>4, <2>4
    <3>2. /\ head = toDaemon[o][1] /\ 1 \in Waiting(toDaemon[o])
          /\ ((\A i, j \in Waiting(toDaemon[o]) : i = j) => Waiting(Tail(toDaemon[o])) = {})
      BY <1>1, <3>1, TailLemma
    <3>3. Waiting(toClient[q]) = {} /\ head.re = call[q].re /\ Waiting(Tail(toDaemon[o])) = {}
      BY <2>1, <3>1, <3>2 DEF OneAnswer
    <3>4. Waiting(toDaemon'[q]) = {}
      BY <1>1, <3>1, <3>3 DEF MPTypeOK
    <3>5. \A i \in Waiting(toClient'[q]) :
            /\ i - Len(toClient[q]) \in Waiting(w)
            /\ toClient'[q][i].message \in Answer(o, head.re) \cap Outputs("Reply")'
      BY <1>4, <2>2, <3>3
    <3>6. \A i, j \in Waiting(toClient'[q]) : i = j
      <4> SUFFICES ASSUME NEW i \in Waiting(toClient'[q]), NEW j \in Waiting(toClient'[q])
                   PROVE  i = j
        OBVIOUS
      <4>1. /\ i \in DOMAIN toClient'[q] /\ j \in DOMAIN toClient'[q]
            /\ i - Len(toClient[q]) = j - Len(toClient[q])
        BY <1>4, <3>5 DEF Waiting
      <4>2. toClient'[q] \in Seq(Telling) /\ Len(toClient[q]) \in Nat
        BY <1>4, <2>1
      <4> QED
        BY <4>1, <4>2
    <3>7. \A r \in Answer(o, head.re) : r.type = "Reply" /\ r.re = head.re
      BY DEF Answer, ReplyMessage, PropertiesMessage
    <3>8. OneAnswer(q)'
      BY <1>1, <3>3, <3>4, <3>5, <3>6, <3>7 DEF OneAnswer
    <3> QED
      BY <3>5, <3>8
  <2>5. ASSUME NEW m \in Answer(o, head.re) \cap Outputs("Reply")',
               m.re.op = "CheckForRemoteService", m.error = "None"
        PROVE  Names(m.id, m.re)'
    <3>1. m.re = head.re
      BY <2>5 DEF Answer
    <3>2. CheckForRemoteService(o, head.re)
      BY <1>1, <2>5, <3>1 DEF Handle, RegisterService, SendMessage, ServiceSendMessage,
                              Unregister, GetAll, NoSuchObject
    <3>3. CheckSound'
      BY <1>3, <2>5, <3>1, <3>2, CheckLemma DEF Truthful
    <3>4. PICK p \in GetServiceById(m.id)' : IsPort(p, m.re)'
      BY <2>5, <3>3 DEF CheckSound
    <3>5. IInv'
      BY <1>2, DaemonStep, IInvStep, NoWrapAssumption DEF dVars
    <3>6. m.id \in DOMAIN service_cache' /\ p = service_cache'[m.id]
      BY <3>4 DEF GetServiceById
    <3>7. m.id <= object_conter'
      BY <3>5, <3>6 DEF IInv, Tables, CacheExact, IdsBelow
    <3> QED
      BY <3>4, <3>6, <3>7 DEF IsPort, AppOf, Names
  <2>6. TrueToCall(q)'
    <3>1. /\ IsCheck(call[q])'
          /\ q \in clients /\ call[q].re.op \in Sends => Names(call[q].re.service_id, call[q])'
          /\ q \in clients => \A m \in Message : Names(m.id, m.re) => Names(m.id, m.re)'
      <4>1. CASE q \in clients
        BY <1>1, <1>2, <1>3, <2>1, <4>1, TruthStep
      <4>2. CASE q \notin clients
        BY <1>1, <2>1, <4>2 DEF TrueToCall, IsCheck, CheckRequest
      <4> QED
        BY <4>1, <4>2
    <3>2. \A i \in Waiting(toClient[q]) : toClient[q][i].message \in Message
      <4>1. \A i \in DOMAIN toClient[q] : toClient[q][i] \in Telling
        BY <1>4
      <4> QED
        BY <4>1 DEF Waiting, Telling
    <3>3. ASSUME q \in clients, NEW i \in Waiting(toClient'[q]),
                 toClient'[q][i].message.re.op = "CheckForRemoteService",
                 toClient'[q][i].message.error = "None"
          PROVE  Names(toClient[q][i].message.id, toClient[q][i].message.re)'
      <4>1. CASE Waiting(w) # {}
        BY <2>4, <2>5, <3>3, <4>1
      <4>2. CASE Waiting(w) = {}
        <5>1. i \in Waiting(toClient[q]) /\ toClient'[q][i] = toClient[q][i]
          BY <2>2, <3>3, <4>2
        <5>2. Names(toClient[q][i].message.id, toClient[q][i].message.re)
          BY <2>1, <3>3, <5>1 DEF TrueToCall
        <5> QED
          BY <3>1, <3>2, <3>3, <5>1, <5>2
      <4> QED
        BY <4>1, <4>2
    <3> QED
      BY <1>1, <1>3, <3>1, <3>3 DEF TrueToCall
  <2> QED
    BY <2>3, <2>4, <2>6
<1>8. ASSUME ~ Joined(q), link[q] = "up" PROVE OneAnswer(q)'
  <2>1. q # o /\ w = <<>>
    BY <1>3, <1>4, <1>8 DEF Joined
  <2>2. toDaemon'[q] = toDaemon[q] /\ toClient'[q] = toClient[q] /\ call'[q] = call[q]
    BY <1>1, <1>4, <2>1, ConcatEmptySeq DEF MPTypeOK
  <2> QED
    BY <1>8, <2>2 DEF PortInv, OneAnswer, Waiting
<1> QED
  BY <1>1, <1>5, <1>6, <1>7, <1>8 DEF PortInv

\* The daemon accepts or drops a connection: the other threads.
LEMMA OthersStep ==
  ASSUME IInv, DInv, MPTypeOK, [DNext]_dVars, object_conter' = object_conter,
         NEW q \in Owner, PortInv(q), q \in clients' <=> q \in clients, q \in backlog' <=> q \in backlog,
         link'[q] = link[q], call'[q] = call[q], toDaemon'[q] = toDaemon[q], toClient'[q] = toClient[q]
  PROVE  PortInv(q)'
<1>1. LinkInv(q)' /\ (Joined(q)' <=> Joined(q))
  BY DEF PortInv, LinkInv, Joined
<1>2. OneAnswer(q) => OneAnswer(q)'
  BY DEF OneAnswer, Waiting
<1>3. TrueToCall(q) => TrueToCall(q)'
  <2>1. CASE q \notin clients
    BY <2>1 DEF TrueToCall, IsCheck, CheckRequest
  <2>2. ASSUME q \in clients, TrueToCall(q) PROVE TrueToCall(q)'
    <3>1. /\ IsCheck(call[q])'
          /\ call[q].re.op \in Sends => Names(call[q].re.service_id, call[q])'
          /\ \A m \in Message : Names(m.id, m.re) => Names(m.id, m.re)'
      BY <2>2, TruthStep
    <3>2. \A i \in DOMAIN toClient[q] : toClient[q][i] \in Telling
      <4>1. toClient[q] \in Seq(Telling)
        BY DEF MPTypeOK
      <4> QED
        BY <4>1
    <3>3. \A i \in Waiting(toClient[q]) : toClient[q][i].message \in Message
      BY <3>2 DEF Waiting, Telling
    <3>4. Waiting(toClient[q])' = Waiting(toClient[q])
      BY DEF Waiting
    <3>5. ASSUME NEW i \in Waiting(toClient[q]),
                 Names(toClient[q][i].message.id, toClient[q][i].message.re)
          PROVE  Names(toClient[q][i].message.id, toClient[q][i].message.re)'
      BY <3>1, <3>3, <3>5
    <3> QED
      BY <2>2, <3>1, <3>4, <3>5 DEF TrueToCall
  <2> QED
    BY <2>1, <2>2
<1> QED
  BY <1>1, <1>2, <1>3 DEF PortInv

\* A step of the library in thread o.
ClientStep(o) ==
  \/ Open(o) \/ Exit(o) \/ Timeout(o) \/ Broken(o) \/ Receive(o) \/ Dispatch(o)
  \/ HangUp(o) \/ Begins(o)

\* It does not touch the other threads and their connections.
LEMMA OthersLeft ==
  ASSUME MPTypeOK, NEW o \in Owner, NEW q \in Owner, q # o, ClientStep(o)
  PROVE  /\ link'[q] = link[q] /\ call'[q] = call[q]
         /\ toDaemon'[q] = toDaemon[q] /\ toClient'[q] = toClient[q]
         /\ q \in backlog' <=> q \in backlog
<1>1. toDaemon'[q] = toDaemon[q] /\ call'[q] = call[q]
  <2>1. CASE Open(o) \/ Exit(o) \/ Dispatch(o) \/ HangUp(o)
    BY <2>1 DEF Open, Exit, Dispatch, HangUp, MPTypeOK
  <2>2. CASE Begins(o)
    BY <2>2 DEF Begins, Ask, MPTypeOK
  <2>3. ASSUME NEW r, NEW s, Completes(o, r, s)
        PROVE  toDaemon'[q] = toDaemon[q] /\ call'[q] = call[q]
    BY <2>3 DEF Completes, Ask, MPTypeOK
  <2>4. CASE Timeout(o)
    BY <2>3, <2>4, CompletesLemma, ZeroLemma DEF Timeout, Failure
  <2>5. CASE Broken(o)
    BY <2>3, <2>5, CompletesLemma, ZeroLemma DEF Broken, Failure
  <2>6. CASE Receive(o)
    BY <2>3, <2>6, CompletesLemma, HeadLemma DEF Receive
  <2> QED
    BY <2>1, <2>2, <2>4, <2>5, <2>6 DEF ClientStep
<1>2. link'[q] = link[q] /\ toClient'[q] = toClient[q] /\ (q \in backlog' <=> q \in backlog)
  BY DEF ClientStep, Open, Exit, Timeout, Broken, Receive, Dispatch, HangUp, Begins, MPTypeOK
<1> QED
  BY <1>1, <1>2

LEMMA MPInvStep ==
  ASSUME IInv, DInv, MPTypeOK, MPInv, [MPNext]_mpVars
  PROVE  MPInv'
<1>0. [DNext]_dVars
  BY ComposeStep
<1>1. CASE UNCHANGED mpVars
  BY <1>1, FrameStep DEF mpVars, clientVars, dVars, MPInv
<1>2. ASSUME Elsewhere, NEW o \in Owner, NEW q \in Owner, q # o, ClientStep(o)
      PROVE  PortInv(q)'
  BY <1>2, OthersLeft, FrameStep DEF Elsewhere, MPInv
<1>3. ASSUME NEW o \in Owner, Open(o) PROVE PortInv(o)'
  <2>1. /\ link[o] = "none" /\ link'[o] \in {"up", "noproxy"}
        /\ o \notin clients /\ clients' = clients
        /\ call'[o] = NoCall /\ toDaemon'[o] = <<>> /\ toClient'[o] = <<>>
        /\ o \in backlog' => link'[o] = "up"
    BY <1>3 DEF Open, MPInv, PortInv, LinkInv, Joined, MPTypeOK, Elsewhere, smVars
  <2>2. Waiting(toDaemon[o])' = {} /\ Waiting(toClient[o])' = {}
    BY <2>1 DEF Waiting
  <2> QED
    BY <2>1, <2>2 DEF PortInv, LinkInv, Joined, OneAnswer, TrueToCall, IsCheck, NoCall, NoRequest, Sends
<1>4. ASSUME NEW o \in Owner, Exit(o) PROVE PortInv(o)'
  BY <1>4 DEF Exit, MPInv, PortInv, LinkInv, Joined, MPTypeOK, Elsewhere, smVars, NoCall, NoRequest,
              Sends
<1>5. ASSUME NEW o \in Owner, Dispatch(o) PROVE PortInv(o)'
  BY <1>5, FrameStep DEF Dispatch, Elsewhere, MPInv
<1>6. ASSUME NEW o \in Owner, HangUp(o) PROVE PortInv(o)'
  BY <1>6 DEF HangUp, MPInv, PortInv, LinkInv, Joined, MPTypeOK, Elsewhere, smVars
<1>7. ASSUME NEW o \in Owner, ClientStep(o) PROVE MPInv'
  <2>1. Elsewhere
    BY <1>7 DEF ClientStep, Open, Exit, Timeout, Broken, Receive, Dispatch, HangUp, Begins
  <2>2. PortInv(o)'
    BY <1>3, <1>4, <1>5, <1>6, <1>7, TimeoutStep, BrokenStep, ReceiveStep, BeginsStep
    DEF ClientStep, MPInv
  <2> QED
    BY <1>2, <1>7, <2>1, <2>2 DEF MPInv
<1>8. ASSUME NEW o \in Owner, Serve(o) PROVE MPInv'
  BY <1>8, ServeStep DEF MPInv
<1>9. ASSUME NEW o \in Owner, Pick(o) PROVE MPInv'
  <2>1. /\ o \in backlog /\ clients' = clients \cup {o} /\ backlog' = backlog \ {o}
        /\ object_conter' = object_conter /\ UNCHANGED <<link, call, toDaemon, toClient>>
    BY <1>9 DEF Pick, Accept, Connect
  <2>2. ASSUME NEW q \in Owner, q # o PROVE PortInv(q)'
    BY <1>0, <2>1, <2>2, OthersStep DEF MPInv
  <2>3. PortInv(o)'
    <3>1. /\ o \notin clients /\ toClient[o] = <<>> /\ call[o].re.op \notin Sends
          /\ LinkInv(o)' /\ (Joined(o)' <=> Joined(o))
      BY <2>1 DEF MPInv, PortInv, LinkInv, Joined
    <3>2. OneAnswer(o) => OneAnswer(o)'
      BY <2>1 DEF OneAnswer, Waiting
    <3>3. TrueToCall(o) => TrueToCall(o)'
      BY <2>1, <3>1 DEF TrueToCall, Waiting, IsCheck, CheckRequest
    <3> QED
      BY <2>1, <3>1, <3>2, <3>3 DEF MPInv, PortInv
  <2> QED
    BY <2>2, <2>3 DEF MPInv
<1>10. ASSUME NEW o \in Owner, Notice(o) PROVE MPInv'
  <2>1. /\ link[o] = "exited" /\ o \in clients /\ clients' = clients \ {o} /\ backlog' = backlog
        /\ object_conter' = object_conter /\ UNCHANGED <<call, toClient>>
        /\ link' = [link EXCEPT ![o] = "none"] /\ toDaemon' = [toDaemon EXCEPT ![o] = <<>>]
    BY <1>10 DEF Notice, Closed, Disconnect
  <2>2. ASSUME NEW q \in Owner, q # o PROVE PortInv(q)'
    <3>1. link'[q] = link[q] /\ toDaemon'[q] = toDaemon[q]
      BY <2>1, <2>2 DEF MPTypeOK
    <3> QED
      BY <1>0, <2>1, <2>2, <3>1, OthersStep DEF MPInv
  <2>3. PortInv(o)'
    BY <2>1 DEF MPInv, PortInv, LinkInv, Joined, MPTypeOK
  <2> QED
    BY <2>2, <2>3 DEF MPInv
<1>11. CASE DaemonDies
  <2>1. ASSUME NEW o \in Owner PROVE PortInv(o)'
    <3>1. clients' = {} /\ backlog' = {} /\ toDaemon'[o] = <<>> /\ UNCHANGED <<call, toClient>>
      BY <1>11 DEF DaemonDies, DaemonRestart, Restart
    <3>2. link'[o] = IF link[o] = "exited" THEN "none" ELSE link[o]
      BY <1>11 DEF DaemonDies
    <3>3. OneAnswer(o) => OneAnswer(o)'
      BY <3>1 DEF OneAnswer, Waiting
    <3> QED
      BY <3>1, <3>2, <3>3 DEF MPInv, PortInv, LinkInv, Joined
  <2> QED
    BY <2>1 DEF MPInv
<1>12. ASSUME NEW o \in Owner, Calls(o) PROVE MPInv'
  BY <1>7, <1>12, BeginsLemma DEF ClientStep
<1> QED
  BY <1>1, <1>7, <1>8, <1>9, <1>10, <1>11, <1>12, MPSteps DEF ClientStep

\* A message is sent under an id that leads to the port that was asked for or to no
\* port, however ports come and go, calls time out and answers come late.
THEOREM MessagesGoWhereAsked == MPSpec => []NoMisdelivery
<1>1. MPInit => MPInv
  BY MPInvInit
<1>2. (IInv /\ DInv /\ MPTypeOK) /\ MPInv /\ [MPNext]_mpVars => MPInv'
  BY MPInvStep
<1>3. (IInv /\ DInv /\ MPTypeOK) /\ MPInv => NoMisdelivery
  BY MPInvImplies
<1> QED
  BY <1>1, <1>2, <1>3, MPInvariance, PTL DEF MPSpec
=============================================================================
