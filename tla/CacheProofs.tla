----------------------------- MODULE CacheProofs -----------------------------
(***************************************************************************)
(* Theorems about what the library caches of the daemon's ports, for every *)
(* set of threads, applications and ports.                                 *)
(***************************************************************************)
EXTENDS MessagePortProofs

\* The service at path "/i" of thread o is a port with that name and trust.
PortAt(o, i, n, t) == \E p \in ServicesAt(o, i) : Matches(heap[p], n, t)

\* What a registration in progress knows: it is of an own port that was not cached.
Registration(o) ==
  call[o].re.op \in {"RegisterService", "GetAll"} =>
    /\ Cached(o, call[o].port_name, call[o].is_trusted) = {}
    /\ call[o].re.op = "RegisterService" =>
         call[o].re = [op |-> "RegisterService", port_name |-> call[o].port_name,
                       is_trusted |-> call[o].is_trusted]

\* A thread that the daemon has not accepted yet has cached nothing.
Unaccepted(o) ==
  o \in backlog \/ link[o] \in {"none", "exited"} =>
    /\ DOMAIN services[o] = {} /\ DOMAIN local_services[o] = {}
    /\ call[o].re.op # "GetAll"

\* An answer tells the truth of the ports of thread o.
AnswerTrue(o, m) ==
  m.error = "None" =>
    /\ m.re.op # "Unregister"
    /\ m.re.op = "RegisterService" => PortAt(o, m.id, m.re.port_name, m.re.is_trusted)
    /\ m.re.op = "GetAll" => m.id = m.re.from /\ PortAt(o, m.id, m.port_name, m.is_trusted)

\* What is cached under a path.
ServiceTrue(o, path) ==
  LET s == services[o][path]
  IN  /\ ServicesAt(o, path) # {}
      /\ s = NoProperties \/ (s.id = path /\ PortAt(o, path, s.port_name, s.is_trusted))

\* A local id leads to the service that has it.
LocalTrue(o, i) ==
  i # 0 /\ local_services[o][i] # Freed =>
    local_services[o][i] = i /\ i \in DOMAIN services[o] /\ services[o][i].id = i

\* All a connected thread knows of its ports, or will know.
CacheTrue(o) ==
  /\ \A path \in DOMAIN services[o] : ServiceTrue(o, path)
  /\ \A i \in DOMAIN local_services[o] : LocalTrue(o, i)
  /\ call[o].re.op = "GetAll" =>
       PortAt(o, call[o].re.from, call[o].port_name, call[o].is_trusted)
  /\ \A m \in Answers(o) : AnswerTrue(o, m)

CacheInv(o) == /\ Registration(o)
               /\ Unaccepted(o)
               /\ o \in clients /\ link[o] = "up" => CacheTrue(o)

LocalsOK == local_services = [o \in Owner |-> local_services[o]]

CachesInv == LocalsOK /\ \A o \in Owner : CacheInv(o)

LEMMA CachesInit == MPInit => CachesInv
  BY NothingLemma DEF MPInit, DInit, Init, CachesInv, LocalsOK, CacheInv, Registration, Unaccepted,
                      NoCall, NoRequest

\* The invariant is what the property needs.
LEMMA CachesImply == CachesInv /\ IInv => CachedPortsRegistered
<1> SUFFICES ASSUME CachesInv, IInv, NEW o \in clients, link[o] = "up", NEW path \in DOMAIN services[o]
             PROVE  /\ ServicesAt(o, path) # {}
                    /\ \/ services[o][path] = NoProperties
                       \/ \E p \in ServicesAt(o, path) :
                            /\ services[o][path].id = path
                            /\ Matches(heap[p], services[o][path].port_name, services[o][path].is_trusted)
  BY DEF CachedPortsRegistered
<1>1. ServiceTrue(o, path)
  BY DEF CachesInv, CacheInv, CacheTrue, IInv, Tables, TypeOK
<1> QED
  BY <1>1 DEF ServiceTrue, PortAt

-----------------------------------------------------------------------------
(* What the daemon does to the ports of a connection that stays.           *)

\* They stay, and others come under higher ids only.
LEMMA PortsStay ==
  ASSUME IInv, DInv, [DNext]_dVars, NEW o \in clients, o \in clients'
  PROVE  /\ \A p \in DOMAIN heap : heap[p].owner = o => p \in DOMAIN heap' /\ heap'[p] = heap[p]
         /\ \A p \in DOMAIN heap' : heap'[p].owner = o /\ heap'[p].id <= object_conter =>
              p \in DOMAIN heap /\ heap'[p] = heap[p]
<1> DEFINE Stay == \A p \in DOMAIN heap : heap[p].owner = o => p \in DOMAIN heap' /\ heap'[p] = heap[p]
           Old == \A p \in DOMAIN heap' : heap'[p].owner = o /\ heap'[p].id <= object_conter =>
                    p \in DOMAIN heap /\ heap'[p] = heap[p]
<1> SUFFICES Stay /\ Old
  OBVIOUS
<1>1. CASE UNCHANGED heap
  BY <1>1
<1>2. ASSUME NEW q \in Owner, Closed(q) PROVE Stay /\ Old
  <2>1. Disconnect(q)
    BY <1>2 DEF Closed
  <2>2. q # o
    BY <2>1 DEF Disconnect
  <2> QED
    BY <2>1, <2>2, DisconnectLemma, NoWrapAssumption
<1>3. ASSUME NEW q \in Owner, NEW n \in Name, NEW t \in BOOLEAN, RegisterNew(q, n, t)
      PROVE  Stay /\ Old
  <2>1. PICK p \in Addr \ DOMAIN heap : AddsService(q, n, t, p)
    BY <1>3, RegisterNewLemma, NoWrapAssumption
  <2>2. object_conter \in Nat
    BY DEF IInv, Tables, TypeOK, Id
  <2> QED
    BY <2>1, <2>2 DEF AddsService
<1>4. ASSUME NEW q \in Owner, NEW re \in Request, Handle(q, re) PROVE Stay /\ Old
  <2>1. re.op = "RegisterService" => re.is_trusted \in BOOLEAN
    BY DEF Request
  <2> HIDE DEF Stay, Old
  <2> QED
    BY <1>1, <1>3, <1>4, <2>1
    DEF Handle, RegisterService, RegisterFound, CheckForRemoteService, SendMessage,
        ServiceSendMessage, Unregister, GetAll, NoSuchObject, smVars
<1>5. ~ DaemonRestart
  BY DEF DaemonRestart, Restart
<1> QED
  BY <1>1, <1>2, <1>4, <1>5 DEF DNext, Accept, Connect, Elsewhere, dVars, smVars

\* What is true of them stays true.
LEMMA PortAtStays ==
  ASSUME IInv, DInv, [DNext]_dVars, NEW o \in clients, o \in clients', NEW i
  PROVE  /\ ServicesAt(o, i) # {} => ServicesAt(o, i)' # {}
         /\ \A n, t : PortAt(o, i, n, t) => PortAt(o, i, n, t)'
  BY PortsStay DEF ServicesAt, PortAt, Matches

\* What a handler answers is true.
LEMMA HandleTrue ==
  ASSUME IInv, NEW o \in clients, NEW re \in Request, Handle(o, re),
         NEW r \in Answer(o, re) \cap Outputs("Reply")'
  PROVE  AnswerTrue(o, r)'
<1>0. o \in Owner
  BY DEF IInv, Tables, TypeOK
<1>1. r.re = re
  BY DEF Answer
<1>2. \A x : out' = <<x>> => r = x
  BY DEF Outputs
<1>3. CASE RegisterService(o, re)
  <2>1. re.op = "RegisterService"
    BY <1>3 DEF RegisterService
  <2>2. ASSUME NEW found \in GetService(o, re.port_name, re.is_trusted), NEW p \in found,
               UNCHANGED smVars, r.id = heap[p].id
        PROVE  PortAt(o, r.id, re.port_name, re.is_trusted)'
    <3>1. p \in Services(o) /\ Matches(heap[p], re.port_name, re.is_trusted)
      BY <1>0, <2>2 DEF GetService, CanWalk, IInv, ListsExact
    <3>2. p \in ServicesAt(o, r.id)
      BY <1>0, <2>2, <3>1 DEF IInv, ListsExact, ServicesAt
    <3> QED
      BY <2>2, <3>1, <3>2 DEF PortAt, ServicesAt, smVars, Matches
  <2>3. ASSUME re.port_name \in Name, RegisterNew(o, re.port_name, re.is_trusted), r.id = NextId
        PROVE  PortAt(o, r.id, re.port_name, re.is_trusted)'
    <3>1. o \in Owner /\ re.is_trusted \in BOOLEAN /\ object_conter < MaxCounter
      BY <2>1, <2>3 DEF Request, IInv, Tables, TypeOK, RegisterNew, CanCreate
    <3>2. PICK p \in Addr \ DOMAIN heap : AddsService(o, re.port_name, re.is_trusted, p)
      BY <2>3, <3>1, RegisterNewLemma, NoWrapAssumption
    <3>3. NextId = object_conter + 1
      BY <3>1, NewIdLemma, NoWrapAssumption
    <3> QED
      BY <2>3, <3>2, <3>3 DEF AddsService, PortAt, ServicesAt, Matches
  <2>4. r.error = "None" => PortAt(o, r.id, re.port_name, re.is_trusted)'
    <3> DEFINE Goal == r.error = "None" => PortAt(o, r.id, re.port_name, re.is_trusted)'
    <3>1. \A e, i : out' = <<Reply(o, re, e, i)>> => r.error = e /\ r.id = i
      BY <1>2 DEF Reply
    <3>2. ASSUME out' = <<Reply(o, re, "InvalidParams", 0)>> PROVE Goal
      BY <3>1, <3>2
    <3>3. ASSUME RegisterFound(o, re.port_name, re.is_trusted),
                 NEW found \in GetService(o, re.port_name, re.is_trusted), NEW p \in found,
                 out' = <<Reply(o, re, "None", heap[p].id)>>
          PROVE  Goal
      BY <2>2, <3>1, <3>3 DEF RegisterFound
    <3>4. ASSUME re.port_name \in Name, RegisterNew(o, re.port_name, re.is_trusted),
                 out' = <<Reply(o, re, "None", NextId)>>
          PROVE  Goal
      BY <2>3, <3>1, <3>4
    <3> HIDE DEF Goal
    <3> SUFFICES Goal
      BY DEF Goal
    <3> QED
      BY <1>3, <3>2, <3>3, <3>4 DEF RegisterService
  <2> QED
    BY <1>1, <2>1, <2>4 DEF AnswerTrue, PortAt
<1>4. CASE GetAll(o, re)
  <2>1. PICK p \in ServicesAt(o, re.from) : out' = <<Properties(o, re, p)>>
    BY <1>4 DEF GetAll
  <2>2. r = Properties(o, re, p)
    BY <1>2, <2>1
  <2>3. UNCHANGED smVars /\ re.op = "GetAll"
    BY <1>4 DEF GetAll
  <2>4. r.id = re.from /\ r.port_name = heap[p].port_name /\ r.is_trusted = heap[p].is_trusted
    BY <2>1, <2>2 DEF Properties, ServicesAt
  <2>5. PortAt(o, r.id, r.port_name, r.is_trusted)'
    BY <2>1, <2>3, <2>4 DEF PortAt, ServicesAt, Matches, smVars
  <2> QED
    BY <1>1, <2>3, <2>4, <2>5 DEF AnswerTrue, PortAt
<1>5. CASE NoSuchObject(o, re) \/ Unregister(o, re)
  <2>1. r.error # "None"
    BY <1>2, <1>5 DEF NoSuchObject, Unregister, Reply, Outputs
  <2> QED
    BY <2>1 DEF AnswerTrue
<1>6. CASE re.op \notin {"RegisterService", "GetAll", "Unregister"}
  BY <1>1, <1>6 DEF AnswerTrue
<1> QED
  BY <1>3, <1>4, <1>5, <1>6 DEF Handle, CheckForRemoteService, SendMessage, ServiceSendMessage

-----------------------------------------------------------------------------
(* The invariant is kept, thread by thread.                                *)

\* A step that leaves a thread its call and its cache, and answers it the truth.
LEMMA CacheStays ==
  ASSUME IInv, DInv, [DNext]_dVars, NEW o \in Owner, CacheInv(o),
         o \in clients' => o \in clients, o \in backlog' => o \in backlog,
         link'[o] = link[o] \/ link'[o] = "down",
         services'[o] = services[o], local_services'[o] = local_services[o], call'[o] = call[o],
         o \in clients' /\ link[o] = "up" => \A m \in Answers(o)' : m \in Answers(o) \/ AnswerTrue(o, m)'
  PROVE  CacheInv(o)'
<1>1. Registration(o)' /\ Unaccepted(o)'
  BY DEF CacheInv, Registration, Unaccepted, Cached
<1>2. ASSUME o \in clients', link'[o] = "up" PROVE CacheTrue(o)'
  <2>1. o \in clients /\ link[o] = "up" /\ CacheTrue(o)
    BY <1>2 DEF CacheInv
  <2>2. ASSUME NEW path \in DOMAIN services[o] PROVE ServiceTrue(o, path)'
    <3>1. ServiceTrue(o, path)
      BY <2>1 DEF CacheTrue
    <3>2. /\ ServicesAt(o, path) # {} => ServicesAt(o, path)' # {}
          /\ \A n, t : PortAt(o, path, n, t) => PortAt(o, path, n, t)'
      BY <1>2, <2>1, PortAtStays
    <3> QED
      BY <3>1, <3>2 DEF ServiceTrue
  <2>3. \A i \in DOMAIN local_services[o] : LocalTrue(o, i)'
    BY <2>1 DEF CacheTrue, LocalTrue
  <2>4. ASSUME call[o].re.op = "GetAll"
        PROVE  PortAt(o, call[o].re.from, call[o].port_name, call[o].is_trusted)'
    <3>1. PortAt(o, call[o].re.from, call[o].port_name, call[o].is_trusted)
      BY <2>1, <2>4 DEF CacheTrue
    <3>2. \A n, t : PortAt(o, call[o].re.from, n, t) => PortAt(o, call[o].re.from, n, t)'
      BY <1>2, <2>1, PortAtStays
    <3> QED
      BY <3>1, <3>2 DEF PortAt
  <2>5. ASSUME NEW m \in Answers(o), AnswerTrue(o, m) PROVE AnswerTrue(o, m)'
    <3>1. \A n, t : PortAt(o, m.id, n, t) => PortAt(o, m.id, n, t)'
      BY <1>2, <2>1, PortAtStays
    <3> QED
      BY <2>5, <3>1 DEF AnswerTrue
  <2> QED
    BY <1>2, <2>1, <2>2, <2>3, <2>4, <2>5 DEF CacheTrue
<1> QED
  BY <1>1, <1>2 DEF CacheInv

\* The answers left when the first message of a queue is read.
LEMMA AnswersTail ==
  ASSUME MPTypeOK, NEW o \in Owner, toClient[o] # <<>>, toClient'[o] = Tail(toClient[o])
  PROVE  Answers(o)' \subseteq Answers(o)
<1>1. toClient[o] \in Seq(Telling)
  BY DEF MPTypeOK
<1>2. \A i \in Waiting(Tail(toClient[o])) :
        i + 1 \in Waiting(toClient[o]) /\ Tail(toClient[o])[i] = toClient[o][i + 1]
  BY <1>1, TailLemma
<1>3. Answers(o)' = {toClient'[o][i].message : i \in Waiting(toClient'[o])}
  BY DEF Answers, Waiting
<1> QED
  BY <1>2, <1>3 DEF Answers

\* The one answer there can be, when it is read.
LEMMA HeadAnswer ==
  ASSUME MPTypeOK, NEW o \in Owner, OneAnswer(o), toClient[o] # <<>>, Head(toClient[o]).waiting,
         toClient'[o] = Tail(toClient[o])
  PROVE  /\ Head(toClient[o]).message \in Answers(o)
         /\ Head(toClient[o]).message.re = call[o].re
         /\ Answers(o)' = {}
<1>1. toClient[o] \in Seq(Telling)
  BY DEF MPTypeOK
<1>2. 1 \in Waiting(toClient[o]) /\ toClient[o][1] = Head(toClient[o]) /\ Waiting(Tail(toClient[o])) = {}
  BY <1>1, TailLemma DEF OneAnswer
<1> QED
  BY <1>2 DEF Answers, OneAnswer

\* A handler runs.
LEMMA ServeCache ==
  ASSUME IInv, DInv, MPTypeOK, NEW o \in Owner, Serve(o), NEW q \in Owner, CacheInv(q)
  PROVE  CacheInv(q)'
<1> DEFINE head == Head(toDaemon[o])
           w == Written(q, head.waiting)
<1>1. /\ head.re \in Request /\ head.waiting \in BOOLEAN /\ Handle(o, head.re)
      /\ UNCHANGED <<link, backlog, services, local_services, call>>
      /\ toClient'[q] = IF link[q] = "up" THEN toClient[q] \o w ELSE toClient[q]
  BY HeadLemma DEF Serve, MPTypeOK
<1>2. [DNext]_dVars /\ o \in clients /\ clients' = clients /\ Writes(o, head.re)
  BY <1>1, HandleCounts, HandleWrites DEF DNext
<1>3. /\ \A i \in Waiting(w) : q = o /\ w[i].message \in Answer(o, head.re) \cap Outputs("Reply")'
      /\ w \in Seq(Telling) /\ toClient[q] \in Seq(Telling)
  BY <1>1, <1>2, WrittenWaiting, WrittenType DEF MPTypeOK
<1> HIDE DEF w
<1>4. ASSUME NEW m \in Answers(q)' PROVE m \in Answers(q) \/ AnswerTrue(q, m)'
  <2>1. PICK i \in Waiting(toClient'[q]) : m = toClient'[q][i].message
    BY DEF Answers
  <2>2. CASE toClient'[q] = toClient[q]
    BY <2>1, <2>2 DEF Answers
  <2>3. CASE toClient'[q] = toClient[q] \o w
    <3>1. \/ i \in Waiting(toClient[q]) /\ toClient'[q][i] = toClient[q][i]
          \/ i - Len(toClient[q]) \in Waiting(w) /\ toClient'[q][i] = w[i - Len(toClient[q])]
      <4> DEFINE s == toClient[q]
      <4>1. \A j \in Waiting(s \o w) : \/ j \in Waiting(s) /\ (s \o w)[j] = s[j]
                                       \/ j - Len(s) \in Waiting(w) /\ (s \o w)[j] = w[j - Len(s)]
        BY <1>3, ConcatWaiting
      <4> HIDE DEF s
      <4>2. s = toClient[q] /\ toClient'[q] = s \o w
        BY <2>3 DEF s
      <4> QED
        BY <2>1, <4>1, <4>2
    <3>2. CASE i \in Waiting(toClient[q]) /\ toClient'[q][i] = toClient[q][i]
      BY <2>1, <3>2 DEF Answers
    <3>3. CASE i - Len(toClient[q]) \in Waiting(w) /\ toClient'[q][i] = w[i - Len(toClient[q])]
      BY <1>1, <1>2, <1>3, <2>1, <3>3, HandleTrue
    <3> QED
      BY <3>1, <3>2, <3>3
  <2> QED
    BY <1>1, <2>2, <2>3
<1> QED
  BY <1>1, <1>2, <1>4, CacheStays

\* The call a thread makes when it registers a port that it has not cached.
Registers(o, c) ==
  /\ c.re.op = "RegisterService"
  /\ Cached(o, c.port_name, c.is_trusted) = {}
  /\ c.re = [op |-> "RegisterService", port_name |-> c.port_name, is_trusted |-> c.is_trusted]

\* A call forgets local ids at most, and registers only what is not cached.
LEMMA CallsCache ==
  ASSUME MPTypeOK, LocalsOK, NEW o \in Owner, Calls(o)
  PROVE  /\ LocalsOK'
         /\ \A q \in Owner \ {o} : local_services'[q] = local_services[q]
         /\ \A i \in DOMAIN local_services'[o] :
              i \in DOMAIN local_services[o] /\ local_services'[o][i] = local_services[o][i]
         /\ call'[o].re.op \notin {"RegisterService", "GetAll"} \/ Registers(o, call'[o])
<1> USE DEF ReturnNow, Return
<1> DEFINE Local == \/ UNCHANGED local_services
                    \/ \E i : local_services' = [local_services EXCEPT ![o] = Drop(@, {i})]
           Asks == call'[o].re.op \notin {"RegisterService", "GetAll"} \/ Registers(o, call'[o])
<1>0. ASSUME NEW c, call' = [call EXCEPT ![o] = c] PROVE call'[o] = c
  BY <1>0 DEF MPTypeOK
<1>1. \A c, error, id : ReturnNow(o, c, error, id) => Asks
  <2>1. call' = [call EXCEPT ![o] = NoCall] => call'[o] = NoCall
    BY DEF MPTypeOK
  <2>2. NoCall.re.op = "None"
    BY DEF NoCall, NoRequest
  <2> QED
    BY <2>1, <2>2
<1>2. ASSUME NEW c, NEW q, Ask(o, c, q), c.re.op \notin {"RegisterService", "GetAll"} PROVE Asks
  <2>1. call'[o] = c
    BY <1>0, <1>2 DEF Ask
  <2> QED
    BY <1>2, <2>1
<1>3. \A c : NoProxy(o, c) => Asks
  BY <1>1 DEF NoProxy
<1>4. \A c : NoLocalPort(o, c) => Asks /\ Local
  BY <1>1 DEF NoLocalPort
<1>5. ASSUME NEW n \in CallName, NEW t \in BOOLEAN, RegisterPort(o, n, t) PROVE Local /\ Asks
  <2> DEFINE re == [op |-> "RegisterService", port_name |-> n, is_trusted |-> t]
             c == Call("register", ThreadApp[o], n, t, 0, 0, re)
  <2>1. Cached(o, n, t) = {} => Registers(o, c)
    BY DEF Registers, Call
  <2>2. Ask(o, c, toDaemon[o]) => call'[o] = c
    BY <1>0 DEF Ask
  <2> HIDE DEF c
  <2> QED
    BY <1>1, <1>3, <1>5, <2>1, <2>2 DEF RegisterPort, c
<1>6. ASSUME NEW id \in Id, NEW t \in BOOLEAN, UnregisterPort(o, id, t) PROVE Local /\ Asks
  <2> DEFINE c(path) == Call("unregister", ThreadApp[o], "", t, id, path,
                             [op |-> "Unregister", from |-> path])
  <2>1. \A path : c(path).re.op \notin {"RegisterService", "GetAll"}
    BY DEF Call
  <2> HIDE DEF c, Asks, Local
  <2>2. UNCHANGED local_services => Local
    BY DEF Local
  <2> QED
    BY <1>1, <1>2, <1>3, <1>4, <1>6, <2>1, <2>2 DEF UnregisterPort, c
<1>7. ASSUME NEW id \in Id, ReadLocalPort(o, id) PROVE Local /\ Asks
  <2> HIDE DEF Asks, Local
  <2>1. UNCHANGED local_services => Local
    BY DEF Local
  <2> QED
    BY <1>1, <1>3, <1>4, <1>7, <2>1 DEF ReadLocalPort
<1>8. ASSUME NEW a \in Peer, NEW n \in CallName, NEW t \in BOOLEAN, NEW api, CheckFirst(o, api, a, n, t)
      PROVE  Local /\ Asks
  <2>1. Call(api, a, n, t, 0, 0, CheckRequest(a, n, t)).re.op \notin {"RegisterService", "GetAll"}
    BY DEF Call, CheckRequest
  <2> HIDE DEF Asks
  <2> QED
    BY <1>2, <1>3, <1>8, <2>1 DEF CheckFirst
<1>9. ASSUME NEW a \in Peer, NEW n \in CallName, NEW t \in BOOLEAN, NEW id \in Id,
             SendBidirectional(o, id, a, n, t)
      PROVE  Local /\ Asks
  <2> DEFINE c(path) == Call("bidirectional", a, n, t, id, path, CheckRequest(a, n, t))
  <2>1. \A path : c(path).re.op \notin {"RegisterService", "GetAll"}
    BY DEF Call, CheckRequest
  <2> HIDE DEF c, Asks, Local
  <2>2. UNCHANGED local_services => Local
    BY DEF Local
  <2> QED
    BY <1>1, <1>2, <1>3, <1>4, <1>9, <2>1, <2>2 DEF SendBidirectional, c
<1>10. Local /\ Asks
  <2> HIDE DEF Local, Asks
  <2> QED
    BY <1>5, <1>6, <1>7, <1>8, <1>9 DEF Calls, CheckRemotePort, SendPortMessage
<1>11. Local => /\ LocalsOK'
                /\ \A q \in Owner \ {o} : local_services'[q] = local_services[q]
                /\ \A i \in DOMAIN local_services'[o] :
                     i \in DOMAIN local_services[o] /\ local_services'[o][i] = local_services[o][i]
  BY DEF LocalsOK, Drop, Restrict
<1> QED
  BY <1>10, <1>11

\* At one path there is one port at most.
LEMMA OnePort ==
  ASSUME IInv, NEW o, NEW i, NEW p \in ServicesAt(o, i), NEW q \in ServicesAt(o, i)
  PROVE  p = q
  BY DEF ServicesAt, IInv, Tables, CacheExact

\* A proxy is only ever created again because the properties were missing.
LEMMA ReplacedLemma ==
  ASSUME IInv, NEW o \in clients, Registration(o), CacheTrue(o), call[o].re.op = "GetAll",
         call[o].re.from \in DOMAIN services[o]
  PROVE  services[o][call[o].re.from] = NoProperties
<1> DEFINE path == call[o].re.from
           s == services[o][path]
<1> SUFFICES ASSUME s # NoProperties PROVE FALSE
  OBVIOUS
<1>1. PortAt(o, path, s.port_name, s.is_trusted)
  BY DEF CacheTrue, ServiceTrue
<1>2. PortAt(o, path, call[o].port_name, call[o].is_trusted)
  BY DEF CacheTrue
<1>3. Matches(s, call[o].port_name, call[o].is_trusted)
  BY <1>1, <1>2, OnePort DEF PortAt, Matches
<1>4. path \in Cached(o, call[o].port_name, call[o].is_trusted)
  BY <1>3 DEF Cached
<1> QED
  BY <1>4 DEF Registration

\* What an end of a D-Bus call needs to keep the caches true.
Ends(o, r) ==
  /\ Elsewhere /\ UNCHANGED <<link, backlog>> /\ link[o] \in {"up", "down"}
  /\ r.error = "None" => r.re = call[o].re /\ o \notin backlog
  /\ o \in clients /\ link[o] = "up" => AnswerTrue(o, r) /\ Answers(o)' = {}

\* A D-Bus call ends that has nothing to do with registering or unregistering.
LEMMA SameCache ==
  ASSUME MPTypeOK, NEW o \in Owner, CacheInv(o), NEW r, Ends(o, r),
         UNCHANGED <<services, local_services>>,
         call'[o].re.op \notin {"RegisterService", "GetAll"}
  PROVE  CacheInv(o)'
<1>1. Registration(o)' /\ Unaccepted(o)'
  BY DEF CacheInv, Registration, Unaccepted, Ends
<1>2. ASSUME o \in clients, link[o] = "up", CacheTrue(o) PROVE CacheTrue(o)'
  <2>1. Answers(o)' = {}
    BY <1>2 DEF Ends
  <2>2. \A path \in DOMAIN services[o] : ServiceTrue(o, path)'
    BY <1>2 DEF CacheTrue, ServiceTrue, ServicesAt, PortAt, Matches, Ends, Elsewhere, smVars
  <2>3. \A i \in DOMAIN local_services[o] : LocalTrue(o, i)'
    BY <1>2 DEF CacheTrue, LocalTrue
  <2> QED
    BY <1>2, <2>1, <2>2, <2>3 DEF CacheTrue
<1> QED
  BY <1>1, <1>2 DEF CacheInv, Ends, Elsewhere, smVars

LEMMA RegisterCache ==
  ASSUME MPTypeOK, NEW o \in Owner, CacheInv(o), NEW r, NEW q, Ends(o, r), RegisterAnswered(o, r, q)
  PROVE  CacheInv(o)'
<1>1. CASE ReturnAfter(o, r, q, ErrorOf(r.error), 0)
  <2>1. call'[o] = NoCall
    BY <1>1 DEF ReturnAfter, Return, MPTypeOK
  <2>2. NoCall.re.op = "None"
    BY DEF NoCall, NoRequest
  <2> QED
    BY <2>1, <2>2, SameCache DEF RegisterAnswered
<1>2. CASE r.error = "None" /\ Proceed(o, q, [op |-> "GetAll", from |-> r.id])
  <2> DEFINE re == [op |-> "GetAll", from |-> r.id]
  <2>0. call[o].re.op = "RegisterService"
    BY DEF RegisterAnswered
  <2>1. call[o] \in OpenCall /\ call'[o] = [call[o] EXCEPT !.re = re]
    BY <1>2, <2>0 DEF MPTypeOK, Proceed, Ask, NoCall, NoRequest
  <2>2. /\ call'[o].re = re /\ call'[o].app_id = call[o].app_id
        /\ call'[o].port_name = call[o].port_name /\ call'[o].is_trusted = call[o].is_trusted
    BY <2>1 DEF OpenCall
  <2>3. re.op = "GetAll" /\ re.from = r.id
    OBVIOUS
  <2> HIDE DEF re
  <2>4. Registration(o)' /\ Unaccepted(o)'
    BY <1>2, <2>0, <2>2, <2>3
    DEF CacheInv, Registration, Unaccepted, Ends, RegisterAnswered, Cached
  <2>5. ASSUME o \in clients, link[o] = "up", CacheTrue(o) PROVE CacheTrue(o)'
    <3>1. Answers(o)' = {}
      BY <2>5 DEF Ends
    <3>2. \A path \in DOMAIN services[o] : ServiceTrue(o, path)'
      BY <2>5 DEF CacheTrue, ServiceTrue, ServicesAt, PortAt, Matches, Ends, Elsewhere, smVars,
                  RegisterAnswered
    <3>3. \A i \in DOMAIN local_services[o] : LocalTrue(o, i)'
      BY <2>5 DEF CacheTrue, LocalTrue, RegisterAnswered
    <3>4. PortAt(o, r.id, call[o].port_name, call[o].is_trusted)
      <4>1. r.re = call[o].re /\ AnswerTrue(o, r)
        BY <1>2, <2>5 DEF Ends
      <4>2. call[o].re.port_name = call[o].port_name /\ call[o].re.is_trusted = call[o].is_trusted
        BY <2>0 DEF CacheInv, Registration
      <4> QED
        BY <1>2, <2>0, <4>1, <4>2 DEF AnswerTrue
    <3>5. PortAt(o, r.id, call[o].port_name, call[o].is_trusted)'
      BY <2>2, <3>4 DEF PortAt, ServicesAt, Matches, Ends, Elsewhere, smVars
    <3> QED
      BY <2>2, <2>3, <2>5, <3>1, <3>2, <3>3, <3>5 DEF CacheTrue, RegisterAnswered
  <2> QED
    BY <2>4, <2>5 DEF CacheInv, Ends, Elsewhere, smVars
<1> QED
  BY <1>1, <1>2 DEF RegisterAnswered

\* Ids of ports start at 1.
LEMMA NoPortZero ==
  ASSUME IInv, NEW o
  PROVE  ServicesAt(o, 0) = {}
  BY DEF ServicesAt, IInv, IdsBelow

LEMMA ProxyCache ==
  ASSUME IInv, MPTypeOK, LocalsOK, NEW o \in Owner, CacheInv(o), NEW r, NEW q, Ends(o, r),
         ProxyCreated(o, r, q)
  PROVE  CacheInv(o)'
<1> DEFINE path == call[o].re.from
           service == IF r.error = "None"
                      THEN [id |-> r.id, port_name |-> r.port_name, is_trusted |-> r.is_trusted]
                      ELSE NoProperties
           key == IF path \in DOMAIN services[o] THEN Freed ELSE path
<1>1. /\ call[o].re.op = "GetAll"
      /\ services'[o] = Put(services[o], path, service)
      /\ local_services'[o] = Put(local_services[o], service.id, key)
      /\ call'[o] = NoCall
  BY DEF ProxyCreated, ReturnAfter, Return, MPTypeOK, PathsOK, LocalsOK
<1>2. NoCall.re.op = "None"
  BY DEF NoCall, NoRequest
<1>3. Registration(o)' /\ Unaccepted(o)'
  BY <1>1, <1>2 DEF CacheInv, Registration, Unaccepted, Ends
<1>4. ASSUME o \in clients, link[o] = "up", CacheTrue(o) PROVE CacheTrue(o)'
  <2>1. Answers(o)' = {}
    BY <1>4 DEF Ends
  <2>2. \A i : /\ ServicesAt(o, i)' = ServicesAt(o, i)
               /\ \A n, t : PortAt(o, i, n, t)' = PortAt(o, i, n, t)
    BY DEF PortAt, ServicesAt, Matches, Ends, Elsewhere, smVars
  <2>3. r.error = "None" => /\ r.id = path
                            /\ PortAt(o, path, r.port_name, r.is_trusted)
    BY <1>1, <1>4 DEF Ends, AnswerTrue
  <2>4. ServicesAt(o, path) # {}
    BY <1>1, <1>4 DEF CacheTrue, PortAt
  <2>5. path \in DOMAIN services[o] => services[o][path] = NoProperties
    BY <1>1, <1>4, ReplacedLemma DEF CacheInv
  <2>6. path # 0
    BY <2>4, NoPortZero
  <2>7. service.id = IF r.error = "None" THEN path ELSE 0
    BY <2>3 DEF NoProperties
  <2> HIDE DEF key
  <2>8. ASSUME NEW k \in DOMAIN services'[o] PROVE ServiceTrue(o, k)'
    <3>1. CASE k = path
      <4>1. services'[o][k] = service
        BY <1>1, <3>1 DEF Put
      <4>2. service = NoProperties \/ (service.id = path /\ PortAt(o, path, service.port_name, service.is_trusted))
        BY <2>3
      <4> HIDE DEF service, path
      <4> QED
        BY <2>2, <2>4, <3>1, <4>1, <4>2 DEF ServiceTrue
    <3>2. CASE k # path
      <4>1. k \in DOMAIN services[o] /\ services'[o][k] = services[o][k]
        BY <1>1, <2>8, <3>2 DEF Put
      <4> QED
        BY <1>4, <2>2, <4>1 DEF CacheTrue, ServiceTrue
    <3> QED
      BY <3>1, <3>2
  <2>9. ASSUME NEW i \in DOMAIN local_services'[o] PROVE LocalTrue(o, i)'
    <3> SUFFICES ASSUME i # 0, local_services'[o][i] # Freed
                 PROVE  local_services'[o][i] = i /\ i \in DOMAIN services'[o] /\ services'[o][i].id = i
      BY DEF LocalTrue
    <3>1. CASE i = service.id
      <4>1. i = path /\ key = path /\ local_services'[o][i] = key
        BY <1>1, <2>7, <3>1 DEF Put, key
      <4>2. i \in DOMAIN services'[o] /\ services'[o][i] = service
        BY <1>1, <4>1 DEF Put
      <4> QED
        BY <3>1, <4>1, <4>2
    <3>2. CASE i # service.id
      <4>1. i \in DOMAIN local_services[o] /\ local_services'[o][i] = local_services[o][i]
        BY <1>1, <2>9, <3>2 DEF Put
      <4>2. local_services[o][i] = i /\ i \in DOMAIN services[o] /\ services[o][i].id = i
        BY <1>4, <4>1 DEF CacheTrue, LocalTrue
      <4>3. i # path
        BY <2>5, <2>6, <4>2 DEF NoProperties
      <4> QED
        BY <1>1, <4>1, <4>2, <4>3 DEF Put
    <3> QED
      BY <3>1, <3>2
  <2> QED
    BY <1>1, <1>2, <1>4, <2>1, <2>8, <2>9 DEF CacheTrue
<1> QED
  BY <1>3, <1>4 DEF CacheInv, Ends, Elsewhere, smVars

\* Whichever call ends.
LEMMA CompleteCache ==
  ASSUME IInv, MPTypeOK, LocalsOK, NEW o \in Owner, CacheInv(o), NEW r, NEW q, Ends(o, r),
         Complete(o, r, q)
  PROVE  /\ CacheInv(o)' /\ LocalsOK'
         /\ \A p \in Owner \ {o} : services'[p] = services[p] /\ local_services'[p] = local_services[p]
<1>1. /\ LocalsOK'
      /\ \A p \in Owner \ {o} : services'[p] = services[p] /\ local_services'[p] = local_services[p]
  BY DEF Complete, RegisterAnswered, ProxyCreated, UnregisterAnswered, CheckAnswered, SendAnswered,
         LocalsOK, MPTypeOK, PathsOK
<1> SUFFICES CacheInv(o)'
  BY <1>1
<1>2. ASSUME NEW error, NEW id, ReturnAfter(o, r, q, error, id)
      PROVE  call'[o].re.op \notin {"RegisterService", "GetAll"}
  <2>1. call'[o] = NoCall
    BY <1>2 DEF ReturnAfter, Return, MPTypeOK
  <2> QED
    BY <2>1 DEF NoCall, NoRequest
<1>3. CASE RegisterAnswered(o, r, q)
  BY <1>3, RegisterCache
<1>4. CASE ProxyCreated(o, r, q)
  BY <1>4, ProxyCache
<1>5. CASE UnregisterAnswered(o, r, q) /\ r.error # "None"
  BY <1>2, <1>5, SameCache DEF UnregisterAnswered
<1>6. CASE UnregisterAnswered(o, r, q) /\ r.error = "None"
  <2>1. o \in clients => link[o] # "up"
    BY <1>6 DEF Ends, AnswerTrue, UnregisterAnswered
  <2>2. call'[o].re.op \notin {"RegisterService", "GetAll"}
    BY <1>2, <1>6 DEF UnregisterAnswered
  <2> QED
    BY <1>6, <2>1, <2>2 DEF CacheInv, Registration, Unaccepted, Ends, Elsewhere, smVars
<1>7. CASE CheckAnswered(o, r, q)
  <2>1. ASSUME NEW re, Proceed(o, q, re), re.op \in Sends
        PROVE  call'[o].re.op \notin {"RegisterService", "GetAll"}
    <3>1. call[o] \in OpenCall
      BY <1>7 DEF MPTypeOK, CheckAnswered, NoCall, NoRequest
    <3>2. call'[o] = [call[o] EXCEPT !.re = re]
      BY <2>1 DEF Proceed, Ask, MPTypeOK
    <3>3. call'[o].re = re
      BY <3>1, <3>2 DEF OpenCall
    <3> QED
      BY <2>1, <3>3 DEF Sends
  <2>2. call'[o].re.op \notin {"RegisterService", "GetAll"}
    BY <1>2, <1>7, <2>1 DEF CheckAnswered, Sends
  <2> QED
    BY <1>7, <2>2, SameCache DEF CheckAnswered
<1>8. CASE SendAnswered(o, r, q)
  BY <1>2, <1>8, SameCache DEF SendAnswered
<1> QED
  BY <1>3, <1>4, <1>5, <1>6, <1>7, <1>8 DEF Complete

\* A call of the library begins.
LEMMA CallsKeep ==
  ASSUME MPTypeOK, LocalsOK, NEW o \in Owner, CacheInv(o), Calls(o)
  PROVE  CacheInv(o)'
<1>1. /\ Elsewhere /\ UNCHANGED <<link, backlog, services, toClient>>
      /\ link[o] \in {"up", "down", "noproxy"}
  BY BeginsLemma DEF Begins
<1>2. /\ \A i \in DOMAIN local_services'[o] :
           i \in DOMAIN local_services[o] /\ local_services'[o][i] = local_services[o][i]
      /\ call'[o].re.op \notin {"RegisterService", "GetAll"} \/ Registers(o, call'[o])
  BY CallsCache
<1>3. call'[o].re.op # "GetAll"
  BY <1>2 DEF Registers
<1>4. Registration(o)' /\ Unaccepted(o)'
  BY <1>1, <1>2, <1>3 DEF CacheInv, Registration, Unaccepted, Registers, Cached
<1>5. ASSUME o \in clients, link[o] = "up", CacheTrue(o) PROVE CacheTrue(o)'
  <2>1. Answers(o)' = Answers(o)
    BY <1>1 DEF Answers, Waiting
  <2>2. \A path \in DOMAIN services[o] : ServiceTrue(o, path)'
    BY <1>1, <1>5 DEF CacheTrue, ServiceTrue, ServicesAt, PortAt, Matches, Elsewhere, smVars
  <2>3. \A i \in DOMAIN local_services'[o] : LocalTrue(o, i)'
    BY <1>1, <1>2, <1>5 DEF CacheTrue, LocalTrue
  <2>4. \A m \in Answers(o) : AnswerTrue(o, m)'
    BY <1>1, <1>5 DEF CacheTrue, AnswerTrue, ServicesAt, PortAt, Matches, Elsewhere, smVars
  <2> QED
    BY <1>1, <1>3, <1>5, <2>1, <2>2, <2>3, <2>4 DEF CacheTrue
<1> QED
  BY <1>1, <1>4, <1>5 DEF CacheInv, Elsewhere, smVars

\* A thread waits for an answer no longer.
LEMMA TimeoutKeeps ==
  ASSUME IInv, MPTypeOK, LocalsOK, NEW o \in Owner, CacheInv(o), Timeout(o) \/ Broken(o)
  PROVE  /\ CacheInv(o)' /\ LocalsOK'
         /\ \A p \in Owner \ {o} : services'[p] = services[p] /\ local_services'[p] = local_services[p]
<1>1. ASSUME NEW e \in {"Timeout", "Closed"}
      PROVE  Failure(e).error # "None" /\ \A p : AnswerTrue(p, Failure(e))
  BY DEF Failure, AnswerTrue
<1>2. CASE Timeout(o)
  <2>1. Answers(o)' = {}
    <3>1. toClient'[o] = Abandon(toClient[o])
      BY <1>2 DEF Timeout, MPTypeOK
    <3>2. Waiting(toClient'[o]) = {}
      BY <3>1, AbandonType DEF Waiting
    <3> QED
      BY <3>2 DEF Answers, Waiting
  <2>2. Ends(o, Failure("Timeout"))
    BY <1>1, <1>2, <2>1 DEF Ends, Timeout
  <2> QED
    BY <1>2, <2>2, CompleteCache DEF Timeout
<1>3. CASE Broken(o)
  <2>1. Ends(o, Failure("Closed"))
    BY <1>1, <1>3 DEF Ends, Broken
  <2> QED
    BY <1>3, <2>1, CompleteCache DEF Broken
<1> QED
  BY <1>2, <1>3

\* A thread gets an answer or a signal.
LEMMA ReceiveKeeps ==
  ASSUME IInv, DInv, MPTypeOK, LocalsOK, NEW o \in Owner, PortInv(o), CacheInv(o), Receive(o)
  PROVE  /\ CacheInv(o)' /\ LocalsOK'
         /\ \A p \in Owner \ {o} : services'[p] = services[p] /\ local_services'[p] = local_services[p]
<1> DEFINE r == Head(toClient[o]).message
<1>1. /\ link[o] = "up" /\ toClient[o] # <<>> /\ toClient'[o] = Tail(toClient[o])
      /\ Elsewhere /\ UNCHANGED <<link, backlog>>
  BY DEF Receive, MPTypeOK
<1>2. o \notin backlog /\ OneAnswer(o)
  BY <1>1 DEF PortInv, LinkInv
<1>3. CASE Head(toClient[o]).waiting /\ Complete(o, r, toDaemon[o])
  <2>1. r \in Answers(o) /\ r.re = call[o].re /\ Answers(o)' = {}
    BY <1>1, <1>2, <1>3, HeadAnswer
  <2>2. Ends(o, r)
    BY <1>1, <1>2, <2>1 DEF Ends, CacheInv, CacheTrue
  <2> QED
    BY <1>3, <2>2, CompleteCache
<1>4. CASE UNCHANGED <<services, local_services, call, toDaemon>>
  <2>1. Answers(o)' \subseteq Answers(o)
    BY <1>1, AnswersTail
  <2>2. [DNext]_dVars
    BY <1>1 DEF DNext
  <2>3. CacheInv(o)'
    BY <1>1, <1>4, <2>1, <2>2, CacheStays DEF Elsewhere, smVars
  <2>4. LocalsOK'
    BY <1>4 DEF LocalsOK
  <2> QED
    BY <1>4, <2>3, <2>4
<1> QED
  BY <1>3, <1>4 DEF Receive

\* The daemon accepts a connection.
LEMMA PickKeeps ==
  ASSUME IInv, DInv, NEW o \in Owner, PortInv(o), CacheInv(o), Pick(o)
  PROVE  CacheInv(o)'
<1>1. /\ o \in backlog /\ backlog' = backlog \ {o}
      /\ UNCHANGED <<link, services, local_services, call, toClient>>
      /\ toClient[o] = <<>>
  BY DEF Pick, PortInv, LinkInv
<1>2. DOMAIN services[o] = {} /\ DOMAIN local_services[o] = {} /\ call[o].re.op # "GetAll"
  BY <1>1 DEF CacheInv, Unaccepted
<1>3. Registration(o)' /\ Unaccepted(o)'
  BY <1>1, <1>2 DEF CacheInv, Registration, Unaccepted, Cached
<1>4. Answers(o)' = {}
  BY <1>1 DEF Answers, Waiting
<1>5. link[o] = "up" => CacheTrue(o)'
  BY <1>1, <1>2, <1>4 DEF CacheTrue
<1> QED
  BY <1>1, <1>3, <1>5 DEF CacheInv

LEMMA CachesStep ==
  ASSUME IInv, DInv, MPTypeOK, MPInv, CachesInv, [MPNext]_mpVars
  PROVE  CachesInv'
<1>0. [DNext]_dVars
  BY ComposeStep
<1>1. CASE UNCHANGED mpVars
  <2>1. ASSUME NEW o \in Owner PROVE CacheInv(o)'
    BY <1>0, <1>1, CacheStays DEF mpVars, clientVars, dVars, smVars, CachesInv, Answers, Waiting
  <2> QED
    BY <1>1, <2>1 DEF mpVars, clientVars, CachesInv, LocalsOK
<1>2. ASSUME NEW o \in Owner, NEW q \in Owner, q # o, ClientStep(o), Elsewhere,
             services'[q] = services[q], local_services'[q] = local_services[q]
      PROVE  CacheInv(q)'
  <2>1. /\ link'[q] = link[q] /\ call'[q] = call[q] /\ toClient'[q] = toClient[q]
        /\ q \in backlog' <=> q \in backlog
    BY <1>2, OthersLeft
  <2>2. Answers(q)' = Answers(q)
    BY <2>1 DEF Answers, Waiting
  <2> QED
    BY <1>0, <1>2, <2>1, <2>2, CacheStays DEF CachesInv, Elsewhere, smVars
<1>3. ASSUME NEW o \in Owner, Open(o) PROVE CacheInv(o)'
  BY <1>3 DEF Open, CachesInv, CacheInv, Registration, Unaccepted, Cached, MPInv, PortInv, LinkInv, Joined,
              Elsewhere, smVars, NoCall, NoRequest
<1>4. ASSUME NEW o \in Owner, Exit(o) PROVE CacheInv(o)' /\ LocalsOK'
  <2>1. /\ call'[o] = NoCall /\ services'[o] = Nothing /\ local_services'[o] = Nothing
        /\ link'[o] # "up" /\ LocalsOK'
    BY <1>4 DEF Exit, MPTypeOK, PathsOK, CachesInv, LocalsOK
  <2>2. NoCall.re.op = "None"
    BY DEF NoCall, NoRequest
  <2> QED
    BY <2>1, <2>2, NothingLemma DEF CacheInv, Registration, Unaccepted
<1>5. ASSUME NEW o \in Owner, Dispatch(o) \/ HangUp(o) PROVE CacheInv(o)'
  BY <1>0, <1>5, CacheStays DEF Dispatch, HangUp, Elsewhere, smVars, CachesInv, MPTypeOK, Answers, Waiting
<1>6. ASSUME NEW o \in Owner, Open(o) \/ Exit(o) \/ Dispatch(o) \/ HangUp(o) PROVE CachesInv'
  <2>1. Elsewhere /\ ClientStep(o)
    BY <1>6 DEF Open, Exit, Dispatch, HangUp, ClientStep
  <2>2. ASSUME NEW q \in Owner, q # o
        PROVE  services'[q] = services[q] /\ local_services'[q] = local_services[q]
    BY <1>6, <2>2 DEF Open, Exit, Dispatch, HangUp, MPTypeOK, PathsOK, CachesInv, LocalsOK
  <2>3. LocalsOK'
    BY <1>4, <1>6 DEF Open, Dispatch, HangUp, CachesInv, LocalsOK
  <2> QED
    BY <1>2, <1>3, <1>4, <1>5, <1>6, <2>1, <2>2, <2>3 DEF CachesInv
<1>7. ASSUME NEW o \in Owner, Timeout(o) \/ Broken(o) \/ Receive(o) PROVE CachesInv'
  <2>1. Elsewhere /\ ClientStep(o)
    BY <1>7 DEF Timeout, Broken, Receive, ClientStep
  <2>2. /\ CacheInv(o)' /\ LocalsOK'
        /\ \A q \in Owner \ {o} : services'[q] = services[q] /\ local_services'[q] = local_services[q]
    BY <1>7, TimeoutKeeps, ReceiveKeeps DEF CachesInv, MPInv
  <2> QED
    BY <1>2, <2>1, <2>2 DEF CachesInv
<1>8. ASSUME NEW o \in Owner, Calls(o) PROVE CachesInv'
  <2>1. Elsewhere /\ ClientStep(o) /\ UNCHANGED services
    BY <1>8, BeginsLemma DEF Begins, ClientStep
  <2>2. CacheInv(o)' /\ LocalsOK' /\ \A q \in Owner \ {o} : local_services'[q] = local_services[q]
    BY <1>8, CallsKeep, CallsCache DEF CachesInv
  <2> QED
    BY <1>2, <2>1, <2>2 DEF CachesInv
<1>9. ASSUME NEW o \in Owner, Serve(o) PROVE CachesInv'
  <2>1. LocalsOK'
    BY <1>9 DEF Serve, CachesInv, LocalsOK
  <2> QED
    BY <1>9, <2>1, ServeCache DEF CachesInv
<1>10. ASSUME NEW o \in Owner, Pick(o) PROVE CachesInv'
  <2>1. /\ UNCHANGED <<link, services, local_services, call, toClient>>
        /\ clients' = clients \cup {o} /\ backlog' = backlog \ {o}
    BY <1>10 DEF Pick, Accept, Connect
  <2>2. ASSUME NEW q \in Owner, q # o PROVE CacheInv(q)'
    BY <1>0, <2>1, <2>2, CacheStays DEF CachesInv, Answers, Waiting
  <2> QED
    BY <1>10, <2>1, <2>2, PickKeeps DEF CachesInv, MPInv, LocalsOK
<1>11. ASSUME NEW o \in Owner, Notice(o) PROVE CachesInv'
  <2>1. /\ UNCHANGED <<backlog, services, local_services, call, toClient>>
        /\ clients' = clients \ {o} /\ link' = [link EXCEPT ![o] = "none"] /\ link[o] = "exited"
    BY <1>11 DEF Notice, Closed, Disconnect
  <2>2. ASSUME NEW q \in Owner, q # o PROVE CacheInv(q)'
    BY <1>0, <2>1, <2>2, CacheStays DEF CachesInv, Answers, Waiting, MPTypeOK
  <2>3. CacheInv(o)'
    BY <2>1 DEF CachesInv, CacheInv, Registration, Unaccepted, Cached, MPTypeOK
  <2> QED
    BY <2>1, <2>2, <2>3 DEF CachesInv, LocalsOK
<1>12. CASE DaemonDies
  <2>1. /\ UNCHANGED <<services, local_services, call>> /\ clients' = {} /\ backlog' = {}
        /\ link' = [o \in Owner |-> IF link[o] = "exited" THEN "none" ELSE link[o]]
    BY <1>12 DEF DaemonDies, DaemonRestart, Restart
  <2>2. ASSUME NEW o \in Owner PROVE CacheInv(o)'
    BY <2>1 DEF CachesInv, CacheInv, Registration, Unaccepted, Cached
  <2> QED
    BY <2>1, <2>2 DEF CachesInv, LocalsOK
<1> QED
  BY <1>1, <1>6, <1>7, <1>8, <1>9, <1>10, <1>11, <1>12, MPSteps

\* The invariants of the composition and of its caches.
LEMMA CachesInvariance == MPSpec => [](IInv /\ DInv /\ MPTypeOK /\ MPInv /\ CachesInv)
<1>1. MPInit => MPInv /\ CachesInv
  BY MPInvInit, CachesInit
<1>2. (IInv /\ DInv /\ MPTypeOK) /\ MPInv /\ CachesInv /\ [MPNext]_mpVars => MPInv' /\ CachesInv'
  BY MPInvStep, CachesStep
<1> QED
  BY <1>1, <1>2, MPInvariance, PTL DEF MPSpec

\* What a connected client has cached is registered in the daemon under that id, name
\* and trust, unless its properties were never received.
THEOREM CacheMatchesDaemon == MPSpec => []CachedPortsRegistered
<1>1. IInv /\ DInv /\ MPTypeOK /\ MPInv /\ CachesInv => CachedPortsRegistered
  BY CachesImply
<1> QED
  BY <1>1, CachesInvariance, PTL

-----------------------------------------------------------------------------
(* The ids the library returns.                                            *)

\* The last step returned from a call of thread o.
Returns(o, c, id) == event' = [type |-> "Return", thread |-> o, call |-> c, error |-> event'.error,
                               id |-> id, why |-> event'.why]

\* What a step may return to thread o: no id; that of a cached port with the name and
\* trust of the call; or that of a local port with the name and trust that are read.
TellsPort(o) ==
  \/ event'.type # "Return"
  \/ \E c : Returns(o, c, 0)
  \/ \E n, t : \E path \in Cached(o, n, t) :
       \E c : /\ Returns(o, c, services[o][path].id)
              /\ c.port_name = n /\ c.is_trusted = t
  \/ \E id : id # 0 /\ UNCHANGED local_services /\ \E found \in LocalPort(o, id) : \E path \in found :
       \E c : /\ Returns(o, c, id)
              /\ c.port_name = services[o][path].port_name
              /\ c.is_trusted = services[o][path].is_trusted

LEMMA NoEventLemma == NoEvent.type # "Return"
  BY DEF NoEvent

\* The calls that return at once.
LEMMA CallsTell ==
  ASSUME NEW o \in Owner, Calls(o)
  PROVE  TellsPort(o)
<1>1. \A c, error, id : ReturnNow(o, c, error, id) => Returns(o, c, id)
  BY DEF ReturnNow, Return, Returns
<1>2. \A c, error : ReturnNow(o, c, error, 0) => TellsPort(o)
  BY <1>1 DEF TellsPort
<1>3. \A c, q : Ask(o, c, q) => TellsPort(o)
  BY NoEventLemma DEF Ask, TellsPort
<1>4. \A c : NoProxy(o, c) \/ NoLocalPort(o, c) => TellsPort(o)
  BY <1>2 DEF NoProxy, NoLocalPort
<1>5. ASSUME NEW n \in CallName, NEW t \in BOOLEAN, RegisterPort(o, n, t) PROVE TellsPort(o)
  <2> DEFINE re == [op |-> "RegisterService", port_name |-> n, is_trusted |-> t]
             c == Call("register", ThreadApp[o], n, t, 0, 0, re)
  <2>1. c.port_name = n /\ c.is_trusted = t
    BY DEF Call
  <2> HIDE DEF c
  <2>2. ASSUME NEW path \in Cached(o, n, t), ReturnNow(o, c, "NONE", services[o][path].id)
        PROVE  TellsPort(o)
    BY <1>1, <2>1, <2>2 DEF TellsPort
  <2> QED
    BY <1>3, <1>4, <1>5, <2>2 DEF RegisterPort, c
<1>6. ASSUME NEW id \in Id, ReadLocalPort(o, id) PROVE TellsPort(o)
  <2> DEFINE c(n, t) == Call("read", ThreadApp[o], n, t, id, 0, NoRequest)
  <2>1. \A n, t : c(n, t).port_name = n /\ c(n, t).is_trusted = t
    BY DEF Call
  <2> HIDE DEF c
  <2>2. ASSUME NEW found \in LocalPort(o, id), NEW path \in found, id # 0, UNCHANGED local_services,
               ReturnNow(o, c(services[o][path].port_name, services[o][path].is_trusted), "NONE", id)
        PROVE  TellsPort(o)
    BY <1>1, <2>1, <2>2 DEF TellsPort
  <2> QED
    BY <1>2, <1>4, <1>6, <2>2 DEF ReadLocalPort, c
<1>7. ASSUME NEW id \in Id, NEW t \in BOOLEAN, UnregisterPort(o, id, t) PROVE TellsPort(o)
  BY <1>2, <1>3, <1>4, <1>7 DEF UnregisterPort
<1>8. ASSUME NEW a \in Peer, NEW n \in CallName, NEW t \in BOOLEAN, NEW api, CheckFirst(o, api, a, n, t)
      PROVE  TellsPort(o)
  BY <1>3, <1>4, <1>8 DEF CheckFirst
<1>9. ASSUME NEW a \in Peer, NEW n \in CallName, NEW t \in BOOLEAN, NEW id \in Id,
             SendBidirectional(o, id, a, n, t)
      PROVE  TellsPort(o)
  BY <1>2, <1>3, <1>4, <1>9 DEF SendBidirectional
<1> QED
  BY <1>5, <1>6, <1>7, <1>8, <1>9 DEF Calls, CheckRemotePort, SendPortMessage

\* The id a step returns, unless its path string was freed, is that of a port of the
\* thread, as the caller named it or is told.
LocalIdNamesPort(o) ==
  (/\ event'.type = "Return" /\ event'.thread = o
   /\ event'.call.api \in {"register", "read"} /\ event'.id > 0
   /\ event'.id \in DOMAIN local_services'[o] /\ local_services'[o][event'.id] # Freed) =>
     \E p \in ServicesAt(o, event'.id) :
       Matches(heap[p], event'.call.port_name, event'.call.is_trusted)

\* A port at a path of the thread is what the property asks for.
LEMMA PortIsIt ==
  ASSUME NEW o, NEW c, NEW i, Returns(o, c, i), PortAt(o, i, c.port_name, c.is_trusted)
  PROVE  LocalIdNamesPort(o)
  BY DEF Returns, LocalIdNamesPort, PortAt

LEMMA TellsTrue ==
  ASSUME NEW o \in Owner, CacheTrue(o), TellsPort(o)
  PROVE  LocalIdNamesPort(o)
<1>0. \A path \in DOMAIN services[o] : ServiceTrue(o, path)
  BY DEF CacheTrue
<1>1. ASSUME NEW c, Returns(o, c, 0) PROVE LocalIdNamesPort(o)
  BY <1>1 DEF Returns, LocalIdNamesPort
<1>2. ASSUME NEW n, NEW t, NEW path \in Cached(o, n, t), NEW c, Returns(o, c, services[o][path].id),
             c.port_name = n, c.is_trusted = t
      PROVE  LocalIdNamesPort(o)
  <2>1. path \in DOMAIN services[o] /\ services[o][path].port_name = n /\ services[o][path].is_trusted = t
    BY <1>2 DEF Cached, Matches
  <2>2. CASE services[o][path].id = path /\ PortAt(o, path, n, t)
    BY <1>0, <1>2, <2>2, PortIsIt
  <2>3. CASE services[o][path] = NoProperties
    BY <1>1, <1>2, <2>3 DEF NoProperties
  <2> QED
    BY <1>0, <2>1, <2>2, <2>3 DEF ServiceTrue
<1>3. ASSUME NEW id, id # 0, UNCHANGED local_services, NEW found \in LocalPort(o, id), NEW path \in found,
             NEW c, Returns(o, c, id), c.port_name = services[o][path].port_name, c.is_trusted = services[o][path].is_trusted
      PROVE  LocalIdNamesPort(o)
  <2>1. event'.id = id
    BY <1>3 DEF Returns
  <2> SUFFICES ASSUME id \in DOMAIN local_services[o], local_services[o][id] # Freed
               PROVE  LocalIdNamesPort(o)
    BY <1>3, <2>1 DEF LocalIdNamesPort
  <2>2. path = id /\ id \in DOMAIN services[o] /\ services[o][id].id = id
    BY <1>3 DEF LocalPort, CacheTrue, LocalTrue
  <2>3. PortAt(o, id, c.port_name, c.is_trusted)
    BY <1>0, <1>3, <2>2 DEF ServiceTrue, NoProperties
  <2> QED
    BY <1>0, <1>3, <2>3, PortIsIt
<1>4. ASSUME event'.type # "Return" PROVE LocalIdNamesPort(o)
  BY <1>4 DEF LocalIdNamesPort
<1> HIDE DEF LocalIdNamesPort
<1> QED
  BY <1>1, <1>2, <1>3, <1>4 DEF TellsPort

\* A D-Bus call ends: it returns an id only when the proxy of a new port was created.
LEMMA CompleteTells ==
  ASSUME NEW o \in Owner, o \notin backlog, o \in clients, link[o] = "up", CacheInv(o),
         NEW r, NEW q, r.error = "None" => AnswerTrue(o, r) /\ r.re = call[o].re, Complete(o, r, q)
  PROVE  LocalIdNamesPort(o)
<1>0. CacheTrue(o)
  BY DEF CacheInv
<1>1. \A error, id : ReturnAfter(o, r, q, error, id) => Returns(o, call[o], id)
  BY DEF ReturnAfter, Return, Returns
<1>2. \A error : ReturnAfter(o, r, q, error, 0) => LocalIdNamesPort(o)
  BY <1>0, <1>1, TellsTrue DEF TellsPort
<1>3. \A re : Proceed(o, q, re) => LocalIdNamesPort(o)
  BY NoEventLemma DEF Proceed, Ask, LocalIdNamesPort
<1>4. CASE ProxyCreated(o, r, q)
  <2>1. call[o].re.op = "GetAll"
    BY <1>4 DEF ProxyCreated
  <2>2. CASE r.error # "None"
    BY <1>2, <1>4, <2>2 DEF ProxyCreated, NoProperties
  <2>3. CASE r.error = "None"
    <3>1. Returns(o, call[o], r.id)
      BY <1>1, <1>4, <2>3 DEF ProxyCreated
    <3>2. r.id = call[o].re.from
      BY <2>1, <2>3 DEF AnswerTrue
    <3>3. PortAt(o, r.id, call[o].port_name, call[o].is_trusted)
      BY <1>0, <2>1, <3>2 DEF CacheTrue
    <3> QED
      BY <3>1, <3>3, PortIsIt
  <2> QED
    BY <2>2, <2>3
<1> QED
  BY <1>2, <1>3, <1>4 DEF Complete, RegisterAnswered, UnregisterAnswered, CheckAnswered, SendAnswered

LEMMA LocalIdsStep ==
  ASSUME MPTypeOK, MPInv, CachesInv, MPNext, NEW o \in Owner, o \in clients, link[o] = "up"
  PROVE  LocalIdNamesPort(o)
<1>0. CacheInv(o) /\ CacheTrue(o) /\ o \notin backlog /\ OneAnswer(o)
  BY DEF CachesInv, CacheInv, MPInv, PortInv, LinkInv
<1>1. \A q : event'.type = "Return" /\ event'.thread = q /\ q # o => LocalIdNamesPort(o)
  BY DEF LocalIdNamesPort
<1>2. event'.type # "Return" => LocalIdNamesPort(o)
  BY DEF LocalIdNamesPort
<1>3. ASSUME NEW q \in Owner, q # o, Calls(q) PROVE LocalIdNamesPort(o)
  <2>1. \A c, id : Returns(q, c, id) => event'.type = "Return" /\ event'.thread = q
    BY DEF Returns
  <2> QED
    BY <1>1, <1>2, <1>3, <2>1, CallsTell DEF TellsPort
<1>4. ASSUME Calls(o) PROVE LocalIdNamesPort(o)
  BY <1>0, <1>4, CallsTell, TellsTrue
<1>5. ASSUME NEW q \in Owner, q # o, NEW r, NEW s, Complete(q, r, s) PROVE LocalIdNamesPort(o)
  <2>1. \A error, id : ReturnAfter(q, r, s, error, id) => LocalIdNamesPort(o)
    BY <1>1, <1>5 DEF ReturnAfter, Return
  <2>2. \A re : Proceed(q, s, re) => LocalIdNamesPort(o)
    BY <1>2, NoEventLemma DEF Proceed, Ask
  <2> HIDE DEF LocalIdNamesPort
  <2> QED
    BY <1>5, <2>1, <2>2
    DEF Complete, RegisterAnswered, ProxyCreated, UnregisterAnswered, CheckAnswered, SendAnswered
<1>6. CASE Timeout(o)
  <2>1. Failure("Timeout").error # "None"
    BY DEF Failure
  <2> QED
    BY <1>0, <1>6, <2>1, CompleteTells DEF Timeout
<1>7. CASE Receive(o)
  <2> DEFINE r == Head(toClient[o]).message
  <2>1. CASE Head(toClient[o]).waiting /\ Complete(o, r, toDaemon[o])
    <3>1. toClient[o] # <<>> /\ toClient'[o] = Tail(toClient[o])
      BY <1>7 DEF Receive, MPTypeOK
    <3>2. r \in Answers(o) /\ r.re = call[o].re
      BY <1>0, <2>1, <3>1, HeadAnswer
    <3>3. AnswerTrue(o, r)
      BY <1>0, <3>2 DEF CacheTrue
    <3> QED
      BY <1>0, <2>1, <3>2, <3>3, CompleteTells
  <2> QED
    BY <1>2, <1>7, <2>1, NoEventLemma DEF Receive
<1>8. ASSUME NEW q \in Owner, q # o, Timeout(q) \/ Broken(q) \/ Receive(q) PROVE LocalIdNamesPort(o)
  BY <1>2, <1>5, <1>8, NoEventLemma DEF Timeout, Broken, Receive
<1>9. ~ Broken(o)
  BY DEF Broken
<1>10. ASSUME NEW q \in Owner, Dispatch(q) PROVE LocalIdNamesPort(o)
  BY <1>2, <1>10, NoEventLemma DEF Dispatch
<1>11. ASSUME event' = NoEvent PROVE LocalIdNamesPort(o)
  BY <1>2, <1>11, NoEventLemma
<1>12. \A q \in Owner : Open(q) \/ Exit(q) \/ HangUp(q) \/ Pick(q) \/ Serve(q) \/ Notice(q) \/ DaemonDies =>
                          event' = NoEvent
  BY DEF Open, Exit, HangUp, Pick, Serve, Notice, DaemonDies
<1> HIDE DEF LocalIdNamesPort
<1>13. ASSUME NEW q \in Owner, Calls(q) \/ Timeout(q) \/ Broken(q) \/ Receive(q) PROVE LocalIdNamesPort(o)
  BY <1>3, <1>4, <1>6, <1>7, <1>8, <1>9, <1>13
<1> QED
  BY <1>10, <1>11, <1>12, <1>13, MPSteps

\* An id that a registration returns, or under which a name is read, names a port of
\* the thread that is registered at this moment, if the path string was not freed.
THEOREM LocalIdsArePorts == MPSpec => LocalIdsNamePorts
<1> DEFINE A == \A o \in clients :
       (/\ link[o] = "up"
        /\ event'.type = "Return" /\ event'.thread = o
        /\ event'.call.api \in {"register", "read"} /\ event'.id > 0
        /\ event'.id \in DOMAIN local_services'[o] /\ local_services'[o][event'.id] # Freed) =>
         \E p \in ServicesAt(o, event'.id) :
           Matches(heap[p], event'.call.port_name, event'.call.is_trusted)
<1>1. (IInv /\ DInv /\ MPTypeOK /\ MPInv /\ CachesInv) /\ [MPNext]_mpVars => [A]_mpVars
  <2>1. IInv => clients \subseteq Owner
    BY DEF IInv, Tables, TypeOK
  <2> QED
    BY <2>1, LocalIdsStep DEF LocalIdNamesPort
<1>2. MPSpec => [][A]_mpVars
  <2> HIDE DEF A
  <2> QED
    BY <1>1, CachesInvariance, PTL DEF MPSpec
<1> QED
  BY <1>2 DEF LocalIdsNamePorts
=============================================================================
