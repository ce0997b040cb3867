----------------------------- MODULE TrustProofs -----------------------------
(***************************************************************************)
(* Theorems about the messages on their way to the callbacks of trusted    *)
(* ports, for every set of threads, applications and certificates.         *)
(***************************************************************************)
EXTENDS CacheProofs

\* The signals that thread o has yet to dispatch, and those on its connection.
InMail(o) == {mailbox[o][i] : i \in DOMAIN mailbox[o]}
OnWay(o) == {toClient[o][i].message : i \in Signalled(toClient[o])}
Signals(o) == InMail(o) \cup OnWay(o)

\* A trusted port of the thread may get the message: the daemon goes by the application
\* it takes the thread for.
Safe(o, m) == Signer[AppOf(o)] \in {NoCert, Signer[m.app_id]}

\* The id m goes to was given, and if it is still that of a port then the port may get it.
Allowed(o, m) == /\ m.id <= object_conter
                 /\ \A p \in ServicesAt(o, m.id) : heap[p].is_trusted => Safe(o, m)

Connected(o) == o \in clients /\ link[o] = "up"

SignedInv(o) ==
  /\ o \in backlog \/ link[o] \in {"none", "exited"} => mailbox[o] = <<>>
  /\ Connected(o) => \A m \in Signals(o) : Allowed(o, m)

MailOK == mailbox \in [Owner -> Seq(SignalMessage)]

SignedInvs == MailOK /\ \A o \in Owner : SignedInv(o)

LEMMA SignedInit == MPInit => SignedInvs
<1> SUFFICES ASSUME MPInit PROVE SignedInvs
  OBVIOUS
<1>1. MailOK
  BY DEF MPInit, MailOK
<1>2. \A o \in Owner : Signals(o) = {} /\ mailbox[o] = <<>>
  BY DEF MPInit, Signals, InMail, OnWay, Signalled
<1> QED
  BY <1>1, <1>2 DEF SignedInvs, SignedInv

\* The invariant is what the property needs: a connected thread trusts only ports that
\* the daemon has for trusted, since what it has cached is true.
LEMMA SignedImply == IInv /\ MPInv /\ CachesInv /\ SignedInvs => TrustedCallback
<1> SUFFICES ASSUME IInv, MPInv, CachesInv, SignedInvs, NEW o \in clients, NEW i \in DOMAIN mailbox[o],
                    mailbox[o][i].id \in DOMAIN services[o],
                    services[o][mailbox[o][i].id].is_trusted
             PROVE  Safe(o, mailbox[o][i])
  BY DEF TrustedCallback, Safe
<1> DEFINE m == mailbox[o][i]
           s == services[o][m.id]
<1>1. o \in Owner /\ SignedInv(o) /\ CacheInv(o) /\ LinkInv(o)
  BY DEF IInv, Tables, TypeOK, SignedInvs, CachesInv, MPInv, PortInv
<1>2. mailbox[o] # <<>>
  OBVIOUS
<1>3. link[o] = "up"
  BY <1>1, <1>2 DEF LinkInv, Joined, SignedInv
<1>4. Allowed(o, m) /\ ServiceTrue(o, m.id)
  BY <1>1, <1>3 DEF SignedInv, Connected, Signals, InMail, CacheInv, CacheTrue
<1>5. s # NoProperties
  BY DEF NoProperties
<1>6. PortAt(o, m.id, s.port_name, s.is_trusted)
  BY <1>4, <1>5 DEF ServiceTrue
<1> QED
  BY <1>4, <1>6 DEF PortAt, Matches, Allowed

-----------------------------------------------------------------------------
(* What makes a signal safe.                                               *)

LEMMA SignalsType ==
  ASSUME MPTypeOK, MailOK, NEW o \in Owner
  PROVE  Signals(o) \subseteq SignalMessage
<1>1. mailbox[o] \in Seq(SignalMessage) /\ toClient[o] \in Seq(Telling)
  BY DEF MPTypeOK, MailOK
<1>2. \A i \in DOMAIN mailbox[o] : mailbox[o][i] \in SignalMessage
  BY <1>1
<1>3. \A i \in DOMAIN toClient[o] : toClient[o][i] \in Telling
  BY <1>1
<1>4. \A x \in Telling : x.message.type = "OnMessage" => x.message \in SignalMessage
  BY DEF Telling, Message, ReplyMessage, PropertiesMessage
<1> QED
  BY <1>2, <1>3, <1>4 DEF Signals, InMail, OnWay, Signalled

\* The daemon never takes an id back while it lives.
LEMMA CounterStays ==
  ASSUME IInv, DInv, [DNext]_dVars, NEW o \in clients'
  PROVE  object_conter' \in {object_conter, object_conter + 1}
<1>1. ASSUME NEW q \in Owner, NEW re \in Request, Handle(q, re)
      PROVE  object_conter' \in {object_conter, object_conter + 1}
  BY <1>1, HandleCounts
<1>2. ~ DaemonRestart
  BY DEF DaemonRestart, Restart
<1> QED
  BY <1>1, <1>2 DEF DNext, Accept, Connect, Closed, Disconnect, Elsewhere, dVars, smVars

\* What was allowed remains so: an id that lost its port gets no other one.
LEMMA AllowedStays ==
  ASSUME IInv, DInv, [DNext]_dVars, NEW o \in clients, o \in clients', NEW m \in SignalMessage,
         Allowed(o, m)
  PROVE  Allowed(o, m)'
<1>1. object_conter \in Nat /\ m.id \in Nat
  BY DEF IInv, Tables, TypeOK, Id, SignalMessage
<1>2. m.id <= object_conter'
  BY <1>1, CounterStays DEF Allowed
<1>3. \A p \in ServicesAt(o, m.id)' : p \in ServicesAt(o, m.id) /\ heap'[p] = heap[p]
  BY PortsStay DEF Allowed, ServicesAt
<1>4. AppOf(o)' = AppOf(o)
  BY ManagerStep DEF AppOf
<1> QED
  BY <1>2, <1>3, <1>4 DEF Allowed, Safe

\* A step keeps the invariant of a thread if each signal is an old one or allowed.
LEMMA SignedKept ==
  ASSUME IInv, DInv, [DNext]_dVars, MPTypeOK, MailOK, NEW o \in Owner, SignedInv(o),
         o \in backlog' \/ link'[o] \in {"none", "exited"} => mailbox'[o] = <<>>,
         Connected(o)' => Connected(o),
         Connected(o)' => \A m \in Signals(o)' : m \in Signals(o) \/ Allowed(o, m)'
  PROVE  SignedInv(o)'
<1>1. ASSUME NEW m \in Signals(o)', Connected(o)' PROVE Allowed(o, m)'
  <2>1. CASE m \in Signals(o)
    <3>1. o \in clients /\ o \in clients' /\ Allowed(o, m) /\ m \in SignalMessage
      BY <1>1, <2>1, SignalsType DEF SignedInv, Connected
    <3> QED
      BY <3>1, AllowedStays
  <2> QED
    BY <1>1, <2>1
<1> QED
  BY <1>1 DEF SignedInv

-----------------------------------------------------------------------------
(* What the queues hold after a step.                                      *)

\* The signals that come with what a handler writes to connection q.
LEMMA WrittenSignals ==
  ASSUME NEW o \in Owner, NEW re \in Request, Writes(o, re), NEW q \in Owner, NEW waiting \in BOOLEAN
  PROVE  \A i \in Signalled(Written(q, waiting)) :
           /\ Written(q, waiting)[i].message \in Outputs("OnMessage")'
           /\ Written(q, waiting)[i].message.to = q
<1> DEFINE To(i) == IF i \in DOMAIN out' /\ out'[i].to = q
                    THEN <<[message |-> out'[i], waiting |-> out'[i].type = "Reply" /\ waiting]>>
                    ELSE <<>>
           Mine(x) == \E i \in DOMAIN out' : x.message = out'[i] /\ out'[i].to = q
<1>1. Written(q, waiting) = To(1) \o To(2)
  BY DEF Written
<1>2. \A i : To(i) = <<>> \/ \E x : To(i) = <<x>> /\ Mine(x)
  OBVIOUS
<1> HIDE DEF To, Mine
<1>3. \A x, y : /\ <<>> \o <<x>> = <<x>> /\ <<x>> \o <<>> = <<x>> /\ <<x>> \o <<y>> = <<x, y>>
                /\ <<>> \o <<>> = <<>>
  BY ConcatLemma
<1>4. \/ Written(q, waiting) = <<>>
      \/ \E x : Written(q, waiting) = <<x>> /\ Mine(x)
      \/ \E x, y : Written(q, waiting) = <<x, y>> /\ Mine(x) /\ Mine(y)
  <2>1. CASE To(1) = <<>>
    BY <1>1, <1>2, <1>3, <2>1
  <2>2. ASSUME NEW x, To(1) = <<x>>, Mine(x)
        PROVE  \/ Written(q, waiting) = <<x>>
               \/ \E y : Written(q, waiting) = <<x, y>> /\ Mine(y)
    BY <1>1, <1>2, <1>3, <2>2
  <2> QED
    BY <1>2, <2>1, <2>2
<1>5. \A i \in DOMAIN Written(q, waiting) : Mine(Written(q, waiting)[i])
  BY <1>4
<1> QED
  BY <1>5 DEF Mine, Signalled, Outputs

\* Signals go to ports whose ids were given.
LEMMA SignalsHaveIds ==
  ASSUME IInv, NEW o \in Owner, NEW re \in Request, Handle(o, re), NEW m \in Outputs("OnMessage")'
  PROVE  m.id <= object_conter'
<1>1. /\ \A e, i : out' # <<Reply(o, re, e, i)>>
      /\ \A p : out' # <<Properties(o, re, p)>>
      /\ out' # <<>>
  BY DEF Outputs, Reply, Properties
<1>2. ASSUME NEW a, NEW port, NEW t, Forward(o, re, a, port, t), UNCHANGED smVars
      PROVE  m.id <= object_conter'
  <2>1. PICK p \in GetServiceById(re.service_id) :
               out' = <<OnMessage(p, a, port, t), Reply(o, re, "None", 0)>>
    BY <1>1, <1>2 DEF Forward
  <2>2. OnMessage(p, a, port, t).type = "OnMessage" /\ Reply(o, re, "None", 0).type = "Reply"
    BY DEF OnMessage, Reply
  <2>3. m = OnMessage(p, a, port, t)
    BY <2>1, <2>2, TwoOutputsLemma
  <2>4. p \in DOMAIN heap /\ m.id = heap[p].id /\ object_conter' = object_conter
    BY <1>2, <2>1, <2>3 DEF OnMessage, GetServiceById, IInv, Tables, CacheExact, smVars
  <2>5. object_conter \in Nat /\ heap[p].id \in 1 .. object_conter
    BY <2>4 DEF IInv, Tables, TypeOK, Id, IdsBelow
  <2> QED
    BY <2>4, <2>5
<1> QED
  BY <1>1, <1>2 DEF Handle, RegisterService, CheckForRemoteService, PortNotFound, SendMessage,
                    ServiceSendMessage, Unregister, GetAll, NoSuchObject

\* A signal that the daemon sends to a connected thread is allowed.
LEMMA SentIsAllowed ==
  ASSUME IInv', TrustedDelivery', NEW o \in Owner,
         NEW m \in Outputs("OnMessage")', m.to = o, m.id <= object_conter'
  PROVE  Allowed(o, m)'
<1>1. \A p \in ServicesAt(o, m.id)' : p \in GetServiceById(m.id)'
  BY DEF ServicesAt, GetServiceById, IInv, Tables, CacheExact
<1> QED
  BY <1>1 DEF Allowed, Safe, TrustedDelivery

\* The signals that remain when the first message of a queue is read.
LEMMA OnWayTail ==
  ASSUME MPTypeOK, NEW o \in Owner, toClient[o] # <<>>, toClient'[o] = Tail(toClient[o])
  PROVE  /\ OnWay(o)' \subseteq OnWay(o)
         /\ Head(toClient[o]).message.type = "OnMessage" => Head(toClient[o]).message \in OnWay(o)
<1>1. toClient[o] \in Seq(Telling)
  BY DEF MPTypeOK
<1>2. /\ 1 \in DOMAIN toClient[o] /\ Head(toClient[o]) = toClient[o][1]
      /\ \A i \in DOMAIN Tail(toClient[o]) :
           i + 1 \in DOMAIN toClient[o] /\ Tail(toClient[o])[i] = toClient[o][i + 1]
  BY <1>1
<1>3. OnWay(o)' = {toClient'[o][i].message : i \in Signalled(Tail(toClient[o]))}
  BY DEF OnWay, Signalled
<1>4. \A i \in Signalled(Tail(toClient[o])) :
        i + 1 \in Signalled(toClient[o]) /\ Tail(toClient[o])[i] = toClient[o][i + 1]
  BY <1>2 DEF Signalled
<1> QED
  BY <1>2, <1>3, <1>4 DEF OnWay, Signalled

\* A signal moves to the mailbox.
LEMMA MailAppend ==
  ASSUME MailOK, NEW o \in Owner, NEW m \in SignalMessage,
         mailbox' = [mailbox EXCEPT ![o] = Append(@, m)]
  PROVE  MailOK' /\ InMail(o)' \subseteq InMail(o) \cup {m}
<1>1. mailbox[o] \in Seq(SignalMessage) /\ mailbox'[o] = Append(mailbox[o], m)
  BY DEF MailOK
<1>2. /\ Append(mailbox[o], m) \in Seq(SignalMessage)
      /\ \A i \in DOMAIN Append(mailbox[o], m) :
           Append(mailbox[o], m)[i] = m \/ (i \in DOMAIN mailbox[o] /\ Append(mailbox[o], m)[i] = mailbox[o][i])
  BY <1>1
<1> QED
  BY <1>1, <1>2 DEF MailOK, InMail

\* Reading a message off the mailbox.
LEMMA MailTail ==
  ASSUME MailOK, NEW o \in Owner, mailbox[o] # <<>>, mailbox' = [mailbox EXCEPT ![o] = Tail(@)]
  PROVE  MailOK' /\ InMail(o)' \subseteq InMail(o)
<1>1. mailbox[o] \in Seq(SignalMessage) /\ mailbox'[o] = Tail(mailbox[o])
  BY DEF MailOK
<1>2. /\ Tail(mailbox[o]) \in Seq(SignalMessage)
      /\ \A i \in DOMAIN Tail(mailbox[o]) :
           i + 1 \in DOMAIN mailbox[o] /\ Tail(mailbox[o])[i] = mailbox[o][i + 1]
  BY <1>1
<1> QED
  BY <1>1, <1>2 DEF MailOK, InMail

-----------------------------------------------------------------------------
(* The steps.                                                              *)

\* A step of another thread, or one that leaves the thread its signals.
LEMMA SignedStays ==
  ASSUME IInv, DInv, [DNext]_dVars, MPTypeOK, MailOK, NEW o \in Owner, SignedInv(o),
         o \in backlog' => o \in backlog, Connected(o)' => Connected(o),
         link'[o] = link[o] \/ (link'[o] = "none" /\ link[o] = "exited") \/ link'[o] = "down",
         mailbox'[o] = mailbox[o], toClient'[o] = toClient[o]
  PROVE  SignedInv(o)'
<1>1. Signals(o)' = Signals(o)
  BY DEF Signals, InMail, OnWay, Signalled
<1>2. o \in backlog' \/ link'[o] \in {"none", "exited"} => mailbox'[o] = <<>>
  BY DEF SignedInv
<1> QED
  BY <1>1, <1>2, SignedKept

\* A D-Bus call ends without an answer.
LEMMA SignedTimeout ==
  ASSUME IInv, DInv, [DNext]_dVars, MPTypeOK, MailOK, NEW o \in Owner, SignedInv(o),
         Timeout(o) \/ Broken(o)
  PROVE  SignedInv(o)'
<1>1. /\ UNCHANGED <<clients, link, backlog, mailbox>>
      /\ toClient'[o] \in {toClient[o], Abandon(toClient[o])}
  BY DEF Timeout, Broken, Elsewhere, smVars, MPTypeOK
<1>2. ASSUME toClient'[o] = toClient[o] PROVE OnWay(o)' = OnWay(o)
  BY <1>2 DEF OnWay, Signalled
<1>3. ASSUME toClient'[o] = Abandon(toClient[o]) PROVE OnWay(o)' \subseteq OnWay(o)
  <2>1. toClient[o] \in Seq(Telling)
    BY DEF MPTypeOK
  <2>2. \A i \in DOMAIN toClient[o] : toClient[o][i] \in Telling
    BY <2>1
  <2>3. /\ DOMAIN toClient'[o] = DOMAIN toClient[o]
        /\ \A i \in DOMAIN toClient[o] : toClient'[o][i].message = toClient[o][i].message
    BY <1>3, <2>2 DEF Abandon, Telling
  <2> QED
    BY <2>3 DEF OnWay, Signalled
<1>4. Signals(o)' \subseteq Signals(o)
  BY <1>1, <1>2, <1>3 DEF Signals, InMail
<1>5. (o \in backlog' \/ link'[o] \in {"none", "exited"} => mailbox'[o] = <<>>) /\ (Connected(o)' => Connected(o))
  BY <1>1 DEF SignedInv, Connected
<1> QED
  BY <1>4, <1>5, SignedKept

\* A thread reads an answer or a signal off its connection.
LEMMA SignedReceive ==
  ASSUME IInv, DInv, [DNext]_dVars, MPTypeOK, MailOK, NEW o \in Owner, PortInv(o), SignedInv(o),
         Receive(o)
  PROVE  MailOK' /\ SignedInv(o)' /\ \A q \in Owner \ {o} : mailbox'[q] = mailbox[q]
<1> DEFINE m == Head(toClient[o]).message
<1>1. /\ link[o] = "up" /\ toClient[o] # <<>> /\ toClient'[o] = Tail(toClient[o])
      /\ UNCHANGED <<clients, link, backlog>>
  BY DEF Receive, MPTypeOK, Elsewhere, smVars
<1>2. o \notin backlog
  BY <1>1 DEF PortInv, LinkInv
<1>3. OnWay(o)' \subseteq OnWay(o) /\ (m.type = "OnMessage" => m \in OnWay(o))
  BY <1>1, OnWayTail
<1>4. /\ \A q \in Owner \ {o} : mailbox'[q] = mailbox[q]
      /\ MailOK' /\ InMail(o)' \subseteq Signals(o)
  <2>1. CASE UNCHANGED mailbox
    BY <2>1 DEF MailOK, InMail, Signals
  <2>2. CASE m.type = "OnMessage" /\ mailbox' = [mailbox EXCEPT ![o] = Append(@, m)]
    <3>1. m \in Signals(o) /\ m \in SignalMessage
      BY <1>3, <2>2, SignalsType DEF Signals
    <3>2. MailOK' /\ InMail(o)' \subseteq InMail(o) \cup {m}
      BY <2>2, <3>1, MailAppend
    <3> QED
      BY <2>2, <3>1, <3>2 DEF MailOK, Signals
  <2> QED
    BY <2>1, <2>2 DEF Receive
<1>5. Signals(o)' \subseteq Signals(o)
  BY <1>3, <1>4 DEF Signals
<1>6. ~ (o \in backlog' \/ link'[o] \in {"none", "exited"}) /\ (Connected(o)' => Connected(o))
  BY <1>1, <1>2 DEF Connected
<1>7. SignedInv(o)'
  BY <1>5, <1>6, SignedKept
<1> QED
  BY <1>4, <1>7

\* The daemon answers thread o and writes to others.
LEMMA SignedServe ==
  ASSUME IInv, IInv', DInv, TrustedDelivery', MPTypeOK, MailOK, NEW o \in Owner, Serve(o),
         NEW q \in Owner, SignedInv(q)
  PROVE  SignedInv(q)'
<1> DEFINE head == Head(toDaemon[o])
           w == Written(q, head.waiting)
           s == toClient[q]
<1>1. /\ head.re \in Request /\ head.waiting \in BOOLEAN /\ Handle(o, head.re)
      /\ UNCHANGED <<link, backlog, mailbox>>
      /\ toClient'[q] = IF link[q] = "up" THEN s \o w ELSE s
  BY HeadLemma DEF Serve, MPTypeOK
<1>2. [DNext]_dVars /\ o \in clients /\ clients' = clients /\ Writes(o, head.re)
  BY <1>1, HandleCounts, HandleWrites DEF DNext
<1>3. /\ q \notin clients \cup {o} => w = <<>>
      /\ w \in Seq(Telling) /\ s \in Seq(Telling)
      /\ \A i \in Signalled(w) : w[i].message \in Outputs("OnMessage")' /\ w[i].message.to = q
  BY <1>1, <1>2, WrittenWaiting, WrittenType, WrittenSignals DEF MPTypeOK
<1> HIDE DEF w
<1>4. CASE ~ Connected(q)
  <2>1. toClient'[q] = s
    <3>1. s \o <<>> = s
      BY <1>3, ConcatEmptySeq
    <3> QED
      BY <1>1, <1>2, <1>3, <1>4, <3>1 DEF Connected
  <2> QED
    BY <1>1, <1>2, <1>4, <2>1, SignedStays DEF Connected
<1>5. CASE Connected(q)
  <2>1. ASSUME NEW m \in Signals(q)' PROVE m \in Signals(q) \/ Allowed(q, m)'
    <3>1. CASE m \in InMail(q)'
      BY <1>1, <3>1 DEF InMail, Signals
    <3>2. CASE m \in OnWay(q)'
      <4>1. PICK i \in Signalled(s \o w) : m = (s \o w)[i].message
        <5>1. toClient'[q] = s \o w
          BY <1>1, <1>5 DEF Connected
        <5> HIDE DEF s
        <5> QED
          BY <3>2, <5>1 DEF OnWay, Signalled
      <4>2. \/ i \in DOMAIN s /\ (s \o w)[i] = s[i]
            \/ i - Len(s) \in DOMAIN w /\ (s \o w)[i] = w[i - Len(s)]
        <5> HIDE DEF s
        <5>1. /\ Len(s) \in Nat /\ Len(w) \in Nat
              /\ DOMAIN s = 1 .. Len(s) /\ DOMAIN w = 1 .. Len(w)
              /\ DOMAIN (s \o w) = 1 .. Len(s) + Len(w)
              /\ \A j \in 1 .. Len(s) + Len(w) : (s \o w)[j] = IF j <= Len(s) THEN s[j] ELSE w[j - Len(s)]
          BY <1>3
        <5> QED
          BY <4>1, <5>1 DEF Signalled
      <4>3. CASE i \in DOMAIN s /\ (s \o w)[i] = s[i]
        BY <4>1, <4>3 DEF Signalled, OnWay, Signals
      <4>4. CASE i - Len(s) \in DOMAIN w /\ (s \o w)[i] = w[i - Len(s)]
        <5>1. m \in Outputs("OnMessage")' /\ m.to = q
          BY <1>3, <4>1, <4>4 DEF Signalled
        <5>2. m.id <= object_conter'
          BY <1>1, <5>1, SignalsHaveIds
        <5> QED
          BY <5>1, <5>2, SentIsAllowed
      <4> QED
        BY <4>2, <4>3, <4>4
    <3> QED
      BY <3>1, <3>2 DEF Signals
  <2>2. q \in backlog' \/ link'[q] \in {"none", "exited"} => mailbox'[q] = <<>>
    BY <1>1 DEF SignedInv
  <2> QED
    BY <1>2, <1>5, <2>1, <2>2, SignedKept
<1> QED
  BY <1>4, <1>5

LEMMA SignedStep ==
  ASSUME IInv, IInv', DInv, TrustedDelivery', MPTypeOK, MPInv, SignedInvs, [MPNext]_mpVars
  PROVE  SignedInvs'
<1>0. [DNext]_dVars /\ MailOK /\ \A o \in Owner : SignedInv(o) /\ PortInv(o)
  BY ComposeStep DEF SignedInvs, MPInv
<1>1. CASE UNCHANGED mpVars
  BY <1>0, <1>1, SignedStays DEF mpVars, clientVars, dVars, smVars, SignedInvs, MailOK, Connected
\* A thread is not touched by what another one does.
<1>2. ASSUME NEW o \in Owner, NEW q \in Owner, q # o, ClientStep(o), Elsewhere,
             mailbox'[q] = mailbox[q]
      PROVE  SignedInv(q)'
  <2>1. link'[q] = link[q] /\ toClient'[q] = toClient[q] /\ (q \in backlog' <=> q \in backlog)
    BY <1>2, OthersLeft
  <2>2. Connected(q)' => Connected(q)
    BY <1>2, <2>1 DEF Connected, Elsewhere, smVars
  <2> QED
    BY <1>0, <1>2, <2>1, <2>2, SignedStays
<1>3. ASSUME NEW o \in Owner, Open(o) PROVE SignedInvs'
  <2>1. /\ Elsewhere /\ ClientStep(o) /\ UNCHANGED <<mailbox, toClient>>
        /\ o \notin clients' /\ mailbox[o] = <<>> /\ toClient[o] = <<>>
    BY <1>0, <1>3 DEF Open, ClientStep, SignedInv, PortInv, LinkInv, Joined, Elsewhere, smVars
  <2>2. Signals(o)' = {} /\ ~ Connected(o)'
    BY <2>1 DEF Signals, InMail, OnWay, Signalled, Connected
  <2>3. SignedInv(o)'
    BY <2>1, <2>2 DEF SignedInv
  <2> QED
    BY <1>0, <1>2, <2>1, <2>3 DEF SignedInvs, MailOK
<1>4. ASSUME NEW o \in Owner, Exit(o) PROVE SignedInvs'
  <2>1. /\ Elsewhere /\ ClientStep(o)
        /\ mailbox' = [mailbox EXCEPT ![o] = <<>>] /\ toClient'[o] = <<>>
    BY <1>4 DEF Exit, ClientStep, MPTypeOK
  <2>2. MailOK' /\ mailbox'[o] = <<>> /\ \A q \in Owner \ {o} : mailbox'[q] = mailbox[q]
    BY <1>0, <2>1 DEF MailOK
  <2>3. SignedInv(o)'
    BY <2>1, <2>2 DEF SignedInv, Signals, InMail, OnWay, Signalled
  <2> QED
    BY <1>2, <2>1, <2>2, <2>3 DEF SignedInvs
<1>5. ASSUME NEW o \in Owner, Timeout(o) \/ Broken(o) PROVE SignedInvs'
  <2>1. Elsewhere /\ ClientStep(o) /\ UNCHANGED mailbox
    BY <1>5 DEF Timeout, Broken, ClientStep
  <2>2. SignedInv(o)'
    BY <1>0, <1>5, SignedTimeout
  <2> QED
    BY <1>0, <1>2, <2>1, <2>2 DEF SignedInvs, MailOK
<1>6. ASSUME NEW o \in Owner, Receive(o) PROVE SignedInvs'
  <2>1. Elsewhere /\ ClientStep(o)
    BY <1>6 DEF Receive, ClientStep
  <2>2. MailOK' /\ SignedInv(o)' /\ \A q \in Owner \ {o} : mailbox'[q] = mailbox[q]
    BY <1>0, <1>6, SignedReceive
  <2> QED
    BY <1>2, <2>1, <2>2 DEF SignedInvs
<1>7. ASSUME NEW o \in Owner, Dispatch(o) PROVE SignedInvs'
  <2>1. /\ Elsewhere /\ ClientStep(o) /\ UNCHANGED <<clients, link, backlog, toClient>>
        /\ mailbox[o] # <<>> /\ mailbox' = [mailbox EXCEPT ![o] = Tail(@)]
    BY <1>7 DEF Dispatch, ClientStep, Elsewhere, smVars
  <2>2. MailOK' /\ InMail(o)' \subseteq InMail(o) /\ \A q \in Owner \ {o} : mailbox'[q] = mailbox[q]
    BY <1>0, <2>1, MailTail DEF MailOK
  <2>3. OnWay(o)' = OnWay(o)
    BY <2>1 DEF OnWay, Signalled
  <2>4. SignedInv(o)'
    <3>1. Signals(o)' \subseteq Signals(o)
      BY <2>2, <2>3 DEF Signals
    <3>2. ~ (o \in backlog' \/ link'[o] \in {"none", "exited"}) /\ (Connected(o)' => Connected(o))
      BY <1>0, <2>1 DEF SignedInv, Connected
    <3> QED
      BY <1>0, <3>1, <3>2, SignedKept
  <2> QED
    BY <1>2, <2>1, <2>2, <2>4 DEF SignedInvs
<1>8. ASSUME NEW o \in Owner, HangUp(o) PROVE SignedInvs'
  <2>1. /\ UNCHANGED <<clients, backlog, mailbox, toClient>>
        /\ link' = [link EXCEPT ![o] = "down"]
    BY <1>8 DEF HangUp, Elsewhere, smVars
  <2>2. ASSUME NEW q \in Owner PROVE SignedInv(q)'
    BY <1>0, <2>1, SignedStays DEF Connected, MPTypeOK
  <2> QED
    BY <1>0, <2>1, <2>2 DEF SignedInvs, MailOK
<1>9. ASSUME NEW o \in Owner, Calls(o) PROVE SignedInvs'
  <2>1. Elsewhere /\ UNCHANGED <<link, backlog, toClient>>
    BY <1>9, BeginsLemma DEF Begins
  <2>2. UNCHANGED mailbox
    <3>1. \A api : Begin(o, api) => UNCHANGED mailbox
      BY DEF Begin
    <3>2. \A n, t : RegisterPort(o, n, t) => UNCHANGED mailbox
      BY <3>1 DEF RegisterPort
    <3>3. \A id : ReadLocalPort(o, id) => UNCHANGED mailbox
      BY <3>1 DEF ReadLocalPort
    <3>4. \A id, t : UnregisterPort(o, id, t) => UNCHANGED mailbox
      BY <3>1 DEF UnregisterPort
    <3>5. \A api, a, n, t : CheckFirst(o, api, a, n, t) => UNCHANGED mailbox
      BY <3>1 DEF CheckFirst
    <3>6. \A id, a, n, t : SendBidirectional(o, id, a, n, t) => UNCHANGED mailbox
      BY <3>1 DEF SendBidirectional
    <3> QED
      BY <1>9, <3>2, <3>3, <3>4, <3>5, <3>6 DEF Calls, CheckRemotePort, SendPortMessage
  <2>3. ASSUME NEW q \in Owner PROVE SignedInv(q)'
    BY <1>0, <2>1, <2>2, SignedStays DEF Connected, Elsewhere, smVars
  <2> QED
    BY <1>0, <2>2, <2>3 DEF SignedInvs, MailOK
<1>10. ASSUME NEW o \in Owner, Serve(o) PROVE SignedInvs'
  <2>1. ASSUME NEW q \in Owner PROVE SignedInv(q)'
    BY <1>0, <1>10, SignedServe
  <2> QED
    BY <1>0, <1>10, <2>1 DEF Serve, SignedInvs, MailOK
\* A connection that the daemon accepts has received nothing yet.
<1>11. ASSUME NEW o \in Owner, Pick(o) PROVE SignedInvs'
  <2>1. /\ UNCHANGED <<link, mailbox, toClient>>
        /\ clients' = clients \cup {o} /\ backlog' = backlog \ {o} /\ o \in backlog
    BY <1>11 DEF Pick, Accept, Connect
  <2>2. mailbox[o] = <<>> /\ toClient[o] = <<>>
    BY <1>0, <2>1 DEF SignedInv, PortInv, LinkInv
  <2>3. SignedInv(o)'
    BY <2>1, <2>2 DEF SignedInv, Signals, InMail, OnWay, Signalled
  <2>4. ASSUME NEW q \in Owner, q # o PROVE SignedInv(q)'
    BY <1>0, <2>1, <2>4, SignedStays DEF Connected
  <2> QED
    BY <1>0, <2>1, <2>3, <2>4 DEF SignedInvs, MailOK
<1>12. ASSUME NEW o \in Owner, Notice(o) PROVE SignedInvs'
  <2>1. /\ UNCHANGED <<backlog, mailbox, toClient>>
        /\ clients' = clients \ {o} /\ link' = [link EXCEPT ![o] = "none"] /\ link[o] = "exited"
    BY <1>12 DEF Notice, Closed, Disconnect
  <2>2. ASSUME NEW q \in Owner PROVE SignedInv(q)'
    BY <1>0, <2>1, SignedStays DEF Connected, MPTypeOK
  <2> QED
    BY <1>0, <2>1, <2>2 DEF SignedInvs, MailOK
<1>13. CASE DaemonDies
  <2>1. /\ UNCHANGED <<mailbox, toClient>> /\ clients' = {} /\ backlog' = {}
        /\ link' = [o \in Owner |-> IF link[o] = "exited" THEN "none" ELSE link[o]]
    BY <1>13 DEF DaemonDies, DaemonRestart, Restart
  <2>2. ASSUME NEW q \in Owner PROVE SignedInv(q)'
    BY <1>0, <2>1, SignedStays DEF Connected
  <2> QED
    BY <1>0, <2>1, <2>2 DEF SignedInvs, MailOK
<1> HIDE DEF SignedInvs
<1> QED
  BY <1>1, <1>3, <1>4, <1>5, <1>6, <1>7, <1>8, <1>9, <1>10, <1>11, <1>12, <1>13, MPSteps

\* The rule of delivery of the daemon holds in the composition.
LEMMA ComposedDelivery == MPSpec => []TrustedDelivery
  BY PortsUseDaemon, DeliveryIsTrusted, PTL

LEMMA SignedInvariance == MPSpec => [](IInv /\ MPInv /\ CachesInv /\ SignedInvs)
<1> DEFINE I == IInv /\ DInv /\ MPTypeOK /\ MPInv /\ CachesInv
<1>1. I /\ I' /\ TrustedDelivery' /\ SignedInvs /\ [MPNext]_mpVars => SignedInvs'
  BY SignedStep
<1>2. MPSpec => []I
  BY CachesInvariance
<1>3. I => IInv /\ MPInv /\ CachesInv
  OBVIOUS
<1> HIDE DEF I
<1> QED
  BY <1>1, <1>2, <1>3, ComposedDelivery, SignedInit, PTL DEF MPSpec

\* While the daemon has the connection of a thread, a message on its way to the callback
\* of one of its trusted ports was sent by an application with the certificate of the
\* application the daemon takes the thread for, unless it takes that for one without.
THEOREM CallbacksAreTrusted == MPSpec => []TrustedCallback
  BY SignedInvariance, SignedImply, PTL
=============================================================================
