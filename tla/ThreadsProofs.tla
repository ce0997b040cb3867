---------------------------- MODULE ThreadsProofs ----------------------------
(***************************************************************************)
(* Theorems about Threads for every number of threads, managers, handlers  *)
(* and daemon processes.                                                   *)
(***************************************************************************)
EXTENDS Threads, StartupProofs

-----------------------------------------------------------------------------
(* The factory.                                                            *)

PC == {"ended", "out", "init", "get", "connect", "have", "store", "load"}

Words == [Field -> Handler \cup {None}]
Works == {w \in [manager : Client \cup {None}, handler : Words, todo : SUBSET Field] :
            w.todo # {} => w.manager \in Client}

\* Of the links only this is needed.
LinkOK == link = [c \in Client |-> link[c]]

TTypeOK == /\ created \in BOOLEAN
           /\ managers \in [Thread -> Client \cup {None}]
           /\ lock \in Thread \cup {None}
           /\ pc \in [Thread -> PC]
           /\ mine \in [Thread -> Client \cup {None}]
           /\ work \in [Thread -> Works]
           /\ port \in [Client -> [handler : Words, loop : Thread \cup {None}]]
           /\ LinkOK

\* A manager in the table has begun to connect, and belongs to one thread.
Entered(m) == \E t \in Thread : managers[t] = m

\* The thread that connects has the lock, no entry yet, and a manager in its hands
\* that nobody else has.  Without a table nobody has a manager.
FactoryInv ==
  /\ \A t \in Thread : pc[t] = "connect" <=> lock = t
  /\ \A t \in Thread : pc[t] = "connect" =>
       /\ managers[t] = None
       /\ work[t].manager \in Client
       /\ link[work[t].manager].at # "none"
       /\ ~ Entered(work[t].manager)
  /\ \A t \in Thread : pc[t] \notin {"ended", "out", "init", "load"} => created
  /\ ~ created => managers = NoEntries
  /\ \A t, u \in Thread : managers[t] # None /\ managers[t] = managers[u] => t = u
  /\ \A t \in Thread : managers[t] # None => link[managers[t]].at # "none"
  /\ \A t \in Thread : mine[t] # None => managers[t] = mine[t]
  /\ \A t \in Thread : pc[t] \in {"have", "store"} => mine[t] # None

TInv == TTypeOK /\ FactoryInv

\* At the start there is no table and nobody works.
LEMMA TInvInit == TInit => TInv
<1> SUFFICES ASSUME TInit PROVE TInv
  OBVIOUS
<1> USE DEF TInit, SInit
<1>1. NoHandler \in Words
  BY DEF NoHandler, Words
<1>2. Idle \in Works /\ Idle.manager = None
  BY <1>1 DEF Idle, Work, Works
<1>3. TTypeOK
  BY <1>1, <1>2, MainAssumption DEF TTypeOK, NoEntries, PC, NoPort, LinkOK
<1>4. FactoryInv
  BY NullAssumption DEF FactoryInv, NoEntries
<1> QED
  BY <1>3, <1>4 DEF TInv

\* A manager that has begun to connect never goes back, whoever moves.
LinksGoOn == \A c \in Client : link[c].at # "none" => link'[c].at # "none"

LEMMA LinkedLemma ==
  ASSUME LinkOK, NEW c \in Client, NEW at, NEW p, at # "none", Linked(c, Link(at, p))
  PROVE  LinkOK' /\ LinksGoOn /\ link'[c].at # "none"
<1>1. \A d \in Client : link'[d] = IF d = c THEN Link(at, p) ELSE link[d]
  BY DEF LinkOK, Linked
<1>2. link' = [d \in Client |-> link'[d]]
  BY DEF LinkOK, Linked
<1> QED
  BY <1>1, <1>2 DEF Link, LinksGoOn, LinkOK

\* What the daemon does to the links.
LEMMA DaemonLinks ==
  ASSUME LinkOK, DaemonNext
  PROVE  LinkOK' /\ LinksGoOn
<1>1. ASSUME NEW p \in Process, Ended(p)
      PROVE  LinkOK' /\ LinksGoOn
  BY <1>1 DEF Ended, LinkOK, LinksGoOn, Link
<1>2. CASE UNCHANGED link
  BY <1>2 DEF LinkOK, LinksGoOn
<1> QED
  BY <1>1, <1>2 DEF DaemonNext, Start, ProcessStep, StartBusServer, Bind, PathTaken,
                    BindRefused, Refused, OwnName, NameLost, UnixSignal, MainReturns, Kill

\* What a connect does to the links.
LEMMA ConnectLinks ==
  ASSUME LinkOK, NEW c \in Client, ConnectStep(c) \/ ManagerInit(c)
  PROVE  LinkOK' /\ LinksGoOn /\ link'[c].at # "none"
<1>1. CASE \E at, p : at # "none" /\ Linked(c, Link(at, p))
  BY <1>1, LinkedLemma
<1>2. CASE Activated(c)
  BY <1>1, <1>2 DEF Activated
<1>3. CASE GetBusAddress(c)
  BY <1>1, <1>3 DEF GetBusAddress
<1>4. CASE Dial(c)
  BY <1>1, <1>4 DEF Dial
<1>5. CASE HandshakeDone(c)
  BY <1>1, <1>5 DEF HandshakeDone
<1>6. CASE ManagerInit(c)
  BY <1>1, <1>6 DEF ManagerInit
<1> QED
  BY <1>2, <1>3, <1>4, <1>5, <1>6 DEF ConnectStep

\* Each step keeps types and the rules of the factory.
LEMMA TInvStep == TInv /\ [TNext]_tVars => TInv'
<1> SUFFICES ASSUME TInv, [TNext]_tVars PROVE TInv'
  OBVIOUS
<1> USE DEF TInv
<1>n. None \notin Thread /\ None \notin Client
  BY NullAssumption, NoneAssumption
<1>h. NoHandler \in Words /\ Idle \in Works
  BY DEF NoHandler, Words, Idle, Work, Works
\* Steps that leave the factory alone.
<1>q. ASSUME UNCHANGED <<created, managers, lock, pc, mine, work, port>>, LinkOK', LinksGoOn
      PROVE  TInv'
  <2>1. TTypeOK'
    BY <1>q DEF TTypeOK
  <2>2. FactoryInv'
    BY <1>q DEF TTypeOK, FactoryInv, LinksGoOn, Entered
  <2> QED
    BY <2>1, <2>2
<1>1. CASE DaemonNext /\ UNCHANGED threadVars
  BY <1>1, <1>q, DaemonLinks DEF threadVars, TTypeOK
<1>2. ASSUME NEW t \in Thread, ThreadStarts(t) PROVE TInv'
  <2>1. TTypeOK'
    BY <1>2 DEF ThreadStarts, startupVars, TTypeOK, PC, LinkOK
  <2>2. FactoryInv'
    BY <1>2 DEF ThreadStarts, startupVars, TTypeOK, FactoryInv, Entered
  <2> QED
    BY <2>1, <2>2
<1>3. ASSUME NEW t \in Thread, ThreadEnds(t) PROVE TInv'
  <2>1. TTypeOK'
    BY <1>3 DEF ThreadEnds, startupVars, TTypeOK, PC, LinkOK
  <2>2. FactoryInv'
    BY <1>3 DEF ThreadEnds, startupVars, TTypeOK, FactoryInv, Entered
  <2> QED
    BY <2>1, <2>2
<1>4. ASSUME NEW t \in Thread, GetManager(t) PROVE TInv'
  <2>1. TTypeOK'
    BY <1>4 DEF GetManager, startupVars, TTypeOK, PC, LinkOK
  <2>2. FactoryInv'
    BY <1>4 DEF GetManager, startupVars, TTypeOK, FactoryInv, Entered
  <2> QED
    BY <2>1, <2>2
<1>5. ASSUME NEW t \in Thread, FactoryInit(t) PROVE TInv'
  <2>0. managers' = managers
    BY <1>5 DEF FactoryInit, InitTable, FactoryInv
  <2>1. TTypeOK'
    BY <1>5, <2>0 DEF FactoryInit, startupVars, TTypeOK, PC, LinkOK
  <2>2. FactoryInv'
    BY <1>5, <2>0 DEF FactoryInit, startupVars, TTypeOK, FactoryInv, Entered
  <2> QED
    BY <2>1, <2>2
<1>6. ASSUME NEW t \in Thread, Lookup(t) PROVE TInv'
  <2>1. TTypeOK'
    BY <1>6 DEF Lookup, Self, startupVars, TTypeOK, PC, LinkOK
  <2>2. FactoryInv'
    BY <1>6 DEF Lookup, Self, startupVars, TTypeOK, FactoryInv, Entered
  <2> QED
    BY <2>1, <2>2
<1>7. ASSUME NEW t \in Thread, ManagerNew(t) PROVE TInv'
  <2>1. PICK m \in Client : /\ ManagerInit(m)
                            /\ work' = [work EXCEPT ![t] = Work(m, NoHandler, {})]
    BY <1>7 DEF ManagerNew
  <2>2. LinkOK' /\ LinksGoOn /\ link[m].at = "none" /\ link'[m].at # "none"
    BY <2>1, ConnectLinks DEF TTypeOK, ManagerInit
  <2>3. Work(m, NoHandler, {}) \in Works /\ Work(m, NoHandler, {}).manager = m
    BY <1>h DEF Work, Works
  <2>4. TTypeOK'
    BY <1>7, <2>1, <2>2, <2>3 DEF ManagerNew, TTypeOK, PC
  <2>5. ~ Entered(m)
    BY <1>n, <2>2 DEF FactoryInv, Entered
  <2>6. FactoryInv'
    BY <1>7, <1>n, <2>1, <2>2, <2>3, <2>5
    DEF ManagerNew, Self, TTypeOK, FactoryInv, Entered, LinksGoOn
  <2> QED
    BY <2>4, <2>6
<1>8. ASSUME NEW t \in Thread, Connect(t) PROVE TInv'
  BY <1>8, <1>q, ConnectLinks DEF Connect, threadVars, TTypeOK, FactoryInv
<1>9. ASSUME NEW t \in Thread, Insert(t) PROVE TInv'
  <2>1. work[t].manager \in Client
    BY <1>9 DEF Insert, FactoryInv
  <2>2. TTypeOK'
    BY <1>9, <1>h, <2>1 DEF Insert, Self, Unlocked, startupVars, TTypeOK, PC, LinkOK
  <2>3. FactoryInv'
    BY <1>9, <1>n, <2>1
    DEF Insert, Self, Unlocked, startupVars, TTypeOK, FactoryInv, Entered
  <2> QED
    BY <2>2, <2>3
\* Steps that only change handlers and go on to handlers or out of the library.
<1>r. ASSUME NEW t \in Thread, pc[t] \in {"out", "have", "store", "load"},
             pc'[t] \in {"out", "load"} \/ (pc'[t] = "store" /\ pc[t] \in {"have", "store"}),
             pc' = [pc EXCEPT ![t] = pc'[t]],
             \A u \in Thread : u # t => work'[u] = work[u],
             UNCHANGED <<startupVars, created, managers, lock, mine>>
      PROVE  FactoryInv'
  <2>1. pc[t] # "connect" /\ pc'[t] # "connect" /\ (pc'[t] = "store" => created /\ mine[t] # None)
    BY <1>r DEF FactoryInv
  <2>2. \A u \in Thread : u # t => pc'[u] = pc[u]
    BY <1>r DEF TTypeOK
  <2>3. link' = link
    BY <1>r DEF startupVars
  <2> QED
    BY <1>r, <2>1, <2>2, <2>3 DEF FactoryInv, Entered
<1>10. ASSUME NEW t \in Thread, OtherCall(t) PROVE TInv'
  <2>1. TTypeOK'
    BY <1>10 DEF OtherCall, startupVars, TTypeOK, PC, LinkOK
  <2> QED
    BY <1>10, <1>r, <2>1 DEF OtherCall, TTypeOK, FactoryInv
<1>11. ASSUME NEW t \in Thread, RegisterPort(t) PROVE TInv'
  <2>1. PICK h \in Handler, loop \in {t, Main} :
          port' = [port EXCEPT ![mine[t]] = [handler |-> [f \in Field |-> h], loop |-> loop]]
    BY <1>11 DEF RegisterPort
  <2>2. [f \in Field |-> h] \in Words /\ loop \in Thread
    BY MainAssumption DEF Words
  <2>3. port' \in [Client -> [handler : Words, loop : Thread \cup {None}]]
    BY <2>1, <2>2 DEF TTypeOK
  <2>4. TTypeOK'
    BY <1>11, <2>3 DEF RegisterPort, startupVars, TTypeOK, PC, LinkOK
  <2> QED
    BY <1>11, <1>r, <2>4 DEF RegisterPort, TTypeOK
<1>12. ASSUME NEW t \in Thread, SetMessageHandler(t) PROVE TInv'
  <2>1. PICK h \in Handler :
          work' = [work EXCEPT ![t] = Work(mine[t], [f \in Field |-> h], Field)]
    BY <1>12 DEF SetMessageHandler
  <2>2. Work(mine[t], [f \in Field |-> h], Field) \in Works
    BY <1>12, <1>n DEF SetMessageHandler, FactoryInv, Work, Works, Words, TTypeOK
  <2>3. work' \in [Thread -> Works]
    BY <2>1, <2>2 DEF TTypeOK
  <2>4. TTypeOK'
    BY <1>12, <2>3 DEF SetMessageHandler, startupVars, TTypeOK, PC, LinkOK
  <2> QED
    BY <1>12, <1>r, <2>1, <2>4 DEF SetMessageHandler, TTypeOK
<1>13. ASSUME NEW t \in Thread, Store(t) PROVE TInv'
  <2>1. PICK f \in work[t].todo :
          /\ port' = [port EXCEPT ![work[t].manager].handler[f] = work[t].handler[f]]
          /\ work' = [work EXCEPT ![t] =
                         IF @.todo = {f} THEN Idle
                         ELSE Work(@.manager, @.handler, @.todo \ {f})]
    BY <1>13 DEF Store
  <2>2. work[t] \in Works /\ f \in Field
    BY <2>1 DEF TTypeOK, Works
  <2>3. Work(work[t].manager, work[t].handler, work[t].todo \ {f}) \in Works
    BY <2>2 DEF Work, Works
  <2>4. work' \in [Thread -> Works]
    BY <1>h, <2>1, <2>3 DEF TTypeOK
  <2>5. port' \in [Client -> [handler : Words, loop : Thread \cup {None}]]
    BY <2>1, <2>2 DEF TTypeOK, Works, Words
  <2>6. TTypeOK'
    BY <1>13, <2>4, <2>5 DEF Store, startupVars, TTypeOK, PC, LinkOK
  <2> QED
    BY <1>13, <1>r, <2>1, <2>6 DEF Store, TTypeOK
<1>14. ASSUME NEW t \in Thread, OnGotMessage(t) PROVE TInv'
  <2>1. PICK m \in Client : work' = [work EXCEPT ![t] = Work(m, NoHandler, Field)]
    BY <1>14 DEF OnGotMessage
  <2>2. Work(m, NoHandler, Field) \in Works
    BY <1>h DEF Work, Works
  <2>3. TTypeOK'
    BY <1>14, <2>1, <2>2 DEF OnGotMessage, startupVars, TTypeOK, PC, LinkOK
  <2> QED
    BY <1>14, <1>r, <2>1, <2>3 DEF OnGotMessage, TTypeOK
<1>15. ASSUME NEW t \in Thread, Load(t) PROVE TInv'
  <2>1. PICK f \in work[t].todo :
          work' = [work EXCEPT ![t].handler[f] = port[work[t].manager].handler[f],
                               ![t].todo = @ \ {f}]
    BY <1>15 DEF Load
  <2>2. work[t] \in Works /\ f \in Field /\ work[t].manager \in Client
    BY <2>1 DEF TTypeOK, Works
  <2>3. port[work[t].manager].handler[f] \in Handler \cup {None}
    BY <2>2 DEF TTypeOK, Words
  <2>4. [work[t] EXCEPT !.handler[f] = port[work[t].manager].handler[f], !.todo = @ \ {f}]
          \in Works
    BY <2>2, <2>3 DEF Works, Words
  <2>5. work' = [work EXCEPT ![t] = [work[t] EXCEPT !.handler[f] = port[work[t].manager].handler[f],
                                                   !.todo = @ \ {f}]]
    BY <2>1 DEF TTypeOK
  <2>6. work' \in [Thread -> Works]
    BY <2>4, <2>5 DEF TTypeOK
  <2>7. TTypeOK'
    BY <1>15, <2>6 DEF Load, startupVars, TTypeOK, PC, LinkOK
  <2> QED
    BY <1>15, <1>r, <2>1, <2>7 DEF Load, TTypeOK
<1>16. ASSUME NEW t \in Thread, Callback(t) PROVE TInv'
  <2>1. TTypeOK'
    BY <1>16, <1>h DEF Callback, startupVars, TTypeOK, PC, LinkOK
  <2> QED
    BY <1>16, <1>r, <2>1 DEF Callback, TTypeOK
<1>17. CASE UNCHANGED tVars
  <2>1. LinkOK' /\ LinksGoOn
    BY <1>17 DEF tVars, startupVars, TTypeOK, LinkOK, LinksGoOn
  <2> QED
    BY <1>17, <1>q, <2>1 DEF tVars, threadVars
<1> QED
  BY <1>1, <1>2, <1>3, <1>4, <1>5, <1>6, <1>7, <1>8, <1>9, <1>10, <1>11, <1>12, <1>13, <1>14,
     <1>15, <1>16, <1>17 DEF TNext

\* The types and the rules of the factory hold always.
THEOREM TInvariance == TSpec => []TInv
<1> QED
  BY TInvInit, TInvStep, PTL DEF TSpec

-----------------------------------------------------------------------------
(* What the threads get from the factory.                                  *)

\* A thread keeps its manager, and no other thread that runs works with it: two
\* threads that find no table at the same time, and a thread that takes the place of
\* one that ended, are part of this.
THEOREM ManagersAreOwn == TSpec => []OwnManager
<1>1. TInv => OwnManager
  BY DEF TInv, FactoryInv, OwnManager
<1> QED
  BY <1>1, TInvariance, PTL

\* However the threads of an application share the factory, their managers connect
\* as Startup says: none connects twice or before it was created.
THEOREM ThreadsUseStartup == TSpec => SSpec
<1>1. TInit => SInit
  BY DEF TInit
<1>2. TInv /\ [TNext]_tVars => [SNext]_startupVars
  <2> SUFFICES ASSUME TInv, TNext, ~ UNCHANGED startupVars PROVE SNext
    BY DEF tVars
  <2>1. CASE DaemonNext
    BY <2>1 DEF SNext
  <2>2. ASSUME NEW t \in Thread, ManagerNew(t) PROVE SNext
    BY <2>2 DEF ManagerNew, SNext
  <2>3. ASSUME NEW t \in Thread, Connect(t) PROVE SNext
    BY <2>3 DEF Connect, SNext, TInv, FactoryInv
  <2> QED
    BY <2>1, <2>2, <2>3 DEF TNext, ThreadStarts, ThreadEnds, GetManager, FactoryInit, Lookup,
         Insert, OtherCall, RegisterPort, SetMessageHandler, Store, OnGotMessage, Load, Callback
<1> QED
  BY <1>1, <1>2, TInvariance, PTL DEF TSpec, SSpec

\* With threads too, nothing that daemons before it left behind keeps a daemon of the
\* default build from its socket.
THEOREM NothingLeftBlocksDaemonOfThreads == TSpec => []FileLeadsToDaemon
<1> QED
  BY ThreadsUseStartup, NothingLeftBlocksDaemon, PTL

-----------------------------------------------------------------------------
(* The handlers of ports that are called in their thread's own loop.       *)

\* The words a thread has stored are in the port until it is done, since nobody else
\* stores to the port; only then can a port have words that are not a pair.
StoringOK(t) ==
  pc[t] = "store" =>
    /\ work[t].manager = mine[t]
    /\ work[t].manager \in Client
    /\ IsPair(work[t].handler)
    /\ work[t].todo # {}
    /\ \A f \in Field \ work[t].todo :
         port[work[t].manager].handler[f] = work[t].handler[f]

PortOK(m) == \/ IsPair(port[m].handler)
             \/ \E t \in Thread : pc[t] = "store" /\ work[t].manager = m

LoadingOK(t) ==
  pc[t] = "load" =>
    /\ work[t].manager \in Client
    /\ work[t].manager = mine[t] =>
         \A f \in Field \ work[t].todo :
           work[t].handler[f] = port[work[t].manager].handler[f]

HandlersInv == /\ \A t \in Thread : StoringOK(t) /\ LoadingOK(t)
               /\ \A m \in Client : PortOK(m)

\* At the start no port has a handler.
LEMMA HandlersInit == TInit => HandlersInv
  BY DEF TInit, HandlersInv, StoringOK, PortOK, LoadingOK, NoPort, NoHandler, IsPair, Field

\* Each step keeps the rules of the handlers.
LEMMA HandlersStep == TInv /\ HandlersInv /\ [TNext]_tVars => HandlersInv'
<1> SUFFICES ASSUME TInv, HandlersInv, [TNext]_tVars PROVE HandlersInv'
  OBVIOUS
<1> USE DEF TInv, StoringOK, PortOK, LoadingOK
<1>n. None \notin Client
  BY NoneAssumption
<1>o. \A t, u \in Thread : mine[t] # None /\ mine[t] = mine[u] => t = u
  BY DEF FactoryInv
<1>w. \A f : f \in Field => f = "client_cb" \/ f = "client_data"
  BY DEF Field
\* The thread that moves neither stores nor loads.
<1>q. ASSUME NEW t \in Thread, pc[t] \notin {"store", "load"}, pc'[t] \notin {"store", "load"},
             \A u \in Thread : u # t => pc'[u] = pc[u] /\ mine'[u] = mine[u] /\ work'[u] = work[u],
             \A m \in Client : port'[m].handler = port[m].handler
      PROVE  HandlersInv'
  BY <1>q DEF HandlersInv
<1>0. CASE UNCHANGED threadVars
  BY <1>0 DEF HandlersInv, threadVars
<1>1. ASSUME NEW t \in Thread, ThreadEnds(t) PROVE HandlersInv'
  <2>1. \A m \in Client : port'[m].handler = port[m].handler
    BY <1>1 DEF ThreadEnds, TTypeOK
  <2> QED
    BY <1>1, <1>q, <2>1 DEF ThreadEnds, TTypeOK
<1>2. ASSUME NEW t \in Thread,
             \/ ThreadStarts(t) \/ GetManager(t) \/ FactoryInit(t) \/ Lookup(t) \/ ManagerNew(t)
             \/ Insert(t) \/ OtherCall(t)
      PROVE  HandlersInv'
  BY <1>2, <1>q DEF TTypeOK, ThreadStarts, GetManager, FactoryInit, Lookup, ManagerNew, Insert,
                    OtherCall
<1>3. ASSUME NEW t \in Thread, RegisterPort(t) PROVE HandlersInv'
  <2>1. PICK h \in Handler, loop \in {t, Main} :
          port' = [port EXCEPT ![mine[t]] = [handler |-> [f \in Field |-> h], loop |-> loop]]
    BY <1>3 DEF RegisterPort
  <2>2. mine[t] \in Client
    BY <1>3 DEF RegisterPort, FactoryInv, TTypeOK
  <2>3. IsPair(port'[mine[t]].handler)
    BY <2>1, <2>2 DEF TTypeOK, IsPair, Field
  <2>4. \A m \in Client : m # mine[t] => port'[m] = port[m]
    BY <2>1 DEF TTypeOK
  <2>5. pc[t] = "have" /\ pc'[t] = "out" /\ \A u \in Thread : u # t => pc'[u] = pc[u]
    BY <1>3 DEF RegisterPort, TTypeOK
  <2>6. UNCHANGED <<mine, work>>
    BY <1>3 DEF RegisterPort
  <2>7. \A u \in Thread : u # t => mine[u] # mine[t]
    BY <1>o, <1>n, <2>2
  <2> QED
    BY <2>3, <2>4, <2>5, <2>6, <2>7 DEF HandlersInv
<1>4. ASSUME NEW t \in Thread, SetMessageHandler(t) PROVE HandlersInv'
  <2>1. PICK h \in Handler :
          work' = [work EXCEPT ![t] = Work(mine[t], [f \in Field |-> h], Field)]
    BY <1>4 DEF SetMessageHandler
  <2>2. mine[t] \in Client
    BY <1>4 DEF SetMessageHandler, FactoryInv, TTypeOK
  <2>3. /\ work'[t].manager = mine[t] /\ work'[t].todo = Field /\ IsPair(work'[t].handler)
        /\ \A u \in Thread : u # t => work'[u] = work[u]
    BY <2>1 DEF TTypeOK, Work, IsPair, Field
  <2>4. pc[t] = "have" /\ pc'[t] = "store" /\ \A u \in Thread : u # t => pc'[u] = pc[u]
    BY <1>4 DEF SetMessageHandler, TTypeOK
  <2>5. UNCHANGED <<mine, port>> /\ Field # {}
    BY <1>4 DEF SetMessageHandler, Field
  <2> QED
    BY <2>2, <2>3, <2>4, <2>5 DEF HandlersInv
<1>5. ASSUME NEW t \in Thread, Store(t) PROVE HandlersInv'
  <2> DEFINE m == work[t].manager
  <2>1. PICK f \in work[t].todo :
          /\ port' = [port EXCEPT ![m].handler[f] = work[t].handler[f]]
          /\ work' = [work EXCEPT ![t] =
                         IF @.todo = {f} THEN Idle
                         ELSE Work(@.manager, @.handler, @.todo \ {f})]
    BY <1>5 DEF Store
  <2>2. /\ pc[t] = "store" /\ m \in Client /\ m = mine[t] /\ IsPair(work[t].handler)
        /\ \A g \in Field \ work[t].todo : port[m].handler[g] = work[t].handler[g]
    BY <1>5 DEF Store, HandlersInv
  <2>3. f \in Field /\ work[t].todo \subseteq Field
    BY <2>1 DEF TTypeOK, Works
  <2>4. \A g \in Field \ (work[t].todo \ {f}) : port'[m].handler[g] = work[t].handler[g]
    BY <2>1, <2>2, <2>3 DEF TTypeOK, Words
  <2>5. \A c \in Client : c # m => port'[c] = port[c]
    BY <2>1 DEF TTypeOK
  <2>6. /\ \A u \in Thread : u # t => pc'[u] = pc[u] /\ work'[u] = work[u]
        /\ mine' = mine
    BY <1>5, <2>1 DEF Store, TTypeOK
  <2>7. \A u \in Thread : u # t => mine[u] # m
    BY <1>o, <1>n, <2>2
  <2>8. CASE work[t].todo = {f}
    <3>1. work'[t] = Idle /\ pc'[t] = "out"
      BY <1>5, <2>1, <2>8 DEF Store, TTypeOK
    <3>2. IsPair(port'[m].handler)
      BY <2>2, <2>4, <2>8 DEF IsPair, Field
    <3> QED
      BY <2>2, <2>5, <2>6, <2>7, <3>1, <3>2 DEF HandlersInv
  <2>9. CASE work[t].todo # {f}
    <3>1. work'[t] = Work(m, work[t].handler, work[t].todo \ {f}) /\ work[t].todo \ {f} # {}
      BY <2>1, <2>9 DEF TTypeOK
    <3>2. work'[t].manager = m /\ work'[t].handler = work[t].handler
          /\ work'[t].todo = work[t].todo \ {f}
      BY <3>1 DEF Work
    <3>3. pc'[t] = "store"
      BY <1>5, <3>1, <3>2 DEF Store, TTypeOK, Idle, Work
    <3>4. StoringOK(t)' /\ LoadingOK(t)'
      BY <2>2, <2>4, <2>6, <3>1, <3>2, <3>3
    <3>5. \A u \in Thread : u # t => StoringOK(u)' /\ LoadingOK(u)'
      BY <2>2, <2>5, <2>6, <2>7 DEF HandlersInv
    <3>6. \A c \in Client : PortOK(c)'
      BY <2>2, <2>5, <2>6, <3>2, <3>3 DEF HandlersInv
    <3> QED
      BY <3>4, <3>5, <3>6 DEF HandlersInv
  <2> QED
    BY <2>8, <2>9
<1>6. ASSUME NEW t \in Thread, OnGotMessage(t) PROVE HandlersInv'
  <2>1. PICK m \in Client : work' = [work EXCEPT ![t] = Work(m, NoHandler, Field)]
    BY <1>6 DEF OnGotMessage
  <2>2. /\ work'[t].manager = m /\ work'[t].todo = Field
        /\ \A u \in Thread : u # t => work'[u] = work[u]
    BY <2>1 DEF TTypeOK, Work
  <2>3. pc[t] = "out" /\ pc'[t] = "load" /\ \A u \in Thread : u # t => pc'[u] = pc[u]
    BY <1>6 DEF OnGotMessage, TTypeOK
  <2>4. UNCHANGED <<mine, port>>
    BY <1>6 DEF OnGotMessage
  <2> QED
    BY <2>2, <2>3, <2>4 DEF HandlersInv
<1>7. ASSUME NEW t \in Thread, Load(t) PROVE HandlersInv'
  <2> DEFINE m == work[t].manager
  <2>1. PICK f \in work[t].todo :
          work' = [work EXCEPT ![t].handler[f] = port[m].handler[f], ![t].todo = @ \ {f}]
    BY <1>7 DEF Load
  <2>2. /\ work'[t] = [work[t] EXCEPT !.handler[f] = port[m].handler[f], !.todo = @ \ {f}]
        /\ \A u \in Thread : u # t => work'[u] = work[u]
    BY <2>1 DEF TTypeOK
  <2>3. work[t].handler \in Words /\ f \in Field /\ work[t] \in Works
    BY <2>1 DEF TTypeOK, Works
  <2>4. work'[t].manager = m /\ work'[t].todo = work[t].todo \ {f}
    BY <2>2, <2>3 DEF Works
  <2>5. work'[t].handler = [work[t].handler EXCEPT ![f] = port[m].handler[f]]
    BY <2>2, <2>3 DEF Works
  <2>6. UNCHANGED <<pc, mine, port>> /\ pc[t] = "load"
    BY <1>7 DEF Load
  <2>7. ASSUME m = mine[t], NEW g \in Field \ (work[t].todo \ {f})
        PROVE  work'[t].handler[g] = port[m].handler[g]
    <3>1. CASE g = f
      BY <2>3, <2>5, <3>1 DEF Words
    <3>2. CASE g # f
      BY <2>3, <2>5, <2>6, <2>7, <3>2 DEF Words, HandlersInv
    <3> QED
      BY <3>1, <3>2
  <2>8. StoringOK(t)' /\ LoadingOK(t)'
    BY <2>4, <2>6, <2>7 DEF HandlersInv
  <2>9. \A u \in Thread : u # t => StoringOK(u)' /\ LoadingOK(u)'
    BY <2>2, <2>6 DEF HandlersInv
  <2>10. \A c \in Client : PortOK(c)'
    BY <2>2, <2>6 DEF HandlersInv
  <2> QED
    BY <2>8, <2>9, <2>10 DEF HandlersInv
<1>8. ASSUME NEW t \in Thread, Callback(t) PROVE HandlersInv'
  <2>1. pc[t] = "load" /\ pc'[t] = "out" /\ \A u \in Thread : u # t => pc'[u] = pc[u]
    BY <1>8 DEF Callback, TTypeOK
  <2>2. UNCHANGED <<mine, port>> /\ \A u \in Thread : u # t => work'[u] = work[u]
    BY <1>8 DEF Callback, TTypeOK
  <2> QED
    BY <2>1, <2>2 DEF HandlersInv
<1> QED
  BY <1>0, <1>1, <1>2, <1>3, <1>4, <1>5, <1>6, <1>7, <1>8 DEF TNext, Connect, tVars, threadVars

\* Where the main loop that calls a port is the one of the thread that registered
\* it, no call mixes the callback of one registration with the user data of another,
\* although the two words are stored and loaded one by one: the thread that replaces
\* the handler is the one that would call it.
THEOREM OwnHandlersMatch == TSpec => []HandlerPairOwn
<1>1. TInv /\ HandlersInv => HandlerPairOwn
  <2> SUFFICES ASSUME TInv, HandlersInv, NEW t \in Thread, Calls(t), work[t].manager = mine[t]
               PROVE  IsPair(work[t].handler) /\ work[t].handler = port[work[t].manager].handler
    BY DEF HandlerPairOwn
  <2> USE DEF StoringOK, PortOK, LoadingOK
  <2>1. pc[t] = "load" /\ work[t].manager \in Client
    BY DEF Calls, HandlersInv
  <2>2. work[t].handler \in Words /\ port[work[t].manager].handler \in Words
    BY <2>1 DEF TInv, TTypeOK, Works
  <2>3. \A f \in Field : work[t].handler[f] = port[work[t].manager].handler[f]
    BY <2>1 DEF HandlersInv, Calls
  <2>4. work[t].handler = port[work[t].manager].handler
    BY <2>2, <2>3 DEF Words
  <2>5. ~ \E u \in Thread : pc[u] = "store" /\ work[u].manager = work[t].manager
    BY <2>1, NoneAssumption DEF HandlersInv, TInv, FactoryInv
  <2> QED
    BY <2>1, <2>4, <2>5 DEF HandlersInv
<1> QED
  BY <1>1, HandlersInit, HandlersStep, TInvariance, PTL DEF TSpec
=============================================================================
