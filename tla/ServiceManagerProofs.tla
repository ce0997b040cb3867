------------------------ MODULE ServiceManagerProofs ------------------------
(***************************************************************************)
(* Theorems about ServiceManager for every set of clients, names and       *)
(* addresses and every width of the counter.                               *)
(***************************************************************************)
EXTENDS ServiceManager, TLAPS

\* An empty table.
LEMMA NothingLemma == DOMAIN Nothing = {} /\ \A S : Nothing \in [{} -> S]
  BY DEF Nothing

\* The next id is a guint.
LEMMA NextIdLemma ==
  ASSUME TypeOK
  PROVE  NextId \in Id /\ (object_conter - 1) % IdSpace \in Id
  BY IdSpaceAssumption DEF TypeOK, NextId, Id

-----------------------------------------------------------------------------
\* The types alone are not inductive: unregistering a service reads its owner,
\* so the id table must lead to a live service.
Tables == TypeOK /\ CacheExact

\* The tables of msgport_manager_init.
LEMMA TablesInit == Init => Tables
  BY NothingLemma, IdSpaceAssumption DEF Init, Tables, TypeOK, CacheExact, Nothing, Id

\* Every step keeps the tables well typed.
LEMMA TypeStep == Tables /\ [Next]_smVars => TypeOK'
<1> SUFFICES ASSUME TypeOK, CacheExact, [Next]_smVars PROVE TypeOK'
  BY DEF Tables
<1> USE DEF TypeOK
<1>1. CASE UNCHANGED smVars
  BY <1>1 DEF smVars
<1>2. ASSUME NEW o \in Owner, Connect(o) PROVE TypeOK'
  BY <1>2 DEF Connect
<1>3. ASSUME NEW o \in Owner, NEW n \in Name, NEW t \in BOOLEAN, RegisterFound(o, n, t)
      PROVE  TypeOK'
  BY <1>3 DEF RegisterFound, smVars
<1>4. ASSUME NEW o \in Owner, NEW n \in Name, NEW t \in BOOLEAN, RegisterNew(o, n, t)
      PROVE  TypeOK'
  <2>1. PICK p \in Addr \ DOMAIN heap :
          /\ heap' = Put(Release(GetServiceById(NextId)), p,
                         [id |-> NextId, owner |-> o, port_name |-> n, is_trusted |-> t])
          /\ service_cache' = Put(service_cache, NextId, p)
          /\ owner_service_map' = Put(owner_service_map, o, Services(o) \cup {p})
    BY <1>4 DEF RegisterNew
  <2>2. NextId \in Id
    BY NextIdLemma
  <2>3. [id |-> NextId, owner |-> o, port_name |-> n, is_trusted |-> t] \in Service
    BY <2>2 DEF Service
  <2>4. DOMAIN heap' \subseteq Addr /\ heap' \in [DOMAIN heap' -> Service]
    BY <2>1, <2>3 DEF Put, Release, Drop, Restrict
  <2>5. DOMAIN service_cache' \subseteq Id /\ service_cache' \in [DOMAIN service_cache' -> Addr]
    BY <2>1, <2>2 DEF Put
  <2>6. Services(o) \subseteq Addr
    BY DEF Services
  <2>7. /\ DOMAIN owner_service_map' \subseteq Owner
        /\ owner_service_map' \in [DOMAIN owner_service_map' -> SUBSET Addr]
    BY <2>1, <2>6 DEF Put
  <2> QED
    BY <1>4, <2>2, <2>4, <2>5, <2>7 DEF RegisterNew
<1>5. ASSUME NEW o \in Owner, NEW n \in Name, NEW t \in BOOLEAN, RegisterExportFails(o, n, t)
      PROVE  TypeOK'
  BY <1>5, NextIdLemma DEF RegisterExportFails
<1>6. ASSUME NEW id \in Id, UnregisterService(id) PROVE TypeOK'
  <2>1. PICK p \in GetServiceById(id) :
          /\ owner_service_map' = ListWithoutService(heap[p].owner, p)
          /\ heap' = Release({p})
    BY <1>6 DEF UnregisterService
  <2>2. id \in DOMAIN service_cache /\ p = service_cache[id]
    BY DEF GetServiceById
  <2>3. p \in DOMAIN heap /\ heap[p] \in Service
    BY <2>2 DEF CacheExact
  <2>4. heap[p].owner \in Owner
    BY <2>3 DEF Service
  <2>5. Services(heap[p].owner) \ {p} \subseteq Addr
    BY DEF Services
  <2>6. /\ DOMAIN owner_service_map' \subseteq Owner
        /\ owner_service_map' \in [DOMAIN owner_service_map' -> SUBSET Addr]
    BY <2>1, <2>4, <2>5 DEF ListWithoutService, Put
  <2>7. DOMAIN heap' \subseteq Addr /\ heap' \in [DOMAIN heap' -> Service]
    BY <2>1 DEF Release, Drop, Restrict
  <2>8. /\ DOMAIN service_cache' \subseteq Id
        /\ service_cache' \in [DOMAIN service_cache' -> Addr]
    BY <1>6 DEF UnregisterService, Drop, Restrict
  <2> QED
    BY <1>6, <2>6, <2>7, <2>8 DEF UnregisterService
<1>7. ASSUME NEW o \in Owner, Disconnect(o) PROVE TypeOK'
  <2>1. CASE clients' = {}
    BY <1>7, <2>1, NothingLemma DEF Disconnect, Nothing
  <2>2. CASE clients' # {}
    <3>1. PICK ids \in IdsOf(o) :
            /\ heap' = Release(UNION {GetServiceById(i) : i \in ids})
            /\ service_cache' = Drop(service_cache, ids)
      BY <1>7, <2>2 DEF Disconnect
    <3>2. owner_service_map' = ListsWithout(o)
      BY <1>7, <2>2 DEF Disconnect
    <3> QED
      BY <1>7, <3>1, <3>2 DEF Disconnect, Release, Drop, Restrict, ListsWithout
  <2> QED
    BY <2>1, <2>2
<1>8. ASSUME Restart PROVE TypeOK'
  BY <1>8, NothingLemma, IdSpaceAssumption DEF Restart, Nothing, Id
<1> QED
  BY <1>1, <1>2, <1>3, <1>4, <1>5, <1>6, <1>7, <1>8 DEF Next

\* Every step keeps the id table and the service objects in step with each other.
LEMMA CacheStep == Tables /\ [Next]_smVars => CacheExact'
<1> SUFFICES ASSUME TypeOK, CacheExact, [Next]_smVars PROVE CacheExact'
  BY DEF Tables
<1>1. CASE UNCHANGED smVars
  BY <1>1 DEF smVars, CacheExact
<1>2. ASSUME NEW o \in Owner, Connect(o) PROVE CacheExact'
  BY <1>2 DEF Connect, CacheExact
<1>3. ASSUME NEW o \in Owner, NEW n \in Name, NEW t \in BOOLEAN, RegisterFound(o, n, t)
      PROVE  CacheExact'
  BY <1>3 DEF RegisterFound, smVars, CacheExact
<1>4. ASSUME NEW o \in Owner, NEW n \in Name, NEW t \in BOOLEAN, RegisterNew(o, n, t)
      PROVE  CacheExact'
  <2> DEFINE new == [id |-> NextId, owner |-> o, port_name |-> n, is_trusted |-> t]
             kept == Release(GetServiceById(NextId))
  <2>1. PICK p \in Addr \ DOMAIN heap :
          heap' = Put(kept, p, new) /\ service_cache' = Put(service_cache, NextId, p)
    BY <1>4 DEF RegisterNew
  <2>2. /\ DOMAIN kept = DOMAIN heap \ GetServiceById(NextId)
        /\ \A q \in DOMAIN kept : kept[q] = heap[q]
    BY DEF Release, Drop, Restrict
  <2>3. /\ DOMAIN heap' = DOMAIN kept \cup {p} /\ heap'[p] = new
        /\ \A q \in DOMAIN kept : q # p => heap'[q] = kept[q]
    BY <2>1 DEF Put
  <2>4. /\ DOMAIN service_cache' = DOMAIN service_cache \cup {NextId}
        /\ service_cache'[NextId] = p
        /\ \A i \in DOMAIN service_cache : i # NextId => service_cache'[i] = service_cache[i]
    BY <2>1 DEF Put
  <2>5. new.id = NextId
    OBVIOUS
  <2>6. \A q \in DOMAIN kept : q # p /\ heap[q].id # NextId
    BY <2>1, <2>2 DEF CacheExact, GetServiceById
  <2>7. ASSUME NEW i \in DOMAIN service_cache'
        PROVE  service_cache'[i] \in DOMAIN heap' /\ heap'[service_cache'[i]].id = i
    <3>1. CASE i = NextId
      BY <3>1, <2>3, <2>4, <2>5
    <3>2. CASE i # NextId
      <4>1. i \in DOMAIN service_cache /\ service_cache'[i] = service_cache[i]
        BY <3>2, <2>4
      <4>2. service_cache[i] \in DOMAIN heap /\ heap[service_cache[i]].id = i
        BY <4>1 DEF CacheExact
      <4>3. service_cache[i] \notin GetServiceById(NextId)
        BY <4>2, <3>2 DEF GetServiceById, CacheExact
      <4> QED
        BY <4>1, <4>2, <4>3, <2>1, <2>2, <2>3
    <3> QED
      BY <3>1, <3>2
  <2>8. ASSUME NEW q \in DOMAIN heap'
        PROVE  heap'[q].id \in DOMAIN service_cache' /\ service_cache'[heap'[q].id] = q
    <3>1. CASE q = p
      BY <3>1, <2>3, <2>4, <2>5
    <3>2. CASE q # p
      <4>1. q \in DOMAIN kept /\ q \in DOMAIN heap /\ heap'[q] = heap[q]
        BY <3>2, <2>2, <2>3
      <4>2. heap[q].id \in DOMAIN service_cache /\ service_cache[heap[q].id] = q
        BY <4>1 DEF CacheExact
      <4> QED
        BY <4>1, <4>2, <2>4, <2>6
    <3> QED
      BY <3>1, <3>2
  <2> QED
    BY <2>7, <2>8 DEF CacheExact
<1>5. ASSUME NEW o \in Owner, NEW n \in Name, NEW t \in BOOLEAN, RegisterExportFails(o, n, t)
      PROVE  CacheExact'
  BY <1>5 DEF RegisterExportFails, CacheExact
<1>6. ASSUME NEW id \in Id, UnregisterService(id) PROVE CacheExact'
  <2>1. PICK p \in GetServiceById(id) : heap' = Release({p})
    BY <1>6 DEF UnregisterService
  <2>2. id \in DOMAIN service_cache /\ p = service_cache[id]
    BY DEF GetServiceById
  <2>3. service_cache' = Drop(service_cache, {id})
    BY <1>6 DEF UnregisterService
  <2> QED
    <3>1. DOMAIN heap' = DOMAIN heap \ {p} /\ \A q \in DOMAIN heap' : heap'[q] = heap[q]
      BY <2>1 DEF Release, Drop, Restrict
    <3>2. /\ DOMAIN service_cache' = DOMAIN service_cache \ {id}
          /\ \A i \in DOMAIN service_cache' : service_cache'[i] = service_cache[i]
      BY <2>3 DEF Drop, Restrict
    <3> QED
      BY <2>2, <3>1, <3>2 DEF CacheExact
<1>7. ASSUME NEW o \in Owner, Disconnect(o) PROVE CacheExact'
  <2>1. CASE clients' = {}
    BY <1>7, <2>1, NothingLemma DEF Disconnect, CacheExact
  <2>2. CASE clients' # {}
    <3> DEFINE freed(ids) == UNION {GetServiceById(i) : i \in ids}
    <3>1. PICK ids \in IdsOf(o) :
            heap' = Release(freed(ids)) /\ service_cache' = Drop(service_cache, ids)
      BY <1>7, <2>2 DEF Disconnect
    <3>2. /\ DOMAIN heap' = DOMAIN heap \ freed(ids)
          /\ \A q \in DOMAIN heap' : heap'[q] = heap[q]
      BY <3>1 DEF Release, Drop, Restrict
    <3>3. /\ DOMAIN service_cache' = DOMAIN service_cache \ ids
          /\ \A i \in DOMAIN service_cache' : service_cache'[i] = service_cache[i]
      BY <3>1 DEF Drop, Restrict
    <3>4. \A i \in ids : i \in DOMAIN service_cache => service_cache[i] \in freed(ids)
      BY DEF GetServiceById
    <3>5. \A q \in freed(ids) : \E i \in ids : i \in DOMAIN service_cache /\ q = service_cache[i]
      BY DEF GetServiceById
    <3>6. ASSUME NEW i \in DOMAIN service_cache'
          PROVE  service_cache'[i] \in DOMAIN heap' /\ heap'[service_cache'[i]].id = i
      BY <3>2, <3>3, <3>5 DEF CacheExact
    <3>7. ASSUME NEW q \in DOMAIN heap'
          PROVE  heap'[q].id \in DOMAIN service_cache' /\ service_cache'[heap'[q].id] = q
      BY <3>2, <3>3, <3>4 DEF CacheExact
    <3> QED
      BY <3>6, <3>7 DEF CacheExact
  <2> QED
    BY <2>1, <2>2
<1>8. ASSUME Restart PROVE CacheExact'
  BY <1>8, NothingLemma DEF Restart, CacheExact
<1> QED
  BY <1>1, <1>2, <1>3, <1>4, <1>5, <1>6, <1>7, <1>8 DEF Next

\* Every operation keeps shape and agreement of the tables.
LEMMA TablesStep == Tables /\ [Next]_smVars => Tables'
  BY TypeStep, CacheStep DEF Tables

\* The tables of msgport_manager_init have the shape their comments give them
\* in every reachable state.
THEOREM TypeCorrect == Spec => []TypeOK
<1>1. Tables => TypeOK
  BY DEF Tables
<1> QED
  BY <1>1, TablesInit, TablesStep, PTL DEF Spec

\* The id table never leads to a freed service and every service object can be
\* reached by its id, whatever the number of registrations.
THEOREM CacheIsExact == Spec => []CacheExact
<1>1. Tables => CacheExact
  BY DEF Tables
<1> QED
  BY <1>1, TablesInit, TablesStep, PTL DEF Spec

-----------------------------------------------------------------------------
(***************************************************************************)
(* As long as the counter has not wrapped, no id is given twice, so no     *)
(* service is released by entering another, and the lists stay exact.      *)
(***************************************************************************)
IdsBelow == /\ object_conter <= MaxCounter
            /\ \A p \in DOMAIN heap : heap[p].id \in 1 .. object_conter

IInv == Tables /\ IdsBelow /\ ListsExact /\ PortUnique

\* The invariant holds when the manager is created.
LEMMA IInvInit == Init => IInv
<1> SUFFICES ASSUME Init PROVE IInv
  OBVIOUS
<1>1. Tables
  BY TablesInit
<1>2. DOMAIN heap = {} /\ \A o : Services(o) = {}
  BY NothingLemma DEF Init, Services
<1>3. object_conter = 0
  BY DEF Init
<1> QED
  BY <1>1, <1>2, <1>3, MaxCounterAssumption DEF IInv, IdsBelow, ListsExact, PortUnique

\* Before the counter wraps, the next id is above all ids in use.
LEMMA NewIdLemma ==
  ASSUME NoWrap, IInv, object_conter < MaxCounter
  PROVE  /\ NextId = object_conter + 1
         /\ GetServiceById(NextId) = {}
         /\ \A o : NextId \notin Exported(o)
<1>1. object_conter \in Nat /\ object_conter + 1 < IdSpace
  BY IdSpaceAssumption, MaxCounterAssumption DEF NoWrap, IInv, Tables, TypeOK, Id
<1>2. NextId = object_conter + 1
  BY <1>1, IdSpaceAssumption DEF NextId
<1>3. \A p \in DOMAIN heap : heap[p].id # NextId
  BY <1>1, <1>2 DEF IInv, IdsBelow
<1>4. NextId \notin DOMAIN service_cache
  BY <1>3 DEF IInv, Tables, CacheExact
<1> QED
  BY <1>2, <1>3, <1>4 DEF GetServiceById, Exported

\* What registering a new port does before the counter wraps: one service more
\* and nothing else changed.
AddsService(o, n, t, p) ==
  /\ DOMAIN heap' = DOMAIN heap \cup {p}
  /\ heap'[p] = [id |-> object_conter + 1, owner |-> o, port_name |-> n, is_trusted |-> t]
  /\ \A q \in DOMAIN heap : heap'[q] = heap[q]
  /\ DOMAIN service_cache' = DOMAIN service_cache \cup {object_conter + 1}
  /\ \A i \in DOMAIN service_cache : service_cache'[i] = service_cache[i]
  /\ \A c : Services(c)' = IF c = o THEN Services(o) \cup {p} ELSE Services(c)
  /\ object_conter' = object_conter + 1
  /\ object_conter < MaxCounter
  /\ o \in clients /\ clients' = clients
  /\ \A q \in DOMAIN heap : heap[q].owner = o => ~ Matches(heap[q], n, t)

\* A registration adds one service, at a free address and under a new id.
LEMMA RegisterNewLemma ==
  ASSUME NoWrap, IInv,
         NEW o \in Owner, NEW n \in Name, NEW t \in BOOLEAN, RegisterNew(o, n, t)
  PROVE  \E p \in Addr \ DOMAIN heap : AddsService(o, n, t, p)
<1>1. object_conter < MaxCounter
  BY DEF RegisterNew, CanCreate
<1>2. /\ NextId = object_conter + 1
      /\ GetServiceById(NextId) = {}
  BY <1>1, NewIdLemma
<1>3. object_conter + 1 \notin DOMAIN service_cache
  BY <1>2 DEF GetServiceById
<1>4. Release(GetServiceById(NextId)) = heap
  BY <1>2 DEF Release, Drop, Restrict, IInv, Tables, TypeOK
<1>5. PICK p \in Addr \ DOMAIN heap :
        /\ heap' = Put(heap, p, [id |-> object_conter + 1, owner |-> o,
                                  port_name |-> n, is_trusted |-> t])
        /\ service_cache' = Put(service_cache, object_conter + 1, p)
        /\ owner_service_map' = Put(owner_service_map, o, Services(o) \cup {p})
  BY <1>2, <1>4 DEF RegisterNew
<1>6. /\ DOMAIN heap' = DOMAIN heap \cup {p}
      /\ heap'[p] = [id |-> object_conter + 1, owner |-> o, port_name |-> n, is_trusted |-> t]
      /\ \A q \in DOMAIN heap : heap'[q] = heap[q]
  BY <1>5 DEF Put
<1>7. /\ DOMAIN service_cache' = DOMAIN service_cache \cup {object_conter + 1}
      /\ \A i \in DOMAIN service_cache : service_cache'[i] = service_cache[i]
  BY <1>3, <1>5 DEF Put
<1>8. \A c : Services(c)' = IF c = o THEN Services(o) \cup {p} ELSE Services(c)
  BY <1>5 DEF Services, Put
<1>9. CanWalk(o)
  BY DEF CanWalk, IInv, ListsExact
<1>10. {} = {q \in Services(o) : Matches(heap[q], n, t)}
  BY <1>9 DEF RegisterNew, CanCreate, GetService
<1>11. \A q \in DOMAIN heap : heap[q].owner = o => ~ Matches(heap[q], n, t)
  BY <1>10 DEF IInv, ListsExact
<1> QED
  BY <1>1, <1>2, <1>6, <1>7, <1>8, <1>11 DEF RegisterNew, CanCreate, AddsService

\* What closing a connection does before the counter wraps: the services of
\* that client are freed, those of the others stay.
LEMMA DisconnectLemma ==
  ASSUME NoWrap, IInv, NEW o \in Owner, Disconnect(o)
  PROVE  /\ DOMAIN heap' = {p \in DOMAIN heap : heap[p].owner # o}
         /\ \A p \in DOMAIN heap' : heap'[p] = heap[p]
         /\ DOMAIN service_cache' \subseteq DOMAIN service_cache
         /\ \A i \in DOMAIN service_cache' : service_cache'[i] = service_cache[i]
         /\ \A c : c # o => Services(c)' = IF clients' = {} THEN {} ELSE Services(c)
         /\ Services(o)' = {}
         /\ o \in clients /\ clients' = clients \ {o}
         /\ object_conter' = object_conter
<1>1. o \in clients /\ clients' = clients \ {o} /\ object_conter' = object_conter
  BY DEF Disconnect
<1>2. CASE clients' = {}
  <2>1. heap' = Nothing /\ service_cache' = Nothing /\ owner_service_map' = Nothing
    BY <1>2 DEF Disconnect
  <2>2. {p \in DOMAIN heap : heap[p].owner # o} = {}
    BY <1>1, <1>2 DEF IInv, ListsExact
  <2> QED
    BY <1>1, <1>2, <2>1, <2>2, NothingLemma DEF Services
<1>3. CASE clients' # {}
  <2>1. CanWalk(o)
    BY DEF CanWalk, IInv, ListsExact
  <2> DEFINE ids == {heap[p].id : p \in Services(o)}
             freed == UNION {GetServiceById(i) : i \in ids}
  <2>2. /\ heap' = Release(freed)
        /\ service_cache' = Drop(service_cache, ids)
        /\ owner_service_map' = ListsWithout(o)
    BY <1>3, <2>1 DEF Disconnect, IdsOf
  <2>3. freed = Services(o)
    <3>1. \A p \in Services(o) : p \in DOMAIN heap /\ GetServiceById(heap[p].id) = {p}
      BY <2>1 DEF CanWalk, IInv, Tables, CacheExact, GetServiceById
    <3> QED
      BY <3>1
  <2>4. Services(o) = {p \in DOMAIN heap : heap[p].owner = o}
    BY DEF IInv, ListsExact
  <2>5. /\ DOMAIN heap' = DOMAIN heap \ Services(o)
        /\ \A p \in DOMAIN heap' : heap'[p] = heap[p]
    BY <2>2, <2>3 DEF Release, Drop, Restrict
  <2>6. /\ DOMAIN service_cache' \subseteq DOMAIN service_cache
        /\ \A i \in DOMAIN service_cache' : service_cache'[i] = service_cache[i]
    BY <2>2 DEF Drop, Restrict
  <2>7. Services(o)' = {} /\ \A c : c # o => Services(c)' = Services(c)
    BY <2>2 DEF ListsWithout, Services, Drop, Restrict
  <2> QED
    BY <1>1, <1>3, <2>4, <2>5, <2>6, <2>7
<1> QED
  BY <1>2, <1>3

\* What unregistering one service does.
LEMMA UnregisterLemma ==
  ASSUME IInv, NEW id \in Id, UnregisterService(id)
  PROVE  \E p \in DOMAIN heap :
           /\ id \in DOMAIN service_cache /\ p = service_cache[id]
           /\ DOMAIN heap' = DOMAIN heap \ {p}
           /\ \A q \in DOMAIN heap' : heap'[q] = heap[q]
           /\ DOMAIN service_cache' = DOMAIN service_cache \ {id}
           /\ \A i \in DOMAIN service_cache' : service_cache'[i] = service_cache[i]
           /\ \A c : Services(c)' = IF c = heap[p].owner THEN Services(c) \ {p} ELSE Services(c)
           /\ clients' = clients /\ object_conter' = object_conter
<1>1. PICK p \in GetServiceById(id) :
        /\ owner_service_map' = ListWithoutService(heap[p].owner, p)
        /\ heap' = Release({p})
  BY DEF UnregisterService
<1>2. id \in DOMAIN service_cache /\ p = service_cache[id] /\ p \in DOMAIN heap
  BY DEF GetServiceById, IInv, Tables, CacheExact
<1>3. DOMAIN heap' = DOMAIN heap \ {p} /\ \A q \in DOMAIN heap' : heap'[q] = heap[q]
  BY <1>1 DEF Release, Drop, Restrict
<1>4. /\ DOMAIN service_cache' = DOMAIN service_cache \ {id}
      /\ \A i \in DOMAIN service_cache' : service_cache'[i] = service_cache[i]
  BY DEF UnregisterService, Drop, Restrict
<1>5. \A c : Services(c)' = IF c = heap[p].owner THEN Services(c) \ {p} ELSE Services(c)
  BY <1>1 DEF ListWithoutService, Services, Put
<1> QED
  BY <1>2, <1>3, <1>4, <1>5 DEF UnregisterService

\* Every step keeps the inductive invariant while the counter cannot wrap.
LEMMA IInvStep == NoWrap /\ IInv /\ [Next]_smVars => IInv'
<1> SUFFICES ASSUME NoWrap, IInv, [Next]_smVars PROVE IInv'
  OBVIOUS
<1>0. Tables'
  BY TablesStep DEF IInv
<1> DEFINE Rest == IdsBelow /\ ListsExact /\ PortUnique
<1>1. CASE UNCHANGED smVars
  BY <1>0, <1>1 DEF smVars, IInv, IdsBelow, ListsExact, PortUnique, Services
<1>2. ASSUME NEW o \in Owner, Connect(o) PROVE Rest'
  BY <1>2 DEF Connect, IInv, IdsBelow, ListsExact, PortUnique, Services
<1>3. ASSUME NEW o \in Owner, NEW n \in Name, NEW t \in BOOLEAN, RegisterFound(o, n, t)
      PROVE  Rest'
  BY <1>3 DEF RegisterFound, smVars, IInv, IdsBelow, ListsExact, PortUnique, Services
<1>4. ASSUME NEW o \in Owner, NEW n \in Name, NEW t \in BOOLEAN, RegisterNew(o, n, t)
      PROVE  Rest'
  <2>1. PICK p \in Addr \ DOMAIN heap : AddsService(o, n, t, p)
    BY <1>4, RegisterNewLemma
  <2>2. object_conter \in Nat
    BY IdSpaceAssumption DEF IInv, Tables, TypeOK, Id
  <2>3. IdsBelow'
    BY <2>1, <2>2, MaxCounterAssumption DEF AddsService, IInv, IdsBelow
  <2>4. ListsExact'
    BY <2>1 DEF AddsService, IInv, ListsExact
  <2>5. PortUnique'
    BY <2>1 DEF AddsService, IInv, PortUnique, Matches
  <2> QED
    BY <2>3, <2>4, <2>5
<1>5. ASSUME NEW o \in Owner, NEW n \in Name, NEW t \in BOOLEAN, RegisterExportFails(o, n, t)
      PROVE  Rest'
  BY <1>5, NewIdLemma DEF RegisterExportFails, CanCreate
<1>6. ASSUME NEW id \in Id, UnregisterService(id) PROVE Rest'
  <2>1. PICK p \in DOMAIN heap :
          /\ DOMAIN heap' = DOMAIN heap \ {p}
          /\ \A q \in DOMAIN heap' : heap'[q] = heap[q]
          /\ \A c : Services(c)' = IF c = heap[p].owner THEN Services(c) \ {p} ELSE Services(c)
          /\ clients' = clients /\ object_conter' = object_conter
    BY <1>6, UnregisterLemma
  <2>2. IdsBelow' /\ PortUnique'
    BY <2>1 DEF IInv, IdsBelow, PortUnique
  <2>3. ListsExact'
    BY <2>1 DEF IInv, ListsExact
  <2> QED
    BY <2>2, <2>3
<1>7. ASSUME NEW o \in Owner, Disconnect(o) PROVE Rest'
  <2>1. /\ DOMAIN heap' = {p \in DOMAIN heap : heap[p].owner # o}
        /\ \A p \in DOMAIN heap' : heap'[p] = heap[p]
        /\ \A c : c # o => Services(c)' = IF clients' = {} THEN {} ELSE Services(c)
        /\ Services(o)' = {}
        /\ o \in clients /\ clients' = clients \ {o}
        /\ object_conter' = object_conter
    BY <1>7, DisconnectLemma
  <2>2. IdsBelow' /\ PortUnique'
    BY <2>1 DEF IInv, IdsBelow, PortUnique
  <2>3. ListsExact'
    <3>1. \A p \in DOMAIN heap' : heap'[p].owner \in clients'
      BY <2>1 DEF IInv, ListsExact
    <3>2. ASSUME NEW c \in Owner
          PROVE  Services(c)' = {p \in DOMAIN heap' : heap'[p].owner = c}
      BY <2>1, <3>1 DEF IInv, ListsExact
    <3> QED
      BY <3>1, <3>2 DEF ListsExact
  <2> QED
    BY <2>2, <2>3
<1>8. ASSUME Restart PROVE Rest'
  <2>1. DOMAIN heap' = {} /\ (\A o : Services(o)' = {}) /\ object_conter' = 0
    BY <1>8, NothingLemma DEF Restart, Services
  <2> QED
    BY <2>1, MaxCounterAssumption DEF IdsBelow, ListsExact, PortUnique
<1> QED
  BY <1>0, <1>1, <1>2, <1>3, <1>4, <1>5, <1>6, <1>7, <1>8 DEF Next, IInv

\* The invariant holds as long as ids do not wrap.
LEMMA Invariance == NoWrap => (Spec => []IInv)
<1> SUFFICES ASSUME NoWrap PROVE Spec => []IInv
  OBVIOUS
<1>1. IInv /\ [Next]_smVars => IInv'
  BY IInvStep
<1> QED
  BY <1>1, IInvInit, PTL DEF Spec

\* While ids do not wrap, the lists of services hold exactly the live services
\* of their owners, all of them connected: no dangling pointer, no leftover port.
THEOREM ListsAreExact == NoWrap => (Spec => []ListsExact)
<1>1. IInv => ListsExact
  BY DEF IInv
<1> QED
  BY <1>1, Invariance, PTL

\* While ids do not wrap, a client has no two ports with one name and trust.
THEOREM PortsAreUnique == NoWrap => (Spec => []PortUnique)
<1>1. IInv => PortUnique
  BY DEF IInv
<1> QED
  BY <1>1, Invariance, PTL

\* A new id is above all that were used.
LEMMA FreshStep ==
  NoWrap /\ IInv /\ [Next]_smVars =>
    [\A i \in DOMAIN service_cache' \ DOMAIN service_cache : i > object_conter]_smVars
<1> DEFINE A == \A i \in DOMAIN service_cache' \ DOMAIN service_cache : i > object_conter
<1> SUFFICES ASSUME NoWrap, IInv, Next PROVE A
  OBVIOUS
<1>1. object_conter \in Nat
  BY IdSpaceAssumption DEF IInv, Tables, TypeOK, Id
<1>2. ASSUME NEW o \in Owner, NEW n \in Name, NEW t \in BOOLEAN, RegisterNew(o, n, t)
      PROVE  A
  <2>1. DOMAIN service_cache' = DOMAIN service_cache \cup {object_conter + 1}
    BY <1>2, RegisterNewLemma DEF AddsService
  <2> QED
    BY <1>1, <2>1
<1>3. ASSUME NEW id \in Id, UnregisterService(id) PROVE A
  BY <1>3, UnregisterLemma
<1>4. ASSUME NEW o \in Owner, Disconnect(o) PROVE A
  BY <1>4, DisconnectLemma
<1>5. ASSUME Restart PROVE A
  BY <1>5, NothingLemma DEF Restart
<1> QED
  BY <1>2, <1>3, <1>4, <1>5 DEF Next, Connect, RegisterFound, RegisterExportFails, smVars

\* An id that stays leads to the same service.
LEMMA StableStep ==
  NoWrap /\ IInv /\ [Next]_smVars =>
    [\A i \in DOMAIN service_cache \cap DOMAIN service_cache' :
      heap'[service_cache'[i]] = heap[service_cache[i]]]_smVars
<1> DEFINE A == \A i \in DOMAIN service_cache \cap DOMAIN service_cache' :
      heap'[service_cache'[i]] = heap[service_cache[i]]
<1> SUFFICES ASSUME NoWrap, IInv, Next PROVE A
  OBVIOUS
<1>1. /\ \A i \in DOMAIN service_cache : service_cache[i] \in DOMAIN heap
      /\ \A i \in DOMAIN service_cache' : service_cache'[i] \in DOMAIN heap'
  BY TablesStep DEF IInv, Tables, CacheExact
<1>2. ASSUME NEW o \in Owner, NEW n \in Name, NEW t \in BOOLEAN, RegisterNew(o, n, t)
      PROVE  A
  <2>1. /\ \A q \in DOMAIN heap : heap'[q] = heap[q]
        /\ \A i \in DOMAIN service_cache : service_cache'[i] = service_cache[i]
    BY <1>2, RegisterNewLemma DEF AddsService
  <2> QED
    BY <1>1, <2>1
<1>3. ASSUME NEW id \in Id, UnregisterService(id) PROVE A
  <2>1. /\ \A q \in DOMAIN heap' : heap'[q] = heap[q]
        /\ \A i \in DOMAIN service_cache' : service_cache'[i] = service_cache[i]
    BY <1>3, UnregisterLemma
  <2> QED
    BY <1>1, <2>1
<1>4. ASSUME NEW o \in Owner, Disconnect(o) PROVE A
  <2>1. /\ \A q \in DOMAIN heap' : heap'[q] = heap[q]
        /\ \A i \in DOMAIN service_cache' : service_cache'[i] = service_cache[i]
    BY <1>4, DisconnectLemma
  <2> QED
    BY <1>1, <2>1
<1>5. ASSUME Restart PROVE A
  BY <1>5, NothingLemma DEF Restart
<1> QED
  BY <1>2, <1>3, <1>4, <1>5 DEF Next, Connect, RegisterFound, RegisterExportFails, smVars

\* While ids do not wrap, an id that stays in service_cache names the same port.
THEOREM IdsAreStable == NoWrap => (Spec => StableIds)
<1> DEFINE A == \A i \in DOMAIN service_cache \cap DOMAIN service_cache' :
      heap'[service_cache'[i]] = heap[service_cache[i]]
<1> SUFFICES ASSUME NoWrap PROVE Spec => [][A]_smVars
  BY DEF StableIds
<1>1. IInv /\ [Next]_smVars => [A]_smVars
  BY StableStep
<1> HIDE DEF A
<1> QED
  BY <1>1, Invariance, PTL DEF Spec

-----------------------------------------------------------------------------
(* The tables implement the registry: each step is a step of PortRegistry  *)
(* or leaves clients, ports and used ids alone.                            *)

\* The registered ports, as PortRegistry sees them.
Ports == {heap[p] : p \in DOMAIN heap}

\* Every operation on the tables is a step of the registry or leaves it alone.
LEMMA RegistryStep == NoWrap /\ IInv /\ [Next]_smVars => [Registry!Next]_(Registry!vars)
<1> SUFFICES ASSUME NoWrap, IInv, [Next]_smVars
             PROVE  Registry!Next \/ UNCHANGED <<clients, Ports, 1 .. object_conter>>
  BY DEF Registry!vars, Ports
<1>1. CASE UNCHANGED smVars
  BY <1>1 DEF smVars, Ports
<1>2. ASSUME NEW o \in Owner, Connect(o) PROVE Registry!Next
  <2>1. Registry!Connect(o)
    BY <1>2 DEF Connect, Registry!Connect
  <2> QED
    BY <2>1 DEF Registry!Next
<1>3. ASSUME NEW o \in Owner, NEW n \in Name, NEW t \in BOOLEAN, RegisterFound(o, n, t)
      PROVE  UNCHANGED <<clients, Ports, 1 .. object_conter>>
  BY <1>3 DEF RegisterFound, smVars, Ports
<1>4. ASSUME NEW o \in Owner, NEW n \in Name, NEW t \in BOOLEAN, RegisterNew(o, n, t)
      PROVE  Registry!Next
  <2> DEFINE id == object_conter + 1
             new == [id |-> id, owner |-> o, port_name |-> n, is_trusted |-> t]
  <2>1. PICK p \in Addr \ DOMAIN heap : AddsService(o, n, t, p)
    BY <1>4, RegisterNewLemma
  <2>2. object_conter \in Nat
    BY IdSpaceAssumption DEF IInv, Tables, TypeOK, Id
  <2>3. id \in (1 .. MaxCounter) \ (1 .. object_conter)
    BY <2>1, <2>2, MaxCounterAssumption DEF AddsService
  <2>4. (1 .. object_conter)' = (1 .. object_conter) \cup {id}
    BY <2>1, <2>2 DEF AddsService
  <2>5. Ports' = Ports \cup {new}
    BY <2>1 DEF AddsService, Ports
  <2>6. \A q \in Registry!OwnedBy(o) : <<q.port_name, q.is_trusted>> # <<n, t>>
    BY <2>1 DEF AddsService, Registry!OwnedBy, Matches
  <2>7. Registry!Register(o, n, t)
    BY <2>1, <2>3, <2>4, <2>5, <2>6 DEF AddsService, Ports, Registry!Register
  <2> QED
    BY <2>7 DEF Registry!Next
<1>5. ASSUME NEW o \in Owner, NEW n \in Name, NEW t \in BOOLEAN, RegisterExportFails(o, n, t)
      PROVE  FALSE
  BY <1>5, NewIdLemma DEF RegisterExportFails, CanCreate
<1>6. ASSUME NEW id \in Id, UnregisterService(id) PROVE Registry!Next
  <2>1. PICK p \in DOMAIN heap :
          /\ DOMAIN heap' = DOMAIN heap \ {p}
          /\ \A q \in DOMAIN heap' : heap'[q] = heap[q]
          /\ clients' = clients /\ object_conter' = object_conter
    BY <1>6, UnregisterLemma
  <2>2. \A q \in DOMAIN heap : q # p => heap[q] # heap[p]
    BY DEF IInv, PortUnique
  <2>3. Ports' = Ports \ {heap[p]}
    BY <2>1, <2>2 DEF Ports
  <2>4. PICK s \in {heap[q] : q \in DOMAIN heap} : s = heap[p]
    OBVIOUS
  <2>5. Registry!Unregister(s)
    BY <2>1, <2>3, <2>4 DEF Ports, Registry!Unregister
  <2> QED
    BY <2>5 DEF Registry!Next
<1>7. ASSUME NEW o \in Owner, Disconnect(o) PROVE Registry!Next
  <2>1. /\ DOMAIN heap' = {p \in DOMAIN heap : heap[p].owner # o}
        /\ \A p \in DOMAIN heap' : heap'[p] = heap[p]
        /\ o \in clients /\ clients' = clients \ {o}
        /\ object_conter' = object_conter
    BY <1>7, DisconnectLemma
  <2>2. Ports' = Ports \ Registry!OwnedBy(o)
    BY <2>1 DEF Ports, Registry!OwnedBy
  <2>3. Registry!Disconnect(o)
    BY <2>1, <2>2 DEF Ports, Registry!Disconnect
  <2> QED
    BY <2>3 DEF Registry!Next
<1>8. ASSUME Restart PROVE Registry!Next
  <2>1. clients' = {} /\ Ports' = {} /\ (1 .. object_conter)' = {}
    BY <1>8, NothingLemma DEF Restart, Ports
  <2>2. Registry!Restart
    BY <2>1 DEF Ports, Registry!Restart
  <2> QED
    BY <2>2 DEF Registry!Next
<1> QED
  BY <1>1, <1>2, <1>3, <1>4, <1>5, <1>6, <1>7, <1>8 DEF Next

\* While ids do not wrap, the daemon's tables implement the port registry.
THEOREM RegistryImplemented == NoWrap => (Spec => ImplementsRegistry)
<1> SUFFICES ASSUME NoWrap PROVE Spec => Registry!Spec
  BY DEF ImplementsRegistry
<1>1. Init => Registry!Init
  <2> SUFFICES ASSUME Init PROVE Registry!Init
    OBVIOUS
  <2>1. clients = {} /\ DOMAIN heap = {} /\ object_conter = 0
    BY NothingLemma DEF Init
  <2> QED
    BY <2>1 DEF Registry!Init
<1>2. IInv /\ [Next]_smVars => [Registry!Next]_(Registry!vars)
  BY RegistryStep
<1> QED
  BY <1>1, <1>2, Invariance, PTL DEF Spec, Registry!Spec
=============================================================================
