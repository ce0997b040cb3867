--------------------------- MODULE ServiceManager ---------------------------
(***************************************************************************)
(* The daemon's MsgPortManager (daemon/manager.c) and the life of the      *)
(* MsgPortDbusService objects it creates (daemon/dbus-service.c).          *)
(*                                                                         *)
(* A service is an object in the heap.  Only service_cache owns references *)
(* to services; the lists of owner_service_map hold bare pointers, so a    *)
(* list may outlive an object it points to.  The daemon is one GLib main   *)
(* loop: each operation is one step.                                       *)
(***************************************************************************)
EXTENDS Integers, Functions

CONSTANTS
  Owner,       \* the daemon's MsgPortDbusManager objects, one per connection
  Name,        \* non-empty port names
  Addr,        \* addresses of service objects
  IdSpace,     \* number of values of a guint, 2^32 in the program
  MaxCounter   \* BOUND: registration stops when object_conter reaches it

ASSUME IdSpaceAssumption == IdSpace \in Nat \ {0}
ASSUME MaxCounterAssumption == MaxCounter \in Nat

VARIABLES
  clients,            \* MsgPortDbusManager objects alive, each holds the manager
  heap,               \* address -> service object alive there
  service_cache,      \* id -> address, owns the reference
  owner_service_map,  \* owner -> addresses of its services, borrowed
  object_conter       \* the static counter of msgport_dbus_service_new

smVars == <<clients, heap, service_cache, owner_service_map, object_conter>>

Id == 0 .. IdSpace - 1

Service == [id : Id, owner : Owner, port_name : Name, is_trusted : BOOLEAN]

\* The counter cannot wrap: the bound stays below the width of a guint.
NoWrap == MaxCounter < IdSpace

Nothing == [x \in {} |-> x]

Put(f, k, v) == [x \in DOMAIN f \cup {k} |-> IF x = k THEN v ELSE f[x]]

Drop(f, S) == Restrict(f, DOMAIN f \ S)

-----------------------------------------------------------------------------
(* Looking services up.                                                    *)

Services(o) == IF o \in DOMAIN owner_service_map THEN owner_service_map[o] ELSE {}

\* A walk over the list of o is undefined once the list holds a freed service:
\* its fields then read as anything.
CanWalk(o) == Services(o) \subseteq DOMAIN heap

Matches(s, n, t) == s.port_name = n /\ s.is_trusted = t

\* Mutant: the names are compared as pointers, nothing is ever found.
GetService_Pointers(o, n, t) == {{}}

\* What _manager_get_service_internal may find, one set for each outcome: the
\* services that match, NULL if there is none.
GetService(o, n, t) == IF CanWalk(o) THEN {{p \in Services(o) : Matches(heap[p], n, t)}}
                                     ELSE SUBSET Services(o)

\* The service found under an id, as a set: empty is NULL.
GetServiceById(id) == IF id \in DOMAIN service_cache THEN {service_cache[id]} ELSE {}

\* Mutants: a counter wider than a guint; the lowest free id; no increment.
NextId_Wide == object_conter + 1
NextId_Lowest == CHOOSE i \in Id \ (DOMAIN service_cache \cup {0}) :
                   \A j \in Id \ (DOMAIN service_cache \cup {0}) : i <= j
NextId_Stuck == 1

NextId == (object_conter + 1) % IdSpace

\* Mutant: released service objects stay in the heap.
Release_Leaks(S) == heap

\* g_object_unref, the value destructor of service_cache, frees the services.
Release(S) == Drop(heap, S)

\* The object paths "/id" exported on the connection of o.
Exported(o) == {heap[p].id : p \in {q \in DOMAIN heap : heap[q].owner = o}}

-----------------------------------------------------------------------------
(* Operations.                                                             *)

Init == /\ clients = {}
        /\ heap = Nothing
        /\ service_cache = Nothing
        /\ owner_service_map = Nothing
        /\ object_conter = 0

\* A dbus manager is created for a new connection and takes a reference to the
\* one MsgPortManager, which the first of them creates with empty tables.
Connect(o) ==
  /\ o \notin clients
  /\ clients' = clients \cup {o}
  /\ UNCHANGED <<heap, service_cache, owner_service_map, object_conter>>

\* msgport_manager_register_service finds the port: the caller gets it again.
RegisterFound(o, n, t) ==
  /\ o \in clients
  /\ \E found \in GetService(o, n, t) : found # {}
  /\ UNCHANGED smVars

CanCreate(o, n, t) ==
  /\ o \in clients
  /\ object_conter < MaxCounter
  /\ {} \in GetService(o, n, t)

\* A new service is exported and entered in both tables.  Entering an id that
\* is in use releases the service that had it, but no list forgets it.
RegisterNew(o, n, t) ==
  /\ CanCreate(o, n, t)
  /\ NextId \notin Exported(o)
  /\ \E p \in Addr \ DOMAIN heap :
       /\ heap' = Put(Release(GetServiceById(NextId)), p,
                      [id |-> NextId, owner |-> o, port_name |-> n, is_trusted |-> t])
       /\ service_cache' = Put(service_cache, NextId, p)
       /\ owner_service_map' = Put(owner_service_map, o, Services(o) \cup {p})
  /\ object_conter' = NextId
  /\ UNCHANGED clients

\* The path "/id" is taken on this connection.  The counter is decremented
\* although it was not incremented before.
RegisterExportFails(o, n, t) ==
  /\ CanCreate(o, n, t)
  /\ NextId \in Exported(o)
  /\ object_conter' = (object_conter - 1) % IdSpace
  /\ UNCHANGED <<clients, heap, service_cache, owner_service_map>>

\* The service is taken out of its owner's list; the key stays, even with NULL.
ListWithoutService(o, p) == Put(owner_service_map, o, Services(o) \ {p})

\* msgport_manager_unregister_service.  It has no caller yet.
UnregisterService(id) ==
  /\ \E p \in GetServiceById(id) :
       /\ owner_service_map' = ListWithoutService(heap[p].owner, p)
       /\ heap' = Release({p})
  /\ service_cache' = Drop(service_cache, {id})
  /\ UNCHANGED <<clients, object_conter>>

\* Mutant: only untrusted services are dropped.
IdsOf_Untrusted(o) == {{heap[p].id : p \in {q \in Services(o) : ~heap[q].is_trusted}}}

\* The ids _manager_unref_dbus_manager_cb takes out of service_cache, called on
\* each service of the list of o; one set for each outcome.
IdsOf(o) == IF CanWalk(o) THEN {{heap[p].id : p \in Services(o)}} ELSE SUBSET Id

\* Mutant: the key is never removed.
ListsWithout_Keeps(o) == owner_service_map

\* msgport_manager_unregister_services returns early on an empty list and then
\* leaves the key, a dangling pointer, in owner_service_map.
ListsWithout(o) == IF Services(o) = {} THEN owner_service_map
                                       ELSE Drop(owner_service_map, {o})

\* A connection closes: its dbus manager is disposed of.  The last one takes
\* the MsgPortManager and its tables along; the counter is static and stays.
Disconnect(o) ==
  /\ o \in clients
  /\ clients' = clients \ {o}
  /\ IF clients' = {}
     THEN heap' = Nothing /\ service_cache' = Nothing /\ owner_service_map' = Nothing
     ELSE /\ \E ids \in IdsOf(o) :
               /\ heap' = Release(UNION {GetServiceById(i) : i \in ids})
               /\ service_cache' = Drop(service_cache, ids)
          /\ owner_service_map' = ListsWithout(o)
  /\ UNCHANGED object_conter

\* The daemon dies and systemd starts it again: nothing is persisted.
Restart == /\ clients' = {}
           /\ heap' = Nothing
           /\ service_cache' = Nothing
           /\ owner_service_map' = Nothing
           /\ object_conter' = 0

Next ==
  \/ \E o \in Owner : Connect(o)
  \/ \E o \in Owner, n \in Name, t \in BOOLEAN : RegisterFound(o, n, t)
  \/ \E o \in Owner, n \in Name, t \in BOOLEAN : RegisterNew(o, n, t)
  \/ \E o \in Owner, n \in Name, t \in BOOLEAN : RegisterExportFails(o, n, t)
  \/ \E id \in Id : UnregisterService(id)
  \/ \E o \in Owner : Disconnect(o)
  \/ Restart

Spec == Init /\ [][Next]_smVars

-----------------------------------------------------------------------------
(* Properties.                                                             *)

\* Every table has the shape the code's comments give it (the type invariant).
TypeOK ==
  /\ clients \subseteq Owner
  /\ DOMAIN heap \subseteq Addr
  /\ heap \in [DOMAIN heap -> Service]
  /\ DOMAIN service_cache \subseteq Id
  /\ service_cache \in [DOMAIN service_cache -> Addr]
  /\ DOMAIN owner_service_map \subseteq Owner
  /\ owner_service_map \in [DOMAIN owner_service_map -> SUBSET Addr]
  /\ object_conter \in Id

\* The id table and the service objects describe each other exactly: a lookup
\* by id never yields a freed service or one with another id, and no service
\* object stays alive that no id leads to.  Holds across wrapped ids too.
CacheExact ==
  /\ \A i \in DOMAIN service_cache :
       service_cache[i] \in DOMAIN heap /\ heap[service_cache[i]].id = i
  /\ \A p \in DOMAIN heap :
       heap[p].id \in DOMAIN service_cache /\ service_cache[heap[p].id] = p

\* The borrowed pointers of owner_service_map are exactly the live services of
\* that owner, and services belong to connected clients: no list walk meets a
\* freed service, and a closed connection leaves no port behind.
ListsExact ==
  /\ \A o \in Owner : Services(o) = {p \in DOMAIN heap : heap[p].owner = o}
  /\ \A p \in DOMAIN heap : heap[p].owner \in clients

\* A client has at most one port with a given name and trust.
PortUnique ==
  \A p, q \in DOMAIN heap :
    (/\ heap[p].owner = heap[q].owner
     /\ heap[p].port_name = heap[q].port_name
     /\ heap[p].is_trusted = heap[q].is_trusted) => p = q

\* An id that stays in service_cache keeps naming the same port.
StableIds ==
  [][\A i \in DOMAIN service_cache \cap DOMAIN service_cache' :
        heap'[service_cache'[i]] = heap[service_cache[i]]]_smVars

\* The tables and the counter implement the registry the daemon promises.
Registry == INSTANCE PortRegistry
              WITH Id <- 1 .. MaxCounter,
                   ports <- {heap[p] : p \in DOMAIN heap},
                   used <- 1 .. object_conter

ImplementsRegistry == Registry!Spec
=============================================================================
