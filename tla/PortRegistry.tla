---------------------------- MODULE PortRegistry ----------------------------
(***************************************************************************)
(* What the message port daemon promises: a registry of named ports, each  *)
(* owned by one connected client and known to everybody by an id that is   *)
(* never given to a second port while the daemon lives.                    *)
(* ServiceManager implements it with an id table, a list of services per   *)
(* owner and a counter.                                                    *)
(***************************************************************************)
CONSTANTS
  Owner,     \* client connections (the daemon's MsgPortDbusManager objects)
  Name,      \* port names
  Id         \* the ids a port may be given

VARIABLES
  clients,   \* the connected clients
  ports,     \* the registered ports
  used       \* ids handed out since the daemon started

vars == <<clients, ports, used>>

Port == [id : Id, owner : Owner, port_name : Name, is_trusted : BOOLEAN]

OwnedBy(o) == {p \in ports : p.owner = o}

-----------------------------------------------------------------------------
Init == /\ clients = {}
        /\ ports = {}
        /\ used = {}

Connect(o) == /\ o \notin clients
              /\ clients' = clients \cup {o}
              /\ UNCHANGED <<ports, used>>

\* A name may be registered twice by one client: once trusted, once not.
Register(o, n, t) ==
  /\ o \in clients
  /\ \A p \in OwnedBy(o) : <<p.port_name, p.is_trusted>> # <<n, t>>
  /\ \E id \in Id \ used :
       /\ ports' = ports \cup {[id |-> id, owner |-> o, port_name |-> n, is_trusted |-> t]}
       /\ used' = used \cup {id}
  /\ UNCHANGED clients

Unregister(p) == /\ ports' = ports \ {p}
                 /\ UNCHANGED <<clients, used>>

\* A client takes all its ports with it, and nobody else's.
Disconnect(o) == /\ o \in clients
                 /\ clients' = clients \ {o}
                 /\ ports' = ports \ OwnedBy(o)
                 /\ UNCHANGED used

\* Nothing is persisted.
Restart == /\ clients' = {}
           /\ ports' = {}
           /\ used' = {}

Next == \/ \E o \in Owner : Connect(o) \/ Disconnect(o)
        \/ \E o \in Owner, n \in Name, t \in BOOLEAN : Register(o, n, t)
        \/ \E p \in ports : Unregister(p)
        \/ Restart

Spec == Init /\ [][Next]_vars
=============================================================================
