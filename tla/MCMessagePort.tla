---------------------------- MODULE MCMessagePort ----------------------------
(* Instances of MessagePort for TLC.                                       *)
EXTENDS MessagePort, TLC

CONSTANTS o1, o2, a1, a2, c1, c2, p1, p2

\* Two applications with one thread each.
TwoApps == [o \in Owner |-> IF o = o1 THEN a1 ELSE a2]

\* Their processes.
TwoPids == [o \in Owner |-> IF o = o1 THEN p1 ELSE p2]

\* A process that AUL never knows sends to an application.
AppAndProcess == [o \in Owner |-> IF o = o1 THEN a1 ELSE p2]

\* They are signed by two developers.
TwoSigners == [a \in App |-> CASE a = a1 -> c1 [] a = a2 -> c2 [] OTHER -> NoCert]

\* One thread has ports, the other one sends.
ServerClient == [o \in Owner |-> IF o = o1 THEN {"register"} ELSE {"send"}]

\* One thread registers and unregisters, the other one does nothing.
Unregisters == [o \in Owner |-> IF o = o1 THEN {"register", "unregister"} ELSE {}]

\* One thread registers.
Registers == [o \in Owner |-> IF o = o1 THEN {"register"} ELSE {}]

\* One thread does all there is to do with its ports, and sends from them.
Keeper == [o \in Owner |-> IF o = o1 THEN {"register", "unregister", "read", "bidirectional"}
                                     ELSE {}]

\* One thread has ports, the other one looks for them and sends.
Asking == [o \in Owner |-> IF o = o1 THEN {"register"} ELSE {"check", "send"}]

\* The sender has no certificate.
UnsignedSender == [a \in App |-> IF a = a1 THEN c1 ELSE NoCert]

\* Nobody has one.
Unsigned == [a \in App |-> NoCert]

\* What the last step wrote or told has no bearing on what follows.
View == <<smVars, dbus_managers, link, backlog, services, local_services, call,
          toDaemon, toClient, mailbox>>

AddrSymmetry == Permutations(Addr)
=============================================================================
