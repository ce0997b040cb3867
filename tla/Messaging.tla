------------------------------ MODULE Messaging ------------------------------
(***************************************************************************)
(* What sending a message promises, whichever way it is sent: a request is *)
(* forwarded at most once, to one receiver, and a thread is told that its  *)
(* message was sent only if it was.  A thread that gives up may have its   *)
(* message forwarded all the same, later.  Forwarded messages can be lost  *)
(* with their receiver, never doubled.                                     *)
(* MessagePort implements it with a call that blocks, and queues.          *)
(***************************************************************************)
EXTENDS Naturals

CONSTANT Thread

VARIABLES
  alive,      \* the threads that can be reached
  sending,    \* thread -> what became of the message it waits to be sent
  abandoned,  \* thread -> number of its requests under way that it forgot
  flying,     \* thread -> number of messages forwarded to it and not received
  told        \* what the last step told a thread that sends

vars == <<alive, sending, abandoned, flying, told>>

\* No request, one under way, one the daemon has forwarded or refused, or one that
\* nobody will answer.
Status == {"no", "asked", "forwarded", "refused", "lost"}

TypeOK == /\ alive \subseteq Thread
          /\ sending \in [Thread -> Status]
          /\ abandoned \in [Thread -> Nat]
          /\ flying \in [Thread -> Nat]
          /\ told \in {"nothing", "sent", "failed"}

-----------------------------------------------------------------------------
Init == /\ alive = {}
        /\ sending = [o \in Thread |-> "no"]
        /\ abandoned = [o \in Thread |-> 0]
        /\ flying = [o \in Thread |-> 0]
        /\ told = "nothing"

Becomes(o, status) == sending' = [sending EXCEPT ![o] = status]

Ask(o) == /\ sending[o] = "no"
          /\ Becomes(o, "asked") \/ Becomes(o, "lost")
          /\ told' = "nothing"
          /\ UNCHANGED <<alive, abandoned, flying>>

\* The one message goes to a single thread, if that can be reached.
Handed == \E q \in Thread :
            flying' = IF q \in alive THEN [flying EXCEPT ![q] = @ + 1] ELSE flying

Forward(o) == /\ sending[o] = "asked"
              /\ Becomes(o, "forwarded")
              /\ Handed
              /\ told' = "nothing"
              /\ UNCHANGED <<alive, abandoned>>

Refuse(o) == /\ sending[o] = "asked"
             /\ Becomes(o, "refused")
             /\ told' = "nothing"
             /\ UNCHANGED <<alive, abandoned, flying>>

\* The same for a request nobody waits for.
ForwardLate(o) == /\ abandoned[o] > 0
                  /\ abandoned' = [abandoned EXCEPT ![o] = @ - 1]
                  /\ Handed \/ UNCHANGED flying
                  /\ told' = "nothing"
                  /\ UNCHANGED <<alive, sending>>

Return(o) == /\ \/ sending[o] = "forwarded" /\ told' = "sent"
                \/ sending[o] = "refused" /\ told' = "failed"
             /\ Becomes(o, "no")
             /\ UNCHANGED <<alive, abandoned, flying>>

Forgotten(o) == abandoned' = [abandoned EXCEPT ![o] = @ + (IF sending[o] = "asked" THEN 1 ELSE 0)]

\* The thread waits no longer, whatever happened or is going to happen.
GiveUp(o) == /\ sending[o] # "no"
             /\ Becomes(o, "no")
             /\ Forgotten(o)
             /\ told' = "failed"
             /\ UNCHANGED <<alive, flying>>

\* A message leaves the queues of its receiver.
Deliver(o) == /\ flying[o] > 0
              /\ flying' = [flying EXCEPT ![o] = @ - 1]
              /\ told' = "nothing"
              /\ UNCHANGED <<alive, sending, abandoned>>

\* The process of the thread ends; what it had asked may still be forwarded.
Leave(o) == /\ alive' = alive \ {o}
            /\ Becomes(o, "no")
            /\ Forgotten(o) \/ abandoned' = [abandoned EXCEPT ![o] = 0]
            /\ flying' = [flying EXCEPT ![o] = 0]
            /\ told' = "nothing"

\* What a thread has forgotten is lost with its connection.
Dropped(o) == /\ abandoned' = [abandoned EXCEPT ![o] = 0]
              /\ told' = "nothing"
              /\ UNCHANGED <<alive, sending, flying>>

\* The daemon dies with all it was asked.
DaemonDies == /\ sending' = [o \in Thread |-> IF sending[o] = "asked" THEN "lost"
                                                                     ELSE sending[o]]
              /\ abandoned' = [o \in Thread |-> 0]
              /\ told' = "nothing"
              /\ UNCHANGED <<alive, flying>>

\* A connection comes or goes, a send fails before there is a request, or something
\* else happens.
Elsewhere == /\ told' \in {"nothing", "failed"}
             /\ alive' \subseteq Thread
             /\ UNCHANGED <<sending, abandoned, flying>>

Next == \/ Elsewhere
        \/ \E o \in Thread :
             \/ Ask(o) \/ Forward(o) \/ Refuse(o) \/ ForwardLate(o)
             \/ Return(o) \/ GiveUp(o) \/ Deliver(o) \/ Leave(o) \/ Dropped(o)
        \/ DaemonDies

Spec == Init /\ [][Next]_vars
=============================================================================
