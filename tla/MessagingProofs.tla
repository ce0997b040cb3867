--------------------------- MODULE MessagingProofs ---------------------------
(***************************************************************************)
(* The library, its queues and the daemon keep the promise made to a       *)
(* sender (Messaging), and no call waits for nothing, for every set of     *)
(* threads and queues of any length.                                       *)
(***************************************************************************)
EXTENDS TrustProofs, FiniteSetTheorems

-----------------------------------------------------------------------------
(* Counting the members of a set in a queue.                               *)

At(s, S) == {i \in DOMAIN s : s[i] \in S}

Count(s, S) == Cardinality(At(s, S))

LEMMA CountType ==
  ASSUME NEW T, NEW s \in Seq(T), NEW S
  PROVE  IsFiniteSet(At(s, S)) /\ Count(s, S) \in Nat /\ At(s, S) \subseteq 1 .. Len(s)
<1>1. Len(s) \in Nat /\ At(s, S) \in SUBSET (1 .. Len(s))
  BY DEF At
<1>2. IsFiniteSet(1 .. Len(s))
  BY <1>1, FS_Interval
<1>3. IsFiniteSet(At(s, S))
  BY <1>1, <1>2, FS_Subset
<1> QED
  BY <1>1, <1>3, FS_CardinalityType DEF Count

LEMMA CountEmpty ==
  ASSUME NEW S
  PROVE  Count(<<>>, S) = 0
<1>1. At(<<>>, S) = {}
  BY DEF At
<1> QED
  BY <1>1, FS_EmptySet DEF Count

LEMMA CountAppend ==
  ASSUME NEW T, NEW s \in Seq(T), NEW x \in T, NEW S
  PROVE  Count(Append(s, x), S) = Count(s, S) + (IF x \in S THEN 1 ELSE 0)
<1>1. /\ Len(s) \in Nat /\ DOMAIN s = 1 .. Len(s) /\ DOMAIN Append(s, x) = 1 .. Len(s) + 1
      /\ \A i \in 1 .. Len(s) : Append(s, x)[i] = s[i]
      /\ Append(s, x)[Len(s) + 1] = x
  OBVIOUS
<1>2. At(Append(s, x), S) = IF x \in S THEN At(s, S) \cup {Len(s) + 1} ELSE At(s, S)
  BY <1>1 DEF At
<1>3. IsFiniteSet(At(s, S)) /\ Count(s, S) \in Nat /\ At(s, S) \subseteq 1 .. Len(s)
  BY CountType
<1>4. Len(s) + 1 \notin At(s, S)
  BY <1>1, <1>3
<1>5. Cardinality(At(s, S) \cup {Len(s) + 1}) = Cardinality(At(s, S)) + 1
  BY <1>3, <1>4, FS_AddElement
<1> QED
  BY <1>2, <1>3, <1>5 DEF Count

LEMMA CountTail ==
  ASSUME NEW T, NEW s \in Seq(T), s # <<>>, NEW S
  PROVE  Count(s, S) = Count(Tail(s), S) + (IF Head(s) \in S THEN 1 ELSE 0)
<1> DEFINE A == At(s, S) \ {1}
           B == At(Tail(s), S)
           f == [i \in A |-> i - 1]
<1>1. /\ Len(s) \in Nat \ {0} /\ DOMAIN s = 1 .. Len(s) /\ Head(s) = s[1]
      /\ DOMAIN Tail(s) = 1 .. Len(s) - 1
      /\ \A i \in 1 .. Len(s) - 1 : Tail(s)[i] = s[i + 1]
  OBVIOUS
<1>2. /\ \A i \in A : i \in Nat /\ i - 1 \in B
      /\ \A j \in B : j \in Nat /\ j + 1 \in A
  BY <1>1 DEF At
<1>3. f \in Bijection(A, B)
  <2>1. \A i \in A : f[i] = i - 1
    OBVIOUS
  <2>2. f \in [A -> B]
    BY <1>2
  <2> HIDE DEF f, A, B
  <2>3. \A a, b \in A : f[a] = f[b] => a = b
    BY <1>2, <2>1
  <2>4. \A j \in B : j + 1 \in A /\ f[j + 1] = j
    BY <1>2, <2>1
  <2> QED
    BY <2>2, <2>3, <2>4 DEF Bijection, Injection, Surjection, IsInjective
<1>4. IsFiniteSet(At(s, S)) /\ Count(s, S) \in Nat
  BY CountType
<1>5. IsFiniteSet(A) /\ Cardinality(A) = IF 1 \in At(s, S) THEN Count(s, S) - 1 ELSE Count(s, S)
  BY <1>4, FS_RemoveElement DEF Count
<1>6. Cardinality(B) = Cardinality(A)
  <2> HIDE DEF f, A, B
  <2> QED
    BY <1>3, <1>5, FS_Bijection DEF ExistsBijection
<1>7. 1 \in At(s, S) <=> Head(s) \in S
  BY <1>1 DEF At
<1> QED
  BY <1>4, <1>5, <1>6, <1>7 DEF Count

-----------------------------------------------------------------------------
(* What a thread sends and is sent, counted.                               *)

ToSend == {x \in Asking : x.re.op \in Sends}
ToDispatch == {x \in Telling : x.message.type = "OnMessage"}

\* Requests to send under way, and signals on the connection of a thread.
Sent(o) == Count(toDaemon[o], ToSend)
Came(o) == Count(toClient[o], ToDispatch)

LEMMA SentIsAt ==
  ASSUME NEW s \in Seq(Asking)
  PROVE  {i \in DOMAIN s : s[i].re.op \in Sends} = At(s, ToSend)
<1>1. \A i \in DOMAIN s : s[i] \in Asking
  OBVIOUS
<1> QED
  BY <1>1 DEF At, ToSend

LEMMA CameIsAt ==
  ASSUME NEW s \in Seq(Telling)
  PROVE  Signalled(s) = At(s, ToDispatch)
<1>1. \A i \in DOMAIN s : s[i] \in Telling
  OBVIOUS
<1> QED
  BY <1>1 DEF At, ToDispatch, Signalled

\* Before and after a step, the counts are those of the mapping.
LEMMA Counts ==
  ASSUME MPTypeOK, MPTypeOK', MailOK, MailOK', NEW o \in Owner
  PROVE  /\ Sent(o) \in Nat /\ Sent(o)' \in Nat
         /\ Forgotten(o) = Sent(o) - (IF Asked(o) THEN 1 ELSE 0)
         /\ Forgotten(o)' = Sent(o)' - (IF Asked(o)' THEN 1 ELSE 0)
         /\ Came(o) \in Nat /\ Came(o)' \in Nat
         /\ Len(mailbox[o]) \in Nat /\ Len(mailbox'[o]) \in Nat
         /\ Flying(o) = Len(mailbox[o]) + Came(o)
         /\ Flying(o)' = Len(mailbox'[o]) + Came(o)'
<1>1. /\ toDaemon[o] \in Seq(Asking) /\ toDaemon'[o] \in Seq(Asking)
      /\ toClient[o] \in Seq(Telling) /\ toClient'[o] \in Seq(Telling)
      /\ mailbox[o] \in Seq(SignalMessage) /\ mailbox'[o] \in Seq(SignalMessage)
  BY DEF MPTypeOK, MailOK
<1>2. Sent(o) \in Nat /\ Sent(o)' \in Nat /\ Came(o) \in Nat /\ Came(o)' \in Nat
  BY <1>1, CountType DEF Sent, Came
<1>3. Len(mailbox[o]) \in Nat /\ Len(mailbox'[o]) \in Nat
  BY <1>1
<1>4. Cardinality(Requests(o)) = Sent(o) /\ Cardinality(Requests(o))' = Sent(o)'
  BY <1>1, SentIsAt DEF Requests, Sent, Count
<1>5. /\ Cardinality(Signalled(toClient[o])) = Came(o)
      /\ Cardinality(Signalled(toClient'[o])) = Came(o)'
  BY <1>1, CameIsAt DEF Came, Count
<1> QED
  BY <1>2, <1>3, <1>4, <1>5 DEF Forgotten, Flying

-----------------------------------------------------------------------------
(* The steps of Messaging, thread by thread.                               *)

\* A step that leaves thread o what it sends, and what it is sent.
SameAsked(o) == Sending(o)' = Sending(o) /\ Forgotten(o)' = Forgotten(o)
SameFlying(o) == Flying(o)' = Flying(o)
Same(o) == SameAsked(o) /\ SameFlying(o)

\* Such a step may tell a thread that sends that it failed.
LEMMA IsElsewhere ==
  ASSUME \A q \in Owner : Same(q), Told' \in {"nothing", "failed"}
  PROVE  Messages!Next
<1>1. Messages!Elsewhere
  BY DEF Messages!Elsewhere, Same, SameAsked, SameFlying
<1> QED
  BY <1>1 DEF Messages!Next

LEMMA IsAsk ==
  ASSUME NEW o \in Owner, \A q \in Owner \ {o} : Same(q), SameFlying(o), UNCHANGED link,
         Sending(o) = "no", Sending(o)' = "asked", Forgotten(o)' = Forgotten(o), Told' = "nothing"
  PROVE  Messages!Next
<1>1. Messages!Ask(o)
  BY DEF Messages!Ask, Messages!Becomes, Same, SameAsked, SameFlying
<1> QED
  BY <1>1 DEF Messages!Next

\* One thread may get one message.
Handed == \E p \in Owner : \A q \in Owner :
            Flying(q)' = Flying(q) + (IF q = p /\ link[q] = "up" THEN 1 ELSE 0)

LEMMA IsHanded ==
  ASSUME Handed, \A q \in Owner : Flying(q) \in Nat
  PROVE  Messages!Handed
<1>1. PICK p \in Owner : \A q \in Owner :
        Flying(q)' = Flying(q) + (IF q = p /\ link[q] = "up" THEN 1 ELSE 0)
  BY DEF Handed
<1> DEFINE F == [q \in Owner |-> Flying(q)]
           G == [q \in Owner |-> Flying(q)']
<1>2. \A q \in Owner : F[q] = Flying(q) /\ F[q] \in Nat /\ G[q] = Flying(q)'
  OBVIOUS
<1>3. F = [q \in Owner |-> F[q]] /\ G = [q \in Owner |-> G[q]]
  OBVIOUS
<1> HIDE DEF F, G
<1>4. G = IF p \in {q \in Owner : link[q] = "up"} THEN [F EXCEPT ![p] = F[p] + 1] ELSE F
  BY <1>1, <1>2, <1>3
<1> QED
  BY <1>4 DEF Messages!Handed, F, G

LEMMA IsForward ==
  ASSUME NEW o \in Owner, \A q \in Owner \ {o} : SameAsked(q), Messages!Handed, UNCHANGED link,
         Sending(o) = "asked", Sending(o)' = "forwarded", Forgotten(o)' = Forgotten(o),
         Told' = "nothing"
  PROVE  Messages!Next
<1>1. Messages!Forward(o)
  BY DEF Messages!Forward, Messages!Becomes, SameAsked
<1> QED
  BY <1>1 DEF Messages!Next

LEMMA IsRefuse ==
  ASSUME NEW o \in Owner, \A q \in Owner \ {o} : SameAsked(q), \A q \in Owner : SameFlying(q),
         UNCHANGED link,
         Sending(o) = "asked", Sending(o)' = "refused", Forgotten(o)' = Forgotten(o),
         Told' = "nothing"
  PROVE  Messages!Next
<1>1. Messages!Refuse(o)
  BY DEF Messages!Refuse, Messages!Becomes, SameAsked, SameFlying
<1> QED
  BY <1>1 DEF Messages!Next

LEMMA IsForwardLate ==
  ASSUME NEW o \in Owner, \A q \in Owner \ {o} : SameAsked(q),
         Messages!Handed \/ \A q \in Owner : SameFlying(q), UNCHANGED link,
         Forgotten(o) > 0, Forgotten(o)' = Forgotten(o) - 1, Sending(o)' = Sending(o),
         Told' = "nothing"
  PROVE  Messages!Next
<1>1. Messages!ForwardLate(o)
  BY DEF Messages!ForwardLate, SameAsked, SameFlying
<1> QED
  BY <1>1 DEF Messages!Next

LEMMA IsReturn ==
  ASSUME NEW o \in Owner, \A q \in Owner \ {o} : Same(q), SameFlying(o), UNCHANGED link,
         \/ Sending(o) = "forwarded" /\ Told' = "sent"
         \/ Sending(o) = "refused" /\ Told' = "failed",
         Sending(o)' = "no", Forgotten(o)' = Forgotten(o)
  PROVE  Messages!Next
<1>1. Messages!Return(o)
  BY DEF Messages!Return, Messages!Becomes, Same, SameAsked, SameFlying
<1> QED
  BY <1>1 DEF Messages!Next

LEMMA IsGiveUp ==
  ASSUME NEW o \in Owner, \A q \in Owner \ {o} : Same(q), SameFlying(o), UNCHANGED link,
         Sending(o) # "no", Sending(o)' = "no", Told' = "failed",
         Forgotten(o)' = Forgotten(o) + (IF Sending(o) = "asked" THEN 1 ELSE 0)
  PROVE  Messages!Next
<1>1. Messages!GiveUp(o)
  BY DEF Messages!GiveUp, Messages!Becomes, Messages!Forgotten, Same, SameAsked, SameFlying
<1> QED
  BY <1>1 DEF Messages!Next

LEMMA IsDeliver ==
  ASSUME NEW o \in Owner, \A q \in Owner \ {o} : Same(q), SameAsked(o), UNCHANGED link,
         Flying(o) > 0, Flying(o)' = Flying(o) - 1, Told' = "nothing"
  PROVE  Messages!Next
<1>1. Messages!Deliver(o)
  BY DEF Messages!Deliver, Same, SameAsked, SameFlying
<1> QED
  BY <1>1 DEF Messages!Next

LEMMA IsLeave ==
  ASSUME NEW o \in Owner, \A q \in Owner \ {o} : Same(q) /\ link'[q] = link[q], link'[o] # "up",
         Sending(o)' = "no", Flying(o)' = 0, Told' = "nothing",
         \/ Forgotten(o)' = 0
         \/ Forgotten(o)' = Forgotten(o) + (IF Sending(o) = "asked" THEN 1 ELSE 0)
  PROVE  Messages!Next
<1>1. Messages!Leave(o)
  BY DEF Messages!Leave, Messages!Becomes, Messages!Forgotten, Same, SameAsked, SameFlying
<1> QED
  BY <1>1 DEF Messages!Next

LEMMA IsDropped ==
  ASSUME NEW o \in Owner, \A q \in Owner \ {o} : Same(q), SameFlying(o),
         \A q \in Owner : link'[q] = "up" <=> link[q] = "up",
         Sending(o)' = Sending(o), Forgotten(o)' = 0, Told' = "nothing"
  PROVE  Messages!Next
<1>1. Messages!Dropped(o)
  BY DEF Messages!Dropped, Same, SameAsked, SameFlying
<1> QED
  BY <1>1 DEF Messages!Next

LEMMA IsDaemonDies ==
  ASSUME \A q \in Owner : /\ link'[q] = "up" <=> link[q] = "up"
                          /\ Sending(q)' = IF Sending(q) = "asked" THEN "lost" ELSE Sending(q)
                          /\ Forgotten(q)' = 0
                          /\ SameFlying(q),
         Told' = "nothing"
  PROVE  Messages!Next
<1>1. Messages!DaemonDies
  BY DEF Messages!DaemonDies, SameFlying
<1> QED
  BY <1>1 DEF Messages!Next

-----------------------------------------------------------------------------
(* What threads are told, and the invariant that makes it true.            *)

\* A D-Bus call is made by the call of the library that needs it.
RightApi(c) ==
  /\ c.re.op \in {"RegisterService", "GetAll"} => c.api = "register"
  /\ c.re.op = "Unregister" => c.api = "unregister"
  /\ c.re.op \in Sends => c.api \in {"send", "bidirectional"}

\* Nothing is left to read on a connection that is not there.
Silent(o) == link[o] # "up" => toClient[o] = <<>>

SendInv == \A o \in Owner : RightApi(call[o]) /\ Silent(o)

LEMMA SendInvInit == MPInit => SendInv
  BY DEF MPInit, SendInv, RightApi, Silent, NoCall, NoRequest, Sends

\* Errors are told as errors.
LEMMA ErrorLemma == \A error : ErrorOf(error) = "NONE" <=> error = "None"
  BY DEF ErrorOf, ClientCode, DaemonErrorToError

LEMMA NothingTold == (event' = NoEvent => Told' = "nothing")
  BY NoEventLemma DEF Told

\* No sender is told of success, and the next call is a right one.
Says(o) == Told' \in {"nothing", "failed"} /\ RightApi(call'[o])

LEMMA ReturnSays ==
  ASSUME MPTypeOK, NEW o \in Owner, NEW c, NEW error, NEW id, NEW why, Return(o, c, error, id, why),
         error # "NONE" \/ c.api \notin {"send", "bidirectional"}
  PROVE  Says(o)
<1>1. call'[o] = NoCall
  BY DEF Return, MPTypeOK
<1>2. event'.type = "Return" /\ event'.call = c /\ event'.error = error
  BY DEF Return
<1> QED
  BY <1>1, <1>2 DEF Says, Told, RightApi, NoCall, NoRequest, Sends

LEMMA AskSays ==
  ASSUME MPTypeOK, NEW o \in Owner, NEW c, NEW q, RightApi(c), Ask(o, c, q)
  PROVE  Says(o)
<1>1. call'[o] = c /\ event' = NoEvent
  BY DEF Ask, MPTypeOK
<1> QED
  BY <1>1, NothingTold DEF Says

\* The calls that threads begin.
LEMMA CallsSay ==
  ASSUME MPTypeOK, NEW o \in Owner, Calls(o)
  PROVE  Says(o) /\ mailbox' = mailbox
<1>1. ASSUME NEW c, NEW error, NEW id, ReturnNow(o, c, error, id),
             error # "NONE" \/ c.api \notin {"send", "bidirectional"}
      PROVE  Says(o)
  BY <1>1, ReturnSays DEF ReturnNow
<1>2. \A c : NoProxy(o, c) \/ NoLocalPort(o, c) => Says(o)
  BY <1>1 DEF NoProxy, NoLocalPort
<1>3. \A c : ReturnNow(o, c, "INVALID_PARAMETER", 0) \/ ReturnNow(o, c, "MESSAGEPORT_NOT_FOUND", 0) => Says(o)
  BY <1>1
<1>4. ASSUME NEW n \in CallName, NEW t \in BOOLEAN, RegisterPort(o, n, t) PROVE Says(o)
  <2> DEFINE re == [op |-> "RegisterService", port_name |-> n, is_trusted |-> t]
             c == Call("register", ThreadApp[o], n, t, 0, 0, re)
  <2>1. c.api = "register" /\ RightApi(c)
    BY DEF Call, RightApi, Sends
  <2> HIDE DEF c
  <2>2. \A id : ReturnNow(o, c, "NONE", id) => Says(o)
    BY <1>1, <2>1
  <2> QED
    BY <1>2, <1>4, <2>1, <2>2, AskSays DEF RegisterPort, c
<1>5. ASSUME NEW id \in Id, NEW t \in BOOLEAN, UnregisterPort(o, id, t) PROVE Says(o)
  <2> DEFINE c(path) == Call("unregister", ThreadApp[o], "", t, id, path,
                             [op |-> "Unregister", from |-> path])
  <2>1. \A path : RightApi(c(path))
    BY DEF Call, RightApi, Sends
  <2> HIDE DEF c
  <2>2. \A path : Ask(o, c(path), toDaemon[o]) => Says(o)
    BY <2>1, AskSays
  <2> QED
    BY <1>2, <1>3, <1>5, <2>2 DEF UnregisterPort, c
<1>6. ASSUME NEW id \in Id, ReadLocalPort(o, id) PROVE Says(o)
  <2> DEFINE c(n, t) == Call("read", ThreadApp[o], n, t, id, 0, NoRequest)
  <2>1. \A n, t : c(n, t).api = "read"
    BY DEF Call
  <2> HIDE DEF c
  <2>2. \A n, t : ReturnNow(o, c(n, t), "NONE", id) => Says(o)
    BY <1>1, <2>1
  <2> QED
    BY <1>2, <1>3, <1>6, <2>2 DEF ReadLocalPort, c
<1>7. ASSUME NEW a \in Peer, NEW n \in CallName, NEW t \in BOOLEAN, NEW api, CheckFirst(o, api, a, n, t)
      PROVE  Says(o)
  <2> DEFINE c == Call(api, a, n, t, 0, 0, CheckRequest(a, n, t))
  <2>1. RightApi(c)
    BY DEF Call, RightApi, CheckRequest, Sends
  <2> HIDE DEF c
  <2> QED
    BY <1>2, <1>7, <2>1, AskSays DEF CheckFirst, c
<1>8. ASSUME NEW a \in Peer, NEW n \in CallName, NEW t \in BOOLEAN, NEW id \in Id,
             SendBidirectional(o, id, a, n, t)
      PROVE  Says(o)
  <2> DEFINE c(path) == Call("bidirectional", a, n, t, id, path, CheckRequest(a, n, t))
  <2>1. \A path : RightApi(c(path))
    BY DEF Call, RightApi, CheckRequest, Sends
  <2> HIDE DEF c
  <2>2. \A path : Ask(o, c(path), toDaemon[o]) => Says(o)
    BY <2>1, AskSays
  <2> QED
    BY <1>2, <1>3, <1>8, <2>2 DEF SendBidirectional, c
<1>9. \E api : Begin(o, api)
  <2>1. \A n, t : RegisterPort(o, n, t) => Begin(o, "register")
    BY DEF RegisterPort
  <2>2. \A id, t : UnregisterPort(o, id, t) => Begin(o, "unregister")
    BY DEF UnregisterPort
  <2>3. \A id : ReadLocalPort(o, id) => Begin(o, "read")
    BY DEF ReadLocalPort
  <2>4. \A a, n, t : /\ CheckRemotePort(o, a, n, t) => Begin(o, "check")
                     /\ SendPortMessage(o, a, n, t) => Begin(o, "send")
    BY DEF CheckRemotePort, SendPortMessage, CheckFirst
  <2>5. \A id, a, n, t : SendBidirectional(o, id, a, n, t) => Begin(o, "bidirectional")
    BY DEF SendBidirectional
  <2> QED
    BY <2>1, <2>2, <2>3, <2>4, <2>5 DEF Calls
<1>10. mailbox' = mailbox
  BY <1>9 DEF Begin
<1> QED
  BY <1>4, <1>5, <1>6, <1>7, <1>8, <1>10 DEF Calls, CheckRemotePort, SendPortMessage

\* A D-Bus call ends: a sender is told what became of its message, other callers are
\* told of no message, or the library asks for the next thing, maybe to send.
LEMMA CompleteSays ==
  ASSUME MPTypeOK, NEW o \in Owner, RightApi(call[o]), NEW r, r.id \in Id, NEW q, Complete(o, r, q)
  PROVE  /\ RightApi(call'[o])
         /\ \/ /\ call'[o] = NoCall /\ toDaemon' = [toDaemon EXCEPT ![o] = q]
               /\ IF call[o].re.op \notin Sends THEN Told' \in {"nothing", "failed"}
                  ELSE Told' = IF r.error = "None" THEN "sent" ELSE "failed"
            \/ /\ r.error = "None" /\ call[o].re.op \notin Sends /\ Told' = "nothing"
               /\ \E re \in Request : /\ call'[o].re = re
                                      /\ Ask(o, [call[o] EXCEPT !.re = re], q)
<1> DEFINE Done == /\ RightApi(call'[o])
                   /\ call'[o] = NoCall /\ toDaemon' = [toDaemon EXCEPT ![o] = q]
                   /\ IF call[o].re.op \notin Sends THEN Told' \in {"nothing", "failed"}
                      ELSE Told' = IF r.error = "None" THEN "sent" ELSE "failed"
           Goes == /\ RightApi(call'[o])
                   /\ r.error = "None" /\ call[o].re.op \notin Sends /\ Told' = "nothing"
                   /\ \E re \in Request : /\ call'[o].re = re
                                          /\ Ask(o, [call[o] EXCEPT !.re = re], q)
<1>0. call[o] \in OpenCall
  BY DEF Complete, RegisterAnswered, ProxyCreated, UnregisterAnswered, CheckAnswered, SendAnswered,
         NoCall, NoRequest, MPTypeOK
<1>1. ASSUME NEW error, NEW id, ReturnAfter(o, r, q, error, id), call[o].re.op \notin Sends,
             error # "NONE" \/ call[o].api \notin {"send", "bidirectional"}
      PROVE  Done
  <2>1. call'[o] = NoCall /\ Says(o)
    BY <1>1, ReturnSays DEF ReturnAfter, Return, MPTypeOK
  <2> QED
    BY <1>1, <2>1 DEF ReturnAfter, Says
<1>2. ASSUME NEW re \in Request, Proceed(o, q, re), r.error = "None", call[o].re.op \notin Sends,
             RightApi([call[o] EXCEPT !.re = re])
      PROVE  Goes
  <2> DEFINE c == [call[o] EXCEPT !.re = re]
  <2>1. c.re = re
    BY <1>0 DEF OpenCall
  <2> HIDE DEF c
  <2>2. Ask(o, c, q) /\ RightApi(c)
    BY <1>2 DEF Proceed, c
  <2>3. call'[o] = c /\ event' = NoEvent
    BY <2>2 DEF Ask, MPTypeOK
  <2> QED
    BY <1>2, <2>1, <2>2, <2>3, NothingTold DEF c
<1>3. \A re : /\ [call[o] EXCEPT !.re = re].re = re
              /\ [call[o] EXCEPT !.re = re].api = call[o].api
  BY <1>0 DEF OpenCall
<1>4. CASE RegisterAnswered(o, r, q)
  <2>1. [op |-> "GetAll", from |-> r.id] \in Request
    BY DEF Request
  <2>2. call[o].api = "register" /\ call[o].re.op \notin Sends
    BY <1>4 DEF RegisterAnswered, RightApi, Sends
  <2>3. RightApi([call[o] EXCEPT !.re = [op |-> "GetAll", from |-> r.id]])
    BY <1>3, <2>2 DEF RightApi, Sends
  <2> HIDE DEF Done, Goes
  <2>4. Done \/ Goes
    BY <1>1, <1>2, <1>4, <2>1, <2>2, <2>3 DEF RegisterAnswered
  <2> QED
    BY <2>4 DEF Done, Goes
<1>5. CASE ProxyCreated(o, r, q)
  <2>1. call[o].api = "register" /\ call[o].re.op \notin Sends
    BY <1>5 DEF ProxyCreated, RightApi, Sends
  <2> QED
    BY <1>1, <1>5, <2>1 DEF ProxyCreated
<1>6. CASE UnregisterAnswered(o, r, q)
  <2>1. call[o].api = "unregister" /\ call[o].re.op \notin Sends
    BY <1>6 DEF UnregisterAnswered, RightApi, Sends
  <2> QED
    BY <1>1, <1>6, <2>1 DEF UnregisterAnswered
<1>7. CASE CheckAnswered(o, r, q)
  <2> DEFINE s == [op |-> "SendMessage", service_id |-> r.id]
             b == [op |-> "ServiceSendMessage", from |-> call[o].from, service_id |-> r.id]
  <2>1. call[o].re.op \notin Sends
    BY <1>7 DEF CheckAnswered, Sends
  <2>2. s \in Request /\ b \in Request
    BY <1>0 DEF Request, OpenCall
  <2>3. call[o].api \in {"send", "bidirectional"} =>
          RightApi([call[o] EXCEPT !.re = s]) /\ RightApi([call[o] EXCEPT !.re = b])
    BY <1>3 DEF RightApi, Sends
  <2> HIDE DEF Done, Goes, s, b
  <2>4. \/ /\ call[o].api = "check" \/ r.error # "None"
           /\ ReturnAfter(o, r, q, ErrorOf(r.error), 0) \/ ReturnAfter(o, r, q, "MESSAGEPORT_NOT_FOUND", 0)
        \/ /\ call[o].api \in {"send", "bidirectional"} /\ r.error = "None"
           /\ Proceed(o, q, s) \/ Proceed(o, q, b)
    BY <1>7 DEF CheckAnswered, s, b
  <2>5. Done \/ Goes
    BY <1>1, <1>2, <2>1, <2>2, <2>3, <2>4, ErrorLemma
  <2> QED
    BY <2>5 DEF Done, Goes
<1>8. CASE SendAnswered(o, r, q)
  <2>1. call[o].api \in {"send", "bidirectional"} /\ call[o].re.op \in Sends
    BY <1>8 DEF SendAnswered, RightApi, Sends
  <2>2. /\ call'[o] = NoCall /\ toDaemon' = [toDaemon EXCEPT ![o] = q]
        /\ event'.type = "Return" /\ event'.call = call[o] /\ event'.error = ErrorOf(r.error)
    BY <1>8 DEF SendAnswered, ReturnAfter, Return, MPTypeOK
  <2>3. RightApi(NoCall)
    BY DEF RightApi, NoCall, NoRequest, Sends
  <2> QED
    BY <2>1, <2>2, <2>3, ErrorLemma DEF Told
<1> HIDE DEF Done, Goes
<1>9. Done \/ Goes
  BY <1>4, <1>5, <1>6, <1>7, <1>8 DEF Complete, Done, Goes
<1> QED
  BY <1>9 DEF Done, Goes

\* A step that ends a D-Bus call, or none.
LEMMA AnswersSay ==
  ASSUME MPTypeOK, NEW o \in Owner, RightApi(call[o]), Timeout(o) \/ Broken(o) \/ Receive(o)
  PROVE  RightApi(call'[o])
<1>1. \A r, q : r.id \in Id /\ Complete(o, r, q) => RightApi(call'[o])
  BY CompleteSays
<1>2. CASE Timeout(o) \/ Broken(o)
  BY <1>1, <1>2, ZeroLemma DEF Timeout, Broken, Failure
<1>3. CASE Receive(o)
  BY <1>1, <1>3, HeadLemma DEF Receive
<1> QED
  BY <1>2, <1>3

LEMMA SendInvStep ==
  ASSUME MPTypeOK, MPInv, SendInv, [MPNext]_mpVars
  PROVE  SendInv'
<1>1. CASE UNCHANGED mpVars
  BY <1>1 DEF mpVars, clientVars, SendInv, Silent
<1>2. ASSUME NEW o \in Owner, ClientStep(o), RightApi(call'[o]), Silent(o)' PROVE SendInv'
  BY <1>2, OthersLeft DEF SendInv, Silent
<1>3. ASSUME NEW o \in Owner, Open(o) \/ Exit(o) \/ Dispatch(o) \/ HangUp(o) PROVE SendInv'
  <2>1. call'[o] \in {call[o], NoCall} /\ Silent(o)'
    BY <1>3 DEF Open, Exit, Dispatch, HangUp, MPTypeOK, SendInv, Silent
  <2>2. RightApi(call'[o])
    BY <2>1 DEF SendInv, RightApi, NoCall, NoRequest, Sends
  <2> QED
    BY <1>2, <1>3, <2>1, <2>2 DEF ClientStep
<1>4. ASSUME NEW o \in Owner, Timeout(o) \/ Broken(o) \/ Receive(o) PROVE SendInv'
  <2>1. Silent(o)'
    BY <1>4 DEF Timeout, Broken, Receive, SendInv, Silent
  <2> QED
    BY <1>2, <1>4, <2>1, AnswersSay DEF ClientStep, SendInv
<1>5. ASSUME NEW o \in Owner, Calls(o) PROVE SendInv'
  <2>1. Begins(o) /\ Says(o)
    BY <1>5, BeginsLemma, CallsSay
  <2> QED
    BY <1>2, <2>1 DEF Begins, Says, ClientStep, SendInv, Silent
<1>6. ASSUME NEW o \in Owner, Pick(o) \/ Serve(o) \/ Notice(o) PROVE SendInv'
  <2>1. call' = call
    BY <1>6 DEF Pick, Serve, Notice
  <2>2. \A q \in Owner : link'[q] # "up" => link[q] # "up" /\ toClient'[q] = toClient[q]
    BY <1>6 DEF Pick, Serve, Notice, MPTypeOK
  <2> QED
    BY <2>1, <2>2 DEF SendInv, Silent
<1>7. CASE DaemonDies
  BY <1>7 DEF DaemonDies, SendInv, Silent
<1> QED
  BY <1>1, <1>3, <1>4, <1>5, <1>6, <1>7, MPSteps

-----------------------------------------------------------------------------
(* What became of a message, before and after a step.                      *)

Typed == MPTypeOK /\ MailOK

\* A thread that waits for no message to be sent.
LEMMA NotSending ==
  ASSUME Typed, Typed', NEW o \in Owner
  PROVE  /\ call[o].re.op \notin Sends => Sending(o) = "no" /\ Forgotten(o) = Sent(o)
         /\ call'[o].re.op \notin Sends => Sending(o)' = "no" /\ Forgotten(o)' = Sent(o)'
<1>1. call[o].re.op \notin Sends => Sending(o) = "no" /\ ~ Asked(o)
  BY DEF Sending, Asked
<1>2. call'[o].re.op \notin Sends => Sending(o)' = "no" /\ ~ Asked(o)'
  BY DEF Sending, Asked
<1> QED
  BY <1>1, <1>2, Counts DEF Typed

\* One that does, by what is under way.
LEMMA IsSending ==
  ASSUME Typed, Typed', NEW o \in Owner
  PROVE  /\ call[o].re.op \in Sends =>
              IF Waiting(toDaemon[o]) # {} THEN Sending(o) = "asked" /\ Forgotten(o) = Sent(o) - 1
              ELSE /\ Forgotten(o) = Sent(o)
                   /\ Sending(o) = IF Answers(o) = {} THEN "lost"
                                   ELSE IF \E m \in Answers(o) : m.error = "None"
                                        THEN "forwarded" ELSE "refused"
         /\ call'[o].re.op \in Sends =>
              IF Waiting(toDaemon'[o]) # {} THEN Sending(o)' = "asked" /\ Forgotten(o)' = Sent(o)' - 1
              ELSE /\ Forgotten(o)' = Sent(o)'
                   /\ Sending(o)' = IF Answers(o)' = {} THEN "lost"
                                    ELSE IF \E m \in Answers(o)' : m.error = "None"
                                         THEN "forwarded" ELSE "refused"
<1>1. /\ Asked(o) <=> call[o].re.op \in Sends /\ Waiting(toDaemon[o]) # {}
      /\ Asked(o)' <=> call'[o].re.op \in Sends /\ Waiting(toDaemon'[o]) # {}
  BY DEF Asked, Waiting
<1>2. /\ call[o].re.op \in Sends =>
           Sending(o) = IF Asked(o) THEN "asked" ELSE IF Answers(o) = {} THEN "lost"
                        ELSE IF \E m \in Answers(o) : m.error = "None" THEN "forwarded" ELSE "refused"
      /\ call'[o].re.op \in Sends =>
           Sending(o)' = IF Asked(o)' THEN "asked" ELSE IF Answers(o)' = {} THEN "lost"
                         ELSE IF \E m \in Answers(o)' : m.error = "None" THEN "forwarded" ELSE "refused"
  BY DEF Sending
<1>3. /\ Sent(o) \in Nat /\ Sent(o)' \in Nat
      /\ Forgotten(o) = Sent(o) - (IF Asked(o) THEN 1 ELSE 0)
      /\ Forgotten(o)' = Sent(o)' - (IF Asked(o)' THEN 1 ELSE 0)
  BY Counts DEF Typed
<1>4. CASE Asked(o) /\ Asked(o)'
  BY <1>1, <1>2, <1>3, <1>4
<1>5. CASE Asked(o) /\ ~ Asked(o)'
  BY <1>1, <1>2, <1>3, <1>5
<1>6. CASE ~ Asked(o) /\ Asked(o)'
  BY <1>1, <1>2, <1>3, <1>6
<1>7. CASE ~ Asked(o) /\ ~ Asked(o)'
  BY <1>1, <1>2, <1>3, <1>7
<1> QED
  BY <1>4, <1>5, <1>6, <1>7

\* A thread whose call and queues do not change.
LEMMA SameStep ==
  ASSUME NEW o \in Owner, call'[o] = call[o], toDaemon'[o] = toDaemon[o], toClient'[o] = toClient[o]
  PROVE  /\ SameAsked(o)
         /\ mailbox'[o] = mailbox[o] => SameFlying(o)
<1>1. Asked(o)' = Asked(o) /\ Answers(o)' = Answers(o) /\ Requests(o)' = Requests(o)
  BY DEF Asked, Answers, Requests, Waiting
<1>2. SameAsked(o)
  BY <1>1 DEF SameAsked, Sending, Forgotten
<1>3. mailbox'[o] = mailbox[o] => SameFlying(o)
  BY DEF SameFlying, Flying
<1> QED
  BY <1>2, <1>3

-----------------------------------------------------------------------------
(* The library's steps.                                                    *)

\* What a step of one thread leaves to the others.
LEMMA OthersSame ==
  ASSUME Typed, NEW o \in Owner, ClientStep(o), \A q \in Owner \ {o} : mailbox'[q] = mailbox[q]
  PROVE  \A q \in Owner \ {o} : Same(q) /\ link'[q] = link[q]
  BY OthersLeft, SameStep DEF Typed, Same

LEMMA OthersMail ==
  ASSUME Typed, NEW o \in Owner,
         \/ Open(o) \/ Exit(o) \/ Timeout(o) \/ Broken(o) \/ Receive(o) \/ Dispatch(o) \/ HangUp(o)
  PROVE  \A q \in Owner \ {o} : mailbox'[q] = mailbox[q]
<1>0. mailbox \in [Owner -> Seq(SignalMessage)]
  BY DEF Typed, MailOK
<1>1. ASSUME NEW s, mailbox' = [mailbox EXCEPT ![o] = s]
      PROVE  \A q \in Owner \ {o} : mailbox'[q] = mailbox[q]
  BY <1>0, <1>1
<1>2. CASE Open(o) \/ Timeout(o) \/ Broken(o) \/ HangUp(o)
  BY <1>2 DEF Open, Timeout, Broken, HangUp
<1>3. CASE Exit(o) \/ Dispatch(o)
  BY <1>1, <1>3 DEF Exit, Dispatch
<1>4. CASE Receive(o)
  BY <1>1, <1>4 DEF Receive
<1> QED
  BY <1>2, <1>3, <1>4

\* Whether what is under way is waited for makes no difference to its number.
LEMMA AbandonCounts ==
  ASSUME MPTypeOK, NEW o \in Owner
  PROVE  /\ Count(Abandon(toDaemon[o]), ToSend) = Sent(o)
         /\ Count(Abandon(toClient[o]), ToDispatch) = Came(o)
<1>1. ASSUME NEW s \in Seq(Asking) PROVE At(Abandon(s), ToSend) = At(s, ToSend)
  <2>1. \A i \in DOMAIN s : s[i] \in Asking
    OBVIOUS
  <2>2. \A x \in Asking : [x EXCEPT !.waiting = FALSE] \in ToSend <=> x \in ToSend
    BY DEF Asking, ToSend
  <2> QED
    BY <2>1, <2>2 DEF At, Abandon
<1>2. ASSUME NEW s \in Seq(Telling) PROVE At(Abandon(s), ToDispatch) = At(s, ToDispatch)
  <2>1. \A i \in DOMAIN s : s[i] \in Telling
    OBVIOUS
  <2>2. \A x \in Telling : [x EXCEPT !.waiting = FALSE] \in ToDispatch <=> x \in ToDispatch
    BY DEF Telling, ToDispatch
  <2> QED
    BY <2>1, <2>2 DEF At, Abandon
<1>3. toDaemon[o] \in Seq(Asking) /\ toClient[o] \in Seq(Telling)
  BY DEF MPTypeOK
<1> QED
  BY <1>1, <1>2, <1>3 DEF Sent, Came, Count

\* A D-Bus call that fails ends the call.
LEMMA FailureMaps ==
  ASSUME Typed, Typed', NEW o \in Owner, RightApi(call[o]),
         \A q \in Owner \ {o} : Same(q), SameFlying(o), UNCHANGED link,
         NEW r, r.id \in Id, r.error # "None", NEW s, Complete(o, r, s), Count(s, ToSend) = Sent(o)
  PROVE  Messages!Next
<1>1. /\ call'[o] = NoCall /\ toDaemon' = [toDaemon EXCEPT ![o] = s]
      /\ IF call[o].re.op \notin Sends THEN Told' \in {"nothing", "failed"} ELSE Told' = "failed"
  BY CompleteSays DEF Typed
<1>2. Sent(o)' = Sent(o) /\ Sent(o) \in Nat
  BY <1>1, Counts DEF Typed, MPTypeOK, Sent
<1>3. Sending(o)' = "no" /\ Forgotten(o)' = Sent(o)'
  BY <1>1, NotSending DEF NoCall, NoRequest, Sends
<1>4. CASE call[o].re.op \notin Sends
  <2>1. Same(o)
    BY <1>2, <1>3, <1>4, NotSending DEF Same, SameAsked
  <2> QED
    BY <1>1, <1>4, <2>1, IsElsewhere
<1>5. CASE call[o].re.op \in Sends
  <2>1. Sending(o) # "no" /\ Sent(o) = Forgotten(o) + (IF Sending(o) = "asked" THEN 1 ELSE 0)
    BY <1>2, <1>5, IsSending
  <2> QED
    BY <1>1, <1>2, <1>3, <1>5, <2>1, IsGiveUp
<1> QED
  BY <1>4, <1>5

LEMMA TimeoutMaps ==
  ASSUME Typed, Typed', SendInv, NEW o \in Owner, Timeout(o) \/ Broken(o)
  PROVE  Messages!Next
<1>1. /\ \A q \in Owner \ {o} : Same(q)
      /\ RightApi(call[o]) /\ UNCHANGED <<link, mailbox>>
  BY OthersMail, OthersSame DEF ClientStep, SendInv, Timeout, Broken
<1>2. CASE Timeout(o)
  <2>1. Came(o)' = Came(o)
    BY <1>2, AbandonCounts DEF Timeout, Typed, MPTypeOK, Came
  <2>2. SameFlying(o)
    BY <1>1, <2>1, Counts DEF Typed, SameFlying
  <2> QED
    BY <1>1, <1>2, <2>2, AbandonCounts, FailureMaps, ZeroLemma DEF Timeout, Failure, Typed
<1>3. CASE Broken(o)
  <2>1. SameFlying(o)
    BY <1>1, <1>3 DEF Broken, SameFlying, Flying
  <2> QED
    BY <1>1, <1>3, <2>1, FailureMaps, ZeroLemma DEF Broken, Failure, Sent
<1> QED
  BY <1>2, <1>3

\* A thread begins a call.
LEMMA CallsMap ==
  ASSUME Typed, Typed', NEW o \in Owner, Calls(o)
  PROVE  Messages!Next
<1>1. Begins(o) /\ Says(o) /\ mailbox' = mailbox
  BY BeginsLemma, CallsSay DEF Typed
<1>2. /\ \A q \in Owner \ {o} : Same(q)
      /\ SameFlying(o)
  <2>1. SameFlying(o)
    BY <1>1 DEF Begins, SameFlying, Flying
  <2> QED
    BY <1>1, <2>1, OthersSame DEF ClientStep
<1>3. call[o].re.op \notin Sends /\ Forgotten(o) = Sent(o) /\ Sending(o) = "no"
  BY <1>1, NotSending DEF Begins, NoCall, NoRequest, Sends
<1>4. call'[o].re.op \notin Sends /\ Sent(o)' = Sent(o)
  <2>1. CASE call' = [call EXCEPT ![o] = NoCall] /\ UNCHANGED toDaemon
    BY <2>1 DEF Typed, MPTypeOK, NoCall, NoRequest, Sends, Sent
  <2>2. ASSUME NEW c \in OpenCall, c.re.op \notin Sends, Ask(o, c, toDaemon[o])
        PROVE  call'[o].re.op \notin Sends /\ Sent(o)' = Sent(o)
    <3> DEFINE x == [re |-> c.re, waiting |-> TRUE]
    <3>1. toDaemon[o] \in Seq(Asking) /\ x \in Asking /\ x \notin ToSend
      <4>1. c.re \in Request
        BY DEF OpenCall
      <4> QED
        BY <2>2, <4>1 DEF Typed, MPTypeOK, Asking, ToSend
    <3>2. toDaemon'[o] \in {Append(toDaemon[o], x), toDaemon[o]} /\ call'[o] = c
      BY <2>2 DEF Ask, Typed, MPTypeOK
    <3> HIDE DEF x
    <3>3. Count(Append(toDaemon[o], x), ToSend) = Count(toDaemon[o], ToSend)
      <4>1. Count(toDaemon[o], ToSend) \in Nat
        BY <3>1, CountType
      <4> QED
        BY <3>1, <4>1, CountAppend
    <3> QED
      BY <2>2, <3>2, <3>3 DEF Sent
  <2> QED
    BY <1>1, <2>1, <2>2 DEF Begins
<1>5. Same(o)
  BY <1>2, <1>3, <1>4, NotSending DEF Same, SameAsked
<1> QED
  BY <1>1, <1>2, <1>5, IsElsewhere DEF Says

\* Reading a message that nobody waits for leaves the others.
LEMMA UnawaitedTail ==
  ASSUME NEW S, NEW q \in Seq(S), q # <<>>, ~ Head(q).waiting
  PROVE  /\ Waiting(Tail(q)) = {} <=> Waiting(q) = {}
         /\ {Tail(q)[i] : i \in Waiting(Tail(q))} = {q[i] : i \in Waiting(q)}
<1>1. /\ Len(q) \in Nat \ {0} /\ DOMAIN q = 1 .. Len(q) /\ Head(q) = q[1]
      /\ DOMAIN Tail(q) = 1 .. Len(q) - 1
      /\ \A i \in 1 .. Len(q) - 1 : Tail(q)[i] = q[i + 1]
  OBVIOUS
<1>2. \A i \in Waiting(Tail(q)) : i + 1 \in Waiting(q) /\ Tail(q)[i] = q[i + 1]
  BY TailLemma
<1>3. \A i \in Waiting(q) : i - 1 \in Waiting(Tail(q)) /\ Tail(q)[i - 1] = q[i]
  <2> SUFFICES ASSUME NEW i \in Waiting(q)
               PROVE  i - 1 \in Waiting(Tail(q)) /\ Tail(q)[i - 1] = q[i]
    OBVIOUS
  <2>1. i \in 1 .. Len(q) /\ q[i].waiting /\ i # 1
    BY <1>1 DEF Waiting
  <2>2. i - 1 \in 1 .. Len(q) - 1 /\ (i - 1) + 1 = i
    BY <1>1, <2>1
  <2>3. Tail(q)[i - 1] = q[i]
    BY <1>1, <2>2
  <2> QED
    BY <1>1, <2>1, <2>2, <2>3 DEF Waiting
<1>4. Waiting(Tail(q)) = {} <=> Waiting(q) = {}
  BY <1>2, <1>3
<1>5. \A i \in Waiting(Tail(q)) : \E j \in Waiting(q) : Tail(q)[i] = q[j]
  BY <1>2
<1>6. \A j \in Waiting(q) : \E i \in Waiting(Tail(q)) : Tail(q)[i] = q[j]
  BY <1>3
<1>7. {Tail(q)[i] : i \in Waiting(Tail(q))} = {q[i] : i \in Waiting(q)}
  <2> DEFINE P(x) == x \in {Tail(q)[i] : i \in Waiting(Tail(q))}
             Q(x) == x \in {q[i] : i \in Waiting(q)}
  <2>1. \A x : P(x) <=> \E i \in Waiting(Tail(q)) : x = Tail(q)[i]
    OBVIOUS
  <2>2. \A x : Q(x) <=> \E i \in Waiting(q) : x = q[i]
    OBVIOUS
  <2>3. \A x : P(x) <=> Q(x)
    <3> HIDE DEF P, Q
    <3> QED
      BY <1>5, <1>6, <2>1, <2>2
  <2> QED
    BY <2>3, Zenon
<1> QED
  BY <1>4, <1>7

\* A request is added to those under way.
LEMMA AskCounts ==
  ASSUME MPTypeOK, NEW o \in Owner, NEW re \in Request,
         toDaemon'[o] = Append(toDaemon[o], [re |-> re, waiting |-> TRUE])
  PROVE  /\ Sent(o)' = Sent(o) + (IF re.op \in Sends THEN 1 ELSE 0)
         /\ Waiting(toDaemon'[o]) # {}
<1> DEFINE x == [re |-> re, waiting |-> TRUE]
<1>1. toDaemon[o] \in Seq(Asking) /\ x \in Asking /\ (x \in ToSend <=> re.op \in Sends)
  BY DEF MPTypeOK, Asking, ToSend
<1>2. toDaemon'[o] = Append(toDaemon[o], x) /\ x.waiting
  OBVIOUS
<1> HIDE DEF x
<1>3. Sent(o)' = Sent(o) + (IF re.op \in Sends THEN 1 ELSE 0)
  BY <1>1, <1>2, CountAppend DEF Sent
<1>4. Len(toDaemon[o]) + 1 \in DOMAIN toDaemon'[o] /\ toDaemon'[o][Len(toDaemon[o]) + 1] = x
  BY <1>1, <1>2
<1> QED
  BY <1>2, <1>3, <1>4 DEF Waiting

\* The one answer there can be is read.
LEMMA AnswerMaps ==
  ASSUME Typed, Typed', NEW o \in Owner, OneAnswer(o), RightApi(call[o]), link[o] = "up",
         \A q \in Owner \ {o} : Same(q), SameFlying(o), UNCHANGED link,
         toClient[o] # <<>>, Head(toClient[o]).waiting,
         NEW m, m = Head(toClient[o]).message, Complete(o, m, toDaemon[o])
  PROVE  Messages!Next
<1>1. toClient[o] \in Seq(Telling) /\ m.id \in Id
  BY HeadLemma DEF Typed, MPTypeOK
<1>2. 1 \in Waiting(toClient[o]) /\ toClient[o][1] = Head(toClient[o])
  BY <1>1, TailLemma
<1>3. Waiting(toDaemon[o]) = {} /\ Answers(o) = {m}
  BY <1>2 DEF OneAnswer, Answers
<1>4. Sent(o) \in Nat /\ Sent(o)' \in Nat
  BY Counts DEF Typed
<1>5. ASSUME call'[o] = NoCall, toDaemon' = [toDaemon EXCEPT ![o] = toDaemon[o]],
             IF call[o].re.op \notin Sends THEN Told' \in {"nothing", "failed"}
             ELSE Told' = IF m.error = "None" THEN "sent" ELSE "failed"
      PROVE  Messages!Next
  <2>1. Sent(o)' = Sent(o)
    BY <1>5 DEF Typed, MPTypeOK, Sent
  <2>2. Sending(o)' = "no" /\ Forgotten(o)' = Sent(o)
    BY <1>5, <2>1, NotSending DEF NoCall, NoRequest, Sends
  <2>3. CASE call[o].re.op \notin Sends
    <3>1. Same(o)
      BY <2>2, <2>3, NotSending DEF Same, SameAsked
    <3> QED
      BY <1>5, <2>3, <3>1, IsElsewhere
  <2>4. CASE call[o].re.op \in Sends
    <3>1. /\ Forgotten(o) = Sent(o)
          /\ Sending(o) = IF m.error = "None" THEN "forwarded" ELSE "refused"
      BY <1>3, <2>4, IsSending
    <3> QED
      BY <1>5, <2>2, <2>4, <3>1, IsReturn
  <2> QED
    BY <2>3, <2>4
<1>6. ASSUME call[o].re.op \notin Sends, Told' = "nothing", NEW re \in Request, call'[o].re = re,
             Ask(o, [call[o] EXCEPT !.re = re], toDaemon[o])
      PROVE  Messages!Next
  <2>1. toDaemon'[o] = Append(toDaemon[o], [re |-> re, waiting |-> TRUE])
    <3>1. call[o] \in OpenCall
      BY <1>1, CompletesLemma DEF Completes, Typed, MPTypeOK
    <3>2. [call[o] EXCEPT !.re = re].re = re
      BY <3>1 DEF OpenCall
    <3> QED
      BY <1>6, <3>2 DEF Ask, Typed, MPTypeOK
  <2>2. /\ Sent(o)' = Sent(o) + (IF re.op \in Sends THEN 1 ELSE 0)
        /\ Waiting(toDaemon'[o]) # {}
    BY <2>1, AskCounts DEF Typed
  <2>3. Sending(o) = "no" /\ Forgotten(o) = Sent(o)
    BY <1>6, NotSending
  <2>4. CASE re.op \in Sends
    <3>1. Sending(o)' = "asked" /\ Forgotten(o)' = Sent(o)' - 1
      BY <1>6, <2>2, <2>4, IsSending
    <3>2. Forgotten(o)' = Forgotten(o)
      BY <1>4, <2>2, <2>3, <2>4, <3>1
    <3> QED
      BY <1>6, <2>3, <3>1, <3>2, IsAsk
  <2>5. CASE re.op \notin Sends
    <3>1. Sending(o)' = "no" /\ Forgotten(o)' = Sent(o)
      BY <1>4, <1>6, <2>2, <2>5, NotSending
    <3>2. Same(o)
      BY <2>3, <3>1 DEF Same, SameAsked
    <3> QED
      BY <1>6, <3>2, IsElsewhere
  <2> QED
    BY <2>4, <2>5
<1>7. \/ /\ call'[o] = NoCall /\ toDaemon' = [toDaemon EXCEPT ![o] = toDaemon[o]]
         /\ IF call[o].re.op \notin Sends THEN Told' \in {"nothing", "failed"}
            ELSE Told' = IF m.error = "None" THEN "sent" ELSE "failed"
      \/ /\ call[o].re.op \notin Sends /\ Told' = "nothing"
         /\ \E re \in Request : /\ call'[o].re = re
                                /\ Ask(o, [call[o] EXCEPT !.re = re], toDaemon[o])
  BY <1>1, CompleteSays DEF Typed
<1> QED
  BY <1>5, <1>6, <1>7

LEMMA ReceiveMaps ==
  ASSUME Typed, Typed', MPInv, SendInv, NEW o \in Owner, Receive(o)
  PROVE  Messages!Next
<1> DEFINE head == Head(toClient[o])
           m == head.message
<1>1. /\ link[o] = "up" /\ UNCHANGED link /\ toClient[o] # <<>> /\ toClient[o] \in Seq(Telling)
      /\ toClient'[o] = Tail(toClient[o]) /\ OneAnswer(o) /\ RightApi(call[o])
  BY DEF Receive, Typed, MPTypeOK, MPInv, PortInv, SendInv
<1>2. \A q \in Owner \ {o} : Same(q)
  BY OthersMail, OthersSame DEF ClientStep
<1>3. /\ Flying(o) = Len(mailbox[o]) + Came(o) /\ Flying(o)' = Len(mailbox'[o]) + Came(o)'
      /\ Len(mailbox[o]) \in Nat /\ Came(o) \in Nat /\ Came(o)' \in Nat
  BY Counts DEF Typed
<1>4. Came(o) = Came(o)' + (IF m.type = "OnMessage" THEN 1 ELSE 0)
  <2>1. head \in Telling
    BY <1>1
  <2>2. head \in ToDispatch <=> m.type = "OnMessage"
    BY <2>1 DEF ToDispatch
  <2> HIDE DEF head
  <2>3. Count(toClient[o], ToDispatch) =
          Count(Tail(toClient[o]), ToDispatch) + (IF head \in ToDispatch THEN 1 ELSE 0)
    BY <1>1, CountTail DEF head
  <2> QED
    BY <1>1, <2>2, <2>3 DEF Came
<1>5. CASE head.waiting /\ Complete(o, m, toDaemon[o]) /\ UNCHANGED mailbox
  <2>1. m.type = "Reply"
    BY <1>1, <1>5, TailLemma DEF OneAnswer
  <2>2. SameFlying(o)
    BY <1>3, <1>4, <1>5, <2>1 DEF SameFlying
  <2> QED
    BY <1>1, <1>2, <1>5, <2>2, AnswerMaps
<1>6. CASE /\ ~ head.waiting
           /\ mailbox' = IF m.type = "OnMessage" /\ Subscribed(o, m.id)
                         THEN [mailbox EXCEPT ![o] = Append(@, m)] ELSE mailbox
           /\ event' = NoEvent /\ UNCHANGED <<call, toDaemon>>
  <2>1. Answers(o)' = Answers(o)
    <3>1. {Tail(toClient[o])[i] : i \in Waiting(Tail(toClient[o]))} =
          {toClient[o][i] : i \in Waiting(toClient[o])}
      BY <1>1, <1>6, UnawaitedTail
    <3>2. /\ Answers(o) = {x.message : x \in {toClient[o][i] : i \in Waiting(toClient[o])}}
          /\ Answers(o)' = {x.message : x \in {Tail(toClient[o])[i] : i \in Waiting(Tail(toClient[o]))}}
      BY <1>1 DEF Answers, Waiting
    <3> QED
      BY <3>1, <3>2
  <2>2. SameAsked(o)
    <3>1. Asked(o)' = Asked(o) /\ Requests(o)' = Requests(o)
      BY <1>6 DEF Asked, Requests, Waiting
    <3> QED
      BY <1>6, <2>1, <3>1 DEF SameAsked, Sending, Forgotten
  <2>3. Told' = "nothing"
    BY <1>6, NothingTold
  <2>4. CASE m.type = "OnMessage" /\ Subscribed(o, m.id)
    <3>1. mailbox[o] \in Seq(SignalMessage) /\ mailbox'[o] = Append(mailbox[o], m)
      BY <1>6, <2>4 DEF Typed, MailOK
    <3>2. Len(mailbox'[o]) = Len(mailbox[o]) + 1
      BY <3>1
    <3>3. SameFlying(o)
      BY <1>3, <1>4, <2>4, <3>2 DEF SameFlying
    <3> QED
      BY <1>2, <2>2, <2>3, <3>3, IsElsewhere DEF Same
  <2>5. CASE m.type # "OnMessage"
    <3>1. SameFlying(o)
      BY <1>3, <1>4, <1>6, <2>5 DEF SameFlying
    <3> QED
      BY <1>2, <2>2, <2>3, <3>1, IsElsewhere DEF Same
  <2>6. CASE m.type = "OnMessage" /\ ~ Subscribed(o, m.id)
    <3>1. Flying(o) > 0 /\ Flying(o)' = Flying(o) - 1
      BY <1>3, <1>4, <1>6, <2>6
    <3> QED
      BY <1>1, <1>2, <2>2, <2>3, <3>1, IsDeliver
  <2> QED
    BY <2>4, <2>5, <2>6
<1> QED
  BY <1>5, <1>6 DEF Receive

\* The main loop of a thread takes a signal.
LEMMA DispatchMaps ==
  ASSUME Typed, Typed', NEW o \in Owner, Dispatch(o)
  PROVE  Messages!Next
<1>1. \A q \in Owner \ {o} : Same(q)
  BY OthersMail, OthersSame DEF ClientStep
<1>2. /\ mailbox[o] \in Seq(SignalMessage) /\ mailbox[o] # <<>> /\ mailbox'[o] = Tail(mailbox[o])
      /\ UNCHANGED <<link, call, toDaemon, toClient>>
  BY DEF Dispatch, Typed, MailOK
<1>3. Len(mailbox[o]) \in Nat \ {0} /\ Len(mailbox'[o]) = Len(mailbox[o]) - 1
  BY <1>2
<1>4. Came(o)' = Came(o)
  BY <1>2 DEF Came
<1>5. Flying(o) > 0 /\ Flying(o)' = Flying(o) - 1
  BY <1>3, <1>4, Counts DEF Typed
<1>6. SameAsked(o)
  BY <1>2, SameStep
<1>7. Told' = "nothing"
  <2>1. event'.type # "Return"
    BY NoEventLemma DEF Dispatch
  <2> QED
    BY <2>1 DEF Told
<1> QED
  BY <1>1, <1>2, <1>5, <1>6, <1>7, IsDeliver

\* A process ends.
LEMMA ExitMaps ==
  ASSUME Typed, Typed', NEW o \in Owner, Exit(o)
  PROVE  Messages!Next
<1>1. \A q \in Owner \ {o} : Same(q) /\ link'[q] = link[q]
  BY OthersMail, OthersSame DEF ClientStep
<1>2. /\ call'[o] = NoCall /\ mailbox'[o] = <<>> /\ toClient'[o] = <<>> /\ link'[o] # "up"
      /\ toDaemon'[o] \in {toDaemon[o], <<>>} /\ event' = NoEvent
  BY DEF Exit, Typed, MPTypeOK, MailOK
<1>3. Sending(o)' = "no" /\ Forgotten(o)' = Sent(o)' /\ Sent(o) \in Nat
  <2>1. Sent(o) \in Nat
    BY Counts DEF Typed
  <2> QED
    BY <1>2, <2>1, NotSending DEF NoCall, NoRequest, Sends
<1>4. Flying(o)' = 0
  <2>1. Came(o)' = 0 /\ Len(mailbox'[o]) = 0
    BY <1>2, CountEmpty DEF Came
  <2> QED
    BY <2>1, Counts DEF Typed
<1>5. Sent(o)' \in {Sent(o), 0}
  BY <1>2, CountEmpty DEF Sent
<1>6. Sent(o) = Forgotten(o) + (IF Sending(o) = "asked" THEN 1 ELSE 0)
  <2>1. call[o].re.op \notin Sends => Sending(o) = "no" /\ Forgotten(o) = Sent(o)
    BY NotSending
  <2>2. call[o].re.op \in Sends => Forgotten(o) = IF Sending(o) = "asked" THEN Sent(o) - 1 ELSE Sent(o)
    BY IsSending
  <2> QED
    BY <1>3, <2>1, <2>2
<1>7. Told' = "nothing"
  BY <1>2, NothingTold
<1> QED
  BY <1>1, <1>2, <1>3, <1>4, <1>5, <1>6, <1>7, IsLeave

\* A connection comes or goes.
LEMMA LinkMaps ==
  ASSUME Typed, Typed', NEW o \in Owner, Open(o) \/ HangUp(o) \/ Pick(o)
  PROVE  Messages!Next
<1>1. UNCHANGED <<call, toDaemon, toClient, mailbox>> /\ event' = NoEvent
  BY DEF Open, HangUp, Pick
<1>2. \A q \in Owner : Same(q)
  BY <1>1, SameStep DEF Same
<1>3. Told' = "nothing"
  BY <1>1, NothingTold
<1> QED
  BY <1>2, <1>3, IsElsewhere

-----------------------------------------------------------------------------
(* The daemon's steps.                                                     *)

\* The daemon notices the end of a process.
LEMMA NoticeMaps ==
  ASSUME Typed, Typed', MPInv, NEW o \in Owner, Notice(o)
  PROVE  Messages!Next
<1>1. /\ link[o] = "exited" /\ link' = [link EXCEPT ![o] = "none"] /\ call[o] = NoCall
      /\ toDaemon' = [toDaemon EXCEPT ![o] = <<>>] /\ UNCHANGED <<call, toClient, mailbox>>
      /\ event' = NoEvent
  BY DEF Notice, MPInv, PortInv, LinkInv
<1>2. \A q \in Owner \ {o} : Same(q)
  BY <1>1, SameStep DEF Same, Typed, MPTypeOK
<1>3. \A q \in Owner : link'[q] = "up" <=> link[q] = "up"
  BY <1>1 DEF Typed, MPTypeOK
<1>4. SameFlying(o)
  BY <1>1 DEF SameFlying, Flying
<1>5. Sending(o) = "no" /\ Sending(o)' = "no" /\ Forgotten(o)' = Sent(o)'
  BY <1>1, NotSending DEF NoCall, NoRequest, Sends
<1>6. Sent(o)' = 0
  BY <1>1, CountEmpty DEF Typed, MPTypeOK, Sent
<1>7. Told' = "nothing"
  BY <1>1, NothingTold
<1> QED
  BY <1>2, <1>3, <1>4, <1>5, <1>6, <1>7, IsDropped

\* The daemon dies.
LEMMA DaemonDiesMaps ==
  ASSUME Typed, Typed', MPInv, SendInv, DaemonDies
  PROVE  Messages!Next
<1>1. /\ link' = [q \in Owner |-> IF link[q] = "exited" THEN "none" ELSE link[q]]
      /\ toDaemon' = [q \in Owner |-> <<>>] /\ UNCHANGED <<call, toClient, mailbox>>
      /\ event' = NoEvent
  BY DEF DaemonDies
<1>2. ASSUME NEW q \in Owner
      PROVE  /\ link'[q] = "up" <=> link[q] = "up"
             /\ Sending(q)' = IF Sending(q) = "asked" THEN "lost" ELSE Sending(q)
             /\ Forgotten(q)' = 0
             /\ SameFlying(q)
  <2>1. link'[q] = "up" <=> link[q] = "up"
    BY <1>1
  <2>2. SameFlying(q) /\ Answers(q)' = Answers(q)
    BY <1>1 DEF SameFlying, Flying, Answers, Waiting
  <2>3. Waiting(toDaemon'[q]) = {} /\ Sent(q)' = 0
    BY <1>1, CountEmpty DEF Waiting, Sent
  <2>4. CASE call[q].re.op \notin Sends
    BY <1>1, <2>1, <2>2, <2>3, <2>4, NotSending
  <2>5. CASE call[q].re.op \in Sends
    <3>1. Waiting(toDaemon[q]) # {} => Answers(q) = {}
      <4>1. link[q] = "up" => OneAnswer(q)
        BY DEF MPInv, PortInv
      <4>2. link[q] # "up" => Waiting(toClient[q]) = {}
        BY DEF SendInv, Silent, Waiting
      <4> QED
        BY <4>1, <4>2 DEF OneAnswer, Answers
    <3>2. /\ Forgotten(q)' = 0
          /\ Sending(q)' = IF Answers(q) = {} THEN "lost"
                           ELSE IF \E m \in Answers(q) : m.error = "None" THEN "forwarded" ELSE "refused"
      BY <1>1, <2>2, <2>3, <2>5, IsSending
    <3>3. Waiting(toDaemon[q]) # {} => Sending(q) = "asked"
      BY <2>5, IsSending
    <3>4. Waiting(toDaemon[q]) = {} =>
            Sending(q) = IF Answers(q) = {} THEN "lost"
                         ELSE IF \E m \in Answers(q) : m.error = "None" THEN "forwarded" ELSE "refused"
      BY <2>5, IsSending
    <3> QED
      BY <2>1, <2>2, <3>1, <3>2, <3>3, <3>4
  <2> QED
    BY <2>4, <2>5
<1>3. Told' = "nothing"
  BY <1>1, NothingTold
<1> QED
  BY <1>2, <1>3, IsDaemonDies

\* What a handler writes: nothing to unregister; otherwise an answer, and before it the
\* message if that was to be sent and the answer is not an error.
LEMMA HandleSends ==
  ASSUME IInv, DInv, NEW o \in Owner, NEW re \in Request, Handle(o, re)
  PROVE  \/ re.op = "Unregister" /\ out' = <<>>
         \/ \E r \in Answer(o, re) : (re.op \in Sends => r.error # "None") /\ out' = <<r>>
         \/ /\ re.op \in Sends
            /\ \E m \in Signal, r \in Answer(o, re) : r.error = "None" /\ out' = <<m, r>>
<1> DEFINE Silence == re.op = "Unregister" /\ out' = <<>>
           OneMessage == \E y : (re.op \in Sends => y.error # "None") /\ out' = <<y>>
           TwoMessages == re.op \in Sends /\ \E x, y : y.error = "None" /\ out' = <<x, y>>
<1>0. Writes(o, re)
  BY HandleWrites
<1>1. \A error, id : Reply(o, re, error, id).error = error
  BY DEF Reply
<1>2. ASSUME NEW error, NEW id, out' = <<Reply(o, re, error, id)>>, re.op \notin Sends \/ error # "None"
      PROVE  OneMessage
  BY <1>1, <1>2
<1>3. ASSUME NEW a, NEW port, NEW t, Forward(o, re, a, port, t), re.op \in Sends
      PROVE  OneMessage \/ TwoMessages
  <2>1. ASSUME NEW p, out' = <<OnMessage(p, a, port, t), Reply(o, re, "None", 0)>> PROVE TwoMessages
    BY <1>1, <1>3, <2>1
  <2> HIDE DEF OneMessage, TwoMessages
  <2> QED
    BY <1>2, <1>3, <2>1 DEF Forward
<1>4. Silence \/ OneMessage \/ TwoMessages
  <2>1. CASE SendMessage(o, re) \/ ServiceSendMessage(o, re)
    <3> HIDE DEF Silence, OneMessage, TwoMessages
    <3> QED
      BY <1>3, <2>1 DEF SendMessage, ServiceSendMessage, Sends
  <2>2. CASE NoSuchObject(o, re)
    <3> HIDE DEF Silence, OneMessage, TwoMessages
    <3> QED
      BY <1>2, <2>2 DEF NoSuchObject
  <2>3. CASE GetAll(o, re)
    <3>1. re.op \notin Sends
      BY <2>3 DEF GetAll, Sends
    <3> QED
      BY <2>3, <3>1 DEF GetAll
  <2>4. CASE Unregister(o, re)
    BY <2>4 DEF Unregister
  <2>5. CASE RegisterService(o, re) \/ CheckForRemoteService(o, re)
    <3>1. re.op \notin Sends
      BY <2>5 DEF RegisterService, CheckForRemoteService, Sends
    <3> HIDE DEF Silence, OneMessage, TwoMessages
    <3> QED
      BY <1>2, <2>5, <3>1 DEF RegisterService, CheckForRemoteService, PortNotFound
  <2> HIDE DEF Silence, OneMessage, TwoMessages
  <2> QED
    BY <2>1, <2>2, <2>3, <2>4, <2>5 DEF Handle
<1>5. CASE out' = <<>>
  BY <1>4, <1>5
<1>6. ASSUME NEW r \in Answer(o, re), out' = <<r>> PROVE re.op \in Sends => r.error # "None"
  BY <1>4, <1>6
<1>7. ASSUME NEW m \in Signal, NEW r \in Answer(o, re), out' = <<m, r>>
      PROVE  re.op \in Sends /\ r.error = "None"
  BY <1>4, <1>7
<1> QED
  BY <1>0, <1>5, <1>6, <1>7 DEF Writes

\* Connection q with queue s after the message m was written to connection p.
Gets(q, p, m, waiting, s) == IF q = p /\ link[q] = "up"
                             THEN Append(s, [message |-> m, waiting |-> waiting]) ELSE s

Awaited(s) == {s[i].message : i \in Waiting(s)}

\* It has one signal more, or one answer to hear.
GetsIt(q, p, m, waiting, s) ==
  /\ Gets(q, p, m, waiting, s) \in Seq(Telling)
  /\ Count(Gets(q, p, m, waiting, s), ToDispatch) =
       Count(s, ToDispatch) + (IF q = p /\ link[q] = "up" /\ m.type = "OnMessage" THEN 1 ELSE 0)
  /\ Awaited(Gets(q, p, m, waiting, s)) =
       Awaited(s) \cup (IF q = p /\ link[q] = "up" /\ waiting THEN {m} ELSE {})

LEMMA GetsLemma ==
  ASSUME NEW q \in Owner, NEW p \in Owner, NEW m \in Message, NEW waiting \in BOOLEAN,
         NEW s \in Seq(Telling)
  PROVE  GetsIt(q, p, m, waiting, s)
<1> USE DEF GetsIt
<1> DEFINE x == [message |-> m, waiting |-> waiting]
<1>0. Count(s, ToDispatch) \in Nat
  BY CountType
<1>1. CASE ~ (q = p /\ link[q] = "up")
  BY <1>0, <1>1 DEF Gets
<1>2. CASE q = p /\ link[q] = "up"
  <2>1. /\ x \in Telling /\ (x \in ToDispatch <=> m.type = "OnMessage")
        /\ x.waiting = waiting /\ x.message = m
    BY DEF Telling, ToDispatch
  <2> HIDE DEF x
  <2>2. Gets(q, p, m, waiting, s) = Append(s, x)
    BY <1>2 DEF Gets, x
  <2>3. Append(s, x) \in Seq(Telling)
    BY <2>1
  <2>4. Count(Append(s, x), ToDispatch) = Count(s, ToDispatch) + (IF x \in ToDispatch THEN 1 ELSE 0)
    BY <2>1, CountAppend
  <2>5. Awaited(Append(s, x)) = Awaited(s) \cup (IF x.waiting THEN {x.message} ELSE {})
    <3>1. /\ Len(s) \in Nat /\ DOMAIN s = 1 .. Len(s) /\ DOMAIN Append(s, x) = 1 .. Len(s) + 1
          /\ \A i \in 1 .. Len(s) : Append(s, x)[i] = s[i]
          /\ Append(s, x)[Len(s) + 1] = x
      BY <2>1
    <3>2. Waiting(Append(s, x)) = Waiting(s) \cup (IF x.waiting THEN {Len(s) + 1} ELSE {})
      BY <3>1 DEF Waiting
    <3>3. \A i \in Waiting(s) : Append(s, x)[i] = s[i]
      BY <3>1 DEF Waiting
    <3>4. CASE ~ x.waiting
      BY <3>2, <3>3, <3>4 DEF Awaited
    <3>5. CASE x.waiting
      <4> DEFINE new == Append(s, x)
                 last == Len(s) + 1
      <4>1. /\ Waiting(new) = Waiting(s) \cup {last} /\ new[last] = x
            /\ \A i \in Waiting(s) : new[i] = s[i]
        BY <3>1, <3>2, <3>3, <3>5
      <4> HIDE DEF new, last
      <4>2. Awaited(new) = Awaited(s) \cup {x.message}
        BY <4>1 DEF Awaited
      <4> QED
        BY <3>5, <4>2 DEF new
    <3> QED
      BY <3>4, <3>5
  <2> QED
    BY <1>2, <2>1, <2>2, <2>3, <2>4, <2>5
<1> QED
  BY <1>1, <1>2

\* What the queues to the clients hold after a handler: what they held, and an answer or
\* a signal and an answer.
WritesOne(o, re, waiting, r) ==
  /\ re.op \in Sends => r.error # "None"
  /\ \A q \in Owner : toClient'[q] = Gets(q, o, r, waiting, toClient[q])

WritesTwo(o, re, waiting, m, r) ==
  /\ re.op \in Sends /\ r.error = "None"
  /\ \A q \in Owner : toClient'[q] = Gets(q, o, r, waiting, Gets(q, m.to, m, FALSE, toClient[q]))

ServesSo(o, re, waiting) ==
  \/ re.op = "Unregister" /\ \A q \in Owner : toClient'[q] = toClient[q]
  \/ \E r \in Answer(o, re) : WritesOne(o, re, waiting, r)
  \/ \E m \in Signal, r \in Answer(o, re) : WritesTwo(o, re, waiting, m, r)

LEMMA ServeWrites ==
  ASSUME IInv, DInv, Typed, NEW o \in Owner, Serve(o), NEW re, NEW waiting,
         re = Head(toDaemon[o]).re, waiting = Head(toDaemon[o]).waiting
  PROVE  ServesSo(o, re, waiting)
<1>1. /\ re \in Request /\ waiting \in BOOLEAN /\ Handle(o, re)
      /\ \A q \in Owner : toClient'[q] = IF link[q] = "up" THEN toClient[q] \o Written(q, waiting)
                                                           ELSE toClient[q]
      /\ \A q \in Owner : toClient[q] \in Seq(Telling)
  BY HeadLemma DEF Serve, Typed, MPTypeOK
<1>2. ASSUME NEW q \in Owner, out' = <<>> PROVE toClient'[q] = toClient[q]
  <2>1. Written(q, waiting) = <<>>
    BY <1>1, <1>2, NothingWritten
  <2> QED
    BY <1>1, <2>1, ConcatEmptySeq
<1>3. ASSUME NEW q \in Owner, NEW r \in Answer(o, re), out' = <<r>>
      PROVE  toClient'[q] = Gets(q, o, r, waiting, toClient[q])
  <2> DEFINE s == toClient[q]
             y == [message |-> r, waiting |-> waiting]
  <2>1. Written(q, waiting) = IF q = o THEN <<y>> ELSE <<>>
    BY <1>1, <1>3, WrittenParts
  <2>2. s \in Seq(Telling) /\ y \in Telling
    BY <1>1 DEF Answer, Telling, Message
  <2>3. toClient'[q] = (IF link[q] = "up" THEN s \o Written(q, waiting) ELSE s)
    BY <1>1
  <2>4. Gets(q, o, r, waiting, s) = IF q = o /\ link[q] = "up" THEN Append(s, y) ELSE s
    BY DEF Gets
  <2> HIDE DEF s, y
  <2>5. s \o <<>> = s /\ s \o <<y>> = Append(s, y)
    BY <2>2, ConcatEmptySeq
  <2>6. toClient'[q] = Gets(q, o, r, waiting, s)
    BY <2>1, <2>3, <2>4, <2>5
  <2> QED
    BY <2>6 DEF s
<1>4. ASSUME NEW q \in Owner, NEW m \in Signal, NEW r \in Answer(o, re), out' = <<m, r>>
      PROVE  toClient'[q] = Gets(q, o, r, waiting, Gets(q, m.to, m, FALSE, toClient[q]))
  <2> DEFINE s == toClient[q]
             x == [message |-> m, waiting |-> FALSE]
             y == [message |-> r, waiting |-> waiting]
             t == IF q = m.to /\ link[q] = "up" THEN Append(s, x) ELSE s
  <2>1. Written(q, waiting) = (IF q = m.to THEN <<x>> ELSE <<>>) \o (IF q = o THEN <<y>> ELSE <<>>)
    BY <1>1, <1>4, WrittenParts
  <2>2. s \in Seq(Telling) /\ x \in Telling /\ y \in Telling
    BY <1>1 DEF Answer, Signal, Telling, Message
  <2>3. toClient'[q] = (IF link[q] = "up" THEN s \o Written(q, waiting) ELSE s)
    BY <1>1
  <2>4. Gets(q, o, r, waiting, Gets(q, m.to, m, FALSE, s)) =
          IF q = o /\ link[q] = "up" THEN Append(t, y) ELSE t
    BY DEF Gets
  <2> HIDE DEF s, x, y
  <2>5. s \o <<>> = s /\ s \o <<x>> = Append(s, x) /\ s \o <<y>> = Append(s, y)
    BY <2>2, ConcatEmptySeq
  <2>6. s \o <<x, y>> = Append(Append(s, x), y)
    BY <2>2
  <2>7. <<>> \o <<y>> = <<y>> /\ <<x>> \o <<>> = <<x>> /\ <<x>> \o <<y>> = <<x, y>> /\ <<>> \o <<>> = <<>>
    BY ConcatLemma
  <2>8. toClient'[q] = Gets(q, o, r, waiting, Gets(q, m.to, m, FALSE, s))
    <3>1. CASE q = m.to /\ q = o
      BY <2>1, <2>3, <2>4, <2>6, <2>7, <3>1
    <3>2. CASE q = m.to /\ q # o
      BY <2>1, <2>3, <2>4, <2>5, <2>7, <3>2
    <3>3. CASE q # m.to /\ q = o
      BY <2>1, <2>3, <2>4, <2>5, <2>7, <3>3
    <3>4. CASE q # m.to /\ q # o
      BY <2>1, <2>3, <2>4, <2>5, <2>7, <3>4
    <3> QED
      BY <3>1, <3>2, <3>3, <3>4
  <2> QED
    BY <2>8 DEF s
<1>5. \/ re.op = "Unregister" /\ out' = <<>>
      \/ \E r \in Answer(o, re) : (re.op \in Sends => r.error # "None") /\ out' = <<r>>
      \/ /\ re.op \in Sends
         /\ \E m \in Signal, r \in Answer(o, re) : r.error = "None" /\ out' = <<m, r>>
  BY <1>1, HandleSends
<1>6. ASSUME NEW r \in Answer(o, re), re.op \in Sends => r.error # "None", out' = <<r>>
      PROVE  WritesOne(o, re, waiting, r)
  BY <1>3, <1>6 DEF WritesOne
<1>7. ASSUME NEW m \in Signal, NEW r \in Answer(o, re), re.op \in Sends, r.error = "None", out' = <<m, r>>
      PROVE  WritesTwo(o, re, waiting, m, r)
  BY <1>4, <1>7 DEF WritesTwo
<1> QED
  BY <1>2, <1>5, <1>6, <1>7 DEF ServesSo

\* What a thread sends is the same if its call, its requests and its answers are.
LEMMA SameAnswers ==
  ASSUME NEW o \in Owner, call'[o] = call[o], toDaemon'[o] = toDaemon[o], Answers(o)' = Answers(o)
  PROVE  SameAsked(o)
<1>1. Asked(o)' = Asked(o) /\ Requests(o)' = Requests(o)
  BY DEF Asked, Requests, Waiting
<1> QED
  BY <1>1 DEF SameAsked, Sending, Forgotten

\* The thread of connection o hears the answer r, if it still waits.
Hears(o, r, waiting) ==
  \A q \in Owner : Answers(q)' = Answers(q) \cup (IF q = o /\ link[q] = "up" /\ waiting THEN {r} ELSE {})

\* What a handler does to the messages under way and to the answers.
LEMMA ServeEffect ==
  ASSUME IInv, DInv, Typed, Typed', NEW o \in Owner, Serve(o), NEW re, NEW waiting,
         re = Head(toDaemon[o]).re, waiting = Head(toDaemon[o]).waiting
  PROVE  \/ /\ re.op = "Unregister"
            /\ \A q \in Owner : Answers(q)' = Answers(q) /\ SameFlying(q)
         \/ \E r : /\ re.op \in Sends => r.error # "None"
                   /\ Hears(o, r, waiting)
                   /\ \A q \in Owner : SameFlying(q)
         \/ re.op \in Sends /\ \E r : r.error = "None" /\ Hears(o, r, waiting) /\ Handed
<1>1. /\ waiting \in BOOLEAN /\ UNCHANGED <<link, mailbox>>
      /\ \A q \in Owner : toClient[q] \in Seq(Telling)
  BY HeadLemma DEF Serve, Typed, MPTypeOK
<1>2. ASSUME NEW q \in Owner
      PROVE  /\ Came(q) \in Nat /\ Flying(q) = Len(mailbox[q]) + Came(q) /\ Len(mailbox[q]) \in Nat
             /\ Flying(q)' = Len(mailbox[q]) + Count(toClient'[q], ToDispatch)
             /\ Came(q) = Count(toClient[q], ToDispatch)
             /\ Answers(q) = Awaited(toClient[q]) /\ Answers(q)' = Awaited(toClient'[q])
  <2>1. Answers(q) = Awaited(toClient[q]) /\ Answers(q)' = Awaited(toClient'[q])
    BY DEF Answers, Awaited, Waiting
  <2>2. Came(q)' = Count(toClient'[q], ToDispatch) /\ Came(q) = Count(toClient[q], ToDispatch)
    BY DEF Came
  <2> QED
    BY <1>1, <2>1, <2>2, Counts DEF Typed
<1>4. ASSUME NEW r \in Answer(o, re), WritesOne(o, re, waiting, r)
      PROVE  Hears(o, r, waiting) /\ \A q \in Owner : SameFlying(q)
  <2>1. r \in Message /\ r.type = "Reply"
    BY DEF Answer, Message, ReplyMessage, PropertiesMessage
  <2>2. ASSUME NEW q \in Owner
        PROVE  /\ Count(toClient'[q], ToDispatch) = Came(q)
               /\ Answers(q)' = Answers(q) \cup (IF q = o /\ link[q] = "up" /\ waiting THEN {r} ELSE {})
    <3> DEFINE s == toClient[q]
    <3>1. s \in Seq(Telling) /\ toClient'[q] = Gets(q, o, r, waiting, s)
      BY <1>1, <1>4 DEF WritesOne
    <3> HIDE DEF s
    <3>2. GetsIt(q, o, r, waiting, s)
      BY <1>1, <2>1, <3>1, GetsLemma
    <3> QED
      BY <1>2, <2>1, <3>1, <3>2 DEF s, GetsIt
  <2>3. \A q \in Owner : SameFlying(q)
    BY <1>2, <2>2 DEF SameFlying
  <2> QED
    BY <2>2, <2>3 DEF Hears
<1>5. ASSUME NEW m \in Signal, NEW r \in Answer(o, re), WritesTwo(o, re, waiting, m, r)
      PROVE  Hears(o, r, waiting) /\ Handed
  <2>1. r \in Message /\ r.type = "Reply" /\ m \in Message /\ m.type = "OnMessage" /\ m.to \in Owner
    BY DEF Answer, Signal, Message, ReplyMessage, PropertiesMessage, SignalMessage
  <2>2. ASSUME NEW q \in Owner
        PROVE  /\ Count(toClient'[q], ToDispatch) = Came(q) + (IF q = m.to /\ link[q] = "up" THEN 1 ELSE 0)
               /\ Answers(q)' = Answers(q) \cup (IF q = o /\ link[q] = "up" /\ waiting THEN {r} ELSE {})
    <3> DEFINE s == toClient[q]
               t == Gets(q, m.to, m, FALSE, s)
    <3>1. s \in Seq(Telling) /\ toClient'[q] = Gets(q, o, r, waiting, t)
      BY <1>1, <1>5 DEF WritesTwo
    <3> HIDE DEF s
    <3>2. GetsIt(q, m.to, m, FALSE, s)
      BY <2>1, <3>1, GetsLemma
    <3>3. t \in Seq(Telling)
      BY <3>2 DEF GetsIt
    <3>4. /\ Count(t, ToDispatch) =
               Count(s, ToDispatch) + (IF q = m.to /\ link[q] = "up" /\ m.type = "OnMessage" THEN 1 ELSE 0)
          /\ Awaited(t) = Awaited(s)
      BY <2>1, <3>2 DEF GetsIt
    <3> HIDE DEF t
    <3>5. GetsIt(q, o, r, waiting, t)
      BY <1>1, <2>1, <3>3, GetsLemma
    <3>6. Count(s, ToDispatch) = Came(q) /\ Awaited(s) = Answers(q)
      BY <1>2 DEF s
    <3> QED
      BY <1>2, <2>1, <3>1, <3>4, <3>5, <3>6 DEF GetsIt
  <2>3. \A q \in Owner : Flying(q)' = Flying(q) + (IF q = m.to /\ link[q] = "up" THEN 1 ELSE 0)
    BY <1>2, <2>2
  <2> QED
    BY <2>1, <2>2, <2>3 DEF Hears, Handed
<1>6. ServesSo(o, re, waiting)
  BY ServeWrites
<1>7. (\A q \in Owner : toClient'[q] = toClient[q]) => \A q \in Owner : Answers(q)' = Answers(q) /\ SameFlying(q)
  BY <1>2 DEF SameFlying
<1>8. \A r : WritesOne(o, re, waiting, r) => (re.op \in Sends => r.error # "None")
  BY DEF WritesOne
<1>9. \A m, r : WritesTwo(o, re, waiting, m, r) => re.op \in Sends /\ r.error = "None"
  BY DEF WritesTwo
<1> QED
  BY <1>4, <1>5, <1>6, <1>7, <1>8, <1>9 DEF ServesSo

\* A handler reads one request of its connection and leaves the others.
LEMMA ServeReads ==
  ASSUME IInv, DInv, Typed, Typed', MPInv, NEW o \in Owner, Serve(o),
         NEW re, re = Head(toDaemon[o]).re
  PROVE  /\ toDaemon[o] \in Seq(Asking) /\ toDaemon[o] # <<>> /\ toDaemon'[o] = Tail(toDaemon[o])
         /\ Sent(o) \in Nat /\ Sent(o)' \in Nat
         /\ Sent(o) = Sent(o)' + (IF re.op \in Sends THEN 1 ELSE 0)
         /\ UNCHANGED <<link, call>> /\ Told' = "nothing"
         /\ \A q \in Owner \ {o} : toDaemon'[q] = toDaemon[q]
         /\ call[o].re.op \in Sends => link[o] = "up" /\ OneAnswer(o)
<1>1. /\ toDaemon[o] \in Seq(Asking) /\ toDaemon[o] # <<>>
      /\ toDaemon' = [toDaemon EXCEPT ![o] = Tail(@)] /\ event' = NoEvent /\ UNCHANGED <<link, call>>
  BY DEF Serve, Typed, MPTypeOK
<1>2. /\ toDaemon'[o] = Tail(toDaemon[o])
      /\ \A q \in Owner \ {o} : toDaemon'[q] = toDaemon[q]
  BY <1>1 DEF Typed, MPTypeOK
<1>3. Sent(o) = Sent(o)' + (IF re.op \in Sends THEN 1 ELSE 0)
  <2> DEFINE q == toDaemon[o]
             x == Head(q)
  <2>1. q \in Seq(Asking) /\ q # <<>> /\ (x \in ToSend <=> re.op \in Sends)
    BY <1>1 DEF ToSend
  <2>2. Sent(o) = Count(q, ToSend) /\ Sent(o)' = Count(Tail(q), ToSend)
    BY <1>2 DEF Sent
  <2> HIDE DEF q
  <2>3. Count(q, ToSend) = Count(Tail(q), ToSend) + (IF x \in ToSend THEN 1 ELSE 0)
    BY <2>1, CountTail
  <2> HIDE DEF x
  <2> QED
    BY <2>1, <2>2, <2>3
<1>4. call[o].re.op \in Sends => link[o] = "up" /\ OneAnswer(o)
  <2>1. o \in clients
    BY HeadLemma, HandleWrites DEF Serve, Typed
  <2>2. link[o] = "exited" => call[o].re.op \notin Sends
    BY DEF MPInv, PortInv, LinkInv, NoCall, NoRequest, Sends
  <2> QED
    BY <2>1, <2>2 DEF MPInv, PortInv, LinkInv, Joined
<1>5. Told' = "nothing"
  BY <1>1, NothingTold
<1> QED
  BY <1>1, <1>2, <1>3, <1>4, <1>5, Counts DEF Typed

\* A request that nobody waits for, or that has nothing to do with a message to be sent,
\* leaves the thread what it waits for.
LEMMA ServeLeaves ==
  ASSUME IInv, DInv, Typed, Typed', MPInv, NEW o \in Owner, Serve(o),
         NEW re, re = Head(toDaemon[o]).re,
         call[o].re.op \notin Sends \/ (~ Head(toDaemon[o]).waiting /\ Answers(o)' = Answers(o))
  PROVE  /\ Sending(o)' = Sending(o)
         /\ Forgotten(o) = Forgotten(o)' + (IF re.op \in Sends THEN 1 ELSE 0)
         /\ Forgotten(o)' \in Nat
<1>1. /\ toDaemon[o] \in Seq(Asking) /\ toDaemon[o] # <<>> /\ toDaemon'[o] = Tail(toDaemon[o])
      /\ Sent(o) \in Nat /\ Sent(o)' \in Nat
      /\ Sent(o) = Sent(o)' + (IF re.op \in Sends THEN 1 ELSE 0)
      /\ call'[o] = call[o]
      /\ call[o].re.op \in Sends => OneAnswer(o)
  BY ServeReads
<1>2. CASE call[o].re.op \notin Sends
  BY <1>1, <1>2, NotSending
<1>3. CASE call[o].re.op \in Sends
  <2>1. Waiting(toDaemon'[o]) = {} <=> Waiting(toDaemon[o]) = {}
    BY <1>1, <1>3, UnawaitedTail
  <2>2. CASE Waiting(toDaemon[o]) = {}
    <3>1. Forgotten(o) = Sent(o) /\ Forgotten(o)' = Sent(o)' /\ Sending(o)' = Sending(o)
      BY <1>1, <1>3, <2>1, <2>2, IsSending
    <3> QED
      BY <1>1, <3>1
  <2>3. CASE Waiting(toDaemon[o]) # {}
    <3>1. Forgotten(o) = Sent(o) - 1 /\ Forgotten(o)' = Sent(o)' - 1 /\ Sending(o)' = Sending(o)
      BY <1>1, <1>3, <2>1, <2>3, IsSending
    <3>2. Sent(o)' # 0
      <4> DEFINE q == Tail(toDaemon[o])
      <4>1. PICK i \in Waiting(q) : TRUE
        BY <1>1, <2>1, <2>3
      <4>2. i \in DOMAIN q /\ q[i].re = call[o].re /\ q \in Seq(Asking)
        BY <1>1, <1>3, TailLemma, HeadLemma DEF OneAnswer, Waiting, Typed
      <4>3. i \in At(q, ToSend)
        BY <1>3, <4>2 DEF At, ToSend
      <4>4. Sent(o)' = Count(q, ToSend)
        BY <1>1 DEF Sent
      <4> HIDE DEF q
      <4>5. IsFiniteSet(At(q, ToSend))
        BY <4>2, CountType
      <4> QED
        BY <4>3, <4>4, <4>5, FS_EmptySet DEF Count
    <3> QED
      BY <1>1, <3>1, <3>2
  <2> QED
    BY <2>2, <2>3
<1> QED
  BY <1>2, <1>3

\* A handler serves a request.
LEMMA ServeMaps ==
  ASSUME IInv, DInv, Typed, Typed', MPInv, NEW o \in Owner, Serve(o)
  PROVE  Messages!Next
<1> DEFINE re == Head(toDaemon[o]).re
           waiting == Head(toDaemon[o]).waiting
<1>1. PICK x, w : x = re /\ w = waiting
  OBVIOUS
<1> HIDE DEF re, waiting
<1>2. /\ toDaemon[o] \in Seq(Asking) /\ toDaemon[o] # <<>> /\ toDaemon'[o] = Tail(toDaemon[o])
      /\ Sent(o) \in Nat /\ Sent(o)' \in Nat
      /\ Sent(o) = Sent(o)' + (IF x.op \in Sends THEN 1 ELSE 0)
      /\ UNCHANGED <<link, call>> /\ Told' = "nothing"
      /\ \A q \in Owner \ {o} : toDaemon'[q] = toDaemon[q]
      /\ call[o].re.op \in Sends => link[o] = "up" /\ OneAnswer(o)
  BY <1>1, ServeReads DEF re
<1>3. \/ /\ x.op = "Unregister"
         /\ \A q \in Owner : Answers(q)' = Answers(q) /\ SameFlying(q)
      \/ \E r : /\ x.op \in Sends => r.error # "None"
                /\ Hears(o, r, w)
                /\ \A q \in Owner : SameFlying(q)
      \/ x.op \in Sends /\ \E r : r.error = "None" /\ Hears(o, r, w) /\ Handed
  BY <1>1, ServeEffect DEF re, waiting
<1>4. /\ (\A q \in Owner : Answers(q)' = Answers(q)) \/ \E r : Hears(o, r, w)
      /\ x.op \notin Sends => \A q \in Owner : SameFlying(q)
      /\ Handed \/ \A q \in Owner : SameFlying(q)
  BY <1>3 DEF Sends
<1>5. \A q \in Owner \ {o} : SameAsked(q)
  BY <1>2, <1>4, SameAnswers DEF Hears
<1>6. (\A q \in Owner : Flying(q) \in Nat)
  BY Counts DEF Typed
<1>7. Messages!Handed \/ \A q \in Owner : SameFlying(q)
  BY <1>4, <1>6, IsHanded
\* The thread waits for what was served, if this was to send.
<1>8. w = (1 \in Waiting(toDaemon[o])) /\ toDaemon[o][1].re = x
  <2>1. Head(toDaemon[o]).waiting \in BOOLEAN
    BY <1>2, HeadLemma DEF Typed
  <2> QED
    BY <1>1, <1>2, <2>1, TailLemma DEF re, waiting
<1>9. CASE call[o].re.op \notin Sends \/ ~ w
  <2>1. call[o].re.op \notin Sends \/ (~ Head(toDaemon[o]).waiting /\ Answers(o)' = Answers(o))
    BY <1>1, <1>4, <1>9 DEF Hears, waiting
  <2>2. /\ Sending(o)' = Sending(o)
        /\ Forgotten(o) = Forgotten(o)' + (IF x.op \in Sends THEN 1 ELSE 0)
        /\ Forgotten(o)' \in Nat
    BY <1>1, <2>1, ServeLeaves DEF re
  <2>3. CASE x.op \in Sends
    <3>1. Forgotten(o) > 0 /\ Forgotten(o)' = Forgotten(o) - 1
      BY <2>2, <2>3
    <3> QED
      BY <1>2, <1>5, <1>7, <2>2, <3>1, IsForwardLate
  <2>4. CASE x.op \notin Sends
    <3>1. SameAsked(o)
      BY <2>2, <2>4 DEF SameAsked
    <3> QED
      BY <1>2, <1>4, <1>5, <2>4, <3>1, IsElsewhere DEF Same
  <2> QED
    BY <2>3, <2>4
<1>10. CASE call[o].re.op \in Sends /\ w
  <2>1. /\ x = call[o].re /\ link[o] = "up" /\ Waiting(toDaemon[o]) # {}
        /\ Waiting(toDaemon'[o]) = {} /\ Answers(o) = {}
    <3>1. Waiting(toDaemon'[o]) = {}
      BY <1>2, <1>8, <1>10, TailLemma DEF OneAnswer
    <3>2. Waiting(toClient[o]) = {}
      BY <1>2, <1>8, <1>10 DEF OneAnswer
    <3> QED
      BY <1>2, <1>8, <1>10, <3>1, <3>2 DEF OneAnswer, Answers
  <2>2. /\ Sending(o) = "asked" /\ Forgotten(o) = Sent(o) - 1
        /\ Forgotten(o)' = Sent(o)'
        /\ Sending(o)' = IF Answers(o)' = {} THEN "lost"
                         ELSE IF \E m \in Answers(o)' : m.error = "None" THEN "forwarded" ELSE "refused"
    BY <1>2, <1>10, <2>1, IsSending
  <2>3. x.op \in Sends /\ Forgotten(o)' = Forgotten(o)
    BY <1>2, <1>10, <2>1, <2>2
  <2>4. \A r : Hears(o, r, w) => Answers(o)' = {r}
    BY <1>10, <2>1 DEF Hears
  <2>5. CASE \E r : r.error # "None" /\ Hears(o, r, w) /\ \A q \in Owner : SameFlying(q)
    <3>1. Sending(o)' = "refused"
      BY <2>2, <2>4, <2>5
    <3> QED
      BY <1>2, <1>5, <2>2, <2>3, <2>5, <3>1, IsRefuse
  <2>6. CASE \E r : r.error = "None" /\ Hears(o, r, w) /\ Handed
    <3>1. Sending(o)' = "forwarded"
      BY <2>2, <2>4, <2>6
    <3>2. Messages!Handed
      BY <1>6, <2>6, IsHanded
    <3> QED
      BY <1>2, <1>5, <2>2, <2>3, <3>1, <3>2, IsForward
  <2> QED
    BY <1>3, <2>3, <2>5, <2>6 DEF Sends
<1> QED
  BY <1>9, <1>10

-----------------------------------------------------------------------------
(* A call waits for something.                                             *)

UnderWay(o) ==
  (Joined(o) /\ link[o] = "up" /\ call[o] # NoCall) =>
    \/ call[o].re.op = "Unregister"
    \/ Waiting(toDaemon[o]) # {}
    \/ Waiting(toClient[o]) # {}

AllUnderWay == \A o \in Owner : UnderWay(o)

LEMMA UnderWayInit == MPInit => AllUnderWay
  BY DEF MPInit, AllUnderWay, UnderWay

LEMMA UnderWayImplies == IInv /\ MPTypeOK /\ SendInv /\ AllUnderWay => AnswerUnderWay
<1> SUFFICES ASSUME IInv, MPTypeOK, SendInv, AllUnderWay,
                    NEW o \in clients \cup backlog, link[o] = "up",
                    call[o].api \notin {"None", "unregister"}
             PROVE  Waiting(toDaemon[o]) \cup Waiting(toClient[o]) # {}
  BY DEF AnswerUnderWay
<1>1. o \in Owner /\ Joined(o)
  BY DEF IInv, Tables, TypeOK, MPTypeOK, Joined
<1>2. call[o] # NoCall /\ call[o].re.op # "Unregister"
  BY <1>1 DEF NoCall, SendInv, RightApi
<1> QED
  BY <1>1, <1>2 DEF AllUnderWay, UnderWay

\* A thread whose call and connection stay, and what it waits for with them.
LEMMA UnderWayStays ==
  ASSUME NEW q \in Owner, UnderWay(q), Joined(q)' => Joined(q), link'[q] = link[q], call'[q] = call[q],
         Waiting(toDaemon[q]) # {} => Waiting(toDaemon'[q]) # {},
         Waiting(toClient[q]) # {} => Waiting(toClient'[q]) # {}
  PROVE  UnderWay(q)'
<1>1. /\ Waiting(toDaemon[q])' = Waiting(toDaemon'[q])
      /\ Waiting(toClient[q])' = Waiting(toClient'[q])
  BY DEF Waiting
<1> QED
  BY <1>1 DEF UnderWay

LEMMA UnderWayAsks ==
  ASSUME MPTypeOK, NEW o \in Owner, NEW c, c.re \in Request, NEW s \in Seq(Asking),
         link' = link, Ask(o, c, s)
  PROVE  UnderWay(o)'
<1> DEFINE x == [re |-> c.re, waiting |-> TRUE]
<1>1. CASE link[o] # "up"
  BY <1>1 DEF UnderWay
<1>2. CASE link[o] = "up"
  <2>1. toDaemon'[o] = Append(s, x) /\ x \in Asking /\ x.waiting
    BY <1>2 DEF Ask, MPTypeOK, Asking
  <2> HIDE DEF x
  <2>2. Len(s) + 1 \in DOMAIN toDaemon'[o] /\ toDaemon'[o][Len(s) + 1] = x
    BY <2>1
  <2>3. Len(s) + 1 \in Waiting(toDaemon'[o])
    BY <2>1, <2>2 DEF Waiting
  <2>4. Waiting(toDaemon[o])' = Waiting(toDaemon'[o])
    BY DEF Waiting
  <2> QED
    BY <2>3, <2>4 DEF UnderWay
<1> QED
  BY <1>1, <1>2

\* The end of a D-Bus call.
LEMMA UnderWayCompletes ==
  ASSUME MPTypeOK, NEW o \in Owner, RightApi(call[o]), NEW r, r.id \in Id, NEW s \in Seq(Asking),
         Complete(o, r, s), link' = link
  PROVE  UnderWay(o)'
<1>1. \/ call'[o] = NoCall
      \/ \E re \in Request : call'[o].re = re /\ Ask(o, [call[o] EXCEPT !.re = re], s)
  BY CompleteSays
<1>2. call[o] \in OpenCall
  BY CompletesLemma DEF Completes, MPTypeOK
<1>3. ASSUME NEW re \in Request, Ask(o, [call[o] EXCEPT !.re = re], s) PROVE UnderWay(o)'
  <2>1. [call[o] EXCEPT !.re = re].re = re
    BY <1>2 DEF OpenCall
  <2> QED
    BY <1>3, <2>1, UnderWayAsks
<1> QED
  BY <1>1, <1>3 DEF UnderWay

\* A step of thread o.
LEMMA UnderWayClient ==
  ASSUME MPTypeOK, MPInv, SendInv, NEW o \in Owner, ClientStep(o), UnderWay(o)
  PROVE  UnderWay(o)'
<1>0. toDaemon[o] \in Seq(Asking) /\ toClient[o] \in Seq(Telling) /\ RightApi(call[o])
  BY DEF MPTypeOK, SendInv
<1>1. CASE Open(o)
  <2>1. call'[o] = NoCall
    BY <1>1 DEF Open, MPInv, PortInv, LinkInv
  <2> QED
    BY <2>1 DEF UnderWay
<1>2. CASE Exit(o)
  <2>1. call'[o] = NoCall
    BY <1>2 DEF Exit, MPTypeOK
  <2> QED
    BY <2>1 DEF UnderWay
<1>3. CASE HangUp(o)
  <2>1. link'[o] # "up"
    BY <1>3 DEF HangUp, MPTypeOK
  <2> QED
    BY <2>1 DEF UnderWay
<1>4. CASE Dispatch(o)
  <2>1. Joined(o)' => Joined(o)
    BY <1>4 DEF Dispatch, Elsewhere, smVars, Joined
  <2> QED
    BY <1>4, <2>1, UnderWayStays DEF Dispatch
<1>5. CASE Timeout(o)
  <2>1. /\ Complete(o, Failure("Timeout"), Abandon(toDaemon[o])) /\ link' = link
        /\ Failure("Timeout").id \in Id
    BY <1>5, ZeroLemma DEF Timeout, Failure
  <2>2. Abandon(toDaemon[o]) \in Seq(Asking)
    BY AbandonType
  <2> QED
    BY <1>0, <2>1, <2>2, UnderWayCompletes
<1>6. CASE Broken(o)
  BY <1>6 DEF Broken, UnderWay
<1>7. CASE Receive(o)
  <2> DEFINE head == Head(toClient[o])
  <2>1. /\ toClient[o] # <<>> /\ head.message.id \in Id /\ UNCHANGED link
        /\ toClient'[o] = Tail(toClient[o])
    BY <1>7, HeadLemma DEF Receive, MPTypeOK
  <2>2. CASE Complete(o, head.message, toDaemon[o])
    BY <1>0, <2>1, <2>2, UnderWayCompletes
  <2>3. CASE ~ head.waiting /\ UNCHANGED <<call, toDaemon>>
    <3>1. Waiting(toClient[o]) # {} => Waiting(toClient'[o]) # {}
      BY <1>0, <2>1, <2>3, UnawaitedTail
    <3>2. Joined(o)' => Joined(o)
      BY <1>7 DEF Receive, Elsewhere, smVars, Joined
    <3> QED
      BY <2>1, <2>3, <3>1, <3>2, UnderWayStays
  <2> QED
    BY <1>7, <2>2, <2>3 DEF Receive
<1>8. CASE Begins(o)
  <2>1. CASE call' = [call EXCEPT ![o] = NoCall]
    BY <2>1 DEF UnderWay, MPTypeOK
  <2>2. ASSUME NEW c \in OpenCall, Ask(o, c, toDaemon[o]) PROVE UnderWay(o)'
    <3>1. c.re \in Request
      BY DEF OpenCall
    <3> QED
      BY <1>0, <1>8, <2>2, <3>1, UnderWayAsks DEF Begins
  <2> QED
    BY <1>8, <2>1, <2>2 DEF Begins
<1> QED
  BY <1>1, <1>2, <1>3, <1>4, <1>5, <1>6, <1>7, <1>8 DEF ClientStep

\* The daemon answers what it reads.
LEMMA UnderWayServe ==
  ASSUME IInv, DInv, Typed, Typed', MPInv, NEW o \in Owner, Serve(o), NEW q \in Owner, UnderWay(q)
  PROVE  UnderWay(q)'
<1> DEFINE re == Head(toDaemon[o]).re
           waiting == Head(toDaemon[o]).waiting
<1>1. PICK x, w : x = re /\ w = waiting
  OBVIOUS
<1> HIDE DEF re, waiting
<1>2. /\ toDaemon[o] \in Seq(Asking) /\ toDaemon[o] # <<>> /\ toDaemon'[o] = Tail(toDaemon[o])
      /\ UNCHANGED <<link, call>>
      /\ \A p \in Owner \ {o} : toDaemon'[p] = toDaemon[p]
  BY <1>1, ServeReads DEF re
<1>3. \/ x.op = "Unregister" /\ \A p \in Owner : Answers(p)' = Answers(p)
      \/ \E r : Hears(o, r, w)
  BY <1>1, ServeEffect DEF re, waiting
<1>4. Joined(q)' => Joined(q)
  <2>1. x \in Request /\ Handle(o, x)
    BY <1>1, HeadLemma DEF Serve, Typed, re
  <2>2. clients' = clients /\ backlog' = backlog
    BY <2>1, HandleCounts DEF Serve
  <2> QED
    BY <2>2 DEF Joined
<1>5. Waiting(toClient[q]) # {} => Waiting(toClient'[q]) # {}
  <2>1. Answers(q) \subseteq Answers(q)'
    BY <1>3 DEF Hears
  <2>2. /\ Waiting(toClient[q]) # {} => Answers(q) # {}
        /\ Answers(q)' # {} => Waiting(toClient'[q]) # {}
    BY DEF Answers, Waiting
  <2> QED
    BY <2>1, <2>2
<1>6. CASE Waiting(toDaemon[q]) # {} => Waiting(toDaemon'[q]) # {}
  BY <1>2, <1>4, <1>5, <1>6, UnderWayStays
<1>7. CASE ~ (Waiting(toDaemon[q]) # {} => Waiting(toDaemon'[q]) # {})
  <2>1. q = o
    BY <1>2, <1>7
  <2>2. w /\ 1 \in Waiting(toDaemon[o]) /\ toDaemon[o][1].re = x
    BY <1>1, <1>2, <1>7, <2>1, TailLemma, UnawaitedTail DEF re, waiting
  <2>3. CASE \E r : Hears(o, r, w)
    <3>1. link[o] = "up" => Answers(o)' # {}
      BY <2>2, <2>3 DEF Hears
    <3>2. Answers(o)' # {} => Waiting(toClient[o])' # {}
      BY DEF Answers, Waiting
    <3> QED
      BY <1>2, <2>1, <3>1, <3>2 DEF UnderWay
  <2>4. CASE x.op = "Unregister"
    <3>1. Joined(o) /\ link[o] = "up" => call[o].re = x
      BY <2>2 DEF MPInv, PortInv, OneAnswer
    <3> QED
      BY <1>2, <1>4, <2>1, <2>4, <3>1 DEF UnderWay
  <2> QED
    BY <1>3, <2>3, <2>4
<1> QED
  BY <1>6, <1>7

LEMMA UnderWayStep ==
  ASSUME IInv, DInv, Typed, Typed', MPInv, SendInv, AllUnderWay, [MPNext]_mpVars
  PROVE  AllUnderWay'
<1>1. CASE UNCHANGED mpVars
  BY <1>1 DEF mpVars, clientVars, dVars, smVars, AllUnderWay, UnderWay, Joined, Waiting
<1>2. ASSUME NEW o \in Owner, ClientStep(o) PROVE AllUnderWay'
  <2>1. clients' = clients
    BY <1>2 DEF ClientStep, Open, Exit, Timeout, Broken, Receive, Dispatch, HangUp, Begins,
                Elsewhere, smVars
  <2>2. ASSUME NEW q \in Owner, q # o PROVE UnderWay(q)'
    <3>1. /\ link'[q] = link[q] /\ call'[q] = call[q]
          /\ toDaemon'[q] = toDaemon[q] /\ toClient'[q] = toClient[q]
          /\ q \in backlog' <=> q \in backlog
      BY <1>2, <2>2, OthersLeft DEF Typed
    <3> QED
      BY <2>1, <3>1, UnderWayStays DEF Joined, AllUnderWay
  <2>3. UnderWay(o)'
    BY <1>2, UnderWayClient DEF Typed, AllUnderWay
  <2> QED
    BY <2>2, <2>3 DEF AllUnderWay
<1>3. ASSUME NEW o \in Owner, Calls(o) PROVE AllUnderWay'
  BY <1>2, <1>3, BeginsLemma DEF ClientStep, Typed
<1>4. ASSUME NEW o \in Owner, Serve(o) PROVE AllUnderWay'
  BY <1>4, UnderWayServe DEF AllUnderWay
<1>5. ASSUME NEW o \in Owner, Pick(o) PROVE AllUnderWay'
  <2>1. clients' = clients \cup {o} /\ backlog' = backlog \ {o} /\ o \in backlog
    BY <1>5 DEF Pick, Accept, Connect
  <2>2. \A q \in Owner : Joined(q)' => Joined(q)
    BY <2>1 DEF Joined
  <2> QED
    BY <1>5, <2>2, UnderWayStays DEF Pick, AllUnderWay
<1>6. ASSUME NEW o \in Owner, Notice(o) PROVE AllUnderWay'
  <2>1. /\ clients' = clients \ {o} /\ backlog' = backlog /\ link' = [link EXCEPT ![o] = "none"]
        /\ toDaemon' = [toDaemon EXCEPT ![o] = <<>>] /\ UNCHANGED <<call, toClient>>
    BY <1>6 DEF Notice, Closed, Disconnect
  <2>2. ASSUME NEW q \in Owner \ {o} PROVE UnderWay(q)'
    <3>1. link'[q] = link[q] /\ toDaemon'[q] = toDaemon[q] /\ (Joined(q)' => Joined(q))
      BY <2>1 DEF Joined, Typed, MPTypeOK
    <3> QED
      BY <2>1, <3>1, UnderWayStays DEF AllUnderWay
  <2>3. UnderWay(o)'
    BY <2>1 DEF UnderWay, Typed, MPTypeOK
  <2> QED
    BY <2>2, <2>3 DEF AllUnderWay
<1>7. CASE DaemonDies
  BY <1>7 DEF DaemonDies, DaemonRestart, Restart, AllUnderWay, UnderWay, Joined
<1> QED
  BY <1>1, <1>2, <1>3, <1>4, <1>5, <1>6, <1>7, MPSteps DEF ClientStep, Typed

-----------------------------------------------------------------------------
(* The refinement.                                                         *)

LEMMA MessagingInit == MPInit => Messages!Init
<1> SUFFICES ASSUME MPInit PROVE Messages!Init
  OBVIOUS
<1>1. ASSUME NEW o \in Owner
      PROVE  Sending(o) = "no" /\ Forgotten(o) = 0 /\ Flying(o) = 0 /\ link[o] # "up"
  <2>1. call[o].re.op \notin Sends
    BY DEF MPInit, NoCall, NoRequest, Sends
  <2>2. toDaemon[o] = <<>> /\ toClient[o] = <<>> /\ mailbox[o] = <<>> /\ link[o] = "none"
    BY DEF MPInit
  <2>3. Requests(o) = {} /\ Signalled(toClient[o]) = {} /\ Len(mailbox[o]) = 0
    BY <2>2 DEF Requests, Signalled
  <2>4. Sending(o) = "no" /\ ~ Asked(o)
    BY <2>1 DEF Sending, Asked
  <2>5. Cardinality({}) = 0
    BY FS_EmptySet
  <2>6. Forgotten(o) = 0
    BY <2>3, <2>4, <2>5 DEF Forgotten
  <2>7. Flying(o) = 0
    BY <2>3, <2>5 DEF Flying
  <2> QED
    BY <2>2, <2>4, <2>6, <2>7
<1>2. Told = "nothing"
  BY NoEventLemma DEF MPInit, Told
<1> QED
  BY <1>1, <1>2 DEF Messages!Init

LEMMA MessagingStep ==
  ASSUME IInv, DInv, Typed, Typed', MPInv, SendInv, [MPNext]_mpVars
  PROVE  [Messages!Next]_(Messages!vars)
<1>1. CASE UNCHANGED mpVars
  <2>1. UNCHANGED <<link, call, toDaemon, toClient, mailbox, event>>
    BY <1>1 DEF mpVars, clientVars
  <2>2. ASSUME NEW o \in Owner
        PROVE  Sending(o)' = Sending(o) /\ Forgotten(o)' = Forgotten(o) /\ Flying(o)' = Flying(o)
    <3>1. SameAsked(o) /\ SameFlying(o)
      BY <2>1, SameStep
    <3> QED
      BY <3>1 DEF SameAsked, SameFlying
  <2>3. Told' = Told
    BY <2>1 DEF Told
  <2> QED
    BY <2>1, <2>2, <2>3 DEF Messages!vars
<1>2. ASSUME NEW o \in Owner, Open(o) \/ HangUp(o) \/ Pick(o) PROVE Messages!Next
  BY <1>2, LinkMaps
<1>3. ASSUME NEW o \in Owner, Exit(o) PROVE Messages!Next
  BY <1>3, ExitMaps
<1>4. ASSUME NEW o \in Owner, Timeout(o) \/ Broken(o) PROVE Messages!Next
  BY <1>4, TimeoutMaps
<1>5. ASSUME NEW o \in Owner, Receive(o) PROVE Messages!Next
  BY <1>5, ReceiveMaps
<1>6. ASSUME NEW o \in Owner, Dispatch(o) PROVE Messages!Next
  BY <1>6, DispatchMaps
<1>7. ASSUME NEW o \in Owner, Serve(o) PROVE Messages!Next
  BY <1>7, ServeMaps
<1>8. ASSUME NEW o \in Owner, Notice(o) PROVE Messages!Next
  BY <1>8, NoticeMaps
<1>9. ASSUME NEW o \in Owner, Calls(o) PROVE Messages!Next
  BY <1>9, CallsMap
<1>10. CASE DaemonDies
  BY <1>10, DaemonDiesMaps
<1> QED
  BY <1>1, <1>2, <1>3, <1>4, <1>5, <1>6, <1>7, <1>8, <1>9, <1>10, MPSteps

LEMMA SendInvariance == MPSpec => [](IInv /\ DInv /\ Typed /\ MPInv /\ SendInv)
<1> DEFINE I == IInv /\ DInv /\ MPTypeOK /\ MPInv
<1>1. MPSpec => []I
  BY CachesInvariance, PTL
<1>2. MPSpec => []MailOK
  <2>1. SignedInvs => MailOK
    BY DEF SignedInvs
  <2> QED
    BY <2>1, SignedInvariance, PTL
<1>3. I /\ SendInv /\ [MPNext]_mpVars => SendInv'
  BY SendInvStep
<1>4. I /\ MailOK /\ SendInv => IInv /\ DInv /\ Typed /\ MPInv /\ SendInv
  BY DEF Typed
<1> HIDE DEF I
<1>5. MPSpec => []SendInv
  BY <1>1, <1>3, SendInvInit, PTL DEF MPSpec
<1> QED
  BY <1>1, <1>2, <1>4, <1>5, PTL

\* A request is forwarded at most once, to one receiver, and a thread is told that its
\* message was sent only if it was, however late answers, requests and signals come and
\* whoever dies meanwhile: the library, its queues and the daemon implement Messaging.
THEOREM MessagingImplemented == MPSpec => ImplementsMessaging
<1> DEFINE I == IInv /\ DInv /\ Typed /\ MPInv /\ SendInv
<1>1. I /\ I' /\ [MPNext]_mpVars => [Messages!Next]_(Messages!vars)
  BY MessagingStep
<1>2. MPSpec => []I
  BY SendInvariance
<1> HIDE DEF I
<1>3. MPSpec => Messages!Spec
  BY <1>1, <1>2, MessagingInit, PTL DEF MPSpec, Messages!Spec
<1> QED
  BY <1>3 DEF ImplementsMessaging

\* While the daemon has the connection of a thread, or is going to pick it up, a call that
\* it answers has its request or the answer under way: it never waits for nothing.
THEOREM CallsWaitForAnswers == MPSpec => []AnswerUnderWay
<1> DEFINE I == IInv /\ DInv /\ Typed /\ MPInv /\ SendInv
<1>1. I /\ I' /\ AllUnderWay /\ [MPNext]_mpVars => AllUnderWay'
  BY UnderWayStep
<1>2. I /\ AllUnderWay => AnswerUnderWay
  BY UnderWayImplies DEF Typed
<1>3. MPSpec => []I
  BY SendInvariance
<1> HIDE DEF I
<1> QED
  BY <1>1, <1>2, <1>3, UnderWayInit, PTL DEF MPSpec
=============================================================================
