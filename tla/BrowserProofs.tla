----------------------------- MODULE BrowserProofs -----------------------------
(* Proofs about the browser: the connection of its realtime client, the marks *)
(* it sends and has acknowledged, and the cache behind its pages, for every   *)
(* bound on what is emitted, tapped, lost and changed.                        *)
EXTENDS MCRealtime, RealtimeProofs, FiniteSetTheorems, TLAPS

--------------------------------------------------------------------------------
(* SocketClient. Whatever waits in the queue was emitted under the sign-in    *)
(* that goes on, or under none, because signing out empties it; it is newer   *)
(* than all that was delivered, and waits only while there is no connection.  *)

(* Only a signed-in client has a Socket; it has no events waiting while that is *)
(* connected, as far as it knows.                                               *)
Connecting ==
  /\ link \in {"trying", "up", "dead"} => signedIn
  /\ link \in {"up", "dead"} => queue = <<>>
  /\ signIns <= stored /\ (signedIn => 0 < signIns)

(* The waiting events are of no sign-in or of the last one, and only while it   *)
(* goes on.                                                                     *)
OwnEventsWait ==
  \A i \in DOMAIN queue : queue[i].by \in {0, signIns} /\ (~signedIn => queue[i].by = 0)

(* Events are numbered as they are emitted; the server has older ones than wait. *)
NumbersGrow ==
  /\ \A i \in DOMAIN queue : queue[i].n <= emitted
  /\ \A i \in DOMAIN received : received[i].n <= emitted
  /\ \A i, j \in DOMAIN queue : i < j => queue[i].n < queue[j].n
  /\ \A i, j \in DOMAIN received : i < j => received[i].n < received[j].n
  /\ \A i \in DOMAIN received, j \in DOMAIN queue : received[i].n < queue[j].n

(* The invariant of the client.                                               *)
ClientInv == ClTypeOK /\ Connecting /\ OwnEventsWait /\ NumbersGrow /\ SignOutForgets

(* It holds before anyone signs in.                                           *)
LEMMA ClientInitHolds == ASSUME ClInit PROVE ClientInv
<1>1. ClTypeOK
  <2>1. queue \in Seq(Events) /\ Len(queue) = 0 /\ received \in Seq(Receipts)
    BY DEF ClInit
  <2>2. Len(queue) <= QueueCap
    BY <2>1, ClientAssumption
  <2>4. signedIn \in BOOLEAN
    BY Zenon DEF ClInit
  <2>3. /\ signIns \in 0 .. MaxTokens /\ stored \in 0 .. MaxTokens
        /\ expired \in 0 .. MaxTokens /\ token \in 0 .. MaxTokens
        /\ link = "none" /\ status = "DISCONNECTED"
        /\ emitted \in 0 .. MaxEmits /\ drops \in 0 .. MaxDrops
    BY ClientAssumption DEF ClInit
  <2> QED
    BY <2>1, <2>2, <2>3, <2>4 DEF ClTypeOK
<1> QED
  BY <1>1 DEF ClInit, ClientInv, Connecting, OwnEventsWait, NumbersGrow, SignOutForgets

(* Stamped events are delivered in their order.                                 *)
Stamped(events) ==
  [i \in DOMAIN events |-> [n |-> events[i].n, by |-> events[i].by, on |-> signIns]]

(* Delivered events keep their numbers and their sign-in.                     *)
LEMMA StampedAreReceipts ==
  ASSUME NEW q \in Seq(Events), signIns \in 1 .. MaxTokens
  PROVE  /\ Stamped(q) \in Seq(Receipts) /\ DOMAIN Stamped(q) = DOMAIN q
         /\ \A i \in DOMAIN q : Stamped(q)[i].n = q[i].n /\ Stamped(q)[i].by = q[i].by
                                /\ Stamped(q)[i].on = signIns
<1>1. \A i \in 1 .. Len(q) : q[i] \in Events
  OBVIOUS
<1>2. \A i \in 1 .. Len(q) : q[i].n \in 1 .. MaxEmits /\ q[i].by \in 0 .. MaxTokens
  BY <1>1 DEF Events
<1>3. \A i \in 1 .. Len(q) : Stamped(q)[i] \in Receipts
  BY <1>2 DEF Stamped, Receipts
<1>4. DOMAIN Stamped(q) = 1 .. Len(q)
  BY DEF Stamped
<1>5. Stamped(q) \in Seq(Receipts)
  BY <1>3, <1>4 DEF Stamped
<1> QED
  BY <1>4, <1>5 DEF Stamped

(* What delivering does to the invariant.                                       *)
LEMMA DeliveryHolds ==
  ASSUME ClientInv, signIns \in 1 .. MaxTokens,
         NEW q \in Seq(Events), Deliver(q), signIns' = signIns,
         queue' = <<>>, emitted' \in Nat, emitted <= emitted',
         \A i \in DOMAIN q : q[i].by \in {0, signIns} /\ q[i].n <= emitted',
         \A i, j \in DOMAIN q : i < j => q[i].n < q[j].n,
         \A i \in DOMAIN received, j \in DOMAIN q : received[i].n < q[j].n
  PROVE  /\ received' \in Seq(Receipts) /\ NumbersGrow' /\ SignOutForgets' /\ OwnEventsWait'
<1> DEFINE s == Stamped(q)
<1>1. received \in Seq(Receipts) /\ received' = received \o s
  BY DEF Deliver, Stamped, ClientInv, ClTypeOK
<1>2. /\ s \in Seq(Receipts) /\ DOMAIN s = DOMAIN q
      /\ \A i \in DOMAIN q : s[i].n = q[i].n /\ s[i].by = q[i].by /\ s[i].on = signIns
  BY StampedAreReceipts
<1> HIDE DEF s
<1>3. received' \in Seq(Receipts) /\ DOMAIN received' = 1 .. Len(received) + Len(s)
  BY <1>1, <1>2
<1>4. \A i \in DOMAIN received' :
        \/ i \in DOMAIN received /\ received'[i] = received[i]
        \/ i - Len(received) \in DOMAIN s /\ i > Len(received) /\ received'[i] = s[i - Len(received)]
  BY <1>1, <1>2
<1>5. \A i \in DOMAIN received : received[i] \in Receipts /\ i <= Len(received) /\ i \in Nat
  BY <1>1
<1>6. \A i \in DOMAIN s : s[i] \in Receipts /\ i \in Nat
  BY <1>2
<1>7. \A e \in Receipts : e.n \in Nat
  BY DEF Receipts
<1>8. \A i, j \in DOMAIN received' : i < j => received'[i].n < received'[j].n
  <2> SUFFICES ASSUME NEW i \in DOMAIN received', NEW j \in DOMAIN received', i < j
               PROVE received'[i].n < received'[j].n
    OBVIOUS
  <2>1. i \in Nat /\ j \in Nat
    BY <1>3
  <2>2. CASE i \in DOMAIN received /\ j \in DOMAIN received
    BY <2>2, <1>1, <1>4, <1>5 DEF ClientInv, NumbersGrow
  <2>3. CASE i \in DOMAIN received /\ j \notin DOMAIN received
    BY <2>3, <1>2, <1>4, <1>5
  <2>4. CASE i \notin DOMAIN received
    <3>1. j > Len(received) /\ i > Len(received)
      BY <2>1, <2>4, <1>1, <1>4
    <3>2. received'[i] = s[i - Len(received)] /\ i - Len(received) \in DOMAIN q
      BY <2>4, <1>2, <1>4
    <3>3. received'[j] = s[j - Len(received)] /\ j - Len(received) \in DOMAIN q
      BY <3>1, <1>1, <1>2, <1>4, <1>5
    <3>4. i - Len(received) < j - Len(received)
      BY <2>1, <1>1
    <3> QED BY <3>2, <3>3, <3>4, <1>2
  <2> QED BY <2>2, <2>3, <2>4
<1>9. \A i \in DOMAIN received' : received'[i].n <= emitted'
  <2> SUFFICES ASSUME NEW i \in DOMAIN received' PROVE received'[i].n <= emitted'
    OBVIOUS
  <2>1. CASE i \in DOMAIN received /\ received'[i] = received[i]
    <3>1. received[i].n \in Nat /\ received[i].n <= emitted /\ emitted \in Nat
      BY <2>1, <1>5, <1>7 DEF ClientInv, NumbersGrow, ClTypeOK
    <3> QED BY <3>1, <2>1
  <2> QED BY <2>1, <1>4, <1>2
<1>10. NumbersGrow'
  BY <1>8, <1>9 DEF NumbersGrow
<1>11. SignOutForgets'
  BY <1>4, <1>2 DEF ClientInv, SignOutForgets
<1> QED
  BY <1>3, <1>10, <1>11 DEF OwnEventsWait

(* Every step of the client keeps the invariant.                              *)
LEMMA ClientStepHolds == ASSUME ClientInv, [ClNext]_clVars PROVE ClientInv'
<1> USE ClientAssumption
<1>q. queue \in Seq(Events)
  BY DEF ClientInv, ClTypeOK
<1>f ASSUME UNCHANGED traffic, UNCHANGED <<signedIn, signIns>> PROVE
       NumbersGrow' /\ SignOutForgets' /\ OwnEventsWait'
  BY <1>f DEF ClientInv, NumbersGrow, SignOutForgets, OwnEventsWait, traffic
<1>1. CASE SignIn
  <2>1. NumbersGrow' /\ SignOutForgets'
    BY <1>1 DEF SignIn, ClientInv, NumbersGrow, SignOutForgets, traffic
  <2>2. \A i \in DOMAIN queue : queue[i].by = 0
    BY <1>1 DEF SignIn, ClientInv, OwnEventsWait
  <2>3. OwnEventsWait'
    BY <1>1, <2>2 DEF SignIn, OwnEventsWait, traffic
  <2>4. Connecting'
    BY <1>1 DEF SignIn, ClientInv, Connecting, ClTypeOK
  <2>5. ClTypeOK'
    BY <1>1 DEF SignIn, ClientInv, Connecting, ClTypeOK, traffic
  <2> QED BY <2>1, <2>3, <2>4, <2>5 DEF ClientInv
<1>2. CASE SignOut
  <2>1. NumbersGrow' /\ SignOutForgets' /\ OwnEventsWait'
    BY <1>2 DEF SignOut, Forget, ClientInv, NumbersGrow, SignOutForgets, OwnEventsWait
  <2>2. ClTypeOK' /\ Connecting'
    <3>1. queue' \in Seq(Events) /\ Len(queue') = 0
      BY <1>2 DEF SignOut, Forget
    <3>3. signedIn' \in BOOLEAN /\ ~signedIn'
      BY <1>2, Zenon DEF SignOut
    <3>2. /\ link' = "none" /\ token' = 0 /\ status' = "DISCONNECTED"
          /\ UNCHANGED <<signIns, stored, expired, emitted, received, drops>>
      BY <1>2 DEF SignOut
    <3> QED
      BY <3>1, <3>2, <3>3 DEF ClientInv, ClTypeOK, Connecting
  <2> QED BY <2>1, <2>2 DEF ClientInv
<1>3. CASE Refresh
  BY <1>3, <1>f DEF Refresh, traffic, ClientInv, ClTypeOK, Connecting
<1>4. CASE Expire
  BY <1>4, <1>f DEF Expire, traffic, ClientInv, ClTypeOK, Connecting
<1>5. CASE Accepted
  <2>1. Deliver(queue) /\ queue' = <<>> /\ UNCHANGED <<signedIn, signIns, stored, expired, token, emitted, drops>>
        /\ signedIn /\ link' = "up" /\ status' = "CONNECTED"
    BY <1>5 DEF Accepted, Flush, app, ClientInv, Connecting
  <2>2. signIns \in 1 .. MaxTokens /\ emitted \in Nat
    BY <2>1 DEF ClientInv, ClTypeOK, Connecting
  <2>3. received' \in Seq(Receipts) /\ NumbersGrow' /\ SignOutForgets' /\ OwnEventsWait'
    BY <2>1, <2>2, <1>q, DeliveryHolds DEF ClientInv, OwnEventsWait, NumbersGrow
  <2>4. ClTypeOK' /\ Connecting'
    BY <2>1, <2>3 DEF ClientInv, ClTypeOK, Connecting, Receipts
  <2> QED BY <2>3, <2>4 DEF ClientInv
<1>6. CASE Refused
  BY <1>6, <1>f DEF Refused, app, traffic, ClientInv, ClTypeOK, Connecting
<1>7. CASE Unreachable
  BY <1>7, <1>f DEF Unreachable, app, traffic, ClientInv, ClTypeOK, Connecting
<1>8. CASE NetworkLost
  BY <1>8, <1>f DEF NetworkLost, app, traffic, ClientInv, ClTypeOK, Connecting
<1>9. CASE Dropped
  BY <1>9, <1>f DEF Dropped, app, traffic, ClientInv, ClTypeOK, Connecting
<1>10. CASE EmitNow
  <2>1. /\ UNCHANGED <<signedIn, signIns, stored, expired, token, link, status, queue, drops>>
        /\ signedIn /\ queue = <<>> /\ emitted' = emitted + 1 /\ emitted \in Nat /\ emitted' \in 0 .. MaxEmits
    BY <1>10 DEF EmitNow, app, ClientInv, Connecting, ClTypeOK
  <2>2. signIns \in 1 .. MaxTokens
    BY <2>1 DEF ClientInv, ClTypeOK, Connecting
  <2>3. CASE link = "up"
    <3>1. Deliver(<<Event>>) /\ Event = [n |-> emitted + 1, by |-> signIns]
      BY <1>10, <2>1, <2>3 DEF EmitNow, Event
    <3> DEFINE q == <<Event>>
    <3>2. Event \in Events
      BY <2>1, <2>2, <3>1 DEF Events
    <3>3. q \in Seq(Events) /\ DOMAIN q = {1} /\ q[1] = Event
      BY <3>2
    <3>4. \A i \in DOMAIN received : received[i].n < emitted + 1
      <4>1. \A i \in DOMAIN received : received[i] \in Receipts
        BY DEF ClientInv, ClTypeOK
      <4>2. \A i \in DOMAIN received : received[i].n \in Nat
        BY <4>1 DEF Receipts
      <4> QED BY <2>1, <4>2 DEF ClientInv, NumbersGrow
    <3> HIDE DEF q
    <3>5. Deliver(q)
      BY <3>1 DEF q
    <3>6. \A i \in DOMAIN q : q[i].n = emitted + 1 /\ q[i].by = signIns /\ i = 1
      BY <3>1, <3>3
    <3>7. received' \in Seq(Receipts) /\ NumbersGrow' /\ SignOutForgets' /\ OwnEventsWait'
      <4>1. \A i \in DOMAIN q : q[i].by \in {0, signIns} /\ q[i].n <= emitted'
        BY <2>1, <3>6
      <4>2. \A i, j \in DOMAIN q : i < j => q[i].n < q[j].n
        BY <3>6
      <4>3. \A i \in DOMAIN received, j \in DOMAIN q : received[i].n < q[j].n
        BY <3>4, <3>6
      <4>4. emitted' \in Nat /\ emitted <= emitted' /\ queue' = <<>>
        BY <2>1
      <4> QED BY <2>1, <2>2, <3>3, <3>5, <4>1, <4>2, <4>3, <4>4, DeliveryHolds
    <3>8. ClTypeOK' /\ Connecting'
      BY <2>1, <3>7 DEF ClientInv, ClTypeOK, Connecting, Receipts
    <3> QED BY <3>7, <3>8 DEF ClientInv
  <2>4. CASE link # "up"
    <3>1. UNCHANGED received
      BY <1>10, <2>4 DEF EmitNow
    <3>2. ClTypeOK' /\ Connecting'
      BY <2>1, <3>1 DEF ClientInv, ClTypeOK, Connecting
    <3>3. \A i \in DOMAIN received : received[i].n \in Nat
      <4>1. \A i \in DOMAIN received : received[i] \in Receipts
        BY DEF ClientInv, ClTypeOK
      <4> QED BY <4>1 DEF Receipts
    <3>4. NumbersGrow' /\ SignOutForgets' /\ OwnEventsWait'
      BY <2>1, <3>1, <3>3 DEF ClientInv, NumbersGrow, SignOutForgets, OwnEventsWait
    <3> QED BY <3>2, <3>4 DEF ClientInv
  <2> QED BY <2>3, <2>4
<1>11. CASE EmitLater
  <2>1. /\ UNCHANGED <<signedIn, signIns, stored, expired, token, link, status, received, drops>>
        /\ link \notin {"up", "dead"} /\ emitted' = emitted + 1 /\ emitted \in Nat /\ emitted' \in 0 .. MaxEmits
        /\ Enqueue(Event)
    BY <1>11 DEF EmitLater, app, ClientInv, ClTypeOK
  <2>2. Event \in Events /\ Event.n = emitted + 1
        /\ Event.by \in {0, signIns} /\ (~signedIn => Event.by = 0)
    BY <2>1 DEF Event, Events, ClientInv, ClTypeOK
  <2> DEFINE kept == IF Len(queue) = QueueCap THEN Tail(queue) ELSE queue
  <2>3. queue' = Append(kept, Event)
    BY <2>1 DEF Enqueue
  <2>4. kept \in Seq(Events) /\ Len(kept) < QueueCap
    <3>1. Len(queue) = QueueCap => queue # <<>>
      BY <1>q
    <3> QED BY <1>q, <3>1 DEF ClientInv, ClTypeOK
  <2>5. PICK k \in {0, 1} : Len(kept) + k = Len(queue)
                            /\ \A i \in 1 .. Len(kept) : kept[i] = queue[i + k]
    <3>1. CASE Len(queue) = QueueCap
      <4>1. queue # <<>>
        BY <1>q, <3>1
      <4>2. kept = Tail(queue)
        BY <3>1
      <4> QED BY <4>1, <4>2, <1>q
    <3>2. CASE Len(queue) # QueueCap
      BY <3>2, <1>q
    <3> QED BY <3>1, <3>2
  <2> HIDE DEF kept
  <2>6. queue' \in Seq(Events) /\ Len(queue') = Len(kept) + 1 /\ queue'[Len(kept) + 1] = Event
        /\ \A i \in 1 .. Len(kept) : queue'[i] = queue[i + k] /\ i + k \in DOMAIN queue
    BY <2>2, <2>3, <2>4, <2>5, <1>q
  <2>7. \A i \in DOMAIN queue' : i = Len(kept) + 1 \/ i \in 1 .. Len(kept)
    BY <2>4, <2>6
  <2>8. \A i \in DOMAIN queue : queue[i].n \in Nat
    <3>1. \A i \in DOMAIN queue : queue[i] \in Events
      BY <1>q
    <3> QED BY <3>1 DEF Events
  <2>9. \A i \in DOMAIN received : received[i].n \in Nat
    <3>1. \A i \in DOMAIN received : received[i] \in Receipts
      BY DEF ClientInv, ClTypeOK
    <3> QED BY <3>1 DEF Receipts
  <2>10. ClTypeOK' /\ Connecting'
    BY <2>1, <2>4, <2>6 DEF ClientInv, ClTypeOK, Connecting
  <2>11. OwnEventsWait' /\ SignOutForgets'
    <3>1. OwnEventsWait'
      BY <2>1, <2>2, <2>6, <2>7 DEF ClientInv, OwnEventsWait
    <3> QED BY <3>1, <2>1 DEF ClientInv, SignOutForgets
  <2>12. \A i \in DOMAIN queue' : queue'[i].n <= emitted'
    BY <2>1, <2>2, <2>6, <2>7, <2>8 DEF ClientInv, NumbersGrow
  <2>13. \A i \in DOMAIN received : received[i].n <= emitted'
    BY <2>1, <2>9 DEF ClientInv, NumbersGrow
  <2>14. \A i, j \in DOMAIN queue' : i < j => queue'[i].n < queue'[j].n
    <3> SUFFICES ASSUME NEW i \in DOMAIN queue', NEW j \in DOMAIN queue', i < j
                 PROVE queue'[i].n < queue'[j].n
      OBVIOUS
    <3>1. i \in 1 .. Len(kept)
      BY <2>4, <2>7, <2>6
    <3>2. CASE j = Len(kept) + 1
      BY <3>1, <3>2, <2>1, <2>2, <2>6, <2>8 DEF ClientInv, NumbersGrow
    <3>3. CASE j \in 1 .. Len(kept)
      <4>1. i + k < j + k
        BY <3>1, <3>3, <2>4
      <4> QED BY <3>1, <3>3, <4>1, <2>6 DEF ClientInv, NumbersGrow
    <3> QED BY <3>2, <3>3, <2>7
  <2>15. \A i \in DOMAIN received, j \in DOMAIN queue' : received[i].n < queue'[j].n
    <3> SUFFICES ASSUME NEW i \in DOMAIN received, NEW j \in DOMAIN queue'
                 PROVE received[i].n < queue'[j].n
      OBVIOUS
    <3>1. CASE j = Len(kept) + 1
      BY <3>1, <2>1, <2>2, <2>6, <2>9 DEF ClientInv, NumbersGrow
    <3>2. CASE j \in 1 .. Len(kept)
      BY <3>2, <2>6 DEF ClientInv, NumbersGrow
    <3> QED BY <3>1, <3>2, <2>7
  <2>16. NumbersGrow'
    <3>1. received' = received
      BY <2>1
    <3>2. \A i, j \in DOMAIN received : i < j => received[i].n < received[j].n
      BY DEF ClientInv, NumbersGrow
    <3> QED BY <2>12, <2>13, <2>14, <2>15, <3>1, <3>2 DEF NumbersGrow
  <2> QED BY <2>10, <2>11, <2>16 DEF ClientInv
<1>12. CASE UNCHANGED clVars
  BY <1>12, <1>f DEF clVars, traffic, ClientInv, ClTypeOK, Connecting
<1> QED
  BY <1>1, <1>2, <1>3, <1>4, <1>5, <1>6, <1>7, <1>8, <1>9, <1>10, <1>11, <1>12 DEF ClNext

(* The numbers of a sequence of events, in its order.                         *)
LEMMA NumbersAreNumbers ==
  ASSUME NEW S, NEW s \in Seq(S), \A i \in DOMAIN s : s[i].n \in Nat
  PROVE  /\ Numbers(s) \in Seq(Nat) /\ Len(Numbers(s)) = Len(s)
         /\ \A i \in 1 .. Len(s) : Numbers(s)[i] = s[i].n
<1> DEFINE f == Numbers(s)
<1>1. DOMAIN f = 1 .. Len(s)
  BY DEF Numbers
<1>2. \A i \in 1 .. Len(s) : f[i] = s[i].n /\ f[i] \in Nat
  BY DEF Numbers
<1>3. f \in Seq(Nat)
  BY <1>1, <1>2 DEF Numbers
<1> QED
  BY <1>1, <1>2, <1>3

(* Every state of the client satisfies it.                                    *)
LEMMA ClientInvariance == ClSpec => []ClientInv
<1>1. ClInit => ClientInv
  BY ClientInitHolds
<1>2. ClientInv /\ [ClNext]_clVars => ClientInv'
  BY ClientStepHolds
<1> QED BY <1>1, <1>2, PTL DEF ClSpec

(* THEOREM. The types of the client hold for every bound: the offline queue   *)
(* never outgrows its limit, and a token it presents was stored               *)
(* (socketClient.ts).                                                         *)
THEOREM ClientTypesHold == ClSpec => []ClTypeOK
  BY ClientInvariance, PTL DEF ClientInv

(* THEOREM. Nothing emitted under one sign-in is delivered under another,     *)
(* however often the link drops in between: the queue is forgotten with the   *)
(* session (socketClient.ts, SocketProvider.tsx).                             *)
THEOREM SignOutIsRemembered == ClSpec => []SignOutForgets
  BY ClientInvariance, PTL DEF ClientInv

(* THEOREM. What was emitted arrives in that order, through the offline queue *)
(* or straight, over any number of reconnects (socketClient.ts, the flush on  *)
(* connect).                                                                  *)
THEOREM EventsArriveInOrder == ClSpec => []ReceivedInOrder
<1>1. ClientInv => ReceivedInOrder
  <2> SUFFICES ASSUME ClientInv PROVE ReceivedInOrder
    OBVIOUS
  <2> DEFINE r == Numbers(received)  q == Numbers(queue)
  <2>1. received \in Seq(Receipts) /\ queue \in Seq(Events)
    BY DEF ClientInv, ClTypeOK
  <2>2. (\A i \in DOMAIN received : received[i] \in Receipts) /\ (\A i \in DOMAIN queue : queue[i] \in Events)
    BY <2>1
  <2>3. (\A i \in DOMAIN received : received[i].n \in Nat) /\ (\A i \in DOMAIN queue : queue[i].n \in Nat)
    BY <2>2 DEF Receipts, Events
  <2>4. r \in Seq(Nat) /\ q \in Seq(Nat) /\ Len(r) = Len(received) /\ Len(q) = Len(queue)
    BY <2>1, <2>3, NumbersAreNumbers
  <2>5. (\A i \in 1 .. Len(r) : r[i] = received[i].n) /\ (\A i \in 1 .. Len(q) : q[i] = queue[i].n)
    BY <2>1, <2>3, NumbersAreNumbers
  <2> HIDE DEF r, q
  <2>b. DOMAIN received = 1 .. Len(r) /\ DOMAIN queue = 1 .. Len(q)
    BY <2>1, <2>4
  <2>6. \A i, j \in 1 .. Len(r) : i < j => r[i] < r[j]
    BY <2>b, <2>5 DEF ClientInv, NumbersGrow
  <2>7. \A i, j \in 1 .. Len(q) : i < j => q[i] < q[j]
    BY <2>b, <2>5 DEF ClientInv, NumbersGrow
  <2>8. \A i \in 1 .. Len(r), j \in 1 .. Len(q) : r[i] < q[j]
    BY <2>b, <2>5 DEF ClientInv, NumbersGrow
  <2>9. \A i, j \in DOMAIN (r \o q) : i < j => (r \o q)[i] < (r \o q)[j]
    <3> SUFFICES ASSUME NEW i \in 1 .. Len(r) + Len(q), NEW j \in 1 .. Len(r) + Len(q), i < j
                 PROVE (r \o q)[i] < (r \o q)[j]
      <4>1. \A s, t \in Seq(Nat) : DOMAIN (s \o t) = 1 .. Len(s) + Len(t)
        OBVIOUS
      <4>2. DOMAIN (r \o q) = 1 .. Len(r) + Len(q)
        BY <2>4, <4>1
      <4> QED BY <4>2
    <3>1. (r \o q)[i] = IF i <= Len(r) THEN r[i] ELSE q[i - Len(r)]
      BY <2>4
    <3>2. (r \o q)[j] = IF j <= Len(r) THEN r[j] ELSE q[j - Len(r)]
      BY <2>4
    <3>3. Len(r) \in Nat /\ Len(q) \in Nat
      BY <2>4
    <3>4. CASE i <= Len(r) /\ j <= Len(r)
      BY <3>1, <3>2, <3>3, <3>4, <2>6
    <3>5. CASE i <= Len(r) /\ ~(j <= Len(r))
      <4>1. i \in 1 .. Len(r) /\ j - Len(r) \in 1 .. Len(q)
        BY <3>3, <3>5
      <4> QED BY <3>1, <3>2, <3>5, <4>1, <2>8
    <3>6. CASE ~(i <= Len(r))
      <4>1. ~(j <= Len(r)) /\ i - Len(r) < j - Len(r)
            /\ i - Len(r) \in 1 .. Len(q) /\ j - Len(r) \in 1 .. Len(q)
        BY <3>3, <3>6
      <4> QED BY <3>1, <3>2, <3>6, <4>1, <2>7
    <3> QED BY <3>4, <3>5, <3>6
  <2> QED BY <2>9 DEF ReceivedInOrder, Increasing, r, q
<1> QED BY <1>1, ClientInvariance, PTL

--------------------------------------------------------------------------------
(* Screens. What is in the cache or on its way to it was read at or after the *)
(* last change that the view must show: a change marks the entry stale or     *)
(* cancels the fetch that began before it, for every operation of every hook. *)

(* The operations of the mutation hooks.                                      *)
Changes == {"create", "update", "delete"}

(* The views that must show an operation.                                     *)
Expected(h, op) == IF op = "update" THEN h.views \ {"children"} ELSE {"list"}

(* Every view of the resource that must show an operation is invalidated by   *)
(* it.                                                                        *)
Covers(h) == \A op \in DOMAIN h.on : h.views \cap Expected(h, op) \subseteq h.on[op]

(* Every hook invalidates the views in which the user expects its change.       *)
LEMMA HooksCover == \A of \in DOMAIN Hooks : Covers(Hooks[of])
<1>1. Covers(Crud)
  BY DEF Covers, Expected, Crud
<1>2. Covers(StudentHooks)
  BY DEF Covers, Expected, StudentHooks, Crud
<1>3. Covers(TripHooks)
  BY DEF Covers, Expected, TripHooks, Crud
<1>4. Covers(EmergencyHooks)
  BY DEF Covers, Expected, EmergencyHooks, Crud
<1>5. Covers(AttendanceHooks) /\ Covers(NotificationHooks) /\ Covers(GeofenceHooks)
  BY DEF Covers, Expected, AttendanceHooks, NotificationHooks, GeofenceHooks, Crud
<1>6. Covers(AlertHooks) /\ Covers(SubscriptionHooks) /\ Covers(ExecutionHooks)
  BY DEF Covers, Expected, AlertHooks, SubscriptionHooks, ExecutionHooks, Crud
<1> QED
  BY <1>1, <1>2, <1>3, <1>4, <1>5, <1>6
  DEF Hooks, UserHooks, DriverHooks, VehicleHooks, RouteHooks, OrganizationHooks

--------------------------------------------------------------------------------
(* An entry of the cache, before its numbers are bounded.                     *)
Cells == [data : Int, stale : BOOLEAN, fetch : Int, mounted : BOOLEAN]

(* What the variables range over.                                             *)
ScreenTypes ==
  /\ view # NoView => view.of \in DOMAIN Hooks /\ view.name \in Mine.views
  /\ version \in Nat /\ version <= MaxVersions /\ due \in Nat /\ due <= version
  /\ entry \in Cells
  /\ None <= entry.data /\ entry.data <= version
  /\ Idle <= entry.fetch /\ entry.fetch <= version
  /\ mutation \in [op : Changes \cup {"none"}, at : Int]
  /\ None <= mutation.at /\ mutation.at <= version

(* A change is made by a hook of the view's resource.                           *)
ChangesAreHooked ==
  mutation.op # "none" => view # NoView /\ mutation.op \in DOMAIN Mine.on

(* What is in the cache, or read and on its way to it, is recent enough.        *)
Recent ==
  /\ ~entry.stale => due <= entry.data
  /\ 0 <= entry.fetch => due <= entry.fetch

(* The invariant of a page.                                                   *)
ScreenInv == ScreenTypes /\ ChangesAreHooked /\ Recent /\ (mutation # Resting => mutation.op # "none")

(* It holds before a page is opened.                                          *)
LEMMA ScreenInitHolds == ASSUME ScInit PROVE ScreenInv
  BY ScreenAssumption DEF ScInit, ScreenInv, ScreenTypes, ChangesAreHooked, Recent, Empty, Resting, None,
         Idle, Cells, Changes

(* Every step of a page keeps the invariant.                                  *)
LEMMA ScreenStepHolds ==
  ASSUME ScreenInv, [ScNext]_scVars PROVE ScreenInv'
<1> USE DEF ScreenInv, None, Idle, Asked, Changes
<1>f ASSUME UNCHANGED <<view, version, mutation, due>>, entry' \in Cells,
            None <= entry'.data, entry'.data <= version,
            Idle <= entry'.fetch, entry'.fetch <= version,
            ~entry'.stale => due <= entry'.data, 0 <= entry'.fetch => due <= entry'.fetch
     PROVE ScreenInv'
  BY <1>f DEF ScreenTypes, ChangesAreHooked, Recent, Mine
<1>v ASSUME view # NoView, UNCHANGED view, UNCHANGED entry, UNCHANGED due,
            version' \in {version, version + 1}, version' <= MaxVersions,
            \/ mutation' \in {mutation, Resting}
            \/ mutation.op # "none" /\ mutation' = [mutation EXCEPT !.at = version']
     PROVE ScreenInv'
  <2>1. mutation' \in [op : Changes \cup {"none"}, at : Int] /\ None <= mutation'.at /\ mutation'.at <= version'
    BY <1>v DEF ScreenTypes, Resting
  <2>2. mutation'.op # "none" => mutation'.op = mutation.op
    BY <1>v DEF ScreenTypes, Resting
  <2>3. mutation' # Resting => mutation'.op # "none"
    BY <1>v DEF ScreenTypes, Resting
  <2> QED
    <3>1. version' \in Nat /\ due' \in Nat /\ due' <= version'
          /\ entry'.data <= version' /\ entry'.fetch <= version'
      <4>1. entry.data \in Int /\ entry.fetch \in Int
        BY DEF ScreenTypes, Cells
      <4> QED
        BY <4>1, <1>v DEF ScreenTypes
    <3>3. ScreenTypes'
      BY <1>v, <2>1, <3>1 DEF ScreenTypes, Mine
    <3>2. ChangesAreHooked' /\ Recent'
      BY <1>v, <2>2 DEF ChangesAreHooked, Recent, Mine
    <3> QED
      BY <2>3, <3>2, <3>3
<1>1. CASE Watch
  BY <1>1 DEF Watch, ScreenTypes, ChangesAreHooked, Recent, Mine
<1>2. CASE view # NoView /\ Mount
  <2>1. entry' = [data |-> entry.data, stale |-> entry.stale, mounted |-> TRUE,
                  fetch |-> IF entry.stale /\ entry.fetch = Idle THEN Asked ELSE entry.fetch]
    BY <1>2 DEF Mount, Becomes, ScreenTypes, Cells
  <2>2. entry.fetch \in Int /\ entry.data \in Int /\ entry.stale \in BOOLEAN
    BY DEF ScreenTypes, Cells
  <2>3. entry' \in Cells
    BY <2>1, <2>2 DEF Cells
  <2> QED
    BY <1>2, <2>1, <2>2, <2>3, <1>f DEF Mount, ScreenTypes, Recent
<1>3. CASE view # NoView /\ Unmount
  BY <1>3, <1>f DEF Unmount, Becomes, ScreenTypes, Recent, Cells
<1>4. CASE view # NoView /\ Collect
  BY <1>4, <1>f DEF Collect, Becomes, ScreenTypes, Recent, Cells, Empty
<1>5. CASE view # NoView /\ GrowStale
  BY <1>5, <1>f DEF GrowStale, Becomes, ScreenTypes, Recent, Cells
<1>6. CASE view # NoView /\ Poll
  BY <1>6, <1>f DEF Poll, Becomes, ScreenTypes, Recent, Cells
<1>7. CASE view # NoView /\ FetchRead
  BY <1>7, <1>f DEF FetchRead, Becomes, ScreenTypes, Recent, Cells
<1>8. CASE view # NoView /\ FetchArrives
  <2>1. entry' = [data |-> entry.fetch, stale |-> FALSE, mounted |-> entry.mounted,
                  fetch |-> Idle]
    BY <1>8 DEF FetchArrives, Becomes, ScreenTypes, Cells
  <2>2. entry.fetch \in Int /\ entry.mounted \in BOOLEAN /\ 0 <= entry.fetch
    BY <1>8 DEF FetchArrives, ScreenTypes, Cells
  <2>3. entry' \in Cells
    BY <2>1, <2>2 DEF Cells
  <2> QED
    BY <1>8, <2>1, <2>2, <2>3, <1>f DEF FetchArrives, ScreenTypes, Recent
<1>9. CASE view # NoView /\ FetchFails
  BY <1>9, <1>f DEF FetchFails, Becomes, ScreenTypes, Recent, Cells
<1>10. CASE view # NoView /\ ChangeCommits
  BY <1>10, <1>v, ScreenAssumption DEF ChangeCommits, ScreenTypes
<1>11. CASE view # NoView /\ ChangeElsewhere
  BY <1>11, <1>v, ScreenAssumption DEF ChangeElsewhere, ScreenTypes
<1>12. CASE view # NoView /\ ChangeFails
  BY <1>12, <1>v DEF ChangeFails, ScreenTypes
<1>13. CASE view # NoView /\ ChangeSucceeds
  <2>1. mutation.op # "none"
    BY <1>13 DEF ChangeSucceeds, Resting, ScreenTypes
  <2>2. view.name \in Concerned(mutation.op) => view.name \in Mine.on[mutation.op]
    <3>1. view.of \in DOMAIN Hooks /\ view.name \in Mine.views /\ mutation.op \in DOMAIN Mine.on
      BY <1>13, <2>1 DEF ScreenTypes, ChangesAreHooked
    <3>2. Covers(Mine)
      BY <3>1, HooksCover DEF Mine
    <3>3. Concerned(mutation.op) = Expected(Mine, mutation.op)
      BY DEF Concerned, Expected
    <3> QED BY <3>1, <3>2, <3>3 DEF Covers
  <2>3. entry' \in Cells /\ entry'.data = entry.data /\ (~entry'.stale => ~entry.stale)
        /\ entry'.fetch \in {entry.fetch, Asked}
    <3>1. entry' \in {entry, Invalidated}
      BY <1>13 DEF ChangeSucceeds, Becomes
    <3>2. entry.data \in Int /\ entry.fetch \in Int /\ entry.mounted \in BOOLEAN
      BY DEF ScreenTypes, Cells
    <3>3. PICK n \in {entry.fetch, Asked} : Invalidated = [entry EXCEPT !.stale = TRUE, !.fetch = n]
      BY DEF Invalidated
    <3>4. Invalidated = [data |-> entry.data, stale |-> TRUE, mounted |-> entry.mounted, fetch |-> n]
      BY <3>3 DEF ScreenTypes, Cells
    <3>5. Invalidated \in Cells
      <4>1. n \in Int
        BY <3>2, <3>3
      <4> QED
        BY <3>2, <3>4, <4>1 DEF Cells
    <3> QED
      BY <3>1, <3>2, <3>3, <3>4, <3>5 DEF ScreenTypes
  <2>4. mutation' = Resting /\ UNCHANGED <<view, version>>
    BY <1>13 DEF ChangeSucceeds
  <2>5. CASE view.name \in Concerned(mutation.op) /\ ~Outlives
    <3>1. due' = mutation.at /\ entry'.stale = TRUE
      BY <1>13, <2>2, <2>5 DEF ChangeSucceeds, Becomes, Invalidated, ScreenTypes, Cells
    <3>2. ~(0 <= entry'.fetch)
      BY <1>13, <2>2, <2>5 DEF ChangeSucceeds, Becomes, Invalidated, ScreenTypes, Cells, Outlives
    <3>3. mutation.at \in Nat
      BY <1>13 DEF ChangeSucceeds, ScreenTypes
    <3> QED
      BY <2>3, <2>4, <3>1, <3>2, <3>3 DEF ScreenTypes, ChangesAreHooked, Recent, Mine, Resting
  <2>6. CASE ~(view.name \in Concerned(mutation.op) /\ ~Outlives)
    <3>1. due' = due
      BY <1>13, <2>6 DEF ChangeSucceeds
    <3> QED
      BY <2>3, <2>4, <3>1 DEF ScreenTypes, ChangesAreHooked, Recent, Mine, Resting
  <2> QED BY <2>5, <2>6
<1>14. ASSUME NEW op \in Changes, view # NoView, SubmitChange(op)
       PROVE ScreenInv'
  <2>1. entry' \in {entry, Cancelled}
    BY <1>14 DEF SubmitChange, Becomes
  <2>2. entry' \in Cells /\ entry'.data = entry.data /\ (~entry'.stale => ~entry.stale)
        /\ entry'.fetch \in {entry.fetch, Idle}
    BY <2>1 DEF Cancelled, Cells, ScreenTypes
  <2>3. mutation' = [op |-> op, at |-> None] /\ op \in DOMAIN Mine.on /\ UNCHANGED <<view, version, due>>
    BY <1>14 DEF SubmitChange
  <2> QED
    BY <1>14, <2>2, <2>3 DEF ScreenTypes, ChangesAreHooked, Recent, Mine, Changes
<1>15. CASE UNCHANGED scVars
  BY <1>15 DEF scVars, ScreenTypes, ChangesAreHooked, Recent, Mine
<1> QED
  BY <1>1, <1>2, <1>3, <1>4, <1>5, <1>6, <1>7, <1>8, <1>9, <1>10, <1>11, <1>12, <1>13,
     <1>14, <1>15 DEF ScNext, Changes

(* Every state of a page satisfies it.                                        *)
LEMMA ScreenInvariance == ScSpec => []ScreenInv
<1>1. ScInit => ScreenInv
  BY ScreenInitHolds
<1>2. ScreenInv /\ [ScNext]_scVars => ScreenInv'
  BY ScreenStepHolds
<1> QED BY <1>1, <1>2, PTL DEF ScSpec

(* THEOREM. An entry that the cache holds to be fresh shows the user's last   *)
(* successful change, for every resource, view and operation, though fetches  *)
(* overlap the change (the invalidations of the query hooks).                 *)
THEOREM OwnChangesAreShown == ScSpec => []OwnChangesShow
<1>1. ScreenInv => OwnChangesShow
  BY DEF ScreenInv, ScreenTypes, Recent, OwnChangesShow, Cells
<1> QED BY <1>1, ScreenInvariance, PTL

(* THEOREM. The types of a page hold for any number of versions; no entry is  *)
(* ahead of the server.                                                       *)
THEOREM ScreenTypesHold == ScSpec => []ScTypeOK
<1>1. ScreenInv => ScTypeOK
  BY ScreenAssumption DEF ScreenInv, ScreenTypes, ScTypeOK, None, Idle, Cells, Mine
<1> QED BY <1>1, ScreenInvariance, PTL

--------------------------------------------------------------------------------
(* AttendanceSync. Marks are numbered in the order of their taps; the queue       *)
(* has the last of them. The loop awaits the first mark of the queue and no       *)
(* other, so the server has applied all that have left the queue and at most      *)
(* one that has not: the taps up to some number, in order, each of which was      *)
(* a legal move when it was made and is one when it is applied.                   *)

(* What is on the connection.                                                 *)
Emissions == [mark : Marks, n : Nat]
Acks == [id : 1 .. MaxTaps, ok : BOOLEAN, n : Nat]
Standings == [status : Status, at : 0 .. MaxTaps]

(* What the variables range over.                                             *)
LinkTypes ==
  /\ screen \in [Students -> Status]
  /\ offline \in Seq(Marks) /\ batch \in Seq(Marks)
  /\ emissions \in Nat /\ awaited \in 0 .. emissions /\ (awaited = 0 <=> batch = <<>>)
  /\ uplink \in Seq(Emissions) /\ downlink \in Seq(Acks)
  /\ \A i \in DOMAIN uplink : uplink[i].n \in 1 .. emissions
  /\ \A i \in DOMAIN downlink : downlink[i].n \in 1 .. emissions
  /\ state \in [Students -> Standings]
  /\ processed \subseteq 1 .. MaxTaps /\ applied \in Seq(Marks)
  /\ taps \in 0 .. MaxTaps /\ breaks \in 0 .. MaxBreaks
  /\ crashes \in 0 .. MaxCrashes /\ overdue \in 0 .. MaxLate

(* Taps whose marks have left the queue.                                      *)
Gone == taps - Len(offline)

(* The queue has the last taps, in order.                                     *)
QueueIsLast == Gone \in Nat /\ \A i \in DOMAIN offline : offline[i].id = Gone + i

(* The loop's copy is the beginning of the queue, and what it awaits is about      *)
(* the first mark.                                                                 *)
LoopIsFirst ==
  /\ Len(batch) <= Len(offline) /\ \A i \in DOMAIN batch : batch[i] = offline[i]
  /\ awaited # 0 =>
       /\ \A i \in DOMAIN uplink : uplink[i].n = awaited => uplink[i].mark = batch[1]
       /\ \A i \in DOMAIN downlink : downlink[i].n = awaited => downlink[i].id = batch[1].id

Marked(display, m) == [display EXCEPT ![m.student] = m.status]

(* The taps so far, and what the screen showed after each.                    *)
IsStory(tapped, display) ==
  /\ display[0] = [s \in Students |-> "PENDING"] /\ display[taps] = screen
  /\ \A n \in 1 .. taps :
       /\ tapped[n].id = n /\ tapped[n].status \in Offered(display[n - 1][tapped[n].student])
       /\ display[n] = Marked(display[n - 1], tapped[n])

(* Queue, connection and server agree with it.                                *)
IsFollowed(tapped, display) ==
  /\ \A i \in DOMAIN offline : offline[i] = tapped[Gone + i]
  /\ Len(applied) \in Gone .. Gone + 1 /\ Len(applied) <= taps
  /\ processed = 1 .. Len(applied)
  /\ \A i \in DOMAIN applied : applied[i] = tapped[i]
  /\ \A s \in Students :
       state[s].status = display[Len(applied)][s] /\ state[s].at <= Len(applied)
  /\ \A i \in DOMAIN uplink :
       /\ uplink[i].mark.id <= Gone + 1 /\ uplink[i].mark.id <= taps
       /\ uplink[i].mark = tapped[uplink[i].mark.id]
  /\ \A i \in DOMAIN downlink : downlink[i].id <= Len(applied)

Taken == [1 .. taps -> Marks]
Screenings == [0 .. taps -> [Students -> Status]]

(* While the server remembers, there is such a story.                         *)
StoryIsKept ==
  crashes = 0 =>
    \E tapped \in Taken, display \in Screenings : IsStory(tapped, display) /\ IsFollowed(tapped, display)

(* The invariant of the marks.                                                *)
LinkInv == LinkTypes /\ QueueIsLast /\ LoopIsFirst /\ StoryIsKept

--------------------------------------------------------------------------------
(* The fields of a mark, of an emission and of an acknowledgement.            *)
LEMMA MarkFields ==
  /\ \A m \in Marks : m.id \in 1 .. MaxTaps /\ m.student \in Students /\ m.status \in Status
  /\ \A e \in Emissions : e.mark \in Marks /\ e.n \in Nat
  /\ \A a \in Acks : a.id \in 1 .. MaxTaps /\ a.ok \in BOOLEAN /\ a.n \in Nat
  BY DEF Marks, Emissions, Acks

(* A sequence without its first element.                                      *)
LEMMA TailIsShifted ==
  ASSUME NEW S, NEW s \in Seq(S), s # <<>>
  PROVE  /\ Tail(s) \in Seq(S) /\ Len(Tail(s)) = Len(s) - 1 /\ Head(s) = s[1] /\ Head(s) \in S
         /\ Len(s) \in Nat \ {0} /\ DOMAIN s = 1 .. Len(s) /\ DOMAIN Tail(s) = 1 .. Len(s) - 1
         /\ \A i \in 1 .. Len(s) - 1 : Tail(s)[i] = s[i + 1]
OBVIOUS

(* A sequence with one more.                                                  *)
LEMMA AppendIsLast ==
  ASSUME NEW S, NEW s \in Seq(S), NEW x \in S
  PROVE  /\ Append(s, x) \in Seq(S) /\ Len(Append(s, x)) = Len(s) + 1
         /\ Len(s) \in Nat /\ DOMAIN s = 1 .. Len(s) /\ DOMAIN Append(s, x) = 1 .. Len(s) + 1
         /\ \A i \in 1 .. Len(s) : Append(s, x)[i] = s[i]
         /\ Append(s, x)[Len(s) + 1] = x
OBVIOUS

(* A sequence is of the set that its elements are in.                         *)
LEMMA SmallerElements ==
  ASSUME NEW S, NEW T, NEW s \in Seq(S), \A i \in DOMAIN s : s[i] \in T
  PROVE  s \in Seq(T)
<1>1. Len(s) \in Nat /\ DOMAIN s = 1 .. Len(s) /\ s = [i \in 1 .. Len(s) |-> s[i]]
  OBVIOUS
<1>2. s \in [1 .. Len(s) -> T]
  BY <1>1
<1> QED
  BY <1>1, <1>2

(* What removing the first element leaves.                                    *)
LEMMA FirstIsRemoved ==
  ASSUME NEW S, NEW s \in Seq(S), s # <<>>
  PROVE  RemoveAt(s, 1) = Tail(s)
<1>1. SubSeq(s, 1, 0) = <<>> /\ SubSeq(s, 2, Len(s)) \in Seq(S)
  OBVIOUS
<1>2. RemoveAt(s, 1) = SubSeq(s, 2, Len(s))
  BY <1>1 DEF RemoveAt
<1>3. SubSeq(s, 2, Len(s)) = Tail(s)
  OBVIOUS
<1> QED
  BY <1>2, <1>3

(* An acknowledgement of the first mark takes it from the queue.              *)
LEMMA FirstIsSettled ==
  ASSUME LinkTypes, QueueIsLast, offline # <<>>, NEW ack, ack.id = offline[1].id
  PROVE  Settled(ack) = Tail(offline)
<1>1. DOMAIN offline = 1 .. Len(offline) /\ Len(offline) \in Nat \ {0}
  BY TailIsShifted DEF LinkTypes
<1>2. 1 \in DOMAIN offline /\ \A i \in DOMAIN offline : offline[i].id = ack.id => i = 1
  BY <1>1 DEF QueueIsLast
<1>3. (CHOOSE i \in DOMAIN offline : offline[i].id = ack.id) = 1
  BY <1>2
<1>4. Settled(ack) = RemoveAt(offline, 1)
  BY <1>2, <1>3 DEF Settled
<1> QED
  BY <1>4, FirstIsRemoved DEF LinkTypes

(* What a turn of the loop leaves in the loop's variables and on the line.    *)
LEMMA TurnsOfTheLoop ==
  ASSUME LinkTypes, NEW rest \in Seq(Marks), Proceed(rest)
  PROVE  /\ batch' = rest /\ batch' \in Seq(Marks) /\ emissions' \in Nat /\ awaited' \in 0 .. emissions'
         /\ emissions <= emissions'
         /\ (awaited' = 0 <=> batch' = <<>>) /\ (awaited' # 0 => awaited' > emissions)
         /\ uplink' \in Seq(Emissions)
         /\ \A i \in DOMAIN uplink' :
              \/ i \in DOMAIN uplink /\ uplink'[i] = uplink[i]
              \/ rest # <<>> /\ uplink'[i] = [mark |-> rest[1], n |-> awaited']
<1>1. CASE rest = <<>>
  BY <1>1 DEF Proceed, LinkTypes
<1>2. CASE rest # <<>>
  <2> DEFINE e == [mark |-> Head(rest), n |-> emissions + 1]
  <2>1. Head(rest) = rest[1] /\ Head(rest) \in Marks
    BY <1>2, TailIsShifted
  <2>2. e \in Emissions
    BY <2>1 DEF LinkTypes, Emissions
  <2>3. uplink' = Append(uplink, e) /\ batch' = rest /\ emissions' = emissions + 1 /\ awaited' = emissions + 1
    BY <1>2 DEF Proceed
  <2>4. uplink' \in Seq(Emissions)
    BY <2>2, <2>3, AppendIsLast DEF LinkTypes
  <2>5. \A i \in DOMAIN uplink' : (i \in DOMAIN uplink /\ uplink'[i] = uplink[i]) \/ uplink'[i] = e
    <3> HIDE DEF e
    <3>1. /\ DOMAIN uplink = 1 .. Len(uplink) /\ DOMAIN uplink' = 1 .. Len(uplink) + 1
          /\ Len(uplink) \in Nat /\ uplink'[Len(uplink) + 1] = e
          /\ \A i \in 1 .. Len(uplink) : uplink'[i] = uplink[i]
      BY <2>2, <2>3, AppendIsLast DEF LinkTypes
    <3> QED
      BY <3>1
  <2> QED
    BY <1>2, <2>1, <2>3, <2>4, <2>5 DEF LinkTypes
<1> QED
  BY <1>1, <1>2

(* A turn with the beginning of the queue awaits its first mark.              *)
LEMMA LoopStaysFirst ==
  ASSUME LinkTypes, NEW rest \in Seq(Marks), Proceed(rest),
         Len(rest) <= Len(offline'), \A i \in DOMAIN rest : rest[i] = offline'[i],
         \A i \in DOMAIN downlink' : downlink'[i].n \in 1 .. emissions
  PROVE  LoopIsFirst'
<1>1. Len(batch') <= Len(offline') /\ \A i \in DOMAIN batch' : batch'[i] = offline'[i]
  BY TurnsOfTheLoop
<1>2. ASSUME awaited' # 0, NEW i \in DOMAIN uplink', uplink'[i].n = awaited' PROVE uplink'[i].mark = batch'[1]
  <2>1. CASE i \in DOMAIN uplink /\ uplink'[i] = uplink[i]
    <3>1. uplink[i].n <= emissions /\ awaited' > emissions /\ uplink[i].n \in Nat /\ emissions \in Nat
      BY <1>2, <2>1, TurnsOfTheLoop, SMTT(30) DEF LinkTypes
    <3> QED
      BY <1>2, <2>1, <3>1
  <2>2. CASE uplink'[i] = [mark |-> rest[1], n |-> awaited']
    BY <2>2, TurnsOfTheLoop
  <2> QED
    BY <2>1, <2>2, TurnsOfTheLoop
<1>3. ASSUME awaited' # 0, NEW i \in DOMAIN downlink' PROVE downlink'[i].n # awaited'
  BY <1>3, TurnsOfTheLoop, SMTT(30) DEF LinkTypes
<1> QED
  BY <1>1, <1>2, <1>3 DEF LoopIsFirst

(* What such a turn puts on the line is what the story tells.                 *)
LEMMA LineFollows ==
  ASSUME LinkTypes, NEW rest \in Seq(Marks), Proceed(rest),
         offline' \in Seq(Marks), QueueIsLast',
         Len(rest) <= Len(offline'), \A i \in DOMAIN rest : rest[i] = offline'[i],
         taps' = taps, Gone <= Gone', Gone \in Nat,
         NEW tapped, NEW display, IsFollowed(tapped, display),
         \A i \in DOMAIN offline' : offline'[i] = tapped[Gone' + i]
  PROVE  \A i \in DOMAIN uplink' :
           /\ uplink'[i].mark.id <= Gone' + 1 /\ uplink'[i].mark.id <= taps'
           /\ uplink'[i].mark = tapped[uplink'[i].mark.id]
<1> SUFFICES ASSUME NEW i \in DOMAIN uplink'
             PROVE  /\ uplink'[i].mark.id <= Gone' + 1 /\ uplink'[i].mark.id <= taps'
                    /\ uplink'[i].mark = tapped[uplink'[i].mark.id]
  OBVIOUS
<1>1. CASE i \in DOMAIN uplink /\ uplink'[i] = uplink[i]
  <2>1. uplink[i].mark.id \in Nat
    BY <1>1, MarkFields, LinkAssumption DEF LinkTypes
  <2>2. Gone' \in Nat
    BY DEF QueueIsLast
  <2> QED
    BY <1>1, <2>1, <2>2 DEF IsFollowed
<1>2. CASE rest # <<>> /\ uplink'[i] = [mark |-> rest[1], n |-> awaited']
  <2>1. 1 \in DOMAIN rest /\ 1 \in DOMAIN offline'
    BY <1>2
  <2>2. uplink'[i].mark = offline'[1]
    BY <1>2, <2>1
  <2>3. PICK g \in Nat : g = Gone'
    BY DEF QueueIsLast
  <2>4. offline'[1].id = g + 1 /\ offline'[1] = tapped[g + 1]
    BY <2>1, <2>3 DEF QueueIsLast
  <2>5. g + 1 <= taps' /\ taps' \in Nat
    BY <1>2, <2>1, <2>3, LinkAssumption DEF Gone, LinkTypes
  <2>6. uplink'[i].mark.id = g + 1
    BY <2>2, <2>4
  <2>7. uplink'[i].mark.id <= g + 1 /\ uplink'[i].mark.id <= taps'
    BY <2>5, <2>6
  <2>8. uplink'[i].mark = tapped[uplink'[i].mark.id]
    BY <2>2, <2>4, <2>6
  <2> QED
    BY <2>3, <2>7, <2>8
<1> QED
  BY <1>1, <1>2, TurnsOfTheLoop

(* A step after which the story is still followed keeps it.                   *)
LEMMA StoryGoesOn ==
  ASSUME StoryIsKept, screen' = screen, taps' = taps, crashes' = crashes,
         \A tapped \in Taken, display \in Screenings :
           crashes = 0 /\ IsStory(tapped, display) /\ IsFollowed(tapped, display)
             => IsFollowed(tapped, display)'
  PROVE  StoryIsKept'
<1> SUFFICES ASSUME crashes = 0
             PROVE  \E tapped \in Taken, display \in Screenings :
                      IsStory(tapped, display)' /\ IsFollowed(tapped, display)'
  BY DEF StoryIsKept, Taken, Screenings
<1>1. PICK tapped \in Taken, display \in Screenings : IsStory(tapped, display) /\ IsFollowed(tapped, display)
  BY DEF StoryIsKept
<1>2. IsStory(tapped, display)'
  BY <1>1 DEF IsStory
<1> QED
  BY <1>1, <1>2

--------------------------------------------------------------------------------
(* At first no mark has left the queue.                                       *)
LEMMA NothingIsGone == ASSUME AtInit PROVE Gone = 0
<1>1. Len(offline) = 0
  BY DEF AtInit
<1>2. taps = 0
  BY DEF AtInit
<1> QED
  BY <1>1, <1>2 DEF Gone

(* It holds before the first tap.                                             *)
LEMMA LinkInitHolds == ASSUME AtInit PROVE LinkInv
<1> USE LinkAssumption DEF AtInit
<1>1. "PENDING" \in Status
  BY DEF Status
<1>2. LinkTypes
  <2>1. Unseen \in Standings
    BY <1>1 DEF Unseen, Standings
  <2>2. uplink \in Seq(Emissions) /\ downlink \in Seq(Acks) /\ offline \in Seq(Marks) /\ batch \in Seq(Marks)
        /\ applied \in Seq(Marks) /\ DOMAIN uplink = {} /\ DOMAIN downlink = {}
    OBVIOUS
  <2>3. state \in [Students -> Standings] /\ screen \in [Students -> Status]
    BY <1>1, <2>1
  <2> QED
    BY <2>2, <2>3 DEF LinkTypes
<1>3. QueueIsLast /\ LoopIsFirst
  BY DEF QueueIsLast, Gone, LoopIsFirst
<1>4. StoryIsKept
  <2>1. ASSUME NEW tapped, tapped = [n \in 1 .. taps |-> 0],
               NEW display, display = [n \in 0 .. taps |-> screen]
        PROVE  tapped \in Taken /\ display \in Screenings /\ IsStory(tapped, display) /\ IsFollowed(tapped, display)
    <3>1. tapped \in Taken /\ display \in Screenings /\ IsStory(tapped, display)
      BY <1>1, <2>1 DEF Taken, Screenings, IsStory
    <3>2. Len(applied) = 0 /\ Gone = 0
      BY NothingIsGone
    <3>5. 1 .. Len(applied) = {} /\ DOMAIN offline = {} /\ DOMAIN applied = {} /\ DOMAIN uplink = {}
          /\ DOMAIN downlink = {}
      OBVIOUS
    <3>3. \A s \in Students : state[s].status = display[0][s] /\ state[s].at <= 0
      BY <2>1 DEF Unseen
    <3>4. IsFollowed(tapped, display)
      BY <3>2, <3>3, <3>5 DEF IsFollowed
    <3> QED
      BY <3>1, <3>4
  <2> QED
    BY <2>1 DEF StoryIsKept
<1> QED
  BY <1>2, <1>3, <1>4 DEF LinkInv


--------------------------------------------------------------------------------
(* A turn of the loop keeps the types.                                        *)
LEMMA TurnsKeepTypes ==
  ASSUME LinkTypes, NEW rest \in Seq(Marks), Proceed(rest),
         offline' \in Seq(Marks), downlink' \in Seq(Acks),
         \A i \in DOMAIN downlink' : downlink'[i].n \in 1 .. emissions,
         UNCHANGED <<screen, server, taps, breaks, crashes>>, overdue' \in 0 .. MaxLate
  PROVE  LinkTypes'
<1>1. \A i \in DOMAIN uplink' : uplink'[i].n \in 1 .. emissions'
  <2> SUFFICES ASSUME NEW i \in DOMAIN uplink' PROVE uplink'[i].n \in 1 .. emissions'
    OBVIOUS
  <2>1. emissions \in Nat /\ emissions' \in Nat /\ emissions <= emissions' /\ awaited' \in 0 .. emissions'
    BY TurnsOfTheLoop DEF LinkTypes
  <2>2. CASE i \in DOMAIN uplink /\ uplink'[i] = uplink[i]
    <3>1. uplink'[i].n \in 1 .. emissions
      BY <2>2 DEF LinkTypes
    <3> QED
      BY <2>1, <3>1
  <2>3. CASE rest # <<>> /\ uplink'[i] = [mark |-> rest[1], n |-> awaited']
    BY <2>1, <2>3, TurnsOfTheLoop
  <2> QED
    BY <2>2, <2>3, TurnsOfTheLoop
<1>2. \A i \in DOMAIN downlink' : downlink'[i].n \in 1 .. emissions'
  <2>1. emissions \in Nat /\ emissions' \in Nat /\ emissions <= emissions'
    BY TurnsOfTheLoop DEF LinkTypes
  <2> QED
    BY <2>1
<1>3. state' = state /\ processed' = processed /\ applied' = applied
  BY DEF server
<1> QED
  BY <1>1, <1>2, <1>3, TurnsOfTheLoop DEF LinkTypes

(* A flush begins with the first mark of the queue.                           *)
LEMMA FlushKeepsMarks == ASSUME LinkInv, StartFlush PROVE LinkInv'
<1> USE DEF LinkInv
<1>1. Proceed(offline) /\ offline \in Seq(Marks) /\ offline' = offline /\ downlink' = downlink
      /\ UNCHANGED <<screen, server, taps, breaks, crashes, overdue>>
  BY DEF StartFlush, LinkTypes
<1>2. LinkTypes'
  BY <1>1, TurnsKeepTypes DEF LinkTypes
<1>3. QueueIsLast' /\ Gone' = Gone
  BY <1>1 DEF QueueIsLast, Gone
<1>4. LoopIsFirst'
  <2>1. Len(offline) <= Len(offline') /\ \A i \in DOMAIN offline : offline[i] = offline'[i]
    BY <1>1
  <2>2. \A i \in DOMAIN downlink' : downlink'[i].n \in 1 .. emissions
    BY <1>1 DEF LinkTypes
  <2> QED
    BY <1>1, <2>1, <2>2, LoopStaysFirst
<1>5. ASSUME NEW tapped \in Taken, NEW display \in Screenings, IsFollowed(tapped, display)
      PROVE  IsFollowed(tapped, display)'
  <2>1. Gone \in Nat /\ Gone <= Gone'
    BY <1>3 DEF QueueIsLast
  <2>2. \A i \in DOMAIN offline' : offline'[i] = tapped[Gone' + i]
    BY <1>1, <1>3, <1>5 DEF IsFollowed
  <2>3. \A i \in DOMAIN uplink' :
           /\ uplink'[i].mark.id <= Gone' + 1 /\ uplink'[i].mark.id <= taps'
           /\ uplink'[i].mark = tapped[uplink'[i].mark.id]
    BY <1>1, <1>3, <1>5, <2>1, <2>2, LineFollows
  <2> QED
    BY <1>1, <1>3, <1>5, <2>3 DEF IsFollowed, server
<1>6. StoryIsKept'
  BY <1>1, <1>5, StoryGoesOn
<1> QED
  BY <1>2, <1>3, <1>4, <1>6

(* A timeout ends the loop.                                                   *)
LEMMA TimeoutKeepsMarks == ASSUME LinkInv, AckTimeout PROVE LinkInv'
<1> USE DEF LinkInv
<1>1. Proceed(<<>>) /\ <<>> \in Seq(Marks) /\ offline' = offline /\ downlink' = downlink
      /\ UNCHANGED <<screen, server, taps, breaks, crashes>>
  BY DEF AckTimeout, GiveUp
<1>2. overdue' \in 0 .. MaxLate
  BY LinkAssumption DEF AckTimeout, LinkTypes
<1>3. LinkTypes'
  BY <1>1, <1>2, TurnsKeepTypes DEF LinkTypes
<1>4. QueueIsLast' /\ Gone' = Gone /\ uplink' = uplink
  BY <1>1 DEF QueueIsLast, Gone, Proceed
<1>5. LoopIsFirst'
  BY <1>1 DEF Proceed, LoopIsFirst, LinkTypes
<1>6. StoryIsKept'
  <2>1. ASSUME NEW tapped \in Taken, NEW display \in Screenings, IsFollowed(tapped, display)
        PROVE  IsFollowed(tapped, display)'
    BY <1>1, <1>4, <2>1 DEF IsFollowed, server
  <2> QED
    BY <1>1, <2>1, StoryGoesOn
<1> QED
  BY <1>3, <1>4, <1>5, <1>6


(* What the loop awaits is about the first mark of the queue, which it settles. *)
LEMMA AnswerIsAboutFirst ==
  ASSUME LinkTypes, QueueIsLast, LoopIsFirst, AckArrives, Head(downlink).n = awaited
  PROVE  /\ awaited # 0 /\ batch # <<>> /\ offline # <<>> /\ downlink[1].id = offline[1].id
         /\ batch[1] = offline[1] /\ 1 \in DOMAIN downlink /\ offline' = Tail(offline)
<1>1. 1 \in DOMAIN downlink /\ Head(downlink) = downlink[1] /\ downlink[1].n \in 1 .. emissions
  <2>1. downlink # <<>> /\ downlink \in Seq(Acks)
    BY DEF AckArrives, LinkTypes
  <2> QED
    BY <2>1, TailIsShifted DEF LinkTypes
<1>2. awaited # 0 /\ batch # <<>> /\ batch \in Seq(Marks) /\ offline \in Seq(Marks)
  BY <1>1 DEF LinkTypes
<1>3. Len(batch) <= Len(offline) /\ 1 \in DOMAIN batch /\ Len(batch) \in Nat \ {0}
  BY <1>2, TailIsShifted DEF LoopIsFirst
<1>4. batch[1] = offline[1] /\ downlink[1].id = batch[1].id /\ offline # <<>>
  <2>1. batch[1] = offline[1] /\ downlink[1].id = batch[1].id
    BY <1>1, <1>2, <1>3 DEF LoopIsFirst
  <2> QED
    BY <1>2, <1>3, <2>1
<1>5. offline' = Settled(Head(downlink))
  BY DEF AckArrives
<1> QED
  BY <1>1, <1>2, <1>4, <1>5, FirstIsSettled

(* An acknowledgement takes the first mark from the queue, and the loop ends       *)
(* or goes on with the next; one that is not awaited changes nothing.              *)
LEMMA AckKeepsMarks == ASSUME LinkInv, AckArrives PROVE LinkInv'
<1> USE DEF LinkInv
<1>a. downlink # <<>> /\ downlink' = Tail(downlink) /\ UNCHANGED <<screen, server, taps, breaks, crashes, overdue>>
  BY DEF AckArrives
<1>b. downlink \in Seq(Acks) /\ offline \in Seq(Marks) /\ batch \in Seq(Marks)
  BY DEF LinkTypes
<1>c. downlink' \in Seq(Acks) /\ \A i \in DOMAIN downlink' : downlink'[i].n \in 1 .. emissions
  <2>1. \A i \in DOMAIN downlink' : i + 1 \in DOMAIN downlink /\ downlink'[i] = downlink[i + 1]
    BY <1>a, <1>b, TailIsShifted
  <2> QED
    BY <1>a, <1>b, <2>1, TailIsShifted DEF LinkTypes
<1>d. \A i \in DOMAIN downlink' : i + 1 \in DOMAIN downlink /\ downlink'[i] = downlink[i + 1]
  BY <1>a, <1>b, TailIsShifted
<1>e. 1 \in DOMAIN downlink /\ Head(downlink) = downlink[1] /\ downlink[1].n \in 1 .. emissions
  BY <1>a, <1>b, TailIsShifted DEF LinkTypes
<1>1. CASE Head(downlink).n = awaited
  <2>1. /\ awaited # 0 /\ batch # <<>> /\ offline # <<>> /\ downlink[1].id = offline[1].id
        /\ batch[1] = offline[1]
    BY <1>1, AnswerIsAboutFirst
  <2>2. offline' = Tail(offline)
    BY <1>1, AnswerIsAboutFirst
  <2>3. /\ offline' \in Seq(Marks) /\ Len(offline') = Len(offline) - 1 /\ Len(offline) \in Nat \ {0}
        /\ DOMAIN offline' = 1 .. Len(offline) - 1 /\ DOMAIN offline = 1 .. Len(offline)
        /\ \A i \in 1 .. Len(offline) - 1 : offline'[i] = offline[i + 1]
    BY <1>b, <2>1, <2>2, TailIsShifted
  <2>4. PICK g \in Nat : g = Gone
    BY DEF QueueIsLast
  <2>5. Gone' = g + 1 /\ taps \in Nat
    BY <1>a, <2>3, <2>4, LinkAssumption DEF Gone, LinkTypes
  <2>6. QueueIsLast'
    <3>1. \A i \in DOMAIN offline : offline[i].id = g + i
      BY <2>4 DEF QueueIsLast
    <3>2. \A i \in DOMAIN offline' : offline'[i].id = g + (i + 1)
      BY <2>3, <3>1
    <3>3. \A i \in DOMAIN offline' : g + (i + 1) = (g + 1) + i
      BY <2>3
    <3>4. Gone' \in Nat
      BY <2>5
    <3> QED
      BY <2>5, <3>2, <3>3, <3>4 DEF QueueIsLast
  <2>7. PICK rest \in Seq(Marks) : /\ Proceed(rest) /\ Len(rest) <= Len(offline')
                                   /\ \A i \in DOMAIN rest : rest[i] = offline'[i]
    <3>1. Proceed(Tail(batch)) \/ Proceed(<<>>)
      BY <1>1 DEF AckArrives
    <3>2. /\ Tail(batch) \in Seq(Marks) /\ Len(Tail(batch)) <= Len(offline')
          /\ \A i \in DOMAIN Tail(batch) : Tail(batch)[i] = offline'[i]
      <4>1. /\ Tail(batch) \in Seq(Marks) /\ Len(Tail(batch)) = Len(batch) - 1 /\ Len(batch) \in Nat
            /\ DOMAIN Tail(batch) = 1 .. Len(batch) - 1 /\ DOMAIN batch = 1 .. Len(batch)
            /\ \A i \in 1 .. Len(batch) - 1 : Tail(batch)[i] = batch[i + 1]
        BY <1>b, <2>1, TailIsShifted
      <4>2. Len(batch) <= Len(offline) /\ \A i \in DOMAIN batch : batch[i] = offline[i]
        BY DEF LoopIsFirst
      <4> QED
        BY <2>3, <4>1, <4>2
    <3>3. <<>> \in Seq(Marks) /\ Len(<<>>) <= Len(offline') /\ DOMAIN <<>> = {}
      BY <2>3
    <3>4. CASE Proceed(Tail(batch))
      BY <3>2, <3>4
    <3>5. CASE Proceed(<<>>)
      BY <3>3, <3>5
    <3> QED
      BY <3>1, <3>4, <3>5
  <2>8. LinkTypes'
    <3>1. overdue' \in 0 .. MaxLate
      BY <1>a DEF LinkTypes
    <3> QED
      BY <1>a, <1>c, <2>3, <2>7, <3>1, TurnsKeepTypes
  <2>9. LoopIsFirst'
    BY <1>c, <2>7, LoopStaysFirst
  <2>10. ASSUME NEW tapped \in Taken, NEW display \in Screenings, IsFollowed(tapped, display)
        PROVE  IsFollowed(tapped, display)'
    <3>1. \A i \in DOMAIN offline' : offline'[i] = tapped[Gone' + i]
      <4>1. \A i \in DOMAIN offline : offline[i] = tapped[g + i]
        BY <2>4, <2>10 DEF IsFollowed
      <4>2. ASSUME NEW i \in DOMAIN offline' PROVE offline'[i] = tapped[g + (i + 1)]
        <5>1. i + 1 \in DOMAIN offline /\ offline'[i] = offline[i + 1]
          BY <2>3
        <5> QED
          BY <4>1, <5>1
      <4>3. \A i \in DOMAIN offline' : g + (i + 1) = (g + 1) + i
        BY <2>3
      <4> QED
        BY <2>5, <4>2, <4>3
    <3>2. \A i \in DOMAIN uplink' :
             /\ uplink'[i].mark.id <= Gone' + 1 /\ uplink'[i].mark.id <= taps'
             /\ uplink'[i].mark = tapped[uplink'[i].mark.id]
      <4>1. Gone \in Nat /\ Gone <= Gone'
        BY <2>4, <2>5
      <4> QED
        BY <1>a, <2>3, <2>6, <2>7, <2>10, <3>1, <4>1, LineFollows
    (* The mark has been applied: the acknowledgement is of it.                  *)
    <3>3. Len(applied) \in g + 1 .. g + 2
      <4>1. downlink[1].id <= Len(applied) /\ Len(applied) \in g .. g + 1
        BY <1>e, <2>4, <2>10 DEF IsFollowed
      <4>2. downlink[1].id = g + 1
        BY <2>1, <2>3, <2>4 DEF QueueIsLast
      <4> QED
        BY <4>1, <4>2
    <3>4. \A i \in DOMAIN downlink' : downlink'[i].id <= Len(applied')
      BY <1>a, <1>d, <2>10 DEF IsFollowed, server
    <3>5. Len(applied') \in Gone' .. Gone' + 1
      BY <1>a, <2>5, <3>3 DEF server
    <3> QED
      BY <1>a, <2>10, <3>1, <3>2, <3>4, <3>5 DEF IsFollowed, server
  <2>11. StoryIsKept'
    BY <1>a, <2>10, StoryGoesOn
  <2> QED
    BY <2>6, <2>8, <2>9, <2>11
<1>2. CASE Head(downlink).n # awaited
  <2>1. UNCHANGED <<offline, batch, awaited, emissions, uplink>>
    BY <1>2 DEF AckArrives
  <2>2. LinkTypes'
    BY <1>a, <1>c, <2>1 DEF LinkTypes, server
  <2>3. QueueIsLast' /\ Gone' = Gone
    BY <1>a, <2>1 DEF QueueIsLast, Gone
  <2>4. LoopIsFirst'
    BY <1>d, <2>1 DEF LoopIsFirst
  <2>5. ASSUME NEW tapped \in Taken, NEW display \in Screenings, IsFollowed(tapped, display)
        PROVE  IsFollowed(tapped, display)'
    <3>1. \A i \in DOMAIN downlink' : downlink'[i].id <= Len(applied')
      BY <1>a, <1>d, <2>5 DEF IsFollowed, server
    <3> QED
      BY <1>a, <2>1, <2>3, <2>5, <3>1 DEF IsFollowed, server
  <2>6. StoryIsKept'
    BY <1>a, <2>5, StoryGoesOn
  <2> QED
    BY <2>2, <2>3, <2>4, <2>6
<1> QED
  BY <1>1, <1>2


(* What may be offered may follow.                                            *)
LEMMA OfferedMayFollow ==
  ASSUME NEW old, NEW new \in Offered(old)
  PROVE  MayFollow(old, new)
BY DEF Offered, MayFollow

(* The server applies the next mark of the story, or has it already.          *)
LEMMA HandlingKeepsMarks == ASSUME LinkInv, HandleMark PROVE LinkInv'
<1> USE DEF LinkInv
<1> DEFINE m == Head(uplink).mark
           fresh == m.id \notin processed
           takes == fresh /\ Acceptable(m)
           ack == [id |-> m.id, ok |-> takes \/ ~fresh, n |-> Head(uplink).n]
<1>a. /\ uplink # <<>> /\ uplink' = Tail(uplink) /\ downlink' = Append(downlink, ack)
      /\ UNCHANGED <<device, taps, breaks, crashes, overdue>>
  BY DEF HandleMark
<1>b. /\ screen' = screen /\ offline' = offline /\ batch' = batch /\ awaited' = awaited
      /\ emissions' = emissions /\ taps' = taps /\ breaks' = breaks /\ crashes' = crashes /\ overdue' = overdue
  BY <1>a DEF device
<1>c. uplink \in Seq(Emissions) /\ downlink \in Seq(Acks) /\ applied \in Seq(Marks)
  BY DEF LinkTypes
<1>d. /\ 1 \in DOMAIN uplink /\ Head(uplink) = uplink[1] /\ Head(uplink) \in Emissions
      /\ uplink[1].n \in 1 .. emissions /\ m \in Marks
  BY <1>a, <1>c, TailIsShifted, MarkFields DEF LinkTypes
<1>e. /\ uplink' \in Seq(Emissions)
      /\ \A i \in DOMAIN uplink' : i + 1 \in DOMAIN uplink /\ uplink'[i] = uplink[i + 1]
  BY <1>a, <1>c, TailIsShifted
<1>f. ack \in Acks /\ ack.id = m.id /\ ack.n = Head(uplink).n
  <2>1. (takes \/ ~fresh) \in BOOLEAN
    BY Zenon
  <2>2. m.id \in 1 .. MaxTaps /\ Head(uplink).n \in Nat
    BY <1>d, MarkFields
  <2> HIDE DEF takes, fresh, m
  <2> QED
    BY <2>1, <2>2 DEF Acks
<1>g. IF takes
      THEN /\ state' = [state EXCEPT ![m.student] = [status |-> m.status, at |-> m.id]]
           /\ processed' = processed \cup {m.id} /\ applied' = Append(applied, m)
      ELSE state' = state /\ processed' = processed /\ applied' = applied
  BY DEF HandleMark, server
<1>h. m.id \in 1 .. MaxTaps /\ m.student \in Students /\ m.status \in Status
  BY <1>d, MarkFields
<1> HIDE DEF ack
<1>i. /\ downlink' \in Seq(Acks) /\ DOMAIN downlink' = 1 .. Len(downlink) + 1
      /\ DOMAIN downlink = 1 .. Len(downlink) /\ Len(downlink) \in Nat
      /\ downlink'[Len(downlink) + 1] = ack
      /\ \A i \in DOMAIN downlink : downlink'[i] = downlink[i]
  BY <1>a, <1>c, <1>f, AppendIsLast
<1>j. \A i \in DOMAIN downlink' : (i \in DOMAIN downlink /\ downlink'[i] = downlink[i]) \/ downlink'[i] = ack
  BY <1>i
<1>k. state' \in [Students -> Standings] /\ processed' \subseteq 1 .. MaxTaps /\ applied' \in Seq(Marks)
  <2>1. CASE takes
    <3>1. [status |-> m.status, at |-> m.id] \in Standings
      BY <1>h DEF Standings
    <3>2. applied' = Append(applied, m) /\ processed' = processed \cup {m.id}
          /\ state' = [state EXCEPT ![m.student] = [status |-> m.status, at |-> m.id]]
      BY <1>g, <2>1
    <3> HIDE DEF m
    <3> QED
      BY <1>c, <1>d, <1>h, <3>1, <3>2, AppendIsLast DEF LinkTypes
  <2>2. CASE ~takes
    BY <1>g, <2>2 DEF LinkTypes
  <2> QED
    BY <2>1, <2>2
<1> HIDE DEF takes, fresh
<1>1. LinkTypes'
  <2>1. \A i \in DOMAIN uplink' : uplink'[i].n \in 1 .. emissions
    BY <1>e DEF LinkTypes
  <2>2. \A i \in DOMAIN downlink' : downlink'[i].n \in 1 .. emissions
    BY <1>d, <1>f, <1>j DEF LinkTypes
  <2> QED
    BY <1>b, <1>e, <1>i, <1>k, <2>1, <2>2 DEF LinkTypes
<1>2. QueueIsLast' /\ Gone' = Gone
  BY <1>b DEF QueueIsLast, Gone
<1>3. LoopIsFirst'
  <2>1. ASSUME awaited # 0, NEW i \in DOMAIN uplink', uplink'[i].n = awaited PROVE uplink'[i].mark = batch[1]
    BY <1>e, <2>1 DEF LoopIsFirst
  <2>2. ASSUME awaited # 0, NEW i \in DOMAIN downlink', downlink'[i].n = awaited
        PROVE  downlink'[i].id = batch[1].id
    <3>1. ack.n = awaited => ack.id = batch[1].id
      BY <1>d, <1>f, <2>2 DEF LoopIsFirst
    <3> QED
      BY <1>j, <2>2, <3>1 DEF LoopIsFirst
  <2> QED
    BY <1>b, <2>1, <2>2 DEF LoopIsFirst
<1>4. ASSUME crashes = 0, NEW tapped \in Taken, NEW display \in Screenings,
             IsStory(tapped, display), IsFollowed(tapped, display)
      PROVE  IsFollowed(tapped, display)'
  <2>1. PICK g \in Nat : g = Gone
    BY DEF QueueIsLast
  <2>2. PICK k \in Nat : k = Len(applied)
    BY <1>c
  <2>3. /\ k \in g .. g + 1 /\ k <= taps /\ processed = 1 .. k /\ taps \in Nat
        /\ DOMAIN applied = 1 .. k /\ \A i \in DOMAIN applied : applied[i] = tapped[i]
        /\ \A s \in Students : state[s].status = display[k][s] /\ state[s].at <= k
    BY <1>4, <1>c, <2>1, <2>2, LinkAssumption DEF IsFollowed, LinkTypes
  <2>4. m.id <= g + 1 /\ m.id <= taps /\ m = tapped[m.id]
    BY <1>4, <1>d, <2>1 DEF IsFollowed
  <2>5. \A i \in DOMAIN uplink' :
           /\ uplink'[i].mark.id <= Gone' + 1 /\ uplink'[i].mark.id <= taps'
           /\ uplink'[i].mark = tapped[uplink'[i].mark.id]
    BY <1>4, <1>b, <1>e, <1>2 DEF IsFollowed
  <2> HIDE DEF m
  <2>6. CASE ~fresh
    <3>1. UNCHANGED <<state, processed, applied>> /\ m.id <= k
      BY <1>g, <1>h, <2>3, <2>6 DEF takes, fresh
    <3>2. \A i \in DOMAIN downlink' : downlink'[i].id <= Len(applied')
      BY <1>4, <1>f, <1>j, <2>2, <3>1 DEF IsFollowed
    <3> QED
      BY <1>4, <1>b, <1>2, <2>5, <3>1, <3>2 DEF IsFollowed
  <2>7. CASE fresh
    <3>1. m.id = k + 1 /\ k + 1 \in 1 .. taps /\ k = g
      BY <1>h, <2>3, <2>4, <2>7 DEF fresh
    <3>2. m = tapped[k + 1] /\ m.status \in Offered(display[k][m.student])
          /\ display[k + 1] = Marked(display[k], m)
      <4>1. m = tapped[k + 1]
        BY <2>4, <3>1
      <4>2. (k + 1) - 1 = k
        OBVIOUS
      <4> QED
        BY <1>4, <3>1, <4>1, <4>2 DEF IsStory
    <3>3. Acceptable(m)
      <4>1. state[m.student].at <= k /\ state[m.student].at \in Nat /\ state[m.student].status = display[k][m.student]
        BY <1>h, <2>3, LinkAssumption DEF LinkTypes, Standings
      <4> QED
        BY <3>1, <3>2, <4>1, OfferedMayFollow DEF Acceptable
    <3>4. /\ state' = [state EXCEPT ![m.student] = [status |-> m.status, at |-> m.id]]
          /\ processed' = processed \cup {m.id} /\ applied' = Append(applied, m)
      BY <1>g, <2>7, <3>3 DEF takes
    <3>5. /\ Len(applied') = k + 1 /\ DOMAIN applied' = 1 .. k + 1 /\ applied'[k + 1] = m
          /\ \A i \in DOMAIN applied : applied'[i] = applied[i]
      BY <1>c, <1>d, <2>2, <3>4, AppendIsLast
    <3>6. \A i \in DOMAIN applied' : applied'[i] = tapped[i]
      BY <2>3, <3>2, <3>5
    <3>7. processed' = 1 .. k + 1
      BY <2>3, <3>1, <3>4
    <3>8. \A s \in Students : state'[s].status = display[k + 1][s] /\ state'[s].at <= k + 1
      <4>1. /\ display[k] \in [Students -> Status] /\ state \in [Students -> Standings]
        BY <2>3 DEF Screenings, LinkTypes
      <4>2. \A s \in Students : s # m.student => state'[s] = state[s] /\ display[k + 1][s] = display[k][s]
        BY <3>2, <3>4, <4>1 DEF Marked
      <4>3. /\ state'[m.student] = [status |-> m.status, at |-> m.id]
            /\ display[k + 1][m.student] = m.status
        BY <1>h, <3>2, <3>4, <4>1 DEF Marked
      <4>4. \A s \in Students : state[s].at \in Nat /\ state[s].at <= k
        BY <2>3, LinkAssumption DEF LinkTypes, Standings
      <4> QED
        BY <2>3, <3>1, <4>2, <4>3, <4>4
    <3>9. \A i \in DOMAIN downlink' : downlink'[i].id <= k + 1
      <4>1. \A i \in DOMAIN downlink : downlink[i].id <= k /\ downlink[i].id \in Nat
        BY <1>4, <1>c, <2>2, MarkFields, LinkAssumption DEF IsFollowed
      <4> QED
        BY <1>f, <1>j, <3>1, <4>1
    <3> QED
      BY <1>4, <1>b, <1>2, <2>1, <2>5, <3>1, <3>5, <3>6, <3>7, <3>8, <3>9 DEF IsFollowed
  <2> QED
    BY <2>6, <2>7
<1>5. StoryIsKept'
  BY <1>4, <1>b, StoryGoesOn
<1> QED
  BY <1>1, <1>2, <1>3, <1>5


(* A tap is one more mark of the story and of the queue.                      *)
LEMMA TapKeepsMarks ==
  ASSUME LinkInv, NEW s \in Students, NEW side \in {"BOARDED", "ALIGHTED", "ABSENT"}, Tap(s, side)
  PROVE  LinkInv'
<1> USE DEF LinkInv
<1> DEFINE new == [id |-> taps + 1, student |-> s, status |-> side]
<1>a. /\ taps < MaxTaps /\ taps' = taps + 1 /\ side \in Offered(screen[s])
      /\ screen' = [screen EXCEPT ![s] = side] /\ offline' = Append(offline, new)
      /\ UNCHANGED <<batch, awaited, emissions, uplink, downlink, server, breaks, crashes, overdue>>
  BY DEF Tap
<1>b. taps \in Nat /\ taps + 1 \in 1 .. MaxTaps /\ side \in Status
  BY <1>a, LinkAssumption DEF LinkTypes, Status
<1>c. new \in Marks /\ new.id = taps + 1 /\ new.student = s /\ new.status = side
  BY <1>b DEF Marks
<1> HIDE DEF new
<1>d. /\ offline' \in Seq(Marks) /\ Len(offline') = Len(offline) + 1 /\ Len(offline) \in Nat
      /\ DOMAIN offline = 1 .. Len(offline) /\ DOMAIN offline' = 1 .. Len(offline) + 1
      /\ offline'[Len(offline) + 1] = new
      /\ \A i \in DOMAIN offline : offline'[i] = offline[i]
  BY <1>a, <1>c, AppendIsLast DEF LinkTypes
<1>g. PICK g \in Nat : g = Gone
  BY DEF QueueIsLast
<1>e. g = Gone /\ g + Len(offline) = taps
  BY <1>b, <1>d, <1>g DEF Gone
<1>f. Gone' = g
  BY <1>a, <1>b, <1>d, <1>e DEF Gone
<1>1. LinkTypes'
  <2>1. screen' \in [Students -> Status]
    BY <1>a, <1>b DEF LinkTypes
  <2> QED
    BY <1>a, <1>b, <1>d, <2>1 DEF LinkTypes, server
<1>2. QueueIsLast'
  <2>1. \A i \in DOMAIN offline : offline'[i].id = g + i
    BY <1>d, <1>e DEF QueueIsLast
  <2>2. offline'[Len(offline) + 1].id = g + (Len(offline) + 1)
    BY <1>c, <1>d, <1>e
  <2>3. \A i \in DOMAIN offline' : offline'[i].id = g + i
    BY <1>d, <2>1, <2>2
  <2> QED
    BY <1>f, <2>3 DEF QueueIsLast
<1>3. LoopIsFirst'
  <2>1. Len(batch) <= Len(offline') /\ \A i \in DOMAIN batch : i \in DOMAIN offline /\ batch[i] = offline'[i]
    <3>1. Len(batch) <= Len(offline) /\ DOMAIN batch = 1 .. Len(batch) /\ Len(batch) \in Nat
          /\ \A i \in DOMAIN batch : batch[i] = offline[i]
      BY DEF LinkTypes, LoopIsFirst
    <3> QED
      BY <1>d, <3>1
  <2> QED
    BY <1>a, <2>1 DEF LoopIsFirst
<1>4. StoryIsKept'
  <2> SUFFICES ASSUME crashes = 0
               PROVE  \E tapped \in Taken', display \in Screenings' :
                        IsStory(tapped, display)' /\ IsFollowed(tapped, display)'
    BY <1>a DEF StoryIsKept
  <2>1. PICK tapped \in Taken, display \in Screenings : IsStory(tapped, display) /\ IsFollowed(tapped, display)
    BY DEF StoryIsKept
  <2>2. PICK tapped2 : tapped2 = [n \in 1 .. taps + 1 |-> IF n = taps + 1 THEN new ELSE tapped[n]]
    OBVIOUS
  <2>3. PICK display2 : display2 = [n \in 0 .. taps + 1 |-> IF n = taps + 1 THEN screen' ELSE display[n]]
    OBVIOUS
  <2>4. tapped2[taps + 1] = new /\ \A n \in 1 .. taps : tapped2[n] = tapped[n]
    BY <1>b, <2>2
  <2>5. display2[taps + 1] = screen' /\ \A n \in 0 .. taps : display2[n] = display[n]
    BY <1>b, <2>3
  <2>6. tapped2 \in Taken'
    BY <1>a, <1>b, <1>c, <2>2 DEF Taken
  <2>7. display2 \in Screenings'
    BY <1>1, <1>a, <1>b, <2>3 DEF Screenings, LinkTypes
  <2>8. IsStory(tapped2, display2)'
    <3>1. display2[0] = [t \in Students |-> "PENDING"] /\ display2[taps'] = screen'
      BY <1>a, <1>b, <2>1, <2>5 DEF IsStory
    <3>2. ASSUME NEW n \in 1 .. taps'
          PROVE  /\ tapped2[n].id = n /\ tapped2[n].status \in Offered(display2[n - 1][tapped2[n].student])
                 /\ display2[n] = Marked(display2[n - 1], tapped2[n])
      <4>1. CASE n \in 1 .. taps
        <5>1. n - 1 \in 0 .. taps /\ n \in 0 .. taps
          BY <1>b, <4>1
        <5>2. tapped2[n] = tapped[n] /\ display2[n] = display[n] /\ display2[n - 1] = display[n - 1]
          BY <2>4, <2>5, <4>1, <5>1
        <5> QED
          BY <2>1, <4>1, <5>2 DEF IsStory
      <4>2. CASE n = taps + 1
        <5>1. n - 1 = taps /\ taps \in 0 .. taps
          BY <1>b, <4>2
        <5>2. display2[n - 1] = screen /\ display2[n] = screen' /\ tapped2[n] = new
          BY <2>1, <2>4, <2>5, <4>2, <5>1 DEF IsStory
        <5> QED
          BY <1>a, <1>c, <4>2, <5>2 DEF Marked
      <4> QED
        BY <1>a, <1>b, <4>1, <4>2
    <3> QED
      BY <3>1, <3>2 DEF IsStory
  <2>9. IsFollowed(tapped2, display2)'
    <3>1. PICK k \in Nat : k = Len(applied)
      <4>1. applied \in Seq(Marks)
        BY DEF LinkTypes
      <4> QED
        BY <4>1
    <3>2. /\ k \in g .. g + 1 /\ k <= taps /\ processed = 1 .. k
          /\ DOMAIN applied = 1 .. k /\ \A i \in DOMAIN applied : applied[i] = tapped[i]
          /\ \A t \in Students : state[t].status = display[k][t] /\ state[t].at <= k
          /\ \A i \in DOMAIN offline : offline[i] = tapped[g + i]
      BY <1>e, <2>1, <3>1 DEF IsFollowed, LinkTypes
    <3>3. \A i \in DOMAIN offline' : offline'[i] = tapped2[g + i]
      <4>1. \A i \in DOMAIN offline : g + i \in 1 .. taps
        BY <1>d, <1>e
      <4>2. \A i \in DOMAIN offline : offline'[i] = tapped2[g + i]
        BY <1>d, <2>4, <3>2, <4>1
      <4>3. offline'[Len(offline) + 1] = tapped2[g + (Len(offline) + 1)]
        <5>1. g + (Len(offline) + 1) = taps + 1
          BY <1>d, <1>e
        <5> QED
          BY <1>d, <2>4, <5>1
      <4>4. \A i \in DOMAIN offline' : i \in DOMAIN offline \/ i = Len(offline) + 1
        BY <1>d
      <4> QED
        BY <4>2, <4>3, <4>4
    <3>4. \A i \in DOMAIN applied : applied[i] = tapped2[i]
      BY <1>b, <2>4, <3>2
    <3>5. display2[k] = display[k]
      BY <1>b, <2>5, <3>2
    <3>6. \A i \in DOMAIN uplink :
            /\ uplink[i].mark.id <= g + 1 /\ uplink[i].mark.id <= taps + 1
            /\ uplink[i].mark = tapped2[uplink[i].mark.id]
      <4> SUFFICES ASSUME NEW i \in DOMAIN uplink
                   PROVE  /\ uplink[i].mark.id <= g + 1 /\ uplink[i].mark.id <= taps + 1
                          /\ uplink[i].mark = tapped2[uplink[i].mark.id]
        OBVIOUS
      <4>1. PICK n : n = uplink[i].mark.id
        OBVIOUS
      <4>2. n <= g + 1 /\ n <= taps /\ uplink[i].mark = tapped[n]
        BY <1>e, <2>1, <4>1 DEF IsFollowed
      <4>3. n \in 1 .. MaxTaps
        <5>1. uplink[i] \in Emissions
          BY DEF LinkTypes
        <5> QED
          BY <4>1, <5>1, MarkFields
      <4>4. n \in 1 .. taps
        BY <1>b, <4>2, <4>3, LinkAssumption
      <4> QED
        BY <1>b, <2>4, <4>1, <4>2, <4>4
    <3>7. \A i \in DOMAIN downlink : downlink[i].id <= k
      BY <2>1, <3>1 DEF IsFollowed
    <3>8. /\ state' = state /\ processed' = processed /\ applied' = applied
          /\ uplink' = uplink /\ downlink' = downlink
      BY <1>a DEF server
    <3> QED
      BY <1>a, <1>b, <1>f, <3>1, <3>2, <3>3, <3>4, <3>5, <3>6, <3>7, <3>8 DEF IsFollowed
  <2> QED
    BY <2>6, <2>7, <2>8, <2>9
<1> QED
  BY <1>1, <1>2, <1>3, <1>4

(* Whatever happens to the connection and to the server keeps it.             *)
LEMMA LossKeepsMarks ==
  ASSUME LinkInv, LinkUp \/ LinkBreaks \/ ServerCrash \/ UNCHANGED atVars PROVE LinkInv'
<1> USE DEF LinkInv
<1>1. /\ screen' = screen /\ offline' = offline /\ batch' = batch /\ awaited' = awaited
      /\ emissions' = emissions /\ taps' = taps /\ overdue' = overdue /\ applied' = applied
      /\ (UNCHANGED <<uplink, downlink>> \/ (uplink' = <<>> /\ downlink' = <<>>))
      /\ (UNCHANGED <<state, processed>> \/ (state' = [s \in Students |-> Unseen] /\ processed' = {}))
      /\ (UNCHANGED crashes \/ crashes' = crashes + 1)
      /\ crashes' \in 0 .. MaxCrashes /\ breaks' \in 0 .. MaxBreaks
  BY LinkAssumption, SMTT(40) DEF LinkUp, LinkBreaks, ServerCrash, Break, device, server, atVars, LinkTypes
<1>2. crashes' = crashes => UNCHANGED <<state, processed>>
  BY LinkAssumption DEF LinkUp, LinkBreaks, ServerCrash, Break, device, server, atVars, LinkTypes
<1>3. /\ uplink' \in Seq(Emissions) /\ downlink' \in Seq(Acks)
      /\ \A i \in DOMAIN uplink' : i \in DOMAIN uplink /\ uplink'[i] = uplink[i]
      /\ \A i \in DOMAIN downlink' : i \in DOMAIN downlink /\ downlink'[i] = downlink[i]
  <2>1. CASE UNCHANGED <<uplink, downlink>>
    BY <2>1 DEF LinkTypes
  <2>2. CASE uplink' = <<>> /\ downlink' = <<>>
    BY <2>2
  <2> QED
    BY <1>1, <2>1, <2>2
<1>4. state' \in [Students -> Standings] /\ processed' \subseteq 1 .. MaxTaps
  <2>1. Unseen \in Standings
    BY LinkAssumption DEF Unseen, Standings, Status
  <2> QED
    BY <1>1, <2>1 DEF LinkTypes
<1>5. LinkTypes'
  <2>1. \A i \in DOMAIN uplink' : uplink'[i].n \in 1 .. emissions'
    BY <1>1, <1>3 DEF LinkTypes
  <2>2. \A i \in DOMAIN downlink' : downlink'[i].n \in 1 .. emissions'
    BY <1>1, <1>3 DEF LinkTypes
  <2> QED
    BY <1>1, <1>3, <1>4, <2>1, <2>2 DEF LinkTypes
<1>6. QueueIsLast' /\ Gone' = Gone
  BY <1>1 DEF QueueIsLast, Gone
<1>7. LoopIsFirst'
  BY <1>1, <1>3 DEF LoopIsFirst
<1>8. StoryIsKept'
  <2>1. CASE crashes' = crashes
    <3>1. ASSUME NEW tapped \in Taken, NEW display \in Screenings, IsFollowed(tapped, display)
          PROVE  IsFollowed(tapped, display)'
      BY <1>1, <1>2, <1>3, <1>6, <2>1, <3>1 DEF IsFollowed
    <3> QED
      BY <1>1, <2>1, <3>1, StoryGoesOn
  <2>2. CASE crashes' = crashes + 1
    BY <2>2, LinkAssumption DEF StoryIsKept, LinkTypes
  <2> QED
    BY <1>1, <2>1, <2>2
<1> QED
  BY <1>5, <1>6, <1>7, <1>8

(* Every step of the device, the connection and the server keeps the invariant.    *)
LEMMA LinkStepHolds == LinkInv /\ [AtNext]_atVars => LinkInv'
<1> SUFFICES ASSUME LinkInv, [AtNext]_atVars PROVE LinkInv'
  OBVIOUS
<1>1. CASE \E s \in Students, side \in {"BOARDED", "ALIGHTED", "ABSENT"} : Tap(s, side)
  BY <1>1, TapKeepsMarks
<1>2. CASE StartFlush
  BY <1>2, FlushKeepsMarks
<1>3. CASE AckArrives
  BY <1>3, AckKeepsMarks
<1>4. CASE AckTimeout
  BY <1>4, TimeoutKeepsMarks
<1>5. CASE HandleMark
  BY <1>5, HandlingKeepsMarks
<1>6. CASE LinkUp \/ LinkBreaks \/ ServerCrash \/ UNCHANGED atVars
  BY <1>6, LossKeepsMarks
<1> QED
  BY <1>1, <1>2, <1>3, <1>4, <1>5, <1>6 DEF AtNext

(* LEMMA. Every state of the link satisfies the invariant.                    *)
LEMMA LinkInvariance == AtSpec => []LinkInv
<1>1. AtInit => LinkInv
  BY LinkInitHolds
<1>2. LinkInv /\ [AtNext]_atVars => LinkInv'
  BY LinkStepHolds
<1> QED
  BY <1>1, <1>2, PTL DEF AtSpec

(* THEOREM. What has left the queue has been applied once, and an empty queue      *)
(* means that the server has what the screen shows, for any number of students     *)
(* and taps and any lost connections, as long as the server is not restarted       *)
(* (useAttendanceSync.ts, attendance.handler.ts).                                  *)
THEOREM MarksAreKept == AtSpec => []MarksSurviveTheLink
<1>1. ASSUME LinkInv PROVE MarksSurviveTheLink
  <2> SUFFICES ASSUME crashes = 0
               PROVE  /\ \A n \in 1 .. taps :
                           (\A i \in DOMAIN offline : offline[i].id # n) =>
                             Cardinality({i \in DOMAIN applied : applied[i].id = n}) = 1
                      /\ offline = <<>> => \A s \in Students : state[s].status = screen[s]
    BY DEF MarksSurviveTheLink
  <2>1. PICK tapped \in Taken, display \in Screenings : IsStory(tapped, display) /\ IsFollowed(tapped, display)
    BY <1>1 DEF LinkInv, StoryIsKept
  <2>2. PICK g \in Nat : g = Gone /\ \A i \in DOMAIN offline : offline[i].id = g + i
    BY <1>1 DEF LinkInv, QueueIsLast
  <2>3. /\ taps \in Nat /\ Len(offline) \in Nat /\ DOMAIN offline = 1 .. Len(offline)
        /\ g + Len(offline) = taps
    BY <1>1, <2>2, LinkAssumption DEF LinkInv, LinkTypes, Gone
  <2>4. PICK k \in Nat : /\ k = Len(applied) /\ k \in g .. g + 1 /\ k <= taps
                         /\ DOMAIN applied = 1 .. k
    BY <1>1, <2>1, <2>2 DEF LinkInv, LinkTypes, IsFollowed
  <2>5. \A i \in 1 .. k : applied[i].id = i
    <3>1. \A i \in 1 .. k : applied[i] = tapped[i] /\ i \in 1 .. taps
      BY <2>1, <2>3, <2>4 DEF IsFollowed
    <3>2. \A i \in 1 .. taps : tapped[i].id = i
      BY <2>1 DEF IsStory
    <3> QED
      BY <3>1, <3>2
  <2>6. ASSUME NEW n \in 1 .. taps, \A i \in DOMAIN offline : offline[i].id # n
        PROVE  Cardinality({i \in DOMAIN applied : applied[i].id = n}) = 1
    <3>1. n <= g
      <4>1. ASSUME n > g PROVE FALSE
        <5>1. n - g \in DOMAIN offline /\ g + (n - g) = n
          BY <2>3, <4>1
        <5> QED
          BY <2>2, <2>6, <5>1
      <4> QED
        BY <4>1, <2>3
    <3>2. {i \in DOMAIN applied : applied[i].id = n} = {n}
      BY <2>4, <2>5, <3>1
    <3> QED
      BY <3>2, FS_Singleton
  <2>7. ASSUME offline = <<>>, NEW s \in Students PROVE state[s].status = screen[s]
    <3>1. k = taps
      BY <2>3, <2>4, <2>7
    <3> QED
      BY <2>1, <2>4, <3>1 DEF IsStory, IsFollowed
  <2> QED
    BY <2>6, <2>7
<1> QED
  BY <1>1, LinkInvariance, PTL

--------------------------------------------------------------------------------
(* RollCall. The queue without its first mark, if that is on the roll already,    *)
(* is what the roll call has yet to enter; a tap is a Mark, what the server takes *)
(* is an Enter, and all else that the loop and the connection do is a stutter.    *)

(* While the server remembers: what it has applied, and the queue's numbers.  *)
LEMMA QueueAndRoll ==
  ASSUME LinkInv, crashes = 0
  PROVE  \E g \in Nat, k \in Nat :
           /\ g = Gone /\ k = Len(applied) /\ k \in g .. g + 1 /\ k <= taps /\ processed = 1 .. k
           /\ taps = g + Len(offline)
           /\ \A i \in DOMAIN offline : offline[i].id = g + i
<1>1. PICK tapped \in Taken, display \in Screenings : IsStory(tapped, display) /\ IsFollowed(tapped, display)
  BY DEF LinkInv, StoryIsKept
<1>2. PICK g \in Nat : g = Gone /\ \A i \in DOMAIN offline : offline[i].id = g + i
  BY DEF LinkInv, QueueIsLast
<1>3. taps \in Nat /\ Len(offline) \in Nat
  BY LinkAssumption DEF LinkInv, LinkTypes
<1>4. PICK k \in Nat : k = Len(applied) /\ k \in g .. g + 1 /\ k <= taps /\ processed = 1 .. k
  BY <1>1, <1>2 DEF LinkInv, LinkTypes, IsFollowed
<1>5. taps = g + Len(offline)
  BY <1>2, <1>3 DEF Gone
<1> QED
  BY <1>2, <1>4, <1>5

(* The tail of a longer sequence.                                             *)
LEMMA TailOfLonger ==
  ASSUME NEW S, NEW s \in Seq(S), NEW x \in S, s # <<>>
  PROVE  Tail(Append(s, x)) = Append(Tail(s), x) /\ Head(Append(s, x)) = Head(s) /\ Append(s, x) # <<>>
OBVIOUS

(* What has none of the roll call's parts in it leaves it alone.              *)
LEMMA RollStands ==
  ASSUME UNCHANGED <<taps, screen, offline, state, processed, crashes>>
  PROVE  UNCHANGED RollCall!rollVars
BY DEF RollCall!rollVars, Due, Roll, Kept

(* A button of a toggle is a step of the roll call.                           *)
LEMMA OfferedLeads ==
  ASSUME NEW old, NEW new \in Offered(old) PROVE RollCall!Leads(old, new)
BY DEF Offered, RollCall!Leads

(* A tap is a mark of the roll call.                                          *)
LEMMA TapIsMark ==
  ASSUME LinkInv, NEW s \in Students, NEW side \in {"BOARDED", "ALIGHTED", "ABSENT"}, Tap(s, side)
  PROVE  RollCall!Mark(s, side)
<1>1. PICK new : new = [id |-> taps + 1, student |-> s, status |-> side]
  OBVIOUS
<1>2. /\ taps < MaxTaps /\ taps' = taps + 1 /\ side \in Offered(screen[s])
      /\ screen' = [screen EXCEPT ![s] = side] /\ offline' = Append(offline, new)
      /\ state' = state /\ processed' = processed /\ crashes' = crashes
  BY <1>1 DEF Tap, server
<1>3. new \in Marks /\ new.id = taps + 1 /\ taps \in Nat /\ offline \in Seq(Marks)
  BY <1>1, <1>2, LinkAssumption DEF LinkInv, LinkTypes, Marks, Status
<1>4. Roll' = Roll /\ Kept' = Kept
  BY <1>2 DEF Roll, Kept
<1>5. CASE Kept
  <2>1. new.id \notin processed
    <3>1. PICK k \in Nat : k <= taps /\ processed = 1 .. k
      BY <1>5, QueueAndRoll DEF Kept
    <3> QED
      BY <1>3, <3>1
  <2>2. Due' = Append(Due, new)
    <3>1. CASE offline = <<>>
      <4>1. offline' = <<new>> /\ Head(offline') = new /\ Append(<<>>, new) = <<new>>
        BY <1>2, <3>1
      <4>2. Due = <<>> /\ Due' = offline'
        BY <1>2, <1>4, <1>5, <2>1, <3>1, <4>1 DEF Due
      <4> QED
        BY <4>1, <4>2
    <3>2. CASE offline # <<>>
      <4>1. /\ Tail(offline') = Append(Tail(offline), new) /\ Head(offline') = Head(offline)
            /\ offline' # <<>>
        BY <1>2, <1>3, <3>2, TailOfLonger
      <4> QED
        BY <1>2, <1>4, <1>5, <3>2, <4>1 DEF Due
    <3> QED
      BY <3>1, <3>2
  <2> QED
    BY <1>1, <1>2, <1>4, <1>5, <2>2, OfferedLeads DEF RollCall!Mark
<1>6. CASE ~Kept
  <2>1. Due' = Due
    BY <1>4, <1>6 DEF Due
  <2> QED
    BY <1>2, <1>4, <1>6, <2>1, OfferedLeads DEF RollCall!Mark
<1> QED
  BY <1>5, <1>6

(* An acknowledgement ends the wait of a mark that the roll has already.      *)
LEMMA AckIsNoMark ==
  ASSUME LinkInv, AckArrives
  PROVE  UNCHANGED RollCall!rollVars
<1>1. UNCHANGED <<taps, screen, state, processed, crashes>>
  BY DEF AckArrives, server
<1>2. CASE Head(downlink).n # awaited
  <2>1. offline' = offline
    BY <1>2 DEF AckArrives
  <2> QED
    BY <1>1, <2>1, RollStands
<1>3. CASE Head(downlink).n = awaited
  <2>1. /\ offline # <<>> /\ downlink[1].id = offline[1].id /\ 1 \in DOMAIN downlink
        /\ offline' = Tail(offline)
    BY <1>3, AnswerIsAboutFirst DEF LinkInv
  <2>2. Roll' = Roll /\ Kept' = Kept
    BY <1>1 DEF Roll, Kept
  <2>3. CASE ~Kept
    BY <1>1, <2>2, <2>3 DEF RollCall!rollVars, Due
  <2>4. CASE Kept
    <3>1. PICK g \in Nat, k \in Nat :
            /\ k = Len(applied) /\ k \in g .. g + 1 /\ processed = 1 .. k
            /\ \A i \in DOMAIN offline : offline[i].id = g + i
      BY <2>4, QueueAndRoll DEF Kept
    <3>2. /\ DOMAIN offline = 1 .. Len(offline) /\ Len(offline) \in Nat \ {0} /\ Head(offline) = offline[1]
          /\ offline' \in Seq(Marks) /\ Len(offline') = Len(offline) - 1
          /\ \A i \in 1 .. Len(offline) - 1 : offline'[i] = offline[i + 1]
      BY <2>1, TailIsShifted DEF LinkInv, LinkTypes
    <3>3. downlink[1].id <= k
      <4>1. PICK tapped \in Taken, display \in Screenings : IsFollowed(tapped, display)
        BY <2>4 DEF LinkInv, StoryIsKept, Kept
      <4> QED
        BY <2>1, <3>1, <4>1 DEF IsFollowed
    <3>4. Head(offline).id \in processed
      BY <2>1, <3>1, <3>2, <3>3
    <3>5. Due = Tail(offline)
      BY <2>1, <2>4, <3>4 DEF Due
    <3>6. offline' # <<>> => Head(offline').id \notin processed
      <4> SUFFICES ASSUME offline' # <<>> PROVE Head(offline').id \notin processed
        OBVIOUS
      <4>1. Len(offline) - 1 \in Nat \ {0} /\ Head(offline') = offline'[1]
        BY <3>2, TailIsShifted
      <4>2. Head(offline') = offline[2] /\ 2 \in DOMAIN offline
        BY <3>2, <4>1
      <4>3. Head(offline').id = g + 2
        BY <3>1, <4>2
      <4> QED
        BY <3>1, <4>3
    <3>7. Due' = offline'
      BY <1>1, <2>2, <2>4, <3>6 DEF Due
    <3> QED
      BY <1>1, <2>1, <2>2, <3>5, <3>7 DEF RollCall!rollVars
  <2> QED
    BY <2>3, <2>4
<1> QED
  BY <1>2, <1>3

(* A restart of the server is one of the roll call.                           *)
LEMMA CrashIsRestart ==
  ASSUME LinkInv, ServerCrash
  PROVE  RollCall!Restart
<1>1. crashes' = crashes + 1 /\ crashes \in Nat /\ UNCHANGED <<taps, screen>>
  BY LinkAssumption DEF ServerCrash, LinkInv, LinkTypes, device
<1>2. crashes' # 0
  BY <1>1
<1>3. Kept' = FALSE
  BY <1>2, Zenon DEF Kept
<1>4. Due' = <<>>
  BY <1>2 DEF Due, Kept
<1>5. Roll' = [s \in Students |-> "PENDING"]
  BY <1>2 DEF Roll, Kept
<1> QED
  BY <1>1, <1>3, <1>4, <1>5 DEF RollCall!Restart, RollCall!Blank

(* What the server takes is the first that was due; the rest it had already.  *)
LEMMA HandlingEnters ==
  ASSUME LinkInv, HandleMark
  PROVE  RollCall!Enter \/ UNCHANGED RollCall!rollVars
<1> DEFINE m == Head(uplink).mark
           takes == m.id \notin processed /\ Acceptable(m)
<1>1. /\ uplink # <<>> /\ UNCHANGED <<taps, screen, offline, crashes>>
      /\ IF takes
         THEN /\ state' = [state EXCEPT ![m.student] = [status |-> m.status, at |-> m.id]]
              /\ processed' = processed \cup {m.id}
         ELSE state' = state /\ processed' = processed
  BY DEF HandleMark, server, device
<1>2. Kept' = Kept
  BY <1>1 DEF Kept
<1>3. CASE ~takes
  BY <1>1, <1>3, RollStands
<1>4. CASE ~Kept
  <2>1. Due' = Due /\ Roll' = Roll
    BY <1>2, <1>4 DEF Due, Roll
  <2> QED
    BY <1>1, <1>2, <2>1 DEF RollCall!rollVars
<1>5. CASE takes /\ Kept
  <2>1. PICK tapped \in Taken, display \in Screenings : IsStory(tapped, display) /\ IsFollowed(tapped, display)
    BY <1>5 DEF LinkInv, StoryIsKept, Kept
  <2>2. PICK g \in Nat, k \in Nat :
           /\ g = Gone /\ k = Len(applied) /\ k \in g .. g + 1 /\ k <= taps /\ processed = 1 .. k
           /\ taps = g + Len(offline)
           /\ \A i \in DOMAIN offline : offline[i].id = g + i
    BY <1>5, QueueAndRoll DEF Kept
  <2>3. 1 \in DOMAIN uplink /\ m = uplink[1].mark /\ m \in Marks
    <3>1. uplink \in Seq(Emissions)
      BY DEF LinkInv, LinkTypes
    <3> QED
      BY <1>1, <3>1, TailIsShifted, MarkFields
  <2>4. m.id \in Nat \ {0} /\ m.student \in Students
    BY <2>3, MarkFields, LinkAssumption
  <2>5. m.id <= g + 1 /\ m.id <= taps /\ m = tapped[m.id]
    BY <2>1, <2>2, <2>3 DEF IsFollowed
  <2> HIDE DEF m
  <2>6. m.id = g + 1 /\ k = g /\ taps \in Nat /\ g + 1 \in 1 .. taps
    BY <1>5, <2>2, <2>4, <2>5, LinkAssumption DEF LinkInv, LinkTypes
  <2>7. offline # <<>> /\ Head(offline) = m /\ Head(offline).id \notin processed
    <3>1. Len(offline) \in Nat \ {0} /\ DOMAIN offline = 1 .. Len(offline) /\ offline \in Seq(Marks)
      BY <2>2, <2>6 DEF LinkInv, LinkTypes
    <3>2. offline # <<>> /\ Head(offline) = offline[1]
      BY <3>1
    <3>3. offline[1] = tapped[g + 1]
      BY <2>1, <2>2, <3>1 DEF IsFollowed
    <3> QED
      BY <1>5, <2>5, <2>6, <3>2, <3>3
  <2>8. Due = offline
    BY <1>5, <2>7 DEF Due
  <2>9. Due' = Tail(offline)
    BY <1>1, <1>2, <1>5, <2>7 DEF Due
  <2>10. Roll' = [Roll EXCEPT ![m.student] = m.status]
    <3>1. state \in [Students -> Standings]
      BY DEF LinkInv, LinkTypes
    <3>2. \A s \in Students : state'[s].status = IF s = m.student THEN m.status ELSE state[s].status
      BY <1>1, <1>5, <3>1
    <3> QED
      BY <1>2, <1>5, <2>4, <3>2 DEF Roll
  <2>11. RollCall!Leads(Roll[m.student], m.status)
    <3>1. m.status \in Offered(display[(g + 1) - 1][m.student])
      BY <2>1, <2>5, <2>6 DEF IsStory
    <3>2. Roll[m.student] = display[g][m.student]
      BY <1>5, <2>1, <2>2, <2>4, <2>6 DEF Roll, IsFollowed
    <3> QED
      BY <3>1, <3>2, OfferedLeads
  <2> QED
    BY <1>1, <1>2, <1>5, <2>7, <2>8, <2>9, <2>10, <2>11 DEF RollCall!Enter
<1> QED
  BY <1>3, <1>4, <1>5

(* THEOREM. The queue, the flush loop and the connection implement the roll       *)
(* call: until the server restarts, the taps of any students get onto its roll    *)
(* once each and in their order, whatever is lost, repeated or late               *)
(* (attendance.handler.ts, useAttendanceSync.ts, useAttendanceStore.ts).          *)
THEOREM ImplementsRoll == AtSpec => ImplementsRollCall
<1>1. AtInit => RollCall!Init
  BY DEF AtInit, RollCall!Init, RollCall!Blank, Due, Roll, Kept, Unseen
<1>2. LinkInv /\ [AtNext]_atVars => [RollCall!Next]_(RollCall!rollVars)
  <2> SUFFICES ASSUME LinkInv, [AtNext]_atVars
               PROVE  RollCall!Next \/ UNCHANGED RollCall!rollVars
    OBVIOUS
  <2>1. ASSUME NEW s \in Students, NEW side \in {"BOARDED", "ALIGHTED", "ABSENT"}, Tap(s, side)
        PROVE  RollCall!Next
    BY <2>1, TapIsMark DEF RollCall!Next
  <2>2. CASE StartFlush \/ AckTimeout \/ LinkUp \/ LinkBreaks \/ UNCHANGED atVars
    BY <2>2, RollStands DEF StartFlush, AckTimeout, LinkUp, LinkBreaks, atVars, device, server
  <2>3. CASE AckArrives
    BY <2>3, AckIsNoMark
  <2>4. CASE ServerCrash
    BY <2>4, CrashIsRestart DEF RollCall!Next
  <2>5. CASE HandleMark
    BY <2>5, HandlingEnters DEF RollCall!Next
  <2> QED
    BY <2>1, <2>2, <2>3, <2>4, <2>5 DEF AtNext
<1> QED
  BY <1>1, <1>2, LinkInvariance, PTL DEF AtSpec, ImplementsRollCall, RollCall!Spec

--------------------------------------------------------------------------------
(* The connection is there or not.                                                 *)
LEMMA WiredIsKept == wired \in BOOLEAN /\ [AtNext]_atVars => (wired \in BOOLEAN)'
  BY Zenon DEF AtNext, Tap, StartFlush, AckArrives, AckTimeout, LinkUp, LinkBreaks, ServerCrash,
    HandleMark, Break, atVars

(* The invariant gives the types.                                                  *)
LEMMA LinkIsTyped == ASSUME LinkTypes, wired \in BOOLEAN PROVE AtTypeOK
<1>1. uplink \in Seq([mark : Marks, n : 1 .. emissions])
  <2>1. \A i \in DOMAIN uplink : uplink[i] \in Emissions /\ uplink[i].n \in 1 .. emissions
    BY DEF LinkTypes
  <2>2. \A i \in DOMAIN uplink : uplink[i] \in [mark : Marks, n : 1 .. emissions]
    BY <2>1 DEF Emissions
  <2> QED
    BY <2>2, SmallerElements DEF LinkTypes
<1>2. downlink \in Seq([id : 1 .. MaxTaps, ok : BOOLEAN, n : 1 .. emissions])
  <2>1. \A i \in DOMAIN downlink : downlink[i] \in Acks /\ downlink[i].n \in 1 .. emissions
    BY DEF LinkTypes
  <2>2. \A i \in DOMAIN downlink : downlink[i] \in [id : 1 .. MaxTaps, ok : BOOLEAN, n : 1 .. emissions]
    BY <2>1 DEF Acks
  <2> QED
    BY <2>2, SmallerElements DEF LinkTypes
<1> QED
  BY <1>1, <1>2 DEF LinkTypes, AtTypeOK, Standings

(* THEOREM. The types of the link, for any number of students and taps: the        *)
(* loop's copy is empty exactly when nothing is awaited.                           *)
THEOREM LinkTypesHold == AtSpec => []AtTypeOK
<1>1. AtInit => wired \in BOOLEAN
  BY DEF AtInit
<1>2. LinkInv => LinkTypes
  BY DEF LinkInv
<1>3. LinkTypes /\ wired \in BOOLEAN => AtTypeOK
  BY LinkIsTyped
<1> QED
  BY <1>1, <1>2, <1>3, WiredIsKept, LinkInvariance, PTL DEF AtSpec

--------------------------------------------------------------------------------
(* BrowserSession. Where the guards and links lead is always a page of the        *)
(* router; what a redirect remembers of where the user was is a page that needs   *)
(* a session.                                                                     *)

Pages == PublicPages \cup Protected \cup OpenPages

(* The portals are pages.                                                         *)
LEMMA RoutesArePages == ASSUME NEW role PROVE DefaultRoute(role) \in Pages
<1>1. DefaultRoute(role) \in {"/admin", "/driver", "/parent", "/student", "/login"}
  BY DEF DefaultRoute
<1> QED
  BY <1>1 DEF Pages, PublicPages, Protected, AdminPages, DriverPages, ParentPages, OpenPages

(* A redirect ends on a page, and one that finds nobody signed in comes from a    *)
(* page that needs a session.                                                     *)
LEMMA TargetsArePages ==
  ASSUME BsTypeOK
  PROVE  Target(path) \in Pages /\ (user = NoUser /\ ~Open(path) => path \in Protected)
<1>1. from # "none" => from \in Pages
  BY DEF BsTypeOK, Pages
<1>2. {"/login", "/forbidden"} \subseteq Pages
  BY DEF Pages, PublicPages, OpenPages
<1>3. \/ Target(path) \in {DefaultRoute(user), "/login", "/forbidden"}
      \/ from # "none" /\ Target(path) = from
  BY DEF Target
<1>4. ASSUME user = NoUser, ~Open(path) PROVE path \in Protected
  BY <1>4 DEF Open, BsTypeOK
<1> QED
  BY <1>1, <1>2, <1>3, <1>4, RoutesArePages

(* Every step of the tab keeps the types.                                         *)
LEMMA SessionStepHolds == ASSUME BsTypeOK, [BsNext]_bsVars PROVE BsTypeOK'
<1> USE DEF BsTypeOK
<1>1. ASSUME NEW p \in Pages, Reload(p) PROVE BsTypeOK'
  BY <1>1 DEF Reload, Quiet, Pages
<1>2. ASSUME NEW p \in Pages, Follow(p) PROVE BsTypeOK'
  BY <1>2 DEF Follow, calls, Pages
<1>3. CASE Hydrate
  BY <1>3 DEF Hydrate, place, calls
<1>4. CASE Redirect
  BY <1>4, TargetsArePages DEF Redirect, calls, Pages
<1>5. CASE Submit \/ LoginFails
  BY <1>5 DEF Submit, LoginFails, place, calls
<1>6. ASSUME NEW role \in Roles, LoginSucceeds(role) PROVE BsTypeOK'
  BY <1>6, RoutesArePages DEF LoginSucceeds, place, calls, Pages
<1>7. CASE Logout
  BY <1>7 DEF Logout, ClearAuth, calls, PublicPages
<1>8. ASSUME LoginAnew PROVE BsTypeOK'
  BY <1>8 DEF LoginAnew, Quiet, PublicPages
<1>9. CASE LogoutPage
  BY <1>8, <1>9 DEF LogoutPage, ClearAuth, calls, PublicPages
<1>10. ASSUME NEW c \in Calls, Send(c) \/ Unauthorised(c) \/ CallFails(c) \/ Forgotten(c)
       PROVE  BsTypeOK'
  BY <1>10 DEF Send, Unauthorised, CallFails, Forgotten, place
<1>11. CASE RefreshFails
  BY <1>8, <1>11 DEF RefreshFails, RejectQueue, ClearAuth, place
<1>12. CASE UNCHANGED bsVars
  BY <1>12 DEF bsVars, place, calls
<1> QED
  BY <1>1, <1>2, <1>3, <1>4, <1>5, <1>6, <1>7, <1>9, <1>10, <1>11, <1>12 DEF BsNext, Pages

--------------------------------------------------------------------------------
(* All five components side by side.                                              *)
RealtimeInv ==
  /\ GatewayInv /\ ClientInv /\ LinkInv /\ wired \in BOOLEAN /\ BsTypeOK /\ ScreenInv

(* A step of the whole is a step of one component, or none, for each of them.     *)
LEMMA EachPartSteps ==
  ASSUME [Next]_allVars
  PROVE  /\ [GwNext]_gwVars /\ [ClNext]_clVars /\ [AtNext]_atVars /\ [BsNext]_bsVars
         /\ [ScNext]_scVars
  BY DEF Next, allVars

(* THEOREM. The types of the five components hold wherever they run side by side: *)
(* the pages, queues, marks, sockets and cached views keep to what their          *)
(* variables range over (frontend/src, src/sockets).                              *)
THEOREM RealtimeTypesHold == Spec => []TypeOK
<1>1. Init => RealtimeInv
  <2>1. BsInit => BsTypeOK
    BY DEF BsInit, BsTypeOK, PublicPages
  <2>2. AtInit => wired \in BOOLEAN
    BY DEF AtInit
  <2> QED
    BY <2>1, <2>2, GatewayInitHolds, ClientInitHolds, LinkInitHolds, ScreenInitHolds
    DEF Init, RealtimeInv
<1>2. RealtimeInv /\ [Next]_allVars => RealtimeInv'
  BY EachPartSteps, GatewayStepHolds, ClientStepHolds, LinkStepHolds, WiredIsKept,
    SessionStepHolds, ScreenStepHolds
  DEF RealtimeInv
<1>3. RealtimeInv => TypeOK
  <2> SUFFICES ASSUME RealtimeInv PROVE TypeOK
    OBVIOUS
  <2>1. GwTypeOK /\ ClTypeOK /\ BsTypeOK
    BY DEF RealtimeInv, GatewayInv, ClientInv
  <2>2. AtTypeOK
    BY LinkIsTyped DEF RealtimeInv, LinkInv
  <2>3. ScTypeOK
    BY ScreenAssumption DEF RealtimeInv, ScreenInv, ScreenTypes, ScTypeOK, None, Idle, Cells, Mine
  <2> QED
    BY <2>1, <2>2, <2>3 DEF TypeOK
<1> QED
  BY <1>1, <1>2, <1>3, PTL DEF Spec
================================================================================
