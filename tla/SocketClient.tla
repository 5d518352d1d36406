-------------------------------- MODULE SocketClient --------------------------------
(* The browser's side of a Socket.IO connection: the singleton socketClient, its *)
(* offline queue, the status it keeps in useSocketStore, and SocketProvider,     *)
(* which connects and disconnects it as the user signs in and out. The access    *)
(* token is read from local storage when the provider connects; the apiClient    *)
(* replaces it there when it refreshes, and it expires on the server's clock.    *)
EXTENDS Naturals, Sequences, SequencesExt

CONSTANTS
  QueueCap,     \* 100 in the code
  MaxEmits,     \* BOUND: events the application emits
  MaxTokens,    \* BOUND: access tokens issued
  MaxDrops      \* BOUND: connections the network takes down

(* The queue holds something, and the bounds are numbers.                       *)
ASSUME ClientAssumption ==
  QueueCap \in Nat \ {0} /\ MaxEmits \in Nat /\ MaxTokens \in Nat /\ MaxDrops \in Nat

VARIABLES
  signedIn,    \* isAuthenticated of useAuthStore
  signIns,     \* sign-ins so far
  stored,      \* the access token in local storage; tokens are numbered
  expired,     \* tokens up to this number have expired
  link,        \* the Socket: "none", "trying", "up", "dead" (up, but the network is
               \* gone and nobody has noticed) or "off" (its disconnect() was called)
  token,       \* the token the Socket was made with
  status,      \* useSocketStore.status
  queue,       \* offlineQueue
  emitted,     \* events emitted so far
  received,    \* events the server got, with the sign-in whose connection they came on
  drops        \* connections lost so far

app == <<signedIn, signIns, stored, expired>>
traffic == <<queue, emitted, received>>
clVars == <<signedIn, signIns, stored, expired, link, token, status,
            queue, emitted, received, drops>>

ClInit ==
  /\ signedIn = FALSE /\ signIns = 0 /\ stored = 0 /\ expired = 0
  /\ link = "none" /\ token = 0 /\ status = "DISCONNECTED"
  /\ queue = <<>> /\ emitted = 0 /\ received = <<>> /\ drops = 0

-----------------------------------------------------------------------------------
(* SocketProvider's effect: connect(token) with the token of the sign-in.       *)
SignIn ==
  /\ ~signedIn /\ stored < MaxTokens
  /\ signedIn' = TRUE /\ signIns' = signIns + 1
  /\ stored' = stored + 1 /\ token' = stored + 1
  /\ link' = "trying" /\ status' = "CONNECTING"
  /\ UNCHANGED <<expired, traffic, drops>>

(* MUTANT of Forget: disconnect() leaves the offline queue alone.               *)
ForgetNothing == UNCHANGED queue

Forget == queue' = <<>>

(* SocketProvider's effect: disconnect().                                       *)
SignOut ==
  /\ signedIn
  /\ signedIn' = FALSE
  /\ link' = "none" /\ token' = 0 /\ status' = "DISCONNECTED"
  /\ Forget
  /\ UNCHANGED <<signIns, stored, expired, emitted, received, drops>>

(* The apiClient replaces the tokens in local storage: isAuthenticated stays,   *)
(* so the provider's effect does not run again.                                 *)
Refresh ==
  /\ signedIn /\ stored < MaxTokens
  /\ stored' = stored + 1
  /\ UNCHANGED <<signedIn, signIns, expired, link, token, status, traffic, drops>>

Expire ==
  /\ expired < stored
  /\ expired' = expired + 1
  /\ UNCHANGED <<signedIn, signIns, stored, link, token, status, traffic, drops>>

-----------------------------------------------------------------------------------
Deliver(events) ==
  received' = received \o [i \in DOMAIN events |->
                             [n |-> events[i].n, by |-> events[i].by, on |-> signIns]]

(* MUTANT of Flush: the queue goes out newest first.                            *)
FlushReversed == Deliver(Reverse(queue)) /\ queue' = <<>>

Flush == Deliver(queue) /\ queue' = <<>>

(* 'connect': socketAuthMiddleware has accepted the token.                      *)
Accepted ==
  /\ link = "trying" /\ token > expired
  /\ link' = "up" /\ status' = "CONNECTED"
  /\ Flush
  /\ UNCHANGED <<app, token, emitted, drops>>

(* MUTANT of Refused: the next attempt is left to the library.                  *)
RefusedRetrying ==
  /\ link = "trying" /\ token <= expired
  /\ status' = "RECONNECTING"
  /\ UNCHANGED <<app, link, token, traffic, drops>>

(* 'connect_error' with an authentication error.                                *)
Refused ==
  /\ link = "trying" /\ token <= expired
  /\ link' = "off" /\ status' = "AUTH_FAILED"
  /\ UNCHANGED <<app, token, traffic, drops>>

(* 'connect_error' for any other reason: the library tries again.               *)
Unreachable ==
  /\ link = "trying" /\ status = "CONNECTING"
  /\ status' = "RECONNECTING"
  /\ UNCHANGED <<app, link, token, traffic, drops>>

NetworkLost ==
  /\ link = "up" /\ drops < MaxDrops
  /\ link' = "dead" /\ drops' = drops + 1
  /\ UNCHANGED <<app, token, status, traffic>>

(* 'disconnect' for a reason other than the server's: the library reconnects,   *)
(* with the token the Socket was made with.                                     *)
Dropped ==
  /\ link = "dead"
  /\ link' = "trying" /\ status' = "RECONNECTING"
  /\ UNCHANGED <<app, token, traffic, drops>>

-----------------------------------------------------------------------------------
Event == [n |-> emitted + 1, by |-> IF signedIn THEN signIns ELSE 0]

Enqueue(e) ==
  queue' = IF Len(queue) = QueueCap THEN Append(Tail(queue), e) ELSE Append(queue, e)

(* emit, online: what is sent into a dead connection is lost.                   *)
EmitNow ==
  /\ link \in {"up", "dead"} /\ emitted < MaxEmits
  /\ IF link = "up" THEN Deliver(<<Event>>) ELSE UNCHANGED received
  /\ emitted' = emitted + 1
  /\ UNCHANGED <<app, link, token, status, queue, drops>>

EmitLater ==
  /\ link \notin {"up", "dead"} /\ emitted < MaxEmits
  /\ Enqueue(Event)
  /\ emitted' = emitted + 1
  /\ UNCHANGED <<app, link, token, status, received, drops>>

ClNext ==
  \/ SignIn \/ SignOut \/ Refresh \/ Expire
  \/ Accepted \/ Refused \/ Unreachable \/ NetworkLost \/ Dropped
  \/ EmitNow \/ EmitLater

(* The library goes on trying until an attempt is answered, and notices a dead  *)
(* connection by its heartbeat.                                                 *)
ClFairness == WF_clVars(Accepted) /\ WF_clVars(Refused) /\ WF_clVars(Dropped)
ClSpec == ClInit /\ [][ClNext]_clVars /\ ClFairness

-----------------------------------------------------------------------------------
Events == [n : 1 .. MaxEmits, by : 0 .. MaxTokens]
Receipts == [n : 1 .. MaxEmits, by : 0 .. MaxTokens, on : 1 .. MaxTokens]

(* TYPE. What every variable ranges over.                                       *)
ClTypeOK ==
  /\ signedIn \in BOOLEAN /\ signIns \in 0 .. MaxTokens
  /\ stored \in 0 .. MaxTokens /\ expired \in 0 .. MaxTokens /\ token \in 0 .. MaxTokens
  /\ link \in {"none", "trying", "up", "dead", "off"}
  /\ status \in {"DISCONNECTED", "CONNECTING", "CONNECTED", "RECONNECTING", "AUTH_FAILED"}
  /\ queue \in Seq(Events) /\ Len(queue) <= QueueCap
  /\ emitted \in 0 .. MaxEmits
  /\ received \in Seq(Receipts)
  /\ drops \in 0 .. MaxDrops

Numbers(s) == [i \in DOMAIN s |-> s[i].n]
Increasing(s) == \A i, j \in DOMAIN s : i < j => s[i] < s[j]

(* SAFETY. The server gets events in the order they were emitted, none twice,   *)
(* and every queued one is newer: the direct path never overtakes the queue.    *)
ReceivedInOrder == Increasing(Numbers(received) \o Numbers(queue))

(* SAFETY. An event of one sign-in never reaches the server on another's        *)
(* connection, however long the client was offline in between.                  *)
SignOutForgets ==
  \A i \in DOMAIN received : received[i].by # 0 => received[i].by = received[i].on

(* LIVENESS. An attempt to connect ends: the status does not stay CONNECTING or *)
(* RECONNECTING while the server can be reached.                                *)
AttemptsEnd ==
  status \in {"CONNECTING", "RECONNECTING"} ~> status \notin {"CONNECTING", "RECONNECTING"}
===================================================================================
