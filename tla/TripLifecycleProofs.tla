-------------------------- MODULE TripLifecycleProofs --------------------------
(* Proofs about TripLifecycle, for every set of trips, drivers, vehicles,      *)
(* schedules and request handlers.                                             *)
EXTENDS TripLifecycle, TLAPS

(* Facts about the transition table.                                           *)
LEMMA LaterFacts ==
  /\ \A s \in TripStatus : /\ s \in Later[s]
                           /\ Later[s] \subseteq TripStatus
                           /\ TRIP_TRANSITIONS[s] \subseteq TripStatus
                           /\ TRIP_TRANSITIONS[s] \subseteq Later[s]
  /\ \A s \in TripStatus : \A u \in Later[s] : Later[u] \subseteq Later[s]
  /\ "SCHEDULED" \notin Later["STARTED"]
  /\ \A s \in TripStatus : "SCHEDULED" \in Later[s] => s = "SCHEDULED"
  /\ Later["CANCELLED"] = {"CANCELLED"}
  /\ "ABSENT" \notin TripStatus
BY DEF Later, TripStatus, TRIP_TRANSITIONS

-------------------------------------------------------------------------------
(* The type invariant: no handler writes a value its column cannot hold.       *)
LEMMA ProceedTyped ==
  ASSUME TypeOK, NEW r \in Requests, NEW t \in Trips, NEW target \in TripStatus,
         NEW op \in {"start", "change"}, Proceed(r, op, t, target)
  PROVE  call' \in [Requests -> Calls] /\ pc' \in [Requests -> {"idle", "vehicle",
           "schedule", "create", "update", "reread", "publish"}]
BY DEF TypeOK, Proceed, Handling, Calls, RowStatus

(* A handler that ends leaves its local variables typed.                       *)
LEMMA FinishTyped ==
  ASSUME TypeOK, NEW r \in Requests, Finish(r)
  PROVE  call' \in [Requests -> Calls] /\ pc' \in [Requests -> {"idle", "vehicle",
           "schedule", "create", "update", "reread", "publish"}]
BY DEF TypeOK, Finish, NoCall, Handling, Calls, RowStatus

(* A handler past its read works on an existing trip and on real statuses.     *)
InCall(r) == pc[r] \in {"update", "reread", "publish"}
CallsOK ==
  \A r \in Requests : InCall(r) =>
    /\ call[r].trip \in Trips
    /\ call[r].seen \in TripStatus
    /\ call[r].target \in TripStatus
    /\ status[call[r].trip] \in TripStatus

(* No handler of any request ever writes a value its column cannot hold.       *)
THEOREM TypeCorrect == Spec => [](TypeOK /\ CallsOK)
<1>1. Init => TypeOK /\ CallsOK
  BY MaxDayAssumption DEF Init, TypeOK, CallsOK, InCall, RowStatus, Calls, NoCall,
     Handling, Days, TripStatus
<1>2. TypeOK /\ CallsOK /\ [Next]_vars => TypeOK' /\ CallsOK'
  <2> SUFFICES ASSUME TypeOK, CallsOK, [Next]_vars
               PROVE  TypeOK' /\ CallsOK'
    OBVIOUS
  <2>1. CASE UNCHANGED vars
    BY <2>1 DEF vars, assignment, TypeOK, CallsOK, InCall
  <2>2. CASE Midnight
    BY <2>2, MaxDayAssumption DEF Midnight, assignment, TypeOK, CallsOK, InCall, Days
  <2>3. ASSUME NEW r \in Requests, NEW b \in Bookings, AssignBegin(r, b)
        PROVE  TypeOK' /\ CallsOK'
    BY <2>3 DEF AssignBegin, TypeOK, CallsOK, InCall
  <2>4. ASSUME NEW r \in Requests,
               AssignCheck(r, "vehicle", "schedule") \/ AssignCheck(r, "schedule", "create")
        PROVE  TypeOK' /\ CallsOK'
    BY <2>4 DEF AssignCheck, assignment, TypeOK, CallsOK, InCall
  <2>5. ASSUME NEW r \in Requests, NEW t \in Trips, AssignCreate(r, t)
        PROVE  TypeOK' /\ CallsOK'
    BY <2>5 DEF AssignCreate, EndTransaction, TypeOK, CallsOK, InCall, RowStatus, TripStatus
  <2>6. ASSUME NEW r \in Requests, NEW t \in Trips, NEW op \in {"start", "change"},
               NEW target \in TripStatus, status[t] # "ABSENT",
               Proceed(r, op, t, target)
        PROVE  TypeOK' /\ CallsOK'
    <3>1. TypeOK'
      BY <2>6, ProceedTyped DEF Proceed, assignment, TypeOK
    <3>2. CallsOK'
      BY <2>6 DEF Proceed, Handling, TypeOK, CallsOK, InCall, RowStatus, Calls
    <3> QED BY <3>1, <3>2
  <2>7. ASSUME NEW r \in Requests, NEW t \in Trips, StartRead(r, t)
        PROVE  TypeOK' /\ CallsOK'
    BY <2>6, <2>7 DEF StartRead, Live, TripStatus
  <2>8. ASSUME NEW r \in Requests, NEW t \in Trips, EndRead(r, t)
        PROVE  TypeOK' /\ CallsOK'
    BY <2>6, <2>8 DEF EndRead, TripStatus
  <2>9. ASSUME NEW r \in Requests, NEW t \in Trips, NEW target \in TripStatus,
               UpdateStatusRead(r, t, target)
        PROVE  TypeOK' /\ CallsOK'
    BY <2>6, <2>9 DEF UpdateStatusRead
  <2>10. ASSUME NEW r \in Requests, UpdateWins(r)
         PROVE  TypeOK' /\ CallsOK'
    BY <2>10 DEF UpdateWins, assignment, TypeOK, CallsOK, InCall, RowStatus
  <2>11. ASSUME NEW r \in Requests, UpdateLoses(r)
         PROVE  TypeOK' /\ CallsOK'
    <3>1. TypeOK'
      BY <2>11, FinishTyped DEF UpdateLoses, assignment, TypeOK
    <3> QED BY <3>1, <2>11 DEF UpdateLoses, Finish, TypeOK, CallsOK, InCall
  <2>12. ASSUME NEW r \in Requests, Reread(r)
         PROVE  TypeOK' /\ CallsOK'
    BY <2>12 DEF Reread, Handling, assignment, TypeOK, CallsOK, InCall, RowStatus, Calls
  <2>13. ASSUME NEW r \in Requests, Publish(r)
         PROVE  TypeOK' /\ CallsOK'
    <3>0. started' \in [Trips -> Nat]
      <4>1. call[r].trip \in Trips
        BY <2>13 DEF Publish, CallsOK, InCall
      <4>2. started \in [Trips -> Nat]
        BY DEF TypeOK
      <4> QED BY <4>1, <4>2, <2>13 DEF Publish
    <3>1. TypeOK'
      BY <3>0, <2>13, FinishTyped DEF Publish, assignment, TypeOK
    <3> QED BY <3>1, <2>13 DEF Publish, Finish, TypeOK, CallsOK, InCall
  <2>14. ASSUME NEW r \in Requests, Abort(r)
         PROVE  TypeOK' /\ CallsOK'
    <3>1. TypeOK'
      BY <2>14, FinishTyped DEF Abort, EndTransaction, TypeOK
    <3> QED BY <3>1, <2>14 DEF Abort, Finish, TypeOK, CallsOK, InCall
  <2> QED
    BY <2>1, <2>2, <2>3, <2>4, <2>5, <2>7, <2>8, <2>9, <2>10, <2>11, <2>12, <2>13,
       <2>14 DEF Next, Handle
<1> QED
  BY <1>1, <1>2, PTL DEF Spec

-------------------------------------------------------------------------------
(* History.  A handler between its read and its update waits beside a status   *)
(* the trip once had; one whose update won knows the trip has passed through   *)
(* its target.                                                                 *)
HistoryInv ==
  \A r \in Requests :
    /\ InCall(r) => /\ MayBecome(call[r].seen, call[r].target)
                    /\ status[call[r].trip] \in Later[call[r].seen]
    /\ pc[r] \in {"reread", "publish"} =>
         status[call[r].trip] \in Later[call[r].target]
    /\ pc[r] = "publish" =>
         /\ call[r].now \in Later[call[r].seen]
         /\ status[call[r].trip] \in Later[call[r].now]

(* Starting.  A start that won its update has not been announced yet, is the   *)
(* only one of its trip, and the trip has left SCHEDULED for good.             *)
StartWon(r) == pc[r] \in {"reread", "publish"} /\ call[r].op = "start"
StartInv ==
  /\ \A r \in Requests :
       /\ InCall(r) /\ call[r].op = "start" =>
            call[r].seen = "SCHEDULED" /\ call[r].target = "STARTED"
       /\ StartWon(r) => started[call[r].trip] = 0
  /\ \A r, q \in Requests :
       StartWon(r) /\ StartWon(q) /\ call[r].trip = call[q].trip => r = q
  /\ StartAnnouncedOnce

(* Booking.  The live trips that were there when an assignment began leave     *)
(* free what it has checked, and every row has the booking it was created with.*)
Spared(field, r) ==
  \A t \in known[r] : Live(t) => \/ booking[t].day # want[r].day
                                 \/ booking[t][field] # want[r][field]

AssignOf(r) ==
  /\ \A t \in known[r] : status[t] # "ABSENT"
  /\ r \notin Assigning => known[r] = {}
  /\ r \in Assigning => want[r] \in Bookings /\ Spared("driver", r)
  /\ pc[r] \in {"schedule", "create"} => Spared("vehicle", r)
  /\ pc[r] = "create" => Spared("schedule", r)

BookingInv ==
  /\ \A r \in Requests : AssignOf(r)
  /\ \A t \in Trips : \A u \in foreseen[t] : status[t] # "ABSENT" /\ status[u] # "ABSENT"
  /\ OnlyRacesDoubleBook

(* Every step leaves an existing trip on the road its table allows.            *)
Advance == \A t \in Trips : status[t] \in TripStatus => status'[t] \in Later[status[t]]

(* No step takes a trip off that road: updates are conditional.                *)
LEMMA StatusAdvances ==
  ASSUME TypeOK, CallsOK, HistoryInv, [Next]_vars
  PROVE  Advance
<1>1. ASSUME UNCHANGED status PROVE Advance
  BY <1>1, LaterFacts DEF Advance
<1>2. ASSUME NEW r \in Requests, NEW t \in Trips, AssignCreate(r, t) PROVE Advance
  BY <1>2, LaterFacts DEF Advance, AssignCreate, TypeOK
<1>3. ASSUME NEW r \in Requests, UpdateWins(r) PROVE Advance
  <2>1. InCall(r) /\ status[call[r].trip] = call[r].seen
    BY <1>3 DEF UpdateWins, InCall
  <2>2. MayBecome(call[r].seen, call[r].target) /\ call[r].seen \in TripStatus
    BY <2>1 DEF HistoryInv, CallsOK
  <2>3. call[r].target \in Later[call[r].seen]
    BY <2>2, LaterFacts DEF MayBecome
  <2> QED
    BY <1>3, <2>1, <2>3, LaterFacts DEF UpdateWins, Advance, TypeOK
<1> QED
  BY <1>1, <1>2, <1>3 DEF Next, Handle, vars, Midnight, AssignBegin, AssignCheck,
     StartRead, EndRead, UpdateStatusRead, Proceed, UpdateLoses, Reread, Publish, Abort

(* The handlers r that a step does not move keep their part of HistoryInv.     *)
HistoryOf(r) ==
  /\ InCall(r) => /\ MayBecome(call[r].seen, call[r].target)
                  /\ status[call[r].trip] \in Later[call[r].seen]
  /\ pc[r] \in {"reread", "publish"} =>
       status[call[r].trip] \in Later[call[r].target]
  /\ pc[r] = "publish" =>
       /\ call[r].now \in Later[call[r].seen]
       /\ status[call[r].trip] \in Later[call[r].now]

(* A handler at rest keeps its part of HistoryInv while others advance.        *)
LEMMA HistoryFrame ==
  ASSUME TypeOK, CallsOK, HistoryInv, Advance, NEW r \in Requests,
         call'[r] = call[r], InCall(r)' => pc'[r] = pc[r]
  PROVE  HistoryOf(r)'
<1> SUFFICES ASSUME InCall(r)' PROVE HistoryOf(r)'
  BY DEF HistoryOf, InCall
<1> DEFINE t == call[r].trip
<1>1. pc'[r] = pc[r] /\ call'[r] = call[r] /\ InCall(r)
  BY DEF InCall
<1>2. /\ t \in Trips /\ status[t] \in TripStatus
      /\ call[r].seen \in TripStatus /\ call[r].target \in TripStatus
  BY <1>1 DEF CallsOK
<1>3. HistoryOf(r)
  BY DEF HistoryInv, HistoryOf
<1>4. status'[t] \in Later[status[t]]
  BY <1>2 DEF Advance
<1>5. pc[r] = "publish" => call[r].now \in TripStatus
  BY <1>2, <1>3, LaterFacts DEF HistoryOf
<1>6. /\ status'[t] \in Later[call[r].seen]
      /\ pc[r] \in {"reread", "publish"} => status'[t] \in Later[call[r].target]
      /\ pc[r] = "publish" => status'[t] \in Later[call[r].now]
  BY <1>1, <1>2, <1>3, <1>4, <1>5, LaterFacts DEF HistoryOf
<1> QED
  BY <1>1, <1>3, <1>6 DEF HistoryOf

(* Every step keeps HistoryInv.                                                *)
LEMMA HistoryStep ==
  ASSUME TypeOK, CallsOK, TypeOK', HistoryInv, [Next]_vars
  PROVE  HistoryInv'
<1>1. Advance
  BY StatusAdvances
<1>2. SUFFICES ASSUME NEW q \in Requests PROVE HistoryOf(q)'
  BY DEF HistoryInv, HistoryOf
<1>3. ASSUME call'[q] = call[q], InCall(q)' => pc'[q] = pc[q] PROVE HistoryOf(q)'
  BY <1>1, <1>3, HistoryFrame
<1>4. CASE UNCHANGED vars
  BY <1>3, <1>4 DEF vars
<1>5. CASE Midnight
  BY <1>3, <1>5 DEF Midnight
<1>6. ASSUME NEW r \in Requests, Handle(r) PROVE HistoryOf(q)'
  <2>1. CASE r # q
    <3>1. call'[q] = call[q] /\ pc'[q] = pc[q]
      BY <1>6, <2>1 DEF Handle, AssignBegin, AssignCheck, AssignCreate, StartRead,
         EndRead, UpdateStatusRead, Proceed, UpdateWins, UpdateLoses, Reread, Publish,
         Abort, Finish, TypeOK
    <3> QED BY <1>3, <3>1
  <2>2. CASE pc'[r] \notin {"update", "reread", "publish"} /\ r = q
    BY <2>2 DEF HistoryOf, InCall
  <2>3. ASSUME r = q, NEW t \in Trips, NEW target \in TripStatus,
               NEW op \in {"start", "change"}, status[t] # "ABSENT",
               MayBecome(status[t], target), Proceed(r, op, t, target)
        PROVE  HistoryOf(q)'
    <3>1. pc'[r] = "update" /\ call'[r] = Handling(op, t, status[t], target, "ABSENT")
      BY <2>3 DEF Proceed, TypeOK
    <3>2. status' = status /\ status[t] \in TripStatus
      BY <2>3 DEF Proceed, TypeOK, RowStatus
    <3> QED BY <2>3, <3>1, <3>2, LaterFacts DEF HistoryOf, Handling, InCall
  <2>4. CASE r = q /\ UpdateWins(r)
    <3>1. /\ pc'[r] = "reread" /\ call'[r] = call[r] /\ pc[r] = "update"
          /\ call[r].trip \in Trips
          /\ status'[call[r].trip] = call[r].target
      BY <2>4 DEF UpdateWins, TypeOK, CallsOK, InCall
    <3>2. /\ MayBecome(call[r].seen, call[r].target)
          /\ call[r].seen \in TripStatus /\ call[r].target \in TripStatus
      BY <3>1 DEF HistoryInv, CallsOK, InCall
    <3> QED BY <2>4, <3>1, <3>2, LaterFacts DEF HistoryOf, MayBecome, InCall
  <2>5. CASE r = q /\ Reread(r)
    <3>1. /\ pc'[r] = "publish" /\ pc[r] = "reread" /\ status' = status
          /\ call'[r] = Handling(call[r].op, call[r].trip, call[r].seen,
                                 call[r].target, status[call[r].trip])
      BY <2>5 DEF Reread, TypeOK
    <3>2. HistoryOf(r) /\ status[call[r].trip] \in TripStatus
      BY <3>1 DEF HistoryInv, HistoryOf, CallsOK, InCall
    <3> QED BY <2>5, <3>1, <3>2, LaterFacts DEF HistoryOf, Handling, InCall
  <2>6. CASE pc'[r] \in {"idle", "vehicle", "schedule", "create"}
    BY <2>1, <2>2, <2>6
  <2>7. ASSUME NEW t \in Trips, StartRead(r, t) PROVE HistoryOf(q)'
    BY <2>1, <2>3, <2>7 DEF StartRead, Live, TripStatus
  <2>8. ASSUME NEW t \in Trips, EndRead(r, t) PROVE HistoryOf(q)'
    BY <2>1, <2>3, <2>8 DEF EndRead, TripStatus
  <2>9. ASSUME NEW t \in Trips, NEW target \in TripStatus, UpdateStatusRead(r, t, target)
        PROVE HistoryOf(q)'
    BY <2>1, <2>3, <2>9 DEF UpdateStatusRead
  <2>10. CASE UpdateLoses(r) \/ Publish(r) \/ Abort(r)
    BY <2>6, <2>10 DEF UpdateLoses, Publish, Abort, Finish, TypeOK
  <2>11. ASSUME NEW b \in Bookings, AssignBegin(r, b) PROVE HistoryOf(q)'
    BY <2>6, <2>11 DEF AssignBegin, TypeOK
  <2>12. CASE AssignCheck(r, "vehicle", "schedule") \/ AssignCheck(r, "schedule", "create")
    BY <2>6, <2>12 DEF AssignCheck, TypeOK
  <2>13. ASSUME NEW t \in Trips, AssignCreate(r, t) PROVE HistoryOf(q)'
    BY <2>6, <2>13 DEF AssignCreate, TypeOK
  <2> QED
    BY <1>6, <2>1, <2>4, <2>5, <2>7, <2>8, <2>9, <2>10, <2>11, <2>12, <2>13 DEF Handle
<1> QED
  BY <1>4, <1>5, <1>6 DEF Next

(* What a handler publishes is true history, however its reads, its update and *)
(* its re-read interleave with those of other requests.                        *)
THEOREM AnnouncementsAreHistory == Spec => []AnnouncementIsHistory
<1>1. Init => HistoryInv
  BY DEF Init, HistoryInv, InCall
<1>2. TypeOK /\ TypeOK' /\ CallsOK /\ HistoryInv /\ [Next]_vars => HistoryInv'
  BY HistoryStep
<1>3. HistoryInv => AnnouncementIsHistory
  BY DEF HistoryInv, AnnouncementIsHistory
<1> QED
  BY <1>1, <1>2, <1>3, TypeCorrect, PTL DEF Spec

-------------------------------------------------------------------------------
(* The start protocol.  The conditional update lets one start win: it finds    *)
(* SCHEDULED, and no trip is SCHEDULED again after it.                         *)
LEMMA StartStep ==
  ASSUME TypeOK, CallsOK, TypeOK', HistoryInv, StartInv, [Next]_vars
  PROVE  StartInv'
<1>1. Advance
  BY StatusAdvances
<1> DEFINE Keeps(r) == /\ pc'[r] = pc[r] /\ call'[r] = call[r]
           Drops(r) == pc'[r] \notin {"update", "reread", "publish"}
<1>2. ASSUME \A r \in Requests : Keeps(r) \/ Drops(r),
             started' = started, Advance
      PROVE  StartInv'
  <2>1. \A t \in Trips : started[t] = 1 => status'[t] \in Later["STARTED"]
    BY <1>2, LaterFacts DEF StartInv, StartAnnouncedOnce, Advance, TripStatus
  <2> QED BY <1>2, <2>1 DEF StartInv, StartAnnouncedOnce, StartWon, InCall
<1>3. CASE UNCHANGED vars
  BY <1>1, <1>2, <1>3 DEF vars
<1>4. CASE Midnight
  BY <1>1, <1>2, <1>4 DEF Midnight
<1>5. ASSUME NEW r \in Requests, Handle(r) PROVE StartInv'
  <2> DEFINE Others == \A q \in Requests \ {r} : Keeps(q)
  <2>1. Others
    BY <1>5 DEF Handle, AssignBegin, AssignCheck, AssignCreate, StartRead,
       EndRead, UpdateStatusRead, Proceed, UpdateWins, UpdateLoses, Reread, Publish,
       Abort, Finish, TypeOK
  <2>2. ASSUME Drops(r), started' = started PROVE StartInv'
    BY <1>1, <1>2, <2>1, <2>2
  <2>3. ASSUME NEW t \in Trips, NEW target \in TripStatus, NEW op \in {"start", "change"},
               op = "start" => status[t] = "SCHEDULED" /\ target = "STARTED",
               Proceed(r, op, t, target)
        PROVE  StartInv'
    <3>1. /\ pc'[r] = "update" /\ started' = started /\ status' = status
          /\ call'[r] = Handling(op, t, status[t], target, "ABSENT")
      BY <2>3 DEF Proceed, TypeOK
    <3> QED BY <2>1, <2>3, <3>1 DEF StartInv, StartAnnouncedOnce, StartWon, InCall, Handling
  <2>4. CASE UpdateWins(r)
    <3>1. /\ pc[r] = "update" /\ pc'[r] = "reread" /\ call' = call
          /\ started' = started
          /\ status[call[r].trip] = call[r].seen
          /\ call[r].trip \in Trips
          /\ status' = [status EXCEPT ![call[r].trip] = call[r].target]
      BY <2>4 DEF UpdateWins, TypeOK, CallsOK, InCall
    <3>2. \A t \in Trips : started[t] = 1 => status'[t] \in Later["STARTED"]
      BY <1>1, <3>1, LaterFacts DEF StartInv, StartAnnouncedOnce, Advance, TripStatus
    <3>3. ASSUME call[r].op = "start"
          PROVE  /\ status[call[r].trip] = "SCHEDULED"
                 /\ started[call[r].trip] = 0
                 /\ \A q \in Requests : StartWon(q) => call[q].trip # call[r].trip
      <4>1. status[call[r].trip] = "SCHEDULED"
        BY <3>1, <3>3 DEF StartInv, InCall
      <4>2. started[call[r].trip] = 0
        <5>1. started[call[r].trip] \in Nat
          BY <3>1 DEF TypeOK
        <5>2. started[call[r].trip] <= 1 /\ started[call[r].trip] # 1
          BY <3>1, <4>1, LaterFacts DEF StartInv, StartAnnouncedOnce
        <5> QED BY <5>1, <5>2
      <4>3. ASSUME NEW q \in Requests, StartWon(q), call[q].trip = call[r].trip
            PROVE  FALSE
        BY <4>1, <4>3, LaterFacts DEF StartInv, HistoryInv, StartWon, InCall
      <4> QED BY <4>1, <4>2, <4>3
    <3>4. \A q \in Requests : StartWon(q)' => StartWon(q) \/ q = r
      BY <2>1, <3>1 DEF StartWon
    <3>5. \A q \in Requests : StartWon(q)' => started'[call'[q].trip] = 0
      BY <3>1, <3>3, <3>4 DEF StartInv, StartWon
    <3>6. \A q, p \in Requests :
            StartWon(q)' /\ StartWon(p)' /\ call'[q].trip = call'[p].trip => q = p
      BY <3>1, <3>3, <3>4 DEF StartInv, StartWon
    <3>7. \A q \in Requests : InCall(q)' /\ call'[q].op = "start" =>
            call'[q].seen = "SCHEDULED" /\ call'[q].target = "STARTED"
      BY <2>1, <3>1 DEF StartInv, InCall
    <3> QED BY <3>1, <3>2, <3>5, <3>6, <3>7 DEF StartInv, StartAnnouncedOnce
  <2>5. CASE Reread(r)
    <3>1. /\ pc'[r] = "publish" /\ pc[r] = "reread" /\ status' = status
          /\ started' = started
          /\ call'[r].op = call[r].op /\ call'[r].trip = call[r].trip
          /\ call'[r].seen = call[r].seen /\ call'[r].target = call[r].target
      BY <2>5 DEF Reread, Handling, TypeOK
    <3> QED BY <2>1, <3>1 DEF StartInv, StartAnnouncedOnce, StartWon, InCall
  <2>6. CASE Publish(r)
    <3>1. pc[r] = "publish" /\ Drops(r) /\ status' = status
      BY <2>6 DEF Publish, Finish, TypeOK
    <3>2. CASE call[r].op # "start"
      BY <2>2, <2>6, <3>1, <3>2 DEF Publish
    <3>3. CASE call[r].op = "start"
      <4> DEFINE t == call[r].trip
      <4>1. /\ t \in Trips /\ started[t] = 0
            /\ started' = [started EXCEPT ![t] = @ + 1]
            /\ status[t] \in Later["STARTED"]
        BY <2>6, <3>1, <3>3 DEF Publish, CallsOK, InCall, StartInv, StartWon, HistoryInv
      <4>2. StartAnnouncedOnce'
        BY <3>1, <4>1 DEF StartInv, StartAnnouncedOnce, TypeOK
      <4>3. \A q \in Requests : StartWon(q)' => StartWon(q) /\ call'[q] = call[q]
                                             /\ call[q].trip # t /\ q # r
        BY <2>1, <3>1, <3>3 DEF StartInv, StartWon
      <4>4. \A q \in Requests : StartWon(q)' => started'[call'[q].trip] = 0
        BY <4>1, <4>3 DEF StartInv, TypeOK
      <4>5. \A q \in Requests : InCall(q)' /\ call'[q].op = "start" =>
              call'[q].seen = "SCHEDULED" /\ call'[q].target = "STARTED"
        BY <2>1, <3>1 DEF StartInv, InCall
      <4>6. \A q, p \in Requests :
              StartWon(q)' /\ StartWon(p)' /\ call'[q].trip = call'[p].trip => q = p
        BY <4>3 DEF StartInv
      <4> QED BY <4>2, <4>4, <4>5, <4>6 DEF StartInv
    <3> QED BY <3>2, <3>3
  <2>7. ASSUME NEW t \in Trips, StartRead(r, t) PROVE StartInv'
    BY <2>3, <2>7 DEF StartRead, ValidateStart, TripStatus
  <2>8. ASSUME NEW t \in Trips, EndRead(r, t) PROVE StartInv'
    BY <2>3, <2>8 DEF EndRead, TripStatus
  <2>9. ASSUME NEW t \in Trips, NEW target \in TripStatus, UpdateStatusRead(r, t, target)
        PROVE StartInv'
    BY <2>3, <2>9 DEF UpdateStatusRead
  <2>10. CASE UpdateLoses(r) \/ Abort(r)
    BY <2>2, <2>10 DEF UpdateLoses, Abort, Finish, TypeOK
  <2>11. ASSUME NEW b \in Bookings, AssignBegin(r, b) PROVE StartInv'
    BY <2>2, <2>11 DEF AssignBegin, TypeOK
  <2>12. CASE AssignCheck(r, "vehicle", "schedule") \/ AssignCheck(r, "schedule", "create")
    BY <2>2, <2>12 DEF AssignCheck, TypeOK
  <2>13. ASSUME NEW t \in Trips, AssignCreate(r, t) PROVE StartInv'
    BY <2>2, <2>13 DEF AssignCreate, TypeOK
  <2> QED
    BY <1>5, <2>4, <2>5, <2>6, <2>7, <2>8, <2>9, <2>10, <2>11, <2>12, <2>13 DEF Handle
<1> QED
  BY <1>3, <1>4, <1>5 DEF Next

(* 'trip.started' is published at most once per trip, and never for a trip     *)
(* that is still waiting or was cancelled.                                     *)
THEOREM StartsAreAnnouncedOnce == Spec => []StartAnnouncedOnce
<1>1. Init => HistoryInv /\ StartInv
  BY LaterFacts DEF Init, HistoryInv, InCall, StartInv, StartWon, StartAnnouncedOnce
<1>2. TypeOK /\ TypeOK' /\ CallsOK /\ HistoryInv /\ StartInv /\ [Next]_vars
        => HistoryInv' /\ StartInv'
  BY HistoryStep, StartStep
<1>3. StartInv => StartAnnouncedOnce
  BY DEF StartInv
<1> QED
  BY <1>1, <1>2, <1>3, TypeCorrect, PTL DEF Spec

-------------------------------------------------------------------------------
(* Double booking.                                                             *)

(* Of the rows there are, none goes away, is booked anew or comes back to life. *)
Lasting ==
  \A t \in Trips : status[t] # "ABSENT" =>
    /\ status'[t] # "ABSENT"
    /\ booking'[t] = booking[t]
    /\ Live(t)' => Live(t)

(* Only an insert brings a trip to life, and it takes a new row: a status      *)
(* update never revives a cancelled one.                                       *)
LEMMA NoRevival ==
  ASSUME TypeOK, CallsOK, HistoryInv, [Next]_vars
  PROVE  Lasting
<1>1. Advance
  BY StatusAdvances
<1>2. ASSUME NEW t \in Trips, status[t] # "ABSENT"
      PROVE  status'[t] # "ABSENT" /\ (Live(t)' => Live(t))
  BY <1>1, <1>2, LaterFacts DEF Advance, Live, TypeOK, RowStatus, TripStatus
<1>3. ASSUME NEW t \in Trips, status[t] # "ABSENT"
      PROVE  booking'[t] = booking[t]
  BY <1>3 DEF Next, Handle, vars, Midnight, AssignBegin, AssignCheck, AssignCreate,
     StartRead, EndRead, UpdateStatusRead, Proceed, UpdateWins, UpdateLoses, Reread,
     Publish, Abort, TypeOK
<1> QED
  BY <1>2, <1>3 DEF Lasting

(* What an assignment has found free of the trips it knows of stays so, also   *)
(* when another assignment commits.                                            *)
LEMMA AssignFrame ==
  ASSUME TypeOK, Lasting, NEW r \in Requests, AssignOf(r), known'[r] = known[r],
         want'[r] = want[r], pc'[r] = pc[r] \/ (r \notin Assigning /\ (r \notin Assigning)')
  PROVE  AssignOf(r)'
<1>1. \A t \in known[r] : t \in Trips /\ status[t] # "ABSENT"
  BY DEF TypeOK, AssignOf
<1>2. ASSUME NEW field, Spared(field, r) PROVE Spared(field, r)'
  BY <1>1, <1>2 DEF Lasting, Spared
<1> QED
  BY <1>1, <1>2 DEF Lasting, AssignOf, Assigning

(* A handler that is not assigning promises nothing.                           *)
LEMMA AssignIdle ==
  ASSUME NEW r \in Requests, known'[r] = {}, pc'[r] = "idle"
  PROVE  AssignOf(r)'
BY DEF AssignOf, Assigning

(* A query that finds no live trip at all finds none of those that were there. *)
LEMMA FreeSpares ==
  ASSUME TypeOK, NEW r \in Requests, NEW field, Free(field, want[r])
  PROVE  Spared(field, r)
BY DEF Free, Spared, TypeOK

(* Every step keeps BookingInv.                                                *)
LEMMA BookingStep ==
  ASSUME TypeOK, CallsOK, HistoryInv, TypeOK', BookingInv, [Next]_vars
  PROVE  BookingInv'
<1>1. Lasting
  BY NoRevival
<1>2. ASSUME NEW q \in Requests, known'[q] = known[q], want'[q] = want[q],
             pc'[q] = pc[q] \/ (q \notin Assigning /\ (q \notin Assigning)')
      PROVE  AssignOf(q)'
  BY <1>1, <1>2, AssignFrame DEF BookingInv
<1>3. ASSUME foreseen' = foreseen, \A q \in Requests : AssignOf(q)'
      PROVE  BookingInv'
  <2>1. \A t \in Trips : \A u \in foreseen[t] : u \in Trips
    BY DEF TypeOK
  <2>2. OnlyRacesDoubleBook'
    BY <1>1, <1>3, <2>1 DEF BookingInv, OnlyRacesDoubleBook, Lasting
  <2>3. (\A t \in Trips : \A u \in foreseen[t] : status[t] # "ABSENT" /\ status[u] # "ABSENT")'
    BY <1>1, <1>3, <2>1 DEF BookingInv, Lasting
  <2> QED BY <1>3, <2>2, <2>3 DEF BookingInv
<1>4. CASE UNCHANGED vars \/ Midnight
  BY <1>2, <1>3, <1>4 DEF vars, Midnight, assignment
<1>5. ASSUME NEW r \in Requests, Handle(r) PROVE BookingInv'
  <2>1. ASSUME NEW q \in Requests, q # r PROVE AssignOf(q)'
    <3>1. known'[q] = known[q] /\ want'[q] = want[q] /\ pc'[q] = pc[q]
      BY <1>5, <2>1 DEF Handle, AssignBegin, AssignCheck, AssignCreate, StartRead, EndRead,
         UpdateStatusRead, Proceed, UpdateWins, UpdateLoses, Reread, Publish, Abort,
         Finish, EndTransaction, assignment, TypeOK
    <3> QED BY <1>2, <3>1
  <2>2. ASSUME foreseen' = foreseen, AssignOf(r)' PROVE BookingInv'
    BY <1>3, <2>1, <2>2
  <2>3. ASSUME NEW t \in Trips, AssignCreate(r, t) PROVE BookingInv'
    <3>1. /\ pc[r] = "create" /\ status[t] = "ABSENT"
          /\ status' = [status EXCEPT ![t] = "SCHEDULED"]
          /\ booking' = [booking EXCEPT ![t] = want[r]]
          /\ foreseen' = [foreseen EXCEPT ![t] = known[r]]
          /\ pc'[r] = "idle" /\ known'[r] = {}
      BY <2>3 DEF AssignCreate, EndTransaction, TypeOK
    <3>2. /\ \A u \in known[r] : u \in Trips \ {t} /\ status[u] # "ABSENT"
          /\ Spared("driver", r) /\ Spared("vehicle", r) /\ Spared("schedule", r)
      BY <3>1 DEF BookingInv, AssignOf, Assigning, TypeOK
    <3>3. /\ status'[t] = "SCHEDULED" /\ booking'[t] = want[r] /\ foreseen'[t] = known[r]
          /\ \A u \in Trips \ {t} : /\ status'[u] = status[u]
                                    /\ booking'[u] = booking[u]
                                    /\ foreseen'[u] = foreseen[u]
      BY <3>1 DEF TypeOK
    <3>4. \A v \in Trips \ {t} : \A u \in foreseen[v] :
            u \in Trips \ {t} /\ status[v] # "ABSENT" /\ status[u] # "ABSENT"
      BY <3>1 DEF BookingInv, TypeOK
    <3>5. ASSUME NEW u \in known[r], Live(u) PROVE ~Clash(booking[u], want[r])
      BY <3>2, <3>5 DEF Spared, Clash
    <3>6. ASSUME NEW u \in Trips, NEW v \in Trips, u # v, Live(u)', Live(v)',
                 Clash(booking'[u], booking'[v]), u \in foreseen'[v]
          PROVE  FALSE
      <4>1. CASE v = t
        BY <3>2, <3>3, <3>5, <3>6, <4>1 DEF Live
      <4>2. CASE v # t
        BY <3>3, <3>4, <3>6, <4>2 DEF BookingInv, OnlyRacesDoubleBook, Live
      <4> QED BY <4>1, <4>2
    <3>7. OnlyRacesDoubleBook'
      BY <3>6 DEF OnlyRacesDoubleBook
    <3>8. (\A v \in Trips : \A u \in foreseen[v] : status[v] # "ABSENT" /\ status[u] # "ABSENT")'
      BY <3>2, <3>3, <3>4
    <3>9. \A q \in Requests : AssignOf(q)'
      BY <2>1, <3>1, AssignIdle
    <3> QED BY <3>7, <3>8, <3>9 DEF BookingInv
  <2>4. ASSUME NEW b \in Bookings, AssignBegin(r, b) PROVE BookingInv'
    <3>1. /\ pc'[r] = "vehicle" /\ want'[r] = b /\ foreseen' = foreseen
          /\ status' = status /\ booking' = booking
          /\ known'[r] = {t \in Trips : status[t] # "ABSENT"}
          /\ Free("driver", b)
      BY <2>4 DEF AssignBegin, TypeOK
    <3>2. Spared("driver", r)'
      BY <3>1 DEF Free, Live, Spared
    <3>3. AssignOf(r)'
      BY <3>1, <3>2 DEF AssignOf, Assigning
    <3> QED BY <2>2, <3>1, <3>3
  <2>5. ASSUME NEW field \in {"vehicle", "schedule"}, NEW next \in {"schedule", "create"},
               AssignCheck(r, field, next), field = "vehicle" <=> next = "schedule"
        PROVE  BookingInv'
    <3>1. /\ pc[r] = field /\ pc'[r] = next /\ want' = want /\ known' = known
          /\ foreseen' = foreseen /\ status' = status /\ booking' = booking
          /\ Free(field, want[r])
      BY <2>5 DEF AssignCheck, assignment, TypeOK
    <3>2. AssignOf(r) /\ Spared(field, r)
      BY <3>1, FreeSpares DEF BookingInv
    <3>3. AssignOf(r)'
      BY <2>5, <3>1, <3>2 DEF AssignOf, Assigning, Spared, Live
    <3> QED BY <2>2, <3>1, <3>3
  <2>6. ASSUME known' = known, want' = want, foreseen' = foreseen,
               pc[r] \in {"idle", "update", "reread", "publish"},
               pc'[r] \in {"idle", "update", "reread", "publish"}
        PROVE  BookingInv'
    BY <1>2, <2>2, <2>6 DEF Assigning
  <2>7. CASE Abort(r)
    <3>1. pc'[r] = "idle" /\ known'[r] = {} /\ foreseen' = foreseen
      BY <2>7 DEF Abort, Finish, EndTransaction, TypeOK
    <3> QED BY <2>2, <3>1, AssignIdle
  <2>8. CASE \/ \E t \in Trips : StartRead(r, t) \/ EndRead(r, t)
             \/ \E t \in Trips, target \in TripStatus : UpdateStatusRead(r, t, target)
    BY <2>6, <2>8 DEF StartRead, EndRead, UpdateStatusRead, Proceed, assignment, TypeOK
  <2>9. CASE UpdateWins(r) \/ UpdateLoses(r) \/ Reread(r) \/ Publish(r)
    BY <2>6, <2>9 DEF UpdateWins, UpdateLoses, Reread, Publish, Finish, assignment, TypeOK
  <2> QED
    BY <1>5, <2>3, <2>4, <2>5, <2>7, <2>8, <2>9 DEF Handle
<1> QED
  BY <1>4, <1>5 DEF Next

(* However many assignments overlap, two live trips of one day share a driver, *)
(* a vehicle or a schedule only when neither was in the table as the other's   *)
(* assignment began, whatever the lifecycle requests do meanwhile.             *)
THEOREM OnlyRacesCanDoubleBook == Spec => []OnlyRacesDoubleBook
<1>1. Init => HistoryInv /\ BookingInv
  BY DEF Init, HistoryInv, InCall, BookingInv, AssignOf, Assigning, OnlyRacesDoubleBook, Live
<1>2. TypeOK /\ TypeOK' /\ CallsOK /\ HistoryInv /\ BookingInv /\ [Next]_vars
        => HistoryInv' /\ BookingInv'
  BY HistoryStep, BookingStep
<1>3. BookingInv => OnlyRacesDoubleBook
  BY DEF BookingInv
<1> QED
  BY <1>1, <1>2, <1>3, TypeCorrect, PTL DEF Spec

-------------------------------------------------------------------------------
(* Refinement.  The first query of an assignment opens it, the insert is Assign, *)
(* an assignment that ends without one gives up, and the conditional update    *)
(* that wins is Move (or nothing, when it writes the status it found).         *)
LEMMA BoardStep ==
  ASSUME TypeOK, CallsOK, HistoryInv, BookingInv, TypeOK', [Next]_vars
  PROVE  [Board!Next]_(Board!boardVars)
<1> SUFFICES Board!Next \/ UNCHANGED Board!boardVars
  OBVIOUS
<1>1. ASSUME UNCHANGED <<status, booking, known>>, Assigning' = Assigning
      PROVE  UNCHANGED Board!boardVars
  BY <1>1 DEF Board!boardVars
<1>2. CASE UNCHANGED vars \/ Midnight
  BY <1>1, <1>2 DEF vars, Midnight, assignment, Assigning
<1>3. ASSUME NEW r \in Requests, Handle(r)
      PROVE  Board!Next \/ UNCHANGED Board!boardVars
  <2>1. \A q \in Requests \ {r} : pc'[q] = pc[q]
    BY <1>3 DEF Handle, AssignBegin, AssignCheck, AssignCreate, StartRead, EndRead,
       UpdateStatusRead, Proceed, UpdateWins, UpdateLoses, Reread, Publish, Abort,
       Finish, TypeOK
  <2>2. /\ r \in Assigning /\ (r \in Assigning)' => Assigning' = Assigning
        /\ r \notin Assigning /\ (r \notin Assigning)' => Assigning' = Assigning
        /\ r \notin Assigning /\ (r \in Assigning)' => Assigning' = Assigning \cup {r}
        /\ r \in Assigning /\ (r \notin Assigning)' => Assigning' = Assigning \ {r}
    BY <2>1 DEF Assigning
  <2>3. ASSUME NEW b \in Bookings, AssignBegin(r, b) PROVE Board!Next
    <3>1. /\ r \notin Assigning /\ (r \in Assigning)' /\ UNCHANGED <<status, booking>>
          /\ known' = [known EXCEPT ![r] = Board!OnBoard]
      BY <2>3 DEF AssignBegin, Assigning, TypeOK, Board!OnBoard
    <3> QED BY <2>2, <3>1 DEF Board!Next, Board!Open
  <2>4. ASSUME NEW t \in Trips, AssignCreate(r, t) PROVE Board!Next
    <3>1. /\ pc[r] = "create" /\ r \in Assigning /\ (r \notin Assigning)'
          /\ t \in Trips \ Board!OnBoard
          /\ status' = [status EXCEPT ![t] = "SCHEDULED"]
          /\ booking' = [booking EXCEPT ![t] = want[r]]
          /\ known' = [known EXCEPT ![r] = {}]
      BY <2>4 DEF AssignCreate, EndTransaction, Assigning, TypeOK, Board!OnBoard
    <3>2. /\ want[r] \in Bookings
          /\ Spared("driver", r) /\ Spared("vehicle", r) /\ Spared("schedule", r)
      BY <3>1 DEF BookingInv, AssignOf
    <3>3. \A u \in known[r] : Board!Live(u) => ~Board!Clash(booking[u], want[r])
      BY <3>2 DEF Spared, Live, Board!Live, Board!Clash
    <3>4. Board!Assign(r, t, want[r])
      BY <2>2, <3>1, <3>3 DEF Board!Assign, Board!Close
    <3> QED BY <3>1, <3>2, <3>4 DEF Board!Next
  <2>5. CASE UpdateWins(r)
    <3> DEFINE t == call[r].trip
    <3>1. /\ t \in Trips /\ status[t] = call[r].seen /\ status[t] \in TripStatus
          /\ status' = [status EXCEPT ![t] = call[r].target]
          /\ UNCHANGED <<booking, known>>
          /\ MayBecome(call[r].seen, call[r].target)
      BY <2>5 DEF UpdateWins, assignment, CallsOK, HistoryInv, InCall
    <3>2. Assigning' = Assigning
      BY <2>2, <2>5 DEF UpdateWins, Assigning, TypeOK
    <3>3. CASE call[r].target = call[r].seen
      BY <1>1, <3>1, <3>2, <3>3 DEF TypeOK
    <3>4. CASE call[r].target \in TRIP_TRANSITIONS[call[r].seen]
      <4>1. t \in Board!OnBoard
        BY <3>1, LaterFacts DEF Board!OnBoard
      <4>2. Board!Move(t, call[r].target)
        BY <3>1, <3>2 DEF Board!Move
      <4>3. call[r].target \in Board!TRIP_TRANSITIONS[status[t]]
        BY <3>1, <3>4 DEF TRIP_TRANSITIONS, Board!TRIP_TRANSITIONS
      <4> QED BY <4>1, <4>2, <4>3 DEF Board!Next
    <3> QED BY <3>1, <3>3, <3>4 DEF MayBecome
  <2>6. CASE Abort(r)
    <3>1. /\ UNCHANGED <<status, booking>> /\ known' = [known EXCEPT ![r] = {}]
          /\ (r \notin Assigning)'
      BY <2>6 DEF Abort, Finish, EndTransaction, Assigning, TypeOK
    <3>2. CASE r \in Assigning
      <4>1. Board!GiveUp(r)
        BY <2>2, <3>1, <3>2 DEF Board!GiveUp, Board!Close
      <4> QED BY <3>2, <4>1 DEF Board!Next
    <3>3. CASE r \notin Assigning
      <4>1. known' = known
        BY <3>1, <3>3 DEF BookingInv, AssignOf, TypeOK
      <4> QED BY <1>1, <2>2, <3>1, <3>3, <4>1
    <3> QED BY <3>2, <3>3
  <2>7. CASE AssignCheck(r, "vehicle", "schedule") \/ AssignCheck(r, "schedule", "create")
    <3>1. r \in Assigning /\ (r \in Assigning)' /\ UNCHANGED <<status, booking, known>>
      BY <2>7 DEF AssignCheck, assignment, Assigning, TypeOK
    <3> QED BY <1>1, <2>2, <3>1
  <2>8. CASE \/ \E t \in Trips : StartRead(r, t) \/ EndRead(r, t)
             \/ \E t \in Trips, target \in TripStatus : UpdateStatusRead(r, t, target)
             \/ UpdateLoses(r) \/ Reread(r) \/ Publish(r)
    <3>1. /\ r \notin Assigning /\ (r \notin Assigning)'
          /\ UNCHANGED <<status, booking, known>>
      BY <2>8 DEF StartRead, EndRead, UpdateStatusRead, Proceed, UpdateLoses, Reread,
         Publish, Finish, assignment, Assigning, TypeOK
    <3> QED BY <1>1, <2>2, <3>1
  <2> QED
    BY <1>3, <2>3, <2>4, <2>5, <2>6, <2>7, <2>8 DEF Handle
<1> QED
  BY <1>2, <1>3 DEF Next

(* The interleaved handlers, any number of them assigning, implement the board *)
(* on which every operation takes effect at once.                              *)
THEOREM ImplementsBoard == Spec => ImplementsTripBoard
<1>1. Init => Board!Init
  BY DEF Init, Assigning, Board!Init
<1>2. Init => HistoryInv /\ BookingInv
  BY DEF Init, HistoryInv, InCall, BookingInv, AssignOf, Assigning, OnlyRacesDoubleBook, Live
<1>3. TypeOK /\ TypeOK' /\ CallsOK /\ HistoryInv /\ BookingInv /\ [Next]_vars
        => HistoryInv' /\ BookingInv'
  BY HistoryStep, BookingStep
<1>4. TypeOK /\ TypeOK' /\ CallsOK /\ HistoryInv /\ BookingInv /\ [Next]_vars
        => [Board!Next]_(Board!boardVars)
  BY BoardStep
<1> QED
  BY <1>1, <1>2, <1>3, <1>4, TypeCorrect, PTL DEF Spec, ImplementsTripBoard, Board!Spec
================================================================================
