----------------------------- MODULE TripLifecycle -----------------------------
(* Trip assignment and the trip lifecycle orchestrator: concurrent HTTP        *)
(* requests against the Trip table.                                            *)
(*                                                                             *)
(* Every await of the code is a point where another request may run, so a      *)
(* request is a small process: it reads, it validates what it read, it issues  *)
(* one conditional update (the status it read is in the WHERE clause), it      *)
(* reads the row again, writes the audit log and publishes.  An assignment is  *)
(* one prisma.$transaction at the database's default isolation (read           *)
(* committed), so its three availability queries and its insert interleave     *)
(* with other requests too.                                                    *)
EXTENDS TripStateMachine, Integers

CONSTANTS
  Trips,        \* row identities of the Trip table (uuids)
  Drivers, Vehicles, Schedules,
  MaxDay,       \* BOUND: the clock stops at this service day
  Requests,     \* request handlers that may run at once
  NoBooking, NoTrip

ASSUME MaxDayAssumption == MaxDay \in Nat \ {0}
ASSUME NoTripAssumption == NoTrip \notin Trips

Days == 1 .. MaxDay
Bookings == [driver : Drivers, vehicle : Vehicles, schedule : Schedules, day : Days]

VARIABLES
  status,    \* Trip.status by row, "ABSENT" before the row is created
  booking,   \* Trip.driverId, vehicleId, scheduleId and serviceDate by row
  today,     \* the service date of the organisation's time zone
  pc,        \* where each request handler stands
  want,      \* the body of the assignment a handler is serving
  call,      \* what a lifecycle handler has read and wants to write
  started,   \* how often 'trip.started' was published for a trip
  known,     \* history: the rows there were when a handler began to assign
  foreseen   \* history: the rows there were when a row's assignment began

vars == <<status, booking, today, pc, want, call, started, known, foreseen>>
assignment == <<want, known, foreseen>>

(* What a lifecycle handler holds in its local variables.                      *)
Handling(op, t, seen, target, now) ==
  [op |-> op, trip |-> t, seen |-> seen, target |-> target, now |-> now]
NoCall == Handling("none", NoTrip, "ABSENT", "ABSENT", "ABSENT")
RowStatus == TripStatus \cup {"ABSENT"}
Calls == [op : {"none", "start", "change"}, trip : Trips \cup {NoTrip},
          seen : RowStatus, target : RowStatus, now : RowStatus]

(* The rows that "status: { not: 'CANCELLED' }" finds.                         *)
Live(t) == status[t] \notin {"ABSENT", "CANCELLED"}

(* findFirst on one booking field and the service date finds no live trip.     *)
Free(field, b) ==
  \A t \in Trips : Live(t) => \/ booking[t].day # b.day
                              \/ booking[t][field] # b[field]

Init ==
  /\ status = [t \in Trips |-> "ABSENT"]
  /\ booking = [t \in Trips |-> NoBooking]
  /\ today = 1
  /\ pc = [r \in Requests |-> "idle"]
  /\ want = [r \in Requests |-> NoBooking]
  /\ call = [r \in Requests |-> NoCall]
  /\ started = [t \in Trips |-> 0]
  /\ known = [r \in Requests |-> {}]
  /\ foreseen = [t \in Trips |-> {}]

-------------------------------------------------------------------------------
(* POST /trips/assign: the entity checks and the date check, then the driver's *)
(* trips of that day.  A body that names an entity the database does not hold  *)
(* is refused without effect.                                                  *)
AssignBegin(r, b) ==
  /\ pc[r] = "idle"
  /\ b.day >= today
  /\ Free("driver", b)
  /\ want' = [want EXCEPT ![r] = b]
  /\ known' = [known EXCEPT ![r] = {t \in Trips : status[t] # "ABSENT"}]
  /\ pc' = [pc EXCEPT ![r] = "vehicle"]
  /\ UNCHANGED <<status, booking, today, call, started, foreseen>>

(* MUTANT of AssignCheck: the availability query's answer is not looked at.    *)
AssignUnchecked(r, field, next) ==
  /\ pc[r] = field
  /\ pc' = [pc EXCEPT ![r] = next]
  /\ UNCHANGED <<status, booking, today, call, started, assignment>>

(* The vehicle's, then the schedule's trips of that day.                       *)
AssignCheck(r, field, next) ==
  /\ pc[r] = field
  /\ Free(field, want[r])
  /\ pc' = [pc EXCEPT ![r] = next]
  /\ UNCHANGED <<status, booking, today, call, started, assignment>>

(* The transaction is over.                                                    *)
EndTransaction(r) ==
  /\ want' = [want EXCEPT ![r] = NoBooking]
  /\ known' = [known EXCEPT ![r] = {}]

(* tx.trip.create: no unique constraint mentions driver, vehicle, schedule or  *)
(* date, so the insert itself refuses nothing.                                 *)
AssignCreate(r, t) ==
  /\ pc[r] = "create"
  /\ status[t] = "ABSENT"
  /\ status' = [status EXCEPT ![t] = "SCHEDULED"]
  /\ booking' = [booking EXCEPT ![t] = want[r]]
  /\ pc' = [pc EXCEPT ![r] = "idle"]
  /\ foreseen' = [foreseen EXCEPT ![t] = known[r]]
  /\ EndTransaction(r)
  /\ UNCHANGED <<today, call, started>>

-------------------------------------------------------------------------------
(* A lifecycle handler read the row of t and found the change to target legal. *)
Proceed(r, op, t, target) ==
  /\ call' = [call EXCEPT ![r] = Handling(op, t, status[t], target, "ABSENT")]
  /\ pc' = [pc EXCEPT ![r] = "update"]
  /\ UNCHANGED <<status, booking, today, started, assignment>>

(* MUTANT of ValidateStart: the last check, "Trip is already active", is gone. *)
ValidateStartLax(t) == status[t] \notin {"COMPLETED", "CANCELLED"}

(* validateStart: the trip exists and is still SCHEDULED.                      *)
ValidateStart(t) == status[t] = "SCHEDULED"

(* startTrip looks for today's live trip of the schedule the body names; the   *)
(* driver and the vehicle of the request must be the booked ones.              *)
StartRead(r, t) ==
  /\ pc[r] = "idle"
  /\ Live(t)
  /\ booking[t].day = today
  /\ ValidateStart(t)
  /\ MayBecome(status[t], "STARTED")
  /\ Proceed(r, "start", t, "STARTED")

EndRead(r, t) ==
  /\ pc[r] = "idle"
  /\ status[t] # "ABSENT"
  /\ MayBecome(status[t], "COMPLETED")
  /\ Proceed(r, "change", t, "COMPLETED")

UpdateStatusRead(r, t, target) ==
  /\ pc[r] = "idle"
  /\ status[t] # "ABSENT"
  /\ MayBecome(status[t], target)
  /\ Proceed(r, "change", t, target)

(* The answer has been sent, or the handler threw: nothing of it is left.      *)
Finish(r) ==
  /\ pc' = [pc EXCEPT ![r] = "idle"]
  /\ call' = [call EXCEPT ![r] = NoCall]

(* MUTANT of UpdateWins: the update's WHERE clause has only the row's id.      *)
UpdateBlind(r) ==
  /\ pc[r] = "update"
  /\ status' = [status EXCEPT ![call[r].trip] = call[r].target]
  /\ pc' = [pc EXCEPT ![r] = "reread"]
  /\ UNCHANGED <<booking, today, call, started, assignment>>

(* prisma.trip.updateMany with the status that was read in its WHERE clause.   *)
UpdateWins(r) ==
  /\ pc[r] = "update"
  /\ status[call[r].trip] = call[r].seen
  /\ status' = [status EXCEPT ![call[r].trip] = call[r].target]
  /\ pc' = [pc EXCEPT ![r] = "reread"]
  /\ UNCHANGED <<booking, today, call, started, assignment>>

(* updateResult.count = 0: "Concurrency error: Trip status changed".           *)
UpdateLoses(r) ==
  /\ pc[r] = "update"
  /\ status[call[r].trip] # call[r].seen
  /\ Finish(r)
  /\ UNCHANGED <<status, booking, today, started, assignment>>

(* prisma.trip.findUnique after the update: the row as it is now.              *)
Reread(r) ==
  /\ pc[r] = "reread"
  /\ call' = [call EXCEPT ![r] = Handling(@.op, @.trip, @.seen, @.target,
                                          status[@.trip])]
  /\ pc' = [pc EXCEPT ![r] = "publish"]
  /\ UNCHANGED <<status, booking, today, started, assignment>>

(* The audit log is written, 'trip.status.updated' goes out with the status    *)
(* first read and the one re-read, and startTrip adds 'trip.started'.          *)
Publish(r) ==
  /\ pc[r] = "publish"
  /\ started' = IF call[r].op = "start"
                THEN [started EXCEPT ![call[r].trip] = @ + 1]
                ELSE started
  /\ Finish(r)
  /\ UNCHANGED <<status, booking, today, assignment>>

(* An availability query found a trip, a database call or the audit write      *)
(* threw, or the process died: the handler ends where it stands and what it    *)
(* committed stays.                                                            *)
Abort(r) ==
  /\ pc[r] # "idle"
  /\ Finish(r)
  /\ EndTransaction(r)
  /\ UNCHANGED <<status, booking, today, started, foreseen>>

Midnight ==
  /\ today < MaxDay
  /\ today' = today + 1
  /\ UNCHANGED <<status, booking, pc, call, started, assignment>>

Handle(r) ==
  \/ \E b \in Bookings : AssignBegin(r, b)
  \/ AssignCheck(r, "vehicle", "schedule")
  \/ AssignCheck(r, "schedule", "create")
  \/ \E t \in Trips : AssignCreate(r, t)
  \/ \E t \in Trips : StartRead(r, t)
  \/ \E t \in Trips : EndRead(r, t)
  \/ \E t \in Trips, target \in TripStatus : UpdateStatusRead(r, t, target)
  \/ UpdateWins(r)
  \/ UpdateLoses(r)
  \/ Reread(r)
  \/ Publish(r)
  \/ Abort(r)

Next == Midnight \/ \E r \in Requests : Handle(r)

Spec == Init /\ [][Next]_vars

-------------------------------------------------------------------------------
(* Every variable keeps the type its column or local variable has.             *)
TypeOK ==
  /\ status \in [Trips -> RowStatus]
  /\ booking \in [Trips -> Bookings \cup {NoBooking}]
  /\ today \in Days
  /\ pc \in [Requests -> {"idle", "vehicle", "schedule", "create",
                          "update", "reread", "publish"}]
  /\ want \in [Requests -> Bookings \cup {NoBooking}]
  /\ call \in [Requests -> Calls]
  /\ started \in [Trips -> Nat]
  /\ known \in [Requests -> SUBSET Trips]
  /\ foreseen \in [Trips -> SUBSET Trips]

(* The two bookings want the same driver, vehicle or schedule on one day.      *)
Clash(a, b) ==
  /\ a.day = b.day
  /\ \/ a.driver = b.driver
     \/ a.vehicle = b.vehicle
     \/ a.schedule = b.schedule

(* What trip.assignment.engine.ts is there to refuse and its tests promise:    *)
(* two live trips on one day that share a driver, a vehicle or a schedule.     *)
(* Two assignments in flight at once can obtain it.                            *)
NoDoubleBooking ==
  \A t, u \in Trips :
    t # u /\ Live(t) /\ Live(u) => ~Clash(booking[t], booking[u])

(* And nothing else can: of two live trips that clash, neither was in the      *)
(* table when the assignment of the other began, however many assignments are  *)
(* in flight. It rests on more than the three queries: a stale status update   *)
(* that revived a cancelled trip would double-book the driver who got another  *)
(* trip in between.                                                            *)
OnlyRacesDoubleBook ==
  \A t, u \in Trips :
    t # u /\ Live(t) /\ Live(u) /\ Clash(booking[t], booking[u]) => t \notin foreseen[u]

(* 'trip.started' is published at most once in a trip's life, and only for a   *)
(* trip that really left SCHEDULED by starting: a retried or a concurrent      *)
(* startTrip must not announce a second start, nor one that lost to a          *)
(* cancellation.                                                               *)
StartAnnouncedOnce ==
  \A t \in Trips : /\ started[t] <= 1
                   /\ started[t] = 1 => status[t] \in Later["STARTED"]

(* What a handler is about to publish is true history: the trip went from the  *)
(* old status it read to the new status it re-read along arrows of the table,  *)
(* and from there to the status it has now.                                    *)
AnnouncementIsHistory ==
  \A r \in Requests :
    pc[r] = "publish" =>
      /\ call[r].now \in Later[call[r].seen]
      /\ status[call[r].trip] \in Later[call[r].now]

(* The handlers with an assignment's transaction open.                         *)
Assigning == {r \in Requests : pc[r] \in {"vehicle", "schedule", "create"}}

(* The requests together behave as TripBoard: each operation takes effect at   *)
(* once, an assignment by what there was when it began.                        *)
Board == INSTANCE TripBoard WITH open <- Assigning
ImplementsTripBoard == Board!Spec
================================================================================
