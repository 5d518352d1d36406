--------------------------------- MODULE FenceWatch ---------------------------------
(* GPS pings over REST and what follows from them: GpsTrackingService stores the *)
(* ping, GeofenceEvaluationService places it by the fences its process has       *)
(* cached, and AlertProcessingService decides by the last place in Redis whether *)
(* the vehicle has crossed a fence, and stores and announces what has not been   *)
(* announced within two minutes. One trip and one fence.                         *)
(*                                                                              *)
(* Every request is served by a process of its own choice, with an await between *)
(* any two steps here; pings are numbered, and the number is their recordedAt.   *)
EXTENDS Naturals, Sequences, FiniteSets, FiniteSetsExt

CONSTANTS
  Pings,         \* BOUND: the requests; a set of numbers, the times of recording
  Hosts,         \* server processes
  MaxEdits,      \* BOUND: changes of the fence
  MaxExpiries    \* BOUND: deduplication locks that run out

(* The times of recording are distinct and after the epoch.                     *)
ASSUME PingAssumption == Pings \subseteq Nat \ {0}

Spots == {"here", "there"}

VARIABLES
  driving,    \* is the trip in an active state?
  stored,     \* TripPing rows in the order of their creation
  ping,       \* request -> how far it has come
  fence,      \* the Geofence row: where it is, its type; or NoFence
  cache,      \* process -> the fence it has cached, or Unset
  hydrations, \* queries answered but not yet stored: process, fence, the request that asked
  lastPlace,  \* gf_state of trip and fence in Redis: inside?
  crossings,  \* the ENTER and EXIT events decided upon
  lock,       \* categories whose alert:... key exists
  locked,     \* category -> how often its lock was taken
  alerts,     \* SmartAlert rows
  edits, expiries

fwVars == <<driving, stored, ping, fence, cache, hydrations, lastPlace, crossings, lock,
            locked, alerts, edits, expiries>>
alerting == <<lock, locked, alerts>>

NoFence == [spot |-> "nowhere", type |-> "none"]
Unset == [spot |-> "unknown", type |-> "none"]
Categories == {"GEOFENCE_ENTER", "GEOFENCE_EXIT", "UNAUTHORIZED_AREA", "SPEEDING"}
Fresh == [step |-> "new", host |-> "none", last |-> 0, seen |-> 0, inside |-> FALSE,
          type |-> "none", was |-> FALSE, todo |-> <<>>, held |-> 0]

FwInit ==
  /\ driving = TRUE /\ stored = <<>>
  /\ ping = [p \in Pings |-> Fresh]
  /\ fence = NoFence /\ cache = [h \in Hosts |-> Unset] /\ hydrations = {}
  /\ lastPlace = FALSE /\ crossings = <<>>
  /\ lock = {} /\ locked = [c \in Categories |-> 0] /\ alerts = <<>>
  /\ edits = 0 /\ expiries = 0

-----------------------------------------------------------------------------------
(* recordPing: only the pings of a trip in an active state are taken.           *)
FindActiveTrip(p, h) ==
  /\ ping[p].step = "new"
  /\ ping' = [ping EXCEPT ![p].step = IF driving THEN "trip" ELSE "done",
                          ![p].host = h, ![p].seen = Len(stored)]
  /\ UNCHANGED <<driving, stored, fence, cache, hydrations, lastPlace, crossings, alerting,
                 edits, expiries>>

EndDriving ==
  /\ driving /\ driving' = FALSE
  /\ UNCHANGED <<stored, ping, fence, cache, hydrations, lastPlace, crossings, alerting,
                 edits, expiries>>

Latest == IF stored = <<>> THEN 0 ELSE Max({stored[i].at : i \in DOMAIN stored})
SequenceAt(at) ==
  IF at = 0 THEN 0 ELSE stored[CHOOSE i \in DOMAIN stored : stored[i].at = at].sequence

(* MUTANT of Stale: only a repetition is discarded.                             *)
StaleIfRepeated(p) == p = Latest

Stale(p) == p <= Latest

FindLatestPing(p) ==
  /\ ping[p].step = "trip"
  /\ ping' = [ping EXCEPT ![p].step = IF Stale(p) THEN "done" ELSE "last",
                          ![p].last = SequenceAt(Latest)]
  /\ UNCHANGED <<driving, stored, fence, cache, hydrations, lastPlace, crossings, alerting,
                 edits, expiries>>

CreatePing(p) ==
  /\ ping[p].step = "last"
  /\ stored' = Append(stored, [at |-> p, sequence |-> ping[p].last + 1, seen |-> ping[p].seen])
  /\ ping' = [ping EXCEPT ![p].step = "stored"]
  /\ UNCHANGED <<driving, fence, cache, hydrations, lastPlace, crossings, alerting,
                 edits, expiries>>

-----------------------------------------------------------------------------------
(* createGeofence, updateGeofence, deleteGeofence; a fence that is not active   *)
(* counts as none. Every process is notified and asks the database.             *)
Edit(f) ==
  /\ f # fence /\ edits < MaxEdits
  /\ edits' = edits + 1 /\ fence' = f
  /\ \E notified \in SUBSET Hosts :
       hydrations' = hydrations \cup {[host |-> h, fence |-> f, by |-> 0] : h \in notified}
  /\ UNCHANGED <<driving, stored, ping, cache, lastPlace, crossings, alerting, expiries>>

(* getGeofencesForOrg: the first ping of the organisation on a process.         *)
AskForFences(p) ==
  LET h == ping[p].host IN
  /\ ping[p].step = "stored" /\ cache[h] = Unset
  /\ ping' = [ping EXCEPT ![p].step = "asking"]
  /\ hydrations' = hydrations \cup {[host |-> h, fence |-> fence, by |-> p]}
  /\ UNCHANGED <<driving, stored, fence, cache, lastPlace, crossings, alerting,
                 edits, expiries>>

(* hydrateCacheForOrg, after its query; a query that failed leaves the cache.   *)
Hydrate(q) ==
  /\ hydrations' = hydrations \ {q}
  /\ \/ cache' = [cache EXCEPT ![q.host] = q.fence]
     \/ UNCHANGED cache
  /\ ping' = [p \in Pings |-> IF p = q.by THEN [ping[p] EXCEPT !.step = "asked"] ELSE ping[p]]
  /\ UNCHANGED <<driving, stored, fence, lastPlace, crossings, alerting, edits, expiries>>

(* evaluateLocation. No fences, no results.                                     *)
Evaluate(p, spot) ==
  LET f == cache[ping[p].host] IN
  /\ \/ ping[p].step = "asked"
     \/ ping[p].step = "stored" /\ f # Unset
  /\ ping' = IF f \in {NoFence, Unset}
             THEN [ping EXCEPT ![p].step = "done"]
             ELSE [ping EXCEPT ![p].step = "placed", ![p].type = f.type,
                               ![p].inside = (spot = f.spot)]
  /\ UNCHANGED <<driving, stored, fence, cache, hydrations, lastPlace, crossings, alerting,
                 edits, expiries>>

-----------------------------------------------------------------------------------
Crossing(p, was) ==
  CASE ping[p].inside /\ ~was -> <<IF ping[p].type = "RESTRICTED" THEN "UNAUTHORIZED_AREA"
                                                                  ELSE "GEOFENCE_ENTER">>
    [] ~ping[p].inside /\ was -> <<"GEOFENCE_EXIT">>
    [] OTHER -> <<>>

(* What evaluateRulesAndDispatch does once it knows where the vehicle was.      *)
Judge(p, fast, was) ==
  /\ crossings' = IF Crossing(p, was) = <<>> THEN crossings
                  ELSE Append(crossings, ping[p].inside)
  /\ ping' = [ping EXCEPT
       ![p].step = "alerting",
       ![p].todo = Crossing(p, was)
                   \o (IF ping[p].inside /\ fast THEN <<"SPEEDING">> ELSE <<>>)]

(* MUTANT of GetSet: the last place was read when the ping was placed.          *)
GetThenSet(p, fast) ==
  IF ping[p].step = "placed"
  THEN /\ ping' = [ping EXCEPT ![p].step = "read", ![p].was = lastPlace]
       /\ UNCHANGED <<lastPlace, crossings>>
  ELSE lastPlace' = ping[p].inside /\ Judge(p, fast, ping[p].was)

GetSet(p, fast) == lastPlace' = ping[p].inside /\ Judge(p, fast, lastPlace)

(* A ping within a fence may also be too fast for it.                           *)
Compare(p, fast) ==
  /\ ping[p].step \in {"placed", "read"}
  /\ GetSet(p, fast)
  /\ UNCHANGED <<driving, stored, fence, cache, hydrations, alerting, edits, expiries>>

(* MUTANT of Free: the key is set without NX.                                   *)
FreeOrNot(c) == TRUE

Free(c) == c \notin lock

Transient(c) == c \in {"GEOFENCE_ENTER", "GEOFENCE_EXIT"}

(* processAlert: the lock. A duplicate is skipped, and so is an alert when Redis *)
(* fails; one of low priority is only broadcast.                                *)
TakeLock(p) ==
  LET c == Head(ping[p].todo) IN
  /\ ping[p].step = "alerting" /\ ping[p].todo # <<>>
  /\ \/ /\ Free(c)
        /\ lock' = lock \cup {c}
        /\ locked' = [locked EXCEPT ![c] = IF c \in lock THEN @ ELSE @ + 1]
        /\ ping' = IF Transient(c)
                   THEN [ping EXCEPT ![p].todo = Tail(@)]
                   ELSE [ping EXCEPT ![p].step = "locked", ![p].held = locked'[c]]
     \/ /\ ping' = [ping EXCEPT ![p].todo = Tail(@)]
        /\ UNCHANGED <<lock, locked>>
  /\ UNCHANGED <<driving, stored, fence, cache, hydrations, lastPlace, crossings, alerts,
                 edits, expiries>>

(* The row is created, or an error is swallowed and the lock stays.             *)
StoreAlert(p) ==
  LET c == Head(ping[p].todo) IN
  /\ ping[p].step = "locked"
  /\ \/ alerts' = Append(alerts, [category |-> c, held |-> ping[p].held, status |-> "ACTIVE"])
     \/ UNCHANGED alerts
  /\ ping' = [ping EXCEPT ![p].step = "alerting", ![p].todo = Tail(@)]
  /\ UNCHANGED <<driving, stored, fence, cache, hydrations, lastPlace, crossings, lock,
                 locked, edits, expiries>>

LockExpires(c) ==
  /\ c \in lock /\ expiries < MaxExpiries
  /\ expiries' = expiries + 1 /\ lock' = lock \ {c}
  /\ UNCHANGED <<driving, stored, ping, fence, cache, hydrations, lastPlace, crossings,
                 locked, alerts, edits>>

(* acknowledgeAlert and resolveAlert, each whatever the status was.             *)
Attend(i, status) ==
  /\ alerts[i].status # "PURGED"
  /\ alerts' = [alerts EXCEPT ![i].status = status]
  /\ UNCHANGED <<driving, stored, ping, fence, cache, hydrations, lastPlace, crossings, lock,
                 locked, edits, expiries>>

(* cleanupExpiredAlerts, ninety days later: all but the active ones.            *)
CleanupExpired ==
  /\ \E i \in DOMAIN alerts : alerts[i].status \notin {"ACTIVE", "PURGED"}
  /\ \A p \in Pings : ping[p].step \in {"new", "done"} \/ ping[p].todo = <<>>
  /\ alerts' = [i \in DOMAIN alerts |->
       IF alerts[i].status = "ACTIVE" THEN alerts[i] ELSE [alerts[i] EXCEPT !.status = "PURGED"]]
  /\ UNCHANGED <<driving, stored, ping, fence, cache, hydrations, lastPlace, crossings, lock,
                 locked, edits, expiries>>

FwNext ==
  \/ EndDriving \/ CleanupExpired
  \/ \E p \in Pings :
       \/ \E h \in Hosts : FindActiveTrip(p, h)
       \/ FindLatestPing(p) \/ CreatePing(p) \/ AskForFences(p)
       \/ \E spot \in Spots : Evaluate(p, spot)
       \/ \E fast \in BOOLEAN : Compare(p, fast)
       \/ TakeLock(p) \/ StoreAlert(p)
  \/ \E spot \in Spots, type \in {"SCHOOL", "RESTRICTED"} : Edit([spot |-> spot, type |-> type])
  \/ Edit(NoFence)
  \/ \E q \in hydrations : Hydrate(q)
  \/ \E c \in Categories : LockExpires(c)
  \/ \E i \in DOMAIN alerts, status \in {"ACKNOWLEDGED", "RESOLVED"} : Attend(i, status)

FwSpec == FwInit /\ [][FwNext]_fwVars

-----------------------------------------------------------------------------------
(* TYPE. What the variables range over.                                         *)
FwTypeOK ==
  /\ lock \subseteq Categories /\ locked \in [Categories -> Nat]
  /\ \A i \in DOMAIN stored : stored[i].at \in Pings /\ stored[i].seen < i
  /\ \A i \in DOMAIN alerts : alerts[i].status \in {"ACTIVE", "ACKNOWLEDGED", "RESOLVED", "PURGED"}

(* SAFETY. However the requests of several pings overlap, a vehicle is never    *)
(* found entering a fence twice without leaving it in between, or leaving it    *)
(* twice: one of two overlapping pings takes the crossing. (A request may stop  *)
(* at any step here, but no answer of GETSET is lost on its way back.)          *)
CrossingsAlternate ==
  \A i \in DOMAIN crossings : crossings[i] = (i % 2 = 1)

(* SAFETY. Between two alerts stored for the same reason the deduplication lock *)
(* has run out, also when a request holds an alert back beyond the lock's time. *)
OneAlertPerLock ==
  \A i, j \in DOMAIN alerts :
    i # j => <<alerts[i].category, alerts[i].held>> # <<alerts[j].category, alerts[j].held>>

(* SAFETY. A stored ping is newer than everything that was stored before its    *)
(* request came: late pings are discarded, except between overlapping requests. *)
StoredInOrder ==
  \A i \in DOMAIN stored : \A j \in 1 .. stored[i].seen : stored[j].at < stored[i].at
===================================================================================
