--------------------------------- MODULE LocationFeed ---------------------------------
(* A driver's positions on their way to the passengers' room and the ETA engine: *)
(* gpsManager and useLocationBroadcast on the driver's devices, the queue of the *)
(* socket client, the location handlers, which keep the active trip with the     *)
(* socket and the last sequence number with the driver, and ETAEngineService.    *)
(*                                                                              *)
(* Fixes are numbered over all devices; the number is a fix's timestamp. Each    *)
(* connection is a new socket on the server and delivers in order.               *)
EXTENDS Naturals, Sequences, FiniteSets, Functions

CONSTANTS
  Devices,      \* the devices on which the driver is signed in
  Journeys,     \* the trips the driver drives
  MaxFixes,     \* BOUND: fixes that gpsManager lets through
  MaxOutages,   \* BOUND: connections lost
  MaxStarts     \* BOUND: calls of startTracking

(* The bounds are numbers.                                                      *)
ASSUME FeedAssumption == MaxFixes \in Nat /\ MaxOutages \in Nat /\ MaxStarts \in Nat

VARIABLES
  track,      \* device -> trip its watch is for, or "none"
  count,      \* device -> sequenceNumberRef
  online,     \* device -> has its socket a connection?
  held,       \* device -> events waiting in the socket client
  packets,    \* device -> events on the connection
  active,     \* device -> activeTripId of its socket on the server, or "none"
  lastSeq,    \* driverSequenceCache of the driver: last number plus one
  eta,        \* trip -> the ETA engine's state, or NoEta
  shown,      \* the last position broadcast: the room's trip, and the fix
  late,       \* devices of which an update was dropped as out of order
  fixes, outages, starts

lfVars == <<track, count, online, held, packets, active, lastSeq, eta, shown, late,
            fixes, outages, starts>>
driverSide == <<track, count, fixes, starts>>
serverSide == <<active, lastSeq, eta, shown, late>>

NoEta == [at |-> 0, sequence |-> 0]
NoFix == [trip |-> "none", at |-> 0]

LfInit ==
  /\ track = [d \in Devices |-> "none"] /\ count = [d \in Devices |-> 0]
  /\ online = [d \in Devices |-> FALSE]
  /\ held = [d \in Devices |-> <<>>] /\ packets = [d \in Devices |-> <<>>]
  /\ active = [d \in Devices |-> "none"] /\ lastSeq = 0
  /\ eta = [t \in Journeys |-> NoEta]
  /\ shown = [room |-> "none", fix |-> NoFix] /\ late = {}
  /\ fixes = 0 /\ outages = 0 /\ starts = [d \in Devices |-> 0]

-----------------------------------------------------------------------------------
Start(t) == [kind |-> "start", trip |-> t, seq |-> 0, at |-> 0]
Update(t, n, at) == [kind |-> "update", trip |-> t, seq |-> n, at |-> at]
Stop == [kind |-> "stop", trip |-> "none", seq |-> 0, at |-> 0]

(* socketClient.emit.                                                           *)
Emit(d, events) ==
  IF online[d]
  THEN packets' = [packets EXCEPT ![d] = @ \o events] /\ UNCHANGED held
  ELSE held' = [held EXCEPT ![d] = @ \o events] /\ UNCHANGED packets

(* startTracking, also while another trip is being tracked.                     *)
StartTracking(d, t) ==
  /\ FoldFunction(+, 0, starts) < MaxStarts /\ track[d] # t
  /\ starts' = [starts EXCEPT ![d] = @ + 1]
  /\ track' = [track EXCEPT ![d] = t] /\ count' = [count EXCEPT ![d] = 0]
  /\ UNCHANGED <<online, held, packets, serverSide, fixes, outages>>

(* A fix that the accuracy filter and the throttle let through. The first one   *)
(* of a watch starts the trip.                                                  *)
Fix(d) ==
  /\ track[d] # "none" /\ fixes < MaxFixes
  /\ fixes' = fixes + 1 /\ count' = [count EXCEPT ![d] = @ + 1]
  /\ Emit(d, (IF count[d] = 0 THEN <<Start(track[d])>> ELSE <<>>)
             \o <<Update(track[d], count[d] + 1, fixes + 1)>>)
  /\ UNCHANGED <<track, online, serverSide, outages, starts>>

StopTracking(d) ==
  /\ track[d] # "none"
  /\ track' = [track EXCEPT ![d] = "none"]
  /\ Emit(d, <<Stop>>)
  /\ UNCHANGED <<count, fixes, starts, online, serverSide, outages>>

(* MUTANT of NewSocket: the active trip is kept with the driver.                *)
NewSocketKeeping(d) == UNCHANGED active

NewSocket(d) == active' = [active EXCEPT ![d] = "none"]

(* 'connect': the queue is flushed into the new connection.                     *)
GoOnline(d) ==
  /\ ~online[d]
  /\ online' = [online EXCEPT ![d] = TRUE]
  /\ NewSocket(d)
  /\ packets' = [packets EXCEPT ![d] = held[d]] /\ held' = [held EXCEPT ![d] = <<>>]
  /\ UNCHANGED <<driverSide, lastSeq, eta, shown, late, outages>>

(* What is on the connection is lost with it.                                   *)
GoOffline(d) ==
  /\ online[d] /\ outages < MaxOutages
  /\ outages' = outages + 1
  /\ online' = [online EXCEPT ![d] = FALSE]
  /\ packets' = [packets EXCEPT ![d] = <<>>]
  /\ UNCHANGED <<driverSide, held, serverSide>>

-----------------------------------------------------------------------------------
Newer(t, at) == at > eta[t].at

(* processLocationUpdate. The noise filter may drop the fix; one that moved too *)
(* little only renews the time of the last location; of the others the first    *)
(* is broadcast, and later ones if the ETA has shifted or half a minute passed. *)
ProcessEta(t, at) ==
  \/ UNCHANGED eta
  \/ /\ Newer(t, at) /\ eta[t].sequence > 0
     /\ eta' = [eta EXCEPT ![t].at = at]
  \/ /\ Newer(t, at)
     /\ eta' = [eta EXCEPT ![t] = [at |-> at, sequence |-> @.sequence + 1]]

(* MUTANT of HandleStart: a new trip goes on with the old numbers.              *)
HandleStartKeeping(d, e) ==
  /\ active' = [active EXCEPT ![d] = e.trip]
  /\ UNCHANGED <<lastSeq, eta, shown, late>>

HandleStart(d, e) ==
  /\ active' = [active EXCEPT ![d] = e.trip]
  /\ lastSeq' = 0
  /\ UNCHANGED <<eta, shown, late>>

(* Out of order, too old or ahead by the server's clock, or broadcast.          *)
HandleUpdate(d, e) ==
  \/ /\ active[d] # "none" /\ e.seq < lastSeq
     /\ late' = late \cup {d} /\ UNCHANGED <<active, lastSeq, eta, shown>>
  \/ (active[d] = "none" \/ e.seq >= lastSeq) /\ UNCHANGED serverSide
  \/ /\ active[d] # "none" /\ e.seq >= lastSeq
     /\ lastSeq' = e.seq + 1
     /\ shown' = [room |-> active[d], fix |-> [trip |-> e.trip, at |-> e.at]]
     /\ ProcessEta(active[d], e.at)
     /\ UNCHANGED <<active, late>>

HandleStop(d) ==
  active' = [active EXCEPT ![d] = "none"] /\ UNCHANGED <<lastSeq, eta, shown, late>>

Receive(d) ==
  /\ packets[d] # <<>>
  /\ packets' = [packets EXCEPT ![d] = Tail(@)]
  /\ LET e == Head(packets[d]) IN
       \/ e.kind = "start" /\ HandleStart(d, e)
       \/ e.kind = "update" /\ HandleUpdate(d, e)
       \/ e.kind = "stop" /\ HandleStop(d)
  /\ UNCHANGED <<driverSide, online, held, outages>>

LfNext ==
  \E d \in Devices :
    \/ \E t \in Journeys : StartTracking(d, t)
    \/ Fix(d) \/ StopTracking(d) \/ GoOnline(d) \/ GoOffline(d) \/ Receive(d)

LfSpec == LfInit /\ [][LfNext]_lfVars

-----------------------------------------------------------------------------------
(* TYPE. What the variables range over.                                         *)
LfTypeOK ==
  /\ track \in [Devices -> Journeys \cup {"none"}] /\ active \in [Devices -> Journeys \cup {"none"}]
  /\ count \in [Devices -> 0 .. MaxFixes] /\ lastSeq \in 0 .. MaxFixes + 1
  /\ \A d \in Devices : online[d] => held[d] = <<>>
  /\ \A d \in Devices : ~online[d] => packets[d] = <<>>
  /\ late \subseteq Devices
  /\ \A t \in Journeys : eta[t].at \in 0 .. MaxFixes /\ eta[t].sequence <= eta[t].at

(* SAFETY. A position is only ever broadcast to the room of the trip it was     *)
(* recorded for, however many connections lie between the fix and its arrival,  *)
(* and whichever trips the driver's devices track meanwhile.                    *)
PositionsGoToTheirTrip == shown.room = shown.fix.trip

(* SAFETY. Without a second device no update is taken for an old one: what the  *)
(* sequence numbers drop is never the only account of where the bus is.         *)
OnlyRivalsAreLate ==
  late # {} => \E c, d \in Devices : c # d /\ starts[c] > 0 /\ starts[d] > 0
===================================================================================
