---------------------------------- MODULE FleetFeed ----------------------------------
(* The fleet picture of one organisation: FleetService keeps it, FleetAggregator *)
(* collects its changes and broadcasts their merge every three seconds, a socket *)
(* that joins the admin room is sent a snapshot, and useFleetMonitoring with     *)
(* useFleetStore keeps an administrator's copy.                                  *)
(*                                                                              *)
(* The only version there is is the server's clock in milliseconds: several      *)
(* changes can have the same one. A vehicle's state is the number of its change. *)
EXTENDS Naturals, Sequences, FiniteSets, FiniteSetsExt

CONSTANTS
  Vehicles,
  DeltaCap,      \* 501 in the code: the queue is cut when its length exceeds 500
  MaxChanges,    \* BOUND: location broadcasts
  MaxClock,      \* BOUND: the clock
  MaxVisits      \* BOUND: connections of the administrator

(* The queue holds something, and the bounds are numbers.                       *)
ASSUME FleetAssumption ==
  /\ DeltaCap \in Nat \ {0} /\ MaxClock \in Nat \ {0}
  /\ MaxChanges \in Nat /\ MaxVisits \in Nat

VARIABLES
  clock,
  fleet,      \* FleetService: the version and the vehicles' states
  deltas,     \* pendingDeltas: version, vehicle, state
  visit,      \* "none"; "early" or "late": was the page mounted when it connected?
  inbox,      \* messages on the administrator's connection
  copy,       \* useFleetStore: version and vehicles
  missed,     \* vehicles with a change that the administrator cannot have got
  changes, visits

ffVars == <<clock, fleet, deltas, visit, inbox, copy, missed, changes, visits>>

Parked == [v \in Vehicles |-> 0]

FfInit ==
  /\ clock = 1
  /\ fleet = [version |-> 1, vehicles |-> Parked]
  /\ deltas = <<>>
  /\ visit = "none" /\ inbox = <<>>
  /\ copy = [version |-> 0, vehicles |-> Parked]
  /\ missed = {} /\ changes = 0 /\ visits = 0

ClockTicks ==
  /\ clock < MaxClock /\ clock' = clock + 1
  /\ UNCHANGED <<fleet, deltas, visit, inbox, copy, missed, changes, visits>>

(* MUTANT of QueueDelta: a full queue loses its latest change, pop for shift.   *)
QueueDeltaPopping(delta) ==
  deltas' = Append(IF Len(deltas) = DeltaCap THEN SubSeq(deltas, 1, DeltaCap - 1) ELSE deltas,
                   delta)

(* queueDelta: a full queue loses its oldest change.                            *)
QueueDelta(delta) ==
  deltas' = Append(IF Len(deltas) = DeltaCap THEN Tail(deltas) ELSE deltas, delta)

Cut == IF Len(deltas) = DeltaCap THEN {deltas[1].vehicle} ELSE {}

(* Has a snapshot with this version been taken for the connection there is?     *)
Tied(version) ==
  visit # "none" /\
    (copy.version = version \/ \E i \in DOMAIN inbox : inbox[i].version = version)

(* A location broadcast: updateVehicleState and queueDelta.                     *)
Change(v) ==
  /\ changes < MaxChanges /\ changes' = changes + 1
  /\ fleet' = [version |-> clock, vehicles |-> [fleet.vehicles EXCEPT ![v] = changes + 1]]
  /\ QueueDelta([version |-> clock, vehicle |-> v, state |-> changes + 1])
  /\ missed' = missed \cup Cut \cup (IF Tied(clock) THEN {v} ELSE {})
  /\ UNCHANGED <<clock, visit, inbox, copy, visits>>

(* MUTANT of Merged: the first change of a vehicle wins.                        *)
MergedFirst ==
  [v \in {deltas[i].vehicle : i \in DOMAIN deltas} |->
     deltas[Min({i \in DOMAIN deltas : deltas[i].vehicle = v})].state]

Merged ==
  [v \in {deltas[i].vehicle : i \in DOMAIN deltas} |->
     deltas[Max({i \in DOMAIN deltas : deltas[i].vehicle = v})].state]

LatestVersion == Max({deltas[i].version : i \in DOMAIN deltas})

(* The interval of startDeltaFlusher.                                           *)
FlushDeltas ==
  /\ deltas # <<>> /\ deltas' = <<>>
  /\ inbox' = IF visit = "none" THEN inbox
              ELSE Append(inbox, [kind |-> "delta", version |-> LatestVersion, vehicles |-> Merged])
  /\ UNCHANGED <<clock, fleet, visit, copy, missed, changes, visits>>

SnapshotOf(picture) ==
  [kind |-> "snapshot", version |-> picture.version, vehicles |-> picture.vehicles]

(* The socket joins the admin room and is sent the snapshot; the events queue   *)
(* and the store are the browser's, and the store outlives the page.            *)
Visit(how) ==
  /\ visit = "none" /\ visits < MaxVisits
  /\ visit' = how /\ visits' = visits + 1
  /\ inbox' = IF how = "early" THEN <<SnapshotOf(fleet)>> ELSE <<>>
  /\ missed' = {}
  /\ UNCHANGED <<clock, fleet, deltas, copy, changes>>

Leave ==
  /\ visit # "none" /\ visit' = "none" /\ inbox' = <<>>
  /\ UNCHANGED <<clock, fleet, deltas, copy, missed, changes, visits>>

Overwrite(new) == [v \in Vehicles |-> IF v \in DOMAIN new THEN new[v] ELSE copy.vehicles[v]]

(* handleSnapshot and handleDelta.                                              *)
TakeMessage ==
  /\ inbox # <<>> /\ inbox' = Tail(inbox)
  /\ LET m == Head(inbox) IN
       copy' = CASE m.kind = "snapshot" -> [version |-> m.version, vehicles |-> m.vehicles]
                 [] m.kind = "delta" /\ m.version > copy.version ->
                      [version |-> m.version, vehicles |-> Overwrite(m.vehicles)]
                 [] OTHER -> copy
  /\ UNCHANGED <<clock, fleet, deltas, visit, missed, changes, visits>>

FfNext ==
  \/ ClockTicks \/ FlushDeltas \/ Leave \/ TakeMessage
  \/ \E v \in Vehicles : Change(v)
  \/ \E how \in {"early", "late"} : Visit(how)

FfSpec == FfInit /\ [][FfNext]_ffVars

-----------------------------------------------------------------------------------
(* TYPE. What the variables range over; the queue keeps its bound.              *)
FfTypeOK ==
  /\ fleet \in [version : 1 .. MaxClock, vehicles : [Vehicles -> 0 .. MaxChanges]]
  /\ copy \in [version : 0 .. MaxClock, vehicles : [Vehicles -> 0 .. MaxChanges]]
  /\ Len(deltas) <= DeltaCap /\ missed \subseteq Vehicles
  /\ visit \in {"none", "early", "late"} /\ (visit = "none" => inbox = <<>>)

(* SAFETY. When nothing is under way, a page that was open when its connection  *)
(* was made shows the server's state of every vehicle: snapshots and merged     *)
(* deltas overlap and carry clock times for versions, and still only a change   *)
(* that the full queue has cut, or one made in the very millisecond of a        *)
(* version the page already had, is ever missing.                               *)
QuietCopyIsTrue ==
  visit = "early" /\ inbox = <<>> /\ deltas = <<>> =>
    \A v \in Vehicles \ missed : copy.vehicles[v] = fleet.vehicles[v]

(* ACTION. The picture never goes back: whatever the page takes, a snapshot or  *)
(* a merge of deltas that waited longer than it, no vehicle returns to a state  *)
(* before the one shown.                                                        *)
PictureNeverGoesBack ==
  [][\A v \in Vehicles : copy.vehicles[v] <= copy'.vehicles[v]]_ffVars
===================================================================================
