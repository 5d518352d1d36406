-------------------------------- MODULE MCOperations --------------------------------
(* Ten components of the server that share no state, checked side by side: the  *)
(* initial state chooses one of Parts, which then runs alone.                   *)
EXTENDS SocketGateway, LocationFeed, FleetFeed, Reports, FenceWatch, Records,
  DailyAttendance, Preferences, HealthAlerts, HealthSnapshots, TLC

CONSTANT Parts

VARIABLE part

vars1 == <<gwVars, lfVars, ffVars, rpVars, fwVars>>
vars2 == <<rcVars, daVars, pfVars, haVars, hsVars>>
allVars == <<vars1, vars2, part>>

Init ==
  /\ part \in Parts
  /\ GwInit /\ LfInit /\ FfInit /\ RpInit /\ FwInit
  /\ RcInit /\ DaInit /\ PfInit /\ HaInit /\ HsInit

Next ==
  /\ UNCHANGED part
  /\ \/ /\ UNCHANGED vars2
        /\ \/ part = "gateway" /\ GwNext /\ UNCHANGED <<lfVars, ffVars, rpVars, fwVars>>
           \/ part = "location" /\ LfNext /\ UNCHANGED <<gwVars, ffVars, rpVars, fwVars>>
           \/ part = "fleet" /\ FfNext /\ UNCHANGED <<gwVars, lfVars, rpVars, fwVars>>
           \/ part = "reports" /\ RpNext /\ UNCHANGED <<gwVars, lfVars, ffVars, fwVars>>
           \/ part = "fences" /\ FwNext /\ UNCHANGED <<gwVars, lfVars, ffVars, rpVars>>
     \/ /\ UNCHANGED vars1
        /\ \/ part = "records" /\ RcNext /\ UNCHANGED <<daVars, pfVars, haVars, hsVars>>
           \/ part = "register" /\ DaNext /\ UNCHANGED <<rcVars, pfVars, haVars, hsVars>>
           \/ part = "preferences" /\ PfNext /\ UNCHANGED <<rcVars, daVars, haVars, hsVars>>
           \/ part = "alerts" /\ HaNext /\ UNCHANGED <<rcVars, daVars, pfVars, hsVars>>
           \/ part = "snapshots" /\ HsNext /\ UNCHANGED <<rcVars, daVars, pfVars, haVars>>

Spec == Init /\ [][Next]_allVars

(* TYPE. What the variables of the ten components range over.                   *)
TypeOK ==
  /\ GwTypeOK /\ LfTypeOK /\ FfTypeOK /\ RpTypeOK /\ FwTypeOK
  /\ RcTypeOK /\ DaTypeOK /\ PfTypeOK /\ HaTypeOK /\ HsTypeOK

(* Every set of interchangeable values holds the same two, so that one exchange *)
(* serves whichever part runs.                                                  *)
Symmetry == Permutations(Workers)

(* Quiet hours round midnight that an emergency breaks, and none.               *)
Night == [enabled |-> {"IN_APP"}, override |-> TRUE, quiet |-> TRUE, start |-> 3, end |-> 1]
Loud == [enabled |-> Channels, override |-> FALSE, quiet |-> FALSE, start |-> 0, end |-> 0]
TwoOptions == {Night, Loud}

(* The gateway serves two sockets of a parent, the driver of the one trip, and  *)
(* an operator of another organisation.                                         *)
UserOfSocket == [p1 |-> "parent", p2 |-> "parent", d1 |-> "driver", o1 |-> "operator"]
RoleOfUser == [driver |-> "DRIVER", parent |-> "PARENT", operator |-> "OPERATOR"]
OrgOfAny == [driver |-> "here", parent |-> "here", operator |-> "there", t1 |-> "here"]
DriverOfTrip == [t1 |-> "driver"]

(* Two tenants with a row of every kind in one of them; the SUPER_ADMIN lives   *)
(* in the other.                                                                *)
SeedRows ==
  << NewRow("organization", "A", "A"), NewRow("organization", "B", "B"),
     NewRow("SUPER_ADMIN", "B", "root"), NewRow("ORG_ADMIN", "A", "chief"),
     NewRow("OPERATOR", "A", "clerk"), NewRow("PARENT", "A", "n1"),
     NewDriver("A", "n2", "n1"), NewRow("student", "A", "n1"), NewRow("student", "B", "n2"),
     NewRow("vehicle", "A", "n1"), NewRow("route", "A", "n1"),
     [NewRow("schedule", "A", "none") EXCEPT !.route = 11], NewRow("PARENT", "B", "n3") >>
====================================================================================
