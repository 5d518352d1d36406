--------------------------------- MODULE MCRealtime ---------------------------------
(* Five components that meet only across the network, checked side by side: the *)
(* initial state chooses one of Parts, which then runs alone, under its own     *)
(* fairness, while the others stay in their initial states. None of the fair    *)
(* actions is enabled in an initial state, so the fairness of the others asks   *)
(* for nothing.                                                                 *)
EXTENDS SocketGateway, SocketClient, AttendanceSync, BrowserSession, Screens

CONSTANT Parts

VARIABLE part

allVars == <<gwVars, clVars, atVars, bsVars, scVars, part>>

Init == part \in Parts /\ GwInit /\ ClInit /\ AtInit /\ BsInit /\ ScInit

Next ==
  /\ UNCHANGED part
  /\ \/ part = "gateway" /\ GwNext /\ UNCHANGED <<clVars, atVars, bsVars, scVars>>
     \/ part = "client" /\ ClNext /\ UNCHANGED <<gwVars, atVars, bsVars, scVars>>
     \/ part = "attendance" /\ AtNext /\ UNCHANGED <<gwVars, clVars, bsVars, scVars>>
     \/ part = "browser" /\ BsNext /\ UNCHANGED <<gwVars, clVars, atVars, scVars>>
     \/ part = "screens" /\ ScNext /\ UNCHANGED <<gwVars, clVars, atVars, bsVars>>

Spec ==
  /\ Init /\ [][Next]_allVars
  /\ GwFairness /\ ClFairness /\ AtFairness /\ BsFairness

(* TYPE. What the variables of the five components range over.                  *)
TypeOK == GwTypeOK /\ ClTypeOK /\ AtTypeOK /\ BsTypeOK /\ ScTypeOK

(* The gateway serves a parent and the driver of one trip, a socket each.       *)
UserOfSocket == [p1 |-> "parent", p2 |-> "parent", d1 |-> "driver", o1 |-> "operator"]
RoleOfUser == [driver |-> "DRIVER", parent |-> "PARENT", operator |-> "OPERATOR"]
OrgOfAny == [driver |-> "here", parent |-> "here", operator |-> "there", t1 |-> "here"]
DriverOfTrip == [t1 |-> "driver"]
====================================================================================
