---------------------------- MODULE RealtimeProofs ----------------------------
(* Proofs about the realtime side of the server: who is in which room, the    *)
(* positions of the drivers' devices, and the picture of the fleet, each for  *)
(* any number of sockets, users, trips, devices and vehicles and for every    *)
(* bound.                                                                     *)
EXTENDS SocketGateway, LocationFeed, FleetFeed, TLAPS

--------------------------------------------------------------------------------
(* SocketGateway. Presence and rooms, whoever connects, joins, leaves and     *)
(* closes while whatever queries are under way. What makes both hold is that  *)
(* a decision, its entry into the room and the check that the socket is still *)
(* open are one step, and that a parent waits for the second query only after *)
(* the first has placed the trip in the parent's own organisation.            *)

(* Whoever waits for the query of a stop is a parent of the trip's organisation.  *)
StopQueriesOK ==
  \A s \in Sockets, t \in Trips :
    <<s, t, "stop">> \in joining => Role(s) = "PARENT" /\ SameOrg(s, t)

(* The invariant of the gateway.                                              *)
GatewayInv == GwTypeOK /\ StopQueriesOK /\ PresenceIsTrue /\ MembersAreEntitled

--------------------------------------------------------------------------------
(* The kinds of rooms differ, and every room that a handler enters is a room.     *)
LEMMA RoomFacts ==
  ASSUME NEW s \in Sockets
  PROVE  /\ UserOf[s] \in Users /\ DefaultRooms(UserOf[s]) \subseteq Room
         /\ \A t \in Trips :
              /\ TripRoom(t) \in Room /\ DriverRoom(t) \in Room
              /\ TripRoom(t) \notin DefaultRooms(UserOf[s])
              /\ \A u \in Trips : TripRoom(t) # DriverRoom(u) /\ (TripRoom(t) = TripRoom(u) => t = u)
  BY UserAssumption
  DEF DefaultRooms, Room, Orgs, UserRoom, OrgRoom, AdminRoom, TripRoom, DriverRoom

(* It holds when nobody is connected.                                         *)
LEMMA GatewayInitHolds == GwInit => GatewayInv
  BY DEF GwInit, GatewayInv, GwTypeOK, StopQueriesOK, PresenceIsTrue, MembersAreEntitled, NoCast

(* The end of a join: whoever is let in had a reason.                             *)
LEMMA DecideHolds ==
  ASSUME GatewayInv, NEW s \in Sockets, NEW t \in Trips, NEW query \in {"trip", "stop"},
         NEW allowed \in BOOLEAN, allowed => Reason(s, t), Decide(s, t, query, allowed)
  PROVE  GatewayInv'
<1> USE RoomFacts DEF GatewayInv
<1>1. /\ rooms' \in [Sockets -> SUBSET Room] /\ entitled' \subseteq Sockets \X Trips
      /\ joining' \subseteq joining /\ entitled \subseteq entitled'
  BY DEF Decide, GwTypeOK, Enter, Justify
<1>2. GwTypeOK' /\ StopQueriesOK' /\ PresenceIsTrue'
  <2>1. GwTypeOK'
    BY <1>1 DEF Decide, GwTypeOK
  <2>2. StopQueriesOK'
    BY <1>1 DEF StopQueriesOK
  <2>3. PresenceIsTrue'
    BY DEF Decide, PresenceIsTrue
  <2> QED
    BY <2>1, <2>2, <2>3
<1>3. MembersAreEntitled'
  <2> SUFFICES ASSUME NEW q \in Sockets
               PROVE  /\ rooms'[q] # {} => conn'[q] = "open"
                      /\ \A u \in Trips : TripRoom(u) \in rooms'[q] => <<q, u>> \in entitled'
    BY DEF MembersAreEntitled
  <2>1. CASE rooms'[q] = rooms[q]
    BY <2>1, <1>1 DEF MembersAreEntitled, Decide
  <2>2. CASE rooms'[q] # rooms[q]
    <3>1. /\ q = s /\ allowed /\ conn[s] = "open"
          /\ rooms'[q] = rooms[s] \cup {TripRoom(t)} /\ entitled' = entitled \cup {<<s, t>>}
      BY <2>2 DEF Decide, Enter, Justify, GwTypeOK
    <3> QED
      BY <3>1 DEF MembersAreEntitled, Decide
  <2> QED
    BY <2>1, <2>2
<1> QED
  BY <1>2, <1>3

--------------------------------------------------------------------------------
(* A step that adds no trip's room leaves everyone where they had a right to be.  *)
LEMMA NobodyEnters ==
  ASSUME GatewayInv, conn' = conn, entitled' = entitled,
         \A q \in Sockets : /\ rooms'[q] # {} => conn[q] = "open"
                            /\ \A u \in Trips : TripRoom(u) \in rooms'[q] => TripRoom(u) \in rooms[q]
  PROVE  MembersAreEntitled'
  BY DEF GatewayInv, MembersAreEntitled

(* Every step preserves the invariant.                                            *)
LEMMA GatewayStepHolds == GatewayInv /\ [GwNext]_gwVars => GatewayInv'
<1> SUFFICES ASSUME GatewayInv, [GwNext]_gwVars PROVE GatewayInv'
  OBVIOUS
<1> USE RoomFacts
<1>1. ASSUME NEW s \in Sockets, Connect(s) PROVE GatewayInv'
  <2>1. GwTypeOK' /\ StopQueriesOK'
    BY <1>1 DEF Connect, MarkOnline, GatewayInv, GwTypeOK, StopQueriesOK
  <2>2. PresenceIsTrue'
    <3> SUFFICES ASSUME NEW u \in Users
                 PROVE  /\ session'[u] = {q \in Sockets : UserOf[q] = u /\ conn'[q] = "open"}
                        /\ told'[u] = "online" <=> session'[u] # {}
      BY DEF PresenceIsTrue
    <3>1. CASE u = UserOf[s]
      BY <1>1, <3>1 DEF Connect, MarkOnline, GatewayInv, GwTypeOK, PresenceIsTrue
    <3>2. CASE u # UserOf[s]
      BY <1>1, <3>2 DEF Connect, MarkOnline, GatewayInv, GwTypeOK, PresenceIsTrue
    <3> QED
      BY <3>1, <3>2
  <2>3. MembersAreEntitled'
    BY <1>1 DEF Connect, GatewayInv, GwTypeOK, MembersAreEntitled
  <2> QED
    BY <2>1, <2>2, <2>3 DEF GatewayInv
<1>2. ASSUME NEW s \in Sockets, Disconnect(s) PROVE GatewayInv'
  <2>1. GwTypeOK' /\ StopQueriesOK'
    BY <1>2 DEF Disconnect, MarkOffline, GatewayInv, GwTypeOK, StopQueriesOK
  <2>2. PresenceIsTrue'
    <3> SUFFICES ASSUME NEW u \in Users
                 PROVE  /\ session'[u] = {q \in Sockets : UserOf[q] = u /\ conn'[q] = "open"}
                        /\ told'[u] = "online" <=> session'[u] # {}
      BY DEF PresenceIsTrue
    <3>1. CASE u = UserOf[s]
      BY <1>2, <3>1 DEF Disconnect, MarkOffline, GatewayInv, GwTypeOK, PresenceIsTrue
    <3>2. CASE u # UserOf[s]
      BY <1>2, <3>2 DEF Disconnect, MarkOffline, GatewayInv, GwTypeOK, PresenceIsTrue
    <3> QED
      BY <3>1, <3>2
  <2>3. MembersAreEntitled'
    BY <1>2 DEF Disconnect, GatewayInv, GwTypeOK, MembersAreEntitled
  <2> QED
    BY <2>1, <2>2, <2>3 DEF GatewayInv
<1>3. ASSUME NEW s \in Sockets, LocationUpdate(s) PROVE GatewayInv'
  BY <1>3, NobodyEnters
  DEF LocationUpdate, InRoom, GatewayInv, GwTypeOK, StopQueriesOK, PresenceIsTrue, MembersAreEntitled
<1>4. ASSUME NEW s \in Sockets, LocationStop(s) PROVE GatewayInv'
  <2>1. GwTypeOK' /\ StopQueriesOK' /\ PresenceIsTrue'
    BY <1>4 DEF LocationStop, GatewayInv, GwTypeOK, StopQueriesOK, PresenceIsTrue
  <2>2. MembersAreEntitled'
    <3>1. \A q \in Sockets : rooms'[q] \subseteq rooms[q]
      BY <1>4 DEF LocationStop, GatewayInv, GwTypeOK
    <3> QED
      BY <1>4, <3>1 DEF LocationStop, GatewayInv, MembersAreEntitled
  <2> QED
    BY <2>1, <2>2 DEF GatewayInv
<1>5. ASSUME NEW s \in Sockets, NEW t \in Trips, JoinTrip(s, t) PROVE GatewayInv'
  BY <1>5 DEF JoinTrip, GatewayInv, GwTypeOK, StopQueriesOK, PresenceIsTrue, MembersAreEntitled
<1>6. ASSUME NEW s \in Sockets, NEW t \in Trips, FindTrip(s, t) PROVE GatewayInv'
  <2>1. CASE Role(s) = "PARENT" /\ SameOrg(s, t)
    BY <1>6, <2>1
    DEF FindTrip, GatewayInv, GwTypeOK, StopQueriesOK, PresenceIsTrue, MembersAreEntitled
  <2>2. CASE ~(Role(s) = "PARENT" /\ SameOrg(s, t))
    <3> DEFINE allowed == /\ SameOrg(s, t)
                          /\ \/ Role(s) \in Staff
                             \/ Role(s) = "DRIVER" /\ DriverOf[t] = UserOf[s]
    <3>1. allowed \in BOOLEAN /\ (allowed => Reason(s, t))
      BY DEF Reason
    <3>2. Decide(s, t, "trip", allowed)
      BY <1>6, <2>2 DEF FindTrip
    <3> HIDE DEF allowed
    <3> QED
      BY <3>1, <3>2, DecideHolds
  <2> QED
    BY <2>1, <2>2
<1>7. ASSUME NEW s \in Sockets, NEW t \in Trips, FindStudentStop(s, t) PROVE GatewayInv'
  <2> DEFINE allowed == <<UserOf[s], t>> \in rides
  <2>1. allowed \in BOOLEAN /\ (allowed => Reason(s, t))
    BY <1>7 DEF FindStudentStop, GatewayInv, StopQueriesOK, Reason
  <2>2. Decide(s, t, "stop", allowed)
    BY <1>7 DEF FindStudentStop
  <2> HIDE DEF allowed
  <2> QED
    BY <2>1, <2>2, DecideHolds
<1>8. ASSUME NEW s \in Sockets, NEW t \in Trips, QueryFails(s, t) PROVE GatewayInv'
  <2>1. PICK q \in {"trip", "stop"} : Decide(s, t, q, FALSE)
    BY <1>8 DEF QueryFails
  <2> DEFINE allowed == FALSE
  <2>2. allowed \in BOOLEAN /\ (allowed => Reason(s, t)) /\ Decide(s, t, q, allowed)
    BY <2>1
  <2> HIDE DEF allowed
  <2> QED
    BY <2>2, DecideHolds
<1>9. ASSUME NEW s \in Sockets, NEW t \in Trips, LeaveTrip(s, t) PROVE GatewayInv'
  <2>1. GwTypeOK' /\ StopQueriesOK' /\ PresenceIsTrue'
    BY <1>9 DEF LeaveTrip, GatewayInv, GwTypeOK, StopQueriesOK, PresenceIsTrue
  <2>2. MembersAreEntitled'
    <3>1. \A q \in Sockets : rooms'[q] \subseteq rooms[q]
      BY <1>9 DEF LeaveTrip, GatewayInv, GwTypeOK
    <3> QED
      BY <1>9, <3>1 DEF LeaveTrip, GatewayInv, MembersAreEntitled
  <2> QED
    BY <2>1, <2>2 DEF GatewayInv
<1>10. ASSUME NEW s \in Sockets, NEW t \in Trips, TripStart(s, t) PROVE GatewayInv'
  <2>1. GwTypeOK' /\ StopQueriesOK' /\ PresenceIsTrue'
    BY <1>10 DEF TripStart, GatewayInv, GwTypeOK, StopQueriesOK, PresenceIsTrue
  <2>2. MembersAreEntitled'
    <3> SUFFICES ASSUME NEW q \in Sockets
                 PROVE  /\ rooms'[q] # {} => conn[q] = "open"
                        /\ \A u \in Trips : TripRoom(u) \in rooms'[q] => TripRoom(u) \in rooms[q]
      BY <1>10, NobodyEnters DEF TripStart
    <3>1. rooms'[q] = IF q = s THEN rooms[q] \cup {DriverRoom(t)} ELSE rooms[q]
      BY <1>10 DEF TripStart, GatewayInv, GwTypeOK
    <3> QED
      BY <1>10, <3>1 DEF TripStart, GatewayInv, MembersAreEntitled
  <2> QED
    BY <2>1, <2>2 DEF GatewayInv
<1>11. ASSUME NEW u \in Users, NEW t \in Trips, Relink(u, t) PROVE GatewayInv'
  BY <1>11 DEF Relink, GatewayInv, GwTypeOK, StopQueriesOK, PresenceIsTrue, MembersAreEntitled
<1>12. CASE UNCHANGED gwVars
  BY <1>12 DEF gwVars, GatewayInv, GwTypeOK, StopQueriesOK, PresenceIsTrue, MembersAreEntitled
<1> QED
  BY <1>1, <1>2, <1>3, <1>4, <1>5, <1>6, <1>7, <1>8, <1>9, <1>10, <1>11, <1>12
  DEF GwNext, Answer

(* Every state of the gateway satisfies it.                                   *)
LEMMA GatewayInvariance == GwSpec => []GatewayInv
  BY GatewayInitHolds, GatewayStepHolds, PTL DEF GwSpec

--------------------------------------------------------------------------------
(* THEOREM. What the admins were last told of a user is true, for any number of   *)
(* sockets of any number of users in any order (presence.manager.ts).             *)
THEOREM PresenceIsAlwaysTrue == GwSpec => []PresenceIsTrue
<1>1. GatewayInv => PresenceIsTrue
  BY DEF GatewayInv
<1> QED
  BY <1>1, GatewayInvariance, PTL

(* THEOREM. Nobody is in the room of a trip without a right to it, whatever       *)
(* happens to the socket and to the links of the database during the queries of   *)
(* the join (room.manager.ts).                                                    *)
THEOREM MembersAreAlwaysEntitled == GwSpec => []MembersAreEntitled
<1>1. GatewayInv => MembersAreEntitled
  BY DEF GatewayInv
<1> QED
  BY <1>1, GatewayInvariance, PTL

--------------------------------------------------------------------------------
(* LocationFeed. Between a device and the server there is one line of events, *)
(* in the device's buffer while it is off line and in packets while it is on. *)
(* On it every update follows the start, or an earlier update, of its own     *)
(* trip, so that the trip the socket has when it is handled is the update's.  *)
(* The numbers that the server compares are of one driver: while one device   *)
(* alone reports, they only grow along its line.                              *)

(* What devices emit, and what the server keeps for a trip.                   *)
FeedEvents ==
  [kind : {"start", "update", "stop"}, trip : Journeys \cup {"none"},
   seq : 0 .. MaxFixes, at : 0 .. MaxFixes]

EtaStates == [at : 0 .. MaxFixes, sequence : 0 .. MaxFixes]

(* What a device has under way to the server, and the trip its socket has there. *)
Line(d) == IF online[d] THEN packets[d] ELSE held[d]
Seen(d) == IF online[d] THEN active[d] ELSE "none"

(* An update comes directly after the start, or an earlier update, of its trip. *)
Follows(s) ==
  \A i \in 1 .. Len(s) : i + 1 \in 1 .. Len(s) /\ s[i + 1].kind = "update" =>
    s[i].kind # "stop" /\ s[i].trip = s[i + 1].trip /\ s[i].seq < s[i + 1].seq

(* An update at the front is of the trip the socket has, if it has one.         *)
Leads(s, a) == s # <<>> /\ s[1].kind = "update" => a \in {"none", s[1].trip}

(* The last event under way is of the trip that is tracked, and not newer than  *)
(* the count of its fixes.                                                      *)
Closes(s, a, t, n) ==
  /\ s = <<>> => a \in {"none", t}
  /\ s # <<>> => /\ s[Len(s)].kind # "stop" /\ s[Len(s)].trip = t
                 /\ s[Len(s)].seq <= n

Ends(s, a, t, n) == t # "none" /\ 0 < n => Closes(s, a, t, n)

(* The next update of a trip the socket has is not older than the last number.  *)
Current(s, a, t, n, l) ==
  a # "none" =>
    /\ s # <<>> /\ s[1].kind = "update" => l <= s[1].seq
    /\ s = <<>> /\ t # "none" /\ 0 < n => l <= n + 1

(* What the variables range over.                                             *)
FeedTypes ==
  /\ track \in [Devices -> Journeys \cup {"none"}]
  /\ active \in [Devices -> Journeys \cup {"none"}]
  /\ count \in [Devices -> Nat] /\ starts \in [Devices -> Nat]
  /\ online \in [Devices -> BOOLEAN]
  /\ held \in [Devices -> Seq(FeedEvents)] /\ packets \in [Devices -> Seq(FeedEvents)]
  /\ fixes \in 0 .. MaxFixes /\ \A d \in Devices : count[d] <= fixes
  /\ lastSeq \in 0 .. MaxFixes + 1
  /\ eta \in [Journeys -> EtaStates] /\ \A t \in Journeys : eta[t].sequence <= eta[t].at
  /\ late \subseteq Devices

(* A device buffers while it is off line and sends while it is on.            *)
OneLine == \A d \in Devices : (online[d] => held[d] = <<>>) /\ (~online[d] => packets[d] = <<>>)

(* Every line is in the order that its device emitted it.                     *)
LinesAreInOrder ==
  \A d \in Devices :
    /\ Follows(Line(d)) /\ Leads(Line(d), Seen(d))
    /\ Ends(Line(d), Seen(d), track[d], count[d])

(* A device that never started tracking has nothing to say.                     *)
RestIsSilent ==
  \A d \in Devices : starts[d] = 0 => track[d] = "none" /\ Line(d) = <<>>

Alone(d) == \A c \in Devices : c # d => starts[c] = 0

(* The server's number never overtakes a device that reports alone.           *)
LonersAreCurrent ==
  \A d \in Devices : Alone(d) =>
    Current(Line(d), Seen(d), track[d], count[d], lastSeq)

(* The invariant of the location feed.                                        *)
FeedInv ==
  /\ FeedTypes /\ OneLine /\ LinesAreInOrder /\ RestIsSilent /\ LonersAreCurrent
  /\ PositionsGoToTheirTrip /\ OnlyRivalsAreLate

--------------------------------------------------------------------------------
(* Emitting one event appends it to the line.                                 *)
LEMMA OneIsAppended ==
  ASSUME NEW S, NEW s \in Seq(S), NEW x \in S
  PROVE  s \o <<x>> = Append(s, x) /\ Append(s, x) \in Seq(S) /\ <<x>> \in Seq(S)
OBVIOUS

(* Emitting two appends one after the other.                                  *)
LEMMA TwoAreAppended ==
  ASSUME NEW S, NEW s \in Seq(S), NEW x \in S, NEW y \in S
  PROVE  s \o (<<x>> \o <<y>>) = Append(Append(s, x), y) /\ <<x>> \o <<y>> \in Seq(S)
<1>1. \A p, q \in Seq(S) : (s \o p) \o q = s \o (p \o q) /\ p \o q \in Seq(S)
  OBVIOUS
<1>2. <<x>> \in Seq(S) /\ <<y>> \in Seq(S)
  BY OneIsAppended
<1>3. s \o (<<x>> \o <<y>>) = (s \o <<x>>) \o <<y>>
  BY <1>1, <1>2, Zenon
<1>4. s \o <<x>> = Append(s, x) /\ Append(s, x) \in Seq(S)
  BY OneIsAppended
<1>5. Append(s, x) \o <<y>> = Append(Append(s, x), y)
  BY <1>4, OneIsAppended, Zenon
<1> QED
  BY <1>1, <1>2, <1>3, <1>4, <1>5, Zenon

(* An update of the tracked trip keeps the line in order.                     *)
LEMMA UpdateIsAppended ==
  ASSUME NEW s \in Seq(FeedEvents), NEW a, NEW t \in Journeys, NEW n \in Nat, NEW f,
         NEW l \in Nat, t # "none", 0 < n \/ s # <<>>, Update(t, n + 1, f) \in FeedEvents,
         Follows(s), Leads(s, a), Closes(s, a, t, n)
  PROVE  LET u == Append(s, Update(t, n + 1, f)) IN
           /\ u \in Seq(FeedEvents) /\ u # <<>>
           /\ Follows(u) /\ Leads(u, a) /\ Ends(u, a, t, n + 1)
           /\ Current(s, a, t, n, l) => Current(u, a, t, n + 1, l)
<1> DEFINE e == Update(t, n + 1, f)  u == Append(s, e)
<1>1. e \in FeedEvents /\ e.kind = "update" /\ e.trip = t /\ e.seq = n + 1
  BY DEF Update
<1> HIDE DEF e
<1>2. /\ u \in Seq(FeedEvents) /\ Len(u) = Len(s) + 1 /\ u[Len(s) + 1] = e /\ Len(s) \in Nat
      /\ \A i \in 1 .. Len(s) : u[i] = s[i]
      /\ u # <<>>
  BY <1>1
<1>3. s = <<>> \/ (s # <<>> /\ Len(s) \in 1 .. Len(s))
  OBVIOUS
<1>4. s = <<>> => Len(s) = 0
  OBVIOUS
<1>5. \A i \in 1 .. Len(s) : s[i].seq \in Nat
  <2>1. \A i \in 1 .. Len(s) : s[i] \in FeedEvents
    OBVIOUS
  <2> QED BY <2>1 DEF FeedEvents
<1> HIDE DEF u
<1>6. Follows(u)
  <2> SUFFICES ASSUME NEW i \in 1 .. Len(u), i + 1 \in 1 .. Len(u), u[i + 1].kind = "update"
               PROVE u[i].kind # "stop" /\ u[i].trip = u[i + 1].trip /\ u[i].seq < u[i + 1].seq
    BY DEF Follows
  <2>1. i \in 1 .. Len(s)
    BY <1>2
  <2>2. CASE i + 1 \in 1 .. Len(s)
    BY <2>1, <2>2, <1>2 DEF Follows
  <2>3. CASE i = Len(s)
    BY <2>1, <2>3, <1>1, <1>2, <1>3, <1>4, <1>5 DEF Ends, Closes
  <2> QED BY <2>1, <2>2, <2>3, <1>2
<1>7. Leads(u, a)
  BY <1>1, <1>2, <1>3, <1>4 DEF Leads, Ends, Closes
<1>8. Ends(u, a, t, n + 1)
  BY <1>1, <1>2 DEF Ends, Closes
<1>9. Current(s, a, t, n, l) => Current(u, a, t, n + 1, l)
  BY <1>1, <1>2, <1>3, <1>4 DEF Current
<1> QED
  BY <1>2, <1>6, <1>7, <1>8, <1>9 DEF u, e

(* A start or a stop of tracking keeps the line in order.                     *)
LEMMA OtherIsAppended ==
  ASSUME NEW s \in Seq(FeedEvents), NEW a, NEW t, NEW n \in Nat, NEW m \in Nat, NEW r, NEW l \in Nat,
         NEW e \in FeedEvents, e.kind # "update",
         Follows(s), Leads(s, a),
         t # "none" /\ 0 < n => e.kind # "stop" /\ e.trip = t /\ e.seq <= n
  PROVE  LET u == Append(s, e) IN
           /\ u \in Seq(FeedEvents) /\ u # <<>>
           /\ Follows(u) /\ Leads(u, a) /\ Ends(u, a, t, n)
           /\ Current(s, a, r, m, l) => Current(u, a, t, n, l)
<1> DEFINE u == Append(s, e)
<1>2. /\ u \in Seq(FeedEvents) /\ Len(u) = Len(s) + 1 /\ u[Len(s) + 1] = e /\ Len(s) \in Nat
      /\ \A i \in 1 .. Len(s) : u[i] = s[i]
      /\ u # <<>>
  OBVIOUS
<1>3. s = <<>> \/ (s # <<>> /\ 1 \in 1 .. Len(s))
  OBVIOUS
<1>4. s = <<>> => Len(s) = 0
  OBVIOUS
<1> HIDE DEF u
<1>6. Follows(u)
  BY <1>2 DEF Follows
<1>7. Leads(u, a)
  BY <1>2, <1>3, <1>4 DEF Leads
<1>8. Ends(u, a, t, n)
  BY <1>2 DEF Ends, Closes
<1>9. Current(s, a, r, m, l) => Current(u, a, t, n, l)
  BY <1>2, <1>3, <1>4 DEF Current
<1> QED
  BY <1>2, <1>6, <1>7, <1>8, <1>9 DEF u

(* What handling the first event leaves: a socket that has its trip, or the one *)
(* it had, or none.                                                             *)
LEMMA FirstIsHandled ==
  ASSUME NEW s \in Seq(FeedEvents), s # <<>>, NEW a, NEW b, NEW t, NEW n \in Nat,
         NEW l \in Nat, NEW m \in Nat,
         Follows(s), Leads(s, a), Ends(s, a, t, n),
         \/ s[1].kind = "start" /\ b = s[1].trip /\ m = 0
         \/ s[1].kind = "update" /\ b = a /\ m \in {l, s[1].seq + 1}
         \/ s[1].kind = "stop" /\ b = "none"
  PROVE  /\ Tail(s) \in Seq(FeedEvents)
         /\ Follows(Tail(s)) /\ Leads(Tail(s), b) /\ Ends(Tail(s), b, t, n)
         /\ Current(s, a, t, n, l) => Current(Tail(s), b, t, n, m)
<1> DEFINE u == Tail(s)
<1>2. /\ u \in Seq(FeedEvents) /\ Len(u) = Len(s) - 1 /\ Len(s) \in Nat /\ 1 <= Len(s)
      /\ \A i \in 1 .. Len(u) : u[i] = s[i + 1] /\ i + 1 \in 1 .. Len(s) /\ i \in 1 .. Len(s)
  OBVIOUS
<1> HIDE DEF u
<1>4. u = <<>> => Len(u) = 0
  OBVIOUS
<1>3. (u = <<>> /\ Len(s) = 1) \/ (u # <<>> /\ 1 \in 1 .. Len(u) /\ Len(u) \in 1 .. Len(u))
  <2>1. u # <<>> => Len(u) # 0
    BY <1>2
  <2> QED BY <1>2, <1>4, <2>1
<1>5. \A i \in 1 .. Len(s) : s[i].seq \in Nat
  <2>1. \A i \in 1 .. Len(s) : s[i] \in FeedEvents
    OBVIOUS
  <2> QED BY <2>1 DEF FeedEvents
<1>6. Follows(u)
  <2> SUFFICES ASSUME NEW i \in 1 .. Len(u), i + 1 \in 1 .. Len(u), u[i + 1].kind = "update"
               PROVE u[i].kind # "stop" /\ u[i].trip = u[i + 1].trip /\ u[i].seq < u[i + 1].seq
    BY DEF Follows
  <2> QED BY <1>2 DEF Follows
<1>7. u # <<>> /\ u[1].kind = "update" =>
        s[1].kind # "stop" /\ s[1].trip = u[1].trip /\ s[1].seq < u[1].seq /\ u[1].seq \in Nat
  BY <1>2, <1>3, <1>5 DEF Follows
<1>8. Leads(u, b)
  BY <1>7, <1>2, <1>3 DEF Leads
<1>9. Ends(u, b, t, n)
  <2> SUFFICES ASSUME t # "none", 0 < n
               PROVE /\ u = <<>> => b \in {"none", t}
                     /\ u # <<>> => /\ u[Len(u)].kind # "stop" /\ u[Len(u)].trip = t
                                    /\ u[Len(u)].seq <= n
    BY DEF Ends, Closes
  <2>1. s[Len(s)].kind # "stop" /\ s[Len(s)].trip = t /\ s[Len(s)].seq <= n
    BY DEF Ends, Closes
  <2>2. CASE u = <<>>
    BY <2>1, <2>2, <1>3, <1>4 DEF Leads
  <2>3. CASE u # <<>>
    <3>1. u[Len(u)] = s[Len(s)]
      BY <2>3, <1>2, <1>3
    <3> QED BY <2>1, <2>3, <3>1
  <2> QED BY <2>2, <2>3
<1>10. Current(s, a, t, n, l) => Current(u, b, t, n, m)
  <2> SUFFICES ASSUME Current(s, a, t, n, l), b # "none"
               PROVE /\ u # <<>> /\ u[1].kind = "update" => m <= u[1].seq
                     /\ u = <<>> /\ t # "none" /\ 0 < n => m <= n + 1
    BY DEF Current
  <2>1. s[1].seq \in Nat
    BY <1>2, <1>5
  <2>2. m <= s[1].seq + 1
    BY <2>1 DEF Current
  <2>3. u # <<>> /\ u[1].kind = "update" => m <= u[1].seq
    BY <1>7, <2>1, <2>2
  <2>4. u = <<>> /\ t # "none" /\ 0 < n => m <= n + 1
    <3> SUFFICES ASSUME u = <<>>, t # "none", 0 < n PROVE m <= n + 1
      OBVIOUS
    <3>1. s[1].kind # "stop" /\ s[1].seq <= n
      BY <1>3 DEF Ends, Closes
    <3> QED BY <2>1, <2>2, <3>1
  <2> QED BY <2>3, <2>4
<1> QED
  BY <1>2, <1>6, <1>8, <1>9, <1>10 DEF u

--------------------------------------------------------------------------------
(* The invariant holds before any device reports.                             *)
LEMMA FeedInitHolds == ASSUME LfInit PROVE FeedInv
<1>1. <<>> \in Seq(FeedEvents) /\ Len(<<>>) = 0
  OBVIOUS
<1>2. NoEta \in EtaStates /\ NoEta.sequence <= NoEta.at
  BY FeedAssumption DEF NoEta, EtaStates
<1>3. \A d \in Devices : Line(d) = <<>> /\ Seen(d) = "none" /\ track[d] = "none"
  BY DEF LfInit, Line, Seen
<1>4. FeedTypes
  <2>1. online \in [Devices -> BOOLEAN]
    BY Zenon DEF LfInit
  <2>2. held \in [Devices -> Seq(FeedEvents)] /\ packets \in [Devices -> Seq(FeedEvents)]
    BY <1>1 DEF LfInit
  <2>3. eta \in [Journeys -> EtaStates] /\ \A t \in Journeys : eta[t].sequence <= eta[t].at
    BY <1>2 DEF LfInit
  <2>4. /\ track \in [Devices -> Journeys \cup {"none"}]
        /\ active \in [Devices -> Journeys \cup {"none"}]
        /\ count \in [Devices -> Nat] /\ starts \in [Devices -> Nat]
        /\ fixes = 0 /\ lastSeq = 0 /\ late = {} /\ \A d \in Devices : count[d] = 0
    BY DEF LfInit
  <2> QED
    BY <2>1, <2>2, <2>3, <2>4, FeedAssumption DEF FeedTypes
<1>5. OneLine
  BY DEF LfInit, OneLine
<1>6. LinesAreInOrder /\ RestIsSilent /\ LonersAreCurrent
  BY <1>1, <1>3 DEF LinesAreInOrder, RestIsSilent, LonersAreCurrent, Follows, Leads, Ends, Closes, Current
<1> QED
  BY <1>4, <1>5, <1>6 DEF FeedInv, LfInit, PositionsGoToTheirTrip, OnlyRivalsAreLate, NoFix

(* A step of one device leaves the lines of the others as they were.            *)
LEMMA OthersStay ==
  ASSUME FeedInv, NEW d \in Devices, FeedTypes',
         \A c \in Devices \ {d} :
           /\ Line(c)' = Line(c) /\ Seen(c)' = Seen(c)
           /\ track'[c] = track[c] /\ count'[c] = count[c] /\ starts'[c] = starts[c],
         starts[d] <= starts'[d],
         Follows(Line(d)'), Leads(Line(d)', Seen(d)'),
         Ends(Line(d)', Seen(d)', track'[d], count'[d]),
         starts'[d] = 0 => track'[d] = "none" /\ Line(d)' = <<>>,
         Current(Line(d), Seen(d), track[d], count[d], lastSeq) =>
           Current(Line(d)', Seen(d)', track'[d], count'[d], lastSeq'),
         lastSeq' = lastSeq \/ 0 < starts[d]
  PROVE  LinesAreInOrder' /\ RestIsSilent' /\ LonersAreCurrent'
<1>0. \A c \in Devices : starts[c] \in Nat /\ starts'[c] \in Nat /\ starts[c] <= starts'[c]
  <2>1. \A c \in Devices : starts[c] \in Nat /\ starts'[c] \in Nat
    BY DEF FeedInv, FeedTypes
  <2>2. \A c \in Devices : c = d \/ starts'[c] = starts[c]
    OBVIOUS
  <2> QED BY <2>1, <2>2
<1>1. LinesAreInOrder'
  <2> SUFFICES ASSUME NEW c \in Devices
               PROVE /\ Follows(Line(c)') /\ Leads(Line(c)', Seen(c)')
                     /\ Ends(Line(c)', Seen(c)', track'[c], count'[c])
    BY DEF LinesAreInOrder
  <2> QED BY DEF FeedInv, LinesAreInOrder
<1>2. RestIsSilent'
  <2> SUFFICES ASSUME NEW c \in Devices, starts'[c] = 0
               PROVE track'[c] = "none" /\ Line(c)' = <<>>
    BY DEF RestIsSilent
  <2> QED BY DEF FeedInv, RestIsSilent
<1>3. LonersAreCurrent'
  <2> SUFFICES ASSUME NEW c \in Devices, \A o \in Devices : o # c => starts'[o] = 0
               PROVE Current(Line(c)', Seen(c)', track'[c], count'[c], lastSeq')
    BY DEF LonersAreCurrent, Alone
  <2>1. Current(Line(c), Seen(c), track[c], count[c], lastSeq)
    BY <1>0 DEF FeedInv, LonersAreCurrent, Alone
  <2>2. CASE c = d
    BY <2>1, <2>2
  <2>3. CASE c # d
    <3>1. lastSeq' = lastSeq
      BY <2>3, <1>0
    <3> QED BY <2>1, <2>3, <3>1
  <2> QED BY <2>2, <2>3
<1> QED BY <1>1, <1>2, <1>3

(* A step that brings nobody late and broadcasts nothing.                       *)
LEMMA NobodyIsLate ==
  ASSUME FeedInv, FeedTypes', UNCHANGED <<shown, late>>,
         \A c \in Devices : starts[c] <= starts'[c]
  PROVE  PositionsGoToTheirTrip' /\ OnlyRivalsAreLate'
<1>1. \A c \in Devices : starts[c] \in Nat /\ starts'[c] \in Nat /\ starts[c] <= starts'[c]
  BY DEF FeedInv, FeedTypes
<1>2. \A c \in Devices : starts[c] > 0 => starts'[c] > 0
  BY <1>1
<1> QED BY <1>2 DEF FeedInv, PositionsGoToTheirTrip, OnlyRivalsAreLate

(* Emitting moves one line, on line or off line, and no other.                *)
LEMMA EmitMoves ==
  ASSUME FeedTypes, OneLine, NEW d \in Devices, NEW events \in Seq(FeedEvents),
         Emit(d, events), UNCHANGED online
  PROVE  /\ held' \in [Devices -> Seq(FeedEvents)] /\ packets' \in [Devices -> Seq(FeedEvents)]
         /\ OneLine' /\ Line(d)' = Line(d) \o events
         /\ \A c \in Devices \ {d} : Line(c)' = Line(c)
<1>1. CASE online[d]
  <2> DEFINE s == packets[d] \o events
  <2>1. s \in Seq(FeedEvents)
    BY DEF FeedTypes
  <2>2. packets' = [packets EXCEPT ![d] = s] /\ held' = held
    BY <1>1 DEF Emit
  <2>3. Line(d) = packets[d]
    BY <1>1 DEF Line
  <2> HIDE DEF s
  <2>4. Line(d)' = s /\ \A c \in Devices \ {d} : Line(c)' = Line(c)
    BY <1>1, <2>2 DEF Line, FeedTypes
  <2> QED BY <1>1, <2>1, <2>2, <2>3, <2>4 DEF FeedTypes, OneLine, s
<1>2. CASE ~online[d]
  <2> DEFINE s == held[d] \o events
  <2>1. s \in Seq(FeedEvents)
    BY DEF FeedTypes
  <2>2. held' = [held EXCEPT ![d] = s] /\ packets' = packets
    BY <1>2 DEF Emit
  <2>3. Line(d) = held[d]
    BY <1>2 DEF Line
  <2> HIDE DEF s
  <2>4. Line(d)' = s /\ \A c \in Devices \ {d} : Line(c)' = Line(c)
    BY <1>2, <2>2 DEF Line, FeedTypes
  <2> QED BY <1>2, <2>1, <2>2, <2>3, <2>4 DEF FeedTypes, OneLine, s
<1> QED BY <1>1, <1>2

(* A line is a sequence of events.                                            *)
LEMMA LinesAreTyped == ASSUME FeedTypes, NEW d \in Devices PROVE Line(d) \in Seq(FeedEvents)
  BY DEF FeedTypes, Line

(* startTracking keeps the invariant.                                         *)
LEMMA StartTrackingHolds ==
  ASSUME FeedInv, NEW d \in Devices, NEW t \in Journeys, StartTracking(d, t) PROVE FeedInv'
<1>1. /\ starts' = [starts EXCEPT ![d] = @ + 1] /\ track' = [track EXCEPT ![d] = t]
      /\ count' = [count EXCEPT ![d] = 0]
      /\ UNCHANGED <<online, held, packets, active, lastSeq, eta, shown, late, fixes, outages>>
  BY DEF StartTracking, serverSide
<1>2. FeedTypes'
  BY <1>1 DEF FeedInv, FeedTypes
<1>3. OneLine' /\ \A c \in Devices : Line(c)' = Line(c) /\ Seen(c)' = Seen(c)
  BY <1>1 DEF FeedInv, OneLine, Line, Seen
<1>4. starts'[d] = starts[d] + 1 /\ count'[d] = 0 /\ starts[d] \in Nat
  BY <1>1 DEF FeedInv, FeedTypes
<1>5. \A c \in Devices \ {d} :
        track'[c] = track[c] /\ count'[c] = count[c] /\ starts'[c] = starts[c]
  BY <1>1 DEF FeedInv, FeedTypes
<1>6. Follows(Line(d)') /\ Leads(Line(d)', Seen(d)')
  BY <1>3 DEF FeedInv, LinesAreInOrder
<1>7. Ends(Line(d)', Seen(d)', track'[d], count'[d])
  BY <1>4 DEF Ends, Closes
<1>8. Current(Line(d), Seen(d), track[d], count[d], lastSeq) =>
        Current(Line(d)', Seen(d)', track'[d], count'[d], lastSeq')
  BY <1>1, <1>3, <1>4 DEF Current
<1>9. LinesAreInOrder' /\ RestIsSilent' /\ LonersAreCurrent'
  <2>1. starts[d] <= starts'[d] /\ starts'[d] # 0 /\ lastSeq' = lastSeq
    BY <1>1, <1>4
  <2> QED BY <1>2, <1>3, <1>5, <1>6, <1>7, <1>8, <2>1, OthersStay
<1>10. \A c \in Devices : starts[c] <= starts'[c]
  <2>1. \A c \in Devices : starts[c] \in Nat /\ (c = d \/ starts'[c] = starts[c])
    BY <1>5 DEF FeedInv, FeedTypes
  <2> QED BY <2>1, <1>4
<1> QED
  BY <1>1, <1>2, <1>3, <1>9, <1>10, NobodyIsLate DEF FeedInv

(* A fix of the device, throttled or emitted, keeps the invariant.            *)
LEMMA FixHolds == ASSUME FeedInv, NEW d \in Devices, Fix(d) PROVE FeedInv'
<1> DEFINE t == track[d]  n == count[d]  e == Update(t, n + 1, fixes + 1)
           events == (IF n = 0 THEN <<Start(t)>> ELSE <<>>) \o <<e>>
<1> USE FeedAssumption
<1>1. /\ fixes' = fixes + 1 /\ count' = [count EXCEPT ![d] = @ + 1] /\ Emit(d, events)
      /\ UNCHANGED <<track, online, active, lastSeq, eta, shown, late, outages, starts>>
      /\ t # "none" /\ fixes < MaxFixes
  BY DEF Fix, serverSide
<1>2. t \in Journeys /\ n \in Nat /\ n <= fixes /\ fixes \in Nat /\ lastSeq \in Nat
  BY <1>1 DEF FeedInv, FeedTypes
<1>3. e \in FeedEvents
  BY <1>1, <1>2 DEF Update, FeedEvents
<1>4. Start(t) \in FeedEvents /\ Start(t).kind = "start" /\ Start(t).trip = t /\ Start(t).seq = 0
  BY <1>1, <1>2 DEF Start, FeedEvents
<1> DEFINE s == Line(d)  v == Append(s, Start(t))  w == IF n = 0 THEN v ELSE s  u == Append(w, e)
           b == Start(t)
<1>5. s \in Seq(FeedEvents)
  BY LinesAreTyped DEF FeedInv
<1>6. events \in Seq(FeedEvents) /\ s \o events = u
  <2> HIDE DEF e, s, b
  <2>1. CASE n = 0
    <3>2. b \in FeedEvents /\ e \in FeedEvents
      BY <1>3, <1>4 DEF b
    <3>3. events = <<b>> \o <<e>>
      BY <2>1 DEF b
    <3> QED BY <1>5, <2>1, <3>2, <3>3, TwoAreAppended DEF b
  <2>2. CASE n # 0
    <3>1. events = <<e>>
      BY <2>2, <1>3
    <3>2. s \o <<e>> = Append(s, e)
      BY <1>3, <1>5
    <3> QED BY <2>2, <3>1, <3>2, <1>3
  <2> QED BY <2>1, <2>2
<1>7. /\ held' \in [Devices -> Seq(FeedEvents)] /\ packets' \in [Devices -> Seq(FeedEvents)]
      /\ OneLine' /\ Line(d)' = u
      /\ \A c \in Devices \ {d} : Line(c)' = Line(c)
  <2> HIDE DEF events, u
  <2> QED BY <1>1, <1>6, EmitMoves DEF FeedInv
<1>8. \A c \in Devices : Seen(c)' = Seen(c)
  BY <1>1 DEF Seen
<1>9. count'[d] = n + 1 /\ count' \in [Devices -> Nat]
      /\ \A c \in Devices \ {d} : count'[c] = count[c]
  BY <1>1, <1>2 DEF FeedInv, FeedTypes
<1>10. FeedTypes'
  <2>1. fixes' \in 0 .. MaxFixes /\ \A c \in Devices : count'[c] <= fixes'
    <3>1. \A c \in Devices : count[c] <= fixes /\ count[c] \in Nat
      BY DEF FeedInv, FeedTypes
    <3> QED BY <1>1, <1>2, <1>9, <3>1
  <2> QED BY <2>1, <1>1, <1>7, <1>9 DEF FeedInv, FeedTypes
<1> HIDE DEF e, s
<1>11. Follows(s) /\ Leads(s, Seen(d)) /\ Ends(s, Seen(d), t, n)
  BY DEF FeedInv, LinesAreInOrder, s
<1> DEFINE a == Seen(d)
<1> HIDE DEF a
<1>12. /\ w \in Seq(FeedEvents) /\ Follows(w) /\ Leads(w, a)
       /\ Current(s, a, t, n, lastSeq) => Current(w, a, t, n, lastSeq)
       /\ Closes(w, a, t, n) /\ (0 < n \/ w # <<>>)
  <2> HIDE DEF b
  <2>1. b \in FeedEvents /\ b.kind = "start" /\ b.trip = t /\ b.seq = 0
    BY <1>4 DEF b
  <2>2. CASE n = 0
    <3>1. v = Append(s, b)
      BY DEF b
    <3>2. v[Len(v)] = b
      BY <3>1, <2>1, <1>5
    <3>3. ~(t # "none" /\ 0 < n) /\ b.kind # "update"
      BY <2>1, <2>2
    <3>4. /\ v \in Seq(FeedEvents) /\ v # <<>> /\ Follows(v) /\ Leads(v, a) /\ Ends(v, a, t, n)
          /\ Current(s, a, t, n, lastSeq) => Current(v, a, t, n, lastSeq)
      BY <3>1, <3>3, <1>2, <1>5, <1>11, <2>1, OtherIsAppended, ZenonT(60) DEF a
    <3> HIDE DEF v
    <3> QED BY <2>1, <2>2, <3>2, <3>4 DEF Closes
  <2>3. CASE n # 0
    BY <2>3, <1>1, <1>2, <1>5, <1>11 DEF a, Ends
  <2> QED BY <2>2, <2>3
<1>13. /\ Follows(u) /\ Leads(u, a) /\ Ends(u, a, t, n + 1)
       /\ Current(s, a, t, n, lastSeq) => Current(u, a, t, n + 1, lastSeq)
  <2> HIDE DEF w
  <2>1. Update(t, n + 1, fixes + 1) \in FeedEvents /\ e = Update(t, n + 1, fixes + 1)
    BY <1>3 DEF e
  <2> QED BY <2>1, <1>1, <1>2, <1>12, UpdateIsAppended
<1>14. starts[d] # 0
  <2>1. starts[d] = 0 => t = "none"
    BY DEF FeedInv, RestIsSilent
  <2> QED BY <2>1, <1>1
<1>15. starts' = starts /\ \A c \in Devices : starts[c] \in Nat /\ starts[c] <= starts'[c]
  BY <1>1 DEF FeedInv, FeedTypes
<1>16. LinesAreInOrder' /\ RestIsSilent' /\ LonersAreCurrent'
  <2> HIDE DEF u
  <2>1. /\ Follows(Line(d)') /\ Leads(Line(d)', Seen(d)')
        /\ Ends(Line(d)', Seen(d)', track'[d], count'[d])
    BY <1>1, <1>7, <1>8, <1>9, <1>13 DEF a
  <2>2. Current(Line(d), Seen(d), track[d], count[d], lastSeq) =>
          Current(Line(d)', Seen(d)', track'[d], count'[d], lastSeq')
    BY <1>1, <1>7, <1>8, <1>9, <1>13 DEF a, s
  <2>3. \A c \in Devices \ {d} :
          /\ Line(c)' = Line(c) /\ Seen(c)' = Seen(c)
          /\ track'[c] = track[c] /\ count'[c] = count[c] /\ starts'[c] = starts[c]
    BY <1>1, <1>7, <1>8, <1>9
  <2>4. starts'[d] # 0 /\ starts[d] <= starts'[d] /\ lastSeq' = lastSeq
    BY <1>1, <1>14, <1>15
  <2> QED BY <1>10, <2>1, <2>2, <2>3, <2>4, OthersStay
<1> QED
  BY <1>1, <1>7, <1>10, <1>15, <1>16, NobodyIsLate DEF FeedInv

(* stopTracking keeps the invariant.                                          *)
LEMMA StopTrackingHolds == ASSUME FeedInv, NEW d \in Devices, StopTracking(d) PROVE FeedInv'
<1> DEFINE s == Line(d)  u == Append(s, Stop)
<1>1. /\ track' = [track EXCEPT ![d] = "none"] /\ Emit(d, <<Stop>>) /\ track[d] # "none"
      /\ UNCHANGED <<count, fixes, starts, online, active, lastSeq, eta, shown, late, outages>>
  BY DEF StopTracking, serverSide
<1>2. Stop \in FeedEvents /\ Stop.kind = "stop"
  BY FeedAssumption DEF Stop, FeedEvents
<1>3. s \in Seq(FeedEvents) /\ s \o <<Stop>> = u /\ <<Stop>> \in Seq(FeedEvents)
  BY <1>2, LinesAreTyped, OneIsAppended DEF FeedInv
<1> HIDE DEF s
<1>4. /\ held' \in [Devices -> Seq(FeedEvents)] /\ packets' \in [Devices -> Seq(FeedEvents)]
      /\ OneLine' /\ Line(d)' = u /\ \A c \in Devices \ {d} : Line(c)' = Line(c)
  BY <1>1, <1>3, EmitMoves DEF FeedInv, s
<1>5. \A c \in Devices : Seen(c)' = Seen(c)
  BY <1>1 DEF Seen
<1>6. track'[d] = "none" /\ \A c \in Devices \ {d} : track'[c] = track[c]
  BY <1>1 DEF FeedInv, FeedTypes
<1>7. FeedTypes'
  BY <1>1, <1>4 DEF FeedInv, FeedTypes
<1> DEFINE a == Seen(d)  n == count[d]
<1> HIDE DEF a
<1>8. /\ Follows(u) /\ Leads(u, a) /\ Ends(u, a, "none", n)
      /\ Current(s, a, track[d], n, lastSeq) => Current(u, a, "none", n, lastSeq)
  <2>1. Follows(s) /\ Leads(s, a) /\ n \in Nat /\ lastSeq \in Nat
    BY DEF FeedInv, LinesAreInOrder, FeedTypes, s, a
  <2>2. Stop.kind # "update"
    BY <1>2
  <2> QED BY <1>2, <1>3, <2>1, <2>2, OtherIsAppended
<1>9. starts[d] # 0
  BY <1>1 DEF FeedInv, RestIsSilent
<1>10. starts' = starts /\ \A c \in Devices : starts[c] \in Nat /\ starts[c] <= starts'[c]
  BY <1>1 DEF FeedInv, FeedTypes
<1> HIDE DEF u
<1>11. LinesAreInOrder' /\ RestIsSilent' /\ LonersAreCurrent'
  <2>1. /\ Follows(Line(d)') /\ Leads(Line(d)', Seen(d)')
        /\ Ends(Line(d)', Seen(d)', track'[d], count'[d])
    BY <1>1, <1>4, <1>5, <1>6, <1>8 DEF a
  <2>2. Current(Line(d), Seen(d), track[d], count[d], lastSeq) =>
          Current(Line(d)', Seen(d)', track'[d], count'[d], lastSeq')
    BY <1>1, <1>4, <1>5, <1>6, <1>8 DEF a, s
  <2>3. \A c \in Devices \ {d} :
          /\ Line(c)' = Line(c) /\ Seen(c)' = Seen(c)
          /\ track'[c] = track[c] /\ count'[c] = count[c] /\ starts'[c] = starts[c]
    BY <1>1, <1>4, <1>5, <1>6
  <2>4. starts'[d] # 0 /\ starts[d] <= starts'[d] /\ lastSeq' = lastSeq
    BY <1>1, <1>9, <1>10
  <2> QED BY <1>7, <2>1, <2>2, <2>3, <2>4, OthersStay
<1> QED
  BY <1>1, <1>4, <1>7, <1>10, <1>11, NobodyIsLate DEF FeedInv

(* A connection made or lost leaves the line to its device what it holds.       *)
LEMMA ConnectingHolds ==
  ASSUME FeedInv, NEW d \in Devices, GoOnline(d) \/ GoOffline(d) PROVE FeedInv'
<1>1. UNCHANGED <<track, count, fixes, starts, lastSeq, eta, shown, late>>
  BY DEF GoOnline, GoOffline, driverSide, serverSide
<1>2. /\ held' \in [Devices -> Seq(FeedEvents)] /\ packets' \in [Devices -> Seq(FeedEvents)]
      /\ active' \in [Devices -> Journeys \cup {"none"}]
  <2>1. <<>> \in Seq(FeedEvents) /\ held[d] \in Seq(FeedEvents)
    BY DEF FeedInv, FeedTypes
  <2> QED BY <2>1, ZenonT(60) DEF FeedInv, FeedTypes, GoOnline, GoOffline, NewSocket, serverSide
<1>3. online' \in [Devices -> BOOLEAN] /\ \A c \in Devices \ {d} : online'[c] = online[c]
  BY DEF FeedInv, FeedTypes, GoOnline, GoOffline
<1>4. FeedTypes'
  BY <1>1, <1>2, <1>3 DEF FeedInv, FeedTypes
<1>5. /\ Line(d)' \in {Line(d), <<>>} /\ Seen(d)' = "none"
      /\ (online'[d] => held'[d] = <<>>) /\ (~online'[d] => packets'[d] = <<>>)
      /\ starts[d] = 0 => Line(d)' = <<>>
  <2>1. CASE GoOnline(d)
    BY <2>1 DEF GoOnline, NewSocket, Line, Seen, FeedInv, FeedTypes, RestIsSilent
  <2>2. CASE GoOffline(d)
    BY <2>2 DEF GoOffline, serverSide, Line, Seen, FeedInv, FeedTypes, OneLine, RestIsSilent
  <2> QED BY <2>1, <2>2
<1>6. \A c \in Devices \ {d} :
        /\ held'[c] = held[c] /\ packets'[c] = packets[c] /\ active'[c] = active[c]
        /\ Line(c)' = Line(c) /\ Seen(c)' = Seen(c)
  <2>1. \A c \in Devices \ {d} :
          held'[c] = held[c] /\ packets'[c] = packets[c] /\ active'[c] = active[c]
    BY DEF FeedInv, FeedTypes, GoOnline, GoOffline, NewSocket, serverSide
  <2> QED BY <1>3, <2>1 DEF Line, Seen
<1>7. OneLine'
  BY <1>3, <1>5, <1>6 DEF FeedInv, OneLine
<1>8. \A c \in Devices : starts'[c] = starts[c] /\ starts[c] \in Nat /\ starts[c] <= starts'[c]
  BY <1>1 DEF FeedInv, FeedTypes
<1>9. LinesAreInOrder' /\ RestIsSilent' /\ LonersAreCurrent'
  <2>1. Follows(Line(d)') /\ Leads(Line(d)', "none")
    <3>1. Follows(Line(d))
      BY DEF FeedInv, LinesAreInOrder
    <3>2. Follows(<<>>)
      BY DEF Follows
    <3> QED BY <1>5, <3>1, <3>2 DEF Leads
  <2>2. Ends(Line(d)', "none", track[d], count[d])
    BY <1>5 DEF FeedInv, LinesAreInOrder, Ends, Closes
  <2>3. Current(Line(d)', "none", track[d], count[d], lastSeq)
    BY DEF Current
  <2>4. starts[d] = 0 => track[d] = "none" /\ Line(d)' = <<>>
    BY <1>5 DEF FeedInv, RestIsSilent
  <2> QED BY <1>1, <1>4, <1>5, <1>6, <1>8, <2>1, <2>2, <2>3, <2>4, OthersStay
<1> QED
  BY <1>1, <1>4, <1>7, <1>8, <1>9, NobodyIsLate DEF FeedInv

(* The ETA engine's order check keeps its times ahead of its numbers.         *)
LEMMA ProcessEtaHolds ==
  ASSUME FeedTypes, NEW t \in Journeys, NEW at \in 0 .. MaxFixes, ProcessEta(t, at)
  PROVE  eta' \in [Journeys -> EtaStates] /\ \A j \in Journeys : eta'[j].sequence <= eta'[j].at
<1> USE FeedAssumption
<1>1. /\ eta \in [Journeys -> EtaStates] /\ \A j \in Journeys : eta[j].sequence <= eta[j].at
      /\ eta[t] \in EtaStates
  BY DEF FeedTypes
<1>2. eta[t].at \in Nat /\ eta[t].sequence \in Nat /\ eta[t].sequence <= eta[t].at
  BY <1>1 DEF EtaStates
<1>c ASSUME NEW x \in EtaStates, x.sequence <= x.at, eta' = [eta EXCEPT ![t] = x]
     PROVE  eta' \in [Journeys -> EtaStates] /\ \A j \in Journeys : eta'[j].sequence <= eta'[j].at
  BY <1>c, <1>1
<1>3. CASE UNCHANGED eta
  BY <1>1, <1>3
<1>4. CASE Newer(t, at) /\ eta' = [eta EXCEPT ![t].at = at]
  <2> DEFINE x == [eta[t] EXCEPT !.at = at]
  <2>1. x \in EtaStates /\ x.sequence = eta[t].sequence /\ x.at = at
    BY <1>1 DEF EtaStates
  <2>2. x.sequence <= x.at
    BY <1>2, <1>4, <2>1 DEF Newer
  <2>3. eta' = [eta EXCEPT ![t] = x]
    BY <1>4
  <2> HIDE DEF x
  <2> QED BY <1>c, <2>1, <2>2, <2>3
<1>5. CASE Newer(t, at) /\ eta' = [eta EXCEPT ![t] = [at |-> at, sequence |-> @.sequence + 1]]
  <2> DEFINE x == [at |-> at, sequence |-> eta[t].sequence + 1]
  <2>1. eta[t].sequence + 1 \in 0 .. MaxFixes /\ eta[t].sequence + 1 <= at
    BY <1>2, <1>5 DEF Newer
  <2>2. x \in EtaStates /\ x.sequence <= x.at
    BY <2>1 DEF EtaStates
  <2>3. eta' = [eta EXCEPT ![t] = x]
    BY <1>5
  <2> HIDE DEF x
  <2> QED BY <1>c, <2>2, <2>3
<1> QED BY <1>3, <1>4, <1>5 DEF ProcessEta

(* The server's handlers of the three events keep the invariant.              *)
LEMMA ReceiveHolds == ASSUME FeedInv, NEW d \in Devices, Receive(d) PROVE FeedInv'
<1> USE FeedAssumption
<1> DEFINE s == packets[d]  e == s[1]
<1>1. /\ s # <<>> /\ packets' = [packets EXCEPT ![d] = Tail(s)] /\ Head(s) = e
      /\ UNCHANGED <<track, count, fixes, starts, online, held, outages>>
      /\ \/ e.kind = "start" /\ HandleStart(d, e)
         \/ e.kind = "update" /\ HandleUpdate(d, e)
         \/ e.kind = "stop" /\ HandleStop(d)
  <2>1. s \in Seq(FeedEvents) /\ s # <<>>
    BY DEF Receive, FeedInv, FeedTypes
  <2>2. Head(s) = s[1]
    BY <2>1
  <2> QED BY <2>1, <2>2 DEF Receive, driverSide
<1>2. s \in Seq(FeedEvents) /\ e \in FeedEvents /\ Tail(s) \in Seq(FeedEvents)
  BY <1>1 DEF FeedInv, FeedTypes
<1>3. /\ e.trip \in Journeys \cup {"none"} /\ e.seq \in 0 .. MaxFixes /\ e.at \in 0 .. MaxFixes
      /\ e.seq + 1 \in 0 .. MaxFixes + 1
  BY <1>2 DEF FeedEvents
<1>4. online[d] /\ Line(d) = s /\ Seen(d) = active[d]
  BY <1>1 DEF FeedInv, OneLine, Line, Seen
<1> DEFINE a == active[d]  b == active'[d]  t == track[d]  n == count[d]
           l == lastSeq  m == lastSeq'
<1>5. Follows(s) /\ Leads(s, a) /\ Ends(s, a, t, n) /\ n \in Nat /\ l \in 0 .. MaxFixes + 1 /\ l \in Nat
  BY <1>4 DEF FeedInv, LinesAreInOrder, FeedTypes
<1>6. /\ active' \in [Devices -> Journeys \cup {"none"}]
      /\ \A c \in Devices \ {d} : active'[c] = active[c]
      /\ m \in 0 .. MaxFixes + 1
      /\ \/ e.kind = "start" /\ b = e.trip /\ m = 0
         \/ e.kind = "update" /\ b = a /\ m \in {l, e.seq + 1}
         \/ e.kind = "stop" /\ b = "none"
  <2>1. CASE e.kind = "start" /\ HandleStart(d, e)
    BY <1>3, <2>1 DEF HandleStart, FeedInv, FeedTypes
  <2>2. CASE e.kind = "update" /\ HandleUpdate(d, e)
    BY <1>3, <1>5, <2>2 DEF HandleUpdate, serverSide, FeedInv, FeedTypes
  <2>3. CASE e.kind = "stop" /\ HandleStop(d)
    BY <1>5, <2>3 DEF HandleStop, FeedInv, FeedTypes
  <2> QED BY <1>1, <2>1, <2>2, <2>3
<1>7. /\ eta' \in [Journeys -> EtaStates] /\ \A j \in Journeys : eta'[j].sequence <= eta'[j].at
      /\ shown' = shown \/ shown'.room = shown'.fix.trip
  <2>1. CASE UNCHANGED <<eta, shown>>
    BY <2>1 DEF FeedInv, FeedTypes
  <2>2. CASE e.kind = "update" /\ a # "none" /\ ProcessEta(a, e.at)
             /\ shown' = [room |-> a, fix |-> [trip |-> e.trip, at |-> e.at]]
    <3>1. a \in Journeys
      BY <2>2 DEF FeedInv, FeedTypes
    <3>2. a = e.trip
      BY <1>1, <1>5, <2>2 DEF Leads
    <3>3. shown'.room = a /\ shown'.fix.trip = e.trip
      BY <2>2
    <3> QED BY <1>3, <2>2, <3>1, <3>2, <3>3, ProcessEtaHolds DEF FeedInv
  <2> QED BY <1>1, <2>1, <2>2 DEF HandleStart, HandleUpdate, HandleStop, serverSide
<1>8. \A c \in Devices : starts'[c] = starts[c] /\ starts[c] \in Nat /\ starts[c] <= starts'[c]
  BY <1>1 DEF FeedInv, FeedTypes
<1>9. 0 < starts[d] /\ starts[d] # 0
  BY <1>1, <1>4, <1>8 DEF FeedInv, RestIsSilent
<1>10. late' = late \/ (late' = late \cup {d} /\ ~Alone(d))
  <2>1. CASE late' = late
    BY <2>1
  <2>2. CASE e.kind = "update" /\ a # "none" /\ e.seq < l /\ late' = late \cup {d}
    <3>1. ~Current(s, a, t, n, l)
      BY <1>1, <1>3, <1>5, <2>2 DEF Current
    <3> QED BY <1>4, <2>2, <3>1 DEF FeedInv, LonersAreCurrent
  <2> QED BY <1>1, <2>1, <2>2 DEF HandleStart, HandleUpdate, HandleStop, serverSide
<1>11. OnlyRivalsAreLate'
  <2>1. CASE late' = late
    BY <1>8, <2>1 DEF FeedInv, OnlyRivalsAreLate
  <2>2. CASE ~Alone(d)
    BY <1>8, <1>9, <2>2 DEF Alone, OnlyRivalsAreLate
  <2> QED BY <1>10, <2>1, <2>2
<1>12. /\ Tail(s) \in Seq(FeedEvents)
       /\ Follows(Tail(s)) /\ Leads(Tail(s), b) /\ Ends(Tail(s), b, t, n)
       /\ Current(s, a, t, n, l) => Current(Tail(s), b, t, n, m)
  <2> HIDE DEF s, a, b, t, n, l, m
  <2>1. m \in Nat
    BY <1>6
  <2> QED BY <1>1, <1>2, <1>5, <1>6, <2>1, FirstIsHandled
<1>13. packets' \in [Devices -> Seq(FeedEvents)] /\ packets'[d] = Tail(s)
       /\ \A c \in Devices \ {d} : packets'[c] = packets[c]
  BY <1>1, <1>2 DEF FeedInv, FeedTypes
<1>14. FeedTypes'
  <2>1. late' \subseteq Devices
    BY <1>10 DEF FeedInv, FeedTypes
  <2> QED BY <1>1, <1>6, <1>7, <1>13, <2>1 DEF FeedInv, FeedTypes
<1>15. OneLine'
  BY <1>1, <1>4, <1>13 DEF FeedInv, OneLine
<1>16. /\ Line(d)' = Tail(s) /\ Seen(d)' = b
       /\ \A c \in Devices \ {d} : Line(c)' = Line(c) /\ Seen(c)' = Seen(c)
  BY <1>1, <1>4, <1>6, <1>13 DEF Line, Seen
<1>17. LinesAreInOrder' /\ RestIsSilent' /\ LonersAreCurrent'
  <2>1. track'[d] = t /\ count'[d] = n /\ \A c \in Devices \ {d} :
          /\ Line(c)' = Line(c) /\ Seen(c)' = Seen(c)
          /\ track'[c] = track[c] /\ count'[c] = count[c] /\ starts'[c] = starts[c]
    BY <1>1, <1>16
  <2>2. /\ Follows(Line(d)') /\ Leads(Line(d)', Seen(d)')
        /\ Ends(Line(d)', Seen(d)', track'[d], count'[d])
    BY <1>12, <1>16, <2>1
  <2>3. Current(Line(d), Seen(d), track[d], count[d], lastSeq) =>
          Current(Line(d)', Seen(d)', track'[d], count'[d], lastSeq')
    BY <1>4, <1>12, <1>16, <2>1
  <2> QED BY <1>8, <1>9, <1>14, <2>1, <2>2, <2>3, OthersStay
<1>18. PositionsGoToTheirTrip'
  BY <1>7 DEF FeedInv, PositionsGoToTheirTrip
<1> QED
  BY <1>11, <1>14, <1>15, <1>17, <1>18 DEF FeedInv

(* Every step of the feed keeps the invariant.                                *)
LEMMA FeedStepHolds == ASSUME FeedInv, [LfNext]_lfVars PROVE FeedInv'
<1>1. CASE UNCHANGED lfVars
  BY <1>1 DEF lfVars, FeedInv, FeedTypes, OneLine, LinesAreInOrder, RestIsSilent,
     LonersAreCurrent, Alone, Line, Seen, PositionsGoToTheirTrip, OnlyRivalsAreLate
<1> QED
  BY <1>1, StartTrackingHolds, FixHolds, StopTrackingHolds, ConnectingHolds, ReceiveHolds
  DEF LfNext

(* THEOREM. Every state of the location feed satisfies its invariant: the     *)
(* lines are in order and a device that reports alone is never behind the     *)
(* server's number (location.handler.ts).                                     *)
THEOREM FeedInvariance == LfSpec => []FeedInv
<1>1. LfInit => FeedInv
  BY FeedInitHolds
<1>2. FeedInv /\ [LfNext]_lfVars => FeedInv'
  BY FeedStepHolds
<1> QED BY <1>1, <1>2, PTL DEF LfSpec

(* The invariant gives the types.                                             *)
LEMMA FeedIsTyped == ASSUME FeedInv PROVE LfTypeOK
<1>1. count \in [Devices -> 0 .. MaxFixes]
  BY FeedAssumption DEF FeedInv, FeedTypes
<1>2. \A t \in Journeys : eta[t] \in EtaStates /\ eta[t].sequence <= eta[t].at
  BY DEF FeedInv, FeedTypes
<1> QED
  BY <1>1, <1>2 DEF FeedInv, FeedTypes, OneLine, LfTypeOK, EtaStates

(* THEOREM. The types of the location feed hold for any devices, trips and    *)
(* bounds; an ETA's number is never ahead of its time (eta-                   *)
(* engine.service.ts).                                                        *)
THEOREM FeedTypesHold == LfSpec => []LfTypeOK
<1>1. FeedInv => LfTypeOK
  BY FeedIsTyped
<1> QED BY <1>1, FeedInvariance, PTL

(* THEOREM. Over any number of reconnects, buffered events and trips in a     *)
(* row, the server publishes a position for the trip it was taken on          *)
(* (location.handler.ts, useLocationBroadcast.ts).                            *)
THEOREM PositionsReachTheirTrip == LfSpec => []PositionsGoToTheirTrip
  BY FeedInvariance, PTL DEF FeedInv

(* THEOREM. A device finds its update refused as out of order only if another *)
(* device of the same driver has been tracking as well: a device alone loses  *)
(* nothing to the order check.                                                *)
THEOREM RivalsMakeLate == LfSpec => []OnlyRivalsAreLate
  BY FeedInvariance, PTL DEF FeedInv

--------------------------------------------------------------------------------
(* FleetFeed. Follow what the page will hold of a vehicle once it has taken   *)
(* every message under way: either that is the server's state already, or the *)
(* vehicle's last change still waits in the queue, whose merge will be newer  *)
(* than all the page knows. What the cut of a full queue drops is counted as  *)
(* missed until it changes again.                                             *)

(* What the server, the queue, the messages and the page hold.                *)
Pictures == [Vehicles -> 0 .. MaxChanges]
FleetStates == [version : 1 .. MaxClock, vehicles : Pictures]
FleetCopies == [version : 0 .. MaxClock, vehicles : Pictures]
FleetDeltas == [version : 1 .. MaxClock, vehicle : Vehicles, state : 0 .. MaxChanges]
FleetMessages ==
  [kind : {"snapshot", "delta"}, version : 1 .. MaxClock,
   vehicles : UNION {[V -> 0 .. MaxChanges] : V \in SUBSET Vehicles}]

(* What the variables range over; a snapshot is of all vehicles.              *)
FleetTypes ==
  /\ clock \in 1 .. MaxClock /\ changes \in 0 .. MaxChanges
  /\ fleet \in FleetStates /\ copy \in FleetCopies
  /\ deltas \in Seq(FleetDeltas) /\ Len(deltas) <= DeltaCap
  /\ inbox \in Seq(FleetMessages) /\ missed \subseteq Vehicles
  /\ visit \in {"none", "early", "late"} /\ (visit = "none" => inbox = <<>>)
  /\ \A i \in DOMAIN inbox : inbox[i].kind = "snapshot" => DOMAIN inbox[i].vehicles = Vehicles

(* The version of the page once it has taken the first i messages.              *)
After(i) == IF i = 0 THEN copy.version ELSE inbox[i].version

(* Versions only rise on the way from the server to the page, and the end of  *)
(* the queue is the server's.                                                 *)
VersionsRise ==
  /\ fleet.version <= clock
  /\ \A i \in DOMAIN inbox : After(i - 1) <= inbox[i].version
  /\ \A i \in 0 .. Len(inbox) : After(i) <= fleet.version
  /\ \A i \in DOMAIN deltas : deltas[i].version <= fleet.version
  /\ deltas # <<>> => deltas[Len(deltas)].version = fleet.version

(* Is a change of the vehicle in the queue?                                   *)
Queued(v) == \E i \in DOMAIN deltas : deltas[i].vehicle = v

(* The last change of a vehicle in the queue is its last change.                *)
QueueIsFresh ==
  \A v \in Vehicles : Queued(v) =>
    \E i \in DOMAIN deltas :
      /\ deltas[i].vehicle = v /\ deltas[i].state = fleet.vehicles[v]
      /\ \A j \in DOMAIN deltas : i < j => deltas[j].vehicle # v

(* The page will take the i-th message, and with it a state of the vehicle.     *)
Brings(i, v) ==
  /\ inbox[i].kind = "snapshot" \/ After(i - 1) < inbox[i].version
  /\ v \in DOMAIN inbox[i].vehicles

BringsTruth(i, v) == Brings(i, v) /\ inbox[i].vehicles[v] = fleet.vehicles[v]

(* The messages under way leave the page with the server's state of a vehicle.  *)
WillShow(v) ==
  \E i \in 0 .. Len(inbox) :
    /\ IF i = 0 THEN copy.vehicles[v] = fleet.vehicles[v] ELSE BringsTruth(i, v)
    /\ \A j \in DOMAIN inbox : i < j /\ Brings(j, v) => BringsTruth(j, v)

(* What the page did not miss it holds, is being sent, or will be sent with a *)
(* version that it has not seen.                                              *)
NothingElseIsMissed ==
  visit = "early" =>
    \A v \in Vehicles \ missed :
      WillShow(v) \/ (Queued(v) /\ After(Len(inbox)) < fleet.version)

(* The invariant of the fleet's picture.                                      *)
FleetInv == FleetTypes /\ VersionsRise /\ QueueIsFresh /\ NothingElseIsMissed

--------------------------------------------------------------------------------
(* It holds while everything is parked.                                       *)
LEMMA FleetInitHolds == ASSUME FfInit PROVE FleetInv
<1>1. Parked \in Pictures
  BY FleetAssumption DEF Parked, Pictures
<1>2. fleet \in FleetStates /\ copy \in FleetCopies
  BY <1>1, FleetAssumption DEF FfInit, FleetStates, FleetCopies
<1>3. deltas \in Seq(FleetDeltas) /\ inbox \in Seq(FleetMessages) /\ Len(deltas) = 0 /\ Len(inbox) = 0
  BY DEF FfInit
<1>4. clock \in 1 .. MaxClock /\ changes \in 0 .. MaxChanges /\ missed = {} /\ visit = "none"
      /\ inbox = <<>>
  BY FleetAssumption DEF FfInit
<1>5. FleetTypes
  <2>1. Len(deltas) <= DeltaCap
    BY <1>3, FleetAssumption
  <2> QED BY <1>2, <1>3, <1>4, <2>1 DEF FleetTypes
<1>6. VersionsRise
  BY DEF FfInit, VersionsRise, After
<1>7. QueueIsFresh /\ NothingElseIsMissed
  BY DEF FfInit, QueueIsFresh, Queued, NothingElseIsMissed
<1> QED BY <1>5, <1>6, <1>7 DEF FleetInv

(* What the parts say of single messages and changes.                           *)
LEMMA MessagesAreTyped ==
  ASSUME FleetTypes
  PROVE  /\ \A i \in 1 .. Len(inbox) : inbox[i] \in FleetMessages /\ inbox[i].version \in 1 .. MaxClock
         /\ \A i \in 1 .. Len(deltas) : deltas[i] \in FleetDeltas /\ deltas[i].vehicle \in Vehicles
                                        /\ deltas[i].version \in 1 .. MaxClock
         /\ DOMAIN inbox = 1 .. Len(inbox) /\ DOMAIN deltas = 1 .. Len(deltas)
         /\ Len(inbox) \in Nat /\ Len(deltas) \in Nat
         /\ fleet.version \in 1 .. MaxClock /\ fleet.vehicles \in Pictures
         /\ copy.version \in 0 .. MaxClock /\ copy.vehicles \in Pictures
         /\ \A i \in 0 .. Len(inbox) : After(i) \in 0 .. MaxClock
<1>1. \A i \in 1 .. Len(inbox) : inbox[i] \in FleetMessages
  BY DEF FleetTypes
<1>2. \A i \in 1 .. Len(inbox) : inbox[i].version \in 1 .. MaxClock
  BY <1>1 DEF FleetMessages
<1>3. \A i \in 1 .. Len(deltas) : deltas[i] \in FleetDeltas
  BY DEF FleetTypes
<1>4. \A i \in 1 .. Len(deltas) : deltas[i].vehicle \in Vehicles /\ deltas[i].version \in 1 .. MaxClock
  BY <1>3 DEF FleetDeltas
<1>5. /\ fleet.version \in 1 .. MaxClock /\ fleet.vehicles \in Pictures
      /\ copy.version \in 0 .. MaxClock /\ copy.vehicles \in Pictures
  BY DEF FleetTypes, FleetStates, FleetCopies
<1>6. \A i \in 0 .. Len(inbox) : After(i) \in 0 .. MaxClock
  BY <1>2, <1>5, FleetAssumption DEF After
<1> QED
  BY <1>1, <1>2, <1>3, <1>4, <1>5, <1>6 DEF FleetTypes

(* Max is the greatest member.                                                *)
LEMMA GreatestIsMax ==
  ASSUME NEW S \in SUBSET Int, NEW m \in S, \A x \in S : x <= m PROVE Max(S) = m
<1>1. \A x \in S : (\A y \in S : x >= y) => x = m
  OBVIOUS
<1>2. m \in S /\ \A y \in S : m >= y
  OBVIOUS
<1> QED BY <1>1, <1>2 DEF Max

(* The merge of the queue tells the truth about what is in it.                  *)
LEMMA MergeIsTrue ==
  ASSUME FleetInv, deltas # <<>>
  PROVE  /\ LatestVersion = fleet.version
         /\ \A v \in Vehicles : v \in DOMAIN Merged <=> Queued(v)
         /\ \A v \in DOMAIN Merged : v \in Vehicles /\ Merged[v] = fleet.vehicles[v]
<1> DEFINE D == DOMAIN deltas
<1>1. D = 1 .. Len(deltas) /\ Len(deltas) \in Nat /\ Len(deltas) \in D
      /\ \A i \in D : deltas[i].vehicle \in Vehicles /\ deltas[i].version \in 1 .. MaxClock
  <2>1. Len(deltas) # 0
    BY DEF FleetInv, FleetTypes
  <2> QED BY <2>1, MessagesAreTyped DEF FleetInv
<1>2. LatestVersion = fleet.version
  <2> DEFINE S == {deltas[i].version : i \in D}
  <2>1. S \in SUBSET Int
    BY <1>1
  <2>2. fleet.version \in S /\ \A x \in S : x <= fleet.version
    BY <1>1 DEF FleetInv, VersionsRise
  <2> HIDE DEF S
  <2>3. Max(S) = fleet.version
    BY <2>1, <2>2, GreatestIsMax
  <2> QED BY <2>3 DEF LatestVersion, S
<1>3. DOMAIN Merged = {deltas[i].vehicle : i \in D}
  BY DEF Merged
<1>4. ASSUME NEW v \in DOMAIN Merged PROVE v \in Vehicles /\ Merged[v] = fleet.vehicles[v]
  <2>1. v \in Vehicles /\ Queued(v)
    BY <1>1, <1>3, <1>4 DEF Queued
  <2>2. PICK i \in D : /\ deltas[i].vehicle = v /\ deltas[i].state = fleet.vehicles[v]
                       /\ \A j \in D : i < j => deltas[j].vehicle # v
    BY <2>1 DEF FleetInv, QueueIsFresh
  <2> DEFINE S == {j \in D : deltas[j].vehicle = v}
  <2>3. S \in SUBSET Int /\ i \in S /\ \A x \in S : x <= i
    BY <1>1, <2>2
  <2> HIDE DEF S
  <2>4. Max(S) = i
    BY <2>3, GreatestIsMax
  <2>5. Merged[v] = deltas[Max(S)].state
    BY <1>3, <1>4 DEF Merged, S
  <2> QED BY <2>1, <2>2, <2>4, <2>5
<1> QED BY <1>2, <1>3, <1>4 DEF Queued

(* A change that is queued: the queue, cut or not, and its new end.             *)
LEMMA ChangeHolds == ASSUME FleetInv, NEW v \in Vehicles, Change(v) PROVE FleetInv'
<1> USE FleetAssumption
<1> DEFINE e == [version |-> clock, vehicle |-> v, state |-> changes + 1]
           kept == IF Len(deltas) = DeltaCap THEN Tail(deltas) ELSE deltas
<1>1. /\ changes' = changes + 1 /\ changes < MaxChanges
      /\ fleet' = [version |-> clock, vehicles |-> [fleet.vehicles EXCEPT ![v] = changes + 1]]
      /\ deltas' = Append(kept, e)
      /\ missed' = missed \cup Cut \cup (IF Tied(clock) THEN {v} ELSE {})
      /\ UNCHANGED <<clock, visit, inbox, copy, visits>>
  BY DEF Change, QueueDelta
<1>2. clock \in 1 .. MaxClock /\ changes \in 0 .. MaxChanges /\ changes + 1 \in 0 .. MaxChanges
  BY <1>1 DEF FleetInv, FleetTypes
<1>3. e \in FleetDeltas /\ e.version = clock /\ e.vehicle = v /\ e.state = changes + 1
  BY <1>2 DEF FleetDeltas
<1>4. deltas \in Seq(FleetDeltas) /\ Len(deltas) \in Nat /\ Len(deltas) <= DeltaCap
  BY DEF FleetInv, FleetTypes
<1>5. kept \in Seq(FleetDeltas) /\ Len(kept) < DeltaCap
  <2>1. Len(deltas) = DeltaCap => deltas # <<>>
    BY <1>4
  <2> QED BY <1>4, <2>1
<1>6. PICK k \in {0, 1} : /\ Len(kept) + k = Len(deltas)
                          /\ \A i \in 1 .. Len(kept) : kept[i] = deltas[i + k]
                          /\ k = 1 => Cut = {deltas[1].vehicle}
  <2>1. CASE Len(deltas) = DeltaCap
    <3>1. deltas # <<>> /\ kept = Tail(deltas)
      BY <1>4, <2>1
    <3> QED BY <3>1, <2>1, <1>4 DEF Cut
  <2>2. CASE Len(deltas) # DeltaCap
    BY <2>2, <1>4
  <2> QED BY <2>1, <2>2
<1> HIDE DEF kept, e
<1>7. /\ deltas' \in Seq(FleetDeltas) /\ Len(deltas') = Len(kept) + 1 /\ Len(kept) \in Nat
      /\ deltas'[Len(kept) + 1] = e /\ deltas' # <<>>
      /\ DOMAIN deltas' = 1 .. Len(kept) + 1 /\ DOMAIN deltas = 1 .. Len(deltas)
      /\ \A i \in 1 .. Len(kept) : deltas'[i] = deltas[i + k] /\ i + k \in DOMAIN deltas
  <2>1. /\ deltas' \in Seq(FleetDeltas) /\ Len(deltas') = Len(kept) + 1 /\ Len(kept) \in Nat
        /\ deltas'[Len(kept) + 1] = e
        /\ \A i \in 1 .. Len(kept) : deltas'[i] = kept[i]
    BY <1>1, <1>3, <1>5
  <2>2. DOMAIN deltas' = 1 .. Len(kept) + 1 /\ DOMAIN deltas = 1 .. Len(deltas)
    BY <2>1, <1>4
  <2>3. deltas' # <<>>
    BY <2>1
  <2>4. \A i \in 1 .. Len(kept) : i + k \in 1 .. Len(deltas)
    BY <2>1, <1>4, <1>6
  <2> QED BY <2>1, <2>2, <2>3, <2>4, <1>6
<1>8. fleet'.version = clock /\ fleet'.vehicles \in Pictures /\ fleet'.vehicles[v] = changes + 1
      /\ \A u \in Vehicles \ {v} : fleet'.vehicles[u] = fleet.vehicles[u]
  BY <1>1, <1>2, MessagesAreTyped DEF FleetInv, Pictures
<1>9. FleetTypes'
  <2>1. fleet' \in FleetStates
    BY <1>1, <1>2, <1>8 DEF FleetStates
  <2>2. missed' \subseteq Vehicles
    <3>1. Cut \subseteq Vehicles
      <4>1. Len(deltas) = DeltaCap => 1 \in 1 .. Len(deltas)
        BY <1>4
      <4> QED BY <4>1, MessagesAreTyped DEF Cut, FleetInv
    <3> QED BY <1>1, <3>1 DEF FleetInv, FleetTypes
  <2> QED BY <1>1, <1>2, <1>5, <1>7, <2>1, <2>2 DEF FleetInv, FleetTypes
<1>10. \A i \in 0 .. Len(inbox) : After(i)' = After(i)
  BY <1>1 DEF After
<1>11. VersionsRise'
  <2>1. \A i \in DOMAIN deltas' : deltas'[i].version <= clock
    <3>1. \A i \in DOMAIN deltas : deltas[i].version <= clock
      BY <1>2, MessagesAreTyped DEF FleetInv, VersionsRise
    <3>2. \A i \in 1 .. Len(kept) : deltas'[i].version <= clock
      BY <1>7, <3>1
    <3>3. deltas'[Len(kept) + 1].version <= clock
      BY <1>2, <1>3, <1>7
    <3>4. \A i \in 1 .. Len(kept) + 1 : i \in 1 .. Len(kept) \/ i = Len(kept) + 1
      BY <1>7
    <3> QED BY <1>7, <3>2, <3>3, <3>4
  <2>2. \A i \in 0 .. Len(inbox) : After(i) <= clock
    BY <1>2, MessagesAreTyped DEF FleetInv, VersionsRise
  <2>3. \A i \in DOMAIN inbox : After(i - 1)' <= inbox'[i].version
    <3>1. \A i \in DOMAIN inbox : i - 1 \in 0 .. Len(inbox)
      BY MessagesAreTyped DEF FleetInv
    <3> QED BY <1>1, <1>10, <3>1 DEF FleetInv, VersionsRise
  <2>4. \A i \in 0 .. Len(inbox') : After(i)' <= clock
    BY <1>1, <1>10, <2>2
  <2> QED
    BY <1>1, <1>2, <1>3, <1>7, <1>8, <2>1, <2>3, <2>4 DEF VersionsRise
<1>12. \A u \in Vehicles : Queued(u)' => u = v \/ Queued(u)
  BY <1>3, <1>7 DEF Queued
<1>13. QueueIsFresh'
  <2> SUFFICES ASSUME NEW u \in Vehicles, Queued(u)'
               PROVE \E i \in DOMAIN deltas' :
                       /\ deltas'[i].vehicle = u /\ deltas'[i].state = fleet'.vehicles[u]
                       /\ \A j \in DOMAIN deltas' : i < j => deltas'[j].vehicle # u
    BY DEF QueueIsFresh
  <2>1. CASE u = v
    BY <2>1, <1>3, <1>7, <1>8
  <2>2. CASE u # v
    <3>1. PICK i \in DOMAIN deltas :
            /\ deltas[i].vehicle = u /\ deltas[i].state = fleet.vehicles[u]
            /\ \A j \in DOMAIN deltas : i < j => deltas[j].vehicle # u
      BY <1>12, <2>2 DEF FleetInv, QueueIsFresh
    <3>2. PICK m \in 1 .. Len(kept) : deltas'[m].vehicle = u
      BY <2>2, <1>3, <1>7 DEF Queued
    <3>3. m + k <= i /\ m + k \in Nat
      BY <3>1, <3>2, <1>7
    <3>4. i - k \in 1 .. Len(kept) /\ deltas'[i - k] = deltas[i]
      <4>1. i \in 1 .. Len(kept) + k
        BY <1>6, <1>7
      <4>2. i - k \in 1 .. Len(kept) /\ (i - k) + k = i
        BY <3>2, <3>3, <4>1, <1>7
      <4> QED BY <4>2, <1>7
    <3>5. \A j \in DOMAIN deltas' : i - k < j => deltas'[j].vehicle # u
      BY <3>1, <3>4, <2>2, <1>3, <1>7, SMTT(20)
    <3> QED BY <3>1, <3>4, <3>5, <2>2, <1>7, <1>8
  <2> QED BY <2>1, <2>2
<1>14. ASSUME visit' = "early", NEW u \in Vehicles, u \notin missed'
       PROVE WillShow(u)' \/ (Queued(u)' /\ After(Len(inbox))' < fleet'.version)
  <2>1. After(Len(inbox))' = After(Len(inbox)) /\ After(Len(inbox)) <= fleet.version
        /\ fleet.version <= clock /\ fleet'.version = clock
        /\ fleet.version \in Nat /\ clock \in Nat /\ After(Len(inbox)) \in Nat
    BY <1>1, <1>2, <1>8, MessagesAreTyped DEF After, FleetInv, VersionsRise
  <2>2. CASE u = v
    <3>1. ~Tied(clock)
      BY <1>1, <1>14, <2>2
    <3>2. After(Len(inbox)) # clock
      BY <1>1, <1>14, <3>1, MessagesAreTyped DEF Tied, After, FleetInv
    <3>3. Queued(u)'
      BY <2>2, <1>3, <1>7 DEF Queued
    <3> QED BY <2>1, <3>2, <3>3
  <2>3. CASE u # v
    <3>1. u \notin missed /\ u \notin Cut
      BY <1>1, <1>14
    <3>2. CASE WillShow(u)
      <4>1. fleet'.vehicles[u] = fleet.vehicles[u] /\ inbox' = inbox /\ copy' = copy
        BY <1>1, <1>8, <2>3
      <4>2. \A i \in DOMAIN inbox : (Brings(i, u)' <=> Brings(i, u))
                                    /\ (BringsTruth(i, u)' <=> BringsTruth(i, u))
        BY <4>1 DEF Brings, BringsTruth, After
      <4>3. WillShow(u)'
        <5>1. PICK i \in 0 .. Len(inbox) :
                /\ IF i = 0 THEN copy.vehicles[u] = fleet.vehicles[u] ELSE BringsTruth(i, u)
                /\ \A j \in DOMAIN inbox : i < j /\ Brings(j, u) => BringsTruth(j, u)
          BY <3>2 DEF WillShow
        <5>2. i # 0 => i \in DOMAIN inbox
          BY MessagesAreTyped DEF FleetInv
        <5>3. IF i = 0 THEN copy'.vehicles[u] = fleet'.vehicles[u] ELSE BringsTruth(i, u)'
          BY <4>1, <4>2, <5>1, <5>2
        <5>4. \A j \in DOMAIN inbox' : i < j /\ Brings(j, u)' => BringsTruth(j, u)'
          BY <4>1, <4>2, <5>1
        <5>5. i \in 0 .. Len(inbox')
          BY <4>1
        <5> QED BY <5>3, <5>4, <5>5 DEF WillShow
      <4> QED BY <4>3
    <3>3. CASE Queued(u) /\ After(Len(inbox)) < fleet.version
      <4>1. PICK i \in DOMAIN deltas : deltas[i].vehicle = u
        BY <3>3 DEF Queued
      <4>2. ~(k = 1 /\ i = 1)
        BY <3>1, <4>1, <1>6
      <4>3. i - k \in 1 .. Len(kept)
        BY <4>2, <1>6, <1>7
      <4>4. deltas'[i - k] = deltas[i] /\ i - k \in DOMAIN deltas'
        BY <4>3, <1>7, <1>6
      <4>5. Queued(u)'
        BY <4>1, <4>4 DEF Queued
      <4> QED BY <3>3, <4>5, <2>1
    <3> QED BY <1>1, <1>14, <3>1, <3>2, <3>3 DEF FleetInv, NothingElseIsMissed
  <2> QED BY <2>2, <2>3
<1>15. NothingElseIsMissed'
  BY <1>14 DEF NothingElseIsMissed
<1> QED BY <1>9, <1>11, <1>13, <1>15 DEF FleetInv

(* The aggregator's flush keeps the invariant.                                *)
LEMMA FlushHolds == ASSUME FleetInv, FlushDeltas PROVE FleetInv'
<1> DEFINE m == [kind |-> "delta", version |-> LatestVersion, vehicles |-> Merged]
<1>1. /\ deltas # <<>> /\ deltas' = <<>>
      /\ inbox' = IF visit = "none" THEN inbox ELSE Append(inbox, m)
      /\ UNCHANGED <<clock, fleet, visit, copy, missed, changes, visits>>
  BY DEF FlushDeltas
<1>2. /\ LatestVersion = fleet.version
      /\ \A v \in Vehicles : v \in DOMAIN Merged <=> Queued(v)
      /\ \A v \in DOMAIN Merged : v \in Vehicles /\ Merged[v] = fleet.vehicles[v]
  BY <1>1, MergeIsTrue
<1>3. fleet.version \in 1 .. MaxClock /\ fleet.vehicles \in Pictures
  BY MessagesAreTyped DEF FleetInv
<1>4. Merged \in UNION {[V -> 0 .. MaxChanges] : V \in SUBSET Vehicles}
  <2>1. DOMAIN Merged \in SUBSET Vehicles
    BY <1>2
  <2>2. \A v \in DOMAIN Merged : Merged[v] \in 0 .. MaxChanges
    BY <1>2, <1>3 DEF Pictures
  <2>3. Merged = [v \in DOMAIN Merged |-> Merged[v]]
    BY DEF Merged
  <2>4. Merged \in [DOMAIN Merged -> 0 .. MaxChanges]
    BY <2>2, <2>3
  <2> QED BY <2>1, <2>4
<1>5. m \in FleetMessages /\ m.kind = "delta" /\ m.version = fleet.version /\ m.vehicles = Merged
  BY <1>2, <1>3, <1>4 DEF FleetMessages
<1> HIDE DEF m
<1>6. \A v \in Vehicles : ~Queued(v)'
  BY <1>1 DEF Queued
<1>7. deltas' \in Seq(FleetDeltas) /\ Len(deltas') = 0 /\ DOMAIN deltas' = {}
  BY <1>1
<1>8. CASE visit = "none"
  <2>1. inbox' = inbox
    BY <1>1, <1>8
  <2>2. FleetTypes'
    BY <1>1, <1>7, <2>1, FleetAssumption DEF FleetInv, FleetTypes
  <2>3. VersionsRise'
    BY <1>1, <1>7, <2>1 DEF FleetInv, VersionsRise, After
  <2> QED BY <1>1, <1>6, <1>8, <2>2, <2>3 DEF FleetInv, QueueIsFresh, NothingElseIsMissed
<1>9. CASE visit # "none"
  <2>1. PICK n \in Nat : n = Len(inbox) /\ inbox \in Seq(FleetMessages) /\ DOMAIN inbox = 1 .. n
    BY DEF FleetInv, FleetTypes
  <2>2. /\ inbox' \in Seq(FleetMessages) /\ Len(inbox') = n + 1 /\ inbox'[n + 1] = m
        /\ \A i \in 1 .. n : inbox'[i] = inbox[i]
    BY <1>1, <1>5, <1>9, <2>1
  <2>3. DOMAIN inbox' = 1 .. n + 1
    BY <2>2
  <2>4. /\ \A i \in 0 .. n : After(i)' = After(i)
        /\ After(n + 1)' = fleet.version
    BY <1>1, <1>5, <2>1, <2>2 DEF After
  <2>5. FleetTypes'
    <3>1. \A i \in DOMAIN inbox' : inbox'[i].kind = "snapshot" => DOMAIN inbox'[i].vehicles = Vehicles
      BY <1>5, <2>1, <2>2, <2>3 DEF FleetInv, FleetTypes
    <3> QED BY <1>1, <1>7, <1>9, <2>2, <3>1, FleetAssumption DEF FleetInv, FleetTypes
  <2>6. VersionsRise'
    <3>1. \A i \in DOMAIN inbox' : After(i - 1)' <= inbox'[i].version
      <4> SUFFICES ASSUME NEW i \in 1 .. n + 1 PROVE After(i - 1)' <= inbox'[i].version
        BY <2>3
      <4>1. CASE i \in 1 .. n
        <5>1. i - 1 \in 0 .. n /\ After(i - 1) <= inbox[i].version
          BY <2>1, <4>1 DEF FleetInv, VersionsRise
        <5> QED BY <4>1, <5>1, <2>2, <2>4
      <4>2. CASE i = n + 1
        <5>1. i - 1 = n /\ n \in 0 .. n
          BY <2>1, <4>2
        <5>2. After(n) <= fleet.version
          BY <5>1, <2>1 DEF FleetInv, VersionsRise
        <5> QED BY <4>2, <5>1, <5>2, <1>5, <2>2, <2>4
      <4> QED BY <4>1, <4>2
    <3>2. \A i \in 0 .. Len(inbox') : After(i)' <= fleet'.version
      <4> SUFFICES ASSUME NEW i \in 0 .. n + 1 PROVE After(i)' <= fleet'.version
        BY <2>2
      <4>1. CASE i \in 0 .. n
        BY <4>1, <1>1, <2>1, <2>4 DEF FleetInv, VersionsRise
      <4>2. CASE i = n + 1
        BY <4>2, <1>1, <1>3, <2>4
      <4> QED BY <4>1, <4>2
    <3> QED BY <1>1, <1>7, <3>1, <3>2 DEF FleetInv, VersionsRise
  <2>7. QueueIsFresh'
    BY <1>6 DEF QueueIsFresh
  <2>8. ASSUME visit' = "early", NEW v \in Vehicles, v \notin missed' PROVE WillShow(v)'
    <3>1. \A i \in 1 .. n : (Brings(i, v)' <=> Brings(i, v)) /\ (BringsTruth(i, v)' <=> BringsTruth(i, v))
      <4>1. \A i \in 1 .. n : i - 1 \in 0 .. n
        BY <2>1
      <4>2. \A i \in 1 .. n : After(i - 1)' = After(i - 1) /\ inbox'[i] = inbox[i]
        BY <4>1, <2>2, <2>4
      <4> QED BY <4>2, <1>1 DEF Brings, BringsTruth
    <3>2. (n + 1) - 1 = n /\ n \in 0 .. n
      BY <2>1
    <3>3. Brings(n + 1, v)' <=> After(n) < fleet.version /\ Queued(v)
      BY <1>2, <1>5, <2>2, <2>4, <3>2 DEF Brings
    <3>4. Brings(n + 1, v)' => BringsTruth(n + 1, v)'
      <4>1. Brings(n + 1, v)' => v \in DOMAIN Merged
        BY <1>5, <2>2 DEF Brings
      <4> QED BY <4>1, <1>1, <1>2, <1>5, <2>2 DEF BringsTruth
    <3>5. CASE WillShow(v)
      <4>1. PICK i \in 0 .. n :
              /\ IF i = 0 THEN copy.vehicles[v] = fleet.vehicles[v] ELSE BringsTruth(i, v)
              /\ \A j \in DOMAIN inbox : i < j /\ Brings(j, v) => BringsTruth(j, v)
        BY <3>5, <2>1 DEF WillShow
      <4>2. i \in 0 .. Len(inbox') /\ (i # 0 => i \in 1 .. n)
        BY <2>1, <2>2
      <4>3. IF i = 0 THEN copy'.vehicles[v] = fleet'.vehicles[v] ELSE BringsTruth(i, v)'
        BY <1>1, <3>1, <4>1, <4>2
      <4>4. \A j \in DOMAIN inbox' : i < j /\ Brings(j, v)' => BringsTruth(j, v)'
        <5> SUFFICES ASSUME NEW j \in 1 .. n + 1, i < j, Brings(j, v)' PROVE BringsTruth(j, v)'
          BY <2>3
        <5>1. CASE j \in 1 .. n
          BY <5>1, <2>1, <3>1, <4>1
        <5>2. CASE j = n + 1
          BY <5>2, <3>4
        <5> QED BY <5>1, <5>2
      <4> QED BY <4>2, <4>3, <4>4 DEF WillShow
    <3>6. CASE Queued(v) /\ After(n) < fleet.version
      <4>1. BringsTruth(n + 1, v)'
        BY <3>3, <3>4, <3>6
      <4>2. n + 1 \in 0 .. Len(inbox') /\ n + 1 # 0 /\ \A j \in DOMAIN inbox' : ~(n + 1 < j)
        BY <2>1, <2>2, <2>3
      <4> QED BY <4>1, <4>2 DEF WillShow
    <3> QED BY <1>1, <2>1, <2>8, <3>5, <3>6 DEF FleetInv, NothingElseIsMissed
  <2> QED BY <2>5, <2>6, <2>7, <2>8 DEF FleetInv, NothingElseIsMissed
<1> QED BY <1>8, <1>9

(* A page that opens, with its snapshot first or its subscription first,      *)
(* keeps the invariant.                                                       *)
LEMMA VisitHolds == ASSUME FleetInv, NEW how \in {"early", "late"}, Visit(how) PROVE FleetInv'
<1> DEFINE m == SnapshotOf(fleet)
<1>1. /\ visit' = how /\ missed' = {}
      /\ inbox' = IF how = "early" THEN <<m>> ELSE <<>>
      /\ UNCHANGED <<clock, fleet, deltas, copy, changes>>
      /\ visit = "none" /\ inbox = <<>>
  BY DEF Visit, FleetInv, FleetTypes
<1>2. fleet.version \in 1 .. MaxClock /\ fleet.vehicles \in Pictures /\ fleet \in FleetStates
  BY MessagesAreTyped DEF FleetInv, FleetTypes
<1>3. m = [kind |-> "snapshot", version |-> fleet.version, vehicles |-> fleet.vehicles]
  BY DEF SnapshotOf
<1>4. m \in FleetMessages /\ m.kind = "snapshot" /\ m.version = fleet.version
      /\ m.vehicles = fleet.vehicles /\ DOMAIN m.vehicles = Vehicles
  BY <1>2, <1>3 DEF FleetMessages, Pictures
<1> HIDE DEF m
<1>5. /\ copy.version <= fleet.version /\ copy.version \in 0 .. MaxClock
      /\ \A i \in DOMAIN deltas : deltas[i].version <= fleet.version
      /\ deltas # <<>> => deltas[Len(deltas)].version = fleet.version
      /\ fleet.version <= clock
  <2>1. After(Len(inbox)) = copy.version
    BY <1>1 DEF After
  <2> QED BY <2>1, MessagesAreTyped DEF FleetInv, VersionsRise
<1>6. QueueIsFresh'
  BY <1>1 DEF FleetInv, QueueIsFresh, Queued
<1>7. CASE how = "late"
  <2>1. inbox' \in Seq(FleetMessages) /\ Len(inbox') = 0 /\ DOMAIN inbox' = {}
    BY <1>1, <1>7
  <2>2. FleetTypes'
    BY <1>1, <1>7, <2>1 DEF FleetInv, FleetTypes
  <2>3. VersionsRise'
    BY <1>1, <1>5, <2>1 DEF VersionsRise, After
  <2> QED BY <1>1, <1>6, <1>7, <2>2, <2>3 DEF FleetInv, NothingElseIsMissed
<1>8. CASE how = "early"
  <2>1. inbox' = <<m>>
    BY <1>1, <1>8
  <2>2. inbox' \in Seq(FleetMessages) /\ Len(inbox') = 1 /\ DOMAIN inbox' = {1} /\ inbox'[1] = m
    BY <1>4, <2>1
  <2>3. FleetTypes'
    BY <1>1, <1>4, <1>8, <2>2 DEF FleetInv, FleetTypes
  <2>4. VersionsRise'
    BY <1>1, <1>2, <1>4, <1>5, <2>2 DEF VersionsRise, After
  <2>5. \A v \in Vehicles : WillShow(v)'
    <3> SUFFICES ASSUME NEW v \in Vehicles PROVE WillShow(v)'
      OBVIOUS
    <3>1. BringsTruth(1, v)'
      BY <1>1, <1>4, <2>2 DEF BringsTruth, Brings
    <3>2. 1 \in 0 .. Len(inbox') /\ \A j \in DOMAIN inbox' : ~(1 < j)
      BY <2>2
    <3> QED BY <3>1, <3>2 DEF WillShow
  <2> QED BY <1>6, <2>3, <2>4, <2>5 DEF FleetInv, NothingElseIsMissed
<1> QED BY <1>7, <1>8

(* So does a page that closes.                                                *)
LEMMA LeaveHolds == ASSUME FleetInv, Leave PROVE FleetInv'
<1>1. /\ visit' = "none" /\ inbox' = <<>>
      /\ UNCHANGED <<clock, fleet, deltas, copy, missed, changes, visits>>
  BY DEF Leave
<1>2. inbox' \in Seq(FleetMessages) /\ Len(inbox') = 0 /\ DOMAIN inbox' = {}
  BY <1>1
<1>3. copy.version <= fleet.version
  <2>1. 0 \in 0 .. Len(inbox) /\ After(0) = copy.version
    BY MessagesAreTyped DEF After, FleetInv
  <2> QED BY <2>1 DEF FleetInv, VersionsRise
<1>4. FleetTypes'
  BY <1>1, <1>2 DEF FleetInv, FleetTypes
<1>5. VersionsRise'
  BY <1>1, <1>2, <1>3 DEF FleetInv, VersionsRise, After
<1>6. QueueIsFresh' /\ NothingElseIsMissed'
  BY <1>1 DEF FleetInv, QueueIsFresh, Queued, NothingElseIsMissed
<1> QED BY <1>4, <1>5, <1>6 DEF FleetInv

(* So does time.                                                              *)
LEMMA ClockHolds == ASSUME FleetInv, ClockTicks \/ UNCHANGED ffVars PROVE FleetInv'
<1>1. /\ clock' \in {clock, clock + 1} /\ clock' <= MaxClock /\ clock \in 1 .. MaxClock
      /\ UNCHANGED <<fleet, deltas, visit, inbox, copy, missed, changes>>
  BY FleetAssumption DEF ClockTicks, ffVars, FleetInv, FleetTypes
<1>2. FleetTypes'
  BY <1>1, FleetAssumption DEF FleetInv, FleetTypes
<1>3. VersionsRise'
  <2>1. fleet.version <= clock'
    BY <1>1, MessagesAreTyped DEF FleetInv, VersionsRise
  <2> QED BY <2>1, <1>1 DEF FleetInv, VersionsRise, After
<1>4. QueueIsFresh' /\ NothingElseIsMissed'
  BY <1>1 DEF FleetInv, QueueIsFresh, Queued, NothingElseIsMissed, WillShow, Brings,
              BringsTruth, After
<1> QED BY <1>2, <1>3, <1>4 DEF FleetInv

(* What the page does with a snapshot or a delta keeps the invariant.         *)
LEMMA TakeHolds == ASSUME FleetInv, TakeMessage PROVE FleetInv'
<1> DEFINE m == inbox[1]
<1>0. PICK n \in Nat : /\ n = Len(inbox) /\ inbox \in Seq(FleetMessages) /\ DOMAIN inbox = 1 .. n
                       /\ inbox # <<>> /\ 0 < n
  <2>1. inbox \in Seq(FleetMessages) /\ inbox # <<>>
    BY DEF TakeMessage, FleetInv, FleetTypes
  <2>2. Len(inbox) \in Nat /\ DOMAIN inbox = 1 .. Len(inbox) /\ Len(inbox) # 0
    BY <2>1
  <2>3. 0 < Len(inbox)
    BY <2>2
  <2> QED BY <2>1, <2>2, <2>3, Zenon
<1>1. /\ inbox' = Tail(inbox)
      /\ copy' = CASE m.kind = "snapshot" -> [version |-> m.version, vehicles |-> m.vehicles]
                   [] m.kind = "delta" /\ m.version > copy.version ->
                        [version |-> m.version, vehicles |-> Overwrite(m.vehicles)]
                   [] OTHER -> copy
      /\ UNCHANGED <<clock, fleet, deltas, visit, missed, changes, visits>>
  <2>1. Head(inbox) = m
    BY <1>0
  <2> QED BY <2>1 DEF TakeMessage
<1>2. /\ inbox' \in Seq(FleetMessages) /\ Len(inbox') = n - 1 /\ DOMAIN inbox' = 1 .. n - 1
      /\ \A i \in 1 .. n - 1 : inbox'[i] = inbox[i + 1]
  <2>1. inbox' \in Seq(FleetMessages) /\ Len(inbox') = n - 1
        /\ \A i \in 1 .. n - 1 : inbox'[i] = inbox[i + 1]
    BY <1>0, <1>1
  <2> QED BY <2>1
<1>3. m \in FleetMessages /\ m.version \in 1 .. MaxClock /\ copy.version \in 0 .. MaxClock
      /\ copy.vehicles \in Pictures /\ copy \in FleetCopies
      /\ (m.kind = "snapshot" \/ m.kind = "delta") /\ copy.version <= m.version
      /\ (m.kind = "snapshot" => DOMAIN m.vehicles = Vehicles)
  <2>1. 1 \in DOMAIN inbox /\ After(1 - 1) = copy.version
    BY <1>0 DEF After
  <2>2. m \in FleetMessages /\ m.version \in 1 .. MaxClock
    BY <1>0, <2>1, MessagesAreTyped DEF FleetInv
  <2>3. m.kind = "snapshot" \/ m.kind = "delta"
    BY <2>2 DEF FleetMessages
  <2>4. copy.version <= m.version
    BY <2>1 DEF FleetInv, VersionsRise
  <2> QED BY <2>1, <2>2, <2>3, <2>4, MessagesAreTyped DEF FleetInv, FleetTypes
<1>4. \A v \in DOMAIN m.vehicles : v \in Vehicles /\ m.vehicles[v] \in 0 .. MaxChanges
  <2>1. PICK V \in SUBSET Vehicles : m.vehicles \in [V -> 0 .. MaxChanges]
    BY <1>3 DEF FleetMessages
  <2> QED BY <2>1
<1>5. m.kind = "snapshot" => m.vehicles \in Pictures
  <2>1. PICK V \in SUBSET Vehicles : m.vehicles \in [V -> 0 .. MaxChanges]
    BY <1>3 DEF FleetMessages
  <2> QED BY <1>3, <2>1 DEF Pictures
<1>6. Overwrite(m.vehicles) \in Pictures
  BY <1>3, <1>4 DEF Overwrite, Pictures
<1> DEFINE wins == m.kind = "snapshot" \/ copy.version < m.version
<1>7. /\ copy' \in FleetCopies /\ copy'.version = m.version
      /\ \A v \in Vehicles :
           copy'.vehicles[v] = IF wins /\ v \in DOMAIN m.vehicles THEN m.vehicles[v] ELSE copy.vehicles[v]
  <2>1. CASE m.kind = "snapshot"
    <3>1. copy' = [version |-> m.version, vehicles |-> m.vehicles]
      BY <1>1, <2>1
    <3>2. copy' \in FleetCopies
      BY <1>3, <1>5, <2>1, <3>1 DEF FleetCopies
    <3> QED BY <1>3, <2>1, <3>1, <3>2
  <2>2. CASE m.kind = "delta" /\ m.version > copy.version
    <3>1. copy' = [version |-> m.version, vehicles |-> Overwrite(m.vehicles)]
      BY <1>1, <2>2
    <3>2. copy' \in FleetCopies
      BY <1>3, <1>6, <3>1 DEF FleetCopies
    <3>3. \A v \in Vehicles : Overwrite(m.vehicles)[v] =
            IF v \in DOMAIN m.vehicles THEN m.vehicles[v] ELSE copy.vehicles[v]
      BY DEF Overwrite
    <3> QED BY <1>3, <2>2, <3>1, <3>2, <3>3
  <2>3. CASE m.kind = "delta" /\ ~(m.version > copy.version)
    <3>1. copy' = copy
      BY <1>1, <2>3
    <3> QED BY <1>3, <2>3, <3>1
  <2> QED BY <1>3, <2>1, <2>2, <2>3
<1>8. \A i \in 0 .. n - 1 : After(i)' = After(i + 1) /\ i + 1 \in 0 .. n
  <2> SUFFICES ASSUME NEW i \in 0 .. n - 1 PROVE After(i)' = After(i + 1) /\ i + 1 \in 0 .. n
    OBVIOUS
  <2>1. CASE i = 0
    BY <1>0, <1>7, <2>1 DEF After
  <2>2. CASE i # 0
    <3>1. i \in 1 .. n - 1 /\ i + 1 # 0
      BY <2>2
    <3> QED BY <3>1, <2>2, <1>2 DEF After
  <2> QED BY <2>1, <2>2
<1>9. FleetTypes'
  <2>1. \A i \in DOMAIN inbox' : inbox'[i].kind = "snapshot" => DOMAIN inbox'[i].vehicles = Vehicles
    <3>1. \A i \in 1 .. n - 1 : i + 1 \in DOMAIN inbox
      BY <1>0
    <3> QED BY <1>2, <3>1 DEF FleetInv, FleetTypes
  <2>2. visit' = "none" => inbox' = <<>>
    BY <1>0, <1>1 DEF FleetInv, FleetTypes
  <2> QED BY <1>1, <1>2, <1>7, <2>1, <2>2 DEF FleetInv, FleetTypes
<1>10. VersionsRise'
  <2>1. \A i \in DOMAIN inbox' : After(i - 1)' <= inbox'[i].version
    <3> SUFFICES ASSUME NEW i \in 1 .. n - 1 PROVE After(i - 1)' <= inbox'[i].version
      BY <1>2
    <3>1. i - 1 \in 0 .. n - 1 /\ (i - 1) + 1 = i /\ i + 1 \in DOMAIN inbox /\ (i + 1) - 1 = i
      BY <1>0
    <3>2. After(i) <= inbox[i + 1].version
      BY <3>1 DEF FleetInv, VersionsRise
    <3> QED BY <1>2, <1>8, <3>1, <3>2
  <2>2. \A i \in 0 .. Len(inbox') : After(i)' <= fleet'.version
    BY <1>0, <1>1, <1>2, <1>8 DEF FleetInv, VersionsRise
  <2> QED BY <1>1, <2>1, <2>2 DEF FleetInv, VersionsRise
<1>11. QueueIsFresh'
  BY <1>1 DEF FleetInv, QueueIsFresh, Queued
<1>12. ASSUME visit' = "early", NEW v \in Vehicles, v \notin missed'
       PROVE WillShow(v)' \/ (Queued(v)' /\ After(Len(inbox))' < fleet'.version)
  <2>1. \A i \in 1 .. n - 1 : (Brings(i, v)' <=> Brings(i + 1, v))
                              /\ (BringsTruth(i, v)' <=> BringsTruth(i + 1, v))
    <3>1. \A i \in 1 .. n - 1 : i - 1 \in 0 .. n - 1 /\ (i - 1) + 1 = i /\ (i + 1) - 1 = i
      BY <1>0
    <3>2. \A i \in 1 .. n - 1 : After(i - 1)' = After((i + 1) - 1) /\ inbox'[i] = inbox[i + 1]
      BY <3>1, <1>2, <1>8
    <3> QED BY <3>2, <1>1 DEF Brings, BringsTruth
  <2>2. Brings(1, v) <=> wins /\ v \in DOMAIN m.vehicles
    BY <1>3 DEF Brings, After
  <2>3. CASE WillShow(v)
    <3>1. PICK i \in 0 .. n :
            /\ IF i = 0 THEN copy.vehicles[v] = fleet.vehicles[v] ELSE BringsTruth(i, v)
            /\ \A j \in DOMAIN inbox : i < j /\ Brings(j, v) => BringsTruth(j, v)
      BY <1>0, <2>3 DEF WillShow
    <3>2. CASE i <= 1
      <4>1. copy'.vehicles[v] = fleet.vehicles[v]
        <5>1. CASE i = 0
          <6>1. Brings(1, v) => BringsTruth(1, v)
            BY <1>0, <3>1, <5>1
          <6> QED BY <1>7, <2>2, <3>1, <5>1, <6>1 DEF BringsTruth
        <5>2. CASE i = 1
          BY <1>7, <2>2, <3>1, <5>2 DEF BringsTruth
        <5> QED BY <3>2, <5>1, <5>2
      <4>2. \A j \in DOMAIN inbox' : 0 < j /\ Brings(j, v)' => BringsTruth(j, v)'
        <5> SUFFICES ASSUME NEW j \in 1 .. n - 1, Brings(j, v)' PROVE BringsTruth(j, v)'
          BY <1>2
        <5>1. j + 1 \in DOMAIN inbox /\ i < j + 1
          BY <1>0, <3>2
        <5> QED BY <2>1, <3>1, <5>1
      <4>3. 0 \in 0 .. Len(inbox')
        BY <1>0, <1>2
      <4>4. WillShow(v)'
        BY <1>1, <4>1, <4>2, <4>3 DEF WillShow
      <4> QED BY <4>4
    <3>3. CASE 1 < i
      <4>1. i - 1 \in 0 .. Len(inbox') /\ i - 1 \in 1 .. n - 1 /\ (i - 1) + 1 = i /\ i - 1 # 0
        BY <1>0, <1>2, <3>3
      <4>2. BringsTruth(i - 1, v)'
        BY <2>1, <3>1, <3>3, <4>1
      <4>3. \A j \in DOMAIN inbox' : i - 1 < j /\ Brings(j, v)' => BringsTruth(j, v)'
        <5> SUFFICES ASSUME NEW j \in 1 .. n - 1, i - 1 < j, Brings(j, v)' PROVE BringsTruth(j, v)'
          BY <1>2
        <5>1. j + 1 \in DOMAIN inbox /\ i < j + 1
          BY <1>0
        <5> QED BY <2>1, <3>1, <5>1
      <4>4. WillShow(v)'
        BY <4>1, <4>2, <4>3 DEF WillShow
      <4> QED BY <4>4
    <3> QED BY <3>2, <3>3
  <2>4. CASE Queued(v) /\ After(Len(inbox)) < fleet.version
    <3>1. Queued(v)'
      BY <1>1, <2>4 DEF Queued
    <3>2. n - 1 \in 0 .. n - 1 /\ (n - 1) + 1 = n /\ Len(inbox') = n - 1
      BY <1>0, <1>2
    <3>3. After(n - 1)' = After(n)
      BY <1>8, <3>2
    <3>4. After(Len(inbox))' = After(n - 1)'
      BY <3>2 DEF After
    <3>5. After(Len(inbox)) = After(n)
      BY <1>0
    <3>6. After(Len(inbox))' < fleet'.version
      BY <1>1, <2>4, <3>3, <3>4, <3>5
    <3> QED BY <3>1, <3>6
  <2> QED BY <1>1, <1>12, <2>3, <2>4 DEF FleetInv, NothingElseIsMissed
<1>13. NothingElseIsMissed'
  BY <1>12 DEF NothingElseIsMissed
<1> QED BY <1>9, <1>10, <1>11, <1>13 DEF FleetInv

(* Every step of the fleet's picture keeps the invariant.                     *)
LEMMA FleetStepHolds == ASSUME FleetInv, [FfNext]_ffVars PROVE FleetInv'
  BY ChangeHolds, FlushHolds, VisitHolds, LeaveHolds, ClockHolds, TakeHolds DEF FfNext

(* Every state of the fleet's picture satisfies it.                           *)
LEMMA FleetInvariance == FfSpec => []FleetInv
<1>1. FfInit => FleetInv
  BY FleetInitHolds
<1>2. FleetInv /\ [FfNext]_ffVars => FleetInv'
  BY FleetStepHolds
<1> QED BY <1>1, <1>2, PTL DEF FfSpec

(* THEOREM. The types of the fleet's picture hold for any vehicles and        *)
(* bounds; the queue never outgrows its limit (fleet.aggregator.ts).          *)
THEOREM FleetTypesHold == FfSpec => []FfTypeOK
<1>1. FleetInv => FfTypeOK
  BY DEF FleetInv, FleetTypes, FfTypeOK, FleetStates, FleetCopies, Pictures
<1> QED BY <1>1, FleetInvariance, PTL

(* THEOREM. When nothing is queued or under way, a page that had its snapshot *)
(* before its deltas shows the state of every vehicle but of those whose      *)
(* change was cut from a full queue (fleet.aggregator.ts, useFleetStore.ts).  *)
THEOREM QuietCopiesAreTrue == FfSpec => []QuietCopyIsTrue
<1>1. FleetInv => QuietCopyIsTrue
  <2> SUFFICES ASSUME FleetInv, visit = "early", inbox = <<>>, deltas = <<>>,
                      NEW v \in Vehicles \ missed
               PROVE copy.vehicles[v] = fleet.vehicles[v]
    BY DEF QuietCopyIsTrue
  <2>1. ~Queued(v)
    BY DEF Queued
  <2>2. WillShow(v)
    BY <2>1 DEF FleetInv, NothingElseIsMissed
  <2>3. \A i \in 0 .. Len(inbox) : i = 0
    BY DEF FleetInv, FleetTypes
  <2> QED BY <2>2, <2>3 DEF WillShow
<1> QED BY <1>1, FleetInvariance, PTL

(* Does the i-th message hold a state of the vehicle?                         *)
Carries(i, v) == v \in DOMAIN inbox[i].vehicles

(* A vehicle's states only rise from what the page shows, along the messages, *)
(* to what the server has.                                                    *)
StatesRise ==
  \A v \in Vehicles :
    /\ fleet.vehicles[v] <= changes /\ copy.vehicles[v] <= fleet.vehicles[v]
    /\ \A i \in DOMAIN inbox : Carries(i, v) =>
         /\ copy.vehicles[v] <= inbox[i].vehicles[v] /\ inbox[i].vehicles[v] <= fleet.vehicles[v]
         /\ \A j \in DOMAIN inbox :
              i < j /\ Carries(j, v) => inbox[i].vehicles[v] <= inbox[j].vehicles[v]

(* States are numbers of changes.                                             *)
LEMMA StatesAreNumbers ==
  ASSUME FleetTypes
  PROVE  /\ changes \in Nat /\ \A v \in Vehicles : fleet.vehicles[v] \in Nat /\ copy.vehicles[v] \in Nat
         /\ \A i \in DOMAIN inbox : \A v \in DOMAIN inbox[i].vehicles :
              v \in Vehicles /\ inbox[i].vehicles[v] \in Nat
<1>1. changes \in Nat /\ \A v \in Vehicles : fleet.vehicles[v] \in Nat /\ copy.vehicles[v] \in Nat
  BY MessagesAreTyped, FleetAssumption DEF Pictures, FleetTypes
<1>2. ASSUME NEW i \in DOMAIN inbox, NEW v \in DOMAIN inbox[i].vehicles
      PROVE  v \in Vehicles /\ inbox[i].vehicles[v] \in Nat
  <2>1. inbox[i] \in FleetMessages
    BY MessagesAreTyped
  <2>2. PICK V \in SUBSET Vehicles : inbox[i].vehicles \in [V -> 0 .. MaxChanges]
    BY <2>1 DEF FleetMessages
  <2> QED BY <1>2, <2>2, FleetAssumption
<1> QED BY <1>1, <1>2

(* A message with the server's states comes last.                             *)
LEMMA TruthIsAppended ==
  ASSUME FleetTypes, FleetTypes', StatesRise, UNCHANGED <<fleet, copy, changes>>,
         NEW m, inbox' = Append(inbox, m),
         \A v \in Vehicles : v \in DOMAIN m.vehicles => m.vehicles[v] = fleet.vehicles[v]
  PROVE  StatesRise'
<1>1. /\ DOMAIN inbox' = 1 .. Len(inbox) + 1 /\ DOMAIN inbox = 1 .. Len(inbox) /\ Len(inbox) \in Nat
      /\ inbox'[Len(inbox) + 1] = m /\ \A i \in DOMAIN inbox : inbox'[i] = inbox[i]
  BY MessagesAreTyped DEF FleetTypes
<1> SUFFICES ASSUME NEW v \in Vehicles
             PROVE  /\ fleet.vehicles[v] <= changes /\ copy.vehicles[v] <= fleet.vehicles[v]
                    /\ \A i \in DOMAIN inbox' : Carries(i, v)' =>
                         /\ copy.vehicles[v] <= inbox'[i].vehicles[v]
                         /\ inbox'[i].vehicles[v] <= fleet.vehicles[v]
                         /\ \A j \in DOMAIN inbox' :
                              i < j /\ Carries(j, v)' => inbox'[i].vehicles[v] <= inbox'[j].vehicles[v]
  BY DEF StatesRise
<1>2. /\ fleet.vehicles[v] <= changes /\ copy.vehicles[v] <= fleet.vehicles[v]
      /\ fleet.vehicles[v] \in Nat /\ copy.vehicles[v] \in Nat
  BY StatesAreNumbers DEF StatesRise
<1>3. ASSUME NEW i \in DOMAIN inbox', Carries(i, v)'
      PROVE  /\ copy.vehicles[v] <= inbox'[i].vehicles[v] /\ inbox'[i].vehicles[v] <= fleet.vehicles[v]
             /\ i = Len(inbox) + 1 => inbox'[i].vehicles[v] = fleet.vehicles[v]
  <2>1. CASE i = Len(inbox) + 1
    <3>1. inbox'[i].vehicles[v] = fleet.vehicles[v]
      BY <1>1, <1>3, <2>1 DEF Carries
    <3> QED BY <1>2, <3>1
  <2>2. CASE i \in DOMAIN inbox
    <3>1. Carries(i, v) /\ inbox'[i] = inbox[i] /\ i # Len(inbox) + 1
      BY <1>1, <1>3, <2>2 DEF Carries
    <3> QED BY <2>2, <3>1 DEF StatesRise
  <2> QED BY <1>1, <2>1, <2>2
<1>4. ASSUME NEW i \in DOMAIN inbox', Carries(i, v)', NEW j \in DOMAIN inbox', i < j, Carries(j, v)'
      PROVE  inbox'[i].vehicles[v] <= inbox'[j].vehicles[v]
  <2>1. CASE j = Len(inbox) + 1
    BY <1>3, <1>4, <2>1
  <2>2. CASE j \in DOMAIN inbox
    <3>1. i \in DOMAIN inbox /\ inbox'[i] = inbox[i] /\ inbox'[j] = inbox[j]
      BY <1>1, <1>4, <2>2
    <3>2. Carries(i, v) /\ Carries(j, v)
      BY <1>4, <3>1 DEF Carries
    <3> QED BY <1>4, <2>2, <3>1, <3>2 DEF StatesRise
  <2> QED BY <1>1, <2>1, <2>2
<1> QED BY <1>2, <1>3, <1>4

(* What the page takes is not before what it shows, nor after what follows.   *)
LEMMA TakingRises ==
  ASSUME FleetTypes, FleetTypes', StatesRise, TakeMessage
  PROVE  StatesRise' /\ \A v \in Vehicles : copy.vehicles[v] <= copy'.vehicles[v]
<1> DEFINE m == inbox[1]
<1>1. /\ inbox # <<>> /\ inbox' = Tail(inbox) /\ UNCHANGED <<fleet, changes>>
      /\ copy' = CASE Head(inbox).kind = "snapshot" ->
                        [version |-> Head(inbox).version, vehicles |-> Head(inbox).vehicles]
                   [] Head(inbox).kind = "delta" /\ Head(inbox).version > copy.version ->
                        [version |-> Head(inbox).version, vehicles |-> Overwrite(Head(inbox).vehicles)]
                   [] OTHER -> copy
  BY DEF TakeMessage
<1>2. /\ 1 \in DOMAIN inbox /\ Head(inbox) = m
      /\ \A i \in DOMAIN inbox' : i + 1 \in DOMAIN inbox /\ inbox'[i] = inbox[i + 1] /\ 1 < i + 1
  BY <1>1 DEF FleetTypes
<1>3. ASSUME NEW v \in Vehicles
      PROVE  \/ copy'.vehicles[v] = copy.vehicles[v]
             \/ Carries(1, v) /\ copy'.vehicles[v] = m.vehicles[v]
  <2>1. CASE m.kind = "snapshot"
    <3>1. copy'.vehicles = m.vehicles
      BY <1>1, <1>2, <2>1
    <3>2. v \in DOMAIN m.vehicles
      BY <1>2, <2>1 DEF FleetTypes
    <3> QED BY <3>1, <3>2 DEF Carries
  <2>2. CASE m.kind # "snapshot" /\ m.kind = "delta" /\ m.version > copy.version
    <3>1. copy'.vehicles = Overwrite(m.vehicles)
      BY <1>1, <1>2, <2>2
    <3> QED BY <3>1 DEF Overwrite, Carries
  <2>3. CASE m.kind # "snapshot" /\ ~(m.kind = "delta" /\ m.version > copy.version)
    <3>1. copy' = copy
      BY <1>1, <1>2, <2>3
    <3> QED BY <3>1
  <2> QED BY <2>1, <2>2, <2>3
<1> HIDE DEF m
<1>4. ASSUME NEW v \in Vehicles
      PROVE  /\ copy.vehicles[v] <= copy'.vehicles[v] /\ copy'.vehicles[v] <= fleet.vehicles[v]
             /\ \A i \in DOMAIN inbox : 1 < i /\ Carries(i, v) => copy'.vehicles[v] <= inbox[i].vehicles[v]
  <2>1. CASE copy'.vehicles[v] = copy.vehicles[v]
    BY <2>1, StatesAreNumbers DEF StatesRise
  <2>2. CASE Carries(1, v) /\ copy'.vehicles[v] = inbox[1].vehicles[v]
    BY <1>2, <2>2 DEF StatesRise
  <2> QED BY <1>3, <2>1, <2>2 DEF m
<1>5. ASSUME NEW v \in Vehicles, NEW i \in DOMAIN inbox', Carries(i, v)'
      PROVE  /\ Carries(i + 1, v) /\ i + 1 \in DOMAIN inbox /\ inbox'[i] = inbox[i + 1] /\ 1 < i + 1
             /\ copy'.vehicles[v] <= inbox'[i].vehicles[v] /\ inbox'[i].vehicles[v] <= fleet.vehicles[v]
  <2>1. Carries(i + 1, v)
    BY <1>2, <1>5 DEF Carries
  <2> QED BY <1>2, <1>4, <1>5, <2>1 DEF StatesRise
<1>6. ASSUME NEW v \in Vehicles, NEW i \in DOMAIN inbox', Carries(i, v)',
             NEW j \in DOMAIN inbox', i < j, Carries(j, v)'
      PROVE  inbox'[i].vehicles[v] <= inbox'[j].vehicles[v]
  <2>1. i + 1 < j + 1
    BY <1>2, <1>6 DEF FleetTypes
  <2>2. /\ Carries(i + 1, v) /\ i + 1 \in DOMAIN inbox /\ inbox'[i] = inbox[i + 1]
        /\ Carries(j + 1, v) /\ j + 1 \in DOMAIN inbox /\ inbox'[j] = inbox[j + 1]
    BY <1>5, <1>6
  <2> QED BY <2>1, <2>2 DEF StatesRise
<1>7. StatesRise'
  BY <1>1, <1>4, <1>5, <1>6 DEF StatesRise
<1> QED BY <1>4, <1>7

(* A change is later than all there is.                                       *)
LEMMA ChangesRise ==
  ASSUME FleetTypes, StatesRise, NEW v \in Vehicles, Change(v)
  PROVE  StatesRise'
<1>1. /\ changes' = changes + 1 /\ UNCHANGED <<inbox, copy>>
      /\ fleet'.vehicles = [fleet.vehicles EXCEPT ![v] = changes + 1]
  BY DEF Change
<1>2. \A w \in Vehicles : fleet.vehicles[w] <= fleet'.vehicles[w] /\ fleet'.vehicles[w] <= changes'
                          /\ fleet'.vehicles[w] \in Nat
  <2>1. fleet.vehicles \in Pictures
    BY MessagesAreTyped
  <2> QED BY <1>1, <2>1, StatesAreNumbers DEF StatesRise, Pictures
<1>3. ASSUME NEW w \in Vehicles
      PROVE  /\ copy.vehicles[w] <= fleet'.vehicles[w]
             /\ \A i \in DOMAIN inbox : Carries(i, w) => inbox[i].vehicles[w] <= fleet'.vehicles[w]
  <2>1. fleet.vehicles[w] \in Nat /\ copy.vehicles[w] \in Nat
    BY StatesAreNumbers
  <2>2. \A i \in DOMAIN inbox : Carries(i, w) => inbox[i].vehicles[w] \in Nat
    BY StatesAreNumbers DEF Carries
  <2> QED BY <1>2, <2>1, <2>2 DEF StatesRise
<1> QED BY <1>1, <1>2, <1>3 DEF StatesRise, Carries

(* Where nothing of them changes, they rise as before.                        *)
LEMMA NothingMoves ==
  ASSUME StatesRise, UNCHANGED <<fleet, copy, changes, inbox>>
  PROVE  StatesRise'
BY DEF StatesRise, Carries

(* So no step takes a vehicle back.                                           *)
LEMMA NothingGoesBack ==
  ASSUME FleetInv, FleetInv', StatesRise, [FfNext]_ffVars
  PROVE  StatesRise' /\ \A v \in Vehicles : copy.vehicles[v] <= copy'.vehicles[v]
<1> USE DEF FleetInv
<1>1. UNCHANGED copy => \A v \in Vehicles : copy.vehicles[v] <= copy'.vehicles[v]
  BY StatesAreNumbers
<1>2. CASE TakeMessage
  BY <1>2, TakingRises
<1>3. ASSUME NEW v \in Vehicles, Change(v) PROVE StatesRise' /\ UNCHANGED copy
  BY <1>3, ChangesRise DEF Change
<1>4. CASE FlushDeltas
  <2>1. deltas # <<>> /\ UNCHANGED <<fleet, copy, changes>>
    BY <1>4 DEF FlushDeltas
  <2>2. CASE visit = "none"
    <3>1. UNCHANGED <<fleet, copy, changes, inbox>>
      BY <1>4, <2>2 DEF FlushDeltas
    <3> QED BY <1>1, <3>1, NothingMoves
  <2>3. CASE visit # "none"
    <3>1. PICK m : m = [kind |-> "delta", version |-> LatestVersion, vehicles |-> Merged]
      OBVIOUS
    <3>2. inbox' = Append(inbox, m) /\ m.vehicles = Merged
      BY <1>4, <2>3, <3>1 DEF FlushDeltas
    <3> QED BY <1>1, <2>1, <3>2, MergeIsTrue, TruthIsAppended
  <2> QED BY <1>1, <2>1, <2>2, <2>3
<1>5. ASSUME NEW how \in {"early", "late"}, Visit(how) PROVE StatesRise' /\ UNCHANGED copy
  <2>1. inbox = <<>> /\ UNCHANGED <<fleet, copy, changes>>
    BY <1>5 DEF Visit, FleetTypes
  <2>2. CASE how = "early"
    <3>1. PICK m : m = SnapshotOf(fleet)
      OBVIOUS
    <3>2. inbox' = Append(inbox, m) /\ m.vehicles = fleet.vehicles
      BY <1>5, <2>1, <2>2, <3>1 DEF Visit, SnapshotOf
    <3> QED BY <2>1, <3>2, TruthIsAppended
  <2>3. CASE how # "early"
    BY <1>5, <2>1, <2>3 DEF Visit, StatesRise
  <2> QED BY <2>1, <2>2, <2>3
<1>6. CASE Leave
  BY <1>1, <1>6 DEF Leave, StatesRise
<1>7. CASE ClockTicks \/ UNCHANGED ffVars
  BY <1>1, <1>7, NothingMoves DEF ClockTicks, ffVars
<1> QED BY <1>1, <1>2, <1>3, <1>4, <1>5, <1>6, <1>7 DEF FfNext

(* THEOREM. No snapshot or merge of deltas takes a vehicle on the page back   *)
(* to a state before the one shown, whatever the queue cut and however often  *)
(* the connection was made anew (fleet.aggregator.ts, useFleetStore.ts).      *)
THEOREM PicturesNeverGoBack == FfSpec => PictureNeverGoesBack
<1>1. FfInit => StatesRise
  <2> SUFFICES ASSUME FfInit PROVE StatesRise
    OBVIOUS
  <2>1. changes = 0 /\ inbox = <<>> /\ \A v \in Vehicles : fleet.vehicles[v] = 0 /\ copy.vehicles[v] = 0
    BY DEF FfInit, Parked
  <2> QED BY <2>1 DEF StatesRise
<1>2. FleetInv /\ FleetInv' /\ StatesRise /\ [FfNext]_ffVars => StatesRise'
  BY NothingGoesBack
<1>3. FleetInv /\ FleetInv' /\ StatesRise /\ [FfNext]_ffVars
      => [\A v \in Vehicles : copy.vehicles[v] <= copy'.vehicles[v]]_ffVars
  BY NothingGoesBack
<1> QED BY <1>1, <1>2, <1>3, FleetInvariance, PTL DEF FfSpec, PictureNeverGoesBack
================================================================================
