------------------------------- MODULE SocketGateway -------------------------------
(* The Socket.IO gateway of one server process: connections, the rooms a socket *)
(* is in, presence, and the broadcasts of a driver's location.                  *)
(*                                                                              *)
(* The connection, leave, location and disconnect handlers run to their end     *)
(* without an await and are one step each. A join of a trip awaits one database *)
(* query, or two for a parent, so whatever happens to the socket or to the      *)
(* database can happen in between. A socket id is used once: a client that      *)
(* reconnects comes back under another id, in none of its old rooms.            *)
EXTENDS Naturals, FiniteSets

CONSTANTS
  Sockets, Users, Trips,
  UserOf,          \* socket -> the user its access token names
  RoleOf,          \* user -> role
  OrgOf,           \* user or trip -> organisation
  DriverOf         \* trip -> the user assigned to drive it

ASSUME UserAssumption == \A s \in Sockets : UserOf[s] \in Users

Staff == {"ORG_ADMIN", "OPERATOR"}
Role(s) == RoleOf[UserOf[s]]

VARIABLES
  conn,       \* socket -> "idle", "open" or "closed"
  rooms,      \* socket -> rooms it is in
  activeTrip, \* socket -> its socket.data.activeTripId, or "none"
  session,    \* PresenceManager.userSessions: user -> socket ids
  told,       \* user -> what the admin room was last told of the user
  joining,    \* joins whose authorisation awaits a query: <<socket, trip, query>>
  rides,      \* database: <<parent, trip>>, a child of the parent has a stop on it
  entitled,   \* <<socket, trip>> admitted while the database had a reason for it
  cast        \* the last location broadcast: its trip and the sockets it reached

gwVars == <<conn, rooms, activeTrip, session, told, joining, rides, entitled, cast>>

UserRoom(u)   == <<"user_", u>>
OrgRoom(o)    == <<"org_", o>>
AdminRoom(o)  == <<"admin_", o>>
TripRoom(t)   == <<"trip_", t>>        \* what client:trip:join joins
DriverRoom(t) == <<"trip_room:", t>>   \* what location.handler joins and feeds

NoCast == [trip |-> "none", to |-> {}]

GwInit ==
  /\ conn = [s \in Sockets |-> "idle"]
  /\ rooms = [s \in Sockets |-> {}]
  /\ activeTrip = [s \in Sockets |-> "none"]
  /\ session = [u \in Users |-> {}]
  /\ told = [u \in Users |-> "offline"]
  /\ joining = {}
  /\ rides = {}
  /\ entitled = {}
  /\ cast = NoCast

-----------------------------------------------------------------------------------
DefaultRooms(u) ==
  {UserRoom(u), OrgRoom(OrgOf[u])} \cup
  (IF RoleOf[u] \in Staff \cup {"SUPER_ADMIN"} THEN {AdminRoom(OrgOf[u])} ELSE {})

(* markOnline: the admins hear of the user's first socket only.                 *)
MarkOnline(s) ==
  LET u == UserOf[s] IN
  /\ session' = [session EXCEPT ![u] = @ \cup {s}]
  /\ told' = IF session[u] = {} THEN [told EXCEPT ![u] = "online"] ELSE told

(* MUTANT of MarkOffline: the user goes offline with any of the sockets.        *)
MarkOfflineAny(s) ==
  LET u == UserOf[s] IN
  /\ session' = [session EXCEPT ![u] = @ \ {s}]
  /\ told' = [told EXCEPT ![u] = "offline"]

MarkOffline(s) ==
  LET u == UserOf[s] IN
  /\ session' = [session EXCEPT ![u] = @ \ {s}]
  /\ told' = IF session[u] \ {s} = {} THEN [told EXCEPT ![u] = "offline"] ELSE told

(* The handshake has verified the token: the connection handler.                *)
Connect(s) ==
  /\ conn[s] = "idle"
  /\ conn' = [conn EXCEPT ![s] = "open"]
  /\ rooms' = [rooms EXCEPT ![s] = DefaultRooms(UserOf[s])]
  /\ MarkOnline(s)
  /\ UNCHANGED <<activeTrip, joining, rides, entitled, cast>>

(* Socket.IO empties the rooms of a closed socket; joins in flight go on.       *)
Disconnect(s) ==
  /\ conn[s] = "open"
  /\ conn' = [conn EXCEPT ![s] = "closed"]
  /\ rooms' = [rooms EXCEPT ![s] = {}]
  /\ MarkOffline(s)
  /\ UNCHANGED <<activeTrip, joining, rides, entitled, cast>>

-----------------------------------------------------------------------------------
(* client:trip:join, up to the first query.                                     *)
JoinTrip(s, t) ==
  /\ conn[s] = "open"
  /\ \A q \in {"trip", "stop"} : <<s, t, q>> \notin joining
  /\ joining' = joining \cup {<<s, t, "trip">>}
  /\ UNCHANGED <<conn, rooms, activeTrip, session, told, rides, entitled, cast>>

(* Socket.IO: a join of a closed socket does nothing.                           *)
Enter(s, room) ==
  rooms' = IF conn[s] = "open" THEN [rooms EXCEPT ![s] = @ \cup {room}] ELSE rooms

SameOrg(s, t) == OrgOf[t] = OrgOf[UserOf[s]]

(* Why a user may follow a trip.                                                *)
Reason(s, t) ==
  /\ SameOrg(s, t)
  /\ \/ Role(s) \in Staff
     \/ Role(s) = "DRIVER" /\ DriverOf[t] = UserOf[s]
     \/ Role(s) = "PARENT" /\ <<UserOf[s], t>> \in rides

Justify(s, t) == entitled' = IF Reason(s, t) THEN entitled \cup {<<s, t>>} ELSE entitled

(* MUTANT of Decide: a join that is refused is never answered.                  *)
DecideSilently(s, t, query, allowed) ==
  /\ joining' = IF allowed THEN joining \ {<<s, t, query>>} ELSE joining
  /\ IF allowed
     THEN Enter(s, TripRoom(t)) /\ Justify(s, t)
     ELSE UNCHANGED <<rooms, entitled>>
  /\ UNCHANGED <<conn, activeTrip, session, told, rides, cast>>

(* The end of joinTripRoom and the answer to the client, in one continuation.   *)
Decide(s, t, query, allowed) ==
  /\ joining' = joining \ {<<s, t, query>>}
  /\ IF allowed
     THEN Enter(s, TripRoom(t)) /\ Justify(s, t)
     ELSE UNCHANGED <<rooms, entitled>>
  /\ UNCHANGED <<conn, activeTrip, session, told, rides, cast>>

(* The query for the trip: a parent of the trip's organisation needs another.   *)
FindTrip(s, t) ==
  /\ <<s, t, "trip">> \in joining
  /\ \/ /\ Role(s) = "PARENT" /\ SameOrg(s, t)
        /\ joining' = (joining \ {<<s, t, "trip">>}) \cup {<<s, t, "stop">>}
        /\ UNCHANGED <<conn, rooms, activeTrip, session, told, rides, entitled, cast>>
     \/ /\ ~(Role(s) = "PARENT" /\ SameOrg(s, t))
        /\ Decide(s, t, "trip",
                  /\ SameOrg(s, t)
                  /\ \/ Role(s) \in Staff
                     \/ Role(s) = "DRIVER" /\ DriverOf[t] = UserOf[s])

(* MUTANT of FindStudentStop: any stop of the route will do.                    *)
FindAnyStop(s, t) == <<s, t, "stop">> \in joining /\ Decide(s, t, "stop", TRUE)

(* The query for a stop of one of the parent's children on the trip's route.    *)
FindStudentStop(s, t) ==
  /\ <<s, t, "stop">> \in joining
  /\ Decide(s, t, "stop", <<UserOf[s], t>> \in rides)

(* Either query throws: the join is refused.                                    *)
QueryFails(s, t) ==
  \E q \in {"trip", "stop"} :
    <<s, t, q>> \in joining /\ Decide(s, t, q, FALSE)

LeaveTrip(s, t) ==
  /\ conn[s] = "open"
  /\ rooms' = [rooms EXCEPT ![s] = @ \ {TripRoom(t)}]
  /\ UNCHANGED <<conn, activeTrip, session, told, joining, rides, entitled, cast>>

-----------------------------------------------------------------------------------
(* client:driver:trip:start; that the trip is the driver's own is not checked.  *)
TripStart(s, t) ==
  /\ conn[s] = "open" /\ Role(s) = "DRIVER"
  /\ activeTrip' = [activeTrip EXCEPT ![s] = t]
  /\ rooms' = [rooms EXCEPT ![s] = @ \cup {DriverRoom(t)}]
  /\ UNCHANGED <<conn, session, told, joining, rides, entitled, cast>>

InRoom(room) == {s \in Sockets : room \in rooms[s]}

(* client:driver:location:update, for a fix that the checks let through.        *)
LocationUpdate(s) ==
  /\ conn[s] = "open" /\ Role(s) = "DRIVER"
  /\ activeTrip[s] # "none"
  /\ cast' = [trip |-> activeTrip[s], to |-> InRoom(DriverRoom(activeTrip[s]))]
  /\ UNCHANGED <<conn, rooms, activeTrip, session, told, joining, rides, entitled>>

(* client:driver:location:stop and client:driver:trip:end of the active trip.   *)
LocationStop(s) ==
  /\ conn[s] = "open" /\ Role(s) = "DRIVER"
  /\ activeTrip[s] # "none"
  /\ rooms' = [rooms EXCEPT ![s] = @ \ {DriverRoom(activeTrip[s])}]
  /\ activeTrip' = [activeTrip EXCEPT ![s] = "none"]
  /\ UNCHANGED <<conn, session, told, joining, rides, entitled, cast>>

(* ParentService links and unlinks children and stops meanwhile, of one tenant. *)
Relink(u, t) ==
  /\ RoleOf[u] = "PARENT" /\ OrgOf[t] = OrgOf[u]
  /\ \/ <<u, t>> \in rides /\ rides' = rides \ {<<u, t>>}
     \/ <<u, t>> \notin rides /\ rides' = rides \cup {<<u, t>>}
  /\ UNCHANGED <<conn, rooms, activeTrip, session, told, joining, entitled, cast>>

Answer(s, t) == FindTrip(s, t) \/ FindStudentStop(s, t) \/ QueryFails(s, t)

GwNext ==
  \/ \E s \in Sockets : Connect(s) \/ Disconnect(s) \/ LocationUpdate(s) \/ LocationStop(s)
  \/ \E s \in Sockets, t \in Trips :
       JoinTrip(s, t) \/ Answer(s, t) \/ LeaveTrip(s, t) \/ TripStart(s, t)
  \/ \E u \in Users, t \in Trips : Relink(u, t)

(* The database answers or fails: every await ends.                             *)
GwFairness == \A s \in Sockets, t \in Trips : WF_gwVars(Answer(s, t))
GwSpec == GwInit /\ [][GwNext]_gwVars /\ GwFairness

-----------------------------------------------------------------------------------
Orgs == {OrgOf[u] : u \in Users}
Room == UNION {{UserRoom(u) : u \in Users}, {OrgRoom(o) : o \in Orgs},
               {AdminRoom(o) : o \in Orgs}, {TripRoom(t) : t \in Trips},
               {DriverRoom(t) : t \in Trips}}

(* TYPE. What every variable ranges over.                                       *)
GwTypeOK ==
  /\ conn \in [Sockets -> {"idle", "open", "closed"}]
  /\ rooms \in [Sockets -> SUBSET Room]
  /\ activeTrip \in [Sockets -> Trips \cup {"none"}]
  /\ session \in [Users -> SUBSET Sockets]
  /\ told \in [Users -> {"online", "offline"}]
  /\ joining \subseteq Sockets \X Trips \X {"trip", "stop"}
  /\ rides \subseteq Users \X Trips
  /\ entitled \subseteq Sockets \X Trips
  /\ cast \in [trip : Trips \cup {"none"}, to : SUBSET Sockets]

(* SAFETY. What the admins were last told of a user is true: the user is online *)
(* exactly while one of the user's sockets is open, in whatever order several   *)
(* sockets of the user connect and disconnect (presence.manager.ts).            *)
PresenceIsTrue ==
  \A u \in Users :
    /\ session[u] = {s \in Sockets : UserOf[s] = u /\ conn[s] = "open"}
    /\ told[u] = "online" <=> session[u] # {}

(* SAFETY. A socket in the room of a trip is open and had the right to join it: *)
(* the trip is of its organisation, and its user is staff, drives the trip or   *)
(* has passed the query for a child's stop. Neither a disconnect nor a change   *)
(* of the links while the queries run leaves anyone else in it.                 *)
MembersAreEntitled ==
  \A s \in Sockets :
    /\ rooms[s] # {} => conn[s] = "open"
    /\ \A t \in Trips : TripRoom(t) \in rooms[s] => <<s, t>> \in entitled

(* LIVENESS. A join is answered, also when a query fails or the client is gone. *)
JoinsAreAnswered ==
  \A s \in Sockets, t \in Trips :
    <<s, t, "trip">> \in joining ~>
      {<<s, t, "trip">>, <<s, t, "stop">>} \cap joining = {}

(* The promise of the roadmap (PROJECT_ROADMAP.md, live parent tracking): a     *)
(* location update of a trip reaches every socket that has joined the trip.     *)
(* The code breaks it: joins enter trip_<id>, updates go to trip_room:<id>.     *)
SubscribersAreFed ==
  [][cast' # cast =>
       \A s \in InRoom(TripRoom(cast'.trip)) : s \in cast'.to]_gwVars
===================================================================================
