----------------------------------- MODULE Records -----------------------------------
(* The registers of the tenants: users, parents, drivers, students, vehicles,    *)
(* routes, schedules and organisations. A request checks what it reads first,    *)
(* then writes in a transaction that also writes the audit entry; for routes and *)
(* schedules the entry is a statement of its own after it. Requests interleave   *)
(* between these steps, and a failing statement or a crash ends one.             *)
(*                                                                              *)
(* A request whose checks fail changes no register and is not modelled. The      *)
(* several audit entries of one request are one; SUSPENDED, MAINTENANCE and      *)
(* DEACTIVATED are "not active"; names and other plain columns are left out.     *)
EXTENDS Naturals, Sequences

CONSTANTS
  Requests,     \* BOUND: requests, each made once
  Actors,       \* who makes them: ids of rows of Seed
  Seed,         \* the rows there are at first
  Numbers,      \* e-mail addresses, licence, admission and registration numbers, names
  Busy          \* drivers, vehicles and schedules with an open trip

VARIABLES
  rows,    \* rows of all tables, by id
  links,   \* ParentChild: organisation, parent, student
  trail,   \* AuditLog: the request, the row it names, the tenant it is filed under
  asked    \* request -> the job, and how far it is

rcVars == <<rows, links, trail, asked>>

Unasked == [step |-> "unasked"]
Answered == [step |-> "answered"]

RcInit ==
  /\ rows = Seed /\ links = {} /\ trail = {}
  /\ asked = [r \in Requests |-> Unasked]

-----------------------------------------------------------------------------------
(* Who may create, update and delete, by the routers.                           *)
Admins == {"SUPER_ADMIN", "ORG_ADMIN"}
Operators == Admins \cup {"OPERATOR"}
People == Operators \cup {"DRIVER", "PARENT"}

StudentAccess == [create |-> Admins, update |-> Operators, delete |-> Admins]
ParentAccess == [create |-> Admins, update |-> Operators \cup {"PARENT"}, delete |-> Admins,
                 link |-> Operators]
DriverAccess == [create |-> Admins, update |-> Operators, delete |-> Admins]
VehicleAccess == [create |-> Admins, update |-> Operators, delete |-> Admins]
RouteAccess == [create |-> Admins, update |-> Operators, delete |-> Admins]
ScheduleAccess == [create |-> Operators, update |-> Operators, delete |-> Admins]
UserAccess == [create |-> Admins, update |-> Admins, delete |-> Admins, me |-> People]
OrganizationAccess == [create |-> {"SUPER_ADMIN"}, update |-> Admins,
                       delete |-> {"SUPER_ADMIN"}]

(* Role and organisation are those of the access token, from the login.         *)
RoleIn(who) == Seed[who].kind
HomeOf(who) == Seed[who].org

(* authenticateUser: X-Target-Tenant takes a SUPER_ADMIN to an active tenant.   *)
Tenants(who) ==
  {HomeOf(who)} \cup
    IF RoleIn(who) # "SUPER_ADMIN" THEN {}
    ELSE {rows[i].org : i \in {k \in DOMAIN rows :
            rows[k].kind = "organization" /\ rows[k].active}}

(* requireRoles.                                                                *)
May(r, who, org, roles) ==
  RoleIn(who) \in roles /\ org \in Tenants(who)

(* requireOwnership('organization').                                            *)
Owns(org, id) == rows[id].kind = "organization" /\ rows[id].org = org

Found(id, org, kinds) == rows[id].org = org /\ rows[id].kind \in kinds

(* UserService.canManageRole.                                                   *)
CanManage(role, other) ==
  role = "SUPER_ADMIN" \/ (role = "ORG_ADMIN" /\ other # "SUPER_ADMIN")

-----------------------------------------------------------------------------------
NewRow(kind, org, key) ==
  [kind |-> kind, org |-> org, key |-> key, licence |-> "none", active |-> TRUE,
   route |-> 0, by |-> {}]

NewDriver(org, email, number) == [NewRow("DRIVER", org, email) EXCEPT !.licence = number]

(* A row's entries in the unique indexes of the schema: e-mail, licence,        *)
(* registrationNo and organizationId are unique throughout, studentNumber in    *)
(* its organisation.                                                            *)
Entries(row) ==
  (IF row.kind \in People THEN {<<"email", row.key>>} ELSE {})
    \cup (IF row.licence # "none" THEN {<<"licence", row.licence>>} ELSE {})
    \cup (IF row.kind \in {"vehicle", "organization"} THEN {<<row.kind, row.key>>} ELSE {})
    \cup (IF row.kind = "student" THEN {<<row.org, row.key>>} ELSE {})

(* The services look for the duplicate before they write.                       *)
Fits(id, row) ==
  \A i \in DOMAIN rows \ {id} : Entries(row) \cap Entries(rows[i]) = {}

Columns == {"kind", "org", "key", "licence", "active", "route", "by"}

(* The first rows have all columns, and no request has written them.            *)
ASSUME SeedAssumption ==
  /\ Len(Seed) \in Nat /\ DOMAIN Seed = 1 .. Len(Seed)
  /\ \A i \in DOMAIN Seed : DOMAIN Seed[i] = Columns /\ Seed[i].by = {}

(* RouteRepository.findByName: a route's name has no index.                     *)
NameIsFree(id, org, name) ==
  \A i \in DOMAIN rows \ {id} :
    ~(rows[i].kind = "route" /\ rows[i].org = org /\ rows[i].key = name)

NoLink == <<0, 0>>

(* id 0 is the row to be created; set holds the columns to be written, pair the *)
(* parent and the student to be linked, cut those to be unlinked.               *)
Ask(r, org, id, set, pair, cut) ==
  /\ asked' = [asked EXCEPT ![r] = [step |-> "checked", org |-> org, id |-> id,
                                    set |-> set, pair |-> pair, cut |-> cut]]
  /\ UNCHANGED <<rows, links, trail>>

AskCreate(r, row) == Fits(0, row) /\ Ask(r, row.org, 0, row, NoLink, NoLink)

(* The row with the columns of set written.                                     *)
Amended(set, row) == [c \in DOMAIN row |-> IF c \in DOMAIN set THEN set[c] ELSE row[c]]

AskUpdate(r, id, set) ==
  Fits(id, Amended(set, rows[id])) /\ Ask(r, rows[id].org, id, set, NoLink, NoLink)

Retire(r, id) == Ask(r, rows[id].org, id, [active |-> FALSE], NoLink, NoLink)

(* An operator may only change the status.                                      *)
Edits(who, column) ==
  [active : BOOLEAN] \cup
    IF RoleIn(who) = "OPERATOR" THEN {} ELSE [{column} -> Numbers]

(* Any user of the tenant can be given as parentId.                             *)
CreateStudent(r, who, org) ==
  /\ May(r, who, org, StudentAccess.create)
  /\ \E n \in Numbers :
       LET row == NewRow("student", org, n) IN
       \/ AskCreate(r, row)
       \/ \E p \in DOMAIN rows : Fits(0, row) /\ Ask(r, org, 0, row, <<p, 0>>, NoLink)

UpdateStudent(r, who, org, id) ==
  /\ May(r, who, org, StudentAccess.update) /\ Found(id, org, {"student"})
  /\ \/ \E set \in Edits(who, "key") : AskUpdate(r, id, set)
     \/ \E p \in DOMAIN rows : Ask(r, org, id, << >>, <<p, id>>, NoLink)

DeleteStudent(r, who, org, id) ==
  /\ May(r, who, org, StudentAccess.delete) /\ Found(id, org, {"student"})
  /\ Retire(r, id)

CreateParent(r, who, org) ==
  /\ May(r, who, org, ParentAccess.create)
  /\ \E n \in Numbers : AskCreate(r, NewRow("PARENT", org, n))

UpdateParent(r, who, org, id) ==
  /\ May(r, who, org, ParentAccess.update) /\ Found(id, org, {"PARENT"})
  /\ RoleIn(who) = "PARENT" => id = who
  /\ \E set \in Edits(who, "key") : AskUpdate(r, id, set)

DeleteParent(r, who, org, id) ==
  /\ May(r, who, org, ParentAccess.delete) /\ Found(id, org, {"PARENT"})
  /\ Retire(r, id)

LinkStudent(r, who, org, id) ==
  /\ May(r, who, org, ParentAccess.link) /\ Found(id, org, {"PARENT"})
  /\ \E s \in DOMAIN rows : Ask(r, org, id, << >>, <<id, s>>, NoLink)

(* MUTANT of UnlinkStudent: the parent is not looked up in the tenant.          *)
UnlinkAnyStudent(r, who, org, id) ==
  /\ May(r, who, org, ParentAccess.link)
  /\ \E s \in DOMAIN rows : Ask(r, org, id, << >>, NoLink, <<id, s>>)

UnlinkStudent(r, who, org, id) ==
  /\ May(r, who, org, ParentAccess.link) /\ Found(id, org, {"PARENT"})
  /\ \E s \in DOMAIN rows : Ask(r, org, id, << >>, NoLink, <<id, s>>)

-----------------------------------------------------------------------------------
CreateDriver(r, who, org) ==
  /\ May(r, who, org, DriverAccess.create)
  /\ \E n, l \in Numbers : AskCreate(r, NewDriver(org, n, l))

UpdateDriver(r, who, org, id) ==
  /\ May(r, who, org, DriverAccess.update) /\ Found(id, org, {"DRIVER"})
  /\ \E set \in Edits(who, "licence") :
       /\ set = [active |-> FALSE] => id \notin Busy
       /\ AskUpdate(r, id, set)

DeleteDriver(r, who, org, id) ==
  /\ May(r, who, org, DriverAccess.delete) /\ Found(id, org, {"DRIVER"})
  /\ id # who /\ id \notin Busy
  /\ Retire(r, id)

CreateVehicle(r, who, org) ==
  /\ May(r, who, org, VehicleAccess.create)
  /\ \E n \in Numbers : AskCreate(r, NewRow("vehicle", org, n))

UpdateVehicle(r, who, org, id) ==
  /\ May(r, who, org, VehicleAccess.update) /\ Found(id, org, {"vehicle"})
  /\ \E set \in Edits(who, "key") :
       /\ set = [active |-> FALSE] /\ rows[id].active => id \notin Busy
       /\ AskUpdate(r, id, set)

DeleteVehicle(r, who, org, id) ==
  /\ May(r, who, org, VehicleAccess.delete) /\ Found(id, org, {"vehicle"})
  /\ id \notin Busy
  /\ Retire(r, id)

CreateRoute(r, who, org) ==
  /\ May(r, who, org, RouteAccess.create)
  /\ \E n \in Numbers : NameIsFree(0, org, n) /\ AskCreate(r, NewRow("route", org, n))

UpdateRoute(r, who, org, id) ==
  /\ May(r, who, org, RouteAccess.update) /\ Found(id, org, {"route"})
  /\ \E set \in Edits(who, "key") :
       /\ "key" \in DOMAIN set => NameIsFree(id, org, set.key)
       /\ AskUpdate(r, id, set)

DeleteRoute(r, who, org, id) ==
  /\ May(r, who, org, RouteAccess.delete) /\ Found(id, org, {"route"})
  /\ \A i \in DOMAIN rows : rows[i].kind = "schedule" /\ rows[i].active => rows[i].route # id
  /\ Retire(r, id)

CreateSchedule(r, who, org) ==
  /\ May(r, who, org, ScheduleAccess.create)
  /\ \E i \in DOMAIN rows :
       /\ Found(i, org, {"route"}) /\ rows[i].active
       /\ AskCreate(r, [NewRow("schedule", org, "none") EXCEPT !.route = i])

UpdateSchedule(r, who, org, id) ==
  /\ May(r, who, org, ScheduleAccess.update) /\ Found(id, org, {"schedule"})
  /\ \E set \in [active : BOOLEAN] : AskUpdate(r, id, set)

DeleteSchedule(r, who, org, id) ==
  /\ May(r, who, org, ScheduleAccess.delete) /\ Found(id, org, {"schedule"})
  /\ id \notin Busy
  /\ Retire(r, id)

-----------------------------------------------------------------------------------
CreateUser(r, who, org) ==
  /\ May(r, who, org, UserAccess.create)
  /\ \E role \in People, n \in Numbers :
       CanManage(RoleIn(who), role) /\ AskCreate(r, NewRow(role, org, n))

(* The controller leaves a non-admin on /me with the names.                     *)
UserEdits(who) ==
  IF RoleIn(who) \in Admins THEN [active : BOOLEAN] \cup [kind : People] ELSE {<< >>}

UpdateUser(r, who, org, id) ==
  /\ \/ May(r, who, org, UserAccess.update)
     \/ id = who /\ May(r, who, org, UserAccess.me)
  /\ Found(id, org, People)
  /\ id # who => CanManage(RoleIn(who), rows[id].kind)
  /\ \E set \in UserEdits(who) :
       /\ "kind" \in DOMAIN set /\ set.kind # rows[id].kind =>
            CanManage(RoleIn(who), set.kind) /\ CanManage(RoleIn(who), rows[id].kind)
       /\ AskUpdate(r, id, set)

DeleteUser(r, who, org, id) ==
  /\ May(r, who, org, UserAccess.delete) /\ Found(id, org, People)
  /\ id # who /\ CanManage(RoleIn(who), rows[id].kind)
  /\ Retire(r, id)

CreateOrganization(r, who) ==
  /\ May(r, who, HomeOf(who), OrganizationAccess.create)
  /\ \E n \in Numbers : AskCreate(r, NewRow("organization", n, n))

(* Only a SUPER_ADMIN sets the status.                                          *)
UpdateOrganization(r, who, org, id) ==
  /\ May(r, who, org, OrganizationAccess.update)
  /\ \E set \in {<< >>} \cup IF RoleIn(who) = "SUPER_ADMIN" THEN [active : BOOLEAN] ELSE {} :
       AskUpdate(r, id, set)

DeleteOrganization(r, who, org, id) ==
  /\ May(r, who, org, OrganizationAccess.delete)
  /\ Retire(r, id)

-----------------------------------------------------------------------------------
RowId(r) == IF asked[r].id = 0 THEN Len(rows) + 1 ELSE asked[r].id

RowSet(r) ==
  LET j == asked[r] IN
    IF j.id = 0 THEN j.set ELSE Amended(j.set, rows[j.id])

Joined(r) ==
  LET p == asked[r].pair IN
    IF p = NoLink THEN NoLink ELSE <<p[1], IF p[2] = 0 THEN RowId(r) ELSE p[2]>>

IsLinked(pair) == \E l \in links : <<l[2], l[3]>> = pair

(* The composite foreign keys, when the pair is not linked yet.                 *)
MayJoin(r) ==
  ~(Joined(r) = NoLink \/ IsLinked(Joined(r))) =>
    /\ Found(Joined(r)[1], asked[r].org, People)
    /\ asked[r].pair[2] # 0 => Found(Joined(r)[2], asked[r].org, {"student"})

(* parentChild.delete fails when there is nothing to delete.                    *)
MayCut(r) == asked[r].cut = NoLink \/ IsLinked(asked[r].cut)

MayWrite(r) == Fits(RowId(r), RowSet(r)) /\ MayJoin(r) /\ MayCut(r)

Linked(r) ==
  IF Joined(r) = NoLink \/ IsLinked(Joined(r)) THEN links
  ELSE links \cup {<<asked[r].org, Joined(r)[1], Joined(r)[2]>>}

Unlinked(r, set) == {l \in set : <<l[2], l[3]>> # asked[r].cut}

(* logEvent.                                                                    *)
LogEvent(r, id, org) == trail' = trail \cup {[request |-> r, id |-> id, org |-> org]}

InTransaction(kind) == kind \notin {"route", "schedule"}

(* The transaction, or for routes and schedules the write before the entry.     *)
Write(r) ==
  /\ asked[r].step = "checked" /\ MayWrite(r)
  /\ LET id == RowId(r)
         row == [RowSet(r) EXCEPT !.by = @ \cup {r}] IN
       /\ rows' = [i \in DOMAIN rows \cup {id} |-> IF i = id THEN row ELSE rows[i]]
       /\ links' = Unlinked(r, Linked(r))
       /\ IF InTransaction(row.kind)
          THEN LogEvent(r, id, asked[r].org) /\ asked' = [asked EXCEPT ![r] = Answered]
          ELSE /\ asked' = [asked EXCEPT ![r].step = "written", ![r].id = id]
               /\ UNCHANGED trail

LogWrite(r) ==
  /\ asked[r].step = "written"
  /\ LogEvent(r, asked[r].id, asked[r].org)
  /\ asked' = [asked EXCEPT ![r] = Answered]
  /\ UNCHANGED <<rows, links>>

(* The transaction aborts, a statement fails, or the server crashes.            *)
Fail(r) ==
  /\ asked[r].step \in {"checked", "written"}
  /\ asked' = [asked EXCEPT ![r] =
       IF asked[r].step = "checked" THEN Answered ELSE [@ EXCEPT !.step = "unlogged"]]
  /\ UNCHANGED <<rows, links, trail>>

(* What the controllers pass on: the organisation and the role of the caller's  *)
(* token, the id of the path, the columns of the body.                          *)
StudentRequest(r, who, org) ==
  \/ CreateStudent(r, who, org)
  \/ \E id \in DOMAIN rows : UpdateStudent(r, who, org, id) \/ DeleteStudent(r, who, org, id)

ParentRequest(r, who, org) ==
  \/ CreateParent(r, who, org)
  \/ \E id \in DOMAIN rows :
       \/ UpdateParent(r, who, org, id) \/ DeleteParent(r, who, org, id)
       \/ LinkStudent(r, who, org, id) \/ UnlinkStudent(r, who, org, id)

DriverRequest(r, who, org) ==
  \/ CreateDriver(r, who, org)
  \/ \E id \in DOMAIN rows : UpdateDriver(r, who, org, id) \/ DeleteDriver(r, who, org, id)

VehicleRequest(r, who, org) ==
  \/ CreateVehicle(r, who, org)
  \/ \E id \in DOMAIN rows : UpdateVehicle(r, who, org, id) \/ DeleteVehicle(r, who, org, id)

RouteRequest(r, who, org) ==
  \/ CreateRoute(r, who, org)
  \/ \E id \in DOMAIN rows : UpdateRoute(r, who, org, id) \/ DeleteRoute(r, who, org, id)

UserRequest(r, who, org) ==
  \/ CreateUser(r, who, org)
  \/ \E id \in DOMAIN rows : UpdateUser(r, who, org, id) \/ DeleteUser(r, who, org, id)

(* The only one that takes the organisation the token was issued for: the       *)
(* target tenant of a SUPER_ADMIN makes no difference.                          *)
ScheduleRequest(r, who) ==
  LET org == HomeOf(who) IN
  \/ CreateSchedule(r, who, org)
  \/ \E id \in DOMAIN rows : UpdateSchedule(r, who, org, id) \/ DeleteSchedule(r, who, org, id)

OrganizationRequest(r, who, org) ==
  \/ CreateOrganization(r, who)
  \/ \E id \in DOMAIN rows : Owns(org, id) /\
       (UpdateOrganization(r, who, org, id) \/ DeleteOrganization(r, who, org, id))

Request(r, who) ==
  \/ ScheduleRequest(r, who)
  \/ \E org \in Tenants(who) :
       \/ StudentRequest(r, who, org) \/ ParentRequest(r, who, org)
       \/ DriverRequest(r, who, org) \/ VehicleRequest(r, who, org)
       \/ RouteRequest(r, who, org) \/ UserRequest(r, who, org)
       \/ OrganizationRequest(r, who, org)

RcNext ==
  \E r \in Requests :
    \/ Write(r) \/ LogWrite(r) \/ Fail(r)
    \/ asked[r] = Unasked /\ \E who \in Actors : Request(r, who)

RcSpec == RcInit /\ [][RcNext]_rcVars

-----------------------------------------------------------------------------------
(* TYPE. What the tables refer to is there.                                     *)
RcTypeOK ==
  /\ \A l \in links : {l[2], l[3]} \subseteq DOMAIN rows
  /\ \A e \in trail : e.request \in Requests /\ e.id \in DOMAIN rows

Entry(r, id) == [request |-> r, id |-> id, org |-> rows[id].org]

Unlogged == {r \in Requests : asked[r].step \in {"written", "unlogged"}}

(* SAFETY. Every change of a tenant's row is in that tenant's own trail, and    *)
(* the trail tells of nothing else. Only a route or a schedule can be ahead of  *)
(* it, for as long as the request is at work or for ever when it failed between *)
(* the two statements. A link never connects two tenants.                       *)
AccountedFor ==
  /\ UNION {{Entry(r, i) : r \in rows[i].by} : i \in DOMAIN rows}
       = trail \cup {Entry(r, asked[r].id) : r \in Unlogged}
  /\ \A r \in Unlogged : ~InTransaction(rows[asked[r].id].kind)
  /\ \A l \in links : rows[l[2]].org = l[1] /\ rows[l[3]].org = l[1]
===================================================================================
