---------------------------- MODULE RegisterProofs ----------------------------
(* Proofs about the registers of the server: the rows of the tenants and      *)
(* their audit trail, the attendance of a day, and the notification           *)
(* preferences, for any number of requests and any contents of the tables.    *)
EXTENDS Records, DailyAttendance, Preferences, SequenceTheorems, TLAPS

--------------------------------------------------------------------------------
(* Records. A request that is at work may ask for a row of its own tenant     *)
(* only, or for changes that leave the tenant alone. A row's changes are the  *)
(* trail and the entries still owed, entry by entry: each step adds one to    *)
(* both sides or moves one from the owed to the trail.                        *)

(* The rows are numbered from one and have all columns.                       *)
RowsAreWhole ==
  /\ Len(rows) \in Nat /\ DOMAIN rows = 1 .. Len(rows)
  /\ \A i \in DOMAIN rows : DOMAIN rows[i] = Columns

(* What a request may ask for: a new row of its tenant, or a change of a row of *)
(* it that leaves the tenant alone, and the kind of all but people.             *)
Creates(org, set) == DOMAIN set = Columns /\ set.org = org /\ set.by = {}

Changes(org, id, set) ==
  /\ id \in DOMAIN rows /\ rows[id].org = org
  /\ DOMAIN set \subseteq {"active", "key", "licence", "kind"}
  /\ "kind" \in DOMAIN set => set.kind \in People /\ rows[id].kind \in People

(* The rows that a link names are there; 0 is the student to be created.      *)
Real(pair) ==
  pair # NoLink =>
    pair[1] \in DOMAIN rows /\ (pair[2] = 0 \/ pair[2] \in DOMAIN rows)

Proper(org, id, set, pair) ==
  /\ Real(pair)
  /\ IF id = 0 THEN Creates(org, set) ELSE Changes(org, id, set)

(* What a job at work remembers.                                              *)
JobFields == {"step", "org", "id", "set", "pair", "cut"}

(* A job that is checked is proper; what was written before its entry is a    *)
(* route or a schedule of the job's tenant.                                   *)
JobIsProper(r) ==
  /\ asked[r].step \in {"checked", "written", "unlogged"} => DOMAIN asked[r] = JobFields
  /\ asked[r].step = "checked" =>
       Proper(asked[r].org, asked[r].id, asked[r].set, asked[r].pair)
  /\ asked[r].step \in {"written", "unlogged"} =>
       /\ asked[r].id \in DOMAIN rows /\ asked[r].org = rows[asked[r].id].org
       /\ ~InTransaction(rows[asked[r].id].kind)

JobsAreProper ==
  /\ asked = [r \in Requests |-> asked[r]]
  /\ \A r \in Requests : JobIsProper(r)

(* The invariant of the registers.                                            *)
RecordInv == RowsAreWhole /\ JobsAreProper /\ RcTypeOK /\ AccountedFor

--------------------------------------------------------------------------------
(* It holds for the first rows.                                               *)
LEMMA RecordInitHolds == ASSUME RcInit PROVE RecordInv
<1>1. RowsAreWhole
  BY SeedAssumption DEF RcInit, RowsAreWhole
<1>2. \A r \in Requests : asked[r].step = "unasked"
  BY DEF RcInit, Unasked
<1>3. JobsAreProper
  BY <1>2 DEF RcInit, JobsAreProper, JobIsProper
<1>4. RcTypeOK
  BY DEF RcInit, RcTypeOK
<1>5. Unlogged = {}
  BY <1>2 DEF Unlogged
<1>6. \A i \in DOMAIN rows : rows[i].by = {}
  BY SeedAssumption DEF RcInit
<1>7. UNION {{Entry(r, i) : r \in rows[i].by} : i \in DOMAIN rows} = {}
  BY <1>6
<1>8. AccountedFor
  BY <1>5, <1>7 DEF RcInit, AccountedFor
<1> QED BY <1>1, <1>3, <1>4, <1>8 DEF RecordInv

(* A proper job that is checked leaves the invariant.                           *)
LEMMA AskHolds ==
  ASSUME RecordInv, NEW r \in Requests, asked[r] = Unasked,
         NEW org, NEW id, NEW set, NEW pair, NEW cut,
         Proper(org, id, set, pair), Ask(r, org, id, set, pair, cut)
  PROVE  RecordInv'
<1> DEFINE j == [step |-> "checked", org |-> org, id |-> id, set |-> set, pair |-> pair, cut |-> cut]
<1>1. asked' = [asked EXCEPT ![r] = j] /\ UNCHANGED <<rows, links, trail>>
  BY DEF Ask
<1>2. asked'[r] = j /\ asked' = [q \in Requests |-> asked'[q]]
      /\ \A q \in Requests \ {r} : asked'[q] = asked[q]
  BY <1>1 DEF RecordInv, JobsAreProper
<1>3. \A q \in Requests : JobIsProper(q)'
  <2> SUFFICES ASSUME NEW q \in Requests PROVE JobIsProper(q)'
    OBVIOUS
  <2>1. CASE q = r
    BY <1>1, <1>2, <2>1 DEF JobIsProper, JobFields, Proper, Real, Creates, Changes
  <2>2. CASE q # r
    <3>1. JobIsProper(q) /\ asked'[q] = asked[q]
      BY <1>2, <2>2 DEF RecordInv, JobsAreProper
    <3> QED BY <1>1, <3>1 DEF JobIsProper, Proper, Real, Creates, Changes
  <2> QED BY <2>1, <2>2
<1>4. asked[r].step = "unasked" /\ asked'[r].step = "checked"
  BY <1>2 DEF Unasked
<1>5. Unlogged' = Unlogged /\ \A q \in Unlogged : asked'[q] = asked[q]
  BY <1>2, <1>4 DEF Unlogged
<1>6. {Entry(q, asked[q].id) : q \in Unlogged}' = {Entry(q, asked[q].id) : q \in Unlogged}
  BY <1>1, <1>5 DEF Entry
<1>7. (UNION {{Entry(q, i) : q \in rows[i].by} : i \in DOMAIN rows})'
        = UNION {{Entry(q, i) : q \in rows[i].by} : i \in DOMAIN rows}
  BY <1>1 DEF Entry
<1>8. AccountedFor'
  BY <1>1, <1>5, <1>6, <1>7 DEF RecordInv, AccountedFor
<1> QED
  BY <1>1, <1>2, <1>3, <1>8 DEF RecordInv, RowsAreWhole, JobsAreProper, RcTypeOK

--------------------------------------------------------------------------------
(* Rows are numbered from one: 0 is none of them.                             *)
LEMMA RowsHaveIds == ASSUME RecordInv, NEW id \in DOMAIN rows PROVE id # 0
  BY DEF RecordInv, RowsAreWhole

(* What the services create has all columns and the tenant it is asked for.   *)
LEMMA NewRowsAreWhole ==
  ASSUME NEW kind, NEW org, NEW key, NEW n
  PROVE  /\ Creates(org, NewRow(kind, org, key)) /\ NewRow(kind, org, key).org = org
         /\ Creates(org, NewDriver(org, key, n)) /\ NewDriver(org, key, n).org = org
         /\ Creates(org, [NewRow(kind, org, key) EXCEPT !.route = n])
         /\ [NewRow(kind, org, key) EXCEPT !.route = n].org = org
  BY DEF Creates, NewRow, NewDriver, Columns

(* A creation that was checked keeps the invariant.                           *)
LEMMA CreatesHold ==
  ASSUME RecordInv, NEW r \in Requests, asked[r] = Unasked, NEW new,
         Creates(new.org, new), AskCreate(r, new)
  PROVE  RecordInv'
<1>1. Proper(new.org, 0, new, NoLink)
  BY DEF Proper, Real
<1> QED BY <1>1, AskHolds DEF AskCreate

(* So does an update of some columns.                                         *)
LEMMA UpdatesHold ==
  ASSUME RecordInv, NEW r \in Requests, asked[r] = Unasked, NEW id \in DOMAIN rows, NEW set,
         DOMAIN set \subseteq {"active", "key", "licence", "kind"},
         "kind" \in DOMAIN set => set.kind \in People /\ rows[id].kind \in People,
         AskUpdate(r, id, set)
  PROVE  RecordInv'
<1>1. Proper(rows[id].org, id, set, NoLink)
  BY RowsHaveIds DEF Proper, Real, Changes
<1> QED BY <1>1, AskHolds DEF AskUpdate

(* So does a deletion, which is an update.                                    *)
LEMMA RetirementsHold ==
  ASSUME RecordInv, NEW r \in Requests, asked[r] = Unasked, NEW id \in DOMAIN rows, Retire(r, id)
  PROVE  RecordInv'
<1>1. Proper(rows[id].org, id, [active |-> FALSE], NoLink)
  BY RowsHaveIds DEF Proper, Real, Changes
<1> QED BY <1>1, AskHolds DEF Retire

(* So does linking or unlinking a parent and a student.                       *)
LEMMA LinkingsHold ==
  ASSUME RecordInv, NEW r \in Requests, asked[r] = Unasked,
         NEW id \in DOMAIN rows, NEW pair, NEW cut, Real(pair),
         NEW org, rows[id].org = org, Ask(r, org, id, << >>, pair, cut)
  PROVE  RecordInv'
<1>1. Proper(org, id, << >>, pair)
  BY RowsHaveIds DEF Proper, Changes
<1> QED BY <1>1, AskHolds

(* The columns of a form are not the tenant, nor the kind.                    *)
LEMMA EditsAreColumns ==
  ASSUME NEW who, NEW column \in {"key", "licence"}, NEW set \in Edits(who, column)
  PROVE  DOMAIN set \subseteq {"active", "key", "licence", "kind"} /\ "kind" \notin DOMAIN set
<1>1. set \in [active : BOOLEAN] \/ set \in [{column} -> Numbers]
  BY DEF Edits
<1> QED BY <1>1

(* The same of the status.                                                    *)
LEMMA ActiveIsAColumn ==
  ASSUME NEW set \in [active : BOOLEAN]
  PROVE  DOMAIN set \subseteq {"active", "key", "licence", "kind"} /\ "kind" \notin DOMAIN set
OBVIOUS

(* Every request of every router keeps the invariant.                         *)
LEMMA RequestHolds ==
  ASSUME RecordInv, NEW r \in Requests, asked[r] = Unasked, NEW who \in Actors, Request(r, who)
  PROVE  RecordInv'
<1>c ASSUME NEW kind, NEW org, NEW key, AskCreate(r, NewRow(kind, org, key)) PROVE RecordInv'
  BY <1>c, NewRowsAreWhole, CreatesHold
<1>u ASSUME NEW id \in DOMAIN rows, NEW column \in {"key", "licence"},
            NEW set \in Edits(who, column), AskUpdate(r, id, set) PROVE RecordInv'
  BY <1>u, EditsAreColumns, UpdatesHold
<1>a ASSUME NEW id \in DOMAIN rows, NEW set \in [active : BOOLEAN], AskUpdate(r, id, set)
     PROVE RecordInv'
  BY <1>a, ActiveIsAColumn, UpdatesHold
<1>d ASSUME NEW id \in DOMAIN rows, Retire(r, id) PROVE RecordInv'
  BY <1>d, RetirementsHold
<1>l ASSUME NEW id \in DOMAIN rows, NEW p \in DOMAIN rows, NEW s \in DOMAIN rows, NEW cut, NEW org,
            Found(id, org, {"PARENT"}) \/ Found(id, org, {"student"}),
            \/ Ask(r, org, id, << >>, <<p, s>>, cut)
            \/ Ask(r, org, id, << >>, NoLink, cut) PROVE RecordInv'
  <2>1. rows[id].org = org /\ Real(<<p, s>>) /\ Real(NoLink)
    BY <1>l DEF Found, Real
  <2> QED BY <1>l, <2>1, LinkingsHold
<1>1. ASSUME NEW org, StudentRequest(r, who, org) PROVE RecordInv'
  <2>1. CASE CreateStudent(r, who, org)
    <3>1. ASSUME NEW n \in Numbers, NEW p \in DOMAIN rows,
                 Ask(r, org, 0, NewRow("student", org, n), <<p, 0>>, NoLink) PROVE RecordInv'
      <4>1. Proper(org, 0, NewRow("student", org, n), <<p, 0>>)
        BY NewRowsAreWhole DEF Proper, Real
      <4> QED BY <3>1, <4>1, AskHolds
    <3> QED BY <2>1, <3>1, <1>c DEF CreateStudent
  <2>2. ASSUME NEW id \in DOMAIN rows, UpdateStudent(r, who, org, id) PROVE RecordInv'
    BY <2>2, <1>u, <1>l DEF UpdateStudent
  <2>3. ASSUME NEW id \in DOMAIN rows, DeleteStudent(r, who, org, id) PROVE RecordInv'
    BY <2>3, <1>d DEF DeleteStudent
  <2> QED BY <1>1, <2>1, <2>2, <2>3 DEF StudentRequest
<1>2. ASSUME NEW org, ParentRequest(r, who, org) PROVE RecordInv'
  <2>1. CASE CreateParent(r, who, org)
    BY <2>1, <1>c DEF CreateParent
  <2>2. ASSUME NEW id \in DOMAIN rows, UpdateParent(r, who, org, id) PROVE RecordInv'
    BY <2>2, <1>u DEF UpdateParent
  <2>3. ASSUME NEW id \in DOMAIN rows, DeleteParent(r, who, org, id) PROVE RecordInv'
    BY <2>3, <1>d DEF DeleteParent
  <2>4. ASSUME NEW id \in DOMAIN rows, LinkStudent(r, who, org, id) PROVE RecordInv'
    BY <2>4, <1>l DEF LinkStudent
  <2>5. ASSUME NEW id \in DOMAIN rows, UnlinkStudent(r, who, org, id) PROVE RecordInv'
    BY <2>5, <1>l DEF UnlinkStudent
  <2> QED BY <1>2, <2>1, <2>2, <2>3, <2>4, <2>5 DEF ParentRequest
<1>3. ASSUME NEW org, DriverRequest(r, who, org) PROVE RecordInv'
  <2>1. CASE CreateDriver(r, who, org)
    <3>1. PICK n, l \in Numbers : AskCreate(r, NewDriver(org, n, l))
      BY <2>1 DEF CreateDriver
    <3> QED BY <3>1, NewRowsAreWhole, CreatesHold
  <2>2. ASSUME NEW id \in DOMAIN rows, UpdateDriver(r, who, org, id) PROVE RecordInv'
    BY <2>2, <1>u DEF UpdateDriver
  <2>3. ASSUME NEW id \in DOMAIN rows, DeleteDriver(r, who, org, id) PROVE RecordInv'
    BY <2>3, <1>d DEF DeleteDriver
  <2> QED BY <1>3, <2>1, <2>2, <2>3 DEF DriverRequest
<1>4. ASSUME NEW org, VehicleRequest(r, who, org) PROVE RecordInv'
  <2>1. CASE CreateVehicle(r, who, org)
    BY <2>1, <1>c DEF CreateVehicle
  <2>2. ASSUME NEW id \in DOMAIN rows, UpdateVehicle(r, who, org, id) PROVE RecordInv'
    BY <2>2, <1>u DEF UpdateVehicle
  <2>3. ASSUME NEW id \in DOMAIN rows, DeleteVehicle(r, who, org, id) PROVE RecordInv'
    BY <2>3, <1>d DEF DeleteVehicle
  <2> QED BY <1>4, <2>1, <2>2, <2>3 DEF VehicleRequest
<1>5. ASSUME NEW org, RouteRequest(r, who, org) PROVE RecordInv'
  <2>1. CASE CreateRoute(r, who, org)
    BY <2>1, <1>c DEF CreateRoute
  <2>2. ASSUME NEW id \in DOMAIN rows, UpdateRoute(r, who, org, id) PROVE RecordInv'
    BY <2>2, <1>u DEF UpdateRoute
  <2>3. ASSUME NEW id \in DOMAIN rows, DeleteRoute(r, who, org, id) PROVE RecordInv'
    BY <2>3, <1>d DEF DeleteRoute
  <2> QED BY <1>5, <2>1, <2>2, <2>3 DEF RouteRequest
<1>6. ASSUME NEW org, UserRequest(r, who, org) PROVE RecordInv'
  <2>1. CASE CreateUser(r, who, org)
    BY <2>1, <1>c DEF CreateUser
  <2>2. ASSUME NEW id \in DOMAIN rows, UpdateUser(r, who, org, id) PROVE RecordInv'
    <3>1. rows[id].kind \in People
      BY <2>2 DEF UpdateUser, Found
    <3>2. PICK set \in UserEdits(who) : AskUpdate(r, id, set)
      BY <2>2 DEF UpdateUser
    <3>3. set \in [active : BOOLEAN] \/ set \in [kind : People] \/ set = << >>
      BY DEF UserEdits
    <3>4. /\ DOMAIN set \subseteq {"active", "key", "licence", "kind"}
          /\ "kind" \in DOMAIN set => set.kind \in People
      BY <3>3
    <3> QED BY <3>1, <3>2, <3>4, UpdatesHold
  <2>3. ASSUME NEW id \in DOMAIN rows, DeleteUser(r, who, org, id) PROVE RecordInv'
    BY <2>3, <1>d DEF DeleteUser
  <2> QED BY <1>6, <2>1, <2>2, <2>3 DEF UserRequest
<1>7. CASE ScheduleRequest(r, who)
  <2> DEFINE org == HomeOf(who)
  <2>1. CASE CreateSchedule(r, who, org)
    <3>1. PICK i \in DOMAIN rows :
            AskCreate(r, [NewRow("schedule", org, "none") EXCEPT !.route = i])
      BY <2>1 DEF CreateSchedule
    <3> HIDE DEF org
    <3> QED BY <3>1, NewRowsAreWhole, CreatesHold
  <2>2. ASSUME NEW id \in DOMAIN rows, UpdateSchedule(r, who, org, id) PROVE RecordInv'
    BY <2>2, <1>a DEF UpdateSchedule
  <2>3. ASSUME NEW id \in DOMAIN rows, DeleteSchedule(r, who, org, id) PROVE RecordInv'
    BY <2>3, <1>d DEF DeleteSchedule
  <2> QED BY <1>7, <2>1, <2>2, <2>3 DEF ScheduleRequest
<1>8. ASSUME NEW org, OrganizationRequest(r, who, org) PROVE RecordInv'
  <2>1. CASE CreateOrganization(r, who)
    BY <2>1, <1>c DEF CreateOrganization
  <2>2. ASSUME NEW id \in DOMAIN rows, UpdateOrganization(r, who, org, id) PROVE RecordInv'
    <3>1. PICK set \in {<< >>} \cup [active : BOOLEAN] : AskUpdate(r, id, set)
      BY <2>2 DEF UpdateOrganization
    <3>2. DOMAIN set \subseteq {"active", "key", "licence", "kind"} /\ "kind" \notin DOMAIN set
      BY <3>1
    <3> QED BY <3>1, <3>2, UpdatesHold
  <2>3. ASSUME NEW id \in DOMAIN rows, DeleteOrganization(r, who, org, id) PROVE RecordInv'
    BY <2>3, <1>d DEF DeleteOrganization
  <2> QED BY <1>8, <2>1, <2>2, <2>3 DEF OrganizationRequest
<1> QED BY <1>1, <1>2, <1>3, <1>4, <1>5, <1>6, <1>7, <1>8 DEF Request

--------------------------------------------------------------------------------
(* Set laws of the account: a family of sets when one of them gains a member.   *)
LEMMA OneEntryMore ==
  ASSUME NEW A, NEW B, NEW f, NEW g, NEW id, NEW e,
         B = A \cup {id}, \A i \in A \ {id} : g[i] = f[i],
         IF id \in A THEN g[id] = f[id] \cup {e} ELSE g[id] = {e}
  PROVE  UNION {g[i] : i \in B} = (UNION {f[i] : i \in A}) \cup {e}
<1>1. ASSUME NEW x \in UNION {g[i] : i \in B} PROVE x \in (UNION {f[i] : i \in A}) \cup {e}
  <2>1. PICK i \in B : x \in g[i]
    OBVIOUS
  <2>2. CASE i = id
    BY <2>1, <2>2
  <2>3. CASE i # id
    <3>1. i \in A \ {id} /\ x \in f[i]
      BY <2>1, <2>3
    <3> QED BY <3>1
  <2> QED BY <2>2, <2>3
<1>2. ASSUME NEW x \in UNION {f[i] : i \in A} PROVE x \in UNION {g[i] : i \in B}
  <2>1. PICK i \in A : x \in f[i]
    OBVIOUS
  <2>2. i \in B /\ x \in g[i]
    BY <2>1
  <2> QED BY <2>2
<1>3. e \in UNION {g[i] : i \in B}
  <2>1. id \in B /\ e \in g[id]
    OBVIOUS
  <2> QED BY <2>1
<1>4. UNION {g[i] : i \in B} \subseteq (UNION {f[i] : i \in A}) \cup {e}
  BY <1>1
<1>5. UNION {f[i] : i \in A} \subseteq UNION {g[i] : i \in B}
  BY <1>2
<1> QED BY <1>3, <1>4, <1>5

(* A function on the first numbers is a sequence of that length.                *)
LEMMA RowsHaveLength ==
  ASSUME NEW u, NEW n \in Nat, u = [i \in 1 .. n |-> u[i]]
  PROVE  Len(u) = n
<1> DEFINE S == {u[i] : i \in 1 .. n}
<1>1. \A i \in 1 .. n : u[i] \in S
  OBVIOUS
<1> HIDE DEF S
<1>2. u \in Seq(S)
  BY <1>1
<1> QED BY <1>2

(* The write keeps the invariant, in a transaction with its entry or ahead of *)
(* it.                                                                        *)
LEMMA WriteHolds == ASSUME RecordInv, NEW r \in Requests, Write(r) PROVE RecordInv'
<1>0. PICK j, id, new : /\ j = asked[r] /\ id = RowId(r)
                        /\ new = [RowSet(r) EXCEPT !.by = @ \cup {r}]
  OBVIOUS
<1>1. /\ j.step = "checked" /\ MayWrite(r)
      /\ rows' = [i \in DOMAIN rows \cup {id} |-> IF i = id THEN new ELSE rows[i]]
      /\ links' = Unlinked(r, Linked(r))
      /\ IF InTransaction(new.kind)
         THEN LogEvent(r, id, j.org) /\ asked' = [asked EXCEPT ![r] = Answered]
         ELSE asked' = [asked EXCEPT ![r].step = "written", ![r].id = id] /\ UNCHANGED trail
  BY <1>0 DEF Write
<1>2. Proper(j.org, j.id, j.set, j.pair) /\ DOMAIN j = JobFields
  BY <1>0, <1>1 DEF RecordInv, JobsAreProper, JobIsProper
<1>3. /\ DOMAIN RowSet(r) = Columns /\ RowSet(r).org = j.org
      /\ id \in DOMAIN rows =>
           /\ RowSet(r).by = rows[id].by /\ rows[id].org = j.org
           /\ RowSet(r).kind = rows[id].kind
              \/ (RowSet(r).kind \in People /\ rows[id].kind \in People)
      /\ id \notin DOMAIN rows => RowSet(r).by = {}
      /\ id = Len(rows) + 1 \/ id \in DOMAIN rows
  <2>1. CASE j.id = 0
    <3>1. id = Len(rows) + 1 /\ id \notin DOMAIN rows /\ RowSet(r) = j.set
      BY <1>0, <2>1 DEF RecordInv, RowsAreWhole, RowId, RowSet
    <3> QED BY <1>2, <2>1, <3>1 DEF Proper, Creates
  <2>2. CASE j.id # 0
    <3>1. id = j.id /\ RowSet(r) = Amended(j.set, rows[id]) /\ Changes(j.org, id, j.set)
      BY <1>0, <1>2, <2>2 DEF RowId, RowSet, Proper
    <3>2. id \in DOMAIN rows /\ DOMAIN rows[id] = Columns
      BY <3>1 DEF Changes, RecordInv, RowsAreWhole
    <3>3. /\ DOMAIN RowSet(r) = Columns /\ RowSet(r).org = rows[id].org /\ RowSet(r).by = rows[id].by
          /\ RowSet(r).kind = IF "kind" \in DOMAIN j.set THEN j.set.kind ELSE rows[id].kind
      BY <3>1, <3>2 DEF Amended, Columns, Changes
    <3> QED BY <3>1, <3>2, <3>3 DEF Changes
  <2> QED BY <2>1, <2>2
<1>4. /\ DOMAIN new = Columns /\ new.org = j.org /\ new.kind = RowSet(r).kind
      /\ new.by = RowSet(r).by \cup {r}
  BY <1>0, <1>3 DEF Columns, Entries
<1>5. /\ DOMAIN rows' = DOMAIN rows \cup {id} /\ rows'[id] = new
      /\ \A i \in DOMAIN rows : i # id => rows'[i] = rows[i]
      /\ \A i \in DOMAIN rows : rows'[i].org = rows[i].org
  BY <1>1, <1>3, <1>4
<1>6. RowsAreWhole'
  <2>1. Len(rows) \in Nat /\ DOMAIN rows = 1 .. Len(rows)
    BY DEF RecordInv, RowsAreWhole
  <2>2. PICK n \in Nat : DOMAIN rows' = 1 .. n
    <3>1. CASE id \in DOMAIN rows
      BY <1>5, <2>1, <3>1
    <3>2. CASE id = Len(rows) + 1
      <4>1. 1 .. Len(rows) \cup {Len(rows) + 1} = 1 .. Len(rows) + 1
        BY <2>1
      <4> QED BY <1>5, <2>1, <3>2, <4>1
    <3> QED BY <1>3, <3>1, <3>2
  <2>3. rows' = [i \in 1 .. n |-> rows'[i]]
    BY <1>1, <2>2
  <2>4. Len(rows') = n
    BY <2>3, RowsHaveLength
  <2>5. \A i \in DOMAIN rows' : DOMAIN rows'[i] = Columns
    BY <1>4, <1>5 DEF RecordInv, RowsAreWhole
  <2> QED BY <2>2, <2>4, <2>5 DEF RowsAreWhole
<1>8. /\ asked' = [q \in Requests |-> asked'[q]]
      /\ \A q \in Requests \ {r} : asked'[q] = asked[q]
      /\ IF InTransaction(new.kind) THEN asked'[r] = Answered
         ELSE /\ asked'[r].step = "written" /\ asked'[r].id = id /\ asked'[r].org = j.org
              /\ DOMAIN asked'[r] = JobFields
  <2>1. CASE InTransaction(new.kind)
    BY <1>1, <2>1 DEF RecordInv, JobsAreProper
  <2>2. CASE ~InTransaction(new.kind)
    <3> DEFINE w == [j EXCEPT !.step = "written", !.id = id]
    <3>1. w.step = "written" /\ w.id = id /\ w.org = j.org /\ DOMAIN w = JobFields
      BY <1>2 DEF JobFields
    <3>2. asked' = [asked EXCEPT ![r] = w]
      BY <1>0, <1>1, <2>2
    <3> HIDE DEF w
    <3> QED BY <2>2, <3>1, <3>2 DEF RecordInv, JobsAreProper
  <2> QED BY <2>1, <2>2
<1>d DOMAIN rows \subseteq DOMAIN rows'
  BY <1>5
<1>9. \A i \in DOMAIN rows :
        /\ ~InTransaction(rows[i].kind) => ~InTransaction(rows'[i].kind)
        /\ rows[i].kind \in People => rows'[i].kind \in People
  BY <1>3, <1>4, <1>5 DEF InTransaction, People, Operators, Admins
<1>10. JobsAreProper'
  <2> SUFFICES ASSUME NEW q \in Requests PROVE JobIsProper(q)'
    BY <1>8 DEF JobsAreProper
  <2>1. CASE q = r
    BY <1>4, <1>5, <1>8, <2>1 DEF JobIsProper, Answered
  <2>2. CASE q # r
    <3>1. JobIsProper(q) /\ asked'[q] = asked[q]
      BY <1>8, <2>2 DEF RecordInv, JobsAreProper
    <3>2. PICK k : k = asked[q]
      OBVIOUS
    <3>3. ASSUME Proper(k.org, k.id, k.set, k.pair) PROVE Proper(k.org, k.id, k.set, k.pair)'
      <4>1. Real(k.pair)'
        BY <1>d, <3>3 DEF Proper, Real
      <4>2. CASE k.id = 0
        BY <3>3, <4>1, <4>2 DEF Proper, Creates
      <4>3. CASE k.id # 0
        <5>1. Changes(k.org, k.id, k.set)'
          BY <1>5, <1>9, <1>d, <3>3, <4>3 DEF Proper, Changes
        <5> QED BY <4>1, <4>3, <5>1 DEF Proper
      <4> QED BY <4>2, <4>3
    <3>4. asked'[q] = k /\ asked[q] = k
      BY <3>1, <3>2
    <3>5. k.step = "checked" => Proper(k.org, k.id, k.set, k.pair)'
      BY <3>1, <3>3, <3>4 DEF JobIsProper
    <3>6. k.step \in {"written", "unlogged"} =>
            /\ k.id \in DOMAIN rows' /\ k.org = rows'[k.id].org
            /\ ~InTransaction(rows'[k.id].kind)
      BY <1>5, <1>9, <1>d, <3>1, <3>4 DEF JobIsProper
    <3> QED BY <3>1, <3>4, <3>5, <3>6 DEF JobIsProper, Proper, Real, Creates, Changes
  <2> QED BY <2>1, <2>2
<1>11. \A l \in links' : l \in links \/ (l = <<j.org, Joined(r)[1], Joined(r)[2]>>
                                         /\ Joined(r) # NoLink /\ ~IsLinked(Joined(r)))
  BY <1>0, <1>1 DEF Unlinked, Linked
<1>12. Joined(r) # NoLink /\ ~IsLinked(Joined(r)) =>
         /\ Joined(r)[1] \in DOMAIN rows' /\ Joined(r)[2] \in DOMAIN rows'
         /\ rows'[Joined(r)[1]].org = j.org /\ rows'[Joined(r)[2]].org = j.org
  <2> SUFFICES ASSUME Joined(r) # NoLink, ~IsLinked(Joined(r))
               PROVE /\ Joined(r)[1] \in DOMAIN rows' /\ Joined(r)[2] \in DOMAIN rows'
                     /\ rows'[Joined(r)[1]].org = j.org /\ rows'[Joined(r)[2]].org = j.org
    OBVIOUS
  <2>1. j.pair # NoLink /\ Joined(r)[1] = j.pair[1]
        /\ Joined(r)[2] = IF j.pair[2] = 0 THEN id ELSE j.pair[2]
    BY <1>0 DEF Joined
  <2>2. j.pair[1] \in DOMAIN rows /\ (j.pair[2] = 0 \/ j.pair[2] \in DOMAIN rows)
    BY <1>2, <2>1 DEF Proper, Real
  <2>3. rows[j.pair[1]].org = j.org /\ (j.pair[2] # 0 => rows[j.pair[2]].org = j.org)
    BY <1>0, <1>1, <2>1 DEF MayWrite, MayJoin, Found
  <2> QED BY <1>4, <1>5, <2>1, <2>2, <2>3
<1>13. \A l \in links' : {l[2], l[3]} \subseteq DOMAIN rows'
                         /\ rows'[l[2]].org = l[1] /\ rows'[l[3]].org = l[1]
  BY <1>5, <1>d, <1>11, <1>12 DEF RecordInv, RcTypeOK, AccountedFor
<1>e PICK e : e = [request |-> r, id |-> id, org |-> j.org]
  OBVIOUS
<1> DEFINE mine == {Entry(q, asked[q].id) : q \in Unlogged}
           all == UNION {{Entry(q, i) : q \in rows[i].by} : i \in DOMAIN rows}
<1>14. all' = all \cup {e}
  <2>1. \A q, i : i \in DOMAIN rows => [request |-> q, id |-> i, org |-> rows'[i].org] = Entry(q, i)
    BY <1>5 DEF Entry
  <2>2. [request |-> r, id |-> id, org |-> rows'[id].org] = e
    BY <1>4, <1>5, <1>e
  <2>3. PICK f, g :
          /\ f = [i \in DOMAIN rows |-> {Entry(q, i) : q \in rows[i].by}]
          /\ g = [i \in DOMAIN rows' |->
                   {[request |-> q, id |-> i, org |-> rows'[i].org] : q \in rows'[i].by}]
    OBVIOUS
  <2>4. \A i \in DOMAIN rows \ {id} : g[i] = f[i]
    BY <1>5, <2>1, <2>3
  <2>5. IF id \in DOMAIN rows THEN g[id] = f[id] \cup {e} ELSE g[id] = {e}
    <3>1. rows'[id].by = new.by /\ id \in DOMAIN rows'
      BY <1>5
    <3>2. CASE id \in DOMAIN rows
      <4>1. rows'[id].by = rows[id].by \cup {r}
        BY <1>3, <1>4, <3>1, <3>2
      <4>2. g[id] = {[request |-> q, id |-> id, org |-> rows'[id].org] : q \in rows[id].by} \cup {e}
        BY <2>2, <2>3, <3>1, <4>1
      <4>3. f[id] = {[request |-> q, id |-> id, org |-> rows'[id].org] : q \in rows[id].by}
        BY <2>1, <2>3, <3>2
      <4> QED BY <3>2, <4>2, <4>3
    <3>3. CASE id \notin DOMAIN rows
      <4>1. rows'[id].by = {r}
        BY <1>3, <1>4, <3>1, <3>3
      <4> QED BY <2>2, <2>3, <3>1, <3>3, <4>1
    <3> QED BY <3>2, <3>3
  <2>6. UNION {g[i] : i \in DOMAIN rows'} = (UNION {f[i] : i \in DOMAIN rows}) \cup {e}
    BY <1>5, <2>4, <2>5, OneEntryMore
  <2>7. all = UNION {f[i] : i \in DOMAIN rows}
    BY <2>3
  <2>8. all' = UNION {g[i] : i \in DOMAIN rows'}
    BY <2>3 DEF Entry
  <2> QED BY <2>6, <2>7, <2>8
<1>15. trail' \cup mine' = trail \cup mine \cup {e}
  <2>1. \A q \in Unlogged : q # r /\ asked[q].id \in DOMAIN rows
    BY <1>0, <1>1 DEF Unlogged, RecordInv, JobsAreProper, JobIsProper
  <2>2. \A q \in Unlogged : /\ q \in Requests \ {r}
          /\ [request |-> q, id |-> asked'[q].id, org |-> rows'[asked'[q].id].org]
               = Entry(q, asked[q].id)
    BY <1>5, <1>8, <1>d, <2>1 DEF Entry, Unlogged
  <2>3. CASE InTransaction(new.kind)
    <3>1. Unlogged' = Unlogged
      BY <1>0, <1>1, <1>8, <2>3 DEF Unlogged, Answered
    <3>2. mine' = mine
      BY <2>2, <3>1 DEF Entry
    <3>3. trail' = trail \cup {e}
      BY <1>1, <1>e, <2>3 DEF LogEvent
    <3> QED BY <3>2, <3>3
  <2>4. CASE ~InTransaction(new.kind)
    <3>1. Unlogged' = Unlogged \cup {r}
      BY <1>8, <2>4 DEF Unlogged
    <3>2. [request |-> r, id |-> asked'[r].id, org |-> rows'[asked'[r].id].org] = e
      BY <1>4, <1>5, <1>8, <1>e, <2>4
    <3>3. mine' = mine \cup {e}
      BY <2>2, <3>1, <3>2 DEF Entry
    <3>4. trail' = trail
      BY <1>1, <2>4
    <3> QED BY <3>3, <3>4
  <2> QED BY <2>3, <2>4
<1>16. \A q \in Unlogged' : ~InTransaction(rows'[asked'[q].id].kind)
  BY <1>10 DEF JobsAreProper, JobIsProper, Unlogged
<1>17. AccountedFor'
  <2>1. all = trail \cup mine
    BY DEF RecordInv, AccountedFor
  <2>2. all' = trail' \cup mine'
    BY <1>14, <1>15, <2>1
  <2> QED BY <1>13, <1>16, <2>2 DEF AccountedFor
<1>18. RcTypeOK'
  <2>1. \A t \in trail' : t \in trail \/ t = e
    BY <1>1, <1>e DEF LogEvent
  <2>2. \A t \in trail' : t.request \in Requests /\ t.id \in DOMAIN rows'
    BY <1>5, <1>e, <2>1 DEF RecordInv, RcTypeOK
  <2> QED BY <1>13, <2>2 DEF RcTypeOK
<1> QED BY <1>6, <1>10, <1>17, <1>18 DEF RecordInv

(* The registers stand still, one job goes on.                                  *)
LEMMA StandstillHolds ==
  ASSUME RecordInv, NEW r \in Requests, NEW k, UNCHANGED <<rows, links>>,
         asked' = [asked EXCEPT ![r] = k],
         k.step \in {"written", "unlogged"} =>
           /\ DOMAIN k = JobFields /\ k.id \in DOMAIN rows /\ k.org = rows[k.id].org
           /\ ~InTransaction(rows[k.id].kind),
         k.step # "checked",
         \A t \in trail' : t.request \in Requests /\ t.id \in DOMAIN rows,
         (trail \cup {Entry(q, asked[q].id) : q \in Unlogged})
           = (trail \cup {Entry(q, asked[q].id) : q \in Unlogged})'
  PROVE  RecordInv'
<1>1. rows' = rows /\ links' = links
  OBVIOUS
<1>2. /\ asked' = [q \in Requests |-> asked'[q]] /\ asked'[r] = k
      /\ \A q \in Requests \ {r} : asked'[q] = asked[q]
  BY DEF RecordInv, JobsAreProper
<1>3. \A q \in Requests : JobIsProper(q)'
  <2> SUFFICES ASSUME NEW q \in Requests PROVE JobIsProper(q)'
    OBVIOUS
  <2>1. CASE q = r
    BY <1>1, <1>2, <2>1 DEF JobIsProper
  <2>2. CASE q # r
    <3>1. JobIsProper(q) /\ asked'[q] = asked[q]
      BY <1>2, <2>2 DEF RecordInv, JobsAreProper
    <3> QED BY <1>1, <3>1 DEF JobIsProper, Proper, Real, Creates, Changes
  <2> QED BY <2>1, <2>2
<1>4. \A q \in Unlogged' : ~InTransaction(rows'[asked'[q].id].kind)
  BY <1>3 DEF JobIsProper, Unlogged
<1>5. (UNION {{Entry(q, i) : q \in rows[i].by} : i \in DOMAIN rows})'
        = UNION {{Entry(q, i) : q \in rows[i].by} : i \in DOMAIN rows}
  BY <1>1 DEF Entry
<1>6. AccountedFor'
  BY <1>1, <1>4, <1>5 DEF RecordInv, AccountedFor
<1> QED
  BY <1>1, <1>2, <1>3, <1>6 DEF RecordInv, RowsAreWhole, JobsAreProper, RcTypeOK

(* The entry of a route's or schedule's change keeps the invariant.           *)
LEMMA LogWriteHolds == ASSUME RecordInv, NEW r \in Requests, LogWrite(r) PROVE RecordInv'
<1> DEFINE e == [request |-> r, id |-> asked[r].id, org |-> asked[r].org]
<1>1. /\ asked[r].step = "written" /\ trail' = trail \cup {e}
      /\ asked' = [asked EXCEPT ![r] = Answered] /\ UNCHANGED <<rows, links>>
  BY DEF LogWrite, LogEvent
<1>2. asked[r].id \in DOMAIN rows /\ Entry(r, asked[r].id) = e
  BY <1>1 DEF RecordInv, JobsAreProper, JobIsProper, Entry
<1>3. /\ \A q \in Requests \ {r} : asked'[q] = asked[q]
      /\ asked'[r].step = "answered"
  BY <1>1 DEF RecordInv, JobsAreProper, Answered
<1>4. Unlogged' = Unlogged \ {r} /\ r \in Unlogged
  BY <1>1, <1>3 DEF Unlogged
<1>5. \A q \in Unlogged \ {r} :
        [request |-> q, id |-> asked'[q].id, org |-> rows'[asked'[q].id].org] = Entry(q, asked[q].id)
  BY <1>1, <1>3 DEF Entry, Unlogged
<1>6. {Entry(q, asked[q].id) : q \in Unlogged}' = {Entry(q, asked[q].id) : q \in Unlogged \ {r}}
  BY <1>4, <1>5 DEF Entry
<1>7. {Entry(q, asked[q].id) : q \in Unlogged}
        = {Entry(q, asked[q].id) : q \in Unlogged \ {r}} \cup {e}
  BY <1>2, <1>4
<1>8. (trail \cup {Entry(q, asked[q].id) : q \in Unlogged})
        = (trail \cup {Entry(q, asked[q].id) : q \in Unlogged})'
  BY <1>1, <1>6, <1>7
<1>9. \A t \in trail' : t.request \in Requests /\ t.id \in DOMAIN rows
  BY <1>1, <1>2 DEF RecordInv, RcTypeOK
<1>10. Answered.step = "answered"
  BY DEF Answered
<1> QED BY <1>1, <1>8, <1>9, <1>10, StandstillHolds

(* So does a failure before or after the write.                               *)
LEMMA FailHolds == ASSUME RecordInv, NEW r \in Requests, Fail(r) PROVE RecordInv'
<1>1. /\ asked[r].step \in {"checked", "written"} /\ UNCHANGED <<rows, links, trail>>
      /\ asked' = [asked EXCEPT ![r] =
           IF asked[r].step = "checked" THEN Answered ELSE [asked[r] EXCEPT !.step = "unlogged"]]
  BY DEF Fail, RecordInv, JobsAreProper
<1>2. PICK k : k = IF asked[r].step = "checked" THEN Answered
                   ELSE [asked[r] EXCEPT !.step = "unlogged"]
  OBVIOUS
<1>3. \/ asked[r].step = "checked" /\ k.step = "answered"
      \/ /\ asked[r].step = "written" /\ k.step = "unlogged" /\ DOMAIN k = JobFields
         /\ k.id = asked[r].id /\ k.org = asked[r].org
  BY <1>1, <1>2 DEF RecordInv, JobsAreProper, JobIsProper, JobFields, Answered
<1>4. k.step \in {"written", "unlogged"} =>
        /\ DOMAIN k = JobFields /\ k.id \in DOMAIN rows /\ k.org = rows[k.id].org
        /\ ~InTransaction(rows[k.id].kind)
  BY <1>3 DEF RecordInv, JobsAreProper, JobIsProper
<1>5. /\ \A q \in Requests \ {r} : asked'[q] = asked[q]
      /\ asked'[r] = k
  BY <1>1, <1>2 DEF RecordInv, JobsAreProper
<1>6. Unlogged' = Unlogged
  BY <1>3, <1>5 DEF Unlogged
<1>7. \A q \in Unlogged : asked'[q].id = asked[q].id
  BY <1>3, <1>5 DEF Unlogged
<1>8. {Entry(q, asked[q].id) : q \in Unlogged}' = {Entry(q, asked[q].id) : q \in Unlogged}
  BY <1>1, <1>6, <1>7 DEF Entry
<1>9. (trail \cup {Entry(q, asked[q].id) : q \in Unlogged})
        = (trail \cup {Entry(q, asked[q].id) : q \in Unlogged})'
  BY <1>1, <1>8
<1>10. \A t \in trail' : t.request \in Requests /\ t.id \in DOMAIN rows
  BY <1>1 DEF RecordInv, RcTypeOK
<1>11. k.step # "checked" /\ asked' = [asked EXCEPT ![r] = k]
  BY <1>1, <1>2, <1>3
<1> QED BY <1>1, <1>4, <1>9, <1>10, <1>11, StandstillHolds

(* Every step of the registers keeps the invariant.                           *)
LEMMA RecordStepHolds == RecordInv /\ [RcNext]_rcVars => RecordInv'
<1> SUFFICES ASSUME RecordInv, [RcNext]_rcVars PROVE RecordInv'
  OBVIOUS
<1>1. ASSUME NEW r \in Requests,
             \/ Write(r) \/ LogWrite(r) \/ Fail(r)
             \/ asked[r] = Unasked /\ \E who \in Actors : Request(r, who)
      PROVE  RecordInv'
  BY <1>1, WriteHolds, LogWriteHolds, FailHolds, RequestHolds
<1>2. CASE UNCHANGED rcVars
  <2>1. rows' = rows /\ links' = links /\ trail' = trail /\ asked' = asked
    BY <1>2 DEF rcVars
  <2>2. JobsAreProper'
    BY <2>1 DEF RecordInv, JobsAreProper, JobIsProper, Proper, Real, Creates, Changes
  <2>3. AccountedFor'
    BY <2>1 DEF RecordInv, AccountedFor, Unlogged, Entry
  <2> QED BY <2>1, <2>2, <2>3 DEF RecordInv, RowsAreWhole, RcTypeOK
<1> QED BY <1>1, <1>2 DEF RcNext

(* THEOREM. Every state of the registers satisfies the invariant: whole rows, *)
(* proper jobs and a trail that accounts for every change.                    *)
THEOREM RecordInvariance == RcSpec => []RecordInv
<1>1. RcInit => RecordInv
  BY RecordInitHolds
<1>2. RecordInv /\ [RcNext]_rcVars => RecordInv'
  BY RecordStepHolds
<1> QED BY <1>1, <1>2, PTL DEF RcSpec

(* THEOREM. What links and audit entries refer to is there: no request names  *)
(* a row that the registers do not have.                                      *)
THEOREM RecordTypesHold == RcSpec => []RcTypeOK
<1>1. RecordInv => RcTypeOK
  BY DEF RecordInv
<1> QED BY <1>1, RecordInvariance, PTL

(* THEOREM. Whatever the interleaving and whichever statement fails, the      *)
(* trail of a tenant tells of its changes and of nothing else, but for the    *)
(* entries that routes and schedules still owe, and no link connects two      *)
(* tenants (the services' transactions with auditService.logEvent).           *)
THEOREM EveryChangeIsAccountedFor == RcSpec => []AccountedFor
<1>1. RecordInv => AccountedFor
  BY DEF RecordInv
<1> QED BY <1>1, RecordInvariance, PTL

--------------------------------------------------------------------------------
(* DailyAttendance. A row is locked by the submission that has written it     *)
(* until that one ends, so nobody writes over half a submission.              *)

(* How a submission that was not refused ends.                                *)
Done == {"committed", "logged", "unlogged"}

(* What the variables range over.                                             *)
DayTypes ==
  /\ register \in [Schedules ->
       [status : AttendanceStatus \cup {"none"}, by : Submissions \cup {"none"}]]
  /\ locks \in [Schedules -> Submissions \cup {"none"}]
  /\ taken \in [Submissions -> [step : {"none", "writing", "failed"} \cup Done,
       status : AttendanceStatus \cup {"none"},
       rows : SUBSET Schedules, todo : SUBSET Schedules]]
  /\ DaTypeOK

(* A row is locked by the transaction that has written it, until that one ends.    *)
LocksAreOfWriters ==
  \A r \in Submissions, s \in Schedules :
    locks[s] = r <=> taken[r].step = "writing" /\ s \in taken[r].rows \ taken[r].todo

(* The invariant of a day.                                                    *)
DayInv == DayTypes /\ LocksAreOfWriters /\ DayIsUniform

(* It holds before anyone submits.                                            *)
LEMMA DayInitHolds == DaInit => DayInv
  BY SubmissionAssumption DEF DaInit, DayInv, DayTypes, DaTypeOK, LocksAreOfWriters, DayIsUniform,
    NoRow, NotMade

(* Every step of every submission keeps the invariant.                        *)
LEMMA DayStepHolds == DayInv /\ [DaNext]_daVars => DayInv'
<1> SUFFICES ASSUME DayInv, [DaNext]_daVars PROVE DayInv'
  OBVIOUS
<1> USE SubmissionAssumption DEF DayInv
<1>1. ASSUME NEW s \in Schedules, Switch(s) PROVE DayInv'
  BY <1>1 DEF Switch, DayTypes, DaTypeOK, LocksAreOfWriters, DayIsUniform
<1>2. ASSUME NEW r \in Submissions, SubmitAttendance(r) PROVE DayInv'
  <2> USE <1>2 DEF SubmitAttendance
  <2>0. \E some \in RowsAskedFor, status \in AttendanceStatus :
          taken' = [taken EXCEPT ![r] =
            [step |-> "writing", status |-> status, rows |-> some, todo |-> some]]
    OBVIOUS
  <2>1. PICK some \in RowsAskedFor, status \in AttendanceStatus :
          taken' = [taken EXCEPT ![r] =
            [step |-> "writing", status |-> status, rows |-> some, todo |-> some]]
    BY <2>0
  <2>2. some \subseteq Schedules
    BY DEF RowsAskedFor, DayTypes, DaTypeOK
  <2>3. DayTypes'
    BY <2>1, <2>2 DEF DayTypes, DaTypeOK
  <2>4. \A s \in Schedules : locks[s] # r /\ register[s].by # r
    BY DEF LocksAreOfWriters, DayIsUniform, NotMade
  <2>5. LocksAreOfWriters' /\ DayIsUniform'
    BY <2>1, <2>4 DEF DayTypes, LocksAreOfWriters, DayIsUniform
  <2> QED
    BY <2>3, <2>5
<1>3. ASSUME NEW r \in Submissions, NEW s \in Schedules, WriteRow(r, s) PROVE DayInv'
  <2> USE <1>3 DEF WriteRow, Upsert
  <2>1. DayTypes'
    BY SMTT(20) DEF DayTypes, DaTypeOK
  <2>2. /\ \A q \in Submissions : q # r => taken'[q] = taken[q]
        /\ taken'[r].step = "writing" /\ taken'[r].rows = taken[r].rows
        /\ taken'[r].todo = taken[r].todo \ {s}
        /\ \A t \in Schedules : locks'[t] = IF t = s THEN r ELSE locks[t]
    BY DEF DayTypes
  <2>3. s \in taken[r].rows
    BY DEF DayTypes, DaTypeOK
  <2>4. ASSUME NEW q \in Submissions, NEW t \in Schedules
        PROVE  locks'[t] = q <=> taken'[q].step = "writing" /\ t \in taken'[q].rows \ taken'[q].todo
    <3>1. CASE q = r
      BY <2>2, <2>3, <3>1 DEF LocksAreOfWriters
    <3>2. CASE q # r
      BY <2>2, <3>2 DEF LocksAreOfWriters
    <3> QED
      BY <3>1, <3>2
  <2>5. LocksAreOfWriters'
    BY <2>4 DEF LocksAreOfWriters
  <2>6. DayIsUniform'
    BY <2>2 DEF DayIsUniform
  <2> QED
    BY <2>1, <2>5, <2>6
<1>4. ASSUME NEW r \in Submissions, CommitRows(r) PROVE DayInv'
  <2> USE <1>4 DEF CommitRows
  <2>1. \A s \in Schedules : s \in Written(r) <=> s \in taken[r].rows
    BY DEF Written, LocksAreOfWriters
  <2>2. DayTypes'
    BY DEF DayTypes, DaTypeOK, Done, Release
  <2>4. LocksAreOfWriters'
    BY DEF DayTypes, LocksAreOfWriters, Release
  <2>3. DayIsUniform'
    BY <2>1 DEF DayTypes, DayIsUniform
  <2> QED
    BY <2>2, <2>3, <2>4
<1>5. ASSUME NEW r \in Submissions, RollBack(r) PROVE DayInv'
  <2> USE <1>5 DEF RollBack, Release
  <2>1. DayTypes'
    BY DEF DayTypes, DaTypeOK, Done
  <2>2. LocksAreOfWriters' /\ DayIsUniform'
    BY DEF DayTypes, LocksAreOfWriters, DayIsUniform
  <2> QED
    BY <2>1, <2>2
<1>6. ASSUME NEW r \in Submissions, LogAttendance(r) PROVE DayInv'
  <2> USE <1>6 DEF LogAttendance
  <2>1. DayTypes'
    BY DEF DayTypes, DaTypeOK, Done
  <2>2. LocksAreOfWriters' /\ DayIsUniform'
    BY DEF DayTypes, LocksAreOfWriters, DayIsUniform
  <2> QED
    BY <2>1, <2>2
<1>7. CASE UNCHANGED daVars
  BY <1>7 DEF daVars, DayTypes, DaTypeOK, LocksAreOfWriters, DayIsUniform
<1> QED
  BY <1>1, <1>2, <1>3, <1>4, <1>5, <1>6, <1>7 DEF DaNext

(* THEOREM. The rows of one student and day that are no transaction's are all *)
(* of one submission, whichever submissions overlap, deadlock or fail half-   *)
(* way (attendance.service.ts).                                               *)
THEOREM RegisterIsUniform == DaSpec => []DayIsUniform
<1>1. DayInv => DayIsUniform
  BY DEF DayInv
<1> QED
  BY DayInitHolds, DayStepHolds, <1>1, PTL DEF DaSpec

--------------------------------------------------------------------------------
(* Preferences. Decisions are recent, for any day, time to live, duration of  *)
(* a query, number of requests and any preferences. The argument follows a    *)
(* row from the query that read it: it was in force when the query began, and *)
(* neither the entry it becomes nor the decision it leads to is older than    *)
(* their times allow.                                                         *)

Row == [pref : Preference, until : Int]

(* Was row i in force at this time or later?                                      *)
InForceSince(i, time) == row[i].until = Never \/ row[i].until >= time

(* Every row but the last has been replaced, no later than now.                   *)
Rows ==
  /\ row \in Seq(Row) /\ Len(row) \in Nat \ {0}
  /\ row[Missing].pref = Defaults /\ row[Len(row)].until = Never
  /\ \A i \in 1 .. Len(row) : row[i].until = Never \/ row[i].until \in 0 .. minute

(* A request's query began at most MaxQuery ago, and what it read was in force    *)
(* then or later.                                                                 *)
ReadingOK(r) ==
  /\ reading[r].kind = "none" => reading[r] = NoQuery
  /\ reading[r].kind # "none" =>
       reading[r].since \in 0 .. minute /\ minute <= reading[r].since + MaxQuery
  /\ reading[r].version # Never =>
       /\ reading[r].kind # "none" /\ reading[r].version \in 1 .. Len(row)
       /\ InForceSince(reading[r].version, reading[r].since)

Readings ==
  /\ reading \in [Readers -> [kind : {"none", "many", "one", "update"},
                              since : Int, version : Int]]
  /\ \A r \in Readers : ReadingOK(r)

(* The entry's row was in force CacheTtl and MaxQuery before it expires.          *)
EntryOK ==
  /\ memo \in [version : Int, expires : Int]
  /\ memo # NoEntry =>
       /\ memo.version \in 1 .. Len(row) /\ memo.version # Missing
       /\ memo.expires <= minute + CacheTtl
       /\ InForceSince(memo.version, memo.expires - CacheTtl - MaxQuery)

(* The invariant of the preferences.                                          *)
PreferenceInv == minute \in Nat /\ Rows /\ Readings /\ EntryOK /\ DecisionsAreRecent

--------------------------------------------------------------------------------
(* On the clock, a time and the same time a day earlier or later are one.         *)
LEMMA RoundTheClock ==
  ASSUME NEW now \in 0 .. DayLength - 1, NEW x \in Int,
         x = now \/ x = now + DayLength \/ x = now - DayLength
  PROVE  x % DayLength = now
<1> USE PreferenceAssumption
<1>1. CASE x = now
  BY <1>1
<1>2. CASE x = now + DayLength
  BY <1>2
<1>3. CASE x = now - DayLength
  BY <1>3
<1> QED
  BY <1>1, <1>2, <1>3

(* What the code compares is the arc of the clock from start to end.              *)
LEMMA QuietIsArc ==
  ASSUME NEW pref \in Preference, NEW now \in 0 .. DayLength - 1
  PROVE  IsQuietHours(pref, now) <=> now \in QuietMinutes(pref)
<1> DEFINE first == pref.start
           last == pref.end
           long == IF first <= last THEN last - first ELSE last - first + DayLength
<1>1. first \in 0 .. DayLength - 1 /\ last \in 0 .. DayLength - 1
  BY DEF Preference
<1>2. (last - first) % DayLength = long
  <2> HIDE DEF first, last
  <2>1. long \in 0 .. DayLength - 1 /\ last - first \in Int
    BY <1>1, PreferenceAssumption
  <2>2. last - first = long \/ last - first = long - DayLength
    BY <1>1, PreferenceAssumption
  <2> HIDE DEF long
  <2> QED
    BY <2>1, <2>2, RoundTheClock
<1>3. QuietMinutes(pref) =
        IF pref.quiet THEN {(first + i) % DayLength : i \in 0 .. long} ELSE {}
  BY <1>2 DEF QuietMinutes
<1>4. IsQuietHours(pref, now) <=>
        pref.quiet /\ IF first <= last THEN now >= first /\ now <= last
                      ELSE now >= first \/ now <= last
  BY DEF IsQuietHours
<1> HIDE DEF first, last
<1>5. ASSUME IF first <= last THEN now >= first /\ now <= last
             ELSE now >= first \/ now <= last
      PROVE  \E i \in 0 .. long : now = (first + i) % DayLength
  <2> DEFINE i == IF now >= first THEN now - first ELSE now - first + DayLength
  <2>1. i \in 0 .. long /\ first + i \in Int /\ (first + i = now \/ first + i = now + DayLength)
    BY <1>1, <1>5, PreferenceAssumption
  <2> HIDE DEF i
  <2>2. (first + i) % DayLength = now
    BY <2>1, RoundTheClock
  <2> QED
    BY <2>1, <2>2
<1>6. ASSUME NEW i \in 0 .. long, now = (first + i) % DayLength
      PROVE  IF first <= last THEN now >= first /\ now <= last
             ELSE now >= first \/ now <= last
  <2> DEFINE same == IF first + i < DayLength THEN first + i ELSE first + i - DayLength
  <2>1. /\ same \in 0 .. DayLength - 1 /\ first + i \in Int
        /\ first + i = same \/ first + i = same + DayLength
    BY <1>1, PreferenceAssumption
  <2>2. same = now
    <3> HIDE DEF same
    <3> QED
      BY <2>1, <1>6, RoundTheClock
  <2> QED
    BY <2>2, <1>1, PreferenceAssumption
<1> HIDE DEF long
<1> QED
  BY <1>3, <1>4, <1>5, <1>6

--------------------------------------------------------------------------------
(* The rows of the history one by one.                                             *)
LEMMA RowsAreRows ==
  ASSUME Rows
  PROVE  /\ DOMAIN row = 1 .. Len(row)
         /\ \A i \in 1 .. Len(row) :
              row[i] \in Row /\ row[i].pref \in Preference /\ row[i].until \in Int
<1>1. \A i \in 1 .. Len(row) : row[i] \in Row
  BY ElementOfSeq DEF Rows
<1> QED
  BY <1>1, LenProperties DEF Rows, Row

(* Where nothing is decided nothing is stale.                                      *)
LEMMA SilenceIsRecent == ASSUME Silent PROVE DecisionsAreRecent'
  BY DEF Silent, NoVerdict, DecisionsAreRecent

(* A decision by a row that was in force late enough is what the row wants.       *)
LEMMA DecisionIsRecent ==
  ASSUME PreferenceInv, UNCHANGED <<minute, row>>, NEW version \in 1 .. Len(row),
         InForceSince(version, minute - CacheTtl - MaxQuery), DecideSend(version)
  PROVE  DecisionsAreRecent'
<1> USE PreferenceAssumption
<1>1. PICK channel \in Channels, urgent \in BOOLEAN :
        verdict' = [at |-> minute, channel |-> channel, urgent |-> urgent,
                    send |-> ShouldSend(version, channel, urgent, minute % DayLength)]
  BY DEF DecideSend
<1>2. version \in DOMAIN row /\ row[version].pref \in Preference
  BY RowsAreRows DEF PreferenceInv
<1>3. version \in InForce(CacheTtl + MaxQuery)'
  BY <1>1, <1>2 DEF InForce, InForceSince, PreferenceInv, Rows
<1>4. verdict'.send = ShouldSend(version, channel, urgent, minute % DayLength)
  BY <1>1
<1>5. Wanted(row[version].pref)' <=>
        \/ urgent /\ row[version].pref.override
        \/ /\ channel \in row[version].pref.enabled
           /\ ~IsQuietHours(row[version].pref, minute % DayLength)
  <2>1. minute % DayLength \in 0 .. DayLength - 1
    BY DEF PreferenceInv
  <2>2. verdict'.at % DayLength \notin QuietMinutes(row[version].pref)'
          <=> ~IsQuietHours(row[version].pref, minute % DayLength)
    BY <1>1, <1>2, <2>1, QuietIsArc DEF QuietMinutes
  <2> QED
    BY <1>1, <2>2 DEF Wanted
<1>6. version = Missing =>
        (ShouldSend(version, channel, urgent, minute % DayLength) <=> Wanted(row[version].pref)')
  BY <1>1, <1>5 DEF ShouldSend, PreferenceInv, Rows, Defaults, Channels, IsQuietHours
<1>7. version # Missing =>
        (ShouldSend(version, channel, urgent, minute % DayLength) <=> Wanted(row[version].pref)')
  BY <1>5 DEF ShouldSend
<1>8. ShouldSend(version, channel, urgent, minute % DayLength) \in BOOLEAN
  BY <1>2 DEF ShouldSend, Preference
<1>9. Wanted(row[version].pref)' \in BOOLEAN
  BY DEF Wanted
<1> QED
  BY <1>3, <1>4, <1>6, <1>7, <1>8, <1>9 DEF DecisionsAreRecent

(* A change adds a row; the others were in force until now at least.              *)
LEMMA RowGrows ==
  ASSUME PreferenceInv, UNCHANGED minute, NEW pref \in Options, ChangeRow(pref)
  PROVE  /\ Rows' /\ Len(row') = Len(row) + 1
         /\ \A i \in 1 .. Len(row), time \in Int :
              time <= minute /\ InForceSince(i, time) => InForceSince(i, time)'
<1> USE PreferenceAssumption DEF PreferenceInv, Rows
<1> DEFINE closed == [i \in 1 .. Len(row) |-> IF row[i].until = Never
                        THEN [row[i] EXCEPT !.until = minute] ELSE row[i]]
           new == [pref |-> pref, until |-> Never]
<1>1. closed \in [1 .. Len(row) -> Row] /\ \A i \in 1 .. Len(row) :
        /\ closed[i].pref = row[i].pref
        /\ closed[i].until = IF row[i].until = Never THEN minute ELSE row[i].until
  BY RowsAreRows, SMTT(20) DEF Row
<1>2. closed \in Seq(Row) /\ Len(closed) = Len(row)
  <2> HIDE DEF closed
  <2> QED
    BY <1>1
<1>3. new \in Row
  BY DEF Never, Row
<1>4. row' = Append(closed, new)
  BY RowsAreRows DEF ChangeRow
<1> HIDE DEF closed, new
<1>5. /\ row' \in Seq(Row) /\ Len(row') = Len(row) + 1 /\ row'[Len(row')] = new
      /\ \A i \in 1 .. Len(row) : row'[i] = closed[i]
  BY <1>2, <1>3, <1>4, AppendProperties
<1>6. Rows'
  <2>1. row'[Len(row')].until = Never /\ row'[Missing].pref = Defaults
    BY <1>1, <1>5 DEF Missing, new
  <2>2. ASSUME NEW i \in 1 .. Len(row')
        PROVE  row'[i].until = Never \/ row'[i].until \in 0 .. minute
    <3>1. CASE i = Len(row')
      BY <3>1, <2>1
    <3>2. CASE i \in 1 .. Len(row)
      <4>1. row'[i].until = IF row[i].until = Never THEN minute ELSE row[i].until
        BY <1>1, <1>5, <3>2
      <4> QED
        BY <4>1, <3>2
    <3> QED
      BY <3>1, <3>2, <1>5, <2>2
  <2> QED
    BY <1>5, <2>1, <2>2
<1> QED
  BY <1>1, <1>5, <1>6 DEF InForceSince

(* A query that begins has read nothing yet.                                      *)
LEMMA QueryBegins ==
  ASSUME PreferenceInv, UNCHANGED <<minute, row>>, NEW r \in Readers,
         NEW kind \in {"many", "one", "update"}, StartQuery(r, kind)
  PROVE  Readings'
<1> DEFINE new == [kind |-> kind, since |-> minute, version |-> Never]
<1>1. /\ new \in [kind : {"none", "many", "one", "update"}, since : Int, version : Int]
      /\ new.kind = kind /\ new.since = minute /\ new.version = Never
  BY DEF Never, PreferenceInv
<1>2. reading' = [reading EXCEPT ![r] = new]
  BY DEF StartQuery
<1> HIDE DEF new
<1>3. ReadingOK(r)'
  <2>1. reading'[r] = new
    BY <1>2 DEF PreferenceInv, Readings
  <2> QED
    BY <1>1, <2>1, PreferenceAssumption DEF PreferenceInv, ReadingOK
<1>4. ASSUME NEW q \in Readers \ {r} PROVE ReadingOK(q)'
  <2>1. reading'[q] = reading[q]
    BY <1>2 DEF PreferenceInv, Readings
  <2> QED
    BY <2>1 DEF PreferenceInv, Readings, ReadingOK, InForceSince
<1> QED
  BY <1>1, <1>2, <1>3, <1>4 DEF PreferenceInv, Readings

--------------------------------------------------------------------------------
(* At first nothing has been read or decided.                                     *)
LEMMA PreferenceInitHolds == PfInit => PreferenceInv
<1> SUFFICES ASSUME PfInit PROVE PreferenceInv
  OBVIOUS
<1> USE PreferenceAssumption DEF PfInit, Never
<1>1. Rows
  <2>1. Defaults \in Preference
    BY DEF Defaults, Preference, Channels
  <2> DEFINE first == [pref |-> Defaults, until |-> Never]
  <2>2. first \in Row /\ first.pref = Defaults /\ first.until = Never
    BY <2>1 DEF Row
  <2>3. row = <<first>>
    OBVIOUS
  <2> HIDE DEF first
  <2>4. row \in Seq(Row) /\ Len(row) = 1 /\ row[1] = first
    BY <2>2, <2>3
  <2> QED
    BY <2>2, <2>4 DEF Rows, Missing
<1>2. Readings
  BY DEF Readings, ReadingOK, NoQuery
<1>3. EntryOK /\ DecisionsAreRecent
  BY DEF EntryOK, NoEntry, NoVerdict, DecisionsAreRecent
<1> QED
  BY <1>1, <1>2, <1>3 DEF PreferenceInv

(* Every look, query, answer and change, and time, keeps it.                      *)
LEMMA PreferenceStepHolds == PreferenceInv /\ [PfNext]_pfVars => PreferenceInv'
<1> SUFFICES ASSUME PreferenceInv, [PfNext]_pfVars PROVE PreferenceInv'
  OBVIOUS
<1> USE PreferenceAssumption DEF PreferenceInv
<1> DEFINE Query0 == [kind : {"none", "many", "one", "update"}, since : Int, version : Int]
<1>0. /\ \A r \in Readers : reading[r] \in Query0 /\ ReadingOK(r)
      /\ NoQuery \in Query0
  BY DEF Readings, NoQuery, Never
<1>1. ASSUME NEW r \in Readers, NEW kind \in {"many", "one"}, Look(r, kind) PROVE PreferenceInv'
  <2> USE <1>1 DEF Look
  <2>1. Rows' /\ EntryOK'
    BY DEF Rows, EntryOK, InForceSince
  <2>2. CASE StillFresh /\ DecideSend(memo.version) /\ UNCHANGED reading
    <3>1. /\ memo.version \in 1 .. Len(row)
          /\ InForceSince(memo.version, memo.expires - CacheTtl - MaxQuery)
          /\ memo.expires > minute /\ memo.expires \in Int
      BY <2>2 DEF StillFresh, EntryOK
    <3>2. InForceSince(memo.version, minute - CacheTtl - MaxQuery)
      BY <3>1, RowsAreRows DEF InForceSince
    <3>3. DecisionsAreRecent'
      BY <3>1, <3>2, <2>2, DecisionIsRecent
    <3>4. Readings'
      BY <2>2 DEF Readings, ReadingOK, InForceSince
    <3> QED
      BY <2>1, <3>3, <3>4
  <2>3. CASE ~StillFresh /\ StartQuery(r, kind) /\ Silent
    <3>1. Readings'
      BY <2>3, QueryBegins
    <3> QED
      BY <2>1, <2>3, <3>1, SilenceIsRecent
  <2> QED
    BY <2>2, <2>3
<1>2. ASSUME NEW r \in Readers, UpdatePreferences(r) PROVE PreferenceInv'
  <2> USE <1>2 DEF UpdatePreferences
  <2>1. Rows' /\ EntryOK'
    BY DEF Rows, EntryOK, InForceSince
  <2>2. Readings'
    BY QueryBegins
  <2> QED
    BY <2>1, <2>2, SilenceIsRecent
<1>3. ASSUME NEW pref \in Options, ChangeRow(pref), UNCHANGED <<minute, memo>>
      PROVE  /\ Rows' /\ EntryOK'
             /\ UNCHANGED reading => Readings'
  <2>1. /\ Rows' /\ Len(row') = Len(row) + 1
        /\ \A i \in 1 .. Len(row), time \in Int :
             time <= minute /\ InForceSince(i, time) => InForceSince(i, time)'
    BY <1>3, RowGrows
  <2>2. Len(row) \in Nat
    BY DEF Rows
  <2>3. EntryOK'
    <3>1. CASE memo = NoEntry
      BY <1>3, <3>1 DEF EntryOK
    <3>2. CASE memo # NoEntry
      <4>1. /\ memo.version \in 1 .. Len(row) /\ memo.expires <= minute + CacheTtl
            /\ memo.expires \in Int
            /\ InForceSince(memo.version, memo.expires - CacheTtl - MaxQuery)
        BY <3>2 DEF EntryOK
      <4>2. InForceSince(memo.version, memo.expires - CacheTtl - MaxQuery)'
        BY <4>1, <2>1, <1>3, SMTT(20) DEF InForceSince
      <4> QED
        BY <4>1, <4>2, <2>1, <2>2, <1>3 DEF EntryOK
    <3> QED
      BY <3>1, <3>2
  <2>4. ASSUME UNCHANGED reading PROVE Readings'
    BY <1>0, <1>3, <2>1, <2>2, <2>4 DEF Readings, ReadingOK, InForceSince
  <2> QED
    BY <2>1, <2>3, <2>4
<1>4. ASSUME NEW pref \in Options, ChangeElsewhere(pref) PROVE PreferenceInv'
  BY <1>3, <1>4, SilenceIsRecent DEF ChangeElsewhere
<1>5. ASSUME NEW r \in Readers, Query(r) PROVE PreferenceInv'
  <2> USE <1>5 DEF Query
  <2>1. \A q \in Readers \ {r} : reading'[q] = reading[q]
    BY <1>0
  <2>2. /\ reading[r].kind # "none" /\ reading[r].since \in 0 .. minute
        /\ minute <= reading[r].since + MaxQuery
        /\ reading' \in [Readers -> Query0]
        /\ reading'[r].kind = reading[r].kind /\ reading'[r].since = reading[r].since
        /\ reading'[r].version = Len(row')
    <3>1. Len(row') \in Int
      <4>1. CASE UNCHANGED row
        BY <4>1 DEF Rows
      <4>2. ASSUME NEW pref \in Options, ChangeRow(pref) PROVE Len(row') \in Int
        BY <4>2, RowGrows DEF Rows
      <4> QED
        BY <4>1, <4>2
    <3> QED
      BY <1>0, <3>1 DEF Readings, ReadingOK
  <2>3. ASSUME /\ Rows' /\ EntryOK' /\ Len(row) \in Nat /\ Len(row') >= Len(row)
               /\ \A i \in 1 .. Len(row), time \in Int :
                    time <= minute /\ InForceSince(i, time) => InForceSince(i, time)'
        PROVE  PreferenceInv'
    <3>1. ASSUME NEW q \in Readers \ {r} PROVE ReadingOK(q)'
      <4>1. reading'[q] = reading[q] /\ reading[q] \in Query0 /\ ReadingOK(q)
        BY <1>0, <2>1
      <4>2. reading[q].version # Never =>
              /\ reading[q].version \in 1 .. Len(row)
              /\ InForceSince(reading[q].version, reading[q].since)'
        BY <4>1, <2>3 DEF ReadingOK
      <4>3. Len(row') \in Nat
        BY <2>3 DEF Rows
      <4> QED
        BY <4>1, <4>2, <4>3, <2>3 DEF ReadingOK, InForceSince
    <3>2. ReadingOK(r)'
      BY <2>2, <2>3 DEF ReadingOK, InForceSince, Rows
    <3> QED
      BY <2>2, <2>3, <3>1, <3>2, SilenceIsRecent DEF Readings
  <2>4. CASE reading[r].kind = "update"
    <3>1. PICK pref \in Options : ChangeRow(pref)
      BY <2>4
    <3> QED
      BY <1>3, <2>3, <3>1, RowGrows DEF Rows
  <2>5. CASE reading[r].kind # "update"
    <3>1. Rows' /\ EntryOK' /\ Len(row) \in Nat /\ row' = row
      BY <2>5 DEF Rows, EntryOK, InForceSince
    <3> QED
      BY <2>3, <3>1 DEF InForceSince
  <2> QED
    BY <2>4, <2>5
<1>6. ASSUME NEW r \in Readers, AnswerArrives(r) PROVE PreferenceInv'
  <2> USE <1>6 DEF AnswerArrives
  <2> DEFINE version == reading[r].version
  <2>1. /\ reading[r].since \in 0 .. minute /\ minute <= reading[r].since + MaxQuery
        /\ version \in 1 .. Len(row) /\ InForceSince(version, reading[r].since)
    BY <1>0 DEF ReadingOK
  <2>2. Rows' /\ row[version].until \in Int
    BY <2>1, RowsAreRows DEF Rows
  <2>3. EntryOK'
    <3>1. CASE version = Missing
      BY <3>1 DEF EntryOK, InForceSince
    <3>2. CASE version # Missing
      <4>1. /\ memo' = [version |-> version, expires |-> Expiry(r)]
            /\ Expiry(r) \in Int /\ Expiry(r) <= minute + CacheTtl
            /\ Expiry(r) - CacheTtl - MaxQuery <= reading[r].since
        BY <2>1, <3>2, SMTT(20) DEF Expiry
      <4>2. InForceSince(version, Expiry(r) - CacheTtl - MaxQuery)
        BY <2>1, <2>2, <4>1, SMTT(20) DEF InForceSince
      <4> HIDE DEF version
      <4> QED
        BY <2>1, <3>2, <4>1, <4>2 DEF EntryOK, InForceSince
    <3> QED
      BY <3>1, <3>2
  <2>4. Readings'
    BY <1>0 DEF Readings, ReadingOK, InForceSince, NoQuery
  <2>5. DecisionsAreRecent'
    <3>1. InForceSince(version, minute - CacheTtl - MaxQuery)
      BY <2>1, <2>2 DEF InForceSince
    <3> QED
      BY <2>1, <3>1, DecisionIsRecent, SilenceIsRecent
  <2> QED
    BY <2>2, <2>3, <2>4, <2>5
<1>7. ASSUME NEW r \in Readers, PreferenceQueryFails(r) PROVE PreferenceInv'
  <2> USE <1>7 DEF PreferenceQueryFails
  <2>1. Rows' /\ EntryOK'
    BY DEF Rows, EntryOK, InForceSince
  <2>2. Readings'
    BY <1>0 DEF Readings, ReadingOK, InForceSince, NoQuery
  <2> QED
    BY <2>1, <2>2, SilenceIsRecent
<1>8. CASE InvalidateCache
  <2>1. Rows' /\ Readings'
    BY <1>8 DEF InvalidateCache, Rows, Readings, ReadingOK, InForceSince
  <2>2. EntryOK'
    BY <1>8 DEF InvalidateCache, EntryOK, NoEntry, Never
  <2> QED
    BY <1>8, <2>1, <2>2, SilenceIsRecent DEF InvalidateCache
<1>9. CASE MinutePasses
  <2> USE <1>9 DEF MinutePasses
  <2>1. Rows' /\ EntryOK'
    BY DEF Rows, EntryOK, InForceSince
  <2>2. Readings'
    BY <1>0 DEF Readings, ReadingOK, InForceSince, NoQuery
  <2> QED
    BY <2>1, <2>2, SilenceIsRecent
<1>10. CASE UNCHANGED pfVars
  <2>1. Rows' /\ EntryOK' /\ Readings'
    BY <1>10 DEF pfVars, Rows, EntryOK, Readings, ReadingOK, InForceSince
  <2>2. /\ InForce(CacheTtl + MaxQuery)' = InForce(CacheTtl + MaxQuery)
        /\ \A i \in DOMAIN row : Wanted(row[i].pref)' = Wanted(row[i].pref)
    BY <1>10 DEF pfVars, InForce, Wanted, QuietMinutes
  <2>3. DecisionsAreRecent'
    BY <1>10, <2>2 DEF pfVars, DecisionsAreRecent, InForce
  <2> QED
    BY <1>10, <2>1, <2>3 DEF pfVars
<1> QED
  BY <1>1, <1>2, <1>4, <1>5, <1>6, <1>7, <1>8, <1>9, <1>10
    DEF PfNext, GetManyPreferences, GetPreferences

(* PROVED. A decision is what preferences in force in the last CacheTtl minutes,  *)
(* but for the time a query takes, want, however reads, updates, changes in other *)
(* processes and expiries interleave, whatever the user chooses.                  *)
THEOREM PreferencesAreRecent == PfSpec => []DecisionsAreRecent
<1>1. PreferenceInv => DecisionsAreRecent
  BY DEF PreferenceInv
<1> QED
  BY <1>1, PreferenceInitHolds, PreferenceStepHolds, PTL DEF PfSpec
================================================================================
