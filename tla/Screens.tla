----------------------------------- MODULE Screens -----------------------------------
(* What a page of the browser shows of a resource. The hooks under hooks/ keep   *)
(* the answers of the server in React Query's cache, one entry per view, and     *)
(* after a change of their own they invalidate the views it concerns. A fetch    *)
(* may be on its way when that happens.                                          *)
(*                                                                              *)
(* The entries of a cache do not influence one another: a behaviour is about one *)
(* view of one resource, and a detail view and a change are about the same row.  *)
(* The contents of a view are the number of changes the server had made when it  *)
(* read them.                                                                    *)
EXTENDS Integers

CONSTANTS
  MaxVersions    \* BOUND: changes the server makes

(* The bound is a number.                                                       *)
ASSUME ScreenAssumption == MaxVersions \in Nat

VARIABLES
  view,       \* the resource and the view of it
  version,    \* the changes made on the server
  entry,      \* the view's entry in the cache
  mutation,   \* the change this browser is making
  due         \* what the view owes the user, see ChangeSucceeds

scVars == <<view, version, entry, mutation, due>>

-----------------------------------------------------------------------------------
(* MUTANT of Crud: the page of one row is not fetched anew after an update.     *)
CrudOfLists ==
  [views |-> {"list", "detail"}, polls |-> {}, cancels |-> FALSE,
   on |-> [create |-> {"list"}, update |-> {"list"}, delete |-> {"list"}]]

(* The views of a resource, those a successful create, update or delete         *)
(* invalidates, those that poll, and whether a change first cancels the fetches. *)
Crud ==
  [views |-> {"list", "detail"}, polls |-> {}, cancels |-> FALSE,
   on |-> [create |-> {"list"}, update |-> {"list", "detail"}, delete |-> {"list"}]]

UserHooks == Crud
DriverHooks == Crud
VehicleHooks == Crud
RouteHooks == Crud
OrganizationHooks == Crud

(* The list of a parent's children is not invalidated.                          *)
StudentHooks == [Crud EXCEPT !.views = @ \cup {"children"}]

(* The key of the pings starts with that of the detail.                         *)
TripHooks ==
  [Crud EXCEPT !.views = @ \cup {"pings", "active"}, !.polls = {"pings"},
     !.on = [create |-> {"list"}, update |-> {"list", "detail", "pings", "active"}]]

EmergencyHooks ==
  [Crud EXCEPT !.polls = {"list"},
     !.on = [create |-> {"list"}, update |-> {"list", "detail"}]]

(* Attendance by trip and by student; logging is an update of both.             *)
AttendanceHooks ==
  [Crud EXCEPT !.views = {"trip", "student"}, !.on = [update |-> {"trip", "student"}]]

NotificationHooks ==
  [Crud EXCEPT !.views = {"list"}, !.cancels = TRUE, !.on = [update |-> {"list"}]]

GeofenceHooks ==
  [Crud EXCEPT !.views = {"list"},
     !.on = [create |-> {"list"}, update |-> {"list"}, delete |-> {"list"}]]

AlertHooks ==
  [Crud EXCEPT !.views = {"list"}, !.polls = {"list"}, !.on = [update |-> {"list"}]]

SubscriptionHooks ==
  [Crud EXCEPT !.views = {"list"}, !.on = [create |-> {"list"}, delete |-> {"list"}]]

ExecutionHooks ==
  [Crud EXCEPT !.views = {"list"}, !.polls = {"list"}, !.on = [create |-> {"list"}]]

Hooks ==
  [users |-> UserHooks, drivers |-> DriverHooks, vehicles |-> VehicleHooks,
   routes |-> RouteHooks, organizations |-> OrganizationHooks, students |-> StudentHooks,
   trips |-> TripHooks, emergencies |-> EmergencyHooks, attendance |-> AttendanceHooks,
   notifications |-> NotificationHooks, geofences |-> GeofenceHooks, alerts |-> AlertHooks,
   subscriptions |-> SubscriptionHooks, executions |-> ExecutionHooks]

Mine == Hooks[view.of]

-----------------------------------------------------------------------------------
None == -1
Idle == -2     \* no fetch
Asked == -1    \* sent, and not read on the server yet; then the version read
Empty == [data |-> None, stale |-> TRUE, fetch |-> Idle, mounted |-> FALSE]
Resting == [op |-> "none", at |-> None]

NoView == [of |-> "nothing", name |-> "nothing"]

ScInit ==
  /\ view = NoView /\ version = 0
  /\ entry = Empty /\ mutation = Resting /\ due = 0

(* The view the behaviour is about.                                             *)
Watch ==
  /\ view = NoView
  /\ \E of \in DOMAIN Hooks : \E name \in Hooks[of].views :
       view' = [of |-> of, name |-> name]
  /\ UNCHANGED <<version, entry, mutation, due>>

Becomes(e) == entry' = e

Mount ==
  /\ ~entry.mounted
  /\ Becomes([entry EXCEPT !.mounted = TRUE,
              !.fetch = IF entry.stale /\ @ = Idle THEN Asked ELSE @])
  /\ UNCHANGED <<view, version, mutation, due>>

(* The fetch goes on without the page.                                          *)
Unmount ==
  /\ entry.mounted /\ Becomes([entry EXCEPT !.mounted = FALSE])
  /\ UNCHANGED <<view, version, mutation, due>>

(* An entry nobody uses is dropped in the end.                                  *)
Collect ==
  /\ ~entry.mounted /\ entry.fetch = Idle /\ entry # Empty
  /\ Becomes(Empty) /\ UNCHANGED <<view, version, mutation, due>>

(* staleTime is over: the next mount fetches.                                   *)
GrowStale ==
  /\ ~entry.stale /\ Becomes([entry EXCEPT !.stale = TRUE])
  /\ UNCHANGED <<view, version, mutation, due>>

(* refetchInterval.                                                             *)
Poll ==
  /\ entry.mounted /\ entry.fetch = Idle /\ view.name \in Mine.polls
  /\ Becomes([entry EXCEPT !.fetch = Asked])
  /\ UNCHANGED <<view, version, mutation, due>>

FetchRead ==
  /\ entry.fetch = Asked /\ Becomes([entry EXCEPT !.fetch = version])
  /\ UNCHANGED <<view, version, mutation, due>>

FetchArrives ==
  /\ entry.fetch \notin {Idle, Asked}
  /\ Becomes([entry EXCEPT !.data = entry.fetch, !.stale = FALSE, !.fetch = Idle])
  /\ UNCHANGED <<view, version, mutation, due>>

(* The fetch fails; it is tried once more or given up.                          *)
FetchFails ==
  /\ entry.fetch # Idle
  /\ \E next \in {Asked, Idle} : Becomes([entry EXCEPT !.fetch = next])
  /\ UNCHANGED <<view, version, mutation, due>>

-----------------------------------------------------------------------------------
(* invalidateQueries: a mounted view is fetched anew, in place of a fetch on its *)
(* way unless that is the first one.                                            *)
Invalidated ==
  [entry EXCEPT !.stale = TRUE,
     !.fetch = IF ~entry.mounted \/ (@ # Idle /\ entry.data = None) THEN @ ELSE Asked]

(* The fetch on its way will end as if nothing had happened.                    *)
Outlives == entry.fetch # Idle /\ (~entry.mounted \/ entry.data = None)

(* onMutate of a notification marked as read; marking all does not cancel.      *)
Cancelled == [entry EXCEPT !.fetch = Idle]

SubmitChange(op) ==
  /\ mutation = Resting /\ op \in DOMAIN Mine.on
  /\ mutation' = [op |-> op, at |-> None]
  /\ Becomes(entry) \/ (Mine.cancels /\ Becomes(Cancelled))
  /\ UNCHANGED <<view, version, due>>

ChangeCommits ==
  /\ mutation.op # "none" /\ mutation.at = None /\ version < MaxVersions
  /\ version' = version + 1 /\ mutation' = [mutation EXCEPT !.at = version']
  /\ UNCHANGED <<view, entry, due>>

(* Somebody else's change.                                                      *)
ChangeElsewhere ==
  /\ version < MaxVersions /\ version' = version + 1
  /\ UNCHANGED <<view, entry, mutation, due>>

(* The views the user expects to see the change in.                             *)
Concerned(op) == IF op = "update" THEN Mine.views \ {"children"} ELSE {"list"}

(* onSuccess. The view owes the change to the user from now on, but for one in  *)
(* the way of which there is a fetch that outlives the invalidation.            *)
ChangeSucceeds ==
  /\ mutation.at # None /\ mutation' = Resting
  /\ Becomes(IF view.name \in Mine.on[mutation.op] THEN Invalidated ELSE entry)
  /\ due' = IF view.name \in Concerned(mutation.op) /\ ~Outlives THEN mutation.at ELSE due
  /\ UNCHANGED <<view, version>>

(* onError: refused, or the answer is lost. Nothing is invalidated.             *)
ChangeFails ==
  /\ mutation # Resting /\ mutation' = Resting
  /\ UNCHANGED <<view, version, entry, due>>

ScNext ==
  \/ Watch
  \/ /\ view # NoView
     /\ \/ Mount \/ Unmount \/ Collect \/ GrowStale \/ Poll
        \/ FetchRead \/ FetchArrives \/ FetchFails
        \/ ChangeCommits \/ ChangeElsewhere \/ ChangeSucceeds \/ ChangeFails
        \/ \E op \in {"create", "update", "delete"} : SubmitChange(op)

ScSpec == ScInit /\ [][ScNext]_scVars

-----------------------------------------------------------------------------------
(* TYPE. What the variables range over.                                         *)
ScTypeOK ==
  /\ view # NoView => view.name \in Mine.views
  /\ version \in 0 .. MaxVersions /\ due \in 0 .. version
  /\ entry.data \in None .. version
  /\ entry.fetch \in Idle .. version
  /\ mutation.at \in None .. version

(* SAFETY. A view that is at rest and not marked stale shows the user's own last *)
(* change, whatever fetch was on its way when the change went through, pages    *)
(* left and opened again meanwhile. Only a first fetch, or one whose page was   *)
(* left, can bring the state before the change after it.                        *)
OwnChangesShow ==
  entry.fetch = Idle /\ ~entry.stale => entry.data >= due
=================================================================================
