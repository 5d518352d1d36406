------------------------------- MODULE BrowserSession -------------------------------
(* One tab of the browser application: the session of useAuthStore and local     *)
(* storage, its hydration by AuthProvider, the login form, the interceptor of    *)
(* apiClient that refreshes once for all calls that got a 401, and the router    *)
(* with its guards.                                                              *)
(*                                                                              *)
(* Init is a page that was loaded without tokens.                               *)
(*                                                                              *)
(* Two facts of this commit shape it. useLogin stores data.token, a field the    *)
(* server's answer does not have, so what is stored is junk that no endpoint     *)
(* accepts. And AuthProvider asks GET /auth/me, which no router serves.          *)
EXTENDS Naturals, FiniteSets

CONSTANTS
  Calls,       \* API calls the shown page may make
  LoginSends   \* fields of the login request: the mounted auth.service sends email
               \* and password, services/auth/auth.service the device type as well

Roles == {"SUPER_ADMIN", "ORG_ADMIN", "OPERATOR", "DRIVER", "PARENT", "STUDENT"}
NoUser == "nobody"

VARIABLES
  user,       \* useAuthStore.user: its role, or NoUser; isAuthenticated goes with it
  hydrating,  \* useAuthStore.isHydrating
  tokens,     \* local storage: "none" or "junk"
  path,       \* where the router is
  from,       \* location.state.from
  form,       \* the login form: "idle" or "sent"
  call,       \* call -> "idle", "sent", "queued" (in failedQueue) or "failed"
  refreshing  \* the call whose refresh is under way (isRefreshing), or "none"

bsVars == <<user, hydrating, tokens, path, from, form, call, refreshing>>
calls == <<call, refreshing>>
place == <<path, from>>

-----------------------------------------------------------------------------------
PublicPages == {"/", "/login"}
AdminPages ==
  {"/admin", "/admin/organizations", "/admin/users", "/admin/drivers", "/admin/students",
   "/admin/parents", "/admin/vehicles", "/admin/routes", "/admin/trips",
   "/admin/attendance", "/admin/reports", "/admin/analytics", "/admin/analytics/driver",
   "/admin/analytics/routes", "/admin/settings", "/admin/emergency"}
DriverPages ==
  {"/driver", "/driver/route", "/driver/trips", "/driver/attendance", "/driver/emergency",
   "/driver/profile", "/driver/settings"}
ParentPages ==
  {"/parent", "/parent/trip", "/parent/child", "/parent/attendance",
   "/parent/notifications", "/parent/emergency", "/parent/profile", "/parent/settings"}
Protected == AdminPages \cup DriverPages \cup ParentPages
OpenPages == {"/logout", "/unauthorized", "/forbidden", "/student"}  \* /student is a 404

(* The roles that the RoleGuards on the way to a page let through.              *)
AllowedRoles(p) ==
  CASE p = "/admin/organizations" -> {"SUPER_ADMIN"}
    [] p \in AdminPages  -> {"SUPER_ADMIN", "ORG_ADMIN", "OPERATOR"}
    [] p \in DriverPages -> {"DRIVER"}
    [] p \in ParentPages -> {"PARENT"}

(* MUTANT of DefaultRoute: a role nobody has written a portal for.              *)
DefaultRouteForPortals(role) ==
  CASE role \in {"SUPER_ADMIN", "ORG_ADMIN", "OPERATOR"} -> "/admin"
    [] role = "DRIVER" -> "/driver"
    [] role = "PARENT" -> "/parent"
    [] OTHER           -> "/login"

(* getDefaultRouteForRole.                                                      *)
DefaultRoute(role) ==
  CASE role \in {"SUPER_ADMIN", "ORG_ADMIN", "OPERATOR"} -> "/admin"
    [] role = "DRIVER"  -> "/driver"
    [] role = "PARENT"  -> "/parent"
    [] role = "STUDENT" -> "/student"
    [] OTHER            -> "/login"

(* Do the guards of the page let the user be, and if not, where do they send?   *)
Open(p) ==
  CASE p \in PublicPages -> user = NoUser
    [] p \in Protected   -> user # NoUser /\ user \in AllowedRoles(p)
    [] OTHER             -> TRUE

Target(p) ==
  CASE p \in PublicPages -> IF from # "none" THEN from ELSE DefaultRoute(user)
    [] user = NoUser     -> "/login"
    [] OTHER             -> "/forbidden"

(* What the links of a role's layout lead to.                                   *)
AdminLinks(role) ==
  {"/admin", "/admin/users", "/admin/drivers", "/admin/students", "/admin/parents",
   "/admin/vehicles", "/admin/routes", "/admin/trips", "/admin/attendance",
   "/admin/reports", "/admin/settings", "/admin/emergency"} \cup
  (IF role = "SUPER_ADMIN" THEN {"/admin/organizations"} ELSE {})
DriverLinks == DriverPages
ParentLinks == ParentPages
Links(role) ==
  CASE role \in {"SUPER_ADMIN", "ORG_ADMIN", "OPERATOR"} -> AdminLinks(role)
    [] role = "DRIVER" -> DriverLinks
    [] role = "PARENT" -> ParentLinks
    [] OTHER -> {}

-----------------------------------------------------------------------------------
BsInit ==
  /\ user = NoUser /\ hydrating = FALSE /\ tokens = "none"
  /\ path = "/login" /\ from = "none" /\ form = "idle"
  /\ call = [c \in Calls |-> "idle"] /\ refreshing = "none"

Quiet == call' = [c \in Calls |-> "idle"] /\ refreshing' = "none"

(* The page is loaded anew, perhaps at an address typed in: the store and every *)
(* call under way are gone, local storage and the history's state stay.         *)
Reload(p) ==
  /\ user' = NoUser /\ hydrating' = TRUE /\ form' = "idle" /\ Quiet
  /\ path' = p /\ from' = IF p = path THEN from ELSE "none"
  /\ UNCHANGED tokens

(* hydrateSession: without a token nothing is asked; GET /auth/me is not found. *)
Hydrate ==
  /\ hydrating
  /\ hydrating' = FALSE /\ user' = NoUser /\ tokens' = "none"
  /\ UNCHANGED <<place, form, calls>>

(* One redirect of the guards; only AuthGuard's carries where the user was.     *)
Redirect ==
  /\ ~hydrating /\ ~Open(path)
  /\ path' = Target(path)
  /\ from' = IF user = NoUser THEN path ELSE "none"
  /\ UNCHANGED <<user, hydrating, tokens, form, calls>>

(* A link of the layout, the dashboard link of /forbidden, or back to the form. *)
Follow(p) ==
  /\ ~hydrating /\ Open(path) /\ p # path
  /\ \/ user # NoUser /\ p \in Links(user)
     \/ path = "/forbidden" /\ p \in {"/login", DefaultRoute(user)}
     \/ path \in {"/", "/unauthorized"} /\ p = "/login"
  /\ path' = p /\ from' = "none"
  /\ UNCHANGED <<user, hydrating, tokens, form, calls>>

-----------------------------------------------------------------------------------
LoginSchema == {"email", "password", "deviceType"}

Submit ==
  /\ path = "/login" /\ user = NoUser /\ ~hydrating /\ form = "idle"
  /\ form' = "sent"
  /\ UNCHANGED <<user, hydrating, tokens, place, calls>>

(* useLogin.onSuccess: navigate takes an administrator, driver or parent home,  *)
(* unless the guard, which sees the user as well, redirects after it.           *)
LoginSucceeds(role) ==
  /\ form = "sent" /\ LoginSchema \subseteq LoginSends
  /\ form' = "idle" /\ user' = role /\ hydrating' = FALSE /\ tokens' = "junk"
  /\ \/ /\ role \notin {"OPERATOR", "STUDENT"}
        /\ path' = DefaultRoute(role) /\ from' = "none"
     \/ UNCHANGED place
  /\ UNCHANGED calls

(* The request does not match the schema, or the credentials are wrong. The     *)
(* latter is a 401: the interceptor finds no refresh token and clears the rest. *)
LoginFails ==
  /\ form = "sent"
  /\ form' = "idle"
  /\ UNCHANGED <<user, hydrating, tokens, place, calls>>

ClearAuth == user' = NoUser /\ hydrating' = FALSE /\ tokens' = "none"

(* The topbar's menu asks no server. AuthGuard sees that the user is gone too,   *)
(* and may redirect before or after navigate, with or without the place.        *)
Logout ==
  /\ ~hydrating /\ path \in Protected /\ Open(path)
  /\ ClearAuth
  /\ path' = "/login" /\ from' \in {"none", path}
  /\ UNCHANGED <<form, calls>>

(* Login again, as the address says: nothing of the page that was is left.      *)
LoginAnew ==
  /\ user' = NoUser /\ tokens' = "none" /\ hydrating' = TRUE
  /\ form' = "idle" /\ Quiet /\ path' = "/login" /\ from' = "none"

(* LogoutPage can only be loaded by its address, so its request has no token:   *)
(* the interceptor loads the login page, or without an answer onError goes there. *)
LogoutPage ==
  /\ ~hydrating /\ path = "/logout"
  /\ \/ LoginAnew
     \/ ClearAuth /\ path' = "/login" /\ from' = "none" /\ UNCHANGED <<form, calls>>

-----------------------------------------------------------------------------------
Send(c) ==
  /\ ~hydrating /\ user # NoUser /\ Open(path) /\ call[c] = "idle"
  /\ call' = [call EXCEPT ![c] = "sent"]
  /\ UNCHANGED <<user, hydrating, tokens, place, form, refreshing>>

(* Junk is answered with a 401: the first one starts a refresh, the others that *)
(* come meanwhile join its queue.                                               *)
Unauthorised(c) ==
  /\ call[c] = "sent"
  /\ IF refreshing = "none"
     THEN refreshing' = c /\ UNCHANGED call
     ELSE refreshing # c /\ call' = [call EXCEPT ![c] = "queued"] /\ UNCHANGED refreshing
  /\ UNCHANGED <<user, hydrating, tokens, place, form>>

(* No connection, or an error that is not a 401: no refresh.                    *)
CallFails(c) ==
  /\ call[c] = "sent" /\ refreshing # c
  /\ call' = [call EXCEPT ![c] = "failed"]
  /\ UNCHANGED <<user, hydrating, tokens, place, form, refreshing>>

(* MUTANT of RejectQueue: the error path forgets processQueue.                  *)
RejectRefresher(r) == [call EXCEPT ![r] = "failed"]

RejectQueue(r) == [c \in Calls |-> IF c = r \/ call[c] = "queued" THEN "failed" ELSE call[c]]

(* The refresh fails, as junk or nothing was presented: the catch block rejects *)
(* the queue, clears the session and, off the login page, loads it anew.        *)
RefreshFails ==
  /\ refreshing # "none"
  /\ IF path = "/login"
     THEN /\ call' = RejectQueue(refreshing) /\ refreshing' = "none"
          /\ ClearAuth /\ UNCHANGED <<place, form>>
     ELSE LoginAnew

(* A page forgets a call that has failed.                                       *)
Forgotten(c) ==
  /\ call[c] = "failed" /\ call' = [call EXCEPT ![c] = "idle"]
  /\ UNCHANGED <<user, hydrating, tokens, place, form, refreshing>>

BsNext ==
  \/ \E p \in PublicPages \cup Protected \cup OpenPages : Reload(p) \/ Follow(p)
  \/ Hydrate \/ Redirect \/ Submit \/ LoginFails \/ Logout \/ LogoutPage \/ RefreshFails
  \/ \E role \in Roles : LoginSucceeds(role)
  \/ \E c \in Calls : Send(c) \/ Unauthorised(c) \/ CallFails(c) \/ Forgotten(c)

(* Effects run, and requests are answered.                                      *)
BsFairness ==
  /\ WF_bsVars(Hydrate) /\ WF_bsVars(Redirect) /\ WF_bsVars(RefreshFails)
  /\ \A c \in Calls : WF_bsVars(Unauthorised(c))

BsSpec == BsInit /\ [][BsNext]_bsVars /\ BsFairness

-----------------------------------------------------------------------------------
(* TYPE. What every variable ranges over.                                       *)
BsTypeOK ==
  /\ user \in Roles \cup {NoUser} /\ hydrating \in BOOLEAN /\ tokens \in {"none", "junk"}
  /\ path \in PublicPages \cup Protected \cup OpenPages
  /\ from \in Protected \cup {"none"} /\ form \in {"idle", "sent"}
  /\ call \in [Calls -> {"idle", "sent", "queued", "failed"}]
  /\ refreshing \in Calls \cup {"none"}

(* LIVENESS. The guards come to rest: whatever page a user of any role asks     *)
(* for, was on when signing in, or is on when the session is cleared, the       *)
(* redirects end on a page that all its guards let the user see.                *)
RedirectsEnd == ~hydrating /\ ~Open(path) ~> hydrating \/ Open(path)

(* LIVENESS. Every API call ends, also one that waited in the queue of another  *)
(* call's refresh, unless the page itself is loaded anew.                       *)
RequestsAreSettled ==
  \A c \in Calls : call[c] \in {"sent", "queued"} ~> call[c] \in {"idle", "failed"}
===================================================================================
