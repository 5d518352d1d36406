------------------------------- MODULE AuthSession -------------------------------
(* Device sessions and refresh-token rotation: AuthService.register, login,    *)
(* refresh and logout of one account against the DeviceSession table.          *)
(*                                                                             *)
(* A refresh token is the pair of a session and its generation, the position   *)
(* of the token in the row's history; the row's tokenHash is the generation    *)
(* it accepts.  A refresh is five steps, one per await, and any number of      *)
(* refreshes, logins, logouts and account changes interleave with it.          *)
EXTENDS Integers

CONSTANTS
  Sessions,       \* DeviceSession ids (sid, a fresh uuid per login)
  NoSession,
  Requests,       \* handlers that may run at once
  TTL,            \* lifetime of a refresh token and of the row, in ticks
  MaxTime,        \* BOUND: the clock stops here
  MaxGen          \* BOUND: the token of this generation is not presented

ASSUME TTLAssumption == TTL \in Nat \ {0}
ASSUME NoSessionAssumption == NoSession \notin Sessions
ASSUME BoundsAssumption == MaxTime \in Nat /\ MaxGen \in Nat \ {0}

Generations == 1 .. MaxGen
Times == 0 .. MaxTime
Expiries == 0 .. MaxTime + TTL

VARIABLES
  account,     \* "none" before it is created; are user and organisation ACTIVE?
  now,         \* the clock
  state,       \* session -> "unborn", "live" (the row exists) or "ended"
  gen,         \* session -> generation whose hash the row holds
  expires,     \* session and generation -> when that token and its row expire
  known,       \* the refresh tokens that reached a client
  pc, sid, presented,  \* per handler: step, session and generation it serves
  exchanged,   \* session and generation -> successful exchanges of that token
  rival        \* handler -> its token was exchanged by another one meanwhile

vars == <<account, now, state, gen, expires, known, pc, sid, presented, exchanged, rival>>

Init ==
  /\ account = "none"
  /\ now = 0
  /\ state = [s \in Sessions |-> "unborn"]
  /\ gen = [s \in Sessions |-> 0]
  /\ expires = [s \in Sessions |-> [g \in Generations |-> 0]]
  /\ known = {}
  /\ pc = [r \in Requests |-> "idle"]
  /\ sid = [r \in Requests |-> NoSession]
  /\ presented = [r \in Requests |-> 1]
  /\ exchanged = [s \in Sessions |-> [g \in Generations |-> 0]]
  /\ rival = [r \in Requests |-> FALSE]

(* The handler answers, or throws: its local variables are gone.               *)
Finish(r) ==
  /\ pc' = [pc EXCEPT ![r] = "idle"]
  /\ sid' = [sid EXCEPT ![r] = NoSession]
  /\ presented' = [presented EXCEPT ![r] = 1]
  /\ rival' = [rival EXCEPT ![r] = FALSE]

Goto(r, step) ==
  /\ pc' = [pc EXCEPT ![r] = step]
  /\ UNCHANGED <<sid, presented, rival>>

rows == <<state, gen, expires>>

-----------------------------------------------------------------------------------
(* A handler goes on to create a session with the fresh uuid s.                *)
Opening(r, s) ==
  /\ pc[r] = "idle"
  /\ state[s] = "unborn"
  /\ \A q \in Requests : pc[q] \in {"create", "greet"} => sid[q] # s
  /\ pc' = [pc EXCEPT ![r] = "create"]
  /\ sid' = [sid EXCEPT ![r] = s]
  /\ UNCHANGED <<now, rows, known, presented, exchanged, rival>>

(* register, first half: organisation and administrator are created together,  *)
(* once; the second half is login's.                                           *)
Register(r, s) ==
  /\ account = "none"
  /\ account' = "ACTIVE"
  /\ Opening(r, s)

(* login, first half: the user and the organisation are read and the password  *)
(* is compared.                                                                *)
LoginCheck(r, s) ==
  /\ account = "ACTIVE"
  /\ Opening(r, s)
  /\ UNCHANGED account

(* login, second half: the row is created with the hash of the first token.    *)
LoginCreate(r) ==
  /\ pc[r] = "create"
  /\ state' = [state EXCEPT ![sid[r]] = "live"]
  /\ gen' = [gen EXCEPT ![sid[r]] = 1]
  /\ expires' = [expires EXCEPT ![sid[r]] = [@ EXCEPT ![1] = now + TTL]]
  /\ Goto(r, "greet")
  /\ UNCHANGED <<account, now, known, exchanged>>

(* The answer with the newest token reaches the client.                        *)
LoginAnswer(r) ==
  /\ pc[r] = "greet"
  /\ known' = known \cup {<<sid[r], 1>>}
  /\ Finish(r)
  /\ UNCHANGED <<account, now, rows, exchanged>>

-----------------------------------------------------------------------------------
(* refresh: the signature is good and the token itself has not expired.        *)
RefreshBegin(r, s, g) ==
  /\ pc[r] = "idle"
  /\ <<s, g>> \in known
  /\ g < MaxGen
  /\ now < expires[s][g]
  /\ pc' = [pc EXCEPT ![r] = "account"]
  /\ sid' = [sid EXCEPT ![r] = s]
  /\ presented' = [presented EXCEPT ![r] = g]
  /\ UNCHANGED <<account, now, rows, known, exchanged, rival>>

(* The user and then the organisation must be ACTIVE.                          *)
RefreshAccount(r) ==
  /\ pc[r] = "account"
  /\ account = "ACTIVE"
  /\ Goto(r, "session")
  /\ UNCHANGED <<account, now, rows, known, exchanged>>

(* findDeviceSession returned an unexpired row.                                *)
RowFound(r) ==
  /\ state[sid[r]] = "live"
  /\ expires[sid[r]][gen[sid[r]]] >= now

(* Class 1: the row holds the hash of the presented token.                     *)
RefreshMatch(r) ==
  /\ pc[r] = "session"
  /\ RowFound(r)
  /\ gen[sid[r]] = presented[r]
  /\ Goto(r, "rotate")
  /\ UNCHANGED <<account, now, rows, known, exchanged>>

(* Class 2: the row holds another hash, "suspected replay".                    *)
RefreshMismatch(r) ==
  /\ pc[r] = "session"
  /\ RowFound(r)
  /\ gen[sid[r]] # presented[r]
  /\ Goto(r, "replay")
  /\ UNCHANGED <<account, now, rows, known, exchanged>>

(* deleteDeviceSessionAndAudit: by session id only, whatever the row holds now.*)
ReplayDelete(r) ==
  /\ pc[r] = "replay"
  /\ state' = [state EXCEPT ![sid[r]] = "ended"]
  /\ Finish(r)
  /\ UNCHANGED <<account, now, gen, expires, known, exchanged>>

(* The row becomes the one of the next token.                                  *)
Rotate(r) ==
  /\ gen' = [gen EXCEPT ![sid[r]] = @ + 1]
  /\ expires' = [expires EXCEPT ![sid[r]] = [@ EXCEPT ![gen[sid[r]] + 1] = now + TTL]]
  /\ LET g == presented[r] IN
       exchanged' = [exchanged EXCEPT ![sid[r]] = [@ EXCEPT ![g] = exchanged[sid[r]][g] + 1]]
  /\ rival' = [q \in Requests |->
                 rival[q] \/ ( /\ q # r
                               /\ pc[q] \in {"account", "session", "rotate", "replay"}
                               /\ sid[q] = sid[r]
                               /\ presented[q] = presented[r])]
  /\ pc' = [pc EXCEPT ![r] = "answer"]
  /\ UNCHANGED <<account, now, state, known, sid, presented>>

(* MUTANT of RotateWins: the WHERE clause does not name the old hash.          *)
RotateAnyHash(r) ==
  /\ pc[r] = "rotate"
  /\ state[sid[r]] = "live"
  /\ gen[sid[r]] < MaxGen
  /\ expires[sid[r]][gen[sid[r]]] > now
  /\ Rotate(r)

(* MUTANT of RotateWins: the number of updated rows is not looked at.          *)
RotateUncounted(r) ==
  /\ pc[r] = "rotate"
  /\ gen[sid[r]] < MaxGen
  /\ Rotate(r)

(* rotateDeviceSession: the row still holds the presented token's hash and has *)
(* not expired, so updateMany counts one.                                      *)
CanRotate(r) ==
  /\ state[sid[r]] = "live"
  /\ gen[sid[r]] = presented[r]
  /\ expires[sid[r]][gen[sid[r]]] > now

RotateWins(r) ==
  /\ pc[r] = "rotate"
  /\ CanRotate(r)
  /\ Rotate(r)

(* It counts zero: "Concurrent refresh detected", and the row stays.           *)
RotateLoses(r) ==
  /\ pc[r] = "rotate"
  /\ ~CanRotate(r)
  /\ Finish(r)
  /\ UNCHANGED <<account, now, rows, known, exchanged>>

(* The new token reaches the client.                                           *)
RefreshAnswer(r) ==
  /\ pc[r] = "answer"
  /\ known' = known \cup {<<sid[r], presented[r] + 1>>}
  /\ Finish(r)
  /\ UNCHANGED <<account, now, rows, exchanged>>

(* A check refused the request, a database call threw, the process died or the *)
(* answer was lost: what was committed stays.                                  *)
Abort(r) ==
  /\ pc[r] # "idle"
  /\ Finish(r)
  /\ UNCHANGED <<account, now, rows, known, exchanged>>

-----------------------------------------------------------------------------------
(* logout: the row of the access token's sid is deleted; again is harmless.    *)
Logout(s) ==
  /\ state[s] = "live"
  /\ state' = [state EXCEPT ![s] = "ended"]
  /\ UNCHANGED <<account, now, gen, expires, known, pc, sid, presented, exchanged, rival>>

(* An administrator creates the user, ACTIVE, or suspends or reactivates the    *)
(* user or the organisation.                                                   *)
SetAccount(status) ==
  /\ account # status
  /\ account = "none" => status = "ACTIVE"
  /\ account' = status
  /\ UNCHANGED <<now, rows, known, pc, sid, presented, exchanged, rival>>

Tick ==
  /\ now < MaxTime
  /\ now' = now + 1
  /\ UNCHANGED <<account, rows, known, pc, sid, presented, exchanged, rival>>

Handle(r) ==
  \/ \E s \in Sessions : Register(r, s)
  \/ \E s \in Sessions : LoginCheck(r, s)
  \/ LoginCreate(r)
  \/ LoginAnswer(r)
  \/ \E s \in Sessions, g \in Generations : RefreshBegin(r, s, g)
  \/ RefreshAccount(r)
  \/ RefreshMatch(r)
  \/ RefreshMismatch(r)
  \/ ReplayDelete(r)
  \/ RotateWins(r)
  \/ RotateLoses(r)
  \/ RefreshAnswer(r)
  \/ Abort(r)

Next ==
  \/ \E r \in Requests : Handle(r)
  \/ \E s \in Sessions : Logout(s)
  \/ \E status \in {"ACTIVE", "SUSPENDED"} : SetAccount(status)
  \/ Tick

Spec == Init /\ [][Next]_vars

-----------------------------------------------------------------------------------
(* Every column and local variable keeps its type.                             *)
Steps == {"idle", "create", "greet", "account", "session", "rotate", "replay", "answer"}
TypeOK ==
  /\ account \in {"none", "ACTIVE", "SUSPENDED"}
  /\ now \in Times
  /\ state \in [Sessions -> {"unborn", "live", "ended"}]
  /\ gen \in [Sessions -> Generations \cup {0}]
  /\ expires \in [Sessions -> [Generations -> Expiries]]
  /\ known \subseteq Sessions \X Generations
  /\ pc \in [Requests -> Steps]
  /\ sid \in [Requests -> Sessions \cup {NoSession}]
  /\ presented \in [Requests -> Generations]
  /\ exchanged \in [Sessions -> [Generations -> Nat]]
  /\ rival \in [Requests -> BOOLEAN]

(* A refresh token is good for one exchange, however many requests present it  *)
(* at once and whatever they read before the row changed.                      *)
TokenExchangedOnce ==
  \A s \in Sessions, g \in Generations : exchanged[s][g] <= 1

(* A session is deleted as replayed only because of a token that had really    *)
(* been exchanged: the newest token a client holds never counts as a replay,   *)
(* even when it is presented while the row is changing.                        *)
ReplayMeansStale ==
  \A r \in Requests : pc[r] = "replay" => exchanged[sid[r]][presented[r]] = 1

(* The requests together treat a session as one chain of tokens that can be    *)
(* cut once and never grows again (TokenChain).                                *)
Chain == INSTANCE TokenChain WITH length <- gen
ImplementsTokenChain == Chain!Spec

(* "Losing concurrent request rejection without DeviceSession deletion"        *)
(* (auth-step3b.spec.ts): of two refreshes in flight with one token, the one   *)
(* that loses the rotation does not go on to delete the session.               *)
LosingRefreshKeepsSession ==
  \A r \in Requests : pc[r] = "replay" => ~rival[r]
===================================================================================
