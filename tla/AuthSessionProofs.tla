--------------------------- MODULE AuthSessionProofs ---------------------------
(* Proofs about AuthSession, for every set of sessions and handlers, every     *)
(* token lifetime and every bound of the clock and of the generations.         *)
EXTENDS AuthSession, TLAPS

Refreshing(r) == pc[r] \in {"account", "session", "rotate", "replay", "answer"}

(* What ties a handler's local variables to the row: the token it presents is  *)
(* one the row has held, and a replay or an answer is behind the row.          *)
HandlerOK(r) ==
  /\ Refreshing(r) => /\ sid[r] \in Sessions
                      /\ presented[r] < MaxGen
                      /\ presented[r] <= gen[sid[r]]
  /\ pc[r] \in {"replay", "answer"} => presented[r] < gen[sid[r]]
  /\ pc[r] = "create" => sid[r] \in Sessions /\ state[sid[r]] = "unborn"
  /\ pc[r] = "greet" => sid[r] \in Sessions /\ gen[sid[r]] >= 1

(* The generations below the row's have been exchanged once, the others not;   *)
(* clients know no token the row has not held; one login creates one row.      *)
ChainInv ==
  /\ \A s \in Sessions : /\ state[s] = "unborn" <=> gen[s] = 0
                         /\ \A g \in Generations :
                              exchanged[s][g] = IF g < gen[s] THEN 1 ELSE 0
                         /\ \A g \in Generations : <<s, g>> \in known => g <= gen[s]
  /\ \A r \in Requests : HandlerOK(r)
  /\ \A r, q \in Requests : pc[r] = "create" /\ pc[q] = "create" /\ sid[r] = sid[q] => r = q

(* A handler that ends leaves its local variables typed.                        *)
LEMMA FinishTyped ==
  ASSUME TypeOK, NEW r \in Requests, Finish(r)
  PROVE  /\ pc' \in [Requests -> Steps] /\ sid' \in [Requests -> Sessions \cup {NoSession}]
         /\ presented' \in [Requests -> Generations] /\ rival' \in [Requests -> BOOLEAN]
<1>1. 1 \in Generations
  BY BoundsAssumption DEF Generations
<1> QED BY <1>1 DEF TypeOK, Finish, Steps

(* Every step keeps the types; ChainInv says which session a handler serves.    *)
LEMMA TypeStep ==
  ASSUME TypeOK, ChainInv, [Next]_vars
  PROVE  TypeOK'
<1>0. 1 \in Generations /\ Generations \subseteq Nat /\ MaxTime \in Nat /\ TTL \in Nat
  BY BoundsAssumption, TTLAssumption DEF Generations
<1>1. CASE UNCHANGED vars
  BY <1>1 DEF vars, TypeOK, rows
<1>2. CASE Tick
  BY <1>0, <1>2 DEF Tick, TypeOK, rows, Times
<1>3. ASSUME NEW s \in Sessions, Logout(s) PROVE TypeOK'
  BY <1>3 DEF Logout, TypeOK
<1>4. ASSUME NEW status \in {"ACTIVE", "SUSPENDED"}, SetAccount(status) PROVE TypeOK'
  BY <1>4 DEF SetAccount, TypeOK, rows
<1>5. ASSUME NEW r \in Requests, Handle(r) PROVE TypeOK'
  <2>0. now + TTL \in Expiries
    BY <1>0 DEF TypeOK, Times, Expiries
  <2>1. ASSUME NEW s \in Sessions, Register(r, s) \/ LoginCheck(r, s) PROVE TypeOK'
    BY <2>1 DEF Register, LoginCheck, Opening, TypeOK, rows, Steps
  <2>2. CASE LoginCreate(r)
    BY <1>0, <2>0, <2>2 DEF LoginCreate, Goto, TypeOK, Steps
  <2>3. CASE LoginAnswer(r)
    <3>1. sid[r] \in Sessions
      BY <2>3 DEF LoginAnswer, ChainInv, HandlerOK
    <3> QED BY <1>0, <2>3, <3>1, FinishTyped DEF LoginAnswer, TypeOK, rows
  <2>4. ASSUME NEW s \in Sessions, NEW g \in Generations, RefreshBegin(r, s, g) PROVE TypeOK'
    BY <2>4 DEF RefreshBegin, TypeOK, rows, Steps
  <2>5. CASE RefreshAccount(r) \/ RefreshMatch(r) \/ RefreshMismatch(r)
    BY <2>5 DEF RefreshAccount, RefreshMatch, RefreshMismatch, Goto, TypeOK, rows, Steps
  <2>6. CASE ReplayDelete(r)
    BY <2>6, FinishTyped DEF ReplayDelete, TypeOK
  <2>7. CASE RotateWins(r)
    <3>1. /\ sid[r] \in Sessions /\ presented[r] \in Generations /\ gen[sid[r]] = presented[r]
          /\ presented[r] + 1 \in Generations
      BY <2>7, BoundsAssumption
      DEF RotateWins, CanRotate, ChainInv, HandlerOK, Refreshing, TypeOK, Generations
    <3>2. gen' \in [Sessions -> Generations \cup {0}]
      BY <2>7, <3>1 DEF RotateWins, Rotate, TypeOK
    <3>3. expires' \in [Sessions -> [Generations -> Expiries]]
      BY <2>0, <2>7, <3>1 DEF RotateWins, Rotate, TypeOK
    <3>4. exchanged' \in [Sessions -> [Generations -> Nat]]
      BY <2>7, <3>1 DEF RotateWins, Rotate, TypeOK
    <3>5. pc' \in [Requests -> Steps] /\ rival' \in [Requests -> BOOLEAN]
      BY <2>7 DEF RotateWins, Rotate, TypeOK, Steps
    <3> QED BY <2>7, <3>2, <3>3, <3>4, <3>5 DEF RotateWins, Rotate, TypeOK
  <2>8. CASE RotateLoses(r) \/ Abort(r)
    BY <2>8, FinishTyped DEF RotateLoses, Abort, TypeOK, rows
  <2>9. CASE RefreshAnswer(r)
    <3>1. sid[r] \in Sessions /\ presented[r] + 1 \in Generations
      BY <2>9, BoundsAssumption
      DEF RefreshAnswer, ChainInv, HandlerOK, Refreshing, TypeOK, Generations
    <3> QED BY <2>9, <3>1, FinishTyped DEF RefreshAnswer, TypeOK, rows
  <2> QED
    BY <1>5, <2>1, <2>2, <2>3, <2>4, <2>5, <2>6, <2>7, <2>8, <2>9 DEF Handle
<1> QED
  BY <1>1, <1>2, <1>3, <1>4, <1>5 DEF Next

(* The numbers of the model are naturals, whatever MaxGen is.                  *)
LEMMA Numbers ==
  ASSUME TypeOK
  PROVE  /\ gen \in [Sessions -> Nat] /\ presented \in [Requests -> Nat \ {0}]
         /\ Generations \subseteq Nat \ {0} /\ 1 \in Generations /\ MaxGen \in Nat
BY BoundsAssumption DEF TypeOK, Generations

(* A step that only moves handler r on, and leaves the rows, the exchanges and *)
(* the clients' tokens alone, keeps ChainInv if it keeps r's own part of it.   *)
LEMMA OnlyHandlerMoves ==
  ASSUME TypeOK, ChainInv, NEW r \in Requests, UNCHANGED <<state, gen, exchanged, known>>,
         HandlerOK(r)', pc'[r] # "create",
         \A q \in Requests \ {r} :
           pc'[q] = pc[q] /\ sid'[q] = sid[q] /\ presented'[q] = presented[q]
  PROVE  ChainInv'
<1>1. \A q \in Requests : HandlerOK(q)'
  <2> SUFFICES ASSUME NEW q \in Requests \ {r} PROVE HandlerOK(q)'
    OBVIOUS
  <2>1. HandlerOK(q)
    BY DEF ChainInv
  <2> QED BY <2>1 DEF HandlerOK, Refreshing
<1>2. \A p, q \in Requests :
        pc'[p] = "create" /\ pc'[q] = "create" /\ sid'[p] = sid'[q] => p = q
  BY DEF ChainInv
<1> QED BY <1>1, <1>2 DEF ChainInv

(* Finish leaves the other handlers alone and r without obligations.           *)
LEMMA FinishMoves ==
  ASSUME TypeOK, NEW r \in Requests, Finish(r)
  PROVE  /\ HandlerOK(r)' /\ pc'[r] = "idle"
         /\ \A q \in Requests \ {r} :
              pc'[q] = pc[q] /\ sid'[q] = sid[q] /\ presented'[q] = presented[q]
BY DEF TypeOK, Finish, HandlerOK, Refreshing

(* Every step keeps each session's tokens one chain.                           *)
LEMMA ChainStep ==
  ASSUME TypeOK, ChainInv, [Next]_vars
  PROVE  ChainInv'
<1>0. /\ gen \in [Sessions -> Nat] /\ presented \in [Requests -> Nat \ {0}]
      /\ Generations \subseteq Nat \ {0} /\ 1 \in Generations /\ MaxGen \in Nat
  BY Numbers
<1>1. CASE UNCHANGED vars \/ Tick \/ \E status \in {"ACTIVE", "SUSPENDED"} : SetAccount(status)
  BY <1>1 DEF vars, Tick, SetAccount, rows, ChainInv, HandlerOK, Refreshing
<1>2. ASSUME NEW s \in Sessions, Logout(s) PROVE ChainInv'
  BY <1>2 DEF Logout, TypeOK, ChainInv, HandlerOK, Refreshing
<1>3. ASSUME NEW r \in Requests, Handle(r) PROVE ChainInv'
  <2>1. ASSUME NEW s \in Sessions, Register(r, s) \/ LoginCheck(r, s) PROVE ChainInv'
    <3>1. Opening(r, s)
      BY <2>1 DEF Register, LoginCheck
    <3> QED BY <3>1 DEF Opening, rows, TypeOK, ChainInv, HandlerOK, Refreshing
  <2>2. CASE LoginCreate(r)
    <3> DEFINE s == sid[r]
    <3>1. s \in Sessions /\ gen[s] = 0 /\ state[s] = "unborn"
      BY <2>2 DEF LoginCreate, ChainInv, HandlerOK
    <3>2. /\ state' = [state EXCEPT ![s] = "live"] /\ gen' = [gen EXCEPT ![s] = 1]
          /\ pc' = [pc EXCEPT ![r] = "greet"]
          /\ UNCHANGED <<sid, presented, exchanged, known>>
      BY <2>2 DEF LoginCreate, Goto
    <3>3. ASSUME NEW q \in Requests PROVE HandlerOK(q)'
      <4>1. CASE q = r
        BY <3>1, <3>2, <4>1, <1>0 DEF TypeOK, HandlerOK, Refreshing
      <4>2. CASE q # r
        <5>1. HandlerOK(q) /\ pc'[q] = pc[q] /\ sid'[q] = sid[q] /\ presented'[q] = presented[q]
          BY <3>2, <4>2 DEF TypeOK, ChainInv
        <5>2. pc[q] = "create" => sid[q] # s
          BY <2>2, <4>2 DEF LoginCreate, ChainInv
        <5>3. Refreshing(q) \/ pc[q] = "greet" => sid[q] # s
          BY <1>0, <3>1, <5>1 DEF HandlerOK, Refreshing
        <5>4. \A p \in Sessions \ {s} : state'[p] = state[p] /\ gen'[p] = gen[p]
          BY <3>2 DEF TypeOK
        <5> QED BY <5>1, <5>2, <5>3, <5>4 DEF HandlerOK, Refreshing
      <4> QED BY <4>1, <4>2
    <3>4. \A q \in Sessions : state'[q] = "unborn" <=> gen'[q] = 0
      BY <3>1, <3>2 DEF TypeOK, ChainInv
    <3>5. \A q \in Sessions, g \in Generations :
            /\ exchanged'[q][g] = IF g < gen'[q] THEN 1 ELSE 0
            /\ <<q, g>> \in known' => g <= gen'[q]
      <4> SUFFICES ASSUME NEW q \in Sessions, NEW g \in Generations
                   PROVE  /\ exchanged'[q][g] = IF g < gen'[q] THEN 1 ELSE 0
                          /\ <<q, g>> \in known' => g <= gen'[q]
        OBVIOUS
      <4>1. /\ exchanged'[q][g] = IF g < gen[q] THEN 1 ELSE 0
            /\ <<q, g>> \in known' => g <= gen[q]
        BY <3>2 DEF ChainInv
      <4>2. gen'[q] = IF q = s THEN 1 ELSE gen[q]
        BY <1>0, <3>2
      <4> QED BY <1>0, <3>1, <4>1, <4>2
    <3>6. \A q, p \in Requests : pc'[q] = "create" /\ pc'[p] = "create" /\ sid'[q] = sid'[p]
            => q = p
      BY <3>2 DEF TypeOK, ChainInv
    <3> QED BY <3>3, <3>4, <3>5, <3>6 DEF ChainInv
  <2>3. CASE LoginAnswer(r) \/ RefreshAnswer(r)
    <3>1. PICK n \in Nat : /\ known' = known \cup {<<sid[r], n>>}
                           /\ sid[r] \in Sessions /\ n <= gen[sid[r]]
      <4>1. CASE LoginAnswer(r)
        <5>1. sid[r] \in Sessions /\ 1 <= gen[sid[r]] /\ known' = known \cup {<<sid[r], 1>>}
          BY <1>0, <4>1 DEF LoginAnswer, ChainInv, HandlerOK
        <5> QED BY <5>1
      <4>2. CASE RefreshAnswer(r)
        <5>1. sid[r] \in Sessions /\ presented[r] < gen[sid[r]]
          BY <4>2 DEF RefreshAnswer, ChainInv, HandlerOK, Refreshing
        <5>2. known' = known \cup {<<sid[r], presented[r] + 1>>}
          BY <4>2 DEF RefreshAnswer
        <5> QED BY <1>0, <5>1, <5>2
      <4> QED BY <2>3, <4>1, <4>2
    <3>2. \A s \in Sessions, g \in Generations : <<s, g>> \in known' => g <= gen'[s]
      BY <2>3, <3>1 DEF LoginAnswer, RefreshAnswer, rows, ChainInv
    <3>3. Finish(r) /\ UNCHANGED <<state, gen, exchanged>>
      BY <2>3 DEF LoginAnswer, RefreshAnswer, rows
    <3>4. \A q \in Requests : HandlerOK(q)'
      <4> SUFFICES ASSUME NEW q \in Requests \ {r} PROVE HandlerOK(q)'
        BY <3>3, FinishMoves
      <4>1. HandlerOK(q)
        BY DEF ChainInv
      <4> QED BY <3>3, <4>1, FinishMoves DEF HandlerOK, Refreshing
    <3>5. \A p, q \in Requests : pc'[p] = "create" /\ pc'[q] = "create" /\ sid'[p] = sid'[q]
            => p = q
      BY <3>3, FinishMoves DEF ChainInv
    <3> QED
      BY <3>2, <3>3, <3>4, <3>5 DEF ChainInv
  <2>4. ASSUME NEW s \in Sessions, NEW g \in Generations, RefreshBegin(r, s, g)
        PROVE ChainInv'
    <3>1. HandlerOK(r)'
      BY <2>4 DEF RefreshBegin, rows, TypeOK, ChainInv, HandlerOK, Refreshing
    <3> QED BY <2>4, <3>1, OnlyHandlerMoves DEF RefreshBegin, rows, TypeOK
  <2>5. CASE RefreshAccount(r) \/ RefreshMatch(r)
    <3>1. HandlerOK(r)'
      BY <2>5 DEF RefreshAccount, RefreshMatch, Goto, rows, TypeOK, ChainInv, HandlerOK, Refreshing
    <3> QED BY <2>5, <3>1, OnlyHandlerMoves DEF RefreshAccount, RefreshMatch, Goto, rows, TypeOK
  <2>6. CASE RefreshMismatch(r)
    <3>1. HandlerOK(r)'
      BY <1>0, <2>6 DEF RefreshMismatch, Goto, rows, TypeOK, ChainInv, HandlerOK, Refreshing
    <3> QED BY <2>6, <3>1, OnlyHandlerMoves DEF RefreshMismatch, Goto, rows, TypeOK
  <2>7. CASE ReplayDelete(r)
    <3>1. sid[r] \in Sessions /\ presented[r] < gen[sid[r]]
      BY <2>7 DEF ReplayDelete, ChainInv, HandlerOK, Refreshing
    <3>2. state[sid[r]] # "unborn"
      BY <1>0, <3>1 DEF ChainInv
    <3>3. /\ state' = [state EXCEPT ![sid[r]] = "ended"] /\ Finish(r)
          /\ UNCHANGED <<gen, exchanged, known>>
      BY <2>7 DEF ReplayDelete
    <3>4. \A s \in Sessions : state'[s] = "unborn" <=> state[s] = "unborn"
      BY <3>1, <3>2, <3>3 DEF TypeOK
    <3>5. \A q \in Requests \ {r} : HandlerOK(q)'
      BY <3>3, <3>4, FinishMoves DEF ChainInv, HandlerOK, Refreshing
    <3> QED
      BY <3>3, <3>4, <3>5, FinishMoves DEF ChainInv
  <2>8. CASE RotateWins(r)
    <3> DEFINE s == sid[r]
               g == presented[r]
    <3>1. /\ s \in Sessions /\ g \in Generations /\ gen[s] = g /\ g < MaxGen
          /\ state[s] # "unborn"
      BY <2>8 DEF RotateWins, CanRotate, TypeOK, ChainInv, HandlerOK, Refreshing
    <3>2. /\ gen' = [gen EXCEPT ![s] = gen[s] + 1] /\ pc' = [pc EXCEPT ![r] = "answer"]
          /\ UNCHANGED <<state, known, sid, presented>>
          /\ exchanged' = [exchanged EXCEPT ![s] =
                             [exchanged[s] EXCEPT ![g] = exchanged[s][g] + 1]]
      BY <2>8 DEF RotateWins, Rotate
    <3>3. \A q \in Requests : HandlerOK(q)'
      BY <1>0, <3>1, <3>2 DEF TypeOK, ChainInv, HandlerOK, Refreshing
    <3>4. \A q \in Sessions : state'[q] = "unborn" <=> gen'[q] = 0
      BY <1>0, <3>1, <3>2 DEF TypeOK, ChainInv
    <3>5. ASSUME NEW q \in Sessions, NEW h \in Generations
          PROVE  exchanged'[q][h] = IF h < gen'[q] THEN 1 ELSE 0
      BY <1>0, <3>1, <3>2 DEF TypeOK, ChainInv
    <3>6. \A q \in Sessions, h \in Generations : <<q, h>> \in known' => h <= gen'[q]
      BY <1>0, <3>1, <3>2 DEF TypeOK, ChainInv
    <3>7. \A q, p \in Requests : pc'[q] = "create" /\ pc'[p] = "create" /\ sid'[q] = sid'[p]
            => q = p
      BY <3>2 DEF TypeOK, ChainInv
    <3> QED BY <3>3, <3>4, <3>5, <3>6, <3>7 DEF ChainInv
  <2>9. CASE RotateLoses(r) \/ Abort(r)
    BY <2>9, FinishMoves, OnlyHandlerMoves DEF RotateLoses, Abort, rows
  <2> QED
    BY <1>3, <2>1, <2>2, <2>3, <2>4, <2>5, <2>6, <2>7, <2>8, <2>9 DEF Handle
<1> QED
  BY <1>1, <1>2, <1>3 DEF Next

-----------------------------------------------------------------------------------
(* Type correctness, with the invariant it is inductive with: every session's  *)
(* tokens are one chain of which exactly those before the row's were exchanged.*)
THEOREM TypeCorrect == Spec => [](TypeOK /\ ChainInv)
<1>1. Init => TypeOK /\ ChainInv
  BY TTLAssumption, BoundsAssumption
  DEF Init, TypeOK, ChainInv, HandlerOK, Refreshing, Times, Expiries, Generations, Steps
<1>2. TypeOK /\ ChainInv /\ [Next]_vars => (TypeOK /\ ChainInv)'
  BY TypeStep, ChainStep
<1> QED
  BY <1>1, <1>2, PTL DEF Spec

(* A refresh token is exchanged at most once, in every interleaving of any     *)
(* number of concurrent refreshes of any number of sessions (auth.service.ts,  *)
(* refresh; auth.repository.ts, rotateDeviceSession).                          *)
THEOREM TokensAreExchangedOnce == Spec => []TokenExchangedOnce
<1>1. TypeOK /\ ChainInv => TokenExchangedOnce
  BY Numbers DEF ChainInv, TokenExchangedOnce
<1> QED
  BY <1>1, TypeCorrect, PTL

(* No session is deleted as replayed for its newest token.                     *)
THEOREM ReplaysAreStale == Spec => []ReplayMeansStale
<1>1. TypeOK /\ ChainInv => ReplayMeansStale
  BY DEF TypeOK, ChainInv, ReplayMeansStale, HandlerOK, Refreshing
<1> QED
  BY <1>1, TypeCorrect, PTL

(* Every step of the concurrent handlers is one exchange, one opening or one   *)
(* ending of a session of the abstract TokenChain, or leaves it alone.         *)
LEMMA ChainRefined ==
  ASSUME TypeOK, ChainInv, [Next]_vars
  PROVE  [Chain!Next]_(Chain!chainVars)
<1> USE DEF Chain!Next, Chain!chainVars
<1>1. CASE UNCHANGED vars \/ Tick \/ \E status \in {"ACTIVE", "SUSPENDED"} : SetAccount(status)
  BY <1>1 DEF vars, Tick, SetAccount, rows
<1>2. ASSUME NEW s \in Sessions, Logout(s) PROVE Chain!End(s)
  BY <1>2 DEF Logout, Chain!End
<1>3. ASSUME NEW r \in Requests, Handle(r) PROVE [Chain!Next]_(Chain!chainVars)
  <2>1. CASE LoginCreate(r)
    <3>1. sid[r] \in Sessions /\ Chain!Open(sid[r])
      BY <2>1 DEF LoginCreate, ChainInv, HandlerOK, Chain!Open
    <3> QED BY <3>1
  <2>2. CASE RotateWins(r)
    <3>1. sid[r] \in Sessions /\ Chain!Exchange(sid[r])
      BY <2>2 DEF RotateWins, CanRotate, Rotate, ChainInv, HandlerOK, Refreshing, Chain!Exchange
    <3> QED BY <3>1
  <2>3. CASE ReplayDelete(r)
    <3>1. /\ sid[r] \in Sessions /\ state[sid[r]] # "unborn"
          /\ state' = [state EXCEPT ![sid[r]] = "ended"] /\ gen' = gen
      BY <2>3, BoundsAssumption
      DEF ReplayDelete, TypeOK, ChainInv, HandlerOK, Refreshing, Generations
    <3>2. CASE state[sid[r]] = "live"
      BY <3>1, <3>2 DEF Chain!End
    <3>3. CASE state[sid[r]] = "ended"
      BY <3>1, <3>3 DEF TypeOK
    <3> QED BY <3>1, <3>2, <3>3 DEF TypeOK
  <2>4. CASE ~(LoginCreate(r) \/ RotateWins(r) \/ ReplayDelete(r))
    BY <1>3, <2>4
    DEF Handle, Register, LoginCheck, Opening, LoginAnswer, RefreshBegin, RefreshAccount, RefreshMatch,
        RefreshMismatch, RotateLoses, RefreshAnswer, Abort, rows
  <2> QED BY <2>1, <2>2, <2>3, <2>4
<1> QED
  BY <1>1, <1>2, <1>3 DEF Next

(* Concurrent logins, refreshes, logouts and crashes implement TokenChain.     *)
THEOREM ImplementsChain == Spec => ImplementsTokenChain
<1>1. Init => Chain!Init
  BY DEF Init, Chain!Init
<1>2. TypeOK /\ ChainInv /\ [Next]_vars => [Chain!Next]_(Chain!chainVars)
  BY ChainRefined
<1> QED
  BY <1>1, <1>2, TypeCorrect, PTL DEF Spec, ImplementsTokenChain, Chain!Spec
================================================================================
