------------------------- MODULE EmergencyServiceProofs -------------------------
(* Proofs about EmergencyService, for every set of emergencies, trips and       *)
(* handlers, and every assignment of emergencies to trips.                      *)
EXTENDS EmergencyService, TLAPS

(* Facts about the transition table.                                           *)
LEMMA TableFacts ==
  /\ "ACTIVE" \in EmergencyStatus /\ "none" \notin EmergencyStatus
  /\ DOMAIN validTransitions = EmergencyStatus
  /\ \A s \in EmergencyStatus : /\ validTransitions[s] \subseteq EmergencyStatus
                                /\ "ACTIVE" \notin validTransitions[s]
BY DEF EmergencyStatus, validTransitions, Desk!EmergencyStatus, Desk!validTransitions

(* What a handler inside a move knows.  It named a version the row has had; if *)
(* the row still has that version, then nothing has changed since the move was *)
(* validated, and previousState is the row's status.                           *)
Moving(r) ==
  pc[r] \in {"read", "update"} =>
    /\ em[r] \in Emergencies /\ next[r] \in EmergencyStatus
    /\ expectedVersion[r] \in 1 .. version[em[r]]
    /\ version[em[r]] = expectedVersion[r] => next[r] \in validTransitions[status[em[r]]]
    /\ pc[r] = "update" /\ version[em[r]] = expectedVersion[r] =>
         current[r] = status[em[r]]

(* A report in flight has an emergency of its own that does not exist yet.     *)
Creating(r) ==
  pc[r] = "create" =>
    /\ em[r] \in Emergencies /\ status[em[r]] = "none" /\ next[r] = "ACTIVE"
    /\ \A q \in Requests \ {r} : em[q] # em[r]

Serving(r) == pc[r] = "emit" => em[r] \in Emergencies /\ next[r] \in EmergencyStatus

(* A row exists from its first version on.                                     *)
Rows == \A e \in Emergencies : /\ status[e] = "none" <=> version[e] = 0
                               /\ Len(history[e]) = version[e]

HandlersOK == \A r \in Requests : Moving(r) /\ Creating(r) /\ Serving(r)

(* The inductive invariant of the rows: the types, the handlers, and the path. *)
PathInv == TypeOK /\ Rows /\ HandlersOK /\ HistoryIsPath

-------------------------------------------------------------------------------
(* A history with one row more.                                                *)
LEMMA OneRowMore ==
  ASSUME NEW S, NEW h \in Seq(S), NEW x \in S
  PROVE  /\ Append(h, x) \in Seq(S) /\ Len(Append(h, x)) = Len(h) + 1 /\ Len(h) \in Nat
         /\ \A i \in 1 .. Len(h) : Append(h, x)[i] = h[i]
         /\ Append(h, x)[Len(h) + 1] = x
OBVIOUS

(* A handler that ends leaves its local variables typed.                       *)
LEMMA FinishTyped ==
  ASSUME TypeOK, NEW r \in Requests, Finish(r)
  PROVE  /\ pc' \in [Requests -> {"idle", "create", "read", "update", "emit"}]
         /\ em' \in [Requests -> Emergencies \cup {NoEmergency}]
         /\ next' \in [Requests -> StatusOrNone] /\ expectedVersion' \in [Requests -> Nat]
         /\ current' \in [Requests -> StatusOrNone]
BY DEF TypeOK, Finish, StatusOrNone

(* Every step keeps the types; HandlersOK says which row a handler serves.     *)
LEMMA TypeStep ==
  ASSUME TypeOK, HandlersOK, [Next]_vars
  PROVE  TypeOK'
<1>1. CASE UNCHANGED vars
  BY <1>1 DEF vars, TypeOK
<1>2. ASSUME NEW r \in Requests, NEW e \in Emergencies, CreateCheck(r, e) PROVE TypeOK'
  BY <1>2, TableFacts DEF CreateCheck, rows, TypeOK, StatusOrNone
<1>3. ASSUME NEW r \in Requests, CreateWithHistory(r) PROVE TypeOK'
  <2> DEFINE first == [previousState |-> "none", newState |-> "ACTIVE"]
  <2>1. em[r] \in Emergencies
    BY <1>3 DEF CreateWithHistory, HandlersOK, Creating
  <2>2. first \in HistoryRow
    BY TableFacts DEF HistoryRow, StatusOrNone
  <2>3. Append(history[em[r]], first) \in Seq(HistoryRow)
    BY <2>1, <2>2, OneRowMore DEF TypeOK
  <2> QED
    BY <1>3, <2>1, <2>3, TableFacts DEF CreateWithHistory, Insert, Goto, TypeOK, StatusOrNone
<1>4. ASSUME NEW r \in Requests, NEW e \in Emergencies, NEW n \in EmergencyStatus,
             NEW v \in 1 .. version[e], ValidateTransition(r, e, n, v)
      PROVE  TypeOK'
  <2>1. v \in Nat
    BY DEF TypeOK
  <2> QED BY <1>4, <2>1 DEF ValidateTransition, rows, TypeOK, StatusOrNone
<1>5. ASSUME NEW r \in Requests, ReadCurrent(r) PROVE TypeOK'
  <2>1. em[r] \in Emergencies
    BY <1>5 DEF ReadCurrent, HandlersOK, Moving
  <2> QED BY <1>5, <2>1 DEF ReadCurrent, Goto, rows, TypeOK
<1>6. ASSUME NEW r \in Requests, UpdateByVersion(r) PROVE TypeOK'
  <2> DEFINE e == em[r]
             last == [previousState |-> current[r], newState |-> next[r]]
  <2>1. e \in Emergencies /\ next[r] \in EmergencyStatus
    BY <1>6 DEF UpdateByVersion, HandlersOK, Moving
  <2>2. last \in HistoryRow
    BY <2>1 DEF HistoryRow, TypeOK
  <2>3. Append(history[e], last) \in Seq(HistoryRow)
    BY <2>1, <2>2, OneRowMore DEF TypeOK
  <2>4. status' \in [Emergencies -> StatusOrNone] /\ version' \in [Emergencies -> Nat]
    BY <1>6, <2>1 DEF UpdateByVersion, Move, TypeOK, StatusOrNone
  <2>5. history' \in [Emergencies -> Seq(HistoryRow)]
    BY <1>6, <2>1, <2>3 DEF UpdateByVersion, Move, TypeOK
  <2> QED BY <1>6, <2>4, <2>5 DEF UpdateByVersion, Move, Goto, TypeOK
<1>7. ASSUME NEW r \in Requests, EmitEvent(r) PROVE TypeOK'
  <2>1. em[r] \in Emergencies /\ next[r] \in EmergencyStatus
    BY <1>7 DEF EmitEvent, HandlersOK, Serving
  <2> QED BY <1>7, <2>1, FinishTyped DEF EmitEvent, Announce, rows, TypeOK
<1>8. ASSUME NEW r \in Requests, Abort(r) PROVE TypeOK'
  BY <1>8, FinishTyped DEF Abort, rows, TypeOK
<1> QED
  BY <1>1, <1>2, <1>3, <1>4, <1>5, <1>6, <1>7, <1>8 DEF Next, Handle

-------------------------------------------------------------------------------
(* The part of HistoryIsPath and of Rows that is about one emergency.          *)
PathOf(e) ==
  /\ Len(history[e]) = version[e]
  /\ history[e] # <<>> => history[e][Len(history[e])].newState = status[e]
  /\ \A i \in 1 .. Len(history[e]) - 1 :
       /\ history[e][i + 1].previousState = history[e][i].newState
       /\ history[e][i + 1].newState \in validTransitions[history[e][i].newState]
RowOf(e) == (status[e] = "none" <=> version[e] = 0) /\ PathOf(e)

LEMMA RowsAreRowOf ==
  (Rows /\ HistoryIsPath) <=> \A e \in Emergencies : RowOf(e)
BY DEF Rows, HistoryIsPath, RowOf, PathOf

(* A row that a step leaves alone keeps its part.                              *)
LEMMA RowFrame ==
  ASSUME NEW e \in Emergencies, RowOf(e),
         status'[e] = status[e], version'[e] = version[e], history'[e] = history[e]
  PROVE  RowOf(e)'
BY DEF RowOf, PathOf

(* The first history row starts the path.                                      *)
LEMMA InsertStep ==
  ASSUME PathInv, NEW r \in Requests, CreateWithHistory(r)
  PROVE  (Rows /\ HistoryIsPath)'
<1> DEFINE first == [previousState |-> "none", newState |-> "ACTIVE"]
<1>0. PICK e \in Emergencies : e = em[r]
  BY DEF CreateWithHistory, PathInv, HandlersOK, Creating
<1>1. status[e] = "none"
  BY <1>0 DEF CreateWithHistory, PathInv, HandlersOK, Creating
<1>2. version[e] = 0 /\ Len(history[e]) = 0 /\ history[e] \in Seq(HistoryRow)
  BY <1>1 DEF PathInv, Rows, TypeOK
<1>3. /\ status'[e] = "ACTIVE" /\ version'[e] = 1 /\ history'[e] = Append(history[e], first)
      /\ \A f \in Emergencies \ {e} :
           status'[f] = status[f] /\ version'[f] = version[f] /\ history'[f] = history[f]
  BY <1>0, <1>1 DEF CreateWithHistory, Insert, PathInv, TypeOK
<1>4. first \in HistoryRow
  BY TableFacts DEF HistoryRow, StatusOrNone
<1>5. Len(history'[e]) = 1 /\ history'[e][1] = first
  BY <1>2, <1>3, <1>4, OneRowMore
<1>6. RowOf(e)'
  BY <1>3, <1>5 DEF RowOf, PathOf
<1>7. \A f \in Emergencies \ {e} : RowOf(f)'
  BY <1>3, RowFrame, RowsAreRowOf DEF PathInv
<1>8. \A f \in Emergencies : RowOf(f)'
  BY <1>6, <1>7
<1> QED BY <1>8 DEF Rows, HistoryIsPath, RowOf, PathOf

(* The update whose version still matches extends the path where it ends:      *)
(* nothing has moved the row since the move was validated.                     *)
LEMMA MoveStep ==
  ASSUME PathInv, NEW r \in Requests, UpdateByVersion(r)
  PROVE  (Rows /\ HistoryIsPath)'
<1>0. PICK e \in Emergencies : e = em[r]
  BY DEF UpdateByVersion, PathInv, HandlersOK, Moving
<1> DEFINE h == history[e]
           last == [previousState |-> current[r], newState |-> next[r]]
<1>1. /\ next[r] \in EmergencyStatus
      /\ version[e] = expectedVersion[r] /\ expectedVersion[r] \in 1 .. version[e]
      /\ next[r] \in validTransitions[status[e]] /\ current[r] = status[e]
  BY <1>0 DEF UpdateByVersion, PathInv, HandlersOK, Moving
<1>2. version[e] \in Nat /\ version[e] >= 1 /\ h \in Seq(HistoryRow)
  BY <1>1 DEF PathInv, TypeOK
<1>3. RowOf(e) /\ Len(h) = version[e]
  BY <1>1, RowsAreRowOf DEF PathInv, RowOf, PathOf
<1>4. /\ status'[e] = next[r] /\ version'[e] = version[e] + 1 /\ history'[e] = Append(h, last)
      /\ \A f \in Emergencies \ {e} :
           status'[f] = status[f] /\ version'[f] = version[f] /\ history'[f] = history[f]
  BY <1>0, <1>1 DEF UpdateByVersion, Move, PathInv, TypeOK
<1>5. last \in HistoryRow
  BY <1>1 DEF PathInv, TypeOK, HistoryRow
<1>6. /\ Len(history'[e]) = Len(h) + 1 /\ history'[e][Len(h) + 1] = last
      /\ \A i \in 1 .. Len(h) : history'[e][i] = h[i]
  BY <1>2, <1>4, <1>5, OneRowMore
<1>7. h[Len(h)].newState = status[e]
  BY <1>2, <1>3 DEF RowOf, PathOf
<1>8. ASSUME NEW i \in 1 .. Len(h)
      PROVE  /\ history'[e][i + 1].previousState = history'[e][i].newState
             /\ history'[e][i + 1].newState \in validTransitions[history'[e][i].newState]
  <2>1. CASE i = Len(h)
    BY <1>1, <1>6, <1>7, <2>1
  <2>2. CASE i # Len(h)
    <3>1. i \in 1 .. Len(h) - 1 /\ i + 1 \in 1 .. Len(h)
      BY <1>2, <1>3, <2>2
    <3> QED BY <1>3, <1>6, <3>1 DEF RowOf, PathOf
  <2> QED BY <2>1, <2>2
<1>9. RowOf(e)'
  <2>1. Len(history'[e]) = version'[e] /\ Len(history'[e]) - 1 = Len(h)
    BY <1>2, <1>3, <1>4, <1>6
  <2>2. history'[e][Len(history'[e])].newState = status'[e]
    BY <1>4, <1>6
  <2>3. status'[e] # "none" /\ version'[e] # 0
    BY <1>1, <1>2, <1>4, TableFacts
  <2> QED BY <1>8, <2>1, <2>2, <2>3 DEF RowOf, PathOf
<1>10. \A f \in Emergencies \ {e} : RowOf(f)'
  BY <1>4, RowFrame, RowsAreRowOf DEF PathInv
<1>11. \A f \in Emergencies : RowOf(f)'
  BY <1>9, <1>10
<1> QED BY <1>11 DEF Rows, HistoryIsPath, RowOf, PathOf

-------------------------------------------------------------------------------
HandlerOK(q) == Moving(q) /\ Creating(q) /\ Serving(q)

(* r's step leaves the local variables of the others alone.                    *)
Only(r) ==
  \A q \in Requests \ {r} :
    /\ pc'[q] = pc[q] /\ em'[q] = em[q] /\ next'[q] = next[q]
    /\ expectedVersion'[q] = expectedVersion[q] /\ current'[q] = current[q]

(* The others keep what they know while rows rest and r does not take the      *)
(* emergency of a report in flight.                                            *)
LEMMA OthersRest ==
  ASSUME PathInv, NEW r \in Requests, UNCHANGED rows, Only(r),
         \A q \in Requests \ {r} : pc[q] = "create" => em'[r] # em[q]
  PROVE  \A q \in Requests \ {r} : HandlerOK(q)'
<1> SUFFICES ASSUME NEW q \in Requests \ {r} PROVE HandlerOK(q)'
  OBVIOUS
<1>1. HandlerOK(q)
  BY DEF PathInv, HandlersOK, HandlerOK
<1>2. Moving(q)'
  BY <1>1 DEF Only, HandlerOK, Moving, rows
<1>3. Creating(q)'
  BY <1>1 DEF Only, HandlerOK, Creating, rows
<1>4. Serving(q)'
  BY <1>1 DEF Only, HandlerOK, Serving, rows
<1> QED BY <1>2, <1>3, <1>4 DEF HandlerOK

(* A handler that ends knows nothing, and takes no emergency from another.     *)
LEMMA FinishMoves ==
  ASSUME PathInv, NEW r \in Requests, Finish(r)
  PROVE  /\ HandlerOK(r)' /\ Only(r)
         /\ \A q \in Requests \ {r} : pc[q] = "create" => em'[r] # em[q]
<1>1. pc'[r] = "idle" /\ em'[r] = NoEmergency
  BY DEF Finish, PathInv, TypeOK
<1>2. Only(r)
  BY DEF Finish, PathInv, TypeOK, Only
<1>3. \A q \in Requests \ {r} : pc[q] = "create" => em'[r] # em[q]
  BY <1>1, NoEmergencyAssumption DEF PathInv, HandlersOK, Creating
<1> QED BY <1>1, <1>2, <1>3 DEF HandlerOK, Moving, Creating, Serving

(* A winning update makes every other move of that row lose: they named a      *)
(* version it no longer has.                                                   *)
LEMMA UpdateBeatsOthers ==
  ASSUME PathInv, NEW r \in Requests, UpdateByVersion(r), NEW q \in Requests \ {r}
  PROVE  HandlerOK(q)'
<1>0. PICK e \in Emergencies : e = em[r]
  BY DEF UpdateByVersion, PathInv, HandlersOK, Moving
<1>1. /\ expectedVersion[r] \in 1 .. version[e] /\ version[e] \in Nat
      /\ status[e] # "none"
  BY <1>0 DEF UpdateByVersion, PathInv, HandlersOK, Moving, TypeOK, Rows
<1>2. /\ version' = [version EXCEPT ![e] = version[e] + 1]
      /\ status' = [status EXCEPT ![e] = next[r]]
      /\ em' = em /\ next' = next /\ expectedVersion' = expectedVersion /\ current' = current
      /\ pc'[q] = pc[q]
  BY <1>0 DEF UpdateByVersion, Move, Goto, PathInv, TypeOK
<1>3. HandlerOK(q)
  BY DEF PathInv, HandlersOK, HandlerOK
<1>4. Moving(q)'
  <2> SUFFICES ASSUME pc[q] \in {"read", "update"} PROVE Moving(q)'
    BY <1>2 DEF Moving
  <2>1. /\ em[q] \in Emergencies /\ next[q] \in EmergencyStatus
        /\ expectedVersion[q] \in 1 .. version[em[q]]
    BY <1>3 DEF HandlerOK, Moving
  <2>2. CASE em[q] = e
    <3>1. version'[e] = version[e] + 1
      BY <1>2 DEF PathInv, TypeOK
    <3>2. expectedVersion[q] \in 1 .. version'[e] /\ version'[e] # expectedVersion[q]
      BY <1>1, <2>1, <2>2, <3>1
    <3> QED BY <1>2, <2>1, <2>2, <3>2 DEF Moving
  <2>3. CASE em[q] # e
    <3>1. version'[em[q]] = version[em[q]] /\ status'[em[q]] = status[em[q]]
      BY <1>2, <2>1, <2>3 DEF PathInv, TypeOK
    <3> QED BY <1>2, <1>3, <2>1, <3>1 DEF HandlerOK, Moving
  <2> QED BY <2>2, <2>3
<1>5. Creating(q)'
  <2> SUFFICES ASSUME pc[q] = "create" PROVE Creating(q)'
    BY <1>2 DEF Creating
  <2>1. em[q] # e /\ em[q] \in Emergencies
    BY <1>0, <1>3 DEF HandlerOK, Creating
  <2>2. status'[em[q]] = status[em[q]]
    BY <1>2, <2>1 DEF PathInv, TypeOK
  <2> QED BY <1>2, <1>3, <2>2 DEF HandlerOK, Creating
<1>6. Serving(q)'
  BY <1>2, <1>3 DEF HandlerOK, Serving
<1> QED BY <1>4, <1>5, <1>6 DEF HandlerOK

(* Every step keeps what the handlers know about the rows they serve.          *)
LEMMA HandlersStep ==
  ASSUME PathInv, [Next]_vars
  PROVE  HandlersOK'
<1> SUFFICES \A q \in Requests : HandlerOK(q)'
  BY DEF HandlersOK, HandlerOK
<1>0. \A q \in Requests : HandlerOK(q)
  BY DEF PathInv, HandlersOK, HandlerOK
<1>1. CASE UNCHANGED vars
  BY <1>0, <1>1 DEF vars, HandlerOK, Moving, Creating, Serving
<1>2. ASSUME NEW r \in Requests, NEW e \in Emergencies, CreateCheck(r, e)
      PROVE  \A q \in Requests : HandlerOK(q)'
  <2>1. /\ pc'[r] = "create" /\ em'[r] = e /\ next'[r] = "ACTIVE" /\ status[e] = "none"
        /\ \A q \in Requests : em[q] # e
        /\ UNCHANGED rows /\ Only(r)
    BY <1>2 DEF CreateCheck, Only, PathInv, TypeOK
  <2>2. \A q \in Requests \ {r} : HandlerOK(q)'
    BY <2>1, OthersRest
  <2>3. HandlerOK(r)'
    BY <2>1 DEF HandlerOK, Moving, Creating, Serving, Only, rows
  <2> QED BY <2>2, <2>3
<1>3. ASSUME NEW r \in Requests, CreateWithHistory(r)
      PROVE  \A q \in Requests : HandlerOK(q)'
  <2>0. PICK e \in Emergencies : e = em[r]
    BY <1>3 DEF CreateWithHistory, PathInv, HandlersOK, Creating
  <2>1. /\ pc[r] = "create" /\ next[r] = "ACTIVE" /\ status[e] = "none" /\ version[e] = 0
        /\ \A q \in Requests \ {r} : em[q] # e
    BY <1>3, <2>0 DEF CreateWithHistory, PathInv, HandlersOK, Creating, Rows
  <2>2. /\ pc'[r] = "emit" /\ em' = em /\ next' = next
        /\ expectedVersion' = expectedVersion /\ current' = current
        /\ \A q \in Requests \ {r} : pc'[q] = pc[q]
        /\ \A f \in Emergencies \ {e} : status'[f] = status[f] /\ version'[f] = version[f]
    BY <1>3, <2>0 DEF CreateWithHistory, Insert, Goto, PathInv, TypeOK
  <2>3. HandlerOK(r)'
    BY <2>0, <2>1, <2>2, TableFacts DEF HandlerOK, Moving, Creating, Serving
  <2>4. ASSUME NEW q \in Requests \ {r} PROVE HandlerOK(q)'
    <3>1. HandlerOK(q) /\ em[q] # e
      BY <1>0, <2>1
    <3> QED BY <2>2, <3>1 DEF HandlerOK, Moving, Creating, Serving
  <2> QED BY <2>3, <2>4
<1>4. ASSUME NEW r \in Requests, NEW e \in Emergencies, NEW n \in EmergencyStatus,
             NEW v \in 1 .. version[e], ValidateTransition(r, e, n, v)
      PROVE  \A q \in Requests : HandlerOK(q)'
  <2>1. /\ pc'[r] = "read" /\ em'[r] = e /\ next'[r] = n /\ expectedVersion'[r] = v
        /\ n \in validTransitions[status[e]]
        /\ UNCHANGED rows /\ Only(r)
    BY <1>4 DEF ValidateTransition, Only, PathInv, TypeOK
  <2>2. status[e] # "none"
    BY DEF PathInv, Rows
  <2>3. \A q \in Requests \ {r} : HandlerOK(q)'
    BY <2>1, <2>2, OthersRest DEF PathInv, HandlersOK, Creating
  <2>4. HandlerOK(r)'
    BY <2>1 DEF HandlerOK, Moving, Creating, Serving, rows
  <2> QED BY <2>3, <2>4
<1>5. ASSUME NEW r \in Requests, ReadCurrent(r)
      PROVE  \A q \in Requests : HandlerOK(q)'
  <2>1. /\ pc[r] = "read" /\ pc'[r] = "update" /\ current'[r] = status[em[r]]
        /\ em' = em /\ next' = next /\ expectedVersion' = expectedVersion
        /\ UNCHANGED rows /\ Only(r)
    BY <1>5 DEF ReadCurrent, Goto, Only, PathInv, TypeOK
  <2>2. \A q \in Requests \ {r} : pc[q] = "create" => em'[r] # em[q]
    BY <2>1 DEF PathInv, HandlersOK, Creating
  <2>3. HandlerOK(r)'
    BY <1>0, <2>1 DEF HandlerOK, Moving, Creating, Serving, rows
  <2> QED BY <2>1, <2>2, <2>3, OthersRest
<1>6. ASSUME NEW r \in Requests, UpdateByVersion(r)
      PROVE  \A q \in Requests : HandlerOK(q)'
  <2>1. /\ em[r] \in Emergencies /\ next[r] \in EmergencyStatus
        /\ pc'[r] = "emit" /\ em' = em /\ next' = next
    BY <1>6 DEF UpdateByVersion, Move, Goto, PathInv, HandlersOK, Moving, TypeOK
  <2>2. HandlerOK(r)'
    BY <2>1 DEF HandlerOK, Moving, Creating, Serving
  <2> QED BY <1>6, <2>2, UpdateBeatsOthers
<1>7. ASSUME NEW r \in Requests, EmitEvent(r) \/ Abort(r)
      PROVE  \A q \in Requests : HandlerOK(q)'
  BY <1>7, FinishMoves, OthersRest DEF EmitEvent, Abort
<1> QED
  BY <1>1, <1>2, <1>3, <1>4, <1>5, <1>6, <1>7 DEF Next, Handle

(* The history stays a path: two actions change the rows.                      *)
LEMMA PathStep ==
  ASSUME PathInv, [Next]_vars
  PROVE  PathInv'
<1>1. TypeOK'
  BY TypeStep DEF PathInv
<1>2. HandlersOK'
  BY HandlersStep
<1>3. (Rows /\ HistoryIsPath)'
  <2>1. CASE UNCHANGED rows
    BY <2>1 DEF rows, PathInv, Rows, HistoryIsPath
  <2>2. ASSUME ~UNCHANGED rows
        PROVE  \E r \in Requests : CreateWithHistory(r) \/ UpdateByVersion(r)
    BY <2>2 DEF Next, Handle, vars, rows, CreateCheck, ValidateTransition, ReadCurrent,
       EmitEvent, Abort
  <2> QED BY <2>1, <2>2, InsertStep, MoveStep
<1> QED BY <1>1, <1>2, <1>3 DEF PathInv

(* Initially nothing is reported and no handler runs.                          *)
LEMMA PathInit == Init => PathInv
<1> SUFFICES ASSUME Init PROVE PathInv
  OBVIOUS
<1>1. TypeOK
  BY DEF Init, TypeOK, StatusOrNone
<1>2. HandlersOK
  BY DEF Init, HandlersOK, Moving, Creating, Serving
<1>3. Rows /\ HistoryIsPath
  BY DEF Init, Rows, HistoryIsPath
<1> QED BY <1>1, <1>2, <1>3 DEF PathInv

(* Every column and every local variable keeps its type.                       *)
THEOREM TypeCorrect == Spec => []TypeOK
<1>1. PathInv => TypeOK
  BY DEF PathInv
<1> QED BY <1>1, PathInit, PathStep, PTL DEF Spec

(* Whatever handlers race, an emergency's history is the path it took through  *)
(* the transition table, one row per version, ending in the row's status.      *)
THEOREM HistoriesArePaths == Spec => []HistoryIsPath
<1>1. PathInv => HistoryIsPath
  BY DEF PathInv
<1> QED BY <1>1, PathInit, PathStep, PTL DEF Spec

(* The insert is the desk's Report and the update that finds its version is    *)
(* its Move, although both were validated earlier; no other step touches rows. *)
THEOREM ImplementsDesk == Spec => ImplementsEmergencyDesk
<1>1. Init => Desk!Init
  BY DEF Init, Desk!Init
<1>2. PathInv /\ [Next]_vars => [Desk!Next]_(Desk!deskVars)
  <2> SUFFICES ASSUME PathInv, [Next]_vars
               PROVE  Desk!Next \/ UNCHANGED Desk!deskVars
    OBVIOUS
  <2>1. ASSUME NEW r \in Requests, CreateWithHistory(r) PROVE Desk!Next
    <3>0. PICK e \in Emergencies : e = em[r]
      BY <2>1 DEF CreateWithHistory, PathInv, HandlersOK, Creating
    <3>1. status[e] = "none" /\ activeEmergencyPerTrip(e, "ACTIVE")
      BY <2>1, <3>0 DEF CreateWithHistory, PathInv, HandlersOK, Creating
    <3>2. Desk!Report(e)
      BY <2>1, <3>0, <3>1 DEF CreateWithHistory, Insert, Desk!Report, activeEmergencyPerTrip
    <3> QED BY <3>2 DEF Desk!Next
  <2>2. ASSUME NEW r \in Requests, UpdateByVersion(r) PROVE Desk!Next
    <3>0. PICK e \in Emergencies : e = em[r]
      BY <2>2 DEF UpdateByVersion, PathInv, HandlersOK, Moving
    <3>1. /\ next[r] \in EmergencyStatus /\ next[r] \in validTransitions[status[e]]
          /\ version[e] >= 1 /\ version[e] \in Nat
      BY <2>2, <3>0 DEF UpdateByVersion, PathInv, HandlersOK, Moving, TypeOK
    <3>2. status[e] \in EmergencyStatus
      BY <3>1 DEF PathInv, TypeOK, StatusOrNone, Rows
    <3>3. Desk!Move(e, next[r])
      BY <2>2, <3>0, <3>1, <3>2
      DEF UpdateByVersion, Move, Desk!Move, EmergencyStatus, validTransitions
    <3> QED BY <3>1, <3>3 DEF Desk!Next, EmergencyStatus
  <2>3. ASSUME ~UNCHANGED rows
        PROVE  \E r \in Requests : CreateWithHistory(r) \/ UpdateByVersion(r)
    BY <2>3 DEF Next, Handle, vars, rows, CreateCheck, ValidateTransition, ReadCurrent,
       EmitEvent, Abort
  <2> QED BY <2>1, <2>2, <2>3 DEF rows, Desk!deskVars
<1> QED
  BY <1>1, <1>2, PathInit, PathStep, PTL DEF Spec, ImplementsEmergencyDesk, Desk!Spec

-------------------------------------------------------------------------------
(* Announcements.  The table only leads upwards, so no emergency is twice in   *)
(* one state, and there is one handler at most that has a state to announce.   *)
Rank == [ACTIVE |-> 1, ACKNOWLEDGED |-> 2, RESPONDING |-> 3, RESOLVED |-> 4, CANCELLED |-> 4]

LEMMA TableLeadsUp ==
  \A s \in EmergencyStatus : \A n \in validTransitions[s] : Rank[s] < Rank[n]
BY DEF EmergencyStatus, validTransitions, Desk!EmergencyStatus, Desk!validTransitions, Rank

Been(e, s) == \E i \in 1 .. Len(history[e]) : history[e][i].newState = s
Announcing(r, e, s) == pc[r] = "emit" /\ em[r] = e /\ next[r] = s

NewsOf(e, s) ==
  /\ emitted[e][s] <= 1
  /\ Been(e, s) => status[e] \in EmergencyStatus /\ Rank[s] <= Rank[status[e]]
  /\ emitted[e][s] = 1 => Been(e, s)
  /\ \A r \in Requests : Announcing(r, e, s) => Been(e, s) /\ emitted[e][s] = 0
  /\ \A q, r \in Requests : Announcing(q, e, s) /\ Announcing(r, e, s) => q = r

News == \A e \in Emergencies, s \in EmergencyStatus : NewsOf(e, s)

(* A commit adds the one state the emergency is in now, and has not been in.   *)
LEMMA CommitIsNews ==
  ASSUME PathInv, News, NEW r \in Requests, CreateWithHistory(r) \/ UpdateByVersion(r)
  PROVE  News'
<1>0. PICK e \in Emergencies, s \in EmergencyStatus : e = em[r] /\ s = next[r]
  BY TableFacts DEF CreateWithHistory, UpdateByVersion, PathInv, HandlersOK, Creating, Moving
<1>1. PICK last \in HistoryRow :
        /\ last.newState = s /\ history' = [history EXCEPT ![e] = Append(@, last)]
        /\ status' = [status EXCEPT ![e] = s]
  <2>1. CASE CreateWithHistory(r)
    <3> DEFINE first == [previousState |-> "none", newState |-> "ACTIVE"]
    <3>1. first \in HistoryRow /\ s = "ACTIVE"
      BY <1>0, <2>1, TableFacts
      DEF HistoryRow, StatusOrNone, CreateWithHistory, PathInv, HandlersOK, Creating
    <3> QED BY <1>0, <2>1, <3>1 DEF CreateWithHistory, Insert
  <2>2. CASE UpdateByVersion(r)
    <3> DEFINE row == [previousState |-> current[r], newState |-> next[r]]
    <3>1. row \in HistoryRow
      BY <1>0 DEF HistoryRow, PathInv, TypeOK
    <3> QED BY <1>0, <2>2, <3>1 DEF UpdateByVersion, Move
  <2> QED BY <2>1, <2>2
<1>2. /\ UNCHANGED emitted /\ pc'[r] = "emit" /\ em' = em /\ next' = next
      /\ \A q \in Requests \ {r} : pc'[q] = pc[q]
      /\ pc[r] # "emit"
  BY DEF CreateWithHistory, UpdateByVersion, Insert, Move, Goto, PathInv, TypeOK
<1>3. ~Been(e, s)
  <2>1. CASE CreateWithHistory(r)
    BY <1>0, <2>1 DEF Been, CreateWithHistory, PathInv, HandlersOK, Creating, Rows
  <2>2. CASE UpdateByVersion(r)
    <3>1. s \in validTransitions[status[e]] /\ version[e] >= 1
      BY <1>0, <2>2 DEF UpdateByVersion, PathInv, HandlersOK, Moving, TypeOK
    <3>2. status[e] \in EmergencyStatus
      BY <3>1 DEF PathInv, TypeOK, Rows, StatusOrNone
    <3>3. Rank[status[e]] < Rank[s]
      BY <3>1, <3>2, TableLeadsUp
    <3>4. Rank[status[e]] \in Nat /\ Rank[s] \in Nat
      BY <3>2 DEF EmergencyStatus, Desk!EmergencyStatus, Rank
    <3> QED BY <3>3, <3>4 DEF News, NewsOf
  <2> QED BY <2>1, <2>2
<1>4. \A t \in EmergencyStatus : Been(e, t)' <=> Been(e, t) \/ t = s
  <2>1. history[e] \in Seq(HistoryRow) /\ history'[e] = Append(history[e], last)
    BY <1>1 DEF PathInv, TypeOK
  <2>2. /\ Len(history'[e]) = Len(history[e]) + 1 /\ Len(history[e]) \in Nat
        /\ \A i \in 1 .. Len(history[e]) : history'[e][i] = history[e][i]
        /\ history'[e][Len(history[e]) + 1] = last
    BY <1>1, <2>1, OneRowMore
  <2> QED BY <1>1, <2>2 DEF Been
<1>5. /\ \A t \in EmergencyStatus : Been(e, t) => Rank[t] <= Rank[s]
      /\ status'[e] = s /\ Rank[s] <= Rank[s]
  <2>1. \A t \in EmergencyStatus : Rank[t] \in Nat
    BY DEF EmergencyStatus, Desk!EmergencyStatus, Rank
  <2>2. CASE CreateWithHistory(r)
    BY <1>0, <1>1, <2>1, <2>2 DEF Been, CreateWithHistory, PathInv, HandlersOK, Creating, Rows, TypeOK
  <2>3. CASE UpdateByVersion(r)
    <3>1. s \in validTransitions[status[e]] /\ version[e] >= 1
      BY <1>0, <2>3 DEF UpdateByVersion, PathInv, HandlersOK, Moving, TypeOK
    <3>2. status[e] \in EmergencyStatus
      BY <3>1 DEF PathInv, TypeOK, Rows, StatusOrNone
    <3>3. Rank[status[e]] < Rank[s]
      BY <3>1, <3>2, TableLeadsUp
    <3>4. status'[e] = s
      BY <1>1 DEF PathInv, TypeOK
    <3> QED BY <2>1, <3>2, <3>3, <3>4 DEF News, NewsOf
  <2> QED BY <2>2, <2>3
<1>6. \A t \in EmergencyStatus : NewsOf(e, t)'
  <2> SUFFICES ASSUME NEW t \in EmergencyStatus PROVE NewsOf(e, t)'
    OBVIOUS
  <2>1. NewsOf(e, t) /\ emitted[e][t] \in Nat
    BY DEF News, PathInv, TypeOK
  <2>2. CASE t = s
    <3>1. emitted[e][t] = 0 /\ \A q \in Requests : ~Announcing(q, e, t)
      BY <1>3, <2>1, <2>2 DEF NewsOf
    <3>2. \A q \in Requests : Announcing(q, e, t)' => q = r
      BY <1>2, <3>1 DEF Announcing
    <3> QED BY <1>2, <1>4, <1>5, <2>2, <3>1, <3>2 DEF NewsOf
  <2>3. CASE t # s
    <3>1. \A q \in Requests : Announcing(q, e, t)' => Announcing(q, e, t)
      BY <1>0, <1>2, <2>3 DEF Announcing
    <3> QED BY <1>2, <1>4, <1>5, <2>1, <2>3, <3>1 DEF NewsOf
  <2> QED BY <2>2, <2>3
<1>7. ASSUME NEW f \in Emergencies \ {e}, NEW t \in EmergencyStatus PROVE NewsOf(f, t)'
  <2>1. status'[f] = status[f] /\ history'[f] = history[f]
    BY <1>1 DEF PathInv, TypeOK
  <2>2. \A q \in Requests : Announcing(q, f, t)' => Announcing(q, f, t)
    BY <1>0, <1>2 DEF Announcing
  <2> QED BY <1>2, <2>1, <2>2 DEF News, NewsOf, Been
<1> QED BY <1>6, <1>7 DEF News

LEMMA NewsStep ==
  ASSUME PathInv, News, [Next]_vars
  PROVE  News'
<1>1. ASSUME UNCHANGED <<rows, emitted>>,
             \A r \in Requests, e \in Emergencies, s \in EmergencyStatus :
               Announcing(r, e, s)' => Announcing(r, e, s)
      PROVE  News'
  BY <1>1 DEF News, NewsOf, Been, rows
<1>2. ASSUME NEW r \in Requests, EmitEvent(r) PROVE News'
  <2>1. /\ em[r] \in Emergencies /\ next[r] \in EmergencyStatus
        /\ Announcing(r, em[r], next[r])
    BY <1>2 DEF EmitEvent, PathInv, HandlersOK, Serving, Announcing
  <2>2. PICK e \in Emergencies, s \in EmergencyStatus : e = em[r] /\ s = next[r]
    BY <2>1
  <2>3. /\ UNCHANGED rows /\ pc'[r] = "idle"
        /\ \A q \in Requests \ {r} : pc'[q] = pc[q] /\ em'[q] = em[q] /\ next'[q] = next[q]
    BY <1>2 DEF EmitEvent, Finish, PathInv, TypeOK
  <2>4. \A q \in Requests, f \in Emergencies, t \in EmergencyStatus :
          Announcing(q, f, t)' => q # r /\ Announcing(q, f, t)
    BY <2>3 DEF Announcing
  <2>5. /\ emitted'[e][s] = emitted[e][s] + 1
        /\ \A f \in Emergencies, t \in EmergencyStatus :
             f # e \/ t # s => emitted'[f][t] = emitted[f][t]
    BY <1>2, <2>2 DEF EmitEvent, Announce, PathInv, TypeOK
  <2>6. ASSUME NEW f \in Emergencies, NEW t \in EmergencyStatus PROVE NewsOf(f, t)'
    <3>1. NewsOf(f, t) /\ (Been(f, t)' <=> Been(f, t)) /\ status' = status
      BY <2>3 DEF News, Been, rows
    <3>2. CASE f = e /\ t = s
      <4>1. Been(f, t) /\ emitted[f][t] = 0
        BY <2>1, <2>2, <3>1, <3>2 DEF NewsOf
      <4>2. \A q \in Requests : ~Announcing(q, f, t)'
        BY <2>1, <2>2, <2>4, <3>1, <3>2 DEF NewsOf
      <4> QED BY <2>5, <3>1, <3>2, <4>1, <4>2 DEF NewsOf
    <3>3. CASE f # e \/ t # s
      BY <2>4, <2>5, <3>1, <3>3 DEF NewsOf
    <3> QED BY <3>2, <3>3
  <2> QED BY <2>6 DEF News
<1>3. ASSUME NEW r \in Requests, Abort(r) PROVE News'
  BY <1>1, <1>3 DEF Abort, Finish, Announcing, PathInv, TypeOK
<1>4. ASSUME NEW r \in Requests, NEW e \in Emergencies, CreateCheck(r, e) PROVE News'
  BY <1>1, <1>4 DEF CreateCheck, Announcing, PathInv, TypeOK
<1>5. ASSUME NEW r \in Requests, NEW e \in Emergencies, NEW n \in EmergencyStatus,
             NEW v \in 1 .. version[e], ValidateTransition(r, e, n, v)
      PROVE  News'
  BY <1>1, <1>5 DEF ValidateTransition, Announcing, PathInv, TypeOK
<1>6. ASSUME NEW r \in Requests, ReadCurrent(r) PROVE News'
  BY <1>1, <1>6 DEF ReadCurrent, Goto, Announcing, PathInv, TypeOK
<1>7. CASE UNCHANGED vars
  BY <1>1, <1>7 DEF vars, rows, Announcing
<1> QED BY <1>2, <1>3, <1>4, <1>5, <1>6, <1>7, CommitIsNews DEF Next, Handle

(* Whatever handlers race or fail after their commit, each state an emergency  *)
(* was in is announced at most once, and no other.                             *)
THEOREM AnnouncementsAreSingle == Spec => []AnnouncedOnce
<1>1. Init => News
  BY DEF Init, News, NewsOf, Been, Announcing
<1>2. News => AnnouncedOnce
  BY DEF News, NewsOf, Been, AnnouncedOnce
<1> QED BY <1>1, <1>2, NewsStep, PathInit, PathStep, PTL DEF Spec
=================================================================================
