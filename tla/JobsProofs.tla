------------------------------ MODULE JobsProofs ------------------------------
(* Proofs about what the server does on its own or behind a ping: fences and  *)
(* their alerts, scheduled reports, health alerts and health snapshots, for   *)
(* any number of pings, subscriptions, processes and evaluations; and, at the *)
(* end, about the ten components of the operations side by side.              *)
EXTENDS MCOperations, RealtimeProofs, RegisterProofs, FiniteSetTheorems, TLAPS

--------------------------------------------------------------------------------
(* FenceWatch. The side of the fence that Redis remembers is that of the last *)
(* crossing, because the exchange is atomic; each time a lock is taken is     *)
(* counted, and belongs to one request or to one alert; a ping is stored only *)
(* behind those that its request has seen.                                    *)

(* The fence as the table or a cache has it.                                  *)
FenceRows == [spot : Spots \cup {"nowhere", "unknown"}, type : {"SCHOOL", "RESTRICTED", "none"}]

(* What a ping's request is at.                                               *)
PingSteps == {"new", "trip", "last", "stored", "asking", "asked", "placed", "alerting", "locked",
              "done"}
PingStates ==
  [step : PingSteps, host : Hosts \cup {"none"}, last : Nat, seen : Nat, inside : BOOLEAN,
   type : {"SCHOOL", "RESTRICTED", "none"}, was : BOOLEAN, todo : Seq(Categories), held : Nat]

(* The rows of pings and of alerts.                                           *)
StoredRows == [at : Pings, sequence : Nat, seen : Nat]
AlertRows ==
  [category : Categories, held : Nat, status : {"ACTIVE", "ACKNOWLEDGED", "RESOLVED", "PURGED"}]

(* What the variables range over.                                             *)
FenceTypes ==
  /\ stored \in Seq(StoredRows) /\ alerts \in Seq(AlertRows)
  /\ ping \in [Pings -> PingStates]
  /\ fence \in FenceRows /\ cache \in [Hosts -> FenceRows]
  /\ hydrations \subseteq [host : Hosts, fence : FenceRows, by : Pings \cup {0}]
  /\ lastPlace \in BOOLEAN /\ crossings \in Seq(BOOLEAN)
  /\ lock \subseteq Categories /\ locked \in [Categories -> Nat]

(* Who has come is served by a process.                                            *)
HostsAreKnown ==
  /\ \A p \in Pings : ping[p].step # "new" => ping[p].host \in Hosts
  /\ \A q \in hydrations : q.by \in Pings => ping[q.by].host \in Hosts

(* The pings that FindLatestPing has let pass are newer than what they have seen.  *)
PingsAreInOrder ==
  /\ stored = <<>> \/ \E i \in DOMAIN stored : \A j \in DOMAIN stored : stored[j].at <= stored[i].at
  /\ \A p \in Pings : ping[p].seen <= Len(stored)
  /\ \A p \in Pings : ping[p].step = "last" => \A j \in 1 .. ping[p].seen : stored[j].at < p
  /\ \A i \in DOMAIN stored : stored[i].seen < i
  /\ StoredInOrder

(* Redis remembers the last crossing.                                              *)
PlacesAlternate == CrossingsAlternate /\ lastPlace = (Len(crossings) % 2 = 1)

(* Is a request about to store the alert of its first reason, and which is    *)
(* that?                                                                      *)
HoldsLock(p) == ping[p].step = "locked"
LockReason(p) == Head(ping[p].todo)

(* Each time a lock was taken belongs to one request or to one alert.              *)
LocksAreUsedOnce ==
  /\ \A p \in Pings : HoldsLock(p) =>
       /\ ping[p].todo # <<>> /\ ping[p].held \in 1 .. locked[LockReason(p)]
       /\ \A q \in Pings :
            HoldsLock(q) /\ q # p /\ LockReason(q) = LockReason(p) => ping[q].held # ping[p].held
       /\ \A i \in DOMAIN alerts : alerts[i].category = LockReason(p) => alerts[i].held # ping[p].held
  /\ \A i \in DOMAIN alerts : alerts[i].held \in 1 .. locked[alerts[i].category]
  /\ OneAlertPerLock

(* The invariant of the fences.                                               *)
FenceInv == FenceTypes /\ HostsAreKnown /\ PingsAreInOrder /\ PlacesAlternate /\ LocksAreUsedOnce

(* It holds before the first ping.                                            *)
LEMMA FenceInitHolds == FwInit => FenceInv
<1> SUFFICES ASSUME FwInit PROVE FenceInv
  OBVIOUS
<1> USE PingAssumption DEF FwInit
<1>1. Fresh \in PingStates
  BY DEF Fresh, PingStates, PingSteps
<1>2. Unset \in FenceRows /\ NoFence \in FenceRows
  BY DEF FenceRows, Unset, NoFence
<1>6. FenceTypes
  <2>1. stored \in Seq(StoredRows) /\ alerts \in Seq(AlertRows) /\ crossings \in Seq(BOOLEAN)
    OBVIOUS
  <2>2. lock \subseteq Categories /\ locked \in [Categories -> Nat] /\ lastPlace \in BOOLEAN
    OBVIOUS
  <2>3. ping \in [Pings -> PingStates] /\ fence \in FenceRows /\ cache \in [Hosts -> FenceRows]
        /\ hydrations = {}
    BY <1>1, <1>2
  <2> QED
    BY <2>1, <2>2, <2>3 DEF FenceTypes
<1>7. HostsAreKnown
  BY DEF HostsAreKnown, Fresh
<1>3. PingsAreInOrder
  BY DEF PingsAreInOrder, StoredInOrder, Fresh
<1>4. PlacesAlternate
  <2>1. Len(crossings) = 0 /\ DOMAIN crossings = {} /\ lastPlace = FALSE
    OBVIOUS
  <2>2. ~(0 % 2 = 1)
    OBVIOUS
  <2> QED
    BY <2>1, <2>2 DEF PlacesAlternate, CrossingsAlternate
<1>5. LocksAreUsedOnce
  BY DEF LocksAreUsedOnce, OneAlertPerLock, HoldsLock, Fresh
<1> QED
  BY <1>3, <1>4, <1>5, <1>6, <1>7 DEF FenceInv

(* The rows and the requests one by one.                                           *)
LEMMA StoredAreTyped ==
  FenceTypes =>
    /\ Len(stored) \in Nat /\ DOMAIN stored = 1 .. Len(stored)
    /\ \A i \in DOMAIN stored : /\ stored[i].at \in Pings /\ stored[i].at \in Nat \ {0}
                               /\ stored[i].sequence \in Nat /\ stored[i].seen \in Nat
<1>1. FenceTypes => /\ Len(stored) \in Nat /\ DOMAIN stored = 1 .. Len(stored)
                    /\ \A i \in DOMAIN stored : stored[i] \in StoredRows
  BY DEF FenceTypes
<1>2. \A r \in StoredRows : r.at \in Pings /\ r.at \in Nat \ {0} /\ r.sequence \in Nat /\ r.seen \in Nat
  BY PingAssumption DEF StoredRows
<1> QED
  BY <1>1, <1>2

(* The same of the alerts.                                                    *)
LEMMA AlertsAreTyped ==
  FenceTypes =>
    /\ Len(alerts) \in Nat /\ DOMAIN alerts = 1 .. Len(alerts)
    /\ \A i \in DOMAIN alerts : alerts[i].category \in Categories /\ alerts[i].held \in Nat
<1>1. FenceTypes => /\ Len(alerts) \in Nat /\ DOMAIN alerts = 1 .. Len(alerts)
                    /\ \A i \in DOMAIN alerts : alerts[i] \in AlertRows
  BY DEF FenceTypes
<1>2. \A r \in AlertRows : r.category \in Categories /\ r.held \in Nat
  BY DEF AlertRows
<1> QED
  BY <1>1, <1>2

(* The same of the requests.                                                  *)
LEMMA RequestsAreTyped ==
  \A r \in PingStates :
    /\ r.host \in Hosts \cup {"none"} /\ r.seen \in Nat /\ r.held \in Nat
    /\ r.inside \in BOOLEAN /\ r.todo \in Seq(Categories)
    /\ r.todo # <<>> => Head(r.todo) \in Categories /\ Tail(r.todo) \in Seq(Categories)
  BY DEF PingStates

(* What the read of the last ping says of the stored ones.                         *)
LEMMA LatestIsLast ==
  FenceTypes /\ PingsAreInOrder =>
    /\ Latest \in Nat /\ SequenceAt(Latest) \in Nat
    /\ \A j \in DOMAIN stored : stored[j].at <= Latest
<1> SUFFICES ASSUME FenceTypes, PingsAreInOrder
             PROVE  /\ Latest \in Nat /\ SequenceAt(Latest) \in Nat
                    /\ \A j \in DOMAIN stored : stored[j].at <= Latest
  OBVIOUS
<1> USE PingAssumption
<1>1. CASE stored = <<>>
  BY <1>1 DEF Latest, SequenceAt
<1>2. CASE stored # <<>>
  <2> DEFINE times == {stored[i].at : i \in DOMAIN stored}
  <2>1. \E m \in times : \A y \in times : m >= y
    BY <1>2 DEF PingsAreInOrder, FenceTypes
  <2>2. Latest \in times /\ \A y \in times : Latest >= y
    BY <1>2, <2>1 DEF Latest, Max
  <2>3. PICK i \in DOMAIN stored : stored[i].at = Latest
    BY <2>2
  <2>4. Latest \in Nat \ {0}
    BY <2>3, StoredAreTyped
  <2>5. (CHOOSE k \in DOMAIN stored : stored[k].at = Latest) \in DOMAIN stored
    BY <2>3
  <2>6. SequenceAt(Latest) \in Nat
    BY <2>4, <2>5, StoredAreTyped DEF SequenceAt
  <2>7. \A j \in DOMAIN stored : stored[j].at <= Latest
    BY <2>2, <2>4, StoredAreTyped
  <2> QED
    BY <2>4, <2>6, <2>7
<1> QED
  BY <1>1, <1>2

(* What a step that is not about an invariant leaves of it.                        *)
LEMMA OrderFrame ==
  FenceInv /\ UNCHANGED stored
  /\ (\A p \in Pings : ping'[p].seen = ping[p].seen /\ (ping'[p].step = "last" => ping[p].step = "last"))
  => PingsAreInOrder'
  BY DEF FenceInv, PingsAreInOrder, StoredInOrder

(* The same of the locks.                                                     *)
LEMMA LockFrame ==
  FenceInv /\ UNCHANGED <<locked, alerts>>
  /\ (\A p \in Pings : ping'[p].step = "locked" =>
        ping[p].step = "locked" /\ ping'[p].todo = ping[p].todo /\ ping'[p].held = ping[p].held)
  => LocksAreUsedOnce'
  BY DEF FenceInv, LocksAreUsedOnce, OneAlertPerLock, HoldsLock, LockReason

(* The same of the side.                                                           *)
LEMMA PlaceFrame == FenceInv /\ UNCHANGED <<crossings, lastPlace>> => PlacesAlternate'
  BY DEF FenceInv, PlacesAlternate, CrossingsAlternate

(* Every step of every ping, of the fence's editors and of time keeps the     *)
(* invariant.                                                                 *)
LEMMA FenceStepHolds == FenceInv /\ [FwNext]_fwVars => FenceInv'
<1> SUFFICES ASSUME FenceInv, [FwNext]_fwVars PROVE FenceInv'
  OBVIOUS
<1>a. FenceTypes /\ HostsAreKnown
  BY DEF FenceInv
<1>b. \A p \in Pings : ping[p] \in PingStates
  BY <1>a DEF FenceTypes
(* A step of one request.                                                        *)
<1>c. ASSUME NEW p \in Pings, NEW x \in PingStates, ping' = [ping EXCEPT ![p] = x],
             x.host \in Hosts
      PROVE  /\ ping' \in [Pings -> PingStates] /\ ping'[p] = x
             /\ \A q \in Pings : q # p => ping'[q] = ping[q]
             /\ \A q \in Pings : ping[q].host \in Hosts => ping'[q].host \in Hosts
  BY <1>a, <1>c DEF FenceTypes
<1>1. ASSUME NEW p \in Pings, NEW h \in Hosts, FindActiveTrip(p, h) PROVE FenceInv'
  <2> DEFINE x == [ping[p] EXCEPT !.step = IF driving THEN "trip" ELSE "done",
                                  !.host = h, !.seen = Len(stored)]
  <2>1. ping' = [ping EXCEPT ![p] = x]
    BY <1>1, <1>a DEF FindActiveTrip, FenceTypes
  <2>a. Len(stored) \in Nat /\ ping[p] \in PingStates
    BY <1>b, <1>a, StoredAreTyped
  <2>2. x \in PingStates /\ x.host \in Hosts /\ x.step \in {"trip", "done"} /\ x.seen = Len(stored)
    BY <2>a DEF PingStates, PingSteps
  <2> HIDE DEF x
  <2>3. /\ ping' \in [Pings -> PingStates] /\ ping'[p] = x
        /\ \A q \in Pings : q # p => ping'[q] = ping[q]
        /\ \A q \in Pings : ping[q].host \in Hosts => ping'[q].host \in Hosts
    BY <1>c, <2>1, <2>2
  <2>4. UNCHANGED <<stored, fence, cache, hydrations, lastPlace, crossings, lock, locked, alerts>>
    BY <1>1 DEF FindActiveTrip, alerting
  <2>5. FenceTypes' /\ HostsAreKnown'
    BY <1>a, <2>2, <2>3, <2>4 DEF FenceTypes, HostsAreKnown
  <2>6. PingsAreInOrder'
    BY <1>a, <2>2, <2>3, <2>4, StoredAreTyped DEF FenceInv, PingsAreInOrder, StoredInOrder
  <2> QED
    BY <2>2, <2>3, <2>4, <2>5, <2>6, LockFrame, PlaceFrame DEF FenceInv
<1>2. ASSUME NEW p \in Pings, FindLatestPing(p) PROVE FenceInv'
  <2> DEFINE x == [ping[p] EXCEPT !.step = IF Stale(p) THEN "done" ELSE "last",
                                  !.last = SequenceAt(Latest)]
  <2>0. Latest \in Nat /\ SequenceAt(Latest) \in Nat
        /\ \A j \in DOMAIN stored : stored[j].at <= Latest
    BY LatestIsLast DEF FenceInv
  <2>1. ping' = [ping EXCEPT ![p] = x]
    BY <1>2, <1>a DEF FindLatestPing, FenceTypes
  <2>2. /\ x \in PingStates /\ x.host \in Hosts /\ x.step \in {"last", "done"}
        /\ x.seen = ping[p].seen /\ (x.step = "last" => p > Latest)
    <3>1. ping[p].host \in Hosts
      BY <1>2, <1>a DEF FindLatestPing, HostsAreKnown
    <3>2. x \in PingStates /\ x.host = ping[p].host /\ x.seen = ping[p].seen
          /\ x.step = IF Stale(p) THEN "done" ELSE "last"
      BY <1>b, <2>0 DEF PingStates, PingSteps
    <3>3. ~Stale(p) => p > Latest
      BY <2>0, PingAssumption DEF Stale
    <3> QED
      BY <3>1, <3>2, <3>3
  <2> HIDE DEF x
  <2>3. /\ ping' \in [Pings -> PingStates] /\ ping'[p] = x
        /\ \A q \in Pings : q # p => ping'[q] = ping[q]
        /\ \A q \in Pings : ping[q].host \in Hosts => ping'[q].host \in Hosts
    BY <1>c, <2>1, <2>2
  <2>4. UNCHANGED <<stored, fence, cache, hydrations, lastPlace, crossings, lock, locked, alerts>>
    BY <1>2 DEF FindLatestPing, alerting
  <2>5. FenceTypes' /\ HostsAreKnown'
    BY <1>a, <2>2, <2>3, <2>4 DEF FenceTypes, HostsAreKnown
  <2>6. PingsAreInOrder'
    <3>1. ping[p].seen \in Nat /\ ping[p].seen <= Len(stored)
      BY <1>b, RequestsAreTyped DEF FenceInv, PingsAreInOrder
    <3>2. \A j \in 1 .. ping[p].seen : stored[j].at \in Nat /\ stored[j].at <= Latest
      BY <1>a, <2>0, <3>1, StoredAreTyped
    <3>3. x.step = "last" => \A j \in 1 .. ping[p].seen : stored[j].at < p
      BY <2>0, <2>2, <3>2, PingAssumption
    <3> QED
      BY <2>2, <2>3, <2>4, <3>3 DEF FenceInv, PingsAreInOrder, StoredInOrder
  <2> QED
    BY <2>2, <2>3, <2>4, <2>5, <2>6, LockFrame, PlaceFrame DEF FenceInv
<1>3. ASSUME NEW p \in Pings, CreatePing(p) PROVE FenceInv'
  <2> DEFINE x == [ping[p] EXCEPT !.step = "stored"]
             r == [at |-> p, sequence |-> ping[p].last + 1, seen |-> ping[p].seen]
             n == Len(stored)
  <2>1. ping' = [ping EXCEPT ![p] = x]
    BY <1>3, <1>a DEF CreatePing, FenceTypes
  <2>2. /\ x \in PingStates /\ x.host \in Hosts /\ x.step = "stored"
        /\ x.seen = ping[p].seen /\ r \in StoredRows /\ r.at = p /\ r.seen = ping[p].seen
    <3>1. ping[p].host \in Hosts
      BY <1>3, <1>a DEF CreatePing, HostsAreKnown
    <3>2. x \in PingStates /\ x.host = ping[p].host /\ x.step = "stored" /\ x.seen = ping[p].seen
      BY <1>b DEF PingStates, PingSteps
    <3>3. ping[p].last \in Nat /\ ping[p].seen \in Nat
      BY <1>b DEF PingStates
    <3>4. r \in StoredRows /\ r.at = p /\ r.seen = ping[p].seen
      BY <3>3 DEF StoredRows
    <3> QED
      BY <3>1, <3>2, <3>4
  <2>0. stored' = Append(stored, r)
    BY <1>3 DEF CreatePing
  <2> HIDE DEF x, r
  <2>3. /\ ping' \in [Pings -> PingStates] /\ ping'[p] = x
        /\ \A q \in Pings : q # p => ping'[q] = ping[q]
        /\ \A q \in Pings : ping[q].host \in Hosts => ping'[q].host \in Hosts
    BY <1>c, <2>1, <2>2
  <2>4. UNCHANGED <<fence, cache, hydrations, lastPlace, crossings, lock, locked, alerts>>
    BY <1>3 DEF CreatePing, alerting
  <2>a. /\ n \in Nat /\ Len(stored') = n + 1 /\ DOMAIN stored = 1 .. n /\ DOMAIN stored' = 1 .. n + 1
        /\ \A i \in 1 .. n : stored'[i] = stored[i] /\ stored[i].at \in Nat
        /\ stored'[n + 1] = r /\ stored' \in Seq(StoredRows)
    <3>1. stored \in Seq(StoredRows)
      BY <1>a DEF FenceTypes
    <3>2. n \in Nat /\ DOMAIN stored = 1 .. n /\ \A i \in 1 .. n : stored[i].at \in Nat
      BY <1>a, StoredAreTyped
    <3> QED
      BY <2>0, <2>2, <3>1, <3>2
  <2>5. FenceTypes' /\ HostsAreKnown'
    BY <1>a, <2>2, <2>3, <2>4, <2>a DEF FenceTypes, HostsAreKnown
  <2>6. PingsAreInOrder'
    <3>1. /\ \A q \in Pings : ping'[q].seen = ping[q].seen /\ ping[q].seen \in Nat
          /\ \A q \in Pings : ping'[q].step = "last" => ping[q].step = "last"
          /\ \A q \in Pings : ping[q].seen <= n
      BY <1>b, <2>2, <2>3, RequestsAreTyped DEF FenceInv, PingsAreInOrder
    <3>p. p \in Nat
      BY PingAssumption
    <3>o. /\ n = 0 \/ \E i \in 1 .. n : \A j \in 1 .. n : stored[j].at <= stored[i].at
          /\ \A q \in Pings : ping[q].step = "last" => \A j \in 1 .. ping[q].seen : stored[j].at < q
          /\ \A i \in 1 .. n : stored[i].seen < i
          /\ \A i \in 1 .. n : \A j \in 1 .. stored[i].seen : stored[j].at < stored[i].at
      BY <2>a DEF FenceInv, PingsAreInOrder, StoredInOrder
    <3> HIDE DEF n
    <3>2. \E i \in DOMAIN stored' : \A j \in DOMAIN stored' : stored'[j].at <= stored'[i].at
      <4>1. CASE n = 0
        BY <2>2, <2>a, <4>1, <3>p
      <4>2. CASE n # 0
        <5>1. PICK i \in 1 .. n : \A j \in 1 .. n : stored[j].at <= stored[i].at
          BY <3>o, <4>2
        <5>2. CASE p <= stored[i].at
          <6>1. i \in DOMAIN stored' /\ \A j \in DOMAIN stored' : stored'[j].at <= stored'[i].at
            BY <2>2, <2>a, <5>1, <5>2
          <6> QED
            BY <6>1
        <5>3. CASE ~(p <= stored[i].at)
          <6>1. n + 1 \in DOMAIN stored' /\ \A j \in DOMAIN stored' : stored'[j].at <= stored'[n + 1].at
            BY <2>2, <2>a, <5>1, <5>3, <3>p
          <6> QED
            BY <6>1
        <5> QED
          BY <5>2, <5>3
      <4> QED
        BY <4>1, <4>2
    <3>3. \A q \in Pings : ping'[q].seen <= Len(stored')
      BY <2>a, <3>1
    <3>4. \A q \in Pings : ping'[q].step = "last" => \A j \in 1 .. ping'[q].seen : stored'[j].at < q
      BY <2>a, <3>1, <3>o
    <3>5. ASSUME NEW i \in DOMAIN stored'
          PROVE  stored'[i].seen < i /\ \A j \in 1 .. stored'[i].seen : stored'[j].at < stored'[i].at
      <4>1. CASE i = n + 1
        <5>1. \A j \in 1 .. ping[p].seen : stored[j].at < p
          BY <1>3, <3>o DEF CreatePing
        <5> QED
          BY <2>2, <2>a, <3>1, <4>1, <5>1
      <4>2. CASE i # n + 1
        <5>1. i \in 1 .. n
          BY <2>a, <3>5, <4>2
        <5>2. stored[i].seen \in Nat
          BY <1>a, <2>a, <5>1, StoredAreTyped
        <5>3. \A j \in 1 .. stored[i].seen : j \in 1 .. n
          BY <2>a, <3>o, <5>1, <5>2
        <5> QED
          BY <2>a, <3>o, <5>1, <5>3
      <4> QED
        BY <4>1, <4>2
    <3> QED
      BY <3>2, <3>3, <3>4, <3>5 DEF PingsAreInOrder, StoredInOrder
  <2> QED
    BY <2>2, <2>3, <2>4, <2>5, <2>6, LockFrame, PlaceFrame DEF FenceInv
<1>4. ASSUME NEW p \in Pings, AskForFences(p) PROVE FenceInv'
  <2> DEFINE x == [ping[p] EXCEPT !.step = "asking"]
             h == ping[p].host
  <2>1. ping' = [ping EXCEPT ![p] = x]
    BY <1>4, <1>a DEF AskForFences, FenceTypes
  <2>2. /\ x \in PingStates /\ x.host \in Hosts /\ x.step = "asking" /\ x.seen = ping[p].seen
        /\ h \in Hosts
    BY <1>4, <1>b, <1>a DEF PingStates, PingSteps, HostsAreKnown, AskForFences
  <2> HIDE DEF x
  <2>3. /\ ping' \in [Pings -> PingStates] /\ ping'[p] = x
        /\ \A q \in Pings : q # p => ping'[q] = ping[q]
        /\ \A q \in Pings : ping[q].host \in Hosts => ping'[q].host \in Hosts
    BY <1>c, <2>1, <2>2
  <2>4. /\ UNCHANGED <<stored, fence, cache, lastPlace, crossings, lock, locked, alerts>>
        /\ hydrations' = hydrations \cup {[host |-> h, fence |-> fence, by |-> p]}
    BY <1>4 DEF AskForFences, alerting
  <2>5. FenceTypes'
    BY <1>a, <2>2, <2>3, <2>4 DEF FenceTypes
  <2>6. HostsAreKnown'
    BY <1>a, <2>2, <2>3, <2>4 DEF HostsAreKnown
  <2> QED
    BY <2>2, <2>3, <2>4, <2>5, <2>6, OrderFrame, LockFrame, PlaceFrame DEF FenceInv
<1>5. ASSUME NEW p \in Pings, NEW spot \in Spots, Evaluate(p, spot) PROVE FenceInv'
  <2> DEFINE f == cache[ping[p].host]
             x == IF f \in {NoFence, Unset} THEN [ping[p] EXCEPT !.step = "done"]
                  ELSE [ping[p] EXCEPT !.step = "placed", !.type = f.type,
                                       !.inside = (spot = f.spot)]
  <2>1. ping' = [ping EXCEPT ![p] = x]
    BY <1>5, <1>a DEF Evaluate, FenceTypes
  <2>h. ping[p].host \in Hosts
    BY <1>5, <1>a DEF HostsAreKnown, Evaluate
  <2>f. f.type \in {"SCHOOL", "RESTRICTED", "none"}
    BY <1>a, <2>h DEF FenceTypes, FenceRows
  <2>2. x \in PingStates /\ x.host \in Hosts /\ x.step \in {"done", "placed"} /\ x.seen = ping[p].seen
    <3>1. CASE f \in {NoFence, Unset}
      BY <1>b, <2>h, <3>1 DEF PingStates, PingSteps
    <3>2. CASE f \notin {NoFence, Unset}
      BY <1>b, <2>h, <2>f, <3>2, ZenonT(60) DEF PingStates, PingSteps
    <3> QED
      BY <3>1, <3>2
  <2> HIDE DEF x
  <2>3. /\ ping' \in [Pings -> PingStates] /\ ping'[p] = x
        /\ \A q \in Pings : q # p => ping'[q] = ping[q]
        /\ \A q \in Pings : ping[q].host \in Hosts => ping'[q].host \in Hosts
    BY <1>c, <2>1, <2>2
  <2>4. UNCHANGED <<stored, fence, cache, hydrations, lastPlace, crossings, lock, locked, alerts>>
    BY <1>5 DEF Evaluate, alerting
  <2>5. FenceTypes' /\ HostsAreKnown'
    BY <1>a, <2>2, <2>3, <2>4 DEF FenceTypes, HostsAreKnown
  <2> QED
    BY <2>2, <2>3, <2>4, <2>5, OrderFrame, LockFrame, PlaceFrame DEF FenceInv
<1>6. ASSUME NEW p \in Pings, NEW fast \in BOOLEAN, Compare(p, fast) PROVE FenceInv'
  <2> DEFINE c == Crossing(p, lastPlace)
             d == IF ping[p].inside /\ fast THEN <<"SPEEDING">> ELSE <<>>
             x == [ping[p] EXCEPT !.step = "alerting", !.todo = c \o d]
  <2>b. ping[p].inside \in BOOLEAN /\ lastPlace \in BOOLEAN
    BY <1>a, <1>b, RequestsAreTyped DEF FenceTypes
  <2>c. c \in Seq(Categories) /\ (c = <<>> <=> ping[p].inside = lastPlace)
    <3>1. CASE ping[p].inside /\ ~lastPlace
      <4>1. \E k \in Categories : c = <<k>>
        BY <3>1 DEF Crossing, Categories
      <4>2. PICK k \in Categories : c = <<k>>
        BY <4>1
      <4>3. c \in Seq(Categories) /\ c # <<>>
        BY <4>2
      <4> QED
        BY <3>1, <4>3
    <3>2. CASE ~ping[p].inside /\ lastPlace
      <4>1. c = <<"GEOFENCE_EXIT">>
        BY <3>2 DEF Crossing
      <4>2. c \in Seq(Categories) /\ c # <<>>
        BY <4>1 DEF Categories
      <4> QED
        BY <3>2, <4>2
    <3>3. CASE ping[p].inside = lastPlace
      <4>1. c = <<>>
        BY <3>3, <2>b DEF Crossing
      <4> QED
        BY <3>3, <4>1
    <3> QED
      BY <2>b, <3>1, <3>2, <3>3
  <2>d. d \in Seq(Categories)
    <3>1. <<"SPEEDING">> \in Seq(Categories)
      BY DEF Categories
    <3>2. d = <<"SPEEDING">> \/ d = <<>>
      OBVIOUS
    <3> QED
      BY <3>1, <3>2
  <2>1. ping' = [ping EXCEPT ![p] = x]
    BY <1>6, <1>a DEF Compare, GetSet, Judge, FenceTypes
  <2> HIDE DEF c, d
  <2>e. c \o d \in Seq(Categories)
    BY <2>c, <2>d
  <2>2. x \in PingStates /\ x.host \in Hosts /\ x.step = "alerting" /\ x.seen = ping[p].seen
    BY <1>6, <1>a, <1>b, <2>e, ZenonT(60) DEF PingStates, PingSteps, Compare, HostsAreKnown
  <2> HIDE DEF x
  <2>3. /\ ping' \in [Pings -> PingStates] /\ ping'[p] = x
        /\ \A q \in Pings : q # p => ping'[q] = ping[q]
        /\ \A q \in Pings : ping[q].host \in Hosts => ping'[q].host \in Hosts
    BY <1>c, <2>1, <2>2
  <2>4. /\ UNCHANGED <<stored, fence, cache, hydrations, lock, locked, alerts>>
        /\ lastPlace' = ping[p].inside
        /\ crossings' = IF c = <<>> THEN crossings ELSE Append(crossings, ping[p].inside)
    BY <1>6 DEF Compare, GetSet, Judge, alerting, c
  <2>5. FenceTypes' /\ HostsAreKnown'
    <3>1. crossings \in Seq(BOOLEAN)
      BY <1>a DEF FenceTypes
    <3>2. \A S : \A t \in Seq(S), e \in S : Append(t, e) \in Seq(S)
      OBVIOUS
    <3>3. Append(crossings, ping[p].inside) \in Seq(BOOLEAN)
      BY <2>b, <3>1, <3>2, Zenon
    <3>4. crossings' \in Seq(BOOLEAN) /\ lastPlace' \in BOOLEAN
      BY <2>4, <2>b, <3>1, <3>3
    <3> QED
      BY <1>a, <2>2, <2>3, <2>4, <3>4 DEF FenceTypes, HostsAreKnown
  <2>6. PlacesAlternate'
    <3>1. CASE ping[p].inside = lastPlace
      BY <2>4, <2>c, <3>1 DEF FenceInv, PlacesAlternate, CrossingsAlternate
    <3>2. CASE ping[p].inside # lastPlace
      <4> DEFINE n == Len(crossings)
      <4>1. crossings' = Append(crossings, ping[p].inside) /\ crossings \in Seq(BOOLEAN)
        BY <1>a, <2>4, <2>c, <3>2 DEF FenceTypes
      <4>2. /\ n \in Nat /\ Len(crossings') = n + 1 /\ crossings'[n + 1] = ping[p].inside
            /\ \A i \in 1 .. n : crossings'[i] = crossings[i]
            /\ DOMAIN crossings = 1 .. n /\ DOMAIN crossings' = 1 .. n + 1
        BY <4>1, <2>b
      <4>3. lastPlace = (n % 2 = 1) /\ \A i \in 1 .. n : crossings[i] = (i % 2 = 1)
        BY <4>2 DEF FenceInv, PlacesAlternate, CrossingsAlternate
      <4> HIDE DEF n
      <4>4. (n + 1) % 2 = 1 <=> n % 2 # 1
        BY <4>2
      <4>5. ping[p].inside = ((n + 1) % 2 = 1)
        BY <2>b, <3>2, <4>3, <4>4
      <4>6. \A i \in 1 .. n + 1 : crossings'[i] = (i % 2 = 1)
        BY <4>2, <4>3, <4>5
      <4> QED
        BY <2>4, <4>2, <4>5, <4>6 DEF PlacesAlternate, CrossingsAlternate
    <3> QED
      BY <3>1, <3>2
  <2> QED
    BY <2>2, <2>3, <2>4, <2>5, <2>6, OrderFrame, LockFrame DEF FenceInv
<1>7. ASSUME NEW p \in Pings, TakeLock(p) PROVE FenceInv'
  <2> DEFINE c == Head(ping[p].todo)
  <2>0. /\ c \in Categories /\ Tail(ping[p].todo) \in Seq(Categories) /\ ping[p].todo # <<>>
        /\ ping[p].step = "alerting" /\ ping[p].host \in Hosts
    BY <1>7, <1>a, <1>b, RequestsAreTyped DEF TakeLock, HostsAreKnown
  <2>a. UNCHANGED <<stored, fence, cache, hydrations, lastPlace, crossings, alerts>>
    BY <1>7 DEF TakeLock
  <2>b. LocksAreUsedOnce /\ locked \in [Categories -> Nat]
    BY <1>a DEF FenceInv, FenceTypes
  <2>1. ASSUME ping' = [ping EXCEPT ![p].todo = Tail(@)],
               lock' \subseteq Categories, locked' \in [Categories -> Nat],
               \A d \in Categories : locked[d] <= locked'[d]
        PROVE  FenceInv'
    <3> DEFINE x == [ping[p] EXCEPT !.todo = Tail(@)]
    <3>1. ping' = [ping EXCEPT ![p] = x]
      BY <2>1, <1>a DEF FenceTypes
    <3>2. x \in PingStates /\ x.host \in Hosts /\ x.step = "alerting" /\ x.seen = ping[p].seen
      BY <1>b, <2>0 DEF PingStates, PingSteps
    <3> HIDE DEF x
    <3>3. /\ ping' \in [Pings -> PingStates] /\ ping'[p] = x
          /\ \A q \in Pings : q # p => ping'[q] = ping[q]
          /\ \A q \in Pings : ping[q].host \in Hosts => ping'[q].host \in Hosts
      BY <1>c, <3>1, <3>2
    <3>4. FenceTypes' /\ HostsAreKnown'
      BY <1>a, <2>1, <2>a, <3>2, <3>3 DEF FenceTypes, HostsAreKnown
    <3>5. LocksAreUsedOnce'
      <4>1. \A q \in Pings : HoldsLock(q)' => HoldsLock(q) /\ ping'[q] = ping[q]
        BY <3>2, <3>3 DEF HoldsLock
      <4>2. \A q \in Pings : HoldsLock(q) => LockReason(q) \in Categories /\ ping[q].held \in Nat
        BY <1>b, <2>b, RequestsAreTyped DEF LocksAreUsedOnce, LockReason
      <4>3. \A i \in DOMAIN alerts : alerts[i].category \in Categories /\ alerts[i].held \in Nat
        BY <1>a, AlertsAreTyped
      <4>4. \A d \in Categories : locked[d] \in Nat /\ locked'[d] \in Nat /\ locked[d] <= locked'[d]
        BY <2>1, <2>b
      <4> QED
        BY <2>a, <2>b, <4>1, <4>2, <4>3, <4>4 DEF LocksAreUsedOnce, OneAlertPerLock, LockReason
    <3> QED
      BY <2>a, <3>2, <3>3, <3>4, <3>5, OrderFrame, PlaceFrame DEF FenceInv
  <2>2. CASE UNCHANGED <<lock, locked>> /\ ping' = [ping EXCEPT ![p].todo = Tail(@)]
    BY <1>a, <2>1, <2>2 DEF FenceTypes
  <2>3. CASE /\ c \notin lock /\ lock' = lock \cup {c} /\ locked' = [locked EXCEPT ![c] = @ + 1]
             /\ ping' = [ping EXCEPT ![p].todo = Tail(@)]
    <3>1. lock' \subseteq Categories /\ locked' \in [Categories -> Nat]
      BY <1>a, <2>0, <2>3 DEF FenceTypes
    <3>2. \A d \in Categories : locked[d] <= locked'[d]
      BY <2>0, <2>3, <2>b
    <3> QED
      BY <2>1, <2>3, <3>1, <3>2
  <2>4. CASE /\ c \notin lock /\ lock' = lock \cup {c} /\ locked' = [locked EXCEPT ![c] = @ + 1]
             /\ ping' = [ping EXCEPT ![p].step = "locked", ![p].held = locked'[c]]
    <3> DEFINE x == [ping[p] EXCEPT !.step = "locked", !.held = locked[c] + 1]
    <3>0. /\ lock' \subseteq Categories /\ locked' \in [Categories -> Nat]
          /\ locked'[c] = locked[c] + 1 /\ locked[c] \in Nat
          /\ \A d \in Categories : locked[d] \in Nat /\ locked'[d] \in Nat /\ locked[d] <= locked'[d]
      BY <1>a, <2>0, <2>4 DEF FenceTypes
    <3>1. ping' = [ping EXCEPT ![p] = x]
      BY <2>4, <3>0, <1>a DEF FenceTypes
    <3>2. /\ x \in PingStates /\ x.host \in Hosts /\ x.step = "locked" /\ x.seen = ping[p].seen
          /\ x.held = locked'[c] /\ x.todo = ping[p].todo
      BY <1>b, <2>0, <3>0, ZenonT(60) DEF PingStates, PingSteps
    <3> HIDE DEF x
    <3>3. /\ ping' \in [Pings -> PingStates] /\ ping'[p] = x
          /\ \A q \in Pings : q # p => ping'[q] = ping[q]
          /\ \A q \in Pings : ping[q].host \in Hosts => ping'[q].host \in Hosts
      BY <1>c, <3>1, <3>2
    <3>4. FenceTypes' /\ HostsAreKnown'
      BY <1>a, <2>0, <2>a, <3>0, <3>2, <3>3 DEF FenceTypes, HostsAreKnown
    <3>5. LocksAreUsedOnce'
      <4>1. \A q \in Pings : HoldsLock(q)' => q = p \/ (q # p /\ HoldsLock(q) /\ ping'[q] = ping[q])
        BY <3>2, <3>3 DEF HoldsLock
      <4>2. \A q \in Pings : HoldsLock(q) => LockReason(q) \in Categories /\ ping[q].held \in 1 .. locked[LockReason(q)]
        BY <1>b, <2>b, RequestsAreTyped DEF LocksAreUsedOnce, LockReason
      <4>3. \A i \in DOMAIN alerts : alerts[i].category \in Categories /\ alerts[i].held \in 1 .. locked[alerts[i].category]
        BY <1>a, <2>b, AlertsAreTyped DEF LocksAreUsedOnce
      <4>4. LockReason(p)' = c /\ ping'[p].held = locked[c] + 1 /\ ping'[p].todo # <<>>
        BY <2>0, <3>0, <3>2, <3>3 DEF LockReason
      <4>5. ASSUME NEW q \in Pings, HoldsLock(q)'
            PROVE  /\ ping'[q].todo # <<>> /\ ping'[q].held \in 1 .. locked'[LockReason(q)']
                   /\ \A i \in DOMAIN alerts : alerts[i].category = LockReason(q)' => alerts[i].held # ping'[q].held
        <5>1. CASE q = p
          BY <3>0, <4>3, <4>4, <5>1
        <5>2. CASE q # p
          BY <2>b, <3>0, <4>1, <4>2, <4>5, <5>2 DEF LocksAreUsedOnce, LockReason
        <5> QED
          BY <5>1, <5>2
      <4>6. ASSUME NEW q \in Pings, NEW r \in Pings, HoldsLock(q)', HoldsLock(r)', r # q,
                   LockReason(r)' = LockReason(q)'
            PROVE  ping'[r].held # ping'[q].held
        <5>1. CASE q = p
          BY <3>0, <4>1, <4>2, <4>4, <4>6, <5>1, SMTT(40) DEF LockReason
        <5>2. CASE r = p
          BY <3>0, <4>1, <4>2, <4>4, <4>6, <5>2 DEF LockReason
        <5>3. CASE q # p /\ r # p
          BY <2>b, <4>1, <4>6, <5>3 DEF LocksAreUsedOnce, LockReason
        <5> QED
          BY <5>1, <5>2, <5>3
      <4>7. \A i \in DOMAIN alerts : alerts[i].held \in 1 .. locked'[alerts[i].category]
        BY <3>0, <4>3
      <4> QED
        BY <2>a, <2>b, <4>5, <4>6, <4>7 DEF LocksAreUsedOnce, OneAlertPerLock
    <3> QED
      BY <2>a, <3>2, <3>3, <3>4, <3>5, OrderFrame, PlaceFrame DEF FenceInv
  <2> QED
    BY <1>7, <2>2, <2>3, <2>4 DEF TakeLock, Free
<1>8. ASSUME NEW p \in Pings, StoreAlert(p) PROVE FenceInv'
  <2> DEFINE c == Head(ping[p].todo)
             x == [ping[p] EXCEPT !.step = "alerting", !.todo = Tail(@)]
             a == [category |-> c, held |-> ping[p].held, status |-> "ACTIVE"]
             n == Len(alerts)
  <2>l. LocksAreUsedOnce /\ HoldsLock(p)
    BY <1>8 DEF FenceInv, StoreAlert, HoldsLock
  <2>0. /\ ping[p].todo # <<>> /\ ping[p].held \in 1 .. locked[c] /\ c \in Categories
        /\ Tail(ping[p].todo) \in Seq(Categories) /\ ping[p].held \in Nat
    BY <1>b, <2>l, RequestsAreTyped DEF LocksAreUsedOnce, LockReason
  <2>1. ping' = [ping EXCEPT ![p] = x]
    BY <1>8, <1>a DEF StoreAlert, FenceTypes
  <2>2. x \in PingStates /\ x.host \in Hosts /\ x.step = "alerting" /\ x.seen = ping[p].seen
    BY <1>8, <1>a, <1>b, <2>0, ZenonT(60) DEF PingStates, PingSteps, StoreAlert, HostsAreKnown
  <2>r. a \in AlertRows /\ a.category = c /\ a.held = ping[p].held
    BY <2>0 DEF AlertRows
  <2>4. /\ UNCHANGED <<stored, fence, cache, hydrations, lastPlace, crossings, lock, locked>>
        /\ alerts' = Append(alerts, a) \/ UNCHANGED alerts
    BY <1>8 DEF StoreAlert
  <2> HIDE DEF x, a
  <2>3. /\ ping' \in [Pings -> PingStates] /\ ping'[p] = x
        /\ \A q \in Pings : q # p => ping'[q] = ping[q]
        /\ \A q \in Pings : ping[q].host \in Hosts => ping'[q].host \in Hosts
    BY <1>c, <2>1, <2>2
  <2>5. FenceTypes' /\ HostsAreKnown'
    <3>1. alerts \in Seq(AlertRows)
      BY <1>a DEF FenceTypes
    <3>2. alerts' \in Seq(AlertRows)
      BY <2>4, <2>r, <3>1
    <3> QED
      BY <1>a, <2>2, <2>3, <2>4, <3>2 DEF FenceTypes, HostsAreKnown
  <2>6. LocksAreUsedOnce'
    <3>1. CASE UNCHANGED alerts
      BY <2>2, <2>3, <2>4, <3>1, LockFrame
    <3>2. CASE alerts' = Append(alerts, a)
      <4>1. \A q \in Pings : HoldsLock(q)' => q # p /\ HoldsLock(q) /\ ping'[q] = ping[q]
        BY <2>2, <2>3 DEF HoldsLock
      <4>2. /\ n \in Nat /\ DOMAIN alerts = 1 .. n /\ DOMAIN alerts' = 1 .. n + 1
            /\ \A i \in 1 .. n : alerts'[i] = alerts[i]
            /\ alerts'[n + 1] = a
        <5>1. alerts \in Seq(AlertRows)
          BY <1>a DEF FenceTypes
        <5> QED
          BY <2>r, <3>2, <5>1
      <4> HIDE DEF n
      <4>3. ASSUME NEW q \in Pings, HoldsLock(q)'
            PROVE  /\ ping'[q].todo # <<>> /\ ping'[q].held \in 1 .. locked'[LockReason(q)']
                   /\ \A i \in DOMAIN alerts' : alerts'[i].category = LockReason(q)' => alerts'[i].held # ping'[q].held
        BY <2>4, <2>l, <2>r, <4>1, <4>2, <4>3 DEF LocksAreUsedOnce, LockReason
      <4>4. \A q, r \in Pings : HoldsLock(q)' /\ HoldsLock(r)' /\ r # q /\ LockReason(r)' = LockReason(q)'
              => ping'[r].held # ping'[q].held
        BY <2>l, <4>1 DEF LocksAreUsedOnce, LockReason
      <4>5. \A i \in DOMAIN alerts' : alerts'[i].held \in 1 .. locked'[alerts'[i].category]
        BY <2>0, <2>4, <2>l, <2>r, <4>2 DEF LocksAreUsedOnce
      <4>6. \A i \in DOMAIN alerts : <<alerts[i].category, alerts[i].held>> # <<a.category, a.held>>
        BY <2>l, <2>r DEF LocksAreUsedOnce, LockReason
      <4>7. OneAlertPerLock'
        BY <2>l, <4>2, <4>6 DEF LocksAreUsedOnce, OneAlertPerLock
      <4> QED
        BY <4>3, <4>4, <4>5, <4>7 DEF LocksAreUsedOnce
    <3> QED
      BY <2>4, <3>1, <3>2
  <2> QED
    BY <2>2, <2>3, <2>4, <2>5, <2>6, OrderFrame, PlaceFrame DEF FenceInv
<1>9. ASSUME NEW f \in FenceRows, Edit(f) PROVE FenceInv'
  <2>1. UNCHANGED <<stored, ping, cache, lastPlace, crossings, lock, locked, alerts>>
    BY <1>9 DEF Edit, alerting
  <2>2. fence' = f /\ \E notified \in SUBSET Hosts :
          hydrations' = hydrations \cup {[host |-> h, fence |-> f, by |-> 0] : h \in notified}
    BY <1>9 DEF Edit
  <2>3. \A q \in hydrations' : q \in hydrations
          \/ (q \in [host : Hosts, fence : FenceRows, by : Pings \cup {0}] /\ q.by = 0)
    BY <2>2
  <2>4. FenceTypes' /\ HostsAreKnown'
    BY <1>a, <2>1, <2>2, <2>3, PingAssumption DEF FenceTypes, HostsAreKnown
  <2> QED
    BY <2>1, <2>4, OrderFrame, LockFrame, PlaceFrame DEF FenceInv
<1>10. ASSUME NEW q \in hydrations, Hydrate(q) PROVE FenceInv'
  <2>1. /\ UNCHANGED <<stored, fence, lastPlace, crossings, lock, locked, alerts>>
        /\ hydrations' \subseteq hydrations
        /\ cache' = [cache EXCEPT ![q.host] = q.fence] \/ UNCHANGED cache
    BY <1>10 DEF Hydrate, alerting
  <2>2. ping' = [p \in Pings |-> IF p = q.by THEN [ping[p] EXCEPT !.step = "asked"] ELSE ping[p]]
    BY <1>10 DEF Hydrate
  <2>3. ASSUME NEW p \in Pings
        PROVE  /\ ping'[p] \in PingStates
               /\ ping'[p].host = ping[p].host /\ ping'[p].seen = ping[p].seen
               /\ ping'[p].todo = ping[p].todo /\ ping'[p].held = ping[p].held
               /\ (ping'[p].step = ping[p].step \/ (p = q.by /\ ping'[p].step = "asked"))
    <3>1. [ping[p] EXCEPT !.step = "asked"] \in PingStates
      BY <1>b DEF PingStates, PingSteps
    <3> QED
      BY <1>b, <2>2, <3>1 DEF PingStates
  <2>4. FenceTypes'
    BY <1>a, <2>1, <2>2, <2>3 DEF FenceTypes
  <2>5. HostsAreKnown'
    BY <1>a, <2>1, <2>3 DEF HostsAreKnown
  <2> QED
    BY <2>1, <2>3, <2>4, <2>5, OrderFrame, LockFrame, PlaceFrame DEF FenceInv
<1>11. ASSUME NEW c \in Categories, LockExpires(c) PROVE FenceInv'
  <2> USE <1>11 DEF LockExpires
  <2>1. FenceTypes' /\ HostsAreKnown'
    BY <1>a DEF FenceTypes, HostsAreKnown
  <2> QED
    BY <2>1, OrderFrame, LockFrame, PlaceFrame DEF FenceInv
(* A step that changes the status of alerts.                                     *)
<1>12. ASSUME UNCHANGED <<stored, ping, fence, cache, hydrations, lastPlace, crossings, lock, locked>>,
              alerts' \in [DOMAIN alerts -> AlertRows],
              \A i \in DOMAIN alerts : /\ alerts'[i].category = alerts[i].category
                                       /\ alerts'[i].held = alerts[i].held
       PROVE  FenceInv'
  <2>1. alerts' \in Seq(AlertRows) /\ DOMAIN alerts' = DOMAIN alerts
    BY <1>a, <1>12, AlertsAreTyped
  <2>2. FenceTypes' /\ HostsAreKnown'
    BY <1>a, <1>12, <2>1 DEF FenceTypes, HostsAreKnown
  <2>3. LocksAreUsedOnce'
    BY <1>12, <2>1 DEF FenceInv, LocksAreUsedOnce, OneAlertPerLock, HoldsLock, LockReason
  <2> QED
    BY <1>12, <2>2, <2>3, OrderFrame, PlaceFrame DEF FenceInv
<1>d. \A i \in DOMAIN alerts : alerts[i] \in AlertRows
  BY <1>a DEF FenceTypes
<1>e. ASSUME NEW i \in DOMAIN alerts, NEW status \in {"ACKNOWLEDGED", "RESOLVED", "PURGED"}
      PROVE  LET a == [alerts[i] EXCEPT !.status = status] IN
               a \in AlertRows /\ a.category = alerts[i].category /\ a.held = alerts[i].held
  BY <1>d DEF AlertRows
<1>13. ASSUME NEW i \in DOMAIN alerts, NEW status \in {"ACKNOWLEDGED", "RESOLVED"}, Attend(i, status)
       PROVE FenceInv'
  <2>1. alerts' = [alerts EXCEPT ![i] = [alerts[i] EXCEPT !.status = status]]
    BY <1>13, <1>a DEF Attend, FenceTypes
  <2>2. alerts' \in [DOMAIN alerts -> AlertRows]
        /\ \A j \in DOMAIN alerts : /\ alerts'[j].category = alerts[j].category
                                    /\ alerts'[j].held = alerts[j].held
    BY <1>d, <1>e, <2>1
  <2> QED
    BY <1>12, <1>13, <2>2 DEF Attend
<1>14. ASSUME CleanupExpired PROVE FenceInv'
  <2>1. alerts' = [i \in DOMAIN alerts |->
          IF alerts[i].status = "ACTIVE" THEN alerts[i] ELSE [alerts[i] EXCEPT !.status = "PURGED"]]
    BY <1>14 DEF CleanupExpired
  <2>2. alerts' \in [DOMAIN alerts -> AlertRows]
        /\ \A j \in DOMAIN alerts : /\ alerts'[j].category = alerts[j].category
                                    /\ alerts'[j].held = alerts[j].held
    BY <1>d, <1>e, <2>1
  <2> QED
    BY <1>12, <1>14, <2>2 DEF CleanupExpired
<1>15. ASSUME EndDriving PROVE FenceInv'
  <2> USE <1>15 DEF EndDriving, alerting
  <2>1. FenceTypes' /\ HostsAreKnown'
    BY <1>a DEF FenceTypes, HostsAreKnown
  <2> QED
    BY <2>1, OrderFrame, LockFrame, PlaceFrame DEF FenceInv
<1>16. CASE UNCHANGED fwVars
  <2>0. UNCHANGED <<stored, ping, fence, cache, hydrations, lastPlace, crossings, lock, locked, alerts>>
    BY <1>16 DEF fwVars, alerting
  <2>1. FenceTypes' /\ HostsAreKnown'
    BY <1>a, <2>0 DEF FenceTypes, HostsAreKnown
  <2> QED
    BY <2>0, <2>1, OrderFrame, LockFrame, PlaceFrame DEF FenceInv
<1>17. ASSUME NEW spot \in Spots, NEW type \in {"SCHOOL", "RESTRICTED"}
       PROVE  [spot |-> spot, type |-> type] \in FenceRows
  BY DEF FenceRows
<1>18. NoFence \in FenceRows
  BY DEF NoFence, FenceRows
<1> QED
  BY <1>1, <1>2, <1>3, <1>4, <1>5, <1>6, <1>7, <1>8, <1>9, <1>10, <1>11, <1>13, <1>14, <1>15,
    <1>16, <1>17, <1>18 DEF FwNext

(* THEOREM. Every state of the fences satisfies the invariant.                *)
THEOREM FenceInvariance == FwSpec => []FenceInv
  BY FenceInitHolds, FenceStepHolds, PTL DEF FwSpec

(* THEOREM. Entries into the fence and exits from it take turns, whatever the *)
(* order in which overlapping pings get to Redis                              *)
(* (alert.processing.service.ts, the GETSET of the last state).               *)
THEOREM CrossingsTakeTurns == FwSpec => []CrossingsAlternate
<1>1. FenceInv => CrossingsAlternate
  BY DEF FenceInv, PlacesAlternate
<1> QED
  BY FenceInvariance, <1>1, PTL

(* THEOREM. Each time the deduplication lock of a reason is taken, one alert  *)
(* at most is stored, though it may expire under its holder                   *)
(* (alert.processing.service.ts, SET NX).                                     *)
THEOREM AlertsAreDeduplicated == FwSpec => []OneAlertPerLock
<1>1. FenceInv => OneAlertPerLock
  BY DEF FenceInv, LocksAreUsedOnce
<1> QED
  BY FenceInvariance, <1>1, PTL

(* THEOREM. A ping is stored only if it is newer than all that were stored    *)
(* when its request read the last one (gps.tracking.service.ts).              *)
THEOREM PingsAreStoredInOrder == FwSpec => []StoredInOrder
<1>1. FenceInv => StoredInOrder
  BY DEF FenceInv, PingsAreInOrder
<1> QED
  BY FenceInvariance, <1>1, PTL

--------------------------------------------------------------------------------
(* Reports. The report of a due time is some worker's, or a failed            *)
(* execution's, or mailed, and never two of these: creating the execution and *)
(* claiming the failed one are atomic, and the next due time is later than    *)
(* all that were claimed.                                                     *)

(* A due time of a subscription, or none for a report on request.             *)
Dues == (Subs \X Nat) \cup {<<"none", 0>>}
(* The rows of ReportExecution.                                               *)
ExecutionRows ==
  [sub : Subs \cup {"none"}, due : Dues, status : {"RUNNING", "SUCCESS", "FAILED", "GONE"},
   retryCount : Nat, createdAt : Nat, updatedAt : Nat]
(* One report on its way, and what is left of a worker's run.                 *)
Tasks ==
  [sub : Subs \cup {"none"}, due : Dues, execution : Nat, step : {"create", "generate", "mail"}]
DueItems == Subs \X Nat
RetryItems == [execution : Nat, retryCount : Nat]
AnyTask == Tasks \cup {NoTask}
Jobs ==
  [phase : {"idle", "request"}, task : AnyTask, todo : {{}}]
  \cup [phase : {"due"}, task : AnyTask, todo : SUBSET DueItems]
  \cup [phase : {"retry"}, task : AnyTask, todo : SUBSET RetryItems]

(* Is the worker at a report?                                                 *)
Working(w) == job[w].task # NoTask

(* What the variables range over.                                             *)
ReportTypes ==
  /\ time \in 1 .. MaxTime /\ nextRun \in [Subs -> 0 .. MaxTime + Day]
  /\ executions \in Seq(ExecutionRows) /\ Len(executions) <= MaxExecutions
  /\ job \in [Workers -> Jobs]
  /\ mailed \in Seq(Subs \X Nat)

(* A task is about an execution of its own due time, and what is left to do was    *)
(* due or there when it was found.                                                 *)
TaskIsReal(w) ==
  /\ job[w].phase = "due" => \A item \in job[w].todo : item[2] \in 1 .. time
  /\ job[w].phase = "retry" => \A item \in job[w].todo : item.execution \in DOMAIN executions
  /\ Working(w) => job[w].task.sub = job[w].task.due[1]
  /\ job[w].task.step \in {"generate", "mail"} =>
       /\ job[w].task.execution \in DOMAIN executions
       /\ executions[job[w].task.execution].due = job[w].task.due

TasksAreReal == \A w \in Workers : TaskIsReal(w)

(* Whoever may still mail the report of a due time, or has mailed it.              *)
Due(w) == job[w].task.due
HasDue(w) == Working(w) /\ Due(w)[1] \in Subs
HasFailed(i) == executions[i].status = "FAILED" /\ executions[i].due[1] \in Subs

(* One worker, or one failed execution, or one mail.                               *)
DuesAreOwned ==
  /\ \A v, w \in Workers : HasDue(v) /\ HasDue(w) /\ Due(v) = Due(w) => v = w
  /\ \A w \in Workers, i \in DOMAIN executions : HasDue(w) /\ HasFailed(i) => executions[i].due # Due(w)
  /\ \A i, j \in DOMAIN executions :
       HasFailed(i) /\ HasFailed(j) /\ executions[i].due = executions[j].due => i = j
  /\ \A k \in DOMAIN mailed, w \in Workers : HasDue(w) => Due(w) # mailed[k]
  /\ \A k \in DOMAIN mailed, i \in DOMAIN executions : HasFailed(i) => executions[i].due # mailed[k]
  /\ MailedOnce

(* No due time is claimed again: the next one is later.                            *)
IsPast(due) == due[2] <= time /\ (nextRun[due[1]] = 0 \/ due[2] < nextRun[due[1]])

DuesArePast ==
  /\ \A w \in Workers : HasDue(w) => IsPast(Due(w))
  /\ \A i \in DOMAIN executions : HasFailed(i) => IsPast(executions[i].due)
  /\ \A k \in DOMAIN mailed : IsPast(mailed[k])

(* The invariant of the reports.                                              *)
ReportInv == ReportTypes /\ TasksAreReal /\ DuesAreOwned /\ DuesArePast

--------------------------------------------------------------------------------
(* The next run of a subscription is later than now.                          *)
LEMMA NextRunIsLater ==
  ASSUME time \in Nat
  PROVE  CalculateNextRun \in Nat /\ CalculateNextRun > time /\ CalculateNextRun <= time + Day
  BY ReportAssumption DEF CalculateNextRun

(* Tasks and due times are what their fields say.                             *)
LEMMA TasksAreTyped ==
  /\ \A t \in AnyTask : (t = NoTask <=> t.step = "none") /\ (t # NoTask => t \in Tasks)
  /\ \A t \in Tasks : /\ t.due \in Dues /\ t.sub \in Subs \cup {"none"}
                      /\ t.step \in {"create", "generate", "mail"}
  /\ \A due \in Dues : (due[1] \in Subs => due \in DueItems) /\ due[1] \in Subs \cup {"none"}
  /\ \A item \in DueItems : /\ item[1] \in Subs /\ item[2] \in Nat /\ item \in Dues
                            /\ item = <<item[1], item[2]>>
  BY ReportAssumption DEF AnyTask, Tasks, NoTask, Dues, DueItems

(* So are the jobs of the workers.                                            *)
LEMMA JobsAreTyped ==
  /\ \A x \in Jobs : /\ x.task \in AnyTask
                     /\ x.phase = "due" => x.todo \subseteq DueItems
                     /\ x.phase = "retry" => x.todo \subseteq RetryItems
                     /\ x.phase \in {"idle", "request"} => x.todo = {}
                     /\ x.phase \in {"idle", "due", "retry", "request"}
  /\ Idle \in Jobs
  BY DEF Jobs, Idle, AnyTask

(* A job whose task changes, or that has less to do.                               *)
LEMMA JobsGoOn ==
  \A x \in Jobs, t \in AnyTask : \A S \in SUBSET x.todo :
    /\ [x EXCEPT !.task = t] \in Jobs
    /\ [x EXCEPT !.task = t, !.todo = S] \in Jobs
  BY DEF Jobs

(* So are the executions.                                                     *)
LEMMA ExecutionsAreTyped ==
  ReportTypes =>
    /\ Len(executions) \in Nat /\ DOMAIN executions = 1 .. Len(executions)
    /\ \A i \in DOMAIN executions : executions[i] \in ExecutionRows
  BY DEF ReportTypes

(* The fields of an execution.                                                *)
LEMMA RowsAreTyped ==
  \A r \in ExecutionRows : r.sub \in Subs \cup {"none"} /\ r.due \in Dues /\ r.retryCount \in Nat
  BY DEF ExecutionRows

(* An execution whose status changes, or whose subscription is deleted.       *)
LEMMA RowsGoOn ==
  ASSUME NEW r \in ExecutionRows, NEW sub \in Subs \cup {"none"}, NEW n \in Nat, NEW at \in Nat,
         NEW status \in {"RUNNING", "SUCCESS", "FAILED", "GONE"}
  PROVE  /\ [r EXCEPT !.status = status, !.updatedAt = at] \in ExecutionRows
         /\ [r EXCEPT !.status = status, !.retryCount = n, !.updatedAt = at] \in ExecutionRows
         /\ [r EXCEPT !.sub = sub] \in ExecutionRows
         /\ [r EXCEPT !.status = status, !.sub = sub] \in ExecutionRows
  BY DEF ExecutionRows

--------------------------------------------------------------------------------
(* A step that hands nobody the report of a due time.                              *)
LEMMA DuesFrame ==
  /\ ReportInv /\ UNCHANGED mailed /\ time' \in Nat /\ time' >= time
  /\ \A w \in Workers : HasDue(w)' => HasDue(w) /\ Due(w)' = Due(w)
  /\ \A i \in DOMAIN executions' : HasFailed(i)' =>
       i \in DOMAIN executions /\ HasFailed(i) /\ executions'[i].due = executions[i].due
  /\ \A s \in Subs : nextRun'[s] \in {0, nextRun[s]} \/ (nextRun'[s] \in Nat /\ nextRun'[s] > time)
  => DuesAreOwned' /\ DuesArePast'
<1> SUFFICES ASSUME ReportInv, UNCHANGED mailed, time' \in Nat, time' >= time,
               \A w \in Workers : HasDue(w)' => HasDue(w) /\ Due(w)' = Due(w),
               \A i \in DOMAIN executions' : HasFailed(i)' =>
                 i \in DOMAIN executions /\ HasFailed(i) /\ executions'[i].due = executions[i].due,
               \A s \in Subs : nextRun'[s] \in {0, nextRun[s]}
                               \/ (nextRun'[s] \in Nat /\ nextRun'[s] > time)
             PROVE  DuesAreOwned' /\ DuesArePast'
  OBVIOUS
<1>1. DuesAreOwned'
  BY DEF ReportInv, DuesAreOwned, MailedOnce, IsInjective
<1>2. \A due \in DueItems : IsPast(due) => IsPast(due)'
  BY TasksAreTyped, ReportAssumption DEF ReportInv, ReportTypes, IsPast
<1>3. \A w \in Workers : HasDue(w) => Due(w) \in DueItems
  BY TasksAreTyped, JobsAreTyped DEF ReportInv, ReportTypes, HasDue, Working, Due
<1>4. \A i \in DOMAIN executions : HasFailed(i) => executions[i].due \in DueItems
  BY TasksAreTyped, ExecutionsAreTyped, RowsAreTyped DEF ReportInv, HasFailed
<1>5. \A k \in DOMAIN mailed : mailed[k] \in DueItems
  BY DEF ReportInv, ReportTypes, DueItems
<1>6. DuesArePast'
  BY <1>2, <1>3, <1>4, <1>5 DEF ReportInv, DuesArePast
<1> QED
  BY <1>1, <1>6

(* A step after which the executions are about the same due times.                 *)
LEMMA TasksFrame ==
  /\ ReportInv /\ time' \in Nat /\ time' >= time
  /\ \A i \in DOMAIN executions :
       i \in DOMAIN executions' /\ executions'[i].due = executions[i].due
  /\ \A w \in Workers : job'[w] = job[w] \/ TaskIsReal(w)'
  => TasksAreReal'
<1> SUFFICES ASSUME ReportInv, time' \in Nat, time' >= time,
               \A i \in DOMAIN executions :
                 i \in DOMAIN executions' /\ executions'[i].due = executions[i].due,
               NEW w \in Workers, job'[w] = job[w]
             PROVE  TaskIsReal(w)'
  BY DEF TasksAreReal
<1>1. TaskIsReal(w)
  BY DEF ReportInv, TasksAreReal
<1>2. time \in Nat
  BY ReportAssumption DEF ReportInv, ReportTypes
<1> QED
  BY <1>1, <1>2 DEF TaskIsReal, Working

(* The invariant holds before anything is subscribed to.                           *)
LEMMA ReportInitHolds == RpInit => ReportInv
<1> SUFFICES ASSUME RpInit PROVE ReportInv
  OBVIOUS
<1> USE ReportAssumption DEF RpInit
<1>1. \A w \in Workers : job[w] = Idle /\ ~Working(w)
  BY DEF Idle, Working
<1>2. ReportTypes
  BY JobsAreTyped DEF ReportTypes
<1>3. TasksAreReal
  BY <1>1 DEF TasksAreReal, TaskIsReal, Idle, NoTask
<1>4. DuesAreOwned /\ DuesArePast
  BY <1>1 DEF DuesAreOwned, DuesArePast, HasDue, MailedOnce, IsInjective
<1> QED
  BY <1>2, <1>3, <1>4 DEF ReportInv

(* Every step keeps it.                                                            *)
LEMMA ReportStepHolds == ReportInv /\ [RpNext]_rpVars => ReportInv'
<1> SUFFICES ASSUME ReportInv, [RpNext]_rpVars PROVE ReportInv'
  OBVIOUS
<1>a. /\ ReportTypes /\ TasksAreReal /\ time \in Nat \ {0} /\ time \in 1 .. MaxTime
      /\ nextRun \in [Subs -> 0 .. MaxTime + Day] /\ job \in [Workers -> Jobs]
      /\ MaxTime \in Nat /\ Day \in Nat /\ mailed \in Seq(DueItems)
  BY ReportAssumption DEF ReportInv, ReportTypes, DueItems
<1>b. /\ executions \in Seq(ExecutionRows) /\ Len(executions) \in Nat
      /\ Len(executions) <= MaxExecutions /\ DOMAIN executions = 1 .. Len(executions)
      /\ \A i \in DOMAIN executions : executions[i] \in ExecutionRows
  BY ExecutionsAreTyped DEF ReportInv, ReportTypes
<1>c. \A w \in Workers : job[w] \in Jobs /\ TaskIsReal(w)
  BY <1>a DEF TasksAreReal
<1>n. CalculateNextRun \in 0 .. MaxTime + Day /\ CalculateNextRun > time
  BY <1>a, NextRunIsLater
(* A step of one worker.                                                         *)
<1>w. ASSUME NEW w \in Workers, NEW x \in Jobs, job' = [job EXCEPT ![w] = x]
      PROVE  /\ job' \in [Workers -> Jobs] /\ job'[w] = x
             /\ \A v \in Workers : v # w =>
                  /\ job'[v] = job[v] /\ (HasDue(v)' <=> HasDue(v)) /\ Due(v)' = Due(v)
  BY <1>a, <1>w DEF HasDue, Working, Due
(* A step of one execution, or of all.                                           *)
<1>x. ASSUME NEW i \in DOMAIN executions, NEW r \in ExecutionRows,
             executions' = [executions EXCEPT ![i] = r], r.due = executions[i].due
      PROVE  /\ executions' \in Seq(ExecutionRows) /\ Len(executions') = Len(executions)
             /\ DOMAIN executions' = DOMAIN executions
             /\ executions'[i] = r /\ \A k \in DOMAIN executions : k # i => executions'[k] = executions[k]
             /\ \A k \in DOMAIN executions : executions'[k].due = executions[k].due
  BY <1>b, <1>x
<1>y. ASSUME executions' \in [DOMAIN executions -> ExecutionRows]
      PROVE  /\ executions' \in Seq(ExecutionRows) /\ Len(executions') = Len(executions)
             /\ DOMAIN executions' = DOMAIN executions
  BY <1>b, <1>y
<1>1. ASSUME TimePasses PROVE ReportInv'
  <2>1. time' = time + 1 /\ time' \in 1 .. MaxTime /\ UNCHANGED <<nextRun, executions, job, mailed>>
    BY <1>1, <1>a DEF TimePasses
  <2>2. ReportTypes'
    BY <1>a, <1>b, <2>1 DEF ReportTypes
  <2>3. TasksAreReal'
    BY <1>a, <2>1, TasksFrame
  <2>4. DuesAreOwned' /\ DuesArePast'
    <3>1. \A w \in Workers : HasDue(w)' => HasDue(w) /\ Due(w)' = Due(w)
      BY <2>1 DEF HasDue, Working, Due
    <3>2. \A i \in DOMAIN executions' : HasFailed(i)' =>
            i \in DOMAIN executions /\ HasFailed(i) /\ executions'[i].due = executions[i].due
      BY <2>1 DEF HasFailed
    <3> QED
      BY <1>a, <2>1, <3>1, <3>2, DuesFrame
  <2> QED
    BY <2>2, <2>3, <2>4 DEF ReportInv
<1>2. ASSUME NEW s \in Subs, CreateSubscription(s) PROVE ReportInv'
  <2>1. nextRun' = [nextRun EXCEPT ![s] = CalculateNextRun] /\ UNCHANGED <<time, executions, job, mailed>>
    BY <1>2 DEF CreateSubscription
  <2>2. ReportTypes'
    BY <1>a, <1>b, <1>n, <2>1 DEF ReportTypes
  <2>3. TasksAreReal'
    BY <1>a, <2>1, TasksFrame
  <2>4. DuesAreOwned' /\ DuesArePast'
    <3>1. \A w \in Workers : HasDue(w)' => HasDue(w) /\ Due(w)' = Due(w)
      BY <2>1 DEF HasDue, Working, Due
    <3>2. \A i \in DOMAIN executions' : HasFailed(i)' =>
            i \in DOMAIN executions /\ HasFailed(i) /\ executions'[i].due = executions[i].due
      BY <2>1 DEF HasFailed
    <3>3. \A r \in Subs : nextRun'[r] = nextRun[r] \/ (nextRun'[r] \in Nat /\ nextRun'[r] > time)
      BY <1>a, <1>n, <2>1
    <3> QED
      BY <1>a, <2>1, <3>1, <3>2, <3>3, DuesFrame
  <2> QED
    BY <2>2, <2>3, <2>4 DEF ReportInv
<1>3. ASSUME NEW s \in Subs, DeleteSubscription(s) PROVE ReportInv'
  <2>1. nextRun' = [nextRun EXCEPT ![s] = 0] /\ UNCHANGED <<time, job, mailed>>
    BY <1>3 DEF DeleteSubscription
  <2>2. executions' = [i \in DOMAIN executions |->
          IF executions[i].sub = s THEN [executions[i] EXCEPT !.sub = "none"] ELSE executions[i]]
    BY <1>3 DEF DeleteSubscription
  <2>3. \A i \in DOMAIN executions :
          /\ executions'[i] \in ExecutionRows /\ executions'[i].due = executions[i].due
          /\ executions'[i].status = executions[i].status
    <3>1. \A r \in ExecutionRows : LET q == [r EXCEPT !.sub = "none"] IN
            q \in ExecutionRows /\ q.due = r.due /\ q.status = r.status
      BY DEF ExecutionRows
    <3> QED
      BY <1>b, <2>2, <3>1
  <2>4. /\ executions' \in Seq(ExecutionRows) /\ Len(executions') = Len(executions)
        /\ DOMAIN executions' = DOMAIN executions
    BY <1>y, <2>2, <2>3
  <2>5. ReportTypes'
    BY <1>a, <1>b, <2>1, <2>4 DEF ReportTypes
  <2>6. TasksAreReal'
    BY <1>a, <2>1, <2>3, <2>4, TasksFrame
  <2>7. DuesAreOwned' /\ DuesArePast'
    <3>1. \A w \in Workers : HasDue(w)' => HasDue(w) /\ Due(w)' = Due(w)
      BY <2>1 DEF HasDue, Working, Due
    <3>2. \A i \in DOMAIN executions' : HasFailed(i)' =>
            i \in DOMAIN executions /\ HasFailed(i) /\ executions'[i].due = executions[i].due
      BY <2>3, <2>4 DEF HasFailed
    <3>3. \A r \in Subs : nextRun'[r] \in {0, nextRun[r]}
      BY <1>a, <2>1
    <3> QED
      BY <1>a, <2>1, <3>1, <3>2, <3>3, DuesFrame
  <2> QED
    BY <2>5, <2>6, <2>7 DEF ReportInv
(* A step of one worker that leaves the executions and the subscriptions, and    *)
(* takes up no report of a subscription.                                         *)
<1>4. ASSUME NEW w \in Workers, NEW x \in Jobs, job' = [job EXCEPT ![w] = x],
             UNCHANGED <<time, nextRun, executions, mailed>>,
             x.task # NoTask =>
               \/ Working(w) /\ x.task.due = Due(w)
               \/ x.task.due[1] \notin Subs,
             TaskIsReal(w)'
      PROVE  ReportInv'
  <2>1. /\ job' \in [Workers -> Jobs] /\ job'[w] = x
        /\ \A v \in Workers : v # w =>
             /\ job'[v] = job[v] /\ (HasDue(v)' <=> HasDue(v)) /\ Due(v)' = Due(v)
    BY <1>w, <1>4
  <2>2. ReportTypes'
    BY <1>a, <1>b, <1>4, <2>1 DEF ReportTypes
  <2>3. TasksAreReal'
    BY <1>a, <1>4, <2>1, TasksFrame
  <2>4. \A v \in Workers : HasDue(v)' => HasDue(v) /\ Due(v)' = Due(v)
    BY <1>4, <2>1 DEF HasDue, Working, Due
  <2>5. \A i \in DOMAIN executions' : HasFailed(i)' =>
          i \in DOMAIN executions /\ HasFailed(i) /\ executions'[i].due = executions[i].due
    BY <1>4 DEF HasFailed
  <2>6. DuesAreOwned' /\ DuesArePast'
    BY <1>a, <1>4, <2>4, <2>5, DuesFrame
  <2> QED
    BY <2>2, <2>3, <2>6 DEF ReportInv
<1>t. ASSUME NEW w \in Workers, NEW item, NEW t \in AnyTask, Take(w, item, t)
      PROVE  \E x \in Jobs : /\ job' = [job EXCEPT ![w] = x] /\ x.task = t
                             /\ x.phase = job[w].phase /\ x.todo \subseteq job[w].todo
  <2> DEFINE x == [job[w] EXCEPT !.task = t, !.todo = @ \ {item}]
  <2>1. x \in Jobs
    BY <1>c, JobsGoOn
  <2>2. job' = [job EXCEPT ![w] = x]
    BY <1>t, <1>a DEF Take
  <2>3. x.task = t /\ x.phase = job[w].phase /\ x.todo \subseteq job[w].todo
    BY <1>c DEF Jobs
  <2> QED
    BY <2>1, <2>2, <2>3
<1>d. ASSUME NEW w \in Workers, Drop(w)
      PROVE  \E x \in Jobs : /\ job' = [job EXCEPT ![w] = x] /\ x.task = NoTask
                             /\ x.phase = job[w].phase /\ x.todo = job[w].todo
  <2> DEFINE x == [job[w] EXCEPT !.task = NoTask]
  <2>1. x \in Jobs
    BY <1>c, JobsGoOn DEF AnyTask
  <2>2. job' = [job EXCEPT ![w] = x]
    BY <1>d, <1>a DEF Drop
  <2>3. x.task = NoTask /\ x.phase = job[w].phase /\ x.todo = job[w].todo
    BY <1>c DEF Jobs
  <2> QED
    BY <2>1, <2>2, <2>3
(* Whoever drops what it does, or does nothing, is real.                         *)
<1>r. ASSUME NEW w \in Workers, job'[w].task = NoTask, job'[w].phase = job[w].phase,
             job'[w].todo \subseteq job[w].todo, time' = time, DOMAIN executions' = DOMAIN executions
      PROVE  TaskIsReal(w)'
  BY <1>c, <1>r DEF TaskIsReal, Working, NoTask
<1>5. ASSUME NEW w \in Workers, FindDue(w) PROVE ReportInv'
  <2> DEFINE x == [phase |-> "due", task |-> NoTask,
                   todo |-> {<<s, nextRun[s]>> : s \in {r \in Subs : nextRun[r] \in 1 .. time}}]
  <2>1. job' = [job EXCEPT ![w] = x] /\ UNCHANGED <<time, nextRun, executions, mailed>>
    BY <1>5 DEF FindDue
  <2>2. x.todo \subseteq DueItems /\ \A item \in x.todo : item[2] \in 1 .. time
    BY <1>a DEF DueItems
  <2>3. x \in Jobs /\ x.task = NoTask /\ x.phase = "due"
    BY <2>2 DEF Jobs, AnyTask
  <2> HIDE DEF x
  <2>5. job'[w] = x
    BY <1>w, <2>1, <2>3
  <2>4. TaskIsReal(w)'
    BY <2>1, <2>2, <2>3, <2>5 DEF TaskIsReal, Working, NoTask
  <2> QED
    BY <1>4, <2>1, <2>3, <2>4
<1>6. ASSUME NEW w \in Workers, ClaimDue(w) PROVE ReportInv'
  <2>1. PICK item \in job[w].todo :
          IF Claimable(item)
          THEN /\ nextRun' = [nextRun EXCEPT ![item[1]] = CalculateNextRun]
               /\ Take(w, item, Task(item[1], item, 0, "create"))
          ELSE Take(w, item, NoTask) /\ UNCHANGED nextRun
    BY <1>6 DEF ClaimDue
  <2>2. /\ UNCHANGED <<time, executions, mailed>> /\ ~Working(w) /\ job[w].phase = "due"
        /\ item \in DueItems /\ item[1] \in Subs /\ item[2] \in 1 .. time /\ item \in Dues
    BY <1>6, <1>c, JobsAreTyped, TasksAreTyped DEF ClaimDue, Working, TaskIsReal
  <2>3. CASE ~Claimable(item)
    <3>1. PICK x \in Jobs : /\ job' = [job EXCEPT ![w] = x] /\ x.task = NoTask
                            /\ x.phase = job[w].phase /\ x.todo \subseteq job[w].todo
      BY <1>t, <2>1, <2>3 DEF AnyTask
    <3>2. TaskIsReal(w)'
      BY <1>r, <1>w, <2>2, <3>1
    <3> QED
      BY <1>4, <2>1, <2>2, <2>3, <3>1, <3>2
  <2>4. CASE Claimable(item)
    <3> DEFINE t == Task(item[1], item, 0, "create")
    <3>1. t \in AnyTask /\ t.due = item /\ t.sub = item[1] /\ t.step = "create"
      BY <2>2 DEF Task, AnyTask, Tasks
    <3>2. nextRun' = [nextRun EXCEPT ![item[1]] = CalculateNextRun] /\ Take(w, item, t)
      BY <2>1, <2>4
    <3> HIDE DEF t
    <3>3. PICK x \in Jobs : /\ job' = [job EXCEPT ![w] = x] /\ x.task = t
                            /\ x.phase = job[w].phase /\ x.todo \subseteq job[w].todo
      BY <1>t, <3>1, <3>2
    <3>4. /\ job' \in [Workers -> Jobs] /\ job'[w] = x
          /\ \A v \in Workers : v # w =>
               /\ job'[v] = job[v] /\ (HasDue(v)' <=> HasDue(v)) /\ Due(v)' = Due(v)
      BY <1>w, <3>3
    <3>5. ReportTypes'
      BY <1>a, <1>b, <1>n, <2>2, <3>2, <3>4 DEF ReportTypes
    <3>6. TasksAreReal'
      <4>1. TaskIsReal(w)'
        BY <1>c, <2>2, <3>1, <3>3, <3>4 DEF TaskIsReal, Working
      <4> QED
        BY <1>a, <2>2, <3>4, <4>1, TasksFrame
    (* The time was not claimed before: all that were are past.                  *)
    <3>7. item[2] = nextRun[item[1]] /\ ~IsPast(item)
      BY <1>a, <2>2, <2>4 DEF Claimable, IsPast
    <3>8. Due(w)' = item /\ HasDue(w)'
      BY <2>2, <3>1, <3>3, <3>4, TasksAreTyped DEF Due, HasDue, Working
    <3>9. \A s \in Subs : nextRun'[s] = nextRun[s] \/ (nextRun'[s] \in Nat /\ nextRun'[s] > time)
      BY <1>a, <1>n, <3>2
    <3>10. IsPast(item)' /\ \A due \in DueItems : IsPast(due) => IsPast(due)'
      <4>1. nextRun'[item[1]] > time /\ time \in Nat
        BY <1>a, <1>n, <2>2, <3>2
      <4>2. IsPast(item)'
        BY <1>a, <1>n, <2>2, <3>2, <4>1 DEF IsPast
      <4>3. ASSUME NEW due \in DueItems, IsPast(due) PROVE IsPast(due)'
        BY <1>a, <2>2, <3>9, <4>3, TasksAreTyped DEF IsPast
      <4> QED
        BY <4>2, <4>3
    <3>11. DuesAreOwned /\ DuesArePast
      BY DEF ReportInv
    <3>12. /\ \A v \in Workers : HasDue(v) => Due(v) # item
           /\ \A i \in DOMAIN executions : HasFailed(i) => executions[i].due # item
           /\ \A k \in DOMAIN mailed : mailed[k] # item
      BY <3>7, <3>11 DEF DuesArePast
    <3>13. \A i \in DOMAIN executions : HasFailed(i)' <=> HasFailed(i)
      BY <2>2 DEF HasFailed
    <3>14. DuesAreOwned'
      BY <2>2, <3>4, <3>8, <3>11, <3>12, <3>13 DEF DuesAreOwned, MailedOnce, IsInjective
    <3>15. DuesArePast'
      <4>1. \A v \in Workers : HasDue(v)' => IsPast(Due(v))'
        <5>1. \A v \in Workers : HasDue(v) => Due(v) \in DueItems
          BY <1>c, TasksAreTyped, JobsAreTyped DEF HasDue, Working, Due
        <5> QED
          BY <3>4, <3>8, <3>10, <3>11, <5>1 DEF DuesArePast
      <4>2. \A i \in DOMAIN executions' : HasFailed(i)' => IsPast(executions[i].due)'
        <5>1. \A i \in DOMAIN executions : HasFailed(i) => executions[i].due \in DueItems
          BY <1>b, TasksAreTyped, RowsAreTyped DEF HasFailed
        <5> QED
          BY <2>2, <3>10, <3>11, <3>13, <5>1 DEF DuesArePast
      <4>3. \A k \in DOMAIN mailed' : IsPast(mailed[k])'
        BY <1>a, <2>2, <3>10, <3>11 DEF DuesArePast
      <4> QED
        BY <4>1, <4>2, <4>3 DEF DuesArePast
    <3> QED
      BY <3>5, <3>6, <3>14, <3>15 DEF ReportInv
  <2> QED
    BY <2>3, <2>4 DEF Claimable
<1>7. ASSUME NEW w \in Workers, FindFailed(w) PROVE ReportInv'
  <2> DEFINE x == [phase |-> "retry", task |-> NoTask,
                   todo |-> {[execution |-> i, retryCount |-> executions[i].retryCount] :
                               i \in {k \in DOMAIN executions : Retriable(executions[k])}}]
  <2>1. job' = [job EXCEPT ![w] = x] /\ UNCHANGED <<time, nextRun, executions, mailed>>
    BY <1>7 DEF FindFailed
  <2>2. \A item \in x.todo : item \in RetryItems /\ item.execution \in DOMAIN executions
    BY <1>b, RowsAreTyped DEF RetryItems
  <2>3. x \in Jobs /\ x.task = NoTask /\ x.phase = "retry"
    BY <2>2 DEF Jobs, AnyTask
  <2> HIDE DEF x
  <2>5. job'[w] = x
    BY <1>w, <2>1, <2>3
  <2>4. TaskIsReal(w)'
    BY <2>1, <2>2, <2>3, <2>5 DEF TaskIsReal, Working, NoTask
  <2> QED
    BY <1>4, <2>1, <2>3, <2>4
<1>8. ASSUME NEW w \in Workers, ClaimRetry(w) PROVE ReportInv'
  <2>1. PICK item \in job[w].todo :
          IF RetryClaimable(item)
          THEN /\ executions' = [executions EXCEPT
                    ![item.execution].status = "RUNNING", ![item.execution].retryCount = @ + 1,
                    ![item.execution].updatedAt = time]
               /\ Take(w, item, Task(executions[item.execution].due[1],
                                     executions[item.execution].due, 0, "create"))
          ELSE Take(w, item, NoTask) /\ UNCHANGED executions
    BY <1>8 DEF ClaimRetry
  <2> DEFINE i == item.execution
  <2>2. /\ UNCHANGED <<time, nextRun, mailed>> /\ ~Working(w) /\ job[w].phase = "retry"
        /\ i \in DOMAIN executions
    BY <1>8, <1>c DEF ClaimRetry, Working, TaskIsReal
  <2>3. CASE ~RetryClaimable(item)
    <3>1. PICK x \in Jobs : /\ job' = [job EXCEPT ![w] = x] /\ x.task = NoTask
                            /\ x.phase = job[w].phase /\ x.todo \subseteq job[w].todo
      BY <1>t, <2>1, <2>3 DEF AnyTask
    <3>2. TaskIsReal(w)'
      BY <1>r, <1>w, <2>1, <2>2, <2>3, <3>1
    <3> QED
      BY <1>4, <2>1, <2>2, <2>3, <3>1, <3>2
  <2>4. CASE RetryClaimable(item)
    <3> DEFINE e == executions[i]
               r == [e EXCEPT !.status = "RUNNING", !.retryCount = @ + 1, !.updatedAt = time]
               t == Task(e.due[1], e.due, 0, "create")
    <3>0. e \in ExecutionRows /\ e.due \in Dues /\ e.retryCount \in Nat /\ e.status = "FAILED"
      BY <1>b, <2>2, <2>4, RowsAreTyped DEF RetryClaimable
    <3>1. t \in AnyTask /\ t.due = e.due /\ t.sub = e.due[1] /\ t.step = "create"
      BY <3>0, TasksAreTyped DEF Task, AnyTask, Tasks
    <3>r. r \in ExecutionRows /\ r.due = e.due /\ r.status = "RUNNING"
      <4>1. \A q \in ExecutionRows, n \in Nat :
              [q EXCEPT !.status = "RUNNING", !.retryCount = n, !.updatedAt = time]
                \in ExecutionRows
        BY <1>a DEF ExecutionRows
      <4>3. e.retryCount + 1 \in Nat
        BY <3>0
      <4> HIDE DEF e
      <4>2. r \in ExecutionRows
        BY <3>0, <4>1, <4>3
      <4> QED
        BY <3>0, <4>2 DEF ExecutionRows
    <3>2. executions' = [executions EXCEPT ![i] = r] /\ Take(w, item, t)
      BY <1>b, <2>1, <2>2, <2>4
    <3> HIDE DEF t, r
    <3>3. PICK x \in Jobs : /\ job' = [job EXCEPT ![w] = x] /\ x.task = t
                            /\ x.phase = job[w].phase /\ x.todo \subseteq job[w].todo
      BY <1>t, <3>1, <3>2
    <3>4. /\ job' \in [Workers -> Jobs] /\ job'[w] = x
          /\ \A v \in Workers : v # w =>
               /\ job'[v] = job[v] /\ (HasDue(v)' <=> HasDue(v)) /\ Due(v)' = Due(v)
      BY <1>w, <3>3
    <3>5. /\ executions' \in Seq(ExecutionRows) /\ Len(executions') = Len(executions)
          /\ DOMAIN executions' = DOMAIN executions /\ executions'[i] = r
          /\ \A k \in DOMAIN executions : k # i => executions'[k] = executions[k]
          /\ \A k \in DOMAIN executions : executions'[k].due = executions[k].due
      BY <1>x, <2>2, <3>2, <3>r
    <3> HIDE DEF e, i
    <3>6. ReportTypes'
      BY <1>a, <1>b, <2>2, <3>4, <3>5 DEF ReportTypes
    <3>7. TasksAreReal'
      <4>1. TaskIsReal(w)'
        BY <1>c, <2>2, <3>1, <3>3, <3>4, <3>5 DEF TaskIsReal, Working
      <4> QED
        BY <1>a, <2>2, <3>4, <3>5, <4>1, TasksFrame
    (* The claim passes from the failed execution to the worker.                 *)
    <3>8. /\ \A k \in DOMAIN executions : HasFailed(k)' <=> k # i /\ HasFailed(k)
          /\ Due(w)' = e.due /\ (HasDue(w)' => HasFailed(i) /\ e = executions[i])
      BY <3>0, <3>1, <3>3, <3>4, <3>5, <3>r DEF HasFailed, Due, HasDue, Working, e
    <3>9. DuesAreOwned /\ DuesArePast
      BY DEF ReportInv
    <3>10. DuesAreOwned'
      BY <2>2, <3>4, <3>5, <3>8, <3>9 DEF DuesAreOwned, MailedOnce, IsInjective
    <3>11. DuesArePast'
      BY <2>2, <3>4, <3>5, <3>8, <3>9 DEF DuesArePast, IsPast
    <3> QED
      BY <3>6, <3>7, <3>10, <3>11 DEF ReportInv
  <2> QED
    BY <2>3, <2>4 DEF RetryClaimable
<1>9. ASSUME NEW w \in Workers, EndLoop(w) \/ CrashOf(w) PROVE ReportInv'
  <2>1. job' = [job EXCEPT ![w] = Idle] /\ UNCHANGED <<time, nextRun, executions, mailed>>
    BY <1>9 DEF EndLoop, CrashOf
  <2>2. Idle \in Jobs /\ Idle.task = NoTask /\ Idle.phase = "idle"
    BY JobsAreTyped DEF Idle
  <2>4. job'[w] = Idle
    BY <1>w, <2>1, <2>2
  <2>3. TaskIsReal(w)'
    BY <2>2, <2>4 DEF TaskIsReal, Working, NoTask
  <2> QED
    BY <1>4, <2>1, <2>2, <2>3
<1>10. ASSUME Cleanup PROVE ReportInv'
  <2>1. UNCHANGED <<time, nextRun, job, mailed>>
    BY <1>10 DEF Cleanup
  <2>2. executions' = [i \in DOMAIN executions |->
          IF time - executions[i].createdAt > Retention
          THEN [executions[i] EXCEPT !.status = "GONE", !.sub = "none"] ELSE executions[i]]
    BY <1>10 DEF Cleanup
  <2>3. \A i \in DOMAIN executions :
          /\ executions'[i] \in ExecutionRows /\ executions'[i].due = executions[i].due
          /\ executions'[i].status \in {executions[i].status, "GONE"}
    <3>1. \A r \in ExecutionRows : LET q == [r EXCEPT !.status = "GONE", !.sub = "none"] IN
            q \in ExecutionRows /\ q.due = r.due /\ q.status = "GONE"
      BY DEF ExecutionRows
    <3> QED
      BY <1>b, <2>2, <3>1
  <2>4. /\ executions' \in Seq(ExecutionRows) /\ Len(executions') = Len(executions)
        /\ DOMAIN executions' = DOMAIN executions
    BY <1>y, <2>2, <2>3
  <2>5. ReportTypes'
    BY <1>a, <1>b, <2>1, <2>4 DEF ReportTypes
  <2>6. TasksAreReal'
    BY <1>a, <2>1, <2>3, <2>4, TasksFrame
  <2>7. DuesAreOwned' /\ DuesArePast'
    <3>1. \A w \in Workers : HasDue(w)' => HasDue(w) /\ Due(w)' = Due(w)
      BY <2>1 DEF HasDue, Working, Due
    <3>2. \A i \in DOMAIN executions' : HasFailed(i)' =>
            i \in DOMAIN executions /\ HasFailed(i) /\ executions'[i].due = executions[i].due
      BY <2>3, <2>4 DEF HasFailed
    <3> QED
      BY <1>a, <2>1, <3>1, <3>2, DuesFrame
  <2> QED
    BY <2>5, <2>6, <2>7 DEF ReportInv
<1>11. ASSUME NEW w \in Workers, ExportOnDemand(w) PROVE ReportInv'
  <2> DEFINE t == Task("none", <<"none", 0>>, 0, "create")
             x == [phase |-> "request", todo |-> {}, task |-> t]
  <2>1. job' = [job EXCEPT ![w] = x] /\ UNCHANGED <<time, nextRun, executions, mailed>>
    BY <1>11 DEF ExportOnDemand
  <2>2. t \in AnyTask /\ t.due = <<"none", 0>> /\ t.sub = "none" /\ t.step = "create"
    BY DEF Task, AnyTask, Tasks, Dues
  <2> HIDE DEF t
  <2>3. x \in Jobs /\ x.task = t /\ x.phase = "request"
    BY <2>2 DEF Jobs
  <2> HIDE DEF x
  <2>6. job'[w] = x
    BY <1>w, <2>1, <2>3
  <2>4. TaskIsReal(w)'
    BY <2>2, <2>3, <2>6 DEF TaskIsReal, Working
  <2>5. x.task.due[1] \notin Subs
    BY <2>2, <2>3, ReportAssumption
  <2> QED
    BY <1>4, <2>1, <2>3, <2>4, <2>5
(* The next step of a task.                                                      *)
<1>s. ASSUME NEW t \in Tasks, NEW next \in {"create", "generate", "mail"}, NEW n \in Nat
      PROVE  /\ [t EXCEPT !.step = next] \in Tasks
             /\ [t EXCEPT !.step = next, !.execution = n] \in Tasks
  BY DEF Tasks
<1>o. ASSUME NEW w \in Workers, job[w].task.step \in {"create", "generate", "mail"}
      PROVE  job[w].task \in Tasks /\ Working(w)
  BY <1>c, <1>o, JobsAreTyped, TasksAreTyped DEF Working, NoTask
(* A task that ends without a trace.                                             *)
<1>e. ASSUME NEW w \in Workers, Drop(w), UNCHANGED <<time, nextRun, executions, mailed>>
      PROVE  ReportInv'
  <2>1. PICK x \in Jobs : /\ job' = [job EXCEPT ![w] = x] /\ x.task = NoTask
                          /\ x.phase = job[w].phase /\ x.todo = job[w].todo
    BY <1>d, <1>e
  <2>2. TaskIsReal(w)'
    BY <1>r, <1>w, <1>e, <2>1
  <2> QED
    BY <1>4, <1>e, <2>1, <2>2
<1>12. ASSUME NEW w \in Workers, CreateExecution(w) PROVE ReportInv'
  <2> DEFINE t == job[w].task
             n == Len(executions)
             r == [sub |-> t.sub, due |-> t.due, status |-> "RUNNING", retryCount |-> 0,
                   createdAt |-> time, updatedAt |-> time]
  <2>1. /\ UNCHANGED <<time, nextRun, mailed>> /\ t \in Tasks /\ Working(w) /\ t.step = "create"
        /\ n + 1 <= MaxExecutions
    BY <1>12, <1>b, <1>o, ReportAssumption DEF CreateExecution
  <2>2. CASE /\ executions' = Append(executions, r)
             /\ job' = [job EXCEPT ![w].task.step = "generate", ![w].task.execution = n + 1]
    <3> DEFINE u == [t EXCEPT !.step = "generate", !.execution = n + 1]
               x == [job[w] EXCEPT !.task = u]
    <3>1. u \in Tasks /\ u.due = t.due /\ u.sub = t.sub /\ u.step = "generate" /\ u.execution = n + 1
      <4>2. n + 1 \in Nat
        BY <1>b
      <4>1. u \in Tasks
        BY <2>1, <4>2 DEF Tasks
      <4> QED
        BY <2>1, <4>1 DEF Tasks
    <3>2. r \in ExecutionRows /\ r.due = t.due /\ r.status = "RUNNING"
      BY <1>a, <2>1, TasksAreTyped DEF ExecutionRows
    <3>3. job' = [job EXCEPT ![w] = x]
      BY <1>a, <2>2
    <3> HIDE DEF u
    <3>4. x \in Jobs /\ x.task = u /\ x.phase = job[w].phase /\ x.todo = job[w].todo
      <4>1. x \in Jobs
        BY <1>c, <3>1, JobsGoOn DEF AnyTask
      <4>2. x.task = u /\ x.phase = job[w].phase /\ x.todo = job[w].todo
        BY <1>c DEF Jobs
      <4> QED
        BY <4>1, <4>2
    <3> HIDE DEF x, r
    <3>5. /\ job' \in [Workers -> Jobs] /\ job'[w] = x
          /\ \A v \in Workers : v # w =>
               /\ job'[v] = job[v] /\ (HasDue(v)' <=> HasDue(v)) /\ Due(v)' = Due(v)
      BY <1>w, <3>3, <3>4
    <3>6. /\ executions' \in Seq(ExecutionRows) /\ Len(executions') = n + 1
          /\ DOMAIN executions' = 1 .. n + 1 /\ executions'[n + 1] = r
          /\ \A i \in DOMAIN executions : i \in DOMAIN executions' /\ executions'[i] = executions[i]
      BY <1>b, <2>2, <3>2
    <3>7. ReportTypes'
      BY <1>a, <2>1, <3>5, <3>6 DEF ReportTypes
    <3>8. TasksAreReal'
      <4>1. TaskIsReal(w)'
        BY <1>b, <1>c, <2>1, <3>1, <3>2, <3>4, <3>5, <3>6 DEF TaskIsReal, Working
      <4> QED
        BY <1>a, <2>1, <3>5, <3>6, <4>1, TasksFrame
    <3>9. DuesAreOwned' /\ DuesArePast'
      <4>1. \A v \in Workers : HasDue(v)' => HasDue(v) /\ Due(v)' = Due(v)
        BY <2>1, <3>1, <3>4, <3>5 DEF HasDue, Due
      <4>2. \A i \in DOMAIN executions' : HasFailed(i)' =>
              i \in DOMAIN executions /\ HasFailed(i) /\ executions'[i].due = executions[i].due
        BY <1>b, <3>2, <3>6 DEF HasFailed
      <4> QED
        BY <1>a, <2>1, <4>1, <4>2, DuesFrame
    <3> QED
      BY <3>7, <3>8, <3>9 DEF ReportInv
  <2>3. CASE Drop(w) /\ UNCHANGED executions
    BY <1>e, <2>1, <2>3
  <2> QED
    BY <1>12, <2>2, <2>3 DEF CreateExecution
<1>13. ASSUME NEW w \in Workers, Generate(w) PROVE ReportInv'
  <2> DEFINE t == job[w].task
             i == t.execution
             u == [t EXCEPT !.step = "mail"]
             x == [job[w] EXCEPT !.task = u]
             r == [executions[i] EXCEPT !.status = "SUCCESS", !.updatedAt = time]
  <2>1. /\ UNCHANGED <<time, nextRun, mailed>> /\ t \in Tasks /\ Working(w) /\ t.step = "generate"
        /\ i \in DOMAIN executions /\ executions[i].due = t.due
    BY <1>13, <1>c, <1>o DEF Generate, TaskIsReal
  <2>2. u \in Tasks /\ u.due = t.due /\ u.sub = t.sub /\ u.step = "mail" /\ u.execution = i
    BY <1>s, <2>1 DEF Tasks
  <2>3. r \in ExecutionRows /\ r.due = executions[i].due /\ r.status = "SUCCESS"
    BY <1>a, <1>b, <2>1 DEF ExecutionRows
  <2>4. job' = [job EXCEPT ![w] = x] /\ executions' = [executions EXCEPT ![i] = r]
    BY <1>13, <1>a, <1>b, <2>1 DEF Generate, Settle
  <2> HIDE DEF u
  <2>5. x \in Jobs /\ x.task = u /\ x.phase = job[w].phase /\ x.todo = job[w].todo
    <3>1. x \in Jobs
      BY <1>c, <2>2, JobsGoOn DEF AnyTask
    <3>2. x.task = u /\ x.phase = job[w].phase /\ x.todo = job[w].todo
      BY <1>c DEF Jobs
    <3> QED
      BY <3>1, <3>2
  <2> HIDE DEF x, r
  <2>6. /\ job' \in [Workers -> Jobs] /\ job'[w] = x
        /\ \A v \in Workers : v # w =>
             /\ job'[v] = job[v] /\ (HasDue(v)' <=> HasDue(v)) /\ Due(v)' = Due(v)
    BY <1>w, <2>4, <2>5
  <2>7. /\ executions' \in Seq(ExecutionRows) /\ Len(executions') = Len(executions)
        /\ DOMAIN executions' = DOMAIN executions /\ executions'[i] = r
        /\ \A k \in DOMAIN executions : k # i => executions'[k] = executions[k]
        /\ \A k \in DOMAIN executions : executions'[k].due = executions[k].due
    BY <1>x, <2>1, <2>3, <2>4
  <2>8. ReportTypes'
    BY <1>a, <1>b, <2>1, <2>6, <2>7 DEF ReportTypes
  <2>9. TasksAreReal'
    <3>1. TaskIsReal(w)'
      BY <1>c, <2>1, <2>2, <2>5, <2>6, <2>7 DEF TaskIsReal, Working
    <3> QED
      BY <1>a, <2>1, <2>6, <2>7, <3>1, TasksFrame
  <2>10. DuesAreOwned' /\ DuesArePast'
    <3>1. \A v \in Workers : HasDue(v)' => HasDue(v) /\ Due(v)' = Due(v)
      BY <2>1, <2>2, <2>5, <2>6 DEF HasDue, Due
    <3>2. \A k \in DOMAIN executions' : HasFailed(k)' =>
            k \in DOMAIN executions /\ HasFailed(k) /\ executions'[k].due = executions[k].due
      BY <2>3, <2>7 DEF HasFailed
    <3> QED
      BY <1>a, <2>1, <3>1, <3>2, DuesFrame
  <2> QED
    BY <2>8, <2>9, <2>10 DEF ReportInv
<1>14. ASSUME NEW w \in Workers, Mail(w) PROVE ReportInv'
  <2> DEFINE t == job[w].task
  <2>1. /\ UNCHANGED <<time, nextRun, executions>> /\ t \in Tasks /\ Working(w) /\ Drop(w)
        /\ t.sub = t.due[1] /\ t.due \in Dues
        /\ mailed' = IF t.sub # "none" /\ nextRun[t.sub] # 0 THEN Append(mailed, t.due) ELSE mailed
    BY <1>14, <1>c, <1>o, TasksAreTyped DEF Mail, TaskIsReal
  <2>2. CASE UNCHANGED mailed
    BY <1>e, <2>1, <2>2
  <2>3. CASE t.sub # "none" /\ mailed' = Append(mailed, t.due)
    <3>1. HasDue(w) /\ Due(w) = t.due /\ t.due \in DueItems
      BY <2>1, <2>3, TasksAreTyped DEF HasDue, Due
    <3>2. PICK x \in Jobs : /\ job' = [job EXCEPT ![w] = x] /\ x.task = NoTask
                            /\ x.phase = job[w].phase /\ x.todo = job[w].todo
      BY <1>d, <2>1
    <3>3. /\ job' \in [Workers -> Jobs] /\ job'[w] = x
          /\ \A v \in Workers : v # w =>
               /\ job'[v] = job[v] /\ (HasDue(v)' <=> HasDue(v)) /\ Due(v)' = Due(v)
      BY <1>w, <3>2
    <3>4. /\ Len(mailed) \in Nat /\ mailed' \in Seq(DueItems)
          /\ DOMAIN mailed = 1 .. Len(mailed) /\ DOMAIN mailed' = 1 .. Len(mailed) + 1
          /\ mailed'[Len(mailed) + 1] = Due(w)
          /\ \A k \in DOMAIN mailed : mailed'[k] = mailed[k]
      BY <1>a, <2>3, <3>1
    <3>5. ReportTypes'
      BY <1>a, <1>b, <2>1, <3>3, <3>4 DEF ReportTypes, DueItems
    <3>6. TasksAreReal'
      <4>1. TaskIsReal(w)'
        BY <1>r, <2>1, <3>2, <3>3
      <4> QED
        BY <1>a, <1>b, <2>1, <3>3, <4>1, TasksFrame
    (* The claim passes from the worker to the mail.                             *)
    <3>7. ~HasDue(w)' /\ \A i \in DOMAIN executions : HasFailed(i)' <=> HasFailed(i)
      BY <2>1, <3>2, <3>3 DEF HasDue, Working, HasFailed
    <3>8. DuesAreOwned /\ DuesArePast
      BY DEF ReportInv
    (* The clock and the next runs stay, so what was past is past.               *)
    <3>p. \A due : IsPast(due)' <=> IsPast(due)
      BY <2>1 DEF IsPast
    <3>9. \A k \in DOMAIN mailed' : IsPast(mailed'[k])
      <4>1. IsPast(Due(w)) /\ \A k \in DOMAIN mailed : IsPast(mailed[k])
        BY <3>1, <3>8 DEF DuesArePast
      <4> QED
        BY <3>4, <4>1
    <3>14. \A v \in Workers : HasDue(v)' => IsPast(Due(v)')
      BY <3>3, <3>7, <3>8 DEF DuesArePast
    <3>15. \A i \in DOMAIN executions' : HasFailed(i)' => IsPast(executions'[i].due)
      BY <2>1, <3>7, <3>8 DEF DuesArePast
    <3>10. DuesArePast'
      BY <3>9, <3>p, <3>14, <3>15 DEF DuesArePast
    <3>11. MailedOnce'
      BY <3>1, <3>4, <3>8 DEF DuesAreOwned, MailedOnce, IsInjective
    <3>12. ASSUME NEW k \in DOMAIN mailed'
           PROVE  /\ \A v \in Workers : HasDue(v)' => Due(v)' # mailed'[k]
                  /\ \A i \in DOMAIN executions' : HasFailed(i)' => executions'[i].due # mailed'[k]
      <4>1. CASE k \in DOMAIN mailed
        BY <2>1, <3>3, <3>4, <3>7, <3>8, <4>1 DEF DuesAreOwned
      <4>2. CASE k \notin DOMAIN mailed
        <5>1. mailed'[k] = Due(w)
          BY <3>4, <4>2
        <5>2. \A v \in Workers : HasDue(v)' => Due(v)' # Due(w)
          BY <3>1, <3>3, <3>7, <3>8 DEF DuesAreOwned
        <5>3. \A i \in DOMAIN executions' : HasFailed(i)' => executions'[i].due # Due(w)
          BY <2>1, <3>1, <3>7, <3>8 DEF DuesAreOwned
        <5> QED
          BY <5>1, <5>2, <5>3
      <4> QED
        BY <4>1, <4>2
    <3>13. DuesAreOwned'
      <4>1. \A v \in Workers : HasDue(v)' => v # w /\ HasDue(v) /\ Due(v)' = Due(v)
        BY <3>3, <3>7
      <4>2. executions' = executions /\ \A i \in DOMAIN executions : HasFailed(i)' <=> HasFailed(i)
        BY <2>1, <3>7
      <4>3. /\ \A u, v \in Workers : HasDue(u)' /\ HasDue(v)' /\ Due(u)' = Due(v)' => u = v
            /\ \A v \in Workers, i \in DOMAIN executions' :
                 HasDue(v)' /\ HasFailed(i)' => executions'[i].due # Due(v)'
        BY <3>8, <4>1, <4>2 DEF DuesAreOwned
      <4>4. \A i, j \in DOMAIN executions' :
              HasFailed(i)' /\ HasFailed(j)' /\ executions'[i].due = executions'[j].due => i = j
        BY <3>8, <4>2 DEF DuesAreOwned
      <4> QED
        BY <3>11, <3>12, <4>3, <4>4 DEF DuesAreOwned
    <3> QED
      BY <3>5, <3>6, <3>10, <3>13 DEF ReportInv
  <2> QED
    BY <2>1, <2>2, <2>3
<1>15. ASSUME NEW w \in Workers, GenerationFails(w) PROVE ReportInv'
  <2> DEFINE t == job[w].task
             i == t.execution
             r == [executions[i] EXCEPT !.status = "FAILED", !.updatedAt = time]
  <2>1. /\ UNCHANGED <<time, nextRun, mailed>> /\ t \in Tasks /\ Working(w) /\ Drop(w)
        /\ i \in DOMAIN executions /\ executions[i].due = t.due
    BY <1>15, <1>c, <1>o DEF GenerationFails, Caught, TaskIsReal
  <2>2. CASE UNCHANGED executions
    BY <1>e, <2>1, <2>2
  <2>3. CASE Settle(i, "FAILED")
    <3>1. r \in ExecutionRows /\ r.due = executions[i].due /\ r.status = "FAILED"
      BY <1>a, <1>b, <2>1 DEF ExecutionRows
    <3>2. executions' = [executions EXCEPT ![i] = r]
      BY <1>b, <2>1, <2>3 DEF Settle
    <3> HIDE DEF r
    <3>3. /\ executions' \in Seq(ExecutionRows) /\ Len(executions') = Len(executions)
          /\ DOMAIN executions' = DOMAIN executions /\ executions'[i] = r
          /\ \A k \in DOMAIN executions : k # i => executions'[k] = executions[k]
          /\ \A k \in DOMAIN executions : executions'[k].due = executions[k].due
      BY <1>x, <2>1, <3>1, <3>2
    <3>4. PICK x \in Jobs : /\ job' = [job EXCEPT ![w] = x] /\ x.task = NoTask
                            /\ x.phase = job[w].phase /\ x.todo = job[w].todo
      BY <1>d, <2>1
    <3>5. /\ job' \in [Workers -> Jobs] /\ job'[w] = x
          /\ \A v \in Workers : v # w =>
               /\ job'[v] = job[v] /\ (HasDue(v)' <=> HasDue(v)) /\ Due(v)' = Due(v)
      BY <1>w, <3>4
    <3>6. ReportTypes'
      BY <1>a, <1>b, <2>1, <3>3, <3>5 DEF ReportTypes
    <3>7. TasksAreReal'
      <4>1. TaskIsReal(w)'
        BY <1>r, <2>1, <3>3, <3>4, <3>5
      <4> QED
        BY <1>a, <2>1, <3>3, <3>5, <4>1, TasksFrame
    (* The claim passes from the worker to the execution.                        *)
    <3>8. \A v \in Workers : HasDue(v)' => v # w /\ HasDue(v) /\ Due(v)' = Due(v)
      BY <3>4, <3>5 DEF HasDue, Working
    <3>12. /\ \A k \in DOMAIN executions : HasFailed(k)' =>
                \/ k = i /\ HasDue(w) /\ executions'[k].due = Due(w)
                \/ k # i /\ HasFailed(k) /\ executions'[k].due = executions[k].due
      <4>1. ASSUME NEW k \in DOMAIN executions, HasFailed(k)', k = i
            PROVE  HasDue(w) /\ executions'[k].due = Due(w)
        BY <2>1, <3>3, <4>1 DEF Due, HasFailed, HasDue
      <4>2. ASSUME NEW k \in DOMAIN executions, HasFailed(k)', k # i
            PROVE  HasFailed(k) /\ executions'[k].due = executions[k].due
        BY <3>3, <4>2 DEF HasFailed
      <4> QED
        BY <4>1, <4>2
    <3> HIDE DEF i
    <3>9. DuesAreOwned /\ DuesArePast
      BY DEF ReportInv
    <3>10. DuesAreOwned'
      BY <2>1, <3>3, <3>8, <3>9, <3>12 DEF DuesAreOwned, MailedOnce, IsInjective
    <3>11. DuesArePast'
      BY <2>1, <3>3, <3>8, <3>9, <3>12 DEF DuesArePast, IsPast
    <3> QED
      BY <3>6, <3>7, <3>10, <3>11 DEF ReportInv
  <2> QED
    BY <1>15, <2>2, <2>3 DEF GenerationFails, Caught
<1>16. CASE UNCHANGED rpVars
  <2>1. UNCHANGED <<time, nextRun, executions, job, mailed>>
    BY <1>16 DEF rpVars
  <2>2. ReportTypes' /\ TasksAreReal'
    BY <1>a, <1>b, <2>1, TasksFrame DEF ReportTypes
  <2>3. \A w \in Workers : HasDue(w)' => HasDue(w) /\ Due(w)' = Due(w)
    BY <2>1 DEF HasDue, Working, Due
  <2>4. \A k \in DOMAIN executions' : HasFailed(k)' =>
          k \in DOMAIN executions /\ HasFailed(k) /\ executions'[k].due = executions[k].due
    BY <2>1 DEF HasFailed
  <2>5. DuesAreOwned' /\ DuesArePast'
    BY <1>a, <2>1, <2>3, <2>4, DuesFrame
  <2> QED
    BY <2>2, <2>5 DEF ReportInv
<1> QED
  BY <1>1, <1>2, <1>3, <1>5, <1>6, <1>7, <1>8, <1>9, <1>10, <1>11, <1>12, <1>13, <1>14, <1>15,
    <1>16 DEF RpNext

(* THEOREM. Every state of the reports satisfies the invariant: one worker,   *)
(* one failed execution or one mail per due time.                             *)
THEOREM ReportInvariance == RpSpec => []ReportInv
  BY ReportInitHolds, ReportStepHolds, PTL DEF RpSpec

(* The invariant gives the types.                                             *)
LEMMA ReportsAreTyped == ASSUME ReportInv PROVE RpTypeOK
<1>1. \A i \in DOMAIN executions : executions[i].status \in {"RUNNING", "SUCCESS", "FAILED", "GONE"}
  BY ExecutionsAreTyped DEF ReportInv, ExecutionRows
<1> QED
  BY <1>1 DEF ReportInv, ReportTypes, TasksAreReal, TaskIsReal, RpTypeOK

(* THEOREM. The types of the reports hold for any subscriptions, workers and  *)
(* bounds; a worker at a report has an execution of its own due time          *)
(* (report.scheduler.ts).                                                     *)
THEOREM ReportTypesHold == RpSpec => []RpTypeOK
<1>1. ReportInv => RpTypeOK
  BY ReportsAreTyped
<1> QED
  BY ReportInvariance, <1>1, PTL

(* THEOREM. No due time of a subscription is mailed twice, whichever          *)
(* processes run the scheduler, crash and retry (report.scheduler.ts, the     *)
(* conditional updates that claim).                                           *)
THEOREM ReportsAreMailedOnce == RpSpec => []MailedOnce
<1>1. ReportInv => MailedOnce
  BY DEF ReportInv, DuesAreOwned
<1> QED
  BY ReportInvariance, <1>1, PTL

--------------------------------------------------------------------------------
(* HealthAlerts. Recoveries are paid for. An evaluation reports one only      *)
(* after it has read that the system was down, and each record of a failure   *)
(* lets every evaluation do so once: the recoveries told, those being told    *)
(* and those that may yet be told never exceed the failures times the         *)
(* evaluations.                                                               *)

(* What the variables range over.                                             *)
AlertTypes ==
  /\ recorded \in HealthStatus
  /\ live \in [Evaluations ->
       [step : {"idle", "compare", "record", "alert"}, status : HealthStatus, last : HealthStatus]]
  /\ begun \in 0 .. MaxEvaluations /\ failures \in Nat /\ recoveries \in Nat

(* The evaluations that have seen the system down and will report it recovered.    *)
Recording == {e \in Evaluations : live[e].step = "record" /\ Recovered(e)}
Alerting == {e \in Evaluations : live[e].step = "alert" /\ Recovered(e)}

(* While the system is recorded as down every evaluation may yet see it so.        *)
Credit == IF recorded \in Down THEN Cardinality(Evaluations) ELSE Cardinality(Recording)

RecoveriesArePaid ==
  recoveries + Credit + Cardinality(Alerting) <= failures * Cardinality(Evaluations)

(* The invariant of the health alerts.                                        *)
AlertInv == AlertTypes /\ RecoveriesArePaid

(* The system can be healthy.                                                 *)
LEMMA HealthyIsAStatus == "HEALTHY" \in HealthStatus
<1>1. GlobalStatus("HEALTHY", "HEALTHY", "low") = "HEALTHY"
  BY DEF GlobalStatus
<1> QED
  BY <1>1 DEF HealthStatus, Postgres, Redis, Load

(* Of finitely many evaluations, some are counted.                            *)
LEMMA SubsetsAreCounted ==
  ASSUME NEW S \in SUBSET Evaluations
  PROVE  IsFiniteSet(S) /\ Cardinality(S) \in 0 .. Cardinality(Evaluations)
<1>1. IsFiniteSet(S) /\ Cardinality(S) <= Cardinality(Evaluations)
  BY FS_Subset, EvaluationAssumption
<1> QED
  BY <1>1, FS_CardinalityType, EvaluationAssumption

(* One fewer counts one less.                                                 *)
LEMMA RestIsCounted ==
  ASSUME NEW S \in SUBSET Evaluations, NEW e \in S
  PROVE  Cardinality(S \ {e}) = Cardinality(S) - 1
  BY SubsetsAreCounted, FS_RemoveElement

(* One more counts one more.                                                  *)
LEMMA OneMoreIsCounted ==
  ASSUME NEW S \in SUBSET Evaluations, NEW e \in Evaluations, e \notin S
  PROVE  Cardinality(S \cup {e}) = Cardinality(S) + 1
  BY SubsetsAreCounted, FS_AddElement

(* The invariant holds before the first evaluation.                           *)
LEMMA AlertInitHolds == HaInit => AlertInv
<1> SUFFICES ASSUME HaInit PROVE AlertInv
  OBVIOUS
<1> USE DEF HaInit
<1>1. AlertTypes
  BY HealthyIsAStatus, EvaluationAssumption DEF AlertTypes, NoEvaluation
<1>2. Recording = {} /\ Alerting = {} /\ recorded \notin Down
  BY DEF Recording, Alerting, NoEvaluation, Down
<1>3. Cardinality(Evaluations) \in Nat
  BY FS_CardinalityType, EvaluationAssumption
<1> QED
  BY <1>1, <1>2, <1>3, FS_EmptySet DEF AlertInv, RecoveriesArePaid, Credit

(* Every step of every evaluation keeps the invariant.                        *)
LEMMA AlertStepHolds == AlertInv /\ [HaNext]_haVars => AlertInv'
<1> SUFFICES ASSUME AlertInv, [HaNext]_haVars PROVE AlertInv'
  OBVIOUS
<1> USE DEF AlertInv
<1> DEFINE n == Cardinality(Evaluations)
<1>a. /\ n \in Nat
      /\ Recording \in SUBSET Evaluations /\ Alerting \in SUBSET Evaluations
      /\ Recording' \in SUBSET Evaluations /\ Alerting' \in SUBSET Evaluations
  BY FS_CardinalityType, EvaluationAssumption DEF Recording, Alerting
<1>b. /\ Cardinality(Recording) \in 0 .. n /\ Cardinality(Alerting) \in 0 .. n
      /\ Cardinality(Recording') \in 0 .. n /\ Cardinality(Alerting') \in 0 .. n
  BY <1>a, SubsetsAreCounted
<1>c. failures \in Nat /\ failures * n \in Nat /\ (failures + 1) * n = failures * n + n
  BY <1>a DEF AlertTypes
<1>d. Credit \in 0 .. n
  BY <1>a, <1>b DEF Credit
<1> HIDE DEF n
(* A step that starts or drops an evaluation, and pays nothing out.              *)
<1>e. ASSUME UNCHANGED <<recorded, failures, recoveries>>,
             Recording' \subseteq Recording, Alerting' \subseteq Alerting
      PROVE  RecoveriesArePaid'
  <2>1. Cardinality(Recording') <= Cardinality(Recording)
    BY <1>a, <1>e, SubsetsAreCounted, FS_Subset
  <2>2. Cardinality(Alerting') <= Cardinality(Alerting)
    BY <1>a, <1>e, SubsetsAreCounted, FS_Subset
  <2> QED
    BY <1>a, <1>b, <1>c, <1>e, <2>1, <2>2 DEF RecoveriesArePaid, Credit, AlertTypes, n
<1>1. ASSUME NEW e \in Evaluations, EvaluateAndCache(e) PROVE AlertInv'
  <2> USE <1>1 DEF EvaluateAndCache
  <2>1. AlertTypes'
    BY HealthyIsAStatus, EvaluationAssumption DEF AlertTypes
  <2>2. Recording' \subseteq Recording /\ Alerting' \subseteq Alerting
    BY DEF AlertTypes, Recording, Alerting, Recovered
  <2> QED
    BY <1>e, <2>1, <2>2
<1>2. ASSUME NEW e \in Evaluations, CompareStatus(e) PROVE AlertInv'
  <2> USE <1>2 DEF CompareStatus
  <2>1. AlertTypes'
    BY HealthyIsAStatus DEF AlertTypes, Finish, NoEvaluation
  <2>2. Alerting' \subseteq Alerting
    BY DEF AlertTypes, Alerting, Recovered, Finish, NoEvaluation
  <2>3. CASE recorded \in Down
    <3>1. Cardinality(Alerting') <= Cardinality(Alerting)
      BY <1>a, <2>2, SubsetsAreCounted, FS_Subset
    <3>2. Credit' = n /\ Credit = n
      BY <2>3 DEF Credit, n
    <3>3. recoveries + n + Cardinality(Alerting) <= failures * n
      BY <3>2 DEF RecoveriesArePaid, n
    <3>4. recoveries + n + Cardinality(Alerting') <= failures * n
      BY <1>a, <1>b, <1>c, <3>1, <3>3 DEF AlertTypes
    <3> QED
      BY <2>1, <3>2, <3>4 DEF RecoveriesArePaid, n
  <2>4. CASE recorded \notin Down
    <3>1. Recording' \subseteq Recording
      BY <2>4 DEF AlertTypes, Recording, Recovered, Finish, NoEvaluation
    <3> QED
      BY <1>e, <2>1, <2>2, <3>1
  <2> QED
    BY <2>3, <2>4
<1>3. ASSUME NEW e \in Evaluations, Record(e) PROVE AlertInv'
  <2> USE <1>3 DEF Record, SetLastState
  <2>1. AlertTypes'
    BY HealthyIsAStatus DEF AlertTypes, Finish, LiveAt, NoEvaluation
  <2>2. CASE Recovered(e)
    <3>1. /\ Recording' = Recording \ {e} /\ e \in Recording
          /\ Alerting' = Alerting \cup {e} /\ e \notin Alerting
      BY <2>2 DEF AlertTypes, Recording, Alerting, Recovered, TellsOf, LiveAt
    <3>2. Cardinality(Recording') = Cardinality(Recording) - 1
      BY <1>a, <3>1, RestIsCounted
    <3>3. Cardinality(Alerting') = Cardinality(Alerting) + 1
      BY <1>a, <3>1, OneMoreIsCounted
    <3>4. recorded' \notin Down /\ failures' = failures
      BY <2>2, <1>c DEF Recovered, Down
    <3> QED
      BY <1>a, <1>b, <1>c, <2>1, <3>2, <3>3, <3>4 DEF RecoveriesArePaid, Credit, AlertTypes, n
  <2>3. CASE ~Recovered(e)
    <3>1. Recording' = Recording /\ Alerting' = Alerting
      BY <2>3 DEF AlertTypes, Recording, Alerting, Recovered, LiveAt, Finish, NoEvaluation, Down
    <3>2. CASE recorded' \in Down
      <4>1. failures' = failures + 1
        BY <3>2
      <4> QED
        BY <1>a, <1>b, <1>c, <1>d, <2>1, <3>1, <3>2, <4>1
          DEF RecoveriesArePaid, Credit, AlertTypes, n
    <3>3. CASE recorded' \notin Down
      <4>1. failures' = failures
        BY <1>c, <3>3
      <4> QED
        BY <1>a, <1>b, <1>c, <1>d, <2>1, <3>1, <3>3, <4>1
          DEF RecoveriesArePaid, Credit, AlertTypes, n
    <3> QED
      BY <3>2, <3>3
  <2> QED
    BY <2>2, <2>3
<1>4. ASSUME NEW e \in Evaluations, DispatchAlert(e) PROVE AlertInv'
  <2> USE <1>4 DEF DispatchAlert, Finish
  <2>1. AlertTypes'
    BY HealthyIsAStatus DEF AlertTypes, NoEvaluation
  <2>2. Recording' = Recording
    BY DEF AlertTypes, Recording, Recovered, NoEvaluation
  <2>3. CASE Recovered(e)
    <3>1. Alerting' = Alerting \ {e} /\ e \in Alerting
      BY <2>3 DEF AlertTypes, Alerting, Recovered, NoEvaluation
    <3>2. Cardinality(Alerting') = Cardinality(Alerting) - 1
      BY <1>a, <3>1, RestIsCounted
    <3> QED
      BY <1>a, <1>b, <1>c, <2>1, <2>2, <2>3, <3>2 DEF RecoveriesArePaid, Credit, AlertTypes, n
  <2>4. CASE ~Recovered(e)
    <3>1. Alerting' = Alerting /\ recoveries' = recoveries
      BY <2>4 DEF AlertTypes, Alerting, Recovered, NoEvaluation
    <3> QED
      BY <1>e, <2>1, <2>2, <3>1
  <2> QED
    BY <2>3, <2>4
<1>5. ASSUME NEW e \in Evaluations, GiveUpEvaluation(e) PROVE AlertInv'
  <2> USE <1>5 DEF GiveUpEvaluation, Finish
  <2>1. AlertTypes'
    BY HealthyIsAStatus DEF AlertTypes, NoEvaluation
  <2>2. Recording' \subseteq Recording /\ Alerting' \subseteq Alerting
    BY DEF AlertTypes, Recording, Alerting, Recovered, NoEvaluation
  <2> QED
    BY <1>e, <2>1, <2>2
<1>6. CASE UNCHANGED haVars
  <2>1. AlertTypes' /\ Recording' = Recording /\ Alerting' = Alerting
    BY <1>6 DEF haVars, AlertTypes, Recording, Alerting, Recovered
  <2> QED
    BY <1>6, <2>1, <1>e DEF haVars
<1> QED
  BY <1>1, <1>2, <1>3, <1>4, <1>5, <1>6 DEF HaNext

(* THEOREM. There are never more recoveries told than failures times the      *)
(* evaluations that can be at work: a recovery belongs to a failure that was  *)
(* recorded (health.alert.service.ts, the last state read and written in two  *)
(* calls).                                                                    *)
THEOREM RecoveriesAreNeverInvented == HaSpec => []RecoveriesAreEarned
<1>1. AlertInv => RecoveriesAreEarned
  <2> SUFFICES ASSUME AlertInv PROVE RecoveriesAreEarned
    OBVIOUS
  <2>1. /\ Recording \in SUBSET Evaluations /\ Alerting \in SUBSET Evaluations
        /\ Cardinality(Evaluations) \in Nat
    BY FS_CardinalityType, EvaluationAssumption DEF Recording, Alerting
  <2>2. Credit \in Nat /\ Cardinality(Alerting) \in Nat
    BY <2>1, SubsetsAreCounted DEF Credit
  <2>3. failures * Cardinality(Evaluations) \in Nat /\ recoveries \in Nat
    BY <2>1 DEF AlertInv, AlertTypes
  <2> QED
    BY <2>2, <2>3 DEF AlertInv, RecoveriesArePaid, RecoveriesAreEarned
<1> QED
  BY AlertInitHolds, AlertStepHolds, <1>1, PTL DEF HaSpec

--------------------------------------------------------------------------------
(* HealthSnapshots. One snapshot per hour, for any number of processes and    *)
(* hours and any lengths that SnapshotAssumption allows. The lock is long     *)
(* gone when a slow process stores its snapshot; what keeps a second one out  *)
(* is that nobody asks for the lock any more by the time it has expired: in   *)
(* an hour that has a holder, the lock's rest and the minutes gone by are     *)
(* never less than the lock's life.                                           *)

SnapshotStages == {"rest", "lock", "read", "store"}

(* What the variables range over.                                             *)
SnapshotTypes ==
  /\ hour \in 0 .. MaxHours /\ step \in 0 .. Hour - 1 /\ lockLeft \in 0 .. LockTtl
  /\ hourly \in [Servers -> [hour : Nat, at : SnapshotStages]]
  /\ \A s \in Servers :
       hourly[s].hour <= hour /\ (hourly[s].at # "rest" => 1 <= hourly[s].hour)
  /\ \A x \in snapshots :
       x \in [server : Servers, hour : Nat] /\ 1 <= x.hour /\ x.hour <= hour

HoldsHour(s) == hourly[s].at \in {"read", "store"}

(* Nobody waits for the lock late, or in another hour.                            *)
AskersAreEarly ==
  \A s \in Servers : hourly[s].at = "lock" => hourly[s].hour = hour /\ Early

(* What holds or has stored the snapshot of an hour is one.                       *)
HoldersAreAlone ==
  /\ \A s, t \in Servers : HoldsHour(s) /\ HoldsHour(t) /\ hourly[s].hour = hourly[t].hour => s = t
  /\ \A s \in Servers, x \in snapshots : HoldsHour(s) => x.hour # hourly[s].hour
  /\ OneSnapshotPerHour

HourIsTaken ==
  \/ \E s \in Servers : HoldsHour(s) /\ hourly[s].hour = hour
  \/ \E x \in snapshots : x.hour = hour

LockOutlastsSkew == HourIsTaken => lockLeft + step >= LockTtl

(* The invariant of the snapshots.                                            *)
SnapshotInv == SnapshotTypes /\ AskersAreEarly /\ HoldersAreAlone /\ LockOutlastsSkew

--------------------------------------------------------------------------------
(* The invariant holds before the first hour begins.                              *)
LEMMA SnapshotInitHolds == HsInit => SnapshotInv
<1> SUFFICES ASSUME HsInit PROVE SnapshotInv
  OBVIOUS
<1> USE SnapshotAssumption DEF HsInit
<1>1. SnapshotTypes
  BY DEF SnapshotTypes, SnapshotStages
<1>2. \A s \in Servers : hourly[s].at = "rest"
  OBVIOUS
<1>3. AskersAreEarly /\ HoldersAreAlone /\ LockOutlastsSkew
  BY <1>2 DEF AskersAreEarly, HoldersAreAlone, LockOutlastsSkew, OneSnapshotPerHour,
    HourIsTaken, HoldsHour
<1> QED
  BY <1>1, <1>3 DEF SnapshotInv

(* Every step of every process, and of time, keeps it.                            *)
LEMMA SnapshotStepHolds == SnapshotInv /\ [HsNext]_hsVars => SnapshotInv'
<1> SUFFICES ASSUME SnapshotInv, [HsNext]_hsVars PROVE SnapshotInv'
  OBVIOUS
<1> USE SnapshotAssumption DEF SnapshotInv
<1>1. ASSUME NEW s \in Servers, BeginHour(s) PROVE SnapshotInv'
  <2> USE <1>1 DEF BeginHour, hsClock
  <2>1. SnapshotTypes' /\ AskersAreEarly'
    BY DEF SnapshotTypes, SnapshotStages, AskersAreEarly, Early
  <2>2. \A t \in Servers : HoldsHour(t)' => HoldsHour(t) /\ hourly'[t] = hourly[t]
    BY DEF SnapshotTypes, HoldsHour
  <2>3. HoldersAreAlone' /\ LockOutlastsSkew'
    BY <2>2 DEF HoldersAreAlone, LockOutlastsSkew, HourIsTaken, OneSnapshotPerHour
  <2> QED
    BY <2>1, <2>3
<1>2. ASSUME NEW s \in Servers, TakeSnapshotLock(s) PROVE SnapshotInv'
  <2> USE <1>2 DEF TakeSnapshotLock, hsClock, HourlyAt
  <2>1. SnapshotTypes' /\ AskersAreEarly'
    BY DEF SnapshotTypes, SnapshotStages, AskersAreEarly, Early
  <2>2. \A t \in Servers : t # s => hourly'[t] = hourly[t]
    BY DEF SnapshotTypes
  <2>3. hourly'[s].hour = hourly[s].hour /\ hourly[s].hour = hour
    BY DEF SnapshotTypes, AskersAreEarly
  <2>4. CASE Acquired
    <3>1. ~HourIsTaken
      BY <2>4 DEF Acquired, LockOutlastsSkew, AskersAreEarly, Early, SnapshotTypes
    <3>2. HoldersAreAlone'
      BY <2>2, <2>3, <3>1 DEF HoldersAreAlone, HourIsTaken, OneSnapshotPerHour, HoldsHour
    <3>3. LockOutlastsSkew'
      BY <2>4 DEF LockOutlastsSkew, SnapshotTypes
    <3> QED
      BY <2>1, <3>2, <3>3
  <2>5. CASE ~Acquired
    <3>1. ~HoldsHour(s)'
      BY <2>5 DEF SnapshotTypes, HoldsHour
    <3>2. HoldersAreAlone' /\ LockOutlastsSkew'
      BY <2>2, <2>5, <3>1
        DEF HoldersAreAlone, LockOutlastsSkew, HourIsTaken, OneSnapshotPerHour, HoldsHour
    <3> QED
      BY <2>1, <3>2
  <2> QED
    BY <2>4, <2>5
<1>3. ASSUME NEW s \in Servers, ReadCached(s) PROVE SnapshotInv'
  <2> USE <1>3 DEF ReadCached, hsClock, HourlyAt
  <2>1. SnapshotTypes' /\ AskersAreEarly'
    BY DEF SnapshotTypes, SnapshotStages, AskersAreEarly, Early
  <2>2. \A t \in Servers : hourly'[t].hour = hourly[t].hour /\ (HoldsHour(t)' => HoldsHour(t))
    BY DEF SnapshotTypes, HoldsHour
  <2>3. HoldersAreAlone' /\ LockOutlastsSkew'
    BY <2>2 DEF HoldersAreAlone, LockOutlastsSkew, HourIsTaken, OneSnapshotPerHour
  <2> QED
    BY <2>1, <2>3
<1>4. ASSUME NEW s \in Servers, StoreSnapshot(s) PROVE SnapshotInv'
  <2> USE <1>4 DEF StoreSnapshot, hsClock, HourlyAt
  <2>1. SnapshotTypes' /\ AskersAreEarly'
    BY DEF SnapshotTypes, SnapshotStages, AskersAreEarly, Early
  <2>2. \A t \in Servers :
          hourly'[t].hour = hourly[t].hour /\ (HoldsHour(t)' <=> t # s /\ HoldsHour(t))
    BY DEF SnapshotTypes, HoldsHour
  <2>3. HoldsHour(s)
    BY DEF HoldsHour
  <2>4. HoldersAreAlone'
    BY <2>2, <2>3 DEF HoldersAreAlone, OneSnapshotPerHour
  <2>5. HourIsTaken' => HourIsTaken
    BY <2>2, <2>3 DEF HourIsTaken
  <2> QED
    BY <2>1, <2>4, <2>5 DEF LockOutlastsSkew
<1>5. ASSUME NEW s \in Servers, AbandonHour(s) PROVE SnapshotInv'
  <2> USE <1>5 DEF AbandonHour, hsClock, HourlyAt
  <2>1. SnapshotTypes' /\ AskersAreEarly'
    BY DEF SnapshotTypes, SnapshotStages, AskersAreEarly, Early
  <2>2. \A t \in Servers : hourly'[t].hour = hourly[t].hour /\ (HoldsHour(t)' => HoldsHour(t))
    BY DEF SnapshotTypes, HoldsHour
  <2>3. HoldersAreAlone' /\ LockOutlastsSkew'
    BY <2>2 DEF HoldersAreAlone, LockOutlastsSkew, HourIsTaken, OneSnapshotPerHour
  <2> QED
    BY <2>1, <2>3
<1>6. ASSUME PurgeSnapshots PROVE SnapshotInv'
  <2> USE <1>6 DEF PurgeSnapshots, hsClock
  <2>1. snapshots' \subseteq snapshots
    OBVIOUS
  <2> QED
    BY <2>1 DEF SnapshotTypes, AskersAreEarly, Early, HoldersAreAlone, LockOutlastsSkew,
      HourIsTaken, OneSnapshotPerHour, HoldsHour
<1>7. ASSUME HourPasses PROVE SnapshotInv'
  <2> USE <1>7 DEF HourPasses
  <2>1. SnapshotTypes'
    BY DEF SnapshotTypes
  <2>2. AskersAreEarly'
    BY DEF AskersAreEarly, Early, SnapshotTypes
  <2>3. HoldersAreAlone'
    BY DEF HoldersAreAlone, OneSnapshotPerHour, HoldsHour
  <2>4. CASE step < Hour - 1
    <3>1. LockOutlastsSkew'
      BY <2>4 DEF LockOutlastsSkew, HourIsTaken, HoldsHour, SnapshotTypes
    <3> QED
      BY <2>1, <2>2, <2>3, <3>1
  <2>5. CASE step = Hour - 1
    <3>1. ~HourIsTaken'
      BY <2>5 DEF HourIsTaken, HoldsHour, SnapshotTypes
    <3> QED
      BY <2>1, <2>2, <2>3, <3>1 DEF LockOutlastsSkew
  <2> QED
    BY <2>1, <2>2, <2>3, <2>4, <2>5 DEF SnapshotTypes
<1>8. CASE UNCHANGED hsVars
  BY <1>8 DEF hsVars, hsClock, SnapshotTypes, AskersAreEarly, Early, HoldersAreAlone,
    LockOutlastsSkew, HourIsTaken, OneSnapshotPerHour, HoldsHour
<1> QED
  BY <1>1, <1>2, <1>3, <1>4, <1>5, <1>6, <1>7, <1>8 DEF HsNext

--------------------------------------------------------------------------------
(* However many processes there are, whichever of them are late, slow or crash,   *)
(* an hour gets at most one snapshot (health.scheduler.service.ts, hourly job).   *)
THEOREM SnapshotsAreSingle == HsSpec => []OneSnapshotPerHour
<1>1. SnapshotInv => OneSnapshotPerHour
  BY DEF SnapshotInv, HoldersAreAlone
<1> QED
  BY SnapshotInitHolds, SnapshotStepHolds, <1>1, PTL DEF HsSpec

--------------------------------------------------------------------------------
(* What holds in every component of the operations.                           *)
OperationsInv ==
  /\ GatewayInv /\ FeedInv /\ FleetInv /\ ReportInv /\ FenceInv
  /\ RecordInv /\ DayInv /\ PreferenceInv /\ AlertInv /\ SnapshotInv

(* A step of the whole is a step of one component, or none, for each of them. *)
LEMMA EachTakesItsTurn ==
  ASSUME [Next]_allVars
  PROVE  /\ [GwNext]_gwVars /\ [LfNext]_lfVars /\ [FfNext]_ffVars /\ [RpNext]_rpVars
         /\ [FwNext]_fwVars /\ [RcNext]_rcVars /\ [DaNext]_daVars /\ [PfNext]_pfVars
         /\ [HaNext]_haVars /\ [HsNext]_hsVars
<1>1. CASE UNCHANGED vars1 \/ UNCHANGED vars2
  <2>1. CASE UNCHANGED allVars
    BY <2>1 DEF allVars, vars1, vars2
  <2>2. CASE Next /\ UNCHANGED vars2
    BY <2>2 DEF Next, vars1, vars2
  <2>3. CASE Next /\ UNCHANGED vars1
    BY <2>3 DEF Next, vars1, vars2
  <2> QED
    BY <2>1, <2>2, <2>3 DEF Next, allVars
<1> QED
  BY <1>1 DEF Next, allVars

(* The invariants of the components give their types.                         *)
LEMMA OperationsAreTyped == ASSUME OperationsInv PROVE TypeOK
<1> USE DEF OperationsInv
<1>1. GwTypeOK
  BY DEF GatewayInv
<1>2. LfTypeOK
  BY FeedIsTyped
<1>3. FfTypeOK
  BY DEF FleetInv, FleetTypes, FfTypeOK, FleetStates, FleetCopies, Pictures
<1>4. RpTypeOK
  BY ReportsAreTyped
<1>5. FwTypeOK
  <2>1. \A i \in DOMAIN stored : stored[i] \in StoredRows
    BY DEF FenceInv, FenceTypes
  <2>2. \A i \in DOMAIN alerts : alerts[i] \in AlertRows
    BY DEF FenceInv, FenceTypes
  <2>3. \A i \in DOMAIN stored : stored[i].seen < i
    BY DEF FenceInv, PingsAreInOrder
  <2> QED
    BY <2>1, <2>2, <2>3 DEF FenceInv, FenceTypes, FwTypeOK, StoredRows, AlertRows
<1>6. RcTypeOK
  BY DEF RecordInv
<1>7. DaTypeOK
  BY DEF DayInv, DayTypes
<1>8. PfTypeOK
  <2>1. /\ minute \in Nat
        /\ \A i \in DOMAIN row : row[i].pref \in Preference /\ row[i].until \in Never .. minute
    BY RowsAreRows DEF PreferenceInv, Rows, Row, Never
  <2>2. memo.version \in 0 .. Len(row)
    BY DEF PreferenceInv, EntryOK, Rows, NoEntry
  <2>3. \A r \in Readers : reading[r].version \in Never .. Len(row)
    BY DEF PreferenceInv, Readings, ReadingOK, Rows, Never
  <2> QED
    BY <2>1, <2>2, <2>3 DEF PfTypeOK
<1>9. HaTypeOK
  BY DEF AlertInv, AlertTypes, HaTypeOK
<1>10. HsTypeOK
  BY SnapshotAssumption DEF SnapshotInv, SnapshotTypes, HsTypeOK
<1> QED
  BY <1>1, <1>2, <1>3, <1>4, <1>5, <1>6, <1>7, <1>8, <1>9, <1>10 DEF TypeOK

(* Side by side the ten components keep their invariants.                     *)
LEMMA OperationsInvariance == Spec => []OperationsInv
<1>1. Init => OperationsInv
  BY GatewayInitHolds, FeedInitHolds, FleetInitHolds, ReportInitHolds, FenceInitHolds,
    RecordInitHolds, DayInitHolds, PreferenceInitHolds, AlertInitHolds, SnapshotInitHolds
  DEF Init, OperationsInv
<1>2. OperationsInv /\ [Next]_allVars => OperationsInv'
  BY EachTakesItsTurn, GatewayStepHolds, FeedStepHolds, FleetStepHolds, ReportStepHolds,
    FenceStepHolds, RecordStepHolds, DayStepHolds, PreferenceStepHolds, AlertStepHolds,
    SnapshotStepHolds
  DEF OperationsInv
<1> QED
  BY <1>1, <1>2, PTL DEF Spec

(* THEOREM. The types of all ten components hold wherever they run side by    *)
(* side: no step of one leaves another outside its invariant.                 *)
THEOREM OperationTypesHold == Spec => []TypeOK
<1>1. OperationsInv => TypeOK
  BY OperationsAreTyped
<1> QED
  BY <1>1, OperationsInvariance, PTL
================================================================================
