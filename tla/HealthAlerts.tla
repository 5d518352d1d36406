-------------------------------- MODULE HealthAlerts --------------------------------
(* The live half of the health monitor. Every ten seconds each process evaluates *)
(* the system and tells the super administrators when the status differs from    *)
(* the one recorded last in Redis. Evaluations overlap: those of several         *)
(* processes, and of one process when Redis or the database is slow.             *)
(*                                                                              *)
(* No service ever registers itself as CRITICAL. The shared copy of the result,  *)
(* which expires after a minute, is left to HealthSnapshots.                     *)
EXTENDS Naturals, FiniteSets

CONSTANTS
  Evaluations,      \* BOUND: evaluations at a time
  MaxEvaluations    \* BOUND: evaluations in all

(* As many processes as there are, there are finitely many evaluations at work.  *)
ASSUME EvaluationAssumption == IsFiniteSet(Evaluations) /\ MaxEvaluations \in Nat

VARIABLES
  recorded,     \* system:health:last_state
  live,         \* evaluation -> what it found and how far it is
  begun,        \* evaluations so far
  failures,     \* history: times CRITICAL or OFFLINE was recorded
  recoveries    \* history: messages that the system has recovered

haVars == <<recorded, live, begun, failures, recoveries>>

(* checkPostgres by its latency, and checkRedis.                                *)
Postgres == {"HEALTHY", "WARNING", "DEGRADED", "OFFLINE"}
Redis == {"HEALTHY", "OFFLINE"}

(* The processor and the event loop: below the first threshold or past it.      *)
Load == {"low", "raised", "high", "stuck"}

GlobalStatus(pg, redis, load) ==
  IF "OFFLINE" \in {pg, redis} THEN "OFFLINE"
  ELSE IF load = "stuck" THEN "CRITICAL"
  ELSE IF load = "high" \/ pg = "DEGRADED" THEN "DEGRADED"
  ELSE IF load = "raised" \/ pg = "WARNING" THEN "WARNING"
  ELSE "HEALTHY"

HealthStatus == {GlobalStatus(pg, redis, load) : pg \in Postgres, redis \in Redis, load \in Load}
Down == {"CRITICAL", "OFFLINE"}

NoEvaluation == [step |-> "idle", status |-> "HEALTHY", last |-> "HEALTHY"]

HaInit ==
  /\ recorded = "HEALTHY" /\ live = [e \in Evaluations |-> NoEvaluation]
  /\ begun = 0 /\ failures = 0 /\ recoveries = 0

LiveAt(e, step) == live' = [live EXCEPT ![e].step = step]
Finish(e) == live' = [live EXCEPT ![e] = NoEvaluation]

(* evaluateAndCache: what the evaluation finds.                                 *)
EvaluateAndCache(e) ==
  /\ live[e].step = "idle" /\ begun < MaxEvaluations /\ begun' = begun + 1
  /\ \E status \in HealthStatus :
       live' = [live EXCEPT ![e] = [step |-> "compare", status |-> status, last |-> "HEALTHY"]]
  /\ UNCHANGED <<recorded, failures, recoveries>>

CompareStatus(e) ==
  /\ live[e].step = "compare"
  /\ IF live[e].status = recorded THEN Finish(e)
     ELSE live' = [live EXCEPT ![e].step = "record", ![e].last = recorded]
  /\ UNCHANGED <<recorded, begun, failures, recoveries>>

(* MUTANT of SetLastState: only trouble is recorded.                            *)
SetLastTrouble(status) == recorded' = IF status = "HEALTHY" THEN recorded ELSE status

SetLastState(status) == recorded' = status

Recovered(e) == live[e].status = "HEALTHY" /\ live[e].last \in Down
TellsOf(e) == live[e].status \in Down \cup {"DEGRADED"} \/ Recovered(e)

Record(e) ==
  /\ live[e].step = "record"
  /\ SetLastState(live[e].status)
  /\ failures' = failures + IF live[e].status \in Down THEN 1 ELSE 0
  /\ IF TellsOf(e) THEN LiveAt(e, "alert") ELSE Finish(e)
  /\ UNCHANGED <<begun, recoveries>>

(* The dispatch, see NotificationPipeline.                                      *)
DispatchAlert(e) ==
  /\ live[e].step = "alert"
  /\ recoveries' = recoveries + IF Recovered(e) THEN 1 ELSE 0
  /\ Finish(e) /\ UNCHANGED <<recorded, begun, failures>>

(* Redis or the database does not answer, which is only logged, or a crash.     *)
GiveUpEvaluation(e) ==
  /\ live[e].step # "idle"
  /\ Finish(e) /\ UNCHANGED <<recorded, begun, failures, recoveries>>

HaNext ==
  \E e \in Evaluations :
    EvaluateAndCache(e) \/ CompareStatus(e) \/ Record(e) \/ DispatchAlert(e) \/ GiveUpEvaluation(e)

HaSpec == HaInit /\ [][HaNext]_haVars

-----------------------------------------------------------------------------------
(* TYPE. What the variables range over.                                         *)
HaTypeOK ==
  /\ recorded \in HealthStatus
  /\ \A e \in Evaluations : {live[e].status, live[e].last} \subseteq HealthStatus
  /\ begun \in 0 .. MaxEvaluations

(* SAFETY. Each time the system is recorded as down, it is reported as recovered *)
(* at most once by each of the evaluations at work at a time, although they read *)
(* and record the last status in two steps; and never unless it was down.       *)
RecoveriesAreEarned == recoveries <= failures * Cardinality(Evaluations)
=================================================================================
