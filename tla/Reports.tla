----------------------------------- MODULE Reports -----------------------------------
(* Scheduled reports: subscriptions and executions in the database, and workers  *)
(* that run ReportScheduler's loop or a request for a report on demand, on any   *)
(* number of server processes. The loop claims what is due, then what has failed *)
(* and may be tried again; claims and settlements are single statements, with a  *)
(* crash, a deletion or another worker possible between any two.                 *)
EXTENDS Naturals, Sequences, FiniteSets, Functions

CONSTANTS
  Subs,            \* report subscriptions
  Workers,         \* scheduler loops and requests, of whatever process
  Day,             \* clock ticks from one due time to the next
  MaxRetries,      \* 3 in the code
  Retention,       \* ticks after which an execution is cleaned up, 30 days in the code
  MaxTime,         \* BOUND: the clock, in units of the 15 minutes of baseDelayMs
  MaxExecutions,   \* BOUND: reports generated
  MaxExports,      \* BOUND: reports asked for on demand
  MaxCrashesOf     \* BOUND: crashes of the process of a worker

(* A subscription is never mistaken for the absence of one.                     *)
ASSUME ReportAssumption ==
  /\ "none" \notin Subs /\ Day \in Nat \ {0}
  /\ MaxTime \in Nat \ {0} /\ MaxExecutions \in Nat

VARIABLES
  time,
  nextRun,     \* subscription -> nextRunAt, or 0 while it is not there
  executions,  \* ReportExecution rows in the order of their creation
  job,         \* worker -> what it is doing
  mailed,      \* <<subscription, due time>> whose link was sent to the targetEmails
  crashesOf

rpVars == <<time, nextRun, executions, job, mailed, crashesOf>>

NoTask == [step |-> "none"]
Idle == [phase |-> "idle", todo |-> {}, task |-> NoTask]

RpInit ==
  /\ time = 1
  /\ nextRun = [s \in Subs |-> 0]
  /\ executions = <<>>
  /\ job = [w \in Workers |-> Idle]
  /\ mailed = <<>> /\ crashesOf = 0

-----------------------------------------------------------------------------------
TimePasses ==
  /\ time < MaxTime /\ time' = time + 1
  /\ UNCHANGED <<nextRun, executions, job, mailed, crashesOf>>

(* calculateNextRun: the next eight o'clock.                                    *)
CalculateNextRun == ((time \div Day) + 1) * Day

CreateSubscription(s) ==
  /\ nextRun[s] = 0 /\ \A i \in DOMAIN executions : executions[i].due[1] # s
  /\ nextRun' = [nextRun EXCEPT ![s] = CalculateNextRun]
  /\ UNCHANGED <<time, executions, job, mailed, crashesOf>>

(* The executions of a deleted subscription lose their reference to it.         *)
DeleteSubscription(s) ==
  /\ nextRun[s] # 0
  /\ nextRun' = [nextRun EXCEPT ![s] = 0]
  /\ executions' = [i \in DOMAIN executions |->
                      IF executions[i].sub = s THEN [executions[i] EXCEPT !.sub = "none"]
                                               ELSE executions[i]]
  /\ UNCHANGED <<time, job, mailed, crashesOf>>

-----------------------------------------------------------------------------------
Task(s, due, execution, step) ==
  [sub |-> s, due |-> due, execution |-> execution, step |-> step]

(* processDueSubscriptions finds what is due; isProcessing keeps one loop per   *)
(* process.                                                                     *)
FindDue(w) ==
  /\ job[w].phase = "idle"
  /\ job' = [job EXCEPT ![w] = [phase |-> "due", task |-> NoTask,
       todo |-> {<<s, nextRun[s]>> : s \in {r \in Subs : nextRun[r] \in 1 .. time}}]]
  /\ UNCHANGED <<time, nextRun, executions, mailed, crashesOf>>

Take(w, item, task) == job' = [job EXCEPT ![w].todo = @ \ {item}, ![w].task = task]

(* MUTANT of Claimable: the update matches the subscription by its id alone.    *)
ClaimableById(item) == nextRun[item[1]] # 0

Claimable(item) == nextRun[item[1]] = item[2]

ClaimDue(w) ==
  /\ job[w].phase = "due" /\ job[w].task = NoTask
  /\ \E item \in job[w].todo :
       IF Claimable(item)
       THEN /\ nextRun' = [nextRun EXCEPT ![item[1]] = CalculateNextRun]
            /\ Take(w, item, Task(item[1], item, 0, "create"))
       ELSE Take(w, item, NoTask) /\ UNCHANGED nextRun
  /\ UNCHANGED <<time, executions, mailed, crashesOf>>

Retriable(e) ==
  /\ e.status = "FAILED" /\ e.retryCount < MaxRetries /\ e.sub # "none"
  /\ time - e.updatedAt >= 2 ^ e.retryCount

(* processRetries finds the failed executions whose backoff is over.            *)
FindFailed(w) ==
  /\ job[w].phase = "due" /\ job[w].task = NoTask /\ job[w].todo = {}
  /\ job' = [job EXCEPT ![w] = [phase |-> "retry", task |-> NoTask,
       todo |-> {[execution |-> i, retryCount |-> executions[i].retryCount] :
                   i \in {k \in DOMAIN executions : Retriable(executions[k])}}]]
  /\ UNCHANGED <<time, nextRun, executions, mailed, crashesOf>>

RetryClaimable(item) ==
  /\ executions[item.execution].status = "FAILED"
  /\ executions[item.execution].retryCount = item.retryCount

(* The retry is a new execution; the old one is left RUNNING.                   *)
ClaimRetry(w) ==
  /\ job[w].phase = "retry" /\ job[w].task = NoTask
  /\ \E item \in job[w].todo :
       LET e == executions[item.execution] IN
       IF RetryClaimable(item)
       THEN /\ executions' = [executions EXCEPT
                 ![item.execution].status = "RUNNING", ![item.execution].retryCount = @ + 1,
                 ![item.execution].updatedAt = time]
            /\ Take(w, item, Task(e.due[1], e.due, 0, "create"))
       ELSE Take(w, item, NoTask) /\ UNCHANGED executions
  /\ UNCHANGED <<time, nextRun, mailed, crashesOf>>

EndLoop(w) ==
  /\ job[w].phase \in {"retry", "request"} /\ job[w].task = NoTask /\ job[w].todo = {}
  /\ job' = [job EXCEPT ![w] = Idle]
  /\ UNCHANGED <<time, nextRun, executions, mailed, crashesOf>>

(* processCleanup, once a day in some loop: old rows go, whatever their status. *)
Cleanup ==
  /\ \E w \in Workers : job[w].phase = "retry" /\ job[w].task = NoTask /\ job[w].todo = {}
  /\ \E i \in DOMAIN executions :
       executions[i].status # "GONE" /\ time - executions[i].createdAt > Retention
  /\ executions' = [i \in DOMAIN executions |->
       IF time - executions[i].createdAt > Retention
       THEN [executions[i] EXCEPT !.status = "GONE", !.sub = "none"] ELSE executions[i]]
  /\ UNCHANGED <<time, nextRun, job, mailed, crashesOf>>

(* exportOnDemand: a report of no subscription.                                 *)
ExportOnDemand(w) ==
  /\ job[w].phase = "idle"
  /\ Cardinality({i \in DOMAIN executions : executions[i].due[1] = "none"})
       + Cardinality({v \in Workers : job[v].phase = "request"}) < MaxExports
  /\ job' = [job EXCEPT ![w] = [phase |-> "request", todo |-> {},
                                task |-> Task("none", <<"none", 0>>, 0, "create")]]
  /\ UNCHANGED <<time, nextRun, executions, mailed, crashesOf>>

-----------------------------------------------------------------------------------
Drop(w) == job' = [job EXCEPT ![w].task = NoTask]

(* generateReport: the row of a subscription that is gone breaks the foreign    *)
(* key, and the database may fail: the error ends the task.                     *)
CreateExecution(w) ==
  LET t == job[w].task IN
  /\ t.step = "create" /\ Len(executions) < MaxExecutions
  /\ \/ /\ t.sub # "none" => nextRun[t.sub] # 0
        /\ executions' = Append(executions,
             [sub |-> t.sub, due |-> t.due, status |-> "RUNNING", retryCount |-> 0,
              createdAt |-> time, updatedAt |-> time])
        /\ job' = [job EXCEPT ![w].task.step = "generate",
                              ![w].task.execution = Len(executions) + 1]
     \/ Drop(w) /\ UNCHANGED executions
  /\ UNCHANGED <<time, nextRun, mailed, crashesOf>>

Settle(i, status) ==
  executions' = [executions EXCEPT ![i].status = status, ![i].updatedAt = time]

(* The data is streamed to the file and the execution finalised.                *)
Generate(w) ==
  LET t == job[w].task IN
  /\ t.step = "generate" /\ executions[t.execution].status # "GONE"
  /\ Settle(t.execution, "SUCCESS")
  /\ job' = [job EXCEPT ![w].task.step = "mail"]
  /\ UNCHANGED <<time, nextRun, mailed, crashesOf>>

(* The subscription is read once more; one that is gone has no addressees.      *)
Mail(w) ==
  LET t == job[w].task IN
  /\ t.step = "mail"
  /\ mailed' = IF t.sub # "none" /\ nextRun[t.sub] # 0 THEN Append(mailed, t.due) ELSE mailed
  /\ Drop(w)
  /\ UNCHANGED <<time, nextRun, executions, crashesOf>>

(* The catch block: FAILED, unless the database fails here as well.             *)
Caught(w) ==
  /\ UNCHANGED mailed
  /\ \/ /\ executions[job[w].task.execution].status # "GONE"
        /\ Settle(job[w].task.execution, "FAILED")
     \/ UNCHANGED executions

(* Any await of the try block throws, also the read of the subscription after   *)
(* the success was stored.                                                      *)
GenerationFails(w) ==
  /\ job[w].task.step \in {"generate", "mail"}
  /\ Caught(w)
  /\ Drop(w)
  /\ UNCHANGED <<time, nextRun, crashesOf>>

CrashOf(w) ==
  /\ job[w] # Idle /\ crashesOf < MaxCrashesOf
  /\ crashesOf' = crashesOf + 1
  /\ job' = [job EXCEPT ![w] = Idle]
  /\ UNCHANGED <<time, nextRun, executions, mailed>>

RpNext ==
  \/ TimePasses \/ Cleanup
  \/ \E s \in Subs : CreateSubscription(s) \/ DeleteSubscription(s)
  \/ \E w \in Workers :
       \/ FindDue(w) \/ ClaimDue(w) \/ FindFailed(w) \/ ClaimRetry(w) \/ EndLoop(w)
       \/ ExportOnDemand(w) \/ CreateExecution(w) \/ Generate(w) \/ Mail(w)
       \/ GenerationFails(w) \/ CrashOf(w)

RpSpec == RpInit /\ [][RpNext]_rpVars

-----------------------------------------------------------------------------------
(* TYPE. What the variables range over; a task works on an execution there is.  *)
RpTypeOK ==
  /\ nextRun \in [Subs -> 0 .. MaxTime + Day] /\ Len(executions) <= MaxExecutions
  /\ \A i \in DOMAIN executions :
       executions[i].status \in {"RUNNING", "SUCCESS", "FAILED", "GONE"}
  /\ \A w \in Workers : job[w].task.step \in {"generate", "mail"} =>
       job[w].task.execution \in DOMAIN executions

(* SAFETY. The subscribers of a report get at most one mail for each time it is *)
(* due, whichever workers find it due or failed at once, wherever they crash,   *)
(* and however often its generation fails and is tried again.                   *)
MailedOnce == IsInjective(mailed)

(* The comment of processRetries (report.scheduler.ts), "Exponential backoff:   *)
(* 15m, 30m, 60m", and maxRetries: the report of a due time is tried again      *)
(* three times. The code breaks it: a retry is a new execution that counts from *)
(* zero.                                                                        *)
RetriesAreBounded ==
  \A i \in DOMAIN executions :
    executions[i].sub # "none" =>
      Len(SelectSeq(executions, LAMBDA e : e.due = executions[i].due)) <= 1 + MaxRetries
===================================================================================
