--------------------------- MODULE NotificationPipeline ---------------------------
(* Notifications on their way out: NotificationService.dispatch stores a        *)
(* notification with its recipients and queues one job per recipient and        *)
(* channel; a NotificationDispatcher worker per node and queue pops jobs from   *)
(* the Redis list, sends them and records the outcome in the recipient's row.   *)
(*                                                                              *)
(* A recipient here is a NotificationRecipient record: a user and a channel.    *)
(* Every await of dispatch and of the worker is a step of its own, a node may   *)
(* shut down or crash between any two, and any step may fail.                   *)
EXTENDS Naturals, Sequences, FiniteSets

CONSTANTS
  Notifications,
  Recipients,      \* NotificationRecipient ids
  Audience,        \* notification -> its recipients, as the preferences allow
  Nodes,           \* server processes
  Raised,          \* priorities the callers of dispatch pass
  MaxStops         \* BOUND: crashes and shutdowns

ASSUME AudienceAssumption ==
  /\ Audience \in [Notifications -> SUBSET Recipients]
  /\ \A m, n \in Notifications : m # n => Audience[m] \cap Audience[n] = {}
ASSUME StopsAssumption == MaxStops \in Nat

Polled == {"EMERGENCY", "HIGH", "NORMAL", "LOW"}   \* startWorkers
(* What callers may pass: notification.module.ts, AlertProcessingService,       *)
(* HealthAlertService.                                                          *)
Priorities == Polled \cup {"CRITICAL"}
ASSUME RaisedAssumption == Raised \subseteq Priorities
MAX_RETRIES == 3
Workers == Nodes \X Polled
Jobs == [to : Recipients, retryCount : 0 .. MAX_RETRIES - 1]

VARIABLES
  row,        \* recipient -> status of its record; SENT stands for DELIVERED too
  queue,      \* priority -> the Redis list, its left end first
  node,       \* node -> "up", "stopping" or "down"
  dispatch,   \* notification -> "none", or the node and priority of its dispatch
  todo,       \* notification -> recipients whose job dispatch has yet to queue
  pc, job,    \* per worker: step, and the job it has popped
  sends,      \* recipient -> times a provider accepted the message
  tries,      \* recipient -> times a worker took the job up
  lost,       \* recipients whose job a stop or Redis took
  unrecorded, \* recipient -> times a send could not be recorded
  stops       \* crashes and shutdowns so far

vars == <<row, queue, node, dispatch, todo, pc, job, sends, tries, lost, unrecorded, stops>>
counts == <<sends, tries, unrecorded>>

NoJob == [to |-> "nobody", retryCount |-> 0]
NoDispatch == <<"none", "none">>

Init ==
  /\ row = [x \in Recipients |-> "none"]
  /\ queue = [q \in Priorities |-> <<>>]
  /\ node = [n \in Nodes |-> "up"]
  /\ dispatch = [m \in Notifications |-> NoDispatch]
  /\ todo = [m \in Notifications |-> {}]
  /\ pc = [w \in Workers |-> "poll"]
  /\ job = [w \in Workers |-> NoJob]
  /\ sends = [x \in Recipients |-> 0]
  /\ tries = [x \in Recipients |-> 0]
  /\ lost = {}
  /\ unrecorded = [x \in Recipients |-> 0]
  /\ stops = 0

-----------------------------------------------------------------------------------
(* dispatch, the transaction: the notification and all its recipients, or none. *)
Dispatch(n, m, p) ==
  /\ node[n] # "down"
  /\ dispatch[m] = NoDispatch
  /\ dispatch' = [dispatch EXCEPT ![m] = <<n, p>>]
  /\ row' = [x \in Recipients |-> IF x \in Audience[m] THEN "QUEUED" ELSE row[x]]
  /\ todo' = [todo EXCEPT ![m] = Audience[m]]
  /\ UNCHANGED <<queue, node, pc, job, counts, lost, stops>>

Push(p, j) == queue' = [queue EXCEPT ![p] = <<j>> \o @]

(* enqueue: LPUSH of a new job, one await per job.                              *)
Enqueue(m, x) ==
  /\ node[dispatch[m][1]] = "up"
  /\ x \in todo[m]
  /\ Push(dispatch[m][2], [to |-> x, retryCount |-> 0])
  /\ todo' = [todo EXCEPT ![m] = @ \ {x}]
  /\ UNCHANGED <<row, node, dispatch, pc, job, counts, lost, stops>>

(* LPUSH throws, as it does once Redis is disconnected: dispatch gives up on    *)
(* the jobs it has not queued.                                                  *)
EnqueueFails(m) ==
  /\ todo[m] # {}
  /\ lost' = lost \cup todo[m]
  /\ todo' = [todo EXCEPT ![m] = {}]
  /\ UNCHANGED <<row, queue, node, dispatch, pc, job, counts, stops>>

-----------------------------------------------------------------------------------
Goto(w, step) == pc' = [pc EXCEPT ![w] = step]

(* The worker goes back to its loop without a job.                              *)
Release(w) ==
  /\ pc' = [pc EXCEPT ![w] = "poll"]
  /\ job' = [job EXCEPT ![w] = NoJob]

(* MUTANT of Poll: the job is looked at and stays in the list.                  *)
PollPeek(w) ==
  LET p == w[2] IN
  /\ pc[w] = "poll"
  /\ node[w[1]] = "up"
  /\ queue[p] # <<>>
  /\ job' = [job EXCEPT ![w] = Head(queue[p])]
  /\ tries' = [tries EXCEPT ![Head(queue[p]).to] = @ + 1]
  /\ Goto(w, "mark")
  /\ UNCHANGED <<row, queue, node, dispatch, todo, sends, lost, unrecorded, stops>>

(* LPOP takes what was pushed last.                                             *)
PollLeft(w) ==
  LET p == w[2] IN
  /\ pc[w] = "poll"
  /\ node[w[1]] = "up"
  /\ queue[p] # <<>>
  /\ job' = [job EXCEPT ![w] = Head(queue[p])]
  /\ queue' = [queue EXCEPT ![p] = Tail(@)]
  /\ tries' = [tries EXCEPT ![Head(queue[p]).to] = @ + 1]
  /\ Goto(w, "mark")
  /\ UNCHANGED <<row, node, dispatch, todo, sends, lost, unrecorded, stops>>

(* MUTANT of Poll: startWorkers leaves the HIGH queue out.                      *)
PollNotHigh(w) ==
  /\ w[2] # "HIGH"
  /\ PollLeft(w)

Poll(w) == PollLeft(w)

(* The recipient's row takes status s.                                          *)
Record(w, s) == row' = [row EXCEPT ![job[w].to] = s]

MarkProcessing(w) ==
  /\ pc[w] = "mark"
  /\ Record(w, "PROCESSING")
  /\ Goto(w, "send")
  /\ UNCHANGED <<queue, node, dispatch, todo, job, counts, lost, stops>>

(* MUTANT of Send: what the provider returns is not looked at.                  *)
SendUnchecked(w) ==
  /\ pc[w] = "send"
  /\ \/ sends' = [sends EXCEPT ![job[w].to] = @ + 1]
     \/ UNCHANGED sends
  /\ Goto(w, "record")
  /\ UNCHANGED <<row, queue, node, dispatch, todo, job, tries, lost, unrecorded, stops>>

(* The template compiles and the provider returns true.                         *)
Send(w) ==
  /\ pc[w] = "send"
  /\ sends' = [sends EXCEPT ![job[w].to] = @ + 1]
  /\ Goto(w, "record")
  /\ UNCHANGED <<row, queue, node, dispatch, todo, job, tries, lost, unrecorded, stops>>

(* SENT, or DELIVERED for IN_APP; the job is done with.                         *)
RecordSent(w) ==
  /\ pc[w] = "record"
  /\ Record(w, "SENT")
  /\ Release(w)
  /\ UNCHANGED <<queue, node, dispatch, todo, counts, lost, stops>>

(* The row could not be marked, the template or the provider failed, or the     *)
(* send could not be recorded: processJob goes to its catch.                    *)
StepFails(w) ==
  /\ pc[w] \in {"mark", "send", "record"}
  /\ unrecorded' = IF pc[w] = "record" THEN [unrecorded EXCEPT ![job[w].to] = @ + 1]
                                       ELSE unrecorded
  /\ Goto(w, "fail")
  /\ UNCHANGED <<row, queue, node, dispatch, todo, job, sends, tries, lost, stops>>

(* The catch marks the row FAILED, if it can, and throws either way.            *)
MarkFailed(w) ==
  /\ pc[w] = "fail"
  /\ Record(w, "FAILED") \/ UNCHANGED row
  /\ Goto(w, "retry")
  /\ UNCHANGED <<queue, node, dispatch, todo, job, counts, lost, stops>>

Again(w) == [to |-> job[w].to, retryCount |-> job[w].retryCount + 1]

(* MUTANT of Retry: the job goes back as it was popped.                         *)
RetryUncounted(w) ==
  /\ pc[w] = "retry"
  /\ node[w[1]] = "up"
  /\ Again(w).retryCount < MAX_RETRIES
  /\ tries[job[w].to] < 5
  /\ Push(w[2], job[w])
  /\ Release(w)
  /\ UNCHANGED <<row, node, dispatch, todo, counts, lost, stops>>

(* startPolling's catch: the job goes back to the front of its list.            *)
Retry(w) ==
  /\ pc[w] = "retry"
  /\ node[w[1]] = "up"
  /\ Again(w).retryCount < MAX_RETRIES
  /\ Push(w[2], Again(w))
  /\ Release(w)
  /\ UNCHANGED <<row, node, dispatch, todo, counts, lost, stops>>

(* The attempts are exhausted.                                                  *)
Exhaust(w) ==
  /\ pc[w] = "retry"
  /\ Again(w).retryCount = MAX_RETRIES
  /\ Release(w)
  /\ UNCHANGED <<row, queue, node, dispatch, todo, counts, lost, stops>>

(* The LPUSH of the retry throws: the job is nowhere.                           *)
RetryFails(w) ==
  /\ pc[w] = "retry"
  /\ Again(w).retryCount < MAX_RETRIES
  /\ lost' = lost \cup {job[w].to}
  /\ Release(w)
  /\ UNCHANGED <<row, queue, node, dispatch, todo, counts, stops>>

-----------------------------------------------------------------------------------
(* shutdown: the polling loops end, Redis is disconnected, and the handlers in  *)
(* flight are waited for.                                                       *)
Shutdown(n) ==
  /\ node[n] = "up"
  /\ stops < MaxStops
  /\ stops' = stops + 1
  /\ node' = [node EXCEPT ![n] = "stopping"]
  /\ UNCHANGED <<row, queue, dispatch, todo, pc, job, counts, lost>>

(* The process ends: at once, after a shutdown that waited or one that timed    *)
(* out.  Popped jobs and jobs not yet queued existed only in its memory.        *)
Exit(n) ==
  /\ node' = [node EXCEPT ![n] = "down"]
  /\ lost' = lost \cup {job[w].to : w \in {u \in Workers : u[1] = n /\ pc[u] # "poll"}}
                  \cup UNION {todo[m] : m \in {k \in Notifications : dispatch[k][1] = n}}
  /\ pc' = [w \in Workers |-> IF w[1] = n THEN "poll" ELSE pc[w]]
  /\ job' = [w \in Workers |-> IF w[1] = n THEN NoJob ELSE job[w]]
  /\ todo' = [m \in Notifications |-> IF dispatch[m][1] = n THEN {} ELSE todo[m]]
  /\ UNCHANGED <<row, queue, dispatch, counts>>

Crash(n) ==
  /\ node[n] = "up"
  /\ stops < MaxStops
  /\ stops' = stops + 1
  /\ Exit(n)

Stopped(n) ==
  /\ node[n] = "stopping"
  /\ Exit(n)
  /\ UNCHANGED stops

(* restart: unless-stopped (docker-compose.prod.yml).                           *)
Restart(n) ==
  /\ node[n] = "down"
  /\ node' = [node EXCEPT ![n] = "up"]
  /\ UNCHANGED <<row, queue, dispatch, todo, pc, job, counts, lost, stops>>

Work(w) ==
  \/ Poll(w)
  \/ MarkProcessing(w)
  \/ Send(w)
  \/ RecordSent(w)
  \/ StepFails(w)
  \/ MarkFailed(w)
  \/ Retry(w)
  \/ Exhaust(w)
  \/ RetryFails(w)

Fill(m) == EnqueueFails(m) \/ \E x \in todo[m] : Enqueue(m, x)

Next ==
  \/ \E n \in Nodes, m \in Notifications, p \in Raised : Dispatch(n, m, p)
  \/ \E m \in Notifications : Fill(m)
  \/ \E w \in Workers : Work(w)
  \/ \E n \in Nodes : Shutdown(n) \/ Crash(n) \/ Stopped(n) \/ Restart(n)

(* The event loop resumes every await and the container is restarted; that a    *)
(* notification is ever raised, or that a step succeeds, is not assumed.        *)
Fairness ==
  /\ \A m \in Notifications : WF_vars(Fill(m))
  /\ \A w \in Workers : WF_vars(Work(w))
  /\ \A n \in Nodes : WF_vars(Stopped(n) \/ Restart(n))

Spec == Init /\ [][Next]_vars
FairSpec == Spec /\ Fairness

-----------------------------------------------------------------------------------
(* The places a recipient's job can be.                                         *)
InQueue(x) == UNION {{<<p, i>> : i \in {k \in 1 .. Len(queue[p]) : queue[p][k].to = x}} :
                       p \in Priorities}
InHand(x) == {w \in Workers : pc[w] # "poll" /\ job[w].to = x}
InDispatch(x) == {m \in Notifications : x \in todo[m]}
Gone(x) == InQueue(x) = {} /\ InHand(x) = {} /\ InDispatch(x) = {}

(* Every record, list and local variable keeps its type.                        *)
TypeOK ==
  /\ row \in [Recipients -> {"none", "QUEUED", "PROCESSING", "SENT", "FAILED"}]
  /\ queue \in [Priorities -> Seq(Jobs)]
  /\ node \in [Nodes -> {"up", "stopping", "down"}]
  /\ dispatch \in [Notifications -> (Nodes \X Priorities) \cup {NoDispatch}]
  /\ todo \in [Notifications -> SUBSET Recipients]
  /\ pc \in [Workers -> {"poll", "mark", "send", "record", "fail", "retry"}]
  /\ job \in [Workers -> Jobs \cup {NoJob}]
  /\ sends \in [Recipients -> Nat]
  /\ tries \in [Recipients -> Nat]
  /\ lost \subseteq Recipients
  /\ unrecorded \in [Recipients -> Nat]
  /\ stops \in 0 .. MaxStops

(* A recipient's job is in one place: no two workers, of one node or of two,    *)
(* ever hold or find the same message.                                          *)
OneCopy ==
  \A x \in Recipients :
    Cardinality(InQueue(x)) + Cardinality(InHand(x)) + Cardinality(InDispatch(x)) <= 1

(* A job is taken up at most MAX_RETRIES times; one that is given up without    *)
(* having been sent was taken up exactly that often, or was lost with a node    *)
(* or with Redis ("retry on failure and eventually exhaust retries").           *)
Persistence ==
  \A x \in Recipients :
    /\ tries[x] <= MAX_RETRIES
    /\ row[x] \notin {"none", "SENT"} /\ Gone(x) /\ x \notin lost => tries[x] = MAX_RETRIES

(* A record that says SENT is about a message that went out and that nobody     *)
(* will send again; a message goes out twice only if a send went unrecorded.    *)
SentIsSettled ==
  \A x \in Recipients :
    /\ row[x] = "SENT" => sends[x] >= 1 /\ Gone(x)
    /\ sends[x] <= 1 + unrecorded[x]

(* Whatever fails or restarts, a job in a queue that has workers is dealt with: *)
(* sent, given up after its attempts, or lost.                                  *)
PolledQueuesDrain ==
  \A x \in Recipients :
    (\E p \in Polled : \E i \in 1 .. Len(queue[p]) : queue[p][i].to = x) ~> Gone(x)

(* dispatch may be given any priority its callers have, the alert service's     *)
(* CRITICAL among them, and queues its jobs for workers that will take them.    *)
EveryQueueDrains ==
  \A x \in Recipients : (InQueue(x) # {}) ~> Gone(x)
===================================================================================
