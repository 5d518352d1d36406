-------------------------- MODULE NotificationPipelineProofs --------------------------
(* The pipeline for any notifications, recipients, nodes and number of stops. The *)
(* argument follows each recipient's one job: while it is somewhere, it is there  *)
(* alone, and what the record and the counts say follows from where it is.        *)
EXTENDS NotificationPipeline, SequenceTheorems, FiniteSetTheorems, TLAPS

-----------------------------------------------------------------------------------
(* The front of a list: what a push and a pop do to it.                           *)
LEMMA PushInFront ==
  ASSUME NEW s \in Seq(Jobs), NEW j \in Jobs
  PROVE  /\ <<j>> \o s \in Seq(Jobs) /\ Len(<<j>> \o s) = Len(s) + 1
         /\ (<<j>> \o s)[1] = j
         /\ \A i \in 1 .. Len(s) : (<<j>> \o s)[i + 1] = s[i]
  OBVIOUS

LEMMA PopFromFront ==
  ASSUME NEW s \in Seq(Jobs), s # <<>>
  PROVE  /\ Head(s) \in Jobs /\ Tail(s) \in Seq(Jobs) /\ Len(Tail(s)) = Len(s) - 1
         /\ Head(s) = s[1] /\ 1 \in 1 .. Len(s)
         /\ \A i \in 1 .. Len(s) - 1 : Tail(s)[i] = s[i + 1] /\ i + 1 \in 1 .. Len(s)
  OBVIOUS

(* A worker that is not at its loop's top holds a job.                            *)
HandsOK == \A w \in Workers : pc[w] # "poll" => job[w] \in Jobs

(* Only a notification that is being dispatched has jobs to queue, its own.       *)
DuesOK ==
  \A m \in Notifications :
    todo[m] \subseteq Audience[m] /\ (dispatch[m] = NoDispatch => todo[m] = {})

Typed == TypeOK /\ HandsOK /\ DuesOK

LEMMA InitTyped == Init => Typed
  BY StopsAssumption DEF Init, Typed, TypeOK, HandsOK, DuesOK, Jobs, NoJob

(* A push of a job keeps the lists typed.                                         *)
LEMMA PushTyped ==
  ASSUME TypeOK, NEW p \in Priorities, NEW j \in Jobs, Push(p, j)
  PROVE  queue' \in [Priorities -> Seq(Jobs)]
  BY PushInFront DEF TypeOK, Push

(* A step of a worker that touches nothing but its own program counter and job.   *)
LEMMA ReleaseTyped ==
  ASSUME Typed, NEW w \in Workers, Release(w)
  PROVE  /\ pc' \in [Workers -> {"poll", "mark", "send", "record", "fail", "retry"}]
         /\ job' \in [Workers -> Jobs \cup {NoJob}] /\ HandsOK'
  BY DEF Typed, TypeOK, HandsOK, Release

LEMMA GotoTyped ==
  ASSUME Typed, NEW w \in Workers, pc[w] # "poll",
         NEW step \in {"send", "record", "fail", "retry"}, Goto(w, step), UNCHANGED job
  PROVE  /\ pc' \in [Workers -> {"poll", "mark", "send", "record", "fail", "retry"}]
         /\ HandsOK' /\ job[w] \in Jobs /\ job[w].to \in Recipients
  BY DEF Typed, TypeOK, HandsOK, Goto, Jobs

LEMMA StepTyped == Typed /\ [Next]_vars => Typed'
  <1> SUFFICES ASSUME Typed, [Next]_vars PROVE Typed'
    OBVIOUS
  <1> USE DEF Typed
  <1>0. ASSUME UNCHANGED dispatch, \A m \in Notifications : todo'[m] \subseteq todo[m]
        PROVE  DuesOK'
    BY <1>0 DEF DuesOK
  <1>1. ASSUME NEW n \in Nodes, NEW m \in Notifications, NEW p \in Raised, Dispatch(n, m, p)
        PROVE  Typed'
    <2>1. <<n, p>> # NoDispatch /\ p \in Priorities
      BY <1>1, RaisedAssumption DEF NoDispatch, Priorities, Polled
    <2>2. DuesOK'
      BY <1>1, <2>1, AudienceAssumption DEF Dispatch, DuesOK, TypeOK
    <2> QED
      BY <1>1, <2>1, <2>2, AudienceAssumption DEF Dispatch, TypeOK, HandsOK, counts
  <1>2. ASSUME NEW m \in Notifications, EnqueueFails(m) PROVE Typed'
    BY <1>0, <1>2 DEF EnqueueFails, TypeOK, HandsOK, counts
  <1>3. ASSUME NEW m \in Notifications, NEW x \in todo[m], Enqueue(m, x) PROVE Typed'
    <2>1. dispatch[m][2] \in Priorities /\ [to |-> x, retryCount |-> 0] \in Jobs
      BY <1>3 DEF Enqueue, TypeOK, DuesOK, Jobs, MAX_RETRIES
    <2>2. queue' \in [Priorities -> Seq(Jobs)]
      BY <1>3, <2>1, PushTyped DEF Enqueue
    <2> QED
      BY <1>0, <1>3, <2>2 DEF Enqueue, TypeOK, HandsOK, counts
  <1>4. ASSUME NEW w \in Workers, Work(w) PROVE Typed'
    <2>0. DuesOK'
      BY <1>0, <1>4 DEF Work, Poll, PollLeft, MarkProcessing, Send, RecordSent, StepFails,
        MarkFailed, Retry, Exhaust, RetryFails
    <2>1. CASE Poll(w)
      <3>1. w[2] \in Priorities /\ queue[w[2]] \in Seq(Jobs) /\ queue[w[2]] # <<>>
        BY <2>1 DEF Poll, PollLeft, Workers, Priorities, TypeOK
      <3>2. Head(queue[w[2]]) \in Jobs /\ Tail(queue[w[2]]) \in Seq(Jobs)
            /\ Head(queue[w[2]]).to \in Recipients
        BY <3>1, PopFromFront DEF Jobs
      <3> QED
        BY <2>0, <2>1, <3>1, <3>2 DEF Poll, PollLeft, Goto, TypeOK, HandsOK
    <2>2. CASE MarkProcessing(w)
      BY <2>0, <2>2, GotoTyped DEF MarkProcessing, Record, TypeOK, counts
    <2>3. CASE Send(w)
      BY <2>0, <2>3, GotoTyped DEF Send, TypeOK
    <2>4. CASE RecordSent(w)
      BY <2>0, <2>4, ReleaseTyped DEF RecordSent, Record, TypeOK, HandsOK, counts
    <2>5. CASE StepFails(w)
      BY <2>0, <2>5, GotoTyped DEF StepFails, TypeOK
    <2>6. CASE MarkFailed(w)
      BY <2>0, <2>6, GotoTyped DEF MarkFailed, Record, TypeOK, counts
    <2>7. CASE Retry(w)
      <3>1. w[2] \in Priorities /\ job[w] \in Jobs
        BY <2>7 DEF Retry, Workers, Priorities, HandsOK
      <3>2. Again(w) \in Jobs
        BY <2>0, <2>7, <3>1 DEF Retry, Again, Jobs, MAX_RETRIES
      <3> QED
        BY <2>0, <2>7, <3>1, <3>2, PushTyped, ReleaseTyped DEF Retry, TypeOK, counts
    <2>8. CASE Exhaust(w)
      BY <2>0, <2>8, ReleaseTyped DEF Exhaust, TypeOK, counts
    <2>9. CASE RetryFails(w)
      BY <2>0, <2>9, ReleaseTyped DEF RetryFails, TypeOK, HandsOK, Jobs, counts
    <2> QED
      BY <1>4, <2>1, <2>2, <2>3, <2>4, <2>5, <2>6, <2>7, <2>8, <2>9 DEF Work
  <1>5. ASSUME NEW n \in Nodes, Shutdown(n) PROVE Typed'
    BY <1>0, <1>5, StopsAssumption DEF Shutdown, TypeOK, HandsOK, counts
  <1>6. ASSUME NEW n \in Nodes, Exit(n), stops' \in 0 .. MaxStops PROVE Typed'
    <2>1. \A w \in Workers : pc[w] # "poll" => job[w].to \in Recipients
      BY DEF HandsOK, Jobs
    <2>2. lost' \subseteq Recipients
      BY <1>6, <2>1 DEF Exit, TypeOK
    <2>3. /\ pc' \in [Workers -> {"poll", "mark", "send", "record", "fail", "retry"}]
          /\ job' \in [Workers -> Jobs \cup {NoJob}] /\ HandsOK'
      BY <1>6 DEF Exit, TypeOK, HandsOK
    <2> QED
      BY <1>0, <1>6, <2>2, <2>3 DEF Exit, TypeOK, counts
  <1>7. ASSUME NEW n \in Nodes, Crash(n) \/ Stopped(n) PROVE Typed'
    BY <1>6, <1>7, StopsAssumption DEF Crash, Stopped, TypeOK
  <1>8. ASSUME NEW n \in Nodes, Restart(n) PROVE Typed'
    BY <1>0, <1>8 DEF Restart, TypeOK, HandsOK, counts
  <1>9. CASE UNCHANGED vars
    BY <1>0, <1>9 DEF vars, counts, TypeOK, HandsOK
  <1> QED
    BY <1>1, <1>2, <1>3, <1>4, <1>5, <1>7, <1>8, <1>9 DEF Next, Fill

(* PROVED. Every record, list and local variable keeps its type, whatever fails,  *)
(* stops or restarts.                                                             *)
THEOREM TypeCorrect == Spec => []TypeOK
  <1>1. Typed => TypeOK
    BY DEF Typed
  <1> QED
    BY <1>1, InitTyped, StepTyped, PTL DEF Spec

-----------------------------------------------------------------------------------
(* A recipient's job is at no two positions, in no two hands, and not in two of   *)
(* a list, a hand and a dispatch at once; two dispatches never share one.         *)
Alone ==
  /\ \A p, q \in Priorities : \A i \in 1 .. Len(queue[p]), k \in 1 .. Len(queue[q]) :
       queue[p][i].to = queue[q][k].to => p = q /\ i = k
  /\ \A u, w \in Workers : pc[u] # "poll" /\ pc[w] # "poll" /\ job[u].to = job[w].to => u = w
  /\ \A p \in Priorities : \A i \in 1 .. Len(queue[p]) :
       /\ \A w \in Workers : pc[w] # "poll" => job[w].to # queue[p][i].to
       /\ \A m \in Notifications : queue[p][i].to \notin todo[m]
  /\ \A w \in Workers, m \in Notifications : pc[w] # "poll" => job[w].to \notin todo[m]

(* What holds of a recipient's record and counts follows from where its job is.   *)
Open == {"QUEUED", "PROCESSING", "FAILED"}

DueBooks(x) == row[x] = "QUEUED" /\ tries[x] = 0 /\ sends[x] = 0

QueueBooks(j) ==
  row[j.to] \in Open /\ tries[j.to] = j.retryCount /\ sends[j.to] <= unrecorded[j.to]

HandBooks(w) ==
  /\ row[job[w].to] \in Open /\ tries[job[w].to] = job[w].retryCount + 1
  /\ sends[job[w].to] <= unrecorded[job[w].to] + IF pc[w] = "record" THEN 1 ELSE 0
  /\ pc[w] = "record" => sends[job[w].to] >= 1

Somewhere(x) ==
  \/ \E p \in Priorities : \E i \in 1 .. Len(queue[p]) : queue[p][i].to = x
  \/ \E w \in Workers : pc[w] # "poll" /\ job[w].to = x
  \/ \E m \in Notifications : x \in todo[m]

RowBooks(x) ==
  /\ tries[x] <= MAX_RETRIES /\ sends[x] <= 1 + unrecorded[x]
  /\ row[x] = "none" => tries[x] = 0 /\ sends[x] = 0
  /\ row[x] = "SENT" => sends[x] >= 1
  /\ row[x] \in Open => x \in lost \/ tries[x] = MAX_RETRIES \/ Somewhere(x)

Books ==
  /\ \A m \in Notifications :
       /\ dispatch[m] = NoDispatch => \A x \in Audience[m] : row[x] = "none"
       /\ \A x \in todo[m] : DueBooks(x)
  /\ \A p \in Priorities : \A i \in 1 .. Len(queue[p]) : QueueBooks(queue[p][i])
  /\ \A w \in Workers : pc[w] # "poll" => HandBooks(w)
  /\ \A x \in Recipients : RowBooks(x)

IInv == Typed /\ Alone /\ Books

-----------------------------------------------------------------------------------
(* The positions of a list after a push are its old ones moved on and the first.  *)
LEMMA Pushed ==
  ASSUME TypeOK, NEW p \in Priorities, NEW j \in Jobs, Push(p, j)
  PROVE  /\ 1 \in 1 .. Len(queue'[p]) /\ queue'[p][1] = j
         /\ \A q \in Priorities : \A i \in 1 .. Len(queue'[q]) :
              \/ q = p /\ i = 1
              \/ /\ (IF q = p THEN i - 1 ELSE i) \in 1 .. Len(queue[q])
                 /\ queue'[q][i] = queue[q][IF q = p THEN i - 1 ELSE i]
         /\ \A q \in Priorities : \A i \in 1 .. Len(queue[q]) :
              \E k \in 1 .. Len(queue'[q]) : queue'[q][k] = queue[q][i]
  <1> DEFINE s == queue[p]
             new == <<j>> \o s
  <1>1. s \in Seq(Jobs) /\ Len(s) \in Nat
    BY DEF TypeOK
  <1>2. /\ Len(new) = Len(s) + 1 /\ new[1] = j
        /\ \A i \in 1 .. Len(s) : new[i + 1] = s[i]
    BY <1>1, PushInFront
  <1>3. queue'[p] = new /\ \A q \in Priorities \ {p} : queue'[q] = queue[q]
    BY DEF TypeOK, Push
  <1> HIDE DEF new
  <1>4. ASSUME NEW i \in 1 .. Len(new), i # 1 PROVE i - 1 \in 1 .. Len(s) /\ new[i] = s[i - 1]
    <2>1. i - 1 \in 1 .. Len(s) /\ i = (i - 1) + 1
      BY <1>1, <1>2, <1>4
    <2> QED
      BY <1>2, <2>1
  <1>5. ASSUME NEW i \in 1 .. Len(s) PROVE i + 1 \in 1 .. Len(new) /\ new[i + 1] = s[i]
    BY <1>1, <1>2
  <1>6. \A q \in Priorities : \A i \in 1 .. Len(queue'[q]) :
          \/ q = p /\ i = 1
          \/ /\ (IF q = p THEN i - 1 ELSE i) \in 1 .. Len(queue[q])
             /\ queue'[q][i] = queue[q][IF q = p THEN i - 1 ELSE i]
    BY <1>3, <1>4
  <1>7. \A q \in Priorities : \A i \in 1 .. Len(queue[q]) :
          \E k \in 1 .. Len(queue'[q]) : queue'[q][k] = queue[q][i]
    <2> SUFFICES ASSUME NEW q \in Priorities, NEW i \in 1 .. Len(queue[q])
                 PROVE  \E k \in 1 .. Len(queue'[q]) : queue'[q][k] = queue[q][i]
      OBVIOUS
    <2>1. CASE q = p
      BY <1>3, <1>5, <2>1
    <2>2. CASE q # p
      BY <1>3, <2>2
    <2> QED
      BY <2>1, <2>2
  <1> QED
    BY <1>1, <1>2, <1>3, <1>6, <1>7

(* So a push adds one job and keeps the others.                                   *)
LEMMA PushAdds ==
  ASSUME TypeOK, NEW p \in Priorities, NEW j \in Jobs, Push(p, j)
  PROVE  /\ \A q \in Priorities : \A i \in 1 .. Len(queue'[q]) :
              queue'[q][i] = j \/ \E k \in 1 .. Len(queue[q]) : queue'[q][i] = queue[q][k]
         /\ \A y : Somewhere(y) =>
              \/ \E q \in Priorities : \E i \in 1 .. Len(queue'[q]) : queue'[q][i].to = y
              \/ \E w \in Workers : pc[w] # "poll" /\ job[w].to = y
              \/ \E m \in Notifications : y \in todo[m]
         /\ \E i \in 1 .. Len(queue'[p]) : queue'[p][i].to = j.to
  <1>1. /\ 1 \in 1 .. Len(queue'[p]) /\ queue'[p][1] = j
        /\ \A q \in Priorities : \A i \in 1 .. Len(queue'[q]) :
             \/ q = p /\ i = 1
             \/ /\ (IF q = p THEN i - 1 ELSE i) \in 1 .. Len(queue[q])
                /\ queue'[q][i] = queue[q][IF q = p THEN i - 1 ELSE i]
        /\ \A q \in Priorities : \A i \in 1 .. Len(queue[q]) :
             \E k \in 1 .. Len(queue'[q]) : queue'[q][k] = queue[q][i]
    BY Pushed
  <1>2. ASSUME NEW q \in Priorities, NEW i \in 1 .. Len(queue'[q])
        PROVE  queue'[q][i] = j \/ \E k \in 1 .. Len(queue[q]) : queue'[q][i] = queue[q][k]
    BY <1>1
  <1>3. ASSUME NEW q \in Priorities, NEW i \in 1 .. Len(queue[q])
        PROVE  \E k \in 1 .. Len(queue'[q]) : queue'[q][k].to = queue[q][i].to
    <2>1. PICK k \in 1 .. Len(queue'[q]) : queue'[q][k] = queue[q][i]
      BY <1>1
    <2> QED
      BY <2>1
  <1>4. ASSUME NEW y, NEW q \in Priorities, NEW i \in 1 .. Len(queue[q]), queue[q][i].to = y
        PROVE  \E r \in Priorities : \E k \in 1 .. Len(queue'[r]) : queue'[r][k].to = y
    BY <1>3, <1>4
  <1>5. \E i \in 1 .. Len(queue'[p]) : queue'[p][i].to = j.to
    BY <1>1
  <1> QED
    BY <1>2, <1>4, <1>5 DEF Somewhere

LEMMA Popped ==
  ASSUME TypeOK, NEW p \in Priorities, queue[p] # <<>>,
         queue' = [queue EXCEPT ![p] = Tail(@)]
  PROVE  /\ Head(queue[p]) \in Jobs /\ 1 \in 1 .. Len(queue[p]) /\ Head(queue[p]) = queue[p][1]
         /\ \A q \in Priorities : \A i \in 1 .. Len(queue'[q]) :
              /\ (IF q = p THEN i + 1 ELSE i) \in 1 .. Len(queue[q])
              /\ queue'[q][i] = queue[q][IF q = p THEN i + 1 ELSE i]
         /\ \A q \in Priorities : \A i \in 1 .. Len(queue[q]) :
              \/ q = p /\ i = 1
              \/ \E k \in 1 .. Len(queue'[q]) : queue'[q][k] = queue[q][i]
  <1> DEFINE s == queue[p]
             new == Tail(s)
  <1>1. s \in Seq(Jobs) /\ Len(s) \in Nat
    BY DEF TypeOK
  <1>2. /\ Len(new) = Len(s) - 1 /\ Head(s) \in Jobs /\ Head(s) = s[1] /\ 1 \in 1 .. Len(s)
        /\ \A i \in 1 .. Len(s) - 1 : new[i] = s[i + 1] /\ i + 1 \in 1 .. Len(s)
    BY <1>1, PopFromFront
  <1>3. queue'[p] = new /\ \A q \in Priorities \ {p} : queue'[q] = queue[q]
    BY DEF TypeOK
  <1> HIDE DEF new
  <1>4. ASSUME NEW i \in 1 .. Len(s), i # 1 PROVE i - 1 \in 1 .. Len(new) /\ new[i - 1] = s[i]
    <2>1. i - 1 \in 1 .. Len(s) - 1 /\ i = (i - 1) + 1
      BY <1>1, <1>4
    <2> QED
      BY <1>2, <2>1
  <1> QED
    BY <1>1, <1>2, <1>3, <1>4

(* A set whose members are all equal has one or none.                             *)
LEMMA OneOrNone ==
  ASSUME NEW S, \A a, b \in S : a = b
  PROVE  Cardinality(S) \in {0, 1} /\ (S = {} => Cardinality(S) = 0)
  <1>1. CASE S = {}
    BY <1>1, FS_EmptySet
  <1>2. CASE S # {}
    <2>1. PICK a \in S : TRUE
      BY <1>2
    <2>2. S = {a}
      BY <2>1
    <2> QED
      BY <1>2, <2>2, FS_Singleton
  <1> QED
    BY <1>1, <1>2

-----------------------------------------------------------------------------------
(* At first nothing has been raised.                                              *)
LEMMA InitHolds == Init => IInv
  <1> SUFFICES ASSUME Init PROVE IInv
    OBVIOUS
  <1> USE DEF Init
  <1>1. Alone
    BY DEF Alone
  <1>2. Books
    BY AudienceAssumption DEF Books, RowBooks, Open, MAX_RETRIES
  <1> QED
    BY <1>1, <1>2, InitTyped DEF IInv

(* A job that comes to a list from a hand or a dispatch, which lets go of it.     *)
LEMMA PushAlone ==
  ASSUME IInv, NEW p \in Priorities, NEW j \in Jobs, Push(p, j),
         \A q \in Priorities : \A i \in 1 .. Len(queue[q]) : queue[q][i].to # j.to,
         \A w \in Workers : pc'[w] # "poll" => job'[w].to # j.to,
         \A w \in Workers : pc'[w] # "poll" => pc[w] # "poll" /\ job'[w] = job[w],
         \A m \in Notifications : j.to \notin todo'[m] /\ todo'[m] \subseteq todo[m]
  PROVE  Alone'
  <1> USE DEF IInv, Typed
  <1>1. /\ 1 \in 1 .. Len(queue'[p]) /\ queue'[p][1] = j
        /\ \A q \in Priorities : \A i \in 1 .. Len(queue'[q]) :
             \/ q = p /\ i = 1
             \/ /\ (IF q = p THEN i - 1 ELSE i) \in 1 .. Len(queue[q])
                /\ queue'[q][i] = queue[q][IF q = p THEN i - 1 ELSE i]
    BY Pushed
  <1>2. \A q \in Priorities : \A i \in 1 .. Len(queue'[q]) :
          q # p \/ i # 1 => queue'[q][i].to # j.to
    BY <1>1
  <1>3. ASSUME NEW q \in Priorities, NEW r \in Priorities,
               NEW i \in 1 .. Len(queue'[q]), NEW k \in 1 .. Len(queue'[r]),
               queue'[q][i].to = queue'[r][k].to
        PROVE  q = r /\ i = k
    <2>1. CASE q = p /\ i = 1
      BY <1>1, <1>2, <1>3, <2>1
    <2>2. CASE r = p /\ k = 1
      BY <1>1, <1>2, <1>3, <2>2
    <2>3. CASE ~(q = p /\ i = 1) /\ ~(r = p /\ k = 1)
      <3> DEFINE a == IF q = p THEN i - 1 ELSE i
                 b == IF r = p THEN k - 1 ELSE k
      <3>1. /\ a \in 1 .. Len(queue[q]) /\ queue'[q][i] = queue[q][a]
            /\ b \in 1 .. Len(queue[r]) /\ queue'[r][k] = queue[r][b]
        BY <1>1, <2>3
      <3>2. q = r /\ a = b
        <4> HIDE DEF a, b
        <4> QED
          BY <1>3, <3>1 DEF Alone
      <3> QED
        BY <3>2
    <2> QED
      BY <2>1, <2>2, <2>3
  <1>4. ASSUME NEW q \in Priorities, NEW i \in 1 .. Len(queue'[q])
        PROVE  /\ \A w \in Workers : pc'[w] # "poll" => job'[w].to # queue'[q][i].to
               /\ \A m \in Notifications : queue'[q][i].to \notin todo'[m]
    <2>1. CASE q = p /\ i = 1
      BY <1>1, <2>1
    <2>2. CASE ~(q = p /\ i = 1)
      <3>1. PICK k \in 1 .. Len(queue[q]) : queue'[q][i] = queue[q][k]
        BY <1>1, <2>2
      <3> QED
        BY <3>1 DEF Alone
    <2> QED
      BY <2>1, <2>2
  <1>5. /\ \A u, w \in Workers :
             pc'[u] # "poll" /\ pc'[w] # "poll" /\ job'[u].to = job'[w].to => u = w
        /\ \A w \in Workers, m \in Notifications : pc'[w] # "poll" => job'[w].to \notin todo'[m]
    BY DEF Alone
  <1> QED
    BY <1>3, <1>4, <1>5 DEF Alone

(* A step that moves no job leaves each where it was, or drops it.                *)
LEMMA StillAlone ==
  ASSUME IInv, UNCHANGED queue,
         \A w \in Workers : pc'[w] # "poll" => pc[w] # "poll" /\ job'[w] = job[w],
         \A m \in Notifications : todo'[m] \subseteq todo[m]
  PROVE  Alone'
  BY DEF IInv, Alone

-----------------------------------------------------------------------------------
(* A step about one recipient keeps the others' books, and its own if they are    *)
(* right wherever its job is now.                                                 *)
LEMMA OneMoves ==
  ASSUME IInv, NEW x \in Recipients, row[x] # "none", UNCHANGED dispatch, lost \subseteq lost',
         \A y \in Recipients \ {x} :
           /\ row'[y] = row[y] /\ tries'[y] = tries[y]
           /\ sends'[y] = sends[y] /\ unrecorded'[y] = unrecorded[y]
           /\ Somewhere(y) => Somewhere(y)',
         \A m \in Notifications : todo'[m] \subseteq todo[m] /\ x \notin todo'[m],
         \A p \in Priorities : \A i \in 1 .. Len(queue'[p]) :
           \/ queue'[p][i].to = x /\ QueueBooks(queue[p][i])'
           \/ queue'[p][i].to # x /\ \E k \in 1 .. Len(queue[p]) : queue'[p][i] = queue[p][k],
         \A w \in Workers : pc'[w] # "poll" =>
           \/ job'[w].to = x /\ HandBooks(w)'
           \/ job'[w].to # x /\ pc'[w] = pc[w] /\ job'[w] = job[w],
         RowBooks(x)'
  PROVE  Books'
  <1> USE DEF IInv, Typed
  <1>1. ASSUME NEW m \in Notifications
        PROVE  /\ (dispatch[m] = NoDispatch)' => \A y \in Audience[m] : row'[y] = "none"
               /\ \A y \in todo'[m] : DueBooks(y)'
    BY AudienceAssumption DEF Books, DueBooks, TypeOK
  <1>2. ASSUME NEW p \in Priorities, NEW i \in 1 .. Len(queue'[p])
        PROVE  QueueBooks(queue[p][i])'
    <2>1. CASE queue'[p][i].to = x
      BY <2>1
    <2>2. CASE queue'[p][i].to # x
      <3>1. PICK k \in 1 .. Len(queue[p]) : queue'[p][i] = queue[p][k]
        BY <2>2
      <3>2. queue[p][k] \in Jobs
        BY ElementOfSeq DEF TypeOK
      <3>3. queue'[p][i].to \in Recipients \ {x} /\ QueueBooks(queue[p][k])
        BY <2>2, <3>1, <3>2 DEF Jobs, Books
      <3> QED
        BY <3>1, <3>3 DEF QueueBooks
    <2> QED
      BY <2>1, <2>2
  <1>3. ASSUME NEW w \in Workers, pc'[w] # "poll" PROVE HandBooks(w)'
    <2>1. CASE job'[w].to = x
      BY <1>3, <2>1
    <2>2. CASE job'[w].to # x
      <3>1. pc'[w] = pc[w] /\ job'[w] = job[w] /\ job[w].to \in Recipients \ {x} /\ HandBooks(w)
        BY <1>3, <2>2 DEF HandsOK, Jobs, Books
      <3> QED
        BY <3>1 DEF HandBooks
    <2> QED
      BY <2>1, <2>2
  <1>4. ASSUME NEW y \in Recipients \ {x} PROVE RowBooks(y)'
    BY <1>4 DEF Books, RowBooks
  <1> QED
    BY <1>1, <1>2, <1>3, <1>4 DEF Books

(* A step that only drops jobs loses their recipients, or has tried them enough.  *)
LEMMA SomeDrop ==
  ASSUME IInv, UNCHANGED <<queue, dispatch, row, counts>>, lost \subseteq lost',
         \A w \in Workers : pc'[w] # "poll" => pc'[w] = pc[w] /\ job'[w] = job[w],
         \A m \in Notifications : todo'[m] \subseteq todo[m],
         \A y \in Recipients :
           Somewhere(y) => Somewhere(y)' \/ y \in lost' \/ tries[y] = MAX_RETRIES
  PROVE  Alone' /\ Books'
  <1> USE DEF IInv, counts
  <1>1. Alone'
    BY StillAlone
  <1>2. \A w \in Workers : pc'[w] # "poll" => HandBooks(w)'
    BY DEF Books, HandBooks
  <1>3. \A p \in Priorities : \A i \in 1 .. Len(queue'[p]) : QueueBooks(queue[p][i])'
    BY DEF Books, QueueBooks
  <1>4. \A y \in Recipients : RowBooks(y)'
    BY DEF Books, RowBooks
  <1>5. \A m \in Notifications :
          /\ (dispatch[m] = NoDispatch)' => \A x \in Audience[m] : row'[x] = "none"
          /\ \A x \in todo'[m] : DueBooks(x)'
    BY DEF Books, DueBooks
  <1> QED
    BY <1>1, <1>2, <1>3, <1>4, <1>5 DEF Books

(* Whose job a busy worker has, nobody else has.                                  *)
LEMMA HandFacts ==
  ASSUME IInv, NEW w \in Workers, pc[w] # "poll"
  PROVE  /\ job[w] \in Jobs /\ job[w].to \in Recipients /\ HandBooks(w) /\ RowBooks(job[w].to)
         /\ \A u \in Workers \ {w} : pc[u] # "poll" => job[u].to # job[w].to
         /\ \A p \in Priorities : \A i \in 1 .. Len(queue[p]) : queue[p][i].to # job[w].to
         /\ \A m \in Notifications : job[w].to \notin todo[m]
         /\ row[job[w].to] # "none"
  <1>1. job[w] \in Jobs /\ job[w].to \in Recipients
    BY DEF IInv, Typed, HandsOK, Jobs
  <1> QED
    BY <1>1 DEF IInv, Alone, Books, HandBooks, Open

(* A worker that keeps its job leaves it where it was, and moves no other.        *)
LEMMA HandStays ==
  ASSUME IInv, NEW w \in Workers, pc[w] # "poll", UNCHANGED <<queue, todo, dispatch, job, lost>>,
         NEW step \in {"send", "record", "fail", "retry"}, Goto(w, step),
         \A y \in Recipients \ {job[w].to} :
           /\ row'[y] = row[y] /\ tries'[y] = tries[y]
           /\ sends'[y] = sends[y] /\ unrecorded'[y] = unrecorded[y],
         HandBooks(w)', sends'[job[w].to] <= 1 + unrecorded'[job[w].to],
         tries'[job[w].to] = tries[job[w].to]
  PROVE  Alone' /\ Books'
  <1> DEFINE x == job[w].to
  <1>1. pc'[w] = step /\ \A u \in Workers \ {w} : pc'[u] = pc[u]
    BY DEF Goto, IInv, Typed, TypeOK
  <1>2. Alone'
    BY <1>1, StillAlone
  <1>3. \A y \in Recipients : Somewhere(y) => Somewhere(y)'
    BY <1>1 DEF Somewhere
  <1>4. RowBooks(x)'
    <2>1. row'[x] \in Open /\ Somewhere(x)'
      BY <1>1 DEF HandBooks, Somewhere
    <2> QED
      BY <2>1, HandFacts DEF RowBooks, Open
  <1>5. \A p \in Priorities : \A i \in 1 .. Len(queue'[p]) :
          queue'[p][i].to # x /\ \E k \in 1 .. Len(queue[p]) : queue'[p][i] = queue[p][k]
    BY HandFacts
  <1>6. \A u \in Workers : pc'[u] # "poll" =>
          \/ job'[u].to = x /\ HandBooks(u)'
          \/ job'[u].to # x /\ pc'[u] = pc[u] /\ job'[u] = job[u]
    BY <1>1, HandFacts
  <1>7. Books'
    <2>1. x \in Recipients /\ row[x] # "none" /\ \A m \in Notifications : x \notin todo'[m]
      BY HandFacts
    <2> HIDE DEF x
    <2> QED
      BY <1>3, <1>4, <1>5, <1>6, <2>1, OneMoves DEF x
  <1> QED
    BY <1>2, <1>7

-----------------------------------------------------------------------------------
(* The dispatch of a notification puts its own recipients, untouched so far, on   *)
(* the way.                                                                       *)
LEMMA DispatchHolds ==
  ASSUME IInv, NEW n \in Nodes, NEW m \in Notifications, NEW p \in Raised, Dispatch(n, m, p)
  PROVE  Alone' /\ Books'
  <1> USE DEF IInv, Typed
  <1>1. /\ Audience[m] \subseteq Recipients /\ \A x \in Audience[m] : row[x] = "none"
        /\ \A k \in Notifications \ {m} : Audience[k] \cap Audience[m] = {}
    BY AudienceAssumption DEF Dispatch, Books
  <1>2. /\ row' = [x \in Recipients |-> IF x \in Audience[m] THEN "QUEUED" ELSE row[x]]
        /\ todo'[m] = Audience[m] /\ \A k \in Notifications \ {m} : todo'[k] = todo[k]
        /\ dispatch'[m] # NoDispatch
        /\ \A k \in Notifications \ {m} : dispatch'[k] = dispatch[k]
        /\ UNCHANGED <<queue, pc, job, sends, tries, unrecorded, lost>>
    BY RaisedAssumption DEF Dispatch, TypeOK, counts, NoDispatch, Priorities, Polled
  <1>3. \A q \in Priorities : \A i \in 1 .. Len(queue[q]) : queue[q][i].to \notin Audience[m]
    BY <1>1 DEF Books, QueueBooks, Open
  <1>4. \A w \in Workers : pc[w] # "poll" => job[w].to \notin Audience[m]
    BY <1>1 DEF Books, HandBooks, Open
  <1>5. Alone'
    BY <1>2, <1>3, <1>4 DEF Alone
  <1>6. ASSUME NEW k \in Notifications
        PROVE  /\ (dispatch[k] = NoDispatch)' => \A x \in Audience[k] : row'[x] = "none"
               /\ \A x \in todo'[k] : DueBooks(x)'
    <2>1. CASE k = m
      BY <1>1, <1>2, <2>1 DEF Books, DueBooks, RowBooks
    <2>2. CASE k # m
      <3>1. \A x \in Audience[k] : x \in Recipients /\ row'[x] = row[x]
        BY <1>1, <1>2, <2>2, AudienceAssumption
      <3> QED
        BY <1>2, <2>2, <3>1 DEF Books, DueBooks, DuesOK
    <2> QED
      BY <2>1, <2>2
  <1>7. ASSUME NEW q \in Priorities, NEW i \in 1 .. Len(queue'[q]) PROVE QueueBooks(queue[q][i])'
    <2>1. queue[q][i] \in Jobs
      BY <1>2, ElementOfSeq DEF TypeOK
    <2>2. queue[q][i].to \in Recipients \ Audience[m] /\ QueueBooks(queue[q][i])
      BY <1>2, <1>3, <2>1 DEF Books, Jobs
    <2> QED
      BY <1>2, <2>2 DEF QueueBooks
  <1>8. ASSUME NEW w \in Workers, pc'[w] # "poll" PROVE HandBooks(w)'
    <2>1. job[w].to \in Recipients \ Audience[m] /\ HandBooks(w)
      BY <1>2, <1>4, <1>8 DEF Books, HandsOK, Jobs
    <2> QED
      BY <1>2, <2>1 DEF HandBooks
  <1>9. ASSUME NEW x \in Recipients PROVE RowBooks(x)'
    <2>1. Somewhere(x) \/ x \in Audience[m] => Somewhere(x)'
      BY <1>2, <1>1, AudienceAssumption DEF Somewhere, DuesOK
    <2> QED
      BY <1>2, <2>1, <1>1 DEF Books, RowBooks, Open
  <1> QED
    BY <1>5, <1>6, <1>7, <1>8, <1>9 DEF Books

(* One turn of its loop queues one job.                                           *)
LEMMA EnqueueHolds ==
  ASSUME IInv, NEW m \in Notifications, NEW x \in todo[m], Enqueue(m, x)
  PROVE  Alone' /\ Books'
  <1> DEFINE j == [to |-> x, retryCount |-> 0]
  <1> USE DEF IInv, Typed
  <1>0. PICK p \in Priorities : p = dispatch[m][2]
    BY DEF TypeOK, DuesOK
  <1>1. j \in Jobs /\ j.to = x /\ j.retryCount = 0 /\ x \in Recipients
    BY DEF TypeOK, Jobs, MAX_RETRIES
  <1>2. /\ Push(p, j) /\ x \notin todo'[m] /\ \A k \in Notifications : todo'[k] \subseteq todo[k]
        /\ UNCHANGED <<row, dispatch, pc, job, sends, tries, unrecorded, lost>>
        /\ \A y \in Recipients \ {x} : \A k \in Notifications : y \in todo[k] => y \in todo'[k]
    BY <1>0 DEF Enqueue, TypeOK, counts
  <1>3. \A k \in Notifications : x \notin todo'[k]
    BY <1>2, AudienceAssumption DEF DuesOK
  <1>4. /\ \A q \in Priorities : \A i \in 1 .. Len(queue[q]) : queue[q][i].to # x
        /\ \A w \in Workers : pc[w] # "poll" => job[w].to # x
    BY DEF Alone
  <1>5. DueBooks(x) /\ RowBooks(x)
    BY <1>1 DEF Books
  <1> HIDE DEF j
  <1>6. /\ \A q \in Priorities : \A i \in 1 .. Len(queue'[q]) :
             queue'[q][i] = j \/ \E k \in 1 .. Len(queue[q]) : queue'[q][i] = queue[q][k]
        /\ \A y : Somewhere(y) =>
             \/ \E q \in Priorities : \E i \in 1 .. Len(queue'[q]) : queue'[q][i].to = y
             \/ \E w \in Workers : pc[w] # "poll" /\ job[w].to = y
             \/ \E k \in Notifications : y \in todo[k]
        /\ \E i \in 1 .. Len(queue'[p]) : queue'[p][i].to = x
    BY <1>1, <1>2, PushAdds
  <1>7. Alone'
    BY <1>1, <1>2, <1>3, <1>4, PushAlone
  <1>8. ASSUME NEW q \in Priorities, NEW i \in 1 .. Len(queue'[q])
        PROVE  \/ queue'[q][i].to = x /\ QueueBooks(queue[q][i])'
               \/ queue'[q][i].to # x /\ \E k \in 1 .. Len(queue[q]) : queue'[q][i] = queue[q][k]
    <2>1. CASE queue'[q][i] = j
      BY <1>1, <1>2, <1>5, <2>1 DEF DueBooks, QueueBooks, Open, TypeOK
    <2>2. CASE queue'[q][i] # j
      BY <1>4, <1>6, <2>2
    <2> QED
      BY <2>1, <2>2
  <1>9. \A y \in Recipients \ {x} : Somewhere(y) => Somewhere(y)'
    BY <1>2, <1>6 DEF Somewhere
  <1>10. RowBooks(x)'
    <2>1. Somewhere(x)'
      BY <1>1, <1>6 DEF Somewhere
    <2> QED
      BY <1>2, <1>5, <2>1 DEF RowBooks
  <1>11. \A w \in Workers : pc'[w] # "poll" =>
           job'[w].to # x /\ pc'[w] = pc[w] /\ job'[w] = job[w]
    BY <1>2, <1>4
  <1>12. row[x] # "none"
    BY <1>5 DEF DueBooks
  <1>13. Books'
    BY <1>1, <1>2, <1>3, <1>8, <1>9, <1>10, <1>11, <1>12, OneMoves
  <1> QED
    BY <1>7, <1>13

(* A retry queues the job again, counted.                                         *)
LEMMA RetryHolds ==
  ASSUME IInv, NEW w \in Workers, Retry(w)
  PROVE  Alone' /\ Books'
  <1> USE DEF IInv, Typed
  <1>0. PICK x \in Recipients, j \in Jobs :
          x = job[w].to /\ j = Again(w) /\ j.to = x /\ j.retryCount = job[w].retryCount + 1
    BY DEF Retry, HandsOK, Again, Jobs, MAX_RETRIES
  <1>1. /\ w[2] \in Priorities /\ Push(w[2], j) /\ pc[w] = "retry"
        /\ pc'[w] = "poll" /\ \A u \in Workers \ {w} : pc'[u] = pc[u] /\ job'[u] = job[u]
        /\ UNCHANGED <<row, dispatch, todo, sends, tries, unrecorded, lost>>
    BY <1>0 DEF Retry, Release, Workers, Priorities, TypeOK, counts
  <1>2. /\ \A u \in Workers \ {w} : pc[u] # "poll" => job[u].to # x
        /\ \A p \in Priorities : \A i \in 1 .. Len(queue[p]) : queue[p][i].to # x
        /\ \A m \in Notifications : x \notin todo[m]
        /\ row[x] # "none" /\ HandBooks(w) /\ RowBooks(x)
    BY <1>0, <1>1, HandFacts
  <1>3. /\ \A q \in Priorities : \A i \in 1 .. Len(queue'[q]) :
             queue'[q][i] = j \/ \E k \in 1 .. Len(queue[q]) : queue'[q][i] = queue[q][k]
        /\ \A y : Somewhere(y) =>
             \/ \E q \in Priorities : \E i \in 1 .. Len(queue'[q]) : queue'[q][i].to = y
             \/ \E u \in Workers : pc[u] # "poll" /\ job[u].to = y
             \/ \E m \in Notifications : y \in todo[m]
        /\ \E i \in 1 .. Len(queue'[w[2]]) : queue'[w[2]][i].to = x
    BY <1>0, <1>1, PushAdds
  <1>4. Alone'
    <2>1. \A u \in Workers : pc'[u] # "poll" => pc[u] # "poll" /\ job'[u] = job[u] /\ job'[u].to # j.to
      BY <1>0, <1>1, <1>2
    <2>2. /\ \A q \in Priorities : \A i \in 1 .. Len(queue[q]) : queue[q][i].to # j.to
          /\ \A m \in Notifications : j.to \notin todo'[m] /\ todo'[m] \subseteq todo[m]
      BY <1>0, <1>1, <1>2
    <2> QED
      BY <1>1, <2>1, <2>2, PushAlone
  <1>5. ASSUME NEW q \in Priorities, NEW i \in 1 .. Len(queue'[q])
        PROVE  \/ queue'[q][i].to = x /\ QueueBooks(queue[q][i])'
               \/ queue'[q][i].to # x /\ \E k \in 1 .. Len(queue[q]) : queue'[q][i] = queue[q][k]
    <2>1. CASE queue'[q][i] = j
      <3>1. /\ row'[x] \in Open /\ tries'[x] = j.retryCount /\ sends'[x] <= unrecorded'[x]
        BY <1>0, <1>1, <1>2 DEF HandBooks, TypeOK
      <3> QED
        BY <1>0, <2>1, <3>1 DEF QueueBooks
    <2>2. CASE queue'[q][i] # j
      BY <1>2, <1>3, <2>2
    <2> QED
      BY <2>1, <2>2
  <1>6. \A y \in Recipients \ {x} : Somewhere(y) => Somewhere(y)'
    BY <1>0, <1>1, <1>3 DEF Somewhere
  <1>7. RowBooks(x)'
    <2>1. Somewhere(x)'
      BY <1>1, <1>3 DEF Somewhere
    <2> QED
      BY <1>1, <1>2, <2>1 DEF RowBooks
  <1>8. \A u \in Workers : pc'[u] # "poll" =>
          job'[u].to # x /\ pc'[u] = pc[u] /\ job'[u] = job[u]
    BY <1>1, <1>2
  <1>9. Books'
    BY <1>1, <1>2, <1>5, <1>6, <1>7, <1>8, OneMoves
  <1> QED
    BY <1>4, <1>9

(* A poll moves a job from its list into the worker's hand.                       *)
LEMMA PollHolds ==
  ASSUME IInv, NEW w \in Workers, PollLeft(w)
  PROVE  Alone' /\ Books'
  <1> USE DEF IInv, Typed
  <1>0. PICK p \in Priorities : p = w[2]
    BY DEF Workers, Priorities
  <1>1. /\ queue[p] # <<>> /\ queue' = [queue EXCEPT ![p] = Tail(@)]
        /\ pc[w] = "poll" /\ pc'[w] = "mark" /\ job'[w] = Head(queue[p])
        /\ \A u \in Workers \ {w} : pc'[u] = pc[u] /\ job'[u] = job[u]
        /\ tries' = [tries EXCEPT ![Head(queue[p]).to] = @ + 1]
        /\ UNCHANGED <<row, dispatch, todo, sends, unrecorded, lost>>
    BY <1>0 DEF PollLeft, Goto, TypeOK
  <1>2. /\ Head(queue[p]) \in Jobs /\ 1 \in 1 .. Len(queue[p]) /\ Head(queue[p]) = queue[p][1]
        /\ \A q \in Priorities : \A i \in 1 .. Len(queue'[q]) :
             /\ (IF q = p THEN i + 1 ELSE i) \in 1 .. Len(queue[q])
             /\ queue'[q][i] = queue[q][IF q = p THEN i + 1 ELSE i]
        /\ \A q \in Priorities : \A i \in 1 .. Len(queue[q]) :
             \/ q = p /\ i = 1
             \/ \E k \in 1 .. Len(queue'[q]) : queue'[q][k] = queue[q][i]
    BY <1>1, Popped
  <1>3. PICK j \in Jobs, x \in Recipients : j = queue[p][1] /\ x = j.to
    BY <1>2 DEF Jobs
  <1>4. /\ job'[w] = j /\ tries' = [tries EXCEPT ![x] = @ + 1]
        /\ \A u \in Workers : pc[u] # "poll" => job[u].to # x
        /\ \A m \in Notifications : x \notin todo[m]
        /\ QueueBooks(j) /\ RowBooks(x)
    <2>1. job'[w] = j /\ tries' = [tries EXCEPT ![x] = @ + 1]
      BY <1>1, <1>2, <1>3
    <2>2. /\ \A u \in Workers : pc[u] # "poll" => job[u].to # queue[p][1].to
          /\ \A m \in Notifications : queue[p][1].to \notin todo[m]
      BY <1>2 DEF Alone
    <2>3. QueueBooks(queue[p][1]) /\ RowBooks(x)
      BY <1>2 DEF Books
    <2> QED
      BY <1>3, <2>1, <2>2, <2>3
  <1>5. ASSUME NEW q \in Priorities, NEW i \in 1 .. Len(queue'[q])
        PROVE  queue'[q][i].to # x /\ \E k \in 1 .. Len(queue[q]) : queue'[q][i] = queue[q][k]
    <2> DEFINE k == IF q = p THEN i + 1 ELSE i
    <2>1. k \in 1 .. Len(queue[q]) /\ queue'[q][i] = queue[q][k] /\ ~(q = p /\ k = 1)
      BY <1>2
    <2> HIDE DEF k
    <2>2. 1 \in 1 .. Len(queue[p]) /\ queue[p][1].to = x
      BY <1>2, <1>3
    <2>3. queue[q][k].to = queue[p][1].to => q = p /\ k = 1
      BY <2>1, <2>2 DEF Alone
    <2> QED
      BY <2>1, <2>2, <2>3
  <1>6. Alone'
    <2>1. ASSUME NEW q \in Priorities, NEW r \in Priorities,
                 NEW i \in 1 .. Len(queue'[q]), NEW k \in 1 .. Len(queue'[r]),
                 queue'[q][i].to = queue'[r][k].to
          PROVE  q = r /\ i = k
      <3> DEFINE a == IF q = p THEN i + 1 ELSE i
                 b == IF r = p THEN k + 1 ELSE k
      <3>1. /\ a \in 1 .. Len(queue[q]) /\ queue'[q][i] = queue[q][a]
            /\ b \in 1 .. Len(queue[r]) /\ queue'[r][k] = queue[r][b]
        BY <1>2
      <3>2. q = r /\ a = b
        <4> HIDE DEF a, b
        <4> QED
          BY <2>1, <3>1 DEF Alone
      <3> QED
        BY <3>2
    <2>2. \A u, v \in Workers :
            pc'[u] # "poll" /\ pc'[v] # "poll" /\ job'[u].to = job'[v].to => u = v
      BY <1>1, <1>3, <1>4 DEF Alone
    <2>3. ASSUME NEW q \in Priorities, NEW i \in 1 .. Len(queue'[q])
          PROVE  /\ \A u \in Workers : pc'[u] # "poll" => job'[u].to # queue'[q][i].to
                 /\ \A m \in Notifications : queue'[q][i].to \notin todo'[m]
      <3>0. queue'[q][i].to # x /\ \E k \in 1 .. Len(queue[q]) : queue'[q][i] = queue[q][k]
        BY <1>5
      <3>1. PICK k \in 1 .. Len(queue[q]) : queue'[q][i] = queue[q][k] /\ queue[q][k].to # x
        BY <3>0
      <3>2. /\ \A u \in Workers : pc[u] # "poll" => job[u].to # queue[q][k].to
            /\ \A m \in Notifications : queue[q][k].to \notin todo[m]
        BY DEF Alone
      <3>3. ASSUME NEW u \in Workers, pc'[u] # "poll" PROVE job'[u].to # queue'[q][i].to
        <4>1. CASE u = w
          BY <1>3, <1>4, <3>1, <4>1
        <4>2. CASE u # w
          BY <1>1, <3>1, <3>2, <3>3, <4>2
        <4> QED
          BY <4>1, <4>2
      <3> QED
        BY <1>1, <3>1, <3>2, <3>3
    <2>4. \A u \in Workers, m \in Notifications : pc'[u] # "poll" => job'[u].to \notin todo'[m]
      BY <1>1, <1>3, <1>4 DEF Alone
    <2> QED
      BY <2>1, <2>2, <2>3, <2>4 DEF Alone
  <1>7. HandBooks(w)' /\ RowBooks(x)' /\ row[x] # "none"
    <2>1. /\ tries'[x] = tries[x] + 1 /\ tries[x] = j.retryCount /\ row[x] \in Open
          /\ sends[x] <= unrecorded[x] /\ sends[x] \in Nat /\ unrecorded[x] \in Nat
          /\ j.retryCount \in 0 .. MAX_RETRIES - 1
      BY <1>3, <1>4 DEF QueueBooks, TypeOK, Jobs
    <2>2. HandBooks(w)'
      BY <1>1, <1>3, <1>4, <2>1 DEF HandBooks
    <2>3. Somewhere(x)'
      BY <1>1, <1>3, <1>4 DEF Somewhere
    <2> QED
      BY <1>1, <1>4, <2>1, <2>2, <2>3 DEF RowBooks, Open, MAX_RETRIES
  <1>8. ASSUME NEW y \in Recipients \ {x}, Somewhere(y) PROVE Somewhere(y)'
    <2>1. ASSUME NEW q \in Priorities, NEW i \in 1 .. Len(queue[q]), queue[q][i].to = y
          PROVE  \E k \in 1 .. Len(queue'[q]) : queue'[q][k].to = y
      <3>1. ~(q = p /\ i = 1)
        BY <1>3, <2>1
      <3>2. PICK k \in 1 .. Len(queue'[q]) : queue'[q][k] = queue[q][i]
        BY <1>2, <3>1
      <3> QED
        BY <2>1, <3>2
    <2>2. \A u \in Workers : pc[u] # "poll" => pc'[u] # "poll" /\ job'[u] = job[u]
      BY <1>1
    <2> QED
      BY <1>1, <1>8, <2>1, <2>2 DEF Somewhere
  <1>9. \A u \in Workers : pc'[u] # "poll" =>
          \/ job'[u].to = x /\ HandBooks(u)'
          \/ job'[u].to # x /\ pc'[u] = pc[u] /\ job'[u] = job[u]
    BY <1>1, <1>3, <1>4, <1>7
  <1>10. \A y \in Recipients \ {x} : tries'[y] = tries[y]
    BY <1>4 DEF TypeOK
  <1>11. Books'
    BY <1>1, <1>4, <1>5, <1>7, <1>8, <1>9, <1>10, OneMoves
  <1> QED
    BY <1>6, <1>11

(* The steps of a worker that has a job.                                          *)
LEMMA WorkHolds ==
  ASSUME IInv, NEW w \in Workers, Work(w)
  PROVE  Alone' /\ Books'
  <1> USE DEF IInv, Typed, counts
  <1> DEFINE x == job[w].to
  <1>0. ASSUME pc[w] # "poll"
        PROVE  /\ x \in Recipients /\ HandBooks(w) /\ RowBooks(x) /\ row[x] # "none"
               /\ sends[x] \in Nat /\ unrecorded[x] \in Nat
    BY <1>0, HandFacts DEF TypeOK
  <1>1. CASE MarkProcessing(w)
    <2>1. HandBooks(w)'
      BY <1>0, <1>1 DEF MarkProcessing, Record, Goto, TypeOK, HandBooks, Open
    <2> QED
      BY <1>0, <1>1, <2>1, HandStays DEF MarkProcessing, Record, RowBooks, TypeOK
  <1>2. CASE Send(w)
    <2>1. HandBooks(w)' /\ sends'[x] <= 1 + unrecorded'[x]
      BY <1>0, <1>2 DEF Send, Goto, TypeOK, HandBooks
    <2> QED
      BY <1>0, <1>2, <2>1, HandStays DEF Send, TypeOK
  <1>3. CASE StepFails(w)
    <2>1. HandBooks(w)' /\ sends'[x] <= 1 + unrecorded'[x]
      BY <1>0, <1>3 DEF StepFails, Goto, TypeOK, HandBooks
    <2> QED
      BY <1>0, <1>3, <2>1, HandStays DEF StepFails, TypeOK
  <1>4. CASE MarkFailed(w)
    <2>1. HandBooks(w)'
      BY <1>0, <1>4 DEF MarkFailed, Record, Goto, TypeOK, HandBooks, Open
    <2> QED
      BY <1>0, <1>4, <2>1, HandStays DEF MarkFailed, Record, RowBooks, TypeOK
  <1>5. ASSUME Release(w), pc[w] # "poll"
        PROVE  /\ \A u \in Workers : pc'[u] # "poll" =>
                    u # w /\ pc[u] # "poll" /\ pc'[u] = pc[u] /\ job'[u] = job[u]
               /\ \A u \in Workers \ {w} : pc'[u] = pc[u] /\ job'[u] = job[u]
    BY <1>5 DEF Release, TypeOK
  <1>6. CASE RecordSent(w)
    <2>0. PICK z \in Recipients : z = job[w].to
      BY <1>0, <1>6 DEF RecordSent
    <2>1. Alone'
      BY <1>5, <1>6, StillAlone DEF RecordSent
    <2>2. row'[z] = "SENT" /\ \A y \in Recipients \ {z} : row'[y] = row[y]
      BY <1>6, <2>0 DEF RecordSent, Record, TypeOK
    <2>3. RowBooks(z)' /\ row[z] # "none"
      BY <1>0, <1>6, <2>0, <2>2 DEF RecordSent, RowBooks, HandBooks, Open
    <2>4. \A y \in Recipients \ {z} : Somewhere(y) => Somewhere(y)'
      BY <1>5, <1>6, <2>0 DEF RecordSent, Somewhere
    <2>5. /\ \A u \in Workers : pc'[u] # "poll" =>
               job'[u].to # z /\ pc'[u] = pc[u] /\ job'[u] = job[u]
          /\ \A m \in Notifications : z \notin todo'[m]
          /\ \A p \in Priorities : \A i \in 1 .. Len(queue'[p]) :
               queue'[p][i].to # z /\ \E k \in 1 .. Len(queue[p]) : queue'[p][i] = queue[p][k]
      BY <1>5, <1>6, <2>0, HandFacts DEF RecordSent
    <2>6. Books'
      BY <1>6, <2>2, <2>3, <2>4, <2>5, OneMoves DEF RecordSent
    <2> QED
      BY <2>1, <2>6
  <1>7. CASE Exhaust(w)
    <2>1. tries[x] = MAX_RETRIES
      BY <1>0, <1>7 DEF Exhaust, Again, HandBooks
    <2>2. \A y \in Recipients : Somewhere(y) => Somewhere(y)' \/ tries[y] = MAX_RETRIES
      BY <1>5, <1>7, <2>1 DEF Exhaust, Somewhere
    <2> QED
      BY <1>5, <1>7, <2>2, SomeDrop DEF Exhaust
  <1>8. CASE RetryFails(w)
    <2>1. \A y \in Recipients : Somewhere(y) => Somewhere(y)' \/ y \in lost'
      BY <1>5, <1>8 DEF RetryFails, Somewhere
    <2> QED
      BY <1>5, <1>8, <2>1, SomeDrop DEF RetryFails
  <1> QED
    BY <1>1, <1>2, <1>3, <1>4, <1>6, <1>7, <1>8, PollHolds, RetryHolds DEF Work, Poll

(* Every step keeps the invariant.                                                *)
LEMMA StepHolds == IInv /\ [Next]_vars => IInv'
  <1> SUFFICES ASSUME IInv, [Next]_vars PROVE IInv'
    OBVIOUS
  <1>0. Typed'
    BY StepTyped DEF IInv
  <1> SUFFICES Alone' /\ Books'
    BY <1>0 DEF IInv
  <1>1. ASSUME NEW m \in Notifications, EnqueueFails(m) PROVE Alone' /\ Books'
    <2>1. /\ \A k \in Notifications : todo'[k] = IF k = m THEN {} ELSE todo[k]
          /\ lost' = lost \cup todo[m]
      BY <1>1 DEF EnqueueFails, IInv, Typed, TypeOK
    <2>2. \A y \in Recipients : Somewhere(y) => Somewhere(y)' \/ y \in lost'
      BY <1>1, <2>1 DEF EnqueueFails, Somewhere
    <2> QED
      BY <1>1, <2>1, <2>2, SomeDrop DEF EnqueueFails
  <1>2. ASSUME NEW n \in Nodes, Exit(n) PROVE Alone' /\ Books'
    <2>1. /\ \A w \in Workers : pc'[w] # "poll" => pc'[w] = pc[w] /\ job'[w] = job[w]
          /\ \A m \in Notifications : todo'[m] \subseteq todo[m]
      BY <1>2 DEF Exit
    <2>2. ASSUME NEW w \in Workers, pc[w] # "poll"
          PROVE  job[w].to \in lost' \/ (pc'[w] # "poll" /\ job'[w] = job[w])
      BY <1>2, <2>2 DEF Exit
    <2>3. ASSUME NEW m \in Notifications, NEW y \in todo[m] PROVE y \in lost' \/ y \in todo'[m]
      BY <1>2 DEF Exit
    <2>4. \A y \in Recipients : Somewhere(y) => Somewhere(y)' \/ y \in lost'
      BY <1>2, <2>2, <2>3 DEF Exit, Somewhere
    <2> QED
      BY <1>2, <2>1, <2>4, SomeDrop DEF Exit
  <1>3. ASSUME NEW n \in Nodes, Shutdown(n) \/ Crash(n) \/ Stopped(n) \/ Restart(n)
        PROVE  Alone' /\ Books'
    <2>1. CASE Shutdown(n) \/ Restart(n)
      <3>1. UNCHANGED <<row, queue, dispatch, todo, pc, job, counts, lost>>
        BY <2>1 DEF Shutdown, Restart
      <3> QED
        BY <3>1, SomeDrop DEF Somewhere
    <2>2. CASE Crash(n) \/ Stopped(n)
      BY <1>2, <2>2 DEF Crash, Stopped
    <2> QED
      BY <1>3, <2>1, <2>2
  <1>4. CASE UNCHANGED vars
    <2>1. UNCHANGED <<row, queue, dispatch, todo, pc, job, counts, lost>>
      BY <1>4 DEF vars, counts
    <2> QED
      BY <2>1, SomeDrop DEF Somewhere
  <1> QED
    BY <1>1, <1>3, <1>4, DispatchHolds, EnqueueHolds, WorkHolds DEF Next, Fill

LEMMA Invariance == Spec => []IInv
  BY InitHolds, StepHolds, PTL DEF Spec

-----------------------------------------------------------------------------------
(* Gone is what the places of the invariant say.                                  *)
LEMMA GoneIsNowhere ==
  ASSUME NEW x \in Recipients, Somewhere(x)
  PROVE  ~Gone(x)
  <1>1. ASSUME NEW p \in Priorities, NEW i \in 1 .. Len(queue[p]), queue[p][i].to = x
        PROVE  InQueue(x) # {}
    <2>1. <<p, i>> \in InQueue(x)
      BY <1>1 DEF InQueue
    <2> QED
      BY <2>1
  <1> QED
    BY <1>1 DEF Somewhere, Gone, InHand, InDispatch

LEMMA SomewhereIsSomewhere ==
  ASSUME NEW x \in Recipients, ~Somewhere(x)
  PROVE  Gone(x)
  BY DEF Somewhere, Gone, InQueue, InHand, InDispatch

(* PROVED. A recipient's job is in one place, for any number of nodes, stops,     *)
(* notifications and recipients: no two workers ever hold or find one message.    *)
THEOREM JobsAreSingle == Spec => []OneCopy
  <1>1. ASSUME IInv PROVE OneCopy
    <2> SUFFICES ASSUME NEW x \in Recipients
                 PROVE  Cardinality(InQueue(x)) + Cardinality(InHand(x))
                          + Cardinality(InDispatch(x)) <= 1
      BY DEF OneCopy
    <2> USE <1>1 DEF IInv, Typed
    <2>1. \A a, b \in InQueue(x) : a = b
      BY DEF Alone, InQueue
    <2>2. \A a, b \in InHand(x) : a = b
      BY DEF Alone, InHand
    <2>3. \A a, b \in InDispatch(x) : a = b
      BY AudienceAssumption DEF InDispatch, DuesOK
    <2>4. InQueue(x) = {} \/ (InHand(x) = {} /\ InDispatch(x) = {})
      BY DEF Alone, InQueue, InHand, InDispatch
    <2>5. InHand(x) = {} \/ InDispatch(x) = {}
      BY DEF Alone, InHand, InDispatch
    <2>6. /\ Cardinality(InQueue(x)) \in {0, 1}
          /\ InQueue(x) = {} => Cardinality(InQueue(x)) = 0
      BY <2>1, OneOrNone
    <2>7. /\ Cardinality(InHand(x)) \in {0, 1}
          /\ InHand(x) = {} => Cardinality(InHand(x)) = 0
      BY <2>2, OneOrNone
    <2>8. /\ Cardinality(InDispatch(x)) \in {0, 1}
          /\ InDispatch(x) = {} => Cardinality(InDispatch(x)) = 0
      BY <2>3, OneOrNone
    <2> QED
      BY <2>4, <2>5, <2>6, <2>7, <2>8
  <1> QED
    BY <1>1, Invariance, PTL

(* PROVED. No job is taken up more than MAX_RETRIES times, and none is given up   *)
(* before, unless a stop or Redis took it.                                        *)
THEOREM JobsPersist == Spec => []Persistence
  <1>1. ASSUME IInv PROVE Persistence
    <2> SUFFICES ASSUME NEW x \in Recipients
                 PROVE  /\ tries[x] <= MAX_RETRIES
                        /\ row[x] \notin {"none", "SENT"} /\ Gone(x) /\ x \notin lost
                             => tries[x] = MAX_RETRIES
      BY DEF Persistence
    <2>1. RowBooks(x) /\ (row[x] \notin {"none", "SENT"} => row[x] \in Open)
      BY <1>1 DEF IInv, Typed, TypeOK, Books, Open
    <2> QED
      BY <2>1, GoneIsNowhere DEF RowBooks
  <1> QED
    BY <1>1, Invariance, PTL

(* PROVED. What a record calls SENT went out and is settled; nothing goes out     *)
(* twice but for sends that could not be recorded.                                *)
THEOREM SendsAreSettled == Spec => []SentIsSettled
  <1>1. ASSUME IInv PROVE SentIsSettled
    <2> SUFFICES ASSUME NEW x \in Recipients
                 PROVE  /\ row[x] = "SENT" => sends[x] >= 1 /\ Gone(x)
                        /\ sends[x] <= 1 + unrecorded[x]
      BY DEF SentIsSettled
    <2>1. RowBooks(x)
      BY <1>1 DEF IInv, Books
    <2>2. row[x] = "SENT" => ~Somewhere(x)
      BY <1>1 DEF IInv, Books, Somewhere, QueueBooks, HandBooks, DueBooks, Open
    <2> QED
      BY <2>1, <2>2, SomewhereIsSomewhere DEF RowBooks
  <1> QED
    BY <1>1, Invariance, PTL
=================================================================================
