------------------------------- MODULE AttendanceSync -------------------------------
(* Attendance marks on their way from a driver's device to the server: the       *)
(* toggles of a page, the offline queue of useAttendanceStore, the flush loop of *)
(* useAttendanceSync, which sends one mark at a time and waits five seconds for  *)
(* its acknowledgement, and AttendanceHandler with its two in-memory caches.     *)
(*                                                                              *)
(* A tap's number stands for its event id and its timestamp: a 500 ms lock keeps *)
(* two taps for one student apart. A connection is first in, first out; what is  *)
(* on it when it breaks is lost, and what is emitted while there is none waits   *)
(* in the socket's send buffer.                                                  *)
EXTENDS Naturals, Sequences, SequencesExt, FiniteSets

CONSTANTS
  Students,
  MaxTaps,       \* BOUND: taps of the driver
  MaxBreaks,     \* BOUND: connections lost
  MaxCrashes,    \* BOUND: restarts of the server
  MaxLate        \* BOUND: timeouts whose acknowledgement was still on its way

ASSUME LinkAssumption ==
  MaxTaps \in Nat /\ MaxBreaks \in Nat /\ MaxCrashes \in Nat /\ MaxLate \in Nat

VARIABLES
  screen,    \* student -> status the toggle shows
  offline,   \* useAttendanceStore.offlineQueue
  batch,     \* the flush loop's copy of the queue; its head is being awaited
  awaited,   \* the emission whose acknowledgement the loop awaits, or 0
  emissions, \* emissions so far
  wired,     \* is there a connection?
  uplink, downlink,  \* marks and acknowledgements under way, with their emission
  state,     \* the server's studentStateCache
  processed, \* the server's idempotencyCache
  applied,   \* every mark the server has applied and broadcast, in order
  taps, breaks, crashes, overdue

device == <<screen, offline, batch, awaited, emissions>>
server == <<state, processed, applied>>
atVars == <<device, wired, uplink, downlink, server, taps, breaks, crashes, overdue>>

Unseen == [status |-> "PENDING", at |-> 0]

AtInit ==
  /\ screen = [s \in Students |-> "PENDING"]
  /\ offline = <<>> /\ batch = <<>> /\ awaited = 0 /\ emissions = 0
  /\ wired = TRUE /\ uplink = <<>> /\ downlink = <<>>
  /\ state = [s \in Students |-> Unseen] /\ processed = {} /\ applied = <<>>
  /\ taps = 0 /\ breaks = 0 /\ crashes = 0 /\ overdue = 0

-----------------------------------------------------------------------------------
(* The buttons a toggle offers in each status.                                  *)
Offered(status) ==
  CASE status = "PENDING" -> {"BOARDED", "ABSENT"}
    [] status = "BOARDED" -> {"ALIGHTED"}
    [] OTHER              -> {}

(* markAttendance: show it at once, and queue it.                               *)
Tap(s, status) ==
  /\ taps < MaxTaps /\ status \in Offered(screen[s])
  /\ taps' = taps + 1
  /\ screen' = [screen EXCEPT ![s] = status]
  /\ offline' = Append(offline, [id |-> taps + 1, student |-> s, status |-> status])
  /\ UNCHANGED <<batch, awaited, emissions, wired, uplink, downlink, server,
                 breaks, crashes, overdue>>

(* The loop emits the first mark of its copy, or ends.                          *)
Proceed(rest) ==
  IF rest = <<>>
  THEN batch' = <<>> /\ awaited' = 0 /\ UNCHANGED <<emissions, uplink>>
  ELSE /\ batch' = rest
       /\ emissions' = emissions + 1 /\ awaited' = emissions + 1
       /\ uplink' = Append(uplink, [mark |-> Head(rest), n |-> emissions + 1])

(* flushQueue, called by the effect or by its interval.                         *)
StartFlush ==
  /\ awaited = 0 /\ wired /\ offline # <<>>
  /\ Proceed(offline)
  /\ UNCHANGED <<screen, offline, wired, downlink, server, taps, breaks, crashes, overdue>>

(* Accepted, duplicate or refused: the mark leaves the queue, which has no two  *)
(* marks of one event id.                                                       *)
Settled(ack) ==
  IF \E i \in DOMAIN offline : offline[i].id = ack.id
  THEN RemoveAt(offline, CHOOSE i \in DOMAIN offline : offline[i].id = ack.id)
  ELSE offline

(* The acknowledgement arrives. The change of the queue makes the effect run    *)
(* again: its cleanup stops the loop now or one mark later. One that the loop   *)
(* no longer waits for is ignored.                                              *)
AckArrives ==
  /\ wired /\ downlink # <<>>
  /\ downlink' = Tail(downlink)
  /\ IF Head(downlink).n = awaited
     THEN /\ offline' = Settled(Head(downlink))
          /\ \/ Proceed(Tail(batch))
             \/ Proceed(<<>>)
     ELSE UNCHANGED <<offline, batch, awaited, emissions, uplink>>
  /\ UNCHANGED <<screen, wired, server, taps, breaks, crashes, overdue>>

UnderWay(n) ==
  \/ \E i \in DOMAIN uplink : uplink[i].n = n
  \/ \E i \in DOMAIN downlink : downlink[i].n = n

(* MUTANT of GiveUp: the loop goes on with the mark after the one it lost.      *)
GiveUpOne == Proceed(Tail(batch))

GiveUp == Proceed(<<>>)

(* MUTANT of AckTimeout: the loop trusts the socket to deliver in the end.      *)
AckTimeoutOnline ==
  /\ awaited # 0 /\ wired /\ UnderWay(awaited)
  /\ overdue < MaxLate /\ overdue' = overdue + 1
  /\ GiveUp
  /\ UNCHANGED <<screen, offline, wired, downlink, server, taps, breaks, crashes>>

(* Five seconds without an acknowledgement.                                     *)
AckTimeout ==
  /\ awaited # 0
  /\ IF wired /\ UnderWay(awaited)
     THEN overdue < MaxLate /\ overdue' = overdue + 1
     ELSE UNCHANGED overdue
  /\ GiveUp
  /\ UNCHANGED <<screen, offline, wired, downlink, server, taps, breaks, crashes>>

-----------------------------------------------------------------------------------
LinkUp ==
  /\ ~wired /\ wired' = TRUE
  /\ UNCHANGED <<device, uplink, downlink, server, taps, breaks, crashes, overdue>>

Break == wired' = FALSE /\ uplink' = <<>> /\ downlink' = <<>>

LinkBreaks ==
  /\ wired /\ breaks < MaxBreaks
  /\ breaks' = breaks + 1
  /\ Break
  /\ UNCHANGED <<device, server, taps, crashes, overdue>>

(* The server's process restarts with empty caches.                             *)
ServerCrash ==
  /\ wired /\ crashes < MaxCrashes
  /\ crashes' = crashes + 1
  /\ Break
  /\ state' = [s \in Students |-> Unseen] /\ processed' = {}
  /\ UNCHANGED <<device, applied, taps, breaks, overdue>>

MayFollow(old, new) ==
  \/ old = new
  \/ old = "PENDING" /\ new \in {"BOARDED", "ABSENT"}
  \/ old = "BOARDED" /\ new = "ALIGHTED"

Acceptable(m) ==
  /\ m.id > state[m.student].at
  /\ MayFollow(state[m.student].status, m.status)

(* handleMarkAttendance.                                                        *)
HandleMark ==
  /\ wired /\ uplink # <<>>
  /\ uplink' = Tail(uplink)
  /\ LET m == Head(uplink).mark
         fresh == m.id \notin processed
         takes == fresh /\ Acceptable(m)
     IN /\ IF takes
           THEN /\ state' = [state EXCEPT ![m.student] = [status |-> m.status, at |-> m.id]]
                /\ processed' = processed \cup {m.id}
                /\ applied' = Append(applied, m)
           ELSE UNCHANGED server
        /\ downlink' = Append(downlink,
                         [id |-> m.id, ok |-> takes \/ ~fresh, n |-> Head(uplink).n])
  /\ UNCHANGED <<device, wired, taps, breaks, crashes, overdue>>

AtNext ==
  \/ \E s \in Students, status \in {"BOARDED", "ALIGHTED", "ABSENT"} : Tap(s, status)
  \/ StartFlush \/ AckArrives \/ AckTimeout
  \/ LinkUp \/ LinkBreaks \/ ServerCrash \/ HandleMark

(* The interval and the timers run, the socket reconnects, packets arrive.      *)
AtFairness ==
  /\ WF_atVars(StartFlush) /\ WF_atVars(AckArrives) /\ WF_atVars(AckTimeout)
  /\ WF_atVars(LinkUp) /\ WF_atVars(HandleMark)

AtSpec == AtInit /\ [][AtNext]_atVars /\ AtFairness

-----------------------------------------------------------------------------------
Status == {"PENDING", "BOARDED", "ALIGHTED", "ABSENT"}
Marks == [id : 1 .. MaxTaps, student : Students, status : Status]

(* TYPE. What every variable ranges over; the loop's copy shrinks with its      *)
(* acknowledgements and is empty while nothing is awaited.                      *)
AtTypeOK ==
  /\ screen \in [Students -> Status]
  /\ offline \in Seq(Marks) /\ batch \in Seq(Marks)
  /\ emissions \in Nat /\ awaited \in 0 .. emissions /\ (awaited = 0 <=> batch = <<>>)
  /\ wired \in BOOLEAN
  /\ uplink \in Seq([mark : Marks, n : 1 .. emissions])
  /\ downlink \in Seq([id : 1 .. MaxTaps, ok : BOOLEAN, n : 1 .. emissions])
  /\ state \in [Students -> [status : Status, at : 0 .. MaxTaps]]
  /\ processed \subseteq 1 .. MaxTaps /\ applied \in Seq(Marks)
  /\ taps \in 0 .. MaxTaps /\ breaks \in 0 .. MaxBreaks
  /\ crashes \in 0 .. MaxCrashes /\ overdue \in 0 .. MaxLate

(* SAFETY. As long as the server has kept its memory, a mark that has left the  *)
(* device's queue was applied exactly once, and with an empty queue the server  *)
(* has what the driver's screen shows: no loss, repetition or late arrival of a *)
(* mark or an acknowledgement leaves the two apart.                             *)
MarksSurviveTheLink ==
  crashes = 0 =>
    /\ \A n \in 1 .. taps :
         (\A i \in DOMAIN offline : offline[i].id # n) =>
           Cardinality({i \in DOMAIN applied : applied[i].id = n}) = 1
    /\ offline = <<>> => \A s \in Students : state[s].status = screen[s]

(* The marks that the server has yet to apply, as long as it remembers: the     *)
(* first of the queue may wait for nothing but its acknowledgement.             *)
Kept == crashes = 0
Due ==
  IF ~Kept THEN <<>>
  ELSE IF offline # <<>> /\ Head(offline).id \in processed THEN Tail(offline)
  ELSE offline
Roll == [s \in Students |-> IF Kept THEN state[s].status ELSE "PENDING"]

(* SAFETY. Up to the server's first restart the taps get onto its roll one by   *)
(* one in their order, each a legal move from what the roll had, whatever the   *)
(* flush loop repeats or gives up and the connection loses (RollCall).          *)
RollCall == INSTANCE RollCall WITH due <- Due, roll <- Roll, kept <- Kept
ImplementsRollCall == RollCall!Spec

(* LIVENESS. Every mark leaves the queue, also one that a restarted server      *)
(* refuses for ever.                                                            *)
MarksAreSettled ==
  \A n \in 1 .. MaxTaps :
    (\E i \in DOMAIN offline : offline[i].id = n) ~> (\A i \in DOMAIN offline : offline[i].id # n)
===================================================================================
