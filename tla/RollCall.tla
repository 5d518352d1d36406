-------------------------------- MODULE RollCall --------------------------------
(* What the driver's roll call promises: every tap is shown at once and entered  *)
(* on the server's roll exactly once, in the order of the taps. Only a restart   *)
(* of the server ends that promise, and nothing is said of the roll from then    *)
(* on. AttendanceSync, where a tap passes a queue, a flush loop and a connection *)
(* that loses and delays what is on it, is shown to implement it.                *)
EXTENDS Naturals, Sequences

CONSTANT Students

VARIABLES
  taps,     \* taps so far
  screen,   \* student -> status the toggle shows
  due,      \* the taps that are not on the roll yet, in order
  roll,     \* student -> status on the server
  kept      \* has the server kept its memory?

rollVars == <<taps, screen, due, roll, kept>>

Blank == [s \in Students |-> "PENDING"]

Init == taps = 0 /\ screen = Blank /\ due = <<>> /\ roll = Blank /\ kept = TRUE

(* A student is marked absent, or boards and then alights.                       *)
Leads(old, new) ==
  \/ old = "PENDING" /\ new \in {"BOARDED", "ABSENT"}
  \/ old = "BOARDED" /\ new = "ALIGHTED"

Mark(s, status) ==
  /\ Leads(screen[s], status)
  /\ taps' = taps + 1 /\ screen' = [screen EXCEPT ![s] = status]
  /\ due' = IF kept THEN Append(due, [id |-> taps + 1, student |-> s, status |-> status])
            ELSE due
  /\ UNCHANGED <<roll, kept>>

(* The first of the taps gets onto the roll, where it is a legal move too.       *)
Enter ==
  /\ kept /\ due # <<>>
  /\ Leads(roll[Head(due).student], Head(due).status)
  /\ roll' = [roll EXCEPT ![Head(due).student] = Head(due).status]
  /\ due' = Tail(due)
  /\ UNCHANGED <<taps, screen, kept>>

Restart ==
  /\ kept' = FALSE /\ roll' = Blank /\ due' = <<>>
  /\ UNCHANGED <<taps, screen>>

Next ==
  \/ \E s \in Students, status \in {"BOARDED", "ALIGHTED", "ABSENT"} : Mark(s, status)
  \/ Enter \/ Restart

Spec == Init /\ [][Next]_rollVars
=================================================================================
