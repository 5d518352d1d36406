------------------------------- MODULE TokenChain -------------------------------
(* What a device session promises: its refresh tokens form one chain.  Only    *)
(* the newest token can be exchanged, each exchange adds exactly one token,    *)
(* and a session that was ended stays ended.  AuthSession, where an exchange   *)
(* is several database calls of concurrent requests, is shown to implement it. *)
EXTENDS Naturals

CONSTANT Sessions

VARIABLES state,    \* session -> "unborn", "live" or "ended"
          length    \* session -> number of refresh tokens its row has held

chainVars == <<state, length>>

Init ==
  /\ state = [s \in Sessions |-> "unborn"]
  /\ length = [s \in Sessions |-> 0]

Open(s) ==
  /\ state[s] = "unborn"
  /\ state' = [state EXCEPT ![s] = "live"]
  /\ length' = [length EXCEPT ![s] = 1]

Exchange(s) ==
  /\ state[s] = "live"
  /\ length' = [length EXCEPT ![s] = @ + 1]
  /\ UNCHANGED state

End(s) ==
  /\ state[s] = "live"
  /\ state' = [state EXCEPT ![s] = "ended"]
  /\ UNCHANGED length

Next == \E s \in Sessions : Open(s) \/ Exchange(s) \/ End(s)

Spec == Init /\ [][Next]_chainVars
=================================================================================
