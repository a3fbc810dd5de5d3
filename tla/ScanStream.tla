----------------------------- MODULE ScanStream -----------------------------
(***************************************************************************)
(* What a scan promises to the program that consumes it, with no channels, *)
(* workers or connections: every check is announced, then concluded, at    *)
(* most once each and in that order; the scan may stop short only when its *)
(* context was cancelled, and then it says so.                             *)
(***************************************************************************)
CONSTANTS Checks

VARIABLES
  state,      \* what the consumer knows of each check
  cancelled,  \* the context is cancelled
  outcome     \* "running", or how the scan ended

vars == <<state, cancelled, outcome>>

Concluded(c) == state[c] \in {"open", "closed"}

Init ==
  /\ state = [c \in Checks |-> "pending"]
  /\ cancelled = FALSE
  /\ outcome = "running"

Announce(c) ==
  /\ outcome = "running"
  /\ state[c] = "pending"
  /\ state' = [state EXCEPT ![c] = "checking"]
  /\ UNCHANGED <<cancelled, outcome>>

Conclude(c) ==
  /\ outcome = "running"
  /\ state[c] = "checking"
  /\ \E verdict \in {"open", "closed"} :
       state' = [state EXCEPT ![c] = verdict]
  /\ UNCHANGED <<cancelled, outcome>>

Cancel ==
  /\ ~cancelled
  /\ cancelled' = TRUE
  /\ UNCHANGED <<state, outcome>>

Complete ==
  /\ outcome = "running"
  /\ ~cancelled
  /\ \A c \in Checks : Concluded(c)
  /\ outcome' = "completed"
  /\ UNCHANGED <<state, cancelled>>

Interrupt ==
  /\ outcome = "running"
  /\ cancelled
  /\ outcome' = "interrupted"
  /\ UNCHANGED <<state, cancelled>>

Next ==
  \/ \E c \in Checks : Announce(c) \/ Conclude(c)
  \/ Cancel \/ Complete \/ Interrupt

Spec == Init /\ [][Next]_vars
=============================================================================
