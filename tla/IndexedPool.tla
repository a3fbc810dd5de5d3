----------------------------- MODULE IndexedPool -----------------------------
(***************************************************************************)
(* What discovery.Discover and reversedns.Lookup.Resolve have in common:   *)
(* an ordered map over Items by concurrent workers under one context.      *)
(* Each item is decided once.  The call either succeeds with the decision  *)
(* of every item, under a context that is still alive, or it fails because *)
(* of the context.  It does not run forever.                               *)
(***************************************************************************)
CONSTANT Items

VARIABLES
  cancelled,  \* ctx.Err() # nil
  decided,    \* the items that have a result
  outcome     \* "running", "returned" or "failed"

vars == <<cancelled, decided, outcome>>

Init ==
  /\ cancelled = FALSE
  /\ decided = {}
  /\ outcome = "running"

Cancel ==
  /\ ~cancelled
  /\ cancelled' = TRUE
  /\ UNCHANGED <<decided, outcome>>

Decide(i) ==
  /\ outcome = "running"
  /\ i \notin decided
  /\ decided' = decided \cup {i}
  /\ UNCHANGED <<cancelled, outcome>>

Succeed ==
  /\ outcome = "running"
  /\ ~cancelled
  /\ decided = Items
  /\ outcome' = "returned"
  /\ UNCHANGED <<cancelled, decided>>

Fail ==
  /\ outcome = "running"
  /\ cancelled
  /\ outcome' = "failed"
  /\ UNCHANGED <<cancelled, decided>>

Progress == (\E i \in Items : Decide(i)) \/ Succeed \/ Fail

Next == Progress \/ Cancel

Spec == Init /\ [][Next]_vars
FairSpec == Spec /\ WF_vars(Progress)
=============================================================================
