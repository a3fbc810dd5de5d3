--------------------------- MODULE ReportDocument ---------------------------
(***************************************************************************)
(* The report of a run as a value: how run builds it                       *)
(* (cmd/go-port-scanner/reporting.go), how only_working filters it         *)
(* (internal/report/filter.go) and in which order it is written            *)
(* (normalize in internal/report/report.go).  Texts and durations are left *)
(* out.  A probe is "ok" or "failed".                                      *)
(***************************************************************************)
EXTENDS Integers, Sequences, FiniteSets

(* One row for each target that was requested, in this order. *)
DiscoveryRows(requested, alive, hostnames) ==
  [i \in DOMAIN requested |->
     [target    |-> requested[i],
      available |-> requested[i] \in alive,
      named     |-> requested[i] \in hostnames]]

OpenRows(openEvents, hostnames) ==
  [i \in DOMAIN openEvents |->
     [target |-> openEvents[i].target,
      port   |-> openEvents[i].port,
      probes |-> openEvents[i].probes,
      named  |-> openEvents[i].target \in hostnames]]

(* The part of a sequence at some positions, which are put in the order    *)
(* given: the k-th is the one with k - 1 others before it.                 *)
Arranged(sequence, positions, before) ==
  LET Earlier(i) == {j \in positions : <<j, i>> \in before}
  IN  [k \in 1..Cardinality(positions) |->
         sequence[CHOOSE i \in positions : Cardinality(Earlier(i)) = k - 1]]

(* A loop that appends the elements at these positions to another slice. *)
Keep(sequence, positions) ==
  Arranged(sequence, positions,
           {p \in positions \X positions : p[1] < p[2]})

-----------------------------------------------------------------------------
(* FilterWorking *)

TargetsOf(rows) == {rows[i].target : i \in DOMAIN rows}

KeepTargets(targets, working) ==
  Keep(targets, {i \in DOMAIN targets : targets[i] \in working})

WorkingProbes(row) ==
  [row EXCEPT !.probes = Keep(@, {i \in DOMAIN @ : @[i] = "ok"})]

(* Mutant of FilterWorking: an open port is dropped if no handshake with  *)
(* it worked.                                                              *)
FilterWorkingHandshakes(document) ==
  [document EXCEPT
     !.open = Keep(@, {i \in DOMAIN @ : WorkingProbes(@[i]).probes # <<>>})]

FilterWorking(document) ==
  LET found     == document.discovery
      discovery == Keep(found, {i \in DOMAIN found : found[i].available})
      open      == [i \in DOMAIN document.open |->
                      WorkingProbes(document.open[i])]
      working   == TargetsOf(discovery) \cup TargetsOf(open)
  IN  [document EXCEPT
         !.discovery = discovery,
         !.open      = open,
         !.requested = KeepTargets(@, working),
         !.scanned   = KeepTargets(@, working),
         !.summary   = [total |-> Len(open), completed |-> Len(open),
                        open |-> Len(open), closed |-> 0]]

-----------------------------------------------------------------------------
(* normalize *)

Rank(document, target) ==
  LET scanned == document.scanned
      places  == {i \in DOMAIN scanned : scanned[i] = target}
  IN  IF places = {} THEN Len(scanned) + 1 ELSE CHOOSE i \in places : TRUE

(* Open ports are written in the order of the targets, then of the ports;  *)
(* those that are alike in both stay as they are.                          *)
Normalize(document) ==
  LET rows  == document.open
      Precedes(i, j) ==
        LET left == Rank(document, rows[i].target)
            right == Rank(document, rows[j].target)
        IN  \/ left < right
            \/ left = right /\ rows[i].port < rows[j].port
            \/ left = right /\ rows[i].port = rows[j].port /\ i < j
  IN  [document EXCEPT !.open =
         Arranged(rows, DOMAIN rows,
                  {p \in (DOMAIN rows) \X (DOMAIN rows) : Precedes(p[1], p[2])})]
=============================================================================
