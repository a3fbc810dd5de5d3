------------------------------ MODULE ReverseDNS ------------------------------
(***************************************************************************)
(* internal/reversedns: Resolve looks up the targets that are IP literals. *)
(* All jobs are put into a channel that is closed before the workers       *)
(* start; each worker sends its results, with their index, on a channel    *)
(* that has room for all of them, and Resolve orders them after the last   *)
(* worker has left.  resolveHostnames turns them into a map by target.     *)
(***************************************************************************)
EXTENDS Integers, Sequences, FiniteSets

CONSTANTS
  NumTargets,  \* len(targets)
  Addresses,   \* the targets that netip.ParseAddr accepts
  NumWorkers,  \* config.Workers
  Names        \* lists of names a lookup can answer, with Blank for a blank one

ASSUME NumTargetsAssumption == NumTargets \in Nat
ASSUME AddressesAssumption  == Addresses \subseteq 1..NumTargets
ASSUME NumWorkersAssumption == NumWorkers \in Nat \ {0}
ASSUME NamesAssumption      == Names \subseteq Seq(STRING)

VARIABLES
  cancelled,  \* ctx.Err() # nil
  stage,      \* Resolve: "running", then "returned" results or "failed"
  taken,      \* jobs received from jobQueue
  pc,         \* each worker: "select", "lookup", "done"
  job,        \* the index of the worker's job
  queue,      \* everything sent on resultQueue
  results,    \* what Resolve returns
  answers     \* history: the answer to each lookup

vars == <<cancelled, stage, taken, pc, job, queue, results, answers>>

(* The loop over targets that builds jobs: names are left out, so the k-th *)
(* job is the address up to which there are k addresses.                   *)
UpTo(t) == Cardinality({a \in Addresses : a <= t})
NumJobs == Cardinality(Addresses)
Jobs    == [k \in 1..NumJobs |-> CHOOSE t \in Addresses : UpTo(t) = k]

JobIds    == 1..NumJobs
Cap       == IF NumWorkers > NumJobs THEN NumJobs ELSE NumWorkers
WorkerIds == 1..Cap

Answers == {[err |-> TRUE, names |-> <<>>]}
           \cup {[err |-> FALSE, names |-> names] : names \in Names}

(* A name of which nothing is left without the space around it and without *)
(* a dot at its end; and the hostname of a result that has none.           *)
Blank == "(blank)"

(* The first name that is not blank. *)
FirstHost(names) ==
  LET hosts == {k \in DOMAIN names : names[k] # Blank}
  IN  IF hosts = {} THEN Blank
      ELSE names[CHOOSE k \in hosts : \A n \in hosts : k <= n]

(* resolveOne: the error of the lookup, ErrNoHostname or a hostname *)
ResolveOne(target, answer) ==
  LET host == FirstHost(answer.names)
  IN  [target |-> target,
       host   |-> host,
       err    |-> IF answer.err THEN "lookup"
                  ELSE IF host = Blank THEN "no_hostname" ELSE "none"]

NoResult == [target |-> 0, host |-> Blank, err |-> "none"]

Init ==
  /\ cancelled = FALSE
  /\ stage = "running"
  /\ taken = 0
  /\ pc = [w \in WorkerIds |-> "select"]
  /\ job = [w \in WorkerIds |-> 1]
  /\ queue = <<>>
  /\ results = <<>>
  /\ answers = {}

Cancel ==
  /\ ~cancelled
  /\ cancelled' = TRUE
  /\ UNCHANGED <<stage, taken, pc, job, queue, results, answers>>

-----------------------------------------------------------------------------

Goto(w, label) == pc' = [pc EXCEPT ![w] = label]

(* case item, open := <-jobQueue, with open *)
Take(w) ==
  /\ pc[w] = "select"
  /\ taken < NumJobs
  /\ taken' = taken + 1
  /\ job' = [job EXCEPT ![w] = taken + 1]
  /\ Goto(w, "lookup")
  /\ UNCHANGED <<cancelled, stage, queue, results, answers>>

(* The same with !open, or case <-ctx.Done() *)
Leave(w) ==
  /\ pc[w] = "select"
  /\ taken = NumJobs \/ cancelled
  /\ Goto(w, "done")
  /\ UNCHANGED <<cancelled, stage, taken, job, queue, results, answers>>

HasRoom == Len(queue) < NumJobs

(* Mutant of Deliver: the results are numbered as they arrive. *)
DeliverInArrivalOrder(w, answer) ==
  queue' = Append(queue, [index  |-> Len(queue) + 1,
                          result |-> ResolveOne(Jobs[job[w]], answer)])

(* resultQueue <- indexedResult{...} *)
Deliver(w, answer) ==
  queue' = Append(queue, [index  |-> job[w],
                          result |-> ResolveOne(Jobs[job[w]], answer)])

(* resolveOne, and the send of its result, which waits for room.  The      *)
(* lookup ends with the names of the address or with an error, which may   *)
(* be that of the cancelled context or of lookup.timeout.                  *)
Lookup(w) ==
  /\ pc[w] = "lookup"
  /\ HasRoom
  /\ \E answer \in Answers :
       /\ Deliver(w, answer)
       /\ answers' = answers \cup {[job |-> job[w], answer |-> answer]}
  /\ Goto(w, "select")
  /\ UNCHANGED <<cancelled, stage, taken, job, results>>

WorkerNext(w) == Take(w) \/ Leave(w) \/ Lookup(w)

(* Mutant of Return: the context is not looked at. *)
ReturnAnyway ==
  /\ stage = "running"
  /\ \A w \in WorkerIds : pc[w] = "done"
  /\ stage' = "returned"
  /\ results' = [i \in JobIds |->
       LET sent == {k \in DOMAIN queue : queue[k].index = i}
       IN  IF sent = {} THEN NoResult
           ELSE queue[CHOOSE k \in sent : TRUE].result]
  /\ UNCHANGED <<cancelled, taken, pc, job, queue, answers>>

(* After workers.Wait(): the error of the context, or the results put in   *)
(* order.  The same holds without any job, when no worker was started.     *)
Return ==
  /\ stage = "running"
  /\ \A w \in WorkerIds : pc[w] = "done"
  /\ IF cancelled
     THEN stage' = "failed" /\ UNCHANGED results
     ELSE /\ stage' = "returned"
          /\ results' = [i \in JobIds |->
               LET sent == {k \in DOMAIN queue : queue[k].index = i}
               IN  IF sent = {} THEN NoResult
                   ELSE queue[CHOOSE k \in sent : \A n \in sent : n <= k].result]
  /\ UNCHANGED <<cancelled, taken, pc, job, queue, answers>>

(* resolveHostnames: the failures are left out of the map. *)
Resolved  == {i \in DOMAIN results : results[i].err = "none"}
Hostnames == [t \in {results[i].target : i \in Resolved} |->
               results[CHOOSE i \in Resolved : results[i].target = t].host]

Ended == stage # "running"

Next ==
  \/ \E w \in WorkerIds : WorkerNext(w)
  \/ Return
  \/ Cancel
  \/ Ended /\ UNCHANGED vars

Spec == Init /\ [][Next]_vars

(* Every lookup is bounded by reverse_dns.timeout. *)
FairSpec ==
  Spec /\ WF_vars(Return) /\ \A w \in WorkerIds : WF_vars(WorkerNext(w))

-----------------------------------------------------------------------------

Hosts   == {Blank} \cup UNION {{names[k] : k \in DOMAIN names} : names \in Names}
Results == [target : 0..NumTargets, host : Hosts,
            err : {"none", "lookup", "no_hostname"}]

TypeOK ==
  /\ cancelled \in BOOLEAN
  /\ stage \in {"running", "returned", "failed"}
  /\ taken \in 0..NumJobs
  /\ pc \in [WorkerIds -> {"select", "lookup", "done"}]
  /\ job \in [WorkerIds -> JobIds]
  /\ queue \in Seq([index : JobIds, result : Results])
  /\ results \in Seq(Results)
  /\ answers \subseteq [job : JobIds, answer : Answers]

(* In whatever order the answers came, the results are in the order of the *)
(* targets, and the map of hostnames holds exactly the addresses whose own *)
(* lookup found a name, with that name.                                    *)
HostnamesAreOwn ==
  stage = "returned" =>
    /\ Len(results) = NumJobs
    /\ \A i \in JobIds : results[i].target = Jobs[i]
    /\ \A a \in answers :
         LET t == Jobs[a.job]
             found == ~a.answer.err
                      /\ \E k \in DOMAIN a.answer.names : a.answer.names[k] # Blank
         IN  /\ t \in Addresses
             /\ (t \in DOMAIN Hostnames) <=> found
             /\ found => \E k \in DOMAIN a.answer.names :
                  /\ Hostnames[t] = a.answer.names[k] /\ Hostnames[t] # Blank
                  /\ \A n \in 1..(k - 1) : a.answer.names[n] = Blank
    /\ DOMAIN Hostnames \subseteq {Jobs[a.job] : a \in answers}

(* Resolve implements the ordered concurrent map: it succeeds only with a  *)
(* result for every address under a live context, fails only because of    *)
(* the context, and always returns.                                        *)
Decided == {queue[k].index : k \in DOMAIN queue}
Pool == INSTANCE IndexedPool WITH
          Items <- JobIds, decided <- Decided, outcome <- stage
PoolContract == Pool!FairSpec
=============================================================================
