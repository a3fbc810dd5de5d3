----------------------------- MODULE ProxyPool ------------------------------
(***************************************************************************)
(* internal/proxypool: a pool of upstream proxies shared by every worker   *)
(* that dials.  DialContext picks a proxy under the mutex (acquire), dials *)
(* through it without the mutex, and gives the slot back (release) when    *)
(* the dial fails, when its context expires, or when the tracked           *)
(* connection it returned is closed for the first time.                    *)
(***************************************************************************)
EXTENDS Integers, FiniteSets

CONSTANTS
  Clients,     \* goroutines that dial through the pool, one at a time each
  NumProxies,  \* len(endpoints)
  Strategies,  \* the strategies of config.Strategy to consider
  MaxDials     \* bound on the dials of one behaviour

ASSUME ClientsAssumption    == IsFiniteSet(Clients)
ASSUME NumProxiesAssumption == NumProxies \in Nat \ {0}
ASSUME StrategiesAssumption ==
         Strategies \subseteq {"round_robin", "random", "least_connections"}
ASSUME MaxDialsAssumption   == MaxDials \in Nat

VARIABLES
  strategy, \* Pool.strategy
  next,    \* Pool.next
  active,  \* Pool.active
  pc,      \* where each client is in DialContext or with its connection
  proxy,   \* the index its dial acquired
  wire,    \* whether the underlying connection of the client is open
  once,    \* whether trackedConn.once has run
  uses     \* history: how often each proxy was selected

vars == <<strategy, next, active, pc, proxy, wire, once, uses>>

Proxies == 0..(NumProxies - 1)

PCs == {"idle", "dialing", "dialed", "failing", "open", "closing", "closed"}

Init ==
  /\ strategy \in Strategies
  /\ next = 0
  /\ active = [i \in Proxies |-> 0]
  /\ pc = [c \in Clients |-> "idle"]
  /\ proxy = [c \in Clients |-> 0]
  /\ wire = [c \in Clients |-> FALSE]
  /\ once = [c \in Clients |-> FALSE]
  /\ uses = [i \in Proxies |-> 0]

-----------------------------------------------------------------------------
(* Selection. *)

(* The candidate k places after next. *)
Candidate(k) == (next + k) % NumProxies

(* Mutant of Better: ties go to the later candidate. *)
BetterOrEqual(i, j) == active[i] <= active[j]

Better(i, j) == active[i] < active[j]

(* The loop of the least_connections case: index after offset k. *)
BestUpTo[k \in Proxies] ==
  IF k = 0 THEN next
  ELSE IF Better(Candidate(k), BestUpTo[k - 1])
       THEN Candidate(k)
       ELSE BestUpTo[k - 1]

Selects(i) ==
  CASE strategy = "random"            -> TRUE
    [] strategy = "least_connections" -> i = BestUpTo[NumProxies - 1]
    [] strategy = "round_robin"       -> i = next

(* Mutant of Acquire: next stays where it is. *)
AcquireStuck(c) ==
  /\ pc[c] \in {"idle", "closed"}
  /\ \E i \in Proxies :
       /\ uses[i] < MaxDials
       /\ Selects(i)
       /\ active' = [active EXCEPT ![i] = @ + 1]
       /\ proxy' = [proxy EXCEPT ![c] = i]
       /\ uses' = [uses EXCEPT ![i] = @ + 1]
  /\ pc' = [pc EXCEPT ![c] = "dialing"]
  /\ once' = [once EXCEPT ![c] = FALSE]
  /\ UNCHANGED <<strategy, next, wire>>

Acquire(c) ==
  /\ pc[c] \in {"idle", "closed"}
  /\ \E i \in Proxies :
       /\ uses[i] < MaxDials
       /\ Selects(i)
       /\ next' = IF strategy = "random" THEN next ELSE (i + 1) % NumProxies
       /\ active' = [active EXCEPT ![i] = @ + 1]
       /\ proxy' = [proxy EXCEPT ![c] = i]
       /\ uses' = [uses EXCEPT ![i] = @ + 1]
  /\ pc' = [pc EXCEPT ![c] = "dialing"]
  /\ once' = [once EXCEPT ![c] = FALSE]
  /\ UNCHANGED <<strategy, wire>>

-----------------------------------------------------------------------------
(* The dial and the connection. *)

Goto(c, label) == pc' = [pc EXCEPT ![c] = label]

(* endpoint.dialContext returns an error, having closed what it opened. *)
DialFail(c) ==
  /\ pc[c] = "dialing"
  /\ Goto(c, "failing")
  /\ UNCHANGED <<strategy, next, active, proxy, wire, once, uses>>

DialOpen(c) ==
  /\ pc[c] = "dialing"
  /\ wire' = [wire EXCEPT ![c] = TRUE]
  /\ Goto(c, "dialed")
  /\ UNCHANGED <<strategy, next, active, proxy, once, uses>>

(* Mutant of DialExpired: the connection is not closed. *)
DialExpiredNoClose(c) ==
  /\ pc[c] = "dialed"
  /\ Goto(c, "failing")
  /\ UNCHANGED <<strategy, next, active, proxy, wire, once, uses>>

(* dialContext.Err() is set although the dial succeeded. *)
DialExpired(c) ==
  /\ pc[c] = "dialed"
  /\ wire' = [wire EXCEPT ![c] = FALSE]
  /\ Goto(c, "failing")
  /\ UNCHANGED <<strategy, next, active, proxy, once, uses>>

DialReturn(c) ==
  /\ pc[c] = "dialed"
  /\ Goto(c, "open")
  /\ UNCHANGED <<strategy, next, active, proxy, wire, once, uses>>

(* release, with its guard *)
GiveBack(i) ==
  active' = IF active[i] > 0 THEN [active EXCEPT ![i] = @ - 1] ELSE active

ReleaseFailed(c) ==
  /\ pc[c] = "failing"
  /\ GiveBack(proxy[c])
  /\ Goto(c, "idle")
  /\ UNCHANGED <<strategy, next, proxy, wire, once, uses>>

(* trackedConn.Close, which a caller may call again: the connection is     *)
(* closed first, then once.Do(release).                                    *)
Close(c) ==
  /\ pc[c] \in {"open", "closed"}
  /\ wire' = [wire EXCEPT ![c] = FALSE]
  /\ Goto(c, "closing")
  /\ UNCHANGED <<strategy, next, active, proxy, once, uses>>

(* Mutant of ReleaseOnce: no sync.Once. *)
ReleaseAlways(c) ==
  /\ pc[c] = "closing"
  /\ GiveBack(proxy[c])
  /\ once' = [once EXCEPT ![c] = TRUE]
  /\ Goto(c, "closed")
  /\ UNCHANGED <<strategy, next, proxy, wire, uses>>

ReleaseOnce(c) ==
  /\ pc[c] = "closing"
  /\ IF once[c] THEN UNCHANGED active ELSE GiveBack(proxy[c])
  /\ once' = [once EXCEPT ![c] = TRUE]
  /\ Goto(c, "closed")
  /\ UNCHANGED <<strategy, next, proxy, wire, uses>>

ClientNext(c) ==
  \/ Acquire(c) \/ DialFail(c) \/ DialOpen(c) \/ DialExpired(c)
  \/ DialReturn(c) \/ ReleaseFailed(c) \/ Close(c) \/ ReleaseOnce(c)

Next == \E c \in Clients : ClientNext(c)

Spec == Init /\ [][Next]_vars

-----------------------------------------------------------------------------

TypeOK ==
  /\ strategy \in Strategies
  /\ next \in Proxies
  /\ active \in [Proxies -> Nat]
  /\ pc \in [Clients -> PCs]
  /\ proxy \in [Clients -> Proxies]
  /\ wire \in [Clients -> BOOLEAN]
  /\ once \in [Clients -> BOOLEAN]
  /\ uses \in [Proxies -> Nat]

(* A client occupies a slot from acquire until its release has run. *)
Occupies(c) ==
  \/ pc[c] \in {"dialing", "dialed", "failing", "open"}
  \/ pc[c] = "closing" /\ ~once[c]

Occupants(i) == {c \in Clients : Occupies(c) /\ proxy[c] = i}

(* The load that least_connections compares is exact: each proxy's active  *)
(* count is the number of dials in progress and connections not closed,    *)
(* through failures, expiries and repeated closes.  So no slot leaks, none *)
(* is returned twice, and the guard of release never hides a mistake.      *)
ActiveExact == \A i \in Proxies : active[i] = Cardinality(Occupants(i))

(* An open network connection is always counted against its proxy: the     *)
(* slot is given back after the connection is closed, never before.        *)
WireCounted == \A c \in Clients : wire[c] => Occupies(c)

(* round_robin is fair at every moment: no proxy was selected more than    *)
(* one time more than another, whatever the dials came to.                 *)
RoundRobinFair ==
  strategy = "round_robin" =>
    \A i, j \in Proxies : uses[i] - uses[j] <= 1

(* The first of the least loaded proxies, seen from next. *)
FirstLeastLoaded(i) ==
  \E k \in Proxies :
    /\ i = Candidate(k)
    /\ \A j \in Proxies : active[i] <= active[j]
    /\ \A j \in 0..(k - 1) : active[i] < active[Candidate(j)]

(* least_connections gives every dial to a proxy with the fewest dials and *)
(* connections at that moment, and rotates among equals.                   *)
DialsGoToLeast ==
  [][\A i \in Proxies :
       strategy = "least_connections" /\ active'[i] > active[i] =>
         FirstLeastLoaded(i)]_vars

-----------------------------------------------------------------------------
(* What the proofs need besides. *)

(* The state of a connection, label by label. *)
ConnInv ==
  \A c \in Clients :
    /\ wire[c] <=> pc[c] \in {"dialed", "open"}
    /\ pc[c] \in {"dialing", "dialed", "failing", "open"} => ~once[c]
    /\ pc[c] = "closed" => once[c]

(* Under round_robin the proxies before next are one selection ahead.      *)
RoundInv ==
  strategy = "round_robin" =>
    \A i \in Proxies :
      uses[i] = uses[NumProxies - 1] + (IF i < next THEN 1 ELSE 0)

PoolInv == ConnInv /\ ActiveExact /\ RoundInv
=============================================================================
