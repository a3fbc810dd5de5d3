# go_port_scanner: verification project

TLA+ models of `go_port_scanner`, the TLC runs that check them on small
instances, and TLAPS proofs of their main properties for every instance.
`scanner.go` stands for `internal/scanner/scanner.go`, `pool.go` for
`internal/proxypool/pool.go`, `main.go`, `stats.go`, `reporting.go` and
`log_output.go` for the files of `cmd/go-port-scanner`, and so on.

## The system

The program expands its targets and ports, optionally resolves PTR names and
filters unreachable hosts, then runs a concurrent TCP connect scan with optional
protocol handshakes, and finally writes a report. One context, cancelled by a
signal or by `scan_timeout`, spans all network stages. A logger, perhaps with a
log file, accompanies the run.

    options, file --> targets, ports, handshakes per port   (Preparation)
                  |
    run: reverse DNS --> discovery --> scan --> status --> report   (Pipeline)
            |               |            |
        ReverseDNS      Discovery     Scanner --events--> event loop (ScanRun)
                            |            |
                         IcmpPing     one check (ProbeRun):
                                        dial, maybe by a proxy pool (ProxyPool, Tunnel)
                                        handshake (Protocols, DnsName)

| Component | State | Operations | What makes it correct |
| --- | --- | --- | --- |
| `internal/cli`, `internal/config`, `loadConfig`, `probe.NewRegistry` | options, configuration, lists and sets of what was seen | `Parse`, `Load`, `Decode`, `Validate`, `ExpandedTargets`, `expandPortRanges`, `NewRegistry` | every check that was asked for, once, with the settings asked for; bounded expansion; each port its handshakes, once |
| `internal/scanner` | two bounded channels, `W` workers, a feeder | `Scan`, `sendTargets`, `worker`, `runProbes`, `emit` | every check announced and concluded once and in this order, nothing lost, no partial result, no leaked connection, always stops |
| `cmd`: event loop, `stats` | statistics, open events, status | `observe`, status | the summary adds up; *completed* means complete |
| `cmd`: `run`, `reporting`, `log_output`, `internal/logging` | destinations, log file, sticky error | validation, stages, report, deferred function | no file is mixed or left open; the exit status can be trusted |
| `internal/report` | a document | `FilterWorking`, `normalize`, `WriteDestination` | a filtered report is consistent |
| `internal/proxypool` | `next`, `active`, tracked connections, a watcher per dial | `acquire`, `release`, `DialContext`, `Close` | exact slot accounting under every interleaving; fair or least-loaded selection; one closer per connection |
| `internal/discovery` | job channel, shared results | `Discover`, `check`, `checkTCP`, `checkICMP` | results whole and in order; alive only with evidence, dead only after every attempt |
| `internal/discovery/icmp` | sequence counter, sockets | `Ping`, `pingAddress`, `open` | replies matched to requests; no socket left |
| `internal/reversedns` | job queue, result queue | `Resolve`, `resolveOne` | each address its own name |
| `internal/probe` | a deadline, a function that waits for the context, buffers, a reader | `Run`, 31 handshakes, the parser of DNS records | cancellation wins and is never taken for a failure; a silent server is left in time; no look outside a buffer; TLS as agreed |
| `output`, `version` | - | text | - |

What is hard here: the interleavings of workers, feeder, consumer and
cancellation; error paths that must give back a connection, a slot, a socket, a
file or a goroutine; functions that `context.AfterFunc` starts concurrently with
the code that stops them; errors whose cause is read out of a wrapped chain; the
race between a network deadline and the timer of the context it was taken from;
lengths and pointers that a server declares; and expansion loops that must end at
the last address. The `hazards` of
`PROJECT.json` list them line by line.

## Modules

| Module | Models | Role |
| --- | --- | --- |
| `Preparation` | `options.go`, `loadConfig`, `targets.go`, `config.go`, `probe.NewRegistry` | from the command line to the checks |
| `Scanner` | `scanner.go` | core: feeder, workers, channels, context |
| `ScanStream` | - | abstract contract of a scan |
| `ScanRun` | the scan stage of `run`, `stats.go` | extends `Scanner`, refines `ScanStream` |
| `ProxyPool` | `pool.go`: selection and accounting | many clients, one pool |
| `Tunnel` | `pool.go`: one dial, its watcher and its CONNECT exchange | one connection, three parties |
| `DnsName` | `dns.go`: records and compressed names | one loop iteration per action |
| `Protocols` | every probe of `internal/probe` | extends `DnsName`; the conversations as sequences of turns |
| `ProbeRun` | `Registry.Run` and one iteration of `runProbes` | extends `Tunnel` and `Protocols`, implements steps of `Scanner` |
| `IndexedPool` | - | abstract contract of an ordered concurrent map |
| `Discovery` | `discovery.go` | refines `IndexedPool` |
| `IcmpPing` | `icmp.go` | concurrent pings, kernel and network |
| `ReverseDNS` | `reversedns.go`, `reverse_dns.go` | refines `IndexedPool` |
| `ReportDocument` | `filter.go`, `normalize`, rows of `reporting.go` | operators on documents |
| `Pipeline` | `run` as a whole, `log_output.go`, `logger.go`, `WriteDestination` | extends `ReportDocument`, composes the stages |
| `*Proofs` | - | theorems about the module they are named after |
| `MC*` | - | values of constants for TLC |

Operators whose comment begins with *Mutant* are not part of a model: each is
the form a plausible bug would give the definition it precedes, and each
property of a passing run is violated when one of them takes the place of its
original.

### Preparation

`Parse` is `cli.Parse`, given what the flag package makes of the arguments, with
the ways out of `run` that follow it (help, usage, version). `LoadFile` is `Load`
with `Decode`; what the YAML decoder makes of a file is its `settings`. `Merge` is
`loadConfig`. A file that is not empty is validated twice, as in the code: before
the options are put over it and after (`pass`).

`ValidateTargets`, `StartEntry`, `Visit` and `ValidatePorts` are the code's
order: `Validate` expands the targets before it looks at the ports. `Visit` is
one call of the closure `add` with the loop step that follows it. An address is
a number in its family; `Successor` gives the invalid address after the last
one, as `netip.Addr.Next` does, so both loops can be seen to end there. The
ports of the scan are expanded by the two loops of `ExpandedPorts`: `StartRange`
takes the next range, `VisitPort` one of its ports, `PortsExpanded` ends. The ports
of a handshake go through the same loops (`StartProbeRange`, `VisitProbePort`), with
`seen` for the set that `expandPortRanges` keeps, and `NextDefinition` goes on to the
next entry of `probes`. `NewRegistry` appends to the lists of a port in the order of
the loop, so it is part of `VisitProbePort`: `byPort` has what is appended so far.
`run` calls `ExpandedTargets` a second time with the same result, which is left out.
Hostnames are compared as written, so `A.example` and `a.example` are two
targets, as in the code.

### Scanner

`config` is the configuration of the scan: the number of workers and whether
there is a `scan_timeout`. It is one of `Configs` and never changes; being a
variable, it lets one run take a scan that fills its channels and one whose
workers interleave.

`FeederSend`, `FeederReturn` and `CloseEvents` are the goroutine of `Scan`.
`targets` is the interval `taken+1..sent`, because checks are numbered in the
order of the two loops of `sendTargets`. `events` is the sequence `log` of all
events with the number `read` received, so the buffer is `log[read+1..]`. Each
`select` is a choice between enabled actions: `Take`, `Drained` and `Abandon`
for the loop of a worker, `EmitChecking`/`EmitVerdict` and `Abandon` for `emit`.
A dial and the check of `ctx.Err()` right after its failure are one step,
because nothing but the value of `ctx.Err()` at the second moment is visible to
others. `Registry.Run` is one step that ends in `ok`, `failed` or, when the
context is cancelled, `interrupted`.

`expired` is the moment at which the deadline of the context passes; from then
on dials and handshakes may fail with a network timeout (`cut`), whether or not
`ctx.Err()` is set yet. `cancelled` is `ctx.Err() # nil`. Durations, the error
of closing a connection (it only ends up in a line of the log and in a text of
the report) and names are left out.

### ScanRun and ScanStream

`Observe` is one iteration of the event loop with `scanStats.observe` and the
append to `openEvents`; `StreamClosed` and `ReadStatus` are separate steps, as
in the code, so that a cancellation can fall between them. The progress ticker
only reads the statistics and is a stuttering step. `ScanStream` has one state
per check (`pending`, `checking`, `open`, `closed`), and the run implements it
with the events received so far (`SeenState`).

### ProxyPool and Tunnel

`ProxyPool` has one action per mutex section (`Acquire`, `ReleaseFailed`,
`ReleaseOnce`) and per step outside it. `wire` is the state of the network
connection, `once` the `sync.Once` of `trackedConn`. `BestUpTo` is the loop of
`least_connections`. The strategy is chosen in the initial state and never
changes. Clients are interchangeable, so TLC uses their symmetry; proxies are
not, because selection looks at their order.

`Tunnel` opens up one dial of the pool: connect, perhaps TLS, write, read, then
`Stop` of the watcher and the decision who closes. The watcher is the function
given to `AfterFunc`; it may have started when `stop` is called, and then the
dialer waits for its result. `reply` is what a proxy, possibly silent, answers;
`late` the deadline of the dial. After `Return` the client owns the connection.

### DnsName, Protocols and ProbeRun

`DnsName` has the variables of `validateDNSResourceRecords` and `dnsNameEnd`, with
offsets from 0, and one action per branch of their loops. `furthest` and `steps`
remember how far it has looked and how often the loop ran. `GoodMessage` says what
a well-formed message is without an offset that moves: from the places that the
hops over labels and pointers reach (`Reached`), whether one of them is an end
(`GoodName`), how many bytes their labels take (`LabelBytes`) and where the bytes of
the name end in the record (`NameBytesEnd`).

`Protocols` gives each handshake the set of conversations that end in its
recognition: the turns (write, TLS handshake, lines, fixed size, declared length,
rest of a declared length, DNS records), each through the clear or the TLS
connection. Contents are abstracted: at every turn the server may say something
else, and the handshake fails (`Disappoint`). Lengths are not: `Field` has the
limits of the code and the range of its field, `Rest` what is subtracted from the
length and which bytes are looked at.

`ProbeRun` runs one check: the actions of `Tunnel` for the dial, then `Registry.Run`.
`SetLimit`, `ArmCanceller`, the turns, `StopCanceller`, `ResetLimit` and
`LookAtContext` are its statements. The canceller is the function given to
`AfterFunc`; it may start before `stopCancellation` and put the deadline to the
present after `Run` has reset it, because `stopCancellation` does not wait. `expired`
is the deadline of the scan, `timeUp` that of the probe; both act on the
connection only. The context of the dial is a child of the scan's, so `End` of
`Tunnel` may come at any time. `secure` is what both sides agreed on, `secured`
what was done; `buffered` is whether a `bufio.Reader` holds bytes that were not
asked for. After the check the deadline no longer matters to anybody, as the
connection is closed.

### Discovery, ReverseDNS and IndexedPool

`SendJob`, `CloseJobs`, `Return` are `Discover`; a worker takes a job and makes
one attempt per step. The network's answers are chosen by the environment;
`heard` remembers which targets answered and `tried` what was attempted. With
`Proxied` the outcomes are those a proxy pool can return. `ReverseDNS` closes
its job queue before the workers start and lets the results arrive in any order;
`Return` puts them in order. Both implement `IndexedPool`: every item is decided
once, success needs all of them and a live context, failure needs a cancelled
one, and the call returns. A job of `ReverseDNS` is the k-th address of the targets
(`Jobs`), and a name that an answer holds may be blank (`Blank`), which
`resolveOne` passes over.

### IcmpPing

One `pc` per concurrent call of `Ping`; `Open`, `Send`, `Read` and the way from
one address to the next are actions, and `requests` is the network. A datagram
socket receives the replies to its own requests only (the kernel matches them),
a raw socket every message. `Deadline` and `AfterFunc` are the two parties that
can cut a read short. `SeqModulus` is 2^16 in the code.

### ReportDocument and Pipeline

`Pipeline` takes the stages of `run` in order, each as one step with any result
that the modules above allow, and follows every early return to the deferred
function (`Defer`) and to `main`. Files and streams hold a set of blocks
(`log`, `report`, `fragment`, ...), and several paths may lead to one file.
`Leads` says which file a path leads to, and `Configurations` which combinations of
options are tried. `Log` is all the lines of a stage: the terminal is written before the log file
and the first failure silences the logger. `FilterWorking` and `Normalize` are
pure operators; `ReportFaithful` compares their result with what was found. A loop
that appends some elements to a new slice is `Keep`, a stable sort `Arranged`: the
k-th element is the one with k - 1 others before it.

## Runs

| Run | Instance | States | Shows |
| --- | --- | --- | --- |
| `preparation` | up to two entries out of 17, limits 0, 3, 5; lists of ports and protocols; 94 command lines over 8 files | 13k | the checks and settings are exactly those asked for, a refusal has its reason, expansion stops at the limit, each port gets its handshakes once |
| `scan_run` | 3 checks (0, 2 and 0 handshakes); 1 worker with a scan timeout, 2 workers without | 247k | safety of stream and channels; summary and status; refinement of `ScanStream`; termination; release of all goroutines |
| `scan_run_deadline` | 2 checks, 3 workers configured, scan timeout | - | **violation**: finding 1 |
| `pool` | 3 clients, 3 proxies, 2 dials through each, all strategies | 32k | accounting, fairness of `round_robin`, first least loaded proxy |
| `probe_run` | every handshake by a socks proxy, `ftps_implicit` by every scheme; 38 lengths; answers of DNS of up to 7 bytes | 343k | one closer, nothing left behind, buffers, TLS, exactness of the DNS parser, refinement of steps of `Scanner`, the check ends |
| `discovery_direct` | 3 targets, 2 workers, 2 ports, 4 strategies | 122k | results whole and right; refinement of `IndexedPool` with termination |
| `discovery_proxy_refuses` | 1 target, proxied | - | **violation**: finding 2 |
| `icmp_ping` | 2 pings, 2 + 1 addresses, both kinds of sockets, numbers modulo 3 | 42k | replies matched, no socket left, cancellation ends all calls |
| `icmp_strangers` | 1 ping, raw socket, another program pings | - | **violation**: finding 3 |
| `reverse_dns` | 3 addresses and a name, 2 workers, 3 kinds of answers and errors | 9.7k | own names; refinement of `IndexedPool` with termination |
| `pipeline` | 2 targets, 2 ports, every combination of stages, log file and report | 970k | exit status, report, log file, and what happens to existing files |
| `pipeline_alias` | two paths to one new file | - | **violation**: finding 4 |

Bounds and why they are enough:

* `preparation`: 8 IPv4 and 32 IPv6 addresses. The entries cover every kind, both
  ends of a family, disorder, mixed families and zones; pairs of them overlap in
  every way, and a prefix of the whole IPv6 family exceeds each limit.
  The command lines give each option alone, and `-host`, `-config ""`, `-start` and
  `-end` in every combination, with good and bad values.
* `probe_run`: the lengths are every limit of a handshake and its neighbours. The
  DNS instance has a question of one byte, a fixed part of two and names of up to
  6 bytes; messages of all strings of up to three bytes over labels, pointers and
  reserved bytes, of up to six over the end, labels of one byte and pointers to
  the first two offsets, and pairs of records with every kind of name. This has
  pointers to pointers, into labels, into data and to themselves. The handshake
  does not depend on the proxy, so all schemes are combined with one handshake;
  it begins with TLS, which can close the connection itself. `IdentLines` and
  `ReplyLines` (50 and 100 in the code) are 3 and 2.
* `scan_run`: a single worker has channels of one element. While it is blocked on
  the event of its first check, the second one fills the channel of targets, and
  the feeder blocks on the third: both channels are full and only a receive or
  the context lets anybody go on. `CancelReleases` fails there when `sendTargets`
  has no `case <-ctx.Done()`. Two workers compete for three checks and overtake
  each other. 0 and 2 handshakes take every branch of `worker` and `runProbes`.
  Dials are refused, or cut short by the deadline; more classes of errors, a
  deadline over two workers and more of either multiply the states, and nothing
  but the two liveness properties is left to the instance: all safety properties
  and the refinement are proved for any numbers, errors and configurations.
* `scan_run_deadline`: three workers for two checks exercise the adjustment in `New`.
* `pool`: three clients on three proxies wrap `next` and can put all connections
  on one proxy; `MaxDials` bounds the dials per proxy.
* `discovery_direct`: two ports take the loop of `checkTCP` past a failed port,
  and three targets leave a job in the channel when the context is cancelled.
* `icmp_ping`: three numbers for at most three concurrent requests. The code has
  2^16 and as many requests in flight as workers; with more requests than
  numbers replies would be ambiguous, so the modulus is the smallest for which
  they are not.
* `reverse_dns`: more jobs than workers, and a target that is not looked up.
* `pipeline`: two targets make a filtered and an unfiltered one, two ports make an
  order; `Leads` maps paths to existing, shared and new files.

Deadlock is checked except for the pool, whose callers may stop dialling; where
a component has ended it stutters explicitly.

Fairness, in each case only of goroutines, which the Go scheduler runs:

* `scan_run`: the feeder and every worker; dials and handshakes are bounded by
  `dial_timeout` and `probes.timeout`. `CancelReleases` is checked without any
  fairness of the consumer. `RunEnds` assumes it (`LoopFairness`), because the
  loop of `run` waits for nothing else.
* `probe_run`: the dialing goroutine, the watcher, the canceller, and the worker
  except while it waits for the server (`Waiting`); and that the end of the scan's
  context reaches the context of the dial. The conclusion is conditional: the
  check ends once it is cancelled or one of the deadlines has passed, and it
  always has one. Nothing is assumed of the server.
* `discovery_direct`, `reverse_dns`: workers and caller; each attempt and lookup
  is bounded by its timeout.
* `icmp_ping`: each call and the goroutine of `AfterFunc`.

Nothing is assumed of the network, the clock, the cancellation or the client.

## Proofs

TLAPS proves for all values of the constants, under the named assumptions of the
modules (they say what the constructors accept):

* `ScanRunProofs`, about `Scanner`: `TypeOK`, `OncePerCheck`, `VerdictAfterChecking`,
  `NothingLost`, `OpenIsWhole`, `NoConnectionHeld`, `ChannelsSafe`. None but the
  first is inductive. `ScanInv` strengthens them: `ChannelInv` relates the
  counters to the workers that left (without a cancellation nobody leaves
  before everything was sent and taken), `OwnerInv` gives every active worker a
  check of its own, `HandInv` says what a worker holds at each label, `LogInv`
  says what the log already holds about that check, and `CoverInv` that a check
  that was taken is with a worker or concluded. `NothingLost` then follows:
  when the stream is closed every worker is done, so everything was taken and
  nothing is in anybody's hands. `WorkerMoves` reduces the thirteen actions of a
  worker to five kinds of steps, and `LogGrows`/`LogChange` what an append does.
* `ScanRunProofs`, about the scan stage: it is a behaviour of `Scanner`
  (`RunIsScan`), so all of the above holds of it, and it implements `ScanStream`
  (`RunImplementsStream`). `StreamInv` adds to `ScanInv` that nothing is under way
  once the loop has ended. `ReceivedInOrder` is the heart: `OncePerCheck` and
  `VerdictAfterChecking` together determine what the consumer has seen of a check
  when its next event arrives; `NothingLost` makes *completed* possible.
  `SummaryInv` ties the statistics to the events that were read: each counter is
  the number of positions that hold an event of its kind, so an event received
  moves one position into one of these sets. `OncePerCheck` lets no two verdicts
  be of one check, which bounds the counters by the number of checks
  (`RunSummaryAddsUp`), and with `NothingLost` the bound is reached whenever the
  status says *completed* (`RunCompletedIsComplete`).
* `ProxyPoolProofs`: `TypeOK`, `ActiveExact`, `WireCounted`, `RoundRobinFair`
  from `PoolInv`. `OccupantEnters` and `OccupantLeaves` do the counting with the
  library's facts on cardinality; `ConnInv` says that a connection that is not
  closed has not run its `sync.Once`. `RoundInv` is the usual picture of a round:
  proxies before `next` are one selection ahead. `DialsGoToLeast` is about the result
  of a loop (`BestUpTo`): after offset k it is the first of the least loaded
  candidates so far (`FirstUpTo`). Such a candidate always exists and obeys the loop,
  so the recursion has a solution (`LoopRuns`); and there is no first offset at which
  the loop leaves it (`LoopFinds`). Both use `LeastNumber` in place of induction.
* `ProbeRunProofs`, about `Tunnel` and `DnsName`: `TypeOK`, `HandedOverStaysOpen`,
  `FailedLeavesNothing`, `ClosedOnce`. `TunnelInv` says for each position of the
  dialer which states of the watcher, the connection and the number of closes go
  together; the only hard case is `Stop` against a watcher that has already
  started. The parser of DNS answers stays inside every message
  (`DnsStaysInside`, from `DnsInv`: offsets are natural numbers, and each look is
  behind a comparison with the length).
* `ProbeRunProofs`, about what the parser accepts (`DnsIsExact`): the well-formed
  messages and no others, for any answers. The invariant `DnsPlaces` relates the
  offset that moves to the places of the reference. `Walk(k, P, ...)`: the parser came
  from the start `k` of the name through the places `P`; they are reached, none of
  them is an end or a pointer that does not point backwards, their labels take
  `expanded` bytes, and no hop leads from them to elsewhere but to the offset. Then
  an end makes `P` and the offset all that is reached (`WalkEnds`), and a name that
  leaves the message, is blocked or comes back to a place of `P` reaches no end
  (`NoEnd`). That the limit on steps refuses no good name is counting: as long as
  the walk does not come back, it has made as many steps as `P` has members.
  `Passed` does the same for the records; behind one that is no good none is
  (`Spoilt`). `Applicable` shows that what is iterated exists.
* `ProbeRunProofs`, about a whole check: it is a behaviour of `Tunnel`
  (`RunIsDial`), so its theorems carry over (`RunHandedOver`), and of `DnsName`
  (`RunIsParse`). `LeftInv` adds where the connection and the canceller are at each
  stage, which with the theorems of `Tunnel` gives `RunLeavesNothing`.
  `RunImplementsWorker` is the refinement: `RunInv` says which result is possible
  at which stage (a handshake that the canceller hurried implies a cancelled
  context, and that `Run` looks at), and the `Seen` lemmas map each step that
  the worker of `Scanner` can see to its action.
* `ProbeRunProofs`, about the handshakes: `InsideBuffer` and `SecureAsAgreed`, for any
  lengths that servers declare. Neither is inductive, so `TalkInv` and `SecureInv`
  speak of the turns that are left. `Sized`: every rest among them goes by a length
  that a turn ahead of it will read, and fits every length that this turn admits;
  or by the one already declared, and fits that one. `Agreed`: from where the
  connection is now, they end as agreed. `Unmixed`: between a byte that PostgreSQL
  reads in clear and its switch to TLS lies the turn that finds the reader empty.
  `ConversationsSound` shows all this of every conversation of every handshake,
  composed of fields with their rests (`LengthAndRest`) by concatenation
  (`ClosedConcat`); `SizedTail`, `AgreedTail` and `UnmixedTail` say that taking a turn
  keeps it.
* `DiscoveryProofs`: `TypeOK`, `SlotsNotShared`, `ResultsComplete` and the safety
  part of the refinement of `IndexedPool`. `SlotInv` says who may write which
  slot and which slots are written, `CallerInv` what the position of the caller
  implies (it closes the channel only after the last job or a cancellation, and
  returns only after the workers), `ResultInv` that a result that is returned
  without an error has no hole. `EvidenceInv` says what a worker has tried at each
  position and what a written result rests on; it gives `AliveAnswered` and
  `DeadWasSilent` for a direct dialer (`~Proxied`). Finding 2 shows that they need
  this hypothesis.
* `ReverseDNSProofs`: `TypeOK`, `HostnamesAreOwn` and the safety part of the
  refinement of `IndexedPool`. `ResolveInv` consists of `OwnerInv` (no two workers
  look up the same job, nor one that is decided), `QueueInv` (the queue holds
  one result for each answer, made of this answer and of its own address),
  `CoverInv` (without a cancellation every job that was taken is with a worker or
  decided) and `ReturnInv` (the caller returns after the workers, with the
  results from the queue put in order).
* `IcmpPingProofs`: `TypeOK`, `NoSocketLeft`, `SilentWasAsked` from `PingInv`
  (`PlaceInv`: where a call is in its list; `AskedInv`: it has sent a request to every
  address it has left behind). `AliveAnswered` needs more, that a reply with the
  number of a request answers this request (`AliveIsOwn`). It is proved for
  datagram sockets, where the kernel matches them (`DatagramInv`), and for raw
  sockets if no other program pings and all calls together have at most
  `SeqModulus` addresses (`FewAttempts`), so that no number is used twice (`NumberInv`).
  Finding 3 shows what happens with other programs; the second condition is a
  limit of the code, whose numbers start again after 65,536 attempts.
* `PipelineProofs`: `LogFileClosed` and `SuccessMeansDone` for every run, `ReportAlone`
  and `OnlyReportReplaces` under `OwnFiles`: streams are not files, and two names
  lead to one file only if it exists already; finding 4 shows what happens without.
  `FileInv` says when there is a log file, `DestinationInv` what the validation of the
  destinations has excluded, `DoneInv` what the stages that are behind the run have
  left if they had no error. `ReportIsFaithful` is about the contents of a written
  report: `DocumentInv` says that it is made of the findings of the stages
  (`FoundInv`), and `FilteredIs`, `KeepTargetsIs`, `NormalizeIs` compute what the
  filter and the order do to them. They rest on a fact about `Arranged`: under a
  strict order each element of a finite set has its own number of predecessors, so
  nothing is lost or doubled.
* `PreparationProofs`: `ChecksExact`, `RefusedRightly`, `WorkBounded`, and that
  targets never repeat nor exceed `max_targets` (`NoTargetTwice`). A well-formed
  entry stands for the addresses with the numbers `Low` to `High` (`Bounds`,
  `Denoted`) and the loops go through them in order (`Following`). So at any moment
  the list of targets is the set of all places before the cursor, each once
  (`Gathered`): what `add` is given next is new exactly if it is in none of the
  earlier places. `SourceInv` says that the configuration at hand is the one that
  options and file make at this point, and `PortsInv` does for the ports what
  `Gathered` does for the targets. `ProbesInv` does it for the handshakes of every
  port at once (`ProbesAreAsConfigured`): the list of a port is in an
  order-preserving bijection (`Lists`) with the pairs of an entry of `probes` and a
  protocol of it that are due by now (`Due`), and a visit extends both by the
  protocols of one entry (`ListsMore`) or neither, if `seen` has the port already.
  `WorkBounded` speaks of a loop that has begun:
  before, `max_targets` may still be a negative number that `Validate` will refuse.

Every safety invariant and every action property that a passing run checks has a
theorem, and so has the safety part of each refinement. Only model-checked is
liveness: `RunEnds`, `CancelReleases`, `CheckEnds`, `CancelEndsPings` and the
termination that `PoolContract` promises. TLAPS does not prove liveness under
fairness, as it has no reasoning about ENABLED.

Some of the facts would be proved by induction over data elsewhere (`DialsGoToLeast`,
`DnsIsExact`, the order of a report). The induction theorems of the library cannot be
instantiated by the installed provers. `LeastNumber` takes their place: a set of
numbers that is not empty has a least member, so there is no first counterexample.

`NoConnectionHeld` of `Scanner` and `FailedLeavesNothing` of `Tunnel` are proved and
no run repeats them; `CheckLeavesNothing` checks the same of a whole check.

## Findings

1. `scan_run_deadline`: the deadline of `scan_timeout` is also the network
   deadline of every dial and handshake. It may fire before the context's timer
   has run, so a check that was cut short is taken for a timeout of the target
   (`scanner.go:175`, `scanner.go:209`), and `main.go:231` may still see a live
   context: the report says *completed*.
2. `discovery_proxy_refuses`: a proxy that refuses the connection makes the
   target alive, because `ECONNREFUSED` stays visible through the wrapping of
   `pool.go:273` and `pool.go:126` (`discovery.go:296`).
3. `icmp_strangers`: with a raw socket any echo reply with the right sequence
   number counts; neither its identifier nor its sender is compared
   (`icmp.go:182`).
4. `pipeline_alias`: two paths to a file that does not exist yet are not
   recognised as one (`reporting.go:58`), so the report truncates the log and
   log lines follow it.

Also observed, without a statement in the repository that contradicts it: a
target that refuses explicitly is not recognised through a proxy, where the
refusal arrives as a status or reply code, and is skipped; a signal after the
last event but before `main.go:231` reports *interrupted* for a scan that is
complete; a cancellation during reverse DNS or discovery returns an error
without writing a report; `bufio.Reader.ReadLine` returns a line that a deadline cut
off without an error, so it is judged as a whole line (`io.go:16`);
`ftps_explicit` starts TLS over whatever the reader of the clear connection may
hold, where `postgresql` refuses (`postgresql.go:48`); a configuration file that is
refused stays refused although an option replaces what is wrong in it.

## Plan

Done: all modules and proofs above. Two modules of the first plan were dropped:
workers of the scan as clients of the pool, because the clients of `ProxyPool` are
freer than workers (they keep and close connections as they like) and its
invariants are proved for any number of them; and concurrent callers of the
logger, because its mutex spans a whole call.

Left: the layout of reports, the least covered part of the model.

## Not modelled

The bytes of requests and what a handshake reads in a text, the layout of the
four report formats, YAML, the validation of enumerated and independent fields
(formats, strategies, proxy URLs, timeouts of other stages), the texts of
`output.go` and `version.go`; the flag package, TLS and SOCKS libraries
(external). Integers have 64 bits in the code and no length reaches them.
