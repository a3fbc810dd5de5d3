----------------------------- MODULE Preparation -----------------------------
(***************************************************************************)
(* From the command line and the configuration file to the checks of a     *)
(* scan: cli.Parse and loadConfig, what Config.Validate rejects, of the    *)
(* file as it is and then with the options put over it, how                *)
(* ExpandedTargets and expandPortRanges turn networks and ranges into      *)
(* lists without repetition, and how NewRegistry hands the protocol        *)
(* handshakes to the ports.                                                *)
(*                                                                         *)
(* A target is a record: an address is number n of its family (and, for    *)
(* IPv6, zone), a hostname is the only target of its "zone" in the family  *)
(* "host".  An address is written in one way only, so targets are compared *)
(* as records where the code compares strings.                             *)
(***************************************************************************)
EXTENDS Integers, Sequences, SequencesExt, FiniteSets

CONSTANTS
  Size,     \* Size[f]: how many addresses family f has
  Octet,    \* 2^8, the values of the last octet of an IPv4 address
  MaxPort,  \* 65535
  Default,  \* the built-in configuration
  Starts    \* the command lines and the files to start with

ASSUME SizeAssumption == Size \in [{"ipv4", "ipv6"} -> Nat \ {0}]
ASSUME OctetAssumption == Octet \in Nat \ {0} /\ Size["ipv4"] % Octet = 0
ASSUME MaxPortAssumption == MaxPort \in Nat

VARIABLES
  command,  \* what the flag package makes of the arguments: status, words
            \* that are no flags, and flags, a function of those given
  file,     \* the file: kind "missing", "malformed", "empty" or "written",
            \* and its settings, with defaults where it says nothing
  options,  \* cli.Options: at most one value per option
  config,   \* targets, max (scanner.max_targets), ports, and probes if
            \* probing, discovery ports if discovery uses them, and the rest
  pass,     \* whose Validate runs: the one of the "file" or the "final" one
  stage,    \* "started", "parsed", "merge", "loaded", "targets", "ports",
            \* "probes", then "ready" or the reason why there is no scan
  index,    \* the entry of config.targets, then of config.probes
  cursor,   \* the address of the entry that add is given next
  nextPort, \* the port of the range that comes next, 0 for none
  targets,  \* the targets added so far
  ports,    \* the ports of the scan
  byPort,   \* Registry.byPort
  nextRange, \* the range of the handshake at index that comes next
  seen,     \* the ports that handshake has had
  work      \* history: how often this Validate has called add

startup == <<command, file, options>>
subject == <<config, pass>>
place   == <<index, cursor, nextPort>>
registry == <<byPort, nextRange, seen>>
lists   == <<targets, ports, registry>>
vars    == <<startup, subject, stage, place, lists, work>>

PortNumbers == 1..MaxPort
NoZone  == ""
None    == [fam |-> "none", zone |-> NoZone, n |-> 0]
Invalid == [fam |-> "invalid", zone |-> NoZone, n |-> 0]  \* netip.Addr{}

(* Entries of config.targets: a hostname, an address, a prefix with a span *)
(* (2 to the number of host bits), a range with the end address or, if it  *)
(* is "short", with the last octet of the end; or "blank" or "malformed"   *)
(* (text with a slash or an address before a dash that cannot be parsed).  *)
HostNames == [fam : {"host"}, zone : STRING, n : {0}]
Addresses ==
  {a \in [fam : {"ipv4", "ipv6"}, zone : STRING, n : Nat] : a.n < Size[a.fam]}

HostEntries    == [kind : {"host", "blank", "malformed"}, at : HostNames]
AddressEntries == [kind : {"address"}, at : Addresses]
PrefixEntries  ==
  {e \in [kind : {"prefix"}, at : Addresses, span : Nat \ {0}] :
     Size[e.at.fam] % e.span = 0}
RangeEntries   == [kind : {"range"}, at : Addresses, end : Addresses]
ShortEntries   == [kind : {"short"}, at : Addresses, octet : Int]
TargetEntries  == HostEntries \cup AddressEntries \cup PrefixEntries
                  \cup RangeEntries \cup ShortEntries

IsConfig(c) ==
  /\ c.targets \in Seq(TargetEntries)
  /\ c.max \in Int
  /\ c.ports \in Seq([first : Int, last : Int])
  /\ c.probing \in BOOLEAN
  /\ c.probes \in Seq([name : STRING, enabled : BOOLEAN,
                      ports : Seq([first : Int, last : Int])])

ASSUME DefaultAssumption == IsConfig(Default)
ASSUME StartsAssumption ==
         \A s \in Starts :
           /\ IsConfig(s.file.settings)
           /\ \A flag \in DOMAIN s.command.flags :
                LET value == s.command.flags[flag]
                IN  /\ flag = "host" => value \in TargetEntries
                    /\ flag \in {"start", "end"} => value \in Int
                    /\ flag \in {"v", "vv", "vvv"} => value \in BOOLEAN

NoFile == ""  \* the path that stands for no file

Init ==
  /\ \E s \in Starts : command = s.command /\ file = s.file
  /\ options = [path |-> NoFile, host |-> {}, ports |-> {}, workers |-> {},
                dial |-> {}, scan |-> {}, verbosity |-> {}]
  /\ config = Default
  /\ pass = "file"
  /\ stage = "started"
  /\ index = 1
  /\ cursor = None
  /\ nextPort = 0
  /\ targets = <<>>
  /\ ports = <<>>
  /\ byPort = [p \in PortNumbers |-> <<>>]
  /\ nextRange = 1
  /\ seen = {}
  /\ work = 0

-----------------------------------------------------------------------------
(* The command line and the file. *)

Given(flag)        == flag \in DOMAIN command.flags
Value(flag, other) == IF Given(flag) THEN command.flags[flag] ELSE other
Optional(flag)     == IF Given(flag) THEN {command.flags[flag]} ELSE {}

(* -v, -vv and -vvv; each may also be given with the value false. *)
Verbose == <<"v", "vv", "vvv">>
Level   ==
  IF Value("vvv", FALSE) THEN 3
  ELSE IF Value("vv", FALSE) THEN 2
  ELSE IF Value("v", FALSE) THEN 1 ELSE 0

(* One boundary of the ports stands for both: the other is its default. *)
Options ==
  [path      |-> Value("config", "config.yaml"),
   host      |-> Optional("host"),
   ports     |-> IF Given("start") \/ Given("end")
                 THEN {[first |-> Value("start", 1),
                        last  |-> Value("end", MaxPort)]}
                 ELSE {},
   workers   |-> Optional("workers"),
   dial      |-> Optional("timeout"),
   scan      |-> Optional("scan-timeout"),
   verbosity |-> IF \E k \in DOMAIN Verbose : Given(Verbose[k])
                 THEN {Level} ELSE {}]

(* cli.Parse, and what run does with its result. *)
Parse ==
  /\ stage = "started"
  /\ IF command.status = "help" THEN stage' = "help" /\ UNCHANGED options
     ELSE IF \/ command.status = "bad"
             \/ command.words \notin {<<>>, <<"version">>}
     THEN stage' = "usage" /\ UNCHANGED options
     ELSE IF command.words # <<>> \/ Value("version", FALSE)
     THEN stage' = "version" /\ UNCHANGED options
     ELSE stage' = "parsed" /\ options' = Options
  /\ UNCHANGED <<command, file, subject, place, lists, work>>

(* The ranges that ParsePortRange accepts, whoever they are for. *)
Parsable(ranges) ==
  \A k \in DOMAIN ranges :
    1 <= ranges[k].first /\ ranges[k].first <= ranges[k].last
    /\ ranges[k].last <= MaxPort

Decodes(settings) ==
  /\ Parsable(settings.ports)
  /\ Parsable(settings.discovery.ports)
  /\ \A k \in DOMAIN settings.probes : Parsable(settings.probes[k].ports)

(* Load and Decode, up to Validate, which an empty file is not subject to. *)
LoadFile ==
  /\ stage = "parsed"
  /\ IF options.path = NoFile \/ file.kind = "empty"
     THEN stage' = "merge" /\ UNCHANGED config
     ELSE IF file.kind = "written" /\ Decodes(file.settings)
     THEN stage' = "loaded" /\ config' = file.settings
     ELSE stage' = "unreadable" /\ UNCHANGED config
  /\ UNCHANGED <<startup, pass, place, lists, work>>

Over(option, value) ==
  IF option = {} THEN value ELSE CHOOSE x \in option : TRUE

(* Mutant of Merged: of the ports only the boundary given is replaced. *)
MergedByBoundary ==
  [targets |-> IF options.host = {} THEN config.targets
               ELSE <<Over(options.host, None)>>,
   ports   |-> [k \in DOMAIN config.ports |->
                  [first |-> Value("start", config.ports[k].first),
                   last  |-> Value("end", config.ports[k].last)]],
   workers |-> Over(options.workers, config.workers),
   dial |-> Over(options.dial, config.dial),
   scan |-> Over(options.scan, config.scan),
   verbosity |-> Over(options.verbosity, config.verbosity),
   max |-> config.max, discovery |-> config.discovery,
   probing |-> config.probing, probes |-> config.probes]

(* The configuration with the options in place. *)
Merged ==
  [targets |-> IF options.host = {} THEN config.targets
               ELSE <<Over(options.host, None)>>,
   ports   |-> IF options.ports = {} THEN config.ports
               ELSE <<Over(options.ports, None)>>,
   workers |-> Over(options.workers, config.workers),
   dial |-> Over(options.dial, config.dial),
   scan |-> Over(options.scan, config.scan),
   verbosity |-> Over(options.verbosity, config.verbosity),
   max |-> config.max, discovery |-> config.discovery,
   probing |-> config.probing, probes |-> config.probes]

(* What the Validate of the file has expanded is gone. *)
Merge ==
  /\ stage = "merge"
  /\ config' = Merged
  /\ pass' = "final"
  /\ stage' = "loaded"
  /\ targets' = <<>>
  /\ work' = 0
  /\ UNCHANGED <<startup, place, ports, registry>>

-----------------------------------------------------------------------------
(* What ExpandedTargets makes of an entry.                                 *)

(* The end of a range; parseIPv4RangeEnd replaces the last octet. *)
End(entry) ==
  IF entry.kind = "range" THEN entry.end
  ELSE [entry.at EXCEPT !.n = (@ - (@ % Octet)) + entry.octet]

(* The last checks of parseIPRange. *)
InOrder(start, end) ==
  /\ start.fam = end.fam
  /\ start.zone = end.zone
  /\ start.n <= end.n

(* The entry is one that netip and parseIPRange accept. *)
WellFormed(entry) ==
  CASE entry.kind \in {"host", "address"} -> TRUE
    [] entry.kind = "prefix"    -> entry.at.zone = NoZone
    [] entry.kind = "range"     -> InOrder(entry.at, entry.end)
    [] entry.kind = "short"     -> /\ entry.at.fam = "ipv4"
                                   /\ entry.octet \in 0..(Octet - 1)
                                   /\ InOrder(entry.at, End(entry))
    [] entry.kind \in {"blank", "malformed"} -> FALSE

(* The first target of an entry; a prefix is masked. *)
First(entry) ==
  IF entry.kind = "prefix" THEN [entry.at EXCEPT !.n = @ - (@ % entry.span)]
  ELSE entry.at

(* netip.Addr.Next: after the last address comes the invalid one. *)
Successor(address) ==
  IF address # Invalid /\ address.n + 1 < Size[address.fam]
  THEN [address EXCEPT !.n = @ + 1]
  ELSE Invalid

(* netip.Prefix.Contains *)
PrefixContains(entry, address) ==
  /\ address.fam = entry.at.fam
  /\ address.n \div entry.span = entry.at.n \div entry.span

(* The ends of the loops of addPrefix and addRange; the other entries have *)
(* a single target.                                                        *)
After(entry, address) ==
  CASE entry.kind = "prefix" ->
         IF PrefixContains(entry, Successor(address)) THEN Successor(address)
         ELSE None
    [] entry.kind \in {"range", "short"} ->
         IF address = End(entry) THEN None ELSE Successor(address)
    [] OTHER -> None

-----------------------------------------------------------------------------

Refuse(reason) ==
  /\ stage' = reason
  /\ UNCHANGED <<startup, subject, place, lists>>

(* The first checks of Validate. *)
ValidateTargets ==
  /\ stage = "loaded"
  /\ IF \/ config.targets = <<>>
        \/ \E k \in DOMAIN config.targets : config.targets[k].kind = "blank"
        \/ config.max < 1
     THEN Refuse("invalid")
     ELSE /\ stage' = "targets"
          /\ UNCHANGED <<startup, subject, place, lists>>
  /\ UNCHANGED work

(* ExpandedTargets begins with the next entry. *)
StartEntry ==
  /\ stage = "targets"
  /\ cursor = None
  /\ index <= Len(config.targets)
  /\ IF WellFormed(config.targets[index])
     THEN /\ cursor' = First(config.targets[index])
          /\ UNCHANGED <<startup, subject, stage, index, nextPort, lists>>
     ELSE Refuse("invalid")
  /\ UNCHANGED work

Known(target) == \E k \in 1..Len(targets) : targets[k] = target

(* The loop goes on to the next address, or to the next entry. *)
Advance ==
  LET next == After(config.targets[index], cursor)
  IN  /\ cursor' = next
      /\ index' = IF next = None THEN index + 1 ELSE index
      /\ UNCHANGED nextPort

(* Mutants of Add: the limit is looked at before the duplicates; at the    *)
(* limit, targets are skipped instead of refused.                          *)
AddLimitFirst ==
  IF Len(targets) >= config.max THEN Refuse("too_many")
  ELSE /\ targets' = IF Known(cursor) THEN targets ELSE Append(targets, cursor)
       /\ Advance
       /\ UNCHANGED <<startup, subject, stage, ports, registry>>
AddSkipping ==
  /\ targets' = IF Known(cursor) \/ Len(targets) >= config.max THEN targets
                ELSE Append(targets, cursor)
  /\ Advance
  /\ UNCHANGED <<startup, subject, stage, ports, registry>>

(* The closure add: a duplicate counts for nothing, and a new target is    *)
(* added unless max_targets is reached.                                    *)
Add ==
  IF Known(cursor)
  THEN Advance /\ UNCHANGED <<startup, subject, stage, lists>>
  ELSE IF Len(targets) >= config.max THEN Refuse("too_many")
  ELSE /\ targets' = Append(targets, cursor)
       /\ Advance
       /\ UNCHANGED <<startup, subject, stage, ports, registry>>

(* One iteration of addPrefix or addRange, or the only add of an entry. *)
Visit ==
  /\ stage = "targets"
  /\ cursor # None
  /\ Add
  /\ work' = work + 1

ValidRanges(ranges) == ranges # <<>> /\ Parsable(ranges)

(* The rest of what Validate looks at; what it looks at besides is taken   *)
(* to be valid.  The ranges of a protocol count if it is enabled, whether  *)
(* or not probing is, those of discovery if it is to use TCP.              *)
ValidRest(c) ==
  /\ ValidRanges(c.ports)
  /\ c.workers >= 1 /\ c.dial > 0 /\ c.scan >= 0
  /\ c.discovery.tcp => ValidRanges(c.discovery.ports)
  /\ \A k \in DOMAIN c.probes :
       c.probes[k].enabled => ValidRanges(c.probes[k].ports)

(* Validate ends; the expansion that run itself makes after the final one  *)
(* has the same result.                                                    *)
ValidatePorts ==
  /\ stage = "targets"
  /\ cursor = None
  /\ index > Len(config.targets)
  /\ IF ValidRest(config)
     THEN /\ stage' = IF pass = "file" THEN "merge" ELSE "ports"
          /\ index' = 1
          /\ UNCHANGED <<startup, subject, cursor, nextPort, lists>>
     ELSE Refuse("invalid")
  /\ UNCHANGED work

-----------------------------------------------------------------------------
(* The loops of ExpandedPorts: the next range, one of its ports, the end.  *)

StartRange ==
  /\ stage = "ports"
  /\ nextPort = 0
  /\ index <= Len(config.ports)
  /\ nextPort' = config.ports[index].first
  /\ UNCHANGED <<startup, subject, stage, index, cursor, lists, work>>

VisitPort ==
  /\ stage = "ports"
  /\ nextPort # 0
  /\ ports' = IF nextPort \in ToSet(ports) THEN ports
              ELSE Append(ports, nextPort)
  /\ IF nextPort < config.ports[index].last
     THEN nextPort' = nextPort + 1 /\ index' = index
     ELSE nextPort' = 0 /\ index' = index + 1
  /\ UNCHANGED <<startup, subject, stage, cursor, targets, registry, work>>

PortsExpanded ==
  /\ stage = "ports"
  /\ nextPort = 0
  /\ index > Len(config.ports)
  /\ stage' = "probes"
  /\ index' = 1
  /\ UNCHANGED <<startup, subject, cursor, nextPort, lists, work>>

(* newProtocols: the alias stands for two handshakes. *)
Protocols(name) == IF name = "socks" THEN <<"socks5", "socks4">> ELSE <<name>>

(* The loops of expandPortRanges again, for the ports of each handshake    *)
(* that EnabledProbeDefinitions keeps, in the order of the definitions;    *)
(* NewRegistry appends to a port as soon as it comes up, instead of going  *)
(* through the list afterwards.                                            *)
Definition == config.probes[index]
Enabled    == config.probing /\ Definition.enabled

StartProbeRange ==
  /\ stage = "probes"
  /\ nextPort = 0
  /\ index <= Len(config.probes)
  /\ Enabled
  /\ nextRange <= Len(Definition.ports)
  /\ nextPort' = Definition.ports[nextRange].first
  /\ UNCHANGED <<startup, subject, stage, index, cursor, lists, work>>

Register(port) ==
  /\ byPort' = [byPort EXCEPT ![port] = @ \o Protocols(Definition.name)]
  /\ seen' = seen \cup {port}

(* Mutant of RegisterOnce: overlapping ranges repeat their ports. *)
RegisterAgain(port) == Register(port)

RegisterOnce(port) ==
  IF port \in seen THEN UNCHANGED <<byPort, seen>> ELSE Register(port)

VisitProbePort ==
  /\ stage = "probes"
  /\ nextPort # 0
  /\ RegisterOnce(nextPort)
  /\ IF nextPort < Definition.ports[nextRange].last
     THEN nextPort' = nextPort + 1 /\ nextRange' = nextRange
     ELSE nextPort' = 0 /\ nextRange' = nextRange + 1
  /\ UNCHANGED <<startup, subject, stage, index, cursor, targets, ports, work>>

NextDefinition ==
  /\ stage = "probes"
  /\ nextPort = 0
  /\ index <= Len(config.probes)
  /\ Enabled => nextRange > Len(Definition.ports)
  /\ index' = index + 1
  /\ nextRange' = 1
  /\ seen' = {}
  /\ UNCHANGED <<startup, subject, stage, cursor, nextPort, targets, ports,
                 byPort, work>>

Ready ==
  /\ stage = "probes"
  /\ nextPort = 0
  /\ index > Len(config.probes)
  /\ stage' = "ready"
  /\ UNCHANGED <<startup, subject, place, lists, work>>

Ended == stage \in {"help", "usage", "version", "unreadable", "invalid",
                    "too_many", "ready"}

Next ==
  \/ Parse \/ LoadFile \/ Merge \/ ValidateTargets \/ StartEntry \/ Visit
  \/ ValidatePorts \/ StartRange \/ VisitPort \/ PortsExpanded
  \/ StartProbeRange \/ VisitProbePort \/ NextDefinition \/ Ready
  \/ Ended /\ UNCHANGED vars

Spec == Init /\ [][Next]_vars

-----------------------------------------------------------------------------
(* What an entry stands for, without any loop: the addresses with the same *)
(* network part, or those from the start to the end.                       *)

Numbered(entry, numbers) == {[entry.at EXCEPT !.n = k] : k \in numbers}

Denotes(entry) ==
  CASE entry.kind = "prefix" ->
         LET low == (entry.at.n \div entry.span) * entry.span
         IN  Numbered(entry, low..(low + entry.span - 1))
    [] entry.kind \in {"range", "short"} ->
         Numbered(entry, entry.at.n..End(entry).n)
    [] OTHER -> {entry.at}

DenotedBy(entries, k) == UNION {Denotes(entries[j]) : j \in 1..k}

(* The first entry that stands for a target. *)
Origin(entries, target) ==
  CHOOSE k \in DOMAIN entries :
    /\ target \in Denotes(entries[k])
    /\ \A j \in 1..(k - 1) : target \notin Denotes(entries[j])

InRange(port, range) == range.first <= port /\ port <= range.last

(* What was asked for: by the file, or the default without one ... *)
Base == IF Value("config", "config.yaml") = NoFile \/ file.kind = "empty"
        THEN Default ELSE file.settings

(* ... unless an option says something else.                               *)
AskedEntries == IF Given("host") THEN <<command.flags["host"]>>
                ELSE Base.targets
AskedPorts ==
  {p \in PortNumbers :
     IF Given("start") \/ Given("end")
     THEN Value("start", 1) <= p /\ p <= Value("end", MaxPort)
     ELSE \E k \in DOMAIN Base.ports : InRange(p, Base.ports[k])}

(* The level is that of the flag for the most, of those that are on.       *)
SettingsAsked ==
  /\ config.workers = Value("workers", Base.workers)
  /\ config.dial = Value("timeout", Base.dial)
  /\ config.scan = Value("scan-timeout", Base.scan)
  /\ config.verbosity =
       IF \A k \in 1..3 : ~Given(Verbose[k]) THEN Base.verbosity
       ELSE CHOOSE k \in 0..3 : /\ k > 0 => Value(Verbose[k], FALSE)
                               /\ \A j \in (k + 1)..3 : ~Value(Verbose[j], FALSE)

(* A scan that starts makes each check that was asked for exactly once,    *)
(* whatever overlaps: the targets and the ports are those that the options *)
(* and, where there is none, the file stand for, without repetition, the   *)
(* targets in the order of the entries that name them first and of their   *)
(* addresses; and it makes them with the settings that were asked for.     *)
ChecksExact ==
  stage = "ready" =>
    /\ ToSet(targets) = DenotedBy(AskedEntries, Len(AskedEntries))
    /\ \A i, j \in DOMAIN targets : i < j =>
         LET first == Origin(AskedEntries, targets[i])
             later == Origin(AskedEntries, targets[j])
         IN  first < later \/ (first = later /\ targets[i].n < targets[j].n)
    /\ ToSet(ports) = AskedPorts
    /\ IsInjective(ports)
    /\ targets # <<>> /\ ports # <<>>
    /\ SettingsAsked

(* A configuration is refused for a reason: it stands for more targets     *)
(* than max_targets allows, or an entry, a range or a number in it is no   *)
(* good; and no option puts right a file that is no good by itself.        *)
RefusedRightly ==
  /\ stage = "too_many" =>
       Cardinality(DenotedBy(config.targets, index)) > config.max
  /\ stage = "invalid" =>
       \/ config.targets = <<>> \/ config.max < 1
       \/ \E k \in DOMAIN config.targets : ~WellFormed(config.targets[k])
       \/ ~ValidRest(config)
  /\ stage = "ready" /\ Base # Default =>
       /\ file.kind = "written" /\ Decodes(Base) /\ ValidRest(Base)
       /\ Base.targets # <<>>
       /\ \A k \in DOMAIN Base.targets : WellFormed(Base.targets[k])
       /\ Cardinality(DenotedBy(Base.targets, Len(Base.targets))) <= Base.max

(* However wide a prefix or a range is, the expansion stops soon after     *)
(* max_targets: it never takes more than max_targets + 1 steps per entry,  *)
(* and never holds more than max_targets targets.                          *)
WorkBounded ==
  /\ work # 0 => work <= Len(config.targets) * (config.max + 1)
  /\ Len(targets) <= config.max \/ targets = <<>>

(* The handshakes asked for at a port: the m-th that the k-th definition   *)
(* stands for.                                                             *)
Wanted(port) ==
  {w \in (DOMAIN Base.probes) \X {1, 2} :
     LET probe == Base.probes[w[1]]
     IN  /\ Base.probing /\ probe.enabled
         /\ \E k \in DOMAIN probe.ports : InRange(port, probe.ports[k])
         /\ w[2] \in DOMAIN Protocols(probe.name)}

Before(v, w) == v[1] < w[1] \/ (v[1] = w[1] /\ v[2] < w[2])

(* The list holds the wanted handshakes, each once, and in their order. *)
Lists(list, wanted, probes) ==
  \E asked \in [DOMAIN list -> wanted] :
    /\ \A w \in wanted : \E i \in DOMAIN list : asked[i] = w
    /\ \A i, j \in DOMAIN list : i < j => Before(asked[i], asked[j])
    /\ \A i \in DOMAIN list :
         list[i] = Protocols(probes[asked[i][1]].name)[asked[i][2]]

(* An open port meets each handshake that is enabled for it once, although *)
(* ranges overlap and an alias stands for two handshakes, and no other, in *)
(* the order of the definitions.                                           *)
ProbesAsConfigured ==
  stage = "ready" =>
    \A port \in PortNumbers : Lists(byPort[port], Wanted(port), Base.probes)
=============================================================================
