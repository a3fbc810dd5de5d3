---------------------------- MODULE MCPreparation ----------------------------
(* Two entries out of a set that holds every kind of them, at both ends of *)
(* two small address families, with three target limits; and a few lists   *)
(* of ports and protocols that overlap or are rejected; and files that the *)
(* options of a command line are put over.                                 *)
EXTENDS Preparation

MCSize == [ipv4 |-> 8, ipv6 |-> 32]

Address(family, n) == [fam |-> family, zone |-> "", n |-> n]
Zoned(n)           == [fam |-> "ipv6", zone |-> "eth0", n |-> n]
Host(name)         == [fam |-> "host", zone |-> name, n |-> 0]

Entry(kind, at)      == [kind |-> kind, at |-> at]
Prefix(at, span)     == [kind |-> "prefix", at |-> at, span |-> span]
IPRange(at, end)     == [kind |-> "range", at |-> at, end |-> end]
ShortRange(at, last) == [kind |-> "short", at |-> at, octet |-> last]

Entries ==
  { Entry("host", Host("a")),
    Entry("address", Address("ipv4", 7)),
    Prefix(Address("ipv4", 7), 2),
    Prefix(Address("ipv4", 5), 4),
    Prefix(Address("ipv6", 9), 32),
    Prefix(Zoned(2), 2),
    IPRange(Address("ipv4", 5), Address("ipv4", 7)),
    IPRange(Address("ipv6", 3), Address("ipv6", 1)),
    IPRange(Address("ipv4", 1), Address("ipv6", 2)),
    IPRange(Zoned(1), Zoned(2)),
    IPRange(Zoned(1), Address("ipv6", 2)),
    ShortRange(Address("ipv4", 4), 2),
    ShortRange(Address("ipv4", 6), 1),
    ShortRange(Address("ipv6", 0), 1),
    ShortRange(Address("ipv4", 0), 4),
    Entry("blank", Host("")),
    Entry("malformed", Host("1.2.3.4/x")) }

Ports(first, last) == [first |-> first, last |-> last]

Probe(name, enabled, ranges) ==
  [name |-> name, enabled |-> enabled, ports |-> ranges]

PortLists == { <<Ports(2, 3), Ports(1, 2)>>, <<Ports(4, 4)>>,
               <<>>, <<Ports(3, 2)>>, <<Ports(0, 1)>>, <<Ports(4, 5)>> }

ProbeLists ==
  { <<>>,
    << Probe("ssh", TRUE, <<Ports(1, 2), Ports(2, 3)>>),
       Probe("socks", TRUE, <<Ports(2, 2)>>),
       Probe("ldap", FALSE, <<>>) >>,
    << Probe("dns", TRUE, <<>>) >> }

Config(entries, max, list, probing, protocols) ==
  [targets |-> entries, max |-> max, ports |-> list, probing |-> probing,
   probes |-> protocols, discovery |-> [tcp |-> FALSE, ports |-> <<>>],
   workers |-> 2, dial |-> 1, scan |-> 0, verbosity |-> 0]

Settings ==
  { Config(entries, max, <<Ports(1, 1)>>, FALSE, <<>>) :
      entries \in {<<>>} \cup {<<e>> : e \in Entries}
                  \cup {<<d, e>> : d, e \in Entries},
      max \in {0, 3, 5} }
  \cup
  { Config(<<Entry("host", Host("a"))>>, 3, list, probing, protocols) :
      list \in PortLists, probing \in BOOLEAN, protocols \in ProbeLists }

MCDefault == Config(<<Entry("host", Host("localhost"))>>, 5, <<Ports(1, 4)>>,
                    FALSE, <<>>)

Written(settings) == [kind |-> "written", settings |-> settings]
Unwritten(kind)   == [kind |-> kind, settings |-> MCDefault]
Command(flags)    == [status |-> "parsed", words |-> <<>>, flags |-> flags]

(* Files that the options are put over, most of them with a fault. *)
Files ==
  LET good == Config(<<Prefix(Address("ipv4", 5), 4)>>, 5,
                     <<Ports(2, 3), Ports(1, 2)>>, FALSE, <<>>)
  IN  { Unwritten(kind) : kind \in {"missing", "malformed", "empty"} }
      \cup { Written(settings) : settings \in
               { good, [good EXCEPT !.max = 3], [good EXCEPT !.workers = 0],
                 [good EXCEPT !.ports = <<Ports(3, 2)>>],
                 [good EXCEPT !.discovery = [tcp |-> TRUE, ports |-> <<>>]] } }

(* Flags with one value, or none.                                          *)
Flag(name, values) == {<<>>} \cup {name :> value : value \in values}
Flags(sets) == {a @@ b : a \in sets[1], b \in sets[2]}

Commands ==
  { Command(flags) : flags \in
      Flags(<<Flags(<<Flag("host", {Entry("host", Host("b")),
                                    Entry("blank", Host(""))}),
                      Flag("config", {""})>>),
              Flags(<<Flag("start", {2, 4, 5}), Flag("end", {0, 3})>>)>>)
      \cup Flag("workers", {0, 7}) \cup Flag("timeout", {0, 5})
      \cup Flag("scan-timeout", {-1, 5})
      \cup {a @@ b : a \in Flag("v", BOOLEAN), b \in Flag("vvv", BOOLEAN)}
      \cup Flag("version", BOOLEAN) }
  \cup { [status |-> status, words |-> words, flags |-> <<>>] :
           status \in {"parsed", "help", "bad"},
           words \in {<<"version">>, <<"version", "x">>} }

MCStarts ==
  [command : {Command(<<>>)}, file : {Written(s) : s \in Settings}]
  \cup [command : Commands, file : Files]
=============================================================================
