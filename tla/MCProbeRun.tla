------------------------------ MODULE MCProbeRun ------------------------------
(* Every protocol over one proxy, and one that begins with TLS over each    *)
(* kind of proxy; the lengths are those at which some handshake decides.    *)
EXTENDS ProbeRun

MCCases ==
  {[scheme |-> "socks", protocol |-> name] : name \in Names}
  \cup {[scheme |-> s, protocol |-> "ftps_implicit"] : s \in Schemes}

MCLengths ==
  0..15 \cup {16, 18, 19, 63, 64, 65, 128, 129, 8192, 8193,
             KB64 - 1, KB64, KB64 + 1, MB, MB + 1, MB + 4, MB + 5,
             16 * MB, 16 * MB + 1, 256 * MB, 256 * MB + 1, Bits32}

Strings(bytes, longest) == UNION {[1..n -> bytes] : n \in 1..longest}

(* Records with a name of no label, of a label, behind a pointer, or partly *)
(* behind it, and with a byte of data or none.                              *)
SomeRecords ==
  {<<0, 0, 0>>, <<0, 0, 1, 7>>, <<1, 0, 0, 0, 0>>, <<192, 0, 0, 0>>,
   <<192, 1, 0, 0>>, <<1, 7, 192, 0, 0, 0>>, <<1, 7, 192, 1, 0, 1, 7>>}

(* A name of labels that is as long as it may be, or longer by a byte.     *)
Longest == <<0, 2, 7, 7, 2, 7, 7, 0, 0, 0>>
TooLong == <<0, 2, 7, 7, 1, 7, 1, 7, 0, 0, 0>>

MCAnswers ==
  [bytes : Strings({0, 1, 2, 64, 192, 193}, 3) \cup Strings({0, 1, 192}, 6)
           \cup {<<b>> \o r \o s : b \in {0, 1}, r, s \in SomeRecords}
           \cup {Longest, TooLong},
   count : 0..2]
=============================================================================
