------------------------------ MODULE MCScanRun ------------------------------
(* Three checks: two ports without a protocol, and between them one with    *)
(* the two handshakes of the alias socks.  A single worker, with a          *)
(* scan_timeout, leaves the feeder blocked on a full channel of targets;    *)
(* two workers overtake each other.  The run with a deadline has two checks *)
(* and more workers than those.                                            *)
EXTENDS ScanRun

MCProtocols == <<0, 2, 0>>
MCConfigs == {[workers |-> 1, timed |-> TRUE], [workers |-> 2, timed |-> FALSE]}

DeadlineProtocols == <<0, 2>>
DeadlineConfigs == {[workers |-> 3, timed |-> TRUE]}
=============================================================================
