------------------------------ MODULE MCPipeline ------------------------------
(* Configurations for three questions: what the report says, where the     *)
(* output goes, and what two names of one file do.                         *)
EXTENDS Pipeline

MCTwoTargets   == <<"a", "b">>
MCOneTarget    == <<"a">>
MCTwoPorts     == <<<<"ok", "failed">>, <<"failed">>>>
MCOnePort      == <<<<"ok">>>>

MCConfiguration ==
  [reverseDNS |-> FALSE, proxy |-> "off", discovery |-> FALSE, level |-> 0,
   logFile |-> "off", report |-> "stdout", onlyWorking |-> FALSE]

MCResultConfigurations ==
  {[MCConfiguration EXCEPT !.reverseDNS = r, !.discovery = d,
                           !.onlyWorking = w] : r, d, w \in BOOLEAN}

MCPaths == {"config.yaml", "link to config.yaml", "new", "old", "link to old"}

MCLeads ==
  [p \in MCPaths |->
     CASE p \in {"config.yaml", "link to config.yaml"} -> "configuration"
       [] p = "new"                                    -> "new file"
       [] p \in {"old", "link to old"}                 -> "old file"]

MCExisting == {"configuration", "old file"}

(* Where the output goes depends on the two paths and the streams, and     *)
(* which stages fail on the others; the two are varied apart.              *)
MCOutputConfigurations ==
  {[MCConfiguration EXCEPT !.level = 1, !.logFile = l, !.report = o] :
     l \in MCPaths \cup {"off"}, o \in MCPaths \cup {"off", "stdout", "stderr"}}
  \cup
  {[MCConfiguration EXCEPT !.proxy = x, !.discovery = TRUE, !.level = v,
                           !.reverseDNS = TRUE, !.logFile = "old",
                           !.report = "new"] :
     x \in {"off", "good", "bad"}, v \in {0, 1}}

MCAllConfigurations == MCResultConfigurations \cup MCOutputConfigurations

(* A file that does not exist yet, and a second way to it through a linked *)
(* directory.                                                              *)
MCAliasLeads ==
  [p \in {"config.yaml", "reports/scan", "link to reports/scan"} |->
     IF p = "config.yaml" THEN "configuration" ELSE "new file"]

MCAliasExisting == {"configuration"}

MCAliasConfigurations ==
  {[MCConfiguration EXCEPT !.level = 1, !.logFile = "link to reports/scan",
                           !.report = "reports/scan"]}
=============================================================================
