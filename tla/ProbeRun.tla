------------------------------- MODULE ProbeRun -------------------------------
(***************************************************************************)
(* One check of a worker, in detail: the dial through a proxy (Tunnel),    *)
(* then Registry.Run of internal/probe, which bounds a protocol handshake  *)
(* (Protocols) by a deadline on the connection and lets the end of the     *)
(* context cut it short.  The server and the clock do what they like; the  *)
(* function that AfterFunc starts runs in a goroutine of its own, against  *)
(* the handshake, the call that stops it and the reset of the deadline.    *)
(***************************************************************************)
EXTENDS Tunnel, Protocols

CONSTANTS
  Cases,   \* the schemes and protocols to put together
  Lengths  \* the lengths that a server may declare

ASSUME CasesAssumption ==
         Cases \subseteq [scheme : Schemes, protocol : Names]
ASSUME LengthsAssumption == Lengths \subseteq Nat

VARIABLES
  protocol,   \* the handshake that is configured for the port
  stage,      \* where the worker is
  cancelled,  \* ctx.Err() # nil
  expired,    \* the deadline of ctx has passed
  timeUp,     \* the timeout of the probe has passed
  limit,      \* the deadline that Run gives the connection: "none", "set",
              \* or "past" once the canceller has put it to the present
  canceller,  \* the AfterFunc of Run: "none", "armed", "started", "fired",
              \* "stopped"
  script,     \* the turns of the conversation that are left
  secure,     \* whether both sides have agreed on TLS
  secured,    \* whether the TLS handshake is over
  buffered,   \* whether the reader of the clear connection holds more bytes
  lines,      \* how many lines the current turn has read
  declared,   \* the length that the server has declared last
  made,       \* the size of the buffer that was made last
  looked,     \* how many bytes of it are looked at
  outcome     \* result.Err: "none" while there is no result, "ok", "failed";
              \* or why the handshake was cut: "cut" by the deadline of ctx,
              \* "hurried" by the canceller; "interrupted" is ctx.Err()

worker == <<stage, outcome>>
clock  == <<cancelled, expired, timeUp>>
talk   == <<script, secured, buffered, lines, declared, made, looked>>
runVars == <<vars, dnsVars, protocol, worker, clock, limit, canceller, talk,
             secure>>

RunInit ==
  /\ Init
  /\ DnsInit
  /\ protocol \in {c.protocol : c \in {d \in Cases : d.scheme = scheme}}
  /\ stage = "dial"
  /\ cancelled = FALSE
  /\ expired = FALSE
  /\ timeUp = FALSE
  /\ limit = "none"
  /\ canceller = "none"
  /\ script = <<>>
  /\ secure = FALSE
  /\ secured = FALSE
  /\ buffered = FALSE
  /\ lines = 0
  /\ declared = 0
  /\ made = 0
  /\ looked = 0
  /\ outcome = "none"

-----------------------------------------------------------------------------
(* The context, and the dial.  The context of the dial is a child of ctx   *)
(* with a timer of its own, so Tunnel's End may come at any time and comes *)
(* some time after the end of ctx.                                         *)

Dialing == stage = "dial" /\ result = "none"

CheckOver == stage \in {"gone", "closed", "open"}

(* Nothing is told apart after the check or in the midst of the parsing of *)
(* a DNS answer, which takes no notice of anything else.                   *)
Eventful == ~CheckOver /\ phase \in {"idle", "accepted", "refused"}

CancelScan ==
  /\ Eventful
  /\ ~cancelled
  /\ cancelled' = TRUE
  /\ UNCHANGED <<vars, dnsVars, protocol, worker, expired, timeUp, limit,
                 canceller, talk, secure>>

(* The deadline of the dial is not later than that of ctx. *)
ExpireScan ==
  /\ Eventful
  /\ ~expired
  /\ expired' = TRUE
  /\ IF Dialing /\ ~late THEN DeadlinePasses ELSE UNCHANGED vars
  /\ UNCHANGED <<dnsVars, protocol, worker, cancelled, timeUp, limit,
                 canceller, talk, secure>>

Dial ==
  /\ Dialing
  /\ DialNext
  /\ UNCHANGED <<dnsVars, protocol, worker, clock, limit, canceller, talk,
                 secure>>

AroundDial ==
  /\ \/ Dialing /\ (Answer \/ End \/ DeadlinePasses)
     \/ WatcherNext
  /\ UNCHANGED <<dnsVars, protocol, worker, clock, limit, canceller, talk,
                 secure>>

(* The worker has its connection or its error. *)
Dialed ==
  /\ stage = "dial"
  /\ \/ result = "conn" /\ stage' = "deadline"
     \/ result = "error" /\ stage' = IF cancelled THEN "gone" ELSE "closed"
  /\ UNCHANGED <<vars, dnsVars, protocol, outcome, clock, limit, canceller,
                 talk, secure>>

-----------------------------------------------------------------------------
(* Registry.Run, before the handshake. *)

(* The earlier one of the two deadlines; if it cannot be set, Run returns  *)
(* without a look at the context.                                          *)
SetLimit ==
  /\ stage = "deadline"
  /\ \/ /\ limit' = "set"
        /\ stage' = "arm"
        /\ UNCHANGED outcome
     \/ /\ outcome' = "failed"
        /\ stage' = "close"
        /\ UNCHANGED limit
  /\ UNCHANGED <<vars, dnsVars, protocol, clock, canceller, talk, secure>>

(* AfterFunc; then the conversation begins, as the server will have it. *)
ArmCanceller ==
  /\ stage = "arm"
  /\ canceller' = "armed"
  /\ stage' = "talk"
  /\ \E conversation \in Conversations[protocol] :
       /\ script' = conversation.turns
       /\ secure' = conversation.tls
  /\ UNCHANGED <<vars, dnsVars, protocol, outcome, clock, limit, secured,
                 buffered, lines, declared, made, looked>>

TimePasses ==
  /\ Eventful
  /\ limit = "set"
  /\ ~timeUp
  /\ timeUp' = TRUE
  /\ UNCHANGED <<vars, dnsVars, protocol, worker, cancelled, expired, limit,
                 canceller, talk, secure>>

(* The canceller: AfterFunc starts it once ctx is done. *)
CancellerStarts ==
  /\ canceller = "armed"
  /\ cancelled
  /\ canceller' = "started"
  /\ UNCHANGED <<vars, dnsVars, protocol, worker, clock, limit, talk, secure>>

(* Mutant of CancellerHurries: the deadline is taken away. *)
CancellerClears ==
  /\ canceller = "started"
  /\ canceller' = "fired"
  /\ limit' = "none"
  /\ UNCHANGED <<vars, dnsVars, protocol, worker, clock, talk, secure>>

CancellerHurries ==
  /\ canceller = "started"
  /\ canceller' = "fired"
  /\ limit' = "past"
  /\ UNCHANGED <<vars, dnsVars, protocol, worker, clock, talk, secure>>

CancellerNext == CancellerStarts \/ CancellerHurries

-----------------------------------------------------------------------------
(* The handshake.  Reading and writing fail once the deadline has passed,  *)
(* whether or not there is something to read.                              *)

Turn == Head(script)
Through(op) == stage = "talk" /\ script # <<>> /\ Turn.op = op

Overdue == limit = "past" \/ (limit = "set" /\ (timeUp \/ expired))
InTime  == Turn.via # "memory" => ~Overdue

(* ReadLine of bufio takes what has arrived of a line for the whole line,  *)
(* even if the deadline has broken it off.                                 *)
Readable == InTime \/ (Turn.op = "lines" /\ buffered)

TurnDone == script' = Tail(script)

(* The handshake returns. *)
HandBack(error) ==
  /\ outcome' = error
  /\ stage' = "stop"

(* request.Write, writeAll; and reading an HTTP response, whose content is *)
(* as expected.                                                            *)
Exchange ==
  /\ Through("write") \/ Through("response")
  /\ InTime
  /\ TurnDone
  /\ UNCHANGED <<vars, dnsVars, protocol, worker, clock, limit, canceller,
                 secured, buffered, lines, declared, made, looked, secure>>

HandshakeTLS ==
  /\ Through("tls")
  /\ InTime
  /\ secured' = TRUE
  /\ TurnDone
  /\ UNCHANGED <<vars, dnsVars, protocol, worker, clock, limit, canceller,
                 buffered, lines, declared, made, looked, secure>>

(* HandshakeContext watches ctx too and closes the connection. *)
InterruptTLS ==
  /\ Through("tls")
  /\ cancelled
  /\ ClientCloses
  /\ HandBack("hurried")
  /\ UNCHANGED <<dnsVars, protocol, clock, limit, canceller, talk, secure>>

(* Mutant of CheckBuffered: what came with the answer is left there. *)
CheckNothing ==
  /\ Through("alone")
  /\ TurnDone
  /\ UNCHANGED <<vars, dnsVars, protocol, worker, clock, limit, canceller,
                 secured, buffered, lines, declared, made, looked, secure>>

(* if reader.Buffered() != 0 *)
CheckBuffered ==
  /\ Through("alone")
  /\ IF buffered THEN HandBack("failed") /\ UNCHANGED script
     ELSE TurnDone /\ UNCHANGED worker
  /\ UNCHANGED <<vars, dnsVars, protocol, clock, limit, canceller, secured,
                 buffered, lines, declared, made, looked, secure>>

(* Something that the reader has not been asked for yet, or a line that is *)
(* not over.                                                               *)
MoreArrives ==
  /\ Through("lines")
  /\ InTime
  /\ ~buffered
  /\ buffered' = TRUE
  /\ UNCHANGED <<vars, dnsVars, protocol, worker, clock, limit, canceller,
                 script, secured, lines, declared, made, looked, secure>>

(* readLine: the line that was waited for, or another one that does not    *)
(* end the waiting and is not the last one that is read.                   *)
ReadLine ==
  /\ Through("lines")
  /\ Readable
  /\ \/ TurnDone /\ lines' = 0
     \/ /\ lines + 1 < Turn.most
        /\ lines' = lines + 1
        /\ UNCHANGED script
  /\ buffered' \in BOOLEAN
  /\ UNCHANGED <<vars, dnsVars, protocol, worker, clock, limit, canceller,
                 secured, declared, made, looked, secure>>

(* io.ReadFull into a buffer of known size; PostgreSQL reads its one byte  *)
(* through a buffered reader.                                              *)
ReadFixed ==
  /\ Through("fixed")
  /\ InTime
  /\ made' = Turn.size
  /\ looked' = Turn.size
  /\ buffered' \in (IF protocol = "postgresql" THEN BOOLEAN ELSE {FALSE})
  /\ TurnDone
  /\ UNCHANGED <<vars, dnsVars, protocol, worker, clock, limit, canceller,
                 secured, lines, declared, secure>>

ReadField ==
  /\ Through("field")
  /\ InTime
  /\ declared' \in {n \in Lengths : n <= Turn.top}
  /\ Turn.low <= declared' /\ declared' <= Turn.high
  /\ TurnDone
  /\ UNCHANGED <<vars, dnsVars, protocol, worker, clock, limit, canceller,
                 secured, buffered, lines, made, looked, secure>>

(* The longest look that a buffer of this size admits. *)
Look(looks, size) ==
  LET admitted == {look \in looks : look[1] <= size}
  IN  IF admitted = {} THEN 0 ELSE Max({look[2] : look \in admitted})

ReadRest ==
  /\ Through("rest")
  /\ InTime
  /\ made' = declared - Turn.less
  /\ IF made' < Turn.need
     THEN HandBack("failed") /\ looked' = 0 /\ UNCHANGED script
     ELSE looked' = Look(Turn.looks, made') /\ TurnDone /\ UNCHANGED worker
  /\ IF protocol = "dns"
     THEN DnsReceive /\ Len(answer'.bytes) = declared
     ELSE UNCHANGED dnsVars
  /\ UNCHANGED <<vars, protocol, clock, limit, canceller, secured, buffered,
                 lines, declared, secure>>

(* The records of a DNS answer: the parser runs until it has its result.   *)
ParseRecords ==
  /\ Through("records")
  /\ \/ DnsParse /\ UNCHANGED <<worker, script>>
     \/ /\ DnsReturn
        /\ IF phase = "accepted" THEN TurnDone /\ UNCHANGED worker
           ELSE HandBack("failed") /\ UNCHANGED script
  /\ UNCHANGED <<vars, protocol, clock, limit, canceller, secured, buffered,
                 lines, declared, made, looked, secure>>

(* The conversation is over: the protocol is recognized. *)
Recognize ==
  /\ stage = "talk"
  /\ script = <<>>
  /\ HandBack("ok")
  /\ UNCHANGED <<vars, dnsVars, protocol, clock, limit, canceller, talk, secure>>

(* The server closes the connection or says what is not expected. *)
Disappoint ==
  /\ stage = "talk"
  /\ script # <<>> /\ Turn.op \notin {"alone", "records"}
  /\ Readable
  /\ HandBack("failed")
  /\ UNCHANGED <<vars, dnsVars, protocol, clock, limit, canceller, talk, secure>>

(* Reading or writing fails for the deadline. *)
CutShort ==
  /\ stage = "talk"
  /\ script # <<>> /\ Turn.via # "memory"
  /\ Overdue
  /\ HandBack(IF limit = "past" THEN "hurried"
             ELSE IF expired THEN "cut" ELSE "failed")
  /\ UNCHANGED <<vars, dnsVars, protocol, clock, limit, canceller, talk, secure>>

-----------------------------------------------------------------------------
(* Registry.Run, after the handshake, and the worker. *)

(* stopCancellation() does not wait for a function that has started.  What *)
(* the handshake has kept is gone.                                         *)
StopCanceller ==
  /\ stage = "stop"
  /\ canceller' = IF canceller = "armed" THEN "stopped" ELSE canceller
  /\ stage' = "reset"
  /\ script' = <<>> /\ secure' = FALSE /\ secured' = FALSE
  /\ buffered' = FALSE /\ lines' = 0
  /\ declared' = 0 /\ made' = 0 /\ looked' = 0
  /\ UNCHANGED <<vars, dnsVars, protocol, outcome, clock, limit>>

ResetLimit ==
  /\ stage = "reset"
  /\ limit' = "none"
  /\ stage' = "look"
  /\ UNCHANGED <<vars, dnsVars, protocol, outcome, clock, canceller, talk,
                 secure>>

(* Mutant of LookAtContext: the error of the handshake has precedence. *)
LookAfterErrors ==
  /\ stage = "look"
  /\ outcome' = IF cancelled /\ outcome = "ok" THEN "interrupted" ELSE outcome
  /\ stage' = "close"
  /\ UNCHANGED <<vars, dnsVars, protocol, clock, limit, canceller, talk, secure>>

(* if ctx.Err() != nil, whatever the handshake has returned *)
LookAtContext ==
  /\ stage = "look"
  /\ outcome' = IF cancelled THEN "interrupted" ELSE outcome
  /\ stage' = "close"
  /\ UNCHANGED <<vars, dnsVars, protocol, clock, limit, canceller, talk, secure>>

(* Mutant of CloseProbed: the connection is left to the next probe.        *)
CloseForgotten ==
  /\ stage = "close"
  /\ stage' = "inspect"
  /\ UNCHANGED <<vars, dnsVars, protocol, outcome, clock, limit, canceller,
                 talk, secure>>

CloseProbed ==
  /\ stage = "close"
  /\ ClientCloses
  /\ stage' = "inspect"
  /\ UNCHANGED <<dnsVars, protocol, outcome, clock, limit, canceller, talk,
                 secure>>

InspectContext ==
  /\ stage = "inspect"
  /\ stage' = IF cancelled THEN "gone" ELSE "open"
  /\ UNCHANGED <<vars, dnsVars, protocol, outcome, clock, limit, canceller,
                 talk, secure>>

Talk ==
  \/ Exchange \/ HandshakeTLS \/ InterruptTLS \/ CheckBuffered \/ ReadLine
  \/ ReadFixed \/ ReadField \/ ReadRest \/ ParseRecords \/ Recognize
  \/ Disappoint \/ CutShort

WorkerMoves ==
  \/ Dialed \/ SetLimit \/ ArmCanceller \/ Talk \/ StopCanceller \/ ResetLimit
  \/ LookAtContext \/ CloseProbed \/ InspectContext

RunNext ==
  \/ Dial \/ AroundDial \/ WorkerMoves \/ CancellerNext \/ MoreArrives
  \/ CancelScan \/ ExpireScan \/ TimePasses
  \/ CheckOver /\ UNCHANGED runVars

RunSpec == RunInit /\ [][RunNext]_runVars

(* A worker that waits for the server may wait for ever as far as the      *)
(* server is concerned.  Everything else that can run does run, and the    *)
(* end of a context reaches the contexts derived from it.                  *)
Waiting == stage = "talk" /\ script # <<>> /\ Turn.via # "memory" /\ ~Overdue

FairRunSpec ==
  /\ RunSpec
  /\ WF_runVars(~Waiting /\ WorkerMoves)
  /\ WF_runVars(CancellerNext)
  /\ WF_runVars(Dial)
  /\ WF_runVars(AroundDial /\ WatcherNext)
  /\ WF_runVars(AroundDial /\ cancelled /\ End)

-----------------------------------------------------------------------------
(* Properties. *)

RunTypeOK ==
  /\ protocol \in Names
  /\ stage \in {"dial", "deadline", "arm", "talk", "stop", "reset", "look",
                "close", "inspect", "gone", "closed", "open"}
  /\ cancelled \in BOOLEAN /\ expired \in BOOLEAN /\ timeUp \in BOOLEAN
  /\ limit \in {"none", "set", "past"}
  /\ canceller \in {"none", "armed", "started", "fired", "stopped"}
  /\ secure \in BOOLEAN /\ secured \in BOOLEAN /\ buffered \in BOOLEAN
  /\ lines \in Nat /\ declared \in Nat /\ made \in Int /\ looked \in Nat
  /\ outcome \in {"none", "ok", "failed", "cut", "hurried", "interrupted"}

(* The inductive invariant of the stages: what the result may be, and that *)
(* nobody but the end of ctx sets the canceller off.                       *)
RunInv ==
  /\ stage \in {"dial", "deadline", "arm", "talk", "stop", "reset", "look",
                "close", "inspect", "gone", "closed", "open"}
  /\ stage \in {"dial", "deadline", "arm", "talk", "closed"} => outcome = "none"
  /\ stage \in {"stop", "reset", "look"} =>
       \/ outcome \in {"ok", "failed"}
       \/ outcome = "cut" /\ expired
       \/ outcome = "hurried" /\ cancelled
  /\ limit = "past" => cancelled
  /\ canceller \in {"started", "fired"} => cancelled

(* The inductive invariant of the connection: which stages are reached     *)
(* with one, and that it is closed from "inspect" on.                      *)
LeftInv ==
  /\ stage \notin {"dial", "closed", "gone"} => result = "conn"
  /\ stage \in {"inspect", "open"} => conn = "closed"
  /\ stage = "closed" => result = "error"
  /\ stage = "gone" => result = "error" \/ (result = "conn" /\ conn = "closed")
  /\ stage \notin {"talk", "stop"} => canceller # "armed"

(* A check that is over, in whatever way, leaves no connection open, and   *)
(* neither the watcher of its dial nor the canceller of its handshake      *)
(* waits any longer for a context that may last as long as the scan.       *)
CheckLeavesNothing ==
  CheckOver =>
    /\ conn # "open"
    /\ watcher \notin {"armed", "started"}
    /\ canceller # "armed"

(* Whatever lengths a server declares, no handshake looks at a byte that   *)
(* its buffer does not have, none makes a buffer of a negative size or of  *)
(* more than a megabyte, and the parser of DNS stays in its message.       *)
InsideBuffer ==
  /\ 0 <= made /\ made <= MB
  /\ looked <= made
  /\ DnsInside

(* What follows the agreement on TLS goes through TLS, a protocol is not   *)
(* recognized without the TLS that was agreed on, and PostgreSQL does not  *)
(* start TLS over bytes that came before it.                               *)
SecureAsAgreed ==
  /\ stage = "talk" /\ script # <<>> /\ Turn.op # "tls" =>
       IF secured THEN Turn.via # "clear" ELSE Turn.via # "tls"
  /\ outcome = "ok" => (secured <=> secure)
  /\ protocol = "postgresql" /\ secured => ~buffered

(* The worker of Scanner that makes this check, the only one.              *)
AsPC ==
  CASE stage = "dial" -> "dial"
    [] stage \in {"deadline", "arm", "talk", "stop", "reset", "look"} -> "probe"
    [] stage \in {"close", "inspect"} -> "inspect"
    [] stage \in {"closed", "open"} -> "report"
    [] stage = "gone" -> "done"

AsConn   == IF AsPC = "probe" THEN TRUE ELSE FALSE
AsError  == IF stage = "closed" THEN "other" ELSE "none"
AsProbes == IF AsPC \in {"inspect", "report", "done"} /\ outcome # "none"
            THEN <<outcome>> ELSE <<>>

AsConfig == [workers |-> 1, timed |-> TRUE]
Announcement ==
  [kind |-> "checking", check |-> 1, err |-> "none", probes |-> <<>>]

S == INSTANCE Scanner WITH
       NumChecks <- 1, Configs <- {AsConfig}, Protocols <- <<1>>,
       DialErrors <- {"other"},
       config <- AsConfig, feeder <- "waiting", sent <- 1, taken <- 1,
       pc <- <<AsPC>>, check <- <<1>>, conn <- <<AsConn>>,
       err <- <<AsError>>, probes <- <<AsProbes>>,
       log <- <<Announcement>>, read <- 0

(* The dial, the handshake and everything that races with them come to     *)
(* what the worker of Scanner does in one step: in particular, a handshake *)
(* that the canceller has cut short is never taken for one that failed.    *)
StepsOfWorker ==
  [][\/ S!DialOpen(1) \/ S!DialFail(1) \/ S!DialCancelled(1)
     \/ S!Probe(1) \/ S!Inspect(1) \/ S!Expire \/ S!Cancel]_(S!vars)

(* The cancellation of the scan, its deadline, and the timeout of the      *)
(* probe each end the check, whatever the proxy and the server do.         *)
CheckEnds == (cancelled \/ expired \/ timeUp) ~> CheckOver
=============================================================================
