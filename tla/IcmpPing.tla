------------------------------- MODULE IcmpPing -------------------------------
(***************************************************************************)
(* internal/discovery/icmp.go: the workers of a discovery ping their       *)
(* targets concurrently through one pinger.  Every attempt opens a socket  *)
(* of its own and takes the next sequence number of a shared counter, of   *)
(* which the message has room for 16 bits.  The kernel gives a datagram    *)
(* socket only the replies to its own requests, and a raw socket every     *)
(* ICMP message that reaches the machine.                                  *)
(***************************************************************************)
EXTENDS Integers

CONSTANTS
  NumPings,      \* concurrent calls of Ping
  MaxAddresses,  \* MaxAddresses[p]: the most addresses its target has
  SeqModulus,    \* 2^16 in the code
  Sockets,       \* the kinds of sockets the system allows
  Strangers      \* whether other programs of the machine ping, too

ASSUME NumPingsAssumption     == NumPings \in Nat \ {0}
ASSUME MaxAddressesAssumption == MaxAddresses \in [1..NumPings -> Nat \ {0}]
ASSUME SeqModulusAssumption   == SeqModulus \in Nat \ {0}
ASSUME SocketsAssumption      == Sockets \subseteq {"datagram", "raw"}
ASSUME StrangersAssumption    == Strangers \in BOOLEAN

VARIABLES
  cancelled,  \* ctx.Err() # nil
  counter,    \* icmpPinger.seq
  pc,         \* each call: "resolve", "open", "send", "read", "done"
  addresses,  \* how many addresses its target has
  at,         \* the address it is trying
  failed,     \* whether an attempt failed with an error
  socket,     \* its socket: "none" or the kind of it
  seq,        \* the sequence number it waits for
  cut,        \* whether the deadline of its socket has passed
  inbox,      \* the messages its socket has received
  result,     \* "none", "alive", "silent", "failed", "canceled"
  requests,   \* history: requests on the network
  replied     \* history: addresses whose reply has arrived

pingVars == <<pc, addresses, at, failed, socket, seq, cut, inbox, result>>
vars == <<cancelled, counter, pingVars, requests, replied>>

Pings     == 1..NumPings
Addresses == Pings \X (Nat \ {0})
SeqNums   == 0..(SeqModulus - 1)

Message(kind, n) == [kind |-> kind, seq |-> n]
Messages == [kind : {"reply", "garbage"}, seq : SeqNums]

Init ==
  /\ cancelled = FALSE
  /\ counter = 0
  /\ pc = [p \in Pings |-> "resolve"]
  /\ addresses = [p \in Pings |-> 1]
  /\ at = [p \in Pings |-> 1]
  /\ failed = [p \in Pings |-> FALSE]
  /\ socket = [p \in Pings |-> "none"]
  /\ seq = [p \in Pings |-> 0]
  /\ cut = [p \in Pings |-> FALSE]
  /\ inbox = [p \in Pings |-> {}]
  /\ result = [p \in Pings |-> "none"]
  /\ requests = {}
  /\ replied = {}

-----------------------------------------------------------------------------
(* The context, the clock and the network. *)

Cancel ==
  /\ ~cancelled
  /\ cancelled' = TRUE
  /\ UNCHANGED <<counter, pingVars, requests, replied>>

(* The deadline of a socket passes, by the clock or, once the context has  *)
(* ended, by the function given to AfterFunc.                              *)
Cut(p) ==
  /\ socket[p] # "none"
  /\ ~cut[p]
  /\ cut' = [cut EXCEPT ![p] = TRUE]
  /\ UNCHANGED <<cancelled, counter, pc, addresses, at, failed, socket, seq,
                 inbox, result, requests, replied>>

Deadline(p) == Cut(p)

(* Mutant of AfterFunc: the function is not registered. *)
AfterFuncNever(p) == cancelled /\ cut[p] /\ Cut(p)

AfterFunc(p) == cancelled /\ Cut(p)

Deliver(receivers, message) ==
  inbox' = [p \in Pings |-> IF p \in receivers THEN inbox[p] \cup {message}
                            ELSE inbox[p]]

RawSockets == {p \in Pings : socket[p] = "raw"}

(* An address answers a request, at any later time. *)
Reply(r) ==
  /\ r.address \notin replied
  /\ replied' = replied \cup {r.address}
  /\ LET p == r.address[1]
         own == {p} \cap {q \in Pings : socket[q] = "datagram"
                                        /\ pc[q] = "read"
                                        /\ at[q] = r.address[2]}
     IN  Deliver(RawSockets \cup own, Message("reply", r.seq))
  /\ UNCHANGED <<cancelled, counter, pc, addresses, at, failed, socket, seq,
                 cut, result, requests>>

(* Another message reaches the machine: one that cannot be parsed or, with *)
(* Strangers, the reply to somebody else's ping.  Messages of other types  *)
(* are read and dropped and have no effect.                                *)
Noise(kind, n) ==
  /\ IF kind = "reply" THEN Strangers ELSE n = 0
  /\ RawSockets # {}
  /\ Deliver(RawSockets, Message(kind, n))
  /\ UNCHANGED <<cancelled, counter, pc, addresses, at, failed, socket, seq,
                 cut, result, requests, replied>>

Network ==
  \/ \E r \in requests : Reply(r)
  \/ \E kind \in {"reply", "garbage"}, n \in SeqNums : Noise(kind, n)
  \/ \E p \in Pings : Deadline(p)

-----------------------------------------------------------------------------
(* One call of Ping. *)

Goto(p, label) == pc' = [pc EXCEPT ![p] = label]
Finish(p, outcome) ==
  /\ Goto(p, "done")
  /\ result' = [result EXCEPT ![p] = outcome]

(* resolve: the literal or the addresses of the name, or an error *)
Resolve(p) ==
  /\ pc[p] = "resolve"
  /\ \/ /\ \E n \in 1..MaxAddresses[p] : addresses' = [addresses EXCEPT ![p] = n]
        /\ Goto(p, "open")
        /\ UNCHANGED result
     \/ Finish(p, "failed") /\ UNCHANGED addresses
  /\ UNCHANGED <<cancelled, counter, at, failed, socket, seq, cut, inbox,
                 requests, replied>>

(* Mutant of LastAddress: the loop ends one address early. *)
LastAddressEarly(p) == at[p] >= addresses[p] - 1

LastAddress(p) == at[p] = addresses[p]

(* pingAddress returned without a reply: the loop of Ping goes on with the *)
(* next address, unless the context has ended.                             *)
NextAddress(p, error) ==
  /\ failed' = [failed EXCEPT ![p] = @ \/ error]
  /\ IF cancelled THEN Finish(p, "canceled") /\ UNCHANGED at
     ELSE IF LastAddress(p)
     THEN Finish(p, IF failed[p] \/ error THEN "failed" ELSE "silent")
          /\ UNCHANGED at
     ELSE /\ at' = [at EXCEPT ![p] = @ + 1]
          /\ Goto(p, "open")
          /\ UNCHANGED result

CloseSocket(p) ==
  /\ socket' = [socket EXCEPT ![p] = "none"]
  /\ inbox' = [inbox EXCEPT ![p] = {}]
  /\ cut' = [cut EXCEPT ![p] = FALSE]

(* A datagram socket if the system allows one, else a raw one.  An ended   *)
(* context is noticed before.                                              *)
Open(p) ==
  /\ pc[p] = "open"
  /\ \/ /\ ~cancelled
        /\ \E kind \in Sockets : socket' = [socket EXCEPT ![p] = kind]
        /\ Goto(p, "send")
        /\ UNCHANGED <<at, failed, result>>
     \/ NextAddress(p, TRUE) /\ UNCHANGED socket
  /\ UNCHANGED <<cancelled, counter, addresses, seq, cut, inbox, requests,
                 replied>>

(* Mutant of NextSeq: it does not depend on the shared counter.            *)
NextSeqFixed == 1 % SeqModulus

NextSeq == (counter + 1) % SeqModulus

(* Mutant of Send: a request that cannot be sent leaves the socket open.   *)
SendFailsOpen(p) ==
  /\ pc[p] = "send"
  /\ counter' = NextSeq
  /\ NextAddress(p, TRUE)
  /\ UNCHANGED <<cancelled, addresses, socket, seq, cut, inbox, requests,
                 replied>>

(* The socket gets its deadline and the request the next number; either    *)
(* the deadline cannot be set, or the request is sent, or cannot be sent.  *)
Send(p) ==
  /\ pc[p] = "send"
  /\ \/ /\ counter' = NextSeq
        /\ seq' = [seq EXCEPT ![p] = NextSeq]
        /\ requests' = requests \cup
             {[address |-> <<p, at[p]>>, seq |-> NextSeq]}
        /\ Goto(p, "read")
        /\ UNCHANGED <<at, failed, socket, cut, inbox, result>>
     \/ /\ counter' \in {counter, NextSeq}
        /\ CloseSocket(p)
        /\ NextAddress(p, TRUE)
        /\ UNCHANGED <<seq, requests>>
  /\ UNCHANGED <<cancelled, addresses, replied>>

Matches(p, message) == message.kind = "reply" /\ message.seq = seq[p]

(* One iteration of the loop: a message is read before the deadline. *)
Read(p) ==
  /\ pc[p] = "read"
  /\ ~cut[p]
  /\ \E message \in inbox[p] :
       IF message.kind = "garbage"
       THEN CloseSocket(p) /\ NextAddress(p, TRUE)
       ELSE IF Matches(p, message)
       THEN CloseSocket(p) /\ Finish(p, "alive") /\ UNCHANGED <<at, failed>>
       ELSE /\ inbox' = [inbox EXCEPT ![p] = @ \ {message}]
            /\ UNCHANGED <<pc, at, failed, socket, cut, result>>
  /\ UNCHANGED <<cancelled, counter, addresses, seq, requests, replied>>

(* ReadFrom fails by the deadline, which is no error ... *)
TimedOut(p) ==
  /\ pc[p] = "read"
  /\ cut[p]
  /\ NextAddress(p, FALSE)
  /\ CloseSocket(p)
  /\ UNCHANGED <<cancelled, counter, addresses, seq, requests, replied>>

(* ... or for another reason. *)
ReadError(p) ==
  /\ pc[p] = "read"
  /\ NextAddress(p, TRUE)
  /\ CloseSocket(p)
  /\ UNCHANGED <<cancelled, counter, addresses, seq, requests, replied>>

Runs(p) == Resolve(p) \/ Open(p) \/ Send(p) \/ Read(p) \/ TimedOut(p)

AllDone == \A p \in Pings : pc[p] = "done"

Next ==
  \/ \E p \in Pings : Runs(p) \/ ReadError(p) \/ AfterFunc(p)
  \/ Network
  \/ Cancel
  \/ AllDone /\ UNCHANGED vars

Spec == Init /\ [][Next]_vars

(* Goroutines that can run do run, the one of AfterFunc, too.  Nothing is  *)
(* assumed of the network or of the clock.                                 *)
FairSpec ==
  Spec /\ \A p \in Pings : WF_vars(Runs(p)) /\ WF_vars(AfterFunc(p))

-----------------------------------------------------------------------------

TypeOK ==
  /\ cancelled \in BOOLEAN
  /\ counter \in SeqNums
  /\ pc \in [Pings -> {"resolve", "open", "send", "read", "done"}]
  /\ addresses \in [Pings -> Nat \ {0}]
  /\ \A p \in Pings : at[p] \in 1..addresses[p]
  /\ failed \in [Pings -> BOOLEAN]
  /\ socket \in [Pings -> {"none", "datagram", "raw"}]
  /\ seq \in [Pings -> SeqNums]
  /\ cut \in [Pings -> BOOLEAN]
  /\ inbox \in [Pings -> SUBSET Messages]
  /\ result \in [Pings -> {"none", "alive", "silent", "failed", "canceled"}]
  /\ requests \subseteq [address : Addresses, seq : SeqNums]
  /\ replied \subseteq Addresses

(* A target is found alive only if the address that was tried last has     *)
(* answered its own request, although all pings share one counter and raw  *)
(* sockets receive each other's replies.                                   *)
AliveAnswered ==
  \A p \in Pings : result[p] = "alive" => <<p, at[p]>> \in replied

(* A target is called silent, without any error, only after a request to   *)
(* each of its addresses.                                                  *)
SilentWasAsked ==
  \A p \in Pings : result[p] = "silent" =>
    \A k \in 1..addresses[p] :
      \E r \in requests : r.address = <<p, k>>

(* No way out of an attempt leaves its socket open. *)
NoSocketLeft ==
  \A p \in Pings : pc[p] \in {"resolve", "open", "done"} =>
    socket[p] = "none" /\ inbox[p] = {}

(* Once the context has ended every call returns, without the help of the  *)
(* clock, of the network or of any target.                                 *)
CancelEndsPings == cancelled ~> AllDone
=============================================================================
