---------------------------- MODULE IcmpPingProofs ----------------------------
(***************************************************************************)
(* The pinger of internal/discovery for any number of calls, of addresses  *)
(* and of sequence numbers.                                                *)
(***************************************************************************)
EXTENDS IcmpPing, FiniteSetTheorems, TLAPS

-----------------------------------------------------------------------------
(* The inductive invariant. *)

(* Where a call is in the list of its addresses. *)
PlaceInv ==
  /\ at \in [Pings -> Nat \ {0}]
  /\ \A p \in Pings : /\ addresses[p] <= MaxAddresses[p]
                      /\ pc[p] = "resolve" => at[p] = 1 /\ ~failed[p]
                      /\ result[p] # "none" <=> pc[p] = "done"

(* Who waits for a reply has sent the request, and a call without an error *)
(* has sent one to each address it has left behind.                        *)
AskedInv ==
  \A p \in Pings :
    /\ pc[p] = "read" => [address |-> <<p, at[p]>>, seq |-> seq[p]] \in requests
    /\ ~failed[p] => \A k \in 1..(at[p] - 1) :
                       \E r \in requests : r.address = <<p, k>>

PingInv == TypeOK /\ NoSocketLeft /\ PlaceInv /\ AskedInv /\ SilentWasAsked

LEMMA NextSeqType ==
  ASSUME counter \in SeqNums
  PROVE  NextSeq \in SeqNums
BY SeqModulusAssumption DEF NextSeq, SeqNums

LEMMA PingInit == Init => PingInv
<1> SUFFICES ASSUME Init PROVE PingInv
  OBVIOUS
<1>1. /\ counter \in SeqNums
      /\ seq \in [Pings -> SeqNums]
      /\ addresses \in [Pings -> Nat \ {0}]
      /\ at \in [Pings -> Nat \ {0}]
      /\ \A p \in Pings : at[p] \in 1..addresses[p]
  BY SeqModulusAssumption DEF Init, SeqNums
<1>2. /\ cancelled \in BOOLEAN
      /\ pc \in [Pings -> {"resolve", "open", "send", "read", "done"}]
      /\ failed \in [Pings -> BOOLEAN]
      /\ socket \in [Pings -> {"none", "datagram", "raw"}]
      /\ cut \in [Pings -> BOOLEAN]
      /\ inbox \in [Pings -> SUBSET Messages]
      /\ result \in [Pings -> {"none", "alive", "silent", "failed", "canceled"}]
      /\ requests \subseteq [address : Addresses, seq : SeqNums]
      /\ replied \subseteq Addresses
  BY DEF Init
<1>3. TypeOK
  BY <1>1, <1>2 DEF TypeOK
<1>4. NoSocketLeft
  BY DEF Init, NoSocketLeft
<1>5. PlaceInv
  BY <1>1, MaxAddressesAssumption DEF Init, PlaceInv, Pings
<1>6. AskedInv /\ SilentWasAsked
  BY DEF Init, AskedInv, SilentWasAsked
<1> QED
  BY <1>3, <1>4, <1>5, <1>6 DEF PingInv

(* How an attempt of p without a reply goes on. *)
LEMMA NextAddressIs ==
  ASSUME PingInv, NEW p \in Pings, NEW error \in BOOLEAN, NextAddress(p, error)
  PROVE  /\ pc' \in [Pings -> {"resolve", "open", "send", "read", "done"}]
         /\ at' \in [Pings -> Nat \ {0}]
         /\ failed' \in [Pings -> BOOLEAN]
         /\ result' \in [Pings -> {"none", "alive", "silent", "failed", "canceled"}]
         /\ \A q \in Pings \ {p} : /\ pc'[q] = pc[q] /\ at'[q] = at[q]
                                   /\ failed'[q] = failed[q] /\ result'[q] = result[q]
         /\ failed'[p] <=> failed[p] \/ error
         /\ \/ pc'[p] = "done" /\ at'[p] = at[p] /\ result'[p] \in {"canceled", "failed"}
            \/ /\ pc'[p] = "done" /\ at'[p] = at[p] /\ result'[p] = "silent"
               /\ at[p] = addresses[p] /\ ~failed[p] /\ ~error
            \/ /\ pc'[p] = "open" /\ at'[p] = at[p] + 1 /\ at[p] # addresses[p]
               /\ result'[p] = result[p]
<1>1. /\ pc \in [Pings -> {"resolve", "open", "send", "read", "done"}]
      /\ at \in [Pings -> Nat \ {0}]
      /\ failed \in [Pings -> BOOLEAN]
      /\ result \in [Pings -> {"none", "alive", "silent", "failed", "canceled"}]
  BY DEF PingInv, TypeOK, PlaceInv
<1>2. failed' = [failed EXCEPT ![p] = failed[p] \/ error]
  BY DEF NextAddress
<1>3. /\ failed' \in [Pings -> BOOLEAN]
      /\ \A q \in Pings \ {p} : failed'[q] = failed[q]
      /\ failed'[p] <=> failed[p] \/ error
  BY <1>1, <1>2
<1>4. CASE cancelled
  <2>1. /\ pc' = [pc EXCEPT ![p] = "done"]
        /\ result' = [result EXCEPT ![p] = "canceled"]
        /\ at' = at
    BY <1>4 DEF NextAddress, Finish, Goto
  <2> QED
    BY <1>1, <1>3, <2>1
<1>5. CASE ~cancelled /\ at[p] = addresses[p]
  <2> DEFINE end == IF failed[p] \/ error THEN "failed" ELSE "silent"
  <2>1. /\ pc' = [pc EXCEPT ![p] = "done"]
        /\ result' = [result EXCEPT ![p] = end]
        /\ at' = at
    BY <1>5 DEF NextAddress, Finish, Goto, LastAddress
  <2>2. end \in {"failed", "silent"} /\ (end = "silent" => ~failed[p] /\ ~error)
    BY <1>1
  <2> HIDE DEF end
  <2> QED
    BY <1>1, <1>3, <1>5, <2>1, <2>2
<1>6. CASE ~cancelled /\ at[p] # addresses[p]
  <2>1. /\ pc' = [pc EXCEPT ![p] = "open"]
        /\ at' = [at EXCEPT ![p] = at[p] + 1]
        /\ result' = result
    BY <1>6 DEF NextAddress, Goto, LastAddress
  <2> QED
    BY <1>1, <1>3, <1>6, <2>1
<1> QED
  BY <1>4, <1>5, <1>6

(* Every way out of an attempt without a reply: its socket, if it has one, *)
(* is closed, and no error was noticed only if it waited for the reply.    *)
Gives(p, error) ==
  /\ pc[p] \in {"open", "send", "read"}
  /\ pc[p] # "read" => error
  /\ NextAddress(p, error)
  /\ socket' \in [Pings -> {"none", "datagram", "raw"}]
  /\ inbox' \in [Pings -> SUBSET Messages]
  /\ cut' \in [Pings -> BOOLEAN]
  /\ \A q \in Pings \ {p} : socket'[q] = socket[q] /\ inbox'[q] = inbox[q]
  /\ socket'[p] = "none" /\ inbox'[p] = {}
  /\ counter' \in SeqNums
  /\ pc[p] # "send" => counter' = counter
  /\ counter' \in {counter, NextSeq}
  /\ UNCHANGED <<cancelled, addresses, seq, requests, replied>>

LEMMA GivesKeeps ==
  ASSUME PingInv, NEW p \in Pings, NEW error \in BOOLEAN, Gives(p, error)
  PROVE  PingInv'
<1> USE DEF PingInv
<1>0. UNCHANGED <<cancelled, addresses, seq, requests, replied>>
  BY DEF Gives
<1>1. /\ pc' \in [Pings -> {"resolve", "open", "send", "read", "done"}]
      /\ at' \in [Pings -> Nat \ {0}]
      /\ failed' \in [Pings -> BOOLEAN]
      /\ result' \in [Pings -> {"none", "alive", "silent", "failed", "canceled"}]
      /\ \A q \in Pings \ {p} : /\ pc'[q] = pc[q] /\ at'[q] = at[q]
                                /\ failed'[q] = failed[q] /\ result'[q] = result[q]
      /\ failed'[p] <=> failed[p] \/ error
      /\ \/ pc'[p] = "done" /\ at'[p] = at[p] /\ result'[p] \in {"canceled", "failed"}
         \/ /\ pc'[p] = "done" /\ at'[p] = at[p] /\ result'[p] = "silent"
            /\ at[p] = addresses[p] /\ ~failed[p] /\ ~error
         \/ /\ pc'[p] = "open" /\ at'[p] = at[p] + 1 /\ at[p] # addresses[p]
            /\ result'[p] = result[p]
  BY NextAddressIs DEF Gives
<1>2. /\ pc[p] \in {"open", "send", "read"}
      /\ \A q \in Pings \ {p} : socket'[q] = socket[q] /\ inbox'[q] = inbox[q]
      /\ socket'[p] = "none" /\ inbox'[p] = {}
      /\ pc[p] # "read" => error
  BY DEF Gives
<1>3. \A q \in Pings : at[q] \in Nat /\ addresses[q] \in Nat /\ at[q] \in 1..addresses[q]
  BY DEF TypeOK, PlaceInv
<1>4. TypeOK'
  <2>1. \A q \in Pings : at'[q] \in 1..addresses'[q]
    BY <1>0, <1>1, <1>3
  <2>2. /\ socket' \in [Pings -> {"none", "datagram", "raw"}]
        /\ inbox' \in [Pings -> SUBSET Messages]
        /\ cut' \in [Pings -> BOOLEAN]
        /\ counter' \in SeqNums
    BY DEF Gives
  <2> QED
    BY <1>0, <1>1, <2>1, <2>2 DEF TypeOK
<1>5. NoSocketLeft'
  BY <1>1, <1>2 DEF NoSocketLeft
<1>6. PlaceInv'
  <2>1. \A q \in Pings : /\ addresses'[q] <= MaxAddresses[q]
                         /\ pc'[q] = "resolve" => at'[q] = 1 /\ ~failed'[q]
                         /\ result'[q] # "none" <=> pc'[q] = "done"
    BY <1>0, <1>1, <1>2 DEF PlaceInv
  <2> QED
    BY <1>1, <2>1 DEF PlaceInv
<1>7. ASSUME ~error
      PROVE  \E r \in requests : r.address = <<p, at[p]>>
  BY <1>2, <1>7 DEF AskedInv
<1>8. AskedInv'
  <2>1. ASSUME NEW q \in Pings
        PROVE  /\ pc'[q] = "read" =>
                    [address |-> <<q, at'[q]>>, seq |-> seq'[q]] \in requests'
               /\ ~failed'[q] => \A k \in 1..(at'[q] - 1) :
                                   \E r \in requests' : r.address = <<q, k>>
    <3>1. CASE q # p
      BY <1>0, <1>1, <3>1 DEF AskedInv
    <3>2. CASE q = p
      <4>1. pc'[p] # "read"
        BY <1>1
      <4>2. ASSUME ~failed'[p], NEW k \in 1..(at'[p] - 1)
            PROVE  \E r \in requests : r.address = <<p, k>>
        <5>1. ~failed[p] /\ ~error
          BY <1>1, <4>2
        <5>2. k \in 1..(at[p] - 1) \/ k = at[p]
          BY <1>1, <1>3, <4>2
        <5> QED
          BY <1>7, <5>1, <5>2 DEF AskedInv
      <4> QED
        BY <1>0, <3>2, <4>1, <4>2
    <3> QED
      BY <3>1, <3>2
  <2> QED
    BY <2>1 DEF AskedInv
<1>9. SilentWasAsked'
  <2> SUFFICES ASSUME NEW q \in Pings, result'[q] = "silent", NEW k \in 1..addresses[q]
               PROVE  \E r \in requests : r.address = <<q, k>>
    BY <1>0 DEF SilentWasAsked
  <2>1. CASE q # p
    BY <1>1, <2>1 DEF SilentWasAsked
  <2>2. CASE q = p
    <3>1. result[p] = "none"
      BY <1>2 DEF PlaceInv
    <3>2. at[p] = addresses[p] /\ ~failed[p] /\ ~error
      BY <1>1, <2>2, <3>1
    <3>3. k \in 1..(at[p] - 1) \/ k = at[p]
      BY <1>3, <2>2, <3>2
    <3> QED
      BY <1>7, <2>2, <3>2, <3>3 DEF AskedInv
  <2> QED
    BY <2>1, <2>2
<1> QED
  BY <1>4, <1>5, <1>6, <1>8, <1>9

(* The exits of the actions are such ways out. *)
LEMMA CloseSocketIs ==
  ASSUME PingInv, NEW p \in Pings, CloseSocket(p)
  PROVE  /\ socket' \in [Pings -> {"none", "datagram", "raw"}]
         /\ inbox' \in [Pings -> SUBSET Messages]
         /\ cut' \in [Pings -> BOOLEAN]
         /\ \A q \in Pings \ {p} : socket'[q] = socket[q] /\ inbox'[q] = inbox[q]
         /\ socket'[p] = "none" /\ inbox'[p] = {}
BY DEF CloseSocket, PingInv, TypeOK

LEMMA ExitsGive ==
  ASSUME PingInv, NEW p \in Pings
  PROVE  /\ Open(p) => Gives(p, TRUE) \/ /\ pc[p] = "open"
                                         /\ \E kind \in Sockets :
                                              socket' = [socket EXCEPT ![p] = kind]
                                         /\ Goto(p, "send")
                                         /\ UNCHANGED <<at, failed, result>>
         /\ Send(p) => Gives(p, TRUE) \/ /\ pc[p] = "send"
                                         /\ counter' = NextSeq
                                         /\ seq' = [seq EXCEPT ![p] = NextSeq]
                                         /\ requests' = requests \cup
                                              {[address |-> <<p, at[p]>>, seq |-> NextSeq]}
                                         /\ Goto(p, "read")
                                         /\ UNCHANGED <<at, failed, socket, cut, inbox,
                                                        result>>
         /\ TimedOut(p) => Gives(p, FALSE)
         /\ ReadError(p) => Gives(p, TRUE)
<1>1. counter \in SeqNums /\ NextSeq \in SeqNums
  BY NextSeqType DEF PingInv, TypeOK
<1>2. /\ socket \in [Pings -> {"none", "datagram", "raw"}]
      /\ inbox \in [Pings -> SUBSET Messages]
      /\ cut \in [Pings -> BOOLEAN]
      /\ pc[p] = "open" => socket[p] = "none" /\ inbox[p] = {}
  BY DEF PingInv, TypeOK, NoSocketLeft
<1>3. ASSUME pc[p] = "open", NextAddress(p, TRUE), UNCHANGED socket,
             UNCHANGED <<cancelled, counter, addresses, seq, cut, inbox, requests, replied>>
      PROVE  Gives(p, TRUE)
  BY <1>1, <1>2, <1>3 DEF Gives
<1>4. ASSUME NEW error \in BOOLEAN, pc[p] \in {"send", "read"}, pc[p] # "read" => error,
             NextAddress(p, error), CloseSocket(p), counter' \in {counter, NextSeq},
             pc[p] = "read" => counter' = counter,
             UNCHANGED <<cancelled, addresses, seq, requests, replied>>
      PROVE  Gives(p, error)
  <2>1. /\ socket' \in [Pings -> {"none", "datagram", "raw"}]
        /\ inbox' \in [Pings -> SUBSET Messages]
        /\ cut' \in [Pings -> BOOLEAN]
        /\ \A q \in Pings \ {p} : socket'[q] = socket[q] /\ inbox'[q] = inbox[q]
        /\ socket'[p] = "none" /\ inbox'[p] = {}
    BY <1>4, CloseSocketIs
  <2> QED
    BY <1>1, <1>4, <2>1 DEF Gives
<1>5. ASSUME Open(p)
      PROVE  Gives(p, TRUE) \/ /\ pc[p] = "open"
                               /\ \E kind \in Sockets : socket' = [socket EXCEPT ![p] = kind]
                               /\ Goto(p, "send")
                               /\ UNCHANGED <<at, failed, result>>
  BY <1>3, <1>5 DEF Open
<1>6. ASSUME Send(p)
      PROVE  Gives(p, TRUE) \/ /\ pc[p] = "send"
                               /\ counter' = NextSeq
                               /\ seq' = [seq EXCEPT ![p] = NextSeq]
                               /\ requests' = requests \cup
                                    {[address |-> <<p, at[p]>>, seq |-> NextSeq]}
                               /\ Goto(p, "read")
                               /\ UNCHANGED <<at, failed, socket, cut, inbox, result>>
  BY <1>4, <1>6 DEF Send
<1>7. ASSUME TimedOut(p)
      PROVE  Gives(p, FALSE)
  BY <1>4, <1>7 DEF TimedOut
<1>8. ASSUME ReadError(p)
      PROVE  Gives(p, TRUE)
  BY <1>4, <1>8 DEF ReadError
<1> QED
  BY <1>5, <1>6, <1>7, <1>8

(* What a reading call does with a message of its inbox. *)
LEMMA ReadIs ==
  ASSUME PingInv, NEW p \in Pings, Read(p)
  PROVE  \/ Gives(p, TRUE)
         \/ /\ pc[p] = "read"
            /\ \E message \in inbox[p] : Matches(p, message)
            /\ CloseSocket(p) /\ Finish(p, "alive")
            /\ UNCHANGED <<cancelled, counter, addresses, at, failed, seq, requests, replied>>
         \/ /\ inbox' \in [Pings -> SUBSET Messages]
            /\ \A q \in Pings : inbox'[q] \subseteq inbox[q]
            /\ UNCHANGED <<cancelled, counter, pc, addresses, at, failed, socket, seq, cut,
                           result, requests, replied>>
<1>1. PICK message \in inbox[p] :
        IF message.kind = "garbage"
        THEN CloseSocket(p) /\ NextAddress(p, TRUE)
        ELSE IF Matches(p, message)
        THEN CloseSocket(p) /\ Finish(p, "alive") /\ UNCHANGED <<at, failed>>
        ELSE /\ inbox' = [inbox EXCEPT ![p] = @ \ {message}]
             /\ UNCHANGED <<pc, at, failed, socket, cut, result>>
  BY DEF Read
<1>2. pc[p] = "read" /\ UNCHANGED <<cancelled, counter, addresses, seq, requests, replied>>
  BY DEF Read
<1>3. counter \in SeqNums /\ inbox \in [Pings -> SUBSET Messages]
  BY DEF PingInv, TypeOK
<1>4. CASE CloseSocket(p) /\ NextAddress(p, TRUE)
  BY <1>2, <1>3, <1>4, CloseSocketIs DEF Gives
<1>5. CASE Matches(p, message) /\ CloseSocket(p) /\ Finish(p, "alive")
           /\ UNCHANGED <<at, failed>>
  BY <1>2, <1>5
<1>6. CASE inbox' = [inbox EXCEPT ![p] = @ \ {message}]
           /\ UNCHANGED <<pc, at, failed, socket, cut, result>>
  BY <1>2, <1>3, <1>6
<1> QED
  BY <1>1, <1>4, <1>5, <1>6

(* Messages reach open sockets only. *)
LEMMA NetworkIs ==
  ASSUME PingInv, Network
  PROVE  /\ inbox' \in [Pings -> SUBSET Messages]
         /\ \A q \in Pings : socket[q] = "none" => inbox'[q] = inbox[q]
         /\ cut' \in [Pings -> BOOLEAN]
         /\ replied' \subseteq Addresses
         /\ UNCHANGED <<cancelled, counter, pc, addresses, at, failed, socket, seq, result,
                        requests>>
<1>1. /\ inbox \in [Pings -> SUBSET Messages]
      /\ cut \in [Pings -> BOOLEAN]
      /\ replied \subseteq Addresses
      /\ requests \subseteq [address : Addresses, seq : SeqNums]
  BY DEF PingInv, TypeOK
<1>2. ASSUME NEW receivers, NEW m \in Messages, Deliver(receivers, m),
             \A q \in Pings \cap receivers : socket[q] # "none"
      PROVE  /\ inbox' \in [Pings -> SUBSET Messages]
             /\ \A q \in Pings : socket[q] = "none" => inbox'[q] = inbox[q]
  BY <1>1, <1>2 DEF Deliver
<1>3. CASE \E r \in requests : Reply(r)
  <2>1. PICK r \in requests : Reply(r)
    BY <1>3
  <2> DEFINE own == {r.address[1]} \cap {q \in Pings : socket[q] = "datagram"
                                                       /\ pc[q] = "read"
                                                       /\ at[q] = r.address[2]}
  <2>2. Deliver(RawSockets \cup own, Message("reply", r.seq))
    BY <2>1 DEF Reply
  <2>3. Message("reply", r.seq) \in Messages
    BY <1>1 DEF Message, Messages
  <2>4. \A q \in Pings \cap (RawSockets \cup own) : socket[q] # "none"
    BY DEF RawSockets
  <2>5. replied' \subseteq Addresses
    BY <1>1, <2>1 DEF Reply
  <2>6. UNCHANGED <<cancelled, counter, pc, addresses, at, failed, socket, seq, cut, result,
                    requests>>
    BY <2>1 DEF Reply
  <2> HIDE DEF own
  <2> QED
    BY <1>1, <1>2, <2>2, <2>3, <2>4, <2>5, <2>6
<1>4. CASE \E kind \in {"reply", "garbage"}, n \in SeqNums : Noise(kind, n)
  <2>1. PICK kind \in {"reply", "garbage"}, n \in SeqNums : Noise(kind, n)
    BY <1>4
  <2>2. Deliver(RawSockets, Message(kind, n)) /\ Message(kind, n) \in Messages
    BY <2>1 DEF Noise, Message, Messages
  <2>3. \A q \in Pings \cap RawSockets : socket[q] # "none"
    BY DEF RawSockets
  <2> QED
    BY <1>1, <1>2, <2>1, <2>2, <2>3 DEF Noise
<1>5. CASE \E p \in Pings : Deadline(p)
  BY <1>1, <1>5 DEF Deadline, Cut
<1> QED
  BY <1>3, <1>4, <1>5 DEF Network

(* A step that moves no call keeps the invariant. *)
LEMMA StandingKeeps ==
  ASSUME PingInv,
         inbox' \in [Pings -> SUBSET Messages],
         \A q \in Pings : socket[q] = "none" => inbox'[q] = {} \/ inbox'[q] = inbox[q],
         cut' \in [Pings -> BOOLEAN],
         replied' \subseteq Addresses,
         cancelled' \in BOOLEAN,
         UNCHANGED <<counter, pc, addresses, at, failed, socket, seq, result, requests>>
  PROVE  PingInv'
<1>1. TypeOK'
  BY DEF PingInv, TypeOK
<1>2. NoSocketLeft'
  BY DEF PingInv, NoSocketLeft
<1>3. PlaceInv' /\ AskedInv' /\ SilentWasAsked'
  BY DEF PingInv, PlaceInv, AskedInv, SilentWasAsked
<1> QED
  BY <1>1, <1>2, <1>3 DEF PingInv

(* The addresses are known. *)
LEMMA ResolveKeeps ==
  ASSUME PingInv, NEW p \in Pings, Resolve(p)
  PROVE  PingInv'
<1> USE DEF PingInv
<1>1. /\ pc[p] = "resolve" /\ at[p] = 1 /\ ~failed[p]
      /\ UNCHANGED <<cancelled, counter, at, failed, socket, seq, cut, inbox, requests,
                     replied>>
  BY DEF Resolve, PlaceInv
<1>2. /\ pc \in [Pings -> {"resolve", "open", "send", "read", "done"}]
      /\ addresses \in [Pings -> Nat \ {0}]
      /\ result \in [Pings -> {"none", "alive", "silent", "failed", "canceled"}]
      /\ MaxAddresses[p] \in Nat
  BY MaxAddressesAssumption DEF TypeOK, Pings
<1>3. /\ pc' \in [Pings -> {"resolve", "open", "send", "read", "done"}]
      /\ addresses' \in [Pings -> Nat \ {0}]
      /\ result' \in [Pings -> {"none", "alive", "silent", "failed", "canceled"}]
      /\ \A q \in Pings \ {p} : /\ pc'[q] = pc[q]
                                /\ addresses'[q] = addresses[q]
                                /\ result'[q] = result[q]
      /\ \/ pc'[p] = "open" /\ result'[p] = result[p] /\ addresses'[p] \in 1..MaxAddresses[p]
         \/ pc'[p] = "done" /\ result'[p] = "failed" /\ addresses'[p] = addresses[p]
  <2>1. CASE /\ \E n \in 1..MaxAddresses[p] : addresses' = [addresses EXCEPT ![p] = n]
             /\ Goto(p, "open")
             /\ UNCHANGED result
    <3>1. PICK n \in 1..MaxAddresses[p] : addresses' = [addresses EXCEPT ![p] = n]
      BY <2>1
    <3>2. n \in Nat \ {0}
      BY <1>2
    <3> QED
      BY <1>2, <2>1, <3>1, <3>2 DEF Goto
  <2>2. CASE Finish(p, "failed") /\ UNCHANGED addresses
    BY <1>2, <2>2 DEF Finish, Goto
  <2> QED
    BY <2>1, <2>2 DEF Resolve
<1>4. TypeOK'
  <2>1. \A q \in Pings : at'[q] \in 1..addresses'[q]
    BY <1>1, <1>2, <1>3 DEF TypeOK
  <2> QED
    BY <1>1, <1>3, <2>1 DEF TypeOK
<1>5. NoSocketLeft'
  BY <1>1, <1>3 DEF NoSocketLeft
<1>6. PlaceInv'
  <2>1. \A q \in Pings : /\ addresses'[q] <= MaxAddresses[q]
                         /\ pc'[q] = "resolve" => at'[q] = 1 /\ ~failed'[q]
                         /\ result'[q] # "none" <=> pc'[q] = "done"
    BY <1>1, <1>2, <1>3 DEF PlaceInv
  <2> QED
    BY <1>1, <2>1 DEF PlaceInv
<1>7. AskedInv'
  BY <1>1, <1>3 DEF AskedInv
<1>8. SilentWasAsked'
  <2>1. result[p] = "none"
    BY <1>1 DEF PlaceInv
  <2> QED
    BY <1>1, <1>3, <2>1 DEF SilentWasAsked
<1> QED
  BY <1>4, <1>5, <1>6, <1>7, <1>8

(* An attempt begins with a new socket. *)
LEMMA OpenKeeps ==
  ASSUME PingInv, NEW p \in Pings, Open(p)
  PROVE  PingInv'
<1> USE DEF PingInv
<1>1. CASE Gives(p, TRUE)
  BY <1>1, GivesKeeps
<1>2. CASE /\ pc[p] = "open"
           /\ \E kind \in Sockets : socket' = [socket EXCEPT ![p] = kind]
           /\ Goto(p, "send")
           /\ UNCHANGED <<at, failed, result>>
  <2>1. UNCHANGED <<cancelled, counter, addresses, at, failed, seq, cut, inbox, result,
                    requests, replied>>
    BY <1>2 DEF Open
  <2>2. /\ pc' \in [Pings -> {"resolve", "open", "send", "read", "done"}]
        /\ socket' \in [Pings -> {"none", "datagram", "raw"}]
        /\ \A q \in Pings : pc'[q] = IF q = p THEN "send" ELSE pc[q]
        /\ \A q \in Pings \ {p} : socket'[q] = socket[q]
    BY <1>2, SocketsAssumption DEF Goto, TypeOK
  <2>3. TypeOK'
    BY <2>1, <2>2 DEF TypeOK
  <2>4. NoSocketLeft' /\ AskedInv' /\ SilentWasAsked'
    BY <2>1, <2>2 DEF NoSocketLeft, AskedInv, SilentWasAsked
  <2>5. PlaceInv'
    BY <1>2, <2>1, <2>2 DEF PlaceInv
  <2> QED
    BY <2>3, <2>4, <2>5
<1> QED
  BY <1>1, <1>2, ExitsGive

(* A request is sent. *)
LEMMA SendKeeps ==
  ASSUME PingInv, NEW p \in Pings, Send(p)
  PROVE  PingInv'
<1> USE DEF PingInv
<1>1. CASE Gives(p, TRUE)
  BY <1>1, GivesKeeps
<1> DEFINE r == [address |-> <<p, at[p]>>, seq |-> NextSeq]
<1>2. CASE /\ pc[p] = "send"
           /\ counter' = NextSeq
           /\ seq' = [seq EXCEPT ![p] = NextSeq]
           /\ requests' = requests \cup {r}
           /\ Goto(p, "read")
           /\ UNCHANGED <<at, failed, socket, cut, inbox, result>>
  <2>1. UNCHANGED <<cancelled, addresses, at, failed, socket, cut, inbox, result, replied>>
    BY <1>2 DEF Send
  <2>2. NextSeq \in SeqNums /\ <<p, at[p]>> \in Addresses
    BY NextSeqType DEF TypeOK, PlaceInv, Addresses
  <2>3. r \in [address : Addresses, seq : SeqNums] /\ r.address = <<p, at[p]>> /\ r.seq = NextSeq
    BY <2>2
  <2>4. /\ pc' \in [Pings -> {"resolve", "open", "send", "read", "done"}]
        /\ seq' \in [Pings -> SeqNums]
        /\ \A q \in Pings : pc'[q] = IF q = p THEN "read" ELSE pc[q]
        /\ \A q \in Pings : seq'[q] = IF q = p THEN NextSeq ELSE seq[q]
    BY <1>2, <2>2 DEF Goto, TypeOK
  <2>5. TypeOK'
    BY <1>2, <2>1, <2>2, <2>3, <2>4 DEF TypeOK
  <2>6. NoSocketLeft' /\ PlaceInv'
    BY <1>2, <2>1, <2>4 DEF NoSocketLeft, PlaceInv
  <2>7. AskedInv'
    BY <1>2, <2>1, <2>4 DEF AskedInv
  <2>8. SilentWasAsked'
    BY <1>2, <2>1 DEF SilentWasAsked
  <2> QED
    BY <2>5, <2>6, <2>7, <2>8
<1> QED
  BY <1>1, <1>2, ExitsGive

(* A message is read. *)
LEMMA ReadKeeps ==
  ASSUME PingInv, NEW p \in Pings, Read(p)
  PROVE  PingInv'
<1> USE DEF PingInv
<1>1. CASE Gives(p, TRUE)
  BY <1>1, GivesKeeps
<1>2. CASE /\ pc[p] = "read"
           /\ CloseSocket(p) /\ Finish(p, "alive")
           /\ UNCHANGED <<cancelled, counter, addresses, at, failed, seq, requests, replied>>
  <2>1. /\ socket' \in [Pings -> {"none", "datagram", "raw"}]
        /\ inbox' \in [Pings -> SUBSET Messages]
        /\ cut' \in [Pings -> BOOLEAN]
        /\ \A q \in Pings \ {p} : socket'[q] = socket[q] /\ inbox'[q] = inbox[q]
        /\ socket'[p] = "none" /\ inbox'[p] = {}
    BY <1>2, CloseSocketIs
  <2>2. /\ pc' \in [Pings -> {"resolve", "open", "send", "read", "done"}]
        /\ result' \in [Pings -> {"none", "alive", "silent", "failed", "canceled"}]
        /\ \A q \in Pings : /\ pc'[q] = IF q = p THEN "done" ELSE pc[q]
                            /\ result'[q] = IF q = p THEN "alive" ELSE result[q]
    BY <1>2 DEF Finish, Goto, TypeOK
  <2>3. TypeOK'
    BY <1>2, <2>1, <2>2 DEF TypeOK
  <2>4. NoSocketLeft' /\ PlaceInv'
    BY <1>2, <2>1, <2>2 DEF NoSocketLeft, PlaceInv
  <2>5. AskedInv' /\ SilentWasAsked'
    BY <1>2, <2>2 DEF AskedInv, SilentWasAsked
  <2> QED
    BY <2>3, <2>4, <2>5
<1>3. CASE /\ inbox' \in [Pings -> SUBSET Messages]
           /\ \A q \in Pings : inbox'[q] \subseteq inbox[q]
           /\ UNCHANGED <<cancelled, counter, pc, addresses, at, failed, socket, seq, cut,
                          result, requests, replied>>
  <2>1. TypeOK'
    BY <1>3 DEF TypeOK
  <2>2. NoSocketLeft'
    BY <1>3 DEF NoSocketLeft
  <2>3. PlaceInv' /\ AskedInv' /\ SilentWasAsked'
    BY <1>3 DEF PlaceInv, AskedInv, SilentWasAsked
  <2> QED
    BY <2>1, <2>2, <2>3
<1> QED
  BY <1>1, <1>2, <1>3, ReadIs

LEMMA PingStep ==
  ASSUME PingInv, [Next]_vars
  PROVE  PingInv'
<1>0. /\ inbox \in [Pings -> SUBSET Messages]
      /\ cut \in [Pings -> BOOLEAN]
      /\ replied \subseteq Addresses
      /\ cancelled \in BOOLEAN
  BY DEF PingInv, TypeOK
<1>1. ASSUME NEW p \in Pings, Resolve(p) \/ Open(p) \/ Send(p) \/ Read(p)
      PROVE  PingInv'
  BY <1>1, ResolveKeeps, OpenKeeps, SendKeeps, ReadKeeps
<1>2. ASSUME NEW p \in Pings, TimedOut(p) \/ ReadError(p)
      PROVE  PingInv'
  <2>1. Gives(p, TRUE) \/ Gives(p, FALSE)
    BY <1>2, ExitsGive
  <2> QED
    BY <2>1, GivesKeeps
<1>3. ASSUME NEW p \in Pings, AfterFunc(p)
      PROVE  PingInv'
  <2>1. /\ cut' \in [Pings -> BOOLEAN]
        /\ UNCHANGED <<cancelled, counter, pc, addresses, at, failed, socket, seq, inbox,
                       result, requests, replied>>
    BY <1>0, <1>3 DEF AfterFunc, Cut
  <2> QED
    BY <1>0, <2>1, StandingKeeps
<1>4. CASE Network
  <2>1. /\ inbox' \in [Pings -> SUBSET Messages]
        /\ \A q \in Pings : socket[q] = "none" => inbox'[q] = inbox[q]
        /\ cut' \in [Pings -> BOOLEAN]
        /\ replied' \subseteq Addresses
        /\ UNCHANGED <<cancelled, counter, pc, addresses, at, failed, socket, seq, result,
                       requests>>
    BY <1>4, NetworkIs
  <2> QED
    BY <1>0, <2>1, StandingKeeps
<1>5. CASE Cancel \/ UNCHANGED vars
  <2>1. /\ cancelled' \in BOOLEAN
        /\ UNCHANGED <<counter, pc, addresses, at, failed, socket, seq, cut, inbox, result,
                       requests, replied>>
    BY <1>0, <1>5 DEF Cancel, vars, pingVars
  <2> QED
    BY <1>0, <2>1, StandingKeeps
<1> QED
  BY <1>1, <1>2, <1>3, <1>4, <1>5 DEF Next, Runs

(* PingInv holds throughout, however the calls, the network, the clock and *)
(* a cancellation are interleaved.                                         *)
THEOREM PingInvariant == Spec => []PingInv
<1>1. PingInv /\ [Next]_vars => PingInv'
  BY PingStep
<1> QED
  BY PingInit, <1>1, PTL DEF Spec

(* Every variable keeps its type, and no call leaves its list of addresses. *)
THEOREM TypeCorrect == Spec => []TypeOK
<1>1. PingInv => TypeOK
  BY DEF PingInv
<1> QED
  BY PingInvariant, <1>1, PTL

(* No way out of pingAddress, with or without an error, leaves its socket  *)
(* open.                                                                   *)
THEOREM SocketsClosed == Spec => []NoSocketLeft
<1>1. PingInv => NoSocketLeft
  BY DEF PingInv
<1> QED
  BY PingInvariant, <1>1, PTL

(* Ping calls a target silent, without an error, only after it has sent a  *)
(* request to each address of the target.                                  *)
THEOREM SilenceIsReal == Spec => []SilentWasAsked
<1>1. PingInv => SilentWasAsked
  BY DEF PingInv
<1> QED
  BY PingInvariant, <1>1, PTL

-----------------------------------------------------------------------------
(* The replies.  The kernel gives a datagram socket its own replies only.  *)
(* A raw socket gets them all, and then it matters that no two requests    *)
(* have the same number: the shared counter sees to it as long as there    *)
(* are no more addresses to ping than there are numbers.                   *)

Attempts    == {a \in Addresses : a[2] <= MaxAddresses[a[1]]}
FewAttempts == Cardinality(Attempts) <= SeqModulus

(* The addresses of which no request will be sent any more. *)
Used == {a \in Attempts : \/ a[2] < at[a[1]]
                          \/ a[2] = at[a[1]] /\ pc[a[1]] \in {"read", "done"}}

(* No two requests share a number: those given out so far are 1..counter,  *)
(* until the last address was tried.                                       *)
NumberInv ==
  /\ \A r, s \in requests : r.seq = s.seq => r = s
  /\ \/ Used = Attempts
     \/ /\ counter <= Cardinality(Used)
        /\ \A r \in requests : r.seq \in 1..counter

(* Without strangers every reply that was received answers a request. *)
AnswerInv ==
  \A p \in Pings : \A m \in inbox[p] :
    m.kind = "reply" => \E r \in requests : r.seq = m.seq /\ r.address \in replied

(* What a datagram socket receives comes from the address being tried. *)
DatagramInv ==
  \A p \in Pings : /\ socket[p] # "raw"
                   /\ inbox[p] # {} => <<p, at[p]>> \in replied

LEMMA AttemptsFinite ==
  /\ IsFiniteSet(Attempts)
  /\ IsFiniteSet(Used) /\ Used \subseteq Attempts
  /\ Cardinality(Attempts) \in Nat
<1> DEFINE Of(p) == {p} \X (1..MaxAddresses[p])
           All   == {Of(p) : p \in Pings}
<1>1. IsFiniteSet(Pings)
  BY FS_Interval, NumPingsAssumption DEF Pings
<1>2. ASSUME NEW p \in Pings
      PROVE  IsFiniteSet(Of(p))
  <2>1. MaxAddresses[p] \in Nat
    BY MaxAddressesAssumption DEF Pings
  <2>2. IsFiniteSet(1..MaxAddresses[p])
    BY <2>1, FS_Interval
  <2>3. IsFiniteSet({p})
    BY FS_Singleton
  <2> QED
    BY <2>2, <2>3, FS_Product
<1>3. IsFiniteSet(All)
  <2> HIDE DEF Of
  <2>1. [p \in Pings |-> Of(p)] \in Surjection(Pings, All)
    BY DEF Surjection
  <2> QED
    BY <1>1, <2>1, FS_Surjection
<1>4. IsFiniteSet(UNION All)
  BY <1>2, <1>3, FS_UNION, Zenon
<1>5. Attempts \subseteq UNION All
  <2>1. ASSUME NEW a \in Attempts
        PROVE  a \in Of(a[1]) /\ a[1] \in Pings
    <3>1. MaxAddresses[a[1]] \in Nat /\ a \in Pings \X (Nat \ {0})
      BY MaxAddressesAssumption DEF Attempts, Addresses, Pings
    <3> QED
      BY <3>1 DEF Attempts
  <2> HIDE DEF Of
  <2> QED
    BY <2>1
<1>6. Used \subseteq Attempts
  BY DEF Used
<1>7. IsFiniteSet(Attempts)
  <2> HIDE DEF All
  <2> QED
    BY <1>4, <1>5, FS_Subset
<1> QED
  BY <1>6, <1>7, FS_Subset, FS_CardinalityType

(* How the calls advance, and who takes a number. *)
Advances(p) ==
  /\ at[p] <= at'[p]
  /\ pc[p] \in {"read", "done"} => at[p] < at'[p] \/ pc'[p] \in {"read", "done"}

TakesNumber(p) ==
  /\ pc[p] = "send"
  /\ at[p] < at'[p] \/ pc'[p] \in {"read", "done"}
  /\ counter' = NextSeq
  /\ requests' \in {requests, requests \cup
                                {[address |-> <<p, at[p]>>, seq |-> NextSeq]}}

LEMMA GivesAdvances ==
  ASSUME PingInv, NEW p \in Pings, NEW error \in BOOLEAN, Gives(p, error)
  PROVE  /\ \A q \in Pings : Advances(q)
         /\ UNCHANGED <<counter, requests>> \/ TakesNumber(p)
<1>1. /\ \A q \in Pings \ {p} : pc'[q] = pc[q] /\ at'[q] = at[q]
      /\ (pc'[p] = "done" /\ at'[p] = at[p]) \/ at'[p] = at[p] + 1
  BY NextAddressIs DEF Gives
<1>2. \A q \in Pings : at[q] \in Nat
  BY DEF PingInv, PlaceInv
<1>3. UNCHANGED requests /\ (pc[p] # "send" => counter' = counter)
      /\ counter' \in {counter, NextSeq}
  BY DEF Gives
<1> QED
  BY <1>1, <1>2, <1>3 DEF Advances, TakesNumber

LEMMA StepAdvances ==
  ASSUME PingInv, [Next]_vars
  PROVE  /\ \A q \in Pings : Advances(q)
         /\ UNCHANGED <<counter, requests>> \/ \E p \in Pings : TakesNumber(p)
<1>0. \A q \in Pings : at[q] \in Nat
  BY DEF PingInv, PlaceInv
<1>1. ASSUME UNCHANGED <<pc, at, counter, requests>>
      PROVE  UNCHANGED <<counter, requests>> /\ \A q \in Pings : Advances(q)
  BY <1>0, <1>1 DEF Advances
<1>2. ASSUME NEW p \in Pings, NEW error \in BOOLEAN, Gives(p, error)
      PROVE  /\ \A q \in Pings : Advances(q)
             /\ UNCHANGED <<counter, requests>> \/ TakesNumber(p)
  BY <1>2, GivesAdvances
<1>3. ASSUME NEW p \in Pings, NEW label, pc' = [pc EXCEPT ![p] = label],
             label = "done" \/ pc[p] \notin {"read", "done"}, UNCHANGED at
      PROVE  \A q \in Pings : Advances(q)
  <2>1. pc \in [Pings -> {"resolve", "open", "send", "read", "done"}]
    BY DEF PingInv, TypeOK
  <2> QED
    BY <1>0, <1>3, <2>1 DEF Advances
<1>4. ASSUME NEW p \in Pings, Resolve(p)
      PROVE  UNCHANGED <<counter, requests>> /\ \A q \in Pings : Advances(q)
  <2>1. pc[p] = "resolve" /\ UNCHANGED <<at, counter, requests>>
        /\ \E label : pc' = [pc EXCEPT ![p] = label]
    BY <1>4 DEF Resolve, Finish, Goto
  <2> QED
    BY <1>3, <2>1
<1>5. ASSUME NEW p \in Pings, Open(p)
      PROVE  /\ \A q \in Pings : Advances(q)
             /\ UNCHANGED <<counter, requests>> \/ TakesNumber(p)
  <2>1. CASE Gives(p, TRUE)
    BY <1>2, <2>1
  <2>2. CASE pc[p] = "open" /\ Goto(p, "send") /\ UNCHANGED at
    <3>1. UNCHANGED <<counter, requests>>
      BY <1>5 DEF Open
    <3> QED
      BY <1>3, <2>2, <3>1 DEF Goto
  <2> QED
    BY <1>5, <2>1, <2>2, ExitsGive
<1>6. ASSUME NEW p \in Pings, Send(p)
      PROVE  /\ \A q \in Pings : Advances(q)
             /\ UNCHANGED <<counter, requests>> \/ TakesNumber(p)
  <2>1. CASE Gives(p, TRUE)
    BY <1>2, <2>1
  <2>2. CASE /\ pc[p] = "send"
             /\ counter' = NextSeq
             /\ requests' = requests \cup {[address |-> <<p, at[p]>>, seq |-> NextSeq]}
             /\ Goto(p, "read")
             /\ UNCHANGED at
    <3>1. pc'[p] = "read"
      BY <2>2 DEF Goto, PingInv, TypeOK
    <3>2. TakesNumber(p)
      BY <2>2, <3>1 DEF TakesNumber
    <3> QED
      BY <1>3, <2>2, <3>2 DEF Goto
  <2> QED
    BY <1>6, <2>1, <2>2, ExitsGive
<1>7. ASSUME NEW p \in Pings, Read(p)
      PROVE  /\ \A q \in Pings : Advances(q)
             /\ UNCHANGED <<counter, requests>> \/ TakesNumber(p)
  <2>1. CASE Gives(p, TRUE)
    BY <1>2, <2>1
  <2>2. CASE Finish(p, "alive") /\ UNCHANGED <<counter, at, requests>>
    BY <1>3, <2>2 DEF Finish, Goto
  <2>3. CASE UNCHANGED <<counter, pc, at, requests>>
    BY <1>1, <2>3
  <2> QED
    BY <1>7, <2>1, <2>2, <2>3, ReadIs
<1>8. ASSUME NEW p \in Pings, TimedOut(p) \/ ReadError(p)
      PROVE  /\ \A q \in Pings : Advances(q)
             /\ UNCHANGED <<counter, requests>> \/ TakesNumber(p)
  BY <1>2, <1>8, ExitsGive
<1>9. CASE Network \/ Cancel \/ UNCHANGED vars \/ \E p \in Pings : AfterFunc(p)
  <2>1. UNCHANGED <<pc, at, counter, requests>>
    BY <1>9, NetworkIs DEF Cancel, vars, pingVars, AfterFunc, Cut
  <2> QED
    BY <1>1, <2>1
<1> QED
  BY <1>4, <1>5, <1>6, <1>7, <1>8, <1>9 DEF Next, Runs

LEMMA NextSeqIs ==
  ASSUME counter \in SeqNums
  PROVE  NextSeq = IF counter + 1 = SeqModulus THEN 0 ELSE counter + 1
BY SeqModulusAssumption DEF NextSeq, SeqNums

LEMMA NumberInit == Init => NumberInv
<1> SUFFICES ASSUME Init PROVE NumberInv
  OBVIOUS
<1>1. counter = 0 /\ requests = {}
  BY DEF Init
<1>2. Cardinality(Used) \in Nat
  BY AttemptsFinite, FS_CardinalityType
<1> QED
  BY <1>1, <1>2 DEF NumberInv

LEMMA NumberStep ==
  ASSUME FewAttempts, PingInv, NumberInv, [Next]_vars
  PROVE  NumberInv'
<1>1. \A q \in Pings : at[q] \in Nat /\ at'[q] \in Nat
  BY PingStep DEF PingInv, PlaceInv
<1>2. Used \subseteq Used' /\ Used' \subseteq Attempts
  <2>1. ASSUME NEW a \in Used
        PROVE  a \in Used'
    <3>1. a \in Attempts /\ a[1] \in Pings /\ a[2] \in Nat
      BY DEF Used, Attempts, Addresses
    <3>2. Advances(a[1])
      BY <3>1, StepAdvances
    <3> QED
      BY <1>1, <3>1, <3>2 DEF Used, Advances
  <2> QED
    BY <2>1 DEF Used
<1>3. /\ IsFiniteSet(Attempts) /\ Cardinality(Attempts) \in Nat
      /\ IsFiniteSet(Used) /\ Cardinality(Used) \in Nat
      /\ IsFiniteSet(Used') /\ Cardinality(Used') \in Nat
      /\ Cardinality(Used) <= Cardinality(Used')
      /\ Cardinality(Used') <= Cardinality(Attempts)
      /\ Cardinality(Used') = Cardinality(Attempts) => Used' = Attempts
  <2>1. IsFiniteSet(Attempts) /\ IsFiniteSet(Used)
    BY AttemptsFinite
  <2>2. IsFiniteSet(Used')
    BY <1>2, <2>1, FS_Subset
  <2> QED
    BY <1>2, <2>1, <2>2, FS_Subset, FS_CardinalityType
<1>4. CASE UNCHANGED <<counter, requests>>
  <2>1. counter \in Nat
    BY DEF PingInv, TypeOK, SeqNums
  <2>2. CASE Used = Attempts
    BY <1>2, <1>4, <2>2 DEF NumberInv
  <2>3. CASE Used # Attempts
    BY <1>3, <1>4, <2>1, <2>3 DEF NumberInv
  <2> QED
    BY <2>2, <2>3
<1>5. ASSUME NEW p \in Pings, TakesNumber(p)
      PROVE  NumberInv'
  <2> DEFINE a == <<p, at[p]>>
             new == [address |-> a, seq |-> NextSeq]
  <2>1. a \in Attempts /\ a \notin Used /\ a \in Used'
    <3>1. /\ at[p] \in Nat \ {0} /\ addresses[p] \in Nat /\ MaxAddresses[p] \in Nat
          /\ at[p] <= addresses[p] /\ addresses[p] <= MaxAddresses[p]
      BY MaxAddressesAssumption DEF PingInv, PlaceInv, TypeOK, Pings
    <3>2. a \in Attempts
      BY <3>1 DEF Attempts, Addresses
    <3>3. at[p] <= at'[p]
      BY StepAdvances DEF Advances
    <3> QED
      BY <1>1, <1>5, <3>1, <3>2, <3>3 DEF Used, TakesNumber
  <2>2. Cardinality(Used) + 1 <= Cardinality(Used')
    <3>1. Cardinality(Used \cup {a}) = Cardinality(Used) + 1
      BY <1>3, <2>1, FS_AddElement
    <3>2. Used \cup {a} \in SUBSET (Used')
      BY <1>2, <2>1
    <3>3. Cardinality(Used \cup {a}) <= Cardinality(Used')
      BY <1>3, <3>2, FS_Subset
    <3> QED
      BY <3>1, <3>3
  <2>3. /\ counter \in SeqNums /\ counter \in Nat
        /\ counter <= Cardinality(Used)
        /\ \A r \in requests : r.seq \in 1..counter
    BY <2>1 DEF NumberInv, PingInv, TypeOK, SeqNums
  <2>4. counter + 1 <= SeqModulus /\ SeqModulus \in Nat
    BY <1>3, <2>2, <2>3, SeqModulusAssumption DEF FewAttempts
  <2>5. NextSeq \notin 1..counter
    BY <2>3, <2>4, NextSeqIs
  <2>6. \A r, s \in requests' : r.seq = s.seq => r = s
    <3>1. requests' \subseteq requests \cup {new} /\ new.seq = NextSeq
      BY <1>5 DEF TakesNumber
    <3> HIDE DEF new
    <3> QED
      BY <2>3, <2>5, <3>1 DEF NumberInv
  <2>7. counter' = NextSeq
    BY <1>5 DEF TakesNumber
  <2>8. CASE counter + 1 = SeqModulus
    <3>1. Used' = Attempts
      BY <1>3, <2>2, <2>3, <2>8 DEF FewAttempts
    <3> QED
      BY <2>6, <3>1 DEF NumberInv
  <2>9. CASE counter + 1 # SeqModulus
    <3>1. counter' = counter + 1
      BY <2>3, <2>7, <2>9, NextSeqIs
    <3>2. counter' <= Cardinality(Used')
      BY <1>3, <2>2, <2>3, <3>1
    <3>3. \A r \in requests' : r.seq \in 1..counter'
      BY <1>5, <2>3, <2>7, <3>1 DEF TakesNumber
    <3> QED
      BY <2>6, <3>2, <3>3 DEF NumberInv
  <2> QED
    BY <2>8, <2>9
<1> QED
  BY <1>4, <1>5, StepAdvances

(* What a step brings to the sockets and to the results. *)
Receives(q, m) ==
  \/ \E r \in requests : /\ r.address \in replied'
                         /\ m = Message("reply", r.seq)
                         /\ socket[q] = "raw" \/ r.address = <<q, at[q]>>
  \/ socket[q] = "raw" /\ (m.kind = "reply" => Strangers)

Brings(q) ==
  /\ \A m \in inbox'[q] : at'[q] = at[q] /\ (m \in inbox[q] \/ Receives(q, m))
  /\ socket'[q] \in {"none", socket[q]} \cup Sockets
  /\ result'[q] = "alive" =>
       /\ at'[q] = at[q]
       /\ \/ result[q] = "alive"
          \/ pc[q] = "read" /\ \E m \in inbox[q] : Matches(q, m)

LEMMA GivesBrings ==
  ASSUME PingInv, NEW p \in Pings, NEW error \in BOOLEAN, Gives(p, error)
  PROVE  \A q \in Pings : Brings(q)
<1>1. /\ \A q \in Pings \ {p} : at'[q] = at[q] /\ result'[q] = result[q]
      /\ result'[p] \in {"canceled", "failed", "silent", result[p]}
  BY NextAddressIs DEF Gives
<1>2. /\ \A q \in Pings \ {p} : socket'[q] = socket[q] /\ inbox'[q] = inbox[q]
      /\ socket'[p] = "none" /\ inbox'[p] = {}
      /\ pc[p] # "done"
  BY DEF Gives
<1>3. result[p] = "none"
  BY <1>2 DEF PingInv, PlaceInv
<1> QED
  BY <1>1, <1>2, <1>3 DEF Brings

LEMMA NetworkBrings ==
  ASSUME PingInv, Network
  PROVE  replied \subseteq replied' /\ \A q \in Pings : Brings(q)
<1>1. UNCHANGED <<at, socket, result>>
  BY NetworkIs
<1>2. ASSUME replied \subseteq replied',
             \A q \in Pings : \A m \in inbox'[q] : m \in inbox[q] \/ Receives(q, m)
      PROVE  replied \subseteq replied' /\ \A q \in Pings : Brings(q)
  BY <1>1, <1>2 DEF Brings
<1>3. inbox \in [Pings -> SUBSET Messages]
  BY DEF PingInv, TypeOK
<1>4. ASSUME NEW receivers, NEW message, Deliver(receivers, message),
             NEW q \in Pings, NEW m \in inbox'[q]
      PROVE  m \in inbox[q] \/ (q \in receivers /\ m = message)
  BY <1>3, <1>4 DEF Deliver
<1>5. CASE \E r \in requests : Reply(r)
  <2>1. PICK r \in requests : Reply(r)
    BY <1>5
  <2>2. replied' = replied \cup {r.address} /\ r.address \in Addresses
    BY <2>1 DEF Reply, PingInv, TypeOK
  <2> DEFINE own == {r.address[1]} \cap {q \in Pings : socket[q] = "datagram"
                                                       /\ pc[q] = "read"
                                                       /\ at[q] = r.address[2]}
  <2>3. Deliver(RawSockets \cup own, Message("reply", r.seq))
    BY <2>1 DEF Reply
  <2>4. ASSUME NEW q \in own
        PROVE  r.address = <<q, at[q]>>
    BY <2>2 DEF Addresses
  <2>5. \A q \in RawSockets : socket[q] = "raw"
    BY DEF RawSockets
  <2> HIDE DEF own
  <2>6. ASSUME NEW q \in Pings, NEW m \in inbox'[q]
        PROVE  m \in inbox[q] \/ Receives(q, m)
    <3>1. m \in inbox[q] \/ (q \in RawSockets \cup own /\ m = Message("reply", r.seq))
      BY <1>4, <2>3, <2>6
    <3> QED
      BY <2>2, <2>4, <2>5, <3>1 DEF Receives
  <2> QED
    BY <1>2, <2>2, <2>6
<1>6. CASE \E kind \in {"reply", "garbage"}, n \in SeqNums : Noise(kind, n)
  <2>1. PICK kind \in {"reply", "garbage"}, n \in SeqNums : Noise(kind, n)
    BY <1>6
  <2>2. /\ Deliver(RawSockets, Message(kind, n)) /\ UNCHANGED replied
        /\ Message(kind, n).kind = "reply" => Strangers
    BY <2>1 DEF Noise, Message
  <2>3. ASSUME NEW q \in Pings, NEW m \in inbox'[q]
        PROVE  m \in inbox[q] \/ Receives(q, m)
    <3>1. m \in inbox[q] \/ (q \in RawSockets /\ m = Message(kind, n))
      BY <1>4, <2>2, <2>3
    <3> QED
      BY <2>2, <3>1 DEF Receives, RawSockets
  <2> QED
    BY <1>2, <2>2, <2>3
<1>7. CASE \E p \in Pings : Deadline(p)
  <2>1. UNCHANGED <<inbox, replied>>
    BY <1>7 DEF Deadline, Cut
  <2> QED
    BY <1>2, <2>1
<1> QED
  BY <1>5, <1>6, <1>7 DEF Network

LEMMA StepBrings ==
  ASSUME PingInv, [Next]_vars
  PROVE  /\ requests \subseteq requests'
         /\ replied \subseteq replied'
         /\ \A q \in Pings : Brings(q)
<1>1. requests \subseteq requests'
  <2>1. requests' = requests \/ \E p \in Pings : TakesNumber(p)
    BY StepAdvances
  <2> QED
    BY <2>1 DEF TakesNumber
<1>2. CASE Network
  BY <1>1, <1>2, NetworkBrings
<1>3. ASSUME UNCHANGED replied, \A q \in Pings : inbox'[q] \subseteq inbox[q],
             UNCHANGED <<at, socket>>, \A q \in Pings : result'[q] \in {result[q], "failed"}
      PROVE  replied \subseteq replied' /\ \A q \in Pings : Brings(q)
  BY <1>3 DEF Brings
<1>4. ASSUME NEW p \in Pings, NEW error \in BOOLEAN, Gives(p, error)
      PROVE  replied \subseteq replied' /\ \A q \in Pings : Brings(q)
  <2>1. UNCHANGED replied
    BY <1>4 DEF Gives
  <2> QED
    BY <1>4, <2>1, GivesBrings
<1>5. ASSUME NEW p \in Pings, Resolve(p)
      PROVE  replied \subseteq replied' /\ \A q \in Pings : Brings(q)
  <2>1. UNCHANGED <<at, socket, inbox, replied>>
    BY <1>5 DEF Resolve
  <2>2. result' = result \/ result' = [result EXCEPT ![p] = "failed"]
    BY <1>5 DEF Resolve, Finish
  <2>3. \A q \in Pings : result'[q] \in {result[q], "failed"}
    BY <2>2 DEF PingInv, TypeOK
  <2> QED
    BY <1>3, <2>1, <2>3
<1>6. ASSUME NEW p \in Pings, Open(p)
      PROVE  replied \subseteq replied' /\ \A q \in Pings : Brings(q)
  <2>1. CASE Gives(p, TRUE)
    BY <1>4, <2>1
  <2>2. CASE /\ \E kind \in Sockets : socket' = [socket EXCEPT ![p] = kind]
             /\ UNCHANGED <<at, failed, result>>
    <3>1. UNCHANGED <<inbox, replied>>
      BY <1>6 DEF Open
    <3>2. \A q \in Pings : socket'[q] \in {socket[q]} \cup Sockets
      BY <2>2 DEF PingInv, TypeOK
    <3> QED
      BY <2>2, <3>1, <3>2 DEF Brings
  <2> QED
    BY <1>6, <2>1, <2>2, ExitsGive
<1>7. ASSUME NEW p \in Pings, Send(p)
      PROVE  replied \subseteq replied' /\ \A q \in Pings : Brings(q)
  <2>1. CASE Gives(p, TRUE)
    BY <1>4, <2>1
  <2>2. CASE UNCHANGED <<at, failed, socket, cut, inbox, result>>
    <3>1. UNCHANGED replied
      BY <1>7 DEF Send
    <3> QED
      BY <1>3, <2>2, <3>1
  <2> QED
    BY <1>7, <2>1, <2>2, ExitsGive
<1>8. ASSUME NEW p \in Pings, Read(p)
      PROVE  replied \subseteq replied' /\ \A q \in Pings : Brings(q)
  <2>1. CASE Gives(p, TRUE)
    BY <1>4, <2>1
  <2>2. CASE /\ pc[p] = "read" /\ \E m \in inbox[p] : Matches(p, m)
             /\ CloseSocket(p) /\ Finish(p, "alive") /\ UNCHANGED <<at, replied>>
    <3>1. \A q \in Pings : result'[q] = IF q = p THEN "alive" ELSE result[q]
      BY <2>2 DEF Finish, PingInv, TypeOK
    <3>2. /\ \A q \in Pings \ {p} : socket'[q] = socket[q] /\ inbox'[q] = inbox[q]
          /\ socket'[p] = "none" /\ inbox'[p] = {}
      BY <2>2, CloseSocketIs
    <3> QED
      BY <2>2, <3>1, <3>2 DEF Brings
  <2>3. CASE /\ \A q \in Pings : inbox'[q] \subseteq inbox[q]
             /\ UNCHANGED <<at, socket, result, replied>>
    BY <1>3, <2>3
  <2> QED
    BY <1>8, <2>1, <2>2, <2>3, ReadIs
<1>9. ASSUME NEW p \in Pings, TimedOut(p) \/ ReadError(p)
      PROVE  replied \subseteq replied' /\ \A q \in Pings : Brings(q)
  BY <1>4, <1>9, ExitsGive
<1>10. CASE Cancel \/ UNCHANGED vars \/ \E p \in Pings : AfterFunc(p)
  <2>1. UNCHANGED <<at, socket, inbox, result, replied>>
    BY <1>10 DEF Cancel, vars, pingVars, AfterFunc, Cut
  <2> QED
    BY <1>1, <1>3, <2>1
<1> QED
  BY <1>1, <1>2, <1>5, <1>6, <1>7, <1>8, <1>9, <1>10 DEF Next, Runs

(* With datagram sockets only. *)
LEMMA DatagramStep ==
  ASSUME Sockets \subseteq {"datagram"}, PingInv, DatagramInv, AliveAnswered, [Next]_vars
  PROVE  DatagramInv' /\ AliveAnswered'
<1>1. replied \subseteq replied' /\ \A q \in Pings : Brings(q)
  BY StepBrings
<1>2. ASSUME NEW q \in Pings
      PROVE  /\ socket'[q] # "raw"
             /\ inbox'[q] # {} => <<q, at'[q]>> \in replied'
             /\ result'[q] = "alive" => <<q, at'[q]>> \in replied'
  BY <1>1 DEF Brings, Receives, DatagramInv, AliveAnswered
<1> QED
  BY <1>2 DEF DatagramInv, AliveAnswered

(* With any sockets, but without strangers and with enough numbers. *)
LEMMA AnswerStep ==
  ASSUME ~Strangers, PingInv, NumberInv, AnswerInv, AliveAnswered, [Next]_vars
  PROVE  AnswerInv' /\ AliveAnswered'
<1>1. /\ requests \subseteq requests'
      /\ replied \subseteq replied'
      /\ \A q \in Pings : Brings(q)
  BY StepBrings
<1>2. AnswerInv'
  <2> SUFFICES ASSUME NEW q \in Pings, NEW m \in inbox'[q], m.kind = "reply"
               PROVE  \E r \in requests' : r.seq = m.seq /\ r.address \in replied'
    BY DEF AnswerInv
  <2>1. CASE m \in inbox[q]
    BY <1>1, <2>1 DEF AnswerInv
  <2>2. CASE Receives(q, m)
    <3>1. PICK r \in requests : r.address \in replied' /\ m = Message("reply", r.seq)
      BY <2>2 DEF Receives
    <3> QED
      BY <1>1, <3>1 DEF Message
  <2> QED
    BY <1>1, <2>1, <2>2 DEF Brings
<1>3. ASSUME NEW q \in Pings, result'[q] = "alive"
      PROVE  <<q, at'[q]>> \in replied'
  <2>1. at'[q] = at[q]
    BY <1>1, <1>3 DEF Brings
  <2>2. CASE result[q] = "alive"
    BY <1>1, <2>1, <2>2 DEF AliveAnswered
  <2>3. CASE pc[q] = "read" /\ \E m \in inbox[q] : Matches(q, m)
    <3>1. PICK m \in inbox[q] : m.kind = "reply" /\ m.seq = seq[q]
      BY <2>3 DEF Matches
    <3>2. PICK r \in requests : r.seq = seq[q] /\ r.address \in replied
      BY <3>1 DEF AnswerInv
    <3> DEFINE own == [address |-> <<q, at[q]>>, seq |-> seq[q]]
    <3>3. own \in requests /\ own.seq = seq[q] /\ own.address = <<q, at[q]>>
      BY <2>3 DEF PingInv, AskedInv
    <3> HIDE DEF own
    <3>4. own = r
      BY <3>2, <3>3 DEF NumberInv
    <3> QED
      BY <1>1, <2>1, <3>2, <3>3, <3>4
  <2> QED
    BY <1>1, <1>3, <2>2, <2>3 DEF Brings
<1> QED
  BY <1>2, <1>3 DEF AliveAnswered

(* A target that Ping calls alive has answered the request to the address  *)
(* tried last: always where the system gives datagram sockets, and with    *)
(* raw sockets as long as no other program of the machine pings and the    *)
(* numbers of icmpPinger.seq are not used up.  (IcmpStrangers shows that   *)
(* another program's replies do deceive a raw socket.)                     *)
THEOREM AliveIsOwn ==
  ASSUME Sockets \subseteq {"datagram"} \/ (~Strangers /\ FewAttempts)
  PROVE  Spec => []AliveAnswered
<1>1. CASE Sockets \subseteq {"datagram"}
  <2>1. Init => DatagramInv /\ AliveAnswered
    BY DEF Init, DatagramInv, AliveAnswered
  <2>2. PingInv /\ DatagramInv /\ AliveAnswered /\ [Next]_vars
        => DatagramInv' /\ AliveAnswered'
    BY <1>1, DatagramStep
  <2> QED
    BY <2>1, <2>2, PingInvariant, PTL DEF Spec
<1>2. CASE ~Strangers /\ FewAttempts
  <2>1. Init => NumberInv /\ AnswerInv /\ AliveAnswered
    BY NumberInit DEF Init, AnswerInv, AliveAnswered
  <2>2. PingInv /\ NumberInv /\ AnswerInv /\ AliveAnswered /\ [Next]_vars
        => NumberInv' /\ AnswerInv' /\ AliveAnswered'
    BY <1>2, NumberStep, AnswerStep
  <2> QED
    BY <2>1, <2>2, PingInvariant, PTL DEF Spec
<1> QED
  BY <1>1, <1>2
=============================================================================
