---------------------------- MODULE ProbeRunProofs ----------------------------
(***************************************************************************)
(* Theorems about ProbeRun, for all cases, lengths and DNS answers.  The   *)
(* check of a worker is composed of parts that were specified on their     *)
(* own: its steps are steps of the dial of Tunnel, of the parser of        *)
(* DnsName and of the worker of Scanner.  Of its own parts, every          *)
(* handshake stays inside of the buffers it makes and talks under TLS      *)
(* where it should.                                                        *)
(***************************************************************************)
EXTENDS ProbeRun, SequenceTheorems, FiniteSetTheorems, WellFoundedInduction, TLAPS

(***************************************************************************)
(* The dial of a tunnel, for every set of schemes and any number of closes *)
(* by the client.  TunnelInv tells for each label of the dialer who may    *)
(* still close the connection; with the types it is inductive.             *)
(***************************************************************************)

IInv == TypeOK /\ TunnelInv

(* The first state satisfies the invariant. *)
LEMMA TunnelInit == Init => IInv
<1> SUFFICES ASSUME Init
             PROVE  IInv
  OBVIOUS
<1>1. closes \in 0..1 /\ released \in 0..MaxCloses /\ ~(released > 0)
  BY MaxClosesAssumption, SMT DEF Init
<1>2. TypeOK
  BY <1>1, Zenon DEF Init, TypeOK
<1>3. TunnelInv
  BY <1>1 DEF Init, TunnelInv, Untouched, Unwatched
<1>4. QED
  BY <1>2, <1>3 DEF IInv

(* What happens around the dial keeps it: the context, the clock, the      *)
(* proxy and the client, who closes only what was handed over.             *)
LEMMA SurroundingsKeep ==
  ASSUME IInv, End \/ DeadlinePasses \/ Answer \/ ClientCloses
  PROVE  IInv'
<1> USE MaxClosesAssumption DEF IInv, TypeOK, TunnelInv, Untouched, Unwatched
<1>1. CASE End
  BY <1>1 DEF End
<1>2. CASE DeadlinePasses
  BY <1>2 DEF DeadlinePasses
<1>3. CASE Answer
  BY <1>3 DEF Answer
<1>4. CASE ClientCloses
  BY <1>4 DEF ClientCloses
<1>5. QED
  BY <1>1, <1>2, <1>3, <1>4

(* The function of AfterFunc keeps it: while it is armed or started nobody *)
(* else has closed the connection.                                         *)
LEMMA WatcherKeeps ==
  ASSUME IInv, WatcherNext
  PROVE  IInv'
<1> USE DEF IInv, TypeOK, TunnelInv, Untouched, Unwatched
<1>1. CASE WatcherStarts
  BY <1>1 DEF WatcherStarts
<1>2. CASE WatcherCloses
  <2>1. /\ pc \in {"write", "read", "giveup", "stop"}
        /\ conn = "open"
        /\ closes = 0
    BY <1>2 DEF WatcherCloses
  <2>2. QED
    BY <1>2, <2>1 DEF WatcherCloses
<1>3. QED
  BY WatcherNext, <1>1, <1>2 DEF WatcherNext

(* Every step of the dialing goroutine keeps it. *)
LEMMA DialKeeps ==
  ASSUME IInv, DialNext
  PROVE  IInv'
<1> USE DEF IInv, TypeOK, TunnelInv, Untouched, Unwatched
<1>1. CASE Connect
  BY <1>1 DEF Connect
<1>2. CASE SetDeadline
  <2>1. CASE ~CloseAndFail
    BY <1>2, <2>1 DEF SetDeadline
  <2>2. CASE CloseAndFail
    <3>1. /\ pc = "deadline" /\ Untouched /\ Unwatched /\ result = "none"
          /\ UNCHANGED <<scheme, ended, late, reply, deadline, watcher,
                         result, released>>
      BY <1>2, <2>2 DEF SetDeadline, CloseAndFail
    <3>2. closes' = 1 /\ conn' = "closed" /\ pc' = "failed"
      BY <2>2, <3>1 DEF CloseAndFail
    <3>3. TypeOK'
      BY <3>1, <3>2
    <3>4. TunnelInv'
      BY <3>1, <3>2
    <3>5. QED
      BY <3>3, <3>4
  <2>3. QED
    BY <2>1, <2>2
<1>3. CASE Handshake
  BY <1>3 DEF Handshake, CloseAndFail
<1>4. CASE Watch
  BY <1>4 DEF Watch
<1>5. CASE WriteRequest
  BY <1>5 DEF WriteRequest
<1>6. CASE ReadResponse
  <2>1. pc = "read" /\ pc' \in {"stop", "giveup"} /\ reply' = "none"
    BY <1>6 DEF ReadResponse
  <2>2. QED
    BY <1>6, <2>1 DEF ReadResponse
<1>7. CASE GiveUp
  BY <1>7 DEF GiveUp, StopWatching
<1>8. CASE Close
  BY <1>8 DEF Close, CloseAndFail
<1>9. CASE Stop
  BY <1>9 DEF Stop, StopWatching
<1>10. CASE CheckContext
  BY <1>10 DEF CheckContext
<1>11. CASE ClearDeadline
  <2>1. CASE ~CloseAndFail
    BY <1>11, <2>1 DEF ClearDeadline
  <2>2. CASE CloseAndFail
    <3>1. /\ pc = "clear" /\ Untouched /\ Unwatched /\ result = "none"
          /\ UNCHANGED <<scheme, ended, late, reply, deadline, watcher,
                         result, released>>
      BY <1>11, <2>2 DEF ClearDeadline, CloseAndFail
    <3>2. closes' = 1 /\ conn' = "closed" /\ pc' = "failed"
      BY <2>2, <3>1 DEF CloseAndFail
    <3>3. TypeOK'
      BY <3>1, <3>2
    <3>4. TunnelInv'
      BY <3>1, <3>2
    <3>5. QED
      BY <3>3, <3>4
  <2>3. QED
    BY <2>1, <2>2
<1>12. CASE Return
  <2>1. CASE ~CloseAndFail
    BY <1>12, <2>1 DEF Return
  <2>2. CASE CloseAndFail
    <3>1. /\ pc = "return" /\ Untouched /\ Unwatched /\ result = "none"
          /\ UNCHANGED <<scheme, ended, late, reply, deadline, watcher,
                         result, released>>
      BY <1>12, <2>2 DEF Return, CloseAndFail
    <3>2. closes' = 1 /\ conn' = "closed" /\ pc' = "failed"
      BY <2>2, <3>1 DEF CloseAndFail
    <3>3. TypeOK'
      BY <3>1, <3>2
    <3>4. TunnelInv'
      BY <3>1, <3>2
    <3>5. QED
      BY <3>3, <3>4
  <2>3. QED
    BY <2>1, <2>2
<1>13. CASE Fail
  BY <1>13 DEF Fail
<1>14. QED
  BY DialNext, <1>1, <1>2, <1>3, <1>4, <1>5, <1>6, <1>7, <1>8, <1>9, <1>10,
     <1>11, <1>12, <1>13 DEF DialNext

(* The invariant is inductive. *)
LEMMA TunnelStep == IInv /\ [Next]_vars => IInv'
<1> SUFFICES ASSUME IInv, [Next]_vars
             PROVE  IInv'
  OBVIOUS
<1>1. CASE DialNext
  BY <1>1, DialKeeps
<1>2. CASE WatcherNext
  BY <1>2, WatcherKeeps
<1>3. CASE End \/ DeadlinePasses \/ Answer \/ ClientCloses
  BY <1>3, SurroundingsKeep
<1>4. CASE UNCHANGED vars
  BY <1>4 DEF vars, IInv, TypeOK, TunnelInv, Untouched, Unwatched
<1>5. QED
  BY <1>1, <1>2, <1>3, <1>4 DEF Next

(* Every state of a dial has the types and the shape of the invariant. *)
THEOREM TunnelInvariant == Spec => []IInv
  BY TunnelInit, TunnelStep, PTL DEF Spec

(* Type correctness; in particular the pool's code closes a connection at  *)
(* most once.                                                              *)
THEOREM TypeCorrect == Spec => []TypeOK
<1>1. IInv => TypeOK
  BY DEF IInv
<1>2. QED
  BY <1>1, TunnelInvariant, PTL

(* A connection that was handed over is nobody's but the client's. *)
THEOREM HandedOver == Spec => []HandedOverStaysOpen
<1>1. IInv => HandedOverStaysOpen
  BY DEF IInv, TunnelInv, HandedOverStaysOpen, Unwatched
<1>2. QED
  BY <1>1, TunnelInvariant, PTL

(* A dial that failed leaves no connection and no goroutine. *)
THEOREM NothingLeft == Spec => []FailedLeavesNothing
<1>1. IInv => FailedLeavesNothing
  BY DEF IInv, TunnelInv, FailedLeavesNothing, Unwatched
<1>2. QED
  BY <1>1, TunnelInvariant, PTL

(* A step closes a connection only if it is open and not handed over. *)
LEMMA CloseStep ==
  IInv /\ [Next]_vars =>
    (closes' # closes => conn = "open" /\ result = "none")
<1> SUFFICES ASSUME IInv, Next, closes' # closes
             PROVE  conn = "open" /\ result = "none"
  BY DEF vars
<1> USE DEF IInv, TypeOK, TunnelInv, Untouched, Unwatched
<1>1. CASE WatcherNext
  BY <1>1 DEF WatcherNext, WatcherStarts, WatcherCloses
<1>2. CASE DialNext
  <2>1. SetDeadline \/ Handshake \/ Close \/ ClearDeadline \/ Return
    BY <1>2 DEF DialNext, Connect, Watch, WriteRequest, ReadResponse, GiveUp,
                StopWatching, Stop, CheckContext, Fail
  <2>2. pc \in {"deadline", "tls", "close", "clear", "return"}
    BY <2>1 DEF SetDeadline, Handshake, Close, ClearDeadline, Return
  <2>3. QED
    BY <2>2
<1>3. CASE End \/ DeadlinePasses \/ Answer \/ ClientCloses
  BY <1>3 DEF End, DeadlinePasses, Answer, ClientCloses
<1>4. QED
  BY <1>1, <1>2, <1>3 DEF Next, vars

(* The dialer, the watcher and the client never close behind each other. *)
THEOREM OneCloser == Spec => ClosedOnce
<1>1. IInv /\ [Next]_vars =>
        [closes' # closes => conn = "open" /\ result = "none"]_vars
  BY CloseStep
<1>2. QED
  BY <1>1, TunnelInvariant, PTL DEF Spec, ClosedOnce

(***************************************************************************)
(* The parser of DNS answers.                                              *)
(***************************************************************************)

(* The length of what is read of an answer.                                *)
LEMMA LengthNat ==
  ASSUME DnsTypeOK
  PROVE  Length \in Nat
<1>1. answer.bytes \in Seq(0..255)
  BY DEF DnsTypeOK
<1>2. QED
  BY <1>1, LenProperties DEF Length

(* A byte of the answer is a number. *)
LEMMA AByte ==
  ASSUME DnsTypeOK, NEW k \in Nat, k < Length
  PROVE  Byte(k) \in 0..255
<1>1. answer.bytes \in Seq(0..255)
  BY DEF DnsTypeOK
<1>2. Len(answer.bytes) \in Nat
  BY <1>1, LenProperties
<1>3. k + 1 \in 1..Len(answer.bytes)
  BY <1>2, SMT DEF Length
<1>4. QED
  BY <1>1, <1>3, ElementOfSeq DEF Byte

(* So are two bytes: a length, or with 192 taken off a pointer.            *)
LEMMA AWord ==
  ASSUME DnsTypeOK, NEW k \in Nat, k + 1 < Length
  PROVE  /\ Word(k) \in Nat
         /\ IsPointer(Byte(k)) => Pointer(k) \in Nat
<1>0. Length \in Nat
  BY LengthNat
<1>1. k < Length /\ k + 1 \in Nat
  BY <1>0, SMT
<1>2. Byte(k) \in 0..255 /\ Byte(k + 1) \in 0..255
  BY <1>1, AByte
<1> DEFINE a == Byte(k)
           b == Byte(k + 1)
<1>3. Word(k) = a * 256 + b
  BY Zenon DEF Word
<1>4. a * 256 + b \in Nat /\ (a >= 192 => (a * 256 + b) - 192 * 256 \in Nat)
  <2>1. a \in 0..255 /\ b \in 0..255
    BY <1>2, Zenon
  <2> HIDE DEF a, b
  <2> QED
    BY <2>1, SMT
<1>5. Pointer(k) = (a * 256 + b) - 192 * 256
  BY <1>3, Zenon DEF Pointer
<1>6. QED
  BY <1>3, <1>4, <1>5, Zenon DEF IsPointer

(* A look at bytes of the answer moves the furthest one within the answer. *)
LEMMA LookStays ==
  ASSUME DnsTypeOK, DnsInside, NEW n \in Nat, n <= Length, LookUpTo(n)
  PROVE  furthest' \in Nat /\ furthest' <= Length
BY LengthNat, SMT DEF DnsTypeOK, DnsInside, LookUpTo, Larger

(* Every step of the parser keeps its invariant. *)
LEMMA DnsKeeps ==
  ASSUME DnsInv, DnsNext
  PROVE  DnsInv'
<1> USE DEF DnsInv
<1>0. Length \in Nat
  BY LengthNat
<1>1. ASSUME UNCHANGED answer PROVE Length' = Length
  BY <1>1 DEF Length
<1>2. CASE DnsReceive
  <2>1. /\ answer' \in Answers /\ phase' = "record" /\ furthest' = QuestionEnd
        /\ UNCHANGED <<record, offset, consumed, expanded, steps>>
        /\ steps = 0
    BY <1>2 DEF DnsReceive
  <2>2. answer' \in [bytes : Seq(0..255), count : Nat]
        /\ Len(answer'.bytes) >= QuestionEnd
    BY <2>1, AnswersAssumption
  <2>3. DnsTypeOK'
    BY <2>1, <2>2, QuestionAssumption DEF DnsTypeOK
  <2>4. QED
    BY <2>1, <2>2, <2>3, SMT DEF DnsInside, Length, DnsTypeOK
<1>3. CASE DnsReturn
  <2>1. /\ phase' = "idle" /\ answer' = [bytes |-> <<>>, count |-> 0]
        /\ record' = 0 /\ offset' = QuestionEnd /\ consumed' = -1
        /\ expanded' = 0 /\ steps' = 0 /\ furthest' = 0
    BY <1>3 DEF DnsReturn
  <2>2. DnsTypeOK'
    BY <2>1, QuestionAssumption, SMT DEF DnsTypeOK
  <2>3. Length' = 0
    BY <2>1 DEF Length
  <2>4. QED
    BY <2>1, <2>2, <2>3, MaxExpandedAssumption, SMT DEF DnsInside
<1>4. CASE NextRecord
  BY <1>0, <1>1, <1>4, MaxExpandedAssumption, SMT
     DEF NextRecord, DnsTypeOK, DnsInside
<1>5. CASE NameRunsOut
  BY <1>0, <1>1, <1>5, SMT DEF NameRunsOut, Refuse, DnsTypeOK, DnsInside
<1>6. CASE NameEnds
  <2>1. furthest' \in Nat /\ furthest' <= Length
    BY <1>0, <1>6, LookStays, SMT DEF NameEnds, DnsTypeOK
  <2>2. QED
    BY <1>0, <1>1, <1>6, <2>1, SMT DEF NameEnds, DnsTypeOK, DnsInside
<1>7. CASE FollowPointer
  <2>1. furthest' \in Nat /\ furthest' <= Length
    BY <1>0, <1>7, LookStays, SMT DEF FollowPointer, DnsTypeOK
  <2>2. CASE offset + 1 < Length /\ Pointer(offset) < offset
    <3>1. Pointer(offset) \in Nat
      BY <1>7, <2>2, AWord DEF FollowPointer, DnsTypeOK
    <3>2. QED
      BY <1>0, <1>1, <1>7, <2>1, <2>2, <3>1, SMT
         DEF FollowPointer, Parsing, DnsTypeOK, DnsInside
  <2>3. CASE ~(offset + 1 < Length /\ Pointer(offset) < offset)
    <3>1. Refuse
      BY <1>7, <2>3, Zenon DEF FollowPointer
    <3>2. QED
      BY <1>0, <1>1, <2>1, <3>1, SMT DEF Refuse, DnsTypeOK, DnsInside
  <2>4. QED
    BY <2>2, <2>3
<1>8. CASE SkipLabel
  <2>1. furthest' \in Nat /\ furthest' <= Length
    BY <1>0, <1>8, LookStays, SMT DEF SkipLabel, DnsTypeOK
  <2>2. Byte(offset) \in 0..255
    BY <1>8, AByte DEF SkipLabel, DnsTypeOK
  <2> DEFINE size == Byte(offset) + 1
             fits == offset + size <= Length /\ expanded + size <= MaxExpanded
  <2>3. size \in Nat
    BY <2>2, SMT
  <2>4. CASE fits
    <3>1. /\ expanded' = expanded + size /\ offset' = offset + size
          /\ steps' = steps + 1 /\ UNCHANGED <<phase, answer, record, consumed>>
          /\ steps <= Length /\ phase = "name"
      BY <1>8, <2>4 DEF SkipLabel, Parsing
    <3>2. expanded + size <= MaxExpanded
      BY <2>4
    <3> HIDE DEF size, fits
    <3>3. QED
      BY <1>0, <1>1, <2>1, <2>3, <3>1, <3>2, SMT DEF DnsTypeOK, DnsInside
  <2>5. CASE ~fits
    <3>1. Refuse
      BY <1>8, <2>5 DEF SkipLabel
    <3>2. QED
      BY <1>0, <1>1, <2>1, <3>1, SMT DEF Refuse, DnsTypeOK, DnsInside
  <2>6. QED
    BY <2>4, <2>5
<1>9. CASE ReservedLabel
  <2>1. furthest' \in Nat /\ furthest' <= Length
    BY <1>0, <1>9, LookStays, SMT DEF ReservedLabel, DnsTypeOK
  <2>2. QED
    BY <1>0, <1>1, <1>9, <2>1, SMT DEF ReservedLabel, Refuse, DnsTypeOK, DnsInside
<1>10. CASE SkipData
  <2>1. CASE offset + FixedSize > Length
    BY <1>0, <1>1, <1>10, <2>1, SMT DEF SkipData, Refuse, DnsTypeOK, DnsInside
  <2>2. CASE ~(offset + FixedSize > Length)
    <3>1. LookUpTo(offset + FixedSize)
      BY <1>10, <2>2 DEF SkipData
    <3>2. furthest' \in Nat /\ furthest' <= Length
      BY <1>0, <2>2, <3>1, LookStays, FixedSizeAssumption, SMT DEF DnsTypeOK
    <3>3. /\ offset + FixedSize - 2 \in Nat
          /\ (offset + FixedSize - 2) + 1 < Length
      BY <1>0, <2>2, FixedSizeAssumption, SMT DEF DnsTypeOK
    <3>4. Word(offset + FixedSize - 2) \in Nat
      BY <3>3, AWord
    <3> DEFINE data == offset + FixedSize
               size == Word(data - 2)
    <3>5. /\ size \in Nat
          /\ data \in Nat
      BY <3>4, FixedSizeAssumption, SMT DEF DnsTypeOK
    <3>6. CASE data + size > Length
      <4>1. Refuse
        BY <1>10, <2>2, <3>6 DEF SkipData
      <4>2. QED
        BY <1>0, <1>1, <3>2, <4>1, SMT DEF Refuse, DnsTypeOK, DnsInside
    <3>7. CASE ~(data + size > Length)
      <4>1. /\ offset' = data + size /\ record' = record + 1
            /\ phase' = "record"
            /\ UNCHANGED <<consumed, answer, expanded, steps>>
        BY <1>10, <2>2, <3>7 DEF SkipData
      <4> HIDE DEF data, size
      <4>2. QED
        BY <1>0, <1>1, <3>2, <3>5, <4>1, SMT DEF DnsTypeOK, DnsInside
    <3>8. QED
      BY <3>6, <3>7
  <2>3. QED
    BY <2>1, <2>2
<1>11. QED
  BY <1>2, <1>3, <1>4, <1>5, <1>6, <1>7, <1>8, <1>9, <1>10 DEF DnsNext, DnsParse

(* The invariant of the parser is inductive. *)
LEMMA DnsInvHolds == DnsSpec => []DnsInv
<1>1. DnsInit => DnsInv
  <2> SUFFICES ASSUME DnsInit PROVE DnsInv
    OBVIOUS
  <2>1. DnsTypeOK
    BY QuestionAssumption, EmptySeq DEF DnsInit, DnsTypeOK
  <2>2. Length = 0
    BY DEF DnsInit, Length
  <2>3. QED
    BY <2>1, <2>2, MaxExpandedAssumption, SMT DEF DnsInit, DnsInv, DnsInside
<1>2. DnsInv /\ [DnsNext]_dnsVars => DnsInv'
  <2> SUFFICES ASSUME DnsInv, [DnsNext]_dnsVars PROVE DnsInv'
    OBVIOUS
  <2>1. CASE UNCHANGED dnsVars
    BY <2>1 DEF dnsVars, DnsInv, DnsTypeOK, DnsInside, Length
  <2>2. QED
    BY <2>1, DnsKeeps
<1>3. QED
  BY <1>1, <1>2, PTL DEF DnsSpec

(* Whatever the bytes of an answer are, the parser (validateDNSResource-   *)
(* Records, dnsNameEnd) looks at none outside of it, and takes no more     *)
(* steps in a name than the answer has bytes.                              *)
THEOREM DnsStaysInside == DnsSpec => []DnsInside
<1>1. DnsInv => DnsInside
  BY DEF DnsInv
<1> QED
  BY <1>1, DnsInvHolds, PTL

(***************************************************************************)
(* What the parser accepts, for every set of answers.  The reference is    *)
(* about places, the parser about an offset that moves; Walk relates them. *)
(* The places where the parser has been and the offset are reached by the  *)
(* hops of the reference, the offset in as many hops as the parser has made *)
(* steps, and no hop leads from those places to elsewhere.  So a name whose *)
(* walk comes to a zero has no other places; one whose walk leaves the     *)
(* message, goes in circles or is blocked has no place with a zero; and a  *)
(* walk that has used up the steps of dnsNameEnd goes in circles, as there *)
(* are no more places than bytes.  Passed counts the records.              *)
(***************************************************************************)

(* A set of numbers that is not empty has a least one: the intervals from  *)
(* 0 to its members are well-founded.                                      *)
LEMMA LeastNumber ==
  ASSUME NEW T, T \subseteq Nat, NEW t \in T
  PROVE  \E m \in T : \A n \in T : m <= n
<1> DEFINE U == 0..t
           F == {0..m : m \in {n \in T : n <= t}}
<1>1. IsFiniteSet(U)
  BY FS_Interval
<1>2. F \subseteq SUBSET U /\ F # {}
  OBVIOUS
<1>3. IsWellFoundedOn(StrictSubsetOrdering(U), SUBSET U)
  BY <1>1, FS_StrictSubsetOrderingWellFounded, FS_FiniteSubsetsOfFinite
<1>4. PICK I \in F : \A J \in F : <<J, I>> \notin StrictSubsetOrdering(U)
  BY <1>2, <1>3, WFMin, Zenon
<1>5. PICK m \in T : m <= t /\ I = 0..m
  BY <1>4
<1>6. ASSUME NEW n \in T, n < m
      PROVE  FALSE
  <2> HIDE DEF F
  <2>0. m \in Nat /\ n \in Nat /\ t \in Nat
    OBVIOUS
  <2>1. m <= t /\ n <= t
    BY <1>5, <1>6, <2>0
  <2>2. 0..n \subseteq 0..m /\ m \in 0..m /\ m \notin 0..n
    BY <1>6, <2>0
  <2>3. 0..n \in F /\ 0..n \subseteq I /\ 0..n # I
    BY <1>5, <2>1, <2>2 DEF F
  <2> QED
    BY <1>2, <1>4, <2>3 DEF StrictSubsetOrdering
<1> QED
  BY <1>5, <1>6

(* Applying a function again and again has a result, whatever the function *)
(* is: of all numbers of times, there is no first without one.             *)
Applies(f, x, n, at) ==
  at[0] = x /\ \A m \in 1..n : at[m] = f[at[m - 1]]

(* What has been applied n times can be applied once more.                 *)
LEMMA ApplyOnce ==
  ASSUME NEW U, NEW f \in [U -> U], NEW x \in U, NEW n \in Nat,
         NEW at \in [0..n -> U], Applies(f, x, n, at)
  PROVE  \E more \in [0..(n + 1) -> U] : Applies(f, x, n + 1, more)
<1> DEFINE more == [m \in 0..(n + 1) |-> IF m = n + 1 THEN f[at[n]] ELSE at[m]]
<1>1. \A m \in 0..(n + 1) : m = n + 1 \/ m \in 0..n
  OBVIOUS
<1>2. more \in [0..(n + 1) -> U]
  BY <1>1
<1>3. 0 \in 0..(n + 1) /\ 0 # n + 1
  OBVIOUS
<1>4. more[0] = x
  BY <1>3 DEF Applies
<1>5. ASSUME NEW m \in 1..(n + 1) PROVE more[m] = f[more[m - 1]]
  <2>1. m \in 0..(n + 1) /\ m - 1 \in 0..(n + 1) /\ m - 1 # n + 1
    OBVIOUS
  <2>2. more[m - 1] = at[m - 1]
    BY <2>1
  <2>3. CASE m = n + 1
    <3>1. m - 1 = n
      BY <2>3
    <3>2. more[m] = f[at[n]]
      BY <2>1, <2>3
    <3> QED
      BY <2>2, <3>1, <3>2
  <2>4. CASE m \in 1..n
    <3>1. m # n + 1
      BY <2>4
    <3>2. more[m] = at[m]
      BY <2>1, <3>1
    <3>3. at[m] = f[at[m - 1]]
      BY <2>4 DEF Applies
    <3> QED
      BY <2>2, <3>2, <3>3
  <2> QED
    BY <1>1, <2>3, <2>4
<1> HIDE DEF more
<1> QED
  BY <1>2, <1>4, <1>5 DEF Applies

(* So there is a result for every n.                                       *)
LEMMA Applicable ==
  ASSUME NEW U, NEW f \in [U -> U], NEW x \in U, NEW n \in Nat
  PROVE  \E at \in [0..n -> U] : Applies(f, x, n, at)
<1> DEFINE T == {m \in Nat : ~ \E at \in [0..m -> U] : Applies(f, x, m, at)}
<1>1. SUFFICES ASSUME n \in T PROVE FALSE
  OBVIOUS
<1>2. T \subseteq Nat
  OBVIOUS
<1>3. PICK m \in T : \A k \in T : m <= k
  <2> HIDE DEF T
  <2> QED
    BY <1>1, <1>2, LeastNumber
<1>4. m # 0
  <2>1. [k \in 0..0 |-> x] \in [0..0 -> U] /\ Applies(f, x, 0, [k \in 0..0 |-> x])
    BY DEF Applies
  <2> QED
    BY <2>1
<1>5. m - 1 \in Nat /\ m - 1 \notin T /\ (m - 1) + 1 = m
  <2>1. m \in Nat /\ m - 1 \in Nat /\ ~(m <= m - 1) /\ (m - 1) + 1 = m
    BY <1>2, <1>4
  <2> HIDE DEF T
  <2> QED
    BY <1>3, <2>1
<1>6. PICK at \in [0..(m - 1) -> U] : Applies(f, x, m - 1, at)
  BY <1>5
<1>7. \E more \in [0..((m - 1) + 1) -> U] : Applies(f, x, (m - 1) + 1, more)
  BY <1>5, <1>6, ApplyOnce
<1> QED
  BY <1>3, <1>5, <1>7

(* Iterate finds it.                                                       *)
LEMMA IterateIs ==
  ASSUME NEW U, NEW f \in [U -> U], NEW x \in U, NEW n \in Nat
  PROVE  \E at : Applies(f, x, n, at) /\ Iterate(f, x, n) = at[n]
<1> DEFINE Right(a) == a = [m \in 0..n |-> IF m = 0 THEN x ELSE f[a[m - 1]]]
<1>1. PICK at \in [0..n -> U] : Applies(f, x, n, at)
  BY Applicable
<1>2. Right(at)
  <2>1. ASSUME NEW m \in 0..n PROVE at[m] = IF m = 0 THEN x ELSE f[at[m - 1]]
    <3>1. m = 0 \/ m \in 1..n
      OBVIOUS
    <3> QED
      BY <1>1, <3>1 DEF Applies
  <2> QED
    BY <2>1
<1>3. Iterate(f, x, n) = (CHOOSE a : Right(a))[n]
  BY DEF Iterate
<1> DEFINE a == CHOOSE a : Right(a)
<1>4. Right(a)
  <2> HIDE DEF Right
  <2> QED
    BY <1>2
<1> HIDE DEF a
<1>5. Applies(f, x, n, a)
  <2>1. \A m \in 0..n : a[m] = IF m = 0 THEN x ELSE f[a[m - 1]]
    BY <1>4
  <2>2. 0 \in 0..n /\ \A m \in 1..n : m \in 0..n /\ m # 0
    OBVIOUS
  <2> QED
    BY <2>1, <2>2 DEF Applies
<1> QED
  BY <1>3, <1>5 DEF a

(* What holds for a, and with each number up to n for the next, holds for  *)
(* all of them.                                                            *)
LEMMA UpTo ==
  ASSUME NEW T, NEW a \in Nat, NEW n \in Nat, a \in T,
         \A m \in a..(n - 1) : m \in T => m + 1 \in T
  PROVE  \A m \in a..n : m \in T
<1> DEFINE F == {m \in a..n : m \notin T}
<1>1. SUFFICES ASSUME NEW k \in F PROVE FALSE
  OBVIOUS
<1>2. F \subseteq Nat
  OBVIOUS
<1>3. PICK m \in F : \A j \in F : m <= j
  <2> HIDE DEF F
  <2> QED
    BY <1>1, <1>2, LeastNumber
<1>4. m # a /\ m \in a..n
  OBVIOUS
<1>5. m - 1 \in a..(n - 1) /\ ~(m <= m - 1) /\ (m - 1) + 1 = m /\ m - 1 \in a..n
  BY <1>4
<1>6. m - 1 \in T
  BY <1>3, <1>5
<1> QED
  BY <1>5, <1>6

(* A function applied to members of a set stays in the set.                *)
LEMMA AppliesTyped ==
  ASSUME NEW U, NEW f \in [U -> U], NEW x \in U, NEW n \in Nat, NEW at,
         Applies(f, x, n, at)
  PROVE  \A m \in 0..n : at[m] \in U
<1> DEFINE T == {m \in Nat : at[m] \in U}
<1>1. 0 \in T
  BY DEF Applies
<1>2. ASSUME NEW m \in 0..(n - 1), m \in T PROVE m + 1 \in T
  <2>1. m + 1 \in 1..n /\ (m + 1) - 1 = m /\ m + 1 \in Nat
    OBVIOUS
  <2>2. at[m + 1] = f[at[m]]
    BY <2>1 DEF Applies
  <2> QED
    BY <1>2, <2>1, <2>2
<1>3. \A m \in 0..n : m \in T
  <2> HIDE DEF T
  <2> QED
    BY <1>1, <1>2, UpTo
<1> QED
  BY <1>3

(***************************************************************************)
(* Where hops lead to.                                                     *)
(***************************************************************************)

ClosedUnder(hops, places) == \A j \in places : hops[j] \subseteq places

(* j is reached by n hops or less. *)
Near(hops, k, j, n) ==
  \A at : Applies(Wider(hops), {k}, Cardinality(DOMAIN hops), at) => j \in at[n]

(* What is reached by one more hop.                                        *)
LEMMA WiderIs ==
  ASSUME NEW D, NEW hops \in [D -> SUBSET D]
  PROVE  /\ Wider(hops) \in [SUBSET D -> SUBSET D]
         /\ \A places \in SUBSET D :
              Wider(hops)[places] = places \cup UNION {hops[j] : j \in places}
<1>1. DOMAIN hops = D
  OBVIOUS
<1>2. \A places \in SUBSET D : places \cup UNION {hops[j] : j \in places} \in SUBSET D
  OBVIOUS
<1> QED
  BY <1>1, <1>2 DEF Wider

(* A hop further is a hop more.                                            *)
LEMMA NearNext ==
  ASSUME NEW D, IsFiniteSet(D), NEW hops \in [D -> SUBSET D], NEW k \in D, NEW j \in D,
         NEW n \in Nat, n < Cardinality(D), Near(hops, k, j, n), NEW i \in hops[j]
  PROVE  Near(hops, k, i, n + 1)
<1> DEFINE N == Cardinality(D)
<1>1. N \in Nat /\ DOMAIN hops = D
  BY FS_CardinalityType
<1> HIDE DEF N
<1>2. SUFFICES ASSUME NEW at, Applies(Wider(hops), {k}, N, at)
               PROVE  i \in at[n + 1]
  BY <1>1 DEF Near, N
<1>3. j \in at[n]
  BY <1>1, <1>2 DEF Near, N
<1>4. n \in 0..N /\ n + 1 \in 1..N /\ (n + 1) - 1 = n
  BY <1>1 DEF N
<1>5. /\ Wider(hops) \in [SUBSET D -> SUBSET D]
      /\ \A places \in SUBSET D :
           Wider(hops)[places] = places \cup UNION {hops[m] : m \in places}
  BY WiderIs
<1>6. \A m \in 0..N : at[m] \in SUBSET D
  <2>1. {k} \in SUBSET D
    OBVIOUS
  <2> QED
    BY <1>1, <1>2, <1>5, <2>1, AppliesTyped
<1>7. at[n] \in SUBSET D
  BY <1>4, <1>6
<1>8. at[n + 1] = Wider(hops)[at[n]]
  BY <1>2, <1>4 DEF Applies
<1>9. at[n + 1] = at[n] \cup UNION {hops[m] : m \in at[n]}
  BY <1>5, <1>7, <1>8, Zenon
<1> QED
  BY <1>3, <1>9

(* What is near is reached.                                                *)
LEMMA NearReached ==
  ASSUME NEW D, IsFiniteSet(D), NEW hops \in [D -> SUBSET D], NEW k \in D, NEW j \in D,
         NEW n \in Nat, n <= Cardinality(D), Near(hops, k, j, n)
  PROVE  j \in Reached(hops, k)
<1> DEFINE N == Cardinality(D)
<1>1. N \in Nat /\ DOMAIN hops = D /\ {k} \in SUBSET D
  BY FS_CardinalityType
<1>2. /\ Wider(hops) \in [SUBSET D -> SUBSET D]
      /\ \A p \in SUBSET D : Wider(hops)[p] = p \cup UNION {hops[m] : m \in p}
  BY WiderIs
<1> HIDE DEF N
<1>3. PICK at : Applies(Wider(hops), {k}, N, at) /\ Iterate(Wider(hops), {k}, N) = at[N]
  <2>1. Wider(hops) \in [SUBSET D -> SUBSET D] /\ {k} \in SUBSET D /\ N \in Nat
    BY <1>1, <1>2
  <2> QED
    BY <2>1, IterateIs, Zenon
<1>4. \A m \in 0..N : at[m] \in SUBSET D
  BY <1>1, <1>2, <1>3, AppliesTyped
<1> DEFINE T == {m \in Nat : j \in at[m]}
<1>5. n \in T
  BY <1>1, <1>3 DEF Near, N
<1>6. ASSUME NEW m \in n..(N - 1), m \in T PROVE m + 1 \in T
  <2>1. m \in 0..N /\ m + 1 \in 1..N /\ (m + 1) - 1 = m /\ m + 1 \in Nat
    BY <1>1
  <2>2. at[m + 1] = Wider(hops)[at[m]]
    BY <1>3, <2>1 DEF Applies
  <2>3. at[m] \subseteq at[m + 1]
    <3>1. at[m] \in SUBSET D
      BY <1>4, <2>1
    <3>2. at[m + 1] = at[m] \cup UNION {hops[i] : i \in at[m]}
      BY <1>2, <2>2, <3>1, Zenon
    <3> QED
      BY <3>2
  <2> QED
    BY <1>6, <2>1, <2>3
<1>7. \A m \in n..N : m \in T
  <2> HIDE DEF T
  <2> QED
    BY <1>1, <1>5, <1>6, UpTo
<1>8. N \in n..N
  BY <1>1 DEF N
<1>9. j \in at[N]
  BY <1>7, <1>8
<1> QED
  BY <1>1, <1>3, <1>9 DEF Reached, N

(* A set that no hop leaves holds all that is reached. *)
LEMMA ReachedLeast ==
  ASSUME NEW D, IsFiniteSet(D), NEW hops \in [D -> SUBSET D],
         NEW places \in SUBSET D, NEW k \in places, ClosedUnder(hops, places)
  PROVE  Reached(hops, k) \subseteq places
<1> DEFINE N == Cardinality(D)
<1>1. N \in Nat /\ DOMAIN hops = D /\ {k} \in SUBSET D
  BY FS_CardinalityType
<1>2. /\ Wider(hops) \in [SUBSET D -> SUBSET D]
      /\ \A p \in SUBSET D : Wider(hops)[p] = p \cup UNION {hops[m] : m \in p}
  BY WiderIs
<1> HIDE DEF N
<1>3. PICK at : Applies(Wider(hops), {k}, N, at) /\ Iterate(Wider(hops), {k}, N) = at[N]
  <2>1. Wider(hops) \in [SUBSET D -> SUBSET D] /\ {k} \in SUBSET D /\ N \in Nat
    BY <1>1, <1>2
  <2> QED
    BY <2>1, IterateIs, Zenon
<1>4. \A m \in 0..N : at[m] \in SUBSET D
  BY <1>1, <1>2, <1>3, AppliesTyped
<1> DEFINE T == {m \in Nat : at[m] \subseteq places}
<1>5. 0 \in T
  BY <1>3 DEF Applies
<1>6. ASSUME NEW m \in 0..(N - 1), m \in T PROVE m + 1 \in T
  <2>1. m \in 0..N /\ m + 1 \in 1..N /\ (m + 1) - 1 = m /\ m + 1 \in Nat
    BY <1>1
  <2>2. at[m + 1] = Wider(hops)[at[m]]
    BY <1>3, <2>1 DEF Applies
  <2>3. at[m + 1] = at[m] \cup UNION {hops[j] : j \in at[m]}
    <3>1. at[m] \in SUBSET D
      BY <1>4, <2>1
    <3> QED
      BY <1>2, <2>2, <3>1, Zenon
  <2>4. at[m] \subseteq places
    BY <1>6
  <2>5. \A j \in at[m] : hops[j] \subseteq places
    BY <2>4 DEF ClosedUnder
  <2>6. at[m + 1] \subseteq places
    BY <2>3, <2>4, <2>5
  <2> QED
    BY <2>1, <2>6
<1>7. \A m \in 0..N : m \in T
  <2> HIDE DEF T
  <2> QED
    BY <1>1, <1>5, <1>6, UpTo
<1>8. at[N] \subseteq places
  BY <1>1, <1>7
<1> QED
  BY <1>1, <1>3, <1>8 DEF Reached, N

(* The start is reached without a hop. *)
LEMMA NearFirst ==
  ASSUME NEW hops, NEW k
  PROVE  Near(hops, k, k, 0)
BY DEF Near, Applies

(* A walk from k that has been at the places of P and is at o: c is where the *)
(* name ends if that is known already, x the bytes of its labels, s its steps. *)
(* Back at a place of P it goes in circles and counts no more.             *)
Walk(k, P, o, c, x, s) ==
  /\ k \in Nat /\ k \in P \cup {o}
  /\ P \subseteq Offsets /\ P \subseteq Reached(Hops, k)
  /\ \A j \in P : /\ Byte(j) # 0
                  /\ Hop(j) \subseteq P \cup {o}
                  /\ IsPointer(Byte(j)) => Pointer(j) < j
  /\ o \notin P => /\ s = Cardinality(P)
                   /\ x = LabelBytes(P)
                   /\ o \in Offsets => Near(Hops, k, o, s)
  /\ c < 0 => /\ \A j \in P : IsLabel(Byte(j)) /\ j < o
              /\ o \in Offsets => Near(LabelHops, k, o, s)
  /\ c >= 0 => k \in Offsets /\ c = NameBytesEnd(k)

(* The n-th record begins at k.                                            *)
Passed(n, k) ==
  \A e : Applies(RecordEnds, QuestionEnd, answer.count, e) => e[n] = k

(* The definitions of the reference are about the answer alone: those      *)
(* about its bytes ...                                                     *)
LEMMA SameBytes ==
  ASSUME UNCHANGED answer
  PROVE  /\ Length' = Length /\ Offsets' = Offsets
         /\ \A k : Byte(k)' = Byte(k) /\ Word(k)' = Word(k) /\ Pointer(k)' = Pointer(k)
         /\ \A k : Hop(k)' = Hop(k)
         /\ Hops' = Hops /\ LabelHops' = LabelHops
<1>1. Length' = Length /\ Offsets' = Offsets
  BY DEF Length, Offsets
<1>2. \A k : Byte(k)' = Byte(k)
  BY DEF Byte
<1>3. \A k : Word(k)' = Word(k) /\ Pointer(k)' = Pointer(k)
  BY <1>2 DEF Word, Pointer
<1>4. \A k : Hop(k)' = Hop(k)
  BY <1>1, <1>2, <1>3 DEF Hop
<1>5. Hops' = Hops
  BY <1>1, <1>4 DEF Hops
<1>6. LabelHops' = LabelHops
  BY <1>1, <1>2, <1>5 DEF LabelHops
<1> QED
  BY <1>1, <1>2, <1>3, <1>4, <1>5, <1>6

(* So are those about names and records ...                                *)
LEMMA SameNames ==
  ASSUME UNCHANGED answer, NEW k
  PROVE  /\ GoodName(k)' = GoodName(k)
         /\ NameBytesEnd(k)' = NameBytesEnd(k)
         /\ GoodRecord(k)' = GoodRecord(k)
         /\ RecordEnd(k)' = RecordEnd(k)
<1>1. \A p : LabelBytes(p)' = LabelBytes(p)
  BY DEF LabelBytes, Byte
<1>2. Reached(Hops, k)' = Reached(Hops, k) /\ Reached(LabelHops, k)' = Reached(LabelHops, k)
  BY SameBytes
<1>3. GoodName(k)' = GoodName(k)
  BY <1>1, <1>2, SameBytes DEF GoodName
<1>4. NameBytesEnd(k)' = NameBytesEnd(k)
  BY DEF NameBytesEnd, LabelHops, Hops, Hop, Offsets, Pointer, Word, Byte, Length
<1>5. RecordEnd(k)' = RecordEnd(k) /\ DataStart(k)' = DataStart(k)
  BY <1>4, SameBytes DEF RecordEnd, DataStart
<1>6. GoodRecord(k)' = GoodRecord(k)
  BY <1>3, <1>5, SameBytes DEF GoodRecord
<1> QED
  BY <1>3, <1>4, <1>5, <1>6

(* ... the walk, with the place of the parser given ...                    *)
LEMMA SameWalk ==
  ASSUME UNCHANGED answer, NEW k, NEW P, NEW o, NEW c, NEW x, NEW s
  PROVE  Walk(k, P, o, c, x, s)' = Walk(k, P, o, c, x, s)
<1>1. \A p : LabelBytes(p)' = LabelBytes(p)
  BY DEF LabelBytes, Byte
<1> QED
  BY <1>1, SameBytes, SameNames DEF Walk

(* ... and the message.                                                    *)
LEMMA SameRecords ==
  ASSUME UNCHANGED answer
  PROVE  /\ RecordEnds' = RecordEnds
         /\ \A n, k : Passed(n, k)' = Passed(n, k)
         /\ GoodMessage' = GoodMessage
<1>1. RecordEnds' = RecordEnds
  BY SameNames, SameBytes DEF RecordEnds
<1> QED
  BY <1>1, SameBytes DEF Passed, GoodMessage

(* The size of an interval. *)
LEMMA IntervalFrom0 ==
  ASSUME NEW n \in Nat
  PROVE  /\ IsFiniteSet(0..n) /\ Cardinality(0..n) = n + 1
         /\ IsFiniteSet(0..(n - 1)) /\ Cardinality(0..(n - 1)) = n
<1>1. 0 \in Int /\ n \in Int /\ n - 1 \in Int
  OBVIOUS
<1>2. IsFiniteSet(0..n) /\ Cardinality(0..n) = IF 0 > n THEN 0 ELSE n - 0 + 1
  BY <1>1, FS_Interval, Zenon
<1>3. /\ IsFiniteSet(0..(n - 1))
      /\ Cardinality(0..(n - 1)) = IF 0 > n - 1 THEN 0 ELSE (n - 1) - 0 + 1
  BY <1>1, FS_Interval, Zenon
<1> QED
  BY <1>2, <1>3

(* The places in a message, and where they lead. *)
LEMMA OffsetsAre ==
  ASSUME answer \in [bytes : Seq(0..255), count : Nat]
  PROVE  /\ Length \in Nat
         /\ Offsets \subseteq Nat /\ IsFiniteSet(Offsets) /\ Cardinality(Offsets) = Length
         /\ \A j \in Offsets : j < Length /\ Byte(j) \in 0..255
<1>1. Length \in Nat
  BY LenProperties DEF Length
<1>2. IsFiniteSet(0..(Length - 1)) /\ Cardinality(0..(Length - 1)) = Length
  BY <1>1, IntervalFrom0
<1>3. ASSUME NEW j \in Offsets PROVE j \in Nat /\ j < Length /\ Byte(j) \in 0..255
  <2>1. j \in Nat /\ j < Length
    BY <1>1, <1>3 DEF Offsets
  <2>2. answer.bytes \in Seq(0..255) /\ j + 1 \in 1..Len(answer.bytes)
    BY <1>1, <2>1 DEF Length
  <2>3. answer.bytes[j + 1] \in 0..255
    BY <2>2, ElementOfSeq
  <2> QED
    BY <2>1, <2>3 DEF Byte
<1> QED
  BY <1>1, <1>2, <1>3 DEF Offsets

(* Hops stay inside of the message.                                        *)
LEMMA HopsAre ==
  /\ Hops \in [Offsets -> SUBSET Offsets] /\ DOMAIN Hops = Offsets
  /\ LabelHops \in [Offsets -> SUBSET Offsets] /\ DOMAIN LabelHops = Offsets
  /\ \A j \in Offsets : Hops[j] = Hop(j) \cap Offsets
  /\ \A j \in Offsets : LabelHops[j] = IF IsLabel(Byte(j)) THEN Hops[j] ELSE {}
<1>1. Hops \in [Offsets -> SUBSET Offsets] /\ DOMAIN Hops = Offsets
  BY DEF Hops
<1>2. \A j \in Offsets : (IF IsLabel(Byte(j)) THEN Hops[j] ELSE {}) \in SUBSET Offsets
  BY <1>1
<1>3. LabelHops \in [Offsets -> SUBSET Offsets] /\ DOMAIN LabelHops = Offsets
  BY <1>2 DEF LabelHops
<1> QED
  BY <1>1, <1>3 DEF Hops, LabelHops

(* A name that keeps to places without a zero is no good. *)
LEMMA NoEnd ==
  ASSUME answer \in [bytes : Seq(0..255), count : Nat],
         NEW P, P \subseteq Offsets, NEW k \in P,
         \A j \in P : Byte(j) # 0 /\ Hop(j) \cap Offsets \subseteq P
  PROVE  ~GoodName(k)
<1>1. ClosedUnder(Hops, P)
  BY HopsAre DEF ClosedUnder
<1>2. P \in SUBSET Offsets /\ Hops \in [Offsets -> SUBSET Offsets] /\ IsFiniteSet(Offsets)
  BY HopsAre, OffsetsAre
<1>3. Reached(Hops, k) \subseteq P
  BY <1>1, <1>2, ReachedLeast
<1> QED
  BY <1>3 DEF GoodName

(***************************************************************************)
(* How many bytes the labels take.                                         *)
(***************************************************************************)

(* A pair for each of them.                                                *)
Cells(places) == UNION {{j} \X (0..Byte(j)) : j \in {i \in places : IsLabel(Byte(i))}}

LEMMA LabelBytesAre == \A P : LabelBytes(P) = Cardinality(Cells(P))
  BY Zenon DEF LabelBytes, Cells

(* They are finitely many, as each byte is less than 256.                  *)
LEMMA CellsFinite ==
  ASSUME answer \in [bytes : Seq(0..255), count : Nat], NEW P, P \subseteq Offsets
  PROVE  IsFiniteSet(Cells(P)) /\ Cardinality(Cells(P)) \in Nat
<1>1. IsFiniteSet(Offsets) /\ IsFiniteSet(0..255)
  <2>1. 255 \in Nat
    OBVIOUS
  <2> QED
    BY <2>1, OffsetsAre, IntervalFrom0
<1>2. IsFiniteSet(Offsets \X (0..255))
  BY <1>1, FS_Product
<1>3. Cells(P) \subseteq Offsets \X (0..255)
  <2>1. ASSUME NEW j \in P PROVE {j} \X (0..Byte(j)) \subseteq Offsets \X (0..255)
    <3>1. j \in Offsets
      BY <2>1
    <3>2. PICK n : n = Byte(j)
      OBVIOUS
    <3>3. n \in 0..255
      BY <3>1, <3>2, OffsetsAre
    <3>4. 0..n \subseteq 0..255
      BY <3>3
    <3> QED
      BY <3>1, <3>2, <3>4
  <2> QED
    BY <2>1 DEF Cells
<1>4. IsFiniteSet(Cells(P))
  BY <1>2, <1>3, FS_Subset
<1> QED
  BY <1>4, FS_CardinalityType

(* More places do not have fewer bytes of labels.                          *)
LEMMA LabelBytesGrow ==
  ASSUME answer \in [bytes : Seq(0..255), count : Nat],
         NEW P, NEW Q, P \subseteq Q, Q \subseteq Offsets
  PROVE  LabelBytes(P) <= LabelBytes(Q) /\ LabelBytes(P) \in Nat /\ LabelBytes(Q) \in Nat
<1>1. Cells(P) \subseteq Cells(Q)
  BY DEF Cells
<1>2. IsFiniteSet(Cells(Q)) /\ Cardinality(Cells(Q)) \in Nat
  BY CellsFinite
<1>3. IsFiniteSet(Cells(P)) /\ Cardinality(Cells(P)) \in Nat
  <2>1. P \subseteq Offsets
    OBVIOUS
  <2> QED
    BY <2>1, CellsFinite
<1>4. Cardinality(Cells(P)) <= Cardinality(Cells(Q))
  BY <1>1, <1>2, FS_Subset
<1> QED
  BY <1>2, <1>3, <1>4, LabelBytesAre

(* One place more has the bytes of its label more.                         *)
LEMMA LabelBytesMore ==
  ASSUME answer \in [bytes : Seq(0..255), count : Nat],
         NEW P, P \subseteq Offsets, NEW j \in Offsets, j \notin P
  PROVE  LabelBytes(P \cup {j}) =
           LabelBytes(P) + IF IsLabel(Byte(j)) THEN Byte(j) + 1 ELSE 0
<1>0. PICK b : b = Byte(j)
  OBVIOUS
<1> DEFINE C == {j} \X (0..b)
<1>1. IsFiniteSet(Cells(P)) /\ Cardinality(Cells(P)) \in Nat
  BY CellsFinite
<1>2. b \in Nat
  <2>1. b \in 0..255
    BY <1>0, OffsetsAre
  <2> QED
    BY <2>1
<1>3. CASE ~IsLabel(Byte(j))
  <2>1. {i \in P \cup {j} : IsLabel(Byte(i))} = {i \in P : IsLabel(Byte(i))}
    BY <1>3
  <2>2. Cells(P \cup {j}) = Cells(P)
    BY <2>1 DEF Cells
  <2> QED
    BY <1>1, <1>3, <2>2, LabelBytesAre
<1>4. CASE IsLabel(Byte(j))
  <2>1. Cells(P \cup {j}) = Cells(P) \cup C
    <3>1. {i \in P \cup {j} : IsLabel(Byte(i))} = {i \in P : IsLabel(Byte(i))} \cup {j}
      BY <1>4
    <3> QED
      BY <1>0, <3>1 DEF Cells
  <2>2. Cells(P) \cap C = {}
    BY DEF Cells
  <2>3. IsFiniteSet(C) /\ Cardinality(C) = b + 1
    <3>1. IsFiniteSet(0..b) /\ Cardinality(0..b) = b + 1
      BY <1>2, IntervalFrom0, Zenon
    <3>2. IsFiniteSet({j}) /\ Cardinality({j}) = 1
      BY FS_Singleton
    <3>3. /\ IsFiniteSet(C)
          /\ Cardinality(C) = Cardinality({j}) * Cardinality(0..b)
      BY <3>1, <3>2, FS_Product, Zenon
    <3> HIDE DEF C
    <3> QED
      BY <1>2, <3>1, <3>2, <3>3
  <2> HIDE DEF C
  <2>4. Cardinality({}) = 0
    BY FS_EmptySet
  <2>5. Cardinality(Cells(P) \cup C) = Cardinality(Cells(P)) + Cardinality(C) - 0
    BY <1>1, <2>2, <2>3, <2>4, FS_Union
  <2>6. /\ LabelBytes(P) = Cardinality(Cells(P))
        /\ LabelBytes(P \cup {j}) = Cardinality(Cells(P \cup {j}))
    BY LabelBytesAre, Zenon
  <2>7. LabelBytes(P \cup {j}) = LabelBytes(P) + (b + 1)
    <3>1. PICK u : u = Cardinality(Cells(P))
      OBVIOUS
    <3>2. u \in Nat /\ u + (b + 1) - 0 = u + (b + 1)
      BY <1>1, <1>2, <3>1
    <3>3. LabelBytes(P \cup {j}) = u + (b + 1) - 0
      BY <2>1, <2>3, <2>5, <2>6, <3>1, Zenon
    <3> QED
      BY <2>6, <3>1, <3>2, <3>3, Zenon
  <2> QED
    BY <1>0, <1>4, <2>7
<1> QED
  BY <1>3, <1>4

LEMMA NoLabels == LabelBytes({}) = 0
<1>1. UNION {{j} \X (0..Byte(j)) : j \in {i \in {} : IsLabel(Byte(i))}} = {}
  OBVIOUS
<1> QED
  BY <1>1, FS_EmptySet DEF LabelBytes

(***************************************************************************)
(* Where the records end.                                                  *)
(***************************************************************************)

(* A record that is good ends inside of the message.                       *)
LEMMA RecordEndsAre ==
  ASSUME answer \in [bytes : Seq(0..255), count : Nat]
  PROVE  /\ RecordEnds \in [-1..Length -> -1..Length]
         /\ \A k \in -1..Length :
              RecordEnds[k] = IF GoodRecord(k) THEN RecordEnd(k) ELSE -1
         /\ ~GoodRecord(-1)
<1>1. Length \in Nat /\ -1 \notin Offsets
  BY OffsetsAre DEF Offsets
<1>2. \A k : GoodRecord(k) => RecordEnd(k) \in 0..Length
  BY DEF GoodRecord
<1>3. -1 \in -1..Length /\ 0..Length \subseteq -1..Length
  BY <1>1
<1>4. \A k \in -1..Length : (IF GoodRecord(k) THEN RecordEnd(k) ELSE -1) \in -1..Length
  BY <1>2, <1>3, Zenon
<1>5. RecordEnds \in [-1..Length -> -1..Length]
  BY <1>4, Zenon DEF RecordEnds
<1>6. \A k \in -1..Length :
        RecordEnds[k] = IF GoodRecord(k) THEN RecordEnd(k) ELSE -1
  BY Zenon DEF RecordEnds
<1>7. ~GoodRecord(-1)
  BY <1>1, Zenon DEF GoodRecord
<1> QED
  BY <1>5, <1>6, <1>7

(* The ends of the records are there, and tell if the message is good.     *)
LEMMA MessageIs ==
  ASSUME answer \in [bytes : Seq(0..255), count : Nat], QuestionEnd <= Length
  PROVE  \E e : /\ Applies(RecordEnds, QuestionEnd, answer.count, e)
                /\ GoodMessage <=> e[answer.count] = Length
                /\ \A m \in 0..answer.count : e[m] \in -1..Length
<1>1. /\ QuestionEnd \in -1..Length
      /\ answer.count \in Nat
      /\ RecordEnds \in [-1..Length -> -1..Length]
  BY OffsetsAre, RecordEndsAre, QuestionAssumption
<1>2. PICK e : /\ Applies(RecordEnds, QuestionEnd, answer.count, e)
               /\ Iterate(RecordEnds, QuestionEnd, answer.count) = e[answer.count]
  BY <1>1, IterateIs, Zenon
<1>3. \A m \in 0..answer.count : e[m] \in -1..Length
  BY <1>1, <1>2, AppliesTyped, Zenon
<1> QED
  BY <1>2, <1>3 DEF GoodMessage

(* No record lies before the first.                                        *)
LEMMA PassedFirst == Passed(0, QuestionEnd)
  BY DEF Passed, Applies

(* A good record leads to the next.                                        *)
LEMMA PassedOn ==
  ASSUME answer \in [bytes : Seq(0..255), count : Nat],
         NEW n \in Nat, n < answer.count, NEW k, Passed(n, k), GoodRecord(k)
  PROVE  Passed(n + 1, RecordEnd(k))
<1>1. n + 1 \in 1..answer.count /\ (n + 1) - 1 = n
  OBVIOUS
<1>2. k \in -1..Length
  BY OffsetsAre DEF GoodRecord, Offsets
<1>3. RecordEnds[k] = RecordEnd(k)
  BY <1>2, RecordEndsAre
<1> SUFFICES ASSUME NEW e, Applies(RecordEnds, QuestionEnd, answer.count, e)
             PROVE  e[n + 1] = RecordEnd(k)
  BY DEF Passed
<1>4. e[n] = k
  BY DEF Passed
<1>5. e[n + 1] = RecordEnds[e[n]]
  BY <1>1 DEF Applies
<1> QED
  BY <1>3, <1>4, <1>5

(* Behind a record that is no good none is.                                *)
LEMMA Spoilt ==
  ASSUME answer \in [bytes : Seq(0..255), count : Nat], QuestionEnd <= Length,
         NEW n \in Nat, n < answer.count, NEW k, Passed(n, k), ~GoodRecord(k)
  PROVE  ~GoodMessage
<1>1. PICK e : /\ Applies(RecordEnds, QuestionEnd, answer.count, e)
               /\ GoodMessage <=> e[answer.count] = Length
               /\ \A m \in 0..answer.count : e[m] \in -1..Length
  BY MessageIs, Zenon
<1> DEFINE T == {m \in Nat : e[m] = -1}
<1>2. PICK c : c = answer.count
  OBVIOUS
<1>3. c \in Nat /\ n < c
  BY <1>2
<1>4. n + 1 \in T
  <2>1. n \in 0..c /\ n + 1 \in 1..c /\ (n + 1) - 1 = n
    BY <1>3
  <2>2. e[n] = k /\ e[n] \in -1..Length
    BY <1>1, <1>2, <2>1 DEF Passed
  <2>3. e[n + 1] = RecordEnds[e[n]]
    BY <1>1, <1>2, <2>1 DEF Applies
  <2>4. RecordEnds[k] = -1
    BY <2>2, RecordEndsAre, Zenon
  <2> QED
    BY <2>2, <2>3, <2>4
<1>5. ASSUME NEW m \in (n + 1)..(c - 1), m \in T PROVE m + 1 \in T
  <2>1. m \in 0..c /\ m + 1 \in 1..c /\ (m + 1) - 1 = m /\ m + 1 \in Nat
    BY <1>3
  <2>2. e[m + 1] = RecordEnds[e[m]] /\ e[m] = -1 /\ e[m] \in -1..Length
    BY <1>1, <1>2, <1>5, <2>1 DEF Applies
  <2>3. RecordEnds[-1] = -1
    BY <2>2, RecordEndsAre, Zenon
  <2> QED
    BY <2>1, <2>2, <2>3
<1>6. \A m \in (n + 1)..c : m \in T
  <2>1. n + 1 \in Nat
    OBVIOUS
  <2> HIDE DEF T
  <2> QED
    BY <1>3, <1>4, <1>5, <2>1, UpTo
<1>7. c \in (n + 1)..c
  BY <1>3
<1>8. e[c] = -1
  BY <1>6, <1>7
<1>9. Length # -1
  BY OffsetsAre
<1> QED
  BY <1>1, <1>2, <1>8, <1>9

(* With all records passed, the message is good if it is over.             *)
LEMMA Fills ==
  ASSUME answer \in [bytes : Seq(0..255), count : Nat], QuestionEnd <= Length,
         NEW k, Passed(answer.count, k)
  PROVE  GoodMessage <=> k = Length
<1>1. PICK e : /\ Applies(RecordEnds, QuestionEnd, answer.count, e)
               /\ GoodMessage <=> e[answer.count] = Length
  BY MessageIs, Zenon
<1>2. e[answer.count] = k
  BY <1>1 DEF Passed
<1> QED
  BY <1>1, <1>2

(***************************************************************************)
(* Where a walk over a name has been.                                      *)
(***************************************************************************)

(* A byte where a label may begin says one of four things. *)
LEMMA Kinds ==
  ASSUME answer \in [bytes : Seq(0..255), count : Nat], NEW j \in Offsets
  PROVE  /\ Byte(j) = 0 \/ IsLabel(Byte(j)) \/ IsReserved(Byte(j)) \/ IsPointer(Byte(j))
         /\ IsLabel(Byte(j)) => ~IsPointer(Byte(j))
         /\ Byte(j) = 0 \/ IsReserved(Byte(j)) =>
              ~IsLabel(Byte(j)) /\ ~IsPointer(Byte(j)) /\ Hop(j) = {}
         /\ IsLabel(Byte(j)) => Byte(j) # 0 /\ Hop(j) = {j + Byte(j) + 1}
         /\ IsPointer(Byte(j)) =>
              Byte(j) # 0 /\ Hop(j) = IF j + 1 < Length THEN {Pointer(j)} ELSE {}
         /\ IsReserved(Byte(j)) => Byte(j) # 0
<1>1. PICK b : b = Byte(j)
  OBVIOUS
<1>2. b \in 0..255
  BY <1>1, OffsetsAre
<1>3. /\ b = 0 \/ IsLabel(b) \/ IsReserved(b) \/ IsPointer(b)
      /\ IsLabel(b) => ~IsPointer(b) /\ b # 0
      /\ b = 0 \/ IsReserved(b) => ~IsLabel(b) /\ ~IsPointer(b)
      /\ IsPointer(b) => b # 0 /\ ~IsLabel(b)
      /\ IsReserved(b) => b # 0
  BY <1>2 DEF IsLabel, IsReserved, IsPointer
<1> QED
  BY <1>1, <1>3, Zenon DEF Hop

(* A walk that goes in circles or leaves the message has no end. *)
LEMMA WalkEndless ==
  ASSUME answer \in [bytes : Seq(0..255), count : Nat],
         NEW k, NEW P, NEW o, NEW c, NEW x, NEW s, Walk(k, P, o, c, x, s),
         o \in P \/ o \notin Offsets
  PROVE  ~GoodName(k) \/ k \notin Offsets
<1> SUFFICES ASSUME k \in Offsets PROVE ~GoodName(k)
  OBVIOUS
<1>1. P \subseteq Offsets /\ k \in P
  BY DEF Walk
<1>2. \A j \in P : Byte(j) # 0 /\ Hop(j) \cap Offsets \subseteq P
  BY DEF Walk
<1> QED
  BY <1>1, <1>2, NoEnd

(* Nor has a walk with no way on an end.                                   *)
LEMMA WalkBlocked ==
  ASSUME answer \in [bytes : Seq(0..255), count : Nat],
         NEW k, NEW P, NEW o \in Offsets, NEW c, NEW x, NEW s, Walk(k, P, o, c, x, s),
         Byte(o) # 0, Hop(o) \cap Offsets = {}
  PROVE  ~GoodName(k)
<1>1. P \cup {o} \subseteq Offsets /\ k \in P \cup {o}
  BY DEF Walk
<1>2. \A j \in P \cup {o} : Byte(j) # 0 /\ Hop(j) \cap Offsets \subseteq P \cup {o}
  BY DEF Walk
<1> QED
  BY <1>1, <1>2, NoEnd

(* A walk begins with no places.                                           *)
LEMMA WalkBegins ==
  ASSUME NEW k \in Nat
  PROVE  Walk(k, {}, k, -1, 0, 0)
<1>1. Cardinality({}) = 0
  BY FS_EmptySet
<1> QED
  BY <1>1, NoLabels, NearFirst DEF Walk

(* A place it has not been to is reached, and not all places are used up. *)
LEMMA WalkReaches ==
  ASSUME answer \in [bytes : Seq(0..255), count : Nat],
         NEW k, NEW P, NEW o \in Offsets, NEW c, NEW x, NEW s, Walk(k, P, o, c, x, s),
         o \notin P
  PROVE  /\ k \in Offsets
         /\ P \cup {o} \subseteq Reached(Hops, k)
         /\ s \in Nat /\ s < Length /\ Cardinality(P \cup {o}) = s + 1
<1>1. P \subseteq Offsets /\ P \cup {o} \subseteq Offsets /\ k \in P \cup {o}
  BY DEF Walk
<1>2. IsFiniteSet(P) /\ IsFiniteSet(Offsets) /\ Cardinality(Offsets) = Length
  <2>1. IsFiniteSet(Offsets) /\ P \in SUBSET Offsets
    BY <1>1, OffsetsAre
  <2> QED
    BY <2>1, FS_Subset, OffsetsAre
<1>3. s = Cardinality(P) /\ s \in Nat
  BY <1>2, FS_CardinalityType DEF Walk
<1>4. Cardinality(P \cup {o}) = s + 1
  BY <1>2, <1>3, FS_AddElement
<1>5. s + 1 <= Length
  <2>1. P \cup {o} \in SUBSET Offsets
    BY <1>1
  <2>2. Cardinality(P \cup {o}) <= Cardinality(Offsets)
    BY <1>2, <2>1, FS_Subset
  <2> QED
    BY <1>2, <1>4, <2>2
<1>6. s < Length /\ s <= Cardinality(Offsets)
  BY <1>2, <1>3, <1>5, OffsetsAre
<1>7. Near(Hops, k, o, s)
  BY DEF Walk
<1>8. o \in Reached(Hops, k)
  <2>1. k \in Offsets /\ Hops \in [Offsets -> SUBSET Offsets]
    BY <1>1, HopsAre
  <2> QED
    BY <1>2, <1>3, <1>6, <1>7, <2>1, NearReached
<1> QED
  BY <1>1, <1>3, <1>4, <1>6, <1>8 DEF Walk

(* A name is too long as soon as the labels of the walk are. *)
LEMMA WalkTooLong ==
  ASSUME answer \in [bytes : Seq(0..255), count : Nat],
         NEW k, NEW P, NEW o \in Offsets, NEW c, NEW x, NEW s, Walk(k, P, o, c, x, s),
         o \notin P, IsLabel(Byte(o)), x + (Byte(o) + 1) > MaxExpanded
  PROVE  ~GoodName(k)
<1>1. P \subseteq Offsets /\ x = LabelBytes(P)
  BY DEF Walk
<1>2. LabelBytes(P \cup {o}) = x + (Byte(o) + 1)
  BY <1>1, LabelBytesMore
<1>3. P \cup {o} \subseteq Reached(Hops, k) /\ k \in Offsets
  BY WalkReaches
<1>4. Reached(Hops, k) \subseteq Offsets
  <2>1. ClosedUnder(Hops, Offsets) /\ Offsets \in SUBSET Offsets
    BY HopsAre DEF ClosedUnder
  <2>2. Hops \in [Offsets -> SUBSET Offsets] /\ IsFiniteSet(Offsets)
    BY HopsAre, OffsetsAre
  <2> QED
    BY <1>3, <2>1, <2>2, ReachedLeast
<1>5. PICK R : R = Reached(Hops, k)
  OBVIOUS
<1>6. LabelBytes(P \cup {o}) <= LabelBytes(R) /\ LabelBytes(P \cup {o}) \in Nat
      /\ LabelBytes(R) \in Nat
  BY <1>3, <1>4, <1>5, LabelBytesGrow
<1>7. PICK a, b : a = LabelBytes(P \cup {o}) /\ b = LabelBytes(R)
  OBVIOUS
<1>8. a > MaxExpanded /\ a <= b /\ a \in Nat /\ b \in Nat
  BY <1>2, <1>6, <1>7, Zenon
<1>9. ~(b <= MaxExpanded)
  BY <1>8, MaxExpandedAssumption
<1> QED
  BY <1>5, <1>7, <1>9, Zenon DEF GoodName

(* A pointer the walk comes to must point backwards. *)
LEMMA WalkForward ==
  ASSUME answer \in [bytes : Seq(0..255), count : Nat],
         NEW k, NEW P, NEW o \in Offsets, NEW c, NEW x, NEW s, Walk(k, P, o, c, x, s),
         o \notin P, IsPointer(Byte(o)), ~(Pointer(o) < o)
  PROVE  ~GoodName(k)
<1>1. o \in Reached(Hops, k)
  BY WalkReaches
<1> QED
  BY <1>1 DEF GoodName

(* A walk that comes to a zero has been everywhere, and all was well. *)
LEMMA WalkEnds ==
  ASSUME answer \in [bytes : Seq(0..255), count : Nat],
         NEW k, NEW P, NEW o \in Offsets, NEW c, NEW x, NEW s, Walk(k, P, o, c, x, s),
         Byte(o) = 0, x <= MaxExpanded
  PROVE  GoodName(k) /\ k \in Offsets
<1>1. o \notin P
  BY DEF Walk
<1>2. ~IsLabel(Byte(o)) /\ ~IsPointer(Byte(o)) /\ Hop(o) = {}
  BY Kinds
<1>3. /\ P \subseteq Offsets /\ k \in P \cup {o} /\ x = LabelBytes(P)
      /\ \A j \in P : /\ Hop(j) \subseteq P \cup {o}
                      /\ IsPointer(Byte(j)) => Pointer(j) < j
  BY <1>1 DEF Walk
<1>4. Reached(Hops, k) = P \cup {o}
  <2>1. ClosedUnder(Hops, P \cup {o})
    BY <1>2, <1>3, HopsAre DEF ClosedUnder
  <2>2. Hops \in [Offsets -> SUBSET Offsets] /\ IsFiniteSet(Offsets)
        /\ P \cup {o} \in SUBSET Offsets
    BY <1>3, HopsAre, OffsetsAre
  <2>3. Reached(Hops, k) \subseteq P \cup {o}
    BY <1>3, <2>1, <2>2, ReachedLeast
  <2> QED
    BY <1>1, <2>3, WalkReaches
<1>5. PICK R : R = P \cup {o}
  OBVIOUS
<1>6. LabelBytes(R) <= MaxExpanded
  <2>1. LabelBytes(P \cup {o}) = x + 0
    BY <1>1, <1>2, <1>3, LabelBytesMore
  <2>2. P \subseteq P
    OBVIOUS
  <2>3. LabelBytes(P) \in Nat
    BY <1>3, <2>2, LabelBytesGrow
  <2>4. x + 0 = x
    BY <1>3, <2>3
  <2> QED
    BY <1>5, <2>1, <2>4, Zenon
<1>7. (\E j \in R : Byte(j) = 0) /\ \A j \in R : IsPointer(Byte(j)) => Pointer(j) < j
  BY <1>2, <1>3, <1>5
<1> QED
  BY <1>1, <1>4, <1>5, <1>6, <1>7, WalkReaches, Zenon DEF GoodName

(* Where a name first ends or goes on elsewhere is where its bytes end. *)
LEMMA WalkLeaves ==
  ASSUME answer \in [bytes : Seq(0..255), count : Nat],
         NEW k, NEW P, NEW o \in Offsets, NEW c, NEW x, NEW s, Walk(k, P, o, c, x, s),
         c < 0, ~IsLabel(Byte(o))
  PROVE  /\ k \in Offsets
         /\ NameBytesEnd(k) = IF IsPointer(Byte(o)) THEN o + 2 ELSE o + 1
<1>1. /\ P \subseteq Offsets /\ k \in P \cup {o}
      /\ \A j \in P : IsLabel(Byte(j)) /\ Hop(j) \subseteq P \cup {o}
      /\ Near(LabelHops, k, o, s)
  BY DEF Walk
<1>2. o \notin P
  BY <1>1
<1>3. k \in Offsets /\ s \in Nat /\ s < Length
  BY <1>2, WalkReaches
<1>4. LabelHops \in [Offsets -> SUBSET Offsets] /\ IsFiniteSet(Offsets)
      /\ P \cup {o} \in SUBSET Offsets /\ s <= Cardinality(Offsets)
  BY <1>1, <1>3, HopsAre, OffsetsAre
<1>5. o \in Reached(LabelHops, k)
  BY <1>1, <1>3, <1>4, NearReached
<1>6. Reached(LabelHops, k) \subseteq P \cup {o}
  <2>1. ClosedUnder(LabelHops, P \cup {o})
    BY <1>1, HopsAre DEF ClosedUnder
  <2> QED
    BY <1>1, <1>4, <2>1, ReachedLeast
<1> DEFINE last == CHOOSE j \in Reached(LabelHops, k) : ~IsLabel(Byte(j))
<1>7. last = o
  BY <1>1, <1>5, <1>6
<1>8. NameBytesEnd(k) = IF IsPointer(Byte(last)) THEN last + 2 ELSE last + 1
  BY Zenon DEF NameBytesEnd
<1> HIDE DEF last
<1> QED
  BY <1>3, <1>7, <1>8, Zenon

(* A label or a pointer takes the walk one place on. *)
LEMMA WalkGoesOn ==
  ASSUME answer \in [bytes : Seq(0..255), count : Nat],
         NEW k, NEW P, NEW o \in Offsets, NEW c \in Int, NEW x \in Nat, NEW s \in Nat,
         Walk(k, P, o, c, x, s),
         NEW q \in Nat, Hop(o) = {q}, Byte(o) # 0, IsPointer(Byte(o)) => q < o,
         IsPointer(Byte(o)) => q = Pointer(o),
         NEW d, d = IF IsPointer(Byte(o)) /\ c < 0 THEN o + 2 ELSE c,
         NEW y, y = IF IsLabel(Byte(o)) THEN x + (Byte(o) + 1) ELSE x
  PROVE  Walk(k, P \cup {o}, q, d, y, s + 1)
<1> DEFINE R == P \cup {o}
<1>1. /\ k \in Nat /\ k \in R /\ R \subseteq Offsets
      /\ \A j \in P : /\ Byte(j) # 0 /\ Hop(j) \subseteq R
                      /\ IsPointer(Byte(j)) => Pointer(j) < j
  BY DEF Walk
<1>2. R \subseteq Reached(Hops, k)
  <2>1. CASE o \in P
    BY <2>1 DEF Walk
  <2>2. CASE o \notin P
    BY <2>2, WalkReaches
  <2> QED
    BY <2>1, <2>2
<1>3. \A j \in R : /\ Byte(j) # 0 /\ Hop(j) \subseteq R \cup {q}
                   /\ IsPointer(Byte(j)) => Pointer(j) < j
  BY <1>1
<1>4. o \notin P => s < Length /\ Cardinality(R) = s + 1
  BY WalkReaches
<1>5. k \in Offsets /\ IsFiniteSet(Offsets) /\ Cardinality(Offsets) = Length
  BY <1>1, OffsetsAre
<1>6. ASSUME q \notin R
      PROVE  /\ s + 1 = Cardinality(R)
             /\ y = LabelBytes(R)
             /\ q \in Offsets => Near(Hops, k, q, s + 1)
  <2>1. o \notin P
    BY <1>6 DEF Walk
  <2>2. y = LabelBytes(R)
    <3>1. x = LabelBytes(P) /\ P \subseteq Offsets
      BY <2>1 DEF Walk
    <3>2. LabelBytes(R) = x + IF IsLabel(Byte(o)) THEN Byte(o) + 1 ELSE 0
      BY <2>1, <3>1, LabelBytesMore
    <3> HIDE DEF R
    <3> QED
      BY <3>2
  <2>3. ASSUME q \in Offsets PROVE Near(Hops, k, q, s + 1)
    <3>1. Near(Hops, k, o, s)
      BY <2>1 DEF Walk
    <3>2. Hops \in [Offsets -> SUBSET Offsets] /\ q \in Hops[o]
      BY <2>3, HopsAre
    <3>3. s < Cardinality(Offsets)
      BY <1>4, <1>5, <2>1
    <3> QED
      BY <1>5, <3>1, <3>2, <3>3, NearNext
  <2> QED
    BY <1>4, <2>1, <2>2, <2>3
<1>7. ASSUME d < 0
      PROVE  /\ \A j \in R : IsLabel(Byte(j)) /\ j < q
             /\ q \in Offsets => Near(LabelHops, k, q, s + 1)
  <2>1. c < 0 /\ ~IsPointer(Byte(o))
    <3>1. o + 2 \in Nat
      BY OffsetsAre
    <3> QED
      BY <1>7, <3>1
  <2>2. \A j \in P : IsLabel(Byte(j)) /\ j < o
    BY <2>1 DEF Walk
  <2>3. Near(LabelHops, k, o, s) /\ o \notin P
    <3>1. o \notin P
      BY <2>2, OffsetsAre
    <3> QED
      BY <2>1, <3>1 DEF Walk
  <2>4. IsLabel(Byte(o)) /\ o < q
    <3>1. IsLabel(Byte(o))
      BY <2>1, Kinds DEF Hop
    <3>2. q = o + Byte(o) + 1
      BY <3>1, Kinds
    <3>3. PICK b : b = Byte(o)
      OBVIOUS
    <3>4. b \in 1..63 /\ o \in Nat /\ q = o + b + 1
      BY <3>1, <3>2, <3>3, OffsetsAre DEF IsLabel
    <3> QED
      BY <3>1, <3>4
  <2>5. ASSUME NEW j \in R PROVE IsLabel(Byte(j)) /\ j < q
    <3>1. j \in Nat /\ o \in Nat
      BY <1>1, OffsetsAre
    <3> QED
      BY <2>2, <2>4, <3>1
  <2>6. ASSUME q \in Offsets PROVE Near(LabelHops, k, q, s + 1)
    <3>1. LabelHops \in [Offsets -> SUBSET Offsets] /\ q \in LabelHops[o]
      BY <2>4, <2>6, HopsAre
    <3>2. s < Cardinality(Offsets)
      BY <1>4, <1>5, <2>3
    <3> QED
      BY <1>5, <2>3, <3>1, <3>2, NearNext
  <2> QED
    BY <2>5, <2>6
<1>8. ASSUME d >= 0 PROVE k \in Offsets /\ d = NameBytesEnd(k)
  <2>1. CASE c < 0
    <3>1. IsPointer(Byte(o)) /\ d = o + 2
      BY <1>8, <2>1
    <3>2. ~IsLabel(Byte(o))
      BY <3>1, Kinds
    <3> QED
      BY <2>1, <3>1, <3>2, WalkLeaves
  <2>2. CASE ~(c < 0)
    <3>1. d = c /\ c >= 0
      BY <2>2
    <3> QED
      BY <3>1 DEF Walk
  <2> QED
    BY <2>1, <2>2
<1> HIDE DEF R
<1>9. Walk(k, R, q, d, y, s + 1)
  BY <1>1, <1>2, <1>3, <1>6, <1>7, <1>8 DEF Walk
<1> QED
  BY <1>9 DEF R

(***************************************************************************)
(* The parser walks as the reference does.                                 *)
(***************************************************************************)

DnsPlaces ==
  /\ phase = "idle" => record = 0 /\ offset = QuestionEnd
  /\ phase # "idle" => QuestionEnd <= Length
  /\ phase = "record" => record <= answer.count /\ Passed(record, offset)
  /\ phase = "name" =>
       /\ record < answer.count
       /\ \E k, P : /\ Passed(record, k)
                    /\ Walk(k, P, offset, consumed, expanded, steps)
  /\ phase = "data" =>
       /\ record < answer.count
       /\ \E k \in Offsets : /\ Passed(record, k)
                             /\ GoodName(k) /\ offset = NameBytesEnd(k)
  /\ DnsExact

(* What a step has shown of the answer before it holds of it afterwards. *)
LEMMA PlacesAfter ==
  ASSUME UNCHANGED answer, QuestionEnd <= Length, phase' # "idle",
         phase' = "record" => record' <= answer.count /\ Passed(record', offset'),
         phase' = "name" =>
           /\ record' < answer.count
           /\ \E k, P : /\ Passed(record', k)
                        /\ Walk(k, P, offset', consumed', expanded', steps'),
         phase' = "data" =>
           /\ record' < answer.count
           /\ \E k \in Offsets : /\ Passed(record', k)
                                 /\ GoodName(k) /\ offset' = NameBytesEnd(k),
         phase' = "accepted" => GoodMessage,
         phase' = "refused" => ~GoodMessage
  PROVE  DnsPlaces'
<1>1. (phase # "idle" => QuestionEnd <= Length)'
  BY SameBytes
<1>2. (phase = "record" => record <= answer.count /\ Passed(record, offset))'
  BY SameRecords
<1>3. (phase = "name" =>
       /\ record < answer.count
       /\ \E k, P : /\ Passed(record, k)
                    /\ Walk(k, P, offset, consumed, expanded, steps))'
  BY SameRecords, SameWalk
<1>4. (phase = "data" =>
       /\ record < answer.count
       /\ \E k \in Offsets : /\ Passed(record, k)
                             /\ GoodName(k) /\ offset = NameBytesEnd(k))'
  BY SameBytes, SameRecords, SameNames
<1>5. DnsExact'
  BY SameRecords DEF DnsExact
<1> QED
  BY <1>1, <1>2, <1>3, <1>4, <1>5, Zenon DEF DnsPlaces

(* A record that is no good makes the message no good. *)
LEMMA RefusedRightly ==
  ASSUME DnsTypeOK, QuestionEnd <= Length, record < answer.count,
         NEW k, Passed(record, k), ~GoodRecord(k),
         UNCHANGED answer, phase' = "refused"
  PROVE  DnsPlaces'
<1>1. answer \in [bytes : Seq(0..255), count : Nat] /\ record \in Nat
  BY DEF DnsTypeOK
<1>2. ~GoodMessage
  BY <1>1, Spoilt
<1> QED
  BY <1>2, PlacesAfter

(* The steps of the loop over the records ...                              *)
LEMMA RecordPlaces ==
  ASSUME DnsInv, DnsPlaces, NextRecord
  PROVE  DnsPlaces'
<1>1. /\ answer \in [bytes : Seq(0..255), count : Nat]
      /\ record \in Nat /\ offset \in Nat
      /\ QuestionEnd <= Length
      /\ record <= answer.count /\ Passed(record, offset)
      /\ UNCHANGED answer
  BY DEF NextRecord, DnsInv, DnsTypeOK, DnsPlaces
<1>2. CASE record < answer.count
  <2>1. Walk(offset, {}, offset, -1, 0, 0)
    BY <1>1, WalkBegins
  <2>2. /\ phase' = "name" /\ record' = record /\ offset' = offset
        /\ consumed' = -1 /\ expanded' = 0 /\ steps' = 0
    BY <1>2 DEF NextRecord
  <2>3. Walk(offset, {}, offset', consumed', expanded', steps')
    BY <2>1, <2>2
  <2> QED
    BY <1>1, <1>2, <2>2, <2>3, PlacesAfter
<1>3. CASE ~(record < answer.count)
  <2>1. record = answer.count
    BY <1>1, <1>3
  <2>2. GoodMessage <=> offset = Length
    BY <1>1, <2>1, Fills
  <2>3. phase' = IF offset = Length THEN "accepted" ELSE "refused"
    BY <1>3 DEF NextRecord
  <2> QED
    BY <1>1, <2>2, <2>3, PlacesAfter
<1> QED
  BY <1>2, <1>3

(* ... of the loop of dnsNameEnd ...                                       *)
LEMMA NamePlaces ==
  ASSUME DnsInv, DnsPlaces,
         NameRunsOut \/ NameEnds \/ FollowPointer \/ SkipLabel \/ ReservedLabel
  PROVE  DnsPlaces'
<1>1. phase = "name" /\ UNCHANGED <<record, answer>>
  BY DEF NameRunsOut, NameEnds, FollowPointer, SkipLabel, ReservedLabel, Refuse, Parsing
<1>2. /\ answer \in [bytes : Seq(0..255), count : Nat]
      /\ record \in Nat /\ offset \in Nat /\ consumed \in Int /\ expanded \in Nat
      /\ steps \in Nat /\ expanded <= MaxExpanded /\ DnsTypeOK
      /\ QuestionEnd <= Length /\ record < answer.count
  BY <1>1 DEF DnsInv, DnsTypeOK, DnsPlaces
<1>3. PICK k, P : /\ Passed(record, k)
                  /\ Walk(k, P, offset, consumed, expanded, steps)
  BY <1>1 DEF DnsPlaces
<1>4. ASSUME phase' = "refused", ~GoodName(k) \/ k \notin Offsets PROVE DnsPlaces'
  <2>1. ~GoodRecord(k)
    BY <1>4 DEF GoodRecord
  <2> QED
    BY <1>1, <1>2, <1>3, <1>4, <2>1, RefusedRightly
<1>5. ASSUME phase' = "refused", offset \in P \/ offset \notin Offsets PROVE DnsPlaces'
  BY <1>2, <1>3, <1>4, <1>5, WalkEndless
<1>6. offset < Length => offset \in Offsets
  BY <1>2, OffsetsAre DEF Offsets
<1>7. CASE NameRunsOut
  <2>1. phase' = "refused"
    BY <1>7 DEF NameRunsOut, Refuse
  <2>2. CASE offset \notin Offsets \/ offset \in P
    BY <1>5, <2>1, <2>2
  <2>3. CASE offset \in Offsets /\ offset \notin P
    <3>1. steps < Length /\ offset < Length
      BY <1>2, <1>3, <2>3, WalkReaches, OffsetsAre
    <3> QED
      BY <1>2, <1>7, <3>1, OffsetsAre DEF NameRunsOut
  <2> QED
    BY <2>2, <2>3
<1>8. CASE NameEnds
  <2>1. /\ offset \in Offsets /\ Byte(offset) = 0
        /\ phase' = "data" /\ offset' = IF consumed >= 0 THEN consumed ELSE offset + 1
    BY <1>6, <1>8 DEF NameEnds
  <2>2. GoodName(k) /\ k \in Offsets
    BY <1>2, <1>3, <2>1, WalkEnds
  <2>3. offset' = NameBytesEnd(k)
    <3>1. CASE consumed >= 0
      BY <1>3, <2>1, <3>1 DEF Walk
    <3>2. CASE ~(consumed >= 0)
      <4>1. consumed < 0
        BY <1>2, <3>2
      <4>2. ~IsLabel(Byte(offset)) /\ ~IsPointer(Byte(offset))
        BY <1>2, <2>1, Kinds
      <4>3. NameBytesEnd(k) = IF IsPointer(Byte(offset)) THEN offset + 2 ELSE offset + 1
        BY <1>2, <1>3, <2>1, <4>1, <4>2, WalkLeaves
      <4> QED
        BY <2>1, <3>2, <4>2, <4>3
    <3> QED
      BY <3>1, <3>2
  <2> QED
    BY <1>1, <1>2, <1>3, <2>1, <2>2, <2>3, PlacesAfter
<1>9. CASE FollowPointer
  <2>1. offset \in Offsets /\ IsPointer(Byte(offset))
    BY <1>6, <1>9 DEF FollowPointer
  <2>2. /\ Byte(offset) # 0 /\ ~IsLabel(Byte(offset))
        /\ Hop(offset) = IF offset + 1 < Length THEN {Pointer(offset)} ELSE {}
    BY <1>2, <2>1, Kinds
  <2>3. CASE offset + 1 < Length /\ Pointer(offset) < offset
    <3>1. Pointer(offset) \in Nat
      BY <1>2, <2>1, <2>3, AWord
    <3>2. /\ consumed' = IF consumed < 0 THEN offset + 2 ELSE consumed
          /\ offset' = Pointer(offset) /\ steps' = steps + 1
          /\ UNCHANGED <<phase, answer, record, expanded>>
      BY <1>9, <2>3 DEF FollowPointer
    <3>3. PICK q, d : q = Pointer(offset)
                      /\ d = IF consumed < 0 THEN offset + 2 ELSE consumed
      OBVIOUS
    <3>4. /\ Hop(offset) = {q} /\ q \in Nat /\ q < offset
          /\ d = IF IsPointer(Byte(offset)) /\ consumed < 0 THEN offset + 2 ELSE consumed
          /\ expanded = IF IsLabel(Byte(offset)) THEN expanded + (Byte(offset) + 1)
                        ELSE expanded
      BY <2>1, <2>2, <2>3, <3>1, <3>3
    <3>5. Walk(k, P \cup {offset}, q, d, expanded, steps + 1)
      BY <1>2, <1>3, <2>1, <2>2, <3>3, <3>4, WalkGoesOn
    <3>6. Walk(k, P \cup {offset}, offset', consumed', expanded', steps')
      BY <3>2, <3>3, <3>5
    <3> QED
      BY <1>1, <1>2, <1>3, <3>2, <3>6, PlacesAfter
  <2>4. CASE ~(offset + 1 < Length /\ Pointer(offset) < offset)
    <3>1. phase' = "refused"
      BY <1>9, <2>4 DEF FollowPointer, Refuse
    <3>2. CASE offset \in P
      BY <1>5, <3>1, <3>2
    <3>3. CASE offset \notin P /\ ~(offset + 1 < Length)
      <4>1. Hop(offset) \cap Offsets = {}
        BY <2>2, <3>3
      <4>2. ~GoodName(k)
        BY <1>2, <1>3, <2>1, <2>2, <4>1, WalkBlocked
      <4> QED
        BY <1>4, <3>1, <4>2
    <3>4. CASE offset \notin P /\ ~(Pointer(offset) < offset)
      <4>1. ~GoodName(k)
        BY <1>2, <1>3, <2>1, <3>4, WalkForward
      <4> QED
        BY <1>4, <3>1, <4>1
    <3> QED
      BY <2>4, <3>2, <3>3, <3>4
  <2> QED
    BY <2>3, <2>4
<1>10. CASE SkipLabel
  <2>1. offset \in Offsets /\ IsLabel(Byte(offset))
    BY <1>6, <1>10 DEF SkipLabel
  <2>2. PICK size : size = Byte(offset) + 1
    OBVIOUS
  <2>3. /\ Byte(offset) # 0 /\ ~IsPointer(Byte(offset))
        /\ Hop(offset) = {offset + size} /\ size \in Nat
    <3>1. Byte(offset) # 0 /\ ~IsPointer(Byte(offset))
          /\ Hop(offset) = {offset + Byte(offset) + 1}
      BY <1>2, <2>1, Kinds
    <3>2. PICK b : b = Byte(offset)
      OBVIOUS
    <3>3. b \in 0..255
      BY <1>2, <2>1, <3>2, OffsetsAre
    <3>4. offset + b + 1 = offset + (b + 1) /\ b + 1 \in Nat
      BY <1>2, <3>3
    <3> QED
      BY <2>2, <3>1, <3>2, <3>4
  <2>4. CASE offset + size <= Length /\ expanded + size <= MaxExpanded
    <3>1. /\ expanded' = expanded + size /\ offset' = offset + size
          /\ steps' = steps + 1
          /\ UNCHANGED <<phase, answer, record, consumed>>
      BY <1>10, <2>2, <2>4 DEF SkipLabel
    <3>2. PICK q, y : q = offset + size /\ y = expanded + size
      OBVIOUS
    <3>3. /\ q \in Nat /\ Hop(offset) = {q}
          /\ consumed = IF IsPointer(Byte(offset)) /\ consumed < 0
                        THEN offset + 2 ELSE consumed
          /\ y = IF IsLabel(Byte(offset)) THEN expanded + (Byte(offset) + 1)
                 ELSE expanded
      BY <1>2, <2>1, <2>2, <2>3, <3>2
    <3>4. Walk(k, P \cup {offset}, q, consumed, y, steps + 1)
      BY <1>2, <1>3, <2>1, <2>3, <3>3, WalkGoesOn
    <3>5. Walk(k, P \cup {offset}, offset', consumed', expanded', steps')
      BY <3>1, <3>2, <3>4
    <3> QED
      BY <1>1, <1>2, <1>3, <3>1, <3>5, PlacesAfter
  <2>5. CASE ~(offset + size <= Length /\ expanded + size <= MaxExpanded)
    <3>1. phase' = "refused"
      BY <1>10, <2>2, <2>5 DEF SkipLabel, Refuse
    <3>2. CASE offset \in P
      BY <1>5, <3>1, <3>2
    <3>3. CASE offset \notin P /\ ~(offset + size <= Length)
      <4>1. offset + size \notin Offsets
        BY <1>2, <2>3, <3>3, OffsetsAre
      <4>2. Hop(offset) \cap Offsets = {}
        BY <2>3, <4>1
      <4>3. ~GoodName(k)
        BY <1>2, <1>3, <2>1, <2>3, <4>2, WalkBlocked
      <4> QED
        BY <1>4, <3>1, <4>3
    <3>4. CASE offset \notin P /\ ~(expanded + size <= MaxExpanded)
      <4>1. expanded + size > MaxExpanded
        BY <1>2, <2>3, <3>4, MaxExpandedAssumption
      <4>2. ~GoodName(k)
        BY <1>2, <1>3, <2>1, <2>2, <3>4, <4>1, WalkTooLong
      <4> QED
        BY <1>4, <3>1, <4>2
    <3> QED
      BY <2>5, <3>2, <3>3, <3>4
  <2> QED
    BY <2>4, <2>5
<1>11. CASE ReservedLabel
  <2>1. offset \in Offsets /\ IsReserved(Byte(offset)) /\ phase' = "refused"
    BY <1>6, <1>11 DEF ReservedLabel, Refuse
  <2>2. Byte(offset) # 0 /\ Hop(offset) \cap Offsets = {}
    BY <1>2, <2>1, Kinds
  <2>3. ~GoodName(k)
    BY <1>2, <1>3, <2>1, <2>2, WalkBlocked
  <2> QED
    BY <1>4, <2>1, <2>3
<1> QED
  BY <1>7, <1>8, <1>9, <1>10, <1>11

(* ... and over the data of a record.                                      *)
LEMMA DataPlaces ==
  ASSUME DnsInv, DnsPlaces, SkipData
  PROVE  DnsPlaces'
<1>1. phase = "data" /\ UNCHANGED answer
  BY DEF SkipData, Refuse
<1>2. /\ answer \in [bytes : Seq(0..255), count : Nat]
      /\ record \in Nat /\ offset \in Nat /\ DnsTypeOK
      /\ QuestionEnd <= Length /\ record < answer.count
  BY <1>1 DEF DnsInv, DnsTypeOK, DnsPlaces
<1>3. PICK k \in Offsets : /\ Passed(record, k)
                           /\ GoodName(k) /\ offset = NameBytesEnd(k)
  BY <1>1 DEF DnsPlaces
<1>4. PICK data : data = offset + FixedSize
  OBVIOUS
<1>5. DataStart(k) = data /\ RecordEnd(k) = data + Word(data - 2)
  BY <1>3, <1>4 DEF DataStart, RecordEnd
<1>6. CASE data > Length
  <2>1. phase' = "refused"
    BY <1>4, <1>6 DEF SkipData, Refuse
  <2>2. ~GoodRecord(k)
    <3>1. ~(data <= Length)
      BY <1>2, <1>4, <1>6, OffsetsAre, FixedSizeAssumption
    <3> QED
      BY <1>5, <3>1 DEF GoodRecord
  <2> QED
    BY <1>1, <1>2, <1>3, <2>1, <2>2, RefusedRightly
<1>7. CASE ~(data > Length)
  <2>1. PICK end : end = data + Word(data - 2)
    OBVIOUS
  <2>2. end \in Nat /\ data <= Length /\ Length \in Nat
    <3>1. data - 2 \in Nat /\ (data - 2) + 1 < Length /\ data \in Nat /\ Length \in Nat
      BY <1>2, <1>4, <1>7, OffsetsAre, FixedSizeAssumption
    <3>2. PICK w : w = Word(data - 2)
      OBVIOUS
    <3>3. w \in Nat
      BY <1>2, <3>1, <3>2, AWord
    <3> QED
      BY <1>7, <2>1, <3>1, <3>2, <3>3
  <2>3. CASE end > Length
    <3>1. phase' = "refused"
      BY <1>4, <1>7, <2>1, <2>3 DEF SkipData, Refuse
    <3>2. ~GoodRecord(k)
      <4>1. end \notin 0..Length
        BY <2>2, <2>3
      <4> QED
        BY <1>5, <2>1, <4>1 DEF GoodRecord
    <3> QED
      BY <1>1, <1>2, <1>3, <3>1, <3>2, RefusedRightly
  <2>4. CASE ~(end > Length)
    <3>1. phase' = "record" /\ offset' = end /\ record' = record + 1
      BY <1>4, <1>7, <2>1, <2>4 DEF SkipData
    <3>2. GoodRecord(k)
      <4>1. end \in 0..Length
        BY <2>2, <2>4
      <4> QED
        BY <1>3, <1>5, <2>1, <2>2, <4>1 DEF GoodRecord
    <3>3. Passed(record + 1, end)
      BY <1>2, <1>3, <1>5, <2>1, <3>2, PassedOn
    <3>4. record' <= answer.count /\ Passed(record', offset')
      BY <1>2, <3>1, <3>3
    <3> QED
      BY <1>1, <1>2, <3>1, <3>4, PlacesAfter
  <2> QED
    BY <2>3, <2>4
<1> QED
  BY <1>6, <1>7

(* Every step of the parser keeps to the walk of the reference. *)
LEMMA PlacesKept ==
  ASSUME DnsInv, DnsPlaces, DnsNext
  PROVE  DnsPlaces'
<1>1. CASE DnsReceive
  <2>1. /\ answer' \in Answers /\ phase' = "record"
        /\ record' = 0 /\ offset' = QuestionEnd
    BY <1>1 DEF DnsReceive, DnsPlaces
  <2>2. Length' >= QuestionEnd /\ answer'.count \in Nat
    BY <2>1, AnswersAssumption DEF Length
  <2>3. Passed(0, QuestionEnd)'
    BY DEF Passed, Applies
  <2>4. Passed(record, offset)'
    BY <2>1, <2>3
  <2>5. QuestionEnd <= Length'
    BY <2>2, LengthNat, QuestionAssumption
  <2>6. record' <= answer'.count
    BY <2>1, <2>2
  <2> QED
    BY <2>1, <2>4, <2>5, <2>6, Zenon DEF DnsPlaces, DnsExact
<1>2. CASE DnsReturn
  BY <1>2 DEF DnsReturn, DnsPlaces, DnsExact
<1> QED
  BY <1>1, <1>2, RecordPlaces, NamePlaces, DataPlaces DEF DnsNext, DnsParse

(* The parser (validateDNSResourceRecords, dnsNameEnd) accepts the         *)
(* messages that are well-formed, and only those, whatever their bytes     *)
(* are: neither a pointer nor a chain of them misleads it, and the limit   *)
(* on its steps refuses no name that has an end.                           *)
THEOREM DnsIsExact == DnsSpec => []DnsExact
<1>1. DnsInit => DnsPlaces
  BY DEF DnsInit, DnsPlaces, DnsExact
<1>2. DnsInv /\ DnsPlaces /\ [DnsNext]_dnsVars => DnsPlaces'
  <2> SUFFICES ASSUME DnsInv, DnsPlaces, [DnsNext]_dnsVars PROVE DnsPlaces'
    OBVIOUS
  <2>1. CASE UNCHANGED dnsVars
    <3>1. UNCHANGED <<phase, answer, record, offset, consumed, expanded, steps>>
      BY <2>1 DEF dnsVars
    <3>2. CASE phase = "idle"
      BY <3>1, <3>2 DEF DnsPlaces, DnsExact
    <3>3. CASE phase # "idle"
      BY <3>1, <3>3, PlacesAfter, Zenon DEF DnsPlaces, DnsExact
    <3> QED
      BY <3>2, <3>3
  <2> QED
    BY <2>1, PlacesKept
<1>3. DnsPlaces => DnsExact
  BY DEF DnsPlaces
<1> QED
  BY <1>1, <1>2, <1>3, DnsInvHolds, PTL DEF DnsSpec

(***************************************************************************)
(* The composition.                                                        *)
(***************************************************************************)

(* The dial of a check is the dial of Tunnel: the handshake, the deadlines *)
(* that Registry.Run sets and the context do nothing to the connection     *)
(* that the client of a dial may not do.                                   *)
LEMMA StepsOfDial == RunNext => [Next]_vars
<1> SUFFICES ASSUME RunNext PROVE Next \/ UNCHANGED vars
  BY DEF vars
<1>1. CASE Dial
  BY <1>1, Zenon DEF Dial, Next
<1>2. CASE AroundDial
  BY <1>2, Zenon DEF AroundDial, Next
<1>3. CASE ExpireScan
  BY <1>3, Zenon DEF ExpireScan, Next
<1>4. CASE WorkerMoves
  <2>1. CASE InterruptTLS
    BY <2>1, Zenon DEF InterruptTLS, Next
  <2>2. CASE CloseProbed
    BY <2>2, Zenon DEF CloseProbed, Next
  <2>3. CASE Dialed \/ SetLimit \/ ArmCanceller \/ StopCanceller \/ ResetLimit
             \/ LookAtContext \/ InspectContext
    BY <2>3, Zenon DEF Dialed, SetLimit, ArmCanceller, StopCanceller,
       ResetLimit, LookAtContext, InspectContext
  <2>4. CASE Exchange \/ HandshakeTLS \/ CheckBuffered \/ ReadLine \/ ReadFixed
    BY <2>4, Zenon DEF Exchange, HandshakeTLS, CheckBuffered, ReadLine, ReadFixed
  <2>5. CASE ReadField \/ ReadRest \/ ParseRecords \/ Recognize \/ Disappoint
             \/ CutShort
    BY <2>5, Zenon DEF ReadField, ReadRest, ParseRecords, Recognize, Disappoint,
       CutShort
  <2>6. QED
    BY <1>4, <2>1, <2>2, <2>3, <2>4, <2>5, Zenon DEF WorkerMoves, Talk
<1>5. CASE CancellerNext \/ MoreArrives \/ CancelScan \/ TimePasses
  BY <1>5, Zenon DEF CancellerNext, CancellerStarts, CancellerHurries,
     MoreArrives, CancelScan, TimePasses
<1>6. CASE CheckOver /\ UNCHANGED runVars
  BY <1>6, Zenon DEF runVars
<1>7. QED
  BY <1>1, <1>2, <1>3, <1>4, <1>5, <1>6, Zenon DEF RunNext

(* Whatever the handshake does around it, the dial of a check is a         *)
(* behaviour of Tunnel: what is proved of that holds of every check.       *)
THEOREM RunIsDial == RunSpec => Spec
<1>1. RunInit => Init
  BY DEF RunInit
<1>2. [RunNext]_runVars => [Next]_vars
  <2>1. UNCHANGED runVars => UNCHANGED vars
    BY Zenon DEF runVars
  <2>2. QED
    BY <2>1, StepsOfDial, Zenon
<1>3. QED
  BY <1>1, <1>2, PTL DEF RunSpec, Spec

(* So what a connection of the pool promises its client holds through the  *)
(* whole check.                                                            *)
THEOREM RunHandedOver == RunSpec => []HandedOverStaysOpen
BY RunIsDial, HandedOver, PTL

(* The parser of a check is the parser of DnsName: nothing of what goes on *)
(* meanwhile takes part in it.                                             *)
LEMMA StepsOfParse == RunNext => [DnsNext]_dnsVars
<1> SUFFICES ASSUME RunNext PROVE DnsNext \/ UNCHANGED dnsVars
  BY Zenon
<1>1. CASE ReadRest
  <2>1. CASE protocol = "dns"
    BY <1>1, <2>1, Zenon DEF ReadRest, DnsNext
  <2>2. CASE protocol # "dns"
    BY <1>1, <2>2, Zenon DEF ReadRest
  <2>3. QED
    BY <2>1, <2>2
<1>2. CASE ParseRecords
  BY <1>2, Zenon DEF ParseRecords, DnsNext
<1>3. CASE Dial \/ AroundDial \/ ExpireScan
  BY <1>3, Zenon DEF Dial, AroundDial, ExpireScan
<1>4. CASE Dialed \/ SetLimit \/ ArmCanceller \/ StopCanceller \/ ResetLimit
           \/ LookAtContext \/ CloseProbed \/ InspectContext
  BY <1>4, Zenon DEF Dialed, SetLimit, ArmCanceller, StopCanceller,
     ResetLimit, LookAtContext, CloseProbed, InspectContext
<1>5. CASE Exchange \/ HandshakeTLS \/ InterruptTLS \/ CheckBuffered \/ ReadLine
           \/ ReadFixed
  BY <1>5, Zenon DEF Exchange, HandshakeTLS, InterruptTLS, CheckBuffered,
     ReadLine, ReadFixed
<1>6. CASE ReadField \/ Recognize \/ Disappoint \/ CutShort
  BY <1>6, Zenon DEF ReadField, Recognize, Disappoint, CutShort
<1>7. CASE CancellerNext \/ MoreArrives \/ CancelScan \/ TimePasses
  BY <1>7, Zenon DEF CancellerNext, CancellerStarts, CancellerHurries,
     MoreArrives, CancelScan, TimePasses
<1>8. CASE CheckOver /\ UNCHANGED runVars
  BY <1>8, Zenon DEF runVars
<1>9. QED
  BY <1>1, <1>2, <1>3, <1>4, <1>5, <1>6, <1>7, <1>8, Zenon
     DEF RunNext, WorkerMoves, Talk

(* The parsing in the midst of a check is a behaviour of DnsName.          *)
THEOREM RunIsParse == RunSpec => DnsSpec
<1>1. RunInit => DnsInit
  BY DEF RunInit
<1>2. [RunNext]_runVars => [DnsNext]_dnsVars
  <2>1. UNCHANGED runVars => UNCHANGED dnsVars
    BY Zenon DEF runVars
  <2>2. QED
    BY <2>1, StepsOfParse, Zenon
<1>3. QED
  BY <1>1, <1>2, PTL DEF RunSpec, DnsSpec

(***************************************************************************)
(* The stages of a check, and the worker of Scanner.                       *)
(***************************************************************************)

(* Which outcome a check may have at each of its stages.                   *)
LEMMA RunInvHolds == RunSpec => []RunInv
<1>1. RunInit => RunInv
  BY SMT DEF RunInit, RunInv
<1>2. RunInv /\ [RunNext]_runVars => RunInv'
  <2> SUFFICES ASSUME RunInv, [RunNext]_runVars PROVE RunInv'
    OBVIOUS
  <2> USE DEF RunInv
  <2>1. CASE UNCHANGED runVars
    BY <2>1 DEF runVars, worker, clock
  <2>2. CASE Dial \/ AroundDial
    BY <2>2 DEF Dial, AroundDial, worker, clock
  <2>3. CASE WorkerMoves
    <3>1. CASE Dialed
      BY <3>1 DEF Dialed, clock
    <3>2. CASE SetLimit
      BY <3>2 DEF SetLimit, clock
    <3>3. CASE ArmCanceller
      BY <3>3 DEF ArmCanceller, clock
    <3>4. CASE StopCanceller
      BY <3>4 DEF StopCanceller, clock
    <3>5. CASE ResetLimit
      BY <3>5 DEF ResetLimit, clock
    <3>6. CASE LookAtContext
      BY <3>6 DEF LookAtContext, clock
    <3>7. CASE CloseProbed \/ InspectContext
      BY <3>7 DEF CloseProbed, InspectContext, clock
    <3>8. CASE UNCHANGED <<worker, clock, limit, canceller>>
      BY <3>8 DEF worker, clock
    <3>9. ASSUME NEW error \in {"ok", "failed"}, stage = "talk",
                 HandBack(error), UNCHANGED <<clock, limit, canceller>>
          PROVE  RunInv'
      BY <3>9 DEF HandBack, clock
    <3>10. CASE InterruptTLS
      BY <3>10 DEF InterruptTLS, Through, HandBack, clock
    <3>11. CASE CutShort
      BY <3>11 DEF CutShort, Overdue, HandBack, clock
    <3>12. CASE Exchange \/ HandshakeTLS \/ ReadLine \/ ReadFixed \/ ReadField
      BY <3>8, <3>12, Zenon DEF Exchange, HandshakeTLS, ReadLine, ReadFixed,
         ReadField
    <3>13. CASE CheckBuffered \/ ReadRest \/ ParseRecords
      BY <3>8, <3>9, <3>13, Zenon DEF CheckBuffered, ReadRest, ParseRecords,
         Through
    <3>14. CASE Recognize \/ Disappoint
      BY <3>9, <3>14, Zenon DEF Recognize, Disappoint
    <3>15. QED
      BY <2>3, <3>1, <3>2, <3>3, <3>4, <3>5, <3>6, <3>7, <3>10, <3>11, <3>12,
         <3>13, <3>14, Zenon DEF WorkerMoves, Talk
  <2>4. CASE CancellerNext
    BY <2>4 DEF CancellerNext, CancellerStarts, CancellerHurries, worker, clock
  <2>5. CASE MoreArrives \/ CancelScan \/ ExpireScan \/ TimePasses
    BY <2>5 DEF MoreArrives, CancelScan, ExpireScan, TimePasses, worker, clock
  <2>6. QED
    BY <2>1, <2>2, <2>3, <2>4, <2>5, Zenon DEF RunNext
<1>3. QED
  BY <1>1, <1>2, PTL DEF RunSpec

(* What the stages say of the connection and of the canceller.             *)
LEMMA LeftInvHolds == RunSpec => []LeftInv
<1>1. RunInit => LeftInv
  BY SMT DEF RunInit, LeftInv
<1>2. LeftInv /\ [RunNext]_runVars => LeftInv'
  <2> SUFFICES ASSUME LeftInv, [RunNext]_runVars PROVE LeftInv'
    OBVIOUS
  <2>1. CASE UNCHANGED <<vars, stage, canceller>>
    BY <2>1 DEF LeftInv, vars
  <2>2. CASE stage = "dial" /\ UNCHANGED <<stage, canceller>>
    BY <2>2 DEF LeftInv
  <2>3. CASE WatcherNext /\ UNCHANGED <<stage, canceller>>
    BY <2>3 DEF LeftInv, WatcherNext, WatcherStarts, WatcherCloses
  <2>4. CASE Dial \/ AroundDial
    BY <2>2, <2>3, <2>4, Zenon DEF Dial, AroundDial, Dialing, worker
  <2>5. CASE ExpireScan
    BY <2>1, <2>2, <2>5, Zenon DEF ExpireScan, Dialing, worker
  <2>6. CASE CancellerNext
    BY <2>6 DEF LeftInv, CancellerNext, CancellerStarts, CancellerHurries,
       vars, worker
  <2>7. CASE Dialed \/ SetLimit \/ ArmCanceller
    BY <2>7 DEF LeftInv, Dialed, SetLimit, ArmCanceller, vars
  <2>8. CASE StopCanceller \/ ResetLimit \/ LookAtContext
    BY <2>8 DEF LeftInv, StopCanceller, ResetLimit, LookAtContext, vars
  <2>9. CASE CloseProbed
    BY <2>9 DEF LeftInv, CloseProbed, ClientCloses
  <2>10. CASE InspectContext
    BY <2>10 DEF LeftInv, InspectContext, vars
  <2>11. ASSUME NEW error, stage = "talk", HandBack(error),
                UNCHANGED <<vars, canceller>>
         PROVE  LeftInv'
    BY <2>11 DEF LeftInv, HandBack, vars
  <2>12. CASE InterruptTLS
    BY <2>12 DEF LeftInv, InterruptTLS, Through, HandBack, ClientCloses
  <2>13. CASE Exchange \/ HandshakeTLS \/ ReadLine \/ ReadFixed \/ ReadField
    BY <2>1, <2>13, Zenon DEF Exchange, HandshakeTLS, ReadLine, ReadFixed,
       ReadField, worker
  <2>14. CASE CheckBuffered \/ ReadRest \/ ParseRecords
    BY <2>1, <2>11, <2>14, Zenon DEF CheckBuffered, ReadRest, ParseRecords,
       Through, worker
  <2>15. CASE Recognize \/ Disappoint \/ CutShort
    BY <2>11, <2>15, Zenon DEF Recognize, Disappoint, CutShort
  <2>16. CASE MoreArrives \/ CancelScan \/ TimePasses
    BY <2>1, <2>16, Zenon DEF MoreArrives, CancelScan, TimePasses, worker
  <2>17. CASE UNCHANGED runVars
    BY <2>1, <2>17, Zenon DEF runVars, worker
  <2>18. QED
    BY <2>4, <2>5, <2>6, <2>7, <2>8, <2>9, <2>10, <2>12, <2>13, <2>14, <2>15,
       <2>16, <2>17, Zenon DEF RunNext, WorkerMoves, Talk
<1>3. QED
  BY <1>1, <1>2, PTL DEF RunSpec

(* A check that is over leaves nothing behind: neither a connection, which *)
(* the dial closes if it fails and runProbes if it does not, nor one of    *)
(* the two functions that wait for the end of the context.                 *)
THEOREM RunLeavesNothing == RunSpec => []CheckLeavesNothing
<1>1. /\ LeftInv /\ HandedOverStaysOpen /\ FailedLeavesNothing
      => CheckLeavesNothing
  BY DEF LeftInv, HandedOverStaysOpen, FailedLeavesNothing, CheckLeavesNothing,
     CheckOver
<1>2. RunSpec => [](HandedOverStaysOpen /\ FailedLeavesNothing)
  BY RunIsDial, HandedOver, NothingLeft, PTL
<1>3. QED
  BY <1>1, <1>2, LeftInvHolds, PTL

(* What the worker of Scanner sees of a check. *)
LEMMA Unseen ==
  ASSUME UNCHANGED <<cancelled, expired>>, AsPC' = AsPC,
         stage = "closed" <=> stage' = "closed",
         AsPC \in {"inspect", "report", "done"} => outcome' = outcome
  PROVE  UNCHANGED S!vars
<1>1. UNCHANGED <<AsConn, AsError, AsProbes>>
  BY Zenon DEF AsConn, AsError, AsProbes
<1>2. QED
  BY <1>1, Zenon DEF S!vars, S!contextVars, S!feederVars, S!workerVars, Announcement

LEMMA OneEntry ==
  ASSUME NEW a, NEW b
  PROVE  [<<a>> EXCEPT ![1] = b] = <<b>> /\ <<a>>[1] = a
BY SMT

LEMMA FirstResult ==
  ASSUME NEW a
  PROVE  Append(<<>>, a) = <<a>> /\ Len(<<>>) + 1 = 1
BY SMT

(* The steps of a check that the worker of Scanner sees.                   *)
LEMMA SeenDial ==
  ASSUME RunInv, Dialed
  PROVE  S!DialOpen(1) \/ S!DialFail(1) \/ S!DialCancelled(1)
<1>1. /\ AsPC = "dial" /\ AsError = "none" /\ AsProbes = <<>>
      /\ UNCHANGED <<outcome, cancelled, expired>>
  BY SMT DEF RunInv, Dialed, AsPC, AsError, AsProbes, clock
<1>2. AsProbes' = <<>>
  BY SMT DEF RunInv, Dialed, AsProbes
<1>3. CASE result = "conn"
  <2>1. AsPC' = "probe" /\ AsError' = "none"
    BY <1>3, SMT DEF Dialed, AsPC, AsError
  <2>2. <<AsConn>>' = [<<AsConn>> EXCEPT ![1] = TRUE]
    BY <2>1, OneEntry, Zenon DEF AsConn
  <2>3. <<1>>[<<1>>[1]] # 0
    BY SMT
  <2>4. <<AsPC>>[1] = "dial" /\ <<AsPC>>' = [<<AsPC>> EXCEPT ![1] = "probe"]
    BY <1>1, <2>1, OneEntry, Zenon
  <2>5. S!DialOpen(1)
    BY <1>1, <1>2, <2>1, <2>2, <2>3, <2>4, Zenon
       DEF S!DialOpen, S!Goto, S!contextVars, S!feederVars, Announcement
  <2>6. QED
    BY <2>5
<1>4. CASE result = "error" /\ cancelled
  <2>1. AsPC' = "done" /\ AsError' = "none"
    BY <1>4, SMT DEF Dialed, AsPC, AsError
  <2>2. AsPC # "probe" /\ AsPC' # "probe"
    BY <1>1, <2>1
  <2>3. UNCHANGED AsConn
    BY <2>2 DEF AsConn
  <2>4. S!DialCancelled(1)
    BY <1>1, <1>2, <1>4, <2>1, <2>3, OneEntry, Zenon
       DEF S!DialCancelled, S!Goto, S!contextVars, S!feederVars, Announcement
  <2>5. QED
    BY <2>4
<1>5. CASE result = "error" /\ ~cancelled
  <2>1. AsPC' = "report" /\ AsError' = "other"
    BY <1>5, SMT DEF Dialed, AsPC, AsError
  <2>2. AsPC # "probe" /\ AsPC' # "probe"
    BY <1>1, <2>1
  <2>3. UNCHANGED AsConn
    BY <2>2 DEF AsConn
  <2>4. "other" \in S!DialOutcomes
    BY DEF S!DialOutcomes
  <2>5. S!DialFail(1)
    BY <1>1, <1>2, <1>5, <2>1, <2>3, <2>4, OneEntry, Zenon
       DEF S!DialFail, S!Goto, S!contextVars, S!feederVars, Announcement
  <2>6. QED
    BY <2>5
<1>6. QED
  BY <1>3, <1>4, <1>5 DEF Dialed

LEMMA SeenProbe ==
  ASSUME AsPC = "probe", AsPC' = "inspect", stage # "closed",
         stage' # "closed", outcome' # "none", UNCHANGED <<cancelled, expired>>,
         \/ outcome' = "failed"
         \/ cancelled /\ outcome' = "interrupted"
         \/ ~cancelled /\ outcome' = "ok"
         \/ ~cancelled /\ outcome' = "cut" /\ expired
  PROVE  S!Probe(1)
<1>1. outcome' \in S!RunOutcomes
  BY DEF S!RunOutcomes
<1>2. AsProbes = <<>> /\ AsProbes' = <<outcome'>> /\ UNCHANGED AsError
  BY SMT DEF AsProbes, AsError
<1>3. <<AsProbes>>[1] = <<>> /\ Len(<<AsProbes>>[1]) + 1 = 1
  BY <1>2, OneEntry, FirstResult, Zenon
<1>4. <<AsProbes>>' = [<<AsProbes>> EXCEPT ![1] = Append(@, outcome')]
  <2>1. Append(<<AsProbes>>[1], outcome') = <<outcome'>>
    BY <1>3, FirstResult, Zenon
  <2>2. [<<AsProbes>> EXCEPT ![1] = <<outcome'>>] = << <<outcome'>> >>
    BY OneEntry, Zenon
  <2>3. QED
    BY <1>2, <2>1, <2>2, Zenon
<1>5. <<AsPC>>' = [<<AsPC>> EXCEPT ![1] = "inspect"] /\ <<AsPC>>[1] = "probe"
  BY OneEntry, Zenon
<1>6. AsPC' # "probe"
  OBVIOUS
<1>7. AsConn' = FALSE
  BY <1>6 DEF AsConn
<1>8. <<AsConn>>' = [<<AsConn>> EXCEPT ![1] = FALSE]
  BY <1>7, OneEntry, Zenon
<1>9. S!NextProbe(1, 1)
  BY <1>5, OneEntry, SMT DEF S!NextProbe, S!Goto
<1>10. S!AddResult(1, outcome')
  BY <1>3, <1>4, <1>9, Zenon DEF S!AddResult
<1>11. QED
  BY <1>1, <1>2, <1>5, <1>8, <1>10, Zenon
     DEF S!Probe, S!contextVars, S!feederVars, Announcement

LEMMA SeenInspect ==
  ASSUME InspectContext
  PROVE  S!Inspect(1)
<1>1. /\ AsPC = "inspect" /\ stage # "closed" /\ stage' # "closed"
      /\ AsPC' = IF cancelled THEN "done" ELSE "report"
      /\ UNCHANGED <<outcome, cancelled, expired>>
  BY SMT DEF InspectContext, AsPC, clock
<1>2. AsPC # "probe" /\ AsPC' # "probe" /\ UNCHANGED <<AsError, AsProbes>>
  BY <1>1, SMT DEF AsError, AsProbes
<1>3. UNCHANGED AsConn
  BY <1>2 DEF AsConn
<1>4. /\ <<AsPC>>[1] = "inspect"
      /\ <<AsPC>>' = [<<AsPC>> EXCEPT ![1] = IF cancelled THEN "done"
                                             ELSE "report"]
  BY <1>1, OneEntry, Zenon
<1>5. QED
  BY <1>1, <1>2, <1>3, <1>4, Zenon
     DEF S!Inspect, S!Goto, S!contextVars, S!feederVars, Announcement

LEMMA SeenContext ==
  ASSUME UNCHANGED worker
  PROVE  /\ ~cancelled /\ cancelled' = TRUE /\ UNCHANGED expired => S!Cancel
         /\ ~expired /\ expired' = TRUE /\ UNCHANGED cancelled => S!Expire
<1>1. UNCHANGED <<AsPC, AsConn, AsError, AsProbes>>
  BY DEF worker, AsPC, AsConn, AsError, AsProbes
<1>2. AsConfig.timed
  BY SMT DEF AsConfig
<1>3. QED
  BY <1>1, <1>2, Zenon
     DEF S!Cancel, S!Expire, S!feederVars, S!workerVars, Announcement

(* The dial, the handshake and everything that races with them come to     *)
(* what the worker of Scanner does in a step: Registry.Run looks at the    *)
(* context after the handshake, so one that its own canceller has cut      *)
(* short is never taken for one that failed or was recognized.             *)
THEOREM RunImplementsWorker == RunSpec => StepsOfWorker
<1> DEFINE Seen == \/ S!DialOpen(1) \/ S!DialFail(1) \/ S!DialCancelled(1)
                   \/ S!Probe(1) \/ S!Inspect(1) \/ S!Expire \/ S!Cancel
<1>1. RunInv /\ [RunNext]_runVars => [Seen]_(S!vars)
  <2> SUFFICES ASSUME RunInv, [RunNext]_runVars PROVE Seen \/ UNCHANGED S!vars
    BY Zenon
  <2> HIDE DEF Seen
  <2>1. ASSUME UNCHANGED <<worker, cancelled, expired>>
        PROVE  UNCHANGED S!vars
    <3>1. UNCHANGED <<stage, outcome, cancelled, expired>> /\ AsPC' = AsPC
      BY <2>1 DEF worker, AsPC
    <3>2. QED
      BY <3>1, Unseen
  <2>2. ASSUME stage \in {"deadline", "arm", "talk", "stop", "reset"},
               stage' \in {"deadline", "arm", "talk", "stop", "reset", "look"},
               UNCHANGED <<cancelled, expired>>
        PROVE  UNCHANGED S!vars
    <3>1. AsPC = "probe" /\ AsPC' = "probe" /\ stage # "closed"
          /\ stage' # "closed"
      BY <2>2, SMT DEF AsPC
    <3>2. AsPC \notin {"inspect", "report", "done"}
      BY <3>1
    <3>3. QED
      BY <2>2, <3>1, <3>2, Unseen
  <2>3. CASE Dialed
    BY <2>3, SeenDial, Zenon DEF Seen
  <2>4. CASE SetLimit
    <3>1. CASE stage' = "arm"
      BY <2>2, <2>4, <3>1 DEF SetLimit, clock
    <3>2. CASE stage' = "close"
      <4>1. /\ AsPC = "probe" /\ AsPC' = "inspect" /\ stage # "closed"
            /\ stage' # "closed" /\ outcome' = "failed"
            /\ UNCHANGED <<cancelled, expired>>
        BY <2>4, <3>2, SMT DEF SetLimit, AsPC, clock
      <4>2. QED
        BY <4>1, SeenProbe DEF Seen
    <3>3. QED
      BY <2>4, <3>1, <3>2 DEF SetLimit
  <2>5. CASE LookAtContext
    <3>1. /\ AsPC = "probe" /\ AsPC' = "inspect" /\ stage # "closed"
          /\ stage' # "closed" /\ UNCHANGED <<cancelled, expired>>
      BY <2>5, SMT DEF LookAtContext, AsPC, clock
    <3>2. /\ outcome' # "none"
          /\ \/ outcome' = "failed"
             \/ cancelled /\ outcome' = "interrupted"
             \/ ~cancelled /\ outcome' = "ok"
             \/ ~cancelled /\ outcome' = "cut" /\ expired
      BY <2>5, SMT DEF RunInv, LookAtContext
    <3>3. QED
      BY <3>1, <3>2, SeenProbe DEF Seen
  <2>6. CASE InspectContext
    BY <2>6, SeenInspect DEF Seen
  <2>7. CASE CloseProbed
    <3>1. /\ AsPC' = AsPC /\ stage # "closed" /\ stage' # "closed"
          /\ UNCHANGED <<outcome, cancelled, expired>>
      BY <2>7, SMT DEF CloseProbed, AsPC, clock
    <3>2. QED
      BY <3>1, Unseen
  <2>8. CASE ArmCanceller \/ StopCanceller \/ ResetLimit
    BY <2>2, <2>8 DEF ArmCanceller, StopCanceller, ResetLimit, clock
  <2>9. ASSUME NEW error, stage = "talk", HandBack(error),
               UNCHANGED <<cancelled, expired>>
        PROVE  UNCHANGED S!vars
    BY <2>2, <2>9 DEF HandBack
  <2>10. CASE Talk
    <3>1. UNCHANGED <<cancelled, expired>> /\ stage = "talk"
      BY <2>10, Zenon DEF Talk, Exchange, HandshakeTLS, InterruptTLS,
         CheckBuffered, ReadLine, ReadFixed, ReadField, ReadRest, ParseRecords,
         Recognize, Disappoint, CutShort, Through, clock
    <3>2. UNCHANGED worker \/ \E error : HandBack(error)
      BY <2>10, Zenon DEF Talk, Exchange, HandshakeTLS, InterruptTLS,
         CheckBuffered, ReadLine, ReadFixed, ReadField, ReadRest, ParseRecords,
         Recognize, Disappoint, CutShort
    <3>3. QED
      BY <2>1, <2>9, <3>1, <3>2
  <2>11. CASE CancelScan \/ ExpireScan
    BY <2>11, SeenContext, Zenon DEF Seen, CancelScan, ExpireScan
  <2>12. CASE Dial \/ AroundDial \/ CancellerNext \/ MoreArrives \/ TimePasses
    BY <2>1, <2>12, Zenon DEF Dial, AroundDial, CancellerNext, CancellerStarts,
       CancellerHurries, MoreArrives, TimePasses, clock
  <2>13. CASE UNCHANGED runVars
    BY <2>1, <2>13, Zenon DEF runVars, clock
  <2>14. QED
    BY <2>3, <2>4, <2>5, <2>6, <2>7, <2>8, <2>10, <2>11, <2>12, <2>13, Zenon
       DEF RunNext, WorkerMoves
<1>2. QED
  BY <1>1, RunInvHolds, PTL DEF RunSpec, StepsOfWorker

(***************************************************************************)
(* The handshakes: the turns of a conversation, and the lengths that they  *)
(* declare.  A buffer is made of a length that the server has sent, so     *)
(* what a turn makes and looks at depends on the turn that read that       *)
(* length (Governs).  Sized says of the turns that are left that every     *)
(* rest goes by a field that admits only lengths that fit it, or by the    *)
(* length declared already.                                                *)
(***************************************************************************)

(* How a turn talks, and what a rest may look at: pairs of the size a      *)
(* buffer must have for the look and the end of the look.                  *)
Vias  == {"clear", "tls", "memory"}
Pairs == Nat \X Nat
Looks == {{}} \cup {{a, b} : a \in Pairs, b \in Pairs}

(* The sizes that a buffer may have.                                       *)
Sizable == {n \in Nat : n <= MB}

(* What a turn can be.                                                     *)
Turns ==
  [op : {"write", "response", "tls", "alone", "records"}, via : Vias]
  \cup [op : {"lines"}, via : Vias, most : Nat]
  \cup [op : {"fixed"}, via : Vias, size : Sizable]
  \cup [op : {"field"}, via : Vias, top : Nat, low : Nat, high : Nat]
  \cup [op : {"rest"}, via : Vias, less : Nat, need : Nat, looks : Looks]

(* The lengths that the checks of a field let through.                     *)
Admits(field, n) == field.low <= n /\ n <= field.high /\ n <= field.top

(* A rest of a declared length n makes a buffer of a legal size, and looks *)
(* at nothing behind it.                                                   *)
Fits(rest, n) ==
  /\ 0 <= n - rest.less /\ n - rest.less <= MB
  /\ n - rest.less >= rest.need =>
       \A look \in rest.looks : look[1] <= n - rest.less => look[2] <= n - rest.less

(* The length that the turn j goes by is read by the turn i.               *)
Governs(turns, i, j) ==
  /\ turns[i].op = "field"
  /\ \A k \in (i + 1)..(j - 1) : turns[k].op # "field"

(* No turn before j reads a length.                                        *)
Ungoverned(turns, j) == \A k \in 1..(j - 1) : turns[k].op # "field"

(* Every rest fits the lengths it may go by, where n is declared so far.   *)
Sized(turns, n) ==
  \A j \in 1..Len(turns) :
    turns[j].op = "rest" =>
      /\ \A i \in 1..(j - 1) : Governs(turns, i, j) =>
           \A m \in Nat : Admits(turns[i], m) => Fits(turns[j], m)
      /\ Ungoverned(turns, j) => Fits(turns[j], n)

(* Turns that are sized whatever is declared.                              *)
Closed(turns) == \A n \in Nat : Sized(turns, n)

(* Turns that only use some ways to talk, and never switch to TLS; and     *)
(* that make a conversation, or a part of one.                             *)
Uses(turns, vias) ==
  \A j \in 1..Len(turns) : turns[j].via \in vias /\ turns[j].op # "tls"

Plain(turns, vias) ==
  turns \in Seq(Turns) /\ Uses(turns, vias) /\ Closed(turns)

(* A turn before the turn j switches to TLS.                               *)
Switched(turns, j) == \E i \in 1..(j - 1) : turns[i].op = "tls"

(* Turns talk in clear until TLS is switched on, and never after it; at    *)
(* the end TLS is on exactly if the conversation is one with TLS.          *)
Agreed(turns, done, tls) ==
  /\ \A j \in 1..Len(turns) : turns[j].op # "tls" =>
       IF done \/ Switched(turns, j) THEN turns[j].via # "clear"
       ELSE turns[j].via # "tls"
  /\ tls <=> done \/ Switched(turns, Len(turns) + 1)

(* What every conversation of ProbeRun satisfies.                          *)
Sound(c) ==
  /\ c.tls \in BOOLEAN
  /\ c.turns \in Seq(Turns)
  /\ Closed(c.turns)
  /\ Agreed(c.turns, FALSE, c.tls)

(* PostgreSQL takes nothing it has read in clear for something said under  *)
(* TLS: before the switch it makes sure that its reader is empty.          *)
Unmixed(turns, more, done) ==
  /\ done => ~more
  /\ \A j \in 1..Len(turns) :
       /\ turns[j].op # "lines"
       /\ turns[j].op = "fixed" => ~done /\ ~Switched(turns, j)
       /\ turns[j].op = "tls" =>
            /\ more => \E k \in 1..(j - 1) : turns[k].op = "alone"
            /\ \A i \in 1..(j - 1) : turns[i].op = "fixed" =>
                 \E k \in (i + 1)..(j - 1) : turns[k].op = "alone"

(* A turn that neither switches nor goes by a declared length.             *)
Simple(t, vias) == t \in Turns /\ t.op \notin {"rest", "tls"} /\ t.via \in vias

(* The turns of most handshakes are.                                       *)
LEMMA SimpleTurns ==
  ASSUME NEW via \in Vias, NEW vias, via \in vias
  PROVE  /\ Simple(Write(via), vias)
         /\ Simple(Response(via), vias)
         /\ \A most \in Nat : Simple(Lines(via, most), vias)
         /\ \A size \in Sizable : Simple(Fixed(via, size), vias)
         /\ \A top, low, high \in Nat : Simple(Field(via, top, low, high), vias)
BY DEF Write, Response, Lines, Fixed, Field, Simple, Turns, Vias

(* So are the turns that only look at what has been read.                  *)
LEMMA InMemory ==
  ASSUME NEW vias, "memory" \in vias
  PROVE  Simple(NothingBuffered, vias) /\ Simple(Records, vias)
BY DEF NothingBuffered, Records, Simple, Turns, Vias

(* What a rest fits.                                                       *)
LEMMA SomeRest ==
  ASSUME NEW via \in Vias, NEW less \in Nat, NEW need \in Nat, NEW looks \in Looks
  PROVE  /\ Rest(via, less, need, looks) \in Turns
         /\ Rest(via, less, need, looks).op = "rest"
         /\ Rest(via, less, need, looks).via = via
         /\ \A n : Fits(Rest(via, less, need, looks), n) <=>
              /\ 0 <= n - less /\ n - less <= MB
              /\ n - less >= need =>
                   \A look \in looks : look[1] <= n - less => look[2] <= n - less
BY DEF Rest, Turns, Vias, Fits

(* A conversation of one simple turn is plain.                             *)
LEMMA PlainOne ==
  ASSUME NEW vias, NEW t, Simple(t, vias)
  PROVE  Plain(<<t>>, vias)
BY DEF Simple, Plain, Uses, Closed, Sized

(* And of two.                                                             *)
LEMMA PlainTwo ==
  ASSUME NEW vias, NEW t, NEW u, Simple(t, vias), Simple(u, vias)
  PROVE  Plain(<<t, u>>, vias)
BY DEF Simple, Plain, Uses, Closed, Sized

(* And of three.                                                           *)
LEMMA PlainThree ==
  ASSUME NEW vias, NEW t, NEW u, NEW v,
         Simple(t, vias), Simple(u, vias), Simple(v, vias)
  PROVE  Plain(<<t, u, v>>, vias)
BY DEF Simple, Plain, Uses, Closed, Sized

(* A field and the rest that goes by it, if the rest fits what it admits.  *)
LEMMA PlainRest ==
  ASSUME NEW f \in Turns, NEW r \in Turns, f.op = "field", r.op = "rest",
         NEW vias, f.via \in vias, r.via \in vias,
         \A n \in Nat : Admits(f, n) => Fits(r, n)
  PROVE  Plain(<<f, r>>, vias)
<1>1. /\ Len(<<f, r>>) = 2 /\ <<f, r>>[1] = f /\ <<f, r>>[2] = r
      /\ <<f, r>> \in Seq(Turns)
  OBVIOUS
<1>2. Uses(<<f, r>>, vias)
  BY <1>1 DEF Uses
<1>3. ASSUME NEW n \in Nat PROVE Sized(<<f, r>>, n)
  <2> DEFINE turns == <<f, r>>
  <2>1. ~Ungoverned(turns, 2)
    BY <1>1 DEF Ungoverned
  <2>2. \A i \in 1..(2 - 1) : i = 1
    OBVIOUS
  <2> HIDE DEF turns
  <2>3. turns[1] = f /\ turns[2] = r /\ Len(turns) = 2
    BY <1>1 DEF turns
  <2>4. SUFFICES ASSUME NEW j \in 1..2, turns[j].op = "rest"
                 PROVE  /\ \A i \in 1..(j - 1) : Governs(turns, i, j) =>
                             \A m \in Nat : Admits(turns[i], m) => Fits(turns[j], m)
                        /\ Ungoverned(turns, j) => Fits(turns[j], n)
    BY <2>3, Zenon DEF Sized, turns
  <2>5. j = 2
    BY <2>3, <2>4
  <2> QED
    BY <2>1, <2>2, <2>3, <2>5
<1> QED
  BY <1>1, <1>2, <1>3, Zenon DEF Plain, Closed

(* A rest of the second part goes by a field of that part, or by whatever  *)
(* the first part left declared.                                           *)
LEMMA ClosedConcat ==
  ASSUME NEW s \in Seq(Turns), NEW t \in Seq(Turns), Closed(s), Closed(t)
  PROVE  Closed(s \o t)
<1> DEFINE st == s \o t
           a == Len(s)
           b == Len(t)
<1>1. /\ st \in Seq(Turns) /\ a \in Nat /\ b \in Nat /\ Len(st) = a + b
      /\ \A i \in 1..a : st[i] = s[i]
      /\ \A i \in 1..b : st[a + i] = t[i]
  OBVIOUS
<1>2. \A j \in 1..(a + b) : j \in 1..a \/ (j - a \in 1..b /\ st[j] = t[j - a])
  BY <1>1
<1>3. ASSUME NEW n \in Nat PROVE Sized(st, n)
  <2>1. SUFFICES ASSUME NEW j \in 1..(a + b), st[j].op = "rest"
                 PROVE  /\ \A i \in 1..(j - 1) : Governs(st, i, j) =>
                             \A m \in Nat : Admits(st[i], m) => Fits(st[j], m)
                        /\ Ungoverned(st, j) => Fits(st[j], n)
    BY <1>1, Zenon DEF Sized
  <2>2. /\ \A m \in Nat : Sized(s, m)
        /\ \A m \in Nat : Sized(t, m)
    BY Zenon DEF Closed
  <2> HIDE DEF st, a, b
  <2>3. CASE j \in 1..a
    <3>1. st[j] = s[j] /\ \A i \in 1..(j - 1) : i \in 1..a /\ st[i] = s[i]
      BY <1>1, <2>3
    <3>2. \A i \in 1..(j - 1) : Governs(st, i, j) => Governs(s, i, j)
      <4> SUFFICES ASSUME NEW i \in 1..(j - 1), Governs(st, i, j)
                   PROVE  Governs(s, i, j)
        OBVIOUS
      <4>1. \A k \in (i + 1)..(j - 1) : k \in 1..(j - 1)
        BY <1>1
      <4> QED
        BY <3>1, <4>1, Zenon DEF Governs
    <3>3. Ungoverned(st, j) => Ungoverned(s, j)
      BY <3>1, Zenon DEF Ungoverned
    <3>4. /\ \A i \in 1..(j - 1) : Governs(s, i, j) =>
               \A m \in Nat : Admits(s[i], m) => Fits(s[j], m)
          /\ Ungoverned(s, j) => Fits(s[j], n)
      BY <2>1, <2>2, <2>3, <3>1, Zenon DEF Sized, a
    <3> QED
      BY <3>1, <3>2, <3>3, <3>4, Zenon
  <2>4. CASE j \notin 1..a
    <3> DEFINE l == j - a
    <3>1. l \in 1..b /\ st[j] = t[l]
      BY <1>2, <2>4
    <3>2. /\ \A i \in 1..(l - 1) : Governs(t, i, l) =>
               \A m \in Nat : Admits(t[i], m) => Fits(t[l], m)
          /\ \A m \in Nat : Ungoverned(t, l) => Fits(t[l], m)
      <4> HIDE DEF l
      <4> QED
        BY <2>1, <2>2, <3>1, Zenon DEF Sized, b
    <3>3. \A k \in 1..(l - 1) : a + k \in 1..(j - 1) /\ st[a + k] = t[k]
      BY <1>1, <3>1
    <3>4. ASSUME NEW i \in 1..(j - 1), Governs(st, i, j)
          PROVE  \A m \in Nat : Admits(st[i], m) => Fits(st[j], m)
      <4>1. CASE i > a
        <5> DEFINE h == i - a
        <5>1. h \in 1..(l - 1) /\ st[i] = t[h]
          BY <1>1, <1>2, <4>1
        <5>2. \A k \in (h + 1)..(l - 1) :
                 a + k \in (i + 1)..(j - 1) /\ st[a + k] = t[k]
          BY <1>1, <3>3, <5>1
        <5> HIDE DEF h, l
        <5>3. Governs(t, h, l)
          BY <3>4, <5>1, <5>2, Zenon DEF Governs
        <5> QED
          BY <3>1, <3>2, <5>1, <5>3, Zenon
      <4>2. CASE ~(i > a)
        <5>1. \A k \in 1..(l - 1) :
                 a + k \in (i + 1)..(j - 1) /\ st[a + k] = t[k]
          BY <1>1, <3>3, <4>2
        <5> HIDE DEF l
        <5>2. Ungoverned(t, l)
          BY <3>4, <5>1, Zenon DEF Governs, Ungoverned
        <5> QED
          BY <3>1, <3>2, <5>2, Zenon
      <4> QED
        BY <4>1, <4>2
    <3>5. Ungoverned(st, j) => Fits(st[j], n)
      <4> HIDE DEF l
      <4> QED
        BY <3>1, <3>2, <3>3, Zenon DEF Ungoverned
    <3> QED
      BY <3>4, <3>5
  <2> QED
    BY <2>3, <2>4
<1> QED
  BY <1>3, Zenon DEF Closed

(* Two conversations, one after the other.                                 *)
LEMMA PlainConcat ==
  ASSUME NEW s, NEW t, NEW vias, Plain(s, vias), Plain(t, vias)
  PROVE  Plain(s \o t, vias)
<1> DEFINE st == s \o t
<1>1. s \in Seq(Turns) /\ t \in Seq(Turns) /\ Closed(s) /\ Closed(t)
  BY DEF Plain
<1>2. st \in Seq(Turns) /\ Closed(st)
  BY <1>1, ClosedConcat
<1>3. \A j \in 1..Len(st) : \/ j \in 1..Len(s) /\ st[j] = s[j]
                            \/ j - Len(s) \in 1..Len(t) /\ st[j] = t[j - Len(s)]
  BY <1>1
<1>4. Uses(st, vias)
  <2> HIDE DEF st
  <2> QED
    BY <1>3 DEF Uses, Plain
<1> QED
  BY <1>2, <1>4 DEF Plain

(* A conversation that goes all in clear is sound.                         *)
LEMMA PlainSound ==
  ASSUME NEW turns, NEW vias, Plain(turns, vias), "tls" \notin vias
  PROVE  \A c \in Clear(turns) : Sound(c)
<1> SUFFICES ASSUME NEW c \in Clear(turns) PROVE Sound(c)
  OBVIOUS
<1>1. c.turns = turns /\ c.tls = FALSE
  BY DEF Clear
<1>2. turns \in Seq(Turns) /\ Uses(turns, vias) /\ Closed(turns)
  BY DEF Plain
<1>3. Len(turns) \in Nat /\ (Len(turns) + 1) - 1 = Len(turns)
  BY <1>2
<1>4. ~Switched(turns, Len(turns) + 1)
  BY <1>2, <1>3 DEF Switched, Uses
<1>5. Agreed(turns, FALSE, FALSE)
  <2>1. \A j \in 1..Len(turns) : turns[j].via # "tls" /\ ~Switched(turns, j)
    BY <1>2, <1>3 DEF Uses, Switched
  <2> QED
    BY <1>4, <2>1 DEF Agreed
<1> QED
  BY <1>1, <1>2, <1>5 DEF Sound

(* A conversation that begins with TLS is sound.                           *)
LEMMA SecuredSound ==
  ASSUME NEW turns, NEW vias, Plain(turns, vias), "clear" \notin vias
  PROVE  \A c \in Secured(turns) : Sound(c)
<1> SUFFICES ASSUME NEW c \in Secured(turns) PROVE Sound(c)
  OBVIOUS
<1> DEFINE all == <<Secure>> \o turns
<1>1. c.turns = all /\ c.tls = TRUE
  BY DEF Secured
<1>2. turns \in Seq(Turns) /\ Uses(turns, vias) /\ Closed(turns)
  BY DEF Plain
<1>3. /\ Secure \in Turns /\ Secure.op = "tls" /\ Secure.via = "clear"
  BY DEF Secure, Turns, Vias
<1>4. /\ all \in Seq(Turns) /\ Len(all) = Len(turns) + 1 /\ all[1] = Secure
      /\ \A j \in 2..(Len(turns) + 1) :
           all[j] = turns[j - 1] /\ j - 1 \in 1..Len(turns)
      /\ Len(turns) \in Nat
  BY <1>2, <1>3
<1>5. Closed(all)
  <2>1. <<Secure>> \in Seq(Turns) /\ Closed(<<Secure>>)
    BY <1>3 DEF Closed, Sized
  <2> QED
    BY <1>2, <2>1, ClosedConcat
<1>6. Agreed(all, FALSE, TRUE)
  <2> HIDE DEF all
  <2>1. \A j \in 2..(Len(turns) + 2) : 1 \in 1..(j - 1) /\ Switched(all, j)
    BY <1>3, <1>4 DEF Switched
  <2>2. \A j \in 1..Len(all) : all[j].op # "tls" =>
          j \in 2..(Len(turns) + 2) /\ all[j].via # "clear"
    BY <1>2, <1>3, <1>4 DEF Uses
  <2>3. Len(all) + 1 \in 2..(Len(turns) + 2)
    BY <1>4
  <2> QED
    BY <2>1, <2>2, <2>3, Zenon DEF Agreed
<1> QED
  BY <1>1, <1>4, <1>5, <1>6 DEF Sound

(* What a conversation in clear uses, and what one under TLS does.         *)
Clears    == {"clear", "memory"}
Encrypted == {"tls", "memory"}

(* The same, of what a conversation in clear uses.                         *)
LEMMA ClearSound ==
  ASSUME NEW turns, Plain(turns, Clears)
  PROVE  \A c \in Clear(turns) : Sound(c)
BY PlainSound DEF Clears

(* The same, of what a conversation under TLS uses.                        *)
LEMMA EncryptedSound ==
  ASSUME NEW turns, Plain(turns, Encrypted)
  PROVE  \A c \in Secured(turns) : Sound(c)
BY SecuredSound DEF Encrypted

(* The ways to talk that they are applied to.                              *)
LEMMA Turnings ==
  /\ "clear" \in Vias /\ "tls" \in Vias /\ "memory" \in Vias
  /\ "clear" \in Clears /\ "memory" \in Clears
  /\ "tls" \in Encrypted /\ "memory" \in Encrypted
BY DEF Vias, Clears, Encrypted

(* The sizes and limits of the handshakes are numbers.                     *)
LEMMA Sizes ==
  /\ \A n \in {1, 2, 4, 6, 8, 64} : n \in Sizable
  /\ MB \in Nat /\ 256 * MB \in Nat /\ 16 * MB \in Nat /\ KB64 \in Nat
  /\ Bits16 \in Nat /\ Bits17 \in Nat /\ Bits24 \in Nat /\ Bits32 \in Nat
  /\ 1 + ReplyLines \in Nat /\ IdentLines \in Nat
BY LinesAssumption DEF MB, KB64, Bits16, Bits17, Bits24, Bits32, Sizable

(* The handshakes that read lines.                                         *)
LEMMA LinesSound ==
  \A c \in Ssh \cup Ftp \cup FtpsImplicit \cup Nats \cup Memcached \cup Redis :
    Sound(c)
<1>1. Plain(<<Lines("clear", IdentLines)>>, Clears)
  BY PlainOne, SimpleTurns, Turnings, Sizes
<1>2. Plain(<<Lines("clear", 1 + ReplyLines)>>, Clears)
  BY PlainOne, SimpleTurns, Turnings, Sizes
<1>3. Plain(<<Lines("tls", 1 + ReplyLines)>>, Encrypted)
  BY PlainOne, SimpleTurns, Turnings, Sizes
<1>4. Plain(<<Lines("clear", 1)>>, Clears)
  BY PlainOne, SimpleTurns, Turnings, Sizes
<1>5. Plain(<<Write("clear"), Lines("clear", 1)>>, Clears)
  BY PlainTwo, SimpleTurns, Turnings, Sizes
<1> QED
  BY <1>1, <1>2, <1>3, <1>4, <1>5, ClearSound, EncryptedSound, Zenon
     DEF Ssh, FtpResponse, Ftp, FtpsImplicit, Nats, Memcached, Redis

(* The handshakes that read a response of HTTP.                            *)
LEMMA HttpSound ==
  \A c \in Http \cup Https \cup Winrm \cup WinrmHttps \cup Elasticsearch \cup Etcd :
    Sound(c)
<1>1. Plain(ProbeHTTP("clear"), Clears) /\ Plain(ProbeHTTP("tls"), Encrypted)
  BY PlainTwo, SimpleTurns, Turnings DEF ProbeHTTP
<1>2. Plain(ProbeWinRM("clear"), Clears) /\ Plain(ProbeWinRM("tls"), Encrypted)
  BY PlainThree, SimpleTurns, Turnings DEF ProbeWinRM
<1> QED
  BY <1>1, <1>2, ClearSound, EncryptedSound, Zenon
     DEF Http, Https, Winrm, WinrmHttps, Elasticsearch, Etcd, ProbeWinRM

(* The handshakes that read no more than a fixed number of bytes behind a  *)
(* length they check.                                                      *)
LEMMA FixedSound ==
  \A c \in Mqtt \cup Socks4 \cup Socks5 \cup Cassandra \cup Mongodb \cup Kafka
           \cup Rabbitmq :
    Sound(c)
<1>1. Simple(Write("clear"), Clears)
  BY SimpleTurns, Turnings
<1>2. \A size \in {1, 2, 4, 6, 8, 64} : Simple(Fixed("clear", size), Clears)
  BY SimpleTurns, Turnings, Sizes
<1>3. /\ Simple(Field("clear", Bits32, 0, 256 * MB), Clears)
      /\ Simple(Field("clear", Bits32, 16, 16 * MB), Clears)
      /\ Simple(Field("clear", Bits32, 6, 16 * MB), Clears)
      /\ Simple(Field("clear", Bits32, 4, MB), Clears)
  BY SimpleTurns, Turnings, Sizes
<1>4. \A size \in {1, 2, 4, 6, 8, 64} :
        Plain(<<Write("clear"), Fixed("clear", size)>>, Clears)
  BY <1>1, <1>2, PlainTwo
<1>5. /\ Plain(<<Write("clear"), Field("clear", Bits32, 0, 256 * MB)>>, Clears)
      /\ Plain(<<Write("clear"), Field("clear", Bits32, 16, 16 * MB)>>, Clears)
  BY <1>1, <1>3, PlainTwo
<1>6. /\ Plain(<<Write("clear"), Field("clear", Bits32, 6, 16 * MB),
                 Fixed("clear", 6)>>, Clears)
      /\ Plain(<<Write("clear"), Field("clear", Bits32, 4, MB),
                 Fixed("clear", 4)>>, Clears)
  BY <1>1, <1>2, <1>3, PlainThree
<1> QED
  BY <1>4, <1>5, <1>6, ClearSound
     DEF Mqtt, Socks4, Socks5, Cassandra, Mongodb, Kafka, Rabbitmq

(* The handshakes that check a length and read nothing, or one byte.       *)
LEMMA FieldSound ==
  \A c \in Mssql \cup Msrpc \cup Netbios : Sound(c)
<1>1. Simple(Write("clear"), Clears) /\ Simple(Fixed("clear", 1), Clears)
  BY SimpleTurns, Turnings, Sizes
<1>2. /\ Simple(Field("clear", Bits16, 8, Bits16), Clears)
      /\ Simple(Field("clear", Bits16, 16, Bits16), Clears)
      /\ Simple(Field("clear", Bits17, 0, 0), Clears)
      /\ Simple(Field("clear", Bits17, 1, 1), Clears)
      /\ Simple(Field("clear", Bits17, 0, KB64), Clears)
  BY SimpleTurns, Turnings, Sizes
<1>3. /\ Plain(<<Write("clear"), Field("clear", Bits16, 8, Bits16)>>, Clears)
      /\ Plain(<<Write("clear"), Field("clear", Bits16, 16, Bits16)>>, Clears)
      /\ Plain(<<Write("clear"), Field("clear", Bits17, 0, 0)>>, Clears)
      /\ Plain(<<Write("clear"), Field("clear", Bits17, 0, KB64)>>, Clears)
  BY <1>1, <1>2, PlainTwo
<1>4. Plain(<<Write("clear"), Field("clear", Bits17, 1, 1),
              Fixed("clear", 1)>>, Clears)
  BY <1>1, <1>2, PlainThree
<1> QED
  BY <1>3, <1>4, ClearSound, Zenon DEF Mssql, Msrpc, Netbios

(* Up to two looks.                                                        *)
LEMMA SomePairs ==
  /\ {} \in Looks
  /\ \A a \in Pairs : {a} \in Looks
  /\ \A a, b \in Pairs : {a, b} \in Looks
<1>1. \A a \in Pairs : {a} = {a, a}
  OBVIOUS
<1> QED
  BY <1>1, SMT DEF Looks

(* A rest whose looks are within the lengths that its field admits: each   *)
(* is guarded by its own length, or by the least length, or by the size it *)
(* needs.                                                                  *)
Fitting(top, low, high, less, need, looks) ==
  /\ top \in Nat /\ low \in Nat /\ high \in Nat /\ less \in Nat /\ need \in Nat
  /\ looks \in Looks
  /\ less <= low /\ high <= MB
  /\ \A look \in looks :
       look[2] <= look[1] \/ look[2] <= low - less \/ look[2] <= need

(* A length and the rest that goes by it.                                  *)
LEMMA LengthAndRest ==
  ASSUME NEW vias,
         NEW via \in Vias, NEW other \in Vias, via \in vias, other \in vias,
         NEW top, NEW low, NEW high, NEW less, NEW need, NEW looks,
         Fitting(top, low, high, less, need, looks)
  PROVE  Plain(<<Field(via, top, low, high), Rest(other, less, need, looks)>>,
               vias)
<1> DEFINE f == Field(via, top, low, high)
           r == Rest(other, less, need, looks)
<1>0. /\ top \in Nat /\ low \in Nat /\ high \in Nat /\ less \in Nat /\ need \in Nat
      /\ looks \in Looks
      /\ less <= low /\ high <= MB
      /\ \A look \in looks :
           look[2] <= look[1] \/ look[2] <= low - less \/ look[2] <= need
  BY Zenon DEF Fitting
<1>1. /\ f \in Turns /\ f.op = "field" /\ f.via = via
      /\ \A n \in Nat : Admits(f, n) => low <= n /\ n <= high
  BY <1>0 DEF Field, Turns, Vias, Admits
<1>2. r \in Turns /\ r.op = "rest" /\ r.via = other
  BY <1>0 DEF Rest, Turns, Vias
<1>3. ASSUME NEW n \in Nat, Admits(f, n) PROVE Fits(r, n)
  <2>1. low <= n /\ n <= high
    BY <1>1, <1>3
  <2>2. 0 <= n - less /\ n - less <= MB
    BY <1>0, <2>1, SMT DEF MB
  <2>3. \A look \in looks : look[1] \in Nat /\ look[2] \in Nat
    BY <1>0 DEF Looks, Pairs
  <2>4. ASSUME NEW look \in looks, n - less >= need, look[1] <= n - less
        PROVE  look[2] <= n - less
    BY <1>0, <2>1, <2>3, <2>4
  <2>5. r.less = less /\ r.need = need /\ r.looks = looks
    BY DEF Rest
  <2> HIDE DEF r
  <2> QED
    BY <2>2, <2>4, <2>5, SMT DEF Fits
<1> HIDE DEF f, r
<1> QED
  BY <1>1, <1>2, <1>3, PlainRest DEF f, r

(* The turns of short conversations, as the provers see them.              *)
LEMMA Joined ==
  ASSUME NEW a, NEW b, NEW c, NEW d
  PROVE  /\ <<a>> \o <<b, c>> = <<a, b, c>>
         /\ <<a, b, c>> \o <<d>> = <<a, b, c, d>>
         /\ Append(<<a, b, c>>, d) = <<a, b, c, d>>
<1> DEFINE Some == {a, b, c, d}
           one  == <<a>>
           two  == <<b, c>>
           last == <<d>>
           three == <<a, b, c>>
           four  == <<a, b, c, d>>
<1>1. /\ one \in Seq(Some) /\ Len(one) = 1 /\ one[1] = a
      /\ two \in Seq(Some) /\ Len(two) = 2 /\ two[1] = b /\ two[2] = c
      /\ last \in Seq(Some) /\ Len(last) = 1 /\ last[1] = d
      /\ three \in Seq(Some) /\ Len(three) = 3
      /\ three[1] = a /\ three[2] = b /\ three[3] = c
      /\ four \in Seq(Some) /\ Len(four) = 4
      /\ four[1] = a /\ four[2] = b /\ four[3] = c /\ four[4] = d
      /\ d \in Some
  OBVIOUS
<1> HIDE DEF Some, one, two, last, three, four
<1>2. one \o two = three
  <2> DEFINE u == one \o two
  <2>1. /\ u \in Seq(Some) /\ Len(u) = Len(one) + Len(two)
        /\ \A i \in 1..(Len(one) + Len(two)) :
             u[i] = IF i <= Len(one) THEN one[i] ELSE two[i - Len(one)]
    BY <1>1, ConcatProperties, Zenon
  <2> HIDE DEF u
  <2>2. u \in Seq(Some) /\ Len(u) = 3 /\ u[1] = a /\ u[2] = b /\ u[3] = c
    BY <1>1, <2>1
  <2>3. \A i \in 1..3 : u[i] = three[i]
    BY <1>1, <2>2
  <2> QED
    BY <1>1, <2>2, <2>3, SeqEqual DEF u
<1>3. three \o last = four
  <2> DEFINE u == three \o last
  <2>1. /\ u \in Seq(Some) /\ Len(u) = Len(three) + Len(last)
        /\ \A i \in 1..(Len(three) + Len(last)) :
             u[i] = IF i <= Len(three) THEN three[i] ELSE last[i - Len(three)]
    BY <1>1, ConcatProperties, Zenon
  <2> HIDE DEF u
  <2>2. u \in Seq(Some) /\ Len(u) = 4 /\ u[1] = a /\ u[2] = b /\ u[3] = c /\ u[4] = d
    BY <1>1, <2>1
  <2>3. \A i \in 1..4 : u[i] = four[i]
    BY <1>1, <2>2
  <2> QED
    BY <1>1, <2>2, <2>3, SeqEqual DEF u
<1>4. Append(three, d) = four
  BY <1>1, <1>3, AppendIsConcat, Zenon DEF last
<1> QED
  BY <1>2, <1>3, <1>4, Zenon DEF one, two, last, three, four

(* The handshakes that read what a length declares.                        *)
LEMMA DeclaredSound ==
  \A c \in Kerberos \cup Mysql \cup Rdp \cup Dns : Sound(c)
<1>1. Plain(<<Write("clear")>>, Clears) /\ Plain(<<Records>>, Clears)
  BY PlainOne, SimpleTurns, InMemory, Turnings
<1>2. /\ {<<0, 1>>} \in Looks /\ {<<0, QuestionEnd>>} \in Looks
      /\ {<<0, 1>>, <<3, 3>>} \in Looks /\ {<<0, 2>>, <<15, 15>>} \in Looks
  BY SomePairs, QuestionAssumption DEF Pairs
<1>3. Plain(<<Field("clear", Bits32, 2, MB),
              Rest("clear", 0, 0, {<<0, 1>>})>>, Clears)
  <2>1. Fitting(Bits32, 2, MB, 0, 0, {<<0, 1>>})
    BY <1>2, SMT DEF Fitting, MB, Bits32
  <2> QED
    BY <2>1, LengthAndRest, Turnings, Zenon
<1>4. Plain(<<Field("clear", Bits24, 1, MB),
              Rest("clear", 0, 0, {<<0, 1>>, <<3, 3>>})>>, Clears)
  <2>1. Fitting(Bits24, 1, MB, 0, 0, {<<0, 1>>, <<3, 3>>})
    BY <1>2, SMT DEF Fitting, MB, Bits24
  <2> QED
    BY <2>1, LengthAndRest, Turnings, Zenon
<1>5. Plain(<<Field("clear", Bits16, 11, 8192),
              Rest("clear", 4, 7, {<<0, 2>>, <<15, 15>>})>>, Clears)
  <2>1. Fitting(Bits16, 11, 8192, 4, 7, {<<0, 2>>, <<15, 15>>})
    BY <1>2, SMT DEF Fitting, MB, Bits16
  <2>2. ASSUME NEW top, NEW low, NEW high, NEW less, NEW need, NEW looks,
               Fitting(top, low, high, less, need, looks)
        PROVE  Plain(<<Field("clear", top, low, high),
                       Rest("clear", less, need, looks)>>, Clears)
    BY <2>2, LengthAndRest, Turnings, Zenon
  <2> QED
    BY <2>1, <2>2, SMT
<1>6. Plain(<<Field("clear", Bits16, QuestionEnd, Bits16),
              Rest("clear", 0, 0, {<<0, QuestionEnd>>})>>, Clears)
  <2>1. Fitting(Bits16, QuestionEnd, Bits16, 0, 0, {<<0, QuestionEnd>>})
    BY <1>2, QuestionAssumption, SMT DEF Fitting, MB, Bits16
  <2> QED
    BY <2>1, LengthAndRest, Turnings, Zenon
<1>7. \A c \in Mysql : Sound(c)
  BY <1>4, ClearSound, Zenon DEF Mysql
<1>8. ASSUME NEW f, NEW r, Plain(<<f, r>>, Clears)
      PROVE  /\ Plain(<<Write("clear"), f, r>>, Clears)
             /\ Plain(<<Write("clear"), f, r, Records>>, Clears)
  <2>1. Plain(<<Write("clear"), f, r>>, Clears)
    <3>1. <<Write("clear")>> \o <<f, r>> = <<Write("clear"), f, r>>
      BY Joined
    <3> QED
      BY <1>1, <1>8, <3>1, PlainConcat
  <2>2. <<Write("clear"), f, r>> \o <<Records>> = <<Write("clear"), f, r, Records>>
    BY Joined
  <2> QED
    BY <1>1, <2>1, <2>2, PlainConcat
<1>9. \A c \in Kerberos : Sound(c)
  BY <1>3, <1>8, ClearSound, Zenon DEF Kerberos
<1>10. \A c \in Rdp : Sound(c)
  <2>1. ASSUME NEW f, NEW r, Plain(<<f, r>>, Clears)
        PROVE  \A c \in Clear(<<Write("clear"), f, r>>) : Sound(c)
    BY <1>8, <2>1, ClearSound, Zenon
  <2> QED
    BY <1>5, <2>1, SMT DEF Rdp
<1>11. \A c \in Dns : Sound(c)
  BY <1>6, <1>8, ClearSound, Zenon DEF Dns
<1> QED
  BY <1>7, <1>9, <1>10, <1>11

(* Of the message of SMB the header is read between its length and its     *)
(* rest.                                                                   *)
LEMMA SmbSound ==
  \A c \in Smb : Sound(c)
<1> DEFINE w == Write("clear")
           f == Field("clear", Bits24, 64, MB)
           h == Fixed("clear", 64)
           r == Rest("clear", 64, 129 - 64, {<<0, 6>>})
<1>1. Simple(w, Clears) /\ Simple(f, Clears) /\ Simple(h, Clears)
  BY SimpleTurns, Turnings, Sizes
<1>2. Plain(<<w, f, h>>, Clears)
  BY <1>1, PlainThree
<1>3. /\ f.op = "field" /\ h.op = "fixed" /\ w.op = "write" /\ r.op = "rest"
      /\ r \in Turns /\ r.via = "clear"
  <2>1. {<<0, 6>>} \in Looks
    BY SomePairs DEF Pairs
  <2> QED
    BY <2>1 DEF Write, Field, Fixed, Rest, Turns, Vias
<1>4. ASSUME NEW n \in Nat, Admits(f, n) PROVE Fits(r, n)
  BY <1>4, SMT DEF Admits, Field, Fits, Rest, MB
<1> DEFINE all == Append(<<w, f, h>>, r)
<1>6. Smb = Clear(<<w, f, h>>) \cup Clear(all)
  BY Zenon DEF Smb
<1> HIDE DEF w, f, h, r
<1>5. all = <<w, f, h, r>>
  BY Joined
<1>7. /\ all \in Seq(Turns) /\ Len(all) = 4
      /\ all[1] = w /\ all[2] = f /\ all[3] = h /\ all[4] = r
  BY <1>1, <1>3, <1>5 DEF Simple
<1> HIDE DEF all
<1>8. Uses(all, Clears)
  BY <1>1, <1>3, <1>7, Turnings DEF Uses, Simple
<1>9. Closed(all)
  <2>1. SUFFICES ASSUME NEW n \in Nat PROVE Sized(all, n)
    BY DEF Closed
  <2>2. SUFFICES ASSUME NEW j \in 1..4, all[j].op = "rest"
                 PROVE  /\ \A i \in 1..(j - 1) : Governs(all, i, j) =>
                             \A m \in Nat : Admits(all[i], m) => Fits(all[j], m)
                        /\ Ungoverned(all, j) => Fits(all[j], n)
    BY <1>7, Zenon DEF Sized
  <2>3. j = 4
    BY <1>3, <1>7, <2>2
  <2>4. ~Ungoverned(all, 4)
    BY <1>3, <1>7 DEF Ungoverned
  <2>5. ASSUME NEW i \in 1..(4 - 1), Governs(all, i, 4) PROVE i = 2
    BY <1>3, <1>7, <2>5 DEF Governs
  <2> QED
    BY <1>4, <1>7, <2>3, <2>4, <2>5
<1> QED
  BY <1>2, <1>6, <1>7, <1>8, <1>9, ClearSound, Zenon DEF Plain

(* LDAP reads an element, and takes it apart in memory.                    *)
LEMMA PlainLDAP ==
  ASSUME NEW via \in Vias, NEW vias, via \in vias, "memory" \in vias
  PROVE  Plain(ProbeLDAP(via), vias)
<1>1. Plain(<<Write(via)>>, vias)
  BY PlainOne, SimpleTurns
<1>2. {} \in Looks /\ {<<0, 1>>} \in Looks
  BY SomePairs DEF Pairs
<1>3. ASSUME NEW v \in Vias, v \in vias PROVE Plain(Element(v, MB), vias)
  <2>1. Fitting(Bits32, 0, MB, 0, 0, {})
    BY <1>2, SMT DEF Fitting, MB, Bits32
  <2> QED
    BY <1>3, <2>1, LengthAndRest, Zenon DEF Element
<1>4. Plain(OneByte("memory"), vias)
  <2>1. Fitting(Bits32, 1, 1, 0, 1, {<<0, 1>>})
    BY <1>2, SMT DEF Fitting, MB, Bits32
  <2> QED
    BY <2>1, LengthAndRest, Turnings, Zenon DEF OneByte
<1>5. Plain(Element(via, MB), vias) /\ Plain(Element("memory", MB), vias)
  BY <1>3, Turnings
<1> QED
  BY <1>1, <1>4, <1>5, PlainConcat, Zenon DEF ProbeLDAP

(* LDAP, in clear and under TLS.                                           *)
LEMMA LdapSound ==
  \A c \in Ldap \cup Ldaps : Sound(c)
<1>1. Plain(ProbeLDAP("clear"), Clears) /\ Plain(ProbeLDAP("tls"), Encrypted)
  BY PlainLDAP, Turnings
<1> QED
  BY <1>1, ClearSound, EncryptedSound, Zenon DEF Ldap, Ldaps

(* FTP that switches to TLS last.                                          *)
LEMMA FtpsExplicitSound ==
  \A c \in FtpsExplicit : Sound(c)
<1> DEFINE l == FtpResponse("clear")
           w == Write("clear")
           turns == <<l, w, l, Secure>>
<1>1. /\ l \in Turns /\ l.op = "lines" /\ l.via = "clear"
      /\ w \in Turns /\ w.op = "write" /\ w.via = "clear"
      /\ Secure \in Turns /\ Secure.op = "tls"
  BY Sizes DEF FtpResponse, Lines, Write, Secure, Turns, Vias
<1>2. FtpsExplicit = {[tls |-> TRUE, turns |-> turns]}
  BY DEF FtpsExplicit
<1> HIDE DEF l, w
<1>3. /\ turns \in Seq(Turns) /\ Len(turns) = 4
      /\ turns[1] = l /\ turns[2] = w /\ turns[3] = l /\ turns[4] = Secure
  BY <1>1
<1> HIDE DEF turns
<1>4. Closed(turns)
  BY <1>1, <1>3 DEF Closed, Sized
<1>5. Agreed(turns, FALSE, TRUE)
  <2>1. Switched(turns, 4 + 1)
    BY <1>1, <1>3 DEF Switched
  <2>2. \A j \in 1..4 : turns[j].op # "tls" =>
          turns[j].via = "clear" /\ ~Switched(turns, j)
    BY <1>1, <1>3 DEF Switched
  <2> QED
    BY <1>3, <2>1, <2>2 DEF Agreed
<1>6. ASSUME NEW c \in FtpsExplicit PROVE c.turns = turns /\ c.tls = TRUE
  BY <1>2, <1>6
<1> QED
  BY <1>3, <1>4, <1>5, <1>6 DEF Sound

(* PostgreSQL, which begins by asking whether the server has TLS: the      *)
(* turns of its startup, in clear or under TLS.                            *)
StartsUp(turns, via) ==
  /\ turns \in Seq(Turns) /\ Len(turns) = 3 /\ Closed(turns)
  /\ turns[1].op = "write" /\ turns[2].op = "field" /\ turns[3].op = "rest"
  /\ \A j \in 1..3 : turns[j].via = via

(* They are a part of a conversation: a rest of the length it has read.    *)
LEMMA StartupTurns ==
  ASSUME NEW via \in Vias, NEW need \in {2, 4, 8}
  PROVE  StartsUp(Startup(via, need), via)
<1> DEFINE w == Write(via)
           f == Field(via, Bits32, 4, MB)
           r == Rest(via, 4, need, {<<0, need>>})
           turns == Startup(via, need)
<1>1. Plain(<<w>>, {via})
  BY PlainOne, SimpleTurns
<1>2. Plain(<<f, r>>, {via})
  <2>1. need \in Nat /\ <<0, need>> \in Pairs
    BY DEF Pairs
  <2>2. {<<0, need>>} \in Looks
    BY <2>1, SomePairs, Zenon
  <2>3. Fitting(Bits32, 4, MB, 4, need, {<<0, need>>})
    BY <2>1, <2>2, SMT DEF Fitting, MB, Bits32
  <2> QED
    BY <2>3, LengthAndRest, Zenon
<1>3. w.op = "write" /\ f.op = "field" /\ r.op = "rest"
  BY DEF Write, Field, Rest
<1>4. turns = <<w, f, r>>
  BY Zenon DEF Startup
<1> HIDE DEF w, f, r, turns
<1>5. <<w>> \o <<f, r>> = <<w, f, r>>
  BY Joined
<1>6. Plain(turns, {via})
  BY <1>1, <1>2, <1>4, <1>5, PlainConcat, Zenon
<1>7. Len(turns) = 3 /\ turns[1] = w /\ turns[2] = f /\ turns[3] = r
  BY <1>4
<1>8. \A j \in 1..3 : turns[j].via = via
  BY <1>6, <1>7 DEF Plain, Uses
<1>9. StartsUp(turns, via)
  BY <1>3, <1>6, <1>7, <1>8 DEF StartsUp, Plain
<1> QED
  BY <1>9 DEF turns

(* The places of a concatenation, counted from both ends of its seam.      *)
LEMMA Places ==
  ASSUME NEW s \in Seq(Turns), NEW t \in Seq(Turns), NEW m \in Nat, Len(s) = m
  PROVE  /\ Len(s \o t) = m + Len(t)
         /\ \A i \in 1..m : (s \o t)[i] = s[i]
         /\ \A i \in 1..Len(t) : (s \o t)[m + i] = t[i]
<1> DEFINE u == s \o t
<1>1. /\ Len(u) = Len(s) + Len(t)
      /\ \A i \in 1..(Len(s) + Len(t)) :
           u[i] = IF i <= Len(s) THEN s[i] ELSE t[i - Len(s)]
  BY ConcatProperties, Zenon
<1>2. Len(t) \in Nat
  OBVIOUS
<1> HIDE DEF u
<1>3. ASSUME NEW i \in 1..Len(t) PROVE u[m + i] = t[i]
  <2>1. m + i \in 1..(m + Len(t)) /\ ~(m + i <= m) /\ (m + i) - m = i
    BY <1>2
  <2> QED
    BY <1>1, <2>1
<1> QED
  BY <1>1, <1>2, <1>3 DEF u

(* What PostgreSQL does before it is agreed whether to use TLS.            *)
Begin == <<Write("clear"), Fixed("clear", 1), NothingBuffered>>

(* It reads one byte, and looks whether more has come with it.             *)
LEMMA BeginTurns ==
  /\ Begin \in Seq(Turns) /\ Len(Begin) = 3 /\ Closed(Begin)
  /\ Begin[1].op = "write" /\ Begin[2].op = "fixed" /\ Begin[3].op = "alone"
  /\ \A j \in 1..3 : Begin[j].via # "tls"
<1>1. Plain(Begin, Clears)
  BY PlainThree, SimpleTurns, InMemory, Turnings, Sizes DEF Begin
<1>2. /\ Len(Begin) = 3
      /\ Begin[1].op = "write" /\ Begin[2].op = "fixed" /\ Begin[3].op = "alone"
  BY DEF Begin, Write, Fixed, NothingBuffered
<1>3. "tls" \notin Clears
  BY DEF Clears
<1> QED
  BY <1>1, <1>2, <1>3 DEF Plain, Uses

(* The server has no TLS.                                                  *)
LEMMA PostgresqlClear ==
  ASSUME NEW need \in {2, 4, 8}, NEW c \in Clear(Begin \o Startup("clear", need))
  PROVE  Sound(c) /\ Unmixed(c.turns, FALSE, FALSE)
<1> DEFINE rest == Startup("clear", need)
           all  == Begin \o rest
<1>1. c.turns = all /\ c.tls = FALSE
  BY DEF Clear
<1> HIDE DEF rest
<1>2. /\ rest \in Seq(Turns) /\ Len(rest) = 3 /\ Closed(rest)
      /\ rest[1].op = "write" /\ rest[2].op = "field" /\ rest[3].op = "rest"
      /\ \A j \in 1..3 : rest[j].via = "clear"
  <2>1. StartsUp(rest, "clear")
    BY StartupTurns, Turnings, Zenon DEF rest
  <2> QED
    BY <2>1, Zenon DEF StartsUp
<1>3. all \in Seq(Turns) /\ Closed(all)
  BY <1>2, BeginTurns, ClosedConcat
<1>4. /\ Len(all) = 6
      /\ all[1] = Begin[1] /\ all[2] = Begin[2] /\ all[3] = Begin[3]
      /\ all[4] = rest[1] /\ all[5] = rest[2] /\ all[6] = rest[3]
  <2>1. /\ Len(all) = 3 + Len(rest)
        /\ \A i \in 1..3 : all[i] = Begin[i]
        /\ \A i \in 1..Len(rest) : all[3 + i] = rest[i]
    <3>1. /\ Begin \in Seq(Turns) /\ rest \in Seq(Turns)
          /\ Len(Begin) = 3 /\ 3 \in Nat
      BY <1>2, BeginTurns
    <3> QED
      BY <3>1, Places, Zenon
  <2>2. 3 + 1 = 4 /\ 3 + 2 = 5 /\ 3 + 3 = 6
    OBVIOUS
  <2> HIDE DEF all
  <2> QED
    BY <1>2, <2>1, <2>2
<1> HIDE DEF all
<1>5. /\ \A j \in 1..6 : all[j].via # "tls" /\ all[j].op \notin {"tls", "lines"}
  BY <1>2, <1>4, BeginTurns
<1>6. \A j \in 1..7 : ~Switched(all, j)
  BY <1>5 DEF Switched
<1>7. Agreed(all, FALSE, FALSE)
  <2>1. ~Switched(all, Len(all) + 1)
    BY <1>4, <1>6
  <2>2. \A j \in 1..Len(all) : ~Switched(all, j) /\ all[j].via # "tls"
    BY <1>4, <1>5, <1>6
  <2> QED
    BY <2>1, <2>2, Zenon DEF Agreed
<1>8. Unmixed(all, FALSE, FALSE)
  BY <1>4, <1>5, <1>6 DEF Unmixed
<1> QED
  BY <1>1, <1>3, <1>7, <1>8 DEF Sound

(* The server has TLS: between the byte that says so and the switch the    *)
(* reader is found empty.                                                  *)
LEMMA PostgresqlSecured ==
  ASSUME NEW need \in {2, 4, 8}, NEW c,
         c = [tls |-> TRUE, turns |-> Begin \o <<Secure>> \o Startup("tls", need)]
  PROVE  Sound(c) /\ Unmixed(c.turns, FALSE, FALSE)
<1> DEFINE rest   == Startup("tls", need)
           switch == <<Secure>>
           four   == Begin \o switch
           all    == four \o rest
<1>1. c.turns = all /\ c.tls = TRUE
  OBVIOUS
<1> HIDE DEF rest
<1>2. /\ rest \in Seq(Turns) /\ Len(rest) = 3 /\ Closed(rest)
      /\ rest[1].op = "write" /\ rest[2].op = "field" /\ rest[3].op = "rest"
      /\ \A j \in 1..3 : rest[j].via = "tls"
  <2>1. StartsUp(rest, "tls")
    BY StartupTurns, Turnings, Zenon DEF rest
  <2> QED
    BY <2>1, Zenon DEF StartsUp
<1>3. Secure \in Turns /\ Secure.op = "tls"
  BY DEF Secure, Turns, Vias
<1>4. /\ switch \in Seq(Turns) /\ Closed(switch)
      /\ Len(switch) = 1 /\ switch[1] = Secure
  BY <1>3 DEF Closed, Sized
<1> HIDE DEF switch
<1>5. /\ four \in Seq(Turns) /\ Closed(four) /\ Len(four) = 4
      /\ four[1] = Begin[1] /\ four[2] = Begin[2] /\ four[3] = Begin[3]
      /\ four[4] = Secure
  <2>1. four \in Seq(Turns) /\ Closed(four)
    BY <1>4, BeginTurns, ClosedConcat
  <2>2. /\ Len(four) = 3 + Len(switch)
        /\ \A i \in 1..3 : four[i] = Begin[i]
        /\ \A i \in 1..Len(switch) : four[3 + i] = switch[i]
    <3>1. /\ switch \in Seq(Turns) /\ Begin \in Seq(Turns)
          /\ Len(Begin) = 3 /\ 3 \in Nat
      BY <1>4, BeginTurns
    <3> QED
      BY <3>1, Places, Zenon
  <2> HIDE DEF four
  <2> QED
    BY <1>4, BeginTurns, <2>1, <2>2
<1> HIDE DEF four
<1>6. all \in Seq(Turns) /\ Closed(all)
  BY <1>2, <1>5, ClosedConcat
<1>7. /\ Len(all) = 7
      /\ all[1] = Begin[1] /\ all[2] = Begin[2] /\ all[3] = Begin[3]
      /\ all[4] = Secure
      /\ all[5] = rest[1] /\ all[6] = rest[2] /\ all[7] = rest[3]
  <2>1. /\ Len(all) = 4 + Len(rest)
        /\ \A i \in 1..4 : all[i] = four[i]
        /\ \A i \in 1..Len(rest) : all[4 + i] = rest[i]
    <3>1. /\ four \in Seq(Turns) /\ rest \in Seq(Turns)
          /\ Len(four) = 4 /\ 4 \in Nat
      BY <1>2, <1>5
    <3> QED
      BY <3>1, Places, Zenon
  <2> HIDE DEF all
  <2> QED
    BY <1>2, <1>5, <2>1
<1> HIDE DEF all
<1>8. /\ \A j \in 1..3 : all[j].via # "tls" /\ all[j].op # "tls"
      /\ all[4].op = "tls"
      /\ \A j \in 5..7 : all[j].via = "tls" /\ all[j].op \notin {"tls", "fixed"}
      /\ \A j \in 1..7 : all[j].op # "lines"
  BY <1>2, <1>3, <1>7, BeginTurns
<1>9. /\ \A j \in 1..4 : ~Switched(all, j)
      /\ \A j \in 5..8 : Switched(all, j)
  <2>1. \A j \in 5..8 : 4 \in 1..(j - 1)
    OBVIOUS
  <2> QED
    BY <1>8, <2>1 DEF Switched
<1>10. Agreed(all, FALSE, TRUE)
  <2>1. Switched(all, Len(all) + 1)
    BY <1>7, <1>9
  <2>2. \A j \in 1..Len(all) : all[j].op # "tls" =>
          IF Switched(all, j) THEN all[j].via # "clear" ELSE all[j].via # "tls"
    BY <1>7, <1>8, <1>9
  <2> QED
    BY <2>1, <2>2, Zenon DEF Agreed
<1>11. Unmixed(all, FALSE, FALSE)
  <2>1. ASSUME NEW j \in 1..7, all[j].op = "tls" PROVE j = 4
    BY <1>8, <2>1
  <2>2. ASSUME NEW j \in 1..7, all[j].op = "fixed" PROVE j \in 1..3
    BY <1>8, <2>2
  <2>3. ASSUME NEW i \in 1..3, all[i].op = "fixed" PROVE 3 \in (i + 1)..(4 - 1)
    BY <1>7, <2>3, BeginTurns
  <2>4. all[3].op = "alone"
    BY <1>7, BeginTurns
  <2> QED
    BY <1>7, <1>8, <1>9, <2>1, <2>2, <2>3, <2>4 DEF Unmixed
<1> QED
  BY <1>1, <1>6, <1>10, <1>11 DEF Sound

(* Every conversation that begins some handshake is sound.                 *)
LEMMA ConversationsSound ==
  ASSUME NEW name \in Names, NEW c \in Conversations[name]
  PROVE  Sound(c) /\ (name = "postgresql" => Unmixed(c.turns, FALSE, FALSE))
<1>1. \A d \in Postgresql : Sound(d) /\ Unmixed(d.turns, FALSE, FALSE)
  <2> SUFFICES ASSUME NEW d \in Postgresql
               PROVE  Sound(d) /\ Unmixed(d.turns, FALSE, FALSE)
    OBVIOUS
  <2>1. CASE \E need \in {2, 4, 8} :
               d = [tls |-> TRUE,
                    turns |-> Begin \o <<Secure>> \o Startup("tls", need)]
    BY <2>1, PostgresqlSecured, Zenon
  <2>2. CASE \E need \in {2, 4, 8} : d \in Clear(Begin \o Startup("clear", need))
    BY <2>2, PostgresqlClear, Zenon
  <2> QED
    BY <2>1, <2>2, Zenon DEF Postgresql, Begin
<1>2. CASE name = "postgresql"
  <2>1. Conversations[name] = Postgresql
    BY <1>2 DEF Conversations
  <2> QED
    BY <1>1, <2>1
<1>3. CASE name # "postgresql"
  <2>1. c \in Ssh \cup Ftp \cup FtpsImplicit \cup Nats \cup Memcached \cup Redis
        \/ c \in Http \cup Https \cup Winrm \cup WinrmHttps
                 \cup Elasticsearch \cup Etcd
        \/ c \in Mqtt \cup Socks4 \cup Socks5 \cup Cassandra \cup Mongodb
                 \cup Kafka \cup Rabbitmq
        \/ c \in Mssql \cup Msrpc \cup Netbios
        \/ c \in Kerberos \cup Mysql \cup Rdp \cup Dns
        \/ c \in Smb \/ c \in Ldap \cup Ldaps \/ c \in FtpsExplicit
    BY <1>3 DEF Names, Conversations
  <2> QED
    BY <1>3, <2>1, LinesSound, HttpSound, FixedSound, FieldSound, DeclaredSound,
       SmbSound, LdapSound, FtpsExplicitSound, Zenon
<1> QED
  BY <1>2, <1>3

(***************************************************************************)
(* Taking a turn keeps what holds of the turns that are left.              *)
(***************************************************************************)

(* The turn that is taken, and the turns behind it.                        *)
LEMMA TailTurns ==
  ASSUME NEW turns \in Seq(Turns), turns # <<>>
  PROVE  /\ Tail(turns) \in Seq(Turns)
         /\ Len(turns) \in Nat /\ Len(turns) >= 1
         /\ Len(Tail(turns)) = Len(turns) - 1
         /\ Head(turns) = turns[1] /\ turns[1] \in Turns
         /\ \A j \in 1..(Len(turns) - 1) : Tail(turns)[j] = turns[j + 1]
BY HeadTailProperties, ElementOfSeq

(* A rest whose turn it is fits the length that is declared.               *)
LEMMA SizedHead ==
  ASSUME NEW turns \in Seq(Turns), turns # <<>>, NEW n \in Nat, Sized(turns, n),
         turns[1].op = "rest"
  PROVE  Fits(turns[1], n)
<1>1. 1 \in 1..Len(turns) /\ Ungoverned(turns, 1)
  BY TailTurns DEF Ungoverned
<1> QED
  BY <1>1, Zenon DEF Sized

(* A field declares a length that it admits; no other turn declares one.   *)
LEMMA SizedTail ==
  ASSUME NEW turns \in Seq(Turns), turns # <<>>, NEW n \in Nat, Sized(turns, n),
         NEW m \in Nat,
         turns[1].op = "field" => Admits(turns[1], m),
         turns[1].op # "field" => m = n
  PROVE  Sized(Tail(turns), m)
<1> DEFINE t == Tail(turns)
<1>1. /\ t \in Seq(Turns) /\ Len(turns) \in Nat /\ Len(t) = Len(turns) - 1
      /\ \A j \in 1..Len(t) : t[j] = turns[j + 1]
  BY TailTurns
<1> SUFFICES ASSUME NEW j \in 1..Len(t), t[j].op = "rest"
             PROVE  /\ \A i \in 1..(j - 1) : Governs(t, i, j) =>
                         \A k \in Nat : Admits(t[i], k) => Fits(t[j], k)
                    /\ Ungoverned(t, j) => Fits(t[j], m)
  BY Zenon DEF Sized
<1> DEFINE l == j + 1
<1>2. l \in 1..Len(turns) /\ t[j] = turns[l]
  BY <1>1
<1>3. /\ \A i \in 1..(l - 1) : Governs(turns, i, l) =>
           \A k \in Nat : Admits(turns[i], k) => Fits(turns[l], k)
      /\ Ungoverned(turns, l) => Fits(turns[l], n)
  <2> HIDE DEF l, t
  <2> QED
    BY <1>2, Zenon DEF Sized
<1> HIDE DEF t
<1>4. ASSUME NEW i \in 1..(j - 1), Governs(t, i, j)
      PROVE  \A k \in Nat : Admits(t[i], k) => Fits(t[j], k)
  <2> DEFINE h == i + 1
  <2>1. h \in 1..(l - 1) /\ t[i] = turns[h]
    BY <1>1
  <2>2. ASSUME NEW k \in (h + 1)..(l - 1)
        PROVE  k - 1 \in (i + 1)..(j - 1) /\ turns[k] = t[k - 1]
    <3>1. k - 1 \in 1..Len(t) /\ (k - 1) + 1 = k
      BY <1>1
    <3> QED
      BY <1>1, <3>1
  <2> HIDE DEF h, l
  <2>3. Governs(turns, h, l)
    BY <1>4, <2>1, <2>2, Zenon DEF Governs
  <2> QED
    BY <1>2, <1>3, <2>1, <2>3, Zenon
<1>5. ASSUME Ungoverned(t, j) PROVE Fits(t[j], m)
  <2>1. ASSUME NEW k \in 2..(l - 1) PROVE turns[k].op # "field"
    <3>1. k - 1 \in 1..(j - 1) /\ k - 1 \in 1..Len(t) /\ (k - 1) + 1 = k
      BY <1>1
    <3>2. turns[k] = t[k - 1]
      BY <1>1, <3>1
    <3> QED
      BY <1>5, <3>1, <3>2, Zenon DEF Ungoverned
  <2>2. CASE turns[1].op = "field"
    <3>1. 1 \in 1..(l - 1) /\ \A k \in (1 + 1)..(l - 1) : k \in 2..(l - 1)
      BY <1>2
    <3> HIDE DEF l
    <3>2. Governs(turns, 1, l)
      BY <2>1, <2>2, <3>1, Zenon DEF Governs
    <3> QED
      BY <1>2, <1>3, <2>2, <3>1, <3>2, Zenon
  <2>3. CASE turns[1].op # "field"
    <3>1. \A k \in 1..(l - 1) : k = 1 \/ k \in 2..(l - 1)
      BY <1>2
    <3> HIDE DEF l
    <3>2. Ungoverned(turns, l)
      BY <2>1, <2>3, <3>1, Zenon DEF Ungoverned
    <3> QED
      BY <1>2, <1>3, <2>3, <3>2, Zenon
  <2> QED
    BY <2>2, <2>3
<1> QED
  BY <1>4, <1>5

(* The switch that was a turn away has been made.                          *)
LEMMA SwitchedTail ==
  ASSUME NEW turns \in Seq(Turns), turns # <<>>, NEW j \in 1..Len(turns)
  PROVE  Switched(turns, j + 1) <=> turns[1].op = "tls" \/ Switched(Tail(turns), j)
<1> DEFINE t == Tail(turns)
<1>1. /\ t \in Seq(Turns) /\ Len(turns) \in Nat /\ Len(t) = Len(turns) - 1
      /\ \A i \in 1..Len(t) : t[i] = turns[i + 1]
  BY TailTurns
<1> HIDE DEF t
<1>2. ASSUME NEW i \in 1..((j + 1) - 1), turns[i].op = "tls", turns[1].op # "tls"
      PROVE  Switched(t, j)
  <2>1. i # 1
    BY <1>2
  <2>2. i - 1 \in 1..(j - 1) /\ i - 1 \in 1..Len(t) /\ (i - 1) + 1 = i
    BY <1>1, <2>1
  <2> QED
    BY <1>1, <1>2, <2>2 DEF Switched
<1>3. ASSUME NEW i \in 1..(j - 1), t[i].op = "tls" PROVE Switched(turns, j + 1)
  <2>1. i + 1 \in 1..((j + 1) - 1) /\ turns[i + 1].op = "tls"
    BY <1>1, <1>3
  <2> QED
    BY <2>1, Zenon DEF Switched
<1>4. turns[1].op = "tls" => Switched(turns, j + 1)
  <2>1. 1 \in 1..((j + 1) - 1)
    BY <1>1
  <2> QED
    BY <2>1, Zenon DEF Switched
<1> QED
  BY <1>2, <1>3, <1>4, Zenon DEF Switched, t

(* The way to talk stays as agreed, turn by turn.                          *)
LEMMA AgreedTail ==
  ASSUME NEW turns \in Seq(Turns), turns # <<>>,
         NEW done \in BOOLEAN, NEW tls \in BOOLEAN,
         Agreed(turns, done, tls)
  PROVE  Agreed(Tail(turns), done \/ turns[1].op = "tls", tls)
<1> DEFINE t == Tail(turns)
           now == done \/ turns[1].op = "tls"
<1>1. /\ t \in Seq(Turns) /\ Len(turns) \in Nat /\ Len(t) = Len(turns) - 1
      /\ Len(turns) >= 1
      /\ \A j \in 1..Len(t) : t[j] = turns[j + 1]
  BY TailTurns
<1>2. \A j \in 1..Len(turns) :
        done \/ Switched(turns, j + 1) <=> now \/ Switched(t, j)
  BY SwitchedTail
<1> HIDE DEF t, now
<1>3. ASSUME NEW j \in 1..Len(t), t[j].op # "tls"
      PROVE  IF now \/ Switched(t, j) THEN t[j].via # "clear" ELSE t[j].via # "tls"
  <2>1. j + 1 \in 1..Len(turns) /\ j \in 1..Len(turns) /\ t[j] = turns[j + 1]
    BY <1>1
  <2>2. IF done \/ Switched(turns, j + 1) THEN turns[j + 1].via # "clear"
        ELSE turns[j + 1].via # "tls"
    BY <1>3, <2>1, Zenon DEF Agreed
  <2> QED
    BY <1>2, <2>1, <2>2, Zenon
<1>4. tls <=> now \/ Switched(t, Len(t) + 1)
  <2>1. Len(t) + 1 = Len(turns) /\ Len(turns) \in 1..Len(turns)
    BY <1>1
  <2> QED
    BY <1>2, <2>1, Zenon DEF Agreed
<1> QED
  BY <1>3, <1>4, Zenon DEF Agreed, t, now

(* Only a fixed read leaves bytes in the reader, and only an empty reader  *)
(* passes the turn that asks for one.                                      *)
LEMMA UnmixedTail ==
  ASSUME NEW turns \in Seq(Turns), turns # <<>>,
         NEW more \in BOOLEAN, NEW done \in BOOLEAN, Unmixed(turns, more, done),
         NEW left \in BOOLEAN,
         turns[1].op # "fixed" => left = more,
         turns[1].op = "alone" => ~more
  PROVE  Unmixed(Tail(turns), left, done \/ turns[1].op = "tls")
<1> DEFINE t == Tail(turns)
           now == done \/ turns[1].op = "tls"
<1>1. /\ t \in Seq(Turns) /\ Len(turns) \in Nat /\ Len(t) = Len(turns) - 1
      /\ 1 \in 1..Len(turns)
      /\ \A j \in 1..Len(t) : t[j] = turns[j + 1]
  BY TailTurns
<1>2. \A j \in 1..Len(turns) :
        Switched(turns, j + 1) <=> turns[1].op = "tls" \/ Switched(t, j)
  BY SwitchedTail
<1> HIDE DEF t
<1>3. /\ done => ~more
      /\ turns[1].op = "fixed" => ~done
      /\ turns[1].op = "tls" => ~more
  <2>1. ~ \E k \in 1..(1 - 1) : turns[k].op = "alone"
    OBVIOUS
  <2> QED
    BY <1>1, <2>1, Zenon DEF Unmixed
<1>4. now => ~left
  BY <1>3
<1>5. ASSUME NEW j \in 1..Len(t)
      PROVE  /\ t[j].op # "lines"
             /\ t[j].op = "fixed" => ~now /\ ~Switched(t, j)
  <2>1. j + 1 \in 1..Len(turns) /\ j \in 1..Len(turns) /\ t[j] = turns[j + 1]
    BY <1>1
  <2>2. /\ turns[j + 1].op # "lines"
        /\ turns[j + 1].op = "fixed" => ~done /\ ~Switched(turns, j + 1)
    BY <2>1, Zenon DEF Unmixed
  <2>3. Switched(turns, j + 1) <=> turns[1].op = "tls" \/ Switched(t, j)
    BY <1>2, <2>1, Zenon
  <2> QED
    BY <2>1, <2>2, <2>3
<1>6. ASSUME NEW j \in 1..Len(t), t[j].op = "tls"
      PROVE  /\ left => \E k \in 1..(j - 1) : t[k].op = "alone"
             /\ \A i \in 1..(j - 1) : t[i].op = "fixed" =>
                  \E k \in (i + 1)..(j - 1) : t[k].op = "alone"
  <2>1. j + 1 \in 1..Len(turns) /\ turns[j + 1].op = "tls"
    BY <1>1, <1>6
  <2>2. /\ more => \E k \in 1..((j + 1) - 1) : turns[k].op = "alone"
        /\ \A i \in 1..((j + 1) - 1) : turns[i].op = "fixed" =>
             \E k \in (i + 1)..((j + 1) - 1) : turns[k].op = "alone"
    BY <2>1, Zenon DEF Unmixed
  <2>3. ASSUME NEW k \in 2..((j + 1) - 1), turns[k].op = "alone"
        PROVE  k - 1 \in 1..(j - 1) /\ t[k - 1].op = "alone"
    <3>1. k - 1 \in 1..(j - 1) /\ k - 1 \in 1..Len(t) /\ (k - 1) + 1 = k
      BY <1>1
    <3> QED
      BY <1>1, <2>3, <3>1
  <2>4. ASSUME left PROVE \E k \in 1..(j - 1) : t[k].op = "alone"
    <3>1. CASE turns[1].op = "fixed"
      <4>1. /\ 1 \in 1..((j + 1) - 1)
            /\ \A k \in (1 + 1)..((j + 1) - 1) : k \in 2..((j + 1) - 1)
        BY <1>1
      <4> QED
        BY <2>2, <2>3, <3>1, <4>1, Zenon
    <3>2. CASE turns[1].op # "fixed"
      <4>1. PICK k \in 1..((j + 1) - 1) : turns[k].op = "alone"
        BY <2>2, <2>4, <3>2
      <4>2. k # 1
        BY <2>4, <3>2, <4>1
      <4>3. k \in 2..((j + 1) - 1)
        BY <1>1, <4>2
      <4> QED
        BY <2>3, <4>1, <4>3, Zenon
    <3> QED
      BY <3>1, <3>2
  <2>5. ASSUME NEW i \in 1..(j - 1), t[i].op = "fixed"
        PROVE  \E k \in (i + 1)..(j - 1) : t[k].op = "alone"
    <3>1. i + 1 \in 1..((j + 1) - 1) /\ turns[i + 1].op = "fixed"
      BY <1>1, <2>5
    <3>2. PICK k \in ((i + 1) + 1)..((j + 1) - 1) : turns[k].op = "alone"
      BY <2>2, <3>1, Zenon
    <3>3. k \in 2..((j + 1) - 1) /\ k - 1 \in (i + 1)..(j - 1)
      BY <1>1
    <3> QED
      BY <2>3, <3>2, <3>3, Zenon
  <2> QED
    BY <2>4, <2>5
<1> QED
  BY <1>4, <1>5, <1>6, Zenon DEF Unmixed, t

(* The longest look is at bytes of the buffer.                             *)
LEMMA LookFits ==
  ASSUME NEW looks \in Looks, NEW size \in Nat,
         \A look \in looks : look[1] <= size => look[2] <= size
  PROVE  Look(looks, size) \in Nat /\ Look(looks, size) <= size
<1> DEFINE admitted == {look \in looks : look[1] <= size}
           ends     == {look[2] : look \in admitted}
<1>1. CASE admitted = {}
  <2>1. Look(looks, size) = 0
    BY <1>1, Zenon DEF Look
  <2> QED
    BY <2>1
<1>2. CASE admitted # {}
  <2>1. Look(looks, size) = Max(ends)
    BY <1>2, Zenon DEF Look
  <2>2. \A n \in ends : n \in Nat /\ n <= size
    BY DEF Looks, Pairs
  <2>3. \E m \in ends : \A n \in ends : m >= n
    <3>1. PICK a \in ends : TRUE
      BY <1>2
    <3>2. PICK b \in ends : \A n \in ends : n = a \/ n = b
      <4>1. looks # {}
        BY <1>2
      <4>2. PICK p \in Pairs, q \in Pairs : looks = {p, q}
        BY <4>1 DEF Looks
      <4>3. \A n \in ends : n = p[2] \/ n = q[2]
        BY <4>2
      <4> HIDE DEF ends
      <4> QED
        BY <3>1, <4>3
    <3> HIDE DEF ends
    <3> QED
      BY <2>2, <3>1, <3>2
  <2>4. Max(ends) \in ends
    <3> HIDE DEF ends
    <3> QED
      BY <2>3, Zenon DEF Max
  <2> HIDE DEF ends
  <2> QED
    BY <2>1, <2>2, <2>4
<1> QED
  BY <1>1, <1>2

(***************************************************************************)
(* The handshake of a check.  TalkInv is what InsideBuffer needs and       *)
(* SecureInv, with it, what SecureAsAgreed needs; both are inductive with  *)
(* the stages of RunInv.                                                   *)
(***************************************************************************)

(* The turns that are left fit what is declared, and the last look was     *)
(* within the last buffer.                                                 *)
TalkInv ==
  /\ protocol \in Names
  /\ script \in Seq(Turns)
  /\ declared \in Nat /\ made \in Sizable /\ looked \in Nat /\ looked <= made
  /\ Sized(script, declared)

(* The turns that are left will end as agreed from where the connection    *)
(* is.                                                                     *)
SecureInv ==
  /\ secure \in BOOLEAN /\ secured \in BOOLEAN /\ buffered \in BOOLEAN
  /\ Agreed(script, secured, secure)
  /\ stage \in {"dial", "deadline", "arm"} => script = <<>> /\ ~secured /\ ~buffered
  /\ outcome = "ok" => script = <<>>
  /\ protocol = "postgresql" => Unmixed(script, buffered, secured)

(* Nothing is asked of no turns.                                           *)
LEMMA NoTurns ==
  /\ <<>> \in Seq(Turns)
  /\ \A n : Sized(<<>>, n)
  /\ \A done \in BOOLEAN, tls \in BOOLEAN :
       Agreed(<<>>, done, tls) <=> (tls <=> done)
  /\ Unmixed(<<>>, FALSE, FALSE)
  /\ 0 \in Sizable
<1>1. Len(<<>>) = 0 /\ 1..Len(<<>>) = {} /\ <<>> \in Seq(Turns)
  OBVIOUS
<1>2. ~Switched(<<>>, Len(<<>>) + 1)
  BY DEF Switched
<1>3. 0 \in Sizable
  BY SMT DEF Sizable, MB
<1> QED
  BY <1>1, <1>2, <1>3, Zenon DEF Sized, Agreed, Unmixed

(* A turn that declares no length, and makes no buffer too large.          *)
LEMMA TalkTurn ==
  ASSUME TalkInv, script # <<>>, Turn.op # "field", TurnDone,
         UNCHANGED <<protocol, declared>>,
         made' \in Sizable, looked' \in Nat, looked' <= made'
  PROVE  TalkInv'
<1>1. script' = Tail(script) /\ script' \in Seq(Turns) /\ script[1].op # "field"
  BY TailTurns DEF TalkInv, TurnDone, Turn
<1>2. Sized(Tail(script), declared)
  BY <1>1, SizedTail DEF TalkInv
<1> QED
  BY <1>1, <1>2 DEF TalkInv

(* What does not talk keeps it.                                            *)
LEMMA TalkWaits ==
  ASSUME TalkInv, UNCHANGED <<protocol, script, declared, made, looked>>
  PROVE  TalkInv'
BY DEF TalkInv

(* The reads: of a fixed size, of a length, and of what a length declares. *)
LEMMA TalkReads ==
  ASSUME TalkInv, ReadFixed \/ ReadField \/ ReadRest
  PROVE  TalkInv'
<1>1. script # <<>> /\ Turn = script[1] /\ Turn \in Turns /\ UNCHANGED protocol
  BY TailTurns DEF ReadFixed, ReadField, ReadRest, Through, Turn, TalkInv
<1>2. CASE ReadFixed
  <2>1. Turn.op = "fixed" /\ made' = Turn.size /\ looked' = Turn.size /\ TurnDone
        /\ UNCHANGED declared
    BY <1>2 DEF ReadFixed, Through
  <2>2. Turn.size \in Sizable
    BY <1>1, <2>1 DEF Turns
  <2>3. made' \in Sizable /\ looked' \in Nat /\ looked' <= made'
    BY <2>1, <2>2 DEF Sizable
  <2> QED
    BY <1>1, <2>1, <2>3, TalkTurn
<1>3. CASE ReadField
  <2>1. /\ Turn.op = "field" /\ TurnDone /\ UNCHANGED <<made, looked>>
        /\ declared' \in Nat /\ Admits(Turn, declared')
    BY <1>3, LengthsAssumption DEF ReadField, Through, Admits
  <2>2. script' = Tail(script) /\ script' \in Seq(Turns)
    BY <1>1, <2>1, TailTurns DEF TalkInv, TurnDone
  <2>3. Sized(Tail(script), declared')
    BY <1>1, <2>1, SizedTail DEF TalkInv
  <2> QED
    BY <1>1, <2>1, <2>2, <2>3 DEF TalkInv
<1>4. CASE ReadRest
  <2>1. Turn.op = "rest" /\ made' = declared - Turn.less /\ UNCHANGED declared
    BY <1>4 DEF ReadRest, Through
  <2>2. Fits(Turn, declared)
    BY <1>1, <2>1, SizedHead DEF TalkInv
  <2>3. Turn.less \in Nat /\ Turn.need \in Nat /\ Turn.looks \in Looks
    BY <1>1, <2>1 DEF Turns
  <2>4. made' \in Nat /\ made' \in Sizable
    <3>1. 0 <= declared - Turn.less /\ declared - Turn.less <= MB
      BY <2>2 DEF Fits
    <3> QED
      BY <2>1, <2>3, <3>1 DEF Sizable, TalkInv
  <2>5. CASE made' < Turn.need
    <3>1. looked' = 0 /\ UNCHANGED script
      BY <1>4, <2>5 DEF ReadRest
    <3> QED
      BY <1>1, <2>1, <2>4, <3>1 DEF TalkInv
  <2>6. CASE ~(made' < Turn.need)
    <3>1. looked' = Look(Turn.looks, made') /\ TurnDone
      BY <1>4, <2>6 DEF ReadRest
    <3>2. \A look \in Turn.looks : look[1] <= made' => look[2] <= made'
      BY <2>1, <2>2, <2>3, <2>4, <2>6 DEF Fits
    <3>3. looked' \in Nat /\ looked' <= made'
      BY <2>3, <2>4, <3>1, <3>2, LookFits
    <3> QED
      BY <1>1, <2>1, <2>4, <3>1, <3>3, TalkTurn
  <2> QED
    BY <2>5, <2>6
<1> QED
  BY <1>2, <1>3, <1>4

(* Every step of a check keeps it.                                         *)
LEMMA TalkStep ==
  ASSUME TalkInv, [RunNext]_runVars
  PROVE  TalkInv'
<1>1. CASE UNCHANGED <<protocol, talk>>
  BY <1>1, TalkWaits DEF talk
<1>2. CASE \/ Dial \/ AroundDial \/ CancellerNext
           \/ CancelScan \/ ExpireScan \/ TimePasses
           \/ (CheckOver /\ UNCHANGED runVars) \/ UNCHANGED runVars
  BY <1>1, <1>2, Zenon DEF Dial, AroundDial, CancellerNext, CancellerStarts,
     CancellerHurries, CancelScan, ExpireScan, TimePasses, runVars
<1>3. CASE Dialed \/ SetLimit \/ ResetLimit \/ LookAtContext \/ CloseProbed
           \/ InspectContext \/ InterruptTLS \/ Recognize \/ Disappoint \/ CutShort
  BY <1>1, <1>3, Zenon DEF Dialed, SetLimit, ResetLimit, LookAtContext, CloseProbed,
     InspectContext, InterruptTLS, Recognize, Disappoint, CutShort
<1>4. CASE MoreArrives
  BY <1>4, TalkWaits, Zenon DEF MoreArrives
<1>5. CASE ArmCanceller
  <2>1. UNCHANGED <<protocol, declared, made, looked>>
    BY <1>5, Zenon DEF ArmCanceller
  <2>2. PICK c \in Conversations[protocol] : script' = c.turns
    BY <1>5, Zenon DEF ArmCanceller
  <2>3. Sound(c)
    BY <2>2, ConversationsSound DEF TalkInv
  <2> QED
    BY <2>1, <2>2, <2>3 DEF TalkInv, Sound, Closed
<1>6. CASE StopCanceller
  <2>1. /\ script' = <<>> /\ declared' = 0 /\ made' = 0 /\ looked' = 0
        /\ UNCHANGED protocol
    BY <1>6, Zenon DEF StopCanceller
  <2> QED
    BY <2>1, NoTurns DEF TalkInv
<1>7. CASE Exchange \/ HandshakeTLS \/ CheckBuffered \/ ReadLine \/ ParseRecords
  <2>1. /\ script # <<>> /\ Turn.op # "field"
        /\ UNCHANGED <<protocol, declared, made, looked>>
    BY <1>7 DEF Exchange, HandshakeTLS, CheckBuffered, ReadLine, ParseRecords, Through
  <2>2. TurnDone \/ UNCHANGED script
    BY <1>7, Zenon DEF Exchange, HandshakeTLS, CheckBuffered, ReadLine, ParseRecords
  <2>3. made' \in Sizable /\ looked' \in Nat /\ looked' <= made'
    BY <2>1 DEF TalkInv
  <2> QED
    BY <2>1, <2>2, <2>3, TalkTurn, TalkWaits
<1>8. CASE ReadFixed \/ ReadField \/ ReadRest
  BY <1>8, TalkReads
<1> QED
  BY <1>2, <1>3, <1>4, <1>5, <1>6, <1>7, <1>8, Zenon
     DEF RunNext, WorkerMoves, Talk

(* What does not talk keeps what was agreed on.                            *)
LEMMA SecureWaits ==
  ASSUME SecureInv, UNCHANGED <<protocol, script, secure, secured, buffered>>,
         stage' \in {"dial", "deadline", "arm"} =>
           stage \in {"dial", "deadline", "arm"},
         outcome' = "ok" => outcome = "ok" \/ script = <<>>
  PROVE  SecureInv'
BY DEF SecureInv

(* A turn of the conversation is over.                                     *)
LEMMA SecureTurn ==
  ASSUME RunInv, TalkInv, SecureInv, stage = "talk", script # <<>>, TurnDone,
         UNCHANGED <<protocol, worker, secure>>,
         secured' = (secured \/ Turn.op = "tls"), buffered' \in BOOLEAN,
         protocol = "postgresql" =>
           /\ Turn.op # "fixed" => UNCHANGED buffered
           /\ Turn.op = "alone" => ~buffered
  PROVE  SecureInv'
<1>1. script \in Seq(Turns) /\ Turn = script[1] /\ script' = Tail(script)
  BY TailTurns DEF TalkInv, Turn, TurnDone
<1>2. /\ secure \in BOOLEAN /\ secured \in BOOLEAN /\ buffered \in BOOLEAN
      /\ Agreed(script, secured, secure)
      /\ protocol = "postgresql" => Unmixed(script, buffered, secured)
  BY DEF SecureInv
<1>3. Agreed(Tail(script), secured', secure)
  <2>1. Agreed(Tail(script), secured \/ script[1].op = "tls", secure)
    BY <1>1, <1>2, AgreedTail
  <2> QED
    BY <1>1, <2>1
<1>4. ASSUME protocol = "postgresql" PROVE Unmixed(Tail(script), buffered', secured')
  <2>1. Unmixed(Tail(script), buffered', secured \/ script[1].op = "tls")
    BY <1>1, <1>2, <1>4, UnmixedTail
  <2> QED
    BY <1>1, <2>1
<1>5. stage' = "talk" /\ outcome' = "none" /\ secured' \in BOOLEAN
  BY <1>2 DEF worker, RunInv
<1> QED
  BY <1>1, <1>2, <1>3, <1>4, <1>5 DEF SecureInv

(* Only lines come with bytes that nobody has asked for; PostgreSQL, which *)
(* looks at what the reader holds, reads none.                             *)
LEMMA SecureLines ==
  ASSUME RunInv, TalkInv, SecureInv, ReadLine \/ MoreArrives
  PROVE  SecureInv'
<1>1. /\ stage = "talk" /\ script # <<>> /\ Turn.op = "lines"
      /\ buffered' \in BOOLEAN
      /\ UNCHANGED <<protocol, worker, secure, secured>>
  BY Zenon DEF ReadLine, MoreArrives, Through
<1>2. protocol # "postgresql"
  <2>1. script[1].op = "lines" /\ 1 \in 1..Len(script)
    BY <1>1, TailTurns DEF TalkInv, Turn
  <2> QED
    BY <2>1, Zenon DEF SecureInv, Unmixed
<1>3. CASE TurnDone
  <2>1. secured' = (secured \/ Turn.op = "tls")
    BY <1>1 DEF SecureInv
  <2> QED
    BY <1>1, <1>2, <1>3, <2>1, SecureTurn
<1>4. CASE UNCHANGED script
  BY <1>1, <1>2, <1>4 DEF SecureInv, worker
<1> QED
  BY <1>3, <1>4, Zenon DEF ReadLine, MoreArrives

(* Every step of a check keeps it.                                         *)
LEMMA SecureStep ==
  ASSUME RunInv, TalkInv, SecureInv, [RunNext]_runVars
  PROVE  SecureInv'
<1>1. CASE UNCHANGED <<protocol, worker, talk, secure>>
  BY <1>1, SecureWaits DEF worker, talk
<1>2. CASE \/ Dial \/ AroundDial \/ CancellerNext
           \/ CancelScan \/ ExpireScan \/ TimePasses
           \/ (CheckOver /\ UNCHANGED runVars) \/ UNCHANGED runVars
  BY <1>1, <1>2, Zenon DEF Dial, AroundDial, CancellerNext, CancellerStarts,
     CancellerHurries, CancelScan, ExpireScan, TimePasses, runVars
<1>3. CASE \/ Dialed \/ SetLimit \/ ResetLimit
           \/ LookAtContext \/ CloseProbed \/ InspectContext
  <2>1. UNCHANGED <<protocol, script, secure, secured, buffered>>
    BY <1>3, Zenon DEF Dialed, SetLimit, ResetLimit, LookAtContext, CloseProbed,
       InspectContext, talk
  <2>2. /\ stage' \in {"dial", "deadline", "arm"} =>
             stage \in {"dial", "deadline", "arm"}
        /\ outcome' = "ok" => outcome = "ok"
    BY <1>3 DEF Dialed, SetLimit, ResetLimit, LookAtContext, CloseProbed,
       InspectContext
  <2> QED
    BY <2>1, <2>2, SecureWaits
<1>4. CASE InterruptTLS \/ Recognize \/ Disappoint \/ CutShort
  <2>1. UNCHANGED <<protocol, script, secure, secured, buffered>>
    BY <1>4, Zenon DEF InterruptTLS, Recognize, Disappoint, CutShort, talk
  <2>2. stage' = "stop" /\ (outcome' = "ok" => script = <<>>)
    BY <1>4 DEF InterruptTLS, Recognize, Disappoint, CutShort, HandBack
  <2> QED
    BY <2>1, <2>2, SecureWaits
<1>5. CASE ArmCanceller
  <2>1. /\ stage = "arm" /\ stage' = "talk" /\ outcome = "none"
        /\ UNCHANGED <<protocol, outcome, secured, buffered>>
    BY <1>5 DEF ArmCanceller, RunInv
  <2>2. ~secured /\ ~buffered
    BY <2>1 DEF SecureInv
  <2>3. PICK c \in Conversations[protocol] : script' = c.turns /\ secure' = c.tls
    BY <1>5, Zenon DEF ArmCanceller
  <2>4. Sound(c) /\ (protocol = "postgresql" => Unmixed(c.turns, FALSE, FALSE))
    BY <2>3, ConversationsSound DEF TalkInv
  <2>5. secured' = FALSE /\ buffered' = FALSE
    BY <2>1, <2>2 DEF SecureInv
  <2>6. c.tls \in BOOLEAN
    BY <2>4, Zenon DEF Sound
  <2> QED
    BY <2>1, <2>3, <2>4, <2>5, <2>6 DEF SecureInv, Sound
<1>6. CASE StopCanceller
  <2>1. /\ script' = <<>> /\ secure' = FALSE /\ secured' = FALSE /\ buffered' = FALSE
        /\ stage' = "reset" /\ UNCHANGED protocol
    BY <1>6, Zenon DEF StopCanceller
  <2> QED
    BY <2>1, NoTurns DEF SecureInv
<1>7. CASE Exchange \/ ReadField \/ ReadFixed \/ HandshakeTLS
  <2>1. /\ stage = "talk" /\ script # <<>> /\ TurnDone
        /\ UNCHANGED <<protocol, worker, secure>>
    BY <1>7, Zenon DEF Exchange, ReadField, ReadFixed, HandshakeTLS, Through
  <2>2. secured' = (secured \/ Turn.op = "tls")
    BY <1>7 DEF Exchange, ReadField, ReadFixed, HandshakeTLS, Through, SecureInv
  <2>3. /\ Turn.op # "alone" /\ buffered' \in BOOLEAN
        /\ Turn.op # "fixed" => UNCHANGED buffered
    BY <1>7 DEF Exchange, ReadField, ReadFixed, HandshakeTLS, Through, SecureInv
  <2> QED
    BY <2>1, <2>2, <2>3, SecureTurn
<1>8. CASE CheckBuffered \/ ReadRest \/ ParseRecords
  <2>1. /\ stage = "talk" /\ script # <<>>
        /\ UNCHANGED <<protocol, secured, buffered, secure>>
        /\ Turn.op \in {"alone", "rest", "records"}
    BY <1>8 DEF CheckBuffered, ReadRest, ParseRecords, Through
  <2>2. \/ TurnDone /\ UNCHANGED worker /\ (Turn.op = "alone" => ~buffered)
        \/ UNCHANGED <<script, worker>>
        \/ HandBack("failed") /\ UNCHANGED script
    BY <1>8 DEF CheckBuffered, ReadRest, ParseRecords, Through, worker
  <2>3. CASE TurnDone /\ UNCHANGED worker /\ (Turn.op = "alone" => ~buffered)
    <3>1. secured' = (secured \/ Turn.op = "tls") /\ buffered' \in BOOLEAN
      BY <2>1 DEF SecureInv
    <3> QED
      BY <2>1, <2>3, <3>1, SecureTurn
  <2>4. CASE UNCHANGED <<script, worker>>
    BY <2>1, <2>4, SecureWaits DEF worker
  <2>5. CASE HandBack("failed") /\ UNCHANGED script
    BY <2>1, <2>5, SecureWaits DEF HandBack
  <2> QED
    BY <2>2, <2>3, <2>4, <2>5
<1>9. CASE ReadLine \/ MoreArrives
  BY <1>9, SecureLines
<1> QED
  BY <1>2, <1>3, <1>4, <1>5, <1>6, <1>7, <1>8, <1>9, Zenon
     DEF RunNext, WorkerMoves, Talk

(* The invariants hold in every behaviour.                                 *)
LEMMA HandshakeInvHolds == RunSpec => [](RunInv /\ TalkInv /\ SecureInv)
<1>1. RunInit => TalkInv /\ SecureInv
  <2> SUFFICES ASSUME RunInit PROVE TalkInv /\ SecureInv
    OBVIOUS
  <2>1. /\ script = <<>> /\ declared = 0 /\ made = 0 /\ looked = 0 /\ outcome = "none"
        /\ secure = FALSE /\ secured = FALSE /\ buffered = FALSE
    BY Zenon DEF RunInit
  <2>2. protocol \in Names
    BY CasesAssumption DEF RunInit
  <2>3. Agreed(<<>>, FALSE, FALSE)
    BY NoTurns
  <2>4. Agreed(script, secured, secure) /\ Unmixed(script, buffered, secured)
    BY <2>1, <2>3, NoTurns, Zenon
  <2>5. TalkInv
    BY <2>1, <2>2, NoTurns DEF TalkInv
  <2>6. SecureInv
    <3>1. /\ secure \in BOOLEAN /\ secured \in BOOLEAN /\ buffered \in BOOLEAN
          /\ script = <<>> /\ ~secured /\ ~buffered
      BY <2>1
    <3> QED
      BY <2>4, <3>1, Zenon DEF SecureInv
  <2> QED
    BY <2>5, <2>6
<1>2. RunInv /\ TalkInv /\ SecureInv /\ [RunNext]_runVars => TalkInv' /\ SecureInv'
  BY TalkStep, SecureStep
<1> QED
  BY <1>1, <1>2, RunInvHolds, PTL DEF RunSpec

(* Whatever lengths a server declares, no handshake makes a buffer of more *)
(* than a megabyte or looks behind the buffer it has made, and the parser  *)
(* of DNS stays inside of its answer (the length checks of the probes      *)
(* before io.ReadFull and before they index what was read).                *)
THEOREM RunStaysInside == RunSpec => []InsideBuffer
<1>1. TalkInv /\ DnsInside => InsideBuffer
  BY SMT DEF TalkInv, InsideBuffer, Sizable
<1> QED
  BY <1>1, HandshakeInvHolds, RunIsParse, DnsStaysInside, PTL

(* A handshake talks in clear until it has switched to TLS and never       *)
(* after; what it reports as recognised was told under TLS exactly where   *)
(* the protocol asks for it; and PostgreSQL switches only with nothing     *)
(* left unread from before (r.Buffered in its probe).                      *)
THEOREM RunIsSecured == RunSpec => []SecureAsAgreed
<1>1. TalkInv /\ SecureInv => SecureAsAgreed
  <2> SUFFICES ASSUME TalkInv, SecureInv PROVE SecureAsAgreed
    OBVIOUS
  <2>1. ASSUME script # <<>>, Turn.op # "tls"
        PROVE  IF secured THEN Turn.via # "clear" ELSE Turn.via # "tls"
    <3>1. Turn = script[1] /\ 1 \in 1..Len(script)
      BY <2>1, TailTurns DEF TalkInv, Turn
    <3>2. ~Switched(script, 1)
      BY DEF Switched
    <3> QED
      BY <2>1, <3>1, <3>2, Zenon DEF SecureInv, Agreed
  <2>2. ASSUME outcome = "ok" PROVE secured <=> secure
    BY <2>2, NoTurns DEF SecureInv
  <2>3. ASSUME protocol = "postgresql", secured PROVE ~buffered
    BY <2>3, Zenon DEF SecureInv, Unmixed
  <2> QED
    BY <2>1, <2>2, <2>3, Zenon DEF SecureAsAgreed
<1> QED
  BY <1>1, HandshakeInvHolds, PTL
=============================================================================
