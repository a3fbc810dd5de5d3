------------------------------- MODULE DnsName -------------------------------
(***************************************************************************)
(* The parser of a DNS answer (internal/probe/dns.go): how                 *)
(* validateDNSResourceRecords walks over the resource records of a message *)
(* and dnsNameEnd over the names in front of them, whose labels may go on  *)
(* elsewhere in the message, behind a compression pointer.  An action is   *)
(* one iteration of a loop.  Offsets count from 0, as in the code.         *)
(***************************************************************************)
EXTENDS Integers, Sequences, FiniteSetsExt

CONSTANTS
  QuestionEnd,  \* 17: where the header and the question end
  FixedSize,    \* fixedRecordSize, 10: the last two bytes are dataLength
  MaxExpanded,  \* 254: the longest name, in bytes of labels
  Answers       \* the answers to parse: their bytes and number of records

ASSUME QuestionAssumption    == QuestionEnd \in Nat
ASSUME FixedSizeAssumption   == FixedSize \in Nat /\ FixedSize >= 2
ASSUME MaxExpandedAssumption == MaxExpanded \in Nat
ASSUME AnswersAssumption     ==
         /\ Answers \subseteq [bytes : Seq(0..255), count : Nat]
         /\ \A a \in Answers : Len(a.bytes) >= QuestionEnd

VARIABLES
  phase,     \* "idle", "record", "name", "data", then "accepted" or "refused"
  answer,    \* the answer
  record,    \* how many records are behind
  offset,    \* where the parser is
  consumed,  \* consumedEnd: -1 until the name goes on elsewhere
  expanded,  \* expandedLength
  steps,     \* iterations of the loop of dnsNameEnd
  furthest   \* history: how many bytes from the start a look has reached

dnsVars ==
  <<phase, answer, record, offset, consumed, expanded, steps, furthest>>

Length  == Len(answer.bytes)
Byte(k) == answer.bytes[k + 1]
Word(k) == Byte(k) * 256 + Byte(k + 1)

(* What the two highest bits of a length byte say. *)
IsPointer(byte)   == byte >= 192
IsLabel(byte)     == byte \in 1..63
IsReserved(byte)  == byte \in 64..191
Pointer(k)        == Word(k) - 192 * 256

Larger(a, b) == IF a > b THEN a ELSE b

(* The first n bytes have been in reach of a look. *)
LookUpTo(n) == furthest' = Larger(furthest, n)

-----------------------------------------------------------------------------

DnsInit ==
  /\ phase = "idle"
  /\ answer = [bytes |-> <<>>, count |-> 0]
  /\ record = 0
  /\ offset = QuestionEnd
  /\ consumed = -1
  /\ expanded = 0
  /\ steps = 0
  /\ furthest = 0

(* The answer was read and its header and question are as expected. *)
DnsReceive ==
  /\ phase = "idle"
  /\ answer' \in Answers
  /\ phase' = "record"
  /\ furthest' = QuestionEnd
  /\ UNCHANGED <<record, offset, consumed, expanded, steps>>

Refuse ==
  /\ phase' = "refused"
  /\ UNCHANGED <<record, answer, offset, consumed, expanded, steps>>

(* The loop over the records: dnsNameEnd is called for the next one, or    *)
(* the message must be over.                                               *)
NextRecord ==
  /\ phase = "record"
  /\ IF record < answer.count
     THEN phase' = "name"
     ELSE phase' = IF offset = Length THEN "accepted" ELSE "refused"
  /\ consumed' = -1
  /\ expanded' = 0
  /\ steps' = 0
  /\ UNCHANGED <<record, answer, offset, furthest>>

(* The loop of dnsNameEnd goes on as long as steps <= len(message). *)
Parsing == phase = "name" /\ steps <= Length

(* The loop has used up its steps, or the name leaves the message. *)
NameRunsOut ==
  /\ phase = "name"
  /\ steps > Length \/ offset >= Length
  /\ Refuse
  /\ UNCHANGED furthest

NameEnds ==
  /\ Parsing
  /\ offset < Length
  /\ Byte(offset) = 0
  /\ LookUpTo(offset + 1)
  /\ offset' = IF consumed >= 0 THEN consumed ELSE offset + 1
  /\ phase' = "data"
  /\ UNCHANGED <<record, answer, consumed, expanded, steps>>

(* Mutant of FollowPointer: the name ends in the record where the last     *)
(* pointer was, not the first.                                             *)
FollowLastPointer ==
  /\ Parsing
  /\ offset < Length
  /\ IsPointer(Byte(offset))
  /\ LookUpTo(IF offset + 1 < Length THEN offset + 2 ELSE offset + 1)
  /\ IF offset + 1 < Length /\ Pointer(offset) < offset
     THEN /\ consumed' = offset + 2
          /\ offset' = Pointer(offset)
          /\ steps' = steps + 1
          /\ UNCHANGED <<phase, answer, record, expanded>>
     ELSE Refuse

(* A pointer that is whole and points backwards is followed. *)
FollowPointer ==
  /\ Parsing
  /\ offset < Length
  /\ IsPointer(Byte(offset))
  /\ LookUpTo(IF offset + 1 < Length THEN offset + 2 ELSE offset + 1)
  /\ IF offset + 1 < Length /\ Pointer(offset) < offset
     THEN /\ consumed' = IF consumed < 0 THEN offset + 2 ELSE consumed
          /\ offset' = Pointer(offset)
          /\ steps' = steps + 1
          /\ UNCHANGED <<phase, answer, record, expanded>>
     ELSE Refuse

(* A label inside the message is skipped, unless the name grows too long. *)
SkipLabel ==
  /\ Parsing
  /\ offset < Length
  /\ IsLabel(Byte(offset))
  /\ LookUpTo(offset + 1)
  /\ LET size == Byte(offset) + 1 IN
     IF offset + size <= Length /\ expanded + size <= MaxExpanded
     THEN /\ expanded' = expanded + size
          /\ offset' = offset + size
          /\ steps' = steps + 1
          /\ UNCHANGED <<phase, answer, record, consumed>>
     ELSE Refuse

ReservedLabel ==
  /\ Parsing
  /\ offset < Length
  /\ IsReserved(Byte(offset))
  /\ LookUpTo(offset + 1)
  /\ Refuse

(* After the name: the fixed part of the record and its data. *)
SkipData ==
  /\ phase = "data"
  /\ LET data == offset + FixedSize IN
     IF data > Length
     THEN Refuse /\ UNCHANGED furthest
     ELSE /\ LookUpTo(data)
          /\ IF data + Word(data - 2) > Length
             THEN Refuse
             ELSE /\ offset' = data + Word(data - 2)
                  /\ record' = record + 1
                  /\ phase' = "record"
                  /\ UNCHANGED <<consumed, answer, expanded, steps>>

DnsParse ==
  \/ NextRecord \/ NameRunsOut \/ NameEnds \/ FollowPointer \/ SkipLabel
  \/ ReservedLabel \/ SkipData

(* The parser has its verdict and returns; what it has kept is gone. *)
DnsReturn ==
  /\ phase \in {"accepted", "refused"}
  /\ phase' = "idle"
  /\ answer' = [bytes |-> <<>>, count |-> 0]
  /\ record' = 0 /\ offset' = QuestionEnd /\ consumed' = -1
  /\ expanded' = 0 /\ steps' = 0 /\ furthest' = 0

DnsNext == DnsReceive \/ DnsParse \/ DnsReturn

DnsSpec == DnsInit /\ [][DnsNext]_dnsVars

-----------------------------------------------------------------------------
(* What a well-formed message is, from the places that labels and pointers *)
(* lead to, and without any offset that moves.                             *)

(* f applied n times *)
Iterate(f, x, n) ==
  LET at[m \in 0..n] == IF m = 0 THEN x ELSE f[at[m - 1]]
  IN  at[n]

Offsets == 0..(Length - 1)

(* Where a label or a pointer leads. *)
Hop(k) ==
  IF IsLabel(Byte(k)) THEN {k + Byte(k) + 1}
  ELSE IF IsPointer(Byte(k)) /\ k + 1 < Length THEN {Pointer(k)}
  ELSE {}

Hops      == [k \in Offsets |-> Hop(k) \cap Offsets]
LabelHops == [k \in Offsets |-> IF IsLabel(Byte(k)) THEN Hops[k] ELSE {}]

(* The places that hops lead to from k: as many hops as there are places   *)
(* lead to all of them.                                                    *)
Wider(hops) ==
  [places \in SUBSET DOMAIN hops |-> places \cup UNION {hops[j] : j \in places}]
Reached(hops, k) == Iterate(Wider(hops), {k}, Cardinality(DOMAIN hops))

(* How many bytes the labels take, with their lengths. *)
LabelBytes(places) ==
  Cardinality(UNION {{j} \X (0..Byte(j)) : j \in {i \in places : IsLabel(Byte(i))}})

(* A name is good if it reaches its end, through pointers that all point   *)
(* backwards, and is not too long.                                         *)
GoodName(k) ==
  LET places == Reached(Hops, k)
  IN  /\ \E j \in places : Byte(j) = 0
      /\ \A j \in places : IsPointer(Byte(j)) => Pointer(j) < j
      /\ LabelBytes(places) <= MaxExpanded

(* A record lasts until the first end or pointer of its name and then      *)
(* until the end of its data.                                              *)
NameBytesEnd(k) ==
  LET last == CHOOSE j \in Reached(LabelHops, k) : ~IsLabel(Byte(j))
  IN  IF IsPointer(Byte(last)) THEN last + 2 ELSE last + 1
DataStart(k) == NameBytesEnd(k) + FixedSize
RecordEnd(k) == DataStart(k) + Word(DataStart(k) - 2)

GoodRecord(k) ==
  /\ k \in Offsets
  /\ GoodName(k)
  /\ DataStart(k) <= Length
  /\ RecordEnd(k) \in 0..Length

(* Where a record ends; -1 if it is no good, and after that. *)
RecordEnds == [k \in -1..Length |-> IF GoodRecord(k) THEN RecordEnd(k) ELSE -1]

(* The records that are announced fill the message. *)
GoodMessage == Iterate(RecordEnds, QuestionEnd, answer.count) = Length

(* The parser accepts the messages that are well-formed, and only those:   *)
(* neither a pointer nor a chain of them misleads it, and the limit on its *)
(* steps never refuses a name that has an end.                             *)
DnsExact ==
  /\ phase = "accepted" => GoodMessage
  /\ phase = "refused" => ~GoodMessage

(* Whatever the bytes are, the parser looks at none outside the message,   *)
(* and no name takes more steps than the message has bytes.                *)
DnsInside ==
  /\ furthest <= Length
  /\ steps <= Length + 1

(* The inductive invariant behind it. *)
DnsTypeOK ==
  /\ phase \in {"idle", "record", "name", "data", "accepted", "refused"}
  /\ answer \in [bytes : Seq(0..255), count : Nat]
  /\ record \in Nat
  /\ offset \in Nat
  /\ consumed \in Int
  /\ expanded \in Nat
  /\ steps \in Nat
  /\ furthest \in Nat

DnsInv ==
  /\ DnsTypeOK
  /\ DnsInside
  /\ expanded <= MaxExpanded
  /\ phase = "idle" => steps = 0
=============================================================================
