-------------------------- MODULE PreparationProofs --------------------------
(***************************************************************************)
(* Whatever the command line, the file, the sizes of the address families  *)
(* and the limits: the checks are those that were asked for, a refusal has *)
(* a reason, and the expansion of the targets stops soon after             *)
(* max_targets.                                                            *)
(*                                                                         *)
(* An entry that is well formed stands for the addresses with the numbers  *)
(* Low to High (Bounds, Denoted), and the loops go through these in order  *)
(* (Following).  So the list of targets is, at any moment, the set of all  *)
(* places before the cursor, each once (Gathered), which gives the rest:   *)
(* the place that add is given next is new exactly if it is not in that    *)
(* set, and no entry can take more steps than there are targets in the     *)
(* list.  The file is subject to the same argument as the configuration    *)
(* that the options make of it (SourceInv).  The ports, and the handshakes *)
(* of each of them, are what the ranges before the current place ask for   *)
(* (PortsInv, ProbesInv).                                                  *)
(***************************************************************************)
EXTENDS Preparation, FiniteSetTheorems, TLAPS

-----------------------------------------------------------------------------

(* Quotient and remainder, and how multiples compare. *)
LEMMA Division ==
  ASSUME NEW n \in Nat, NEW d \in Nat \ {0}
  PROVE  /\ n \div d \in Nat /\ n % d \in 0..(d - 1)
         /\ n = d * (n \div d) + (n % d)
  OBVIOUS

LEMMA TimesLess ==
  ASSUME NEW a \in Int, NEW b \in Int, NEW d \in Nat, a <= b
  PROVE  d * a <= d * b
  OBVIOUS

LEMMA TimesNext ==
  ASSUME NEW a \in Int, NEW d \in Int
  PROVE  d * (a + 1) = d * a + d /\ d * a \in Int
  OBVIOUS

(* The numbers that share their quotient with n are d in a row. *)
LEMMA Block ==
  ASSUME NEW n \in Nat, NEW m \in Nat, NEW d \in Nat \ {0}
  PROVE  m \div d = n \div d <=> n - (n % d) <= m /\ m <= n - (n % d) + d - 1
<1> DEFINE q == n \div d
           p == m \div d
<1>1. /\ q \in Nat /\ n % d \in 0..(d - 1) /\ n = d * q + (n % d)
      /\ p \in Nat /\ m % d \in 0..(d - 1) /\ m = d * p + (m % d)
  BY Division
<1> SUFFICES p = q <=> n - (n % d) <= m /\ m <= n - (n % d) + d - 1
  OBVIOUS
<1> HIDE DEF q, p
<1>2. p = q \/ p < q \/ p > q
  BY <1>1
<1>3. CASE p = q
  BY <1>1, <1>3
<1>4. CASE p < q
  <2>1. d * (p + 1) <= d * q /\ d * (p + 1) = d * p + d
    BY <1>1, <1>4, TimesLess, TimesNext
  <2>2. d * p \in Int /\ d * q \in Int
    BY <1>1
  <2> QED
    BY <1>1, <1>4, <2>1, <2>2
<1>5. CASE p > q
  <2>1. d * (q + 1) <= d * p /\ d * (q + 1) = d * q + d
    BY <1>1, <1>5, TimesLess, TimesNext
  <2>2. d * p \in Int /\ d * q \in Int
    BY <1>1
  <2> QED
    BY <1>1, <1>5, <2>1, <2>2
<1> QED
  BY <1>2, <1>3, <1>4, <1>5

(* A block begins at a multiple of d. *)
LEMMA Multiple ==
  ASSUME NEW n \in Nat, NEW d \in Nat \ {0}
  PROVE  (n \div d) * d = n - (n % d)
<1> DEFINE q == n \div d
<1>1. q \in Nat /\ n % d \in 0..(d - 1) /\ n = d * q + (n % d)
  BY Division
<1> HIDE DEF q
<1>2. q * d = d * q /\ d * q \in Int
  BY <1>1
<1>3. d * q = n - (n % d)
  BY <1>1, <1>2
<1> QED
  BY <1>2, <1>3 DEF q

(* A block that begins below a multiple of d ends below it. *)
LEMMA BlockFits ==
  ASSUME NEW n \in Nat, NEW d \in Nat \ {0}, NEW size \in Nat, n < size, size % d = 0
  PROVE  n - (n % d) \in Nat /\ n - (n % d) + d <= size
<1> DEFINE q == n \div d
           p == size \div d
<1>1. /\ q \in Nat /\ n % d \in 0..(d - 1) /\ n = d * q + (n % d)
      /\ p \in Nat /\ size = d * p + 0
  BY Division
<1> HIDE DEF q, p
<1>2. CASE q < p
  <2>1. d * (q + 1) <= d * p /\ d * (q + 1) = d * q + d /\ d * q \in Nat
    BY <1>1, <1>2, TimesLess, TimesNext
  <2> QED
    BY <1>1, <2>1
<1>3. CASE p <= q
  <2>1. d * p <= d * q /\ d * q \in Int /\ d * p \in Int
    BY <1>1, <1>3, TimesLess
  <2> QED
    BY <1>1, <2>1
<1> QED
  BY <1>1, <1>2, <1>3
-----------------------------------------------------------------------------
(* What an entry stands for: the addresses numbered from Low to High in    *)
(* its family and zone.                                                    *)

Places == [fam : {"host", "ipv4", "ipv6"}, zone : STRING, n : Nat]

With(a, k) == [a EXCEPT !.n = k]
At(e, k) == With(e.at, k)
Low(e)   == First(e).n
High(e)  == IF e.kind = "prefix" THEN Low(e) + e.span - 1
            ELSE IF e.kind \in {"range", "short"} THEN End(e).n
            ELSE e.at.n

(* An address with another number. *)
LEMMA Renumbered ==
  ASSUME NEW a \in Places, NEW k \in Nat
  PROVE  /\ With(a, k) \in Places
         /\ With(a, k).fam = a.fam /\ With(a, k).zone = a.zone /\ With(a, k).n = k
         /\ With(a, k) # None /\ With(a, k) # Invalid
         /\ a.n = k => With(a, k) = a
         /\ [With(a, k) EXCEPT !.n = @ + 1] = With(a, k + 1)
<1> DEFINE b == With(a, k)
<1>1. b = [fam |-> a.fam, zone |-> a.zone, n |-> k]
  BY DEF Places, With
<1>2. a = [fam |-> a.fam, zone |-> a.zone, n |-> a.n] /\ a.fam \in {"host", "ipv4", "ipv6"}
  BY DEF Places
<1> HIDE DEF b
<1>3. b \in Places /\ b.fam = a.fam /\ b.zone = a.zone /\ b.n = k
  BY <1>1 DEF Places
<1>4. b # None /\ b # Invalid
  BY <1>2, <1>3 DEF None, Invalid
<1>5. [b EXCEPT !.n = @ + 1] = With(a, k + 1)
  BY <1>1, <1>2 DEF With
<1> QED
  BY <1>1, <1>2, <1>3, <1>4, <1>5 DEF b

LEMMA AddressTyped ==
  ASSUME NEW a \in Addresses
  PROVE  /\ a \in Places /\ a.fam \in {"ipv4", "ipv6"}
         /\ Size[a.fam] \in Nat \ {0} /\ a.n < Size[a.fam]
BY SizeAssumption DEF Addresses, Places

(* netip.Addr.Next, as long as there is a next address. *)
LEMMA NextAddress ==
  ASSUME NEW a \in Addresses, NEW k \in Nat
  PROVE  Successor(With(a, k))
           = IF k + 1 < Size[a.fam] THEN With(a, k + 1) ELSE Invalid
BY AddressTyped, Renumbered DEF Successor

(* The address with its own number. *)
LEMMA Unchanged ==
  ASSUME NEW e, e.at \in Places
  PROVE  At(e, e.at.n) = e.at /\ e.at.n \in Nat
<1>1. e.at.n \in Nat
  BY DEF Places
<1> QED
  BY <1>1, Renumbered DEF At

(* A prefix begins at the multiple of its span that is at most its address.*)
LEMMA Masked ==
  ASSUME NEW e \in PrefixEntries
  PROVE  /\ e.kind = "prefix" /\ e.at \in Addresses /\ e.span \in Nat \ {0}
         /\ e.at.n \in Nat /\ e.at \in Places
         /\ Low(e) = e.at.n - (e.at.n % e.span) /\ Low(e) \in Nat
         /\ First(e) = At(e, Low(e))
         /\ Low(e) + e.span <= Size[e.at.fam]
<1> DEFINE n    == e.at.n
           size == Size[e.at.fam]
           low  == n - (n % e.span)
<1>1. e.kind = "prefix" /\ e.at \in Addresses /\ e.span \in Nat \ {0} /\ size % e.span = 0
  BY DEF PrefixEntries
<1>2. e.at \in Places /\ n \in Nat /\ size \in Nat /\ n < size
  BY <1>1, AddressTyped DEF Places
<1>3. low \in Nat /\ low + e.span <= size
  BY <1>1, <1>2, BlockFits
<1>4. First(e) = With(e.at, low)
  BY <1>1 DEF First, With
<1>5. low = e.at.n - (e.at.n % e.span)
  OBVIOUS
<1> HIDE DEF low
<1>6. With(e.at, low).n = low
  BY <1>2, <1>3, Renumbered
<1>7. Low(e) = low
  BY <1>4, <1>6 DEF Low
<1>8. First(e) = At(e, Low(e))
  BY <1>4, <1>7 DEF At
<1> QED
  BY <1>1, <1>2, <1>3, <1>5, <1>7, <1>8

(* Each entry that the parser accepts has a first and a last address. *)
LEMMA Bounds ==
  ASSUME NEW e \in TargetEntries, WellFormed(e)
  PROVE  /\ e.at \in Places /\ First(e) = At(e, Low(e))
         /\ Low(e) \in Nat /\ High(e) \in Nat /\ Low(e) <= High(e)
         /\ e.kind \in {"prefix", "range", "short"} =>
              e.at \in Addresses /\ High(e) < Size[e.at.fam]
         /\ e.kind \in {"range", "short"} => End(e) = At(e, High(e))
<1>1. CASE e \in HostEntries \cup AddressEntries
  <2>1. e.at \in Places /\ e.kind \notin {"prefix", "range", "short"}
    BY <1>1, AddressTyped DEF HostEntries, AddressEntries, HostNames, Places
  <2>2. First(e) = e.at /\ Low(e) = e.at.n /\ High(e) = e.at.n /\ e.at.n \in Nat
    BY <2>1 DEF First, Low, High, Places
  <2>3. First(e) = At(e, Low(e))
    <3> DEFINE a == e.at
               n == e.at.n
    <3>0. a \in Places /\ n \in Nat /\ a.n = n
      BY <2>1, <2>2
    <3> HIDE DEF a, n
    <3>1. With(a, n) = a
      BY <3>0, Renumbered
    <3> QED
      BY <2>2, <3>1, Zenon DEF At, a, n
  <2> QED
    BY <2>1, <2>2, <2>3
<1>2. CASE e \in PrefixEntries
  <2>1. /\ e.kind = "prefix" /\ e.at \in Addresses /\ e.span \in Nat \ {0}
        /\ e.at \in Places /\ Low(e) \in Nat /\ First(e) = At(e, Low(e))
        /\ Low(e) + e.span <= Size[e.at.fam] /\ Size[e.at.fam] \in Nat
    BY <1>2, Masked, AddressTyped
  <2>2. High(e) = Low(e) + e.span - 1
    BY <2>1 DEF High
  <2>3. High(e) \in Nat /\ Low(e) <= High(e) /\ High(e) < Size[e.at.fam]
    BY <2>1, <2>2
  <2> QED
    BY <2>1, <2>3
<1>3. CASE e \in RangeEntries
  <2>1. e.kind = "range" /\ e.at \in Addresses /\ e.end \in Addresses
    BY <1>3 DEF RangeEntries
  <2>2. e.at.fam = e.end.fam /\ e.at.zone = e.end.zone /\ e.at.n <= e.end.n
    BY <2>1 DEF WellFormed, InOrder
  <2>3. e.at \in Places /\ e.end \in Places /\ e.end.n < Size[e.at.fam]
    BY <2>1, <2>2, AddressTyped
  <2>4. End(e) = e.end /\ First(e) = e.at /\ Low(e) = e.at.n /\ High(e) = e.end.n
    BY <2>1 DEF End, First, Low, High
  <2>5. At(e, Low(e)) = e.at
    BY <2>3, <2>4, Unchanged
  <2>6. At(e, High(e)) = e.end
    BY <2>2, <2>3, <2>4 DEF At, With, Places
  <2> QED
    BY <2>1, <2>2, <2>3, <2>4, <2>5, <2>6 DEF Places
<1>4. CASE e \in ShortEntries
  <2> DEFINE n    == e.at.n
             low  == n - (n % Octet)
  <2>1. e.kind = "short" /\ e.at \in Addresses
    BY <1>4 DEF ShortEntries
  <2>2. e.at.fam = "ipv4" /\ e.octet \in 0..(Octet - 1) /\ InOrder(e.at, End(e))
    BY <2>1 DEF WellFormed
  <2>3. e.at \in Places /\ n \in Nat /\ n < Size["ipv4"] /\ Size["ipv4"] \in Nat
    BY <2>1, <2>2, AddressTyped DEF Places
  <2>4. low \in Nat /\ low + Octet <= Size["ipv4"]
    BY <2>3, OctetAssumption, BlockFits
  <2>5. End(e) = With(e.at, low + e.octet)
    BY <2>1 DEF End, With
  <2> DEFINE high == low + e.octet
  <2>6. high \in Nat /\ high < Size["ipv4"] /\ End(e) = With(e.at, high)
    <3> HIDE DEF low
    <3> QED
      BY <2>2, <2>3, <2>4, <2>5, OctetAssumption
  <2> HIDE DEF high
  <2>7. End(e).n = high
    <3>1. With(e.at, high).n = high
      BY <2>3, <2>6, Renumbered
    <3> QED
      BY <2>6, <3>1
  <2>8. First(e) = e.at /\ Low(e) = n /\ High(e) = high
    BY <2>1, <2>7 DEF First, Low, High
  <2>9. n <= high
    BY <2>2, <2>7 DEF InOrder
  <2>10. At(e, Low(e)) = e.at
    BY <2>3, <2>8, Unchanged
  <2>11. End(e) = At(e, High(e))
    BY <2>6, <2>8 DEF At
  <2> QED
    BY <2>1, <2>2, <2>3, <2>6, <2>8, <2>9, <2>10, <2>11
<1> QED
  BY <1>1, <1>2, <1>3, <1>4 DEF TargetEntries

(* The places of an entry are numbered without repetition. *)
LEMMA PlaceNumbered ==
  ASSUME NEW e \in TargetEntries, WellFormed(e), NEW k \in Nat
  PROVE  At(e, k).n = k /\ At(e, k) # None
<1>1. e.at \in Places
  BY Bounds
<1> QED
  BY <1>1, Renumbered DEF At

(* The loops of addPrefix and addRange go through these places in order    *)
(* and end at the last one, also where the family ends.                    *)
LEMMA Following ==
  ASSUME NEW e \in TargetEntries, WellFormed(e), NEW k \in Low(e)..High(e)
  PROVE  After(e, At(e, k)) = IF k < High(e) THEN At(e, k + 1) ELSE None
<1>1. k \in Nat /\ k <= High(e) /\ Low(e) <= k /\ High(e) \in Nat /\ Low(e) \in Nat
  BY Bounds
<1>2. CASE e \in HostEntries \cup AddressEntries
  <2>1. e.kind \notin {"prefix", "range", "short"}
    BY <1>2 DEF HostEntries, AddressEntries
  <2>2. Low(e) = High(e)
    BY <2>1 DEF Low, High, First
  <2> QED
    BY <1>1, <2>1, <2>2 DEF After
<1>3. CASE e \in PrefixEntries
  <2> DEFINE n == e.at.n
             low == n - (n % e.span)
  <2>1. e.kind = "prefix" /\ e.at \in Addresses /\ e.span \in Nat \ {0} /\ n \in Nat
    BY <1>3, AddressTyped DEF PrefixEntries, Places
  <2>2. Low(e) = low /\ High(e) = low + e.span - 1 /\ High(e) < Size[e.at.fam]
    <3>1. Low(e) = low
      BY <1>3, Masked
    <3> HIDE DEF low
    <3> QED
      BY <2>1, <3>1, Bounds DEF High
  <2>3. After(e, At(e, k)) = IF PrefixContains(e, Successor(At(e, k)))
                             THEN Successor(At(e, k)) ELSE None
    BY <2>1 DEF After
  <2>4. Successor(At(e, k)) = IF k + 1 < Size[e.at.fam] THEN At(e, k + 1) ELSE Invalid
    BY <1>1, <2>1, NextAddress DEF At
  <2>5. ~PrefixContains(e, Invalid)
    BY <2>1, AddressTyped DEF PrefixContains, Invalid
  <2>6. PrefixContains(e, At(e, k + 1)) <=> k + 1 <= High(e)
    <3>1. At(e, k + 1).n = k + 1 /\ At(e, k + 1).fam = e.at.fam
      <4> DEFINE next == k + 1
      <4>1. next \in Nat /\ e.at \in Places
        BY <1>1, <2>1, AddressTyped
      <4> HIDE DEF next
      <4>2. With(e.at, next).n = next /\ With(e.at, next).fam = e.at.fam
        BY <4>1, Renumbered
      <4> QED
        BY <4>2 DEF At, next
    <3>2. PrefixContains(e, At(e, k + 1)) <=> (k + 1) \div e.span = n \div e.span
      BY <3>1 DEF PrefixContains
    <3>3. (k + 1) \div e.span = n \div e.span <=> low <= k + 1 /\ k + 1 <= low + e.span - 1
      <4> DEFINE m == k + 1
                 d == e.span
      <4>1. m \in Nat /\ d \in Nat \ {0} /\ n \in Nat
        BY <1>1, <2>1
      <4>2. m \div d = n \div d <=> n - (n % d) <= m /\ m <= n - (n % d) + d - 1
        <5> HIDE DEF m, d, n
        <5> QED
          BY <4>1, Block
      <4> QED
        BY <4>2, Zenon
    <3> HIDE DEF low
    <3> QED
      BY <1>1, <2>2, <3>2, <3>3
  <2>7. Size[e.at.fam] \in Nat
    BY <2>1, AddressTyped
  <2> QED
    BY <1>1, <2>2, <2>3, <2>4, <2>5, <2>6, <2>7
<1>4. CASE e \in RangeEntries \cup ShortEntries
  <2>1. e.kind \in {"range", "short"}
    BY <1>4 DEF RangeEntries, ShortEntries
  <2>2. /\ e.at \in Addresses /\ High(e) < Size[e.at.fam] /\ End(e) = At(e, High(e))
        /\ Size[e.at.fam] \in Nat
    BY <2>1, Bounds, AddressTyped
  <2>3. After(e, At(e, k)) = IF At(e, k) = End(e) THEN None ELSE Successor(At(e, k))
    BY <2>1 DEF After
  <2>4. At(e, k) = End(e) <=> k = High(e)
    BY <1>1, <2>2, PlaceNumbered
  <2>5. Successor(At(e, k)) = IF k + 1 < Size[e.at.fam] THEN At(e, k + 1) ELSE Invalid
    BY <1>1, <2>2, NextAddress DEF At
  <2> QED
    BY <1>1, <2>2, <2>3, <2>4, <2>5
<1> QED
  BY <1>2, <1>3, <1>4 DEF TargetEntries

(* What Denotes says without any loop are these places. *)
LEMMA Denoted ==
  ASSUME NEW e \in TargetEntries, WellFormed(e)
  PROVE  Denotes(e) = {At(e, k) : k \in Low(e)..High(e)}
<1>1. CASE e \in HostEntries \cup AddressEntries
  <2>1. e.kind \notin {"prefix", "range", "short"}
    BY <1>1 DEF HostEntries, AddressEntries
  <2>2. Low(e) = High(e) /\ First(e) = e.at /\ Low(e) \in Nat /\ First(e) = At(e, Low(e))
    BY <2>1, Bounds DEF Low, High, First
  <2>3. Denotes(e) = {e.at} /\ Low(e)..High(e) = {Low(e)}
    BY <2>1, <2>2 DEF Denotes
  <2> QED
    BY <2>2, <2>3
<1>2. CASE e \in PrefixEntries
  <2> DEFINE n == e.at.n
             low == (n \div e.span) * e.span
  <2>1. e.kind = "prefix" /\ e.at \in Addresses /\ e.span \in Nat \ {0} /\ n \in Nat
    BY <1>2, AddressTyped DEF PrefixEntries, Places
  <2>2. low = n - (n % e.span)
    BY <2>1, Multiple
  <2>3. Low(e) = low
    BY <1>2, <2>2, Masked
  <2>4. Denotes(e) = Numbered(e, low..(low + e.span - 1))
    BY <2>1 DEF Denotes
  <2> HIDE DEF low
  <2> QED
    BY <2>1, <2>3, <2>4 DEF High, Numbered, At, With
<1>3. CASE e \in RangeEntries \cup ShortEntries
  <2>1. e.kind \in {"range", "short"}
    BY <1>3 DEF RangeEntries, ShortEntries
  <2>2. Denotes(e) = Numbered(e, e.at.n..End(e).n) /\ Low(e) = e.at.n /\ High(e) = End(e).n
    BY <2>1 DEF Denotes, Low, High, First
  <2> QED
    BY <2>2 DEF Numbered, At, With
<1> QED
  BY <1>1, <1>2, <1>3 DEF TargetEntries
-----------------------------------------------------------------------------
(* Entries in a row. *)

(* No entries, no targets. *)
LEMMA DenotedNone ==
  ASSUME NEW E
  PROVE  DenotedBy(E, 0) = {}
BY DEF DenotedBy

(* What entries up to the i-th stand for, and the next of them. *)
LEMMA DenotedNext ==
  ASSUME NEW E, NEW i \in Nat \ {0}
  PROVE  DenotedBy(E, i) = DenotedBy(E, i - 1) \cup Denotes(E[i])
<1>1. 1..i = 1..(i - 1) \cup {i}
  OBVIOUS
<1> QED
  BY <1>1 DEF DenotedBy

LEMMA DenotedMember ==
  ASSUME NEW E, NEW i, NEW t
  PROVE  t \in DenotedBy(E, i) <=> \E j \in 1..i : t \in Denotes(E[j])
BY DEF DenotedBy

LEMMA FirstNumbers ==
  ASSUME NEW n \in Nat
  PROVE  IsFiniteSet(1..n) /\ Cardinality(1..n) = n
<1>1. n = IF 1 > n THEN 0 ELSE n - 1 + 1
  OBVIOUS
<1> QED
  BY <1>1, FS_Interval

(* An entry stands for finitely many targets, and so do entries in a row. *)
LEMMA DenotesFinite ==
  ASSUME NEW e \in TargetEntries, WellFormed(e)
  PROVE  IsFiniteSet(Denotes(e))
<1> DEFINE ks == Low(e)..High(e)
           f  == [k \in ks |-> At(e, k)]
<1>1. IsFiniteSet(ks)
  BY Bounds, FS_Interval
<1>2. f \in Surjection(ks, Denotes(e))
  BY Denoted DEF Surjection
<1> QED
  BY <1>1, <1>2, FS_Surjection

LEMMA DenotedFinite ==
  ASSUME NEW E, NEW i \in Nat, \A j \in 1..i : E[j] \in TargetEntries /\ WellFormed(E[j])
  PROVE  IsFiniteSet(DenotedBy(E, i))
<1> DEFINE js == 1..i
           f  == [j \in js |-> Denotes(E[j])]
           T  == {Denotes(E[j]) : j \in js}
<1>1. IsFiniteSet(js)
  BY FS_Interval
<1>2. f \in Surjection(js, T)
  BY DEF Surjection
<1>3. IsFiniteSet(T)
  BY <1>1, <1>2, FS_Surjection
<1>4. \A D \in T : IsFiniteSet(D)
  BY DenotesFinite
<1>5. IsFiniteSet(UNION T)
  BY <1>3, <1>4, FS_UNION
<1> QED
  BY <1>5 DEF DenotedBy

(* Lists of targets. *)

(* The targets of a list. *)
LEMMA ListSet ==
  ASSUME NEW S, NEW s \in Seq(S)
  PROVE  /\ Len(s) \in Nat /\ DOMAIN s = 1..Len(s)
         /\ ToSet(s) = {s[k] : k \in 1..Len(s)}
BY DEF ToSet

(* A target appended to a list. *)
LEMMA AppendSet ==
  ASSUME NEW S, NEW s \in Seq(S), NEW t \in S
  PROVE  /\ Append(s, t) \in Seq(S) /\ Len(Append(s, t)) = Len(s) + 1
         /\ \A k \in 1..Len(s) : Append(s, t)[k] = s[k]
         /\ Append(s, t)[Len(s) + 1] = t
         /\ ToSet(Append(s, t)) = ToSet(s) \cup {t}
<1> DEFINE r == Append(s, t)
<1>1. /\ r \in Seq(S) /\ Len(r) = Len(s) + 1 /\ Len(s) \in Nat
      /\ \A k \in 1..Len(s) : r[k] = s[k]
      /\ r[Len(s) + 1] = t
  OBVIOUS
<1>2. 1..Len(r) = 1..Len(s) \cup {Len(s) + 1}
  BY <1>1
<1> HIDE DEF r
<1>3. ToSet(r) = {r[k] : k \in 1..Len(r)} /\ ToSet(s) = {s[k] : k \in 1..Len(s)}
  BY <1>1, ListSet
<1>4. ToSet(r) = ToSet(s) \cup {t}
  BY <1>1, <1>2, <1>3
<1> QED
  BY <1>1, <1>4 DEF r

(* A target that is new leaves the list without repetition. *)
LEMMA StaysInjective ==
  ASSUME NEW S, NEW s \in Seq(S), NEW t \in S, IsInjective(s), t \notin ToSet(s)
  PROVE  IsInjective(Append(s, t))
<1> DEFINE r == Append(s, t)
           n == Len(s)
<1>1. /\ r \in Seq(S) /\ Len(r) = n + 1 /\ n \in Nat
      /\ \A k \in 1..n : r[k] = s[k]
      /\ r[n + 1] = t
  BY AppendSet
<1>2. /\ \A k \in 1..n : s[k] # t
      /\ \A k, l \in 1..n : s[k] = s[l] => k = l
  BY ListSet DEF IsInjective
<1>3. DOMAIN r = 1..(n + 1)
  BY <1>1
<1> SUFFICES IsInjective(r)
  OBVIOUS
<1> HIDE DEF r, n
<1>4. ASSUME NEW k \in 1..(n + 1), NEW l \in 1..(n + 1), r[k] = r[l]
      PROVE  k = l
  <2>1. (k \in 1..n \/ k = n + 1) /\ (l \in 1..n \/ l = n + 1)
    BY <1>1
  <2> QED
    BY <1>1, <1>2, <1>4, <2>1
<1> QED
  BY <1>3, <1>4 DEF IsInjective

(* A list that holds n numbered places of an entry is at least that long.  *)
LEMMA Crowd ==
  ASSUME NEW e \in TargetEntries, WellFormed(e), NEW S, NEW s \in Seq(S),
         NEW a \in Nat, NEW b \in Int, a <= b + 1,
         \A k \in a..b : At(e, k) \in ToSet(s)
  PROVE  b - a + 1 <= Len(s)
<1> DEFINE P == 1..Len(s)
           f == [k \in a..b |-> CHOOSE p \in P : s[p] = At(e, k)]
<1>1. Len(s) \in Nat /\ \A k \in a..b : \E p \in P : s[p] = At(e, k)
  BY ListSet
<1>2. \A k \in a..b : f[k] \in P /\ s[f[k]] = At(e, k)
  BY <1>1
<1>3. f \in [a..b -> P]
  BY <1>2
<1>4. ASSUME NEW k \in a..b, NEW l \in a..b, f[k] = f[l]
      PROVE  k = l
  <2>1. At(e, k) = At(e, l)
    BY <1>2, <1>4
  <2>2. k \in Nat /\ l \in Nat
    OBVIOUS
  <2> QED
    BY <2>1, <2>2, PlaceNumbered
<1>5. f \in Injection(a..b, P)
  BY <1>3, <1>4 DEF Injection, IsInjective
<1>6. IsFiniteSet(P) /\ Cardinality(P) = Len(s)
  BY <1>1, FirstNumbers
<1>7. Cardinality(a..b) = IF a > b THEN 0 ELSE b - a + 1
  BY FS_Interval
<1> HIDE DEF f, P
<1>8. Cardinality(a..b) <= Len(s)
  BY <1>5, <1>6, FS_Injection
<1> QED
  BY <1>1, <1>7, <1>8

(* As many different targets as a list without repetition is long.         *)
LEMMA ListCounts ==
  ASSUME NEW S, NEW s \in Seq(S), IsInjective(s)
  PROVE  IsFiniteSet(ToSet(s)) /\ Cardinality(ToSet(s)) = Len(s)
<1> DEFINE P == 1..Len(s)
<1>1. Len(s) \in Nat /\ DOMAIN s = P /\ ToSet(s) = {s[k] : k \in P} /\ s \in [P -> ToSet(s)]
  <2>1. Len(s) \in Nat /\ DOMAIN s = P /\ ToSet(s) = {s[k] : k \in P}
    BY ListSet
  <2>2. s = [k \in P |-> s[k]]
    OBVIOUS
  <2> QED
    BY <2>1, <2>2
<1>2. IsFiniteSet(P) /\ Cardinality(P) = Len(s)
  BY <1>1, FirstNumbers
<1>3. s \in Surjection(P, ToSet(s)) /\ s \in Injection(P, ToSet(s))
  BY <1>1 DEF Surjection, Injection
<1> HIDE DEF P
<1> QED
  BY <1>2, <1>3, FS_Surjection
-----------------------------------------------------------------------------
(* The expansion of E: it is at c, of entry i, or, without a c, before     *)
(* entry i; and s is what it has added.                                    *)

Position(E, i, c) ==
  /\ E \in Seq(TargetEntries)
  /\ i \in 1..(Len(E) + 1)
  /\ \A j \in 1..(i - 1) : WellFormed(E[j])
  /\ c # None => /\ i <= Len(E)
                 /\ WellFormed(E[i])
                 /\ c.n \in Low(E[i])..High(E[i])
                 /\ c = At(E[i], c.n)

(* What comes before c: the earlier entries, and the places below c.n.     *)
Expanded(E, i, c) ==
  DenotedBy(E, i - 1)
  \cup (IF c = None THEN {} ELSE {At(E[i], k) : k \in Low(E[i])..(c.n - 1)})

(* Of the entry itself this many addresses have been visited. *)
Visited(E, i, c) == IF c = None THEN 0 ELSE c.n - Low(E[i])

(* Entry k is the first that stands for t. *)
Names(E, t, k) ==
  /\ k \in 1..Len(E)
  /\ t \in Denotes(E[k])
  /\ \A j \in 1..(k - 1) : t \notin Denotes(E[j])

InOrigins(E, s) ==
  /\ \A k \in 1..Len(s) : Names(E, s[k], Origin(E, s[k]))
  /\ \A k, l \in 1..Len(s) : k < l =>
       LET first == Origin(E, s[k])
           later == Origin(E, s[l])
       IN  first < later \/ (first = later /\ s[k].n < s[l].n)

Gathered(E, i, c, s) ==
  /\ s \in Seq(Places)
  /\ IsInjective(s)
  /\ ToSet(s) = Expanded(E, i, c)
  /\ InOrigins(E, s)

(* How add goes on from there. *)
NextPlace(E, i, c) == After(E[i], c)
NextIndex(E, i, c) == IF NextPlace(E, i, c) = None THEN i + 1 ELSE i
Extended(s, c)     == IF c \in ToSet(s) THEN s ELSE Append(s, c)

(* There is at most one first entry. *)
LEMMA OriginNamed ==
  ASSUME NEW E \in Seq(TargetEntries), NEW t, NEW k, Names(E, t, k)
  PROVE  Origin(E, t) = k
<1>1. DOMAIN E = 1..Len(E) /\ Len(E) \in Nat
  OBVIOUS
<1>2. \A l \in DOMAIN E :
        t \in Denotes(E[l]) /\ (\A j \in 1..(l - 1) : t \notin Denotes(E[j])) => l = k
  <2> SUFFICES ASSUME NEW l \in DOMAIN E, t \in Denotes(E[l]),
                      \A j \in 1..(l - 1) : t \notin Denotes(E[j])
               PROVE  l = k
    OBVIOUS
  <2>1. k \in 1..Len(E) /\ l \in 1..Len(E)
    BY <1>1 DEF Names
  <2>2. ~(l < k)
    BY <2>1 DEF Names
  <2>3. ~(k < l)
    BY <2>1 DEF Names
  <2> QED
    BY <2>1, <2>2, <2>3
<1> QED
  BY <1>1, <1>2 DEF Names, Origin

(* The step to the next address moves c to what came before. *)
LEMMA Moved ==
  ASSUME NEW E, NEW i, NEW c, Position(E, i, c), c # None
  PROVE  LET next == NextPlace(E, i, c)
             j    == NextIndex(E, i, c)
         IN  /\ Position(E, j, next)
             /\ Expanded(E, j, next) = Expanded(E, i, c) \cup {c}
             /\ next # None => Visited(E, j, next) = Visited(E, i, c) + 1
             /\ next = None => c.n = High(E[i])
             /\ next = After(E[i], c)
<1> DEFINE next == NextPlace(E, i, c)
           j == NextIndex(E, i, c)
           e == E[i]
           low == Low(e)
           high == High(e)
           n == c.n
<1>1. /\ e \in TargetEntries /\ WellFormed(e) /\ i \in 1..Len(E) /\ Len(E) \in Nat
      /\ n \in low..high /\ c = At(e, n) /\ E \in Seq(TargetEntries)
      /\ \A l \in 1..(i - 1) : WellFormed(E[l])
  BY DEF Position
<1>2. low \in Nat /\ high \in Nat /\ n \in Nat
  BY <1>1, Bounds
<1>0. next = After(e, c) /\ j = IF next = None THEN i + 1 ELSE i
  BY DEF NextPlace, NextIndex
<1> HIDE DEF next, j
<1>3. next = IF n < high THEN At(e, n + 1) ELSE None
  BY <1>0, <1>1, Following
<1>4. Expanded(E, i, c) = DenotedBy(E, i - 1) \cup {At(e, k) : k \in low..(n - 1)}
  BY DEF Expanded
<1>5. Visited(E, i, c) = n - low
  BY DEF Visited
<1>8. /\ Position(E, j, next)
      /\ Expanded(E, j, next) = Expanded(E, i, c) \cup {c}
      /\ next # None => Visited(E, j, next) = Visited(E, i, c) + 1
      /\ next = None => c.n = High(E[i])
  <2>1. CASE n < high
    <3> DEFINE m == n + 1
    <3>0. m \in Nat /\ m \in low..high
      BY <1>1, <1>2, <2>1
    <3>1. next = At(e, m)
      BY <1>3, <2>1
    <3>2. next # None /\ next.n = m
      <4> HIDE DEF m
      <4>1. At(e, m).n = m /\ At(e, m) # None
        BY <1>1, <3>0, PlaceNumbered
      <4> QED
        BY <3>1, <4>1
    <3>3. Position(E, i, next)
      BY <1>1, <3>0, <3>1, <3>2 DEF Position
    <3>4. low..(m - 1) = low..(n - 1) \cup {n}
      BY <1>1, <1>2
    <3>5. Expanded(E, i, next) = DenotedBy(E, i - 1) \cup {At(e, k) : k \in low..(m - 1)}
      BY <3>2 DEF Expanded
    <3>6. Expanded(E, i, next) = Expanded(E, i, c) \cup {c}
      BY <1>1, <1>4, <3>4, <3>5
    <3>7. Visited(E, i, next) = n - low + 1
      BY <3>2, <1>2 DEF Visited
    <3>8. j = i /\ ~(next = None)
      BY <1>0, <3>2
    <3> QED
      BY <1>5, <3>3, <3>6, <3>7, <3>8
  <2>2. CASE ~(n < high)
    <3>1. next = None /\ n = high
      BY <1>1, <1>2, <1>3, <2>2
    <3>2. Position(E, i + 1, next)
      <4>1. \A l \in 1..i : WellFormed(E[l])
        BY <1>1
      <4> QED
        BY <1>1, <3>1, <4>1 DEF Position
    <3>3. DenotedBy(E, i) = DenotedBy(E, i - 1) \cup {At(e, k) : k \in low..high}
      BY <1>1, DenotedNext, Denoted
    <3>4. low..high = low..(n - 1) \cup {n}
      BY <1>1, <1>2, <3>1
    <3>5. Expanded(E, i + 1, next) = DenotedBy(E, i)
      BY <1>1, <3>1 DEF Expanded
    <3>6. Expanded(E, i + 1, next) = Expanded(E, i, c) \cup {c}
      BY <1>1, <1>4, <3>3, <3>4, <3>5
    <3>7. j = i + 1
      BY <1>0, <3>1
    <3> QED
      BY <3>1, <3>2, <3>6, <3>7
  <2> QED
    BY <2>1, <2>2
<1> QED
  BY <1>0, <1>8 DEF next, j

(* The cursor is a place of its entry. *)
LEMMA CursorPlaced ==
  ASSUME NEW E, NEW i, NEW c, Position(E, i, c), c # None
  PROVE  /\ c \in Places /\ c \in Denotes(E[i]) /\ c.n \in Nat
         /\ i \in 1..Len(E) /\ E[i] \in TargetEntries /\ WellFormed(E[i])
         /\ Low(E[i]) \in Nat /\ High(E[i]) \in Nat
         /\ c.n \in Low(E[i])..High(E[i])
<1> DEFINE n == c.n
<1>1. /\ i \in 1..Len(E) /\ E[i] \in TargetEntries /\ WellFormed(E[i])
      /\ n \in Low(E[i])..High(E[i]) /\ c = At(E[i], n)
  BY DEF Position
<1>2. E[i].at \in Places /\ Low(E[i]) \in Nat /\ High(E[i]) \in Nat /\ n \in Nat
  BY <1>1, Bounds
<1>3. c \in Places
  <2> HIDE DEF n
  <2>1. With(E[i].at, n) \in Places
    BY <1>2, Renumbered
  <2> QED
    BY <1>1, <2>1 DEF At
<1>4. c \in Denotes(E[i])
  BY <1>1, Denoted
<1> QED
  BY <1>1, <1>2, <1>3, <1>4

(* What is not known yet is named first by the entry at hand ... *)
LEMMA FreshNamed ==
  ASSUME NEW E, NEW i, NEW c, Position(E, i, c), c # None,
         c \notin Expanded(E, i, c)
  PROVE  Names(E, c, i)
<1>1. i \in 1..Len(E) /\ c \in Denotes(E[i])
  BY CursorPlaced
<1>2. c \notin DenotedBy(E, i - 1)
  BY DEF Expanded
<1> QED
  BY <1>1, <1>2, DenotedMember DEF Names

(* ... and comes after everything that is. *)
LEMMA FreshLast ==
  ASSUME NEW E, NEW i, NEW c, Position(E, i, c), c # None,
         NEW t \in Expanded(E, i, c), NEW o, Names(E, t, o)
  PROVE  o < i \/ (o = i /\ t.n < c.n)
<1> DEFINE e == E[i]
<1>1. /\ e \in TargetEntries /\ WellFormed(e) /\ Low(e) \in Nat /\ i \in 1..Len(E)
      /\ c.n \in Nat /\ o \in 1..Len(E) /\ High(e) \in Nat /\ c.n \in Low(e)..High(e)
  BY CursorPlaced DEF Names
<1>2. CASE t \in DenotedBy(E, i - 1)
  <2>1. PICK j \in 1..(i - 1) : t \in Denotes(E[j])
    BY <1>2, DenotedMember
  <2>2. ~(j < o)
    BY <1>1, <2>1 DEF Names
  <2> QED
    BY <1>1, <2>1, <2>2
<1>3. CASE t \notin DenotedBy(E, i - 1)
  <2>1. PICK k \in Low(e)..(c.n - 1) : t = At(e, k)
    BY <1>3 DEF Expanded
  <2>2. k \in Nat /\ k < c.n /\ k \in Low(e)..High(e)
    BY <1>1
  <2>3. t.n = k /\ t \in Denotes(e)
    BY <1>1, <2>1, <2>2, PlaceNumbered, Denoted
  <2>4. ~(i < o)
    BY <1>1, <2>3 DEF Names
  <2> QED
    BY <1>1, <2>2, <2>3, <2>4
<1> QED
  BY <1>2, <1>3

(* The list after add, if the target may be added. *)
LEMMA Taken ==
  ASSUME NEW E, NEW i, NEW c, NEW s, Position(E, i, c), c # None,
         Gathered(E, i, c, s)
  PROVE  /\ Gathered(E, NextIndex(E, i, c), NextPlace(E, i, c), Extended(s, c))
         /\ Len(s) \in Nat
         /\ c \notin ToSet(s) => Len(Extended(s, c)) = Len(s) + 1
<1> DEFINE r == Extended(s, c)
           X == Expanded(E, i, c)
<1>1. /\ s \in Seq(Places) /\ IsInjective(s) /\ ToSet(s) = X /\ InOrigins(E, s)
      /\ c \in Places /\ E \in Seq(TargetEntries)
  BY CursorPlaced DEF Gathered, Position
<1>2. Expanded(E, NextIndex(E, i, c), NextPlace(E, i, c)) = X \cup {c}
  BY Moved
<1>3. CASE c \in ToSet(s)
  BY <1>1, <1>2, <1>3 DEF Extended, Gathered
<1>4. CASE c \notin ToSet(s)
  <2> DEFINE n == Len(s)
  <2>1. /\ r \in Seq(Places) /\ Len(r) = n + 1 /\ n \in Nat
        /\ \A k \in 1..n : r[k] = s[k]
        /\ r[n + 1] = c
        /\ ToSet(r) = ToSet(s) \cup {c}
        /\ IsInjective(r)
    BY <1>1, <1>4, AppendSet, StaysInjective DEF Extended
  <2>2. /\ \A k \in 1..n : s[k] \in X
        /\ \A k \in 1..n : Names(E, s[k], Origin(E, s[k]))
    BY <1>1, ListSet DEF InOrigins
  <2>3. Names(E, c, i) /\ Origin(E, c) = i
    BY <1>1, <1>4, FreshNamed, OriginNamed
  <2>4. \A k \in 1..n : LET o == Origin(E, s[k]) IN o < i \/ (o = i /\ s[k].n < c.n)
    BY <2>2, FreshLast
  <2> HIDE DEF r, X, n
  <2>5. ASSUME NEW k \in 1..(n + 1)
        PROVE  Names(E, r[k], Origin(E, r[k]))
    <3>1. k \in 1..n \/ k = n + 1
      BY <2>1
    <3> QED
      BY <2>1, <2>2, <2>3, <3>1
  <2>6. ASSUME NEW k \in 1..(n + 1), NEW l \in 1..(n + 1), k < l
        PROVE  LET first == Origin(E, r[k])
                   later == Origin(E, r[l])
               IN  first < later \/ (first = later /\ r[k].n < r[l].n)
    <3>1. k \in 1..n /\ (l \in 1..n \/ l = n + 1)
      BY <2>1, <2>6
    <3>2. CASE l \in 1..n
      BY <1>1, <2>1, <2>6, <3>1, <3>2 DEF InOrigins, n
    <3>3. CASE l = n + 1
      BY <2>1, <2>3, <2>4, <3>1, <3>3
    <3> QED
      BY <3>1, <3>2, <3>3
  <2>7. InOrigins(E, r)
    BY <2>1, <2>5, <2>6 DEF InOrigins
  <2> QED
    BY <1>1, <1>2, <2>1, <2>7 DEF Gathered, r, n
<1> QED
  BY <1>1, <1>3, <1>4, ListSet

(* So many addresses of an entry have been visited, and no more than there *)
(* are targets in the list, whoever has added them.                        *)
LEMMA VisitedListed ==
  ASSUME NEW E, NEW i, NEW c, NEW s, Position(E, i, c), Gathered(E, i, c, s)
  PROVE  Visited(E, i, c) \in Nat /\ Visited(E, i, c) <= Len(s)
<1>0. s \in Seq(Places) /\ Len(s) \in Nat /\ ToSet(s) = Expanded(E, i, c)
  BY DEF Gathered
<1>1. CASE c = None
  BY <1>0, <1>1 DEF Visited
<1>2. CASE c # None
  <2> DEFINE e == E[i]
             low == Low(e)
             n == c.n
  <2>1. /\ e \in TargetEntries /\ WellFormed(e) /\ low \in Nat /\ n \in Nat
        /\ n \in low..High(e) /\ High(e) \in Nat
    BY <1>2, CursorPlaced
  <2>2. \A k \in low..(n - 1) : At(e, k) \in ToSet(s)
    BY <1>0, <1>2 DEF Expanded
  <2>3. n - 1 \in Int /\ low <= n - 1 + 1
    BY <2>1
  <2> HIDE DEF e, low, n
  <2>4. n - 1 - low + 1 <= Len(s)
    BY <1>0, <2>1, <2>2, <2>3, Crowd
  <2>5. n - low \in Nat /\ n - low <= Len(s)
    BY <1>0, <2>1, <2>4
  <2> QED
    BY <1>2, <2>5 DEF Visited, e, low, n
<1> QED
  BY <1>1, <1>2
-----------------------------------------------------------------------------
(* Configurations, and the options that are put over them. *)

Ranges == [first : Int, last : Int]

(* What the flag package makes of a flag has the type of the flag. *)
CommandTyped ==
  \A flag \in DOMAIN command.flags :
    /\ flag = "host" => command.flags[flag] \in TargetEntries
    /\ flag \in {"start", "end"} => command.flags[flag] \in Int
    /\ flag \in {"v", "vv", "vvv"} => command.flags[flag] \in BOOLEAN

TypeInv ==
  /\ IsConfig(config) /\ IsConfig(file.settings)
  /\ CommandTyped
  /\ options.host \subseteq TargetEntries
  /\ options.ports \subseteq Ranges

LEMMA TypeInit == Init => TypeInv
<1> SUFFICES ASSUME Init PROVE TypeInv
  OBVIOUS
<1>1. PICK s \in Starts : command = s.command /\ file = s.file
  BY DEF Init
<1>2. IsConfig(s.file.settings) /\ CommandTyped
  BY <1>1, StartsAssumption DEF CommandTyped
<1>3. IsConfig(config)
  BY DefaultAssumption DEF Init
<1>4. options.host = {} /\ options.ports = {}
  BY DEF Init
<1> QED
  BY <1>1, <1>2, <1>3, <1>4 DEF TypeInv

(* What cli.Parse makes of the flags. *)
LEMMA OptionsTyped ==
  ASSUME CommandTyped
  PROVE  Options.host \subseteq TargetEntries /\ Options.ports \subseteq Ranges
<1>1. Options.host = Optional("host")
  BY DEF Options
<1>2. Optional("host") \subseteq TargetEntries
  BY DEF Optional, Given, CommandTyped
<1>3. Options.ports = IF Given("start") \/ Given("end")
                      THEN {[first |-> Value("start", 1), last |-> Value("end", MaxPort)]}
                      ELSE {}
  BY DEF Options
<1>4. Value("start", 1) \in Int /\ Value("end", MaxPort) \in Int
  BY MaxPortAssumption DEF Value, Given, CommandTyped
<1>5. [first |-> Value("start", 1), last |-> Value("end", MaxPort)] \in Ranges
  BY <1>4 DEF Ranges
<1> QED
  BY <1>1, <1>2, <1>3, <1>5

LEMMA OverMember ==
  ASSUME NEW S, NEW option \in SUBSET S, option # {}, NEW other
  PROVE  Over(option, other) \in S
BY DEF Over

(* A configuration with options put over it is one. *)
LEMMA MergedTyped ==
  ASSUME TypeInv
  PROVE  IsConfig(Merged)
<1>0. /\ config.probing \in BOOLEAN
      /\ config.probes \in Seq([name : STRING, enabled : BOOLEAN,
                               ports : Seq([first : Int, last : Int])])
  BY DEF TypeInv, IsConfig
<1>1. /\ Merged.targets = IF options.host = {} THEN config.targets
                          ELSE <<Over(options.host, None)>>
      /\ Merged.ports = IF options.ports = {} THEN config.ports
                        ELSE <<Over(options.ports, None)>>
      /\ Merged.max = config.max
      /\ Merged.probing = config.probing /\ Merged.probes = config.probes
  BY DEF Merged
<1>2. config.targets \in Seq(TargetEntries) /\ config.ports \in Seq(Ranges) /\ config.max \in Int
  BY DEF TypeInv, IsConfig, Ranges
<1>3. Merged.targets \in Seq(TargetEntries)
  <2>1. CASE options.host = {}
    BY <1>1, <1>2, <2>1
  <2>2. CASE options.host # {}
    <3>1. Over(options.host, None) \in TargetEntries
      BY <2>2, OverMember DEF TypeInv
    <3> QED
      BY <1>1, <2>2, <3>1
  <2> QED
    BY <2>1, <2>2
<1>4. Merged.ports \in Seq(Ranges)
  <2>1. CASE options.ports = {}
    BY <1>1, <1>2, <2>1
  <2>2. CASE options.ports # {}
    <3>1. Over(options.ports, None) \in Ranges
      BY <2>2, OverMember DEF TypeInv
    <3> QED
      BY <1>1, <2>2, <3>1
  <2> QED
    BY <2>1, <2>2
<1> QED
  BY <1>0, <1>1, <1>2, <1>3, <1>4 DEF IsConfig, Ranges

(* The steps that touch neither the configuration nor the options. *)
LEMMA LaterSteps ==
  ASSUME ValidateTargets \/ StartEntry \/ Visit \/ ValidatePorts \/ StartRange
         \/ VisitPort \/ PortsExpanded \/ StartProbeRange \/ VisitProbePort
         \/ NextDefinition \/ Ready \/ (Ended /\ UNCHANGED vars) \/ UNCHANGED vars
  PROVE  UNCHANGED <<command, file, options, config, pass>>
<1>1. CASE ValidateTargets \/ StartEntry \/ ValidatePorts
  BY <1>1 DEF ValidateTargets, StartEntry, ValidatePorts, Refuse, startup, subject
<1>2. CASE Visit
  BY <1>2 DEF Visit, Add, Advance, Refuse, startup, subject
<1>3. CASE StartRange \/ VisitPort \/ PortsExpanded
  BY <1>3 DEF StartRange, VisitPort, PortsExpanded, startup, subject
<1>4. CASE StartProbeRange \/ VisitProbePort \/ NextDefinition \/ Ready
  BY <1>4 DEF StartProbeRange, VisitProbePort, NextDefinition, Ready, startup, subject
<1>5. CASE UNCHANGED vars
  BY <1>5 DEF vars, startup, subject
<1> QED
  BY <1>1, <1>2, <1>3, <1>4, <1>5

(* Every step keeps the types. *)
LEMMA TypeStep ==
  ASSUME TypeInv, [Next]_vars
  PROVE  TypeInv'
<1>1. CASE Parse
  <2>1. UNCHANGED <<command, file, config>> /\ options' \in {options, Options}
    BY <1>1 DEF Parse, subject
  <2>2. CommandTyped'
    BY <2>1 DEF TypeInv, CommandTyped
  <2>3. options'.host \subseteq TargetEntries /\ options'.ports \subseteq Ranges
    BY <2>1, OptionsTyped DEF TypeInv
  <2> QED
    BY <2>1, <2>2, <2>3 DEF TypeInv
<1>2. CASE LoadFile
  <2>1. UNCHANGED <<command, file, options>> /\ config' \in {config, file.settings}
    BY <1>2 DEF LoadFile, startup
  <2> QED
    BY <2>1 DEF TypeInv, CommandTyped
<1>3. CASE Merge
  <2>1. UNCHANGED <<command, file, options>> /\ config' = Merged
    BY <1>3 DEF Merge, startup
  <2>2. IsConfig(config')
    BY <2>1, MergedTyped
  <2> QED
    BY <2>1, <2>2 DEF TypeInv, CommandTyped
<1>4. CASE UNCHANGED <<command, file, options, config>>
  BY <1>4 DEF TypeInv, CommandTyped
<1> QED
  BY <1>1, <1>2, <1>3, <1>4, LaterSteps DEF Next
-----------------------------------------------------------------------------
(* The targets.  While they are expanded, the list is that of the places   *)
(* before the cursor; from then on it is that of all the entries.          *)

(* The list stands for all the entries of c. *)
Whole(c, s) ==
  /\ c.targets # <<>>
  /\ Position(c.targets, Len(c.targets) + 1, None)
  /\ Gathered(c.targets, Len(c.targets) + 1, None, s)
  /\ Len(s) <= c.max

(* No target is there twice, and there are at most max_targets, also in    *)
(* the middle of the expansion.                                            *)
TargetsDistinct ==
  /\ \A i, j \in 1..Len(targets) : targets[i] = targets[j] => i = j
  /\ targets # <<>> => Len(targets) <= config.max

(* The reasons to call a configuration invalid. *)
Faulty(c) ==
  \/ c.targets = <<>> \/ c.max < 1
  \/ \E k \in DOMAIN c.targets : ~WellFormed(c.targets[k])
  \/ ~ValidRest(c)

SizeInv ==
  /\ TargetsDistinct
  /\ WorkBounded

ExpandInv ==
  /\ stage \in {"started", "parsed", "loaded"} => targets = <<>> /\ work = 0
  /\ stage \in {"started", "parsed", "loaded", "merge"} => index = 1 /\ cursor = None
  /\ stage = "targets" =>
       /\ config.max >= 1 /\ config.targets # <<>>
       /\ Position(config.targets, index, cursor)
       /\ Gathered(config.targets, index, cursor, targets)
       /\ work \in Nat
       /\ work <= config.max * (index - 1) + Visited(config.targets, index, cursor)
  /\ stage \in {"ports", "probes", "ready"} => Whole(config, targets)
  /\ stage = "too_many" =>
       Cardinality(DenotedBy(config.targets, index)) > config.max
  /\ stage = "invalid" => Faulty(config)
  /\ SizeInv

LEMMA SizesOfNone ==
  ASSUME targets = <<>>, work = 0
  PROVE  SizeInv
BY DEF SizeInv, TargetsDistinct, WorkBounded

LEMMA Distinct ==
  ASSUME NEW S, NEW s \in Seq(S)
  PROVE  /\ IsInjective(s) <=> \A i, j \in 1..Len(s) : s[i] = s[j] => i = j
         /\ Len(s) \in Nat
BY DEF IsInjective

LEMMA ExpandInit == Init => ExpandInv
<1> SUFFICES ASSUME Init PROVE ExpandInv
  OBVIOUS
<1>1. targets = <<>> /\ work = 0 /\ index = 1 /\ cursor = None /\ stage = "started"
  BY DEF Init
<1> QED
  BY <1>1, SizesOfNone DEF ExpandInv

(* The two outcomes of a call of add. *)
VisitTakes ==
  /\ cursor \in ToSet(targets) \/ ~(Len(targets) >= config.max)
  /\ targets' = Extended(targets, cursor)
  /\ cursor' = NextPlace(config.targets, index, cursor)
  /\ index' = NextIndex(config.targets, index, cursor)
  /\ stage' = "targets"

VisitRefuses ==
  /\ cursor \notin ToSet(targets) /\ Len(targets) >= config.max
  /\ targets' = targets /\ index' = index
  /\ stage' = "too_many"

(* A call of add takes the target or refuses it. *)
LEMMA VisitOutcome ==
  ASSUME ExpandInv, Visit
  PROVE  /\ stage = "targets" /\ cursor # None /\ work' = work + 1 /\ config' = config
         /\ VisitTakes \/ VisitRefuses
<1>1. stage = "targets" /\ cursor # None /\ work' = work + 1 /\ Add
  BY DEF Visit
<1>2. targets \in Seq(Places)
  BY <1>1 DEF ExpandInv, Gathered
<1>3. Known(cursor) <=> cursor \in ToSet(targets)
  BY <1>2, ListSet DEF Known
<1>4. Advance => /\ cursor' = NextPlace(config.targets, index, cursor)
                 /\ index' = NextIndex(config.targets, index, cursor)
  BY DEF Advance, NextPlace, NextIndex
<1>5. CASE Known(cursor)
  <2>1. Advance /\ UNCHANGED <<config, stage, targets>>
    BY <1>1, <1>5 DEF Add, subject, lists
  <2> QED
    BY <1>1, <1>3, <1>4, <1>5, <2>1 DEF VisitTakes, Extended
<1>6. CASE ~Known(cursor) /\ Len(targets) >= config.max
  <2>1. stage' = "too_many" /\ UNCHANGED <<config, targets, index>>
    BY <1>1, <1>6 DEF Add, Refuse, subject, place, lists
  <2> QED
    BY <1>1, <1>3, <1>6, <2>1 DEF VisitRefuses
<1>7. CASE ~Known(cursor) /\ ~(Len(targets) >= config.max)
  <2>1. Advance /\ targets' = Append(targets, cursor) /\ UNCHANGED <<config, stage>>
    BY <1>1, <1>7 DEF Add, subject
  <2> QED
    BY <1>1, <1>3, <1>4, <1>7, <2>1 DEF VisitTakes, Extended
<1> QED
  BY <1>5, <1>6, <1>7

LEMMA TimesSwap ==
  ASSUME NEW a \in Int, NEW b \in Int
  PROVE  a * b = b * a
OBVIOUS

(* So much work fits the bound, as long as there is an entry at hand. *)
LEMMA WorkFits ==
  ASSUME NEW max \in Nat, NEW n \in Nat, NEW i \in 1..n, NEW w \in Int,
         w <= max * (i - 1) + max + 1
  PROVE  w <= n * (max + 1)
<1>1. max * (i - 1) + max = max * i
  <2>1. max * ((i - 1) + 1) = max * (i - 1) + max
    BY TimesNext
  <2> QED
    BY <2>1
<1>2. max * i <= max * n
  BY TimesLess
<1>3. n * (max + 1) = n * max + n /\ n * max = max * n
  BY TimesNext, TimesSwap
<1>4. max * i \in Int /\ max * n \in Int /\ max * (i - 1) \in Int
  OBVIOUS
<1> QED
  BY <1>1, <1>2, <1>3, <1>4

(* What is there in the middle of the expansion. *)
LEMMA AtCursor ==
  ASSUME TypeInv, ExpandInv, stage = "targets", cursor # None
  PROVE  /\ Position(config.targets, index, cursor)
         /\ Gathered(config.targets, index, cursor, targets)
         /\ config.max \in Nat \ {0} /\ Len(config.targets) \in Nat
         /\ index \in 1..Len(config.targets)
         /\ targets \in Seq(Places) /\ Len(targets) \in Nat /\ Len(targets) <= config.max
         /\ Visited(config.targets, index, cursor) \in 0..Len(targets)
         /\ work \in Nat
         /\ work <= config.max * (index - 1) + Visited(config.targets, index, cursor)
         /\ config.max * (index - 1) \in Int
<1>1. /\ Position(config.targets, index, cursor)
      /\ Gathered(config.targets, index, cursor, targets)
      /\ work \in Nat
      /\ work <= config.max * (index - 1) + Visited(config.targets, index, cursor)
      /\ config.max >= 1
  BY DEF ExpandInv
<1>2. config.max \in Nat \ {0}
  BY <1>1 DEF TypeInv, IsConfig
<1>3. index \in 1..Len(config.targets) /\ Len(config.targets) \in Nat
  BY <1>1, CursorPlaced DEF Position
<1>4. targets \in Seq(Places) /\ Len(targets) \in Nat
  BY <1>1 DEF Gathered
<1>5. Len(targets) <= config.max
  <2>1. CASE targets = <<>>
    BY <1>2, <2>1
  <2>2. CASE targets # <<>>
    BY <2>2 DEF ExpandInv, SizeInv, TargetsDistinct
  <2> QED
    BY <2>1, <2>2
<1>6. Visited(config.targets, index, cursor) \in 0..Len(targets)
  BY <1>1, <1>4, VisitedListed
<1>7. config.max * (index - 1) \in Int
  BY <1>2, <1>3
<1> QED
  BY <1>1, <1>2, <1>3, <1>4, <1>5, <1>6, <1>7

(* The work stays within its bound, also if add refuses. *)
LEMMA VisitWork ==
  ASSUME TypeInv, ExpandInv, stage = "targets", cursor # None
  PROVE  work + 1 <= Len(config.targets) * (config.max + 1)
<1> DEFINE v == Visited(config.targets, index, cursor)
           m == config.max * (index - 1)
           l == Len(targets)
<1>1. /\ config.max \in Nat /\ Len(config.targets) \in Nat
      /\ index \in 1..Len(config.targets) /\ work \in Nat
      /\ v \in 0..l /\ l \in Nat /\ l <= config.max /\ m \in Int /\ work <= m + v
  BY AtCursor
<1>2. work + 1 <= m + config.max + 1 /\ work + 1 \in Int
  <2> HIDE DEF m, v, l
  <2> QED
    BY <1>1
<1> QED
  BY <1>1, <1>2, WorkFits

(* A target is taken, or is known already. *)
LEMMA VisitTakesKeeps ==
  ASSUME TypeInv, ExpandInv, Visit, VisitTakes
  PROVE  ExpandInv'
<1> DEFINE E == config.targets
           max == config.max
           i == index
           c == cursor
           j == NextIndex(E, i, c)
           next == NextPlace(E, i, c)
           r == Extended(targets, c)
           v == Visited(E, i, c)
           m == max * (i - 1)
           e == E[i]
<1>1. stage = "targets" /\ c # None /\ work' = work + 1 /\ config' = config
  BY VisitOutcome
<1>2. /\ Position(E, i, c) /\ Gathered(E, i, c, targets)
      /\ max \in Nat \ {0} /\ Len(E) \in Nat /\ i \in 1..Len(E)
      /\ Len(targets) \in Nat /\ Len(targets) <= max
      /\ v \in 0..Len(targets) /\ m \in Int /\ work \in Nat /\ work <= m + v
  BY <1>1, AtCursor
<1>3. /\ Position(E, j, next)
      /\ Expanded(E, j, next) = Expanded(E, i, c) \cup {c}
      /\ next # None => Visited(E, j, next) = v + 1
      /\ next = None => c.n = High(e)
  BY <1>1, <1>2, Moved
<1>4. Gathered(E, j, next, r) /\ r \in Seq(Places) /\ Len(r) \in Nat /\ IsInjective(r)
  <2>1. Gathered(E, j, next, r)
    BY <1>1, <1>2, Taken, Zenon
  <2>2. r \in Seq(Places) /\ IsInjective(r)
    BY <2>1, Zenon DEF Gathered
  <2>3. Len(r) \in Nat
    BY <2>2, SMT
  <2> QED
    BY <2>1, <2>2, <2>3
<1>5. Len(r) <= max
  <2>1. CASE c \in ToSet(targets)
    BY <1>2, <2>1 DEF Extended
  <2>2. CASE c \notin ToSet(targets)
    <3>1. Len(r) = Len(targets) + 1
      BY <1>1, <1>2, <2>2, Taken
    <3> QED
      BY <1>2, <2>2, <3>1 DEF VisitTakes
  <2> QED
    BY <2>1, <2>2
<1>6. work + 1 <= max * (j - 1) + Visited(E, j, next)
  <2>1. CASE next # None
    <3>1. j = i /\ Visited(E, j, next) = v + 1
      BY <1>3, <2>1 DEF NextIndex
    <3>2. max * (j - 1) = m
      BY <3>1
    <3> HIDE DEF j, next, v, m
    <3> QED
      BY <1>2, <3>1, <3>2
  <2>2. CASE next = None
    <3>1. j = i + 1 /\ Visited(E, j, next) = 0
      BY <2>2 DEF NextIndex, Visited
    <3>2. /\ e \in TargetEntries /\ WellFormed(e) /\ Low(e) \in Nat /\ High(e) \in Nat
          /\ v = High(e) - Low(e) /\ Low(e) <= High(e) + 1
      BY <1>1, <1>2, <1>3, <2>2, CursorPlaced DEF Visited
    <3>3. \A k \in Low(e)..High(e) : At(e, k) \in ToSet(r)
      <4>1. ToSet(r) = DenotedBy(E, i)
        BY <1>2, <1>4, <2>2, <3>1 DEF Gathered, Expanded
      <4>2. DenotedBy(E, i) = DenotedBy(E, i - 1) \cup Denotes(e)
        <5>1. i \in Nat \ {0}
          BY <1>2
        <5> QED
          BY <5>1, DenotedNext
      <4> QED
        BY <3>2, <4>1, <4>2, Denoted
    <3>4. High(e) - Low(e) + 1 <= Len(r)
      <4> HIDE DEF e, r
      <4>1. High(e) \in Int
        BY <3>2
      <4> QED
        BY <1>4, <3>2, <3>3, <4>1, Crowd
    <3>5. max * (j - 1) = m + max
      <4>1. max * ((i - 1) + 1) = max * (i - 1) + max
        BY <1>2, TimesNext
      <4>2. j - 1 = (i - 1) + 1
        BY <1>2, <3>1
      <4> QED
        BY <4>1, <4>2
    <3>6. work + 1 <= m + max /\ m + max \in Int
      <4> DEFINE l == Len(r)
      <4> HIDE DEF v, m, e, r, max
      <4>1. v + 1 <= l
        BY <3>2, <3>4
      <4>2. l \in Nat /\ l <= max /\ max \in Nat /\ m \in Int /\ work \in Nat /\ v \in Int
        BY <1>2, <1>4, <1>5
      <4>3. work <= m + v
        BY <1>2
      <4> HIDE DEF l
      <4> QED
        BY <4>1, <4>2, <4>3
    <3>7. m + max + 0 = m + max
      BY <3>6
    <3>8. max * (j - 1) + Visited(E, j, next) = m + max + 0
      BY <3>1, <3>5
    <3> HIDE DEF j, next, m
    <3> QED
      BY <3>6, <3>7, <3>8
  <2> QED
    BY <2>1, <2>2
<1>7. work + 1 <= Len(E) * (max + 1) /\ work + 1 \in Nat
  BY <1>1, <1>2, VisitWork
<1>8. targets' = r /\ cursor' = next /\ index' = j /\ stage' = "targets"
  BY DEF VisitTakes
<1>9. SizeInv'
  <2> HIDE DEF E, r, max
  <2>1. \A a, b \in 1..Len(r) : r[a] = r[b] => a = b
    BY <1>4, Distinct
  <2> QED
    BY <1>1, <1>5, <1>7, <1>8, <2>1 DEF SizeInv, TargetsDistinct, WorkBounded, E, max
<1> HIDE DEF next, j, r
<1> QED
  BY <1>1, <1>2, <1>3, <1>4, <1>6, <1>7, <1>8, <1>9 DEF ExpandInv

(* A target is refused: the entries stand for too many. *)
LEMMA VisitRefusesKeeps ==
  ASSUME TypeInv, ExpandInv, Visit, VisitRefuses
  PROVE  ExpandInv'
<1> DEFINE E == config.targets
           i == index
           c == cursor
           s == targets
           D == DenotedBy(E, i)
<1>1. stage = "targets" /\ c # None /\ work' = work + 1 /\ config' = config
  BY VisitOutcome
<1>2. /\ Position(E, i, c) /\ Gathered(E, i, c, s)
      /\ config.max \in Nat \ {0} /\ Len(E) \in Nat /\ i \in 1..Len(E)
      /\ s \in Seq(Places) /\ Len(s) \in Nat /\ Len(s) <= config.max /\ work \in Nat
  BY <1>1, AtCursor
<1>3. c \notin ToSet(s) /\ Len(s) >= config.max /\ stage' = "too_many"
      /\ targets' = targets /\ index' = index
  BY DEF VisitRefuses
<1>4. Cardinality(D) > config.max
  <2> DEFINE r == Append(s, c)
  <2>1. /\ c \in Places /\ c \in Denotes(E[i]) /\ E \in Seq(TargetEntries) /\ WellFormed(E[i])
        /\ \A j \in 1..(i - 1) : WellFormed(E[j])
    BY <1>1, <1>2, CursorPlaced DEF Position
  <2>2. /\ r \in Seq(Places) /\ Len(r) = Len(s) + 1 /\ ToSet(r) = ToSet(s) \cup {c}
        /\ IsInjective(r)
    BY <1>2, <1>3, <2>1, AppendSet, StaysInjective DEF Gathered
  <2>3. Cardinality(ToSet(r)) = Len(s) + 1
    BY <2>2, ListCounts
  <2>4. IsFiniteSet(D)
    <3>1. \A j \in 1..i : E[j] \in TargetEntries /\ WellFormed(E[j])
      BY <1>2, <2>1
    <3>2. i \in Nat
      BY <1>2
    <3> QED
      BY <3>1, <3>2, DenotedFinite
  <2>5. ToSet(r) \subseteq D
    <3>1. D = DenotedBy(E, i - 1) \cup Denotes(E[i])
      BY <1>2, DenotedNext
    <3>2. {At(E[i], k) : k \in Low(E[i])..(c.n - 1)} \subseteq Denotes(E[i])
      <4>1. /\ c.n \in Low(E[i])..High(E[i]) /\ Low(E[i]) \in Nat /\ High(E[i]) \in Nat
            /\ c.n \in Nat /\ E[i] \in TargetEntries /\ WellFormed(E[i])
        BY <1>1, <1>2, CursorPlaced
      <4>2. \A k \in Low(E[i])..(c.n - 1) : k \in Low(E[i])..High(E[i])
        BY <4>1
      <4> QED
        BY <4>1, <4>2, Denoted
    <3>3. ToSet(s) \subseteq D
      BY <1>1, <1>2, <3>1, <3>2 DEF Gathered, Expanded
    <3> QED
      BY <2>1, <2>2, <3>1, <3>3
  <2>6. Cardinality(ToSet(r)) <= Cardinality(D) /\ Cardinality(D) \in Nat
    BY <2>4, <2>5, FS_Subset, FS_CardinalityType
  <2> HIDE DEF D, r
  <2> QED
    BY <1>2, <1>3, <2>3, <2>6
<1>5. work + 1 <= Len(E) * (config.max + 1) /\ work + 1 \in Nat
  BY <1>1, <1>2, VisitWork
<1>6. SizeInv'
  BY <1>1, <1>2, <1>3, <1>5 DEF ExpandInv, SizeInv, TargetsDistinct, WorkBounded
<1> HIDE DEF D
<1>7. Cardinality(DenotedBy(config'.targets, index')) > config'.max
  BY <1>1, <1>3, <1>4 DEF D
<1> QED
  BY <1>3, <1>6, <1>7 DEF ExpandInv

(* The other steps of a Validate. *)
LEMMA ValidateTargetsKeeps ==
  ASSUME TypeInv, ExpandInv, ValidateTargets
  PROVE  ExpandInv'
<1>1. /\ stage = "loaded" /\ targets = <<>> /\ work = 0 /\ index = 1 /\ cursor = None
      /\ UNCHANGED <<config, targets, work, index, cursor>>
  BY DEF ValidateTargets, Refuse, ExpandInv, subject, place, lists
<1>2. SizeInv'
  <2>1. targets' = <<>> /\ work' = 0
    BY <1>1
  <2> QED
    BY <2>1 DEF SizeInv, TargetsDistinct, WorkBounded
<1>3. CASE stage' = "invalid"
  <2>1. Faulty(config)
    <3>1. CASE \E k \in DOMAIN config.targets : config.targets[k].kind = "blank"
      <4>1. PICK k \in DOMAIN config.targets : config.targets[k].kind = "blank"
        BY <3>1
      <4>2. ~WellFormed(config.targets[k])
        BY <4>1 DEF WellFormed
      <4> QED
        BY <4>1, <4>2 DEF Faulty
    <3>2. CASE config.targets = <<>> \/ config.max < 1
      BY <3>2 DEF Faulty
    <3> QED
      BY <1>3, <3>1, <3>2 DEF ValidateTargets
  <2>2. Faulty(config')
    BY <1>1, <2>1
  <2> QED
    BY <1>2, <1>3, <2>2 DEF ExpandInv
<1>4. CASE stage' = "targets"
  <2>1. config.targets # <<>> /\ ~(config.max < 1)
    BY <1>4 DEF ValidateTargets, Refuse
  <2>2. /\ config.max >= 1 /\ config.max \in Int
        /\ config.targets \in Seq(TargetEntries) /\ Len(config.targets) \in Nat
    BY <2>1 DEF TypeInv, IsConfig
  <2>3. Position(config.targets, 1, None)
    BY <2>2 DEF Position
  <2>4. Gathered(config.targets, 1, None, <<>>)
    <3>1. Expanded(config.targets, 1, None) = {}
      BY DenotedNone DEF Expanded
    <3>2. ToSet(<<>>) = {} /\ IsInjective(<<>>) /\ <<>> \in Seq(Places)
      BY DEF ToSet, IsInjective
    <3>3. InOrigins(config.targets, <<>>)
      BY DEF InOrigins
    <3> QED
      BY <3>1, <3>2, <3>3 DEF Gathered
  <2>5. 0 <= config.max * (1 - 1) + Visited(config.targets, 1, None)
    BY <2>2 DEF Visited
  <2> QED
    BY <1>1, <1>2, <1>4, <2>1, <2>2, <2>3, <2>4, <2>5 DEF ExpandInv
<1> QED
  BY <1>3, <1>4 DEF ValidateTargets, Refuse

(* The next entry begins at its first place. *)
LEMMA StartEntryKeeps ==
  ASSUME TypeInv, ExpandInv, StartEntry
  PROVE  ExpandInv'
<1> DEFINE E == config.targets
           e == E[index]
<1>1. /\ stage = "targets" /\ cursor = None /\ index <= Len(E)
      /\ UNCHANGED <<config, targets, work, index>>
  BY DEF StartEntry, Refuse, subject, place, lists
<1>2. /\ Position(E, index, None) /\ Gathered(E, index, None, targets)
      /\ config.max >= 1 /\ E # <<>> /\ work \in Nat
      /\ work <= config.max * (index - 1) + Visited(E, index, None)
  BY <1>1 DEF ExpandInv
<1>3. /\ E \in Seq(TargetEntries) /\ index \in 1..Len(E) /\ e \in TargetEntries
      /\ \A j \in 1..(index - 1) : WellFormed(E[j])
  BY <1>1, <1>2 DEF Position
<1>4. SizeInv'
  BY <1>1 DEF ExpandInv, SizeInv, TargetsDistinct, WorkBounded
<1>5. CASE ~WellFormed(e)
  <2>1. stage' = "invalid" /\ index \in DOMAIN E
    BY <1>3, <1>5 DEF StartEntry, Refuse
  <2>2. Faulty(config)
    BY <1>5, <2>1 DEF Faulty
  <2> QED
    BY <1>1, <1>4, <2>1, <2>2 DEF ExpandInv
<1>6. CASE WellFormed(e)
  <2> DEFINE c == First(e)
             low == Low(e)
  <2>1. stage' = "targets" /\ cursor' = c
    BY <1>1, <1>6 DEF StartEntry
  <2>2. c = At(e, low) /\ low \in Nat /\ low \in low..High(e) /\ c.n = low
    BY <1>3, <1>6, Bounds DEF Low
  <2>3. c # None
    <3> HIDE DEF low, c
    <3>1. At(e, low) # None
      BY <1>3, <1>6, <2>2, PlaceNumbered
    <3> QED
      BY <2>2, <3>1
  <2>4. Position(E, index, c)
    BY <1>2, <1>3, <1>6, <2>2 DEF Position
  <2>5. Expanded(E, index, c) = Expanded(E, index, None)
    <3>1. low..(low - 1) = {}
      BY <2>2
    <3> QED
      BY <2>2, <2>3, <3>1 DEF Expanded
  <2>6. Gathered(E, index, c, targets)
    BY <1>2, <2>5 DEF Gathered
  <2>7. Visited(E, index, c) = 0 /\ Visited(E, index, None) = 0
    BY <2>2, <2>3 DEF Visited
  <2> HIDE DEF c
  <2>8. work' <= config'.max * (index' - 1) + Visited(config'.targets, index', cursor')
    BY <1>1, <1>2, <2>1, <2>7
  <2> QED
    BY <1>1, <1>2, <1>4, <2>1, <2>4, <2>6, <2>8 DEF ExpandInv
<1> QED
  BY <1>5, <1>6

(* All the entries have been expanded. *)
LEMMA ValidatePortsKeeps ==
  ASSUME TypeInv, ExpandInv, ValidatePorts
  PROVE  /\ ExpandInv'
         /\ stage' # "invalid" => Whole(config, targets) /\ ValidRest(config)
<1> DEFINE E == config.targets
<1>1. /\ stage = "targets" /\ cursor = None /\ index > Len(E)
      /\ UNCHANGED <<config, targets, work, cursor>>
  BY DEF ValidatePorts, Refuse, subject, place, lists
<1>2. /\ Position(E, index, None) /\ Gathered(E, index, None, targets)
      /\ config.max >= 1 /\ E # <<>> /\ config.max \in Int
  BY <1>1 DEF ExpandInv, TypeInv, IsConfig
<1>3. index = Len(E) + 1 /\ targets \in Seq(Places)
  BY <1>1, <1>2 DEF Position, Gathered
<1>4. Len(targets) <= config.max
  <2>1. CASE targets = <<>>
    BY <1>2, <2>1
  <2>2. CASE targets # <<>>
    BY <2>2 DEF ExpandInv, SizeInv, TargetsDistinct
  <2> QED
    BY <2>1, <2>2
<1>5. Whole(config, targets)
  BY <1>2, <1>3, <1>4 DEF Whole
<1>6. SizeInv'
  BY <1>1 DEF ExpandInv, SizeInv, TargetsDistinct, WorkBounded
<1>7. CASE ~ValidRest(config)
  <2>1. stage' = "invalid"
    BY <1>7 DEF ValidatePorts, Refuse
  <2>2. Faulty(config)
    BY <1>7 DEF Faulty
  <2> QED
    BY <1>1, <1>6, <2>1, <2>2 DEF ExpandInv
<1>8. CASE ValidRest(config)
  <2>1. stage' \in {"merge", "ports"} /\ index' = 1 /\ cursor' = None
    BY <1>1, <1>8 DEF ValidatePorts
  <2>2. Whole(config', targets')
    BY <1>1, <1>5
  <2>3. ExpandInv'
    BY <1>6, <2>1, <2>2 DEF ExpandInv
  <2> QED
    BY <1>5, <1>8, <2>3
<1> QED
  BY <1>7, <1>8

(* Every step keeps the invariant of the expansion. *)
LEMMA ExpandStep ==
  ASSUME TypeInv, ExpandInv, [Next]_vars
  PROVE  ExpandInv'
<1>1. CASE Visit
  BY <1>1, VisitOutcome, VisitTakesKeeps, VisitRefusesKeeps
<1>2. CASE ValidateTargets \/ StartEntry \/ ValidatePorts
  BY <1>2, ValidateTargetsKeeps, StartEntryKeeps, ValidatePortsKeeps
<1>3. CASE Parse \/ LoadFile
  <2>1. /\ stage \in {"started", "parsed"}
        /\ stage' \in {"help", "usage", "version", "parsed", "merge", "loaded", "unreadable"}
        /\ UNCHANGED <<targets, work, index, cursor>>
    BY <1>3 DEF Parse, LoadFile, lists, place
  <2>2. targets' = <<>> /\ work' = 0 /\ index' = 1 /\ cursor' = None
    BY <2>1 DEF ExpandInv
  <2>3. SizeInv'
    BY <2>2 DEF SizeInv, TargetsDistinct, WorkBounded
  <2> QED
    BY <2>1, <2>2, <2>3 DEF ExpandInv
<1>4. CASE Merge
  <2>1. stage' = "loaded" /\ targets' = <<>> /\ work' = 0 /\ index' = 1 /\ cursor' = None
    BY <1>4 DEF Merge, ExpandInv, place
  <2>2. SizeInv'
    BY <2>1 DEF SizeInv, TargetsDistinct, WorkBounded
  <2> QED
    BY <2>1, <2>2 DEF ExpandInv
<1>5. CASE \/ StartRange \/ VisitPort \/ PortsExpanded
        \/ StartProbeRange \/ VisitProbePort \/ NextDefinition \/ Ready
  <2>1. /\ stage \in {"ports", "probes"} /\ stage' \in {"ports", "probes", "ready"}
        /\ UNCHANGED <<config, targets, work>>
    BY <1>5 DEF StartRange, VisitPort, PortsExpanded, StartProbeRange, VisitProbePort,
                 NextDefinition, Ready, subject, lists
  <2>2. Whole(config', targets')
    BY <2>1 DEF ExpandInv
  <2>3. SizeInv'
    BY <2>1 DEF ExpandInv, SizeInv, TargetsDistinct, WorkBounded
  <2> QED
    BY <2>1, <2>2, <2>3 DEF ExpandInv
<1>6. CASE UNCHANGED vars
  <2>1. UNCHANGED <<config, stage, index, cursor, targets, work>>
    BY <1>6 DEF vars, subject, place, lists
  <2>2. SizeInv'
    BY <2>1 DEF ExpandInv, SizeInv, TargetsDistinct, WorkBounded
  <2> QED
    BY <2>1, <2>2 DEF ExpandInv
<1> QED
  BY <1>1, <1>2, <1>3, <1>4, <1>5, <1>6 DEF Next

(* The configurations have their types, and the expansion its invariant,   *)
(* in every reachable state: the part of the argument that ExpandedTargets *)
(* and Validate need by themselves.                                        *)
THEOREM TypesAndTargets == Spec => [](TypeInv /\ ExpandInv)
<1>1. Init => TypeInv /\ ExpandInv
  BY TypeInit, ExpandInit
<1>2. TypeInv /\ ExpandInv /\ [Next]_vars => (TypeInv /\ ExpandInv)'
  BY TypeStep, ExpandStep
<1> QED
  BY <1>1, <1>2, PTL DEF Spec
-----------------------------------------------------------------------------
(* Where the configuration comes from: what the final Validate is given is *)
(* what was asked for, and a file has passed a Validate of its own.        *)

NoFileRead == options.path = NoFile \/ file.kind = "empty"

(* The settings of a file that is good by itself. *)
Sound(c) ==
  /\ file.kind = "written" /\ Decodes(c) /\ ValidRest(c)
  /\ c.targets # <<>>
  /\ \A k \in DOMAIN c.targets : WellFormed(c.targets[k])
  /\ Cardinality(DenotedBy(c.targets, Len(c.targets))) <= c.max

FinalPorts == IF Given("start") \/ Given("end")
              THEN <<[first |-> Value("start", 1), last |-> Value("end", MaxPort)]>>
              ELSE Base.ports

AsAsked ==
  /\ config.targets = AskedEntries
  /\ config.ports = FinalPorts
  /\ config.probing = Base.probing /\ config.probes = Base.probes
  /\ SettingsAsked

SourceInv ==
  /\ stage \notin {"started", "help", "usage", "version"} => options = Options
  /\ stage \in {"started", "parsed"} => config = Default
  /\ stage \in {"started", "parsed", "merge"} => pass = "file"
  /\ pass \in {"file", "final"}
  /\ stage \in {"loaded", "targets"} /\ pass = "file" =>
       ~NoFileRead /\ config = file.settings /\ file.kind = "written" /\ Decodes(config)
  /\ stage = "merge" => config = Base /\ (NoFileRead \/ Sound(file.settings))
  /\ stage \in {"ports", "probes", "ready"} => pass = "final"
  /\ pass = "final" /\ stage \in {"loaded", "targets", "ports", "probes", "ready"} =>
       AsAsked /\ (NoFileRead \/ Sound(file.settings))

LEMMA SourceInit == Init => SourceInv
BY DEF Init, SourceInv

(* The options say where the configuration is read from. *)
LEMMA Read ==
  ASSUME options = Options
  PROVE  Base = IF NoFileRead THEN Default ELSE file.settings
<1>1. Options.path = Value("config", "config.yaml")
  BY DEF Options
<1> QED
  BY <1>1 DEF Base, NoFileRead

(* What was asked for does not change. *)
LEMMA SameRequest ==
  ASSUME UNCHANGED <<command, file>>
  PROVE  /\ Base' = Base /\ AskedEntries' = AskedEntries /\ FinalPorts' = FinalPorts
         /\ Options' = Options
         /\ \A c : Sound(c)' = Sound(c)
         /\ config' = config => SettingsAsked' = SettingsAsked
<1>1. \A flag, other : Value(flag, other)' = Value(flag, other) /\ Given(flag)' = Given(flag)
  BY DEF Value, Given
<1>2. \A flag : Optional(flag)' = Optional(flag)
  BY DEF Optional, Given
<1>3. Base' = Base
  BY <1>1 DEF Base
<1>4. AskedEntries' = AskedEntries /\ FinalPorts' = FinalPorts
  BY <1>1, <1>3 DEF AskedEntries, FinalPorts
<1>5. Options' = Options
  BY <1>1, <1>2 DEF Options, Level
<1>6. \A c : Sound(c)' = Sound(c)
  BY DEF Sound
<1>7. config' = config => SettingsAsked' = SettingsAsked
  BY <1>1, <1>3 DEF SettingsAsked
<1> QED
  BY <1>3, <1>4, <1>5, <1>6, <1>7

(* An option that is given stands for its value. *)
LEMMA OverOptional ==
  ASSUME NEW flag, NEW other
  PROVE  Over(Optional(flag), other) = Value(flag, other)
BY DEF Over, Optional, Value

(* A single value takes the place of the other. *)
LEMMA OverOne ==
  ASSUME NEW x, NEW option, option = {x}, NEW other
  PROVE  option # {} /\ Over(option, other) = x
BY DEF Over

(* Level is the highest of the flags that are on. *)
On(k)     == Value(Verbose[k], FALSE)
MostOn(k) == (k > 0 => On(k)) /\ \A j \in (k + 1)..3 : ~On(j)

LEMMA LevelIsMost == Level = CHOOSE k \in 0..3 : MostOn(k)
<1>1. Verbose[1] = "v" /\ Verbose[2] = "vv" /\ Verbose[3] = "vvv"
  BY DEF Verbose
<1>2. /\ MostOn(3) <=> On(3)
      /\ MostOn(2) <=> On(2) /\ ~On(3)
      /\ MostOn(1) <=> On(1) /\ ~On(2) /\ ~On(3)
      /\ MostOn(0) <=> ~On(1) /\ ~On(2) /\ ~On(3)
  <2>1. /\ \A j : ~(j \in (3 + 1)..3)
        /\ \A j : j \in (2 + 1)..3 <=> j = 3
        /\ \A j : j \in (1 + 1)..3 <=> j = 2 \/ j = 3
        /\ \A j : j \in (0 + 1)..3 <=> j = 1 \/ j = 2 \/ j = 3
        /\ 3 > 0 /\ 2 > 0 /\ 1 > 0 /\ ~(0 > 0)
    OBVIOUS
  <2> QED
    BY <2>1, Zenon DEF MostOn
<1>3. Level = IF On(3) THEN 3 ELSE IF On(2) THEN 2 ELSE IF On(1) THEN 1 ELSE 0
  BY <1>1 DEF Level, On
<1>4. \A k \in 0..3 : k = 0 \/ k = 1 \/ k = 2 \/ k = 3
  OBVIOUS
<1>5. Level \in 0..3 /\ MostOn(Level)
  BY <1>2, <1>3
<1>6. \A k \in 0..3 : MostOn(k) => k = Level
  BY <1>2, <1>3, <1>4
<1> QED
  BY <1>5, <1>6

(* The merged configuration is what was asked for. *)
LEMMA MergedAsked ==
  ASSUME options = Options, config = Base, config' = Merged, UNCHANGED <<command, file>>
  PROVE  AsAsked'
<1>1. /\ config'.targets = IF options.host = {} THEN Base.targets
                           ELSE <<Over(options.host, None)>>
      /\ config'.ports = IF options.ports = {} THEN Base.ports
                         ELSE <<Over(options.ports, None)>>
      /\ config'.workers = Over(options.workers, Base.workers)
      /\ config'.dial = Over(options.dial, Base.dial)
      /\ config'.scan = Over(options.scan, Base.scan)
      /\ config'.verbosity = Over(options.verbosity, Base.verbosity)
      /\ config'.probing = Base.probing /\ config'.probes = Base.probes
  BY DEF Merged
<1>2. /\ options.host = Optional("host")
      /\ options.ports = IF Given("start") \/ Given("end")
                         THEN {[first |-> Value("start", 1), last |-> Value("end", MaxPort)]}
                         ELSE {}
      /\ options.workers = Optional("workers")
      /\ options.dial = Optional("timeout")
      /\ options.scan = Optional("scan-timeout")
      /\ options.verbosity = IF \E k \in DOMAIN Verbose : Given(Verbose[k])
                             THEN {Level} ELSE {}
  BY DEF Options
<1>3. config'.targets = AskedEntries
  <2>1. CASE Given("host")
    <3>1. options.host = {command.flags["host"]}
      BY <1>2, <2>1 DEF Optional
    <3>2. options.host # {} /\ Over(options.host, None) = command.flags["host"]
      BY <3>1, OverOne
    <3> QED
      BY <1>1, <2>1, <3>2 DEF AskedEntries
  <2>2. CASE ~Given("host")
    <3>1. Optional("host") = {}
      BY <2>2 DEF Optional
    <3> QED
      BY <1>1, <1>2, <2>2, <3>1 DEF AskedEntries
  <2> QED
    BY <2>1, <2>2
<1>4. config'.ports = FinalPorts
  <2>1. CASE Given("start") \/ Given("end")
    <3> DEFINE range == [first |-> Value("start", 1), last |-> Value("end", MaxPort)]
    <3>1. options.ports = {range} /\ FinalPorts = <<range>>
      BY <1>2, <2>1 DEF FinalPorts
    <3> HIDE DEF range
    <3>2. options.ports # {} /\ Over(options.ports, None) = range
      BY <3>1, OverOne
    <3> QED
      BY <1>1, <3>1, <3>2
  <2>2. CASE ~(Given("start") \/ Given("end"))
    BY <1>1, <1>2, <2>2 DEF FinalPorts
  <2> QED
    BY <2>1, <2>2
<1>5. /\ config'.workers = Value("workers", Base.workers)
      /\ config'.dial = Value("timeout", Base.dial)
      /\ config'.scan = Value("scan-timeout", Base.scan)
  BY <1>1, <1>2, OverOptional
<1>6. config'.verbosity = IF \A k \in 1..3 : ~Given(Verbose[k]) THEN Base.verbosity
                          ELSE CHOOSE k \in 0..3 : MostOn(k)
  <2>1. DOMAIN Verbose = 1..3
    BY DEF Verbose
  <2>2. CASE \A k \in 1..3 : ~Given(Verbose[k])
    BY <1>1, <1>2, <2>1, <2>2 DEF Over
  <2>3. CASE \E k \in 1..3 : Given(Verbose[k])
    <3>1. options.verbosity = {Level}
      BY <1>2, <2>1, <2>3
    <3>2. Over(options.verbosity, Base.verbosity) = Level
      BY <3>1, OverOne
    <3>3. Level = CHOOSE k \in 0..3 : MostOn(k)
      BY LevelIsMost
    <3> HIDE DEF MostOn
    <3> QED
      BY <1>1, <2>3, <3>2, <3>3
  <2> QED
    BY <2>2, <2>3
<1>7. /\ Base' = Base /\ AskedEntries' = AskedEntries /\ FinalPorts' = FinalPorts
      /\ \A flag, other : Value(flag, other)' = Value(flag, other) /\ Given(flag)' = Given(flag)
  BY SameRequest DEF Value, Given
<1>8. SettingsAsked'
  BY <1>5, <1>6, <1>7 DEF SettingsAsked, MostOn, On
<1> QED
  BY <1>1, <1>3, <1>4, <1>7, <1>8 DEF AsAsked

(* A file whose Validate gets to the end is good. *)
LEMMA WholeIsSound ==
  ASSUME NEW c, Whole(c, targets), ValidRest(c), file.kind = "written", Decodes(c),
         IsConfig(c)
  PROVE  Sound(c)
<1> DEFINE E == c.targets
           n == Len(E)
<1>1. /\ E # <<>> /\ E \in Seq(TargetEntries) /\ n \in Nat /\ DOMAIN E = 1..n
      /\ c.max \in Int /\ Len(targets) <= c.max
  BY DEF Whole, IsConfig
<1>2. \A k \in 1..n : WellFormed(E[k])
  BY <1>1 DEF Whole, Position
<1>3. targets \in Seq(Places) /\ IsInjective(targets)
      /\ ToSet(targets) = Expanded(E, n + 1, None)
  BY DEF Whole, Gathered
<1>4. ToSet(targets) = DenotedBy(E, n)
  BY <1>1, <1>3 DEF Expanded
<1>5. Cardinality(ToSet(targets)) = Len(targets)
  BY <1>3, ListCounts
<1> QED
  BY <1>1, <1>2, <1>4, <1>5 DEF Sound

(* Every step keeps track of where the configuration comes from. *)
LEMMA SourceStep ==
  ASSUME TypeInv, ExpandInv, SourceInv, [Next]_vars
  PROVE  SourceInv'
<1>1. CASE Parse
  <2>1. /\ stage = "started" /\ UNCHANGED <<command, file, config, pass>>
        /\ \/ stage' \in {"help", "usage", "version"}
           \/ stage' = "parsed" /\ options' = Options
    BY <1>1 DEF Parse, subject
  <2>2. Options' = Options
    BY <2>1, SameRequest
  <2>3. config = Default /\ pass = "file"
    BY <2>1 DEF SourceInv
  <2> QED
    BY <2>1, <2>2, <2>3 DEF SourceInv
<1>2. CASE LoadFile
  <2>1. /\ stage = "parsed" /\ UNCHANGED <<command, file, options, pass>>
        /\ options = Options /\ config = Default /\ pass = "file"
    BY <1>2 DEF LoadFile, startup, SourceInv
  <2>2. Options' = Options /\ Base' = Base /\ Base = IF NoFileRead THEN Default ELSE file.settings
    BY <2>1, SameRequest, Read
  <2>3. NoFileRead' = NoFileRead
    BY <2>1 DEF NoFileRead
  <2>4. CASE NoFileRead
    <3>1. stage' = "merge" /\ config' = config
      BY <1>2, <2>4 DEF LoadFile, NoFileRead
    <3> QED
      BY <2>1, <2>2, <2>3, <2>4, <3>1 DEF SourceInv
  <2>5. CASE ~NoFileRead
    <3>1. \/ /\ stage' = "loaded" /\ config' = file.settings
             /\ file.kind = "written" /\ Decodes(file.settings)
          \/ stage' = "unreadable"
      BY <1>2, <2>5 DEF LoadFile, NoFileRead
    <3>2. CASE stage' = "loaded"
      <4>1. Decodes(config')
        BY <3>1, <3>2
      <4>2. config' = file'.settings /\ file'.kind = "written"
        BY <2>1, <3>1, <3>2
      <4> QED
        BY <2>1, <2>2, <2>3, <2>5, <3>2, <4>1, <4>2 DEF SourceInv
    <3>3. CASE stage' = "unreadable"
      BY <2>1, <2>2, <3>3 DEF SourceInv
    <3> QED
      BY <3>1, <3>2, <3>3
  <2> QED
    BY <2>4, <2>5
<1>3. CASE Merge
  <2>1. /\ stage = "merge" /\ stage' = "loaded" /\ pass' = "final" /\ config' = Merged
        /\ UNCHANGED <<command, file, options>>
        /\ options = Options /\ config = Base /\ (NoFileRead \/ Sound(file.settings))
    BY <1>3 DEF Merge, startup, SourceInv
  <2>2. AsAsked'
    BY <2>1, MergedAsked
  <2>3. Options' = Options /\ Sound(file.settings)' = Sound(file.settings)
    BY <2>1, SameRequest DEF Sound
  <2>4. NoFileRead' = NoFileRead
    BY <2>1 DEF NoFileRead
  <2> QED
    BY <2>1, <2>2, <2>3, <2>4 DEF SourceInv
<1>4. ASSUME UNCHANGED <<command, file, options, config, pass>>
      PROVE  /\ Options' = Options /\ NoFileRead' = NoFileRead /\ Base' = Base
             /\ Sound(file.settings)' = Sound(file.settings)
             /\ AsAsked' = AsAsked /\ Decodes(config)' = Decodes(config)
  <2>1. /\ Options' = Options /\ Base' = Base /\ AskedEntries' = AskedEntries
        /\ FinalPorts' = FinalPorts /\ SettingsAsked' = SettingsAsked
    BY <1>4, SameRequest
  <2>2. Sound(file.settings)' = Sound(file.settings) /\ Decodes(config)' = Decodes(config)
    BY <1>4 DEF Sound, Decodes
  <2>3. AsAsked' = AsAsked
    BY <1>4, <2>1 DEF AsAsked
  <2> QED
    BY <1>4, <2>1, <2>2, <2>3 DEF NoFileRead
<1>5. CASE ValidatePorts
  <2>1. /\ stage = "targets" /\ UNCHANGED <<command, file, options, config, pass>>
        /\ stage' \in {"invalid", IF pass = "file" THEN "merge" ELSE "ports"}
    <3>1. UNCHANGED <<command, file, options, config, pass>>
      BY <1>5, LaterSteps
    <3> QED
      BY <1>5, <3>1 DEF ValidatePorts, Refuse
  <2>2. CASE stage' = "invalid"
    BY <1>4, <2>1, <2>2 DEF SourceInv
  <2>3. CASE stage' # "invalid" /\ pass = "file"
    <3>1. stage' = "merge"
      BY <2>1, <2>3
    <3>2. /\ ~NoFileRead /\ config = file.settings /\ file.kind = "written" /\ Decodes(config)
          /\ options = Options
      BY <2>1, <2>3 DEF SourceInv
    <3>3. Whole(config, targets) /\ ValidRest(config)
      BY <1>5, <2>3, ValidatePortsKeeps
    <3>4. Sound(file.settings)
      <4>1. IsConfig(config)
        BY DEF TypeInv
      <4>2. Sound(config)
        BY <3>2, <3>3, <4>1, WholeIsSound
      <4> QED
        BY <3>2, <4>2
    <3>5. config = Base
      BY <3>2, Read
    <3> QED
      BY <1>4, <2>1, <2>3, <3>1, <3>2, <3>4, <3>5 DEF SourceInv
  <2>4. CASE stage' # "invalid" /\ pass = "final"
    <3>1. stage' = "ports"
      BY <2>1, <2>4
    <3> QED
      BY <1>4, <2>1, <2>4, <3>1 DEF SourceInv
  <2> QED
    BY <2>1, <2>2, <2>3, <2>4 DEF SourceInv
<1>6. CASE ValidateTargets \/ StartEntry \/ Visit
  <2>1. /\ stage \in {"loaded", "targets"} /\ stage' \in {"targets", "invalid", "too_many"}
        /\ UNCHANGED <<command, file, options, config, pass>>
    <3>1. UNCHANGED <<command, file, options, config, pass>>
      BY <1>6, LaterSteps
    <3> QED
      BY <1>6, <3>1, VisitOutcome DEF ValidateTargets, StartEntry, Refuse, VisitTakes,
                                      VisitRefuses
  <2> QED
    BY <1>4, <2>1 DEF SourceInv
<1>7. CASE \/ StartRange \/ VisitPort \/ PortsExpanded
        \/ StartProbeRange \/ VisitProbePort \/ NextDefinition \/ Ready
  <2>1. /\ stage \in {"ports", "probes"} /\ stage' \in {"ports", "probes", "ready"}
        /\ UNCHANGED <<command, file, options, config, pass>>
    <3>1. UNCHANGED <<command, file, options, config, pass>>
      BY <1>7, LaterSteps
    <3> QED
      BY <1>7, <3>1 DEF StartRange, VisitPort, PortsExpanded, StartProbeRange,
                           VisitProbePort, NextDefinition, Ready
  <2> QED
    BY <1>4, <2>1 DEF SourceInv
<1>8. CASE UNCHANGED vars
  <2>1. stage' = stage /\ UNCHANGED <<command, file, options, config, pass>>
    BY <1>8 DEF vars, startup, subject
  <2> QED
    BY <1>4, <2>1 DEF SourceInv
<1> QED
  BY <1>1, <1>2, <1>3, <1>5, <1>6, <1>7, <1>8 DEF Next
-----------------------------------------------------------------------------
(* The ports. *)

(* What the ranges before the i-th hold. *)
PortsBefore(ranges, i) ==
  {p \in PortNumbers : \E k \in 1..(i - 1) : InRange(p, ranges[k])}

(* With next # 0, the i-th range is at port next. *)
Covered(ranges, i, next) ==
  PortsBefore(ranges, i)
  \cup (IF next = 0 THEN {} ELSE ranges[i].first..(next - 1))

PortsInv ==
  /\ stage \in {"started", "parsed", "loaded", "merge", "targets"} =>
       ports = <<>> /\ nextPort = 0
  /\ ports \in Seq(PortNumbers) /\ IsInjective(ports)
  /\ stage = "ports" =>
       /\ ValidRanges(config.ports)
       /\ index \in 1..(Len(config.ports) + 1)
       /\ nextPort # 0 => /\ index <= Len(config.ports)
                          /\ InRange(nextPort, config.ports[index])
       /\ nextPort \in Int
       /\ ToSet(ports) = Covered(config.ports, index, nextPort)
  /\ stage \in {"probes", "ready"} =>
       /\ ValidRanges(config.ports)
       /\ ToSet(ports) = PortsBefore(config.ports, Len(config.ports) + 1)

LEMMA EmptyPorts == <<>> \in Seq(PortNumbers) /\ IsInjective(<<>>) /\ ToSet(<<>>) = {}
BY DEF IsInjective, ToSet

LEMMA PortsInit == Init => PortsInv
<1> SUFFICES ASSUME Init PROVE PortsInv
  OBVIOUS
<1>1. ports = <<>> /\ nextPort = 0 /\ stage = "started"
  BY DEF Init
<1>2. ports \in Seq(PortNumbers) /\ IsInjective(ports)
  BY <1>1, EmptyPorts
<1> QED
  BY <1>1, <1>2 DEF PortsInv

(* The i-th of the ranges that Validate accepts. *)
LEMMA RangeTyped ==
  ASSUME NEW R \in Seq(Ranges), ValidRanges(R), NEW i \in 1..Len(R)
  PROVE  /\ R[i].first \in 1..MaxPort /\ R[i].last \in 1..MaxPort
         /\ R[i].first <= R[i].last
         /\ Len(R) \in Nat
<1>1. R[i] \in Ranges /\ i \in DOMAIN R /\ Len(R) \in Nat
  OBVIOUS
<1>2. 1 <= R[i].first /\ R[i].first <= R[i].last /\ R[i].last <= MaxPort
  BY <1>1 DEF ValidRanges, Parsable
<1> QED
  BY <1>1, <1>2, MaxPortAssumption DEF Ranges

(* The ports of one more range. *)
LEMMA PortsBeforeNext ==
  ASSUME NEW ranges, NEW i \in Nat \ {0}
  PROVE  PortsBefore(ranges, i + 1)
           = PortsBefore(ranges, i) \cup {p \in PortNumbers : InRange(p, ranges[i])}
<1>1. 1..(i + 1 - 1) = 1..(i - 1) \cup {i}
  OBVIOUS
<1> QED
  BY <1>1 DEF PortsBefore

(* A range begins at its first port. *)
LEMMA RangeBegins ==
  ASSUME NEW R \in Seq(Ranges), ValidRanges(R), NEW i \in 1..Len(R)
  PROVE  LET first == R[i].first
         IN  /\ first # 0 /\ first \in Int /\ InRange(first, R[i])
             /\ Covered(R, i, first) = Covered(R, i, 0)
<1> DEFINE first == R[i].first
<1>1. first \in 1..MaxPort /\ R[i].last \in 1..MaxPort /\ first <= R[i].last
  BY RangeTyped
<1>2. first # 0 /\ first \in Int /\ InRange(first, R[i])
  BY <1>1, MaxPortAssumption DEF InRange
<1>3. first..(first - 1) = {}
  BY <1>2
<1>4. Covered(R, i, first) = Covered(R, i, 0)
  BY <1>2, <1>3 DEF Covered
<1> QED
  BY <1>2, <1>4

(* It goes on with the next port, or the next range begins. *)
LEMMA RangeGoesOn ==
  ASSUME NEW R \in Seq(Ranges), ValidRanges(R), NEW i \in 1..Len(R),
         NEW p \in Int, p # 0, InRange(p, R[i])
  PROVE  /\ p \in PortNumbers /\ Len(R) \in Nat
         /\ p < R[i].last => /\ p + 1 # 0 /\ InRange(p + 1, R[i])
                             /\ Covered(R, i, p + 1) = Covered(R, i, p) \cup {p}
         /\ ~(p < R[i].last) => Covered(R, i + 1, 0) = Covered(R, i, p) \cup {p}
<1> DEFINE first == R[i].first
           last  == R[i].last
<1>1. first \in 1..MaxPort /\ last \in 1..MaxPort /\ first <= last /\ Len(R) \in Nat
  BY RangeTyped
<1>2. first <= p /\ p <= last /\ p \in PortNumbers
  BY <1>1, MaxPortAssumption DEF InRange, PortNumbers
<1>3. Covered(R, i, p) = PortsBefore(R, i) \cup first..(p - 1)
  BY DEF Covered
<1>4. ASSUME p < last
      PROVE  /\ p + 1 # 0 /\ InRange(p + 1, R[i])
             /\ Covered(R, i, p + 1) = Covered(R, i, p) \cup {p}
  <2>1. p + 1 # 0 /\ InRange(p + 1, R[i])
    BY <1>1, <1>2, <1>4, MaxPortAssumption DEF InRange, PortNumbers
  <2>2. first..((p + 1) - 1) = first..(p - 1) \cup {p}
    BY <1>1, <1>2, MaxPortAssumption
  <2>3. Covered(R, i, p + 1) = PortsBefore(R, i) \cup first..((p + 1) - 1)
    <3> DEFINE m == p + 1
    <3>1. m # 0
      BY <2>1
    <3> HIDE DEF m
    <3>2. Covered(R, i, m) = PortsBefore(R, i) \cup first..(m - 1)
      BY <3>1 DEF Covered
    <3> QED
      BY <3>2 DEF m
  <2> QED
    BY <1>3, <2>1, <2>2, <2>3
<1>5. ASSUME ~(p < last)
      PROVE  Covered(R, i + 1, 0) = Covered(R, i, p) \cup {p}
  <2>1. p = last
    BY <1>1, <1>2, <1>5, MaxPortAssumption
  <2>2. {q \in PortNumbers : InRange(q, R[i])} = first..(p - 1) \cup {p}
    BY <1>1, <1>2, <2>1, MaxPortAssumption DEF InRange, PortNumbers
  <2>3. PortsBefore(R, i + 1) = PortsBefore(R, i) \cup first..(p - 1) \cup {p}
    <3>1. i \in Nat \ {0}
      BY <1>1
    <3> HIDE DEF first
    <3> QED
      BY <2>2, <3>1, PortsBeforeNext
  <2> QED
    BY <1>3, <2>3 DEF Covered
<1> QED
  BY <1>1, <1>2, <1>4, <1>5

(* After the last range, all ports of the ranges are there. *)
LEMMA AllCovered ==
  ASSUME NEW R \in Seq(Ranges)
  PROVE  Covered(R, Len(R) + 1, 0)
           = {p \in PortNumbers : \E k \in DOMAIN R : InRange(p, R[k])}
<1>1. 1..(Len(R) + 1 - 1) = DOMAIN R
  OBVIOUS
<1> QED
  BY <1>1 DEF Covered, PortsBefore

(* The next range begins at its first port. *)
LEMMA StartRangeKeeps ==
  ASSUME TypeInv, PortsInv, StartRange
  PROVE  PortsInv'
<1> DEFINE R == config.ports
           first == R[index].first
<1>1. /\ stage = "ports" /\ stage' = "ports" /\ nextPort = 0 /\ nextPort' = first
      /\ index <= Len(R) /\ UNCHANGED <<config, index, ports>>
  BY DEF StartRange, subject, lists
<1>2. /\ ValidRanges(R) /\ index \in 1..(Len(R) + 1)
      /\ ToSet(ports) = Covered(R, index, 0)
      /\ ports \in Seq(PortNumbers) /\ IsInjective(ports)
  BY <1>1 DEF PortsInv
<1>3. R \in Seq(Ranges) /\ Len(R) \in Nat
  BY DEF TypeInv, IsConfig, Ranges
<1>4. index \in 1..Len(R)
  BY <1>1, <1>2, <1>3
<1>5. /\ first # 0 /\ first \in Int /\ InRange(first, R[index])
      /\ Covered(R, index, first) = Covered(R, index, 0)
  BY <1>2, <1>3, <1>4, RangeBegins
<1> HIDE DEF first
<1> QED
  BY <1>1, <1>2, <1>5 DEF PortsInv

(* The port is there afterwards, and only once. *)
LEMMA PortAdded ==
  ASSUME NEW s \in Seq(PortNumbers), IsInjective(s), NEW p \in PortNumbers
  PROVE  LET r == IF p \in ToSet(s) THEN s ELSE Append(s, p)
         IN  /\ r \in Seq(PortNumbers) /\ IsInjective(r)
             /\ ToSet(r) = ToSet(s) \cup {p}
BY AppendSet, StaysInjective

(* A port of the range is added, unless it is there already. *)
LEMMA VisitPortKeeps ==
  ASSUME TypeInv, PortsInv, VisitPort
  PROVE  PortsInv'
<1> DEFINE R == config.ports
           p == nextPort
<1>1. /\ stage = "ports" /\ stage' = "ports" /\ p # 0 /\ UNCHANGED config
      /\ ports' = IF p \in ToSet(ports) THEN ports ELSE Append(ports, p)
      /\ IF p < R[index].last THEN nextPort' = p + 1 /\ index' = index
         ELSE nextPort' = 0 /\ index' = index + 1
  BY DEF VisitPort, subject
<1>2. /\ ValidRanges(R) /\ index \in 1..(Len(R) + 1) /\ index <= Len(R)
      /\ InRange(p, R[index]) /\ p \in Int
      /\ ToSet(ports) = Covered(R, index, p)
      /\ ports \in Seq(PortNumbers) /\ IsInjective(ports)
  BY <1>1 DEF PortsInv
<1>3. R \in Seq(Ranges) /\ Len(R) \in Nat
  BY DEF TypeInv, IsConfig, Ranges
<1>4. index \in 1..Len(R)
  BY <1>2, <1>3
<1>5. /\ p \in PortNumbers
      /\ p < R[index].last => /\ p + 1 # 0 /\ InRange(p + 1, R[index])
                              /\ Covered(R, index, p + 1) = Covered(R, index, p) \cup {p}
      /\ ~(p < R[index].last) => Covered(R, index + 1, 0) = Covered(R, index, p) \cup {p}
  BY <1>1, <1>2, <1>3, <1>4, RangeGoesOn
<1>6. /\ ports' \in Seq(PortNumbers) /\ IsInjective(ports')
      /\ ToSet(ports') = Covered(R, index, p) \cup {p}
  BY <1>1, <1>2, <1>5, PortAdded
<1>7. CASE p < R[index].last
  <2>1. nextPort' = p + 1 /\ index' = index /\ p + 1 \in Int
    BY <1>1, <1>2, <1>7
  <2> QED
    BY <1>1, <1>2, <1>5, <1>6, <1>7, <2>1 DEF PortsInv
<1>8. CASE ~(p < R[index].last)
  <2>1. nextPort' = 0 /\ index' = index + 1
    BY <1>1, <1>8
  <2>2. index + 1 \in 1..(Len(R) + 1)
    BY <1>3, <1>4
  <2>3. ToSet(ports') = Covered(R, index + 1, 0)
    BY <1>5, <1>6, <1>8
  <2> QED
    BY <1>1, <1>2, <1>6, <2>1, <2>2, <2>3 DEF PortsInv
<1> QED
  BY <1>7, <1>8

(* Every step keeps the invariant of the ports. *)
LEMMA PortsStep ==
  ASSUME TypeInv, ExpandInv, PortsInv, [Next]_vars
  PROVE  PortsInv'
<1>1. CASE StartRange \/ VisitPort
  BY <1>1, StartRangeKeeps, VisitPortKeeps
<1>2. CASE PortsExpanded
  <2>1. /\ stage = "ports" /\ stage' = "probes" /\ nextPort = 0
        /\ index > Len(config.ports) /\ UNCHANGED <<config, ports>>
    BY <1>2 DEF PortsExpanded, subject, lists
  <2>2. Len(config.ports) \in Nat
    BY DEF TypeInv, IsConfig
  <2>3. index = Len(config.ports) + 1
    BY <2>1, <2>2 DEF PortsInv
  <2> QED
    BY <2>1, <2>3 DEF PortsInv, Covered
<1>3. CASE ValidatePorts
  <2>1. /\ stage = "targets" /\ UNCHANGED <<config, ports, nextPort>>
        /\ ports = <<>> /\ nextPort = 0
    BY <1>3 DEF ValidatePorts, Refuse, subject, lists, place, PortsInv
  <2>2. CASE stage' = "ports"
    <3>1. ValidRanges(config.ports) /\ index' = 1
      BY <1>3, <2>2 DEF ValidatePorts, Refuse, ValidRest
    <3>2. Covered(config.ports, 1, 0) = {}
      BY DEF Covered, PortsBefore
    <3>3. Len(config.ports) \in Nat
      BY DEF TypeInv, IsConfig
    <3>4. ports' = <<>> /\ nextPort' = 0 /\ config' = config
      BY <2>1
    <3>5. ports' \in Seq(PortNumbers) /\ IsInjective(ports') /\ ToSet(ports') = {}
      BY <3>4, EmptyPorts
    <3>6. 1 \in 1..(Len(config.ports) + 1) /\ 0 \in Int
      BY <3>3
    <3> QED
      BY <2>2, <3>1, <3>2, <3>4, <3>5, <3>6 DEF PortsInv
  <2>3. CASE stage' \in {"merge", "invalid"}
    BY <2>1, <2>3 DEF PortsInv
  <2> QED
    BY <1>3, <2>2, <2>3 DEF ValidatePorts, Refuse
<1>4. CASE StartProbeRange \/ VisitProbePort \/ NextDefinition \/ Ready
  <2>1. /\ stage = "probes" /\ stage' \in {"probes", "ready"} /\ UNCHANGED <<config, ports>>
    BY <1>4 DEF StartProbeRange, VisitProbePort, NextDefinition, Ready, subject, lists
  <2> QED
    BY <2>1 DEF PortsInv
<1>5. CASE Parse \/ LoadFile \/ Merge \/ ValidateTargets \/ StartEntry
  <2>1. /\ stage \in {"started", "parsed", "merge", "loaded", "targets"}
        /\ stage' \notin {"ports", "probes", "ready"}
        /\ UNCHANGED <<ports, nextPort>>
    BY <1>5 DEF Parse, LoadFile, Merge, ValidateTargets, StartEntry, Refuse, lists, place
  <2> QED
    BY <2>1 DEF PortsInv
<1>6. CASE Visit
  <2>1. stage = "targets" /\ stage' \in {"targets", "too_many"} /\ UNCHANGED <<ports, nextPort>>
    BY <1>6 DEF Visit, Add, Advance, Refuse, lists, place
  <2> QED
    BY <2>1 DEF PortsInv
<1>7. CASE UNCHANGED vars
  <2>1. UNCHANGED <<stage, config, index, ports, nextPort>>
    BY <1>7 DEF vars, lists, place, subject
  <2> QED
    BY <2>1 DEF PortsInv
<1> QED
  BY <1>1, <1>2, <1>3, <1>4, <1>5, <1>6, <1>7 DEF Next

-----------------------------------------------------------------------------

(* The handshakes. *)

(* The names of handshakes; the provers know no string to be in STRING. *)
Handshakes == {"socks5", "socks4"} \cup STRING

(* The handshakes that a port is to have had by now. *)
Due(port) ==
  {w \in Wanted(port) : w[1] < index \/ (w[1] = index /\ port \in seen)}

ProbesInv ==
  /\ stage \in {"started", "parsed", "loaded", "merge", "targets", "ports"} =>
       byPort = [p \in PortNumbers |-> <<>>] /\ nextRange = 1 /\ seen = {}
  /\ byPort \in [PortNumbers -> Seq(Handshakes)]
  /\ stage \in {"ports", "probes", "ready"} => ValidRest(config)
  /\ stage = "probes" =>
       /\ index \in 1..(Len(config.probes) + 1)
       /\ nextPort \in Int
       /\ nextPort # 0 =>
            /\ index <= Len(config.probes) /\ Enabled
            /\ nextRange <= Len(Definition.ports)
            /\ InRange(nextPort, Definition.ports[nextRange])
       /\ index <= Len(config.probes) /\ Enabled =>
            /\ nextRange \in 1..(Len(Definition.ports) + 1)
            /\ seen = Covered(Definition.ports, nextRange, nextPort)
       /\ ~(index <= Len(config.probes) /\ Enabled) => nextRange = 1 /\ seen = {}
       /\ \A port \in PortNumbers : Lists(byPort[port], Due(port), Base.probes)
  /\ stage = "ready" => ProbesAsConfigured

LEMMA ProbesInit == Init => ProbesInv
<1> SUFFICES ASSUME Init PROVE ProbesInv
  OBVIOUS
<1>1. /\ byPort = [p \in PortNumbers |-> <<>>] /\ nextRange = 1 /\ seen = {}
      /\ stage = "started"
  BY DEF Init
<1>2. byPort \in [PortNumbers -> Seq(Handshakes)]
  BY <1>1
<1> QED
  BY <1>1, <1>2 DEF ProbesInv

(* An empty list is all that nothing asks for. *)
LEMMA ListsNothing == ASSUME NEW probes PROVE Lists(<<>>, {}, probes)
<1>1. <<>> \in [DOMAIN <<>> -> {}] /\ DOMAIN <<>> = {}
  OBVIOUS
<1> QED
  BY <1>1 DEF Lists

LEMMA OneOrTwo ==
  ASSUME NEW S, NEW a \in S, NEW b \in S
  PROVE  /\ <<a>> \in Seq(S) /\ Len(<<a>>) = 1
         /\ <<a, b>> \in Seq(S) /\ Len(<<a, b>>) = 2
OBVIOUS

(* The handshakes of an alias, or the only one. *)
LEMMA ProtocolsTyped ==
  ASSUME NEW name \in STRING
  PROVE  /\ Protocols(name) \in Seq(Handshakes)
         /\ Len(Protocols(name)) \in {1, 2}
         /\ DOMAIN Protocols(name) = 1..Len(Protocols(name))
         /\ DOMAIN Protocols(name) \subseteq {1, 2}
<1> DEFINE list == Protocols(name)
<1>1. list \in Seq(Handshakes) /\ Len(list) \in {1, 2}
  <2>1. "socks5" \in Handshakes /\ "socks4" \in Handshakes /\ name \in Handshakes
    BY DEF Handshakes
  <2>2. CASE name = "socks"
    BY <2>1, <2>2, OneOrTwo DEF Protocols
  <2>3. CASE name # "socks"
    BY <2>1, <2>3, OneOrTwo DEF Protocols
  <2> QED
    BY <2>2, <2>3
<1> HIDE DEF list
<1>2. DOMAIN list = 1..Len(list)
  BY <1>1
<1>3. DOMAIN list \subseteq {1, 2}
  BY <1>1, <1>2
<1> QED
  BY <1>1, <1>2, <1>3 DEF list

(* The handshakes of a later definition come after the rest. *)
LEMMA ListsMore ==
  ASSUME NEW list \in Seq(Handshakes), NEW wanted, NEW probes,
         Lists(list, wanted, probes),
         NEW k \in Nat, NEW name \in STRING, name = probes[k].name,
         \A w \in wanted : w[1] \in Nat /\ w[1] < k,
         NEW more, more = {<<k, m>> : m \in DOMAIN Protocols(name)}
  PROVE  Lists(list \o Protocols(name), wanted \cup more, probes)
<1> DEFINE tail == Protocols(name)
           n    == Len(list)
           longer == list \o tail
<1>1. PICK asked \in [DOMAIN list -> wanted] :
         /\ \A w \in wanted : \E i \in DOMAIN list : asked[i] = w
         /\ \A i, j \in DOMAIN list : i < j => Before(asked[i], asked[j])
         /\ \A i \in DOMAIN list :
              list[i] = Protocols(probes[asked[i][1]].name)[asked[i][2]]
  BY DEF Lists
<1>2. /\ tail \in Seq(Handshakes) /\ Len(tail) \in {1, 2} /\ DOMAIN tail = 1..Len(tail)
  BY ProtocolsTyped
<1> HIDE DEF tail
<1>3. /\ n \in Nat /\ DOMAIN list = 1..n
      /\ longer \in Seq(Handshakes) /\ Len(longer) = n + Len(tail)
      /\ DOMAIN longer = 1..(n + Len(tail))
      /\ \A i \in 1..n : longer[i] = list[i]
      /\ \A m \in 1..Len(tail) : longer[n + m] = tail[m]
  BY <1>2
<1> HIDE DEF longer, n
<1> DEFINE now == [i \in DOMAIN longer |-> IF i <= n THEN asked[i] ELSE <<k, i - n>>]
<1>4. \A i \in DOMAIN longer : i \in 1..n \/ (i > n /\ i - n \in 1..Len(tail) /\ i \in Nat)
  BY <1>2, <1>3
<1>5. /\ \A i \in 1..n : i \in DOMAIN longer /\ now[i] = asked[i]
      /\ \A m \in 1..Len(tail) : n + m \in DOMAIN longer /\ now[n + m] = <<k, m>>
  <2>1. ASSUME NEW i \in 1..n
        PROVE  i \in DOMAIN longer /\ i <= n
    BY <1>2, <1>3, <2>1
  <2>2. ASSUME NEW m \in 1..Len(tail)
        PROVE  n + m \in DOMAIN longer /\ ~(n + m <= n) /\ (n + m) - n = m
    BY <1>2, <1>3, <2>2
  <2> QED
    BY <2>1, <2>2
<1>6. \A i \in DOMAIN longer : i > n => now[i] = <<k, i - n>>
  BY <1>3
<1>7. now \in [DOMAIN longer -> wanted \cup more]
  <2>1. ASSUME NEW i \in DOMAIN longer PROVE now[i] \in wanted \cup more
    <3>1. CASE i \in 1..n
      BY <1>1, <1>3, <1>5, <3>1
    <3>2. CASE i > n /\ i - n \in 1..Len(tail)
      <4>1. now[i] = <<k, i - n>>
        BY <1>6, <3>2
      <4> HIDE DEF now
      <4> QED
        BY <1>2, <3>2, <4>1 DEF tail
    <3> QED
      BY <1>4, <3>1, <3>2
  <2> QED
    BY <2>1
<1> HIDE DEF now
<1>8. \A w \in wanted \cup more : \E i \in DOMAIN longer : now[i] = w
  <2>1. ASSUME NEW w \in wanted PROVE \E i \in DOMAIN longer : now[i] = w
    BY <1>1, <1>3, <1>5
  <2>2. ASSUME NEW w \in more PROVE \E i \in DOMAIN longer : now[i] = w
    <3>1. PICK m \in 1..Len(tail) : w = <<k, m>>
      BY <1>2 DEF tail
    <3> QED
      BY <1>5, <3>1
  <2> QED
    BY <2>1, <2>2
<1>9. \A i, j \in DOMAIN longer : i < j => Before(now[i], now[j])
  <2> SUFFICES ASSUME NEW i \in DOMAIN longer, NEW j \in DOMAIN longer, i < j
               PROVE  Before(now[i], now[j])
    OBVIOUS
  <2>1. i \in Nat /\ j \in Nat
    BY <1>2, <1>3
  <2>2. CASE j \in 1..n
    <3>1. i \in 1..n
      BY <1>3, <1>4, <2>1, <2>2
    <3> QED
      BY <1>1, <1>3, <1>5, <2>2, <3>1
  <2>3. CASE i \in 1..n /\ j > n
    <3>1. now[i] = asked[i] /\ asked[i] \in wanted /\ now[j] = <<k, j - n>>
      BY <1>1, <1>3, <1>5, <1>6, <2>3
    <3>2. now[i][1] < k /\ now[j][1] = k
      BY <3>1
    <3> QED
      BY <3>2 DEF Before
  <2>4. CASE i > n /\ j > n
    <3>1. now[i] = <<k, i - n>> /\ now[j] = <<k, j - n>>
      BY <1>6, <2>4
    <3>2. i - n < j - n
      BY <1>3, <2>1
    <3>3. now[i][1] = k /\ now[j][1] = k /\ now[i][2] < now[j][2]
      BY <3>1, <3>2
    <3> QED
      BY <3>3 DEF Before
  <2> QED
    BY <1>3, <1>4, <2>1, <2>2, <2>3, <2>4
<1>10. \A i \in DOMAIN longer :
         longer[i] = Protocols(probes[now[i][1]].name)[now[i][2]]
  <2> SUFFICES ASSUME NEW i \in DOMAIN longer
               PROVE  longer[i] = Protocols(probes[now[i][1]].name)[now[i][2]]
    OBVIOUS
  <2>1. CASE i \in 1..n
    BY <1>1, <1>3, <1>5, <2>1
  <2>2. CASE i > n /\ i - n \in 1..Len(tail) /\ i \in Nat
    <3> DEFINE m == i - n
    <3>1. n + m = i /\ m \in 1..Len(tail)
      BY <1>3, <2>2
    <3> HIDE DEF m
    <3>2. longer[i] = tail[m] /\ now[i] = <<k, m>>
      BY <1>3, <1>5, <3>1
    <3> QED
      BY <3>2 DEF tail
  <2> QED
    BY <1>4, <2>1, <2>2
<1> QED
  BY <1>7, <1>8, <1>9, <1>10 DEF Lists, longer, tail

(* Who asks for what does not change. *)
LEMMA SameWanted ==
  ASSUME UNCHANGED <<command, file>>
  PROVE  Base' = Base /\ \A port : Wanted(port)' = Wanted(port)
<1>1. Base' = Base
  BY SameRequest
<1> QED
  BY <1>1 DEF Wanted

LEMMA MemberTyped ==
  ASSUME NEW S, NEW list \in Seq(S), NEW i \in DOMAIN list
  PROVE  list[i] \in S
OBVIOUS

(* The definition at index, and what Validate has made sure of. *)
LEMMA DefinitionTyped ==
  ASSUME TypeInv, SourceInv, ProbesInv, stage = "probes",
         index <= Len(config.probes)
  PROVE  /\ index \in Nat /\ index \in DOMAIN Base.probes
         /\ config.probes = Base.probes /\ config.probing = Base.probing
         /\ Definition = Base.probes[index]
         /\ Definition.name \in STRING /\ Definition.enabled \in BOOLEAN
         /\ Definition.ports \in Seq(Ranges) /\ Len(Definition.ports) \in Nat
         /\ Len(config.probes) \in Nat
         /\ Enabled => ValidRanges(Definition.ports)
<1>1. config.probes = Base.probes /\ config.probing = Base.probing
  BY DEF SourceInv, AsAsked
<1>2. config.probes \in Seq([name : STRING, enabled : BOOLEAN, ports : Seq(Ranges)])
  BY DEF TypeInv, IsConfig, Ranges
<1>3. index \in 1..(Len(config.probes) + 1) /\ ValidRest(config)
  BY DEF ProbesInv
<1>4. index \in DOMAIN config.probes /\ index \in Nat /\ Len(config.probes) \in Nat
  BY <1>2, <1>3
<1>5. config.probes[index] \in [name : STRING, enabled : BOOLEAN, ports : Seq(Ranges)]
  BY <1>2, <1>4, MemberTyped
<1>6. config.probes[index].enabled => ValidRanges(config.probes[index].ports)
  BY <1>3, <1>4 DEF ValidRest
<1> QED
  BY <1>1, <1>4, <1>5, <1>6 DEF Definition, Enabled

(* The first port of a range is due, if it is new. *)
LEMMA StartProbeRangeKeeps ==
  ASSUME TypeInv, SourceInv, ProbesInv, StartProbeRange
  PROVE  ProbesInv'
<1> DEFINE R == Definition.ports
           first == R[nextRange].first
<1>1. /\ stage = "probes" /\ stage' = "probes" /\ nextPort = 0 /\ nextPort' = first
      /\ index <= Len(config.probes) /\ Enabled /\ nextRange <= Len(R)
      /\ UNCHANGED <<command, file, config, index, byPort, nextRange, seen>>
  BY DEF StartProbeRange, startup, subject, lists, registry
<1>2. /\ R \in Seq(Ranges) /\ Len(R) \in Nat /\ ValidRanges(R)
  BY <1>1, DefinitionTyped
<1>3. nextRange \in 1..(Len(R) + 1) /\ seen = Covered(R, nextRange, 0)
  BY <1>1 DEF ProbesInv
<1>4. nextRange \in 1..Len(R)
  BY <1>1, <1>2, <1>3
<1>5. /\ first \in Int /\ InRange(first, R[nextRange])
      /\ seen = Covered(R, nextRange, first)
  BY <1>2, <1>3, <1>4, RangeBegins
<1>6. /\ Definition' = Definition /\ Enabled' = Enabled
      /\ \A port : Due(port)' = Due(port) /\ Base' = Base
  BY <1>1, SameWanted DEF Definition, Enabled, Due
<1> HIDE DEF first
<1>7. \A port \in PortNumbers : Lists(byPort'[port], Due(port)', Base'.probes)
  BY <1>1, <1>6 DEF ProbesInv
<1> QED
  BY <1>1, <1>3, <1>5, <1>6, <1>7 DEF ProbesInv

(* The handshakes of the definition are due to the next port of a range,   *)
(* unless the port has had them.                                           *)
LEMMA DueNow ==
  ASSUME TypeInv, SourceInv, ProbesInv, stage = "probes",
         index <= Len(config.probes), Enabled, NEW port \in PortNumbers,
         NEW k \in DOMAIN Definition.ports, InRange(port, Definition.ports[k])
  PROVE  {w \in Wanted(port) : w[1] = index}
           = {<<index, m>> : m \in DOMAIN Protocols(Definition.name)}
<1>1. /\ index \in DOMAIN Base.probes /\ Definition = Base.probes[index]
      /\ Definition.name \in STRING /\ config.probing = Base.probing
  BY DefinitionTyped
<1>2. DOMAIN Protocols(Definition.name) \subseteq {1, 2}
  BY <1>1, ProtocolsTyped
<1>3. Base.probing /\ Definition.enabled
  BY <1>1 DEF Enabled
<1>4. ASSUME NEW m \in DOMAIN Protocols(Definition.name)
      PROVE  <<index, m>> \in Wanted(port)
  BY <1>1, <1>2, <1>3, <1>4 DEF Wanted
<1>5. ASSUME NEW w \in Wanted(port), w[1] = index
      PROVE  \E m \in DOMAIN Protocols(Definition.name) : w = <<index, m>>
  BY <1>1, <1>5 DEF Wanted
<1> QED
  BY <1>4, <1>5

LEMMA VisitProbePortKeeps ==
  ASSUME TypeInv, SourceInv, ProbesInv, VisitProbePort
  PROVE  ProbesInv'
<1>0. PICK p : p = nextPort
  OBVIOUS
<1> DEFINE R == Definition.ports
           name == Definition.name
           more == {<<index, m>> : m \in DOMAIN Protocols(name)}
<1>1. /\ stage = "probes" /\ stage' = "probes" /\ p # 0
      /\ UNCHANGED <<command, file, config, index>>
      /\ RegisterOnce(p)
      /\ IF p < R[nextRange].last THEN nextPort' = p + 1 /\ nextRange' = nextRange
         ELSE nextPort' = 0 /\ nextRange' = nextRange + 1
  BY <1>0 DEF VisitProbePort, startup, subject
<1>2. /\ index <= Len(config.probes) /\ Enabled /\ nextRange <= Len(R)
      /\ InRange(p, R[nextRange]) /\ p \in Int
      /\ nextRange \in 1..(Len(R) + 1) /\ seen = Covered(R, nextRange, p)
      /\ index \in 1..(Len(config.probes) + 1) /\ ValidRest(config)
      /\ byPort \in [PortNumbers -> Seq(Handshakes)]
      /\ \A port \in PortNumbers : Lists(byPort[port], Due(port), Base.probes)
  BY <1>0, <1>1 DEF ProbesInv
<1>3. /\ R \in Seq(Ranges) /\ Len(R) \in Nat /\ ValidRanges(R) /\ name \in STRING
      /\ index \in Nat /\ name = Base.probes[index].name
  BY <1>1, <1>2, DefinitionTyped
<1>4. nextRange \in 1..Len(R)
  BY <1>2, <1>3
<1>5. /\ p \in PortNumbers
      /\ p < R[nextRange].last =>
           /\ p + 1 # 0 /\ InRange(p + 1, R[nextRange])
           /\ Covered(R, nextRange, p + 1) = Covered(R, nextRange, p) \cup {p}
      /\ ~(p < R[nextRange].last) =>
           Covered(R, nextRange + 1, 0) = Covered(R, nextRange, p) \cup {p}
  <2>1. /\ p # 0 /\ p \in Int /\ InRange(p, R[nextRange])
        /\ R \in Seq(Ranges) /\ ValidRanges(R) /\ nextRange \in 1..Len(R)
    BY <1>1, <1>2, <1>3, <1>4
  <2> HIDE DEF R
  <2> QED
    BY <2>1, RangeGoesOn
<1>6. seen' = seen \cup {p}
  BY <1>1 DEF RegisterOnce, Register
<1>7. /\ nextRange' \in 1..(Len(R) + 1) /\ nextPort' \in Int
      /\ seen' = Covered(R, nextRange', nextPort')
      /\ nextPort' # 0 => nextRange' <= Len(R) /\ InRange(nextPort', R[nextRange'])
  <2>1. CASE p < R[nextRange].last
    <3>1. nextPort' = p + 1 /\ nextRange' = nextRange /\ p + 1 \in Int
      BY <1>1, <1>2, <2>1
    <3> QED
      BY <1>2, <1>5, <1>6, <2>1, <3>1
  <2>2. CASE ~(p < R[nextRange].last)
    <3>1. nextPort' = 0 /\ nextRange' = nextRange + 1
      BY <1>1, <2>2
    <3>2. nextRange + 1 \in 1..(Len(R) + 1)
      BY <1>3, <1>4
    <3> QED
      BY <1>2, <1>5, <1>6, <2>2, <3>1, <3>2
  <2> QED
    BY <2>1, <2>2
<1>8. /\ Definition' = Definition /\ Enabled' = Enabled /\ Base' = Base
      /\ \A port : Wanted(port)' = Wanted(port)
  BY <1>1, SameWanted DEF Definition, Enabled
<1>9. \A port : Due(port)' = {w \in Wanted(port) :
                               w[1] < index \/ (w[1] = index /\ port \in seen')}
  BY <1>1, <1>8 DEF Due
<1> HIDE DEF R, name, more
<1>10. CASE p \in seen
  <2>1. byPort' = byPort /\ seen' = seen
    BY <1>1, <1>10 DEF RegisterOnce
  <2>2. \A port : Due(port)' = Due(port)
    BY <1>9, <2>1 DEF Due
  <2> QED
    BY <1>1, <1>2, <1>7, <1>8, <2>1, <2>2 DEF ProbesInv, R
<1>11. CASE p \notin seen
  <2>1. byPort' = [byPort EXCEPT ![p] = @ \o Protocols(name)]
    BY <1>1, <1>11 DEF RegisterOnce, Register, name
  <2>2. byPort[p] \in Seq(Handshakes) /\ Protocols(name) \in Seq(Handshakes)
    BY <1>2, <1>3, <1>5, ProtocolsTyped
  <2>3. byPort[p] \o Protocols(name) \in Seq(Handshakes)
    BY <2>2
  <2>4. byPort' \in [PortNumbers -> Seq(Handshakes)]
    BY <1>2, <2>1, <2>3
  <2>5. Lists(byPort'[p], Due(p)', Base.probes)
    <3>1. \A w \in Due(p) : w[1] \in Nat /\ w[1] < index
      <4>1. DOMAIN Base.probes \subseteq Nat
        <5>1. config.probes \in Seq([name : STRING, enabled : BOOLEAN, ports : Seq(Ranges)])
          BY DEF TypeInv, IsConfig, Ranges
        <5>2. DOMAIN config.probes = 1..Len(config.probes) /\ Len(config.probes) \in Nat
          BY <5>1
        <5>3. config.probes = Base.probes
          BY <1>1, <1>2, DefinitionTyped
        <5> QED
          BY <5>2, <5>3
      <4>2. \A w \in Wanted(p) : w[1] \in DOMAIN Base.probes
        BY DEF Wanted
      <4> QED
        BY <1>11, <4>1, <4>2 DEF Due
    <3>2. Due(p)' = Due(p) \cup {w \in Wanted(p) : w[1] = index}
      BY <1>6, <1>9, <1>11 DEF Due
    <3>3. {w \in Wanted(p) : w[1] = index} = more
      <4>1. nextRange \in DOMAIN R
        BY <1>3, <1>4
      <4> QED
        BY <1>1, <1>2, <1>5, <4>1, DueNow DEF more, R, name
    <3>4. Lists(byPort[p], Due(p), Base.probes)
      BY <1>2, <1>5
    <3>5. Lists(byPort[p] \o Protocols(name), Due(p) \cup more, Base.probes)
      BY <1>3, <2>2, <3>1, <3>4, ListsMore DEF more
    <3>6. byPort'[p] = byPort[p] \o Protocols(name)
      BY <1>2, <1>5, <2>1
    <3> QED
      BY <3>2, <3>3, <3>5, <3>6
  <2>6. ASSUME NEW port \in PortNumbers, port # p
        PROVE  Lists(byPort'[port], Due(port)', Base.probes)
    <3>1. byPort'[port] = byPort[port]
      BY <1>2, <2>1, <2>6
    <3>2. Due(port)' = Due(port)
      BY <1>6, <1>9, <2>6 DEF Due
    <3> QED
      BY <1>2, <3>1, <3>2
  <2>7. \A port \in PortNumbers : Lists(byPort'[port], Due(port)', Base'.probes)
    BY <1>8, <2>5, <2>6
  <2> QED
    BY <1>1, <1>2, <1>7, <1>8, <2>4, <2>7 DEF ProbesInv, R
<1> QED
  BY <1>10, <1>11

(* A definition that ends has given its handshakes to all its ports. *)
LEMMA NextDefinitionKeeps ==
  ASSUME TypeInv, SourceInv, ProbesInv, NextDefinition
  PROVE  ProbesInv'
<1> DEFINE R == Definition.ports
<1>1. /\ stage = "probes" /\ stage' = "probes" /\ nextPort = 0 /\ nextPort' = 0
      /\ index <= Len(config.probes) /\ index' = index + 1
      /\ nextRange' = 1 /\ seen' = {}
      /\ Enabled => nextRange > Len(R)
      /\ UNCHANGED <<command, file, config, byPort>>
  BY DEF NextDefinition, startup, subject
<1>2. /\ R \in Seq(Ranges) /\ Len(R) \in Nat /\ Len(config.probes) \in Nat
      /\ index \in Nat /\ Definition = Base.probes[index]
      /\ config.probing = Base.probing
      /\ index \in DOMAIN Base.probes /\ config.probes = Base.probes
  BY <1>1, DefinitionTyped
<1>3. /\ index \in 1..(Len(config.probes) + 1) /\ ValidRest(config)
      /\ byPort \in [PortNumbers -> Seq(Handshakes)]
      /\ \A port \in PortNumbers : Lists(byPort[port], Due(port), Base.probes)
  BY <1>1 DEF ProbesInv
<1>4. Base' = Base /\ \A port : Wanted(port)' = Wanted(port)
  BY <1>1, SameWanted
<1>5. ASSUME NEW port \in PortNumbers, NEW w \in Wanted(port), w[1] = index
      PROVE  port \in seen
  <2>1. Enabled /\ \E k \in DOMAIN R : InRange(port, R[k])
    BY <1>2, <1>5 DEF Wanted, Enabled
  <2>2. nextRange \in 1..(Len(R) + 1) /\ seen = Covered(R, nextRange, 0)
    BY <1>1, <2>1 DEF ProbesInv
  <2>3. nextRange = Len(R) + 1
    BY <1>1, <1>2, <2>1, <2>2
  <2> QED
    BY <1>2, <2>1, <2>2, <2>3, AllCovered
<1>6. ASSUME NEW port \in PortNumbers PROVE Due(port)' = Due(port)
  <2>1. Due(port)' = {w \in Wanted(port) : w[1] < index + 1}
    BY <1>1, <1>4 DEF Due
  <2>2. \A w \in Wanted(port) : w[1] \in Int
    <3>1. config.probes \in Seq([name : STRING, enabled : BOOLEAN, ports : Seq(Ranges)])
      BY DEF TypeInv, IsConfig, Ranges
    <3>2. DOMAIN Base.probes = 1..Len(Base.probes) /\ Len(Base.probes) \in Nat
      BY <1>2, <3>1
    <3>3. \A w \in Wanted(port) : w[1] \in DOMAIN Base.probes
      BY DEF Wanted
    <3> QED
      BY <3>2, <3>3
  <2>3. \A w \in Wanted(port) :
          w[1] < index + 1 <=> w[1] < index \/ (w[1] = index /\ port \in seen)
    BY <1>2, <1>5, <2>2
  <2> QED
    BY <2>1, <2>3 DEF Due
<1>7. \A port \in PortNumbers : Lists(byPort'[port], Due(port)', Base'.probes)
  BY <1>1, <1>3, <1>4, <1>6
<1>8. index' \in 1..(Len(config'.probes) + 1) /\ ValidRest(config')
  BY <1>1, <1>2, <1>3
<1>9. index' <= Len(config'.probes) /\ Enabled' =>
        /\ nextRange' \in 1..(Len(Definition'.ports) + 1)
        /\ seen' = Covered(Definition'.ports, nextRange', nextPort')
  <2> SUFFICES ASSUME index' <= Len(config'.probes)
               PROVE  /\ nextRange' \in 1..(Len(Definition'.ports) + 1)
                      /\ seen' = Covered(Definition'.ports, nextRange', nextPort')
    OBVIOUS
  <2>1. Definition' = config.probes[index + 1] /\ index + 1 \in DOMAIN config.probes
    BY <1>1, <1>2 DEF Definition, TypeInv, IsConfig
  <2>2. config.probes \in Seq([name : STRING, enabled : BOOLEAN, ports : Seq(Ranges)])
    BY DEF TypeInv, IsConfig, Ranges
  <2>3. Definition' \in [name : STRING, enabled : BOOLEAN, ports : Seq(Ranges)]
    BY <2>1, <2>2, MemberTyped
  <2>4. Definition'.ports \in Seq(Ranges)
    BY <2>3
  <2>5. Covered(Definition'.ports, 1, 0) = {}
    BY DEF Covered, PortsBefore
  <2> QED
    BY <1>1, <2>4, <2>5
<1> QED
  BY <1>1, <1>3, <1>7, <1>8, <1>9 DEF ProbesInv

(* After the last definition, all that is wanted is due. *)
LEMMA ReadyKeeps ==
  ASSUME TypeInv, SourceInv, ProbesInv, Ready
  PROVE  ProbesInv'
<1>1. /\ stage = "probes" /\ stage' = "ready" /\ index > Len(config.probes)
      /\ UNCHANGED <<command, file, config, byPort>>
  BY DEF Ready, startup, subject, lists, registry
<1>2. /\ ValidRest(config) /\ byPort \in [PortNumbers -> Seq(Handshakes)]
      /\ \A port \in PortNumbers : Lists(byPort[port], Due(port), Base.probes)
      /\ index \in 1..(Len(config.probes) + 1)
  BY <1>1 DEF ProbesInv
<1>3. config.probes = Base.probes
  BY <1>1 DEF SourceInv, AsAsked
<1>4. DOMAIN Base.probes = 1..Len(Base.probes) /\ Len(Base.probes) \in Nat
  <2>1. config.probes \in Seq([name : STRING, enabled : BOOLEAN, ports : Seq(Ranges)])
    BY DEF TypeInv, IsConfig, Ranges
  <2> QED
    BY <1>3, <2>1
<1>5. ASSUME NEW port \in PortNumbers PROVE Due(port) = Wanted(port)
  <2>1. \A w \in Wanted(port) : w[1] \in DOMAIN Base.probes
    BY DEF Wanted
  <2>2. \A w \in Wanted(port) : w[1] < index
    BY <1>1, <1>2, <1>3, <1>4, <2>1
  <2> QED
    BY <2>2 DEF Due
<1>6. Base' = Base /\ \A port : Wanted(port)' = Wanted(port)
  BY <1>1, SameWanted
<1>7. ProbesAsConfigured'
  BY <1>1, <1>2, <1>5, <1>6 DEF ProbesAsConfigured
<1> QED
  BY <1>1, <1>2, <1>7 DEF ProbesInv

(* The first definition follows the ports of the scan. *)
LEMMA PortsExpandedKeeps ==
  ASSUME TypeInv, SourceInv, ProbesInv, PortsExpanded
  PROVE  ProbesInv'
<1>1. /\ stage = "ports" /\ stage' = "probes" /\ nextPort' = 0 /\ index' = 1
      /\ UNCHANGED <<command, file, config, byPort, nextRange, seen>>
  BY DEF PortsExpanded, startup, subject, lists, registry
<1>2. /\ byPort = [p \in PortNumbers |-> <<>>] /\ nextRange = 1 /\ seen = {}
      /\ byPort \in [PortNumbers -> Seq(Handshakes)] /\ ValidRest(config)
  BY <1>1 DEF ProbesInv
<1>3. config.probes \in Seq([name : STRING, enabled : BOOLEAN, ports : Seq(Ranges)])
  BY DEF TypeInv, IsConfig, Ranges
<1>4. DOMAIN config.probes = 1..Len(config.probes) /\ Len(config.probes) \in Nat
  BY <1>3
<1>5. config.probes = Base.probes /\ Base' = Base
  BY <1>1, SameWanted DEF SourceInv, AsAsked
<1>6. ASSUME NEW port \in PortNumbers PROVE Due(port)' = {}
  <2>1. \A w \in Wanted(port) : w[1] \in DOMAIN Base.probes
    BY DEF Wanted
  <2>2. \A w \in Wanted(port) : ~(w[1] < 1)
    BY <1>4, <1>5, <2>1
  <2>3. Wanted(port)' = Wanted(port)
    BY <1>1, SameWanted
  <2> QED
    BY <1>1, <1>2, <2>2, <2>3 DEF Due
<1>7. \A port \in PortNumbers : Lists(byPort'[port], Due(port)', Base'.probes)
  BY <1>1, <1>2, <1>6, ListsNothing
<1>8. ASSUME index' <= Len(config'.probes)
      PROVE  /\ nextRange' \in 1..(Len(Definition'.ports) + 1)
             /\ seen' = Covered(Definition'.ports, nextRange', nextPort')
  <2>1. Definition' = config.probes[1] /\ 1 \in DOMAIN config.probes
    BY <1>1, <1>4, <1>8 DEF Definition
  <2>2. Definition' \in [name : STRING, enabled : BOOLEAN, ports : Seq(Ranges)]
    BY <1>3, <2>1, MemberTyped
  <2>3. Definition'.ports \in Seq(Ranges)
    BY <2>2
  <2>4. Covered(Definition'.ports, 1, 0) = {}
    BY DEF Covered, PortsBefore
  <2> QED
    BY <1>1, <1>2, <2>3, <2>4
<1>9. index' \in 1..(Len(config'.probes) + 1) /\ ValidRest(config')
  BY <1>1, <1>2, <1>4
<1> QED
  BY <1>1, <1>2, <1>7, <1>8, <1>9 DEF ProbesInv

(* Every step keeps the invariant of the handshakes. *)
LEMMA ProbesStep ==
  ASSUME TypeInv, SourceInv, ProbesInv, [Next]_vars
  PROVE  ProbesInv'
<1>1. CASE StartProbeRange \/ VisitProbePort \/ NextDefinition \/ Ready \/ PortsExpanded
  BY <1>1, StartProbeRangeKeeps, VisitProbePortKeeps, NextDefinitionKeeps, ReadyKeeps,
     PortsExpandedKeeps
<1>2. CASE StartRange \/ VisitPort
  <2>1. stage = "ports" /\ stage' = "ports" /\ UNCHANGED <<config, byPort, nextRange, seen>>
    BY <1>2 DEF StartRange, VisitPort, subject, lists, registry
  <2> QED
    BY <2>1 DEF ProbesInv
<1>3. CASE ValidatePorts
  <2>1. /\ stage = "targets" /\ UNCHANGED <<config, byPort, nextRange, seen>>
        /\ \/ stage' = "ports" /\ ValidRest(config)
           \/ stage' \in {"merge", "invalid"}
    BY <1>3 DEF ValidatePorts, Refuse, subject, lists, registry
  <2> QED
    BY <2>1 DEF ProbesInv
<1>4. CASE Parse \/ LoadFile \/ Merge \/ ValidateTargets \/ StartEntry
  <2>1. /\ stage \in {"started", "parsed", "merge", "loaded", "targets"}
        /\ stage' \notin {"ports", "probes", "ready"}
        /\ UNCHANGED <<byPort, nextRange, seen>>
    BY <1>4 DEF Parse, LoadFile, Merge, ValidateTargets, StartEntry, Refuse, lists, registry
  <2> QED
    BY <2>1 DEF ProbesInv
<1>5. CASE Visit
  <2>1. /\ stage = "targets" /\ stage' \in {"targets", "too_many"}
        /\ UNCHANGED <<byPort, nextRange, seen>>
    BY <1>5 DEF Visit, Add, Advance, Refuse, lists, registry
  <2> QED
    BY <2>1 DEF ProbesInv
<1>6. CASE UNCHANGED vars
  <2>1. UNCHANGED <<command, file, config, stage, index, nextPort, byPort, nextRange, seen>>
    BY <1>6 DEF vars, startup, subject, lists, place, registry
  <2>2. /\ Definition' = Definition /\ Enabled' = Enabled /\ Base' = Base
        /\ \A port : Wanted(port)' = Wanted(port)
    BY <2>1, SameWanted DEF Definition, Enabled
  <2>3. \A port : Due(port)' = Due(port)
    BY <2>1, <2>2 DEF Due
  <2>4. stage = "ready" => ProbesAsConfigured'
    BY <2>1, <2>2 DEF ProbesInv, ProbesAsConfigured
  <2> QED
    BY <2>1, <2>2, <2>3, <2>4 DEF ProbesInv
<1> QED
  BY <1>1, <1>2, <1>3, <1>4, <1>5, <1>6 DEF Next

-----------------------------------------------------------------------------
PrepInv == TypeInv /\ ExpandInv /\ SourceInv /\ PortsInv /\ ProbesInv

(* The inductive invariant of the whole preparation. *)
THEOREM Prepared == Spec => []PrepInv
<1>1. Init => PrepInv
  BY TypeInit, ExpandInit, SourceInit, PortsInit, ProbesInit DEF PrepInv
<1>2. PrepInv /\ [Next]_vars => PrepInv'
  BY TypeStep, ExpandStep, SourceStep, PortsStep, ProbesStep DEF PrepInv
<1> QED
  BY <1>1, <1>2, PTL DEF Spec

(* The ports of the final configuration are those that were asked for. *)
LEMMA PortsAsked ==
  ASSUME PrepInv, stage = "ready"
  PROVE  ToSet(ports) = AskedPorts /\ ports # <<>>
<1> DEFINE R == config.ports
<1>1. /\ ValidRanges(R) /\ ToSet(ports) = PortsBefore(R, Len(R) + 1)
      /\ R = FinalPorts /\ R \in Seq(Ranges)
  BY DEF PrepInv, TypeInv, IsConfig, Ranges, PortsInv, SourceInv, AsAsked
<1>2. Len(R) \in Nat /\ DOMAIN R = 1..Len(R) /\ R # <<>>
  BY <1>1 DEF ValidRanges
<1>3. ToSet(ports) = {p \in PortNumbers : \E k \in DOMAIN R : InRange(p, R[k])}
  <2>1. 1..(Len(R) + 1 - 1) = DOMAIN R
    BY <1>2
  <2> QED
    BY <1>1, <2>1 DEF PortsBefore
<1>4. ToSet(ports) = AskedPorts
  <2>1. CASE Given("start") \/ Given("end")
    <3> DEFINE lo == Value("start", 1)
               hi == Value("end", MaxPort)
               range == [first |-> lo, last |-> hi]
    <3>1. R = <<range>>
      BY <1>1, <2>1 DEF FinalPorts
    <3>2. range.first = lo /\ range.last = hi
      OBVIOUS
    <3>3. AskedPorts = {p \in PortNumbers : lo <= p /\ p <= hi}
      BY <2>1 DEF AskedPorts
    <3> HIDE DEF range, lo, hi
    <3>4. DOMAIN R = {1} /\ R[1] = range
      BY <3>1
    <3> QED
      BY <1>3, <3>2, <3>3, <3>4 DEF InRange
  <2>2. CASE ~(Given("start") \/ Given("end"))
    <3>1. R = Base.ports
      BY <1>1, <2>2 DEF FinalPorts
    <3> QED
      BY <1>3, <2>2, <3>1 DEF AskedPorts
  <2> QED
    BY <2>1, <2>2
<1>5. ToSet(ports) # {}
  <2>1. 1 \in 1..Len(R)
    BY <1>1, <1>2
  <2>2. /\ R[1].first \in 1..MaxPort /\ R[1].last \in 1..MaxPort /\ R[1].first <= R[1].last
    BY <1>1, <2>1, RangeTyped
  <2>3. R[1].first \in PortNumbers /\ InRange(R[1].first, R[1])
    BY <2>2, MaxPortAssumption DEF PortNumbers, InRange
  <2> QED
    BY <1>2, <1>3, <2>1, <2>3
<1> QED
  BY <1>4, <1>5, EmptyPorts

(* And so are the targets. *)
LEMMA TargetsAsked ==
  ASSUME PrepInv, stage = "ready"
  PROVE  /\ ToSet(targets) = DenotedBy(AskedEntries, Len(AskedEntries))
         /\ targets # <<>>
         /\ InOrigins(AskedEntries, targets)
         /\ targets \in Seq(Places)
<1> DEFINE E == config.targets
           n == Len(E)
<1>1. /\ E # <<>> /\ Position(E, n + 1, None) /\ Gathered(E, n + 1, None, targets)
      /\ E = AskedEntries
  BY DEF PrepInv, ExpandInv, Whole, SourceInv, AsAsked
<1>2. /\ E \in Seq(TargetEntries) /\ n \in Nat /\ 1 \in 1..n
      /\ \A j \in 1..n : WellFormed(E[j])
  <2>1. E \in Seq(TargetEntries) /\ n \in Nat
    BY <1>1 DEF Position
  <2>2. 1 \in 1..n
    BY <1>1, <2>1
  <2> QED
    BY <1>1, <2>1, <2>2 DEF Position
<1>3. /\ targets \in Seq(Places) /\ InOrigins(E, targets)
      /\ ToSet(targets) = Expanded(E, n + 1, None)
  BY <1>1 DEF Gathered
<1>4. ToSet(targets) = DenotedBy(E, n)
  BY <1>2, <1>3 DEF Expanded
<1>5. DenotedBy(E, n) # {}
  <2>1. E[1] \in TargetEntries /\ WellFormed(E[1])
    BY <1>2
  <2>2. Low(E[1]) \in Low(E[1])..High(E[1])
    BY <2>1, Bounds
  <2>3. At(E[1], Low(E[1])) \in Denotes(E[1])
    BY <2>1, <2>2, Denoted
  <2> QED
    BY <1>2, <2>3, DenotedMember
<1>6. ToSet(<<>>) = {}
  BY EmptyPorts
<1> QED
  BY <1>1, <1>3, <1>4, <1>5, <1>6

(* No configuration makes the program check a host twice, or hold more     *)
(* targets than max_targets, not even while add builds the list.           *)
THEOREM NoTargetTwice == Spec => []TargetsDistinct
<1>1. PrepInv => TargetsDistinct
  BY DEF PrepInv, ExpandInv, SizeInv
<1> QED
  BY <1>1, Prepared, PTL

(* However wide a prefix or a range is, the loops of addPrefix and         *)
(* addRange stop soon after max_targets.                                   *)
THEOREM WorkIsBounded == Spec => []WorkBounded
<1>1. PrepInv => WorkBounded
  BY DEF PrepInv, ExpandInv, SizeInv
<1> QED
  BY <1>1, Prepared, PTL

(* Validate calls a configuration invalid, or too large, only if it is,    *)
(* and lets no file through that is no good by itself.                     *)
THEOREM RefusalsAreRight == Spec => []RefusedRightly
<1>1. ASSUME PrepInv PROVE RefusedRightly
  <2>1. stage = "too_many" => Cardinality(DenotedBy(config.targets, index)) > config.max
    BY <1>1 DEF PrepInv, ExpandInv
  <2>2. stage = "invalid" => Faulty(config)
    BY <1>1 DEF PrepInv, ExpandInv
  <2>3. stage = "ready" /\ Base # Default => Base = file.settings /\ Sound(file.settings)
    <3> SUFFICES ASSUME stage = "ready", Base # Default
                 PROVE  Base = file.settings /\ Sound(file.settings)
      OBVIOUS
    <3>1. options = Options /\ (NoFileRead \/ Sound(file.settings))
      BY <1>1 DEF PrepInv, SourceInv
    <3> QED
      BY <3>1, Read
  <2>4. stage = "ready" /\ Base # Default => Sound(Base)
    BY <2>3
  <2> QED
    BY <2>1, <2>2, <2>4 DEF RefusedRightly, Faulty, Sound
<1> QED
  BY <1>1, Prepared, PTL

(* A scan that starts has the targets, in their order, the ports and the   *)
(* settings that the options and the file ask for, and each of them once.  *)
THEOREM ChecksAreExact == Spec => []ChecksExact
<1>1. ASSUME PrepInv PROVE ChecksExact
  <2> SUFFICES ASSUME stage = "ready" PROVE ChecksExact
    BY DEF ChecksExact
  <2>1. /\ ToSet(targets) = DenotedBy(AskedEntries, Len(AskedEntries))
        /\ targets # <<>> /\ InOrigins(AskedEntries, targets) /\ targets \in Seq(Places)
        /\ ToSet(ports) = AskedPorts /\ ports # <<>>
    BY <1>1, TargetsAsked, PortsAsked
  <2>2. IsInjective(ports) /\ SettingsAsked
    BY <1>1 DEF PrepInv, PortsInv, SourceInv, AsAsked
  <2>3. \A i, j \in DOMAIN targets : i < j =>
          LET first == Origin(AskedEntries, targets[i])
              later == Origin(AskedEntries, targets[j])
          IN  first < later \/ (first = later /\ targets[i].n < targets[j].n)
    BY <2>1, ListSet DEF InOrigins
  <2> QED
    BY <2>1, <2>2, <2>3 DEF ChecksExact
<1> QED
  BY <1>1, Prepared, PTL

(* However the ranges of the handshakes overlap, the registry has for each *)
(* port the handshakes that the configuration enables there, an alias as   *)
(* two, each of them once and in the order of the definitions.             *)
THEOREM ProbesAreAsConfigured == Spec => []ProbesAsConfigured
<1>1. PrepInv => ProbesAsConfigured
  BY DEF PrepInv, ProbesInv, ProbesAsConfigured
<1> QED
  BY <1>1, Prepared, PTL
=============================================================================
