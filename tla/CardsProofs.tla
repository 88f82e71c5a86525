----------------------------- MODULE CardsProofs -----------------------------
(* What the service cards show and what their services save agree, for any number *)
(* of services and rows: first what Among does to a sequence, then the cards.     *)
EXTENDS Pages, Sequences, FiniteSetTheorems, WellFoundedInduction, TLAPS

UpToRank(A, i)  == {j \in A : j <= i}
Rank(A, i)      == Cardinality(UpToRank(A, i))

-----------------------------------------------------------------------------
(* A non-empty set of naturals has a least element. *)
LEMMA Least ==
  ASSUME NEW D, D \subseteq Nat, D # {}
  PROVE  \E m \in D : \A n \in D : m <= n
<1>1. PICK m \in D : \A n \in D : ~ (<<n, m>> \in OpToRel(<, Nat))
  BY NatLessThanWellFounded, WFMin
<1>2. \A k, n \in Nat : <<n, k>> \in OpToRel(<, Nat) <=> n < k
  BY DEF OpToRel
<1>3. \A n \in D : ~ (n < m)
  BY <1>1, <1>2, Zenon
<1>4. \A n \in D : m <= n
  BY <1>3
<1>5. QED
  BY <1>4

LEMMA RankFacts ==
  ASSUME NEW n \in Nat, NEW A, A \subseteq 1..n
  PROVE  /\ IsFiniteSet(A) /\ Cardinality(A) \in Nat /\ Cardinality(A) <= n
         /\ \A i \in 0..n : Rank(A, i) \in Nat
         /\ Rank(A, 0) = 0 /\ Rank(A, n) = Cardinality(A)
         /\ \A i \in 1..n : Rank(A, i) = IF i \in A THEN Rank(A, i-1) + 1 ELSE Rank(A, i-1)
<1>m. \A j \in A : j \in Int /\ 1 <= j /\ j <= n
  OBVIOUS
<1>1. IsFiniteSet(1..n) /\ Cardinality(1..n) = n
  BY FS_Interval
<1>2. IsFiniteSet(A) /\ Cardinality(A) <= n
  BY <1>1, FS_Subset
<1>3. Cardinality(A) \in Nat
  BY <1>2, FS_CardinalityType
<1>4. ASSUME NEW i \in 0..n PROVE IsFiniteSet(UpToRank(A, i)) /\ Rank(A, i) \in Nat
  <2>1. UpToRank(A, i) \subseteq A
    BY DEF UpToRank
  <2>2. IsFiniteSet(UpToRank(A, i))
    BY <1>2, <2>1, FS_Subset
  <2>3. QED
    BY <2>2, FS_CardinalityType DEF Rank
<1>5. Rank(A, 0) = 0
  <2>1. UpToRank(A, 0) = {}
    <3>1. ASSUME NEW j \in UpToRank(A, 0) PROVE FALSE
      <4>1. j \in A /\ j <= 0
        BY DEF UpToRank
      <4>2. QED
        BY <1>m, <4>1
    <3>2. QED
      BY <3>1
  <2>2. QED
    BY <2>1, FS_EmptySet DEF Rank
<1>6. Rank(A, n) = Cardinality(A)
  <2>1. UpToRank(A, n) = A
    BY <1>m DEF UpToRank
  <2>2. QED
    BY <2>1 DEF Rank
<1>7. ASSUME NEW i \in 1..n
      PROVE  Rank(A, i) = IF i \in A THEN Rank(A, i-1) + 1 ELSE Rank(A, i-1)
  <2>1. i-1 \in 0..n /\ IsFiniteSet(UpToRank(A, i-1))
    BY <1>4
  <2>2. CASE i \in A
    <3>1. UpToRank(A, i) = UpToRank(A, i-1) \union {i} /\ i \notin UpToRank(A, i-1)
      <4>1. \A j \in A : j <= i <=> j <= i-1 \/ j = i
        BY <1>m
      <4>2. ~(i <= i-1)
        OBVIOUS
      <4>3. QED
        BY <2>2, <4>1, <4>2, Zenon DEF UpToRank
    <3>2. QED
      BY <2>1, <2>2, <3>1, FS_AddElement DEF Rank
  <2>3. CASE i \notin A
    <3>1. UpToRank(A, i) = UpToRank(A, i-1)
      <4>1. \A j \in A : j <= i <=> j <= i-1
        BY <1>m, <2>3
      <4>2. QED
        BY <4>1, Zenon DEF UpToRank
    <3>2. QED
      BY <2>3, <3>1 DEF Rank
  <2>4. QED
    BY <2>2, <2>3
<1>8. QED
  BY <1>2, <1>3, <1>4, <1>5, <1>6, <1>7

(* Every number up to the size of the set is the rank of one of its elements. *)
LEMMA RankReached ==
  ASSUME NEW n \in Nat, NEW A, A \subseteq 1..n, NEW k \in 1..Cardinality(A)
  PROVE  \E i \in A : Rank(A, i) = k
<1> DEFINE D == {i \in 0..n : Rank(A, i) >= k}
<1>1. /\ Cardinality(A) \in Nat /\ \A i \in 0..n : Rank(A, i) \in Nat
      /\ Rank(A, 0) = 0 /\ Rank(A, n) = Cardinality(A)
      /\ \A i \in 1..n : Rank(A, i) = IF i \in A THEN Rank(A, i-1) + 1 ELSE Rank(A, i-1)
  BY RankFacts
<1>2. n \in D /\ D \subseteq Nat
  BY <1>1
<1>3. PICK m \in D : \A i \in D : m <= i
  BY <1>2, Least
<1>4. m \in 0..n /\ Rank(A, m) >= k
  BY <1>3
<1>5. m # 0
  BY <1>1, <1>4
<1>6. m \in 1..n /\ m - 1 \in 0..n
  BY <1>4, <1>5
<1>7. ~(Rank(A, m-1) >= k)
  BY <1>3, <1>6
<1>8. /\ Rank(A, m-1) \in Nat /\ Rank(A, m) \in Nat
      /\ Rank(A, m) = IF m \in A THEN Rank(A, m-1) + 1 ELSE Rank(A, m-1)
  BY <1>1, <1>6
<1>9. m \in A /\ Rank(A, m) = k
  BY <1>4, <1>7, <1>8
<1>10. QED
  BY <1>9

LEMMA SameSize == ASSUME NEW D PROVE S!Cardinality(D) = Cardinality(D)
BY DEF S!Cardinality, Cardinality

Nth(A, k) == CHOOSE i \in A : S!Cardinality(UpToRank(A, i)) = k

LEMMA NthIs ==
  ASSUME NEW n \in Nat, NEW A, A \subseteq 1..n, NEW k \in 1..Cardinality(A)
  PROVE  Nth(A, k) \in A /\ Rank(A, Nth(A, k)) = k
<1>1. PICK i \in A : Rank(A, i) = k
  BY RankReached
<1>2. \A j : S!Cardinality(UpToRank(A, j)) = Rank(A, j)
  BY SameSize DEF Rank
<1>3. \E j \in A : S!Cardinality(UpToRank(A, j)) = k
  BY <1>1, <1>2
<1>4. Nth(A, k) \in A /\ S!Cardinality(UpToRank(A, Nth(A, k))) = k
  BY <1>3, Zenon DEF Nth
<1>5. QED
  BY <1>2, <1>4

LEMMA AmongIs ==
  ASSUME NEW r, NEW A
  PROVE  S!Among(r, A) = [k \in 1..Cardinality(A) |-> r[Nth(A, k)]]
<1>1. S!Among(r, A) = [k \in 1..S!Cardinality(A) |-> r[Nth(A, k)]]
  BY Zenon DEF S!Among, Nth, UpToRank
<1>2. QED
  BY <1>1, SameSize

-----------------------------------------------------------------------------
(* What stands at the places is a sequence of as many. *)
LEMMA AmongType ==
  ASSUME NEW X, NEW r \in Seq(X), NEW A, A \subseteq 1..Len(r),
         NEW Y, \A i \in A : r[i] \in Y
  PROVE  S!Among(r, A) \in Seq(Y)
<1> DEFINE n == Len(r)
<1>1. n \in Nat
  OBVIOUS
<1>2. Cardinality(A) \in Nat
  BY <1>1, RankFacts
<1>3. ASSUME NEW k \in 1..Cardinality(A) PROVE r[Nth(A, k)] \in Y
  <2>1. Nth(A, k) \in A
    BY <1>1, NthIs
  <2>2. QED
    BY <2>1
<1>4. S!Among(r, A) = [k \in 1..Cardinality(A) |-> r[Nth(A, k)]]
  BY AmongIs
<1>5. S!Among(r, A) \in [1..Cardinality(A) -> Y]
  BY <1>3, <1>4
<1>6. QED
  BY <1>2, <1>5

(* At no place stands nothing. *)
LEMMA AmongNone ==
  ASSUME NEW r
  PROVE  S!Among(r, {}) = << >>
<1>1. Cardinality({}) = 0
  BY FS_EmptySet
<1>2. S!Among(r, {}) = [k \in 1..0 |-> r[Nth({}, k)]]
  BY <1>1, AmongIs
<1>3. 1..0 = {}
  OBVIOUS
<1>4. QED
  BY <1>2, <1>3

(* At all places stands all of it. *)
LEMMA AmongAll ==
  ASSUME NEW X, NEW r \in Seq(X)
  PROVE  S!Among(r, 1..Len(r)) = r
<1> DEFINE n == Len(r)
<1>1. n \in Nat
  OBVIOUS
<1>2. Cardinality(1..n) = n
  BY <1>1, FS_Interval
<1>3. ASSUME NEW i \in 1..n PROVE Rank(1..n, i) = i
  <2>1. UpToRank(1..n, i) = 1..i
    BY <1>1 DEF UpToRank
  <2>2. QED
    BY <1>1, <2>1, FS_Interval DEF Rank
<1>4. ASSUME NEW k \in 1..n PROVE Nth(1..n, k) = k
  <2>1. k \in 1..Cardinality(1..n)
    BY <1>2
  <2>2. Nth(1..n, k) \in 1..n /\ Rank(1..n, Nth(1..n, k)) = k
    BY <1>1, <2>1, NthIs
  <2>3. QED
    BY <1>3, <2>2
<1>5. S!Among(r, 1..n) = [k \in 1..n |-> r[k]]
  <2>1. S!Among(r, 1..n) = [k \in 1..n |-> r[Nth(1..n, k)]]
    BY <1>2, AmongIs
  <2>2. QED
    BY <1>4, <2>1
<1>6. QED
  BY <1>5

(* One more at the end, where no place is, makes no difference. *)
LEMMA AmongAppend ==
  ASSUME NEW X, NEW r \in Seq(X), NEW x \in X, NEW A, A \subseteq 1..Len(r)
  PROVE  S!Among(Append(r, x), A) = S!Among(r, A)
<1> DEFINE a == Append(r, x)
<1>1. Len(r) \in Nat /\ \A i \in 1..Len(r) : a[i] = r[i]
  OBVIOUS
<1>2. ASSUME NEW k \in 1..Cardinality(A) PROVE a[Nth(A, k)] = r[Nth(A, k)]
  <2>1. Nth(A, k) \in A
    BY <1>1, NthIs
  <2>2. QED
    BY <1>1, <2>1
<1>3. S!Among(a, A) = [k \in 1..Cardinality(A) |-> a[Nth(A, k)]]
  BY AmongIs
<1>4. S!Among(r, A) = [k \in 1..Cardinality(A) |-> r[Nth(A, k)]]
  BY AmongIs
<1> HIDE DEF a
<1>5. S!Among(a, A) = S!Among(r, A)
  BY <1>2, <1>3, <1>4
<1>6. QED
  BY <1>5 DEF a

-----------------------------------------------------------------------------
LEMMA UpToIs ==
  ASSUME NEW X, NEW n \in Nat, NEW f
  PROVE  f \in S!UpTo(X, n) <=> f \in Seq(X) /\ Len(f) <= n
<1>1. ASSUME f \in S!UpTo(X, n) PROVE f \in Seq(X) /\ Len(f) <= n
  <2>1. PICK k \in 0..n : f \in [1..k -> X]
    BY <1>1 DEF S!UpTo
  <2>2. QED
    BY <2>1
<1>2. ASSUME f \in Seq(X), Len(f) <= n PROVE f \in S!UpTo(X, n)
  <2>1. Len(f) \in 0..n /\ f \in [1..Len(f) -> X]
    BY <1>2
  <2>2. QED
    BY <2>1 DEF S!UpTo
<1>3. QED
  BY <1>1, <1>2

LEMMA RemoveAtIs ==
  ASSUME NEW X, NEW s \in Seq(X), NEW i \in 1..Len(s)
  PROVE  /\ S!RemoveAt(s, i) \in Seq(X) /\ Len(S!RemoveAt(s, i)) = Len(s) - 1
         /\ \A j \in 1..(i-1) : S!RemoveAt(s, i)[j] = s[j]
<1> DEFINE a == SubSeq(s, 1, i-1)  b == SubSeq(s, i+1, Len(s))
<1>1. Len(s) \in Nat /\ i \in Nat /\ 1 <= i /\ i <= Len(s)
  OBVIOUS
<1>2. a \in Seq(X) /\ Len(a) = i - 1 /\ \A j \in 1..(i-1) : a[j] = s[j]
  BY <1>1
<1>3. b \in Seq(X) /\ Len(b) = Len(s) - i
  BY <1>1
<1>4. S!RemoveAt(s, i) = a \o b
  BY DEF S!RemoveAt
<1> HIDE DEF a, b
<1>5. a \o b \in Seq(X) /\ Len(a \o b) = Len(a) + Len(b) /\ \A j \in 1..Len(a) : (a \o b)[j] = a[j]
  BY <1>2, <1>3
<1>6. QED
  BY <1>1, <1>2, <1>3, <1>4, <1>5

(* The places a row counts at. *)
PortAt(r)   == {i \in DOMAIN r : r[i].right # << >>}
VolumeAt(r) == {i \in DOMAIN r : r[i] # S!BlankRow}

LEMMA BlankIs == S!BlankRow \in S!Rows /\ S!BlankRow.left = << >> /\ S!BlankRow.right = << >>
<1>1. << >> \in S!Texts
  BY DEF S!Texts, S!Parts
<1>2. QED
  BY <1>1 DEF S!BlankRow, S!Rows

LEMMA EntryIs ==
  ASSUME NEW t \in S!Texts, NEW u \in S!Texts, t # << >> \/ u # << >>
  PROVE  t \o u \in S!Entries
<1>1. t \o u \in S!Texts /\ Len(t \o u) = Len(t) + Len(u) /\ Len(t) \in Nat /\ Len(u) \in Nat
  BY DEF S!Texts
<1>2. Len(t) > 0 \/ Len(u) > 0
  BY DEF S!Texts
<1>3. t \o u # << >>
  BY <1>1, <1>2
<1>4. QED
  BY <1>1, <1>3 DEF S!Entries

PortImages == [port : {"none", "80"}, host_port : S!Texts, extra_ports : Seq(S!Entries)]

LEMMA parseIntIs == ASSUME NEW t PROVE S!parseInt(t) \in {"none", "80"}
BY DEF S!parseInt

(* What rows amount to is a service. *)
LEMMA PortsType ==
  ASSUME NEW r \in Seq(S!Rows)
  PROVE  S!portRowsToFields(r) \in PortImages
<1> DEFINE v == S!Among(r, PortAt(r))  Y == {y \in S!Rows : y.right # << >>}
           o == [k \in 1..(Len(v) - 1) |-> v[k + 1].left \o v[k + 1].right]
<1>1. v \in Seq(Y)
  <2>1. PortAt(r) \subseteq 1..Len(r) /\ \A i \in PortAt(r) : r[i] \in Y
    BY DEF PortAt
  <2>2. QED
    BY <2>1, AmongType
<1>2. S!portRowsToFields(r) = IF v = << >> THEN [port |-> "none", host_port |-> << >>, extra_ports |-> << >>]
                              ELSE [port |-> S!parseInt(v[1].right), host_port |-> v[1].left, extra_ports |-> o]
  BY DEF S!portRowsToFields, PortAt
<1> HIDE DEF v
<1>3. CASE v = << >>
  <2>1. << >> \in S!Texts /\ << >> \in Seq(S!Entries)
    BY DEF S!Texts
  <2>2. QED
    BY <1>2, <1>3, <2>1 DEF PortImages
<1>4. CASE v # << >>
  <2>1. Len(v) \in Nat /\ Len(v) >= 1 /\ \A k \in 1..Len(v) : v[k] \in Y
    BY <1>1, <1>4
  <2>2. \A k \in 1..Len(v) : v[k].left \in S!Texts /\ v[k].right \in S!Texts /\ v[k].right # << >>
    BY <2>1 DEF S!Rows
  <2>3. ASSUME NEW k \in 1..(Len(v) - 1) PROVE v[k + 1].left \o v[k + 1].right \in S!Entries
    <3>1. k + 1 \in 1..Len(v)
      BY <2>1
    <3>2. QED
      BY <2>2, <3>1, EntryIs
  <2>4. o \in Seq(S!Entries)
    <3>1. o \in [1..(Len(v) - 1) -> S!Entries] /\ Len(v) - 1 \in Nat
      BY <2>1, <2>3
    <3> HIDE DEF o
    <3>2. QED
      BY <3>1
  <2>5. v[1].left \in S!Texts /\ S!parseInt(v[1].right) \in {"none", "80"}
    BY <2>1, <2>2, parseIntIs
  <2> HIDE DEF o
  <2>6. QED
    BY <1>2, <1>4, <2>4, <2>5 DEF PortImages
<1>5. QED
  BY <1>3, <1>4

LEMMA VolumesType ==
  ASSUME NEW r \in Seq(S!Rows)
  PROVE  S!volumeRowsToArray(r) \in Seq(S!Entries)
<1> DEFINE v == S!Among(r, VolumeAt(r))  Y == S!Rows \ {S!BlankRow}
<1>1. v \in Seq(Y)
  <2>1. VolumeAt(r) \subseteq 1..Len(r) /\ \A i \in VolumeAt(r) : r[i] \in Y
    BY DEF VolumeAt
  <2>2. QED
    BY <2>1, AmongType
<1>2. S!volumeRowsToArray(r) = [k \in DOMAIN v |-> v[k].left \o v[k].right]
  BY DEF S!volumeRowsToArray, VolumeAt
<1> HIDE DEF v
<1>3. ASSUME NEW k \in DOMAIN v PROVE v[k].left \o v[k].right \in S!Entries
  <2>1. v[k] \in S!Rows /\ v[k] # S!BlankRow
    BY <1>1
  <2>2. /\ v[k].left \in S!Texts /\ v[k].right \in S!Texts
        /\ v[k].left # << >> \/ v[k].right # << >>
    BY <2>1 DEF S!Rows, S!BlankRow
  <2>3. QED
    BY <2>2, EntryIs
<1>4. DOMAIN v = 1..Len(v) /\ Len(v) \in Nat
  BY <1>1
<1>5. S!volumeRowsToArray(r) \in [1..Len(v) -> S!Entries]
  BY <1>2, <1>3, <1>4
<1>6. QED
  BY <1>4, <1>5

LEMMA SavedType ==
  ASSUME NEW r \in Seq(S!Rows)
  PROVE  S!Saved(r) \in S!Services
<1>1. CASE list = "ports"
  BY <1>1, PortsType DEF S!Saved, S!Services, PortImages
<1>2. CASE list # "ports"
  BY <1>2, VolumesType DEF S!Saved, S!Services
<1>3. QED
  BY <1>1, <1>2

(* A row that was added amounts to nothing. *)
LEMMA SavedAppend ==
  ASSUME NEW r \in Seq(S!Rows)
  PROVE  S!Saved(Append(r, S!BlankRow)) = S!Saved(r)
<1> DEFINE a == Append(r, S!BlankRow)
<1>1. /\ Len(r) \in Nat /\ DOMAIN a = 1..(Len(r) + 1) /\ DOMAIN r = 1..Len(r)
      /\ a[Len(r) + 1] = S!BlankRow /\ \A i \in 1..Len(r) : a[i] = r[i]
  BY BlankIs
<1>2. a[Len(r) + 1].right = << >>
  BY <1>1, BlankIs
<1> HIDE DEF a
<1>3. PortAt(a) = PortAt(r) /\ VolumeAt(a) = VolumeAt(r)
  BY <1>1, <1>2 DEF PortAt, VolumeAt
<1>4. PortAt(r) \subseteq 1..Len(r) /\ VolumeAt(r) \subseteq 1..Len(r)
  BY <1>1 DEF PortAt, VolumeAt
<1>5. S!Among(a, PortAt(r)) = S!Among(r, PortAt(r)) /\ S!Among(a, VolumeAt(r)) = S!Among(r, VolumeAt(r))
  BY <1>4, BlankIs, AmongAppend DEF a
<1>6. S!portRowsToFields(a) = S!portRowsToFields(r)
  BY <1>3, <1>5 DEF S!portRowsToFields, PortAt
<1>7. S!volumeRowsToArray(a) = S!volumeRowsToArray(r)
  BY <1>3, <1>5 DEF S!volumeRowsToArray, VolumeAt
<1>8. QED
  BY <1>6, <1>7 DEF S!Saved, a

(* One empty row amounts to no row. *)
LEMMA SavedBlank == S!Saved(<<S!BlankRow>>) = S!Saved(<< >>)
<1>1. << >> \in Seq(S!Rows) /\ Append(<< >>, S!BlankRow) = <<S!BlankRow>>
  BY BlankIs
<1>2. QED
  BY <1>1, SavedAppend

-----------------------------------------------------------------------------
(* What a card shows of an entry. *)
PortRow(e) == IF Len(e) = 2 THEN [left |-> <<e[1]>>, right |-> <<e[2]>>]
              ELSE [left |-> << >>, right |-> <<e[1]>>]
PortRows(x) == [k \in DOMAIN x |-> PortRow(x[k])]

LEMMA PortRowIs ==
  ASSUME NEW e \in S!Entries
  PROVE  /\ PortRow(e) \in S!Rows /\ PortRow(e).right # << >>
         /\ Len(e) <= 2 => PortRow(e).left \o PortRow(e).right = e
<1>1. e \in Seq(S!Parts) /\ e # << >> /\ Len(e) \in Nat /\ Len(e) >= 1
  BY DEF S!Entries, S!Texts
<1>2. CASE Len(e) = 2
  <2>1. PortRow(e).left = <<e[1]>> /\ PortRow(e).right = <<e[2]>> /\ e[1] \in S!Parts /\ e[2] \in S!Parts
    BY <1>1, <1>2 DEF PortRow
  <2>2. <<e[1]>> \in Seq(S!Parts) /\ <<e[2]>> \in Seq(S!Parts) /\ <<e[2]>> # << >>
    BY <2>1
  <2>3. <<e[1]>> \o <<e[2]>> = e
    BY <1>1, <1>2
  <2>4. PortRow(e) \in S!Rows
    BY <1>2, <2>2 DEF PortRow, S!Rows, S!Texts
  <2>5. QED
    BY <2>1, <2>2, <2>3, <2>4
<1>3. CASE Len(e) # 2
  <2>1. PortRow(e).left = << >> /\ PortRow(e).right = <<e[1]>> /\ e[1] \in S!Parts
    BY <1>1, <1>3 DEF PortRow
  <2>2. << >> \in Seq(S!Parts) /\ <<e[1]>> \in Seq(S!Parts) /\ <<e[1]>> # << >>
    BY <2>1
  <2>3. Len(e) <= 2 => << >> \o <<e[1]>> = e
    <3>0. \A n \in Nat : n >= 1 /\ n # 2 /\ n <= 2 => n = 1
      OBVIOUS
    <3>1. Len(e) <= 2 => Len(e) = 1
      BY <1>1, <1>3, <3>0, Zenon
    <3>2. Len(e) = 1 => e = <<e[1]>>
      BY <1>1
    <3>3. << >> \o <<e[1]>> = <<e[1]>>
      BY <2>1
    <3>4. QED
      BY <3>1, <3>2, <3>3
  <2>4. PortRow(e) \in S!Rows
    BY <1>3, <2>2 DEF PortRow, S!Rows, S!Texts
  <2>5. QED
    BY <2>1, <2>2, <2>3, <2>4
<1>4. QED
  BY <1>2, <1>3

LEMMA PortRowsAre ==
  ASSUME NEW x \in Seq(S!Entries)
  PROVE  /\ PortRows(x) \in Seq(S!Rows) /\ Len(PortRows(x)) = Len(x)
         /\ \A k \in 1..Len(x) : PortRows(x)[k] = PortRow(x[k])
<1>1. DOMAIN x = 1..Len(x) /\ Len(x) \in Nat /\ \A k \in 1..Len(x) : x[k] \in S!Entries
  OBVIOUS
<1>2. \A k \in 1..Len(x) : PortRow(x[k]) \in S!Rows
  BY <1>1, PortRowIs
<1>3. PortRows(x) \in [1..Len(x) -> S!Rows] /\ \A k \in 1..Len(x) : PortRows(x)[k] = PortRow(x[k])
  BY <1>1, <1>2 DEF PortRows
<1> HIDE DEF PortRows
<1>4. QED
  BY <1>1, <1>3

First(img) == IF img.host_port = << >> /\ img.port = "none" THEN << >>
              ELSE <<[left |-> img.host_port, right |-> S!String(img.port)]>>

LEMMA StringIs ==
  ASSUME NEW p \in {"none", "80"}
  PROVE  S!String(p) \in S!Texts /\ (p = "80" => S!String(p) = <<"80">>)
<1>1. "80" \in S!Parts
  BY DEF S!Parts
<1>2. << >> \in Seq(S!Parts) /\ <<"80">> \in Seq(S!Parts)
  BY <1>1
<1>3. S!String(p) = << >> \/ (S!String(p) = <<p>> /\ p = "80")
  BY DEF S!String
<1>4. p = "80" => S!String(p) = <<"80">>
  BY DEF S!String
<1>5. QED
  BY <1>2, <1>3, <1>4, Zenon DEF S!Texts

LEMMA parseNumber == S!parseInt(<<"80">>) = "80"
<1> DEFINE t == <<"80">>
<1>1. t # << >> /\ t[1] = "80"
  OBVIOUS
<1> HIDE DEF t
<1>2. S!parseInt(t) = "80"
  BY <1>1 DEF S!parseInt
<1>3. QED
  BY <1>2 DEF t

LEMMA ShownPorts ==
  ASSUME NEW img
  PROVE  LET g == First(img) \o PortRows(img.extra_ports)
         IN  S!imgToPortRows(img) = IF g = << >> THEN <<S!BlankRow>> ELSE g
BY Zenon DEF S!imgToPortRows, First, PortRows, PortRow

LEMMA PortsShownType ==
  ASSUME NEW img \in PortImages
  PROVE  S!imgToPortRows(img) \in Seq(S!Rows)
<1> DEFINE f == First(img)  q == PortRows(img.extra_ports)
<1>1. img.port \in {"none", "80"} /\ img.host_port \in S!Texts /\ img.extra_ports \in Seq(S!Entries)
  BY DEF PortImages
<1>2. f \in Seq(S!Rows)
  <2>1. S!String(img.port) \in S!Texts
    BY <1>1, StringIs
  <2>2. [left |-> img.host_port, right |-> S!String(img.port)] \in S!Rows
    BY <1>1, <2>1 DEF S!Rows
  <2>3. << >> \in Seq(S!Rows) /\ <<[left |-> img.host_port, right |-> S!String(img.port)]>> \in Seq(S!Rows)
    BY <2>2
  <2>4. QED
    BY <2>3 DEF First
<1>3. q \in Seq(S!Rows)
  BY <1>1, PortRowsAre
<1>4. S!imgToPortRows(img) = IF f \o q = << >> THEN <<S!BlankRow>> ELSE f \o q
  BY ShownPorts
<1> HIDE DEF f, q
<1>5. f \o q \in Seq(S!Rows) /\ <<S!BlankRow>> \in Seq(S!Rows)
  BY <1>2, <1>3, BlankIs
<1>6. QED
  BY <1>4, <1>5

NoPorts == [port |-> "none", host_port |-> << >>, extra_ports |-> << >>]

LEMMA NothingSaved == S!portRowsToFields(<<S!BlankRow>>) = NoPorts /\ S!volumeRowsToArray(<<S!BlankRow>>) = << >>
<1> DEFINE b == <<S!BlankRow>>
<1>1. b[1].right = << >> /\ b[1] = S!BlankRow /\ DOMAIN b = {1}
  <2>1. b[1] = S!BlankRow /\ DOMAIN b = {1}
    OBVIOUS
  <2>2. QED
    BY <2>1, BlankIs
<1> HIDE DEF b
<1>2. PortAt(b) = {} /\ VolumeAt(b) = {}
  BY <1>1 DEF PortAt, VolumeAt
<1>3. S!Among(b, PortAt(b)) = << >> /\ S!Among(b, VolumeAt(b)) = << >>
  BY <1>2, AmongNone
<1>4. S!portRowsToFields(b) = NoPorts
  BY <1>3, Zenon DEF S!portRowsToFields, PortAt, NoPorts
<1>5. S!volumeRowsToArray(b) = [k \in DOMAIN << >> |-> S!Among(b, VolumeAt(b))[k].left \o S!Among(b, VolumeAt(b))[k].right]
  BY <1>3 DEF S!volumeRowsToArray, VolumeAt
<1>6. S!volumeRowsToArray(b) = << >>
  BY <1>5
<1>7. QED
  BY <1>4, <1>6 DEF b

(* Rows that all count are saved one by one. *)
LEMMA AllPorts ==
  ASSUME NEW g \in Seq(S!Rows), g # << >>, \A k \in 1..Len(g) : g[k].right # << >>
  PROVE  S!portRowsToFields(g) =
            [port |-> S!parseInt(g[1].right), host_port |-> g[1].left,
             extra_ports |-> [k \in 1..(Len(g) - 1) |-> g[k + 1].left \o g[k + 1].right]]
<1>1. PortAt(g) = 1..Len(g)
  BY DEF PortAt
<1>2. S!Among(g, PortAt(g)) = g
  BY <1>1, AmongAll
<1>3. QED
  BY <1>2 DEF S!portRowsToFields, PortAt

(* A service with a number for its first port and no address comes back as it was. *)
LEMMA PortsBack ==
  ASSUME NEW img \in PortImages, ~S!Numberless(img), ~S!Bound(img)
  PROVE  S!portRowsToFields(S!imgToPortRows(img)) = img
<1> DEFINE q == PortRows(img.extra_ports)  x == img.extra_ports
<1>1. /\ img.port \in {"none", "80"} /\ img.host_port \in S!Texts /\ x \in Seq(S!Entries)
      /\ img = [port |-> img.port, host_port |-> img.host_port, extra_ports |-> x]
  BY DEF PortImages
<1>2. CASE img.port = "none"
  <2>1. img.host_port = << >> /\ x = << >>
    BY <1>2 DEF S!Numberless
  <2>2. img = NoPorts
    BY <1>1, <1>2, <2>1 DEF NoPorts
  <2>3. First(img) = << >> /\ q = << >>
    <3>1. q \in Seq(S!Rows) /\ Len(q) = Len(x)
      BY <1>1, PortRowsAre
    <3> HIDE DEF q
    <3>2. q = << >>
      BY <2>1, <3>1
    <3>3. QED
      BY <1>2, <2>1, <3>2 DEF First
  <2>4. First(img) \o q = << >>
    BY <2>3
  <2>5. S!imgToPortRows(img) = <<S!BlankRow>>
    BY <2>4, ShownPorts
  <2>6. QED
    BY <2>2, <2>5, NothingSaved
<1>3. CASE img.port = "80"
  <2> DEFINE r == [left |-> img.host_port, right |-> <<"80">>]  g == <<r>> \o q
  <2>1. First(img) = <<r>>
    BY <1>3 DEF First, S!String
  <2>2. r \in S!Rows /\ r.right = <<"80">> /\ r.left = img.host_port
    <3>1. <<"80">> \in S!Texts
      BY DEF S!Texts, S!Parts
    <3>2. QED
      BY <1>1, <3>1 DEF S!Rows
  <2>3. /\ q \in Seq(S!Rows) /\ Len(q) = Len(x) /\ Len(x) \in Nat
        /\ \A k \in 1..Len(x) : q[k] = PortRow(x[k])
    BY <1>1, PortRowsAre
  <2> HIDE DEF q, r
  <2>4. /\ g \in Seq(S!Rows) /\ g # << >> /\ Len(g) = Len(x) + 1 /\ g[1] = r
        /\ \A k \in 1..Len(x) : g[k + 1] = q[k]
    BY <2>2, <2>3
  <2> HIDE DEF g
  <2>5. \A k \in 1..Len(x) : x[k] \in S!Entries /\ Len(x[k]) <= 2
    <3>1. DOMAIN x = 1..Len(x) /\ \A k \in 1..Len(x) : x[k] \in S!Entries
      BY <1>1
    <3>2. \A k \in DOMAIN x : ~(Len(x[k]) > 2)
      BY DEF S!Bound
    <3>3. \A k \in 1..Len(x) : Len(x[k]) \in Nat
      BY <3>1 DEF S!Entries, S!Texts
    <3>4. QED
      BY <3>1, <3>2, <3>3
  <2>6. \A k \in 1..Len(x) : g[k + 1].right # << >> /\ g[k + 1].left \o g[k + 1].right = x[k]
    BY <2>3, <2>4, <2>5, PortRowIs
  <2>7. ASSUME NEW k \in 1..Len(g) PROVE g[k].right # << >>
    <3>1. CASE k = 1
      <4>1. <<"80">> # << >>
        OBVIOUS
      <4>2. QED
        BY <2>2, <2>4, <3>1, <4>1
    <3>2. CASE k # 1
      <4>1. k - 1 \in 1..Len(x) /\ (k - 1) + 1 = k
        BY <2>3, <2>4, <3>2
      <4>2. QED
        BY <2>6, <4>1
    <3>3. QED
      BY <3>1, <3>2
  <2>8. S!imgToPortRows(img) = g
    BY <2>1, <2>4, ShownPorts DEF g, q
  <2>9. S!portRowsToFields(g) =
            [port |-> S!parseInt(g[1].right), host_port |-> g[1].left,
             extra_ports |-> [k \in 1..(Len(g) - 1) |-> g[k + 1].left \o g[k + 1].right]]
    BY <2>4, <2>7, AllPorts
  <2>10. S!parseInt(g[1].right) = "80" /\ g[1].left = img.host_port
    BY <2>2, <2>4, parseNumber
  <2>11. [k \in 1..(Len(g) - 1) |-> g[k + 1].left \o g[k + 1].right] = x
    <3>1. Len(g) - 1 = Len(x)
      BY <2>3, <2>4
    <3>2. [k \in 1..Len(x) |-> g[k + 1].left \o g[k + 1].right] = [k \in 1..Len(x) |-> x[k]]
      BY <2>6
    <3>3. x = [k \in 1..Len(x) |-> x[k]]
      BY <1>1
    <3>4. QED
      BY <3>1, <3>2, <3>3
  <2>12. QED
    BY <1>1, <1>3, <2>8, <2>9, <2>10, <2>11
<1>4. QED
  BY <1>1, <1>2, <1>3

LEMMA VolumesBack ==
  ASSUME NEW img \in Seq(S!Entries)
  PROVE  /\ S!imgToVolumeRows(img) \in Seq(S!Rows)
         /\ S!volumeRowsToArray(S!imgToVolumeRows(img)) = img
<1>1. CASE img = << >>
  <2>1. S!imgToVolumeRows(img) = <<S!BlankRow>>
    BY <1>1 DEF S!imgToVolumeRows
  <2>2. <<S!BlankRow>> \in Seq(S!Rows)
    BY BlankIs
  <2>3. QED
    BY <1>1, <2>1, <2>2, NothingSaved
<1>2. CASE img # << >>
  <2> DEFINE g == [k \in DOMAIN img |-> [left |-> <<img[k][1]>>, right |-> Tail(img[k])]]
  <2>1. S!imgToVolumeRows(img) = g
    BY <1>2 DEF S!imgToVolumeRows
  <2>2. DOMAIN img = 1..Len(img) /\ Len(img) \in Nat
    OBVIOUS
  <2>3. ASSUME NEW k \in 1..Len(img)
        PROVE  /\ <<img[k][1]>> \in S!Texts /\ Tail(img[k]) \in S!Texts
               /\ <<img[k][1]>> # << >> /\ <<img[k][1]>> \o Tail(img[k]) = img[k]
    <3> DEFINE e == img[k]
    <3>1. e \in Seq(S!Parts) /\ e # << >>
      BY DEF S!Entries, S!Texts
    <3> HIDE DEF e
    <3>2. e[1] \in S!Parts /\ Tail(e) \in Seq(S!Parts) /\ <<e[1]>> \o Tail(e) = e
      BY <3>1
    <3>3. <<e[1]>> \in Seq(S!Parts) /\ <<e[1]>> # << >>
      BY <3>2
    <3>4. QED
      BY <3>2, <3>3 DEF e, S!Texts
  <2>4. ASSUME NEW k \in 1..Len(img)
        PROVE  g[k] \in S!Rows /\ g[k] # S!BlankRow /\ g[k].left \o g[k].right = img[k]
    <3>1. g[k] = [left |-> <<img[k][1]>>, right |-> Tail(img[k])]
      BY <2>2
    <3> HIDE DEF g
    <3>2. g[k].left = <<img[k][1]>> /\ g[k].right = Tail(img[k])
      BY <3>1
    <3>3. g[k] \in S!Rows
      BY <2>3, <3>1 DEF S!Rows
    <3>4. g[k] # S!BlankRow
      BY <2>3, <3>2, BlankIs
    <3>5. QED
      BY <2>3, <3>2, <3>3, <3>4
  <2>5. DOMAIN g = 1..Len(img)
    BY <2>2
  <2>6. g \in [1..Len(img) -> S!Rows]
    BY <2>2, <2>4
  <2> HIDE DEF g
  <2>7. g \in Seq(S!Rows) /\ Len(g) = Len(img)
    BY <2>2, <2>5, <2>6
  <2>8. VolumeAt(g) = 1..Len(g)
    BY <2>4, <2>5, <2>7 DEF VolumeAt
  <2>9. S!Among(g, VolumeAt(g)) = g
    BY <2>7, <2>8, AmongAll
  <2>10. S!volumeRowsToArray(g) = [k \in DOMAIN g |-> g[k].left \o g[k].right]
    BY <2>9 DEF S!volumeRowsToArray, VolumeAt
  <2>11. S!volumeRowsToArray(g) = [k \in 1..Len(img) |-> img[k]]
    BY <2>4, <2>5, <2>10
  <2>12. img = [k \in 1..Len(img) |-> img[k]]
    OBVIOUS
  <2>13. QED
    BY <2>1, <2>7, <2>11, <2>12
<1>3. QED
  BY <1>1, <1>2

Lost(img) == list = "ports" /\ (S!Numberless(img) \/ S!Bound(img))

(* What a card shows of a service is saved as it was, or the card loses a port of it. *)
LEMMA RoundTrip ==
  ASSUME NEW img \in S!Services
  PROVE  /\ S!Shown(img) \in Seq(S!Rows)
         /\ img = S!Saved(S!Shown(img)) \/ Lost(img)
<1>1. CASE list = "ports"
  <2>1. img \in PortImages
    BY <1>1 DEF S!Services, PortImages
  <2>2. S!Shown(img) = S!imgToPortRows(img) /\ S!Saved(S!Shown(img)) = S!portRowsToFields(S!imgToPortRows(img))
    BY <1>1 DEF S!Shown, S!Saved
  <2>3. S!imgToPortRows(img) \in Seq(S!Rows)
    BY <2>1, PortsShownType
  <2>4. CASE Lost(img)
    BY <2>2, <2>3, <2>4
  <2>5. CASE ~Lost(img)
    <3>1. ~S!Numberless(img) /\ ~S!Bound(img)
      BY <1>1, <2>5 DEF Lost
    <3>2. S!portRowsToFields(S!imgToPortRows(img)) = img
      BY <2>1, <3>1, PortsBack
    <3>3. QED
      BY <2>2, <2>3, <3>2
  <2>6. QED
    BY <2>4, <2>5
<1>2. CASE list # "ports"
  <2>1. img \in Seq(S!Entries)
    BY <1>2 DEF S!Services
  <2>2. S!Shown(img) = S!imgToVolumeRows(img) /\ S!Saved(S!Shown(img)) = S!volumeRowsToArray(S!imgToVolumeRows(img))
    BY <1>2 DEF S!Shown, S!Saved
  <2>3. QED
    BY <2>1, <2>2, VolumesBack
<1>3. QED
  BY <1>1, <1>2

-----------------------------------------------------------------------------
(* The services and the cards are as many, and until a service before another is *)
(* removed the cards are theirs.                                                 *)
Agree(img, card) == img = S!Saved(card) \/ Lost(img)
CardsInv == S!TypeOK /\ CardsTellTheTruth

LEMMA TruthIs == CardsTellTheTruth <=> (~shifted => \A i \in DOMAIN images : Agree(images[i], cards[i]))
BY Zenon DEF CardsTellTheTruth, S!CardsTellTheTruth, Agree, Lost

LEMMA CardsTypes ==
  ASSUME CardsInv
  PROVE  /\ cards \in Seq(Seq(S!Rows)) /\ images \in Seq(S!Services) /\ Len(images) = Len(cards)
         /\ list \in {"ports", "volumes"} /\ shifted \in BOOLEAN
         /\ DOMAIN images = 1..Len(images) /\ DOMAIN cards = 1..Len(images) /\ Len(images) \in Nat
<1>1. /\ cards \in Seq(Seq(S!Rows)) /\ images \in Seq(S!Services) /\ Len(images) = Len(cards)
      /\ list \in {"ports", "volumes"} /\ shifted \in BOOLEAN
  BY DEF CardsInv, S!TypeOK
<1>2. DOMAIN images = 1..Len(images) /\ Len(images) \in Nat /\ DOMAIN cards = 1..Len(cards)
  BY <1>1
<1>3. QED
  BY <1>1, <1>2

(* Cards made of the services, when the page is opened. *)
LEMMA Opened ==
  ASSUME images \in Seq(S!Services), NEW c, c = [i \in DOMAIN images |-> S!Shown(images[i])]
  PROVE  /\ c \in Seq(Seq(S!Rows)) /\ Len(c) = Len(images)
         /\ \A i \in DOMAIN images : Agree(images[i], c[i])
<1>1. DOMAIN images = 1..Len(images) /\ Len(images) \in Nat /\ \A i \in DOMAIN images : images[i] \in S!Services
  OBVIOUS
<1>2. \A i \in DOMAIN images : S!Shown(images[i]) \in Seq(S!Rows) /\ Agree(images[i], S!Shown(images[i]))
  BY <1>1, RoundTrip DEF Agree
<1>3. c \in [1..Len(images) -> Seq(S!Rows)]
  BY <1>1, <1>2
<1>4. c \in Seq(Seq(S!Rows)) /\ Len(c) = Len(images)
  BY <1>1, <1>3
<1>5. QED
  BY <1>2, <1>4

LEMMA WizardsRow ==
  ASSUME NEW r \in [left : Lefts, right : Rights], list \in {"ports", "volumes"}
  PROVE  S!buildPayload(r) \in S!Services
<1>1. r.left \in S!Texts /\ r.right \in S!Texts
  BY PagesAssumption DEF S!Texts, S!Parts
<1>2. << >> \in Seq(S!Entries) /\ S!parseInt(r.right) \in {"none", "80"}
  BY parseIntIs
<1>3. CASE list = "ports"
  BY <1>1, <1>2, <1>3 DEF S!buildPayload, S!Services
<1>4. CASE list = "volumes"
  <2>1. S!Services = Seq(S!Entries) /\ S!buildPayload(r) = << >>
    BY <1>4 DEF S!Services, S!buildPayload
  <2>2. QED
    BY <1>2, <2>1
<1>5. QED
  BY <1>3, <1>4

LEMMA CardsStart == S!Init \/ S!Unused => CardsInv
<1>1. CASE S!Unused
  <2>1. /\ list = "ports" /\ images = << >> /\ cards = << >> /\ shifted = FALSE
        /\ DOMAIN images = {}
    BY <1>1 DEF S!Unused
  <2>2. images \in Seq(S!Services) /\ cards \in Seq(Seq(S!Rows)) /\ Len(images) = Len(cards)
    BY <2>1
  <2>4. S!TypeOK
    BY <2>1, <2>2 DEF S!TypeOK
  <2>3. CardsTellTheTruth
    BY <2>1, TruthIs
  <2>5. QED
    BY <2>3, <2>4 DEF CardsInv
<1>2. CASE S!Init
  <2> DEFINE typed_ == [left : Lefts, right : Rights]
  <2>1. list \in {"ports", "volumes"} /\ shifted = FALSE /\ cards = [i \in DOMAIN images |-> S!Shown(images[i])]
    BY <1>2 DEF S!Init
  <2>2. \/ \E r \in typed_ : images = <<S!buildPayload(r)>>
        \/ \E r \in S!UpTo(typed_, MaxRows) : images = <<S!Saved(r)>>
    BY <1>2 DEF S!Init
  <2>3. typed_ \subseteq S!Rows
    BY PagesAssumption DEF S!Rows, S!Texts, S!Parts
  <2>4. ASSUME NEW r \in S!UpTo(typed_, MaxRows) PROVE S!Saved(r) \in S!Services
    <3>1. MaxRows \in Nat
      BY PagesAssumption
    <3>2. r \in Seq(typed_)
      BY <3>1, UpToIs
    <3> HIDE DEF typed_
    <3>3. r \in Seq(S!Rows)
      BY <2>3, <3>2
    <3>4. QED
      BY <3>3, SavedType
  <2>5. ASSUME NEW r \in typed_ PROVE S!buildPayload(r) \in S!Services
    BY <2>1, WizardsRow
  <2> HIDE DEF typed_
  <2>6. PICK g \in S!Services : images = <<g>>
    BY <2>2, <2>4, <2>5
  <2>7. images \in Seq(S!Services)
    BY <2>6
  <2>8. /\ cards \in Seq(Seq(S!Rows)) /\ Len(cards) = Len(images)
        /\ \A i \in DOMAIN images : Agree(images[i], cards[i])
    BY <2>1, <2>7, Opened
  <2>9. S!TypeOK
    BY <2>1, <2>7, <2>8 DEF S!TypeOK
  <2>10. QED
    BY <2>8, <2>9, TruthIs DEF CardsInv
<1>3. QED
  BY <1>1, <1>2

LEMMA SavedStays ==
  list' = list => /\ \A r : S!Saved(r)' = S!Saved(r)
                  /\ S!Services' = S!Services
                  /\ \A g : Lost(g)' <=> Lost(g)
                  /\ \A g, r : Agree(g, r)' <=> Agree(g, r)
<1> SUFFICES ASSUME list' = list
    PROVE /\ \A r : S!Saved(r)' = S!Saved(r)
          /\ S!Services' = S!Services
          /\ \A g : Lost(g)' <=> Lost(g)
          /\ \A g, r : Agree(g, r)' <=> Agree(g, r)
  OBVIOUS
<1>1. \A r : S!Saved(r)' = S!Saved(r)
  BY DEF S!Saved
<1>2. S!Services' = S!Services
  BY DEF S!Services
<1>3. \A g : Lost(g)' <=> Lost(g)
  BY DEF Lost
<1>4. \A g, r : Agree(g, r)' <=> Agree(g, r)
  BY <1>1, <1>3 DEF Agree
<1>5. QED
  BY <1>1, <1>2, <1>3, <1>4

LEMMA CardsNext ==
  ASSUME list' = list, list \in {"ports", "volumes"}, shifted' \in BOOLEAN,
         cards' \in Seq(Seq(S!Rows)), images' \in Seq(S!Services), Len(images') = Len(cards'),
         ~shifted' => \A j \in DOMAIN images' : Agree(images'[j], cards'[j])
  PROVE  CardsInv'
<1>1. S!TypeOK'
  BY SavedStays DEF S!TypeOK
<1>2. (~shifted => \A i \in DOMAIN images : Agree(images[i], cards[i]))'
  BY SavedStays
<1>3. CardsTellTheTruth'
  BY <1>2, Zenon DEF CardsTellTheTruth, S!CardsTellTheTruth, Agree, Lost
<1>4. QED
  BY <1>1, <1>3 DEF CardsInv

LEMMA CardsStay == CardsInv /\ UNCHANGED <<list, images, cards, shifted>> => CardsInv'
<1> SUFFICES ASSUME CardsInv, UNCHANGED <<list, images, cards, shifted>> PROVE CardsInv'
  OBVIOUS
<1>1. QED
  BY CardsTypes, TruthIs, CardsNext DEF CardsInv

(* A row is touched, and with it what its service saves. *)
LEMMA SyncKeeps ==
  ASSUME CardsInv, NEW i \in DOMAIN images, NEW r \in Seq(S!Rows), S!Sync(i, r)
  PROVE  CardsInv'
<1>1. /\ cards' = [cards EXCEPT ![i] = r] /\ images' = [images EXCEPT ![i] = S!Saved(r)]
      /\ list' = list /\ shifted' = shifted
  BY DEF S!Sync
<1>2. /\ cards \in Seq(Seq(S!Rows)) /\ images \in Seq(S!Services) /\ Len(images) = Len(cards)
      /\ list \in {"ports", "volumes"} /\ shifted \in BOOLEAN /\ DOMAIN images = DOMAIN cards
  BY CardsTypes
<1>3. /\ cards' \in Seq(Seq(S!Rows)) /\ Len(cards') = Len(cards)
      /\ cards'[i] = r /\ \A j \in DOMAIN images : j # i => cards'[j] = cards[j]
  BY <1>1, <1>2
<1>4. /\ images' \in Seq(S!Services) /\ Len(images') = Len(images) /\ DOMAIN images' = DOMAIN images
      /\ images'[i] = S!Saved(r) /\ \A j \in DOMAIN images : j # i => images'[j] = images[j]
  BY <1>1, <1>2, SavedType
<1>5. ~shifted => \A j \in DOMAIN images : Agree(images[j], cards[j])
  BY TruthIs DEF CardsInv
<1>6. Agree(images'[i], cards'[i])
  BY <1>3, <1>4 DEF Agree
<1>7. ~shifted' => \A j \in DOMAIN images' : Agree(images'[j], cards'[j])
  BY <1>1, <1>3, <1>4, <1>5, <1>6
<1>8. QED
  BY <1>1, <1>2, <1>3, <1>4, <1>7, CardsNext

LEMMA AddRowKeeps ==
  ASSUME CardsInv, NEW i \in DOMAIN images, S!AddRow(i)
  PROVE  CardsInv'
<1>1. /\ cards' = [cards EXCEPT ![i] = Append(cards[i], S!BlankRow)]
      /\ list' = list /\ images' = images /\ shifted' = shifted
  BY DEF S!AddRow
<1>2. /\ cards \in Seq(Seq(S!Rows)) /\ images \in Seq(S!Services) /\ Len(images) = Len(cards)
      /\ list \in {"ports", "volumes"} /\ shifted \in BOOLEAN /\ DOMAIN images = DOMAIN cards
  BY CardsTypes
<1>3. cards[i] \in Seq(S!Rows) /\ Append(cards[i], S!BlankRow) \in Seq(S!Rows)
  BY <1>2, BlankIs
<1>4. /\ cards' \in Seq(Seq(S!Rows)) /\ Len(cards') = Len(cards)
      /\ cards'[i] = Append(cards[i], S!BlankRow) /\ \A j \in DOMAIN images : j # i => cards'[j] = cards[j]
  BY <1>1, <1>2, <1>3
<1>5. ~shifted => \A j \in DOMAIN images : Agree(images[j], cards[j])
  BY TruthIs DEF CardsInv
<1>6. Agree(images[i], cards[i]) => Agree(images[i], cards'[i])
  BY <1>3, <1>4, SavedAppend DEF Agree
<1>7. ~shifted' => \A j \in DOMAIN images' : Agree(images'[j], cards'[j])
  BY <1>1, <1>4, <1>5, <1>6
<1>8. QED
  BY <1>1, <1>2, <1>4, <1>7, CardsNext

LEMMA AddServiceKeeps ==
  ASSUME CardsInv, S!AddService
  PROVE  CardsInv'
<1> DEFINE n == Len(images)  img == S!Saved(<< >>)  card == S!Shown(img)
<1>1. images' = Append(images, img) /\ cards' = Append(cards, card) /\ list' = list /\ shifted' = shifted
  BY DEF S!AddService
<1>2. /\ cards \in Seq(Seq(S!Rows)) /\ images \in Seq(S!Services) /\ n = Len(cards) /\ n \in Nat
      /\ list \in {"ports", "volumes"} /\ shifted \in BOOLEAN /\ DOMAIN images = 1..n
  BY CardsTypes
<1>3. img \in S!Services
  <2>1. << >> \in Seq(S!Rows)
    OBVIOUS
  <2>2. QED
    BY <2>1, SavedType
<1>4. card \in Seq(S!Rows) /\ Agree(img, card)
  BY <1>3, RoundTrip DEF Agree
<1> HIDE DEF img, card
<1>5. /\ images' \in Seq(S!Services) /\ Len(images') = n + 1
      /\ cards' \in Seq(Seq(S!Rows)) /\ Len(cards') = n + 1
      /\ \A j \in 1..n : images'[j] = images[j] /\ cards'[j] = cards[j]
      /\ images'[n+1] = img /\ cards'[n+1] = card
  BY <1>1, <1>2, <1>3, <1>4
<1>6. ~shifted' => \A j \in DOMAIN images' : Agree(images'[j], cards'[j])
  <2>1. ~shifted => \A j \in 1..n : Agree(images[j], cards[j])
    BY <1>2, TruthIs DEF CardsInv
  <2>2. DOMAIN images' = 1..(n+1) /\ \A j \in 1..(n+1) : j \in 1..n \/ j = n+1
    BY <1>2, <1>5
  <2>3. QED
    BY <1>1, <1>4, <1>5, <2>1, <2>2
<1>7. QED
  BY <1>1, <1>2, <1>5, <1>6, CardsNext

(* The cards keep their places: as long as it is the last service that goes, they *)
(* keep their services as well.                                                   *)
LEMMA RemoveServiceKeeps ==
  ASSUME CardsInv, NEW i \in DOMAIN images, S!RemoveService(i)
  PROVE  CardsInv'
<1> DEFINE n == Len(images)
<1>1. /\ n > 1 /\ images' = S!RemoveAt(images, i) /\ cards' = S!Front(cards)
      /\ shifted' = (shifted \/ i < n) /\ list' = list
  BY DEF S!RemoveService
<1>2. /\ cards \in Seq(Seq(S!Rows)) /\ images \in Seq(S!Services) /\ n = Len(cards) /\ n \in Nat /\ i \in 1..n
      /\ list \in {"ports", "volumes"} /\ shifted \in BOOLEAN /\ DOMAIN images = 1..n
  BY CardsTypes
<1>3. /\ images' \in Seq(S!Services) /\ Len(images') = n - 1
      /\ i = n => \A j \in 1..(n-1) : images'[j] = images[j]
  BY <1>1, <1>2, RemoveAtIs
<1>4. /\ cards' \in Seq(Seq(S!Rows)) /\ Len(cards') = n - 1
      /\ \A j \in 1..(n-1) : cards'[j] = cards[j]
  BY <1>1, <1>2 DEF S!Front
<1>5. ~shifted' => \A j \in DOMAIN images' : Agree(images'[j], cards'[j])
  <2>1. SUFFICES ASSUME ~shifted', NEW j \in DOMAIN images' PROVE Agree(images'[j], cards'[j])
    OBVIOUS
  <2>a. ~shifted /\ ~(i < n)
    BY <1>1, <2>1, Zenon
  <2>2. ~shifted /\ i = n
    BY <1>2, <2>a
  <2>3. j \in 1..(n-1) /\ j \in DOMAIN images
    BY <1>2, <1>3, <2>1
  <2>4. Agree(images[j], cards[j])
    BY <2>2, <2>3, TruthIs DEF CardsInv
  <2>5. QED
    BY <1>3, <1>4, <2>2, <2>3, <2>4
<1>6. shifted' \in BOOLEAN
  BY <1>1
<1>7. QED
  BY <1>1, <1>2, <1>3, <1>4, <1>5, <1>6, CardsNext

(* What was saved is shown. *)
LEMMA ReopenKeeps ==
  ASSUME CardsInv, S!Reopen
  PROVE  CardsInv'
<1>1. cards' = [i \in DOMAIN images |-> S!Shown(images[i])] /\ list' = list /\ images' = images /\ shifted' = FALSE
  BY DEF S!Reopen
<1>2. images \in Seq(S!Services) /\ list \in {"ports", "volumes"}
  BY CardsTypes
<1>3. /\ cards' \in Seq(Seq(S!Rows)) /\ Len(cards') = Len(images)
      /\ \A i \in DOMAIN images : Agree(images[i], cards'[i])
  BY <1>1, <1>2, Opened
<1>4. QED
  BY <1>1, <1>2, <1>3, CardsNext

LEMMA CardsKeep == CardsInv /\ S!Next => CardsInv'
<1> SUFFICES ASSUME CardsInv, S!Next PROVE CardsInv'
  OBVIOUS
<1>1. CASE S!AddService
  BY <1>1, AddServiceKeeps
<1>2. CASE S!Reopen
  BY <1>2, ReopenKeeps
<1>3. ASSUME NEW i \in DOMAIN images, S!AddRow(i) PROVE CardsInv'
  BY <1>3, AddRowKeeps
<1>4. ASSUME NEW i \in DOMAIN images, S!RemoveService(i) PROVE CardsInv'
  BY <1>4, RemoveServiceKeeps
<1>c. ASSUME NEW i \in DOMAIN images PROVE cards[i] \in Seq(S!Rows)
  BY CardsTypes
<1>5. ASSUME NEW i \in DOMAIN images, NEW k \in 1..MaxRows, S!RemoveRow(i, k) PROVE CardsInv'
  <2>1. k \in DOMAIN cards[i] /\ S!Sync(i, S!RemoveAt(cards[i], k))
    BY <1>5 DEF S!RemoveRow
  <2>2. S!RemoveAt(cards[i], k) \in Seq(S!Rows)
    BY <1>c, <2>1, RemoveAtIs
  <2>3. QED
    BY <2>1, <2>2, SyncKeeps
<1>6. ASSUME NEW i \in DOMAIN images, NEW k \in 1..MaxRows, S!TypeInRow(i, k) PROVE CardsInv'
  <2>1. PICK y : /\ k \in DOMAIN cards[i]
                 /\ S!Sync(i, [cards[i] EXCEPT ![k] = y])
                 /\ \/ \E t \in Lefts  : y = [left |-> t, right |-> cards[i][k].right]
                    \/ \E t \in Rights : y = [left |-> cards[i][k].left, right |-> t]
    BY <1>6 DEF S!TypeInRow
  <2>2. cards[i] \in Seq(S!Rows) /\ cards[i][k] \in S!Rows
    BY <1>c, <2>1
  <2>3. y \in S!Rows
    BY <2>1, <2>2, PagesAssumption DEF S!Rows, S!Texts, S!Parts
  <2>4. [cards[i] EXCEPT ![k] = y] \in Seq(S!Rows)
    BY <2>1, <2>2, <2>3
  <2>5. QED
    BY <2>1, <2>4, SyncKeeps
<1>7. QED
  BY <1>1, <1>2, <1>3, <1>4, <1>5, <1>6, Zenon DEF S!Next

LEMMA CardsHold == Spec => []CardsInv
<1>1. Init => CardsInv
  BY CardsStart DEF Init
<1>2. CardsInv /\ [Next]_vars => CardsInv'
  <2> SUFFICES ASSUME CardsInv, [Next]_vars PROVE CardsInv'
    OBVIOUS
  <2>1. CASE S!Next
    BY <2>1, CardsKeep
  <2>2. CASE UNCHANGED services
    BY <2>2, CardsStay DEF services
  <2>3. QED
    BY <2>1, <2>2 DEF Next, vars
<1>3. QED
  BY <1>1, <1>2, PTL DEF Spec

(* CardsTellTheTruth: whatever half-typed rows come and go, and through any       *)
(* number of saves and openings of the page, what a card shows is what its        *)
(* service saves, until a service before another is removed and unless its ports *)
(* are such as no card can show, for any number of services and rows              *)
(* (ServiceCard and ImagesEditor).                                                *)
THEOREM CardsAreTrue == Spec => []CardsTellTheTruth
<1>1. CardsInv => CardsTellTheTruth
  BY DEF CardsInv
<1>2. QED
  BY <1>1, CardsHold, PTL
=============================================================================
