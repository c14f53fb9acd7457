-------------------------- MODULE CudagraphKeys_proofs --------------------------
(* The padding table, for every list of capture sizes.                     *)
EXTENDS CudagraphKeys, WellFoundedInduction, NaturalsInduction, TLAPS

Index == 1 .. Len(CaptureSizes)

LEMMA SizesType ==
  /\ Len(CaptureSizes) \in Nat \ {0}
  /\ \A i \in Index : CaptureSizes[i] \in Nat \ {0}
  /\ Len(CaptureSizes) \in Index
  BY KeysAssumption DEF Index

\* A batch that fits has a first captured size that holds it.
LEMMA FirstHolding ==
  ASSUME NEW n \in 1 .. MaxCapture
  PROVE  \E i \in Index : /\ CaptureSizes[i] >= n
                          /\ \A j \in Index : CaptureSizes[j] >= n => i <= j
<1> DEFINE Holding == {i \in Index : CaptureSizes[i] >= n}
<1>1. Len(CaptureSizes) \in Holding
  BY SizesType, KeysAssumption
<1>2. Holding \subseteq Nat
  BY DEF Index
<1> DEFINE Less == OpToRel(<, Nat)
<1>3. IsWellFoundedOn(Less, Nat)
  BY NatLessThanWellFounded
<1>4. \A x, y \in Nat : x < y => <<x, y>> \in Less
  BY DEF OpToRel
<1> HIDE DEF Less
<1>5. Holding # {}
  BY <1>1
<1> HIDE DEF Holding
<1>6. PICK i \in Holding : \A j \in Holding : ~(<<j, i>> \in Less)
  BY <1>2, <1>3, <1>5, WFMin, Zenon
<1> USE DEF Holding
<1>7. \A j \in Holding : i <= j
  <2> SUFFICES ASSUME NEW j \in Holding, j < i PROVE FALSE
    BY <1>2, <1>6
  <2> QED BY <1>2, <1>4, <1>6
<1> QED BY <1>6, <1>7

\* No size lies in two ranges of the table.
LEMMA RangesDisjoint ==
  ASSUME NEW n \in Nat, NEW j \in Ranges, NEW k \in Ranges,
         RangeStart(j) <= n, n < RangeEnd(j), RangeStart(k) <= n, n < RangeEnd(k)
  PROVE  j = k
<1>1. \A a, b \in Ranges : a < b => RangeEnd(a) <= RangeStart(b)
  <2> SUFFICES ASSUME NEW a \in Ranges, NEW b \in Ranges, a < b
               PROVE  RangeEnd(a) <= RangeStart(b)
    OBVIOUS
  <2>1. a \in Index /\ b - 1 \in Index /\ b # 1 /\ a <= b - 1 /\ a # Len(CaptureSizes) + 1
    BY SizesType DEF Ranges, Index
  <2>2. CaptureSizes[a] <= CaptureSizes[b - 1]
    BY SMTT(30), <2>1, SizesType, KeysAssumption DEF Index
  <2> QED BY <2>1, <2>2 DEF RangeEnd, RangeStart
<1>2. /\ RangeStart(j) \in Int /\ RangeEnd(j) \in Int
      /\ RangeStart(k) \in Int /\ RangeEnd(k) \in Int
  <2> SUFFICES ASSUME NEW a \in Ranges PROVE RangeStart(a) \in Int /\ RangeEnd(a) \in Int
    OBVIOUS
  <2>1. a # 1 => a - 1 \in Index
    BY SizesType DEF Ranges, Index
  <2>2. a # Len(CaptureSizes) + 1 => a \in Index
    BY SizesType DEF Ranges, Index
  <2>3. MaxCapture \in Int
    BY SizesType, KeysAssumption
  <2> QED BY <2>1, <2>2, <2>3, SizesType DEF RangeStart, RangeEnd
<1> QED BY <1>1, <1>2 DEF Ranges

\* The first captured size that holds n is the least one.
LEMMA PaddedHolds ==
  ASSUME NEW n \in Nat, NEW i \in Index, CaptureSizes[i] >= n,
         \A j \in Index : CaptureSizes[j] >= n => i <= j
  PROVE  IsLeastCapture(n, CaptureSizes[i])
<1>1. \A j \in Index : i <= j => CaptureSizes[i] <= CaptureSizes[j]
  BY SizesType, KeysAssumption DEF Index
<1> QED BY <1>1, SizesType DEF IsLeastCapture, Index

\* Any batch up to the largest capture is padded to the smallest captured size
\* that holds it: the range-by-range table of _compute_bs_to_padded_graph_size
\* has no hole, no overlap and no off-by-one at a captured size.
THEOREM PaddedIsLeast ==
  ASSUME NEW n \in 1 .. MaxCapture
  PROVE  IsLeastCapture(n, Padded(n))
<1>1. PICK i \in Index : /\ CaptureSizes[i] >= n
                         /\ \A j \in Index : CaptureSizes[j] >= n => i <= j
  BY FirstHolding
<1>2. /\ i \in Ranges /\ i + 1 \in Ranges /\ n \in Nat
      /\ RangeEnd(i) = CaptureSizes[i] /\ RangeStart(i + 1) = CaptureSizes[i]
  BY SizesType, KeysAssumption DEF Ranges, RangeEnd, RangeStart, Index
<1>3. RangeStart(i) < n
  <2>1. CASE i = 1
    BY <2>1 DEF RangeStart
  <2>2. CASE i # 1
    <3>1. i - 1 \in Index /\ ~(i <= i - 1)
      BY <2>2, SizesType DEF Index
    <3>2. CaptureSizes[i - 1] < n
      BY <1>1, <3>1, SizesType
    <3> QED BY <2>2, <3>2 DEF RangeStart
  <2> QED BY <2>1, <2>2
<1>4. CASE n < CaptureSizes[i]
  \* n lies strictly inside range i.
  <2>0. /\ RangeStart(i) \in Int
        /\ RangeStart(i) <= n /\ n < RangeEnd(i) /\ n # RangeStart(i)
    <3>1. i # 1 => i - 1 \in Index
      BY SizesType DEF Index
    <3>2. RangeStart(i) \in Int
      BY <3>1, SizesType DEF RangeStart
    <3> QED BY <1>2, <1>3, <1>4, <3>2
  <2>1. (CHOOSE k \in Ranges : RangeStart(k) <= n /\ n < RangeEnd(k)) = i
    BY <1>2, <2>0, RangesDisjoint
  <2>2. Padded(n) = CaptureSizes[i]
    BY <1>2, <2>0, <2>1 DEF Padded
  <2> QED BY <1>1, <2>2 , PaddedHolds
<1>5. CASE n = CaptureSizes[i]
  \* n is itself a captured size and starts the next range.
  <2>1. n < RangeEnd(i + 1)
    BY <1>5, SizesType, KeysAssumption DEF RangeEnd, Index
  <2>2. RangeStart(i + 1) <= n
    BY <1>2, <1>5
  <2>3. (CHOOSE k \in Ranges : RangeStart(k) <= n /\ n < RangeEnd(k)) = i + 1
    BY <1>2, <2>1, <2>2, RangesDisjoint
  <2>4. Padded(n) = CaptureSizes[i]
    BY <1>2, <1>5, <2>3 DEF Padded
  <2> QED BY <1>1, <2>4, PaddedHolds
<1> QED BY <1>1, <1>4, <1>5, SizesType
=============================================================================
