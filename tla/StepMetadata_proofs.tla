-------------------------- MODULE StepMetadata_proofs --------------------------
(***************************************************************************)
(* What the metadata of a step says, for every batch.  Most of it is built *)
(* from cumulative sums over the rows, so the first lemmas say what those  *)
(* sums are; a minimal index takes the place of an induction over rows.    *)
(* Then come the layout and the dispatch of a batch, the inductive         *)
(* invariant and the properties it gives at once, what the attention       *)
(* kernels see (AttentionCorrect) and what the recurrent kernels run       *)
(* (RecurrentCorrect).                                                     *)
(***************************************************************************)
EXTENDS StepMetadata, WellFoundedInduction, NaturalsInduction, FiniteSetTheorems, TLAPS

-----------------------------------------------------------------------------
(* Numbers.                                                                *)

\* A set of naturals has a least element.
LEMMA LeastOf ==
  ASSUME NEW S, S \subseteq Nat, S # {}
  PROVE  \E i \in S : \A j \in S : i <= j
<1> DEFINE Less == OpToRel(<, Nat)
<1>1. IsWellFoundedOn(Less, Nat)
  BY NatLessThanWellFounded
<1>2. \A x, y \in Nat : x < y => <<x, y>> \in Less
  BY DEF OpToRel
<1> HIDE DEF Less
<1>3. PICK i \in S : \A j \in S : ~(<<j, i>> \in Less)
  BY <1>1, WFMin, Zenon
<1>4. \A j \in S : i <= j
  <2> SUFFICES ASSUME NEW j \in S, j < i PROVE FALSE
    OBVIOUS
  <2> QED BY <1>2, <1>3
<1> QED BY <1>4

\* Division with remainder.
LEMMA DivMod ==
  ASSUME NEW a \in Nat, NEW d \in Nat \ {0}
  PROVE  a = d * (a \div d) + (a % d) /\ a \div d \in Nat /\ a % d \in 0 .. d - 1
  OBVIOUS

\* Quotient and remainder are the only ones that give a number back.
LEMMA DivUnique ==
  ASSUME NEW d \in Nat \ {0}, NEW q \in Int, NEW r \in 0 .. d - 1
  PROVE  (d * q + r) \div d = q /\ (d * q + r) % d = r
  OBVIOUS

\* A multiple grows with its factor.
LEMMA TimesMonotone ==
  ASSUME NEW a \in Int, NEW b \in Int, NEW d \in Nat \ {0}
  PROVE  /\ a < b => d * a + d <= d * b
         /\ a <= b => d * a <= d * b
  OBVIOUS

\* A quotient is what it is at least.
LEMMA DivAtLeast ==
  ASSUME NEW a \in Nat, NEW d \in Nat \ {0}, NEW q \in Int
  PROVE  q <= a \div d <=> d * q <= a
<1>1. a = d * (a \div d) + (a % d) /\ a \div d \in Nat /\ a % d \in 0 .. d - 1
  BY DivMod
<1>2. q <= a \div d => d * q <= d * (a \div d)
  BY <1>1, TimesMonotone
<1>3. a \div d < q => d * (a \div d) + d <= d * q
  BY <1>1, TimesMonotone
<1>4. d * q \in Int /\ d * (a \div d) \in Int
  BY <1>1
<1> QED BY <1>1, <1>2, <1>3, <1>4

-----------------------------------------------------------------------------
(* Cumulative sums.                                                        *)

\* cu is the cumulative sum of counts, as an equation.
IsCuSum(cu, counts, n) ==
  /\ cu \in [0 .. n -> Nat] /\ cu[0] = 0
  /\ \A i \in 1 .. n : cu[i] = cu[i - 1] + counts[i]

\* The equation has a solution: the shortest prefix without one would follow a
\* prefix with one.
LEMMA CuSumExists ==
  ASSUME NEW n \in Nat, NEW counts \in [1 .. n -> Nat]
  PROVE  \E cu : IsCuSum(cu, counts, n)
<1> DEFINE Bad == {k \in 0 .. n : ~ \E cu : IsCuSum(cu, counts, k)}
<1>1. Bad = {} => n \notin Bad
  OBVIOUS
<1> SUFFICES ASSUME Bad # {} PROVE FALSE
  BY <1>1
<1>2. PICK k \in Bad : \A j \in Bad : k <= j
  <2>1. Bad \subseteq Nat
    OBVIOUS
  <2> HIDE DEF Bad
  <2> QED BY <2>1, LeastOf
<1>3. CASE k = 0
  <2>1. IsCuSum([i \in 0 .. 0 |-> 0], counts, 0)
    BY DEF IsCuSum
  <2> QED BY <1>3, <2>1
<1>4. CASE k # 0
  <2>1. k \in Nat /\ k - 1 \in 0 .. n /\ ~(k <= k - 1)
    BY <1>4
  <2>2. k - 1 \notin Bad
    BY <1>2, <2>1
  <2>3. PICK cu : IsCuSum(cu, counts, k - 1)
    BY <2>1, <2>2
  <2> DEFINE f == [i \in 0 .. k |-> IF i = k THEN cu[k - 1] + counts[k] ELSE cu[i]]
  <2>4. f \in [0 .. k -> Nat] /\ f[0] = 0
    BY <1>4, <2>1, <2>3 DEF IsCuSum
  <2>5. ASSUME NEW i \in 1 .. k PROVE f[i] = f[i - 1] + counts[i]
    <3>1. i \in 0 .. k /\ i - 1 \in 0 .. k /\ i - 1 # k
      BY <2>1
    <3>2. f[i - 1] = cu[i - 1]
      BY <3>1
    <3>3. CASE i = k
      BY <3>1, <3>2, <3>3
    <3>4. CASE i # k
      <4>1. i \in 1 .. k - 1 /\ f[i] = cu[i]
        BY <2>1, <3>1, <3>4
      <4>2. cu[i] = cu[i - 1] + counts[i]
        BY <2>3, <4>1 DEF IsCuSum
      <4> QED BY <3>2, <4>1, <4>2
    <3> QED BY <3>3, <3>4
  <2>6. IsCuSum(f, counts, k)
    BY <2>4, <2>5 DEF IsCuSum
  <2> QED BY <2>6
<1> QED BY <1>3, <1>4

\* CuSum is that sum.
LEMMA CuSumIs ==
  ASSUME NEW n \in Nat, NEW counts \in [1 .. n -> Nat], Len(counts) = n
  PROVE  IsCuSum(CuSum(counts), counts, n)
<1> DEFINE F(f) == f = [i \in 0 .. n |-> IF i = 0 THEN 0 ELSE f[i - 1] + counts[i]]
<1>1. PICK cu : IsCuSum(cu, counts, n)
  BY CuSumExists
<1>2. F(cu)
  BY <1>1 DEF IsCuSum
<1>3. CuSum(counts) = CHOOSE f : F(f)
  BY DEF CuSum
<1>4. F(CuSum(counts))
  BY <1>2, <1>3
<1> DEFINE g == CuSum(counts)
<1> HIDE DEF g
<1>5. /\ g = [i \in 0 .. n |-> g[i]] /\ g[0] = 0
      /\ \A i \in 1 .. n : g[i] = g[i - 1] + counts[i]
  BY <1>4 DEF g
<1>6. \A i \in 0 .. n : g[i] = cu[i]
  <2> DEFINE Bad == {k \in 0 .. n : g[k] # cu[k]}
  <2> SUFFICES ASSUME Bad # {} PROVE FALSE
    OBVIOUS
  <2>1. PICK k \in Bad : \A j \in Bad : k <= j
    <3>1. Bad \subseteq Nat
      OBVIOUS
    <3> HIDE DEF Bad
    <3> QED BY <3>1, LeastOf
  <2>2. k \in 1 .. n /\ k - 1 \in 0 .. n /\ ~(k <= k - 1)
    BY <1>1, <1>5 DEF IsCuSum
  <2>3. g[k - 1] = cu[k - 1]
    BY <2>1, <2>2
  <2> QED BY <1>1, <1>5, <2>2, <2>3 DEF IsCuSum
<1>7. g \in [0 .. n -> Nat]
  BY <1>1, <1>5, <1>6 DEF IsCuSum
<1>8. IsCuSum(g, counts, n)
  BY <1>5, <1>7 DEF IsCuSum
<1> QED BY <1>8 DEF g

\* It never decreases.
LEMMA CuSumMonotone ==
  ASSUME NEW n \in Nat, NEW counts \in [1 .. n -> Nat], NEW cu, IsCuSum(cu, counts, n)
  PROVE  \A i, j \in 0 .. n : i <= j => cu[i] <= cu[j]
<1> SUFFICES ASSUME NEW i \in 0 .. n
             PROVE  \A j \in 0 .. n : i <= j => cu[i] <= cu[j]
  OBVIOUS
<1> DEFINE Bad == {j \in 0 .. n : i <= j /\ ~(cu[i] <= cu[j])}
<1> SUFFICES ASSUME Bad # {} PROVE FALSE
  OBVIOUS
<1>1. PICK k \in Bad : \A j \in Bad : k <= j
  <2>1. Bad \subseteq Nat
    OBVIOUS
  <2> HIDE DEF Bad
  <2> QED BY <2>1, LeastOf
<1>2. cu[k] \in Nat /\ cu[i] \in Nat
  BY DEF IsCuSum
<1>3. k \in 1 .. n /\ k - 1 \in 0 .. n /\ i <= k - 1 /\ ~(k <= k - 1)
  BY <1>2
<1>4. cu[i] <= cu[k - 1]
  BY <1>1, <1>3
<1>5. cu[k] = cu[k - 1] + counts[k] /\ counts[k] \in Nat /\ cu[k - 1] \in Nat
  BY <1>3 DEF IsCuSum
<1> QED BY <1>2, <1>4, <1>5

Holds(cu, i, t) == cu[i - 1] <= t /\ t < cu[i]

\* Every index belongs to one row.
LEMMA RowExists ==
  ASSUME NEW n \in Nat, NEW counts \in [1 .. n -> Nat], NEW cu, IsCuSum(cu, counts, n),
         NEW t \in 0 .. cu[n] - 1
  PROVE  \E i \in 1 .. n : Holds(cu, i, t)
<1> DEFINE Past == {i \in 0 .. n : t < cu[i]}
<1>1. n \in Past
  BY DEF IsCuSum
<1>2. PICK k \in Past : \A j \in Past : k <= j
  <2>1. Past \subseteq Nat /\ Past # {}
    BY <1>1
  <2> HIDE DEF Past
  <2> QED BY <2>1, LeastOf
<1>3. k # 0
  BY DEF IsCuSum
<1>4. k \in 1 .. n /\ k - 1 \in 0 .. n /\ ~(k <= k - 1)
  BY <1>3
<1>5. ~(t < cu[k - 1]) /\ cu[k - 1] \in Nat /\ t < cu[k]
  BY <1>2, <1>4 DEF IsCuSum
<1> QED BY <1>4, <1>5 DEF Holds

\* A token lies in one row only.
LEMMA RowUnique ==
  ASSUME NEW n \in Nat, NEW counts \in [1 .. n -> Nat], NEW cu, IsCuSum(cu, counts, n),
         NEW t \in Int, NEW i \in 1 .. n, NEW j \in 1 .. n, Holds(cu, i, t), Holds(cu, j, t)
  PROVE  i = j
<1>1. \A a, b \in 1 .. n : a < b => cu[a] <= cu[b - 1]
  BY CuSumMonotone
<1>2. \A a \in 0 .. n : cu[a] \in Nat
  BY DEF IsCuSum
<1>3. \A a \in 1 .. n : a - 1 \in 0 .. n /\ a \in 0 .. n
  OBVIOUS
<1>4. ASSUME NEW a \in 1 .. n, NEW c \in 1 .. n, Holds(cu, a, t), Holds(cu, c, t), a < c PROVE FALSE
  <2>1. cu[a] <= cu[c - 1] /\ cu[a] \in Nat /\ cu[c - 1] \in Nat
    BY <1>1, <1>2, <1>3, <1>4
  <2>2. t < cu[a] /\ cu[c - 1] <= t
    BY <1>4 DEF Holds
  <2> QED BY <2>1, <2>2
<1>5. i = j \/ i < j \/ j < i
  OBVIOUS
<1> QED BY <1>4, <1>5

\* RowAt finds it.
LEMMA RowAtIs ==
  ASSUME NEW n \in Nat, NEW counts \in [1 .. n -> Nat], NEW cu, IsCuSum(cu, counts, n),
         NEW t \in Int, NEW i \in 1 .. n, Holds(cu, i, t)
  PROVE  RowAt(cu, t) = i
<1>1. DOMAIN cu \ {0} = 1 .. n
  <2>1. DOMAIN cu = 0 .. n
    BY DEF IsCuSum
  <2>2. (0 .. n) \ {0} = 1 .. n
    OBVIOUS
  <2> QED BY <2>1, <2>2
<1>2. RowAt(cu, t) = CHOOSE k \in 1 .. n : Holds(cu, k, t)
  BY <1>1 DEF RowAt, Holds
<1>3. \A k \in 1 .. n : Holds(cu, k, t) => k = i
  BY RowUnique
<1> QED BY <1>2, <1>3

\* RowAt finds the row that holds a token.
LEMMA RowAtHolds ==
  ASSUME NEW n \in Nat, NEW counts \in [1 .. n -> Nat], NEW cu, IsCuSum(cu, counts, n),
         NEW t \in 0 .. cu[n] - 1
  PROVE  RowAt(cu, t) \in 1 .. n /\ Holds(cu, RowAt(cu, t), t)
<1>1. PICK i \in 1 .. n : Holds(cu, i, t)
  BY RowExists
<1>2. t \in Int
  OBVIOUS
<1> QED BY <1>1, <1>2, RowAtIs

\* A place among all tokens, and the row it belongs to.
IsPlace(cu, n, i, j) ==
  /\ cu[i - 1] + j \in 0 .. cu[n] - 1 /\ cu[i - 1] \in Nat
  /\ RowAt(cu, cu[i - 1] + j) = i

\* The j-th place of row i.
LEMMA PlaceOf ==
  ASSUME NEW n \in Nat, NEW counts \in [1 .. n -> Nat], NEW cu, IsCuSum(cu, counts, n),
         NEW i \in 1 .. n, NEW j \in 0 .. counts[i] - 1
  PROVE  IsPlace(cu, n, i, j)
<1>1. /\ cu[i - 1] \in Nat /\ cu[i] \in Nat /\ cu[n] \in Nat /\ counts[i] \in Nat
      /\ cu[i] = cu[i - 1] + counts[i]
  BY DEF IsCuSum
<1>2. cu[i] <= cu[n]
  BY CuSumMonotone
<1>3. cu[i - 1] + j \in Int /\ Holds(cu, i, cu[i - 1] + j)
  BY <1>1 DEF Holds
<1>4. RowAt(cu, cu[i - 1] + j) = i
  BY <1>3, RowAtIs
<1>5. cu[i - 1] + j \in 0 .. cu[n] - 1
  BY <1>1, <1>2
<1> QED BY <1>1, <1>4, <1>5 DEF IsPlace

\* Every place is the j-th of a row.
LEMMA PlaceIn ==
  ASSUME NEW n \in Nat, NEW counts \in [1 .. n -> Nat], NEW cu, IsCuSum(cu, counts, n),
         NEW t \in 0 .. cu[n] - 1
  PROVE  \E i \in 1 .. n, j \in Nat : j \in 0 .. counts[i] - 1 /\ t = cu[i - 1] + j /\ RowAt(cu, t) = i
<1>1. PICK i \in 1 .. n : i = RowAt(cu, t) /\ Holds(cu, i, t)
  BY RowAtHolds
<1>2. /\ cu[i - 1] \in Nat /\ cu[i] \in Nat /\ counts[i] \in Nat /\ cu[i] = cu[i - 1] + counts[i]
      /\ t \in Nat
  BY DEF IsCuSum
<1>3. t - cu[i - 1] \in 0 .. counts[i] - 1 /\ t - cu[i - 1] \in Nat /\ t = cu[i - 1] + (t - cu[i - 1])
  BY <1>1, <1>2 DEF Holds
<1> QED BY <1>1, <1>3

\* The concatenation of one range per row, read at the offset of a row
\* (_get_cumsum_and_arange, and the repeats built from it).
LEMMA RepeatArangeIs ==
  ASSUME NEW n \in Nat, NEW counts \in [1 .. n -> Nat], Len(counts) = n,
         NEW starts \in [1 .. n -> Int]
  PROVE  /\ DOMAIN RepeatArange(starts, counts) = 0 .. CuSum(counts)[n] - 1
         /\ \A i \in 1 .. n : \A j \in 0 .. counts[i] - 1 :
              /\ CuSum(counts)[i - 1] + j \in 0 .. CuSum(counts)[n] - 1
              /\ RepeatArange(starts, counts)[CuSum(counts)[i - 1] + j] = starts[i] + j
<1> DEFINE cu == CuSum(counts)
<1>1. IsCuSum(cu, counts, n)
  BY CuSumIs
<1>2. RepeatArange(starts, counts) =
        [t \in 0 .. cu[n] - 1 |-> starts[RowAt(cu, t)] + (t - cu[RowAt(cu, t) - 1])]
  BY DEF RepeatArange
<1> HIDE DEF cu
<1>3. ASSUME NEW i \in 1 .. n, NEW j \in 0 .. counts[i] - 1
      PROVE  /\ cu[i - 1] + j \in 0 .. cu[n] - 1
             /\ RepeatArange(starts, counts)[cu[i - 1] + j] = starts[i] + j
  <2>1. cu[i - 1] + j \in 0 .. cu[n] - 1 /\ cu[i - 1] \in Nat /\ RowAt(cu, cu[i - 1] + j) = i
    <3>1. IsPlace(cu, n, i, j)
      BY <1>1, PlaceOf
    <3> QED BY <3>1 DEF IsPlace
  <2>2. RepeatArange(starts, counts)[cu[i - 1] + j] = starts[i] + ((cu[i - 1] + j) - cu[i - 1])
    BY <1>2, <2>1
  <2>3. starts[i] \in Int /\ j \in Int
    OBVIOUS
  <2> QED BY <2>1, <2>2, <2>3
<1> QED BY <1>2, <1>3 DEF cu

-----------------------------------------------------------------------------
(* Batches.                                                                *)

RowFacts(row) ==
  /\ row.n \in Nat \ {0} /\ DraftsOf(row) \in Nat /\ DraftsOf(row) + 1 <= row.n
  /\ row.computed \in Nat /\ row.optimistic \in Nat /\ row.computed <= row.optimistic
  /\ row.prompt \in Nat \ {0}
  /\ row.computed # row.optimistic => row.prompt <= row.computed

Batch(b) ==
  /\ Len(b) \in 1 .. MaxRows /\ DOMAIN b = 1 .. Len(b)
  /\ \A i \in 1 .. Len(b) : RowFacts(b[i]) /\ b[i].req = i

\* A function on 1 .. n is a sequence of length n.
LEMMA LenOfFunction ==
  ASSUME NEW n \in Nat, NEW S, NEW f \in [1 .. n -> S]
  PROVE  Len(f) = n
<1>1. f \in Seq(S)
  OBVIOUS
<1> QED BY <1>1

\* Every kind of row has the facts of a row, whichever request it is given to.
LEMMA RowKindFacts ==
  ASSUME NEW kind \in RowKinds, NEW q
  PROVE  RowFacts([kind EXCEPT !.req = q]) /\ [kind EXCEPT !.req = q].req = q
<1> DEFINE row == [kind EXCEPT !.req = q]
<1>1. kind \in [req : Nat, n : Nat \ {0}, drafts : Nat \cup {-1}, computed : Nat,
                optimistic : Nat, prompt : Nat \ {0}, accepted : Nat \ {0}]
  BY RowAssumption
<1>2. /\ row.req = q /\ row.n = kind.n /\ row.drafts = kind.drafts /\ row.computed = kind.computed
      /\ row.optimistic = kind.optimistic /\ row.prompt = kind.prompt
  BY <1>1
<1>3. /\ kind.n \in Nat \ {0} /\ kind.drafts \in Nat \cup {-1} /\ kind.computed \in Nat
      /\ kind.optimistic \in Nat /\ kind.prompt \in Nat \ {0}
  BY <1>1
<1>4. /\ DraftsOf(kind) < kind.n /\ kind.computed <= kind.optimistic
      /\ kind.computed # kind.optimistic => kind.prompt <= kind.computed
  BY RowAssumption
<1> HIDE DEF row
<1>5. DraftsOf(row) = DraftsOf(kind) /\ DraftsOf(kind) \in Nat
  BY <1>2, <1>3 DEF DraftsOf, Listed
<1> QED
  <2>1. RowFacts(row)
    BY <1>2, <1>3, <1>4, <1>5 DEF RowFacts
  <2> QED BY <1>2, <2>1 DEF row

\* Every batch that is enumerated is a batch.
LEMMA AllBatchesAre ==
  ASSUME NEW b \in AllBatches
  PROVE  Batch(b)
<1>1. PICK n \in 1 .. MaxRows : \E kinds \in [1 .. n -> RowKinds] :
                                  b = [i \in 1 .. n |-> [kinds[i] EXCEPT !.req = i]]
  BY DEF AllBatches, BatchSizes
<1>2. PICK kinds \in [1 .. n -> RowKinds] : b = [i \in 1 .. n |-> [kinds[i] EXCEPT !.req = i]]
  BY <1>1
<1>3. n \in Nat
  BY StepAssumption
<1>4. Len(b) = n
  <2>1. b \in [1 .. n -> {b[i] : i \in 1 .. n}]
    BY <1>2
  <2> QED BY <1>3, <2>1, LenOfFunction
<1>5. ASSUME NEW i \in 1 .. n PROVE RowFacts(b[i]) /\ b[i].req = i
  <2>1. kinds[i] \in RowKinds /\ b[i] = [kinds[i] EXCEPT !.req = i]
    BY <1>2
  <2> QED BY <2>1, RowKindFacts
<1> QED BY <1>2, <1>4, <1>5 DEF Batch

Drafts(b) == [i \in 1 .. Len(b) |-> DraftsOf(b[i])]

\* The three cumulative sums over a batch.
LEMMA BatchSums ==
  ASSUME NEW b, Batch(b)
  PROVE  /\ Len(b) \in Nat
         /\ Scheduled(b) \in [1 .. Len(b) -> Nat] /\ Len(Scheduled(b)) = Len(b)
         /\ Sampled(b) \in [1 .. Len(b) -> Nat] /\ Len(Sampled(b)) = Len(b)
         /\ Drafts(b) \in [1 .. Len(b) -> Nat] /\ Len(Drafts(b)) = Len(b)
         /\ IsCuSum(CuSum(Scheduled(b)), Scheduled(b), Len(b))
         /\ IsCuSum(CuSum(Sampled(b)), Sampled(b), Len(b))
         /\ IsCuSum(CuSum(Drafts(b)), Drafts(b), Len(b))
<1>1. Len(b) \in Nat
  BY StepAssumption DEF Batch
<1>2. \A i \in 1 .. Len(b) : b[i].n \in Nat /\ DraftsOf(b[i]) \in Nat
  BY DEF Batch, RowFacts
<1>3. Scheduled(b) \in [1 .. Len(b) -> Nat] /\ Drafts(b) \in [1 .. Len(b) -> Nat]
  BY <1>2 DEF Scheduled, Drafts
<1>4. Sampled(b) \in [1 .. Len(b) -> Nat]
  BY <1>2 DEF Sampled
<1>5. Len(Scheduled(b)) = Len(b) /\ Len(Sampled(b)) = Len(b) /\ Len(Drafts(b)) = Len(b)
  BY <1>1, <1>3, <1>4, LenOfFunction
<1> QED BY <1>1, <1>3, <1>4, <1>5, CuSumIs

\* One more row adds its count to the cumulative sum.
LEMMA SumStep ==
  ASSUME NEW n \in Nat, NEW counts, NEW cu, IsCuSum(cu, counts, n), NEW i \in 1 .. n
  PROVE  cu[i] = cu[i - 1] + counts[i] /\ cu[i - 1] \in Nat /\ cu[i] \in Nat
  BY DEF IsCuSum

\* The numbers of a row, by its counts and by the cumulative sums around it.
LEMMA RowCounts ==
  ASSUME NEW b, Batch(b), NEW i \in 1 .. Len(b)
  PROVE  /\ i - 1 \in 0 .. Len(b) /\ i \in 0 .. Len(b) /\ Len(b) \in Nat
         /\ Scheduled(b)[i] = b[i].n /\ Sampled(b)[i] = DraftsOf(b[i]) + 1
         /\ Drafts(b)[i] = DraftsOf(b[i])
         /\ CuSum(Scheduled(b))[i] = CuSum(Scheduled(b))[i - 1] + b[i].n
         /\ CuSum(Sampled(b))[i] = CuSum(Sampled(b))[i - 1] + DraftsOf(b[i]) + 1
         /\ CuSum(Drafts(b))[i] = CuSum(Drafts(b))[i - 1] + DraftsOf(b[i])
         /\ DraftsOf(b[i]) \in Nat /\ RowFacts(b[i])
         /\ CuSum(Scheduled(b))[i - 1] \in Nat /\ CuSum(Scheduled(b))[i] \in Nat
         /\ CuSum(Sampled(b))[i - 1] \in Nat /\ CuSum(Sampled(b))[i] \in Nat
         /\ CuSum(Drafts(b))[i - 1] \in Nat /\ CuSum(Drafts(b))[i] \in Nat
<1>1. i - 1 \in 0 .. Len(b) /\ i \in 0 .. Len(b) /\ Len(b) \in Nat
  BY StepAssumption DEF Batch
<1>2. Scheduled(b)[i] = b[i].n /\ Sampled(b)[i] = DraftsOf(b[i]) + 1 /\ Drafts(b)[i] = DraftsOf(b[i])
  BY DEF Scheduled, Sampled, Drafts
<1>3. DraftsOf(b[i]) \in Nat /\ RowFacts(b[i])
  BY DEF Batch, RowFacts
<1>4. /\ CuSum(Scheduled(b))[i] = CuSum(Scheduled(b))[i - 1] + b[i].n
      /\ CuSum(Scheduled(b))[i - 1] \in Nat /\ CuSum(Scheduled(b))[i] \in Nat
  <2>1. IsCuSum(CuSum(Scheduled(b)), Scheduled(b), Len(b))
    BY BatchSums
  <2> QED BY <1>1, <1>2, <2>1, SumStep
<1>5. /\ CuSum(Sampled(b))[i] = CuSum(Sampled(b))[i - 1] + (DraftsOf(b[i]) + 1)
      /\ CuSum(Sampled(b))[i - 1] \in Nat /\ CuSum(Sampled(b))[i] \in Nat
  <2>1. IsCuSum(CuSum(Sampled(b)), Sampled(b), Len(b))
    BY BatchSums
  <2> QED BY <1>1, <1>2, <2>1, SumStep
<1>6. /\ CuSum(Drafts(b))[i] = CuSum(Drafts(b))[i - 1] + DraftsOf(b[i])
      /\ CuSum(Drafts(b))[i - 1] \in Nat /\ CuSum(Drafts(b))[i] \in Nat
  <2>1. IsCuSum(CuSum(Drafts(b)), Drafts(b), Len(b))
    BY BatchSums
  <2> QED BY <1>1, <1>2, <2>1, SumStep
<1>7. CuSum(Sampled(b))[i] = CuSum(Sampled(b))[i - 1] + DraftsOf(b[i]) + 1
  BY <1>3, <1>5
<1> QED BY <1>1, <1>2, <1>3, <1>4, <1>5, <1>6, <1>7, Zenon

-----------------------------------------------------------------------------
(* Positions.                                                              *)

\* Token j of a row stands j after what the row had computed.
LEMMA PositionsAre ==
  ASSUME NEW b, Batch(b)
  PROVE  /\ DOMAIN Positions(b) = 0 .. CuSum(Scheduled(b))[Len(b)] - 1
         /\ \A i \in 1 .. Len(b) : \A j \in 0 .. b[i].n - 1 :
              Positions(b)[CuSum(Scheduled(b))[i - 1] + j] = b[i].computed + j
<1> DEFINE starts == [i \in 1 .. Len(b) |-> b[i].computed]
<1>1. starts \in [1 .. Len(b) -> Int] /\ \A i \in 1 .. Len(b) : starts[i] = b[i].computed
  BY DEF Batch, RowFacts
<1>2. Positions(b) = RepeatArange(starts, Scheduled(b))
  BY DEF Positions
<1> HIDE DEF starts
<1>3. \A i \in 1 .. Len(b) : Scheduled(b)[i] = b[i].n
  BY RowCounts
<1>4. /\ DOMAIN RepeatArange(starts, Scheduled(b)) = 0 .. CuSum(Scheduled(b))[Len(b)] - 1
      /\ \A i \in 1 .. Len(b) : \A j \in 0 .. Scheduled(b)[i] - 1 :
           RepeatArange(starts, Scheduled(b))[CuSum(Scheduled(b))[i - 1] + j] = starts[i] + j
  <2>1. Len(b) \in Nat /\ Scheduled(b) \in [1 .. Len(b) -> Nat] /\ Len(Scheduled(b)) = Len(b)
    BY BatchSums
  <2> QED BY <1>1, <2>1, RepeatArangeIs
<1> QED BY <1>1, <1>2, <1>3, <1>4

\* The drift moves what the CPU laid out to the token's own position: a row that
\* has drifted is past its prompt, where positions are shifted alike.
LEMMA DriftMovesRow ==
  ASSUME NEW row, RowFacts(row), NEW j \in 0 .. row.n - 1
  PROVE  CpuRope(row, j) + Drift(row) = RopeOf(row, row.computed + j)
<1>1. CASE row.computed = row.optimistic
  BY <1>1 DEF RowFacts, CpuRope, Drift, RopeOf, PromptPart, PromptRope, RopeDelta
<1>2. CASE row.computed # row.optimistic
  <2>1. row.prompt <= row.computed /\ row.prompt <= row.optimistic
    BY <1>2 DEF RowFacts
  <2>2. PromptPart(row) = 0
    BY <2>1 DEF RowFacts, PromptPart
  <2> QED BY <2>1, <2>2 DEF RowFacts, CpuRope, Drift, RopeOf, RopeDelta
<1> QED BY <1>1, <1>2

\* The multi-axis position of a token is the one of its row at its position.
LEMMA BatchRope ==
  ASSUME NEW b, Batch(b), NEW t \in DOMAIN Positions(b)
  PROVE  RopePositions(b)[t] = RopeOf(b[RowAt(CuSum(Scheduled(b)), t)], Positions(b)[t])
<1> DEFINE cu == CuSum(Scheduled(b))
<1>1. IsCuSum(cu, Scheduled(b), Len(b)) /\ Scheduled(b) \in [1 .. Len(b) -> Nat] /\ Len(b) \in Nat
  BY BatchSums
<1>2. t \in 0 .. cu[Len(b)] - 1
  BY PositionsAre
<1>3. RopePositions(b)[t] =
        CpuRope(b[RowAt(cu, t)], t - cu[RowAt(cu, t) - 1]) + Drift(b[RowAt(cu, t)])
  BY DEF RopePositions
<1> HIDE DEF cu
<1>4. PICK i \in 1 .. Len(b), j \in Nat :
        j \in 0 .. Scheduled(b)[i] - 1 /\ t = cu[i - 1] + j /\ RowAt(cu, t) = i
  BY <1>1, <1>2, PlaceIn
<1>5. cu[i - 1] \in Nat /\ Scheduled(b)[i] = b[i].n
  BY RowCounts DEF cu
<1>6. t - cu[i - 1] = j /\ j \in 0 .. b[i].n - 1
  BY <1>4, <1>5
<1>7. Positions(b)[t] = b[i].computed + j
  BY <1>4, <1>6, PositionsAre DEF cu
<1>8. RowFacts(b[i])
  BY DEF Batch
<1> QED BY <1>3, <1>4, <1>6, <1>7, <1>8, DriftMovesRow DEF cu

-----------------------------------------------------------------------------
(* The logits that verify drafts.                                          *)

\* The logits of a row are those of its last tokens: its drafts' and one before.
LEMMA LogitsAre ==
  ASSUME NEW b, Batch(b)
  PROVE  /\ DOMAIN LogitsIndices(b) = 0 .. CuSum(Sampled(b))[Len(b)] - 1
         /\ \A i \in 1 .. Len(b) : \A j \in 0 .. DraftsOf(b[i]) :
              /\ CuSum(Sampled(b))[i - 1] + j \in DOMAIN LogitsIndices(b)
              /\ LogitsIndices(b)[CuSum(Sampled(b))[i - 1] + j] =
                   CuSum(Scheduled(b))[i] - (DraftsOf(b[i]) + 1) + j
<1> DEFINE starts == [i \in 1 .. Len(b) |-> CuSum(Scheduled(b))[i] - Sampled(b)[i]]
<1>1. \A i \in 1 .. Len(b) : /\ Sampled(b)[i] = DraftsOf(b[i]) + 1 /\ DraftsOf(b[i]) \in Nat
                             /\ CuSum(Scheduled(b))[i] \in Nat
  BY RowCounts
<1>2. /\ starts \in [1 .. Len(b) -> Int]
      /\ \A i \in 1 .. Len(b) : starts[i] = CuSum(Scheduled(b))[i] - (DraftsOf(b[i]) + 1)
  BY <1>1
<1>3. LogitsIndices(b) = RepeatArange(starts, Sampled(b))
  BY DEF LogitsIndices
<1> HIDE DEF starts
<1>4. /\ DOMAIN RepeatArange(starts, Sampled(b)) = 0 .. CuSum(Sampled(b))[Len(b)] - 1
      /\ \A i \in 1 .. Len(b) : \A j \in 0 .. Sampled(b)[i] - 1 :
           /\ CuSum(Sampled(b))[i - 1] + j \in 0 .. CuSum(Sampled(b))[Len(b)] - 1
           /\ RepeatArange(starts, Sampled(b))[CuSum(Sampled(b))[i - 1] + j] = starts[i] + j
  <2>1. Len(b) \in Nat /\ Sampled(b) \in [1 .. Len(b) -> Nat] /\ Len(Sampled(b)) = Len(b)
    BY BatchSums
  <2> QED BY <1>2, <2>1, RepeatArangeIs
<1>5. \A i \in 1 .. Len(b) : \A j \in 0 .. DraftsOf(b[i]) : j \in 0 .. Sampled(b)[i] - 1
  BY <1>1
<1> QED BY <1>2, <1>3, <1>4, <1>5

\* The target logits of a row's drafts are the first ones of the row.
LEMMA TargetsAre ==
  ASSUME NEW b, Batch(b)
  PROVE  /\ DOMAIN TargetLogits(b) = 0 .. CuSum(Drafts(b))[Len(b)] - 1
         /\ \A i \in 1 .. Len(b) : \A j \in 0 .. DraftsOf(b[i]) - 1 :
              TargetLogits(b)[CuSum(Drafts(b))[i - 1] + j] = CuSum(Sampled(b))[i - 1] + j
<1> DEFINE starts == [i \in 1 .. Len(b) |-> CuSum(Sampled(b))[i] - Sampled(b)[i]]
<1>1. \A i \in 1 .. Len(b) : /\ Sampled(b)[i] = DraftsOf(b[i]) + 1 /\ Drafts(b)[i] = DraftsOf(b[i])
                             /\ DraftsOf(b[i]) \in Nat
                             /\ CuSum(Sampled(b))[i] = CuSum(Sampled(b))[i - 1] + DraftsOf(b[i]) + 1
                             /\ CuSum(Sampled(b))[i - 1] \in Nat
  BY RowCounts
<1>2. /\ starts \in [1 .. Len(b) -> Int]
      /\ \A i \in 1 .. Len(b) : starts[i] = CuSum(Sampled(b))[i - 1]
  <2>1. ASSUME NEW i \in 1 .. Len(b)
        PROVE  CuSum(Sampled(b))[i] - Sampled(b)[i] = CuSum(Sampled(b))[i - 1]
    <3>1. PICK c \in Nat, d \in Nat : c = CuSum(Sampled(b))[i - 1] /\ d = DraftsOf(b[i])
      BY <1>1
    <3>2. CuSum(Sampled(b))[i] = c + d + 1 /\ Sampled(b)[i] = d + 1
      BY <1>1, <3>1
    <3> QED BY <3>1, <3>2
  <2>2. \A i \in 1 .. Len(b) : starts[i] = CuSum(Sampled(b))[i - 1] /\ starts[i] \in Int
    BY <1>1, <2>1
  <2> QED BY <2>2
<1>3. TargetLogits(b) = RepeatArange(starts, Drafts(b))
  BY DEF TargetLogits, Drafts
<1> HIDE DEF starts
<1>4. /\ DOMAIN RepeatArange(starts, Drafts(b)) = 0 .. CuSum(Drafts(b))[Len(b)] - 1
      /\ \A i \in 1 .. Len(b) : \A j \in 0 .. Drafts(b)[i] - 1 :
           RepeatArange(starts, Drafts(b))[CuSum(Drafts(b))[i - 1] + j] = starts[i] + j
  <2>1. Len(b) \in Nat /\ Drafts(b) \in [1 .. Len(b) -> Nat] /\ Len(Drafts(b)) = Len(b)
    BY BatchSums
  <2> QED BY <1>2, <2>1, RepeatArangeIs
<1> QED BY <1>1, <1>2, <1>3, <1>4

\* The k-th draft is the token right after the one whose logits verify it.
LEMMA BatchDrafts ==
  ASSUME NEW b, Batch(b), NEW k \in 0 .. CuSum(Drafts(b))[Len(b)] - 1,
         NEW i, i = RowAt(CuSum(Drafts(b)), k),
         NEW t, t = CuSum(Scheduled(b))[i] - Drafts(b)[i] + (k - CuSum(Drafts(b))[i - 1])
  PROVE  DraftTokens(b)[k] = t /\ LogitsIndices(b)[TargetLogits(b)[k]] = t - 1
<1> DEFINE cuD == CuSum(Drafts(b))
<1>1. IsCuSum(cuD, Drafts(b), Len(b)) /\ Drafts(b) \in [1 .. Len(b) -> Nat] /\ Len(b) \in Nat
  BY BatchSums
<1> HIDE DEF cuD
<1>2. PICK r \in 1 .. Len(b), j \in Nat :
        j \in 0 .. Drafts(b)[r] - 1 /\ k = cuD[r - 1] + j /\ RowAt(cuD, k) = r
  BY <1>1, PlaceIn DEF cuD
<1>3. i = r
  BY <1>2 DEF cuD
<1>4. /\ Drafts(b)[i] = DraftsOf(b[i]) /\ DraftsOf(b[i]) \in Nat
      /\ cuD[i - 1] \in Nat /\ CuSum(Scheduled(b))[i] \in Nat /\ CuSum(Sampled(b))[i - 1] \in Nat
  <2>1. i \in 1 .. Len(b)
    BY <1>2, <1>3
  <2> QED BY <2>1, RowCounts DEF cuD
<1>5. /\ k - cuD[i - 1] = j /\ j \in 0 .. DraftsOf(b[i]) - 1
      /\ j \in 0 .. DraftsOf(b[i]) /\ j + 1 \in 0 .. DraftsOf(b[i])
  <2>1. PICK d \in Nat, c \in Nat : d = DraftsOf(b[i]) /\ c = cuD[i - 1] /\ j \in 0 .. d - 1 /\ k = c + j
    BY <1>2, <1>3, <1>4
  <2>2. (c + j) - c = j
    OBVIOUS
  <2>3. j \in 0 .. d /\ j + 1 \in 0 .. d
    BY <2>1
  <2> QED BY <2>1, <2>2, <2>3
<1>6. k \in DOMAIN TargetLogits(b) /\ TargetLogits(b)[k] = CuSum(Sampled(b))[i - 1] + j
  <2>1. k \in DOMAIN TargetLogits(b)
    BY TargetsAre
  <2>2. i \in 1 .. Len(b) /\ k = CuSum(Drafts(b))[i - 1] + j
    BY <1>2, <1>3 DEF cuD
  <2> QED BY <1>5, <2>1, <2>2, TargetsAre
<1>7. LogitsIndices(b)[CuSum(Sampled(b))[i - 1] + j] = CuSum(Scheduled(b))[i] - (DraftsOf(b[i]) + 1) + j
  BY <1>2, <1>3, <1>5, LogitsAre
<1>8. LogitsIndices(b)[CuSum(Sampled(b))[i - 1] + (j + 1)] =
        CuSum(Scheduled(b))[i] - (DraftsOf(b[i]) + 1) + (j + 1)
  BY <1>2, <1>3, <1>5, LogitsAre
<1>9. DraftTokens(b)[k] = LogitsIndices(b)[TargetLogits(b)[k] + 1]
  BY <1>6 DEF DraftTokens
<1>10. TargetLogits(b)[k] + 1 = CuSum(Sampled(b))[i - 1] + (j + 1)
  <2>1. CuSum(Sampled(b))[i - 1] \in Nat
    BY <1>4
  <2> QED BY <1>2, <1>6, <2>1
<1>11. t = CuSum(Scheduled(b))[i] - DraftsOf(b[i]) + j
  BY <1>4, <1>5 DEF cuD
<1>12. LogitsIndices(b)[TargetLogits(b)[k]] = CuSum(Scheduled(b))[i] - (DraftsOf(b[i]) + 1) + j
  BY <1>6, <1>7
<1>13. DraftTokens(b)[k] = CuSum(Scheduled(b))[i] - (DraftsOf(b[i]) + 1) + (j + 1)
  BY <1>8, <1>9, <1>10
<1>14. PICK c \in Int, d \in Int : c = CuSum(Scheduled(b))[i] /\ d = DraftsOf(b[i])
  BY <1>4
<1>15. t = c - d + j /\ LogitsIndices(b)[TargetLogits(b)[k]] = c - (d + 1) + j
  BY <1>11, <1>12, <1>14
<1>16. DraftTokens(b)[k] = c - (d + 1) + (j + 1)
  BY <1>13, <1>14
<1> QED BY <1>2, <1>15, <1>16

\* The bonus logits of a row are those of its last token.
LEMMA BatchBonus ==
  ASSUME NEW b, Batch(b), NEW i \in 1 .. Len(b)
  PROVE  LogitsIndices(b)[BonusLogits(b)[i]] = CuSum(Scheduled(b))[i] - 1
<1>1. /\ CuSum(Sampled(b))[i] = CuSum(Sampled(b))[i - 1] + DraftsOf(b[i]) + 1
      /\ CuSum(Sampled(b))[i - 1] \in Nat /\ CuSum(Scheduled(b))[i] \in Nat
      /\ DraftsOf(b[i]) \in Nat
  BY RowCounts DEF Batch, RowFacts
<1>2. BonusLogits(b)[i] = CuSum(Sampled(b))[i - 1] + DraftsOf(b[i])
  BY <1>1 DEF BonusLogits
<1>3. DraftsOf(b[i]) \in 0 .. DraftsOf(b[i])
  BY <1>1
<1>4. LogitsIndices(b)[CuSum(Sampled(b))[i - 1] + DraftsOf(b[i])] =
        CuSum(Scheduled(b))[i] - (DraftsOf(b[i]) + 1) + DraftsOf(b[i])
  BY <1>3, LogitsAre
<1> QED BY <1>1, <1>2, <1>4

-----------------------------------------------------------------------------
(* Splitting a batch.                                                      *)

\* A cell that a row reads of another row's writing lies in a block the hit
\* gave it, whole when the row reads it and written in this very step.
LEMMA BatchSplit ==
  ASSUME NEW b, Batch(b), NEW hit \in Hits(b), NEW threshold \in Nat,
         ~(b[hit.reader].n <= threshold), AllowMicrobatching(b, hit, threshold),
         NEW w \in (1 .. Len(b)) \ {hit.reader}
  PROVE  ReadCells(b, hit, hit.reader) \cap WriteCells(b, hit, w) = {}
<1>1. PICK r \in 1 .. Len(b) : r = hit.reader
  BY DEF Hits
<1>2. PICK B \in Nat \ {0} : B = BlockSize
  BY FlashAssumption
<1>3. PICK rn \in Nat, rc \in Nat, ro \in Nat :
        rn = b[r].n /\ rc = b[r].computed /\ ro = b[r].optimistic /\ rc <= ro
  BY DEF Batch, RowFacts
<1>4. PICK wn \in Nat \ {0}, wc \in Nat, wo \in Nat, wp \in Nat :
        /\ wn = b[w].n /\ wc = b[w].computed /\ wo = b[w].optimistic /\ wp = b[w].prompt
        /\ wc # wo => wp <= wc
  BY DEF Batch, RowFacts
<1>5. PICK blocks \in 1 .. 2, full \in Nat :
        /\ blocks = hit.blocks /\ full = B * blocks /\ full <= rc
        /\ w = hit.writer => full <= wp
  <2>1. /\ hit.blocks \in 1 .. 2 /\ hit.blocks * BlockSize <= b[r].computed
        /\ hit.blocks * BlockSize <=
             IF b[hit.writer].prompt <= b[hit.writer].computed + b[hit.writer].n
             THEN b[hit.writer].prompt ELSE b[hit.writer].computed + b[hit.writer].n
    BY <1>1 DEF Hits
  <2>2. PICK blocks \in 1 .. 2 : blocks = hit.blocks
    BY <2>1
  <2>3. PICK full \in Nat : full = B * blocks
    BY <1>2
  <2>4. full = hit.blocks * BlockSize
    BY <1>2, <2>2, <2>3
  <2>5. full <= rc
    BY <1>3, <2>1, <2>4
  <2>6. ASSUME w = hit.writer PROVE full <= wp
    <3>1. full <= IF wp <= wc + wn THEN wp ELSE wc + wn
      BY <1>4, <2>1, <2>4, <2>6
    <3> QED BY <3>1
  <2> QED BY <2>2, <2>3, <2>5, <2>6
<1> SUFFICES ASSUME NEW cell \in ReadCells(b, hit, r), cell \in WriteCells(b, hit, w)
             PROVE  FALSE
  BY <1>1
<1>6. PICK p \in 0 .. rc - 1 : cell = <<BlockAt(hit, r, p \div B), p % B>>
  BY <1>2, <1>3 DEF ReadCells, Cells
<1>7. PICK q \in wc .. wc + wn - 1 : cell = <<BlockAt(hit, w, q \div B), q % B>>
  BY <1>2, <1>4 DEF WriteCells, Cells
<1>8. p \in Nat /\ q \in Nat /\ wc <= q /\ q < wc + wn
  OBVIOUS
<1>9. PICK pb \in Nat, pr \in 0 .. B - 1 : pb = p \div B /\ pr = p % B /\ p = B * pb + pr
  <2>1. p = B * (p \div B) + (p % B) /\ p \div B \in Nat /\ p % B \in 0 .. B - 1
    BY <1>8, DivMod
  <2> QED BY <2>1, Zenon
<1>10. PICK qb \in Nat, qr \in 0 .. B - 1 : qb = q \div B /\ qr = q % B /\ q = B * qb + qr
  <2>1. q = B * (q \div B) + (q % B) /\ q \div B \in Nat /\ q % B \in 0 .. B - 1
    BY <1>8, DivMod
  <2> QED BY <2>1, Zenon
<1>11. BlockAt(hit, w, qb) = <<w, qb>>
  BY DEF BlockAt
<1>12. BlockAt(hit, r, pb) = <<w, qb>> /\ pr = qr
  BY <1>6, <1>7, <1>9, <1>10, <1>11
<1>13. pb = qb /\ w = hit.writer /\ pb < blocks
  BY <1>1, <1>5, <1>12 DEF BlockAt
<1>14. PICK low \in Nat : low = B * pb /\ B * (pb + 1) = low + B /\ low + B <= full
  <2>1. B * pb + B <= B * blocks
    BY <1>13, TimesMonotone
  <2>2. B * pb \in Nat /\ B * (pb + 1) = B * pb + B
    OBVIOUS
  <2> QED BY <1>5, <2>1, <2>2
<1>15. q < full /\ q < low + B /\ low <= q
  BY <1>10, <1>13, <1>14
\* The block is whole for the reader.
<1>16. pb \in 0 .. (ro \div B) - 1
  <2>1. PICK next \in Nat : next = pb + 1
    OBVIOUS
  <2>2. B * next <= ro
    <3>1. low + B <= full /\ full <= rc /\ rc <= ro
      BY <1>3, <1>5, <1>14, Zenon
    <3>2. low + B <= ro
      BY <3>1
    <3> QED BY <1>14, <2>1, <3>2
  <2>4. next <= ro \div B
    BY <2>2, DivAtLeast
  <2>3. ro \div B \in Nat
    BY DivMod
  <2> QED BY <2>1, <2>3, <2>4
<1>17. BlockAt(hit, r, pb) \in WholeBlocks(b, hit, r)
  BY <1>2, <1>3, <1>16 DEF WholeBlocks
\* And the writer, whose count is certain inside its prompt, writes it.
<1>18. wo = wc
  <2>1. full <= wp
    BY <1>5, <1>13
  <2> QED BY <1>4, <1>8, <1>15, <2>1
<1>19. wo \div B <= qb /\ wo \div B \in Nat
  <2>1. ~(B * (qb + 1) <= wo)
    BY <1>8, <1>13, <1>14, <1>15, <1>18
  <2>2. ~(qb + 1 <= wo \div B)
    BY <2>1, DivAtLeast
  <2>3. wo \div B \in Nat
    BY DivMod
  <2> QED BY <2>2, <2>3
<1>20. PICK stop \in Nat : stop = wo + wn + B - 1
  OBVIOUS
<1>21. qb <= (stop \div B) - 1 /\ stop \div B \in Nat
  <2>1. B * (qb + 1) <= stop
    BY <1>8, <1>13, <1>14, <1>15, <1>18, <1>20
  <2>2. qb + 1 <= stop \div B
    BY <2>1, DivAtLeast
  <2>3. stop \div B \in Nat
    BY DivMod
  <2> QED BY <2>2, <2>3
<1>22. <<w, qb>> \in WrittenBlocks(b, hit)
  <2>1. qb \in (wo \div B) .. (stop \div B) - 1
    BY <1>19, <1>21
  <2>2. <<w, qb>> \in {BlockAt(hit, w, k) : k \in (wo \div B) .. (stop \div B) - 1}
    BY <1>11, <2>1
  <2>3. stop = b[w].optimistic + b[w].n + BlockSize - 1
    BY <1>2, <1>4, <1>20
  <2>4. <<w, qb>> \in {BlockAt(hit, w, k) : k \in (b[w].optimistic \div BlockSize) ..
                         ((b[w].optimistic + b[w].n + BlockSize - 1) \div BlockSize) - 1}
    BY <1>2, <1>4, <2>2, <2>3
  <2> QED BY <2>4 DEF WrittenBlocks
\* So the reader is one of those the veto looks at, and it finds the block.
<1>23. r \in Readers(b, threshold)
  <2>1. ro > 0
    BY <1>3, <1>5, <1>14
  <2>2. rn > threshold
    BY <1>1, <1>3
  <2> QED BY <1>1, <1>3, <2>1, <2>2 DEF Readers
<1>24. ~(Len(b) < 2)
  <2>1. w \in 1 .. Len(b) /\ w # r /\ Len(b) \in Nat
    BY <1>1, StepAssumption DEF Batch
  <2> QED BY <2>1
<1> QED BY <1>12, <1>17, <1>22, <1>23, <1>24 DEF AllowMicrobatching

-----------------------------------------------------------------------------
(* Dispatch and padding.                                                   *)

\* The sizes to capture are positive, and the last of them is the largest.
LEMMA SizesFacts ==
  /\ Len(CaptureSizes) \in Nat \ {0}
  /\ \A i \in 1 .. Len(CaptureSizes) : CaptureSizes[i] \in 1 .. MaxCapture
  /\ MaxCapture \in Nat /\ MaxCapture = CaptureSizes[Len(CaptureSizes)]
<1>1. /\ CaptureSizes \in Seq(Nat \ {0}) /\ CaptureSizes # <<>>
      /\ MaxCapture = CaptureSizes[Len(CaptureSizes)]
      /\ \A i, j \in 1 .. Len(CaptureSizes) : i < j => CaptureSizes[i] < CaptureSizes[j]
  BY StepAssumption
<1>2. Len(CaptureSizes) \in Nat \ {0}
  BY <1>1
<1>3. \A i \in 1 .. Len(CaptureSizes) : CaptureSizes[i] \in Nat \ {0}
  BY <1>1
<1>4. Len(CaptureSizes) \in 1 .. Len(CaptureSizes)
  BY <1>2
<1>5. \A i \in 1 .. Len(CaptureSizes) : CaptureSizes[i] <= CaptureSizes[Len(CaptureSizes)]
  BY <1>1, <1>2, <1>3, <1>4
<1> QED BY <1>1, <1>2, <1>3, <1>4, <1>5

\* A batch up to the largest graph is padded to a size that holds it.
LEMMA PaddedHolds ==
  ASSUME NEW q, NEW n \in 1 .. MaxCapture
  PROVE  Keys(q)!Padded(n) \in 1 .. MaxCapture /\ n <= Keys(q)!Padded(n)
<1> DEFINE L     == Len(CaptureSizes)
           In(i) == Keys(q)!RangeStart(i) <= n /\ n < Keys(q)!RangeEnd(i)
           Above == {i \in 1 .. L + 1 : i = L + 1 \/ CaptureSizes[i] > n}
<1>1. L \in Nat \ {0} /\ \A i \in 1 .. L : CaptureSizes[i] \in 1 .. MaxCapture
  BY SizesFacts
<1>2. MaxCapture \in Nat /\ MaxCapture = CaptureSizes[L] /\ n \in Nat /\ n <= MaxCapture /\ 1 <= n
  BY SizesFacts
<1> HIDE DEF L
<1>3. PICK i \in Above : \A j \in Above : i <= j
  <2>1. Above \subseteq Nat /\ L + 1 \in Above
    BY <1>1
  <2> HIDE DEF Above
  <2> QED BY <2>1, LeastOf
<1>4. i # 1 => i - 1 \in 1 .. L /\ CaptureSizes[i - 1] <= n
  <2> SUFFICES ASSUME i # 1 PROVE i - 1 \in 1 .. L /\ CaptureSizes[i - 1] <= n
    OBVIOUS
  <2>1. i - 1 \in 1 .. L /\ i - 1 \in 1 .. L + 1 /\ ~(i <= i - 1)
    BY <1>1
  <2>2. i - 1 \notin Above
    BY <1>3, <2>1
  <2> QED BY <1>1, <1>2, <2>1, <2>2
<1>5. i \in 1 .. L + 1 /\ In(i)
  <2>1. Keys(q)!RangeStart(i) <= n
    BY <1>2, <1>4 DEF Keys!RangeStart
  <2>2. n < Keys(q)!RangeEnd(i)
    BY <1>1, <1>2 DEF Keys!RangeEnd, L
  <2> QED BY <2>1, <2>2
<1> DEFINE c == CHOOSE k \in 1 .. L + 1 : In(k)
<1>6. Keys(q)!Padded(n) = IF n = Keys(q)!RangeStart(c) THEN Keys(q)!RangeStart(c) ELSE Keys(q)!RangeEnd(c)
  BY DEF Keys!Padded, Keys!Ranges, L
<1>7. c \in 1 .. L + 1 /\ In(c)
  BY <1>5
<1> HIDE DEF c
<1>8. CASE n = Keys(q)!RangeStart(c)
  BY <1>2, <1>6, <1>8
<1>9. CASE n # Keys(q)!RangeStart(c)
  <2>1. Keys(q)!Padded(n) = Keys(q)!RangeEnd(c)
    BY <1>6, <1>9
  <2>2. c # L + 1
    <3> SUFFICES ASSUME c = L + 1 PROVE FALSE
      OBVIOUS
    <3>1. Keys(q)!RangeStart(c) = MaxCapture /\ Keys(q)!RangeEnd(c) = MaxCapture + 1
      BY <1>1, <1>2 DEF Keys!RangeStart, Keys!RangeEnd, L
    <3> QED BY <1>2, <1>7, <1>9, <3>1
  <2>3. Keys(q)!RangeEnd(c) = CaptureSizes[c] /\ CaptureSizes[c] \in 1 .. MaxCapture
    BY <1>1, <1>7, <2>2 DEF Keys!RangeEnd, L
  <2> QED BY <1>2, <1>7, <2>1, <2>3
<1> QED BY <1>8, <1>9

\* A full graph is a uniform one, since a mixed batch's key is piecewise.
LEMMA FullIsUniform ==
  ASSUME NEW q, NEW d, Keys(q)!Key("FULL", d) \in Keys(q)!KeysOf(Mode)
  PROVE  d.uniform = TRUE
<1>1. Keys(q)!MixedMode(Mode) = "PIECEWISE" /\ Keys(q)!HasFull(Mode)
  BY DEF Keys!MixedMode, Keys!HasFull, Keys!SeparateRoutine, Mode
<1>2. Keys(q)!Key("FULL", d) \notin Keys(q)!MixedKeys(Mode)
  <2> SUFFICES ASSUME NEW bs, NEW l, Keys(q)!Key("FULL", d) = Keys(q)!MixedKey(Mode, bs, l)
               PROVE  FALSE
    BY DEF Keys!MixedKeys
  <2>1. Keys(q)!MixedKey(Mode, bs, l).mode = "PIECEWISE"
    BY <1>1 DEF Keys!Key, Keys!MixedKey
  <2>2. Keys(q)!Key("FULL", d).mode = "FULL"
    BY DEF Keys!Key
  <2> QED BY <2>1, <2>2
<1>3. PICK bs, l : Keys(q)!Key("FULL", d) = Keys(q)!DecodeKey(Mode, bs, l)
  BY <1>2 DEF Keys!KeysOf, Keys!DecodeKeys
<1>4. Keys(q)!Key("FULL", d).desc = Keys(q)!PaddedDesc(Mode, bs, TRUE, l)
  BY <1>3 DEF Keys!Key, Keys!DecodeKey
<1>5. d = Keys(q)!PaddedDesc(Mode, bs, TRUE, l)
  BY <1>4 DEF Keys!Key
<1>6. d = Keys(q)!Desc(Keys(q)!Padded(bs),
                       Keys(q)!Smaller(Keys(q)!Padded(bs) \div q, MaxNumSeqs), TRUE, l)
  BY <1>1, <1>5 DEF Keys!PaddedDesc
<1> QED BY <1>6 DEF Keys!Desc

\* What a dispatch returns: a size that holds the tokens, and a full graph for
\* uniform batches only.
Dispatched(k, n, u) ==
  /\ k.mode \in {"NONE", "PIECEWISE", "FULL"}
  /\ k.desc.tokens \in Nat /\ n <= k.desc.tokens
  /\ k.desc.tokens = n \/ k.desc.tokens <= MaxCapture
  /\ k.mode = "FULL" =>
       /\ u = TRUE /\ k.desc.tokens <= MaxCapture
       /\ k.desc.reqs = Keys(QueryLen)!Smaller(k.desc.tokens \div QueryLen, MaxNumSeqs)

\* Every dispatch does (CudagraphDispatcher.dispatch).
LEMMA DispatchIs ==
  ASSUME config \in Configs, NEW n \in Nat \ {0}, NEW u \in BOOLEAN, NEW allowed,
         NEW k, k = DispatchTo(n, u, allowed)
  PROVE  Dispatched(k, n, u)
<1> DEFINE q == QueryLen
           v == Keys(q)!NormalizedUniform(Mode, u)
           d == Keys(q)!PaddedDesc(Mode, n, v, Keys(q)!EffectiveLoras(0))
           K == CapturedKeys[q]
<1>1. K = Keys(q)!KeysOf(Mode)
  BY DEF CapturedKeys, QueryLen
<1>2. k = IF Keys(q)!RunsEager(Mode, TRUE, n, allowed) THEN Keys(q)!Key("NONE", Keys(q)!Unpadded(n))
          ELSE IF "FULL" \in allowed /\ Keys(q)!Key("FULL", d) \in K THEN Keys(q)!Key("FULL", d)
          ELSE IF "PIECEWISE" \in allowed /\ Keys(q)!Key("PIECEWISE", Keys(q)!Relaxed(d)) \in K
          THEN Keys(q)!Key("PIECEWISE", Keys(q)!Relaxed(d))
          ELSE Keys(q)!Key("NONE", Keys(q)!Unpadded(n))
  BY DEF DispatchTo, Keys!Dispatch
<1>3. v = u /\ Keys(q)!HasFull(Mode)
  <2>1. Keys(q)!SeparateRoutine(Mode) = TRUE
    BY DEF Keys!SeparateRoutine, Mode
  <2>2. v = u
    BY <2>1 DEF Keys!NormalizedUniform
  <2> QED BY <2>1, <2>2 DEF Keys!HasFull
<1>4. d.tokens = Keys(q)!Padded(n) /\ d.uniform = u
      /\ (u = TRUE => d.reqs = Keys(q)!Smaller(Keys(q)!Padded(n) \div q, MaxNumSeqs))
  <2>1. CASE u = TRUE
    <3>1. d = Keys(q)!Desc(Keys(q)!Padded(n), Keys(q)!Smaller(Keys(q)!Padded(n) \div q, MaxNumSeqs),
                           TRUE, Keys(q)!EffectiveLoras(0))
      BY <1>3, <2>1 DEF Keys!PaddedDesc
    <3> HIDE DEF d
    <3> QED BY <2>1, <3>1 DEF Keys!Desc
  <2>2. CASE u = FALSE
    <3>1. d = Keys(q)!Desc(Keys(q)!Padded(n), Keys(q)!Smaller(Keys(q)!Padded(n), MaxNumSeqs),
                           FALSE, Keys(q)!EffectiveLoras(0))
      BY <1>3, <2>2 DEF Keys!PaddedDesc
    <3> HIDE DEF d
    <3> QED BY <2>2, <3>1 DEF Keys!Desc
  <2> QED BY <2>1, <2>2
<1> HIDE DEF d, v, K
<1>5. CASE k = Keys(q)!Key("NONE", Keys(q)!Unpadded(n))
  <2>1. k.mode = "NONE" /\ k.desc.tokens = n
    <3>1. Keys(q)!Unpadded(n).tokens = n
      BY DEF Keys!Unpadded, Keys!Desc
    <3> QED BY <1>5, <3>1 DEF Keys!Key
  <2> QED BY <2>1 DEF Dispatched
<1>6. CASE k # Keys(q)!Key("NONE", Keys(q)!Unpadded(n))
  <2>1. ~Keys(q)!RunsEager(Mode, TRUE, n, allowed)
    BY <1>2, <1>6
  <2>2. n \in 1 .. MaxCapture
    BY <2>1, SizesFacts DEF Keys!RunsEager
  <2>3. /\ Keys(q)!Padded(n) \in Nat /\ n <= Keys(q)!Padded(n) /\ Keys(q)!Padded(n) <= MaxCapture
    BY <2>2, PaddedHolds, SizesFacts
  <2>4. CASE k = Keys(q)!Key("PIECEWISE", Keys(q)!Relaxed(d))
    <3>1. k.mode = "PIECEWISE" /\ k.desc = Keys(q)!Relaxed(d)
      BY <2>4 DEF Keys!Key
    <3>2. k.desc.tokens = Keys(q)!Padded(n)
      BY <1>4, <3>1 DEF Keys!Relaxed, Keys!Desc
    <3> QED BY <2>3, <3>1, <3>2 DEF Dispatched
  <2>5. CASE k = Keys(q)!Key("FULL", d) /\ Keys(q)!Key("FULL", d) \in K
    <3>1. k.mode = "FULL" /\ k.desc = d
      BY <2>5 DEF Keys!Key
    <3>2. d.uniform = TRUE
      BY <1>1, <2>5, FullIsUniform
    <3>3. k.desc.tokens = Keys(q)!Padded(n)
          /\ k.desc.reqs = Keys(q)!Smaller(k.desc.tokens \div q, MaxNumSeqs)
      BY <1>4, <3>1, <3>2
    <3> QED BY <1>4, <2>3, <3>1, <3>2, <3>3 DEF Dispatched
  <2> QED BY <1>2, <1>6, <2>4, <2>5
<1> QED BY <1>5, <1>6

-----------------------------------------------------------------------------
(* The size of a batch.                                                    *)

\* Smaller rows have smaller sums.
LEMMA SumCompare ==
  ASSUME NEW n \in Nat, NEW c \in [1 .. n -> Nat], NEW d \in [1 .. n -> Nat],
         NEW f, NEW g, IsCuSum(f, c, n), IsCuSum(g, d, n),
         \A i \in 1 .. n : c[i] <= d[i]
  PROVE  \A i \in 0 .. n : f[i] <= g[i]
<1> DEFINE Bad == {i \in 0 .. n : ~(f[i] <= g[i])}
<1> SUFFICES ASSUME Bad # {} PROVE FALSE
  OBVIOUS
<1>1. PICK k \in Bad : \A j \in Bad : k <= j
  <2>1. Bad \subseteq Nat
    OBVIOUS
  <2> HIDE DEF Bad
  <2> QED BY <2>1, LeastOf
<1>2. k \in 1 .. n /\ k - 1 \in 0 .. n /\ ~(k <= k - 1)
  BY DEF IsCuSum
<1>3. f[k - 1] <= g[k - 1]
  BY <1>1, <1>2
<1>4. /\ f[k] = f[k - 1] + c[k] /\ f[k - 1] \in Nat
      /\ g[k] = g[k - 1] + d[k] /\ g[k - 1] \in Nat
      /\ c[k] \in Nat /\ d[k] \in Nat /\ c[k] <= d[k]
  <2>1. f[k] = f[k - 1] + c[k] /\ f[k - 1] \in Nat
    BY <1>2 DEF IsCuSum
  <2>2. g[k] = g[k - 1] + d[k] /\ g[k - 1] \in Nat
    BY <1>2 DEF IsCuSum
  <2> QED BY <1>2, <2>1, <2>2
<1> QED BY <1>3, <1>4

\* Rows of one length.
LEMMA SumConstant ==
  ASSUME NEW n \in Nat, NEW q \in Nat, NEW f, IsCuSum(f, [i \in 1 .. n |-> q], n)
  PROVE  f[n] = q * n
<1> DEFINE g == [i \in 0 .. n |-> q * i]
           c == [i \in 1 .. n |-> q]
<1>0. IsCuSum(f, c, n) /\ c \in [1 .. n -> Nat] /\ \A i \in 1 .. n : c[i] = q
  OBVIOUS
<1> HIDE DEF c
<1>1. IsCuSum(g, c, n)
  <2>1. g \in [0 .. n -> Nat] /\ g[0] = 0
    OBVIOUS
  <2>2. ASSUME NEW i \in 1 .. n PROVE g[i] = g[i - 1] + c[i]
    <3>1. i \in 0 .. n /\ i - 1 \in 0 .. n /\ q * i = q * (i - 1) + q
      OBVIOUS
    <3> QED BY <1>0, <3>1
  <2> QED BY <2>1, <2>2 DEF IsCuSum
<1>2. \A i \in 0 .. n : g[i] = q * i /\ g[i] \in Nat
  BY <1>1 DEF IsCuSum
<1> HIDE DEF g
<1>3. \A i \in 1 .. n : c[i] <= c[i]
  BY <1>0
<1>4. \A i \in 0 .. n : f[i] <= g[i]
  BY <1>0, <1>1, <1>3, SumCompare
<1>5. \A i \in 0 .. n : g[i] <= f[i]
  BY <1>0, <1>1, <1>3, SumCompare
<1>6. \A i \in 0 .. n : f[i] \in Nat
  BY <1>0 DEF IsCuSum
<1> QED BY <1>2, <1>4, <1>5, <1>6

\* The number of tokens of a batch is the last of the cumulative sums.
LEMMA CountIs ==
  ASSUME NEW b, Batch(b)
  PROVE  /\ Count(b) = CuSum(Scheduled(b))[Len(b)] /\ Count(b) \in Nat \ {0}
         /\ \A i \in 0 .. Len(b) : CuSum(Scheduled(b))[i] \in Nat /\ CuSum(Scheduled(b))[i] <= Count(b)
<1>1. Len(b) \in Nat \ {0} /\ 1 \in 1 .. Len(b)
  BY StepAssumption DEF Batch
<1>2. Count(b) = CuSum(Scheduled(b))[Len(b)]
  BY <1>1 DEF Count, StartLoc
<1>3. /\ IsCuSum(CuSum(Scheduled(b)), Scheduled(b), Len(b))
      /\ Scheduled(b) \in [1 .. Len(b) -> Nat]
  BY BatchSums
<1>4. \A i, j \in 0 .. Len(b) : i <= j => CuSum(Scheduled(b))[i] <= CuSum(Scheduled(b))[j]
  BY <1>1, <1>3, CuSumMonotone
<1>5. \A i \in 0 .. Len(b) : CuSum(Scheduled(b))[i] \in Nat
  BY <1>3 DEF IsCuSum
<1>6. CuSum(Scheduled(b))[1] > 0
  <2>1. CuSum(Scheduled(b))[1] = CuSum(Scheduled(b))[1 - 1] + b[1].n
        /\ CuSum(Scheduled(b))[1 - 1] \in Nat /\ RowFacts(b[1])
    BY <1>1, RowCounts
  <2>2. b[1].n \in Nat \ {0}
    BY <2>1 DEF RowFacts
  <2> QED BY <2>1, <2>2
<1>7. CuSum(Scheduled(b))[1] <= CuSum(Scheduled(b))[Len(b)] /\ CuSum(Scheduled(b))[Len(b)] \in Nat
      /\ CuSum(Scheduled(b))[1] \in Nat
  BY <1>1, <1>4, <1>5
<1>8. Count(b) \in Nat \ {0}
  BY <1>2, <1>6, <1>7
<1>9. \A i \in 0 .. Len(b) : CuSum(Scheduled(b))[i] <= CuSum(Scheduled(b))[Len(b)]
  BY <1>1, <1>4
<1> QED BY <1>2, <1>5, <1>8, <1>9

\* A uniform batch has as many tokens as rows times the length of each.
LEMMA UniformCount ==
  ASSUME NEW b, Batch(b), NEW q \in Nat, IsUniform(b, q)
  PROVE  Count(b) = q * Len(b)
<1>1. \A i \in 1 .. Len(b) : b[i].n = q
  BY DEF IsUniform, Longs
<1>2. Scheduled(b) = [i \in 1 .. Len(b) |-> q]
  BY <1>1 DEF Scheduled
<1>3. IsCuSum(CuSum(Scheduled(b)), Scheduled(b), Len(b)) /\ Len(b) \in Nat
  BY BatchSums
<1>4. PICK f : f = CuSum(Scheduled(b))
  OBVIOUS
<1>5. IsCuSum(f, [i \in 1 .. Len(b) |-> q], Len(b))
  BY <1>2, <1>3, <1>4
<1>6. f[Len(b)] = q * Len(b)
  BY <1>3, <1>5, SumConstant
<1> QED BY <1>4, <1>6, CountIs

\* One logit for every draft and one more for every row, no more than tokens.
LEMMA LogitCount ==
  ASSUME NEW b, Batch(b)
  PROVE  /\ CuSum(Sampled(b))[Len(b)] = Len(b) + CuSum(Drafts(b))[Len(b)]
         /\ CuSum(Sampled(b))[Len(b)] \in 1 .. Count(b)
<1>1. /\ Len(b) \in Nat \ {0}
      /\ Scheduled(b) \in [1 .. Len(b) -> Nat] /\ Sampled(b) \in [1 .. Len(b) -> Nat]
      /\ Drafts(b) \in [1 .. Len(b) -> Nat]
      /\ IsCuSum(CuSum(Scheduled(b)), Scheduled(b), Len(b))
      /\ IsCuSum(CuSum(Sampled(b)), Sampled(b), Len(b))
      /\ IsCuSum(CuSum(Drafts(b)), Drafts(b), Len(b))
  BY BatchSums DEF Batch
<1> DEFINE n == Len(b)
           f == CuSum(Drafts(b))
           g == [i \in 0 .. n |-> i + f[i]]
<1>2. n \in Nat \ {0} /\ f \in [0 .. n -> Nat] /\ f[0] = 0
      /\ \A i \in 1 .. n : f[i] = f[i - 1] + Drafts(b)[i]
  BY <1>1 DEF IsCuSum
<1>3. \A i \in 1 .. n : Sampled(b)[i] = Drafts(b)[i] + 1 /\ Drafts(b)[i] \in Nat
                        /\ Sampled(b)[i] <= Scheduled(b)[i] /\ Sampled(b)[i] \in Nat
  <2> TAKE i \in 1 .. n
  <2>1. /\ Scheduled(b)[i] = b[i].n /\ Sampled(b)[i] = DraftsOf(b[i]) + 1
        /\ Drafts(b)[i] = DraftsOf(b[i]) /\ RowFacts(b[i])
    BY RowCounts
  <2> QED BY <2>1 DEF RowFacts
<1> HIDE DEF f, n
<1>4. IsCuSum(g, Sampled(b), n)
  <2>1. g \in [0 .. n -> Nat] /\ g[0] = 0
    BY <1>2
  <2>2. ASSUME NEW i \in 1 .. n PROVE g[i] = g[i - 1] + Sampled(b)[i]
    <3>1. i \in 0 .. n /\ i - 1 \in 0 .. n /\ f[i - 1] \in Nat /\ f[i] = f[i - 1] + Drafts(b)[i]
      BY <1>2
    <3>2. g[i] = i + f[i] /\ g[i - 1] = i - 1 + f[i - 1]
      BY <3>1
    <3> QED BY <1>3, <3>1, <3>2
  <2> QED BY <2>1, <2>2 DEF IsCuSum
<1>5. g[n] = n + f[n] /\ n \in 0 .. n
  BY <1>2
<1> HIDE DEF g
<1>6. CuSum(Sampled(b))[n] <= g[n] /\ g[n] <= CuSum(Sampled(b))[n]
  <2>1. \A i \in 1 .. n : Sampled(b)[i] <= Sampled(b)[i]
    BY <1>3
  <2> QED BY <1>1, <1>2, <1>4, <1>5, <2>1, SumCompare DEF n
<1>7. CuSum(Sampled(b))[n] \in Nat /\ g[n] \in Nat /\ f[n] \in Nat
  BY <1>1, <1>2, <1>4, <1>5 DEF IsCuSum, n
<1>8. CuSum(Sampled(b))[n] <= CuSum(Scheduled(b))[n]
  <2>1. \A i \in 0 .. n : CuSum(Sampled(b))[i] <= CuSum(Scheduled(b))[i]
    BY <1>1, <1>2, <1>3, SumCompare DEF n
  <2> QED BY <1>5, <2>1
<1>9. Count(b) = CuSum(Scheduled(b))[n] /\ Count(b) \in Nat
  BY CountIs DEF n
<1>10. CuSum(Sampled(b))[n] = n + f[n]
  BY <1>5, <1>6, <1>7
<1>11. CuSum(Sampled(b))[n] \in 1 .. Count(b)
  BY <1>2, <1>7, <1>8, <1>9, <1>10
<1> QED BY <1>10, <1>11 DEF n, f

\* The padded batch holds the batch and fits the block table.
LEMMA PaddedBatch ==
  ASSUME config \in Configs, NEW b, Batch(b), NEW allowed,
         NEW k, k = DispatchTo(Count(b), IsUniform(b, QueryLen), allowed)
  PROVE  /\ PaddedReqs(b, k) \in Nat /\ Len(b) <= PaddedReqs(b, k) /\ PaddedReqs(b, k) <= MaxNumSeqs
         /\ k.mode \in {"NONE", "PIECEWISE", "FULL"}
         /\ k.desc.tokens \in Nat /\ Count(b) <= k.desc.tokens
         /\ k.desc.tokens = Count(b) \/ k.desc.tokens <= MaxCapture
<1>1. QueryLen \in Nat \ {0}
  <2>1. config.spec \in Nat
    BY StepAssumption
  <2> QED BY <2>1 DEF QueryLen
<1>2. Count(b) \in Nat \ {0} /\ IsUniform(b, QueryLen) \in BOOLEAN
  BY CountIs DEF IsUniform
<1>3. /\ k.mode \in {"NONE", "PIECEWISE", "FULL"}
      /\ k.desc.tokens \in Nat /\ Count(b) <= k.desc.tokens
      /\ k.desc.tokens = Count(b) \/ k.desc.tokens <= MaxCapture
      /\ k.mode = "FULL" =>
           IsUniform(b, QueryLen) = TRUE
           /\ k.desc.reqs = Keys(QueryLen)!Smaller(k.desc.tokens \div QueryLen, MaxNumSeqs)
  <2>1. Dispatched(k, Count(b), IsUniform(b, QueryLen))
    BY <1>2, DispatchIs
  <2> QED BY <2>1 DEF Dispatched
<1>4. Len(b) \in Nat /\ Len(b) <= MaxNumSeqs /\ MaxNumSeqs \in Nat
  BY StepAssumption DEF Batch
<1>5. CASE k.mode = "FULL"
  <2>1. IsUniform(b, QueryLen)
    BY <1>3, <1>5
  <2>2. Count(b) = QueryLen * Len(b)
    BY <1>1, <2>1, UniformCount
  <2>3. QueryLen * Len(b) <= k.desc.tokens
    BY <1>3, <2>2
  <2>4. PICK s : s = k.desc.tokens \div QueryLen
    OBVIOUS
  <2>5. s \in Nat
    BY <1>1, <1>3, <2>4, DivMod
  <2>6. Len(b) <= s
    BY <1>1, <1>3, <1>4, <2>3, <2>4, DivAtLeast
  <2>7. PaddedReqs(b, k) = IF s <= MaxNumSeqs THEN s ELSE MaxNumSeqs
    BY <1>3, <1>5, <2>4 DEF PaddedReqs, Keys!Smaller
  <2> QED BY <1>3, <1>4, <2>5, <2>6, <2>7
<1>6. CASE k.mode # "FULL"
  <2>1. PaddedReqs(b, k) = Len(b)
    BY <1>6 DEF PaddedReqs
  <2> QED BY <1>3, <1>4, <2>1
<1> QED BY <1>5, <1>6

-----------------------------------------------------------------------------
(* The inductive invariant: after a step, the buffers hold what the step   *)
(* itself put there, for some input the scheduler could have given.        *)

\* The last step, as a function of its input in and of what the choice of the
\* kernels' times (faster) came to.
StepResult(in, faster) ==
  /\ rows = in[1] /\ shared = in[2] * BlockSize
  /\ prefix = CascadePrefix(in[1], in[2], config.dcp, faster)
  /\ key = DispatchTo(Count(in[1]), IsUniform(in[1], QueryLen), Allowed(prefix = 0))
  /\ \A i \in 1 .. PaddedReqs(in[1], key) :
       blockRow[i] = IF i <= Len(in[1]) THEN in[1][i].req ELSE Null
  /\ \A t \in Tokens : t < key.desc.tokens => slots[t] = IF t < Count(in[1]) THEN t ELSE Pad
  /\ logits = FastPrefillIndices([t \in Tokens |-> Stale], LogitsIndices(in[1]))
  /\ buffers = Persist(StaleBuffers(MaxBs), BuildGdn(Meta), Meta, MaxBs)

\* Steps start when all graphs are captured, so no capture writes over the buffers.
StepInv ==
  /\ TypeOK /\ (Served => captured = DecodeSizes)
  /\ Served => \E in \in Inputs[config], faster \in BOOLEAN : StepResult(in, faster)

\* The common prefix is never longer than the one shared, nor than what the CPU
\* believes to be computed of any row.
LEMMA CascadeBounds ==
  ASSUME NEW b, Batch(b), NEW blocks \in Nat, NEW dcp, NEW faster,
         NEW p, p = CascadePrefix(b, blocks, dcp, faster)
  PROVE  /\ p \in 0 .. blocks * BlockSize
         /\ \A i \in 1 .. Len(b) : p <= b[i].optimistic
         /\ p # 0 => dcp = 1
<1> DEFINE C == {b[i].optimistic : i \in 1 .. Len(b)}
<1>1. /\ BlockSize \in Nat \ {0} /\ MinCascadePrefix \in Nat \ {0}
      /\ \A i \in 1 .. Len(b) : b[i].optimistic \in Nat
      /\ Len(b) \in Nat \ {0}
  <2>1. BlockSize \in Nat \ {0} /\ MinCascadePrefix \in Nat \ {0}
    BY FlashAssumption
  <2>2. \A i \in 1 .. Len(b) : b[i].optimistic \in Nat
    BY DEF Batch, RowFacts
  <2>3. Len(b) \in Nat \ {0}
    BY StepAssumption DEF Batch
  <2> QED BY <2>1, <2>2, <2>3
<1>2. PICK c \in C : \A j \in C : c <= j
  <2>1. C \subseteq Nat /\ b[1].optimistic \in C
    BY <1>1
  <2> HIDE DEF C
  <2> QED BY <2>1, LeastOf
<1>3. c \in C /\ \A i \in 1 .. Len(b) : c <= b[i].optimistic
  BY <1>2
<1>4. LeastComputed(b) \in C /\ \A i \in 1 .. Len(b) : LeastComputed(b) <= b[i].optimistic
  BY <1>3 DEF LeastComputed
<1>5. PICK l \in Nat : l = LeastComputed(b)
  BY <1>1, <1>4
<1>6. PICK common \in Nat : common = blocks * BlockSize
  BY <1>1
<1>7. PICK least \in Nat : least = (IF common <= l THEN common ELSE l) /\ least <= common /\ least <= l
  OBVIOUS
<1>8. PICK u : u = (least \div BlockSize) * BlockSize
  OBVIOUS
<1>9. u \in Nat /\ u <= least
  <2>1. PICK d \in Nat \ {0} : d = BlockSize
    BY <1>1
  <2>2. /\ least = d * (least \div d) + (least % d)
        /\ least \div d \in Nat /\ least % d \in 0 .. d - 1
    BY DivMod
  <2>3. PICK x \in Nat, y \in Nat : x = least \div d /\ y = least % d /\ least = d * x + y
    BY <2>2
  <2>4. u = d * x
    BY <1>8, <2>1, <2>3
  <2> QED BY <2>3, <2>4
<1>10. CascadeLen(b, blocks) = u
  BY <1>5, <1>6, <1>7, <1>8 DEF CascadeLen
<1>11. p = u \/ p = 0
  BY <1>10 DEF CascadePrefix
<1>12. p # 0 => dcp = 1
  BY DEF CascadePrefix, UseCascade
<1>13. p \in 0 .. common
  BY <1>7, <1>9, <1>11
<1>14. \A i \in 1 .. Len(b) : p <= b[i].optimistic
  <2> TAKE i \in 1 .. Len(b)
  <2>1. PICK o \in Nat : o = b[i].optimistic /\ l <= o
    BY <1>1, <1>4, <1>5
  <2> QED BY <1>7, <1>9, <1>11, <2>1
<1> QED BY <1>6, <1>12, <1>13, <1>14

\* Logits are wanted for tokens of the batch.
LEMMA LogitsInBatch ==
  ASSUME NEW b, Batch(b), NEW k \in 0 .. CuSum(Sampled(b))[Len(b)] - 1
  PROVE  LogitsIndices(b)[k] \in 0 .. Count(b) - 1
<1> DEFINE cuS == CuSum(Sampled(b))
<1>1. /\ Len(b) \in Nat /\ Sampled(b) \in [1 .. Len(b) -> Nat]
      /\ IsCuSum(cuS, Sampled(b), Len(b))
  BY BatchSums
<1>0. k \in 0 .. cuS[Len(b)] - 1
  OBVIOUS
<1> HIDE DEF cuS
<1>2. PICK i \in 1 .. Len(b), j \in Nat :
        j \in 0 .. Sampled(b)[i] - 1 /\ k = cuS[i - 1] + j /\ RowAt(cuS, k) = i
  <2>1. PICK n, c, f, t :
          n \in Nat /\ c \in [1 .. n -> Nat] /\ n = Len(b) /\ c = Sampled(b) /\ f = cuS /\ t = k /\ IsCuSum(f, c, n)
    BY <1>1
  <2>2. t \in 0 .. f[n] - 1
    BY <1>0, <2>1
  <2>4. n \in Nat /\ c \in [1 .. n -> Nat] /\ IsCuSum(f, c, n)
    BY <2>1
  <2>3. \E i \in 1 .. n, j \in Nat : j \in 0 .. c[i] - 1 /\ t = f[i - 1] + j /\ RowAt(f, t) = i
    BY <2>2, <2>4, PlaceIn
  <2> QED BY <2>1, <2>3
<1>3. PICK d \in Nat, n \in Nat \ {0}, c0 \in Nat, c \in Nat :
        /\ d = DraftsOf(b[i]) /\ n = b[i].n /\ d + 1 <= n /\ Sampled(b)[i] = d + 1
        /\ c0 = CuSum(Scheduled(b))[i - 1] /\ c = CuSum(Scheduled(b))[i] /\ c = c0 + n
  <2>1. /\ Sampled(b)[i] = DraftsOf(b[i]) + 1 /\ RowFacts(b[i])
        /\ CuSum(Scheduled(b))[i] = CuSum(Scheduled(b))[i - 1] + b[i].n
        /\ CuSum(Scheduled(b))[i - 1] \in Nat /\ CuSum(Scheduled(b))[i] \in Nat
    BY RowCounts
  <2> QED BY <2>1 DEF RowFacts
<1>4. j \in 0 .. d
  BY <1>2, <1>3
<1>5. LogitsIndices(b)[k] = c - (d + 1) + j
  <2>1. LogitsIndices(b)[CuSum(Sampled(b))[i - 1] + j] =
          CuSum(Scheduled(b))[i] - (DraftsOf(b[i]) + 1) + j
    BY <1>3, <1>4, LogitsAre
  <2> QED BY <1>2, <1>3, <2>1 DEF cuS
<1>6. c <= Count(b) /\ Count(b) \in Nat
  <2>1. i \in 0 .. Len(b)
    BY <1>1
  <2> QED BY <1>3, <2>1, CountIs
<1>7. PICK m \in Nat : m = Count(b) /\ c <= m
  BY <1>6
<1>8. c - (d + 1) + j \in 0 .. m - 1
  <2>1. c = c0 + n /\ d + 1 <= n
    BY <1>3
  <2> QED BY <1>4, <1>7, <2>1
<1> QED BY <1>5, <1>7, <1>8

\* Past the wanted tokens, the buffer repeats the last of them.
LEMMA FastPrefillIs ==
  ASSUME NEW b, Batch(b), NEW buffer
  PROVE  /\ DOMAIN FastPrefillIndices(buffer, LogitsIndices(b)) = DOMAIN buffer
         /\ \A k \in DOMAIN buffer :
              FastPrefillIndices(buffer, LogitsIndices(b))[k] =
                IF k \in DOMAIN LogitsIndices(b) THEN LogitsIndices(b)[k]
                ELSE LogitsIndices(b)[CuSum(Sampled(b))[Len(b)] - 1]
         /\ CuSum(Sampled(b))[Len(b)] - 1 \in DOMAIN LogitsIndices(b)
<1>1. PICK s \in Nat \ {0} : s = CuSum(Sampled(b))[Len(b)]
  BY LogitCount, CountIs
<1>2. DOMAIN LogitsIndices(b) = 0 .. s - 1
  BY <1>1, LogitsAre
<1> DEFINE last == CHOOSE k \in DOMAIN LogitsIndices(b) : k + 1 \notin DOMAIN LogitsIndices(b)
<1>3. last = s - 1
  <2>1. s - 1 \in 0 .. s - 1 /\ (s - 1) + 1 \notin 0 .. s - 1
    OBVIOUS
  <2>2. \A k \in 0 .. s - 1 : k + 1 \notin 0 .. s - 1 => k = s - 1
    OBVIOUS
  <2> QED BY <1>2, <2>1, <2>2
<1>4. FastPrefillIndices(buffer, LogitsIndices(b)) =
        [k \in DOMAIN buffer |-> IF k \in DOMAIN LogitsIndices(b) THEN LogitsIndices(b)[k]
                                 ELSE LogitsIndices(b)[last]]
  BY DEF FastPrefillIndices
<1> HIDE DEF last
<1> QED BY <1>1, <1>2, <1>3, <1>4

\* The builders never change the size of a buffer.
LEMMA PersistKeepsSizes ==
  ASSUME NEW md, NEW m, NEW maxBs
  PROVE  /\ DOMAIN Persist(StaleBuffers(maxBs), md, m, maxBs).specSlots = 1 .. maxBs
         /\ DOMAIN Persist(StaleBuffers(maxBs), md, m, maxBs).slots = 1 .. maxBs
<1> DEFINE f == StaleBuffers(maxBs)
<1>1. DOMAIN f.specSlots = 1 .. maxBs /\ DOMAIN f.slots = 1 .. maxBs
  BY DEF StaleBuffers
<1>2. f = [specSlots |-> f.specSlots, specLoc |-> f.specLoc, specAccepted |-> f.specAccepted,
           slots |-> f.slots, loc |-> f.loc]
  BY DEF StaleBuffers
<1>3. \A buffer, from, k, size, pad : DOMAIN Fill(buffer, from, k, size, pad) = DOMAIN buffer
  BY DEF Fill
<1>4. \/ Persist(f, md, m, maxBs) = f
      \/ \E x, y, z : Persist(f, md, m, maxBs) =
           [f EXCEPT !.specSlots = x, !.specLoc = y, !.specAccepted = z] /\ DOMAIN x = DOMAIN f.specSlots
      \/ \E x, y : Persist(f, md, m, maxBs) = [f EXCEPT !.slots = x, !.loc = y] /\ DOMAIN x = DOMAIN f.slots
  <2> DEFINE k == md.specs
             d == md.decodes
             x == Fill(f.specSlots, md.specSlots, k, m.reqs, Null)
             y == Fill(f.specLoc, md.specLoc, k, m.reqs, md.specLoc[k])
             z == Fill(f.specAccepted, md.specAccepted, k, m.reqs, 1)
             u == Fill(f.slots, md.slots, d, m.reqs, Null)
             v == Fill(f.loc, md.loc, d, m.reqs, md.loc[d])
  <2> HIDE DEF f
  <2>1. \/ Persist(f, md, m, maxBs) = f
        \/ Persist(f, md, m, maxBs) = [f EXCEPT !.specSlots = x, !.specLoc = y, !.specAccepted = z]
        \/ Persist(f, md, m, maxBs) = [f EXCEPT !.slots = u, !.loc = v]
    BY DEF Persist
  <2>2. DOMAIN x = DOMAIN f.specSlots /\ DOMAIN u = DOMAIN f.slots
    BY <1>3
  <2> HIDE DEF x, y, z, u, v
  <2> QED BY <2>1, <2>2
<1> HIDE DEF f
<1> QED BY <1>1, <1>2, <1>4 DEF f

-----------------------------------------------------------------------------
(* The invariant holds of every step.                                      *)

\* Before the first step nothing is served, and nothing is captured.
LEMMA InitInv == Init => StepInv
<1> SUFFICES ASSUME Init PROVE StepInv
  OBVIOUS
<1> USE DEF Init
<1>1. Len(rows) = 0 /\ ~Served
  BY DEF Served
<1>2. 0 \in 0 .. MaxCommon * BlockSize /\ 0 <= MaxRows
  <2>1. MaxCommon \in Nat /\ BlockSize \in Nat /\ MaxRows \in Nat
    BY StepAssumption, FlashAssumption
  <2>2. PICK x \in Nat : x = MaxCommon * BlockSize
    BY <2>1
  <2> QED BY <2>1, <2>2
<1>3. key.mode = "NONE"
  BY DEF NoKey, Keys!Key
<1>4. /\ blockRow \in [Seqs -> Req \cup {Null, Stale}]
      /\ slots \in [Tokens -> Tokens \cup {Pad, Stale}]
      /\ logits \in [Tokens -> Tokens \cup {Stale}]
  OBVIOUS
<1>5. DOMAIN buffers.specSlots = 1 .. MaxBs /\ DOMAIN buffers.slots = 1 .. MaxBs
  BY DEF StaleBuffers
<1>6. config \in Configs /\ captured \subseteq DecodeSizes /\ prefix \in 0 .. shared
  OBVIOUS
<1>7. TypeOK
  BY <1>1, <1>2, <1>3, <1>4, <1>5, <1>6 DEF TypeOK
<1> QED BY <1>1, <1>7 DEF StepInv

\* What names of the model do not change while the configuration does not.
LEMMA ConfigKeeps ==
  ASSUME config' = config
  PROVE  QueryLen' = QueryLen /\ DecodeSizes' = DecodeSizes /\ MaxBs' = MaxBs
<1>1. QueryLen' = QueryLen
  BY DEF QueryLen
<1>2. DecodeSizes' = DecodeSizes
  BY <1>1 DEF DecodeSizes, Keys!DecodeSizes, Keys!Sizes
<1>3. MaxBs' = MaxBs
  BY <1>1 DEF MaxBs, Keys!Smaller
<1> QED BY <1>1, <1>2, <1>3

\* A capture comes before the first step.
LEMMA CaptureInv == StepInv /\ Capture => StepInv'
<1> SUFFICES ASSUME StepInv, Capture PROVE StepInv'
  OBVIOUS
<1>1. PICK size \in DecodeSizes \ captured :
        /\ captured' = captured \cup {size}
        /\ buffers' = Persist(StaleBuffers(MaxBs), BuildGdn(DummyMetadata(size)), DummyMetadata(size), MaxBs)
        /\ UNCHANGED <<config, rows, shared, prefix, key, blockRow, slots, logits>>
  BY DEF Capture
<1>2. QueryLen' = QueryLen /\ DecodeSizes' = DecodeSizes /\ MaxBs' = MaxBs
  BY <1>1, ConfigKeeps
<1>3. DOMAIN buffers'.specSlots = 1 .. MaxBs' /\ DOMAIN buffers'.slots = 1 .. MaxBs'
  BY <1>1, <1>2, PersistKeepsSizes
<1>4. TypeOK'
  BY <1>1, <1>2, <1>3 DEF StepInv, TypeOK
<1>5. ~Served /\ ~Served'
  <2>1. ~Served
    BY DEF StepInv
  <2> QED BY <1>1, <2>1 DEF Served
<1> QED BY <1>4, <1>5 DEF StepInv

\* What every step's input is.
LEMMA InputIs ==
  ASSUME NEW c \in Configs, NEW in \in Inputs[c]
  PROVE  Batch(in[1]) /\ in[2] \in 0 .. MaxCommon /\ Admissible(c, in[1], in[2])
<1>1. in \in AllBatches \X (0 .. MaxCommon) /\ Admissible(c, in[1], in[2])
  BY DEF Inputs
<1>2. in[1] \in AllBatches /\ in[2] \in 0 .. MaxCommon
  BY <1>1
<1> QED BY <1>1, <1>2, AllBatchesAre

\* The tokens of a step, padded or not, have their places in the buffers.
LEMMA TokensFit ==
  ASSUME config \in Configs, NEW b, Batch(b), NEW blocks, Admissible(config, b, blocks),
         NEW n \in 1 .. Count(b), NEW u \in BOOLEAN, NEW allowed, NEW k, k = DispatchTo(n, u, allowed)
  PROVE  k.desc.tokens \in Nat /\ n <= k.desc.tokens /\ k.desc.tokens <= MaxNumTokens
         /\ MaxNumTokens \in Nat /\ Count(b) <= MaxNumTokens
<1>1. Count(b) \in Nat /\ Count(b) <= MaxNumTokens /\ MaxNumTokens \in Nat
      /\ MaxCapture \in Nat /\ MaxCapture <= MaxNumTokens
  BY CountIs, SizesFacts, StepAssumption DEF Admissible
<1>2. n \in Nat \ {0} /\ n <= Count(b)
  BY <1>1
<1>3. k.desc.tokens \in Nat /\ n <= k.desc.tokens /\ (k.desc.tokens = n \/ k.desc.tokens <= MaxCapture)
  <2>1. Dispatched(k, n, u)
    BY <1>2, DispatchIs
  <2> QED BY <2>1 DEF Dispatched
<1> QED BY <1>1, <1>2, <1>3

\* A step leaves its own result, whatever the one before it left.
LEMMA ExecuteInv == StepInv /\ ExecuteModel => StepInv'
<1> SUFFICES ASSUME StepInv, ExecuteModel PROVE StepInv'
  OBVIOUS
<1>0. PICK in \in Inputs[config], faster \in BOOLEAN : \E k, size, m :
        /\ k = DispatchTo(Count(in[1]), IsUniform(in[1], QueryLen),
                          Allowed(CascadePrefix(in[1], in[2], config.dcp, faster) = 0))
        /\ size = PaddedReqs(in[1], k)
        /\ rows' = in[1] /\ shared' = in[2] * BlockSize /\ key' = k
        /\ prefix' = CascadePrefix(in[1], in[2], config.dcp, faster)
        /\ blockRow' = CommitBlocks(blockRow, in[1], size)
        /\ m = Metadata(in[1], size, CommitBlocks(blockRow, in[1], size))
        /\ slots' = SlotMapping(slots, Count(in[1]), k.desc.tokens)
        /\ buffers' = Persist(StaleBuffers(MaxBs), BuildGdn(m), m, MaxBs)
        /\ logits' = FastPrefillIndices(Aged(logits), LogitsIndices(in[1]))
  BY DEF ExecuteModel
<1>1. PICK k, size, m :
        /\ k = DispatchTo(Count(in[1]), IsUniform(in[1], QueryLen),
                          Allowed(CascadePrefix(in[1], in[2], config.dcp, faster) = 0))
        /\ size = PaddedReqs(in[1], k)
        /\ rows' = in[1] /\ shared' = in[2] * BlockSize /\ key' = k
        /\ prefix' = CascadePrefix(in[1], in[2], config.dcp, faster)
        /\ blockRow' = CommitBlocks(blockRow, in[1], size)
        /\ m = Metadata(in[1], size, CommitBlocks(blockRow, in[1], size))
        /\ slots' = SlotMapping(slots, Count(in[1]), k.desc.tokens)
        /\ buffers' = Persist(StaleBuffers(MaxBs), BuildGdn(m), m, MaxBs)
        /\ logits' = FastPrefillIndices(Aged(logits), LogitsIndices(in[1]))
  BY <1>0
<1>2. UNCHANGED <<config, captured>> /\ config \in Configs /\ TypeOK
  BY DEF ExecuteModel, StepInv, TypeOK
<1> DEFINE b == in[1]
<1>3. Batch(b) /\ in[2] \in 0 .. MaxCommon /\ Admissible(config, b, in[2])
  BY <1>2, InputIs
<1> HIDE DEF b
<1>4. QueryLen' = QueryLen /\ DecodeSizes' = DecodeSizes /\ MaxBs' = MaxBs
  BY <1>2, ConfigKeeps
<1>5. /\ size \in Nat /\ Len(b) <= size /\ size <= MaxNumSeqs
      /\ k.mode \in {"NONE", "PIECEWISE", "FULL"}
      /\ k.desc.tokens \in Nat /\ Count(b) <= k.desc.tokens
      /\ k.desc.tokens = Count(b) \/ k.desc.tokens <= MaxCapture
  <2>1. k = DispatchTo(Count(b), IsUniform(b, QueryLen),
                          Allowed(CascadePrefix(b, in[2], config.dcp, faster) = 0))
    BY <1>1 DEF b
  <2>2. size = PaddedReqs(b, k)
    BY <1>1 DEF b
  <2> QED BY <1>2, <1>3, <2>1, <2>2, PaddedBatch
<1>6. Count(b) \in Nat \ {0} /\ Count(b) <= MaxNumTokens /\ MaxNumTokens \in Nat
  BY <1>3, CountIs, StepAssumption DEF Admissible
<1>7. Len(b) \in 1 .. MaxRows /\ MaxRows <= MaxNumSeqs /\ MaxRows \in Nat /\ MaxNumSeqs \in Nat
      /\ \A i \in 1 .. Len(b) : b[i].req = i
  BY <1>3, StepAssumption DEF Batch
\* The type.
<1>8. blockRow' \in [Seqs -> Req \cup {Null, Stale}]
  <2>1. blockRow' = [i \in Seqs |-> IF i <= Len(b) THEN b[i].req ELSE IF i <= size THEN Null
                                   ELSE Aged(blockRow)[i]]
    BY <1>1, <1>2 DEF CommitBlocks, TypeOK, b
  <2>2. ASSUME NEW i \in Seqs PROVE Aged(blockRow)[i] = Stale
    BY <1>2 DEF Aged, TypeOK
  <2>3. ASSUME NEW i \in Seqs, i <= Len(b) PROVE b[i].req \in Req
    BY <1>7, <2>3 DEF Seqs, Req
  <2> QED BY <2>1, <2>2, <2>3
<1>9. slots' \in [Tokens -> Tokens \cup {Pad, Stale}]
      /\ \A t \in Tokens : t < k.desc.tokens => slots'[t] = IF t < Count(b) THEN t ELSE Pad
  <2>1. slots' = [t \in Tokens |-> IF t < Count(b) THEN t ELSE IF t < k.desc.tokens THEN Pad
                                  ELSE Aged(slots)[t]]
    BY <1>1, <1>2 DEF SlotMapping, TypeOK, b
  <2>2. ASSUME NEW t \in Tokens PROVE Aged(slots)[t] = Stale
    BY <1>2 DEF Aged, TypeOK
  <2> QED BY <2>1, <2>2
<1>10. logits' = FastPrefillIndices([t \in Tokens |-> Stale], LogitsIndices(b))
  BY <1>1, <1>2 DEF Aged, TypeOK, b
<1>11. logits' \in [Tokens -> Tokens \cup {Stale}]
  <2>1. PICK f : f = FastPrefillIndices([t \in Tokens |-> Stale], LogitsIndices(b))
    OBVIOUS
  <2>2. \A t \in DOMAIN LogitsIndices(b) : LogitsIndices(b)[t] \in Tokens
    <3> SUFFICES ASSUME NEW t \in DOMAIN LogitsIndices(b) PROVE LogitsIndices(b)[t] \in Tokens
      OBVIOUS
    <3>1. t \in 0 .. CuSum(Sampled(b))[Len(b)] - 1
      BY <1>3, LogitsAre
    <3>2. LogitsIndices(b)[t] \in 0 .. Count(b) - 1
      BY <1>3, <3>1, LogitsInBatch
    <3> QED BY <1>6, <3>2 DEF Tokens
  <2>3. f = [t \in Tokens |-> IF t \in DOMAIN LogitsIndices(b) THEN LogitsIndices(b)[t]
                             ELSE LogitsIndices(b)[CuSum(Sampled(b))[Len(b)] - 1]]
        /\ CuSum(Sampled(b))[Len(b)] - 1 \in DOMAIN LogitsIndices(b)
    <3> DEFINE buffer == [t \in Tokens |-> Stale]
    <3>1. DOMAIN buffer = Tokens
      OBVIOUS
    <3>2. CuSum(Sampled(b))[Len(b)] - 1 \in DOMAIN LogitsIndices(b)
          /\ DOMAIN f = Tokens
          /\ \A t \in Tokens : f[t] = IF t \in DOMAIN LogitsIndices(b) THEN LogitsIndices(b)[t]
                                      ELSE LogitsIndices(b)[CuSum(Sampled(b))[Len(b)] - 1]
      BY <1>3, <2>1, <3>1, FastPrefillIs
    <3>3. f = [t \in DOMAIN f |-> f[t]]
      BY <2>1 DEF FastPrefillIndices
    <3> QED BY <3>2, <3>3
  <2> QED BY <1>10, <2>1, <2>2, <2>3
<1>12. shared' \in 0 .. MaxCommon * BlockSize /\ prefix' \in 0 .. shared'
  <2>0. PICK x \in 0 .. MaxCommon : x = in[2]
    BY <1>3
  <2>1. PICK d \in Nat \ {0}, c \in Nat : d = BlockSize /\ c = MaxCommon /\ x \in Nat /\ x <= c /\ x = in[2]
    BY <2>0, FlashAssumption, StepAssumption
  <2>2. d * x <= d * c /\ d * x \in Nat /\ d * c \in Nat
    BY <2>1, TimesMonotone
  <2>3. prefix' \in 0 .. in[2] * BlockSize
    BY <1>1, <1>3, <2>1, CascadeBounds DEF b
  <2>4. shared' = d * x /\ MaxCommon * BlockSize = d * c
    BY <1>1, <2>1
  <2>5. in[2] * BlockSize = d * x
    BY <2>1
  <2> QED BY <2>2, <2>3, <2>4, <2>5
<1>13. DOMAIN buffers'.specSlots = 1 .. MaxBs' /\ DOMAIN buffers'.slots = 1 .. MaxBs'
  BY <1>1, <1>4, PersistKeepsSizes
<1>14. rows' = b /\ key' = k
  BY <1>1 DEF b
<1>15. Len(rows') <= MaxRows /\ key'.mode \in {"NONE", "PIECEWISE", "FULL"}
  BY <1>5, <1>7, <1>14
<1>16. config' \in Configs /\ captured' \subseteq DecodeSizes'
  BY <1>2, <1>4 DEF TypeOK
<1>17. TypeOK'
  BY <1>8, <1>9, <1>11, <1>12, <1>13, <1>15, <1>16 DEF TypeOK
\* The step.
<1>18. \A i \in 1 .. size : blockRow'[i] = IF i <= Len(b) THEN b[i].req ELSE Null
  <2> SUFFICES ASSUME NEW i \in 1 .. size PROVE blockRow'[i] = IF i <= Len(b) THEN b[i].req ELSE Null
    OBVIOUS
  <2>1. i \in Seqs /\ i <= size
    BY <1>5, <1>7 DEF Seqs
  <2> QED BY <1>1, <1>2, <2>1 DEF CommitBlocks, TypeOK, b
<1>19. key' = DispatchTo(Count(b), IsUniform(b, QueryLen), Allowed(prefix = 0))'
  <2>1. k = DispatchTo(Count(b), IsUniform(b, QueryLen), Allowed(prefix' = 0))
    BY <1>1 DEF b
  <2> QED BY <1>2, <1>4, <1>14, <2>1 DEF DispatchTo, QueryLen, Mode, CapturedKeys
<1>20. PaddedReqs(in[1], key)' = size
  BY <1>1 DEF PaddedReqs
<1>21. Meta' = m
  BY <1>1, <1>20 DEF Meta, Metadata, PaddedReqs
<1>22. buffers' = Persist(StaleBuffers(MaxBs), BuildGdn(Meta), Meta, MaxBs)'
  BY <1>1, <1>4, <1>21
<1>23. StepResult(in, faster)'
  BY <1>1, <1>2, <1>9, <1>10, <1>18, <1>19, <1>20, <1>22 DEF StepResult, b
<1>24. captured' = DecodeSizes'
  BY <1>2, <1>4 DEF ExecuteModel
<1> QED BY <1>2, <1>17, <1>23, <1>24 DEF StepInv

\* Nothing changes without a step.
LEMMA StutterInv == StepInv /\ UNCHANGED vars => StepInv'
<1> SUFFICES ASSUME StepInv, UNCHANGED vars PROVE StepInv'
  OBVIOUS
<1>1. UNCHANGED <<config, captured, rows, shared, prefix, key, blockRow, slots, buffers, logits>>
  BY DEF vars
<1>2. QueryLen' = QueryLen /\ DecodeSizes' = DecodeSizes /\ MaxBs' = MaxBs
  BY <1>1, ConfigKeeps
<1>3. TypeOK'
  BY <1>1, <1>2 DEF StepInv, TypeOK
<1>4. Served' => \E in \in Inputs[config'], faster \in BOOLEAN : StepResult(in, faster)'
  <2> SUFFICES ASSUME Served PROVE \E in \in Inputs[config], faster \in BOOLEAN : StepResult(in, faster)'
    BY <1>1 DEF Served
  <2>1. PICK in \in Inputs[config], faster \in BOOLEAN : StepResult(in, faster)
    BY DEF StepInv
  <2>2. DispatchTo(Count(in[1]), IsUniform(in[1], QueryLen), Allowed(prefix = 0))'
          = DispatchTo(Count(in[1]), IsUniform(in[1], QueryLen), Allowed(prefix = 0))
    BY <1>1, <1>2 DEF DispatchTo, QueryLen, Mode, CapturedKeys
  <2>3. key' = DispatchTo(Count(in[1]), IsUniform(in[1], QueryLen), Allowed(prefix = 0))'
    BY <1>1, <2>1, <2>2 DEF StepResult
  <2>4. Meta' = Meta
    BY <1>1 DEF Meta, Metadata, PaddedReqs
  <2>5. buffers' = Persist(StaleBuffers(MaxBs), BuildGdn(Meta), Meta, MaxBs)'
    BY <1>1, <1>2, <2>1, <2>4 DEF StepResult
  <2>6. \A i \in 1 .. PaddedReqs(in[1], key)' :
          blockRow'[i] = IF i <= Len(in[1]) THEN in[1][i].req ELSE Null
    BY <1>1, <2>1 DEF StepResult, PaddedReqs
  <2>7. StepResult(in, faster)'
    BY <1>1, <2>1, <2>3, <2>5, <2>6 DEF StepResult
  <2> QED BY <2>7
<1>5. Served' => captured' = DecodeSizes'
  BY <1>1, <1>2 DEF StepInv, Served
<1> QED BY <1>3, <1>4, <1>5 DEF StepInv

\* Every step leaves the result of some input behind it, whatever the steps and
\* the captures before it left (execute_model).
THEOREM StepInvariant == Spec => []StepInv
<1>1. Init => StepInv
  BY InitInv
<1>2. StepInv /\ [Next]_vars => StepInv'
  BY CaptureInv, ExecuteInv, StutterInv DEF Next
<1> QED BY <1>1, <1>2, PTL DEF Spec

\* The variables keep their types: every buffer its size, every slot, row and
\* logits index its range, whatever a step pads to.
THEOREM StepTypeCorrect == Spec => []TypeOK
<1>1. StepInv => TypeOK
  BY DEF StepInv
<1> QED BY <1>1, StepInvariant, PTL

\* What the invariant says of a served batch.
LEMMA ServedIs ==
  ASSUME StepInv, Served
  PROVE  /\ config \in Configs /\ Batch(rows)
         /\ \E blocks \in 0 .. MaxCommon, faster \in BOOLEAN :
              /\ Admissible(config, rows, blocks) /\ shared = blocks * BlockSize
              /\ prefix = CascadePrefix(rows, blocks, config.dcp, faster)
         /\ key = DispatchTo(Count(rows), IsUniform(rows, QueryLen), Allowed(prefix = 0))
         /\ \A i \in 1 .. PaddedReqs(rows, key) :
              blockRow[i] = IF i <= Len(rows) THEN rows[i].req ELSE Null
         /\ \A t \in Tokens : t < key.desc.tokens => slots[t] = IF t < Count(rows) THEN t ELSE Pad
         /\ logits = FastPrefillIndices([t \in Tokens |-> Stale], LogitsIndices(rows))
         /\ buffers = Persist(StaleBuffers(MaxBs), BuildGdn(Meta), Meta, MaxBs)
<1>1. PICK in \in Inputs[config], faster \in BOOLEAN : StepResult(in, faster)
  BY DEF StepInv
<1>2. config \in Configs
  BY DEF StepInv, TypeOK
<1>3. Batch(in[1]) /\ in[2] \in 0 .. MaxCommon /\ Admissible(config, in[1], in[2])
  BY <1>2, InputIs
<1>4. rows = in[1]
  BY <1>1 DEF StepResult
<1>5. Admissible(config, rows, in[2]) /\ Batch(rows)
  BY <1>3, <1>4
<1>6. /\ shared = in[2] * BlockSize
      /\ prefix = CascadePrefix(rows, in[2], config.dcp, faster)
      /\ key = DispatchTo(Count(rows), IsUniform(rows, QueryLen), Allowed(prefix = 0))
      /\ \A i \in 1 .. PaddedReqs(rows, key) :
           blockRow[i] = IF i <= Len(rows) THEN rows[i].req ELSE Null
      /\ \A t \in Tokens : t < key.desc.tokens => slots[t] = IF t < Count(rows) THEN t ELSE Pad
      /\ logits = FastPrefillIndices([t \in Tokens |-> Stale], LogitsIndices(rows))
      /\ buffers = Persist(StaleBuffers(MaxBs), BuildGdn(Meta), Meta, MaxBs)
  BY <1>1, <1>4 DEF StepResult
<1> QED BY <1>2, <1>3, <1>5, <1>6

-----------------------------------------------------------------------------
(* The properties.                                                         *)

\* Every draft is verified by the logits of the token before it in its own
\* request, and every bonus token follows its request's last token, however the
\* rows mix drafts, prompts and decodes (_calc_spec_decode_metadata).
THEOREM DraftsVerified == Spec => []VerifiesOwnDrafts
<1>1. StepInv => VerifiesOwnDrafts
  <2> SUFFICES ASSUME StepInv, Served
               PROVE  /\ \A k \in 0 .. CuSum(Drafts(rows))[Len(rows)] - 1 :
                           LET i == RowAt(CuSum(Drafts(rows)), k)
                               t == Cu[i] - Drafts(rows)[i] + (k - CuSum(Drafts(rows))[i - 1])
                           IN  DraftTokens(rows)[k] = t /\ LogitsIndices(rows)[TargetLogits(rows)[k]] = t - 1
                      /\ \A i \in Rows : LogitsIndices(rows)[BonusLogits(rows)[i]] = Cu[i] - 1
    BY DEF VerifiesOwnDrafts, Drafts, Rows
  <2>1. Batch(rows)
    BY ServedIs
  <2>2. ASSUME NEW k \in 0 .. CuSum(Drafts(rows))[Len(rows)] - 1,
               NEW i, i = RowAt(CuSum(Drafts(rows)), k),
               NEW t, t = Cu[i] - Drafts(rows)[i] + (k - CuSum(Drafts(rows))[i - 1])
        PROVE  DraftTokens(rows)[k] = t /\ LogitsIndices(rows)[TargetLogits(rows)[k]] = t - 1
    BY <2>1, <2>2, BatchDrafts DEF Cu
  <2>3. ASSUME NEW i \in Rows PROVE LogitsIndices(rows)[BonusLogits(rows)[i]] = Cu[i] - 1
    BY <2>1, <2>3, BatchBonus DEF Cu, Rows
  <2> QED BY <2>2, <2>3
<1> QED BY <1>1, StepInvariant, PTL

\* Multi-axis positions are the exact ones, whatever part of the row is prompt
\* and however far the CPU's count has drifted (_calc_mrope_positions).
THEOREM RopeCorrect == Spec => []RopeExact
<1>1. StepInv => RopeExact
  <2> SUFFICES ASSUME StepInv, Served, NEW t \in DOMAIN Positions(rows)
               PROVE  RopePositions(rows)[t] = RopeOf(rows[RowAt(Cu, t)], Positions(rows)[t])
    BY DEF RopeExact
  <2>1. Batch(rows)
    BY ServedIs
  <2> QED BY <2>1, BatchRope DEF Cu
<1> QED BY <1>1, StepInvariant, PTL

\* A batch that may be split has no row whose past another row is still to
\* write, beyond the rows that decodes reorder to the front (_allow_microbatching).
THEOREM SplitSafe == Spec => []SplitKeepsWriters
<1>1. StepInv => SplitKeepsWriters
  <2> SUFFICES ASSUME StepInv, Served, NEW hit \in Hits(rows),
                      ~(rows[hit.reader].n <= ReorderThreshold(config)),
                      AllowMicrobatching(rows, hit, ReorderThreshold(config)),
                      NEW w \in Rows \ {hit.reader}
               PROVE  ReadCells(rows, hit, hit.reader) \cap WriteCells(rows, hit, w) = {}
    BY DEF SplitKeepsWriters
  <2>1. Batch(rows) /\ config \in Configs
    BY ServedIs
  <2>2. ReorderThreshold(config) \in Nat
    BY <2>1, StepAssumption DEF ReorderThreshold
  <2> QED BY <2>1, <2>2, BatchSplit DEF Rows
<1> QED BY <1>1, StepInvariant, PTL

\* The slots of the padded tokens are always the one that means none: a full
\* graph writes no key over an earlier request's (_get_slot_mappings).
THEOREM SlotsOwned == Spec => []WritesOwnSlots
<1>1. StepInv => WritesOwnSlots
  <2> SUFFICES ASSUME StepInv, Served, NEW t \in 0 .. key.desc.tokens - 1
               PROVE  slots[t] = IF t < Count(rows) THEN t ELSE Pad
    BY DEF WritesOwnSlots
  <2>1. PICK blocks \in 0 .. MaxCommon : Admissible(config, rows, blocks)
    BY ServedIs
  <2>2. /\ config \in Configs /\ Batch(rows)
        /\ key = DispatchTo(Count(rows), IsUniform(rows, QueryLen), Allowed(prefix = 0))
        /\ \A u \in Tokens : u < key.desc.tokens => slots[u] = IF u < Count(rows) THEN u ELSE Pad
    BY ServedIs
  <2>3. Count(rows) \in 1 .. Count(rows) /\ IsUniform(rows, QueryLen) \in BOOLEAN
    BY <2>2, CountIs DEF IsUniform
  <2>4. key.desc.tokens \in Nat /\ key.desc.tokens <= MaxNumTokens /\ MaxNumTokens \in Nat
    BY <2>1, <2>2, <2>3, TokensFit
  <2>5. t \in Tokens /\ t < key.desc.tokens
    BY <2>4 DEF Tokens
  <2> QED BY <2>2, <2>5
<1> QED BY <1>1, StepInvariant, PTL

\* The indices that the layers sharing a KV cache read, up to the size their own
\* graph is padded to, are the tokens whose logits are wanted, all of them and no
\* others (_prepare_kv_sharing_fast_prefill).
THEOREM FastPrefillOwned == Spec => []FastPrefillInBatch
<1>1. StepInv => FastPrefillInBatch
  <2> SUFFICES ASSUME StepInv, Served
               PROVE  \A p : p = DispatchTo(Len(rows) + CuSum(Drafts(rows))[Len(rows)],
                                            FALSE, Allowed(FALSE)).desc.tokens =>
                        {logits[k] : k \in 0 .. p - 1}
                          = {LogitsIndices(rows)[k] : k \in DOMAIN LogitsIndices(rows)}
    BY DEF FastPrefillInBatch, Drafts, Rows
  <2>0. PICK padded : padded = DispatchTo(Len(rows) + CuSum(Drafts(rows))[Len(rows)],
                                          FALSE, Allowed(FALSE)).desc.tokens
    OBVIOUS
  <2>1. PICK blocks \in 0 .. MaxCommon : Admissible(config, rows, blocks)
    BY ServedIs
  <2>2. /\ config \in Configs /\ Batch(rows)
        /\ logits = FastPrefillIndices([t \in Tokens |-> Stale], LogitsIndices(rows))
    BY ServedIs
  <2>3. PICK s : s = CuSum(Sampled(rows))[Len(rows)]
    OBVIOUS
  <2>4. s \in 1 .. Count(rows) /\ s = Len(rows) + CuSum(Drafts(rows))[Len(rows)]
        /\ Count(rows) \in Nat
    BY <2>2, <2>3, LogitCount, CountIs
  <2>5. PICK graph : graph = DispatchTo(s, FALSE, Allowed(FALSE)) /\ padded = graph.desc.tokens
    BY <2>0, <2>4
  <2>6. padded \in Nat /\ s <= padded /\ padded <= MaxNumTokens /\ MaxNumTokens \in Nat
    BY <2>1, <2>2, <2>4, <2>5, TokensFit
  <2>7. DOMAIN LogitsIndices(rows) = 0 .. s - 1
    BY <2>2, <2>3, LogitsAre
  <2>8. \A t \in Tokens : logits[t] = IF t \in 0 .. s - 1 THEN LogitsIndices(rows)[t]
                                      ELSE LogitsIndices(rows)[s - 1]
    <3> DEFINE buffer == [t \in Tokens |-> Stale]
    <3>1. DOMAIN buffer = Tokens
      OBVIOUS
    <3> QED BY <2>2, <2>3, <2>7, <3>1, FastPrefillIs
  <2>9. \A t \in 0 .. padded - 1 : t \in Tokens
    BY <2>6 DEF Tokens
  <2>10. s - 1 \in 0 .. s - 1 /\ \A t \in 0 .. s - 1 : t \in 0 .. padded - 1
    BY <2>4, <2>6
  <2>11. {logits[k] : k \in 0 .. padded - 1} = {LogitsIndices(rows)[k] : k \in 0 .. s - 1}
    BY <2>8, <2>9, <2>10
  <2> QED BY <2>0, <2>7, <2>11
<1> QED BY <1>1, StepInvariant, PTL

-----------------------------------------------------------------------------
(* Context parallelism: which tokens live on a rank.                       *)

\* The y-th token of the x-th run of Interleave tokens, and the x-th run that a
\* rank has of d ranks.
Cell(x, y)      == Interleave * x + y
Run(x, d, rank) == d * x + rank
Places          == 0 .. Interleave - 1

\* The run of a token and its place there, from its number.
LEMMA CellIs ==
  ASSUME NEW x \in Nat, NEW y \in Places
  PROVE  Cell(x, y) \in Nat /\ Cell(x, y) \div Interleave = x /\ Cell(x, y) % Interleave = y
<1>1. PICK I \in Nat \ {0} : I = Interleave
  BY FlashAssumption
<1>2. PICK z \in 0 .. I - 1 : z = y
  BY <1>1 DEF Places
<1>3. (I * x + z) \div I = x /\ (I * x + z) % I = z
  BY DivUnique
<1>4. I * x + z \in Nat
  OBVIOUS
<1> QED BY <1>1, <1>2, <1>3, <1>4 DEF Cell

\* Every token has a run and a place there.
LEMMA CellOf ==
  ASSUME NEW l \in Nat
  PROVE  \E x \in Nat, y \in Places : l = Cell(x, y)
<1>1. PICK I \in Nat \ {0} : I = Interleave
  BY FlashAssumption
<1>2. l = I * (l \div I) + (l % I) /\ l \div I \in Nat /\ l % I \in 0 .. I - 1
  BY DivMod
<1>3. PICK x \in Nat, y \in 0 .. I - 1 : x = l \div I /\ y = l % I /\ l = I * x + y
  BY <1>2
<1>4. y \in Places /\ l = Cell(x, y)
  BY <1>1, <1>3 DEF Places, Cell
<1> QED BY <1>4

\* Cells are ordered by runs, then by places.
LEMMA CellOrder ==
  ASSUME NEW x \in Nat, NEW y \in Places, NEW u \in Nat, NEW v \in Places
  PROVE  Cell(x, y) < Cell(u, v) <=> x < u \/ (x = u /\ y < v)
<1>1. PICK I \in Nat \ {0} : I = Interleave
  BY FlashAssumption
<1>2. PICK r \in 0 .. I - 1, s \in 0 .. I - 1 : r = y /\ s = v
  BY <1>1 DEF Places
<1>3. PICK e \in Nat, f \in Nat : e = I * x /\ f = I * u
  OBVIOUS
<1>4. Cell(x, y) = e + r /\ Cell(u, v) = f + s
  BY <1>1, <1>2, <1>3 DEF Cell
<1>5. x < u => e + I <= f
  BY <1>3, TimesMonotone
<1>6. u < x => f + I <= e
  BY <1>3, TimesMonotone
<1>7. x = u => e = f
  BY <1>3
<1> QED BY <1>2, <1>4, <1>5, <1>6, <1>7

\* A rank's runs are its own, in order, and none comes early.
LEMMA RunIs ==
  ASSUME NEW d \in Nat \ {0}, NEW rank \in 0 .. d - 1, NEW x \in Nat
  PROVE  /\ Run(x, d, rank) \in Nat /\ Run(x, d, rank) % d = rank /\ x <= Run(x, d, rank)
         /\ \A u \in Nat : x < u => Run(x, d, rank) < Run(u, d, rank)
<1>1. d * x + rank \in Nat
  OBVIOUS
<1>2. (d * x + rank) % d = rank
  BY DivUnique
<1>3. x <= d * x + rank
  <2>1. PICK e \in Nat : e = d * x
    OBVIOUS
  <2>2. x * 1 <= x * d
    BY SMT
  <2> QED BY <2>1, <2>2
<1>4. ASSUME NEW u \in Nat, x < u PROVE d * x + rank < d * u + rank
  <2>1. PICK e \in Nat, f \in Nat : e = d * x /\ f = d * u
    OBVIOUS
  <2>2. e + d <= f
    BY <1>4, <2>1, TimesMonotone
  <2> QED BY <2>1, <2>2
<1> QED BY <1>1, <1>2, <1>3, <1>4 DEF Run

\* A run of the rank is the x-th for some x.
LEMMA RunOf ==
  ASSUME NEW d \in Nat \ {0}, NEW rank \in 0 .. d - 1, NEW q \in Nat, q % d = rank
  PROVE  \E x \in Nat : q = Run(x, d, rank)
<1>1. q = d * (q \div d) + (q % d) /\ q \div d \in Nat
  BY DivMod
<1> QED BY <1>1 DEF Run

\* A rank's l-th token is in the same place of the rank's run.
LEMMA GlobalPosIs ==
  ASSUME NEW x \in Nat, NEW y \in Places, NEW d \in Nat \ {0}, NEW rank \in 0 .. d - 1
  PROVE  GlobalPos(Cell(x, y), d, rank) = Cell(Run(x, d, rank), y)
<1>1. PICK I \in Nat \ {0} : I = Interleave
  BY FlashAssumption
<1>2. PICK z \in 0 .. I - 1 : z = y
  BY <1>1 DEF Places
<1>3. GlobalPos(Cell(x, y), d, rank) = x * d * I + rank * I + z
  BY <1>1, <1>2, CellIs DEF GlobalPos
<1>4. x * d * I + rank * I + z = I * (d * x + rank) + z
  OBVIOUS
<1> QED BY <1>1, <1>2, <1>3, <1>4 DEF Cell, Run

\* It lives on that rank, no earlier than it is counted.
LEMMA GlobalPosRank ==
  ASSUME NEW l \in Nat, NEW d \in Nat \ {0}, NEW rank \in 0 .. d - 1
  PROVE  /\ GlobalPos(l, d, rank) \in Nat /\ RankOf(GlobalPos(l, d, rank), d) = rank
<1>1. PICK x \in Nat, y \in Places : l = Cell(x, y)
  BY CellOf
<1>2. GlobalPos(l, d, rank) = Cell(Run(x, d, rank), y)
  BY <1>1, GlobalPosIs
<1>3. Run(x, d, rank) \in Nat /\ Run(x, d, rank) % d = rank
  BY RunIs
<1>4. Cell(Run(x, d, rank), y) \in Nat /\ Cell(Run(x, d, rank), y) \div Interleave = Run(x, d, rank)
  BY <1>3, CellIs
<1> QED BY <1>2, <1>3, <1>4 DEF RankOf

\* In order.
LEMMA GlobalPosGrows ==
  ASSUME NEW d \in Nat \ {0}, NEW rank \in 0 .. d - 1, NEW l \in Nat, NEW m \in Nat, l < m
  PROVE  GlobalPos(l, d, rank) < GlobalPos(m, d, rank)
<1>1. PICK x \in Nat, y \in Places : l = Cell(x, y)
  BY CellOf
<1>2. PICK u \in Nat, v \in Places : m = Cell(u, v)
  BY CellOf
<1>3. GlobalPos(l, d, rank) = Cell(Run(x, d, rank), y)
  BY <1>1, GlobalPosIs
<1>4. GlobalPos(m, d, rank) = Cell(Run(u, d, rank), v)
  BY <1>2, GlobalPosIs
<1>5. x < u \/ (x = u /\ y < v)
  BY <1>1, <1>2, CellOrder
<1>6. Run(x, d, rank) \in Nat /\ Run(u, d, rank) \in Nat
  BY RunIs
<1>7. x < u => Run(x, d, rank) < Run(u, d, rank)
  BY RunIs
<1>8. Cell(Run(x, d, rank), y) < Cell(Run(u, d, rank), v)
  BY <1>5, <1>6, <1>7, CellOrder
<1> QED BY <1>3, <1>4, <1>8

\* And every token of the rank is one of them.
LEMMA GlobalPosOnto ==
  ASSUME NEW d \in Nat \ {0}, NEW rank \in 0 .. d - 1, NEW p \in Nat, RankOf(p, d) = rank
  PROVE  \E l \in Nat : GlobalPos(l, d, rank) = p
<1>1. PICK q \in Nat, y \in Places : p = Cell(q, y)
  BY CellOf
<1>2. q % d = rank
  BY <1>1, CellIs DEF RankOf
<1>3. PICK x \in Nat : q = Run(x, d, rank)
  BY <1>2, RunOf
<1>4. Cell(x, y) \in Nat /\ GlobalPos(Cell(x, y), d, rank) = p
  BY <1>1, <1>3, CellIs, GlobalPosIs
<1> QED BY <1>4

\* A token is never earlier in the request than on its rank.
LEMMA GlobalPosAfter ==
  ASSUME NEW l \in Nat, NEW d \in Nat \ {0}, NEW rank \in 0 .. d - 1
  PROVE  l <= GlobalPos(l, d, rank)
<1>1. PICK x \in Nat, y \in Places : l = Cell(x, y)
  BY CellOf
<1>2. GlobalPos(l, d, rank) = Cell(Run(x, d, rank), y)
  BY <1>1, GlobalPosIs
<1>3. Run(x, d, rank) \in Nat /\ x <= Run(x, d, rank)
  BY RunIs
<1>4. PICK r \in Nat : r = Run(x, d, rank) /\ x <= r
  BY <1>3
<1>5. y \in Int
  BY FlashAssumption DEF Places
<1>6. ~(r < x) /\ ~(y < y)
  BY <1>4, <1>5
<1>7. ~(Cell(r, y) < Cell(x, y))
  BY <1>6, CellOrder
<1>8. Cell(r, y) \in Nat /\ Cell(x, y) \in Nat
  BY CellIs
<1> QED BY <1>1, <1>2, <1>4, <1>7, <1>8

\* The tokens below c that live on a rank are as many as the rank's first tokens
\* that lie below c (get_dcp_local_seq_lens).
LEMMA LocalLenIs ==
  ASSUME NEW c \in Nat, NEW d \in Nat \ {0}, NEW rank \in 0 .. d - 1
  PROVE  /\ LocalLen(c, d, rank) \in Nat
         /\ \A l \in Nat : l < LocalLen(c, d, rank) <=> GlobalPos(l, d, rank) < c
<1> DEFINE gp(l) == GlobalPos(l, d, rank)
           T     == {l \in Nat : ~(gp(l) < c)}
           S     == {p \in 0 .. c - 1 : RankOf(p, d) = rank}
<1>1. \A l \in Nat : gp(l) \in Nat /\ l <= gp(l) /\ RankOf(gp(l), d) = rank
  BY GlobalPosRank, GlobalPosAfter
<1>2. \A l, m \in Nat : l < m => gp(l) < gp(m)
  BY GlobalPosGrows
<1>3. \A p \in Nat : RankOf(p, d) = rank => \E l \in Nat : gp(l) = p
  BY GlobalPosOnto
<1> HIDE DEF gp
<1>4. PICK L \in T : \A m \in T : L <= m
  <2>1. T \subseteq Nat
    OBVIOUS
  <2>2. c \in T
    BY <1>1
  <2> HIDE DEF T
  <2> QED BY <2>1, <2>2, LeastOf
<1>5. L \in Nat /\ \A l \in Nat : l < L <=> gp(l) < c
  <2>1. L \in Nat /\ ~(gp(L) < c)
    OBVIOUS
  <2>2. ASSUME NEW l \in Nat, l < L PROVE gp(l) < c
    BY <1>4, <2>1, <2>2
  <2>3. ASSUME NEW l \in Nat, ~(l < L) PROVE ~(gp(l) < c)
    <3>1. l = L \/ L < l
      BY <2>1, <2>3
    <3>2. L < l => gp(L) < gp(l)
      BY <1>2, <2>1
    <3>3. gp(l) \in Nat /\ gp(L) \in Nat
      BY <1>1, <2>1
    <3> QED BY <2>1, <3>1, <3>2, <3>3
  <2> QED BY <2>1, <2>2, <2>3
<1> HIDE DEF T
<1> DEFINE I == 0 .. L - 1
           f == [l \in I |-> gp(l)]
<1>6. \A l \in I : l \in Nat /\ gp(l) \in S
  <2> SUFFICES ASSUME NEW l \in I PROVE l \in Nat /\ gp(l) \in S
    OBVIOUS
  <2>1. l \in Nat /\ l < L
    BY <1>5
  <2>2. gp(l) \in Nat /\ gp(l) < c /\ RankOf(gp(l), d) = rank
    BY <1>1, <1>5, <2>1
  <2> QED BY <2>1, <2>2
<1>7. \A p \in S : \E l \in I : gp(l) = p
  <2> SUFFICES ASSUME NEW p \in S PROVE \E l \in I : gp(l) = p
    OBVIOUS
  <2>1. p \in Nat /\ p < c /\ RankOf(p, d) = rank
    OBVIOUS
  <2>2. PICK l \in Nat : gp(l) = p
    BY <1>3, <2>1
  <2>3. l \in I
    BY <1>5, <2>1, <2>2
  <2> QED BY <2>2, <2>3
<1>8. \A l, m \in I : gp(l) = gp(m) => l = m
  <2> SUFFICES ASSUME NEW l \in I, NEW m \in I, l # m PROVE gp(l) # gp(m)
    OBVIOUS
  <2>1. l \in Nat /\ m \in Nat /\ (l < m \/ m < l)
    BY <1>6
  <2>2. gp(l) \in Nat /\ gp(m) \in Nat /\ (gp(l) < gp(m) \/ gp(m) < gp(l))
    BY <1>1, <1>2, <2>1
  <2> QED BY <2>2
<1> HIDE DEF S
<1>9. f \in Bijection(I, S)
  <2>1. f \in [I -> S]
    BY <1>6
  <2>2. \A l \in I : f[l] = gp(l)
    OBVIOUS
  <2> HIDE DEF I, f
  <2>3. \A l, m \in I : f[l] = f[m] => l = m
    BY <1>8, <2>2
  <2>4. \A p \in S : \E l \in I : f[l] = p
    BY <1>7, <2>2
  <2> QED BY <2>1, <2>3, <2>4 DEF Bijection, Injection, Surjection, IsInjective
<1>10. IsFiniteSet(I) /\ Cardinality(I) = L
  <2>1. 0 \in Int /\ L - 1 \in Int
    BY <1>5
  <2>2. IsFiniteSet(0 .. L - 1) /\ Cardinality(0 .. L - 1) = IF 0 > L - 1 THEN 0 ELSE L - 1 - 0 + 1
    BY <2>1, FS_Interval
  <2> QED BY <1>5, <2>2
<1>11. Cardinality(S) = L
  <2>1. ExistsBijection(I, S)
    BY <1>9 DEF ExistsBijection
  <2> HIDE DEF I
  <2> QED BY <1>10, <2>1, FS_Bijection
<1>12. LocalLen(c, d, rank) = L
  BY <1>11 DEF LocalLen, S
<1> QED BY <1>5, <1>12 DEF gp

\* The longest of finitely many lengths is one of them, or zero.
LEMMA LongestIs ==
  ASSUME NEW n \in Nat, NEW lens \in [1 .. n -> Nat]
  PROVE  Longest(lens) \in Nat /\ \A i \in 1 .. n : lens[i] <= Longest(lens)
<1> DEFINE V == {lens[i] : i \in 1 .. n} \cup {0}
           U == {u \in Nat : \A i \in 1 .. n : lens[i] <= u}
<1>1. PICK cu : IsCuSum(cu, lens, n)
  BY CuSumExists
<1>2. cu[n] \in U
  <2>1. \A i, j \in 0 .. n : i <= j => cu[i] <= cu[j]
    BY <1>1, CuSumMonotone
  <2>2. cu[n] \in Nat
    BY <1>1 DEF IsCuSum
  <2>3. ASSUME NEW i \in 1 .. n PROVE lens[i] <= cu[n]
    <3>1. cu[i] = cu[i - 1] + lens[i] /\ cu[i - 1] \in Nat /\ cu[i] \in Nat
      BY <1>1, SumStep
    <3>2. cu[i] <= cu[n]
      BY <2>1
    <3>3. lens[i] \in Nat
      OBVIOUS
    <3> QED BY <2>2, <3>1, <3>2, <3>3
  <2> QED BY <2>2, <2>3
<1>3. PICK u \in U : \A v \in U : u <= v
  <2>1. U \subseteq Nat
    OBVIOUS
  <2> HIDE DEF U
  <2> QED BY <1>2, <2>1, LeastOf
<1>4. u \in Nat /\ \A i \in 1 .. n : lens[i] <= u /\ lens[i] \in Nat
  OBVIOUS
<1>5. u \in V
  <2> SUFFICES ASSUME u \notin V PROVE FALSE
    OBVIOUS
  <2>1. u # 0 /\ \A i \in 1 .. n : lens[i] # u
    OBVIOUS
  <2>2. u - 1 \in Nat /\ \A i \in 1 .. n : lens[i] <= u - 1
    BY <1>4, <2>1
  <2>3. u - 1 \in U /\ ~(u <= u - 1)
    BY <1>4, <2>2
  <2> QED BY <1>3, <2>3
<1>6. DOMAIN lens = 1 .. n
  OBVIOUS
<1>7. Longest(lens) \in V /\ \A i \in 1 .. n : lens[i] <= Longest(lens)
  BY <1>4, <1>5, <1>6 DEF Longest
<1>8. V \subseteq Nat
  BY <1>4
<1> QED BY <1>7, <1>8

\* Rounded up to whole turns of the ranks, the longest sequence bounds what any
\* rank holds of any request's context.
LEMMA ContextFits ==
  ASSUME NEW longest \in Nat, NEW c \in Nat, c <= longest, NEW d \in Nat \ {0}, NEW rank \in 0 .. d - 1
  PROVE  LocalLen(c, d, rank)
           <= ((longest + d * Interleave - 1) \div (d * Interleave)) * Interleave
<1>1. PICK I \in Nat \ {0} : I = Interleave
  BY FlashAssumption
<1>2. PICK parts \in Nat \ {0} : parts = d * I
  OBVIOUS
<1>3. PICK L \in Nat : L = LocalLen(c, d, rank) /\ \A l \in Nat : l < L <=> GlobalPos(l, d, rank) < c
  BY LocalLenIs
<1>4. PICK a \in Nat : a = longest + parts - 1
  OBVIOUS
<1>5. a = parts * (a \div parts) + (a % parts) /\ a \div parts \in Nat /\ a % parts \in 0 .. parts - 1
  BY DivMod
<1>6. PICK k \in Nat : k = a \div parts /\ longest <= parts * k
  <2>1. PICK k \in Nat, r \in 0 .. parts - 1 : k = a \div parts /\ r = a % parts /\ a = parts * k + r
    BY <1>5
  <2>2. PICK e \in Int : e = parts * k
    OBVIOUS
  <2>3. longest <= e
    BY <1>4, <2>1, <2>2
  <2> QED BY <2>1, <2>2, <2>3
<1>7. PICK m \in Nat : m = k * I
  OBVIOUS
<1>8. 0 \in Places
  BY <1>1 DEF Places
<1>9. m = Cell(k, 0)
  BY <1>1, <1>7 DEF Cell
<1>10. GlobalPos(m, d, rank) = Cell(Run(k, d, rank), 0)
  BY <1>8, <1>9, GlobalPosIs
<1>11. PICK r \in Nat : r = d * k + rank /\ d * k <= r
  <2>1. PICK e \in Nat : e = d * k
    OBVIOUS
  <2>2. e + rank \in Nat /\ e <= e + rank
    OBVIOUS
  <2> QED BY <2>1, <2>2
<1>12. GlobalPos(m, d, rank) = I * r
  BY <1>1, <1>10, <1>11 DEF Cell, Run
<1>13. parts * k <= I * r
  <2>1. I * (d * k) <= I * r
    BY <1>11, TimesMonotone
  <2>2. I * (d * k) = parts * k
    BY <1>2
  <2> QED BY <2>1, <2>2
<1>14. ~(GlobalPos(m, d, rank) < c)
  <2>1. PICK e \in Nat, f \in Nat : e = parts * k /\ f = I * r
    OBVIOUS
  <2> QED BY <1>6, <1>12, <1>13, <2>1
<1>15. L <= m
  BY <1>3, <1>14
<1> QED BY <1>1, <1>2, <1>3, <1>4, <1>6, <1>7, <1>15

-----------------------------------------------------------------------------
(* Attention.                                                              *)

\* The common metadata of the last step, row by row.
LEMMA MetaIs ==
  ASSUME StepInv, Served, NEW size, size = PaddedReqs(rows, key)
  PROVE  /\ size \in Nat /\ Len(rows) <= size /\ Len(rows) \in Nat
         /\ Meta.reqs = size /\ DOMAIN Meta.seqLens = 1 .. size
         /\ Meta.upper \in [1 .. size -> Nat]
         /\ \A i \in 1 .. Len(rows) :
              /\ Meta.loc[i] - Meta.loc[i - 1] = rows[i].n
              /\ Meta.seqLens[i] = rows[i].computed + rows[i].n
              /\ Meta.upper[i] = rows[i].optimistic + rows[i].n
              /\ \A g \in Groups : Meta.blocks[g][i] = Blocks(g, rows[i].req)
<1>1. /\ config \in Configs /\ Batch(rows)
      /\ key = DispatchTo(Count(rows), IsUniform(rows, QueryLen), Allowed(prefix = 0))
      /\ \A i \in 1 .. size : blockRow[i] = IF i <= Len(rows) THEN rows[i].req ELSE Null
  BY ServedIs
<1>2. size \in Nat /\ Len(rows) <= size
  BY <1>1, PaddedBatch
<1>3. Len(rows) \in Nat \ {0} /\ \A i \in 1 .. Len(rows) : RowFacts(rows[i])
  BY <1>1 DEF Batch
<1>4. /\ Meta.reqs = size /\ Meta.loc = StartLoc(rows, size)
      /\ Meta.seqLens = SeqLens(rows, size) /\ Meta.upper = OptimisticSeqLens(rows, size)
      /\ Meta.blocks = [g \in Groups |-> [i \in 1 .. size |-> Blocks(g, blockRow[i])]]
  BY DEF Meta, Metadata
<1>5. Meta.upper \in [1 .. size -> Nat]
  <2>1. \A i \in 1 .. size : i <= Len(rows) => rows[i].optimistic + rows[i].n \in Nat
    <3> SUFFICES ASSUME NEW i \in 1 .. size, i <= Len(rows) PROVE rows[i].optimistic + rows[i].n \in Nat
      OBVIOUS
    <3>1. RowFacts(rows[i])
      BY <1>2, <1>3
    <3> QED BY <3>1 DEF RowFacts
  <2> QED BY <1>4, <2>1 DEF OptimisticSeqLens
<1>6. DOMAIN Meta.seqLens = 1 .. size
  BY <1>4 DEF SeqLens
<1>7. ASSUME NEW i \in 1 .. Len(rows)
      PROVE  /\ Meta.loc[i] - Meta.loc[i - 1] = rows[i].n
             /\ Meta.seqLens[i] = rows[i].computed + rows[i].n
             /\ Meta.upper[i] = rows[i].optimistic + rows[i].n
             /\ \A g \in Groups : Meta.blocks[g][i] = Blocks(g, rows[i].req)
  <2>1. /\ i \in 1 .. size /\ i <= Len(rows) /\ i \in 0 .. size /\ i - 1 \in 0 .. size /\ i - 1 <= Len(rows)
    BY <1>2, <1>3
  <2>2. /\ CuSum(Scheduled(rows))[i] = CuSum(Scheduled(rows))[i - 1] + rows[i].n
        /\ CuSum(Scheduled(rows))[i - 1] \in Nat
    BY <1>1, RowCounts
  <2>3. rows[i].n \in Nat
    BY <1>3 DEF RowFacts
  <2>4. Meta.loc[i] = CuSum(Scheduled(rows))[i] /\ Meta.loc[i - 1] = CuSum(Scheduled(rows))[i - 1]
    BY <1>4, <2>1 DEF StartLoc
  <2>5. Meta.loc[i] - Meta.loc[i - 1] = rows[i].n
    BY <2>2, <2>3, <2>4
  <2>6. Meta.seqLens[i] = rows[i].computed + rows[i].n
    BY <1>4, <2>1 DEF SeqLens
  <2>7. Meta.upper[i] = rows[i].optimistic + rows[i].n
    BY <1>4, <2>1 DEF OptimisticSeqLens
  <2>8. \A g \in Groups : Meta.blocks[g][i] = Blocks(g, rows[i].req)
    BY <1>1, <1>4, <2>1
  <2> QED BY <2>5, <2>6, <2>7, <2>8
<1> QED BY <1>2, <1>3, <1>4, <1>5, <1>6, <1>7

\* Cascade attention's first kernel never looks ahead: its prefix is computed,
\* of a row that drifted as well, since that row drifted past what is shared.
LEMMA PrefixComputed ==
  ASSUME StepInv, Served
  PROVE  /\ shared \in Nat /\ prefix \in 0 .. shared /\ (prefix # 0 => config.dcp = 1)
         /\ \A i \in 1 .. Len(rows) : prefix <= rows[i].computed
<1>1. PICK blocks \in 0 .. MaxCommon, faster \in BOOLEAN :
        /\ Admissible(config, rows, blocks) /\ shared = blocks * BlockSize
        /\ prefix = CascadePrefix(rows, blocks, config.dcp, faster)
  BY ServedIs
<1>2. Batch(rows)
  BY ServedIs
<1>3. blocks \in Nat
  BY StepAssumption
<1>4. /\ prefix \in 0 .. blocks * BlockSize
      /\ \A i \in 1 .. Len(rows) : prefix <= rows[i].optimistic
      /\ prefix # 0 => config.dcp = 1
  BY <1>1, <1>2, <1>3, CascadeBounds
<1>5. shared \in Nat /\ prefix \in 0 .. shared
  <2>1. PICK d \in Nat : d = BlockSize
    BY FlashAssumption
  <2>2. blocks * d \in Nat
    BY <1>3
  <2> QED BY <1>1, <1>4, <2>1, <2>2
<1>6. ASSUME NEW i \in 1 .. Len(rows) PROVE prefix <= rows[i].computed
  <2>1. /\ rows[i].computed \in Nat /\ rows[i].optimistic \in Nat /\ rows[i].prompt \in Nat
        /\ rows[i].computed # rows[i].optimistic => rows[i].prompt <= rows[i].computed
    BY <1>2 DEF Batch, RowFacts
  <2>2. Drift(rows[i]) # 0 => shared <= rows[i].prompt
    BY <1>1 DEF Admissible
  <2>3. CASE rows[i].computed = rows[i].optimistic
    BY <1>4, <2>3
  <2>4. CASE rows[i].computed # rows[i].optimistic
    <3>1. Drift(rows[i]) # 0
      BY <2>1, <2>4 DEF Drift
    <3> QED BY <1>5, <2>1, <2>2, <2>4, <3>1
  <2> QED BY <2>3, <2>4
<1> QED BY <1>4, <1>5, <1>6

\* What the kernels of a group are given: the same for both groups, but for the
\* block table (build, update_block_table).
LEMMA FlashIs ==
  ASSUME NEW g \in Groups, NEW fm, fm = FlashRead(g)
  PROVE  /\ fm.group = g /\ fm.prefix = prefix /\ fm.dcp = config.dcp
         /\ fm.loc = Meta.loc /\ fm.seqLens = Meta.seqLens /\ fm.blocks = Meta.blocks[g]
         /\ fm.context = [rank \in 0 .. config.dcp - 1 |->
              [i \in 1 .. Meta.reqs |-> LocalLen(Meta.seqLens[i] - QueryLenOf(Meta, i), config.dcp, rank)]]
         /\ fm.maxContext = IF SkipContext(Meta) THEN 0 ELSE MaxContext(Meta, config.dcp)
<1> DEFINE first == BuildFlash(Meta, 1, prefix, config.dcp)
           context == [rank \in 0 .. config.dcp - 1 |->
              [i \in 1 .. Meta.reqs |-> LocalLen(Meta.seqLens[i] - QueryLenOf(Meta, i), config.dcp, rank)]]
           max == IF SkipContext(Meta) THEN 0 ELSE MaxContext(Meta, config.dcp)
<1>3. first = [group |-> 1, loc |-> Meta.loc, seqLens |-> Meta.seqLens, blocks |-> Meta.blocks[1],
               prefix |-> prefix, dcp |-> config.dcp, context |-> context, maxContext |-> max]
  BY DEF BuildFlash
<1> HIDE DEF first, context, max
<1>4. /\ fm.group = g /\ fm.prefix = prefix /\ fm.dcp = config.dcp
      /\ fm.loc = Meta.loc /\ fm.seqLens = Meta.seqLens /\ fm.blocks = Meta.blocks[g]
      /\ fm.context = context /\ fm.maxContext = max
  <2>1. CASE g = 1
    <3>1. fm = first
      BY <2>1 DEF FlashRead, first
    <3> QED BY <1>3, <2>1, <3>1
  <2>2. CASE g = 2
    <3>1. fm = [first EXCEPT !.group = g, !.blocks = Meta.blocks[g]]
      BY <2>2 DEF FlashRead, UpdateBlockTable, first
    <3> QED BY <1>3, <3>1
  <2> QED BY <2>1, <2>2 DEF Groups
<1> QED BY <1>4 DEF context, max

\* The keys of a row before position x, and those from x to the j-th token after
\* the computed ones.
KeysBefore(B, x, common)     == {KeyAt(B, p, common) : p \in 0 .. x - 1}
KeysFrom(B, x, c, j, common) == {KeyAt(B, p, common) : p \in x .. c + j}

\* What a kernel is given of row i, with c computed and n scheduled tokens.
RowGiven(fm, i, c, n, B) ==
  /\ i \in DOMAIN fm.seqLens /\ fm.loc[i] - fm.loc[i - 1] = n /\ fm.seqLens[i] = c + n
  /\ fm.blocks[i] = B /\ fm.blocks[1].group = B.group

\* What the context kernels are given of it, for each rank.
ContextOf(fm, i, c, d) ==
  /\ fm.dcp = d /\ fm.maxContext \in Nat
  /\ \A rank \in 0 .. d - 1 : /\ fm.context[rank][i] = LocalLen(c, d, rank)
                               /\ LocalLen(c, d, rank) <= fm.maxContext

\* Keys shared out at position x.
LEMMA KeysUnion ==
  ASSUME NEW B, NEW common, NEW x \in Nat, NEW c \in Nat, NEW j \in Nat, x <= c,
         NEW K1, K1 = KeysBefore(B, x, common), NEW K2, K2 = KeysFrom(B, x, c, j, common)
  PROVE  K1 \cap K2 = {} /\ K1 \cup K2 = KeysFrom(B, 0, c, j, common)
<1>1. \A p : KeyAt(B, p, common).pos = p
  BY DEF KeyAt
<1>2. (0 .. x - 1) \cup (x .. c + j) = 0 .. c + j /\ (0 .. x - 1) \cap (x .. c + j) = {}
  OBVIOUS
<1> QED BY <1>1, <1>2 DEF KeysBefore, KeysFrom

\* One kernel.
LEMMA PlainIs ==
  ASSUME NEW fm, NEW i, NEW j \in Nat, NEW c \in Nat, NEW n \in Nat, NEW B, NEW common,
         RowGiven(fm, i, c, n, B)
  PROVE  PlainKeys(fm, i, j, common) = KeysFrom(B, 0, c, j, common)
<1> USE DEF RowGiven
<1>1. Causal(fm, fm.seqLens, i, j) = 0 .. c + j
  <2>1. (c + n) - n + j = c + j
    OBVIOUS
  <2> QED BY <2>1 DEF Causal
<1> QED BY <1>1 DEF PlainKeys, KeysBefore, KeysFrom

\* The two kernels of cascade attention.
LEMMA CascadeIs ==
  ASSUME NEW fm, NEW i, NEW j \in Nat, NEW c \in Nat, NEW n \in Nat, NEW B, NEW common \in Nat,
         RowGiven(fm, i, c, n, B), NEW x \in Nat, x = fm.prefix, x <= common, x <= c
  PROVE  /\ PrefixKeys(fm, common) = KeysBefore(B, x, common)
         /\ SuffixKeys(fm, i, j, common) = KeysFrom(B, x, c, j, common)
<1> USE DEF RowGiven
<1>1. x = fm.prefix /\ x <= common /\ x <= c
  OBVIOUS
<1>2. PrefixKeys(fm, common) = KeysBefore(B, x, common)
  <2>1. ASSUME NEW k \in 0 .. x - 1 PROVE KeyAt(fm.blocks[1], k, common) = KeyAt(B, k, common)
    <3>1. k < common
      BY <1>1
    <3> QED BY <3>1 DEF KeyAt
  <2> QED BY <1>1, <2>1 DEF PrefixKeys, KeysBefore, KeysFrom
<1>3. SuffixKeys(fm, i, j, common) = KeysFrom(B, x, c, j, common)
  <2> DEFINE lens == [r \in DOMAIN fm.seqLens |-> fm.seqLens[r] - fm.prefix]
  <2>1. lens[i] = c + n - x
    BY <1>1
  <2>2. SuffixKeys(fm, i, j, common) = {KeyAt(fm.blocks[i], fm.prefix + k, common) : k \in Causal(fm, lens, i, j)}
    BY DEF SuffixKeys
  <2> HIDE DEF lens
  <2>3. Causal(fm, lens, i, j) = 0 .. c - x + j
    <3>1. (c + n - x) - n + j = c - x + j
      BY <1>1
    <3> QED BY <2>1, <3>1 DEF Causal
  <2>4. SuffixKeys(fm, i, j, common) = {KeyAt(B, x + k, common) : k \in 0 .. c - x + j}
    BY <1>1, <2>2, <2>3
  <2>5. \A k \in 0 .. c - x + j : x + k \in x .. c + j
    BY <1>1
  <2>6. \A p \in x .. c + j : p - x \in 0 .. c - x + j /\ x + (p - x) = p
    BY <1>1
  <2> QED BY <1>1, <2>4, <2>5, <2>6 DEF KeysBefore, KeysFrom
<1> QED BY <1>2, <1>3

\* The ranks of context parallelism: all they hold of a context is all of it.
LEMMA ContextIs ==
  ASSUME NEW fm, NEW i, NEW c \in Nat, NEW d \in Nat \ {0}, NEW B, NEW common,
         ContextOf(fm, i, c, d), NEW n, RowGiven(fm, i, c, n, B)
  PROVE  ContextKeys(fm, i, common) = KeysBefore(B, c, common)
<1> USE DEF ContextOf
<1>0. fm.blocks[i] = B
  BY DEF RowGiven
<1> DEFINE M == fm.maxContext
           Held(rank) == {l \in 0 .. M - 1 : l < LocalLen(c, d, rank)}
<1>1. M \in Nat /\ \A rank \in 0 .. d - 1 : fm.context[rank][i] = LocalLen(c, d, rank)
  OBVIOUS
<1>2. \A x : x \in ContextKeys(fm, i, common) <=>
        M # 0 /\ \E rank \in 0 .. d - 1 : \E l \in Held(rank) : x = KeyAt(B, GlobalPos(l, d, rank), common)
  <2> DEFINE Given(rank) == {l \in 0 .. M - 1 : l < fm.context[rank][i]}
  <2>1. ContextKeys(fm, i, common) =
          IF M = 0 THEN {}
          ELSE UNION {{KeyAt(B, GlobalPos(l, d, rank), common) : l \in Given(rank)} : rank \in 0 .. d - 1}
    BY <1>0 DEF ContextKeys
  <2>2. \A rank \in 0 .. d - 1 : Given(rank) = Held(rank)
    BY <1>1
  <2> HIDE DEF M, Given, Held
  <2> QED BY <2>1, <2>2
<1>3. \A rank \in 0 .. d - 1 : \A l \in Held(rank) : GlobalPos(l, d, rank) \in 0 .. c - 1
  <2> SUFFICES ASSUME NEW rank \in 0 .. d - 1, NEW l \in Held(rank)
               PROVE  GlobalPos(l, d, rank) \in 0 .. c - 1
    OBVIOUS
  <2>1. l \in Nat /\ l < LocalLen(c, d, rank)
    BY <1>1
  <2>2. GlobalPos(l, d, rank) < c /\ GlobalPos(l, d, rank) \in Nat
    BY <2>1, LocalLenIs, GlobalPosRank
  <2> QED BY <2>2
<1>4. \A p \in 0 .. c - 1 : M # 0 /\ \E rank \in 0 .. d - 1 : \E l \in Held(rank) : GlobalPos(l, d, rank) = p
  <2> SUFFICES ASSUME NEW p \in 0 .. c - 1
               PROVE  M # 0 /\ \E rank \in 0 .. d - 1 : \E l \in Held(rank) : GlobalPos(l, d, rank) = p
    OBVIOUS
  <2>1. p \in Nat /\ p < c
    OBVIOUS
  <2>2. PICK rank \in 0 .. d - 1 : rank = RankOf(p, d)
    <3>1. PICK I \in Nat \ {0} : I = Interleave
      BY FlashAssumption
    <3>2. p \div I \in Nat
      BY <2>1, DivMod
    <3>3. (p \div I) % d \in 0 .. d - 1
      BY <3>2, DivMod
    <3> QED BY <3>1, <3>3 DEF RankOf
  <2>3. PICK l \in Nat : GlobalPos(l, d, rank) = p
    BY <2>1, <2>2, GlobalPosOnto
  <2>4. LocalLen(c, d, rank) \in Nat /\ l < LocalLen(c, d, rank)
    BY <2>1, <2>3, LocalLenIs
  <2>5. LocalLen(c, d, rank) <= M
    OBVIOUS
  <2>6. M # 0 /\ l \in Held(rank)
    BY <1>1, <2>4, <2>5
  <2> QED BY <2>3, <2>6
<1> HIDE DEF Held, M
<1>5. CASE M = 0
  <2>1. 0 .. c - 1 = {}
    BY <1>4, <1>5
  <2> QED BY <1>2, <1>5, <2>1 DEF KeysBefore, KeysFrom
<1>6. CASE M # 0
  BY <1>2, <1>3, <1>4, <1>6 DEF KeysBefore, KeysFrom
<1> QED BY <1>5, <1>6

\* The longest context of any rank fits in what the kernels are told to read.
LEMMA ContextGiven ==
  ASSUME StepInv, Served, NEW g \in Groups, NEW fm, fm = FlashRead(g),
         NEW i \in 1 .. Len(rows), NEW c \in Nat, c = rows[i].computed, NEW d \in Nat \ {0}, d = config.dcp
  PROVE  ContextOf(fm, i, c, d)
<1>1. PICK size : size = PaddedReqs(rows, key)
  OBVIOUS
<1>2. /\ size \in Nat /\ Len(rows) <= size /\ Len(rows) \in Nat
      /\ Meta.reqs = size /\ Meta.upper \in [1 .. size -> Nat]
      /\ Meta.loc[i] - Meta.loc[i - 1] = rows[i].n
      /\ Meta.seqLens[i] = rows[i].computed + rows[i].n
      /\ Meta.upper[i] = rows[i].optimistic + rows[i].n
  BY <1>1, MetaIs
<1>3. i \in 1 .. size
  BY <1>2
<1>4. PICK n \in Nat \ {0}, o \in Nat : n = rows[i].n /\ o = rows[i].optimistic /\ c <= o
  <2>1. RowFacts(rows[i])
    BY ServedIs DEF Batch
  <2> QED BY <2>1 DEF RowFacts
<1>5. QueryLenOf(Meta, i) = n
  BY <1>2, <1>4 DEF QueryLenOf
<1>6. Meta.seqLens[i] - QueryLenOf(Meta, i) = c
  BY <1>2, <1>4, <1>5
<1>7. /\ fm.context = [rank \in 0 .. d - 1 |->
              [r \in 1 .. Meta.reqs |-> LocalLen(Meta.seqLens[r] - QueryLenOf(Meta, r), d, rank)]]
      /\ fm.maxContext = IF SkipContext(Meta) THEN 0 ELSE MaxContext(Meta, d)
      /\ fm.dcp = d
  BY FlashIs
<1>8. \A rank \in 0 .. d - 1 : fm.context[rank][i] = LocalLen(c, d, rank)
  <2> SUFFICES ASSUME NEW rank \in 0 .. d - 1 PROVE fm.context[rank][i] = LocalLen(c, d, rank)
    OBVIOUS
  <2>1. fm.context[rank] = [r \in 1 .. Meta.reqs |-> LocalLen(Meta.seqLens[r] - QueryLenOf(Meta, r), d, rank)]
    BY <1>7
  <2>2. fm.context[rank][i] = LocalLen(Meta.seqLens[i] - QueryLenOf(Meta, i), d, rank)
    BY <1>2, <1>3, <2>1
  <2> QED BY <1>6, <2>2
<1>9. CASE SkipContext(Meta)
  <2>1. Meta.upper[i] - QueryLenOf(Meta, i) = 0
    BY <1>2, <1>3, <1>9 DEF SkipContext
  <2>2. c = 0
    BY <1>2, <1>4, <1>5, <2>1
  <2>3. fm.maxContext = 0
    BY <1>7, <1>9
  <2>4. ASSUME NEW rank \in 0 .. d - 1 PROVE LocalLen(c, d, rank) <= 0
    <3>1. LocalLen(c, d, rank) \in Nat /\ (0 < LocalLen(c, d, rank) <=> GlobalPos(0, d, rank) < c)
      BY LocalLenIs
    <3>2. GlobalPos(0, d, rank) \in Nat
      BY GlobalPosRank
    <3> QED BY <2>2, <3>1, <3>2
  <2>5. fm.maxContext \in Nat /\ \A rank \in 0 .. d - 1 : LocalLen(c, d, rank) <= fm.maxContext
    BY <2>3, <2>4
  <2> QED BY <1>7, <1>8, <2>5 DEF ContextOf
<1>10. CASE ~SkipContext(Meta)
  <2>1. PICK longest \in Nat : longest = Longest(Meta.upper) /\ Meta.upper[i] <= longest
    BY <1>2, <1>3, LongestIs
  <2>2. c <= longest
    <3>1. PICK u \in Nat : u = Meta.upper[i] /\ u <= longest /\ u = o + n
      BY <1>2, <1>4, <2>1
    <3> QED BY <1>4, <3>1
  <2>3. fm.maxContext = ((longest + d * Interleave - 1) \div (d * Interleave)) * Interleave
    BY <1>7, <1>10, <2>1 DEF MaxContext
  <2>4. fm.maxContext \in Nat
    <3>1. PICK I \in Nat \ {0} : I = Interleave
      BY FlashAssumption
    <3>2. PICK parts \in Nat \ {0} : parts = d * I
      OBVIOUS
    <3>3. PICK a \in Nat : a = longest + parts - 1
      OBVIOUS
    <3>4. a \div parts \in Nat
      BY DivMod
    <3>5. PICK k \in Nat : k = a \div parts
      BY <3>4
    <3>6. k * I \in Nat
      OBVIOUS
    <3> QED BY <2>3, <3>1, <3>2, <3>3, <3>5, <3>6
  <2>5. ASSUME NEW rank \in 0 .. d - 1 PROVE LocalLen(c, d, rank) <= fm.maxContext
    BY <2>2, <2>3, ContextFits
  <2> QED BY <1>7, <1>8, <2>4, <2>5 DEF ContextOf
<1> QED BY <1>9, <1>10

\* One row of it.
LEMMA FlashRow ==
  ASSUME StepInv, Served, NEW g \in Groups, NEW fm, fm = FlashRead(g), NEW r \in 1 .. Len(rows)
  PROVE  /\ fm.loc[r] - fm.loc[r - 1] = rows[r].n
         /\ fm.seqLens[r] = rows[r].computed + rows[r].n
         /\ fm.blocks[r] = Blocks(g, rows[r].req) /\ r \in DOMAIN fm.seqLens
<1>1. PICK size : size = PaddedReqs(rows, key)
  OBVIOUS
<1>2. /\ size \in Nat /\ Len(rows) <= size /\ Len(rows) \in Nat /\ DOMAIN Meta.seqLens = 1 .. size
      /\ Meta.loc[r] - Meta.loc[r - 1] = rows[r].n
      /\ Meta.seqLens[r] = rows[r].computed + rows[r].n
      /\ Meta.blocks[g][r] = Blocks(g, rows[r].req)
  BY <1>1, MetaIs
<1>3. fm.loc = Meta.loc /\ fm.seqLens = Meta.seqLens /\ fm.blocks = Meta.blocks[g]
  BY FlashIs
<1>4. r \in 1 .. size
  BY <1>2
<1> QED BY <1>2, <1>3, <1>4

\* One query of one row.
LEMMA RowAttends ==
  ASSUME StepInv, Served, NEW g \in Groups, NEW fm, fm = FlashRead(g),
         NEW i \in 1 .. Len(rows), NEW c \in Nat, c = rows[i].computed, NEW n \in Nat, n = rows[i].n,
         NEW j \in Nat, NEW B, B = Blocks(g, rows[i].req), NEW keys, keys = KeysOfKernels(fm, rows, i, j, shared)
  PROVE  keys[1] \cap keys[2] = {} /\ keys[1] \cup keys[2] = KeysFrom(B, 0, c, j, shared)
<1>1. config \in Configs /\ Batch(rows)
  BY ServedIs
<1>2. 1 \in 1 .. Len(rows) /\ Len(rows) \in Nat
  BY <1>1, StepAssumption DEF Batch
<1>3. PICK d \in Nat \ {0} : d = config.dcp
  BY <1>1, StepAssumption
<1>4. fm.group = g /\ fm.prefix = prefix /\ fm.dcp = config.dcp
  BY FlashIs
<1>5. RowGiven(fm, i, c, n, B)
  <2>1. fm.blocks[1] = Blocks(g, rows[1].req)
    BY <1>2, FlashRow
  <2>2. fm.blocks[1].group = B.group
    BY <2>1 DEF Blocks
  <2>3. i \in DOMAIN fm.seqLens
    BY FlashRow
  <2>4. fm.loc[i] - fm.loc[i - 1] = n /\ fm.seqLens[i] = c + n /\ fm.blocks[i] = B
    BY FlashRow
  <2> QED BY <2>2, <2>3, <2>4 DEF RowGiven
<1>6. shared \in Nat /\ prefix \in 0 .. shared /\ (prefix # 0 => d = 1) /\ prefix <= c
  BY <1>3, PrefixComputed
<1>7. PICK K1, K2 : K1 = keys[1] /\ K2 = keys[2]
  OBVIOUS
<1>8. CASE prefix > 0
  <2>1. keys = <<PrefixKeys(fm, shared), SuffixKeys(fm, i, j, shared)>>
    BY <1>4, <1>8 DEF KeysOfKernels
  <2>2. PICK x \in Nat : x = fm.prefix /\ x <= shared /\ x <= c
    BY <1>4, <1>6
  <2>3. /\ PrefixKeys(fm, shared) = KeysBefore(B, x, shared)
        /\ SuffixKeys(fm, i, j, shared) = KeysFrom(B, x, c, j, shared)
    <3>1. PICK s \in Nat : s = shared
      BY <1>6
    <3>2. x = fm.prefix /\ x <= s /\ x <= c
      BY <2>2, <3>1
    <3>3. /\ PrefixKeys(fm, s) = KeysBefore(B, x, s)
          /\ SuffixKeys(fm, i, j, s) = KeysFrom(B, x, c, j, s)
      BY <1>5, <3>2, CascadeIs
    <3> QED BY <3>1, <3>3
  <2>4. K1 = KeysBefore(B, x, shared) /\ K2 = KeysFrom(B, x, c, j, shared)
    BY <1>7, <2>1, <2>3
  <2>5. K1 \cap K2 = {} /\ K1 \cup K2 = KeysFrom(B, 0, c, j, shared)
    BY <2>2, <2>4, KeysUnion
  <2> QED BY <1>7, <2>5
<1>9. CASE prefix = 0 /\ d > 1
  <2>1. keys = <<ContextKeys(fm, i, shared), QueryKeys(fm, rows, i, j, shared)>>
    BY <1>3, <1>4, <1>9 DEF KeysOfKernels
  <2>2. ContextOf(fm, i, c, d)
    BY <1>3, ContextGiven
  <2>3. ContextKeys(fm, i, shared) = KeysBefore(B, c, shared)
    BY <1>5, <2>2, ContextIs
  <2>4. QueryKeys(fm, rows, i, j, shared) = KeysFrom(B, c, c, j, shared)
    <3>1. QueryKeys(fm, rows, i, j, shared) = {KeyAt(B, c + k, shared) : k \in 0 .. j}
      BY <1>4 DEF QueryKeys
    <3>2. \A k \in 0 .. j : c + k \in c .. c + j
      OBVIOUS
    <3>3. \A p \in c .. c + j : p - c \in 0 .. j /\ c + (p - c) = p
      OBVIOUS
    <3> QED BY <3>1, <3>2, <3>3 DEF KeysBefore, KeysFrom
  <2>5. K1 = KeysBefore(B, c, shared) /\ K2 = KeysFrom(B, c, c, j, shared)
    BY <1>7, <2>1, <2>3, <2>4
  <2>6. K1 \cap K2 = {} /\ K1 \cup K2 = KeysFrom(B, 0, c, j, shared)
    <3>1. c <= c
      OBVIOUS
    <3> QED BY <2>5, <3>1, KeysUnion
  <2> QED BY <1>7, <2>6
<1>10. CASE prefix = 0 /\ ~(d > 1)
  <2>1. keys = <<PlainKeys(fm, i, j, shared), {}>>
    BY <1>3, <1>4, <1>10 DEF KeysOfKernels
  <2>2. PlainKeys(fm, i, j, shared) = KeysFrom(B, 0, c, j, shared)
    BY <1>5, PlainIs
  <2> QED BY <2>1, <2>2
<1> QED BY <1>6, <1>8, <1>9, <1>10

\* The kernels of every pass, for either group, show a query its own request's
\* tokens up to itself and no other, each of them once: through the shared blocks
\* of a common prefix, with the keys spread over the ranks of context
\* parallelism, or in one kernel (FlashAttentionImpl.forward).
THEOREM AttentionCorrect == Spec => []AttendsOwnPast
<1>1. StepInv => AttendsOwnPast
  <2> SUFFICES ASSUME StepInv, Served, NEW g \in Groups, NEW i \in Rows, NEW j \in 0 .. rows[i].n - 1
               PROVE  LET keys == KeysOfKernels(FlashRead(g), rows, i, j, shared)
                      IN  /\ keys[1] \cap keys[2] = {}
                          /\ keys[1] \cup keys[2] =
                               KeysFrom(Blocks(g, rows[i].req), 0, rows[i].computed, j, shared)
    BY DEF AttendsOwnPast, KeysFrom
  <2>1. i \in 1 .. Len(rows) /\ Batch(rows)
    BY ServedIs DEF Rows
  <2>2. PICK c \in Nat, n \in Nat \ {0} : c = rows[i].computed /\ n = rows[i].n
    BY <2>1 DEF Batch, RowFacts
  <2>3. j \in Nat
    BY <2>2
  <2>4. PICK B, fm, keys : /\ B = Blocks(g, rows[i].req) /\ fm = FlashRead(g)
                           /\ keys = KeysOfKernels(fm, rows, i, j, shared)
    OBVIOUS
  <2>5. keys[1] \cap keys[2] = {} /\ keys[1] \cup keys[2] = KeysFrom(B, 0, c, j, shared)
    BY <2>1, <2>2, <2>3, <2>4, RowAttends
  <2> QED BY <2>2, <2>4, <2>5
<1> QED BY <1>1, StepInvariant, PTL

-----------------------------------------------------------------------------
(* The rows a mask keeps, and the tokens of a list of rows.                *)

\* Counts have one cumulative sum.
LEMMA CuSumUnique ==
  ASSUME NEW n \in Nat, NEW c \in [1 .. n -> Nat], NEW f, NEW g, IsCuSum(f, c, n), IsCuSum(g, c, n)
  PROVE  f = g
<1>1. \A i \in 1 .. n : c[i] <= c[i]
  OBVIOUS
<1>2. \A i \in 0 .. n : f[i] <= g[i]
  BY <1>1, SumCompare
<1>3. \A i \in 0 .. n : g[i] <= f[i]
  BY <1>1, SumCompare
<1>4. f \in [0 .. n -> Nat] /\ g \in [0 .. n -> Nat]
  BY DEF IsCuSum
<1>5. \A i \in 0 .. n : f[i] = g[i]
  BY <1>2, <1>3, <1>4
<1> QED BY <1>4, <1>5

MaskOf(n, S) == [i \in 1 .. n |-> IF i \in S THEN 1 ELSE 0]

\* Indexing by a mask goes by the mask's running count.
LEMMA WhereBy ==
  ASSUME NEW m, NEW n \in Nat, m.reqs = n, NEW S, NEW cu, cu = CuSum(MaskOf(n, S))
  PROVE  /\ MaskOf(n, S) \in [1 .. n -> Nat] /\ IsCuSum(cu, MaskOf(n, S), n) /\ cu[n] \in Nat
         /\ RowsWhere(m, S) = [k \in 1 .. cu[n] |-> RowAt(cu, k - 1)]
         /\ Len(RowsWhere(m, S)) = cu[n]
<1>1. MaskOf(n, S) \in [1 .. n -> Nat]
  BY DEF MaskOf
<1>2. Len(MaskOf(n, S)) = n
  BY <1>1, LenOfFunction
<1>3. IsCuSum(cu, MaskOf(n, S), n)
  BY <1>1, <1>2, CuSumIs
<1>4. cu[n] \in Nat
  BY <1>3 DEF IsCuSum
<1>5. RowsWhere(m, S) = [k \in 1 .. cu[n] |-> RowAt(cu, k - 1)]
  BY DEF RowsWhere, MaskOf
<1>6. Len(RowsWhere(m, S)) = cu[n]
  <2>1. PICK l \in Nat : l = cu[n]
    BY <1>4
  <2> DEFINE w == RowsWhere(m, S)
  <2>2. w \in [1 .. l -> {w[k] : k \in 1 .. l}]
    BY <1>5, <2>1
  <2>3. Len(w) = l
    BY <2>1, <2>2, LenOfFunction
  <2> QED BY <2>1, <2>3
<1> QED BY <1>1, <1>3, <1>4, <1>5, <1>6

Onto(w, l, S) == \A i \in S : \E k \in 1 .. l : w[k] = i

\* It keeps the rows of the mask, all of them and no others.
LEMMA WhereIs ==
  ASSUME NEW m, NEW n \in Nat, m.reqs = n, NEW S, S \subseteq 1 .. n,
         NEW w, w = RowsWhere(m, S), NEW l, l = Len(w)
  PROVE  /\ l \in Nat /\ w \in [1 .. l -> S]
         /\ Onto(w, l, S)
<1>1. PICK cu : cu = CuSum(MaskOf(n, S))
  OBVIOUS
<1>2. PICK c : c = MaskOf(n, S)
  OBVIOUS
<1>3. /\ c \in [1 .. n -> Nat] /\ IsCuSum(cu, c, n) /\ cu[n] \in Nat
      /\ w = [k \in 1 .. cu[n] |-> RowAt(cu, k - 1)] /\ Len(w) = cu[n]
  BY <1>1, <1>2, WhereBy
<1>4. \A i \in 1 .. n : c[i] = IF i \in S THEN 1 ELSE 0
  BY <1>2 DEF MaskOf
<1>5. ASSUME NEW k \in 1 .. cu[n] PROVE RowAt(cu, k - 1) \in S
  <2>1. k - 1 \in 0 .. cu[n] - 1
    BY <1>3
  <2>2. PICK i \in 1 .. n : i = RowAt(cu, k - 1) /\ Holds(cu, i, k - 1)
    BY <1>3, <2>1, RowAtHolds
  <2>3. cu[i] = cu[i - 1] + c[i] /\ cu[i - 1] \in Nat
    BY <1>3 DEF IsCuSum
  <2>4. c[i] # 0
    BY <1>3, <2>2, <2>3 DEF Holds
  <2> QED BY <1>4, <2>2, <2>4
<1>6. ASSUME NEW i \in S PROVE \E k \in 1 .. cu[n] : w[k] = i
  <2>1. i \in 1 .. n /\ 0 \in 0 .. c[i] - 1
    BY <1>4
  <2>2. cu[i - 1] + 0 \in 0 .. cu[n] - 1 /\ cu[i - 1] \in Nat /\ RowAt(cu, cu[i - 1] + 0) = i
    <3>1. IsPlace(cu, n, i, 0)
      BY <1>3, <2>1, PlaceOf
    <3> QED BY <3>1 DEF IsPlace
  <2>3. PICK x \in Nat : x = cu[i - 1]
    BY <2>2
  <2>4. PICK y \in Nat : y = cu[n]
    BY <1>3
  <2>5. x + 0 = x /\ x + 0 \in 0 .. y - 1
    BY <2>2, <2>3, <2>4
  <2>6. x + 1 \in 1 .. y /\ (x + 1) - 1 = x
    BY <2>5
  <2>7. RowAt(cu, x) = i
    BY <2>2, <2>3, <2>5
  <2> QED BY <1>3, <2>4, <2>6, <2>7
<1> QED BY <1>3, <1>5, <1>6 DEF Onto

\* A mask of leading rows keeps them where they are.
LEMMA WhereLeading ==
  ASSUME NEW m, NEW n \in Nat, m.reqs = n, NEW l \in 0 .. n
  PROVE  RowsWhere(m, 1 .. l) = [k \in 1 .. l |-> k] /\ Len(RowsWhere(m, 1 .. l)) = l
<1>1. PICK cu, c : cu = CuSum(MaskOf(n, 1 .. l)) /\ c = MaskOf(n, 1 .. l)
  OBVIOUS
<1>2. /\ c \in [1 .. n -> Nat] /\ IsCuSum(cu, c, n)
      /\ RowsWhere(m, 1 .. l) = [k \in 1 .. cu[n] |-> RowAt(cu, k - 1)]
      /\ Len(RowsWhere(m, 1 .. l)) = cu[n]
  BY <1>1, WhereBy
<1> DEFINE f == [i \in 0 .. n |-> IF i <= l THEN i ELSE l]
<1>3. IsCuSum(f, c, n)
  <2>1. f \in [0 .. n -> Nat] /\ f[0] = 0
    OBVIOUS
  <2>2. \A i \in 1 .. n : f[i] = f[i - 1] + c[i]
    BY <1>1 DEF MaskOf
  <2> QED BY <2>1, <2>2 DEF IsCuSum
<1>4. f[n] = l /\ \A i \in 1 .. l : i \in 1 .. n /\ f[i - 1] = i - 1 /\ f[i] = i
  OBVIOUS
<1> HIDE DEF f
<1>5. cu = f
  BY <1>2, <1>3, CuSumUnique
<1>6. ASSUME NEW k \in 1 .. l PROVE RowAt(f, k - 1) = k
  <2>1. k \in 1 .. n /\ k - 1 \in Int /\ Holds(f, k, k - 1)
    BY <1>4 DEF Holds
  <2> QED BY <1>2, <1>3, <2>1, RowAtIs
<1> QED BY <1>2, <1>4, <1>5, <1>6

-----------------------------------------------------------------------------
(* The recurrent layers: what their builder is given, and its lists.       *)

Width(b, i) == IF i <= Len(b) THEN b[i].n ELSE 0

DecodesOver(row) == Listed(row) /\ row.n = row.drafts + 1

\* The common metadata m of a batch b padded to size rows.
GdnGiven(m, b, size) ==
  /\ size \in Nat /\ Len(b) <= size /\ m.reqs = size
  /\ m.loc \in [0 .. size -> Nat] /\ m.loc[0] = 0
  /\ \A i \in 1 .. size : m.loc[i] = m.loc[i - 1] + Width(b, i)
  /\ \A i \in 0 .. Len(b) : m.loc[i] = CuSum(Scheduled(b))[i]
  /\ m.loc[size] = Count(b)
  /\ DOMAIN m.state = 1 .. size /\ Len(m.state) = size
  /\ \A i \in 1 .. size : m.state[i] = IF i <= Len(b) THEN b[i].req ELSE Null
  /\ \A i \in 1 .. Len(b) : m.seqLens[i] = b[i].computed + b[i].n
  /\ \A i \in 1 .. size : m.drafts[i] = IF i <= Len(b) /\ DecodesOver(b[i]) THEN b[i].drafts ELSE -1
  /\ \A i \in 1 .. Len(b) : m.accepted[i] = b[i].accepted
  /\ m.listed = UseSpecDecode(b)

\* The last step's is that of its batch.
LEMMA GdnMetaIs ==
  ASSUME StepInv, Served, NEW size, size = PaddedReqs(rows, key)
  PROVE  GdnGiven(Meta, rows, size)
<1>1. /\ config \in Configs /\ Batch(rows)
      /\ key = DispatchTo(Count(rows), IsUniform(rows, QueryLen), Allowed(prefix = 0))
      /\ \A i \in 1 .. size : blockRow[i] = IF i <= Len(rows) THEN rows[i].req ELSE Null
  BY ServedIs
<1>2. size \in Nat /\ Len(rows) <= size
  BY <1>1, PaddedBatch
<1>3. Len(rows) \in Nat \ {0} /\ \A i \in 1 .. Len(rows) : RowFacts(rows[i])
  BY <1>1 DEF Batch
<1>4. /\ Meta.reqs = size /\ Meta.loc = StartLoc(rows, size)
      /\ Meta.seqLens = SeqLens(rows, size) /\ Meta.state = [i \in 1 .. size |-> blockRow[i]]
      /\ Meta.drafts = DecodeDrafts(rows, size) /\ Meta.listed = UseSpecDecode(rows)
      /\ Meta.accepted = [i \in 1 .. size |-> IF i <= Len(rows) THEN rows[i].accepted ELSE 1]
  BY DEF Meta, Metadata
<1>5. PICK L, cu : L = Len(rows) /\ cu = CuSum(Scheduled(rows)) /\ L \in Nat \ {0}
  BY <1>3
<1>6. IsCuSum(cu, Scheduled(rows), L) /\ cu \in [0 .. L -> Nat] /\ cu[0] = 0
  BY <1>1, <1>5, BatchSums DEF IsCuSum
<1>7. Meta.loc = [i \in 0 .. size |-> IF i <= L THEN cu[i] ELSE cu[L]]
  BY <1>4, <1>5 DEF StartLoc
<1>8. Meta.loc \in [0 .. size -> Nat] /\ Meta.loc[0] = 0 /\ \A i \in 0 .. L : Meta.loc[i] = cu[i]
  <2>1. L \in Nat /\ size \in Nat /\ L <= size /\ \A i \in 0 .. L : cu[i] \in Nat
    BY <1>2, <1>5, <1>6
  <2>2. \A i \in 0 .. size : (IF i <= L THEN cu[i] ELSE cu[L]) \in Nat
    BY <2>1
  <2> QED BY <1>6, <1>7, <2>1, <2>2
<1>9. ASSUME NEW i \in 1 .. size PROVE Meta.loc[i] = Meta.loc[i - 1] + Width(rows, i)
  <2>1. CASE i <= L
    <3>1. i \in 1 .. L /\ i - 1 \in 0 .. size /\ i - 1 <= L
      BY <1>2, <1>5, <2>1
    <3>2. cu[i] = cu[i - 1] + rows[i].n
      BY <1>1, <1>5, <3>1, RowCounts
    <3> QED BY <1>5, <1>7, <2>1, <3>1, <3>2 DEF Width
  <2>2. CASE ~(i <= L)
    <3>1. i - 1 \in 0 .. size /\ (i - 1 <= L => i - 1 = L) /\ L \in 0 .. L
      BY <1>2, <1>5, <2>2
    <3>2. Meta.loc[i] = cu[L] /\ Meta.loc[i - 1] = cu[L] /\ cu[L] \in Nat
      BY <1>6, <1>7, <2>2, <3>1
    <3> QED BY <1>5, <2>2, <3>2 DEF Width
  <2> QED BY <2>1, <2>2
<1>10. /\ DOMAIN Meta.state = 1 .. size
       /\ \A i \in 1 .. size : Meta.state[i] = IF i <= Len(rows) THEN rows[i].req ELSE Null
  BY <1>1, <1>4
<1>11. Len(Meta.state) = size
  <2>1. Meta.state \in [1 .. size -> {blockRow[i] : i \in 1 .. size}]
    BY <1>4
  <2> QED BY <1>2, <2>1, LenOfFunction
<1>12. \A i \in 1 .. Len(rows) : i \in 1 .. size /\ i <= Len(rows)
  BY <1>2, <1>3
<1>13. /\ \A i \in 1 .. Len(rows) : Meta.seqLens[i] = rows[i].computed + rows[i].n
       /\ \A i \in 1 .. Len(rows) : Meta.accepted[i] = rows[i].accepted
  BY <1>4, <1>12 DEF SeqLens
<1>14. \A i \in 1 .. size : Meta.drafts[i] = IF i <= Len(rows) /\ DecodesOver(rows[i])
                                             THEN rows[i].drafts ELSE -1
  BY <1>4 DEF DecodeDrafts, DecodesOver
<1>15. Meta.loc[size] = Count(rows)
  <2>1. Count(rows) = cu[L]
    BY <1>1, <1>5, CountIs
  <2>2. size \in 0 .. size /\ (size <= L => size = L)
    BY <1>2, <1>5
  <2> QED BY <1>7, <2>1, <2>2
<1> QED BY <1>2, <1>4, <1>5, <1>8, <1>9, <1>10, <1>11, <1>13, <1>14, <1>15 DEF GdnGiven

\* A list w of rows of the batch.
ListOf(w, l, b) == l \in Nat /\ Len(w) = l /\ w \in [1 .. l -> 1 .. Len(b)]

\* What the builder's tensors say of it: the k-th sequence is its k-th row.
LEMMA ListIs ==
  ASSUME NEW b, Batch(b), NEW size, NEW m, GdnGiven(m, b, size), NEW w, NEW l, ListOf(w, l, b)
  PROVE  /\ LocOf(m, w) \in [0 .. l -> Nat] /\ LocOf(m, w)[0] = 0
         /\ DOMAIN TokensOf(m, w) = 0 .. LocOf(m, w)[l] - 1
         /\ \A k \in 1 .. l :
              /\ LocOf(m, w)[k] = LocOf(m, w)[k - 1] + b[w[k]].n
              /\ Chosen(m.state, w)[k] = w[k] /\ Chosen(m.accepted, w)[k] = b[w[k]].accepted
              /\ HasContext(m, w)[k] = (b[w[k]].computed > 0)
              /\ \A j \in 0 .. b[w[k]].n - 1 :
                   /\ LocOf(m, w)[k - 1] + j \in 0 .. LocOf(m, w)[l] - 1
                   /\ TokensOf(m, w)[LocOf(m, w)[k - 1] + j] = CuSum(Scheduled(b))[w[k] - 1] + j
<1>1. /\ l \in Nat /\ Len(w) = l /\ w \in [1 .. l -> 1 .. Len(b)] /\ Len(b) \in Nat
      /\ size \in Nat /\ Len(b) <= size
  <2>1. size \in Nat /\ Len(b) <= size
    BY DEF GdnGiven
  <2>2. Len(b) \in Nat
    BY StepAssumption DEF Batch
  <2> QED BY <2>1, <2>2 DEF ListOf
<1>2. ASSUME NEW i \in 1 .. Len(b)
      PROVE  /\ QueryLenOf(m, i) = b[i].n /\ b[i].n \in Nat \ {0} /\ b[i].computed \in Nat
             /\ m.loc[i - 1] = CuSum(Scheduled(b))[i - 1] /\ m.loc[i - 1] \in Nat
             /\ m.state[i] = i /\ m.accepted[i] = b[i].accepted
             /\ m.seqLens[i] = b[i].computed + b[i].n
  <2>1. i \in 1 .. size /\ i <= Len(b) /\ i - 1 \in 0 .. Len(b) /\ i - 1 \in 0 .. size
    BY <1>1
  <2>2. b[i].n \in Nat \ {0} /\ b[i].computed \in Nat /\ b[i].req = i
    BY DEF Batch, RowFacts
  <2>3. /\ m.loc[i] = m.loc[i - 1] + b[i].n /\ m.loc[i - 1] \in Nat
        /\ m.loc[i - 1] = CuSum(Scheduled(b))[i - 1] /\ m.state[i] = b[i].req
        /\ m.accepted[i] = b[i].accepted /\ m.seqLens[i] = b[i].computed + b[i].n
    BY <2>1 DEF GdnGiven, Width
  <2> QED BY <2>2, <2>3 DEF QueryLenOf
<1> DEFINE counts == [k \in 1 .. l |-> QueryLenOf(m, w[k])]
           starts == [k \in 1 .. l |-> m.loc[w[k] - 1]]
<1>3. /\ counts \in [1 .. l -> Nat] /\ starts \in [1 .. l -> Int]
      /\ \A k \in 1 .. l : counts[k] = b[w[k]].n /\ starts[k] = CuSum(Scheduled(b))[w[k] - 1]
  <2>1. ASSUME NEW k \in 1 .. l
        PROVE  /\ counts[k] = b[w[k]].n /\ starts[k] = CuSum(Scheduled(b))[w[k] - 1]
               /\ counts[k] \in Nat /\ starts[k] \in Int
    <3>1. PICK r \in 1 .. Len(b) : r = w[k]
      BY <1>1
    <3>2. /\ QueryLenOf(m, r) = b[r].n /\ b[r].n \in Nat
          /\ m.loc[r - 1] = CuSum(Scheduled(b))[r - 1] /\ m.loc[r - 1] \in Nat
      BY <1>2
    <3> QED BY <3>1, <3>2
  <2> QED BY <2>1
<1>4. LocOf(m, w) = CuSum(counts) /\ TokensOf(m, w) = RepeatArange(starts, counts)
  BY <1>1 DEF LocOf, TokensOf
<1> HIDE DEF counts, starts
<1>5. Len(counts) = l
  BY <1>1, <1>3, LenOfFunction
<1>6. IsCuSum(CuSum(counts), counts, l)
  BY <1>1, <1>3, <1>5, CuSumIs
<1>7. /\ DOMAIN RepeatArange(starts, counts) = 0 .. CuSum(counts)[l] - 1
      /\ \A i \in 1 .. l : \A j \in 0 .. counts[i] - 1 :
           /\ CuSum(counts)[i - 1] + j \in 0 .. CuSum(counts)[l] - 1
           /\ RepeatArange(starts, counts)[CuSum(counts)[i - 1] + j] = starts[i] + j
  BY <1>1, <1>3, <1>5, RepeatArangeIs
<1>8. LocOf(m, w) \in [0 .. l -> Nat] /\ LocOf(m, w)[0] = 0
      /\ \A k \in 1 .. l : LocOf(m, w)[k] = LocOf(m, w)[k - 1] + counts[k]
  BY <1>4, <1>6 DEF IsCuSum
<1>9. ASSUME NEW k \in 1 .. l
      PROVE  /\ LocOf(m, w)[k] = LocOf(m, w)[k - 1] + b[w[k]].n
             /\ Chosen(m.state, w)[k] = w[k] /\ Chosen(m.accepted, w)[k] = b[w[k]].accepted
             /\ HasContext(m, w)[k] = (b[w[k]].computed > 0)
             /\ \A j \in 0 .. b[w[k]].n - 1 :
                  /\ LocOf(m, w)[k - 1] + j \in 0 .. LocOf(m, w)[l] - 1
                  /\ TokensOf(m, w)[LocOf(m, w)[k - 1] + j] = CuSum(Scheduled(b))[w[k] - 1] + j
  <2>1. PICK r \in 1 .. Len(b) : r = w[k]
    BY <1>1
  <2>2. /\ QueryLenOf(m, r) = b[r].n /\ b[r].n \in Nat \ {0} /\ b[r].computed \in Nat
        /\ m.state[r] = r /\ m.accepted[r] = b[r].accepted
        /\ m.seqLens[r] = b[r].computed + b[r].n
    BY <1>2
  <2>3. counts[k] = b[r].n /\ starts[k] = CuSum(Scheduled(b))[r - 1]
    BY <1>3, <2>1
  <2>4. Chosen(m.state, w)[k] = r /\ Chosen(m.accepted, w)[k] = b[r].accepted
    BY <1>1, <2>1, <2>2 DEF Chosen
  <2>5. HasContext(m, w)[k] = (b[r].computed > 0)
    <3>1. HasContext(m, w)[k] = (m.seqLens[r] - QueryLenOf(m, r) > 0)
      BY <1>1, <2>1 DEF HasContext
    <3>2. m.seqLens[r] - QueryLenOf(m, r) = b[r].computed
      BY <2>2
    <3> QED BY <3>1, <3>2
  <2>6. \A j \in 0 .. b[r].n - 1 :
          /\ LocOf(m, w)[k - 1] + j \in 0 .. LocOf(m, w)[l] - 1
          /\ TokensOf(m, w)[LocOf(m, w)[k - 1] + j] = CuSum(Scheduled(b))[r - 1] + j
    BY <1>4, <1>7, <2>3
  <2> QED BY <1>8, <2>1, <2>3, <2>4, <2>5, <2>6
<1> QED BY <1>4, <1>7, <1>8, <1>9

-----------------------------------------------------------------------------
(* The sequences the kernels run.                                          *)

Fresh(b) == {b[i].req : i \in {i \in 1 .. Len(b) : b[i].computed = 0}}

LoadOf(b, r) == From(b[r].req, b[r].accepted - 1, Fresh(b))

\* The sequence that row r is, and those of a set of rows.
SequenceOf(b, r) ==
  [tokens |-> [j \in 1 .. b[r].n |-> CuSum(Scheduled(b))[r - 1] + j - 1], load |-> LoadOf(b, r)]

SequencesOf(b, R) == {SequenceOf(b, r) : r \in R}

\* A request is fresh when nothing of it is computed.
LEMMA FreshIs ==
  ASSUME NEW b, Batch(b), NEW r \in 1 .. Len(b)
  PROVE  r \in Fresh(b) <=> b[r].computed = 0
<1>1. \A i \in 1 .. Len(b) : b[i].req = i
  BY DEF Batch
<1> QED BY <1>1 DEF Fresh

\* A row that accepted no drafts starts from the state after its last token.
LEMMA PlainLoad ==
  ASSUME NEW b, Batch(b), NEW r \in 1 .. Len(b), b[r].accepted = 1
  PROVE  /\ LoadOf(b, r) = From(r, 0, Fresh(b))
         /\ LoadOf(b, r) = IF b[r].computed > 0 THEN From(r, 0, Fresh(b)) ELSE Zero
<1>1. b[r].req = r /\ b[r].computed \in Nat
  BY DEF Batch, RowFacts
<1>2. LoadOf(b, r) = From(r, 0, Fresh(b))
  BY <1>1 DEF LoadOf
<1>3. ~(b[r].computed > 0) => r \in Fresh(b)
  BY <1>1, FreshIs
<1> QED BY <1>2, <1>3 DEF From

\* The sequence at place i of a kernel's arguments is row r.
IsRow(places, loc, tokens, loads, i, b, r) ==
  /\ places[i] # Null /\ loads[i] = LoadOf(b, r)
  /\ loc[i - 1] \in Nat /\ loc[i] = loc[i - 1] + b[r].n
  /\ \A j \in 0 .. b[r].n - 1 :
       loc[i - 1] + j \in DOMAIN tokens /\ tokens[loc[i - 1] + j] = CuSum(Scheduled(b))[r - 1] + j

\* What place i comes to.
RunAt(loc, tokens, loads, i) ==
  [tokens |-> [j \in 1 .. loc[i] - loc[i - 1] |->
                 IF loc[i - 1] + j - 1 \in DOMAIN tokens THEN tokens[loc[i - 1] + j - 1] ELSE Stale],
   load |-> loads[i]]

\* The place of a row runs that row's sequence.
LEMMA RunIsRow ==
  ASSUME NEW b, Batch(b), NEW r \in 1 .. Len(b), NEW places, NEW loc, NEW tokens, NEW loads, NEW i,
         IsRow(places, loc, tokens, loads, i, b, r)
  PROVE  loc[i] > loc[i - 1] /\ RunAt(loc, tokens, loads, i) = SequenceOf(b, r)
<1>1. PICK n \in Nat \ {0}, s \in Nat, x \in Nat :
        n = b[r].n /\ s = CuSum(Scheduled(b))[r - 1] /\ x = loc[i - 1]
  <2>1. b[r].n \in Nat \ {0}
    BY DEF Batch, RowFacts
  <2>2. CuSum(Scheduled(b))[r - 1] \in Nat
    BY RowCounts
  <2> QED BY <2>1, <2>2 DEF IsRow
<1>2. /\ loc[i] = x + n /\ loads[i] = LoadOf(b, r)
      /\ \A j \in 0 .. n - 1 : x + j \in DOMAIN tokens /\ tokens[x + j] = s + j
  BY <1>1 DEF IsRow
<1>3. loc[i] - loc[i - 1] = n /\ loc[i] > loc[i - 1]
  BY <1>1, <1>2
<1>4. ASSUME NEW j \in 1 .. n
      PROVE  (IF loc[i - 1] + j - 1 \in DOMAIN tokens THEN tokens[loc[i - 1] + j - 1] ELSE Stale) = s + j - 1
  <2>1. PICK k \in 0 .. n - 1 : k = j - 1
    OBVIOUS
  <2>2. loc[i - 1] + j - 1 = x + k /\ s + j - 1 = s + k
    BY <1>1, <2>1
  <2> QED BY <1>2, <2>1, <2>2
<1>5. [j \in 1 .. loc[i] - loc[i - 1] |->
         IF loc[i - 1] + j - 1 \in DOMAIN tokens THEN tokens[loc[i - 1] + j - 1] ELSE Stale]
        = [j \in 1 .. b[r].n |-> CuSum(Scheduled(b))[r - 1] + j - 1]
  BY <1>1, <1>3, <1>4
<1> QED BY <1>2, <1>3, <1>5 DEF RunAt, SequenceOf

\* A kernel whose places K are rows, the other places empty, runs those rows.
LEMMA RunsAre ==
  ASSUME NEW b, Batch(b), NEW places, NEW loc, NEW tokens, NEW loads,
         NEW K, K \subseteq DOMAIN loads, NEW pick,
         \A i \in K : pick[i] \in 1 .. Len(b) /\ IsRow(places, loc, tokens, loads, i, b, pick[i]),
         \A i \in (DOMAIN loads) \ K : places[i] = Null
  PROVE  RunSequences(places, loc, tokens, loads) = SequencesOf(b, {pick[i] : i \in K})
<1> DEFINE Live == {i \in DOMAIN loads : places[i] # Null /\ loc[i] > loc[i - 1]}
<1>1. RunSequences(places, loc, tokens, loads) = {RunAt(loc, tokens, loads, i) : i \in Live}
  BY DEF RunSequences, RunAt
<1>2. ASSUME NEW i \in K
      PROVE  i \in Live /\ RunAt(loc, tokens, loads, i) = SequenceOf(b, pick[i])
  <2>1. IsRow(places, loc, tokens, loads, i, b, pick[i]) /\ pick[i] \in 1 .. Len(b)
    OBVIOUS
  <2>2. loc[i] > loc[i - 1] /\ RunAt(loc, tokens, loads, i) = SequenceOf(b, pick[i])
    BY <2>1, RunIsRow
  <2>3. places[i] # Null
    BY <2>1 DEF IsRow
  <2> QED BY <2>2, <2>3
<1>3. Live = K
  BY <1>2
<1> HIDE DEF Live
<1>4. RunSequences(places, loc, tokens, loads) = {SequenceOf(b, pick[i]) : i \in K}
  BY <1>1, <1>2, <1>3
<1> QED BY <1>4 DEF SequencesOf

-----------------------------------------------------------------------------
(* The kernels beside those of speculative decoding.                       *)

\* The k-th sequence of the metadata, among l, is row r, which accepted no drafts.
PlaceIs(md, b, k, r) ==
  /\ r \in 1 .. Len(b) /\ b[r].accepted = 1 /\ md.slots[k] = r
  /\ md.loc[k - 1] \in Nat /\ md.loc[k] = md.loc[k - 1] + b[r].n
  /\ \A j \in 0 .. b[r].n - 1 :
       /\ md.loc[k - 1] + j \in DOMAIN md.tokens
       /\ md.tokens[md.loc[k - 1] + j] = CuSum(Scheduled(b))[r - 1] + j
  /\ md.prefills > 0 => md.initial[k] = (b[r].computed > 0)
  /\ k <= md.decodes => b[r].n = 1 /\ (md.prefills = 0 => CuSum(Scheduled(b))[r - 1] = k - 1)

\* The places K of the metadata hold rows, decodes first; the others are empty,
\* which only happens where there are no prefills.
Lists(md, b, l, K, pick) ==
  /\ l \in Nat /\ DOMAIN md.slots = 1 .. l /\ Len(md.slots) = l
  /\ md.decodes \in Nat /\ md.prefills \in Nat /\ md.decodes + md.prefills = l
  /\ md.decodes > 0 => md.specs = 0
  /\ K \subseteq 1 .. l /\ \A k \in (1 .. l) \ K : md.slots[k] = Null
  /\ \A k \in K : PlaceIs(md, b, k, pick[k])
  /\ md.prefills > 0 =>
       /\ K = 1 .. l /\ \E n \in Nat : DOMAIN md.tokens = 0 .. n - 1
       /\ md.loc[0] = 0 /\ \A i \in 0 .. l : md.loc[i] \in Nat
       /\ \A i, j \in 0 .. l : i <= j => md.loc[i] <= md.loc[j]

\* A place with the right load is a row to any kernel.
LEMMA PlaceIsRow ==
  ASSUME NEW b, Batch(b), NEW md, NEW k, NEW r, PlaceIs(md, b, k, r), NEW loads, loads[k] = LoadOf(b, r)
  PROVE  IsRow(md.slots, md.loc, md.tokens, loads, k, b, r)
<1>1. md.slots[k] # Null
  BY DEF PlaceIs, Null
<1> QED BY <1>1 DEF PlaceIs, IsRow

\* Loads by place: from its slot, or from zero where nothing is computed.
LEMMA PlaceLoads ==
  ASSUME NEW b, Batch(b), NEW md, NEW k, NEW r, PlaceIs(md, b, k, r)
  PROVE  /\ From(md.slots[k], 0, Fresh(b)) = LoadOf(b, r)
         /\ md.prefills > 0 => LoadOf(b, r) = IF md.initial[k] THEN From(md.slots[k], 0, Fresh(b)) ELSE Zero
<1>1. r \in 1 .. Len(b) /\ b[r].accepted = 1 /\ md.slots[k] = r
      /\ (md.prefills > 0 => md.initial[k] = (b[r].computed > 0))
  BY DEF PlaceIs
<1>2. /\ LoadOf(b, r) = From(r, 0, Fresh(b))
      /\ LoadOf(b, r) = IF b[r].computed > 0 THEN From(r, 0, Fresh(b)) ELSE Zero
  BY <1>1, PlainLoad
<1> QED BY <1>1, <1>2

\* One token and one state index per row, without offsets.
LEMMA PackedAre ==
  ASSUME NEW b, Batch(b), NEW md, NEW l, NEW K, NEW pick, Lists(md, b, l, K, pick), md.prefills = 0
  PROVE  PackedSequences(md, Fresh(b)) = SequencesOf(b, {pick[k] : k \in K})
<1> DEFINE Live == {i \in 1 .. md.decodes : md.slots[i] # Null}
           One(i) == [tokens |-> <<i - 1>>, load |-> From(md.slots[i], 0, Fresh(b))]
<1>1. PackedSequences(md, Fresh(b)) = {One(i) : i \in Live}
  BY DEF PackedSequences
<1>2. l \in Nat /\ md.decodes = l /\ K \subseteq 1 .. l
      /\ (\A k \in (1 .. l) \ K : md.slots[k] = Null) /\ (\A k \in K : PlaceIs(md, b, k, pick[k]))
  BY DEF Lists
<1>3. ASSUME NEW k \in K PROVE md.slots[k] # Null /\ One(k) = SequenceOf(b, pick[k])
  <2>1. PICK r : r = pick[k]
    OBVIOUS
  <2>2. PlaceIs(md, b, k, r) /\ k \in 1 .. l /\ k \in Nat /\ k <= md.decodes
    BY <1>2, <2>1
  <2>3. /\ md.slots[k] # Null /\ b[r].n = 1 /\ CuSum(Scheduled(b))[r - 1] = k - 1
    BY <2>2 DEF PlaceIs, Null
  <2>4. From(md.slots[k], 0, Fresh(b)) = LoadOf(b, r)
    BY <2>2, PlaceLoads
  <2>5. [j \in 1 .. b[r].n |-> CuSum(Scheduled(b))[r - 1] + j - 1] = <<k - 1>>
    <3>1. [j \in 1 .. 1 |-> (k - 1) + j - 1] = <<k - 1>>
      <4>1. \A j \in 1 .. 1 : (k - 1) + j - 1 = k - 1
        BY <2>2
      <4>2. <<k - 1>> = [j \in 1 .. 1 |-> k - 1]
        OBVIOUS
      <4> QED BY <4>1, <4>2
    <3> QED BY <2>3, <3>1
  <2> QED BY <2>1, <2>3, <2>4, <2>5 DEF SequenceOf
<1>4. Live = K
  BY <1>2, <1>3
<1> HIDE DEF Live, One
<1>5. PackedSequences(md, Fresh(b)) = {SequenceOf(b, pick[k]) : k \in K}
  BY <1>1, <1>3, <1>4
<1> QED BY <1>5 DEF SequencesOf

\* The convolution: everything in one kernel where there are prefills.
LEMMA ConvAre ==
  ASSUME NEW b, Batch(b), NEW md, NEW l, NEW K, NEW pick, Lists(md, b, l, K, pick)
  PROVE  ConvSequences(md, Fresh(b)) =
           SpecSequences(md, Fresh(b)) \cup SequencesOf(b, {pick[k] : k \in K})
<1>1. CASE md.prefills > 0
  <2> DEFINE loads == [i \in DOMAIN md.slots |-> IF md.initial[i] THEN From(md.slots[i], 0, Fresh(b)) ELSE Zero]
  <2>1. ConvSequences(md, Fresh(b)) =
          SpecSequences(md, Fresh(b)) \cup RunSequences(md.slots, md.loc, md.tokens, loads)
    BY <1>1 DEF ConvSequences
  <2>2. K = DOMAIN md.slots /\ \A k \in K : PlaceIs(md, b, k, pick[k])
    BY <1>1 DEF Lists
  <2>3. DOMAIN loads = K /\ \A k \in K : loads[k] = IF md.initial[k] THEN From(md.slots[k], 0, Fresh(b)) ELSE Zero
    BY <2>2
  <2> HIDE DEF loads
  <2>4. ASSUME NEW k \in K
        PROVE  pick[k] \in 1 .. Len(b) /\ IsRow(md.slots, md.loc, md.tokens, loads, k, b, pick[k])
    <3>1. PICK r : r = pick[k] /\ PlaceIs(md, b, k, r)
      BY <2>2
    <3>2. loads[k] = LoadOf(b, r)
      BY <1>1, <2>3, <3>1, PlaceLoads
    <3>3. IsRow(md.slots, md.loc, md.tokens, loads, k, b, r)
      BY <3>1, <3>2, PlaceIsRow
    <3> QED BY <3>1, <3>3 DEF PlaceIs
  <2>5. K \subseteq DOMAIN loads /\ \A k \in (DOMAIN loads) \ K : md.slots[k] = Null
    BY <2>3
  <2>6. RunSequences(md.slots, md.loc, md.tokens, loads) = SequencesOf(b, {pick[k] : k \in K})
    BY <2>4, <2>5, RunsAre
  <2> QED BY <2>1, <2>6
<1>2. CASE ~(md.prefills > 0)
  <2>1. md.prefills = 0
    BY <1>2 DEF Lists
  <2> QED BY <1>2, <2>1, PackedAre DEF ConvSequences
<1> QED BY <1>1, <1>2

\* The XPU kernel: everything at once.
LEMMA XpuAre ==
  ASSUME NEW b, Batch(b), NEW md, NEW l, NEW K, NEW pick, Lists(md, b, l, K, pick)
  PROVE  XpuSequences(md, Fresh(b)) =
           SpecSequences(md, Fresh(b)) \cup SequencesOf(b, {pick[k] : k \in K})
<1> DEFINE D     == 1 .. IF md.prefills + md.decodes > 0 THEN Len(md.slots) ELSE 0
           loads == [i \in D |-> IF md.prefills > 0 /\ ~md.initial[i] THEN Zero ELSE From(md.slots[i], 0, Fresh(b))]
<1>1. XpuSequences(md, Fresh(b)) =
        SpecSequences(md, Fresh(b)) \cup RunSequences(md.slots, md.loc, md.tokens, loads)
  BY DEF XpuSequences
<1>2. /\ l \in Nat /\ Len(md.slots) = l /\ md.decodes \in Nat /\ md.prefills \in Nat
      /\ md.decodes + md.prefills = l /\ K \subseteq 1 .. l
      /\ (\A k \in (1 .. l) \ K : md.slots[k] = Null) /\ (\A k \in K : PlaceIs(md, b, k, pick[k]))
  BY DEF Lists
<1>3. D = 1 .. l
  BY <1>2
<1> HIDE DEF D
<1>4. DOMAIN loads = 1 .. l
      /\ \A k \in 1 .. l : loads[k] = IF md.prefills > 0 /\ ~md.initial[k] THEN Zero
                                      ELSE From(md.slots[k], 0, Fresh(b))
  BY <1>3
<1> HIDE DEF loads
<1>5. ASSUME NEW k \in K
      PROVE  pick[k] \in 1 .. Len(b) /\ IsRow(md.slots, md.loc, md.tokens, loads, k, b, pick[k])
  <2>1. PICK r : r = pick[k] /\ PlaceIs(md, b, k, r)
    BY <1>2
  <2>2. /\ From(md.slots[k], 0, Fresh(b)) = LoadOf(b, r)
        /\ md.prefills > 0 => LoadOf(b, r) = IF md.initial[k] THEN From(md.slots[k], 0, Fresh(b)) ELSE Zero
    BY <2>1, PlaceLoads
  <2>3. loads[k] = LoadOf(b, r)
    BY <1>2, <1>4, <2>2
  <2>4. IsRow(md.slots, md.loc, md.tokens, loads, k, b, r)
    BY <2>1, <2>3, PlaceIsRow
  <2> QED BY <2>1, <2>4 DEF PlaceIs
<1>6. K \subseteq DOMAIN loads /\ \A k \in (DOMAIN loads) \ K : md.slots[k] = Null
  BY <1>2, <1>4
<1>7. RunSequences(md.slots, md.loc, md.tokens, loads) = SequencesOf(b, {pick[k] : k \in K})
  BY <1>5, <1>6, RunsAre
<1> QED BY <1>1, <1>7

\* What is left of the lists once the decodes are peeled off: rebased.
Rebased(md, d, n) ==
  LET p == PrefillPart(md)
  IN  /\ DOMAIN p.slots = 1 .. md.prefills
      /\ \A i \in 1 .. md.prefills : p.slots[i] = md.slots[i + d] /\ p.initial[i] = md.initial[i + d]
      /\ \A i \in 0 .. md.prefills : p.loc[i] = md.loc[i + d] - n

\* It starts after the last decode, whether there are decodes or not.
LEMMA RebasedIs ==
  ASSUME NEW b, NEW md, NEW l, NEW K, NEW pick, Lists(md, b, l, K, pick), md.prefills > 0
  PROVE  /\ Rebased(md, md.decodes, md.loc[md.decodes])
         /\ md.loc[md.decodes] = IF SplitsDecodes(md) THEN md.loc[md.decodes] ELSE 0
<1>1. /\ l \in Nat /\ DOMAIN md.slots = 1 .. l /\ md.decodes \in Nat /\ md.prefills \in Nat
      /\ md.decodes + md.prefills = l /\ (md.decodes > 0 => md.specs = 0)
      /\ md.loc[0] = 0 /\ \A i \in 0 .. l : md.loc[i] \in Nat
  BY DEF Lists
<1>2. CASE md.decodes = 0
  <2>1. ~SplitsDecodes(md) /\ md.prefills = l
    BY <1>1, <1>2 DEF SplitsDecodes
  <2>2. PICK p : p = PrefillPart(md)
    OBVIOUS
  <2>3. p.slots = md.slots /\ p.loc = md.loc /\ p.initial = md.initial
    BY <2>1, <2>2 DEF PrefillPart
  <2>4. /\ \A i \in 1 .. l : i + 0 = i
        /\ \A i \in 0 .. l : i + 0 = i /\ md.loc[i] = md.loc[i] - 0
    BY <1>1
  <2> QED BY <1>1, <1>2, <2>1, <2>2, <2>3, <2>4 DEF Rebased
<1>3. CASE md.decodes # 0
  <2>1. SplitsDecodes(md)
    BY <1>1, <1>3 DEF SplitsDecodes
  <2>2. PICK p, d : p = PrefillPart(md) /\ d = md.decodes
    OBVIOUS
  <2>3. /\ p.slots = [i \in 1 .. md.prefills |-> md.slots[i + d]]
        /\ p.loc = [i \in 0 .. md.prefills |-> md.loc[i + d] - md.loc[d]]
        /\ p.initial = [i \in 1 .. md.prefills |-> md.initial[i + d]]
    BY <2>1, <2>2 DEF PrefillPart
  <2> QED BY <2>1, <2>2, <2>3 DEF Rebased
<1> QED BY <1>2, <1>3

\* The part peeled off runs its rows.
LEMMA PeeledAre ==
  ASSUME NEW b, Batch(b), NEW md, NEW l, NEW K, NEW pick, Lists(md, b, l, K, pick)
  PROVE  RunSequences(md.slots, md.loc, md.tokens, [i \in 1 .. md.decodes |-> From(md.slots[i], 0, Fresh(b))])
           = SequencesOf(b, {pick[k] : k \in K \cap 1 .. md.decodes})
<1> DEFINE loads == [i \in 1 .. md.decodes |-> From(md.slots[i], 0, Fresh(b))]
           D     == K \cap 1 .. md.decodes
<1>1. /\ l \in Nat /\ md.decodes \in Nat /\ md.prefills \in Nat /\ md.decodes + md.prefills = l
      /\ (\A k \in (1 .. l) \ K : md.slots[k] = Null) /\ (\A k \in K : PlaceIs(md, b, k, pick[k]))
  BY DEF Lists
<1>2. /\ D \subseteq DOMAIN loads /\ \A k \in DOMAIN loads : loads[k] = From(md.slots[k], 0, Fresh(b))
      /\ D \subseteq K
  OBVIOUS
<1>3. \A k \in (DOMAIN loads) \ D : md.slots[k] = Null
  <2>1. \A k \in 1 .. md.decodes : k \in 1 .. l
    BY <1>1
  <2> QED BY <1>1, <2>1
<1> HIDE DEF loads, D
<1>4. ASSUME NEW k \in D
      PROVE  pick[k] \in 1 .. Len(b) /\ IsRow(md.slots, md.loc, md.tokens, loads, k, b, pick[k])
  <2>1. PICK r : r = pick[k] /\ PlaceIs(md, b, k, r)
    BY <1>1, <1>2
  <2>2. From(md.slots[k], 0, Fresh(b)) = LoadOf(b, r)
    BY <2>1, PlaceLoads
  <2>3. loads[k] = LoadOf(b, r)
    BY <1>2, <2>2
  <2>4. IsRow(md.slots, md.loc, md.tokens, loads, k, b, r)
    BY <2>1, <2>3, PlaceIsRow
  <2> QED BY <2>1, <2>4 DEF PlaceIs
<1>5. RunSequences(md.slots, md.loc, md.tokens, loads) = SequencesOf(b, {pick[k] : k \in D})
  BY <1>2, <1>3, <1>4, RunsAre
<1> QED BY <1>5 DEF loads, D

\* An index into what is left after the first f, and back.
LEMMA ShiftIn ==
  ASSUME NEW N \in Nat, NEW f \in Nat, NEW x \in Nat, NEW z \in Nat, f <= x, x + z \in 0 .. N - 1
  PROVE  (x - f) + z \in 0 .. N - f - 1 /\ ((x - f) + z) + f = x + z
  OBVIOUS

\* The arguments of the chunk kernel.
ChunkLoads(p, fresh) ==
  [i \in DOMAIN p.slots |-> IF p.initial[i] THEN From(p.slots[i], 0, fresh) ELSE Zero]
ChunkTokens(md, first) ==
  [t \in 0 .. Cardinality(DOMAIN md.tokens) - first - 1 |-> md.tokens[t + first]]

\* And so do the prefills, whose offsets and tokens start over.
LEMMA RebasedAre ==
  ASSUME NEW b, Batch(b), NEW md, NEW l, NEW K, NEW pick, Lists(md, b, l, K, pick), md.prefills > 0
  PROVE  RunSequences(PrefillPart(md).slots, PrefillPart(md).loc, ChunkTokens(md, md.loc[md.decodes]),
                      ChunkLoads(PrefillPart(md), Fresh(b)))
           = SequencesOf(b, {pick[i + md.decodes] : i \in 1 .. md.prefills})
<1>14. PICK p, first, loads, shift :
         /\ p = PrefillPart(md) /\ first = md.loc[md.decodes]
         /\ loads = ChunkLoads(p, Fresh(b)) /\ shift = ChunkTokens(md, first)
  OBVIOUS
<1>0. /\ DOMAIN loads = DOMAIN p.slots
      /\ \A i \in DOMAIN p.slots :
           loads[i] = IF p.initial[i] THEN From(p.slots[i], 0, Fresh(b)) ELSE Zero
      /\ shift = [t \in 0 .. Cardinality(DOMAIN md.tokens) - first - 1 |-> md.tokens[t + first]]
  BY <1>14 DEF ChunkLoads, ChunkTokens
<1>1. /\ l \in Nat /\ md.decodes \in Nat /\ md.prefills \in Nat /\ md.decodes + md.prefills = l
      /\ K = 1 .. l /\ (\A k \in K : PlaceIs(md, b, k, pick[k]))
      /\ (\A i \in 0 .. l : md.loc[i] \in Nat)
      /\ \A i, j \in 0 .. l : i <= j => md.loc[i] <= md.loc[j]
  BY DEF Lists
<1>2. PICK d \in Nat, P \in Nat : d = md.decodes /\ P = md.prefills
  BY <1>1
<1>3. d + P = l /\ d \in 0 .. l
  BY <1>1, <1>2
<1>4. first \in Nat /\ first = md.loc[d]
  BY <1>1, <1>2, <1>3, <1>14
<1>5. /\ DOMAIN p.slots = 1 .. P
      /\ \A i \in 1 .. P : p.slots[i] = md.slots[i + d] /\ p.initial[i] = md.initial[i + d]
      /\ \A i \in 0 .. P : p.loc[i] = md.loc[i + d] - first
  BY <1>2, <1>14, RebasedIs DEF Rebased
<1>6. PICK N \in Nat : DOMAIN md.tokens = 0 .. N - 1
  BY DEF Lists
<1>7. Cardinality(DOMAIN md.tokens) = N
  <2>1. Cardinality(0 .. N - 1) = N
    <3>1. Cardinality(0 .. N - 1) = IF 0 > N - 1 THEN 0 ELSE (N - 1) - 0 + 1
      BY FS_Interval
    <3> QED BY <3>1
  <2> QED BY <1>6, <2>1
<1>8. shift = [t \in 0 .. N - first - 1 |-> md.tokens[t + first]]
  BY <1>0, <1>7
<1>9. PICK pick2 : pick2 = [i \in 1 .. P |-> pick[i + d]]
  OBVIOUS
<1>10. ASSUME NEW i \in 1 .. P
       PROVE  pick2[i] \in 1 .. Len(b) /\ IsRow(p.slots, p.loc, shift, loads, i, b, pick2[i])
  <2>1. PICK k : k = i + d
    OBVIOUS
  <2>2. /\ k \in 1 .. l /\ k - 1 \in 0 .. l /\ k \in 0 .. l /\ i \in 0 .. P /\ i - 1 \in 0 .. P
        /\ (i - 1) + d = k - 1 /\ d <= k - 1 /\ k \in Int
    BY <1>3, <2>1
  <2>3. PICK r : r = pick[k] /\ PlaceIs(md, b, k, r)
    BY <1>1, <2>2
  <2>4. r \in 1 .. Len(b) /\ md.slots[k] = r
        /\ md.loc[k] = md.loc[k - 1] + b[r].n /\ md.loc[k - 1] \in Nat
        /\ \A j \in 0 .. b[r].n - 1 :
             /\ md.loc[k - 1] + j \in DOMAIN md.tokens
             /\ md.tokens[md.loc[k - 1] + j] = CuSum(Scheduled(b))[r - 1] + j
    BY <2>3 DEF PlaceIs
  <2>5. b[r].n \in Nat \ {0}
    BY <2>4 DEF Batch, RowFacts
  <2>6. PICK x \in Nat, n \in Nat : x = md.loc[k - 1] /\ n = b[r].n
    BY <2>4, <2>5
  <2>7. first <= x
    BY <1>1, <1>2, <1>3, <1>4, <2>2, <2>6
  <2>8. p.loc[i - 1] = x - first /\ p.loc[i] = (x + n) - first
    BY <1>5, <2>1, <2>2, <2>4, <2>6
  <2>9. p.loc[i - 1] \in Nat /\ p.loc[i] = p.loc[i - 1] + b[r].n
    BY <1>4, <2>6, <2>7, <2>8
  <2>10. ASSUME NEW j \in 0 .. b[r].n - 1
         PROVE  /\ p.loc[i - 1] + j \in DOMAIN shift
                /\ shift[p.loc[i - 1] + j] = CuSum(Scheduled(b))[r - 1] + j
    <3>1. x + j \in 0 .. N - 1 /\ md.tokens[x + j] = CuSum(Scheduled(b))[r - 1] + j
      BY <1>6, <2>4, <2>6
    <3>2. PICK t : t = p.loc[i - 1] + j
      OBVIOUS
    <3>3. t \in 0 .. N - first - 1 /\ t + first = x + j
      <4>1. PICK y \in Nat, z \in Nat : y = p.loc[i - 1] /\ z = j
        BY <2>5, <2>9
      <4>2. y = x - first /\ t = y + z /\ x + z \in 0 .. N - 1
        BY <2>8, <3>1, <3>2, <4>1
      <4>3. (x - first) + z \in 0 .. N - first - 1 /\ ((x - first) + z) + first = x + z
        BY <1>4, <2>7, <4>2, ShiftIn
      <4> QED BY <4>1, <4>2, <4>3
    <3>4. t \in DOMAIN shift /\ shift[t] = md.tokens[x + j]
      BY <1>8, <3>3
    <3> QED BY <3>1, <3>2, <3>4
  <2>11. loads[i] = LoadOf(b, r)
    <3>1. LoadOf(b, r) = IF md.initial[k] THEN From(md.slots[k], 0, Fresh(b)) ELSE Zero
      BY <2>3, PlaceLoads
    <3>2. p.slots[i] = md.slots[k] /\ p.initial[i] = md.initial[k]
      BY <1>5, <2>1
    <3> QED BY <1>0, <1>5, <3>1, <3>2
  <2>12. p.slots[i] # Null
    BY <1>5, <2>1, <2>4 DEF Null
  <2> QED BY <1>9, <2>1, <2>3, <2>4, <2>9, <2>10, <2>11, <2>12 DEF IsRow
<1>11. 1 .. P \subseteq DOMAIN loads /\ \A i \in (DOMAIN loads) \ (1 .. P) : p.slots[i] = Null
  BY <1>0, <1>5
<1>12. RunSequences(p.slots, p.loc, shift, loads) = SequencesOf(b, {pick2[i] : i \in 1 .. P})
  <2>1. PICK Q, s, x, ld, sh : Q = 1 .. P /\ s = p.slots /\ x = p.loc /\ ld = loads /\ sh = shift
    OBVIOUS
  <2>2. ASSUME NEW i \in Q
        PROVE  pick2[i] \in 1 .. Len(b) /\ IsRow(s, x, sh, ld, i, b, pick2[i])
    BY <1>10, <2>1
  <2>4. Q \subseteq DOMAIN ld /\ \A i \in (DOMAIN ld) \ Q : s[i] = Null
    BY <1>11, <2>1
  <2>3. RunSequences(s, x, sh, ld) = SequencesOf(b, {pick2[i] : i \in Q})
    <3>1. /\ Batch(b) /\ Q \subseteq DOMAIN ld /\ (\A i \in (DOMAIN ld) \ Q : s[i] = Null)
      BY <2>4
    <3>2. \A i \in Q : pick2[i] \in 1 .. Len(b)
      BY <2>2
    <3>3. \A i \in Q : IsRow(s, x, sh, ld, i, b, pick2[i])
      BY <2>2
    <3>4. \A i \in Q : pick2[i] \in 1 .. Len(b) /\ IsRow(s, x, sh, ld, i, b, pick2[i])
      BY <3>2, <3>3
    <3>5. PICK q : q = pick2
      OBVIOUS
    <3>6. \A i \in Q : q[i] \in 1 .. Len(b) /\ IsRow(s, x, sh, ld, i, b, q[i])
      BY <3>4, <3>5
    <3>7. RunSequences(s, x, sh, ld) = SequencesOf(b, {q[i] : i \in Q})
      BY <3>1, <3>6, RunsAre
    <3> QED BY <3>5, <3>7
  <2> QED BY <2>1, <2>3
<1>13. {pick2[i] : i \in 1 .. P} = {pick[i + md.decodes] : i \in 1 .. md.prefills}
  <2>1. \A i \in 1 .. P : pick2[i] = pick[i + md.decodes]
    BY <1>2, <1>9
  <2> QED BY <1>2, <2>1
<1> QED BY <1>12, <1>13, <1>14

\* The recurrence: the two parts are the whole.
LEMMA RecurrentAre ==
  ASSUME NEW b, Batch(b), NEW md, NEW l, NEW K, NEW pick, Lists(md, b, l, K, pick)
  PROVE  RecurrentSequences(md, Fresh(b)) =
           SpecSequences(md, Fresh(b)) \cup SequencesOf(b, {pick[k] : k \in K})
<1> DEFINE peeled == RunSequences(md.slots, md.loc, md.tokens,
                                  [i \in 1 .. md.decodes |-> From(md.slots[i], 0, Fresh(b))])
<1>1. /\ l \in Nat /\ md.decodes \in Nat /\ md.prefills \in Nat /\ md.decodes + md.prefills = l
      /\ K \subseteq 1 .. l /\ (md.prefills > 0 => K = 1 .. l)
  BY DEF Lists
<1>2. peeled = SequencesOf(b, {pick[k] : k \in K \cap 1 .. md.decodes})
  BY PeeledAre
<1>3. CASE md.prefills > 0
  <2> DEFINE p     == PrefillPart(md)
             first == IF SplitsDecodes(md) THEN md.loc[md.decodes] ELSE 0
             chunk == RunSequences(p.slots, p.loc, ChunkTokens(md, first), ChunkLoads(p, Fresh(b)))
  <2>1. RecurrentSequences(md, Fresh(b)) = SpecSequences(md, Fresh(b)) \cup peeled \cup chunk
    BY <1>3 DEF RecurrentSequences, ChunkTokens, ChunkLoads
  <2>2. first = md.loc[md.decodes]
    BY <1>3, RebasedIs
  <2>3. p = PrefillPart(md)
    OBVIOUS
  <2> HIDE DEF p, first, peeled
  <2>4. chunk = SequencesOf(b, {pick[i + md.decodes] : i \in 1 .. md.prefills})
    BY <1>3, <2>2, <2>3, RebasedAre
  <2> HIDE DEF chunk
  <2>5. {pick[k] : k \in K} =
          {pick[k] : k \in K \cap 1 .. md.decodes} \cup {pick[i + md.decodes] : i \in 1 .. md.prefills}
    <3>1. ASSUME NEW k \in K, k \notin 1 .. md.decodes
          PROVE  \E i \in 1 .. md.prefills : k = i + md.decodes
      <4>1. k \in 1 .. l /\ k - md.decodes \in 1 .. md.prefills /\ k = (k - md.decodes) + md.decodes
        BY <1>1, <3>1
      <4> QED BY <4>1
    <3>2. \A i \in 1 .. md.prefills : i + md.decodes \in K
      BY <1>1, <1>3
    <3> QED BY <3>1, <3>2
  <2> QED BY <1>2, <2>1, <2>4, <2>5 DEF SequencesOf
<1>4. CASE ~(md.prefills > 0)
  <2>1. md.prefills = 0 /\ md.decodes = l
    BY <1>1, <1>4
  <2>3. K \cap 1 .. md.decodes = K
    BY <1>1, <2>1
  <2>2. RecurrentSequences(md, Fresh(b)) = SpecSequences(md, Fresh(b)) \cup peeled
    BY <2>1 DEF RecurrentSequences
  <2> QED BY <1>2, <2>2, <2>3
<1> QED BY <1>3, <1>4

-----------------------------------------------------------------------------
(* The kernels of speculative decoding.                                    *)

\* The k-th sequence that decodes over drafts is row r.
SpecPlaceIs(md, b, k, r) ==
  /\ r \in 1 .. Len(b) /\ md.specSlots[k] = r /\ md.specAccepted[k] = b[r].accepted
  /\ md.specLoc[k - 1] \in Nat /\ md.specLoc[k] = md.specLoc[k - 1] + b[r].n
  /\ \A j \in 0 .. b[r].n - 1 :
       /\ md.specLoc[k - 1] + j \in DOMAIN md.specTokens
       /\ md.specTokens[md.specLoc[k - 1] + j] = CuSum(Scheduled(b))[r - 1] + j

\* Places K hold rows, the others are empty; without other sequences the tokens
\* are those of the batch.
SpecLists(md, b, K, pick) ==
  /\ md.specs \in Nat /\ K \subseteq 1 .. md.specs
  /\ \A k \in (1 .. md.specs) \ K : md.specSlots[k] = Null
  /\ \A k \in K : SpecPlaceIs(md, b, k, pick[k])
  /\ {"specs", "specSlots", "specLoc", "specTokens", "specAccepted"} \subseteq DOMAIN md
  /\ md.prefills = 0 /\ md.decodes = 0 => md.specTokens = [t \in DOMAIN md.specTokens |-> t]

\* They run those rows, each from the state after the last token accepted.
LEMMA SpecsAre ==
  ASSUME NEW b, Batch(b), NEW md, NEW K, NEW pick, SpecLists(md, b, K, pick)
  PROVE  SpecSequences(md, Fresh(b)) = SequencesOf(b, {pick[k] : k \in K})
<1> DEFINE loads == [i \in 1 .. md.specs |-> From(md.specSlots[i], md.specAccepted[i] - 1, Fresh(b))]
<1>1. SpecSequences(md, Fresh(b)) = RunSequences(md.specSlots, md.specLoc, md.specTokens, loads)
  BY DEF SpecSequences
<1>2. K \subseteq 1 .. md.specs /\ (\A k \in (1 .. md.specs) \ K : md.specSlots[k] = Null)
      /\ (\A k \in K : SpecPlaceIs(md, b, k, pick[k]))
  BY DEF SpecLists
<1>3. DOMAIN loads = 1 .. md.specs
      /\ \A k \in 1 .. md.specs : loads[k] = From(md.specSlots[k], md.specAccepted[k] - 1, Fresh(b))
  OBVIOUS
<1> HIDE DEF loads
<1>4. ASSUME NEW k \in K
      PROVE  /\ pick[k] \in 1 .. Len(b)
             /\ IsRow(md.specSlots, md.specLoc, md.specTokens, loads, k, b, pick[k])
  <2>1. PICK r : r = pick[k] /\ SpecPlaceIs(md, b, k, r)
    BY <1>2
  <2>2. r \in 1 .. Len(b) /\ md.specSlots[k] = r /\ md.specAccepted[k] = b[r].accepted
    BY <2>1 DEF SpecPlaceIs
  <2>3. b[r].req = r
    BY <2>2 DEF Batch
  <2>4. loads[k] = LoadOf(b, r)
    BY <1>2, <1>3, <2>2, <2>3 DEF LoadOf
  <2>5. md.specSlots[k] # Null
    BY <2>2 DEF Null
  <2>6. IsRow(md.specSlots, md.specLoc, md.specTokens, loads, k, b, r)
    BY <2>1, <2>4, <2>5 DEF SpecPlaceIs, IsRow
  <2> QED BY <2>1, <2>2, <2>6
<1>5. K \subseteq DOMAIN loads /\ \A k \in (DOMAIN loads) \ K : md.specSlots[k] = Null
  BY <1>2, <1>3
<1>6. RunSequences(md.specSlots, md.specLoc, md.specTokens, loads) = SequencesOf(b, {pick[k] : k \in K})
  BY <1>4, <1>5, RunsAre
<1> QED BY <1>1, <1>6

\* Metadata whose two lists are the rows of the batch: every kernel that may
\* serve it runs each row once.
LEMMA AllKernels ==
  ASSUME NEW b, Batch(b), NEW md, NEW l, NEW K, NEW pick, Lists(md, b, l, K, pick),
         NEW S, NEW spick, SpecLists(md, b, S, spick),
         {pick[k] : k \in K} \cup {spick[k] : k \in S} = 1 .. Len(b)
  PROVE  RunsOf(md, Fresh(b)) = {SequencesOf(b, 1 .. Len(b))}
<1>1. PICK all, plain, spec : /\ all = SequencesOf(b, 1 .. Len(b))
                              /\ plain = SequencesOf(b, {pick[k] : k \in K})
                              /\ spec = SequencesOf(b, {spick[k] : k \in S})
  OBVIOUS
<1>2. spec \cup plain = all
  BY <1>1 DEF SequencesOf
<1>3. SpecSequences(md, Fresh(b)) = spec
  BY <1>1, SpecsAre
<1>4. ConvSequences(md, Fresh(b)) = all
  <2>1. ConvSequences(md, Fresh(b)) =
          SpecSequences(md, Fresh(b)) \cup SequencesOf(b, {pick[k] : k \in K})
    BY ConvAre
  <2> QED BY <1>1, <1>2, <1>3, <2>1
<1>5. RecurrentSequences(md, Fresh(b)) = all
  <2>1. RecurrentSequences(md, Fresh(b)) =
          SpecSequences(md, Fresh(b)) \cup SequencesOf(b, {pick[k] : k \in K})
    BY RecurrentAre
  <2> QED BY <1>1, <1>2, <1>3, <2>1
<1>6. XpuSequences(md, Fresh(b)) = all
  <2>1. XpuSequences(md, Fresh(b)) =
          SpecSequences(md, Fresh(b)) \cup SequencesOf(b, {pick[k] : k \in K})
    BY XpuAre
  <2> QED BY <1>1, <1>2, <1>3, <2>1
<1>7. md.prefills = 0 /\ md.specs = 0 => PackedSequences(md, Fresh(b)) = all
  <2> SUFFICES ASSUME md.prefills = 0, md.specs = 0 PROVE PackedSequences(md, Fresh(b)) = all
    OBVIOUS
  <2>1. S = {}
    BY DEF SpecLists
  <2>2. spec = {}
    BY <1>1, <2>1 DEF SequencesOf
  <2>3. PackedSequences(md, Fresh(b)) = plain
    BY <1>1, PackedAre
  <2> QED BY <1>2, <2>2, <2>3
<1>8. md.prefills = 0 /\ md.decodes = 0 => FusedSequences(md, Fresh(b)) = all
  <2> SUFFICES ASSUME md.prefills = 0, md.decodes = 0 PROVE FusedSequences(md, Fresh(b)) = all
    OBVIOUS
  <2>1. l = 0 /\ K = {}
    <3>1. l \in Nat /\ md.decodes + md.prefills = l /\ K \subseteq 1 .. l
      BY DEF Lists
    <3> QED BY <3>1
  <2>2. plain = {}
    BY <1>1, <2>1 DEF SequencesOf
  <2>3. FusedSequences(md, Fresh(b)) = SpecSequences(md, Fresh(b))
    <3> DEFINE f == [md EXCEPT !.specTokens = [t \in DOMAIN @ |-> t]]
    <3>1. md.specTokens = [t \in DOMAIN md.specTokens |-> t]
      BY DEF SpecLists
    <3>2. {"specs", "specSlots", "specLoc", "specTokens", "specAccepted"} \subseteq DOMAIN md
      BY DEF SpecLists
    <3>3. /\ f.specs = md.specs /\ f.specSlots = md.specSlots /\ f.specLoc = md.specLoc
          /\ f.specAccepted = md.specAccepted /\ f.specTokens = [t \in DOMAIN md.specTokens |-> t]
      BY <3>2
    <3>4. FusedSequences(md, Fresh(b)) = SpecSequences(f, Fresh(b))
      BY DEF FusedSequences
    <3> HIDE DEF f
    <3> QED BY <3>1, <3>3, <3>4 DEF SpecSequences
  <2> QED BY <1>2, <1>3, <2>2, <2>3
<1>9. RunsOf(md, Fresh(b)) = {all}
  BY <1>4, <1>5, <1>6, <1>7, <1>8 DEF RunsOf
<1> QED BY <1>1, <1>9

-----------------------------------------------------------------------------
(* What each form of the metadata lists.                                   *)

Exact(md, b) == RunsOf(md, Fresh(b)) = {SequencesOf(b, 1 .. Len(b))}

\* Only rows that decode over drafts, beside drafts, accepted any.
Accepts(b) == \A i \in 1 .. Len(b) : b[i].accepted # 1 => SpecPath(b) /\ i \in Decoding(b)

\* The rows that decode over drafts, as the scheduler listed them.
LEMMA DecodingIs ==
  ASSUME NEW b, Batch(b)
  PROVE  Decoding(b) = {i \in 1 .. Len(b) : DecodesOver(b[i])}
<1>1. Len(b) \in Nat
  BY StepAssumption DEF Batch
<1>2. ASSUME NEW i \in 1 .. Len(b) PROVE DecodeDrafts(b, Len(b))[i] >= 0 <=> DecodesOver(b[i])
  <2>1. i <= Len(b) /\ ~(-1 >= 0)
    BY <1>1
  <2>2. DecodeDrafts(b, Len(b))[i] = IF DecodesOver(b[i]) THEN b[i].drafts ELSE -1
    BY <2>1 DEF DecodeDrafts, DecodesOver
  <2> QED BY <2>1, <2>2 DEF DecodesOver, Listed
<1> QED BY <1>2 DEF Decoding

\* The builder's mask is theirs, where the batch has drafts at all.
LEMMA MaskIs ==
  ASSUME NEW b, Batch(b), NEW size, NEW m, GdnGiven(m, b, size)
  PROVE  SpecMask(m) = IF SpecPath(b) THEN Decoding(b) ELSE {}
<1>1. /\ size \in Nat /\ Len(b) \in Nat /\ Len(b) <= size /\ m.reqs = size /\ m.listed = UseSpecDecode(b)
      /\ \A i \in 1 .. size : m.drafts[i] = IF i <= Len(b) /\ DecodesOver(b[i]) THEN b[i].drafts ELSE -1
  BY StepAssumption DEF GdnGiven, Batch
<1>2. Decoding(b) = {i \in 1 .. Len(b) : DecodesOver(b[i])}
  BY DecodingIs
<1>3. ASSUME NEW i \in 1 .. size
      PROVE  m.drafts[i] >= 0 <=> i \in Decoding(b)
  <2>1. CASE i <= Len(b) /\ DecodesOver(b[i])
    <3>1. i \in 1 .. Len(b) /\ m.drafts[i] = b[i].drafts
      BY <1>1, <2>1
    <3> QED BY <1>2, <2>1, <3>1 DEF DecodesOver, Listed
  <2>2. CASE ~(i <= Len(b) /\ DecodesOver(b[i]))
    <3>1. m.drafts[i] = -1 /\ ~(-1 >= 0)
      BY <1>1, <2>2
    <3>2. i \notin Decoding(b)
      BY <1>1, <1>2, <2>2
    <3> QED BY <3>1, <3>2
  <2> QED BY <2>1, <2>2
<1>4. \A i \in Decoding(b) : i \in 1 .. size /\ m.drafts[i] = b[i].drafts /\ Listed(b[i]) /\ i \in 1 .. Len(b)
  <2> SUFFICES ASSUME NEW i \in Decoding(b)
               PROVE  i \in 1 .. size /\ m.drafts[i] = b[i].drafts /\ Listed(b[i]) /\ i \in 1 .. Len(b)
    OBVIOUS
  <2>1. i \in 1 .. Len(b) /\ DecodesOver(b[i])
    BY <1>2
  <2>2. i \in 1 .. size /\ i <= Len(b)
    BY <1>1, <2>1
  <2> QED BY <1>1, <2>1, <2>2 DEF DecodesOver
<1> DEFINE D == {i \in 1 .. m.reqs : m.drafts[i] >= 0}
<1>5. D = Decoding(b)
  BY <1>1, <1>3, <1>4
<1>6. SpecMask(m) = IF m.listed /\ \E i \in D : m.drafts[i] > 0 THEN D ELSE {}
  BY DEF SpecMask
<1> HIDE DEF D
<1>7. (m.listed /\ \E i \in D : m.drafts[i] > 0) <=> SpecPath(b)
  BY <1>1, <1>4, <1>5 DEF SpecPath, UseSpecDecode
<1> QED BY <1>5, <1>6, <1>7

\* Rows of one token: the sums count the rows.
LEMMA OnesSum ==
  ASSUME NEW b, Batch(b), \A i \in 1 .. Len(b) : b[i].n = 1
  PROVE  \A i \in 0 .. Len(b) : CuSum(Scheduled(b))[i] = i
<1>1. PICK n \in Nat : n = Len(b)
  BY BatchSums
<1>2. PICK cu, c : cu = CuSum(Scheduled(b)) /\ c = Scheduled(b)
  OBVIOUS
<1>3. IsCuSum(cu, c, n) /\ c \in [1 .. n -> Nat] /\ \A i \in 1 .. n : c[i] = 1
  BY <1>1, <1>2, BatchSums DEF Scheduled
<1> DEFINE f == [i \in 0 .. n |-> i]
<1>4. IsCuSum(f, c, n) /\ \A i \in 0 .. n : f[i] = i
  BY <1>3 DEF IsCuSum
<1> HIDE DEF f
<1>5. cu = f
  BY <1>3, <1>4, CuSumUnique
<1> QED BY <1>1, <1>2, <1>4, <1>5

\* d rows of at most a token, and then a longer one, if any.
Leads(m, n, d) ==
  /\ d \in 0 .. n /\ \A i \in 1 .. d : QueryLenOf(m, i) <= 1
  /\ d < n => QueryLenOf(m, d + 1) > 1

\* The decodes are the rows before the first long one.
LEMMA LeadingIs ==
  ASSUME NEW m, NEW n \in Nat, m.reqs = n, \A i \in 1 .. n : QueryLenOf(m, i) \in Int,
         NEW d, d = LeadingDecodes(m)
  PROVE  Leads(m, n, d)
<1> DEFINE Good(k) == /\ \A i \in 1 .. k : QueryLenOf(m, i) <= 1
                      /\ k < m.reqs => QueryLenOf(m, k + 1) > 1
           Stop == {k \in 0 .. n : k < n => QueryLenOf(m, k + 1) > 1}
<1>1. PICK k \in Stop : \A j \in Stop : k <= j
  <2>1. Stop \subseteq Nat /\ n \in Stop
    OBVIOUS
  <2> HIDE DEF Stop
  <2> QED BY <2>1, LeastOf
<1>2. ASSUME NEW i \in 1 .. k PROVE QueryLenOf(m, i) <= 1
  <2>1. i \in 1 .. n /\ i - 1 \in 0 .. n /\ ~(k <= i - 1) /\ (i - 1) + 1 = i /\ i - 1 < n
    OBVIOUS
  <2>2. i - 1 \notin Stop
    BY <1>1, <2>1
  <2>3. ~(QueryLenOf(m, i) > 1)
    BY <2>1, <2>2
  <2> QED BY <2>1, <2>3
<1>3. k \in 0 .. m.reqs /\ Good(k)
  BY <1>2
<1>4. d = CHOOSE x \in 0 .. m.reqs : Good(x)
  BY DEF LeadingDecodes
<1>5. d \in 0 .. m.reqs /\ Good(d)
  BY <1>3, <1>4
<1> QED BY <1>5 DEF Leads

\* Without rows that decode over drafts: the batch as it is, decodes first.
LEMMA PlainExact ==
  ASSUME NEW b, Batch(b), NEW m, GdnGiven(m, b, Len(b)), ~SpecPath(b), Accepts(b),
         NEW md, md = PlainMetadata(m)
  PROVE  Exact(md, b)
<1>1. PICK L \in Nat \ {0} : L = Len(b)
  <2>1. Len(b) \in 1 .. MaxRows
    BY DEF Batch
  <2>2. Len(b) \in Nat \ {0}
    BY <2>1
  <2> QED BY <2>2
<1>2. PICK cu : cu = CuSum(Scheduled(b))
  OBVIOUS
<1>3. /\ m.reqs = L /\ DOMAIN m.state = 1 .. L /\ Len(m.state) = L
      /\ (\A i \in 0 .. L : m.loc[i] = cu[i])
      /\ \A i \in 1 .. L : m.state[i] = b[i].req /\ m.seqLens[i] = b[i].computed + b[i].n
  BY <1>1, <1>2 DEF GdnGiven
<1>4. ASSUME NEW i \in 1 .. L
      PROVE  /\ b[i].n \in Nat \ {0} /\ b[i].computed \in Nat /\ b[i].accepted = 1 /\ m.state[i] = i
             /\ i - 1 \in 0 .. L /\ i \in 0 .. L /\ i \in 1 .. Len(b)
             /\ cu[i - 1] \in Nat /\ cu[i] = cu[i - 1] + b[i].n /\ QueryLenOf(m, i) = b[i].n
  <2>1. i \in 1 .. Len(b) /\ i - 1 \in 0 .. L /\ i \in 0 .. L
    BY <1>1
  <2>2. b[i].n \in Nat \ {0} /\ b[i].computed \in Nat /\ b[i].req = i
    BY <2>1 DEF Batch, RowFacts
  <2>3. cu[i] = cu[i - 1] + b[i].n /\ cu[i - 1] \in Nat
    BY <1>2, <2>1, RowCounts
  <2>4. m.loc[i] = cu[i] /\ m.loc[i - 1] = cu[i - 1]
    BY <1>3, <2>1
  <2>5. QueryLenOf(m, i) = b[i].n
    BY <2>2, <2>3, <2>4 DEF QueryLenOf
  <2>6. b[i].accepted = 1
    BY <2>1 DEF Accepts
  <2> QED BY <1>3, <2>1, <2>2, <2>3, <2>5, <2>6
<1>5. IsCuSum(cu, Scheduled(b), L) /\ Scheduled(b) \in [1 .. L -> Nat] /\ Len(Scheduled(b)) = L
  BY <1>1, <1>2, BatchSums
<1>6. (\A i, j \in 0 .. L : i <= j => cu[i] <= cu[j]) /\ cu[0] = 0 /\ \A i \in 0 .. L : cu[i] \in Nat
  <2>1. \A i, j \in 0 .. L : i <= j => cu[i] <= cu[j]
    BY <1>5, CuSumMonotone
  <2> QED BY <1>5, <2>1 DEF IsCuSum
<1>7. PICK w : w = RowsWhere(m, 1 .. L)
  OBVIOUS
<1>8. w = [k \in 1 .. L |-> k] /\ Len(w) = L
  <2>1. L \in 0 .. L
    OBVIOUS
  <2> QED BY <1>3, <1>7, <2>1, WhereLeading
<1>9. PICK tokens : tokens = TokensOf(m, w)
  OBVIOUS
<1>10. /\ DOMAIN tokens = 0 .. cu[L] - 1
       /\ \A i \in 1 .. L : \A j \in 0 .. b[i].n - 1 :
            cu[i - 1] + j \in DOMAIN tokens /\ tokens[cu[i - 1] + j] = cu[i - 1] + j
  <2>1. PICK starts : starts = [k \in 1 .. L |-> m.loc[w[k] - 1]]
    OBVIOUS
  <2>2. PICK counts : counts = [k \in 1 .. L |-> QueryLenOf(m, w[k])]
    OBVIOUS
  <2>3. tokens = RepeatArange(starts, counts)
    BY <1>8, <1>9, <2>1, <2>2 DEF TokensOf
  <2>4. \A k \in 1 .. L : w[k] = k /\ k - 1 \in 0 .. L
    BY <1>8
  <2>5. \A k \in 1 .. L : starts[k] = cu[k - 1] /\ starts[k] \in Int
    BY <1>3, <1>4, <2>1, <2>4
  <2>6. counts = Scheduled(b)
    BY <1>1, <1>4, <2>2, <2>4 DEF Scheduled
  <2>7. starts \in [1 .. L -> Int]
    BY <2>1, <2>5
  <2>8. /\ DOMAIN tokens = 0 .. cu[L] - 1
        /\ \A i \in 1 .. L : \A j \in 0 .. counts[i] - 1 :
             /\ cu[i - 1] + j \in 0 .. cu[L] - 1
             /\ tokens[cu[i - 1] + j] = starts[i] + j
    <3>1. counts \in [1 .. L -> Nat] /\ Len(counts) = L /\ CuSum(counts) = cu
      BY <1>2, <1>5, <2>6
    <3>2. /\ DOMAIN RepeatArange(starts, counts) = 0 .. CuSum(counts)[L] - 1
          /\ \A i \in 1 .. L : \A j \in 0 .. counts[i] - 1 :
               /\ CuSum(counts)[i - 1] + j \in 0 .. CuSum(counts)[L] - 1
               /\ RepeatArange(starts, counts)[CuSum(counts)[i - 1] + j] = starts[i] + j
      BY <2>7, <3>1, RepeatArangeIs
    <3> QED BY <2>3, <3>1, <3>2
  <2>9. \A i \in 1 .. L : counts[i] = b[i].n
    BY <1>1, <2>6 DEF Scheduled
  <2> QED BY <2>5, <2>8, <2>9
<1>11. PICK d : d = LeadingDecodes(m)
  OBVIOUS
<1>12. d \in 0 .. L /\ \A i \in 1 .. d : QueryLenOf(m, i) <= 1
  <2>1. \A i \in 1 .. L : QueryLenOf(m, i) \in Int
    BY <1>4
  <2> QED BY <1>3, <1>11, <2>1, LeadingIs DEF Leads
<1>13. /\ md.prefills = L - d /\ md.decodes = d /\ md.specs = 0
       /\ md.slots = m.state /\ md.loc = m.loc /\ md.tokens = tokens /\ md.initial = HasContext(m, w)
       /\ {"specs", "specSlots", "specLoc", "specTokens", "specAccepted"} \subseteq DOMAIN md
       /\ md.specTokens = NoTokens
  BY <1>3, <1>7, <1>9, <1>11 DEF PlainMetadata, NoMetadata
<1>14. ASSUME NEW k \in 1 .. L PROVE md.initial[k] = (b[k].computed > 0)
  <2>1. w[k] = k
    BY <1>8
  <2>2. HasContext(m, w)[k] = (m.seqLens[k] - QueryLenOf(m, k) > 0)
    BY <1>8, <2>1 DEF HasContext
  <2>3. m.seqLens[k] - QueryLenOf(m, k) = b[k].computed
    <3>1. PICK x, y, c \in Nat, n \in Nat :
            x = m.seqLens[k] /\ y = QueryLenOf(m, k) /\ c = b[k].computed /\ n = b[k].n
            /\ x = c + n /\ y = n
      BY <1>3, <1>4
    <3> QED BY <3>1
  <2> QED BY <1>13, <2>2, <2>3
<1>15. ASSUME NEW k \in 1 .. L PROVE PlaceIs(md, b, k, k)
  <2>1. k <= d => b[k].n = 1
    <3> SUFFICES ASSUME k <= d PROVE b[k].n = 1
      OBVIOUS
    <3>1. k \in 1 .. d
      BY <1>12
    <3>2. b[k].n <= 1 /\ b[k].n \in Nat \ {0}
      BY <1>4, <1>12, <3>1
    <3> QED BY <3>2
  <2>2. md.prefills = 0 => cu[k - 1] = k - 1
    <3> SUFFICES ASSUME md.prefills = 0 PROVE cu[k - 1] = k - 1
      OBVIOUS
    <3>1. d = L
      BY <1>12, <1>13
    <3>2. \A i \in 1 .. Len(b) : b[i].n = 1
      <4> SUFFICES ASSUME NEW i \in 1 .. L PROVE b[i].n = 1
        BY <1>1
      <4>1. b[i].n <= 1 /\ b[i].n \in Nat \ {0}
        BY <1>4, <1>12, <3>1
      <4> QED BY <4>1
    <3>3. \A i \in 0 .. L : cu[i] = i
      BY <1>1, <1>2, <3>2, OnesSum
    <3> QED BY <1>4, <3>3
  <2>3. md.slots[k] = k /\ k \in 1 .. Len(b) /\ b[k].accepted = 1
    BY <1>4, <1>13
  <2>4. md.loc[k - 1] = cu[k - 1] /\ md.loc[k] = cu[k] /\ cu[k - 1] \in Nat /\ cu[k] = cu[k - 1] + b[k].n
    BY <1>3, <1>4, <1>13
  <2>5. \A j \in 0 .. b[k].n - 1 :
          cu[k - 1] + j \in DOMAIN md.tokens /\ md.tokens[cu[k - 1] + j] = cu[k - 1] + j
    BY <1>10, <1>13
  <2> QED BY <1>2, <1>13, <1>14, <2>1, <2>2, <2>3, <2>4, <2>5 DEF PlaceIs
<1>16. PICK K, pick : K = 1 .. L /\ \A k \in 1 .. L : pick[k] = k
  BY <1>8
<1>17. Lists(md, b, L, K, pick)
  <2>1. DOMAIN md.slots = 1 .. L /\ Len(md.slots) = L
    BY <1>3, <1>13
  <2>2. md.decodes \in Nat /\ md.prefills \in Nat /\ md.decodes + md.prefills = L
    BY <1>12, <1>13
  <2>3. \A k \in K : PlaceIs(md, b, k, pick[k])
    BY <1>15, <1>16
  <2>4. PICK N \in Nat : N = cu[L]
    BY <1>6
  <2>5. \E N2 \in Nat : DOMAIN md.tokens = 0 .. N2 - 1
    BY <1>10, <1>13, <2>4
  <2>6. /\ md.loc[0] = 0 /\ (\A i \in 0 .. L : md.loc[i] \in Nat)
        /\ \A i, j \in 0 .. L : i <= j => md.loc[i] <= md.loc[j]
    <3>1. \A i \in 0 .. L : md.loc[i] = cu[i]
      BY <1>3, <1>13
    <3>2. 0 \in 0 .. L
      OBVIOUS
    <3> QED BY <1>6, <3>1, <3>2
  <2> QED BY <1>13, <1>16, <2>1, <2>2, <2>3, <2>5, <2>6 DEF Lists
<1>18. SpecLists(md, b, {}, pick)
  <2>1. md.specTokens = [t \in DOMAIN md.specTokens |-> t]
    BY <1>13 DEF NoTokens
  <2> QED BY <1>13, <2>1 DEF SpecLists
<1>19. {pick[k] : k \in K} \cup {pick[k] : k \in {}} = 1 .. Len(b)
  BY <1>1, <1>16
<1> QED BY <1>17, <1>18, <1>19, AllKernels DEF Exact

\* A full batch of decodes over drafts: the batch as it is, padding at its back.
LEMMA PureExact ==
  ASSUME NEW b, Batch(b), NEW m, GdnGiven(m, b, Len(b)), SpecMask(m) = 1 .. Len(b),
         NEW md, md = SpecMetadata(m)
  PROVE  Exact(md, b)
<1>1. PICK L \in Nat \ {0} : L = Len(b)
  <2>1. Len(b) \in 1 .. MaxRows
    BY DEF Batch
  <2>2. Len(b) \in Nat \ {0}
    BY <2>1
  <2> QED BY <2>2
<1>2. PICK cu : cu = CuSum(Scheduled(b))
  OBVIOUS
<1>3. /\ m.reqs = L /\ (\A i \in 0 .. L : m.loc[i] = cu[i])
      /\ \A i \in 1 .. L : m.state[i] = b[i].req /\ m.accepted[i] = b[i].accepted
  BY <1>1, <1>2 DEF GdnGiven
<1>4. PICK w, o : w = RowsWhere(m, SpecMask(m)) /\ o = RowsWhere(m, (1 .. m.reqs) \ SpecMask(m))
  OBVIOUS
<1>5. w = [k \in 1 .. L |-> k] /\ Len(w) = L
  <2>1. L \in 0 .. L
    OBVIOUS
  <2>2. w = RowsWhere(m, 1 .. L)
    BY <1>1, <1>4
  <2> QED BY <1>3, <2>1, <2>2, WhereLeading
<1>6. CountPrefills(m, o) = 0
  <2>1. (1 .. m.reqs) \ SpecMask(m) = {}
    BY <1>1, <1>3
  <2>2. PICK E : E = (1 .. m.reqs) \ SpecMask(m) /\ E = {}
    BY <2>1
  <2>3. Len(o) \in Nat /\ o \in [1 .. Len(o) -> E]
    BY <1>3, <1>4, <2>2, WhereIs
  <2>4. {k \in 1 .. Len(o) : QueryLenOf(m, o[k]) > 0} = {}
    BY <2>2, <2>3
  <2> QED BY <2>4, FS_EmptySet DEF CountPrefills
<1>7. /\ md.prefills = 0 /\ md.decodes = 0 /\ md.specs = L
      /\ md.specSlots = Chosen(m.state, w) /\ md.specAccepted = Chosen(m.accepted, w)
      /\ md.specLoc = [i \in 0 .. L |-> m.loc[i]]
      /\ md.specTokens = [t \in 0 .. m.loc[L] - 1 |-> t] /\ md.slots = <<>>
      /\ {"specs", "specSlots", "specLoc", "specTokens", "specAccepted"} \subseteq DOMAIN md
  BY <1>3, <1>4, <1>5, <1>6 DEF SpecMetadata
<1>8. ASSUME NEW k \in 1 .. L PROVE SpecPlaceIs(md, b, k, k)
  <2>1. /\ k - 1 \in 0 .. L /\ k \in 0 .. L /\ k \in 1 .. Len(b) /\ L \in 0 .. L /\ w[k] = k
    BY <1>1, <1>5
  <2>2. b[k].n \in Nat \ {0} /\ b[k].req = k
    BY <2>1 DEF Batch, RowFacts
  <2>3. cu[k] = cu[k - 1] + b[k].n /\ cu[k - 1] \in Nat
    BY <1>2, <2>1, RowCounts
  <2>4. cu[k] <= cu[L] /\ cu[L] \in Nat
    <3>1. Count(b) = cu[L] /\ Count(b) \in Nat /\ cu[k] <= Count(b)
      BY <1>1, <1>2, <2>1, CountIs
    <3> QED BY <3>1
  <2>5. md.specLoc[k - 1] = cu[k - 1] /\ md.specLoc[k] = cu[k] /\ md.specTokens = [t \in 0 .. cu[L] - 1 |-> t]
    BY <1>3, <1>7, <2>1
  <2>6. \A j \in 0 .. b[k].n - 1 : cu[k - 1] + j \in 0 .. cu[L] - 1
    BY <2>2, <2>3, <2>4
  <2>7. md.specSlots[k] = k /\ md.specAccepted[k] = b[k].accepted
    BY <1>3, <1>5, <1>7, <2>1, <2>2 DEF Chosen
  <2> QED BY <1>2, <2>1, <2>3, <2>5, <2>6, <2>7 DEF SpecPlaceIs
<1>9. PICK K, pick : K = 1 .. L /\ \A k \in 1 .. L : pick[k] = k
  BY <1>5
<1>10. SpecLists(md, b, K, pick)
  <2>1. \A k \in K : SpecPlaceIs(md, b, k, pick[k])
    BY <1>8, <1>9
  <2>2. md.specTokens = [t \in DOMAIN md.specTokens |-> t]
    BY <1>7
  <2> QED BY <1>7, <1>9, <2>1, <2>2 DEF SpecLists
<1>11. Lists(md, b, 0, {}, pick)
  BY <1>7 DEF Lists
<1>12. {pick[k] : k \in {}} \cup {pick[k] : k \in K} = 1 .. Len(b)
  BY <1>1, <1>9
<1> QED BY <1>10, <1>11, <1>12, AllKernels DEF Exact

\* Some rows decode over drafts and some do not: two lists.
LEMMA MixedExact ==
  ASSUME NEW b, Batch(b), NEW m, GdnGiven(m, b, Len(b)), SpecMask(m) = Decoding(b),
         Decoding(b) # 1 .. Len(b), Accepts(b), NEW md, md = SpecMetadata(m)
  PROVE  Exact(md, b)
<1>1. PICK L \in Nat \ {0} : L = Len(b)
  <2>1. Len(b) \in 1 .. MaxRows
    BY DEF Batch
  <2>2. Len(b) \in Nat \ {0}
    BY <2>1
  <2> QED BY <2>2
<1>2. PICK D, O : D = Decoding(b) /\ O = (1 .. L) \ D /\ D \subseteq 1 .. L
  <2>1. Decoding(b) \subseteq 1 .. L
    BY <1>1, DecodingIs
  <2> QED BY <2>1
<1>3. m.reqs = L
  BY <1>1 DEF GdnGiven
<1>4. PICK w, o, l, n : w = RowsWhere(m, D) /\ o = RowsWhere(m, O) /\ l = Len(w) /\ n = Len(o)
  OBVIOUS
<1>5. l \in Nat /\ w \in [1 .. l -> D] /\ Onto(w, l, D)
  BY <1>2, <1>3, <1>4, WhereIs
<1>6. n \in Nat /\ o \in [1 .. n -> O] /\ Onto(o, n, O)
  <2>1. O \subseteq 1 .. L
    BY <1>2
  <2> QED BY <1>3, <1>4, <2>1, WhereIs
<1>7. ListOf(w, l, b) /\ ListOf(o, n, b)
  BY <1>1, <1>2, <1>4, <1>5, <1>6 DEF ListOf
<1>8. n > 0
  <2>1. PICK i \in 1 .. L : i \notin D
    BY <1>1, <1>2
  <2>2. PICK k \in 1 .. n : o[k] = i
    BY <1>2, <1>6, <2>1 DEF Onto
  <2> QED BY <1>6, <2>2
<1>9. CountPrefills(m, o) = n
  <2>1. ASSUME NEW k \in 1 .. n PROVE QueryLenOf(m, o[k]) > 0
    <3>1. PICK i \in 1 .. Len(b) : i = o[k]
      BY <1>1, <1>2, <1>6
    <3>2. i \in 1 .. L /\ i - 1 \in 0 .. L /\ i <= Len(b) /\ i - 1 \in 0 .. Len(b)
      BY <1>1
    <3>3. m.loc[i] = m.loc[i - 1] + b[i].n /\ m.loc[i - 1] \in Nat
      BY <1>1, <3>2 DEF GdnGiven, Width
    <3>4. b[i].n \in Nat \ {0}
      BY DEF Batch, RowFacts
    <3> QED BY <3>1, <3>3, <3>4 DEF QueryLenOf
  <2>2. {k \in 1 .. Len(o) : QueryLenOf(m, o[k]) > 0} = 1 .. n
    BY <1>4, <2>1
  <2>3. Cardinality(1 .. n) = n
    <3>1. Cardinality(1 .. n) = IF 1 > n THEN 0 ELSE n - 1 + 1
      BY <1>6, FS_Interval
    <3> QED BY <1>6, <3>1
  <2> QED BY <2>2, <2>3 DEF CountPrefills
<1>10. /\ md.prefills = n /\ md.decodes = 0 /\ md.specs = l
       /\ md.specSlots = Chosen(m.state, w) /\ md.specAccepted = Chosen(m.accepted, w)
       /\ md.specLoc = LocOf(m, w) /\ md.specTokens = TokensOf(m, w)
       /\ md.slots = Chosen(m.state, o) /\ md.loc = LocOf(m, o) /\ md.tokens = TokensOf(m, o)
       /\ md.initial = HasContext(m, o)
       /\ {"specs", "specSlots", "specLoc", "specTokens", "specAccepted"} \subseteq DOMAIN md
  <2>1. w = RowsWhere(m, SpecMask(m)) /\ o = RowsWhere(m, (1 .. m.reqs) \ SpecMask(m))
    BY <1>2, <1>3, <1>4
  <2>2. CountPrefills(m, o) # 0
    BY <1>6, <1>8, <1>9
  <2> QED BY <1>4, <1>9, <2>1, <2>2 DEF SpecMetadata
<1>11. ASSUME NEW k \in 1 .. l PROVE SpecPlaceIs(md, b, k, w[k])
  <2>1. /\ LocOf(m, w)[k] = LocOf(m, w)[k - 1] + b[w[k]].n
        /\ Chosen(m.state, w)[k] = w[k] /\ Chosen(m.accepted, w)[k] = b[w[k]].accepted
        /\ DOMAIN TokensOf(m, w) = 0 .. LocOf(m, w)[l] - 1
        /\ \A j \in 0 .. b[w[k]].n - 1 :
             /\ LocOf(m, w)[k - 1] + j \in 0 .. LocOf(m, w)[l] - 1
             /\ TokensOf(m, w)[LocOf(m, w)[k - 1] + j] = CuSum(Scheduled(b))[w[k] - 1] + j
    BY <1>7, ListIs
  <2>2. LocOf(m, w)[k - 1] \in Nat
    <3>1. LocOf(m, w) \in [0 .. l -> Nat]
      BY <1>7, ListIs
    <3>2. k - 1 \in 0 .. l
      BY <1>5
    <3> QED BY <3>1, <3>2
  <2>3. w[k] \in 1 .. Len(b)
    BY <1>1, <1>2, <1>5
  <2> QED BY <1>10, <2>1, <2>2, <2>3 DEF SpecPlaceIs
<1>12. ASSUME NEW k \in 1 .. n PROVE PlaceIs(md, b, k, o[k])
  <2>1. /\ LocOf(m, o)[k] = LocOf(m, o)[k - 1] + b[o[k]].n
        /\ Chosen(m.state, o)[k] = o[k] /\ HasContext(m, o)[k] = (b[o[k]].computed > 0)
        /\ DOMAIN TokensOf(m, o) = 0 .. LocOf(m, o)[n] - 1
        /\ \A j \in 0 .. b[o[k]].n - 1 :
             /\ LocOf(m, o)[k - 1] + j \in 0 .. LocOf(m, o)[n] - 1
             /\ TokensOf(m, o)[LocOf(m, o)[k - 1] + j] = CuSum(Scheduled(b))[o[k] - 1] + j
    BY <1>7, ListIs
  <2>2. LocOf(m, o)[k - 1] \in Nat
    <3>1. LocOf(m, o) \in [0 .. n -> Nat]
      BY <1>7, ListIs
    <3>2. k - 1 \in 0 .. n
      BY <1>6
    <3> QED BY <3>1, <3>2
  <2>3. o[k] \in 1 .. Len(b) /\ o[k] \notin Decoding(b)
    BY <1>1, <1>2, <1>6
  <2>4. b[o[k]].accepted = 1
    BY <2>3 DEF Accepts
  <2>5. ~(k <= 0)
    OBVIOUS
  <2> QED BY <1>10, <2>1, <2>2, <2>3, <2>4, <2>5 DEF PlaceIs
<1>13. PICK K, S : K = 1 .. n /\ S = 1 .. l
  OBVIOUS
<1>14. SpecLists(md, b, S, w)
  <2>1. ~(md.prefills = 0)
    BY <1>8, <1>10
  <2> QED BY <1>5, <1>10, <1>11, <1>13, <2>1 DEF SpecLists
<1>15. Lists(md, b, n, K, o)
  <2>1. PICK f : f = LocOf(m, o)
    OBVIOUS
  <2>2. f \in [0 .. n -> Nat] /\ f[0] = 0 /\ DOMAIN TokensOf(m, o) = 0 .. f[n] - 1
    BY <1>7, <2>1, ListIs
  <2>3. \A i, j \in 0 .. n : i <= j => f[i] <= f[j]
    <3> DEFINE c == [k \in 1 .. n |-> b[o[k]].n]
    <3>1. \A k \in 1 .. n : b[o[k]].n \in Nat
      <4> SUFFICES ASSUME NEW k \in 1 .. n PROVE b[o[k]].n \in Nat
        OBVIOUS
      <4>1. PICK i \in 1 .. Len(b) : i = o[k]
        BY <1>1, <1>2, <1>6
      <4> QED BY <4>1 DEF Batch, RowFacts
    <3>2. \A k \in 1 .. n : f[k] = f[k - 1] + b[o[k]].n
      BY <1>7, <2>1, ListIs
    <3>3. IsCuSum(f, c, n) /\ c \in [1 .. n -> Nat]
      BY <2>2, <3>1, <3>2 DEF IsCuSum
    <3> HIDE DEF c
    <3> QED BY <1>6, <3>3, CuSumMonotone
  <2>4. DOMAIN md.slots = 1 .. n /\ Len(md.slots) = n
    <3>1. md.slots \in [1 .. n -> {m.state[o[k]] : k \in 1 .. n}]
      BY <1>4, <1>10 DEF Chosen
    <3> QED BY <1>6, <3>1, LenOfFunction
  <2>5. md.loc = f /\ DOMAIN md.tokens = 0 .. f[n] - 1 /\ f[n] \in Nat
    BY <1>6, <1>10, <2>1, <2>2
  <2>6. \A k \in K : PlaceIs(md, b, k, o[k])
    BY <1>12, <1>13
  <2>7. md.decodes \in Nat /\ md.prefills \in Nat /\ md.decodes + md.prefills = n /\ ~(md.decodes > 0)
    BY <1>6, <1>10
  <2> QED BY <1>6, <1>13, <2>2, <2>3, <2>4, <2>5, <2>6, <2>7 DEF Lists
<1>16. {o[k] : k \in K} \cup {w[k] : k \in S} = 1 .. Len(b)
  <2>1. {o[k] : k \in K} = O
    BY <1>6, <1>13 DEF Onto
  <2>2. {w[k] : k \in S} = D
    BY <1>5, <1>13 DEF Onto
  <2> QED BY <1>1, <1>2, <2>1, <2>2
<1> QED BY <1>14, <1>15, <1>16, AllKernels DEF Exact

-----------------------------------------------------------------------------
(* What a full graph reads.                                                *)

\* A batch in a full graph: uniform, padded to a captured size.
FullKey(b, k) ==
  /\ IsUniform(b, QueryLen) = TRUE
  /\ k.desc.tokens \in Nat /\ Count(b) <= k.desc.tokens /\ k.desc.tokens <= MaxCapture
  /\ k.desc.reqs = Keys(QueryLen)!Smaller(k.desc.tokens \div QueryLen, MaxNumSeqs)

\* Only a uniform batch goes to a full graph (dispatch).
LEMMA FullDispatch ==
  ASSUME config \in Configs, NEW b, Batch(b), NEW allowed,
         NEW k, k = DispatchTo(Count(b), IsUniform(b, QueryLen), allowed), k.mode = "FULL"
  PROVE  FullKey(b, k)
<1>1. Count(b) \in Nat \ {0} /\ IsUniform(b, QueryLen) \in BOOLEAN
  BY CountIs DEF IsUniform
<1>2. Dispatched(k, Count(b), IsUniform(b, QueryLen))
  BY <1>1, DispatchIs
<1> QED BY <1>2 DEF Dispatched, FullKey

\* Its rows have the uniform length, and the buffers hold it and the padding.
LEMMA FullFits ==
  ASSUME StepInv, Served, key.mode = "FULL"
  PROVE  /\ QueryLen \in Nat \ {0} /\ IsUniform(rows, QueryLen)
         /\ PaddedReqs(rows, key) = key.desc.reqs /\ key.desc.reqs \in Nat \ {0}
         /\ Len(rows) <= key.desc.reqs
         /\ MaxBs \in Nat /\ key.desc.reqs <= MaxBs
         /\ Count(rows) = QueryLen * Len(rows) /\ Count(rows) <= MaxBs
<1>1. /\ config \in Configs /\ Batch(rows)
      /\ key = DispatchTo(Count(rows), IsUniform(rows, QueryLen), Allowed(prefix = 0))
  BY ServedIs
<1>2. PICK q \in Nat \ {0} : q = QueryLen
  <2>1. config.spec \in Nat
    BY <1>1, StepAssumption
  <2> QED BY <2>1 DEF QueryLen
<1>3. PICK L \in Nat \ {0} : L = Len(rows) /\ L <= MaxNumSeqs /\ MaxNumSeqs \in Nat
  <2>1. Len(rows) \in 1 .. MaxRows
    BY <1>1 DEF Batch
  <2>2. Len(rows) \in Nat \ {0} /\ Len(rows) <= MaxNumSeqs /\ MaxNumSeqs \in Nat
    BY <2>1, StepAssumption
  <2> QED BY <2>2
<1>4. Count(rows) \in Nat \ {0} /\ IsUniform(rows, QueryLen) \in BOOLEAN
  BY <1>1, CountIs DEF IsUniform
<1>5. PICK t : t = key.desc.tokens
  OBVIOUS
<1>6. /\ IsUniform(rows, QueryLen) = TRUE /\ t \in Nat /\ Count(rows) <= t /\ t <= MaxCapture
      /\ key.desc.reqs = Keys(QueryLen)!Smaller(t \div QueryLen, MaxNumSeqs)
  <2>1. PICK allowed : key = DispatchTo(Count(rows), IsUniform(rows, QueryLen), allowed)
    BY <1>1
  <2>2. FullKey(rows, key)
    BY <1>1, <2>1, FullDispatch
  <2> QED BY <1>5, <2>2 DEF FullKey
<1>7. Count(rows) = q * L
  BY <1>1, <1>2, <1>3, <1>6, UniformCount
<1>8. PaddedReqs(rows, key) = key.desc.reqs
  BY DEF PaddedReqs
<1>9. PICK s \in Nat : s = key.desc.reqs /\ L <= s /\ s <= MaxNumSeqs
  <2>1. PaddedReqs(rows, key) \in Nat /\ Len(rows) <= PaddedReqs(rows, key)
        /\ PaddedReqs(rows, key) <= MaxNumSeqs
    BY <1>1, PaddedBatch
  <2> QED BY <1>3, <1>8, <2>1
<1>10. s <= t
  <2>1. PICK v \in Nat : v = t \div q /\ q * v <= t
    <3>1. t = q * (t \div q) + (t % q) /\ t \div q \in Nat /\ t % q \in 0 .. q - 1
      BY <1>6, DivMod
    <3> QED BY <1>6, <3>1
  <2>2. s <= v
    BY <1>2, <1>6, <1>9, <2>1 DEF Keys!Smaller
  <2>3. v <= q * v
    <3>1. v <= q * v
      OBVIOUS
    <3> QED BY <3>1
  <2> QED BY <1>6, <2>1, <2>2, <2>3
<1>11. MaxCapture \in Nat
  BY SizesFacts
<1>12. PICK M \in Nat : M = MaxNumSeqs
  BY <1>3
<1>13. M * q \in Nat /\ q * L <= M * q /\ M <= M * q
  <2>1. L <= M
    BY <1>3, <1>12
  <2>2. q * L <= q * M
    BY <2>1, TimesMonotone
  <2>3. q * M = M * q
    OBVIOUS
  <2>4. M <= M * q
    OBVIOUS
  <2>5. M * q \in Nat
    OBVIOUS
  <2> QED BY <2>2, <2>3, <2>4, <2>5
<1>14. MaxBs = IF M * q <= MaxCapture THEN M * q ELSE MaxCapture
  BY <1>2, <1>12 DEF MaxBs, Keys!Smaller
<1>15. MaxBs \in Nat /\ s <= MaxBs /\ Count(rows) <= MaxBs
  <2>1. PICK x \in Nat, y \in Nat, z \in Nat : x = M * q /\ y = MaxCapture /\ z = q * L
    BY <1>11, <1>13
  <2>2. MaxBs = IF x <= y THEN x ELSE y
    BY <1>14, <2>1
  <2>3. s <= x /\ s <= y /\ z <= x /\ z <= y /\ Count(rows) = z
    BY <1>6, <1>7, <1>9, <1>10, <1>12, <1>13, <2>1
  <2> QED BY <2>2, <2>3
<1>16. s \in Nat \ {0}
  BY <1>3, <1>9
<1> QED BY <1>2, <1>3, <1>6, <1>7, <1>8, <1>9, <1>15, <1>16

\* What Fill leaves in a buffer.
LEMMA FillIs ==
  ASSUME NEW buffer, NEW from, NEW k \in Nat, NEW size \in Nat, k <= size, NEW pad,
         NEW i \in DOMAIN buffer, i \in Int
  PROVE  /\ i <= k => Fill(buffer, from, k, size, pad)[i] = from[i]
         /\ k < i /\ i <= size => Fill(buffer, from, k, size, pad)[i] = pad
<1>1. Fill(buffer, from, k, size, pad)[i] = IF i <= k THEN from[i] ELSE IF i <= size THEN pad ELSE buffer[i]
  BY DEF Fill
<1> QED BY <1>1

\* Drafts: the padded batch is all specs, and replayed from the buffers as such.
LEMMA FullDraftsExact ==
  ASSUME StepInv, Served, key.mode = "FULL", QueryLen > 1, SpecPath(rows),
         Decoding(rows) = 1 .. Len(rows), NEW md, md = GdnRead
  PROVE  Exact(md, rows)
<1>1. PICK size, m, b : size = key.desc.reqs /\ m = Meta /\ b = rows
  OBVIOUS
<1>2. PICK q \in Nat \ {0}, M \in Nat : q = QueryLen /\ M = MaxBs
  BY FullFits
<1>3. /\ size \in Nat \ {0} /\ size <= M /\ Len(b) <= size /\ PaddedReqs(rows, key) = size
      /\ Count(b) = q * Len(b) /\ Count(b) <= M
  BY <1>1, <1>2, FullFits
<1>4. Batch(b) /\ buffers = Persist(StaleBuffers(M), BuildGdn(m), m, M)
  BY <1>1, <1>2, ServedIs
<1>5. GdnGiven(m, b, size)
  BY <1>1, <1>3, GdnMetaIs
<1>6. PICK L \in Nat \ {0} : L = Len(b) /\ L <= size
  <2>1. Len(b) \in 1 .. MaxRows
    BY <1>4 DEF Batch
  <2>2. Len(b) \in Nat \ {0}
    BY <2>1
  <2> QED BY <1>3, <2>2
<1>7. PICK cu : cu = CuSum(Scheduled(b))
  OBVIOUS
<1>8. /\ m.reqs = size /\ (\A i \in 0 .. L : m.loc[i] = cu[i]) /\ m.loc[size] = Count(b)
      /\ (\A i \in 1 .. L : i \in 1 .. size => m.state[i] = b[i].req /\ m.accepted[i] = b[i].accepted)
  <2>1. \A i \in 1 .. L : i <= L
    OBVIOUS
  <2> QED BY <1>5, <1>6, <1>7, <2>1 DEF GdnGiven
<1>9. SpecMask(m) = 1 .. L
  <2>1. SpecMask(m) = IF SpecPath(b) THEN Decoding(b) ELSE {}
    BY <1>4, <1>5, MaskIs
  <2> QED BY <1>1, <1>6, <2>1
<1>10. PICK w, o : w = RowsWhere(m, SpecMask(m)) /\ o = RowsWhere(m, (1 .. m.reqs) \ SpecMask(m))
  OBVIOUS
<1>11. w = [k \in 1 .. L |-> k] /\ Len(w) = L
  <2>1. L \in 0 .. size
    BY <1>6
  <2>2. w = RowsWhere(m, 1 .. L) /\ size \in Nat
    BY <1>3, <1>9, <1>10
  <2> QED BY <1>8, <2>1, <2>2, WhereLeading
<1>12. CountPrefills(m, o) = 0
  <2>1. PICK E : E = (1 .. size) \ (1 .. L) /\ E \subseteq 1 .. size
    OBVIOUS
  <2>2. m.reqs = size /\ size \in Nat /\ o = RowsWhere(m, E)
    BY <1>3, <1>8, <1>9, <1>10, <2>1
  <2>3. Len(o) \in Nat /\ o \in [1 .. Len(o) -> E]
    BY <2>1, <2>2, WhereIs
  <2>4. ASSUME NEW k \in 1 .. Len(o) PROVE ~(QueryLenOf(m, o[k]) > 0)
    <3>1. PICK i \in 1 .. size : i = o[k] /\ ~(i <= L)
      BY <2>1, <2>3
    <3>2. i - 1 \in 0 .. size
      BY <1>3
    <3>3. m.loc[i] = m.loc[i - 1] + 0 /\ m.loc[i - 1] \in Nat
      BY <1>5, <1>6, <3>1, <3>2 DEF GdnGiven, Width
    <3> QED BY <3>1, <3>3 DEF QueryLenOf
  <2>5. {k \in 1 .. Len(o) : QueryLenOf(m, o[k]) > 0} = {}
    BY <2>4
  <2> QED BY <2>5, FS_EmptySet DEF CountPrefills
<1>13. PICK built : built = SpecMetadata(m)
  OBVIOUS
<1>14. /\ built.prefills = 0 /\ built.decodes = 0 /\ built.specs = L
       /\ built.specSlots = Chosen(m.state, w) /\ built.specAccepted = Chosen(m.accepted, w)
       /\ built.specLoc = [i \in 0 .. L |-> m.loc[i]]
  BY <1>10, <1>11, <1>12, <1>13 DEF SpecMetadata
<1>15. BuildGdn(m) = built
  <2>1. 1 \in 1 .. L
    OBVIOUS
  <2>2. SpecMask(m) # {}
    BY <1>9, <2>1
  <2> QED BY <1>13, <2>2 DEF BuildGdn
<1>16. PICK st : st = StaleBuffers(M)
  OBVIOUS
<1>17. DOMAIN st.specSlots = 1 .. M /\ DOMAIN st.specLoc = 0 .. M /\ DOMAIN st.specAccepted = 1 .. M
       /\ {"specSlots", "specLoc", "specAccepted"} \subseteq DOMAIN st
  BY <1>16 DEF StaleBuffers
<1>18. /\ buffers.specSlots = Fill(st.specSlots, built.specSlots, L, size, Null)
       /\ buffers.specLoc = Fill(st.specLoc, built.specLoc, L, size, built.specLoc[L])
       /\ buffers.specAccepted = Fill(st.specAccepted, built.specAccepted, L, size, 1)
  <2>1. /\ built.prefills = 0 /\ built.decodes = 0 /\ built.specs <= M /\ m.loc[m.reqs] <= M
    BY <1>3, <1>6, <1>8, <1>14
  <2>2. buffers = Persist(st, built, m, M)
    BY <1>4, <1>15, <1>16
  <2>3. buffers = [st EXCEPT
          !.specSlots    = Fill(@, built.specSlots, L, size, Null),
          !.specLoc      = Fill(@, built.specLoc, L, size, built.specLoc[L]),
          !.specAccepted = Fill(@, built.specAccepted, L, size, 1)]
    BY <1>8, <1>14, <2>1, <2>2 DEF Persist
  <2> QED BY <1>17, <2>3
<1>19. /\ md.prefills = 0 /\ md.decodes = 0 /\ md.specs = size /\ md.slots = <<>>
       /\ md.specTokens = [t \in 0 .. size * q - 1 |-> t]
       /\ md.specSlots = [i \in 1 .. size |-> buffers.specSlots[i]]
       /\ md.specLoc = [i \in 0 .. size |-> buffers.specLoc[i]]
       /\ md.specAccepted = [i \in 1 .. size |-> buffers.specAccepted[i]]
       /\ {"specs", "specSlots", "specLoc", "specTokens", "specAccepted"} \subseteq DOMAIN md
  <2>1. md = CapturedMetadata(buffers, size, q)
    BY <1>1, <1>2 DEF GdnRead
  <2>2. q > 1
    BY <1>2
  <2> QED BY <2>1, <2>2 DEF CapturedMetadata, NoMetadata
<1>20. L \in Nat /\ size \in Nat /\ L <= size
  BY <1>3, <1>6
<1>21. ASSUME NEW k \in 1 .. size
       PROVE  /\ k <= L => /\ md.specSlots[k] = b[k].req /\ md.specAccepted[k] = b[k].accepted
              /\ L < k => md.specSlots[k] = Null
  <2>1. k \in DOMAIN st.specSlots /\ k \in DOMAIN st.specAccepted /\ k \in Int
    BY <1>3, <1>17
  <2>2. /\ k <= L => md.specSlots[k] = built.specSlots[k]
        /\ L < k => md.specSlots[k] = Null
    <3>1. PICK f, s, z : f = Fill(s, built.specSlots, L, size, z) /\ s = st.specSlots /\ z = Null
      OBVIOUS
    <3>4. /\ k <= L => f[k] = built.specSlots[k]
          /\ L < k /\ k <= size => f[k] = z
      BY <1>20, <2>1, <3>1, FillIs
    <3>2. md.specSlots[k] = buffers.specSlots[k] /\ k <= size
      BY <1>19, <1>20
    <3> QED BY <1>18, <3>1, <3>2, <3>4
  <2>3. k <= L => md.specAccepted[k] = built.specAccepted[k]
    <3>1. k <= L => Fill(st.specAccepted, built.specAccepted, L, size, 1)[k] = built.specAccepted[k]
      <4>1. PICK f, s, a : f = Fill(s, a, L, size, 1) /\ s = st.specAccepted /\ a = built.specAccepted
        OBVIOUS
      <4>2. k \in DOMAIN s
        BY <2>1, <4>1
      <4>3. k <= L => f[k] = a[k]
        BY <1>20, <2>1, <4>1, <4>2, FillIs
      <4> QED BY <4>1, <4>3
    <3>2. md.specAccepted[k] = buffers.specAccepted[k]
      BY <1>19
    <3> QED BY <1>18, <3>1, <3>2
  <2>4. k <= L => built.specSlots[k] = b[k].req /\ built.specAccepted[k] = b[k].accepted
    <3> SUFFICES ASSUME k <= L PROVE built.specSlots[k] = b[k].req /\ built.specAccepted[k] = b[k].accepted
      OBVIOUS
    <3>1. k \in 1 .. L /\ k \in 1 .. Len(w) /\ w[k] = k
      BY <1>11
    <3> QED BY <1>8, <1>14, <3>1 DEF Chosen
  <2> QED BY <2>2, <2>3, <2>4
<1>22. ASSUME NEW k \in 0 .. L PROVE md.specLoc[k] = cu[k]
  <2>1. k \in DOMAIN st.specLoc /\ k \in Int /\ k <= L /\ k \in 0 .. size
    BY <1>3, <1>6, <1>17
  <2>2. md.specLoc[k] = built.specLoc[k]
    <3>1. PICK pad : pad = built.specLoc[L]
      OBVIOUS
    <3>2. Fill(st.specLoc, built.specLoc, L, size, pad)[k] = built.specLoc[k]
      BY <1>20, <2>1, FillIs
    <3>3. md.specLoc[k] = buffers.specLoc[k]
      BY <1>19, <2>1
    <3> QED BY <1>18, <3>1, <3>2, <3>3
  <2> QED BY <1>8, <1>14, <2>2
<1>23. ASSUME NEW k \in 1 .. L PROVE SpecPlaceIs(md, b, k, k)
  <2>1. k - 1 \in 0 .. L /\ k \in 0 .. L /\ k \in 1 .. Len(b) /\ k \in 1 .. size /\ k <= L
    BY <1>6, <1>20
  <2>2. b[k].n \in Nat \ {0} /\ b[k].req = k
    BY <1>4, <2>1 DEF Batch, RowFacts
  <2>3. cu[k] = cu[k - 1] + b[k].n /\ cu[k - 1] \in Nat
    BY <1>4, <1>7, <2>1, RowCounts
  <2>4. cu[k] <= q * L
    <3>1. Count(b) = q * L /\ cu[k] <= Count(b)
      BY <1>3, <1>4, <1>6, <1>7, <2>1, CountIs
    <3> QED BY <3>1
  <2>5. q * L <= size * q /\ q * L \in Nat /\ size * q \in Nat
    <3>1. q * L <= q * size
      BY <1>6, <1>20, TimesMonotone
    <3>2. q * size = size * q /\ q * L \in Nat /\ size * q \in Nat
      BY <1>20
    <3> QED BY <3>1, <3>2
  <2>6. \A j \in 0 .. b[k].n - 1 : cu[k - 1] + j \in 0 .. size * q - 1
    <3>1. PICK x \in Nat, y \in Nat, n \in Nat : x = q * L /\ y = size * q /\ n = b[k].n
      BY <2>2, <2>5
    <3>2. PICK c \in Nat : c = cu[k - 1] /\ c + n <= x /\ x <= y
      BY <2>3, <2>4, <2>5, <3>1
    <3>3. \A j \in 0 .. n - 1 : c + j \in 0 .. y - 1
      BY <3>2
    <3> QED BY <3>1, <3>2, <3>3
  <2>7. md.specLoc[k - 1] = cu[k - 1] /\ md.specLoc[k] = cu[k]
    BY <1>22, <2>1
  <2>8. md.specSlots[k] = k /\ md.specAccepted[k] = b[k].accepted
    BY <1>21, <2>1, <2>2
  <2>9. \A j \in 0 .. b[k].n - 1 :
          /\ md.specLoc[k - 1] + j \in DOMAIN md.specTokens
          /\ md.specTokens[md.specLoc[k - 1] + j] = CuSum(Scheduled(b))[k - 1] + j
    BY <1>7, <1>19, <2>6, <2>7
  <2> QED BY <2>1, <2>3, <2>7, <2>8, <2>9 DEF SpecPlaceIs
<1>24. PICK K, pick : K = 1 .. L /\ \A k \in 1 .. L : pick[k] = k
  BY <1>11
<1>25. SpecLists(md, b, K, pick)
  <2>1. \A k \in K : SpecPlaceIs(md, b, k, pick[k])
    BY <1>23, <1>24
  <2>2. md.specTokens = [t \in DOMAIN md.specTokens |-> t]
    BY <1>19
  <2>3. \A k \in (1 .. md.specs) \ K : md.specSlots[k] = Null
    BY <1>19, <1>20, <1>21, <1>24
  <2>4. md.specs \in Nat /\ K \subseteq 1 .. md.specs
    BY <1>19, <1>20, <1>24
  <2> QED BY <1>19, <2>1, <2>2, <2>3, <2>4 DEF SpecLists
<1>26. Lists(md, b, 0, {}, pick)
  BY <1>19 DEF Lists
<1>27. {pick[k] : k \in {}} \cup {pick[k] : k \in K} = 1 .. Len(b)
  BY <1>6, <1>24
<1> QED BY <1>1, <1>4, <1>25, <1>26, <1>27, AllKernels DEF Exact

\* No drafts: the padded batch is all decodes, one token each.
LEMMA FullPlainExact ==
  ASSUME StepInv, Served, key.mode = "FULL", QueryLen = 1, ~SpecPath(rows), Accepts(rows),
         NEW md, md = GdnRead
  PROVE  Exact(md, rows)
<1>1. PICK size, m, b : size = key.desc.reqs /\ m = Meta /\ b = rows
  OBVIOUS
<1>2. PICK M \in Nat : M = MaxBs
  BY FullFits
<1>3. /\ size \in Nat \ {0} /\ size <= M /\ Len(b) <= size /\ PaddedReqs(rows, key) = size
      /\ IsUniform(b, 1)
  BY <1>1, <1>2, FullFits
<1>4. Batch(b) /\ buffers = Persist(StaleBuffers(M), BuildGdn(m), m, M)
  BY <1>1, <1>2, ServedIs
<1>5. GdnGiven(m, b, size)
  BY <1>1, <1>3, GdnMetaIs
<1>6. PICK L \in Nat \ {0} : L = Len(b) /\ L <= size
  <2>1. Len(b) \in 1 .. MaxRows
    BY <1>4 DEF Batch
  <2>2. Len(b) \in Nat \ {0}
    BY <2>1
  <2> QED BY <1>3, <2>2
<1>7. PICK cu : cu = CuSum(Scheduled(b))
  OBVIOUS
<1>8. \A i \in 1 .. L : b[i].n = 1
  BY <1>3, <1>6 DEF IsUniform, Longs
<1>9. \A i \in 0 .. L : cu[i] = i
  BY <1>4, <1>6, <1>7, <1>8, OnesSum
<1>10. /\ m.reqs = size /\ (\A i \in 0 .. L : m.loc[i] = cu[i])
       /\ \A i \in 1 .. size : m.state[i] = IF i <= L THEN b[i].req ELSE Null
  BY <1>5, <1>6, <1>7 DEF GdnGiven
<1>11. ASSUME NEW i \in 1 .. size PROVE QueryLenOf(m, i) \in Int /\ QueryLenOf(m, i) <= 1
  <2>1. Width(b, i) \in {0, 1}
    <3>1. i <= L => i \in 1 .. L
      BY <1>3
    <3> QED BY <1>6, <1>8, <3>1 DEF Width
  <2>2. i - 1 \in 0 .. size
    BY <1>3
  <2>3. m.loc[i] = m.loc[i - 1] + Width(b, i) /\ m.loc[i - 1] \in Nat
    BY <1>5, <2>2 DEF GdnGiven
  <2>4. QueryLenOf(m, i) = Width(b, i)
    BY <2>1, <2>3 DEF QueryLenOf
  <2> QED BY <2>1, <2>4
<1>12. LeadingDecodes(m) = size
  <2>1. PICK d : d = LeadingDecodes(m)
    OBVIOUS
  <2>2. size \in Nat /\ m.reqs = size /\ \A i \in 1 .. size : QueryLenOf(m, i) \in Int
    BY <1>3, <1>10, <1>11
  <2>3. d \in 0 .. size /\ (d < size => QueryLenOf(m, d + 1) > 1)
    <3>1. Leads(m, size, d)
      BY <2>1, <2>2, LeadingIs
    <3> QED BY <3>1 DEF Leads
  <2>4. d < size => d + 1 \in 1 .. size
    BY <2>2, <2>3
  <2>5. ~(d < size)
    BY <1>11, <2>3, <2>4
  <2> QED BY <2>1, <2>2, <2>3, <2>5
<1>13. PICK built : built = PlainMetadata(m)
  OBVIOUS
<1>14. /\ built.prefills = 0 /\ built.decodes = size /\ built.specs = 0
       /\ built.slots = m.state /\ built.loc = m.loc
  <2>1. m.reqs - LeadingDecodes(m) = 0
    BY <1>3, <1>10, <1>12
  <2> QED BY <1>12, <1>13, <2>1 DEF PlainMetadata, NoMetadata
<1>15. BuildGdn(m) = built
  <2>1. SpecMask(m) = IF SpecPath(b) THEN Decoding(b) ELSE {}
    BY <1>4, <1>5, MaskIs
  <2>2. SpecMask(m) = {}
    BY <1>1, <2>1
  <2> QED BY <1>13, <2>2 DEF BuildGdn
<1>16. PICK st : st = StaleBuffers(M)
  OBVIOUS
<1>17. DOMAIN st.slots = 1 .. M /\ DOMAIN st.loc = 0 .. M /\ {"slots", "loc"} \subseteq DOMAIN st
  BY <1>16 DEF StaleBuffers
<1>18. /\ buffers.slots = Fill(st.slots, m.state, size, size, Null)
       /\ buffers.loc = Fill(st.loc, m.loc, size, size, m.loc[size])
  <2>1. /\ built.prefills = 0 /\ built.specs = 0 /\ built.decodes <= M /\ built.decodes # 0
    BY <1>3, <1>14
  <2>2. buffers = Persist(st, built, m, M)
    BY <1>4, <1>15, <1>16
  <2>3. buffers = [st EXCEPT !.slots = Fill(@, m.state, size, size, Null),
                             !.loc   = Fill(@, m.loc, size, size, m.loc[size])]
    BY <1>10, <1>14, <2>1, <2>2 DEF Persist
  <2> QED BY <1>17, <2>3
<1>19. /\ md.prefills = 0 /\ md.decodes = size /\ md.specs = 0
       /\ md.tokens = [t \in 0 .. size - 1 |-> t] /\ md.specTokens = NoTokens
       /\ md.slots = [i \in 1 .. size |-> buffers.slots[i]]
       /\ md.loc = [i \in 0 .. size |-> buffers.loc[i]]
       /\ {"specs", "specSlots", "specLoc", "specTokens", "specAccepted"} \subseteq DOMAIN md
  <2>1. md = CapturedMetadata(buffers, size, 1)
    BY <1>1 DEF GdnRead
  <2> QED BY <2>1 DEF CapturedMetadata, NoMetadata
<1>20. size \in Nat /\ size <= size
  BY <1>3
<1>21. ASSUME NEW k \in 1 .. size PROVE md.slots[k] = IF k <= L THEN b[k].req ELSE Null
  <2>1. k \in DOMAIN st.slots /\ k \in Int /\ k <= size
    BY <1>3, <1>17
  <2>2. PICK f, s, z : f = Fill(s, m.state, size, size, z) /\ s = st.slots /\ z = Null
    OBVIOUS
  <2>3. f[k] = m.state[k]
    BY <1>20, <2>1, <2>2, FillIs
  <2>4. md.slots[k] = f[k]
    BY <1>18, <1>19, <2>2
  <2> QED BY <1>10, <2>3, <2>4
<1>22. ASSUME NEW k \in 0 .. L PROVE md.loc[k] = k
  <2>1. k \in DOMAIN st.loc /\ k \in Int /\ k <= size /\ k \in 0 .. size
    BY <1>3, <1>6, <1>17
  <2>2. PICK f, s, z : f = Fill(s, m.loc, size, size, z) /\ s = st.loc /\ z = m.loc[size]
    OBVIOUS
  <2>3. f[k] = m.loc[k]
    BY <1>20, <2>1, <2>2, FillIs
  <2>4. md.loc[k] = f[k]
    BY <1>18, <1>19, <2>1, <2>2
  <2> QED BY <1>9, <1>10, <2>3, <2>4
<1>23. ASSUME NEW k \in 1 .. L PROVE PlaceIs(md, b, k, k)
  <2>1. /\ k - 1 \in 0 .. L /\ k \in 0 .. L /\ k \in 1 .. Len(b) /\ k \in 1 .. size /\ k <= L
        /\ k - 1 \in 0 .. size - 1 /\ k - 1 \in Nat /\ k = (k - 1) + 1
    BY <1>6, <1>20
  <2>2. b[k].n = 1 /\ b[k].req = k
    BY <1>4, <1>8, <2>1 DEF Batch
  <2>3. b[k].accepted = 1
    BY <1>1, <2>1 DEF Accepts
  <2>4. md.slots[k] = k
    BY <1>21, <2>1, <2>2
  <2>5. md.loc[k - 1] = k - 1 /\ md.loc[k] = k /\ CuSum(Scheduled(b))[k - 1] = k - 1
    BY <1>7, <1>9, <1>22, <2>1
  <2>6. \A j \in 0 .. b[k].n - 1 :
          md.loc[k - 1] + j \in DOMAIN md.tokens /\ md.tokens[md.loc[k - 1] + j] = (k - 1) + j
    <3>1. \A j \in 0 .. 0 : j = 0
      OBVIOUS
    <3>2. 1 - 1 = 0 /\ (k - 1) + 0 = k - 1
      OBVIOUS
    <3>3. k - 1 \in DOMAIN md.tokens /\ md.tokens[k - 1] = k - 1
      BY <1>19, <2>1
    <3> QED BY <2>2, <2>5, <3>1, <3>2, <3>3
  <2> QED BY <1>19, <2>1, <2>2, <2>3, <2>4, <2>5, <2>6 DEF PlaceIs
<1>24. PICK K, pick : K = 1 .. L /\ \A k \in 1 .. L : pick[k] = k
  <2> DEFINE f == [k \in 1 .. L |-> k]
  <2>1. \A k \in 1 .. L : f[k] = k
    OBVIOUS
  <2> HIDE DEF f
  <2> QED BY <2>1
<1>25. Lists(md, b, size, K, pick)
  <2>1. DOMAIN md.slots = 1 .. size
    BY <1>19
  <2>2. Len(md.slots) = size
    <3>1. md.slots \in [1 .. size -> {buffers.slots[i] : i \in 1 .. size}]
      BY <1>19
    <3> QED BY <1>20, <3>1, LenOfFunction
  <2>3. \A k \in K : PlaceIs(md, b, k, pick[k])
    BY <1>23, <1>24
  <2>4. \A k \in (1 .. size) \ K : md.slots[k] = Null
    <3> SUFFICES ASSUME NEW k \in 1 .. size, k \notin K PROVE md.slots[k] = Null
      OBVIOUS
    <3>1. ~(k <= L)
      BY <1>24
    <3> QED BY <1>21, <3>1
  <2>5. K \subseteq 1 .. size
    BY <1>6, <1>20, <1>24
  <2>6. md.decodes \in Nat /\ md.prefills \in Nat /\ md.decodes + md.prefills = size /\ ~(md.prefills > 0)
    BY <1>19, <1>20
  <2> QED BY <1>19, <1>20, <2>1, <2>2, <2>3, <2>4, <2>5, <2>6 DEF Lists
<1>26. SpecLists(md, b, {}, pick)
  <2>1. md.specTokens = [t \in DOMAIN md.specTokens |-> t]
    BY <1>19 DEF NoTokens
  <2> QED BY <1>19, <2>1 DEF SpecLists
<1>27. {pick[k] : k \in K} \cup {pick[k] : k \in {}} = 1 .. Len(b)
  BY <1>6, <1>24
<1> QED BY <1>1, <1>4, <1>25, <1>26, <1>27, AllKernels DEF Exact

-----------------------------------------------------------------------------
\* However a batch mixes drafts, decodes, prefills and padding, and whatever the
\* buffers held before, every kernel of the recurrent layers runs exactly one
\* sequence per request, from that request's state, as long as no prefill is as
\* short as a uniform decode (GDNAttentionMetadataBuilder.build, _forward_core).
THEOREM RecurrentCorrect ==
  ASSUME ~ShortPrefills
  PROVE  Spec => []RecurrentExact
<1>1. StepInv => RecurrentExact
  <2> SUFFICES ASSUME StepInv, Served PROVE Exact(GdnRead, rows)
    BY DEF RecurrentExact, Exact, OneSequencePerRow, SequencesOf, SequenceOf, LoadOf, Fresh, Rows, Cu
  <2>1. config \in Configs /\ Batch(rows)
    BY ServedIs
  <2>2. PICK blocks : Admissible(config, rows, blocks)
    BY ServedIs
  <2>3. Accepts(rows)
    BY <2>2 DEF Admissible, Accepts
  <2>4. PICK md : md = GdnRead
    OBVIOUS
  <2>5. CASE key.mode = "FULL"
    <3>1. IsUniform(rows, QueryLen) /\ QueryLen = 1 + config.spec /\ config.spec \in Nat
      BY <2>1, <2>5, FullFits, StepAssumption DEF QueryLen
    <3>2. CASE config.spec = 0
      <4>1. \A i \in 1 .. Len(rows) : rows[i].drafts = -1
        BY <2>2, <3>2 DEF Admissible
      <4>2. ~SpecPath(rows)
        <5>1. Decoding(rows) \subseteq 1 .. Len(rows) /\ ~(-1 > 0)
          BY <2>1, DecodingIs
        <5> QED BY <4>1, <5>1 DEF SpecPath
      <4>3. QueryLen = 1
        BY <3>1, <3>2
      <4> QED BY <2>3, <2>4, <2>5, <4>2, <4>3, FullPlainExact
    <3>3. CASE config.spec # 0
      <4>1. Decoding(rows) = 1 .. Len(rows)
        BY <2>2, <3>1, <3>3 DEF Admissible
      <4>2. SpecPath(rows)
        <5>1. Len(rows) \in Nat \ {0} /\ 1 \in 1 .. Len(rows)
          BY <2>1, StepAssumption DEF Batch
        <5>2. 1 \in Decoding(rows) /\ DecodesOver(rows[1])
          BY <2>1, <4>1, <5>1, DecodingIs
        <5>3. rows[1].n = 1 + config.spec /\ rows[1].n = rows[1].drafts + 1
          BY <3>1, <5>1, <5>2 DEF IsUniform, Longs, DecodesOver
        <5>4. DraftsOf(rows[1]) \in Nat /\ DraftsOf(rows[1]) = rows[1].drafts
          BY <2>1, <5>1, <5>2 DEF Batch, RowFacts, DraftsOf, DecodesOver
        <5>5. rows[1].drafts > 0
          BY <3>1, <3>3, <5>3, <5>4
        <5> QED BY <5>2, <5>5 DEF SpecPath
      <4>3. QueryLen > 1
        BY <3>1, <3>3
      <4> QED BY <2>4, <2>5, <4>1, <4>2, <4>3, FullDraftsExact
    <3> QED BY <3>2, <3>3
  <2>6. CASE key.mode # "FULL"
    <3>1. PaddedReqs(rows, key) = Len(rows)
      BY <2>6 DEF PaddedReqs
    <3>2. GdnGiven(Meta, rows, Len(rows))
      BY <3>1, GdnMetaIs
    <3>3. md = BuildGdn(Meta)
      BY <2>4, <2>6 DEF GdnRead
    <3>4. SpecMask(Meta) = IF SpecPath(rows) THEN Decoding(rows) ELSE {}
      BY <2>1, <3>2, MaskIs
    <3>5. CASE ~SpecPath(rows)
      <4>1. md = PlainMetadata(Meta)
        BY <3>3, <3>4, <3>5 DEF BuildGdn
      <4>2. Exact(md, rows)
        BY <2>1, <2>3, <3>2, <3>5, <4>1, PlainExact
      <4> QED BY <2>4, <4>2
    <3>6. CASE SpecPath(rows)
      <4>1. SpecMask(Meta) = Decoding(rows) /\ Decoding(rows) # {}
        BY <3>4, <3>6 DEF SpecPath
      <4>2. md = SpecMetadata(Meta)
        BY <3>3, <4>1 DEF BuildGdn
      <4>3. CASE Decoding(rows) = 1 .. Len(rows)
        <5>1. Exact(md, rows)
          BY <2>1, <3>2, <4>1, <4>2, <4>3, PureExact
        <5> QED BY <2>4, <5>1
      <4>4. CASE Decoding(rows) # 1 .. Len(rows)
        <5>1. Exact(md, rows)
          BY <2>1, <2>3, <3>2, <4>1, <4>2, <4>4, MixedExact
        <5> QED BY <2>4, <5>1
      <4> QED BY <4>3, <4>4
    <3> QED BY <3>5, <3>6
  <2> QED BY <2>5, <2>6
<1> QED BY <1>1, StepInvariant, PTL
=============================================================================
