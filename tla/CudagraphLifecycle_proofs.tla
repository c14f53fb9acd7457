------------------------ MODULE CudagraphLifecycle_proofs ------------------------
(* The life of the captured graphs, for every list of sizes, number of     *)
(* requests and of adapters.                                               *)
EXTENDS CudagraphLifecycle, CudagraphKeys_proofs

-----------------------------------------------------------------------------
(* Padding.                                                                *)

\* A batch up to the largest graph is padded to a captured size that holds it.
LEMMA PaddedFits ==
  ASSUME NEW n \in 1 .. MaxCapture
  PROVE  /\ Padded(n) \in Sizes /\ Padded(n) \in Nat \ {0}
         /\ n <= Padded(n) /\ Padded(n) % QueryLen = 0
<1>1. IsLeastCapture(n, Padded(n))
  BY PaddedIsLeast
<1>2. PICK i \in Index : Padded(n) = CaptureSizes[i]
  BY <1>1 DEF IsLeastCapture, Index
<1>3. CaptureSizes[i] \in Nat \ {0} /\ CaptureSizes[i] % QueryLen = 0
  BY SizesType, DivisibleAssumption DEF Index
<1>4. Padded(n) >= n
  BY <1>1 DEF IsLeastCapture
<1> QED BY <1>2, <1>3, <1>4 DEF Sizes, Index

\* A captured size is padded to itself.
LEMMA PaddedIsFixed ==
  ASSUME NEW size \in Sizes
  PROVE  size \in 1 .. MaxCapture /\ Padded(size) = size
<1>1. PICK i \in Index : size = CaptureSizes[i]
  BY DEF Sizes, Index
<1>2. size \in 1 .. MaxCapture
  BY <1>1, SizesType, KeysAssumption DEF Index
<1>3. IsLeastCapture(size, Padded(size))
  BY <1>2, PaddedIsLeast
<1>4. Padded(size) <= size
  BY <1>1, <1>3, SizesType DEF IsLeastCapture, Index
<1> QED BY <1>2, <1>4, PaddedFits

-----------------------------------------------------------------------------
(* Adapters.                                                               *)

LEMMA LoraCasesType == LoraCases \subseteq Nat /\ (MaxLoras > 0 => MaxLoras + 1 \in LoraCases)
  BY KeysAssumption DEF LoraCases, CapturedLoraCounts

\* A captured count stands for itself.
LEMMA EffectiveIsFixed ==
  ASSUME NEW k \in LoraCases
  PROVE  EffectiveLoras(k) = k
<1>1. k \in Nat /\ LoraCases \subseteq Nat
  BY LoraCasesType
<1>2. CASE k = 0
  BY <1>2 DEF EffectiveLoras
<1>3. CASE k # 0 /\ ~SpecializeCount
  BY <1>3, KeysAssumption DEF EffectiveLoras, LoraCases, CapturedLoraCounts
<1>4. CASE k # 0 /\ SpecializeCount
  <2> DEFINE Least(x) == x \in LoraCases \ {0} /\ x >= k /\ \A j \in LoraCases \ {0} : j >= k => x <= j
  <2>1. Least(k)
    BY <1>1, <1>4
  <2>2. \A x \in LoraCases \ {0} : x >= k /\ (\A j \in LoraCases \ {0} : j >= k => x <= j) => x = k
    BY <1>1, <1>4
  <2>3. EffectiveLoras(k) = CHOOSE x \in LoraCases \ {0} : x >= k /\ \A j \in LoraCases \ {0} : j >= k => x <= j
    BY <1>1, <1>4 DEF EffectiveLoras
  <2> QED BY <2>1, <2>2, <2>3
<1> QED BY <1>2, <1>3, <1>4, KeysAssumption

\* Active adapters go to a captured count that holds them.
LEMMA EffectiveHolds ==
  ASSUME NEW l \in 0 .. MaxLoras
  PROVE  /\ EffectiveLoras(l) >= l
         /\ l = 0 => EffectiveLoras(l) = 0
         /\ (l > 0 \/ 0 \in LoraCases) => EffectiveLoras(l) \in LoraCases
<1>1. CASE l = 0
  BY <1>1 DEF EffectiveLoras
<1>2. CASE l > 0
  <2>1. MaxLoras + 1 \in LoraCases /\ MaxLoras \in Nat /\ LoraCases \subseteq Nat
    BY <1>2, LoraCasesType, KeysAssumption
  <2>2. CASE ~SpecializeCount
    BY <1>2, <2>1, <2>2 DEF EffectiveLoras
  <2>3. CASE SpecializeCount
    <3> DEFINE Holding == {k \in LoraCases \ {0} : k >= l}
    <3>0. MaxLoras + 1 \in Nat /\ MaxLoras + 1 # 0 /\ MaxLoras + 1 >= l
      BY <2>1
    <3>1. MaxLoras + 1 \in Holding /\ Holding \subseteq Nat
      BY <2>1, <3>0
    <3> DEFINE Less == OpToRel(<, Nat)
    <3>2. IsWellFoundedOn(Less, Nat)
      BY NatLessThanWellFounded
    <3>3. \A x, y \in Nat : x < y => <<x, y>> \in Less
      BY DEF OpToRel
    <3> HIDE DEF Less
    <3>4. Holding # {}
      BY <3>1
    <3> HIDE DEF Holding
    <3>5. PICK k \in Holding : \A j \in Holding : ~(<<j, k>> \in Less)
      BY <3>1, <3>2, <3>4, WFMin, Zenon
    <3>6. \A j \in Holding : k <= j
      <4> SUFFICES ASSUME NEW j \in Holding, j < k PROVE FALSE
        BY <3>1, <3>5
      <4> QED BY <3>1, <3>3, <3>5
    <3> USE DEF Holding
    <3>7. EffectiveLoras(l) = CHOOSE x \in LoraCases \ {0} : x >= l /\ \A j \in LoraCases \ {0} : j >= l => x <= j
      BY <1>2, <2>1, <2>3 DEF EffectiveLoras
    <3>8. k \in LoraCases \ {0} /\ k >= l /\ k \in Nat
      BY <3>1, <3>5
    <3>9. \A j \in LoraCases \ {0} : j >= l => k <= j
      BY <3>6
    <3>10. EffectiveLoras(l) = k
      <4> DEFINE Least(x) == x \in LoraCases \ {0} /\ x >= l /\ \A j \in LoraCases \ {0} : j >= l => x <= j
      <4>1. \A x : Least(x) => x = k
        BY <2>1, <3>8, <3>9
      <4>2. Least(k)
        BY <3>8, <3>9
      <4> QED BY <3>7, <4>1, <4>2
    <3> QED BY <1>2, <3>8, <3>10
  <2> QED BY <2>2, <2>3, KeysAssumption
<1> QED BY <1>1, <1>2

-----------------------------------------------------------------------------
(* Keys and dispatch.                                                      *)

LEMMA FieldsOfDescs ==
  ASSUME NEW tokens, NEW reqs, NEW uniform, NEW l
  PROVE  /\ Desc(tokens, reqs, uniform, l).tokens = tokens /\ Desc(tokens, reqs, uniform, l).reqs = reqs
         /\ Desc(tokens, reqs, uniform, l).uniform = uniform /\ Desc(tokens, reqs, uniform, l).loras = l
  BY DEF Desc

LEMMA PaddedDescOfSize ==
  ASSUME NEW m, NEW size \in Sizes, NEW l
  PROVE  /\ PaddedDesc(m, size, FALSE, l) = Desc(size, Smaller(size, MaxNumSeqs), FALSE, l)
         /\ SeparateRoutine(m) =>
              PaddedDesc(m, size, TRUE, l) = Desc(size, Smaller(size \div QueryLen, MaxNumSeqs), TRUE, l)
<1>1. Padded(size) = size
  BY PaddedIsFixed
<1>2. PaddedDesc(m, size, FALSE, l) = Desc(Padded(size), Smaller(Padded(size), MaxNumSeqs), FALSE, l)
  BY DEF PaddedDesc
<1>3. ASSUME SeparateRoutine(m)
      PROVE  PaddedDesc(m, size, TRUE, l) = Desc(Padded(size), Smaller(Padded(size) \div QueryLen, MaxNumSeqs), TRUE, l)
  BY <1>3 DEF PaddedDesc, HasFull
<1> QED BY <1>1, <1>2, <1>3

LEMMA RelaxedOfSize ==
  ASSUME NEW m, NEW size \in Sizes, NEW l
  PROVE  Relaxed(PaddedDesc(m, size, FALSE, l)) = Desc(size, 0, FALSE, l)
<1>1. PaddedDesc(m, size, FALSE, l) = Desc(size, Smaller(size, MaxNumSeqs), FALSE, l)
  BY PaddedDescOfSize, Zenon
<1> DEFINE d == Desc(size, Smaller(size, MaxNumSeqs), FALSE, l)
<1>2. d.tokens = size /\ d.loras = l
  BY Zenon DEF Desc
<1> HIDE DEF d
<1>3. Relaxed(d) = Desc(size, 0, FALSE, l)
  BY <1>2, Zenon DEF Relaxed
<1> USE DEF d
<1> QED BY <1>1, <1>3, Zenon

\* The three kinds of keys.
MixedPiecewise(size, l) == Key("PIECEWISE", Desc(size, 0, FALSE, l))
MixedFull(size, l)      == Key("FULL", Desc(size, Smaller(size, MaxNumSeqs), FALSE, l))
DecodeFull(size, l)     == Key("FULL", Desc(size, Smaller(size \div QueryLen, MaxNumSeqs), TRUE, l))

LEMMA ModeCases ==
  ASSUME NEW m \in Modes
  PROVE  /\ MixedMode(m) \in RuntimeModes
         /\ MixedMode(m) = "PIECEWISE" => m # "FULL" /\ m # "NONE"
         /\ MixedMode(m) = "FULL" <=> m = "FULL"
         /\ SeparateRoutine(m) => m # "FULL" /\ m # "NONE"
  BY DEF Modes, RuntimeModes, MixedMode, SeparateRoutine

\* The keys of a mode are those of its mixed batches and of its decodes, ...
LEMMA MixedKeyForm ==
  ASSUME NEW m \in Modes, NEW size \in Sizes, NEW l, MixedMode(m) # "NONE"
  PROVE  MixedKey(m, size, l) = IF m = "FULL" THEN MixedFull(size, l) ELSE MixedPiecewise(size, l)
<1>1. CASE m = "FULL"
  <2>1. MixedMode(m) = "FULL" /\ MixedMode(m) # "PIECEWISE"
    BY <1>1, ModeCases
  <2> QED BY <1>1, <2>1, PaddedDescOfSize, Zenon DEF MixedKey, MixedFull
<1>2. CASE m # "FULL"
  <2>1. MixedMode(m) = "PIECEWISE"
    BY <1>2, ModeCases DEF RuntimeModes
  <2> QED BY <1>2, <2>1, RelaxedOfSize, Zenon DEF MixedKey, MixedPiecewise
<1> QED BY <1>1, <1>2

\* The keys of a mode are those of its mixed batches and of its decodes, ...
LEMMA KeyForms ==
  ASSUME NEW m \in Modes, NEW k \in KeysOf(m)
  PROVE  \E size \in Sizes, l \in LoraCases :
           \/ MixedMode(m) = "PIECEWISE" /\ k = MixedPiecewise(size, l)
           \/ m = "FULL" /\ k = MixedFull(size, l)
           \/ SeparateRoutine(m) /\ size \in DecodeSizes /\ k = DecodeFull(size, l)
<1>1. CASE k \in MixedKeys(m)
  <2>1. PICK size \in Sizes, l \in LoraCases : k = MixedKey(m, size, l)
    BY <1>1 DEF MixedKeys
  <2>2. MixedMode(m) # "NONE"
    BY <1>1 DEF MixedKeys
  <2> QED BY <2>1, <2>2, MixedKeyForm, ModeCases DEF RuntimeModes
<1>2. CASE k \in DecodeKeys(m)
  <2>1. SeparateRoutine(m) /\ DecodeSizes \subseteq Sizes
    BY <1>2 DEF DecodeKeys, DecodeSizes
  <2>2. PICK size \in DecodeSizes, l \in LoraCases : k = DecodeKey(m, size, l)
    BY <1>2, <2>1 DEF DecodeKeys
  <2>3. size \in Sizes
    BY <2>1
  <2>4. k = DecodeFull(size, l)
    BY <2>1, <2>2, <2>3, PaddedDescOfSize, Zenon DEF DecodeKey, DecodeFull
  <2> QED BY <2>1, <2>3, <2>4
<1> QED BY <1>1, <1>2 DEF KeysOf

\* ... and all of them.
LEMMA KeysAreThere ==
  ASSUME NEW m \in Modes, NEW size \in Sizes, NEW l \in LoraCases
  PROVE  /\ MixedMode(m) = "PIECEWISE" => MixedPiecewise(size, l) \in KeysOf(m)
         /\ m = "FULL" => MixedFull(size, l) \in KeysOf(m)
<1>1. ASSUME MixedMode(m) # "NONE" PROVE MixedKey(m, size, l) \in KeysOf(m)
  BY <1>1 DEF MixedKeys, KeysOf
<1> QED BY <1>1, MixedKeyForm, ModeCases

LEMMA FieldsOfKeys ==
  ASSUME NEW size, NEW l
  PROVE  /\ MixedPiecewise(size, l).mode = "PIECEWISE" /\ MixedPiecewise(size, l).desc = Desc(size, 0, FALSE, l)
         /\ MixedFull(size, l).mode = "FULL"
         /\ MixedFull(size, l).desc = Desc(size, Smaller(size, MaxNumSeqs), FALSE, l)
         /\ DecodeFull(size, l).mode = "FULL"
         /\ DecodeFull(size, l).desc = Desc(size, Smaller(size \div QueryLen, MaxNumSeqs), TRUE, l)
  BY DEF MixedPiecewise, MixedFull, DecodeFull, Key

\* Uniform descriptors are full, and so are all of mode FULL.
LEMMA KeyMode ==
  ASSUME NEW m \in Modes, NEW k \in KeysOf(m)
  PROVE  /\ k = Key(k.mode, k.desc)
         /\ k.mode = IF m = "FULL" \/ k.desc.uniform = TRUE THEN "FULL" ELSE "PIECEWISE"
<1>1. PICK size \in Sizes, l \in LoraCases :
         \/ MixedMode(m) = "PIECEWISE" /\ k = MixedPiecewise(size, l)
         \/ m = "FULL" /\ k = MixedFull(size, l)
         \/ SeparateRoutine(m) /\ size \in DecodeSizes /\ k = DecodeFull(size, l)
  BY KeyForms
<1>2. k = Key(k.mode, k.desc)
  BY <1>1, FieldsOfKeys, Zenon DEF MixedPiecewise, MixedFull, DecodeFull
<1>3. CASE MixedMode(m) = "PIECEWISE" /\ k = MixedPiecewise(size, l)
  <2>1. k.mode = "PIECEWISE" /\ k.desc = Desc(size, 0, FALSE, l) /\ m # "FULL"
    BY <1>3, ModeCases, FieldsOfKeys
  <2>2. k.desc.uniform = FALSE
    BY <2>1 DEF Desc
  <2> QED BY <1>2, <2>1, <2>2
<1>4. CASE m = "FULL" /\ k = MixedFull(size, l)
  BY <1>2, <1>4, FieldsOfKeys
<1>5. CASE SeparateRoutine(m) /\ k = DecodeFull(size, l)
  <2>1. k.mode = "FULL" /\ k.desc = Desc(size, Smaller(size \div QueryLen, MaxNumSeqs), TRUE, l)
    BY <1>5, FieldsOfKeys
  <2>2. k.desc.uniform = TRUE
    BY <2>1 DEF Desc
  <2> QED BY <1>2, <2>1, <2>2
<1> QED BY <1>1, <1>3, <1>4, <1>5

\* A descriptor belongs to one key of a mode: the breakable wrapper may look
\* graphs up by descriptor alone.
LEMMA DescriptorIsKey ==
  ASSUME NEW m \in Modes, NEW a \in KeysOf(m), NEW b \in KeysOf(m), a.desc = b.desc
  PROVE  a = b
<1>1. a = Key(a.mode, a.desc) /\ b = Key(b.mode, b.desc)
  BY KeyMode
<1>2. a.mode = b.mode
  BY KeyMode
<1> QED BY <1>1, <1>2

LEMMA NotEager ==
  ASSUME NEW m \in Modes, m # "NONE", NEW size \in Sizes
  PROVE  ~RunsEager(m, TRUE, size, RuntimeModes)
<1>1. size <= MaxCapture /\ size \in Int /\ MaxCapture \in Int
  BY PaddedIsFixed, SizesType, KeysAssumption DEF Index
<1> QED BY <1>1 DEF RunsEager, RuntimeModes

\* The capture run of a key is dispatched to that key, and its size divides.
LEMMA CapturedIsDispatched ==
  ASSUME NEW m \in Modes, NEW k \in KeysOf(m)
  PROVE  /\ Dispatch(m, TRUE, KeysOf(m), k.desc.tokens, k.desc.uniform, k.desc.loras, RuntimeModes) = k
         /\ Divisible(m, k.desc.tokens, NormalizedUniform(m, k.desc.uniform))
<1> DEFINE D == PaddedDesc(m, k.desc.tokens, NormalizedUniform(m, k.desc.uniform), EffectiveLoras(k.desc.loras))
<1>1. PICK size \in Sizes, l \in LoraCases :
         \/ MixedMode(m) = "PIECEWISE" /\ k = MixedPiecewise(size, l)
         \/ m = "FULL" /\ k = MixedFull(size, l)
         \/ SeparateRoutine(m) /\ size \in DecodeSizes /\ k = DecodeFull(size, l)
  BY KeyForms
<1>2. k.desc.tokens = size /\ k.desc.loras = l
  <2>1. k.desc \in {Desc(size, 0, FALSE, l), Desc(size, Smaller(size, MaxNumSeqs), FALSE, l),
                    Desc(size, Smaller(size \div QueryLen, MaxNumSeqs), TRUE, l)}
    BY <1>1, FieldsOfKeys, Zenon
  <2> QED BY <2>1 DEF Desc
<1>3. EffectiveLoras(l) = l
  BY EffectiveIsFixed
<1>4. m # "NONE"
  BY <1>1, ModeCases
<1>5. ~RunsEager(m, TRUE, k.desc.tokens, RuntimeModes)
  BY <1>2, <1>4, NotEager
<1>6. Divisible(m, k.desc.tokens, NormalizedUniform(m, k.desc.uniform))
  BY <1>2, PaddedIsFixed, PaddedFits DEF Divisible
<1>7. Dispatch(m, TRUE, KeysOf(m), k.desc.tokens, k.desc.uniform, k.desc.loras, RuntimeModes) =
        IF Key("FULL", D) \in KeysOf(m) THEN Key("FULL", D)
        ELSE IF Key("PIECEWISE", Relaxed(D)) \in KeysOf(m) THEN Key("PIECEWISE", Relaxed(D))
        ELSE Key("NONE", Unpadded(k.desc.tokens))
  BY <1>5, Zenon DEF Dispatch, RuntimeModes
<1>8. k = Key(k.mode, k.desc)
  BY KeyMode
<1>9. CASE MixedMode(m) = "PIECEWISE" /\ k = MixedPiecewise(size, l)
  <2>1. k.mode = "PIECEWISE" /\ k.desc = Desc(size, 0, FALSE, l) /\ m # "FULL"
    BY <1>9, ModeCases, FieldsOfKeys
  <2>2. k.desc.uniform = FALSE
    BY <2>1 DEF Desc
  <2>3. NormalizedUniform(m, k.desc.uniform) = FALSE
    BY <2>2 DEF NormalizedUniform
  <2>4. D = Desc(size, Smaller(size, MaxNumSeqs), FALSE, l)
    BY ZenonT(60), <1>2, <1>3, <2>3, PaddedDescOfSize
  <2>5. D = PaddedDesc(m, size, FALSE, l)
    BY <1>2, <1>3, <2>3, Zenon
  <2>6. Relaxed(D) = k.desc
    BY <2>1, <2>5, RelaxedOfSize, Zenon
  <2>7. D.uniform = FALSE
    BY <2>4 DEF Desc
  <2> HIDE DEF D
  <2>8. Key("FULL", D) \notin KeysOf(m)
    <3>1. Key("FULL", D).mode = "FULL" /\ Key("FULL", D).desc = D
      BY DEF Key
    <3> QED BY <2>1, <2>7, <3>1, KeyMode
  <2> QED BY <1>6, <1>7, <1>8, <2>1, <2>6, <2>8, Zenon
<1>10. CASE m = "FULL" /\ k = MixedFull(size, l)
  <2>1. k.mode = "FULL" /\ k.desc = Desc(size, Smaller(size, MaxNumSeqs), FALSE, l)
    BY <1>10, FieldsOfKeys
  <2>2. NormalizedUniform(m, k.desc.uniform) = FALSE
    BY <1>10 DEF NormalizedUniform, SeparateRoutine
  <2>3. D = k.desc
    <3>1. D = PaddedDesc(m, size, FALSE, l)
      BY <1>2, <1>3, <2>2, Zenon
    <3> QED BY <2>1, <3>1, PaddedDescOfSize, Zenon
  <2> HIDE DEF D
  <2> QED BY <1>6, <1>7, <1>8, <2>1, <2>3, Zenon
<1>11. CASE SeparateRoutine(m) /\ k = DecodeFull(size, l)
  <2>1. k.mode = "FULL" /\ k.desc = Desc(size, Smaller(size \div QueryLen, MaxNumSeqs), TRUE, l)
    BY <1>11, FieldsOfKeys
  <2>2. k.desc.uniform = TRUE
    BY <2>1 DEF Desc
  <2>3. NormalizedUniform(m, k.desc.uniform) = TRUE
    BY <1>11, <2>2 DEF NormalizedUniform
  <2>4. D = k.desc
    <3>1. D = PaddedDesc(m, size, TRUE, l)
      BY <1>2, <1>3, <2>3, Zenon
    <3> QED BY <1>11, <2>1, <3>1, PaddedDescOfSize, Zenon
  <2> HIDE DEF D
  <2> QED BY <1>6, <1>7, <1>8, <2>1, <2>4, Zenon
<1> QED BY <1>1, <1>9, <1>10, <1>11

\* A dispatched graph has the batch's padded size and adapters, and rows as the
\* batch's shape wants them.
ShapedFor(k, n, uniform, l) ==
  /\ k.desc.tokens = Padded(n) /\ k.desc.loras = EffectiveLoras(l)
  /\ \/ k.desc.uniform = FALSE /\ k.desc.reqs = 0
     \/ k.desc.uniform = FALSE /\ k.desc.reqs = Smaller(Padded(n), MaxNumSeqs)
     \/ k.desc.uniform = TRUE /\ uniform = TRUE
          /\ k.desc.reqs = Smaller(Padded(n) \div QueryLen, MaxNumSeqs)

LEMMA DispatchedGraph ==
  ASSUME NEW m \in Modes, NEW n \in Nat \ {0}, NEW uniform \in BOOLEAN, NEW l \in 0 .. MaxLoras,
         NEW allowed, NEW k, k = Dispatch(m, TRUE, KeysOf(m), n, uniform, l, allowed), k.mode # "NONE"
  PROVE  k \in KeysOf(m) /\ n <= MaxCapture /\ ShapedFor(k, n, uniform, l)
<1> DEFINE D == PaddedDesc(m, n, NormalizedUniform(m, uniform), EffectiveLoras(l))
<1>1. \/ D = Desc(Padded(n), Smaller(Padded(n), MaxNumSeqs), FALSE, EffectiveLoras(l))
      \/ /\ uniform = TRUE
         /\ D = Desc(Padded(n), Smaller(Padded(n) \div QueryLen, MaxNumSeqs), TRUE, EffectiveLoras(l))
  <2>1. CASE NormalizedUniform(m, uniform) = TRUE
    <3>1. uniform = TRUE /\ HasFull(m)
      BY <2>1 DEF NormalizedUniform, HasFull
    <3>2. D = PaddedDesc(m, n, TRUE, EffectiveLoras(l))
      BY <2>1, Zenon
    <3> QED BY <3>1, <3>2 DEF PaddedDesc
  <2>2. CASE NormalizedUniform(m, uniform) = FALSE
    <3>1. D = PaddedDesc(m, n, FALSE, EffectiveLoras(l))
      BY <2>2, Zenon
    <3>2. PaddedDesc(m, n, FALSE, EffectiveLoras(l))
            = Desc(Padded(n), Smaller(Padded(n), MaxNumSeqs), FALSE, EffectiveLoras(l))
      BY DEF PaddedDesc
    <3> HIDE DEF D
    <3> QED BY <3>1, <3>2, Zenon
  <2>3. NormalizedUniform(m, uniform) \in BOOLEAN
    BY DEF NormalizedUniform
  <2> QED BY <2>1, <2>2, <2>3
<1>2. /\ D.tokens = Padded(n) /\ D.loras = EffectiveLoras(l)
      /\ \/ D.uniform = FALSE /\ D.reqs = Smaller(Padded(n), MaxNumSeqs)
         \/ D.uniform = TRUE /\ uniform = TRUE /\ D.reqs = Smaller(Padded(n) \div QueryLen, MaxNumSeqs)
  <2> HIDE DEF D
  <2>1. CASE D = Desc(Padded(n), Smaller(Padded(n), MaxNumSeqs), FALSE, EffectiveLoras(l))
    BY <2>1 DEF Desc
  <2>2. CASE uniform = TRUE /\ D = Desc(Padded(n), Smaller(Padded(n) \div QueryLen, MaxNumSeqs), TRUE, EffectiveLoras(l))
    BY <2>2 DEF Desc
  <2> QED BY <1>1, <2>1, <2>2
<1>3. /\ Relaxed(D).tokens = Padded(n) /\ Relaxed(D).loras = EffectiveLoras(l)
      /\ Relaxed(D).uniform = FALSE /\ Relaxed(D).reqs = 0
  <2> HIDE DEF D
  <2> QED BY <1>2 DEF Relaxed, Desc
<1>4. Key("NONE", Unpadded(n)).mode = "NONE"
  BY DEF Key
<1>5. ~RunsEager(m, TRUE, n, allowed)
  BY <1>4, Zenon DEF Dispatch
<1>6. k \in KeysOf(m) /\ k \in {Key("FULL", D), Key("PIECEWISE", Relaxed(D))}
  <2> HIDE DEF D
  <2>1. \/ Key("FULL", D) \in KeysOf(m) /\ k = Key("FULL", D)
        \/ Key("PIECEWISE", Relaxed(D)) \in KeysOf(m) /\ k = Key("PIECEWISE", Relaxed(D))
    BY <1>4, Zenon DEF Dispatch, D
  <2> QED BY <2>1
<1>7. n <= MaxCapture
  <2>1. MaxCapture \in Nat
    BY SizesType, KeysAssumption DEF Index
  <2> QED BY <1>5, <2>1 DEF RunsEager
<1> HIDE DEF D
<1>8. k.desc \in {D, Relaxed(D)}
  <2>1. \A mm, d : Key(mm, d).desc = d
    BY DEF Key
  <2> QED BY <1>6, <2>1
<1> QED BY <1>2, <1>3, <1>6, <1>7, <1>8 DEF ShapedFor

\* A batch that fits a graph finds one, if the mode has graphs for mixed batches
\* that the step may use.
LEMMA FittingIsDispatched ==
  ASSUME NEW m \in Modes, NEW n \in 1 .. MaxCapture, NEW uniform \in BOOLEAN, NEW l \in 0 .. MaxLoras,
         NEW allowed, "PIECEWISE" \in allowed, "FULL" \in allowed \/ MixedMode(m) = "PIECEWISE",
         MixedMode(m) # "NONE", l > 0 \/ 0 \in LoraCases
  PROVE  Dispatch(m, TRUE, KeysOf(m), n, uniform, l, allowed).mode # "NONE"
<1> DEFINE D == PaddedDesc(m, n, NormalizedUniform(m, uniform), EffectiveLoras(l))
<1>1. Padded(n) \in Sizes /\ EffectiveLoras(l) \in LoraCases
  BY PaddedFits, EffectiveHolds
<1>2. m # "NONE"
  BY ModeCases DEF MixedMode
<1>3. MaxCapture \in Nat
  BY SizesType, KeysAssumption DEF Index
<1>4. ~RunsEager(m, TRUE, n, allowed)
  BY <1>2, <1>3 DEF RunsEager
<1>5. \A d : Key("FULL", d).mode = "FULL" /\ Key("PIECEWISE", d).mode = "PIECEWISE"
  BY DEF Key
<1>6. CASE m = "FULL"
  <2>1. NormalizedUniform(m, uniform) = FALSE /\ MixedMode(m) # "PIECEWISE"
    BY <1>6, ModeCases DEF NormalizedUniform, SeparateRoutine
  <2>2. D = PaddedDesc(m, n, FALSE, EffectiveLoras(l))
    BY <2>1, Zenon
  <2>3. D = Desc(Padded(n), Smaller(Padded(n), MaxNumSeqs), FALSE, EffectiveLoras(l))
    BY <2>2 DEF PaddedDesc
  <2> HIDE DEF D
  <2>4. Key("FULL", D) \in KeysOf(m)
    BY <1>1, <1>6, <2>3, KeysAreThere, Zenon DEF MixedFull
  <2>5. Dispatch(m, TRUE, KeysOf(m), n, uniform, l, allowed) = Key("FULL", D)
    BY <1>4, <2>1, <2>4, Zenon DEF Dispatch, D
  <2> QED BY <1>5, <2>5
<1>7. CASE m # "FULL"
  <2>1. MixedMode(m) = "PIECEWISE"
    BY <1>7, ModeCases DEF RuntimeModes
  <2>2. D.tokens = Padded(n) /\ D.loras = EffectiveLoras(l)
    BY DEF PaddedDesc, Desc
  <2> HIDE DEF D
  <2>3. Key("PIECEWISE", Relaxed(D)) \in KeysOf(m)
    BY <1>1, <2>1, <2>2, KeysAreThere, Zenon DEF MixedPiecewise, Relaxed
  <2>4. Dispatch(m, TRUE, KeysOf(m), n, uniform, l, allowed) \in {Key("FULL", D), Key("PIECEWISE", Relaxed(D))}
    BY <1>4, <2>3, Zenon DEF Dispatch, D
  <2> QED BY <1>5, <2>4
<1> QED BY <1>6, <1>7

-----------------------------------------------------------------------------
(* The invariant.  A key is captured when it is registered, not before and *)
(* not later: outside of serving nothing is replayed, and once serving no  *)
(* key is without its graph.                                               *)

PhaseInv ==
  /\ phase \in {"loaded", "profiling", "profiled", "ready", "capturing", "serving"}
  /\ mode \in Modes /\ enabled \in BOOLEAN

\* The keys are those of the mode in force.
KeysInv ==
  IF phase \in {"loaded", "profiled"} THEN keys = {} ELSE keys = KeysOf(mode) /\ initialized = TRUE

\* Graphs are of registered keys and of the cache in use.
EntriesInv ==
  /\ phase \in {"loaded", "profiled", "ready"} => entries = {}
  /\ \A g \in entries : g.key \in keys /\ g.cache = cache

\* What is left to capture has no graph yet, and may be captured.
TodoInv ==
  phase \in {"profiling", "capturing"} =>
    /\ todo \subseteq keys /\ (todo # {} => enabled = TRUE)
    /\ \A g \in entries : g.key \notin todo

CapturedInv ==
  phase \in {"capturing", "serving"} =>
    \A k \in keys : (phase = "capturing" /\ k \in todo) \/ \E g \in entries : g.key = k

LastInv ==
  /\ phase # "serving" => last.kind \in {"none", "capture"}
  /\ ReplaysCurrentGraph /\ FitsItsGraph /\ FittingBatchIsGraphed

GraphInv ==
  NoAssertionFails /\ PhaseInv /\ KeysInv /\ EntriesInv /\ TodoInv /\ CapturedInv /\ LastInv

LEMMA RunFields ==
  ASSUME NEW n, NEW reqs, NEW uniform \in BOOLEAN, NEW loras, NEW full \in BOOLEAN,
         NEW key, NEW kind, NEW G
  PROVE  LET r == [Run(n, reqs, uniform, loras, full) EXCEPT !.kind = kind, !.key = key, !.graph = G]
             e == [Run(n, reqs, uniform, loras, full) EXCEPT !.kind = kind, !.key = key]
         IN  /\ r.kind = kind /\ r.n = n /\ r.reqs = reqs /\ r.uniform = uniform
             /\ r.loras = loras /\ r.full = full /\ r.key = key /\ r.graph = G
             /\ e.kind = kind /\ e.n = n /\ e.loras = loras /\ e.full = full
  BY DEF Run, NoRun

LEMMA InitGraphs == Init => GraphInv
  BY DEF Init, GraphInv, NoAssertionFails, PhaseInv, KeysInv, EntriesInv, TodoInv, CapturedInv, LastInv,
         ReplaysCurrentGraph, FitsItsGraph, FittingBatchIsGraphed, Served, NoRun, Modes, RuntimeModes

\* With no new forward pass, and before serving, the last one is no replay.
LEMMA LastKept ==
  ASSUME LastInv, phase # "serving", UNCHANGED last
  PROVE  LastInv'
  BY DEF LastInv, ReplaysCurrentGraph, FitsItsGraph, FittingBatchIsGraphed, Served

LEMMA KeepsProfile == GraphInv /\ Profile => GraphInv'
<1> SUFFICES ASSUME GraphInv, Profile PROVE GraphInv'
  OBVIOUS
<1>1. phase = "loaded" /\ phase' = "profiling" /\ keys = {} /\ entries = {} /\ UNCHANGED <<entries, last, failed>>
  BY DEF GraphInv, KeysInv, EntriesInv, Profile
<1>2. mode' \in Modes /\ keys' = KeysOf(mode') /\ initialized' = TRUE
  BY <1>1 DEF Profile, InitializeKvCache
<1>3. todo' \subseteq keys' /\ enabled' \in BOOLEAN /\ (todo' # {} => enabled' = TRUE)
  <2>1. todo' = Largest(CaptureDescs) /\ enabled' = IF CaptureDescs = {} THEN enabled ELSE TRUE
    BY DEF Profile
  <2>2. Largest(CaptureDescs) \subseteq CaptureDescs /\ CaptureDescs \subseteq keys'
    BY DEF Largest, CaptureDescs
  <2>3. enabled \in BOOLEAN
    BY DEF GraphInv, PhaseInv
  <2> QED BY <2>1, <2>2, <2>3
<1>4. LastInv'
  BY <1>1, LastKept DEF GraphInv
<1> QED BY <1>1, <1>2, <1>3, <1>4 DEF GraphInv, NoAssertionFails, PhaseInv, KeysInv, EntriesInv, TodoInv, CapturedInv

LEMMA KeepsProfileCleanup == GraphInv /\ ProfileCleanup => GraphInv'
<1> SUFFICES ASSUME GraphInv, ProfileCleanup PROVE GraphInv'
  OBVIOUS
<1>1. phase = "profiling" /\ phase' = "profiled" /\ UNCHANGED <<mode, last, failed>>
  BY DEF ProfileCleanup
<1>2. keys' = {} /\ entries' = {} /\ enabled' \in BOOLEAN
  BY DEF ProfileCleanup, LeftKeys, LeftGraphs, GraphInv, EntriesInv, PhaseInv
<1>3. LastInv'
  BY <1>1, LastKept DEF GraphInv
<1> QED BY <1>1, <1>2, <1>3 DEF GraphInv, NoAssertionFails, PhaseInv, KeysInv, EntriesInv, TodoInv, CapturedInv

LEMMA KeepsBuildCache == GraphInv /\ BuildCache => GraphInv'
<1> SUFFICES ASSUME GraphInv, BuildCache PROVE GraphInv'
  OBVIOUS
<1>1. /\ phase \in {"loaded", "profiled"} /\ phase' = "ready" /\ UNCHANGED <<enabled, entries, last, failed>>
      /\ keys = {} /\ entries = {}
  BY DEF BuildCache, GraphInv, KeysInv, EntriesInv
<1>2. mode' \in Modes /\ keys' = KeysOf(mode') /\ initialized' = TRUE
  BY <1>1 DEF BuildCache, InitializeKvCache
<1>3. LastInv'
  BY <1>1, LastKept DEF GraphInv
<1> QED BY <1>1, <1>2, <1>3 DEF GraphInv, NoAssertionFails, PhaseInv, KeysInv, EntriesInv, TodoInv, CapturedInv

LEMMA KeepsCaptureModel == GraphInv /\ CaptureModel => GraphInv'
<1> SUFFICES ASSUME GraphInv, CaptureModel PROVE GraphInv'
  OBVIOUS
<1>1. /\ phase = "ready" /\ entries = {} /\ keys = KeysOf(mode) /\ initialized = TRUE
      /\ UNCHANGED <<mode, initialized, keys, entries, cache, last, failed>>
  BY DEF CaptureModel, GraphInv, KeysInv, EntriesInv
<1>2. LastInv'
  BY <1>1, LastKept DEF GraphInv
<1>3. CASE mode = "NONE"
  <2>1. KeysOf("NONE") = {}
    BY DEF KeysOf, MixedKeys, DecodeKeys, MixedMode, SeparateRoutine
  <2>2. phase' = "serving" /\ UNCHANGED <<todo, enabled>>
    BY <1>3 DEF CaptureModel
  <2> QED BY <1>1, <1>2, <1>3, <2>1, <2>2 DEF GraphInv, NoAssertionFails, PhaseInv, KeysInv, EntriesInv, TodoInv, CapturedInv
<1>4. CASE mode # "NONE"
  <2>1. phase' = "capturing" /\ enabled' = TRUE /\ todo' = keys
    BY <1>4 DEF CaptureModel
  <2> QED BY <1>1, <1>2, <2>1 DEF GraphInv, NoAssertionFails, PhaseInv, KeysInv, EntriesInv, TodoInv, CapturedInv
<1> QED BY <1>3, <1>4

LEMMA KeepsCaptureDone == GraphInv /\ CaptureDone => GraphInv'
<1> SUFFICES ASSUME GraphInv, CaptureDone PROVE GraphInv'
  OBVIOUS
<1>1. /\ phase = "capturing" /\ phase' = "serving" /\ todo = {} /\ enabled' = FALSE
      /\ UNCHANGED <<mode, initialized, keys, todo, entries, cache, last, failed>>
  BY DEF CaptureDone
<1>2. LastInv'
  BY <1>1, LastKept DEF GraphInv
<1> QED BY <1>1, <1>2 DEF GraphInv, NoAssertionFails, PhaseInv, KeysInv, EntriesInv, TodoInv, CapturedInv

\* A capture run captures its key: it is dispatched to it and finds no graph.
LEMMA CaptureCaptures ==
  ASSUME GraphInv, phase \in {"profiling", "capturing"}, NEW key \in todo, CaptureOf(key)
  PROVE  last'.kind = "capture" /\ entries' = entries \cup {[key |-> key, cache |-> cache]} /\ failed' = FALSE
<1>1. keys = KeysOf(mode) /\ initialized = TRUE /\ mode \in Modes /\ key \in KeysOf(mode) /\ enabled = TRUE
  BY DEF GraphInv, KeysInv, PhaseInv, TodoInv
<1>2. /\ Dispatch(mode, initialized, keys, key.desc.tokens, key.desc.uniform, key.desc.loras, RuntimeModes) = key
      /\ Divisible(mode, key.desc.tokens, NormalizedUniform(mode, key.desc.uniform))
  BY <1>1, CapturedIsDispatched
<1>3. PICK r : r \in {Run(key.desc.tokens, DummyReqs(key.desc.tokens, key.desc.uniform), key.desc.uniform,
                          key.desc.loras, TRUE)} /\ Call(r, key)
  BY <1>2, Zenon DEF CaptureOf
<1>4. key.mode # "NONE"
  BY <1>1, KeyMode
<1>5. Held(key) = {}
  <2> SUFFICES ASSUME NEW g \in entries, g.key.desc = key.desc PROVE FALSE
    BY DEF Held
  <2>1. g.key \in KeysOf(mode) /\ g.key \notin todo
    BY <1>1 DEF GraphInv, EntriesInv, TodoInv
  <2>2. g.key = key
    BY <1>1, <2>1, DescriptorIsKey
  <2> QED BY <2>1, <2>2
<1>6. /\ last' = [r EXCEPT !.kind = "capture", !.key = key]
      /\ entries' = entries \cup {[key |-> key, cache |-> cache]}
      /\ failed' = ~enabled
  BY <1>1, <1>3, <1>4, <1>5 DEF Call
<1>7. last'.kind = "capture"
  BY <1>3, <1>6 DEF Run, NoRun
<1> QED BY <1>1, <1>6, <1>7

LEMMA KeepsCaptureNext == GraphInv /\ CaptureNext => GraphInv'
<1> SUFFICES ASSUME GraphInv, CaptureNext PROVE GraphInv'
  OBVIOUS
<1>1. phase \in {"profiling", "capturing"} /\ UNCHANGED <<phase, mode, initialized, keys, enabled, cache>>
  BY DEF CaptureNext
<1>2. PICK key \in todo : CaptureOf(key) /\ todo' = todo \ {key}
  BY DEF CaptureNext
<1>3. last'.kind = "capture" /\ entries' = entries \cup {[key |-> key, cache |-> cache]} /\ failed' = FALSE
  BY <1>1, <1>2, CaptureCaptures
<1>4. LastInv'
  BY <1>1, <1>3 DEF LastInv, ReplaysCurrentGraph, FitsItsGraph, FittingBatchIsGraphed, Served
<1>5. todo \subseteq keys /\ (todo # {} => enabled = TRUE) /\ \A g \in entries : g.key \notin todo
  BY <1>1 DEF GraphInv, TodoInv
<1>6. \A g \in entries' : g \in entries \/ (g.key = key /\ g.cache = cache)
  BY <1>3
<1>7. EntriesInv' /\ TodoInv'
  BY <1>1, <1>2, <1>5, <1>6 DEF EntriesInv, TodoInv, GraphInv
<1>8. CapturedInv'
  <2> SUFFICES ASSUME phase' = "capturing", NEW k \in keys'
               PROVE  k \in todo' \/ \E g \in entries' : g.key = k
    BY <1>1 DEF CapturedInv
  <2>1. k \in todo \/ \E g \in entries : g.key = k
    BY <1>1 DEF GraphInv, CapturedInv
  <2>2. [key |-> key, cache |-> cache] \in entries' /\ [key |-> key, cache |-> cache].key = key
    BY <1>3
  <2> QED BY <1>2, <1>3, <2>1, <2>2
<1> QED BY <1>1, <1>3, <1>4, <1>7, <1>8 DEF GraphInv, NoAssertionFails, PhaseInv, KeysInv

-----------------------------------------------------------------------------
(* Serving.                                                                *)

\* A batch of reqs decodes of QueryLen tokens has rows in a graph that holds it.
LEMMA RowsEnough ==
  ASSUME NEW size \in Nat, NEW reqs \in Nat, QueryLen * reqs <= size
  PROVE  size \div QueryLen >= reqs
<1>1. QueryLen \in Nat \ {0}
  BY KeysAssumption
<1> QED BY <1>1

LEMMA AtLeastOneQuery ==
  ASSUME NEW size \in Nat \ {0}, size % QueryLen = 0
  PROVE  QueryLen <= size
  BY KeysAssumption

\* A batch is served by the graph of its key, which is there and holds it, or
\* eagerly when no graph may serve it.
LEMMA KeepsBatch ==
  ASSUME GraphInv, phase = "serving", UNCHANGED <<phase, mode, initialized, keys, todo, enabled, cache>>,
         NEW n \in Nat \ {0}, NEW reqs \in 1 .. MaxNumSeqs, NEW uniform \in BOOLEAN,
         NEW l \in 0 .. MaxLoras, NEW cascade \in BOOLEAN,
         reqs <= n, uniform = TRUE /\ n <= MaxCapture => QueryLen * reqs <= Padded(n),
         Batch(n, reqs, uniform, l, cascade)
  PROVE  GraphInv'
<1> DEFINE allowed == IF cascade THEN RuntimeModes \ {"FULL"} ELSE RuntimeModes
           key     == Dispatch(mode, initialized, keys, n, uniform, l, allowed)
<1>0. PICK full \in BOOLEAN : full = ~cascade
  OBVIOUS
<1> DEFINE run == Run(n, reqs, uniform, l, full)
<1>1. keys = KeysOf(mode) /\ initialized = TRUE /\ mode \in Modes
  BY DEF GraphInv, KeysInv, PhaseInv
<1>2. key = Dispatch(mode, TRUE, KeysOf(mode), n, uniform, l, allowed)
  BY <1>1
<1>3. RunsEager(mode, initialized, n, allowed) \/ Divisible(mode, n, NormalizedUniform(mode, uniform))
  <2>1. MaxCapture \in Nat
    BY SizesType, KeysAssumption DEF Index
  <2>2. CASE n > MaxCapture
    BY <2>2 DEF RunsEager
  <2>3. CASE n <= MaxCapture
    BY <2>1, <2>3, PaddedFits DEF Divisible
  <2> QED BY <2>1, <2>2, <2>3
<1>4. Call(run, key)
  BY <1>0, <1>3, Zenon DEF Batch
<1> HIDE DEF key, allowed
<1>5. CASE key.mode = "NONE"
  <2>1. last' = [run EXCEPT !.kind = "eager", !.key = key] /\ UNCHANGED <<entries, failed>>
    BY <1>4, <1>5 DEF Call
  <2>2. last'.kind = "eager" /\ last'.n = n /\ last'.loras = l /\ last'.full = ~cascade
    BY <1>0, <2>1 DEF Run, NoRun
  <2>3. ~FittingBatchIsGraphed' => FALSE
    <3> SUFFICES ASSUME n <= MaxCapture, MixedMode(mode) # "NONE", ~cascade \/ MixedMode(mode) = "PIECEWISE",
                        l > 0 \/ 0 \in LoraCases
                 PROVE  FALSE
      BY <2>2 DEF FittingBatchIsGraphed, Served
    <3>1. "PIECEWISE" \in allowed /\ ("FULL" \in allowed \/ MixedMode(mode) = "PIECEWISE")
      BY DEF allowed, RuntimeModes
    <3>2. n \in 1 .. MaxCapture
      BY SizesType, KeysAssumption DEF Index
    <3> QED BY <1>1, <1>2, <1>5, <3>1, <3>2, FittingIsDispatched
  <2>4. LastInv'
    BY <2>2, <2>3 DEF LastInv, ReplaysCurrentGraph, FitsItsGraph, Served
  <2> QED BY <2>1, <2>4 DEF GraphInv, NoAssertionFails, PhaseInv, KeysInv, EntriesInv, TodoInv, CapturedInv
<1>6. CASE key.mode # "NONE"
  <2>1. /\ key \in KeysOf(mode) /\ n <= MaxCapture
        /\ key.desc.tokens = Padded(n) /\ key.desc.loras = EffectiveLoras(l)
        /\ \/ key.desc.uniform = FALSE /\ key.desc.reqs = 0
           \/ key.desc.uniform = FALSE /\ key.desc.reqs = Smaller(Padded(n), MaxNumSeqs)
           \/ key.desc.uniform = TRUE /\ uniform = TRUE
                /\ key.desc.reqs = Smaller(Padded(n) \div QueryLen, MaxNumSeqs)
    <3>1. PICK k : k = key
      OBVIOUS
    <3>2. k = Dispatch(mode, TRUE, KeysOf(mode), n, uniform, l, allowed) /\ k.mode # "NONE"
      BY <1>2, <1>6, <3>1
    <3>3. mode \in Modes /\ n \in Nat \ {0} /\ uniform \in BOOLEAN /\ l \in 0 .. MaxLoras
      BY <1>1
    <3>4. k \in KeysOf(mode) /\ n <= MaxCapture /\ ShapedFor(k, n, uniform, l)
      BY <3>2, <3>3, DispatchedGraph, Zenon
    <3> QED BY <3>1, <3>4 DEF ShapedFor
  <2>2. PICK g \in entries : g.key = key
    BY <1>1, <2>1 DEF GraphInv, CapturedInv
  <2>3. \A h \in Held(key) : h.key = key /\ h.cache = cache
    <3> SUFFICES ASSUME NEW h \in entries, h.key.desc = key.desc PROVE h.key = key /\ h.cache = cache
      BY DEF Held
    <3>1. h.key \in KeysOf(mode) /\ h.cache = cache
      BY <1>1 DEF GraphInv, EntriesInv
    <3> QED BY <1>1, <2>1, <3>1, DescriptorIsKey
  <2>4. Held(key) # {}
    BY <2>2 DEF Held
  <2>5. last' = [run EXCEPT !.kind = "replay", !.key = key, !.graph = Held(key)] /\ UNCHANGED <<entries, failed>>
    BY <1>4, <1>6, <2>4 DEF Call
  <2>6. /\ last'.kind = "replay" /\ last'.n = n /\ last'.reqs = reqs /\ last'.uniform = uniform
        /\ last'.loras = l /\ last'.key = key /\ last'.graph = Held(key)
    BY <2>5 DEF Run, NoRun
  <2>7. ReplaysCurrentGraph'
    BY <2>3, <2>6 DEF ReplaysCurrentGraph
  <2>8. FitsItsGraph'
    <3>0. n \in 1 .. MaxCapture
      BY <2>1, SizesType, KeysAssumption DEF Index
    <3>1. IsLeastCapture(n, Padded(n)) /\ Padded(n) \in Nat /\ n <= Padded(n)
      BY <3>0, PaddedIsLeast, PaddedFits
    <3>2. key.desc.reqs = 0 \/ key.desc.reqs >= reqs
      <4>1. CASE key.desc.reqs = Smaller(Padded(n), MaxNumSeqs)
        BY <3>1, <4>1, KeysAssumption DEF Smaller
      <4>2. CASE uniform = TRUE /\ key.desc.reqs = Smaller(Padded(n) \div QueryLen, MaxNumSeqs)
        <5>1. Padded(n) \div QueryLen >= reqs
          BY <2>1, <3>1, <4>2, RowsEnough
        <5> QED BY <4>2, <5>1, KeysAssumption DEF Smaller
      <4> QED BY <2>1, <4>1, <4>2
    <3>3. key.desc.uniform => uniform
      BY <2>1
    <3>4. key.desc.loras >= l /\ (l = 0 => key.desc.loras = 0)
      BY <2>1, EffectiveHolds
    <3> HIDE DEF run
    <3> QED BY <2>1, <2>6, <3>1, <3>2, <3>3, <3>4 DEF FitsItsGraph
  <2>9. FittingBatchIsGraphed'
    BY <2>6 DEF FittingBatchIsGraphed
  <2> QED BY <2>5, <2>7, <2>8, <2>9 DEF GraphInv, NoAssertionFails, PhaseInv, KeysInv, EntriesInv, TodoInv, CapturedInv, LastInv
<1> QED BY <1>5, <1>6

LEMMA KeepsExecuteModel == GraphInv /\ ExecuteModel => GraphInv'
<1> SUFFICES ASSUME GraphInv, ExecuteModel PROVE GraphInv'
  OBVIOUS
<1>1. phase = "serving" /\ UNCHANGED <<phase, mode, initialized, keys, todo, enabled, cache>>
  BY DEF ExecuteModel
<1>2. PICK reqs \in 1 .. MaxNumSeqs, n \in 1 .. MaxTokens, longest \in 1 .. MaxTokens,
           l \in 0 .. MaxLoras, cascade \in BOOLEAN :
        /\ n <= reqs * longest /\ longest + reqs - 1 <= n
        /\ Batch(n, reqs, IsUniform(n, reqs, longest), l, cascade)
  BY DEF ExecuteModel
<1>3. PICK uniform \in BOOLEAN : uniform = IsUniform(n, reqs, longest)
  BY DEF IsUniform
<1>4. n \in Nat \ {0} /\ reqs <= n
  BY <1>2, LifecycleAssumption, KeysAssumption
<1>5. ASSUME uniform = TRUE, n <= MaxCapture PROVE QueryLen * reqs <= Padded(n)
  <2>1. n = QueryLen * reqs
    BY <1>3, <1>5, LifecycleAssumption, KeysAssumption DEF IsUniform
  <2>2. n <= Padded(n)
    <3>1. n \in 1 .. MaxCapture
      BY <1>4, <1>5, SizesType, KeysAssumption DEF Index
    <3> QED BY <3>1, PaddedFits
  <2> QED BY <2>1, <2>2
<1>6. Batch(n, reqs, uniform, l, cascade)
  BY <1>2, <1>3, Zenon
<1> QED BY <1>1, <1>4, <1>5, <1>6, KeepsBatch

LEMMA KeepsDummyRun == GraphInv /\ DummyRun => GraphInv'
<1> SUFFICES ASSUME GraphInv, DummyRun PROVE GraphInv'
  OBVIOUS
<1>1. phase = "serving" /\ UNCHANGED <<phase, mode, initialized, keys, todo, enabled, cache>>
  BY DEF DummyRun
<1>2. PICK uniform \in BOOLEAN : Batch(1, DummyReqs(1, uniform), uniform, 0, FALSE)
  BY DEF DummyRun
<1>3. DummyReqs(1, uniform) = 1
  <2>1. (1 + QueryLen - 1) \div QueryLen = 1
    BY KeysAssumption
  <2> QED BY <2>1, KeysAssumption DEF DummyReqs, Smaller
<1>4. ASSUME 1 <= MaxCapture PROVE QueryLen * 1 <= Padded(1)
  <2>1. 1 \in 1 .. MaxCapture
    BY <1>4, SizesType, KeysAssumption DEF Index
  <2>2. Padded(1) \in Nat \ {0} /\ Padded(1) % QueryLen = 0
    BY <2>1, PaddedFits
  <2> QED BY <2>2, AtLeastOneQuery, KeysAssumption
<1>5. PICK cascade \in BOOLEAN : cascade = FALSE
  OBVIOUS
<1>6. PICK one \in Nat \ {0} : one = 1
  OBVIOUS
<1>7. PICK zero \in 0 .. MaxLoras : zero = 0
  BY KeysAssumption
<1>8. one \in 1 .. MaxNumSeqs /\ one <= one
  BY <1>6, KeysAssumption
<1>9. uniform = TRUE /\ one <= MaxCapture => QueryLen * one <= Padded(one)
  BY <1>4, <1>6
<1>10. Batch(one, one, uniform, zero, cascade)
  BY <1>2, <1>3, <1>5, <1>6, <1>7, Zenon
<1> QED BY <1>1, <1>8, <1>9, <1>10, KeepsBatch

LEMMA GraphsInvariant == Spec => []GraphInv
<1>1. Init => GraphInv
  BY InitGraphs
<1>2. GraphInv /\ [Next]_vars => GraphInv'
  <2> SUFFICES ASSUME GraphInv, [Next]_vars PROVE GraphInv'
    OBVIOUS
  <2>1. CASE UNCHANGED vars
    BY <2>1 DEF vars, GraphInv, NoAssertionFails, PhaseInv, KeysInv, EntriesInv, TodoInv, CapturedInv, LastInv,
                ReplaysCurrentGraph, FitsItsGraph, FittingBatchIsGraphed, Served
  <2>2. CASE Next
    BY <2>2, KeepsProfile, KeepsCaptureNext, KeepsProfileCleanup, KeepsBuildCache, KeepsCaptureModel,
       KeepsCaptureDone, KeepsExecuteModel, KeepsDummyRun DEF Next
  <2> QED BY <2>1, <2>2
<1> QED BY <1>1, <1>2, PTL DEF Spec

\* Whatever the sizes, requests and adapters are, profiled or not, with either
\* wrapper and any mode the back ends resolve to: no assertion of start-up or
\* dispatch fails and serving never meets a key without its graph, which would
\* be a capture (CUDAGraphWrapper.__call__, _create_padded_batch_descriptor).
THEOREM NeverFails == Spec => []NoAssertionFails
<1>1. GraphInv => NoAssertionFails
  BY DEF GraphInv
<1> QED BY <1>1, GraphsInvariant, PTL

\* No graph of the profiling pass is replayed, nor one of another mode, although
\* the breakable wrapper looks graphs up by descriptor only.
THEOREM ReplaysAreCurrent == Spec => []ReplaysCurrentGraph
<1>1. GraphInv => ReplaysCurrentGraph
  BY DEF GraphInv, LastInv
<1> QED BY <1>1, GraphsInvariant, PTL

\* A served batch is replayed at the least captured size that holds it, in a graph
\* with rows and adapters enough, and as a uniform decode only if it is one.
THEOREM GraphsFit == Spec => []FitsItsGraph
<1>1. GraphInv => FitsItsGraph
  BY DEF GraphInv, LastInv
<1> QED BY <1>1, GraphsInvariant, PTL

\* No batch that a captured graph could serve falls back to eager execution.
THEOREM FittingBatchesReplay == Spec => []FittingBatchIsGraphed
<1>1. GraphInv => FittingBatchIsGraphed
  BY DEF GraphInv, LastInv
<1> QED BY <1>1, GraphsInvariant, PTL
=============================================================================
