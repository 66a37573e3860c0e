---------------------- MODULE TrainingSession_proofs ----------------------
EXTENDS TrainingSession, SequenceTheorems, Counting

USE SizeModAssumption

-----------------------------------------------------------------------------
(* Shapes.  Two functions of the model are defined by recursion over the    *)
(* natural numbers; there is such a function up to every number, one step   *)
(* at a time.                                                               *)

\* after is what current_shape_ becomes up to the layer k.
ShapesUpto(after, n, k) ==
  after = [i \in 0..k |-> IF i = 0 THEN n.input ELSE OutputShape(n.layers[i], after[i - 1])]

LEMMA ShapesGrow ==
  ASSUME NEW n, NEW k \in Nat, NEW after, ShapesUpto(after, n, k)
  PROVE  \E more : ShapesUpto(more, n, k + 1)
<1> DEFINE more == [i \in 0..(k + 1) |->
                      IF i = 0 THEN n.input ELSE OutputShape(n.layers[i], after[i - 1])]
<1>1. \A i \in 0..k : after[i] = IF i = 0 THEN n.input ELSE OutputShape(n.layers[i], after[i - 1])
  BY DEF ShapesUpto
<1>2. \A i \in 0..k : more[i] = after[i]
  <2>1. \A i \in 0..k : i \in 0..(k + 1)
    OBVIOUS
  <2> QED
    BY <1>1, <2>1
<1>3. \A i \in 0..(k + 1) : i # 0 => i - 1 \in 0..k /\ more[i - 1] = after[i - 1]
  <2>1. \A i \in 0..(k + 1) : i # 0 => i - 1 \in 0..k
    OBVIOUS
  <2> HIDE DEF more
  <2> QED
    BY <1>2, <2>1
<1>4. \A i \in 0..(k + 1) :
        more[i] = IF i = 0 THEN n.input ELSE OutputShape(n.layers[i], more[i - 1])
  <2>1. \A i \in 0..(k + 1) :
          more[i] = IF i = 0 THEN n.input ELSE OutputShape(n.layers[i], after[i - 1])
    OBVIOUS
  <2> HIDE DEF more
  <2> QED
    BY <1>3, <2>1
<1>5. ShapesUpto(more, n, k + 1)
  <2>1. more = [i \in 0..(k + 1) |-> more[i]]
    OBVIOUS
  <2> HIDE DEF more
  <2> QED
    BY <1>4, <2>1 DEF ShapesUpto
<1> QED
  BY <1>5

LEMMA ShapesExist == ASSUME NEW n, NEW k \in Nat PROVE \E after : ShapesUpto(after, n, k)
<1> DEFINE with == {m \in Nat : \E after : ShapesUpto(after, n, m)}
<1>1. 0 \in with
  <2> DEFINE after == [i \in 0..0 |-> n.input]
  <2>1. after = [i \in 0..0 |-> IF i = 0 THEN n.input ELSE OutputShape(n.layers[i], after[i - 1])]
    <3>1. \A i \in 0..0 : i = 0
      OBVIOUS
    <3> QED
      BY <3>1
  <2>2. ShapesUpto(after, n, 0)
    <3> HIDE DEF after
    <3> QED
      BY <2>1 DEF ShapesUpto
  <2> QED
    BY <2>2
<1>2. \A m \in with : m + 1 \in with
  BY ShapesGrow
<1>3. k \in with
  <2>1. with \in SUBSET Nat
    OBVIOUS
  <2> HIDE DEF with
  <2> QED
    BY <1>1, <1>2, <2>1, EveryNatural
<1> QED
  BY <1>3

\* The recursive equation of current_shape_.
LEMMA ShapeOfLayers ==
  ASSUME NEW n, Len(n.layers) \in Nat
  PROVE  /\ CurrentShape(n)[0] = n.input
         /\ \A i \in 1..Len(n.layers) :
              CurrentShape(n)[i] = OutputShape(n.layers[i], CurrentShape(n)[i - 1])
<1>1. CurrentShape(n) = CHOOSE after : ShapesUpto(after, n, Len(n.layers))
  BY DEF CurrentShape, ShapesUpto
<1>2. ShapesUpto(CurrentShape(n), n, Len(n.layers))
  BY <1>1, ShapesExist
<1>3. \A i \in 0..Len(n.layers) : CurrentShape(n)[i] =
        IF i = 0 THEN n.input ELSE OutputShape(n.layers[i], CurrentShape(n)[i - 1])
  BY <1>2 DEF ShapesUpto
<1> QED
  BY <1>3

\* product is what the loop of Shape::numel has after the dimension k.
ProductUpto(product, shape, k) ==
  product = [i \in 0..k |-> IF i = 0 THEN 1 ELSE Size(product[i - 1] * shape[i])]

LEMMA DimensionsGrow ==
  ASSUME NEW shape, NEW k \in Nat, NEW product, ProductUpto(product, shape, k)
  PROVE  \E more : ProductUpto(more, shape, k + 1)
<1> DEFINE more == [i \in 0..(k + 1) |-> IF i = 0 THEN 1 ELSE Size(product[i - 1] * shape[i])]
<1>1. \A i \in 0..k : product[i] = IF i = 0 THEN 1 ELSE Size(product[i - 1] * shape[i])
  BY DEF ProductUpto
<1>2. \A i \in 0..k : more[i] = product[i]
  <2>1. \A i \in 0..k : i \in 0..(k + 1)
    OBVIOUS
  <2> QED
    BY <1>1, <2>1
<1>3. \A i \in 0..(k + 1) : i # 0 => i - 1 \in 0..k /\ more[i - 1] = product[i - 1]
  <2>1. \A i \in 0..(k + 1) : i # 0 => i - 1 \in 0..k
    OBVIOUS
  <2> HIDE DEF more
  <2> QED
    BY <1>2, <2>1
<1>4. \A i \in 0..(k + 1) : more[i] = IF i = 0 THEN 1 ELSE Size(more[i - 1] * shape[i])
  <2>1. \A i \in 0..(k + 1) : more[i] = IF i = 0 THEN 1 ELSE Size(product[i - 1] * shape[i])
    OBVIOUS
  <2> HIDE DEF more
  <2> QED
    BY <1>3, <2>1
<1>5. ProductUpto(more, shape, k + 1)
  <2>1. more = [i \in 0..(k + 1) |-> more[i]]
    OBVIOUS
  <2> HIDE DEF more
  <2> QED
    BY <1>4, <2>1 DEF ProductUpto
<1> QED
  BY <1>5

LEMMA DimensionsExist == ASSUME NEW shape, NEW k \in Nat PROVE \E product : ProductUpto(product, shape, k)
<1> DEFINE with == {m \in Nat : \E product : ProductUpto(product, shape, m)}
<1>1. 0 \in with
  <2> DEFINE product == [i \in 0..0 |-> 1]
  <2>1. product = [i \in 0..0 |-> IF i = 0 THEN 1 ELSE Size(product[i - 1] * shape[i])]
    <3>1. \A i \in 0..0 : i = 0
      OBVIOUS
    <3> QED
      BY <3>1
  <2>2. ProductUpto(product, shape, 0)
    <3> HIDE DEF product
    <3> QED
      BY <2>1 DEF ProductUpto
  <2> QED
    BY <2>2
<1>2. \A m \in with : m + 1 \in with
  BY DimensionsGrow
<1>3. k \in with
  <2>1. with \in SUBSET Nat
    OBVIOUS
  <2> HIDE DEF with
  <2> QED
    BY <1>1, <1>2, <2>1, EveryNatural
<1> QED
  BY <1>3

\* The shapes of tensors: batches of some images, each dimension a size_t.
Batches == {s \in Seq(Sizes) : s # <<>> /\ s[1] # 0}

LEMMA SizeWraps == ASSUME NEW n \in Int PROVE Size(n) \in Nat /\ Size(Size(n)) = Size(n) /\ Size(n) \in Sizes
  BY DEF Size, Sizes, Below

LEMMA SizesAreNumbers == Sizes \subseteq Nat /\ \A n \in Nat : n < SizeMod => n \in Sizes
  BY DEF Sizes, Below

LEMMA BatchHas ==
  ASSUME NEW s \in Batches
  PROVE  /\ s \in Seq(Nat) /\ s # <<>> /\ Len(s) \in Nat \ {0} /\ s[1] \in Sizes \ {0}
         /\ \A i \in 1..Len(s) : s[i] \in Sizes
<1>1. s \in Seq(Sizes) /\ s # <<>> /\ s[1] # 0
  BY DEF Batches
<1>2. Len(s) \in Nat \ {0} /\ \A i \in 1..Len(s) : s[i] \in Sizes
  BY <1>1
<1>3. s \in Seq(Nat)
  BY <1>1, SizesAreNumbers, SeqMonotonic
<1> QED
  BY <1>1, <1>2, <1>3

\* The number of elements has wrapped already.
LEMMA NumelWraps ==
  ASSUME NEW shape \in Seq(Nat), shape # <<>>
  PROVE  Numel(shape) \in Nat /\ Size(Numel(shape)) = Numel(shape) /\ Numel(shape) \in Sizes
<1> DEFINE k == Len(shape)
<1>0. k \in Nat \ {0} /\ \A i \in 1..k : shape[i] \in Nat
  OBVIOUS
<1>1. PICK product : Numel(shape) = product[k] /\ ProductUpto(product, shape, k)
  <2>1. Numel(shape) = (CHOOSE product : ProductUpto(product, shape, k))[k]
    BY DEF Numel, ProductUpto
  <2> QED
    BY <2>1, <1>0, DimensionsExist
<1> HIDE DEF k
<1>2. \A i \in 0..k : product[i] = IF i = 0 THEN 1 ELSE Size(product[i - 1] * shape[i])
  BY <1>1 DEF ProductUpto
<1> DEFINE good == {m \in Nat : m <= k => product[m] \in Nat}
<1>3. 0 \in good
  BY <1>0, <1>2
<1>4. ASSUME NEW m \in good PROVE m + 1 \in good
  <2> SUFFICES ASSUME m + 1 <= k PROVE product[m + 1] \in Nat
    OBVIOUS
  <2>1. product[m] \in Nat /\ m + 1 \in 1..k /\ m + 1 \in 0..k /\ (m + 1) - 1 = m
    BY <1>0
  <2>2. shape[m + 1] \in Nat
    BY <1>0, <2>1
  <2>3. product[m] * shape[m + 1] \in Int
    BY <2>1, <2>2
  <2>4. product[m + 1] = Size(product[m] * shape[m + 1])
    BY <1>2, <2>1
  <2> QED
    BY <2>3, <2>4, SizeWraps
<1>5. \A m \in Nat : m \in good
  <2>1. good \in SUBSET Nat
    OBVIOUS
  <2> HIDE DEF good
  <2> QED
    BY <1>3, <1>4, <2>1, EveryNatural
<1>6. product[k] \in Nat /\ product[k - 1] \in Nat /\ k \in 0..k /\ k \in 1..k
  BY <1>0, <1>5
<1>7. product[k] = Size(product[k - 1] * shape[k]) /\ product[k - 1] * shape[k] \in Int
  BY <1>0, <1>2, <1>6
<1> QED
  BY <1>1, <1>6, <1>7, SizeWraps

LEMMA OutputSizeIsSize ==
  ASSUME NEW a \in Nat, NEW b \in Int, NEW p \in Nat, NEW s \in Nat \ {0}
  PROVE  OutputSize(a, b, p, s) \in Sizes
<1> DEFINE d == Size(a + 2 * p - b)
<1>1. d \in Nat
  BY SizeWraps
<1>2. d \div s \in Int
  BY <1>1
<1> HIDE DEF d
<1>3. (d \div s) + 1 \in Int
  BY <1>2
<1>4. OutputSize(a, b, p, s) = Size((d \div s) + 1)
  BY DEF OutputSize, d
<1> QED
  BY <1>3, <1>4, SizeWraps

LEMMA OutputOfLayer ==
  ASSUME NEW layer, NEW before \in Batches, LayerAssumed(layer, before)
  PROVE  OutputShape(layer, before) \in Batches
<1>0. /\ before \in Seq(Nat) /\ before # <<>> /\ before[1] \in Sizes \ {0}
      /\ layer.kind \in Kinds /\ (layer.kind \in Parametric => layer.out \in Sizes)
  BY BatchHas DEF LayerAssumed
<1>1. ASSUME NEW d \in Sizes PROVE <<before[1], d>> \in Batches
  BY <1>0, <1>1 DEF Batches
<1>2. ASSUME NEW c \in Sizes, NEW d \in Sizes, NEW e \in Sizes PROVE <<before[1], c, d, e>> \in Batches
  BY <1>0 DEF Batches
<1>3. ASSUME layer.kind \in {"conv", "maxpool"}, NEW a \in Axes
      PROVE  /\ before[2] \in Sizes /\ before[2 + a] \in Nat
             /\ layer.o.padding[a] \in Nat /\ layer.o.dilation[a] \in Nat
             /\ layer.o.stride[a] \in Nat \ {0}
             /\ layer.kind = "conv" => layer.kernel[a] \in Nat
             /\ layer.kind = "maxpool" => layer.o.kernel[a] \in Nat
  <2>1. Len(before) = 4
    BY <1>3 DEF LayerAssumed
  <2>2. 2 \in 1..4 /\ 2 + a \in 1..4
    BY DEF Axes
  <2>3. before[2] \in Sizes /\ before[2 + a] \in Nat
    BY <2>1, <2>2, BatchHas, SizesAreNumbers
  <2>4. /\ {layer.o.padding[a], layer.o.dilation[a]} \subseteq Nat
        /\ layer.o.stride[a] \in Nat \ {0}
        /\ (IF layer.kind = "conv" THEN layer.kernel[a] ELSE layer.o.kernel[a]) \in Nat
    BY <1>3, SizesAreNumbers DEF LayerAssumed
  <2>5. layer.o.padding[a] \in Nat /\ layer.o.dilation[a] \in Nat
    BY <2>4
  <2>6. layer.kind = "conv" => layer.kernel[a] \in Nat
    BY <2>4
  <2>7. layer.kind = "maxpool" => layer.o.kernel[a] \in Nat
    BY <2>4
  <2> QED
    BY <2>3, <2>4, <2>5, <2>6, <2>7
<1>4. CASE layer.kind = "conv"
  <2>1. ASSUME NEW a \in Axes
        PROVE  OutputSize(before[2 + a], EffectiveKernel(layer.kernel[a], layer.o.dilation[a]),
                          layer.o.padding[a], layer.o.stride[a]) \in Sizes
    <3>1. EffectiveKernel(layer.kernel[a], layer.o.dilation[a]) \in Nat
      <4>1. PICK k \in Nat, d \in Nat : k = layer.kernel[a] /\ d = layer.o.dilation[a]
        BY <1>3, <1>4
      <4>2. d * (k - 1) + 1 \in Int
        BY <4>1
      <4>3. Size(d * (k - 1) + 1) \in Nat
        BY <4>2, SizeWraps
      <4> QED
        BY <4>1, <4>3 DEF EffectiveKernel
    <3>2. EffectiveKernel(layer.kernel[a], layer.o.dilation[a]) \in Int
      BY <3>1
    <3> QED
      BY <1>3, <1>4, <3>2, OutputSizeIsSize
  <2>2. 1 \in Axes /\ 2 \in Axes
    BY DEF Axes
  <2>3. Conv2dOutputShape(layer, before) \in Batches
    BY <1>0, <1>2, <1>4, <2>1, <2>2 DEF Conv2dOutputShape, Parametric
  <2>4. OutputShape(layer, before) = Conv2dOutputShape(layer, before)
    BY <1>4 DEF OutputShape
  <2> QED
    BY <2>3, <2>4
<1>5. CASE layer.kind = "maxpool"
  <2>1. ASSUME NEW a \in Axes
        PROVE  OutputSize(before[2 + a], layer.o.kernel[a], layer.o.padding[a],
                          layer.o.stride[a]) \in Sizes
    <3>1. layer.o.kernel[a] \in Int
      BY <1>3, <1>5
    <3> QED
      BY <1>3, <1>5, <3>1, OutputSizeIsSize
  <2>2. 1 \in Axes /\ 2 \in Axes
    BY DEF Axes
  <2>3. MaxPoolOutputShape(layer, before) \in Batches
    BY <1>2, <1>3, <1>5, <2>1, <2>2 DEF MaxPoolOutputShape
  <2>4. OutputShape(layer, before) = MaxPoolOutputShape(layer, before)
    BY <1>5 DEF OutputShape
  <2> QED
    BY <2>3, <2>4
<1>6. CASE layer.kind = "flatten"
  <2>1. PICK n \in Sizes, d \in Nat \ {0} : n = Numel(before) /\ d = before[1]
    BY <1>0, NumelWraps, SizesAreNumbers
  <2>2. n \div d \in Nat /\ n \div d <= n
    BY <2>1, SizesAreNumbers
  <2>3. Numel(before) \div before[1] \in Sizes
    BY <2>1, <2>2 DEF Sizes, Below
  <2> QED
    BY <1>1, <1>6, <2>3 DEF OutputShape, FlattenOutputShape
<1>7. CASE layer.kind = "linear"
  BY <1>0, <1>1, <1>7 DEF OutputShape, LinearOutputShape, Parametric
<1>8. CASE layer.kind = "activation"
  BY <1>8 DEF OutputShape
<1> QED
  BY <1>0, <1>4, <1>5, <1>6, <1>7, <1>8 DEF Kinds

\* What is assumed of a network, by name.
LEMMA NetworkAssumed ==
  ASSUME NEW n \in Networks
  PROVE  /\ Len(n.layers) \in Nat /\ n.input \in Batches
         /\ \A i \in 1..Len(n.layers) : /\ LayerAssumed(n.layers[i], CurrentShape(n)[i - 1])
                                        /\ n.layers[i].kind \in Kinds
<1>1. /\ n.layers \in Seq({n.layers[i] : i \in DOMAIN n.layers}) /\ n.input \in Batches
      /\ \A i \in DOMAIN n.layers : LayerAssumed(n.layers[i], CurrentShape(n)[i - 1])
  BY NetworksAssumption DEF Batches
<1>2. Len(n.layers) \in Nat /\ DOMAIN n.layers = 1..Len(n.layers)
  BY <1>1
<1> QED
  BY <1>1, <1>2 DEF LayerAssumed

LEMMA ShapesAreBatches ==
  ASSUME NEW n \in Networks, NEW k \in 0..Len(n.layers)
  PROVE  CurrentShape(n)[k] \in Batches
<1> DEFINE good == {m \in Nat : m <= Len(n.layers) => CurrentShape(n)[m] \in Batches}
<1>0. Len(n.layers) \in Nat
  BY NetworkAssumed
<1>1. 0 \in good
  BY <1>0, NetworkAssumed, ShapeOfLayers
<1>2. ASSUME NEW m \in good PROVE m + 1 \in good
  <2> SUFFICES ASSUME m + 1 <= Len(n.layers) PROVE CurrentShape(n)[m + 1] \in Batches
    OBVIOUS
  <2>1. m + 1 \in 1..Len(n.layers) /\ (m + 1) - 1 = m /\ CurrentShape(n)[m] \in Batches
    BY <1>0
  <2>2. LayerAssumed(n.layers[m + 1], CurrentShape(n)[m])
    BY <2>1, NetworkAssumed
  <2>3. CurrentShape(n)[m + 1] = OutputShape(n.layers[m + 1], CurrentShape(n)[m])
    BY <1>0, <2>1, ShapeOfLayers
  <2> QED
    BY <2>1, <2>2, <2>3, OutputOfLayer
<1>3. k \in good
  <2>1. good \in SUBSET Nat /\ k \in Nat
    OBVIOUS
  <2> HIDE DEF good
  <2> QED
    BY <1>1, <1>2, <2>1, EveryNatural
<1> QED
  BY <1>0, <1>3

-----------------------------------------------------------------------------
(* TensorPool: memory is never handed out twice between two resets, and     *)
(* never for a tensor that needs more of it.                                *)

\* The loop of TensorPool::find_reusable ends at an entry that matches, or at the end.
LEMMA RequestedMatches ==
  ASSUME NEW Entries, NEW entries \in Seq(Entries), NEW t
  PROVE  \/ Requested(entries, t) \in DOMAIN entries /\ Matches(entries[Requested(entries, t)], t)
         \/ Requested(entries, t) = Len(entries) + 1
<1> DEFINE free == {i \in DOMAIN entries : Matches(entries[i], t)}
<1>1. CASE free = {}
  BY <1>1 DEF Requested
<1>2. CASE free # {}
  <2>1. free \in SUBSET Nat
    OBVIOUS
  <2>2. \E i \in free : \A j \in free : i <= j
    BY <1>2, <2>1, LeastNatural
  <2>3. Requested(entries, t) = CHOOSE i \in free : \A j \in free : i <= j
    BY <1>2 DEF Requested
  <2>4. Requested(entries, t) \in free
    BY <2>2, <2>3
  <2> QED
    BY <2>4
<1> QED
  BY <1>1, <1>2

\* The tensor an entry becomes when it is handed out for t.
Handed(t, holds) ==
  [shape |-> t.shape, dtype |-> t.dtype, device |-> t.device, layout |-> t.layout,
   storage |-> t.storage, active |-> TRUE, holds |-> holds]

\* What TensorPool::request leaves of the pool when it hands out the entry i for t.
HandsOut(entries, i, t, holds, after) ==
  /\ DOMAIN after = DOMAIN entries \cup {i}
  /\ \A j \in DOMAIN entries \ {i} : after[j] = entries[j]
  /\ after[i] = Handed(t, holds)

LEMMA RequestChangesOne ==
  ASSUME NEW Entries, NEW entries \in Seq(Entries), NEW t, NEW holds,
         NEW i, i = Requested(entries, t), NEW after, after = Request(entries, t, holds)
  PROVE  HandsOut(entries, i, t, holds, after)
<1>1. after = IF i \in DOMAIN entries THEN [entries EXCEPT ![i] = Handed(t, holds)]
              ELSE Append(entries, Handed(t, holds))
  BY DEF Request, Handed
<1>2. CASE i \in DOMAIN entries
  BY <1>1, <1>2 DEF HandsOut
<1>3. CASE i \notin DOMAIN entries
  <2>1. i = Len(entries) + 1
    BY <1>3, RequestedMatches
  <2>2. entries \in Seq(Entries \cup {Handed(t, holds)})
    OBVIOUS
  <2> QED
    BY <1>1, <1>3, <2>1, <2>2 DEF HandsOut
<1> QED
  BY <1>2, <1>3

\* TensorPool::request takes what nobody has: the tensor it returns was not handed out,
\* is handed out from now on, and every other tensor of the pool stays as it is, so
\* the pointers the layers keep from forward to backward are to tensors of their own.
THEOREM NeverHandedOutTwice ==
  ASSUME NEW Entries, NEW entries \in Seq(Entries), NEW t, NEW holds,
         NEW i, i = Requested(entries, t), NEW after, after = Request(entries, t, holds)
  PROVE  /\ i \in DOMAIN entries => ~entries[i].active
         /\ after[i].active /\ after[i].shape = t.shape /\ after[i].layout = t.layout
         /\ \A j \in DOMAIN entries : entries[j].active => j \in DOMAIN after /\ after[j] = entries[j]
<1>1. i \in DOMAIN entries => ~entries[i].active
  <2>1. i \in DOMAIN entries => i # Len(entries) + 1
    OBVIOUS
  <2> QED
    BY <2>1, RequestedMatches DEF Matches
<1>2. HandsOut(entries, i, t, holds, after)
  BY RequestChangesOne
<1>3. after[i].active /\ after[i].shape = t.shape /\ after[i].layout = t.layout
  BY <1>2 DEF HandsOut, Handed
<1> QED
  BY <1>1, <1>2, <1>3 DEF HandsOut

\* A pool hands out memory again whatever the shape, by its size in bytes, which wraps as
\* size_t does: the memory of an entry never has to hold more than it was allocated for.
THEOREM MemoryNeverResized ==
  ASSUME NEW Entries, NEW entries \in Seq(Entries), NEW t, NEW holds,
         NEW i, i = Requested(entries, t), NEW after, after = Request(entries, t, holds)
  PROVE  \A j \in DOMAIN entries : Bytes(after[j]) = Bytes(entries[j])
<1>1. HandsOut(entries, i, t, holds, after)
  BY RequestChangesOne
<1>2. ASSUME i \in DOMAIN entries PROVE Bytes(after[i]) = Bytes(entries[i])
  <2>1. Bytes(entries[i]) = Bytes(t)
    <3>1. i # Len(entries) + 1
      BY <1>2
    <3> QED
      BY <3>1, RequestedMatches DEF Matches
  <2>2. after[i].shape = t.shape /\ after[i].dtype = t.dtype
    BY <1>1 DEF HandsOut, Handed
  <2>3. Bytes(after[i]) = Bytes(t)
    BY <2>2, Zenon DEF Bytes
  <2> QED
    BY <2>1, <2>3
<1> QED
  BY <1>1, <1>2 DEF HandsOut

\* Each of the entries at these places has the memory that a request of its own asked for.
Placed(places, entries, slots, need) ==
  \E g \in [places -> slots] :
    /\ \A p, q \in places : g[p] = g[q] => p = q
    /\ \A p \in places : need[g[p]] = Bytes(entries[p])

Active(entries) == {p \in DOMAIN entries : entries[p].active}

\* A request is a slot of its own: a new entry for it is made only when the entries of
\* its size are all handed out, so that they need no more slots than were served.
LEMMA RequestPlaced ==
  ASSUME NEW Entries, NEW entries \in Seq(Entries), NEW t, NEW holds,
         NEW after, after = Request(entries, t, holds), NEW i, i = Requested(entries, t),
         \A p \in DOMAIN entries : /\ entries[p].dtype = t.dtype /\ entries[p].device = t.device
                                   /\ entries[p].storage = t.storage
                                   /\ entries[p].active \in BOOLEAN,
         NEW slots, NEW served \in SUBSET slots, NEW s \in slots \ served,
         NEW need, need[s] = Bytes(t),
         Placed(DOMAIN entries, entries, slots, need),
         Placed(Active(entries), entries, served, need)
  PROVE  /\ Placed(DOMAIN after, after, slots, need)
         /\ Placed(Active(after), after, served \cup {s}, need)
<1>0. HandsOut(entries, i, t, holds, after) /\ Bytes(after[i]) = Bytes(t)
  <2>1. HandsOut(entries, i, t, holds, after)
    BY RequestChangesOne
  <2>2. after[i].shape = t.shape /\ after[i].dtype = t.dtype
    BY <2>1 DEF HandsOut, Handed
  <2> QED
    BY <2>1, <2>2, Zenon DEF Bytes
<1>1. /\ DOMAIN after = DOMAIN entries \cup {i} /\ i \notin Active(entries)
      /\ \A p \in DOMAIN entries : Bytes(after[p]) = Bytes(entries[p])
  BY <1>0, NeverHandedOutTwice, MemoryNeverResized DEF HandsOut, Active
<1>2. Active(after) = Active(entries) \cup {i}
  BY <1>0 DEF HandsOut, Handed, Active
<1>3. PICK g \in [DOMAIN entries -> slots] :
         /\ \A p, q \in DOMAIN entries : g[p] = g[q] => p = q
         /\ \A p \in DOMAIN entries : need[g[p]] = Bytes(entries[p])
  BY DEF Placed
<1>4. PICK h \in [Active(entries) -> served] :
         /\ \A p, q \in Active(entries) : h[p] = h[q] => p = q
         /\ \A p \in Active(entries) : need[h[p]] = Bytes(entries[p])
  BY DEF Placed
<1>5. Placed(Active(after), after, served \cup {s}, need)
  <2> DEFINE k == [p \in Active(after) |-> IF p = i THEN s ELSE h[p]]
  <2>1. \A p \in Active(after) : k[p] = IF p = i THEN s ELSE h[p]
    OBVIOUS
  <2>2. \A p \in Active(after) : p # i => p \in Active(entries) /\ h[p] \in served
    BY <1>2, <1>4
  <2>3. k \in [Active(after) -> served \cup {s}]
    BY <2>2
  <2>4. \A p \in Active(after) : p # i => Bytes(after[p]) = Bytes(entries[p])
    BY <1>1, <2>2 DEF Active
  <2> HIDE DEF k
  <2>5. \A p \in Active(after) : need[k[p]] = Bytes(after[p])
    BY <1>0, <1>4, <2>1, <2>2, <2>4
  <2>6. \A p, q \in Active(after) : k[p] = k[q] => p = q
    BY <1>4, <2>1, <2>2
  <2> QED
    BY <2>3, <2>5, <2>6 DEF Placed
<1>6. CASE i \in DOMAIN entries
  <2>1. DOMAIN after = DOMAIN entries
    BY <1>1, <1>6
  <2>2. \A p \in DOMAIN after : need[g[p]] = Bytes(after[p])
    BY <1>1, <1>3, <2>1
  <2>3. Placed(DOMAIN after, after, slots, need)
    BY <1>3, <2>1, <2>2 DEF Placed
  <2> QED
    BY <1>5, <2>3
<1>7. CASE i \notin DOMAIN entries
  <2> DEFINE b == Bytes(t)
             k == [p \in DOMAIN after |->
                     IF p = i THEN s ELSE IF Bytes(entries[p]) = b THEN h[p] ELSE g[p]]
  <2>1. \A p \in DOMAIN entries : Bytes(entries[p]) = b => p \in Active(entries)
    <3>1. {p \in DOMAIN entries : Matches(entries[p], t)} = {}
      <4>1. i # Len(entries) + 1 => Matches(entries[i], t) /\ i \in DOMAIN entries
        BY RequestedMatches
      <4>2. i = Len(entries) + 1
        BY <1>7, <4>1
      <4> DEFINE free == {p \in DOMAIN entries : Matches(entries[p], t)}
      <4>3. free # {} => i \in free
        <5>1. free \in SUBSET Nat
          OBVIOUS
        <5>2. free # {} => \E p \in free : \A q \in free : p <= q
          BY <5>1, LeastNatural
        <5>3. free # {} => i = CHOOSE p \in free : \A q \in free : p <= q
          BY DEF Requested
        <5> HIDE DEF free
        <5> QED
          BY <5>2, <5>3
      <4> QED
        BY <1>7, <4>3
    <3>2. \A p \in DOMAIN entries : ~Matches(entries[p], t)
      BY <3>1
    <3> QED
      BY <3>2 DEF Matches, Active
  <2>2. \A p \in DOMAIN after : k[p] = IF p = i THEN s ELSE IF Bytes(entries[p]) = b THEN h[p] ELSE g[p]
    OBVIOUS
  <2>3. \A p \in DOMAIN after : p # i => p \in DOMAIN entries
    BY <1>1
  <2>4. \A p \in DOMAIN entries : Bytes(entries[p]) = b => h[p] \in served /\ h[p] \in slots
    BY <1>4, <2>1
  <2>5. k \in [DOMAIN after -> slots]
    BY <1>3, <2>3, <2>4
  <2> HIDE DEF k, b
  <2>6. \A p \in DOMAIN after : need[k[p]] = Bytes(after[p])
    <3>1. need[s] = b /\ Bytes(after[i]) = b
      BY <1>0 DEF b
    <3> QED
      BY <1>1, <1>3, <1>4, <2>1, <2>2, <2>3, <3>1
  <2>7. ASSUME NEW p \in DOMAIN after, NEW q \in DOMAIN after, k[p] = k[q] PROVE p = q
    <3>1. Bytes(after[p]) = Bytes(after[q])
      BY <2>6, <2>7
    <3>2. CASE p = i
      <4>1. q # i => Bytes(entries[q]) = b
        BY <1>0, <1>1, <2>3, <3>1, <3>2 DEF b
      <4>2. q # i => k[q] \in served
        BY <2>2, <2>3, <2>4, <4>1
      <4> QED
        BY <2>2, <2>7, <3>2, <4>2
    <3>3. CASE q = i
      <4>1. p # i => Bytes(entries[p]) = b
        BY <1>0, <1>1, <2>3, <3>1, <3>3 DEF b
      <4>2. p # i => k[p] \in served
        BY <2>2, <2>3, <2>4, <4>1
      <4> QED
        BY <2>2, <2>7, <3>3, <4>2
    <3>4. CASE p # i /\ q # i
      <4>1. p \in DOMAIN entries /\ q \in DOMAIN entries /\ Bytes(entries[p]) = Bytes(entries[q])
        BY <1>1, <2>3, <3>1, <3>4
      <4>2. CASE Bytes(entries[p]) = b
        <5>1. p \in Active(entries) /\ q \in Active(entries)
          BY <2>1, <4>1, <4>2
        <5>2. h[p] = h[q]
          BY <2>2, <2>7, <3>4, <4>1, <4>2
        <5> QED
          BY <1>4, <4>1, <5>1, <5>2
      <4>3. CASE Bytes(entries[p]) # b
        BY <1>3, <2>2, <2>7, <3>4, <4>1, <4>3
      <4> QED
        BY <4>2, <4>3
    <3> QED
      BY <3>2, <3>3, <3>4
  <2>8. Placed(DOMAIN after, after, slots, need)
    BY <2>5, <2>6, <2>7 DEF Placed
  <2> QED
    BY <1>5, <2>8
<1> QED
  BY <1>6, <1>7

\* What leaves the sizes of the entries alone.
LEMMA PlacedKept ==
  ASSUME NEW places, NEW entries, NEW after, NEW slots, NEW need,
         \A p \in places : Bytes(after[p]) = Bytes(entries[p]),
         Placed(places, entries, slots, need)
  PROVE  Placed(places, after, slots, need)
<1>1. PICK g \in [places -> slots] :
         /\ \A p, q \in places : g[p] = g[q] => p = q
         /\ \A p \in places : need[g[p]] = Bytes(entries[p])
  BY DEF Placed
<1>2. \A p \in places : need[g[p]] = Bytes(after[p])
  BY <1>1
<1> QED
  BY <1>1, <1>2 DEF Placed

LEMMA NothingPlaced == ASSUME NEW entries, NEW slots, NEW need PROVE Placed({}, entries, slots, need)
<1> DEFINE g == [p \in {} |-> p]
<1>1. g \in [{} -> slots]
  OBVIOUS
<1> HIDE DEF g
<1> QED
  BY <1>1 DEF Placed

LEMMA PlacedBounds ==
  ASSUME NEW Entries, NEW entries \in Seq(Entries), NEW slots, IsFiniteSet(slots), NEW need,
         Placed(DOMAIN entries, entries, slots, need)
  PROVE  Len(entries) <= Cardinality(slots)
<1> DEFINE places == 1..Len(entries)
<1>1. DOMAIN entries = places /\ Len(entries) \in Nat
  OBVIOUS
<1>2. PICK g \in [places -> slots] : \A p, q \in places : g[p] = g[q] => p = q
  BY <1>1 DEF Placed
<1>3. IsFiniteSet(places) /\ Cardinality(places) = Len(entries)
  <2>1. 1 \in Int /\ Len(entries) \in Int
    BY <1>1
  <2>2. Cardinality(places) = IF 1 > Len(entries) THEN 0 ELSE Len(entries) - 1 + 1
    BY <2>1, FS_Interval
  <2> QED
    BY <1>1, <2>1, <2>2, FS_Interval
<1>4. ~(Cardinality(slots) < Cardinality(places))
  <2> HIDE DEF places
  <2> SUFFICES ASSUME Cardinality(slots) < Cardinality(places) PROVE FALSE
    OBVIOUS
  <2>1. \E p, q \in places : p # q /\ g[p] = g[q]
    BY <1>3, FS_PigeonHole
  <2> QED
    BY <1>2, <2>1
<1>5. Cardinality(slots) \in Nat
  BY FS_CardinalityType
<1> QED
  BY <1>1, <1>3, <1>4, <1>5

-----------------------------------------------------------------------------
(* The invariant.                                                           *)

Shape(k) == CurrentShape(net)[k]
Shapes == {Shape(k) : k \in 0..Depth} \cup {<<1>>}
Layouts == {"NCHW", "Unknown"}
Modes == {"Training", "Inference"}
Marks == {Stale, Garbage, <<"batch">>, <<"loss">>} \cup ({"forward", "backward"} \X Nat)

Memory ==
  [shape : Shapes, dtype : {"Float32"}, device : {net.device}, layout : Layouts,
   storage : {"RowMajor"}, holds : Marks]
PoolEntry ==
  [shape : Shapes, dtype : {"Float32"}, device : {net.device}, layout : Layouts,
   storage : {"RowMajor"}, active : BOOLEAN, holds : Marks]

\* A layer sees inputs of one shape only, so that what it has cached is of that shape.
KeyOf(i) ==
  [valid : {TRUE}, shape : {Shape(i - 1)}, dtype : {"Float32"}, device : {net.device},
   layout : Layouts, storage : {"RowMajor"}]
LayerState(i) ==
  [mode : Modes, key : {NoKey} \cup KeyOf(i), out : {Never, Shape(i)}, fast : BOOLEAN,
   saved : {Never, <<"batch">>} \cup ({"pool"} \X Nat), shape : {Never, Shape(i - 1)},
   cachedMode : Modes, indices : {Never} \cup Marks, indexed : {Never, Shape(i - 1)},
   grad : {Never} \cup Marks, read : {Never} \cup Marks]

Places ==
  {<<"idle">>, <<"next">>, <<"begin">>, <<"metrics">>, <<"loss gradient">>, <<"step">>}
  \cup {<<"forward", i>> : i \in 1..(Depth + 1)} \cup {<<"backward", i>> : i \in 0..Depth}
InPass == at[1] \notin {"idle", "next", "begin"}

Typed ==
  /\ net \in Networks /\ at \in Places
  /\ pool \in Seq(PoolEntry) /\ lossPool \in [Owners -> Seq(PoolEntry)]
  /\ storage \in [Loaders -> [1..Storages -> Memory]]
  /\ left \in [Loaders -> 0..BatchCount] /\ broken \in [Loaders -> BOOLEAN]
Drivers ==
  {Idle} \cup [op : {"evaluate", "run"}, seen : BOOLEAN]
  \cup [op : {"fit"}, phase : {"train", "validate"}, epoch : Nat, epochs : Nat,
        validation : BOOLEAN, seen : BOOLEAN]
Driving == driver \in Drivers /\ (driver = Idle => at = <<"idle">>)
LayersTyped ==
  /\ DOMAIN layers = 1..Depth
  /\ \A i \in 1..Depth :
       /\ layers[i] \in LayerState(i)
       /\ layers[i].key # NoKey /\ Kind(i) # "activation" => layers[i].out = Shape(i)
       /\ layers[i].saved \in {Never, <<"batch">>} \cup {<<"pool", p>> : p \in DOMAIN pool}
BatchInUse ==
  IF at[1] \in {"idle", "next"} THEN batch = Never
  ELSE /\ batch # Never /\ batch[1] \in Loaders /\ batch[2] \in 1..Storages
       /\ batch[3] \in 1..net.input[1]

\* The layers whose forward call has returned, and those whose backward call has not.
Passed == IF at[1] = "forward" THEN at[2] - 1 ELSE Depth
Ahead == IF at[1] = "backward" THEN at[2] ELSE IF at[1] = "step" THEN 0 ELSE Depth

\* The tensors that are in use: the batch, and what the pool has handed out.
Live == {<<"batch">>} \cup {<<"pool", p>> : p \in Active(pool)}
LossOnes == {<<"loss", p>> : p \in DOMAIN lossPool[Owner]}

\* Forward, a tensor goes from layer to layer; backward, its gradient.
CurrentInUse ==
  /\ ~InPass => current = Never
  /\ at[1] \in {"forward", "metrics", "loss gradient"} =>
       current \in Live /\ Pointed(current).shape = Shape(Passed)
  /\ at[1] \in {"metrics", "loss gradient"} => last = current /\ driver.op # "run"
  /\ at[1] \in {"backward", "step"} => current \in Live \cup LossOnes

\* What a layer keeps from forward to backward: the memory of its input, which nobody
\* else has and whose shape nobody changes, or its shape.
Kept(j) ==
  /\ Kind(j) \in Parametric =>
       /\ layers[j].saved \in Live /\ layers[j].saved # current
       /\ Pointed(layers[j].saved).shape = Shape(j - 1)
  /\ Kind(j) \in {"maxpool", "flatten"} => layers[j].shape = Shape(j - 1)
InputsKept == InPass => \A j \in 1..Passed : Kept(j)

\* A training pass asks the pool for two tensors per layer that does not work in place,
\* and the pool of the loss for two; this much has been asked for in this pass.
Slots == {"forward", "backward"} \X {i \in 1..Depth : Kind(i) \notin InPlace}
Need ==
  [s \in Slots |-> Bytes(Float(IF s[1] = "forward" THEN Shape(s[2]) ELSE Shape(s[2] - 1),
                               net.device, "NCHW"))]
Served == {s \in Slots : IF s[1] = "forward" THEN s[2] <= Passed ELSE s[2] > Ahead}
LossSlots == {"value", "gradient"}
LossNeed ==
  [s \in LossSlots |-> Bytes(Float(IF s = "value" THEN <<1>> ELSE Shape(Depth),
                                   net.device, "Unknown"))]
LossServed ==
  CASE at[1] = "forward" -> {}
    [] at[1] \in {"metrics", "loss gradient"} -> {"value"}
    [] at[1] \in {"backward", "step"} -> LossSlots

PoolsFit ==
  /\ Placed(DOMAIN pool, pool, Slots, Need)
  /\ \A o \in Owners : Placed(DOMAIN lossPool[o], lossPool[o], LossSlots, LossNeed)
PassFits ==
  InPass =>
    /\ Placed(Active(pool), pool, Served, Need)
    /\ driver.op # "run" => Placed(Active(lossPool[Owner]), lossPool[Owner], LossServed, LossNeed)

IInv ==
  /\ Typed /\ Driving /\ LayersTyped /\ BatchInUse /\ CurrentInUse /\ InputsKept
  /\ PoolsFit /\ PassFits

-----------------------------------------------------------------------------
(* Tensors and layers. *)

\* A tensor that a layer may be given.
Given(t, k) ==
  /\ t.shape = Shape(k) /\ t.dtype = "Float32" /\ t.device = net.device
  /\ t.layout \in Layouts /\ t.storage = "RowMajor"

LEMMA ShapeStep ==
  ASSUME Typed
  PROVE  /\ Depth \in Nat /\ Shape(0) = net.input
         /\ \A i \in 1..Depth : /\ Shape(i) = OutputShape(net.layers[i], Shape(i - 1))
                                /\ Kind(i) \in Kinds
         /\ \A k \in 0..Depth : Shape(k) \in Shapes
<1>1. net \in Networks
  BY DEF Typed
<1> QED
  BY <1>1, NetworkAssumed, ShapeOfLayers DEF Shape, Shapes, Depth, Kind

LEMMA BytesAlike ==
  ASSUME NEW t, NEW u, t.shape = u.shape, t.dtype = u.dtype
  PROVE  Bytes(t) = Bytes(u)
  BY Zenon DEF Bytes

LEMMA ReshapeKeepsBytes ==
  ASSUME NEW t, NEW u, Numel(t.shape) = Numel(u.shape), t.dtype = u.dtype
  PROVE  Bytes(t) = Bytes(u)
  BY Zenon DEF Bytes

LEMMA CaptureOfGiven ==
  ASSUME NEW i, NEW t, Given(t, i - 1)
  PROVE  /\ Capture(t) \in KeyOf(i) /\ Capture(t) # NoKey /\ Capture(t).shape = Shape(i - 1)
<1>1. Capture(t).valid = TRUE /\ NoKey.valid = FALSE
  BY DEF Capture, NoKey
<1> QED
  BY <1>1 DEF Capture, KeyOf, Given

LEMMA Prepared ==
  ASSUME Typed, LayersTyped, NEW i \in 1..Depth, NEW input, Given(input, i - 1),
         NEW l, l = Prepare(net.layers[i], layers[i], input)
  PROVE  /\ l \in LayerState(i) /\ l.saved = layers[i].saved
         /\ l.key # NoKey /\ Kind(i) # "activation" => l.out = Shape(i)
         /\ Kind(i) # "activation" => l.key = Capture(input) /\ l.out = Shape(i)
<1>1. /\ layers[i] \in LayerState(i)
      /\ layers[i].key # NoKey /\ Kind(i) # "activation" => layers[i].out = Shape(i)
  BY DEF LayersTyped
<1>2. Capture(input) \in KeyOf(i) /\ Capture(input) # NoKey
  BY CaptureOfGiven
<1>3. CASE Kind(i) = "activation" \/ KeyMatches(layers[i].key, input)
  <2>1. l = layers[i]
    BY <1>3 DEF Prepare, Kind
  <2> QED
    BY <1>1, <1>2, <1>3, <2>1 DEF KeyMatches
<1>4. CASE ~(Kind(i) = "activation" \/ KeyMatches(layers[i].key, input))
  <2>1. l = [layers[i] EXCEPT !.out = OutputShape(net.layers[i], input.shape), !.key = Capture(input)]
    BY <1>4 DEF Prepare, Kind
  <2>2. OutputShape(net.layers[i], input.shape) = Shape(i)
    BY ShapeStep DEF Given
  <2>3. l = [layers[i] EXCEPT !.out = Shape(i), !.key = Capture(input)]
    BY <2>1, <2>2
  <2> QED
    BY <1>1, <1>2, <2>3 DEF LayerState
<1> QED
  BY <1>3, <1>4

LEMMA Remembered ==
  ASSUME Typed, NEW i \in 1..Depth, NEW l \in LayerState(i), NEW input, Given(input, i - 1),
         NEW hit \in BOOLEAN, NEW where \in {<<"batch">>} \cup ({"pool"} \X Nat), NEW mark \in Marks,
         l.key # NoKey /\ Kind(i) # "activation" => l.out = Shape(i),
         Kind(i) # "activation" => l.key = Capture(input),
         NEW r, r = Remember(net.layers[i], l, hit, input, where, mark)
  PROVE  /\ r \in LayerState(i)
         /\ r.key # NoKey /\ Kind(i) # "activation" => r.out = Shape(i)
         /\ r.saved = IF Kind(i) \in Parametric \cup {"activation"} THEN where ELSE l.saved
         /\ Kind(i) \in {"maxpool", "flatten"} => r.shape = Shape(i - 1)
<1> DEFINE seen == [l EXCEPT !.fast = hit, !.saved = where, !.read = mark]
<1>0. /\ Capture(input) \in KeyOf(i) /\ Capture(input) # NoKey /\ Capture(input).shape = Shape(i - 1)
      /\ Kind(i) \in Kinds
  BY CaptureOfGiven, ShapeStep
<1>1. seen \in LayerState(i) /\ seen.key = l.key /\ seen.out = l.out /\ seen.saved = where
  BY DEF LayerState
<1>2. CASE Kind(i) \in Parametric
  <2>1. r = seen
    BY <1>2 DEF Remember, Kind, Parametric
  <2> QED
    BY <1>1, <1>2, <2>1 DEF Parametric
<1>3. CASE Kind(i) = "activation"
  <2>1. r = [seen EXCEPT !.key = Capture(input)]
    BY <1>3 DEF Remember, Kind, Parametric
  <2> HIDE DEF seen
  <2> QED
    BY <1>0, <1>1, <1>3, <2>1 DEF LayerState, Parametric
<1>4. CASE Kind(i) = "flatten"
  <2>1. r = [l EXCEPT !.shape = l.key.shape, !.read = mark]
    BY <1>4 DEF Remember, Kind, Parametric
  <2>2. l.key.shape = Shape(i - 1)
    BY <1>0, <1>4
  <2>3. r = [l EXCEPT !.shape = Shape(i - 1), !.read = mark]
    BY <2>1, <2>2
  <2> QED
    BY <1>0, <1>4, <2>3 DEF LayerState, Parametric
<1>5. CASE Kind(i) = "maxpool"
  <2>1. r = [l EXCEPT !.fast = hit, !.cachedMode = l.mode, !.shape = l.key.shape, !.read = mark,
                      !.indices = IF l.mode = "Training" THEN mark ELSE @,
                      !.indexed = IF l.mode = "Training" THEN l.key.shape ELSE @]
    BY <1>5 DEF Remember, Kind, Parametric
  <2>2. l.key.shape = Shape(i - 1) /\ l.mode \in Modes
    BY <1>0, <1>5 DEF LayerState
  <2>3. PICK a \in {Never} \cup Marks, b \in {Never, Shape(i - 1)} :
          r = [l EXCEPT !.fast = hit, !.cachedMode = l.mode, !.shape = Shape(i - 1), !.read = mark,
                        !.indices = a, !.indexed = b]
    <3>1. l.indices \in {Never} \cup Marks /\ l.indexed \in {Never, Shape(i - 1)}
      BY DEF LayerState
    <3> QED
      BY <2>1, <2>2, <3>1
  <2>4. PICK x : x = [l EXCEPT !.fast = hit, !.cachedMode = l.mode, !.shape = Shape(i - 1), !.read = mark]
    OBVIOUS
  <2>5. x \in LayerState(i) /\ x.key = l.key /\ x.out = l.out /\ x.saved = l.saved /\ x.shape = Shape(i - 1)
    BY <2>2, <2>4 DEF LayerState
  <2>6. r = [x EXCEPT !.indices = a, !.indexed = b]
    BY <2>3, <2>4
  <2>7. r \in LayerState(i) /\ r.key = x.key /\ r.out = x.out /\ r.saved = x.saved /\ r.shape = x.shape
    BY <2>5, <2>6 DEF LayerState
  <2> QED
    BY <1>5, <2>5, <2>7 DEF Parametric
<1> QED
  BY <1>0, <1>2, <1>3, <1>4, <1>5 DEF Kinds, Parametric

\* The network is the same from the beginning to the end.
LEMMA NetKept ==
  ASSUME UNCHANGED net
  PROVE  /\ Depth' = Depth /\ Shapes' = Shapes /\ Memory' = Memory /\ PoolEntry' = PoolEntry
         /\ \A k : Shape(k)' = Shape(k)
         /\ \A i : Kind(i)' = Kind(i) /\ LayerState(i)' = LayerState(i)
         /\ Slots' = Slots /\ Need' = Need /\ LossNeed' = LossNeed /\ Places' = Places
<1>1. Depth' = Depth /\ (\A k : Shape(k)' = Shape(k)) /\ (\A i : Kind(i)' = Kind(i))
  BY DEF Depth, Shape, Kind
<1>2. Shapes' = Shapes
  BY <1>1 DEF Shapes
<1>3. Memory' = Memory /\ PoolEntry' = PoolEntry
  BY <1>2 DEF Memory, PoolEntry
<1>4. \A i : LayerState(i)' = LayerState(i)
  BY <1>1 DEF LayerState, KeyOf
<1>5. Slots' = Slots
  BY <1>1 DEF Slots
<1>6. Need' = Need
  BY <1>1, <1>5 DEF Need
<1>7. LossNeed' = LossNeed
  BY <1>1 DEF LossNeed
<1>8. Places' = Places
  BY <1>1 DEF Places
<1> QED
  BY <1>1, <1>2, <1>3, <1>4, <1>5, <1>6, <1>7, <1>8

LEMMA PointsTo ==
  ASSUME NEW p
  PROVE  /\ Pointed(<<"batch">>) = storage[batch[1]][batch[2]]
         /\ Pointed(<<"pool", p>>) = pool[p] /\ Pointed(<<"loss", p>>) = lossPool[Owner][p]
  BY DEF Pointed, Inputs

LEMMA OwnerIsOne == Owner \in Owners /\ Loader \in Loaders
  BY DEF Owner, Owners, Loader, Loaders

\* A tensor in use is whole.
LEMMA InUseWhole ==
  ASSUME Typed, BatchInUse, InPass, NEW q \in Live \cup LossOnes
  PROVE  /\ Pointed(q).shape \in Shapes /\ Pointed(q).dtype = "Float32"
         /\ Pointed(q).device = net.device /\ Pointed(q).layout \in Layouts
         /\ Pointed(q).storage = "RowMajor" /\ Pointed(q).holds \in Marks
<1>1. Pointed(q) \in Memory \/ Pointed(q) \in PoolEntry
  <2>1. CASE q = <<"batch">>
    <3>1. batch[1] \in Loaders /\ batch[2] \in 1..Storages
      BY DEF BatchInUse, InPass
    <3>2. Pointed(q) = storage[batch[1]][batch[2]]
      BY <2>1, PointsTo
    <3>3. storage \in [Loaders -> [1..Storages -> Memory]]
      BY DEF Typed
    <3>4. storage[batch[1]][batch[2]] \in Memory
      <4> DEFINE numbers == 1..Storages
      <4>1. batch[1] \in Loaders /\ batch[2] \in numbers /\ storage \in [Loaders -> [numbers -> Memory]]
        BY <3>1, <3>3
      <4> HIDE DEF numbers
      <4> QED
        BY <4>1
    <3> QED
      BY <3>2, <3>4
  <2>2. ASSUME NEW p \in Active(pool), q = <<"pool", p>> PROVE Pointed(q) \in PoolEntry
    <3>1. p \in DOMAIN pool /\ pool \in Seq(PoolEntry)
      BY DEF Active, Typed
    <3>2. Pointed(q) = pool[p]
      BY <2>2, PointsTo
    <3> QED
      BY <3>1, <3>2
  <2>3. ASSUME NEW p \in DOMAIN lossPool[Owner], q = <<"loss", p>> PROVE Pointed(q) \in PoolEntry
    <3>1. lossPool[Owner] \in Seq(PoolEntry)
      BY OwnerIsOne DEF Typed
    <3>2. Pointed(q) = lossPool[Owner][p]
      BY <2>3, PointsTo
    <3> QED
      BY <2>3, <3>1, <3>2
  <2> QED
    BY <2>1, <2>2, <2>3 DEF Live, LossOnes
<1> QED
  BY <1>1 DEF Memory, PoolEntry

LEMMA PlainGiven ==
  ASSUME Typed, BatchInUse, InPass, NEW q \in Live, NEW k, Pointed(q).shape = Shape(k)
  PROVE  Given(Plain(Pointed(q)), k) /\ Pointed(q).holds \in Marks
  BY InUseWhole DEF Given, Plain, Tensor

\* Writing a tensor in place changes that tensor, and no size.
WriteLeaves(place) ==
  /\ pool' \in Seq(PoolEntry) /\ lossPool' \in [Owners -> Seq(PoolEntry)]
  /\ storage' \in [Loaders -> [1..Storages -> Memory]]
  /\ DOMAIN pool' = DOMAIN pool /\ Active(pool') = Active(pool)
  /\ \A p \in DOMAIN pool : /\ Bytes(pool'[p]) = Bytes(pool[p])
                            /\ <<"pool", p>> # place => pool'[p] = pool[p]
  /\ \A o \in Owners : /\ DOMAIN lossPool'[o] = DOMAIN lossPool[o]
                       /\ Active(lossPool'[o]) = Active(lossPool[o])
                       /\ \A p \in DOMAIN lossPool[o] : Bytes(lossPool'[o][p]) = Bytes(lossPool[o][p])
  /\ <<"batch">> # place => storage' = storage

LEMMA OverKeeps ==
  ASSUME NEW t, t.shape \in Shapes, t.layout \in Layouts, NEW mark \in Marks,
         NEW Set \in {Memory, PoolEntry}, NEW memory \in Set, Numel(t.shape) = Numel(memory.shape)
  PROVE  /\ Over(memory, t, mark) \in Set /\ Over(memory, t, mark).shape = t.shape
         /\ Bytes(Over(memory, t, mark)) = Bytes(memory)
         /\ Set = PoolEntry => Over(memory, t, mark).active = memory.active
<1>1. /\ Over(memory, t, mark) \in Set /\ Over(memory, t, mark).shape = t.shape
      /\ Over(memory, t, mark).dtype = memory.dtype
      /\ Set = PoolEntry => Over(memory, t, mark).active = memory.active
  <2>1. CASE Set # PoolEntry
    <3>1. memory \in Memory /\ Set = Memory
      BY <2>1
    <3> QED
      BY <2>1, <3>1 DEF Over, Memory
  <2>2. CASE Set = PoolEntry
    BY <2>2 DEF Over, PoolEntry
  <2> QED
    BY <2>1, <2>2
<1> QED
  BY <1>1, ReshapeKeepsBytes

LEMMA WriteKeeps ==
  ASSUME Typed, BatchInUse, InPass, NEW t, t.shape \in Shapes, t.layout \in Layouts, NEW mark \in Marks,
         NEW place \in Live \cup LossOnes, Numel(t.shape) = Numel(Pointed(place).shape),
         Write(place, t, mark)
  PROVE  /\ WriteLeaves(place)
         /\ place = <<"batch">> => storage'[batch[1]][batch[2]].shape = t.shape
         /\ \A p : place = <<"pool", p>> => pool'[p].shape = t.shape
<1>0. /\ pool \in Seq(PoolEntry) /\ lossPool \in [Owners -> Seq(PoolEntry)] /\ Owner \in Owners
      /\ storage \in [Loaders -> [1..Storages -> Memory]]
      /\ batch[1] \in Loaders /\ batch[2] \in 1..Storages
  BY OwnerIsOne DEF Typed, BatchInUse, InPass
<1>1. CASE place = <<"batch">>
  <2> DEFINE l == batch[1]
             s == batch[2]
             m == Over(storage[l][s], t, mark)
  <2>1. /\ pool' = pool /\ lossPool' = lossPool
        /\ storage' = [storage EXCEPT ![l][s] = m]
    BY <1>1 DEF Write
  <2>2. storage[l][s] \in Memory /\ Numel(t.shape) = Numel(storage[l][s].shape)
    BY <1>0, <1>1, PointsTo
  <2>3. m \in Memory /\ m.shape = t.shape
    BY <2>2, OverKeeps
  <2> HIDE DEF m
  <2>4. storage' \in [Loaders -> [1..Storages -> Memory]] /\ storage'[l][s].shape = t.shape
    BY <1>0, <2>1, <2>3
  <2>5. \A p : place # <<"pool", p>>
    BY <1>1
  <2> QED
    BY <1>0, <1>1, <2>1, <2>4, <2>5 DEF WriteLeaves
<1>2. ASSUME NEW p \in Active(pool), place = <<"pool", p>>
      PROVE  /\ WriteLeaves(place) /\ pool'[p].shape = t.shape
  <2> DEFINE m == Over(pool[p], t, mark)
  <2>0. p \in DOMAIN pool /\ pool[p] \in PoolEntry
    BY <1>0 DEF Active
  <2>1. /\ storage' = storage /\ lossPool' = lossPool /\ pool' = [pool EXCEPT ![p] = m]
    BY <1>2 DEF Write
  <2>2. Numel(t.shape) = Numel(pool[p].shape)
    BY <1>2, PointsTo
  <2>3. m \in PoolEntry /\ m.shape = t.shape /\ Bytes(m) = Bytes(pool[p]) /\ m.active = pool[p].active
    BY <2>0, <2>2, OverKeeps
  <2> HIDE DEF m
  <2>4. pool' \in Seq(PoolEntry) /\ DOMAIN pool' = DOMAIN pool
    <3>1. p \in 1..Len(pool)
      BY <1>0, <2>0
    <3> QED
      BY <1>0, <2>1, <2>3, <3>1, ExceptSeq
  <2>5. \A q \in DOMAIN pool : pool'[q] = IF q = p THEN m ELSE pool[q]
    BY <2>1
  <2>6. Active(pool') = Active(pool)
    BY <2>3, <2>4, <2>5 DEF Active
  <2>7. \A q : <<"pool", q>> # place => q # p
    BY <1>2
  <2> QED
    BY <1>0, <2>0, <2>1, <2>3, <2>4, <2>5, <2>6, <2>7 DEF WriteLeaves
<1>3. ASSUME NEW p \in DOMAIN lossPool[Owner], place = <<"loss", p>>
      PROVE  WriteLeaves(place)
  <2> DEFINE w == Owner
             m == Over(lossPool[w][p], t, mark)
  <2>0. lossPool[w][p] \in PoolEntry /\ lossPool[w] \in Seq(PoolEntry)
    BY <1>0
  <2>1. /\ storage' = storage /\ pool' = pool /\ lossPool' = [lossPool EXCEPT ![w][p] = m]
    BY <1>3 DEF Write
  <2>2. Numel(t.shape) = Numel(lossPool[w][p].shape)
    BY <1>3, PointsTo
  <2>3. m \in PoolEntry /\ Bytes(m) = Bytes(lossPool[w][p]) /\ m.active = lossPool[w][p].active
    BY <2>0, <2>2, OverKeeps
  <2> HIDE DEF m
  <2>4. lossPool' \in [Owners -> Seq(PoolEntry)]
    <3>1. [lossPool[w] EXCEPT ![p] = m] \in Seq(PoolEntry)
      BY <2>0, <2>3
    <3>2. lossPool' = [lossPool EXCEPT ![w] = [lossPool[w] EXCEPT ![p] = m]]
      BY <2>1
    <3> HIDE DEF w
    <3> QED
      BY <1>0, <3>1, <3>2
  <2>5. /\ \A o \in Owners : o # w => lossPool'[o] = lossPool[o]
        /\ DOMAIN lossPool'[w] = DOMAIN lossPool[w]
        /\ \A q \in DOMAIN lossPool[w] : lossPool'[w][q] = IF q = p THEN m ELSE lossPool[w][q]
    BY <1>0, <2>1
  <2>6. Active(lossPool'[w]) = Active(lossPool[w])
    BY <2>3, <2>5 DEF Active
  <2> HIDE DEF w
  <2> QED
    BY <1>0, <2>1, <2>3, <2>4, <2>5, <2>6 DEF WriteLeaves
<1> QED
  BY <1>1, <1>2, <1>3 DEF Live, LossOnes

\* A tensor as a pool may be asked for.
Askable(t) ==
  /\ t.shape \in Shapes /\ t.dtype = "Float32" /\ t.device = net.device
  /\ t.layout \in Layouts /\ t.storage = "RowMajor"

\* A request of a slot that has not been served, of a pool whose entries have their slots.
MayServe(entries, t, holds, slots, served, s, need) ==
  /\ entries \in Seq(PoolEntry) /\ Askable(t) /\ holds \in Marks
  /\ served \in SUBSET slots /\ s \in slots \ served /\ need[s] = Bytes(t)
  /\ Placed(DOMAIN entries, entries, slots, need)
  /\ Placed(Active(entries), entries, served, need)
Serves(entries, after, i, t, slots, served, s, need) ==
  /\ after \in Seq(PoolEntry) /\ i \in Active(after) /\ i \notin Active(entries)
  /\ DOMAIN entries \subseteq DOMAIN after /\ Active(entries) \subseteq Active(after)
  /\ \A p \in Active(entries) : after[p] = entries[p]
  /\ after[i].shape = t.shape /\ after[i].layout = t.layout
  /\ Placed(DOMAIN after, after, slots, need)
  /\ Placed(Active(after), after, served \cup {s}, need)

LEMMA EntriesRequested ==
  ASSUME NEW entries, NEW t, NEW holds, NEW slots, NEW served, NEW s, NEW need,
         MayServe(entries, t, holds, slots, served, s, need)
  PROVE  Serves(entries, Request(entries, t, holds), Requested(entries, t), t, slots, served, s, need)
<1> DEFINE after == Request(entries, t, holds)
           i == Requested(entries, t)
<1>0. /\ entries \in Seq(PoolEntry) /\ Askable(t) /\ holds \in Marks
      /\ served \in SUBSET slots /\ s \in slots \ served /\ need[s] = Bytes(t)
      /\ Placed(DOMAIN entries, entries, slots, need)
      /\ Placed(Active(entries), entries, served, need)
  BY DEF MayServe
<1>1. HandsOut(entries, i, t, holds, after)
  BY <1>0, RequestChangesOne
<1>2. /\ i \in DOMAIN entries => ~entries[i].active
      /\ after[i].active /\ after[i].shape = t.shape /\ after[i].layout = t.layout
      /\ \A j \in DOMAIN entries : entries[j].active => j \in DOMAIN after /\ after[j] = entries[j]
  BY <1>0, NeverHandedOutTwice
<1>3. after \in Seq(PoolEntry)
  <2>1. Handed(t, holds) \in PoolEntry
    BY <1>0 DEF Handed, PoolEntry, Askable
  <2>2. after = IF i \in DOMAIN entries THEN [entries EXCEPT ![i] = Handed(t, holds)]
                ELSE Append(entries, Handed(t, holds))
    BY DEF Request, Handed
  <2>3. CASE i \in DOMAIN entries
    <3>1. i \in 1..Len(entries)
      BY <1>0, <2>3
    <3> QED
      BY <1>0, <2>1, <2>2, <2>3, <3>1, ExceptSeq
  <2>4. CASE i \notin DOMAIN entries
    BY <1>0, <2>1, <2>2, <2>4
  <2> QED
    BY <2>3, <2>4
<1>4. \A p \in DOMAIN entries : /\ entries[p].dtype = t.dtype /\ entries[p].device = t.device
                                /\ entries[p].storage = t.storage
                                /\ entries[p].active \in BOOLEAN
  <2>1. \A p \in DOMAIN entries : entries[p] \in PoolEntry
    BY <1>0
  <2> QED
    BY <1>0, <2>1 DEF PoolEntry, Askable
<1>5. /\ Placed(DOMAIN after, after, slots, need)
      /\ Placed(Active(after), after, served \cup {s}, need)
  BY <1>0, <1>4, RequestPlaced
<1> QED
  BY <1>1, <1>2, <1>3, <1>5 DEF HandsOut, Active, Serves

-----------------------------------------------------------------------------
(* Steps that end a pass, or are not of one. *)

LEMMA Together ==
  ASSUME Typed', Driving', LayersTyped', BatchInUse', CurrentInUse', InputsKept', PoolsFit', PassFits'
  PROVE  IInv'
  BY DEF IInv

LEMMA LeavesPass ==
  ASSUME Typed', Driving', LayersTyped', PoolsFit', BatchInUse', ~InPass', current' = Never
  PROVE  IInv'
<1>1. at' \in Places'
  BY DEF Typed
<1>2. at[1]' \notin {"forward", "metrics", "loss gradient", "backward", "step"}
  BY <1>1 DEF InPass, Places
<1>3. CurrentInUse'
  BY <1>2 DEF CurrentInUse
<1>4. InputsKept' /\ PassFits'
  BY Zenon DEF InputsKept, PassFits
<1> QED
  BY <1>3, <1>4, Together

LEMMA LayersKept ==
  ASSUME LayersTyped, UNCHANGED net, DOMAIN layers' = 1..Depth, DOMAIN pool \subseteq DOMAIN pool',
         \A i \in 1..Depth :
           /\ layers'[i] \in LayerState(i)
           /\ layers'[i].key # NoKey /\ Kind(i) # "activation" => layers'[i].out = Shape(i)
           /\ layers'[i].saved \in {layers[i].saved, <<"batch">>} \cup {<<"pool", p>> : p \in DOMAIN pool'}
  PROVE  LayersTyped'
  BY NetKept DEF LayersTyped

\* What changes a mode or ages what the tensors hold.
LEMMA LayersRetouched ==
  ASSUME LayersTyped, UNCHANGED net, DOMAIN layers' = 1..Depth, DOMAIN pool \subseteq DOMAIN pool',
         \A i \in 1..Depth :
           /\ layers'[i] \in LayerState(i) /\ layers'[i].key = layers[i].key
           /\ layers'[i].out = layers[i].out /\ layers'[i].saved = layers[i].saved
  PROVE  LayersTyped'
  BY LayersKept DEF LayersTyped

LEMMA PoolsStillFit ==
  ASSUME PoolsFit, UNCHANGED net,
         DOMAIN pool' = DOMAIN pool, \A p \in DOMAIN pool : Bytes(pool'[p]) = Bytes(pool[p]),
         \A o \in Owners :
           \/ lossPool'[o] = <<>>
           \/ /\ DOMAIN lossPool'[o] = DOMAIN lossPool[o]
              /\ \A p \in DOMAIN lossPool[o] : Bytes(lossPool'[o][p]) = Bytes(lossPool[o][p])
  PROVE  PoolsFit'
<1>1. Placed(DOMAIN pool', pool', Slots, Need)
  BY PlacedKept DEF PoolsFit
<1>2. ASSUME NEW o \in Owners PROVE Placed(DOMAIN lossPool'[o], lossPool'[o], LossSlots, LossNeed)
  <2>1. CASE lossPool'[o] = <<>>
    <3>1. DOMAIN lossPool'[o] = {}
      BY <2>1
    <3> QED
      BY <3>1, NothingPlaced
  <2>2. CASE /\ DOMAIN lossPool'[o] = DOMAIN lossPool[o]
             /\ \A p \in DOMAIN lossPool[o] : Bytes(lossPool'[o][p]) = Bytes(lossPool[o][p])
    <3>1. Placed(DOMAIN lossPool[o], lossPool[o], LossSlots, LossNeed)
      BY DEF PoolsFit
    <3> QED
      BY <2>2, <3>1, PlacedKept
  <2> QED
    BY <2>1, <2>2
<1> QED
  BY <1>1, <1>2, NetKept DEF PoolsFit, LossSlots

LEMMA Throws ==
  ASSUME IInv, NEW why, Throw(why), UNCHANGED <<net, left>>, broken' \in [Loaders -> BOOLEAN],
         pool' \in Seq(PoolEntry), lossPool' \in [Owners -> Seq(PoolEntry)],
         storage' \in [Loaders -> [1..Storages -> Memory]], LayersTyped', PoolsFit'
  PROVE  IInv'
<1>1. at' = <<"idle">> /\ batch' = Never /\ current' = Never
  BY DEF Throw
<1>2. Typed'
  BY <1>1, NetKept DEF IInv, Typed, Places
<1>3. BatchInUse' /\ ~InPass'
  BY <1>1 DEF BatchInUse, InPass
<1>4. Driving'
  BY DEF Throw, Driving, Drivers
<1> QED
  BY <1>1, <1>2, <1>3, <1>4, LeavesPass

\* The same when nothing else has changed.
LEMMA OnlyThrows ==
  ASSUME IInv, NEW why, Throw(why), UNCHANGED <<net, left, pool, lossPool, storage, layers>>,
         broken' \in [Loaders -> BOOLEAN]
  PROVE  IInv'
<1>1. PoolsFit'
  BY PoolsStillFit DEF IInv
<1>2. LayersTyped'
  BY NetKept DEF IInv, LayersTyped
<1> QED
  BY <1>1, <1>2, Throws DEF IInv, Typed

LEMMA SetModeKeeps ==
  ASSUME LayersTyped, UNCHANGED <<net, pool>>, NEW mode \in Modes, layers' = SetMode(mode)
  PROVE  LayersTyped'
<1>1. DOMAIN layers' = 1..Depth
  BY DEF SetMode
<1>2. ASSUME NEW i \in 1..Depth
      PROVE  /\ layers'[i] \in LayerState(i) /\ layers'[i].key = layers[i].key
             /\ layers'[i].out = layers[i].out /\ layers'[i].saved = layers[i].saved
  <2>1. layers[i] \in LayerState(i)
    BY DEF LayersTyped
  <2>2. layers'[i] = [layers[i] EXCEPT !.mode = mode]
    BY DEF SetMode
  <2> QED
    BY <2>1, <2>2 DEF LayerState
<1> QED
  BY <1>1, <1>2, LayersRetouched

LEMMA SameLayers == ASSUME LayersTyped, UNCHANGED <<net, pool, layers>> PROVE LayersTyped'
  BY NetKept DEF LayersTyped

\* A step that is not of a pass, and ends in none.
LEMMA DriverMoves ==
  ASSUME IInv, ~InPass, UNCHANGED <<net, pool, storage, current>>,
         at' \in {<<"idle">>, <<"next">>}, batch' = Never, Driving',
         left' \in [Loaders -> 0..BatchCount], broken' = broken, LayersTyped',
         lossPool' = lossPool \/ lossPool' = [lossPool EXCEPT !["Evaluation"] = <<>>]
  PROVE  IInv'
<1>1. lossPool \in [Owners -> Seq(PoolEntry)]
  BY DEF IInv, Typed
<1>2. \A o \in Owners : lossPool'[o] = lossPool[o] \/ lossPool'[o] = <<>>
  BY <1>1 DEF Owners
<1>3. lossPool' \in [Owners -> Seq(PoolEntry)]
  <2> DEFINE pools == Seq(PoolEntry)
  <2>1. lossPool \in [Owners -> pools] /\ <<>> \in pools
    BY <1>1
  <2> HIDE DEF pools
  <2>2. lossPool' \in [Owners -> pools]
    BY <2>1
  <2> QED
    BY <2>2 DEF pools
<1>4. PoolsFit'
  BY <1>2, PoolsStillFit DEF IInv
<1>5. Typed'
  <2>1. at' \in Places
    BY DEF Places
  <2> QED
    BY <1>3, <2>1, NetKept DEF IInv, Typed
<1>6. BatchInUse' /\ ~InPass'
  BY DEF BatchInUse, InPass
<1>7. current' = Never
  BY DEF IInv, CurrentInUse
<1> QED
  BY <1>4, <1>5, <1>6, <1>7, LeavesPass

LEMMA IdleIsOutside ==
  ASSUME IInv, driver = Idle PROVE ~InPass /\ at = <<"idle">> /\ batch = Never
  BY DEF IInv, Driving, InPass, BatchInUse

LEMMA NextIsOutside ==
  ASSUME IInv, at = <<"next">> PROVE ~InPass /\ driver # Idle /\ driver \in Drivers /\ batch = Never
  BY DEF IInv, Driving, InPass, BatchInUse

LEMMA ConstructKeeps == ASSUME IInv, Construct PROVE IInv'
<1>0. /\ UNCHANGED <<net, pool, lossPool, storage, left, broken, driver, at, batch, current>>
      /\ layers' = PrepareTraining /\ driver = Idle
  BY DEF Construct, loaders
<1>1. LayersTyped'
  <2>1. DOMAIN layers' = 1..Depth
    BY <1>0 DEF PrepareTraining
  <2>2. ASSUME NEW i \in 1..Depth
        PROVE  /\ layers'[i] \in LayerState(i) /\ layers'[i].key = layers[i].key
               /\ layers'[i].out = layers[i].out /\ layers'[i].saved = layers[i].saved
    <3>1. layers[i] \in LayerState(i)
      BY DEF IInv, LayersTyped
    <3> DEFINE grad == IF net.layers[i].kind \in Parametric /\ layers[i].grad = Never THEN Stale
                       ELSE layers[i].grad
    <3>2. layers'[i] = [layers[i] EXCEPT !.mode = "Training", !.grad = grad]
      BY <1>0 DEF PrepareTraining
    <3>3. grad \in {Never} \cup Marks
      BY <3>1 DEF LayerState, Marks
    <3> HIDE DEF grad
    <3> QED
      BY <3>1, <3>2, <3>3 DEF LayerState, Modes
  <2> QED
    BY <1>0, <2>1, <2>2, LayersRetouched DEF IInv
<1>2. Driving'
  BY <1>0 DEF IInv, Driving, Drivers
<1> QED
  BY <1>0, <1>1, <1>2, IdleIsOutside, DriverMoves DEF IInv, Typed

LEMMA FitKeeps == ASSUME IInv, NEW epochs \in 0..2, NEW validation \in BOOLEAN, Fit(epochs, validation) PROVE IInv'
<1>0. /\ UNCHANGED <<net, pool, storage, left, broken>> /\ driver = Idle
  BY DEF Fit, loaders
<1>1. CASE epochs = 0
  <2>1. Throw("no epochs") /\ UNCHANGED <<layers, lossPool>>
    BY <1>1 DEF Fit
  <2> QED
    BY <1>0, <2>1, OnlyThrows DEF IInv, Typed
<1>2. CASE epochs # 0
  <2> DEFINE d == [op |-> "fit", phase |-> "train", epoch |-> 1, epochs |-> epochs,
                   validation |-> validation, seen |-> FALSE]
  <2>1. /\ driver' = d /\ at' = <<"next">> /\ UNCHANGED <<batch, current>>
        /\ layers' = (IF validation THEN SetMode("Inference") ELSE layers)
        /\ lossPool' = [lossPool EXCEPT !["Evaluation"] = <<>>]
    BY <1>2 DEF Fit, Begins
  <2>2. d \in Drivers /\ d # Idle
    <3>1. d.op # Idle.op
      BY DEF Idle
    <3> QED
      BY <3>1 DEF Drivers
  <2> HIDE DEF d
  <2>3. Driving'
    BY <2>1, <2>2 DEF Driving, Drivers, Idle
  <2>4. LayersTyped'
    BY <1>0, <2>1, SetModeKeeps, SameLayers DEF IInv, Modes
  <2> QED
    BY <1>0, <2>1, <2>3, <2>4, IdleIsOutside, DriverMoves DEF IInv, Typed
<1> QED
  BY <1>1, <1>2

LEMMA ServeKeeps ==
  ASSUME IInv, Evaluate \/ Run
  PROVE  IInv'
<1>0. /\ UNCHANGED <<net, pool, storage, left, broken>> /\ driver = Idle
      /\ layers' = SetMode("Inference")
      /\ lossPool' = lossPool \/ lossPool' = [lossPool EXCEPT !["Evaluation"] = <<>>]
  BY DEF Evaluate, Run, loaders
<1>1. PICK op \in {"evaluate", "run"} : Begins([op |-> op, seen |-> FALSE])
  BY DEF Evaluate, Run
<1> DEFINE d == [op |-> op, seen |-> FALSE]
<1>2. driver' = d /\ at' = <<"next">> /\ UNCHANGED <<batch, current>>
  BY <1>1 DEF Begins
<1>3. d \in Drivers /\ d # Idle
  <2>1. d.op # Idle.op
    BY DEF Idle
  <2> QED
    BY <2>1 DEF Drivers
<1> HIDE DEF d
<1>4. Driving'
  BY <1>2, <1>3 DEF Driving, Drivers, Idle
<1>5. LayersTyped'
  BY <1>0, SetModeKeeps DEF IInv, Modes
<1> QED
  BY <1>0, <1>2, <1>4, <1>5, IdleIsOutside, DriverMoves DEF IInv, Typed

LEMMA ResetEpochKeeps == ASSUME IInv, NEW loader \in Loaders, ResetEpoch(loader) PROVE IInv'
<1>0. /\ UNCHANGED <<net, pool, lossPool, storage, layers, broken, driver, at, batch, current>>
      /\ driver = Idle /\ left' = [left EXCEPT ![loader] = BatchCount]
  BY DEF ResetEpoch, model
<1>1. left' \in [Loaders -> 0..BatchCount]
  <2>1. left \in [Loaders -> 0..BatchCount] /\ BatchCount \in 0..BatchCount
    BY CountsAssumption DEF IInv, Typed
  <2> DEFINE counts == 0..BatchCount
  <2> HIDE DEF counts
  <2> QED
    BY <1>0, <2>1 DEF counts
<1>2. Driving'
  BY <1>0 DEF IInv, Driving, Drivers
<1>3. LayersTyped'
  BY <1>0, SameLayers DEF IInv
<1> QED
  BY <1>0, <1>1, <1>2, <1>3, IdleIsOutside, DriverMoves DEF IInv, Typed

LEMMA CountDown ==
  ASSUME left \in [Loaders -> 0..BatchCount], NEW loader \in Loaders,
         \/ left' = left \/ left' = [left EXCEPT ![loader] = BatchCount]
         \/ left[loader] > 0 /\ left' = [left EXCEPT ![loader] = @ - 1]
  PROVE  left' \in [Loaders -> 0..BatchCount]
<1>1. /\ BatchCount \in 0..BatchCount /\ left[loader] \in 0..BatchCount
      /\ left[loader] > 0 => left[loader] - 1 \in 0..BatchCount
  BY CountsAssumption
<1> DEFINE counts == 0..BatchCount
<1>2. \A n \in counts : [left EXCEPT ![loader] = n] \in [Loaders -> counts]
  <2>1. left \in [Loaders -> counts]
    OBVIOUS
  <2> HIDE DEF counts
  <2> QED
    BY <2>1
<1> QED
  BY <1>1, <1>2

LEMMA NextBatchKeeps == ASSUME IInv, NEW s \in 1..Storages, NextBatch(s) PROVE IInv'
<1> DEFINE host == Float(net.input, "CPU", "NCHW")
           copied == net.device = "CPU"
                     \/ copy_async(net.device, Plain(storage[Loader][s]), host) # Threw
<1>0. /\ UNCHANGED <<net, pool, layers, lossPool>> /\ at = <<"next">> /\ left[Loader] > 0
      /\ Loader \in Loaders
  BY OwnerIsOne DEF NextBatch, model
<1>1. CASE broken[Loader] \/ ~copied
  <2>1. /\ Throw("loader") /\ UNCHANGED <<storage, left>>
        /\ broken' = [broken EXCEPT ![Loader] = TRUE]
    BY <1>1 DEF NextBatch
  <2>2. broken' \in [Loaders -> BOOLEAN]
    BY <1>0, <2>1 DEF IInv, Typed
  <2> QED
    BY <1>0, <2>1, <2>2, OnlyThrows
<1>2. CASE ~(broken[Loader] \/ ~copied)
  <2>1. /\ storage' = [storage EXCEPT ![Loader][s].holds = <<"batch">>]
        /\ left' = [left EXCEPT ![Loader] = @ - 1]
        /\ batch' = <<Loader, s, IF left[Loader] = 1 THEN 1 ELSE net.input[1]>>
        /\ at' = <<"begin">> /\ UNCHANGED <<driver, current, broken>>
    BY <1>2 DEF NextBatch
  <2>2. storage' \in [Loaders -> [1..Storages -> Memory]]
    <3> DEFINE w == Loader
               numbers == 1..Storages
               m == [storage[w][s] EXCEPT !.holds = <<"batch">>]
    <3>1. storage \in [Loaders -> [numbers -> Memory]] /\ s \in numbers /\ w \in Loaders
      BY <1>0 DEF IInv, Typed
    <3>2. storage[w][s] \in Memory
      <4> HIDE DEF w, numbers
      <4> QED
        BY <3>1
    <3>3. m \in Memory
      BY <3>2 DEF Memory, Marks
    <3>4. storage' = [storage EXCEPT ![w][s] = m]
      BY <2>1
    <3> HIDE DEF w, numbers, m
    <3>5. storage' \in [Loaders -> [numbers -> Memory]]
      BY <3>1, <3>3, <3>4
    <3> QED
      BY <3>5 DEF numbers
  <2>3. left' \in [Loaders -> 0..BatchCount]
    BY <1>0, <2>1, CountDown DEF IInv, Typed
  <2>4. Typed'
    <3>1. at' \in Places
      BY <2>1 DEF Places
    <3> QED
      BY <1>0, <2>1, <2>2, <2>3, <3>1, NetKept DEF IInv, Typed
  <2>5. BatchInUse' /\ ~InPass'
    <3>1. net.input[1] \in Nat \ {0}
      BY NetworkAssumed, BatchHas, SizesAreNumbers DEF IInv, Typed
    <3>2. batch'[3] \in 1..net.input[1] /\ batch'[1] = Loader /\ batch'[2] = s /\ batch' # Never
      BY <2>1, <3>1 DEF Never
    <3> QED
      BY <1>0, <2>1, <3>2 DEF BatchInUse, InPass
  <2>6. current' = Never
    BY <1>0, <2>1, NextIsOutside DEF IInv, CurrentInUse
  <2>7. Driving'
    BY <1>0, <2>1, NextIsOutside DEF Driving, Drivers, Idle
  <2>8. LayersTyped' /\ PoolsFit'
    BY <1>0, SameLayers, PoolsStillFit DEF IInv
  <2> QED
    BY <2>4, <2>5, <2>6, <2>7, <2>8, LeavesPass
<1> QED
  BY <1>1, <1>2

LEMMA EndEpochKeeps == ASSUME IInv, EndEpoch PROVE IInv'
<1>0. /\ UNCHANGED <<net, pool, storage, lossPool, broken>> /\ at = <<"next">>
      /\ driver \in Drivers /\ driver # Idle /\ batch = Never /\ ~InPass
  BY NextIsOutside DEF EndEpoch
<1>1. "train" \in Loaders /\ "validation" \in Loaders
  BY DEF Loaders
<1>2. ASSUME NEW why, Throw(why), UNCHANGED <<left, layers>> PROVE IInv'
  BY <1>0, <1>2, OnlyThrows DEF IInv, Typed
<1>3. ASSUME driver.op = "fit", driver.phase = "train", ~broken["validation"],
             left' = [left EXCEPT !["validation"] = BatchCount],
             layers' = SetMode("Inference"),
             driver' = [driver EXCEPT !.phase = "validate", !.seen = FALSE],
             UNCHANGED <<at, batch, current>>
      PROVE  IInv'
  <2>1. left' \in [Loaders -> 0..BatchCount]
    BY <1>1, <1>3, CountDown DEF IInv, Typed
  <2>2. LayersTyped'
    BY <1>0, <1>3, SetModeKeeps DEF IInv, Modes
  <2>3. Driving'
    BY <1>0, <1>3 DEF Driving, Drivers, Idle
  <2> QED
    BY <1>0, <1>3, <2>1, <2>2, <2>3, DriverMoves DEF IInv, Typed
<1>4. ASSUME driver.op = "fit", driver.epoch < driver.epochs,
             left' = [left EXCEPT !["train"] = BatchCount],
             driver' = [driver EXCEPT !.phase = "train", !.epoch = @ + 1, !.seen = FALSE],
             UNCHANGED <<layers, at, batch, current>>
      PROVE  IInv'
  <2>1. left' \in [Loaders -> 0..BatchCount]
    BY <1>1, <1>4, CountDown DEF IInv, Typed
  <2>2. LayersTyped'
    BY <1>0, <1>4, SameLayers DEF IInv
  <2>3. Driving'
    <3>1. driver \in [op : {"fit"}, phase : {"train", "validate"}, epoch : Nat, epochs : Nat,
                       validation : BOOLEAN, seen : BOOLEAN]
      BY <1>0, <1>4 DEF Drivers, Idle
    <3>2. PICK n \in Nat : n = driver.epoch + 1
      BY <3>1
    <3>3. driver' = [driver EXCEPT !.phase = "train", !.epoch = n, !.seen = FALSE]
      BY <1>4, <3>2
    <3>4. driver'.op = "fit" /\ driver' \in Drivers
      BY <3>1, <3>3 DEF Drivers
    <3> QED
      BY <3>4 DEF Driving, Idle
  <2> QED
    BY <1>0, <1>4, <2>1, <2>2, <2>3, DriverMoves DEF IInv, Typed
<1>5. ASSUME driver' = Idle, at' = <<"idle">>, UNCHANGED <<left, layers, batch, current>>
      PROVE  IInv'
  <2>1. LayersTyped'
    BY <1>0, <1>5, SameLayers DEF IInv
  <2>2. Driving'
    BY <1>5 DEF Driving, Drivers
  <2> QED
    BY <1>0, <1>5, <2>1, <2>2, DriverMoves DEF IInv, Typed
<1>6. CASE ~driver.seen /\ driver.op # "run"
  BY <1>2, <1>6 DEF EndEpoch
<1>7. CASE ~(~driver.seen /\ driver.op # "run")
           /\ driver.op = "fit" /\ driver.phase = "train" /\ driver.validation
  <2>1. IF broken["validation"] THEN Throw("loader") /\ UNCHANGED <<left, layers>>
        ELSE /\ left' = [left EXCEPT !["validation"] = BatchCount]
             /\ layers' = SetMode("Inference")
             /\ driver' = [driver EXCEPT !.phase = "validate", !.seen = FALSE]
             /\ UNCHANGED <<at, batch, current, threw>>
    BY <1>7 DEF EndEpoch
  <2> QED
    BY <1>2, <1>3, <1>7, <2>1
<1>8. CASE ~(~driver.seen /\ driver.op # "run")
           /\ ~(driver.op = "fit" /\ driver.phase = "train" /\ driver.validation)
  <2>1. IF driver.op = "fit" /\ driver.epoch < driver.epochs
        THEN /\ left' = [left EXCEPT !["train"] = BatchCount]
             /\ driver' = [driver EXCEPT !.phase = "train", !.epoch = @ + 1, !.seen = FALSE]
             /\ UNCHANGED <<layers, at, batch, current, threw>>
        ELSE /\ driver' = Idle /\ at' = <<"idle">>
             /\ UNCHANGED <<left, layers, batch, current, threw>>
    BY <1>8 DEF EndEpoch
  <2> QED
    BY <1>4, <1>5, <2>1
<1> QED
  BY <1>6, <1>7, <1>8

-----------------------------------------------------------------------------
(* The steps of a pass. *)

LEMMA AgedKeeps ==
  ASSUME NEW entries \in Seq(PoolEntry), NEW after, after = Reset(Aged(entries))
  PROVE  /\ after \in Seq(PoolEntry) /\ DOMAIN after = DOMAIN entries /\ Active(after) = {}
         /\ \A p \in DOMAIN entries : Bytes(after[p]) = Bytes(entries[p])
<1>1. /\ DOMAIN after = DOMAIN entries
      /\ \A p \in DOMAIN entries :
           after[p] = [[entries[p] EXCEPT !.holds = Stale] EXCEPT !.active = FALSE]
  BY DEF Reset, Aged
<1>2. ASSUME NEW p \in DOMAIN entries
      PROVE  /\ after[p] \in PoolEntry /\ ~after[p].active
             /\ after[p].shape = entries[p].shape /\ after[p].dtype = entries[p].dtype
  <2>1. entries[p] \in PoolEntry
    OBVIOUS
  <2>2. PICK e \in PoolEntry : e = entries[p]
    BY <2>1
  <2>3. after[p] = [[e EXCEPT !.holds = Stale] EXCEPT !.active = FALSE] /\ Stale \in Marks
    BY <1>1, <2>2 DEF Marks
  <2> QED
    BY <2>2, <2>3 DEF PoolEntry
<1>3. after \in Seq(PoolEntry)
  <2>1. Len(entries) \in Nat /\ DOMAIN entries = 1..Len(entries)
    OBVIOUS
  <2>2. after = [p \in DOMAIN after |-> after[p]] /\ DOMAIN after = 1..Len(entries)
    BY <1>1, <2>1 DEF Reset
  <2>3. after = [p \in 1..Len(entries) |-> after[p]]
    BY <2>2, Zenon
  <2> QED
    BY <1>2, <2>1, <2>3, IsASeq
<1> QED
  BY <1>1, <1>2, <1>3, BytesAlike DEF Active

LEMMA BeginPassKeeps == ASSUME IInv, BeginPass PROVE IInv'
<1>0. /\ UNCHANGED <<net, storage, left, broken>> /\ at = <<"begin">> /\ ~InPass
      /\ pool' = Reset(Aged(pool))
  BY DEF BeginPass, loaders, InPass
<1>1. /\ pool \in Seq(PoolEntry) /\ lossPool \in [Owners -> Seq(PoolEntry)] /\ Owner \in Owners
      /\ batch[1] \in Loaders /\ batch[2] \in 1..Storages
  BY <1>0, OwnerIsOne DEF IInv, Typed, BatchInUse
<1>2. /\ pool' \in Seq(PoolEntry) /\ DOMAIN pool' = DOMAIN pool /\ Active(pool') = {}
      /\ \A p \in DOMAIN pool : Bytes(pool'[p]) = Bytes(pool[p])
  BY <1>0, <1>1, AgedKeeps
<1>3. /\ lossPool' \in [Owners -> Seq(PoolEntry)]
      /\ \A o \in Owners : /\ DOMAIN lossPool'[o] = DOMAIN lossPool[o]
                           /\ \A p \in DOMAIN lossPool[o] : Bytes(lossPool'[o][p]) = Bytes(lossPool[o][p])
      /\ driver.op # "run" => Active(lossPool'[Owner]) = {}
  <2>1. CASE driver.op = "run"
    <3>1. lossPool' = lossPool
      BY <2>1 DEF BeginPass
    <3> QED
      BY <1>1, <2>1, <3>1
  <2>2. CASE driver.op # "run"
    <3> DEFINE w == Owner
               pools == Seq(PoolEntry)
               after == Reset(Aged(lossPool[w]))
    <3>1. lossPool' = [lossPool EXCEPT ![w] = after]
      BY <2>2 DEF BeginPass
    <3>2. lossPool[w] \in Seq(PoolEntry)
      BY <1>1
    <3>3. /\ after \in pools /\ DOMAIN after = DOMAIN lossPool[w] /\ Active(after) = {}
          /\ \A p \in DOMAIN lossPool[w] : Bytes(after[p]) = Bytes(lossPool[w][p])
      BY <3>2, AgedKeeps
    <3>4. lossPool \in [Owners -> pools] /\ w \in Owners
      BY <1>1
    <3> HIDE DEF w, after, pools
    <3>5. lossPool' \in [Owners -> pools] /\ lossPool'[w] = after
          /\ \A o \in Owners : o # w => lossPool'[o] = lossPool[o]
      BY <3>1, <3>3, <3>4
    <3> QED
      BY <3>3, <3>5 DEF w, pools
  <2> QED
    BY <2>1, <2>2
<1>4. PoolsFit'
  BY <1>0, <1>2, <1>3, PoolsStillFit DEF IInv
<1>5. LayersTyped'
  <2>1. DOMAIN layers' = 1..Depth
    BY DEF BeginPass
  <2>2. ASSUME NEW i \in 1..Depth
        PROVE  /\ layers'[i] \in LayerState(i) /\ layers'[i].key = layers[i].key
               /\ layers'[i].out = layers[i].out /\ layers'[i].saved = layers[i].saved
    <3>1. layers[i] \in LayerState(i)
      BY DEF IInv, LayersTyped
    <3> DEFINE mode == IF Owner = "Training" THEN "Training" ELSE layers[i].mode
               read == Forget(layers[i].read)
               indices == Forget(layers[i].indices)
               grad == Forget(layers[i].grad)
    <3>2. layers'[i] = [layers[i] EXCEPT !.mode = mode, !.read = read, !.indices = indices,
                                         !.grad = grad]
      BY DEF BeginPass
    <3>3. mode \in Modes /\ {read, indices, grad} \subseteq {Never} \cup Marks
      BY <3>1 DEF LayerState, Modes, Forget, Marks
    <3> HIDE DEF mode, read, indices, grad
    <3>4. layers'[i] \in LayerState(i)
      BY <3>1, <3>2, <3>3 DEF LayerState
    <3>5. /\ layers'[i].key = layers[i].key /\ layers'[i].out = layers[i].out
          /\ layers'[i].saved = layers[i].saved
      BY <3>1, <3>2 DEF LayerState
    <3> QED
      BY <3>4, <3>5
  <2> QED
    BY <1>0, <1>2, <2>1, <2>2, LayersRetouched DEF IInv
<1>6. CASE ~Accepts(Inputs)
  <2>1. Throw("input shape")
    BY <1>6 DEF BeginPass
  <2> QED
    BY <1>0, <1>2, <1>3, <1>4, <1>5, <2>1, Throws DEF IInv, Typed
<1>7. CASE Accepts(Inputs)
  <2>1. at' = <<"forward", 1>> /\ current' = <<"batch">> /\ UNCHANGED <<driver, batch>>
    BY <1>7 DEF BeginPass, Go
  <2>2. Depth \in Nat /\ Depth' = Depth /\ Places' = Places /\ Shape(0)' = net.input
    BY <1>0, ShapeStep, NetKept DEF IInv
  <2>3. at' \in Places
    <3>1. 1 \in 1..(Depth + 1)
      BY <2>2
    <3> QED
      BY <2>1, <3>1 DEF Places
  <2>4. Typed'
    BY <1>0, <1>2, <1>3, <2>3, NetKept DEF IInv, Typed
  <2>5. Driving'
    BY <1>0, <2>1 DEF IInv, Driving, Drivers
  <2>6. BatchInUse'
    BY <1>0, <2>1 DEF IInv, BatchInUse
  <2>7. Passed' = 0 /\ InPass'
    BY <2>1 DEF Passed, InPass
  <2>8. CurrentInUse'
    <3>1. Pointed(<<"batch">>)' = Inputs
      BY <1>0, <2>1 DEF Pointed, Inputs
    <3>2. Inputs.shape = net.input
      BY <1>7 DEF Accepts
    <3>3. current' \in Live'
      BY <2>1 DEF Live
    <3>4. Pointed(current)'.shape = Shape(Passed)'
      <4>1. Pointed(current)' = Inputs
        BY <2>1, <3>1 DEF Pointed
      <4>2. Shape(Passed)' = Shape(0)'
        BY <2>7 DEF Shape
      <4> QED
        BY <2>2, <3>2, <4>1, <4>2
    <3> QED
      BY <2>1, <2>7, <3>3, <3>4 DEF CurrentInUse
  <2>9. InputsKept'
    BY <2>7 DEF InputsKept
  <2>10. PassFits'
    <3>1. Owner' = Owner /\ driver' = driver
      BY <2>1 DEF Owner
    <3>2. Placed(Active(pool'), pool', Served', Need')
      BY <1>2, NothingPlaced
    <3>3. driver.op # "run" => Placed(Active(lossPool'[Owner]), lossPool'[Owner], LossServed', LossNeed')
      BY <1>3, NothingPlaced
    <3> QED
      BY <3>1, <3>2, <3>3, Zenon DEF PassFits
  <2> QED
    BY <1>4, <1>5, <2>4, <2>5, <2>6, <2>8, <2>9, <2>10, Together
<1> QED
  BY <1>6, <1>7

\* What the layers have kept stays, as long as the tensors in use do that are not the one
\* the pass goes on with.
LEMMA PassGoesOn ==
  ASSUME IInv, InPass, InPass', UNCHANGED <<net, batch, driver, left, broken>>, at' \in Places,
         pool' \in Seq(PoolEntry), lossPool' \in [Owners -> Seq(PoolEntry)],
         storage' \in [Loaders -> [1..Storages -> Memory]],
         LayersTyped', CurrentInUse', PoolsFit', PassFits',
         \A j \in 1..Passed' :
           \/ Kept(j)'
           \/ /\ j \in 1..Passed
              /\ layers'[j].saved = layers[j].saved /\ layers'[j].shape = layers[j].shape,
         current' = current \/ current' \notin Live,
         \A q \in Live : q # current' => q \in Live' /\ Pointed(q)'.shape = Pointed(q).shape
  PROVE  IInv'
<1>1. Typed'
  BY NetKept DEF IInv, Typed
<1>2. Driving'
  BY DEF IInv, Driving, Drivers, InPass
<1>3. BatchInUse'
  BY DEF IInv, BatchInUse, InPass
<1>4. ASSUME NEW j \in 1..Passed', j \in 1..Passed,
             layers'[j].saved = layers[j].saved, layers'[j].shape = layers[j].shape
      PROVE  Kept(j)'
  <2>1. Kept(j)
    BY <1>4 DEF IInv, InputsKept
  <2>2. ASSUME Kind(j) \in Parametric
        PROVE  /\ layers'[j].saved \in Live' /\ layers'[j].saved # current'
               /\ Pointed(layers[j].saved)'.shape = Shape(j - 1)
    <3> DEFINE q == layers[j].saved
    <3>1. q \in Live /\ q # current /\ Pointed(q).shape = Shape(j - 1) /\ layers'[j].saved = q
      BY <1>4, <2>1, <2>2 DEF Kept
    <3>2. q # current'
      BY <3>1
    <3> QED
      BY <1>4, <3>1, <3>2 DEF Pointed, Inputs
  <2> QED
    BY <1>4, <2>1, <2>2, NetKept DEF Kept, Pointed, Inputs
<1>5. InputsKept'
  BY <1>4 DEF InputsKept
<1> QED
  BY <1>1, <1>2, <1>3, <1>5, Together

LEMMA PlacesOfPasses ==
  ASSUME Typed
  PROVE  /\ at[1] = "forward" => \E j \in 1..(Depth + 1) : at = <<"forward", j>>
         /\ at[1] = "backward" => \E j \in 0..Depth : at = <<"backward", j>>
<1>1. at \in Places
  BY DEF Typed
<1>2. CASE at \in {<<"idle">>, <<"next">>, <<"begin">>, <<"metrics">>, <<"loss gradient">>, <<"step">>}
  <2>1. PICK w \in {"idle", "next", "begin", "metrics", "loss gradient", "step"} : at = <<w>>
    BY <1>2
  <2>2. at[1] = w
    BY <2>1
  <2> QED
    BY <2>2
<1>3. CASE at \in {<<"forward", i>> : i \in 1..(Depth + 1)}
  <2>1. at[1] # "backward"
    BY <1>3
  <2> QED
    BY <1>3, <2>1
<1>4. CASE at \in {<<"backward", i>> : i \in 0..Depth}
  <2>1. at[1] # "forward"
    BY <1>4
  <2> QED
    BY <1>4, <2>1
<1> QED
  BY <1>1, <1>2, <1>3, <1>4 DEF Places

\* The pool after a request for a slot that has not been served in this pass.
LEMMA RequestFits ==
  ASSUME IInv, InPass, UNCHANGED <<net, lossPool>>, NEW t, Askable(t), NEW holds \in Marks,
         NEW s \in Slots, s \notin Served, Need[s] = Bytes(t), pool' = Request(pool, t, holds),
         NEW i, i = Requested(pool, t)
  PROVE  /\ pool' \in Seq(PoolEntry) /\ lossPool' \in [Owners -> Seq(PoolEntry)]
         /\ DOMAIN pool \subseteq DOMAIN pool'
         /\ i \in Active(pool') /\ i \notin Active(pool)
         /\ pool'[i].shape = t.shape /\ pool'[i].layout = t.layout
         /\ \A p \in Active(pool) : p \in Active(pool') /\ pool'[p] = pool[p]
         /\ PoolsFit' /\ Placed(Active(pool'), pool', Served \cup {s}, Need)
<1>1. /\ pool \in Seq(PoolEntry) /\ lossPool \in [Owners -> Seq(PoolEntry)]
      /\ Served \in SUBSET Slots /\ s \in Slots \ Served
      /\ Placed(DOMAIN pool, pool, Slots, Need) /\ Placed(Active(pool), pool, Served, Need)
  BY DEF IInv, Typed, Served, PoolsFit, PassFits
<1>2. /\ pool' \in Seq(PoolEntry) /\ i \in Active(pool') /\ i \notin Active(pool)
      /\ DOMAIN pool \subseteq DOMAIN pool' /\ Active(pool) \subseteq Active(pool')
      /\ \A p \in Active(pool) : pool'[p] = pool[p]
      /\ pool'[i].shape = t.shape /\ pool'[i].layout = t.layout
      /\ Placed(DOMAIN pool', pool', Slots, Need)
      /\ Placed(Active(pool'), pool', Served \cup {s}, Need)
  <2>1. MayServe(pool, t, holds, Slots, Served, s, Need)
    BY <1>1 DEF MayServe
  <2>2. Serves(pool, pool', i, t, Slots, Served, s, Need)
    BY <2>1, EntriesRequested
  <2> QED
    BY <2>2 DEF Serves
<1>3. PoolsFit'
  <2>1. \A o \in Owners : Placed(DOMAIN lossPool'[o], lossPool'[o], LossSlots, LossNeed)
    BY DEF IInv, PoolsFit
  <2> QED
    BY <1>2, <2>1, NetKept DEF PoolsFit, LossSlots
<1> QED
  BY <1>1, <1>2, <1>3

\* The pool of the loss after one of the two requests of a pass.
LEMMA LossRequestFits ==
  ASSUME IInv, InPass, driver.op # "run", UNCHANGED <<net, pool>>, NEW t, Askable(t), NEW holds \in Marks,
         NEW s \in LossSlots, LossServed \in SUBSET LossSlots, s \notin LossServed, LossNeed[s] = Bytes(t),
         lossPool' = [lossPool EXCEPT ![Owner] = Request(@, t, holds)],
         NEW i, i = Requested(lossPool[Owner], t)
  PROVE  /\ lossPool' \in [Owners -> Seq(PoolEntry)] /\ i \in DOMAIN lossPool'[Owner]
         /\ lossPool'[Owner][i].shape = t.shape
         /\ PoolsFit'
         /\ Placed(Active(lossPool'[Owner]), lossPool'[Owner], LossServed \cup {s}, LossNeed)
<1> DEFINE w == Owner
           pools == Seq(PoolEntry)
           after == Request(lossPool[w], t, holds)
<1>1. /\ lossPool \in [Owners -> pools] /\ w \in Owners /\ lossPool[w] \in Seq(PoolEntry)
      /\ s \in LossSlots \ LossServed
      /\ \A o \in Owners : Placed(DOMAIN lossPool[o], lossPool[o], LossSlots, LossNeed)
      /\ Placed(Active(lossPool[w]), lossPool[w], LossServed, LossNeed)
  BY OwnerIsOne DEF IInv, Typed, PoolsFit, PassFits
<1>2. /\ after \in pools /\ i \in Active(after) /\ after[i].shape = t.shape
      /\ Placed(DOMAIN after, after, LossSlots, LossNeed)
      /\ Placed(Active(after), after, LossServed \cup {s}, LossNeed)
  <2>1. MayServe(lossPool[w], t, holds, LossSlots, LossServed, s, LossNeed)
    BY <1>1 DEF MayServe
  <2>2. Serves(lossPool[w], after, i, t, LossSlots, LossServed, s, LossNeed)
    BY <2>1, EntriesRequested
  <2> HIDE DEF after
  <2> QED
    BY <2>2 DEF Serves
<1>3. lossPool' = [lossPool EXCEPT ![w] = after]
  OBVIOUS
<1> HIDE DEF w, pools, after
<1>4. /\ lossPool' \in [Owners -> pools] /\ lossPool'[w] = after
      /\ \A o \in Owners : o # w => lossPool'[o] = lossPool[o]
  BY <1>1, <1>2, <1>3
<1>5. \A o \in Owners : Placed(DOMAIN lossPool'[o], lossPool'[o], LossSlots, LossNeed)
  BY <1>1, <1>2, <1>4
<1>6. PoolsFit'
  <2>1. Placed(DOMAIN pool', pool', Slots, Need)
    BY DEF IInv, PoolsFit
  <2> QED
    BY <1>5, <2>1, NetKept DEF PoolsFit, LossSlots
<1> QED
  BY <1>2, <1>4, <1>6 DEF w, pools, Active

\* The pools after a tensor was written in place.
LEMMA WriteFits ==
  ASSUME IInv, InPass, UNCHANGED net, NEW place, WriteLeaves(place)
  PROVE  /\ PoolsFit' /\ Placed(Active(pool'), pool', Served, Need)
         /\ driver.op # "run" =>
              Placed(Active(lossPool'[Owner]), lossPool'[Owner], LossServed, LossNeed)
<1>1. PoolsFit'
  BY PoolsStillFit DEF IInv, WriteLeaves
<1>2. Placed(Active(pool'), pool', Served, Need)
  <2>1. Placed(Active(pool), pool, Served, Need)
    BY DEF IInv, PassFits
  <2>2. Active(pool') = Active(pool) /\ \A p \in Active(pool) : Bytes(pool'[p]) = Bytes(pool[p])
    BY DEF WriteLeaves, Active
  <2> QED
    BY <2>1, <2>2, PlacedKept
<1>3. ASSUME driver.op # "run"
      PROVE  Placed(Active(lossPool'[Owner]), lossPool'[Owner], LossServed, LossNeed)
  <2>1. Placed(Active(lossPool[Owner]), lossPool[Owner], LossServed, LossNeed)
    BY <1>3 DEF IInv, PassFits
  <2>2. /\ Active(lossPool'[Owner]) = Active(lossPool[Owner])
        /\ \A p \in Active(lossPool[Owner]) : Bytes(lossPool'[Owner][p]) = Bytes(lossPool[Owner][p])
    BY OwnerIsOne DEF WriteLeaves, Active
  <2> QED
    BY <2>1, <2>2, PlacedKept
<1> QED
  BY <1>1, <1>2, <1>3

\* Every other tensor in use stays in use, as it is.
LEMMA OthersStay ==
  ASSUME UNCHANGED batch, NEW place, <<"batch">> # place => storage' = storage,
         \A p \in Active(pool) : p \in Active(pool') /\ (<<"pool", p>> # place => pool'[p] = pool[p])
  PROVE  \A q \in Live : q \in Live' /\ (q # place => Pointed(q)' = Pointed(q))
<1>1. ASSUME NEW q \in Live, q = <<"batch">>
      PROVE  q \in Live' /\ (q # place => Pointed(q)' = Pointed(q))
  BY <1>1 DEF Live, Pointed, Inputs
<1>2. ASSUME NEW p \in Active(pool), NEW q, q = <<"pool", p>>
      PROVE  q \in Live' /\ (q # place => Pointed(q)' = Pointed(q))
  BY <1>2 DEF Live, Pointed
<1> QED
  BY <1>1, <1>2 DEF Live

LEMMA NothingMoves ==
  ASSUME UNCHANGED <<batch, pool, storage>>
  PROVE  \A q \in Live : q \in Live' /\ Pointed(q)' = Pointed(q)
<1>1. Live' = Live
  BY DEF Live, Active
<1>2. ASSUME NEW q \in Live PROVE Pointed(q)' = Pointed(q)
  BY <1>2 DEF Pointed, Inputs, Live
<1> QED
  BY <1>1, <1>2

LEMMA WriteStays ==
  ASSUME UNCHANGED batch, NEW place, WriteLeaves(place)
  PROVE  \A q \in Live : q \in Live' /\ (q # place => Pointed(q)' = Pointed(q))
  BY OthersStay DEF WriteLeaves, Active

\* A layer is through with its forward call.
LEMMA ForwardGoesOn ==
  ASSUME IInv, NEW i \in 1..Depth, at = <<"forward", i>>, NEW next, Go(<<"forward", i + 1>>, next),
         UNCHANGED <<net, left, broken>>, DOMAIN pool \subseteq DOMAIN pool',
         pool' \in Seq(PoolEntry), lossPool' \in [Owners -> Seq(PoolEntry)],
         storage' \in [Loaders -> [1..Storages -> Memory]], PoolsFit',
         NEW r \in LayerState(i), layers' = [layers EXCEPT ![i] = r],
         r.key # NoKey /\ Kind(i) # "activation" => r.out = Shape(i),
         r.saved \in {layers[i].saved, current},
         Kind(i) \in Parametric => r.saved = current /\ next # current,
         Kind(i) \in {"maxpool", "flatten"} => r.shape = Shape(i - 1),
         Placed(Active(pool'), pool',
                IF Kind(i) \in InPlace THEN Served ELSE Served \cup {<<"forward", i>>}, Need),
         driver.op # "run" => Placed(Active(lossPool'[Owner]), lossPool'[Owner], LossServed, LossNeed),
         next \in Live', Pointed(next)'.shape = Shape(i), next = current \/ next \notin Live,
         \A q \in Live : q \in Live' /\ (q # next => Pointed(q)' = Pointed(q))
  PROVE  IInv'
<1>0. /\ at' = <<"forward", i + 1>> /\ current' = next /\ UNCHANGED <<driver, batch>>
      /\ Owner' = Owner /\ InPass /\ InPass' /\ i \in Nat \ {0} /\ Depth \in Nat
      /\ Passed = i - 1 /\ Passed' = i
  BY ShapeStep DEF Go, Owner, InPass, Passed, IInv
<1>1. current \in Live /\ Pointed(current).shape = Shape(i - 1)
  BY <1>0 DEF IInv, CurrentInUse
<1>2. at' \in Places
  <2>1. i + 1 \in 1..(Depth + 1)
    BY <1>0
  <2> QED
    BY <1>0, <2>1 DEF Places
<1>3. LayersTyped'
  <2>1. DOMAIN layers = 1..Depth
    BY DEF IInv, LayersTyped
  <2>2. current \in {<<"batch">>} \cup {<<"pool", p>> : p \in DOMAIN pool'}
    BY <1>1 DEF Live, Active
  <2>3. ASSUME NEW j \in 1..Depth
        PROVE  /\ layers'[j] \in LayerState(j)
               /\ layers'[j].key # NoKey /\ Kind(j) # "activation" => layers'[j].out = Shape(j)
               /\ layers'[j].saved \in {layers[j].saved, <<"batch">>}
                                       \cup {<<"pool", p>> : p \in DOMAIN pool'}
    <3>1. CASE j = i
      BY <2>1, <2>2, <3>1
    <3>2. CASE j # i
      BY <2>1, <3>2 DEF IInv, LayersTyped
    <3> QED
      BY <3>1, <3>2
  <2> QED
    BY <2>1, <2>3, LayersKept DEF IInv
<1>4. CurrentInUse'
  <2>1. Pointed(current)'.shape = Shape(Passed)'
    <3>1. Pointed(current)' = Pointed(next)'
      BY <1>0 DEF Pointed, Inputs
    <3>2. Shape(Passed)' = Shape(i)
      BY <1>0 DEF Shape
    <3> QED
      BY <3>1, <3>2
  <2> QED
    BY <1>0, <2>1 DEF CurrentInUse
<1>5. PassFits'
  <2>1. Placed(Active(pool'), pool', Served', Need')
    <3>1. Ahead' = Depth /\ Ahead = Depth
      BY <1>0, NetKept DEF Ahead
    <3>2. Slots' = Slots /\ Need' = Need
      BY NetKept
    <3>3. \A s \in Slots : s[2] \in Nat /\ s = <<s[1], s[2]>> /\ (s = <<"forward", i>> => Kind(i) \notin InPlace)
      BY DEF Slots
    <3>4. Served' = {s \in Slots : IF s[1] = "forward" THEN s[2] <= i ELSE s[2] > Depth}
      BY <1>0, <3>1, <3>2 DEF Served
    <3>5. Served = {s \in Slots : IF s[1] = "forward" THEN s[2] <= i - 1 ELSE s[2] > Depth}
      BY <1>0, <3>1 DEF Served
    <3>6. \A s \in Slots : s[1] = "forward" /\ s[2] <= i => s[2] <= i - 1 \/ s = <<"forward", i>>
      BY <1>0, <3>3
    <3>7. Kind(i) \notin InPlace => <<"forward", i>> \in Slots
      BY DEF Slots
    <3>8. Served' = IF Kind(i) \in InPlace THEN Served ELSE Served \cup {<<"forward", i>>}
      <4>1. CASE Kind(i) \in InPlace
        BY <1>0, <3>3, <3>4, <3>5, <3>6, <4>1
      <4>2. CASE Kind(i) \notin InPlace
        <5>1. /\ <<"forward", i>> \in Slots /\ <<"forward", i>>[1] = "forward"
              /\ <<"forward", i>>[2] = i
          BY <3>7, <4>2
        <5>2. <<"forward", i>> \in Served'
          BY <1>0, <3>4, <5>1
        <5>3. Served \subseteq Served'
          BY <1>0, <3>3, <3>4, <3>5
        <5>4. Served' \subseteq Served \cup {<<"forward", i>>}
          BY <3>4, <3>5, <3>6
        <5> QED
          BY <4>2, <5>2, <5>3, <5>4
      <4> QED
        BY <4>1, <4>2
    <3> QED
      BY <3>2, <3>8
  <2>2. LossServed' = LossServed /\ LossNeed' = LossNeed
    BY <1>0, NetKept DEF LossServed
  <2> QED
    BY <1>0, <2>1, <2>2, Zenon DEF PassFits
<1>6. ASSUME NEW j \in 1..Passed'
      PROVE  \/ Kept(j)'
             \/ /\ j \in 1..Passed
                /\ layers'[j].saved = layers[j].saved /\ layers'[j].shape = layers[j].shape
  <2>1. CASE j = i
    <3>1. layers'[i] = r
      BY DEF IInv, LayersTyped
    <3>2. Kind(i) \in Parametric =>
            /\ r.saved \in Live' /\ r.saved # next /\ Pointed(r.saved)'.shape = Shape(i - 1)
      BY <1>1
    <3> QED
      BY <1>0, <2>1, <3>1, <3>2, NetKept DEF Kept, Pointed, Inputs
  <2>2. CASE j # i
    BY <1>0, <2>2
  <2> QED
    BY <2>1, <2>2
<1>7. current' = current \/ current' \notin Live
  BY <1>0
<1>8. \A q \in Live : q # current' => q \in Live' /\ Pointed(q)'.shape = Pointed(q).shape
  BY <1>0
<1> QED
  BY <1>0, <1>2, <1>3, <1>4, <1>5, <1>6, <1>7, <1>8, PassGoesOn

\* A layer that throws has prepared for its input.
LEMMA LayerReplaced ==
  ASSUME IInv, UNCHANGED net, DOMAIN pool \subseteq DOMAIN pool',
         NEW i \in 1..Depth, NEW r \in LayerState(i), layers' = [layers EXCEPT ![i] = r],
         r.key # NoKey /\ Kind(i) # "activation" => r.out = Shape(i),
         r.saved = layers[i].saved \/ r.saved \in Live
  PROVE  LayersTyped'
<1>1. DOMAIN layers = 1..Depth
  BY DEF IInv, LayersTyped
<1>2. Live \subseteq {<<"batch">>} \cup {<<"pool", p>> : p \in DOMAIN pool'}
  BY DEF Live, Active
<1>3. ASSUME NEW j \in 1..Depth
      PROVE  /\ layers'[j] \in LayerState(j)
             /\ layers'[j].key # NoKey /\ Kind(j) # "activation" => layers'[j].out = Shape(j)
             /\ layers'[j].saved \in {layers[j].saved, <<"batch">>}
                                     \cup {<<"pool", p>> : p \in DOMAIN pool'}
  <2>1. CASE j = i
    BY <1>1, <1>2, <2>1
  <2>2. CASE j # i
    BY <1>1, <2>2 DEF IInv, LayersTyped
  <2> QED
    BY <2>1, <2>2
<1> QED
  BY <1>1, <1>3, LayersKept DEF IInv

\* The tensor a layer is called with.
LEMMA ForwardInput ==
  ASSUME IInv, NEW i \in 1..Depth, at = <<"forward", i>>
  PROVE  /\ InPass /\ current \in Live /\ Pointed(current).shape = Shape(i - 1)
         /\ Given(Plain(Pointed(current)), i - 1) /\ Pointed(current).holds \in Marks
         /\ current \in {<<"batch">>} \cup ({"pool"} \X Nat)
         /\ <<"forward", i>> \in Marks
         /\ Kind(i) \notin InPlace => <<"forward", i>> \in Slots /\ <<"forward", i>> \notin Served
<1>1. InPass /\ Passed = i - 1 /\ i \in Nat \ {0}
  BY ShapeStep DEF InPass, Passed, IInv
<1>2. current \in Live /\ Pointed(current).shape = Shape(i - 1)
  BY <1>1 DEF IInv, CurrentInUse
<1>3. Given(Plain(Pointed(current)), i - 1) /\ Pointed(current).holds \in Marks
  BY <1>1, <1>2, PlainGiven DEF IInv
<1>4. current \in {<<"batch">>} \cup ({"pool"} \X Nat)
  <2>1. pool \in Seq(PoolEntry)
    BY DEF IInv, Typed
  <2>2. \A p \in DOMAIN pool : p \in Nat
    BY <2>1
  <2> QED
    BY <1>2, <2>2 DEF Live, Active
<1>5. <<"forward", i>> \in Marks
  BY <1>1 DEF Marks
<1>6. Kind(i) \notin InPlace => <<"forward", i>> \in Slots
  BY DEF Slots
<1>7. <<"forward", i>> \notin Served
  BY <1>1 DEF Served
<1> QED
  BY <1>1, <1>2, <1>3, <1>4, <1>5, <1>6, <1>7

LEMMA ResultFits ==
  ASSUME Typed, NEW i \in 1..Depth, NEW l, l.out = Shape(i), NEW input,
         Kind(i) \in Parametric \cup {"maxpool"}, NEW t, t = Result(net, i, l, input)
  PROVE  Askable(t) /\ t.shape = Shape(i) /\ Need[<<"forward", i>>] = Bytes(t)
<1>1. t = Float(Shape(i), net.device, "NCHW") \/ t = Float(Shape(i), net.device, "Unknown")
  BY DEF Result, Kind, Parametric
<1>2. Askable(t) /\ t.shape = Shape(i) /\ t.dtype = "Float32"
  BY <1>1, ShapeStep DEF Askable, Float, Tensor, Layouts
<1>3. Need[<<"forward", i>>] = Bytes(Float(Shape(i), net.device, "NCHW"))
  <2>1. <<"forward", i>> \in Slots
    BY DEF Slots, InPlace, Parametric
  <2> QED
    BY <2>1 DEF Need
<1>4. Bytes(Float(Shape(i), net.device, "NCHW")) = Bytes(t)
  BY <1>2, BytesAlike DEF Float, Tensor
<1> QED
  BY <1>2, <1>3, <1>4

LEMMA ForwardToPoolKeeps ==
  ASSUME IInv, NEW i \in 1..Depth, at = <<"forward", i>>, Kind(i) \in Parametric \cup {"maxpool"},
         NEW input, input = Plain(Pointed(current)),
         NEW hit \in BOOLEAN, NEW l, l = Prepare(net.layers[i], layers[i], input),
         ForwardToPool(i, net.layers[i], l, input, hit), UNCHANGED <<net, left, broken>>
  PROVE  IInv'
<1> DEFINE t == Result(net, i, l, input)
           to == Requested(pool, t)
           mark == IF Kind(i) = "maxpool" THEN <<"forward", i>> ELSE Pointed(current).holds
           r == Remember(net.layers[i], l, hit, input, current, mark)
<1>0. /\ InPass /\ current \in Live /\ Pointed(current).shape = Shape(i - 1) /\ Given(input, i - 1)
      /\ mark \in Marks /\ <<"forward", i>> \in Marks
      /\ current \in {<<"batch">>} \cup ({"pool"} \X Nat)
      /\ <<"forward", i>> \in Slots /\ <<"forward", i>> \notin Served
      /\ Kind(i) # "activation" /\ Kind(i) \notin InPlace
      /\ UNCHANGED <<storage, lossPool>>
  BY ForwardInput DEF InPlace, Parametric, ForwardToPool
<1>1. /\ l \in LayerState(i) /\ l.saved = layers[i].saved
      /\ l.key = Capture(input) /\ l.out = Shape(i)
  BY <1>0, Prepared DEF IInv
<1>2. Askable(t) /\ t.shape = Shape(i) /\ Need[<<"forward", i>>] = Bytes(t)
  BY <1>1, ResultFits DEF IInv
<1>3. CASE ~MayRequest(pool, t)
  <2>1. Throw("reshape") /\ layers' = [layers EXCEPT ![i] = l] /\ UNCHANGED pool
    BY <1>3 DEF ForwardToPool, Reshapes
  <2>2. LayersTyped'
    BY <1>1, <2>1, LayerReplaced
  <2>3. PoolsFit'
    BY <1>0, <2>1, PoolsStillFit DEF IInv
  <2> QED
    BY <1>0, <2>1, <2>2, <2>3, Throws DEF IInv, Typed
<1>4. CASE MayRequest(pool, t)
  <2>0. pool' = Request(pool, t, <<"forward", i>>)
    BY <1>4 DEF ForwardToPool
  <2>1. /\ pool' \in Seq(PoolEntry) /\ lossPool' \in [Owners -> Seq(PoolEntry)]
        /\ DOMAIN pool \subseteq DOMAIN pool'
        /\ to \in Active(pool') /\ to \notin Active(pool) /\ pool'[to].shape = t.shape
        /\ \A p \in Active(pool) : p \in Active(pool') /\ pool'[p] = pool[p]
        /\ PoolsFit' /\ Placed(Active(pool'), pool', Served \cup {<<"forward", i>>}, Need)
    <3> HIDE DEF t
    <3> QED
      BY <1>0, <1>2, <2>0, RequestFits
  <2>2. storage' \in [Loaders -> [1..Storages -> Memory]]
    BY <1>0 DEF IInv, Typed
  <2>3. \/ /\ layers' = [layers EXCEPT ![i] = r]
           /\ Go(<<"forward", i + 1>>, <<"pool", to>>)
        \/ layers' = [layers EXCEPT ![i] = l] /\ Throw("refused")
    BY <1>4 DEF ForwardToPool, Refused, Kind
  <2>4. CASE layers' = [layers EXCEPT ![i] = l] /\ Throw("refused")
    <3>1. LayersTyped'
      BY <1>1, <2>1, <2>4, LayerReplaced
    <3> QED
      BY <2>1, <2>2, <2>4, <3>1, Throws DEF IInv, Typed
  <2>5. CASE /\ layers' = [layers EXCEPT ![i] = r]
             /\ Go(<<"forward", i + 1>>, <<"pool", to>>)
    <3>1. /\ r \in LayerState(i)
          /\ r.key # NoKey /\ Kind(i) # "activation" => r.out = Shape(i)
          /\ r.saved = (IF Kind(i) \in Parametric \cup {"activation"} THEN current ELSE l.saved)
          /\ Kind(i) \in {"maxpool", "flatten"} => r.shape = Shape(i - 1)
      BY <1>0, <1>1, Remembered DEF IInv
    <3>0. PICK next : next = <<"pool", to>>
      OBVIOUS
    <3>2. next \notin Live /\ next \in Live'
      BY <2>1, <3>0 DEF Live
    <3>3. Pointed(next)'.shape = Shape(i)
      <4>1. Pointed(next)' = pool'[to]
        BY <3>0 DEF Pointed
      <4> QED
        BY <1>2, <2>1, <4>1
    <3>4. \A q \in Live : q \in Live' /\ (q # next => Pointed(q)' = Pointed(q))
      <4>1. UNCHANGED batch
        BY <2>5 DEF Go
      <4> QED
        BY <1>0, <2>1, <4>1, OthersStay
    <3>5. driver.op # "run" => Placed(Active(lossPool'[Owner]), lossPool'[Owner], LossServed, LossNeed)
      BY <1>0 DEF IInv, PassFits
    <3>6. Kind(i) \in Parametric => r.saved = current /\ next # current
      BY <1>0, <3>1, <3>2
    <3>7. r.saved \in {layers[i].saved, current}
      BY <1>1, <3>1
    <3>8. Go(<<"forward", i + 1>>, next)
      BY <2>5, <3>0
    <3> HIDE DEF r
    <3> QED
      BY <1>0, <2>1, <2>2, <2>5, <3>1, <3>2, <3>3, <3>4, <3>5, <3>6, <3>7, <3>8, ForwardGoesOn
  <2> QED
    BY <2>3, <2>4, <2>5
<1> QED
  BY <1>3, <1>4

\* A layer that works in place goes on with the tensor it was given.
LEMMA ForwardInPlace ==
  ASSUME IInv, NEW i \in 1..Depth, at = <<"forward", i>>, Kind(i) \in InPlace,
         NEW t, t.shape = Shape(i), t.layout \in Layouts, NEW mark \in Marks,
         Numel(Shape(i)) = Numel(Shape(i - 1)), Write(current, t, mark),
         NEW r \in LayerState(i), layers' = [layers EXCEPT ![i] = r],
         r.key # NoKey /\ Kind(i) # "activation" => r.out = Shape(i),
         r.saved \in {layers[i].saved, current},
         Kind(i) \in {"maxpool", "flatten"} => r.shape = Shape(i - 1),
         Go(<<"forward", i + 1>>, current), UNCHANGED <<net, left, broken>>
  PROVE  IInv'
<1>1. PICK next : next = current
  OBVIOUS
<1>2. InPass /\ next \in Live /\ Pointed(next).shape = Shape(i - 1)
  BY <1>1, ForwardInput
<1>3. Shape(i) \in Shapes
  BY ShapeStep DEF IInv
<1>4. /\ WriteLeaves(next)
      /\ next = <<"batch">> => storage'[batch[1]][batch[2]].shape = Shape(i)
      /\ \A p : next = <<"pool", p>> => pool'[p].shape = Shape(i)
  BY <1>1, <1>2, <1>3, WriteKeeps DEF IInv
<1>5. UNCHANGED <<batch, driver>>
  BY DEF Go
<1>6. \A q \in Live : q \in Live' /\ (q # next => Pointed(q)' = Pointed(q))
  BY <1>4, <1>5, WriteStays
<1>7. Pointed(next)'.shape = Shape(i)
  <2>1. CASE next = <<"batch">>
    BY <1>4, <1>5, <2>1 DEF Pointed, Inputs
  <2>2. ASSUME NEW p \in Active(pool), next = <<"pool", p>> PROVE Pointed(next)'.shape = Shape(i)
    BY <1>4, <2>2 DEF Pointed
  <2> QED
    BY <1>2, <2>1, <2>2 DEF Live
<1>8. /\ PoolsFit' /\ Placed(Active(pool'), pool', Served, Need)
      /\ driver.op # "run" => Placed(Active(lossPool'[Owner]), lossPool'[Owner], LossServed, LossNeed)
  BY <1>2, <1>4, WriteFits
<1>9. /\ pool' \in Seq(PoolEntry) /\ lossPool' \in [Owners -> Seq(PoolEntry)]
      /\ storage' \in [Loaders -> [1..Storages -> Memory]] /\ DOMAIN pool \subseteq DOMAIN pool'
  BY <1>4 DEF WriteLeaves
<1>10. Kind(i) \notin Parametric
  BY DEF InPlace, Parametric
<1>11. Go(<<"forward", i + 1>>, next) /\ next \in Live'
  BY <1>1, <1>2, <1>6
<1> QED
  BY <1>1, <1>6, <1>7, <1>8, <1>9, <1>10, <1>11, ForwardGoesOn

LEMMA ForwardActivationKeeps ==
  ASSUME IInv, NEW i \in 1..Depth, at = <<"forward", i>>, Kind(i) = "activation",
         NEW input, input = Plain(Pointed(current)),
         NEW hit \in BOOLEAN, NEW l, l = Prepare(net.layers[i], layers[i], input),
         ForwardActivation(i, net.layers[i], l, input, hit), UNCHANGED <<net, left, broken>>
  PROVE  IInv'
<1> DEFINE r == Remember(net.layers[i], l, hit, input, current, <<"forward", i>>)
<1>0. /\ Given(input, i - 1) /\ current \in {<<"batch">>} \cup ({"pool"} \X Nat)
      /\ <<"forward", i>> \in Marks
  BY ForwardInput
<1>1. \/ /\ Write(current, input, <<"forward", i>>) /\ layers' = [layers EXCEPT ![i] = r]
         /\ Go(<<"forward", i + 1>>, current)
      \/ Refused /\ UNCHANGED <<pool, storage, lossPool, layers>>
  BY DEF ForwardActivation
<1>2. CASE Refused /\ UNCHANGED <<pool, storage, lossPool, layers>>
  BY <1>2, OnlyThrows DEF Refused, IInv, Typed
<1>3. CASE /\ Write(current, input, <<"forward", i>>) /\ layers' = [layers EXCEPT ![i] = r]
           /\ Go(<<"forward", i + 1>>, current)
  <2>1. l \in LayerState(i)
    BY <1>0, Prepared DEF IInv
  <2>2. /\ r \in LayerState(i) /\ r.saved = current
        /\ r.key # NoKey /\ Kind(i) # "activation" => r.out = Shape(i)
    BY <1>0, <2>1, Remembered DEF IInv
  <2>3. Shape(i) = Shape(i - 1)
    BY ShapeStep DEF OutputShape, Kind, IInv
  <2>4. input.shape = Shape(i) /\ input.layout \in Layouts
    BY <1>0, <2>3 DEF Given
  <2>5. Kind(i) \in InPlace
    BY DEF InPlace
  <2> HIDE DEF r
  <2> QED
    BY <1>0, <1>3, <2>2, <2>3, <2>4, <2>5, ForwardInPlace
<1> QED
  BY <1>1, <1>2, <1>3

LEMMA ForwardFlattenKeeps ==
  ASSUME IInv, NEW i \in 1..Depth, at = <<"forward", i>>, Kind(i) = "flatten",
         NEW input, input = Plain(Pointed(current)),
         NEW l, l = Prepare(net.layers[i], layers[i], input),
         ForwardFlatten(i, net.layers[i], l, input), UNCHANGED <<net, left, broken>>
  PROVE  IInv'
<1> DEFINE r == Remember(net.layers[i], l, FALSE, input, current, <<"forward", i>>)
           t == Result(net, i, l, input)
           mark == Pointed(current).holds
<1>0. /\ Given(input, i - 1) /\ current \in {<<"batch">>} \cup ({"pool"} \X Nat)
      /\ <<"forward", i>> \in Marks /\ mark \in Marks
  BY ForwardInput
<1>1. /\ l \in LayerState(i) /\ l.saved = layers[i].saved
      /\ l.key = Capture(input) /\ l.out = Shape(i)
  BY <1>0, Prepared DEF IInv
<1>2. /\ r \in LayerState(i) /\ r.saved = layers[i].saved
      /\ r.key # NoKey /\ Kind(i) # "activation" => r.out = Shape(i)
      /\ r.shape = Shape(i - 1)
  <2>1. Kind(i) \notin Parametric \cup {"activation"}
    BY DEF Parametric
  <2>2. PICK no \in BOOLEAN : no = FALSE
    OBVIOUS
  <2>3. r = Remember(net.layers[i], l, no, input, current, <<"forward", i>>)
    BY <2>2
  <2> HIDE DEF r
  <2> QED
    BY <1>0, <1>1, <2>1, <2>3, Remembered DEF IInv
<1>3. CASE ~MayReshape(input, l.out)
  <2>1. /\ Throw("reshape") /\ layers' = [layers EXCEPT ![i] = r]
        /\ UNCHANGED <<pool, storage, lossPool>>
    BY <1>3 DEF ForwardFlatten, Reshapes
  <2>2. LayersTyped'
    BY <1>2, <2>1, LayerReplaced
  <2>3. PoolsFit'
    BY <2>1, PoolsStillFit DEF IInv
  <2> QED
    BY <2>1, <2>2, <2>3, Throws DEF IInv, Typed
<1>4. CASE MayReshape(input, l.out)
  <2>1. /\ Write(current, t, mark) /\ layers' = [layers EXCEPT ![i] = r]
        /\ Go(<<"forward", i + 1>>, current)
    BY <1>4 DEF ForwardFlatten
  <2>2. t.shape = Shape(i) /\ t.layout \in Layouts
    <3>1. input.shape = Shape(i - 1) /\ input = Tensor(input.shape, input.dtype, input.device, input.layout)
      BY <1>0 DEF Given, Plain, Tensor
    <3>2. t = SetLayout(Reshape(input, Shape(i)), "Unknown")
      BY <1>1 DEF Result, Kind
    <3> QED
      BY <3>1, <3>2 DEF SetLayout, Reshape, Layouts, Tensor
  <2>3. Numel(Shape(i)) = Numel(Shape(i - 1))
    BY <1>0, <1>1, <1>4 DEF MayReshape, Given
  <2>4. Kind(i) \in InPlace
    BY DEF InPlace
  <2> HIDE DEF r, t, mark
  <2> QED
    BY <1>0, <1>2, <2>1, <2>2, <2>3, <2>4, ForwardInPlace
<1> QED
  BY <1>3, <1>4

LEMMA ForwardLayerKeeps == ASSUME IInv, ForwardLayer PROVE IInv'
<1>1. PICK i \in 1..Depth : at = <<"forward", i>>
  <2>1. at[1] = "forward" /\ at[2] \in 1..Depth
    BY DEF ForwardLayer
  <2>2. PICK j \in 1..(Depth + 1) : at = <<"forward", j>>
    BY <2>1, PlacesOfPasses DEF IInv
  <2>3. at[2] = j
    BY <2>2
  <2> QED
    BY <2>1, <2>2, <2>3
<1> DEFINE input == Plain(Pointed(current))
           hit == Hit(net.layers[i], layers[i], input)
           l == Prepare(net.layers[i], layers[i], input)
<1>2. hit \in BOOLEAN
  BY DEF Hit, KeyMatches
<1>3. UNCHANGED <<net, left, broken>>
  BY DEF ForwardLayer
<1>4. /\ Kind(i) \in Parametric \cup {"maxpool"} => ForwardToPool(i, net.layers[i], l, input, hit)
      /\ Kind(i) = "activation" => ForwardActivation(i, net.layers[i], l, input, hit)
      /\ Kind(i) = "flatten" => ForwardFlatten(i, net.layers[i], l, input)
  BY <1>1 DEF ForwardLayer, Kind, Parametric
<1>5. Kind(i) \in Parametric \cup {"maxpool", "activation", "flatten"}
  BY ShapeStep DEF IInv, Kinds, Parametric
<1> HIDE DEF input, hit, l
<1>6. CASE Kind(i) \in Parametric \cup {"maxpool"}
  BY <1>1, <1>2, <1>3, <1>4, <1>6, ForwardToPoolKeeps DEF input, hit, l
<1>7. CASE Kind(i) = "activation"
  BY <1>1, <1>2, <1>3, <1>4, <1>7, ForwardActivationKeeps DEF input, hit, l
<1>8. CASE Kind(i) = "flatten"
  BY <1>1, <1>3, <1>4, <1>8, ForwardFlattenKeeps DEF input, l
<1> QED
  BY <1>5, <1>6, <1>7, <1>8

\* The driver is through with a batch.
LEMMA BatchDone ==
  ASSUME IInv, InPass, driver' = [driver EXCEPT !.seen = TRUE], at' = <<"next">>,
         batch' = Never, current' = Never, UNCHANGED <<net, layers, pool, lossPool, storage, left, broken>>
  PROVE  IInv'
<1>1. Typed'
  <2>1. at' \in Places
    BY DEF Places
  <2> QED
    BY <2>1, NetKept DEF IInv, Typed
<1>2. Driving'
  <2>1. driver \in Drivers /\ driver # Idle
    BY DEF IInv, Driving, InPass
  <2> QED
    BY <2>1 DEF Driving, Drivers, Idle
<1>3. BatchInUse' /\ ~InPass'
  BY DEF BatchInUse, InPass
<1>4. LayersTyped' /\ PoolsFit'
  BY SameLayers, PoolsStillFit DEF IInv
<1> QED
  BY <1>1, <1>2, <1>3, <1>4, LeavesPass

LEMMA StepKeeps == ASSUME IInv, Step \/ Deliver PROVE IInv'
<1>1. InPass
  BY DEF Step, Deliver, InPass
<1> QED
  BY <1>1, BatchDone DEF Step, Deliver, model, loaders

LEMMA OneLess == \A n \in Nat : (n + 1) - 1 = n
  OBVIOUS

\* What the last layer has left.
LEMMA Prediction ==
  ASSUME IInv, at[1] \in {"forward", "metrics", "loss gradient"},
         at[1] = "forward" => at[2] = Depth + 1
  PROVE  /\ InPass /\ Depth \in Nat /\ Passed = Depth /\ Ahead = Depth
         /\ current \in Live /\ Pointed(current).shape = Shape(Depth)
         /\ Given(Plain(Pointed(current)), Depth)
<1>0. Depth \in Nat
  BY ShapeStep DEF IInv
<1>1. InPass /\ Passed = Depth /\ Ahead = Depth
  <2>1. (Depth + 1) - 1 = Depth
    BY <1>0, OneLess, Zenon
  <2>2. at[1] = "forward" => at[2] - 1 = Depth
    BY <2>1, Zenon
  <2>3. Passed = Depth
    BY <2>2 DEF Passed
  <2> QED
    BY <2>3 DEF InPass, Ahead
<1>2. current \in Live /\ Pointed(current).shape = Shape(Depth)
  BY <1>1 DEF IInv, CurrentInUse
<1> QED
  BY <1>0, <1>1, <1>2, PlainGiven DEF IInv

\* Between forward and backward the model and its pool stay as they are.
LEMMA LossGoesOn ==
  ASSUME IInv, at[1] \in {"forward", "metrics", "loss gradient"},
         at[1] = "forward" => at[2] = Depth + 1,
         at' \in Places, at'[1] \in {"metrics", "loss gradient", "backward"},
         at'[1] = "backward" => at'[2] = Depth,
         UNCHANGED <<net, batch, driver, left, broken, layers, pool, storage>>,
         lossPool' \in [Owners -> Seq(PoolEntry)], PoolsFit', CurrentInUse',
         driver.op # "run" => Placed(Active(lossPool'[Owner]), lossPool'[Owner], LossServed', LossNeed),
         current' = current \/ current' \notin Live
  PROVE  IInv'
<1>0. /\ InPass /\ Depth \in Nat /\ Passed = Depth /\ Ahead = Depth
  BY Prediction
<1>1. /\ InPass' /\ Passed' = Depth /\ Ahead' = Depth /\ Owner' = Owner
  <2>1. Owner' = Owner /\ Depth' = Depth
    BY NetKept DEF Owner
  <2> QED
    BY <2>1 DEF InPass, Passed, Ahead
<1>3. LayersTyped'
  BY SameLayers DEF IInv
<1>4. PassFits'
  <2>1. Served' = Served /\ Need' = Need /\ LossNeed' = LossNeed
    BY <1>0, <1>1, NetKept DEF Served
  <2>2. Placed(Active(pool'), pool', Served', Need')
    BY <1>0, <2>1 DEF IInv, PassFits
  <2> QED
    BY <1>1, <2>1, <2>2, Zenon DEF PassFits
<1>5. \A q \in Live : q \in Live' /\ Pointed(q)' = Pointed(q)
  BY NothingMoves
<1>6. \A j \in 1..Passed' : j \in 1..Passed /\ layers'[j].saved = layers[j].saved
                            /\ layers'[j].shape = layers[j].shape
  BY <1>0, <1>1
<1> QED
  BY <1>0, <1>1, <1>3, <1>4, <1>5, <1>6, PassGoesOn DEF IInv, Typed

LEMMA LossForwardKeeps == ASSUME IInv, LossForward PROVE IInv'
<1> DEFINE t == Float(<<1>>, net.device, "Unknown")
<1>0. /\ at[1] = "forward" /\ at[2] = Depth + 1 /\ driver.op # "run"
      /\ UNCHANGED <<net, storage, left, broken>>
  BY DEF LossForward, loaders
<1>1. /\ InPass /\ Depth \in Nat /\ Passed = Depth /\ current \in Live
      /\ Pointed(current).shape = Shape(Depth)
  BY <1>0, Prediction
<1>2. CASE ~MayRequest(lossPool[Owner], t)
  <2>1. Throw("reshape") /\ UNCHANGED <<layers, pool, lossPool>>
    BY <1>2 DEF LossForward, Reshapes
  <2> QED
    BY <1>0, <2>1, OnlyThrows DEF IInv, Typed
<1>3. CASE MayRequest(lossPool[Owner], t)
  <2>1. /\ lossPool' = [lossPool EXCEPT ![Owner] = Request(@, t, <<"loss">>)]
        /\ last' = current /\ UNCHANGED <<layers, pool, driver, batch>>
        /\ at' = <<"metrics">> /\ current' = current
    BY <1>3 DEF LossForward, model, Go
  <2>2. Askable(t) /\ <<"loss">> \in Marks
    BY DEF Askable, Float, Tensor, Shapes, Layouts, Marks
  <2>3. "value" \in LossSlots /\ LossNeed["value"] = Bytes(t)
    BY DEF LossNeed, LossSlots
  <2>4. LossServed = {}
    BY <1>0 DEF LossServed
  <2>5. /\ lossPool' \in [Owners -> Seq(PoolEntry)] /\ PoolsFit'
        /\ Placed(Active(lossPool'[Owner]), lossPool'[Owner], LossServed \cup {"value"}, LossNeed)
    BY <1>0, <1>1, <2>1, <2>2, <2>3, <2>4, LossRequestFits
  <2>6. at'[1] = "metrics" /\ at' \in Places
    BY <2>1 DEF Places
  <2>7. LossServed' = LossServed \cup {"value"}
    BY <2>4, <2>6 DEF LossServed
  <2>8. CurrentInUse'
    <3>1. Pointed(current)' = Pointed(current)
      BY <1>0, <1>1, <2>1 DEF Pointed, Inputs, Live
    <3>2. Shape(Passed)' = Shape(Depth) /\ InPass'
      BY <1>0, <2>1, <2>6 DEF Shape, Passed, Depth, InPass
    <3>3. current' \in Live'
      BY <1>1, <2>1 DEF Live
    <3> QED
      BY <1>0, <1>1, <2>1, <2>6, <3>1, <3>2, <3>3 DEF CurrentInUse
  <2> QED
    BY <1>0, <2>1, <2>5, <2>6, <2>7, <2>8, LossGoesOn
<1> QED
  BY <1>2, <1>3

LEMMA MetricsKeep == ASSUME IInv, Metrics PROVE IInv'
<1>0. /\ at[1] = "metrics" /\ UNCHANGED <<net, layers, pool, lossPool, storage, left, broken, last>>
  BY DEF Metrics, model, loaders
<1>1. /\ InPass /\ Depth \in Nat /\ Passed = Depth /\ current \in Live
      /\ Pointed(current).shape = Shape(Depth)
  BY <1>0, Prediction
<1>2. CASE Throw("metrics")
  BY <1>0, <1>2, OnlyThrows DEF IInv, Typed
<1>3. CASE /\ at' = <<"next">> /\ driver' = [driver EXCEPT !.seen = TRUE]
           /\ batch' = Never /\ current' = Never
  BY <1>0, <1>1, <1>3, BatchDone
<1>4. CASE at' = <<"loss gradient">> /\ UNCHANGED <<driver, batch, current>>
  <2>1. at'[1] = "loss gradient" /\ at' \in Places
    BY <1>4 DEF Places
  <2>2. LossServed' = LossServed
    BY <1>0, <2>1 DEF LossServed
  <2>3. driver.op # "run" =>
          Placed(Active(lossPool'[Owner]), lossPool'[Owner], LossServed', LossNeed)
    BY <1>0, <1>1, <2>2 DEF IInv, PassFits
  <2>4. PoolsFit'
    BY <1>0, PoolsStillFit DEF IInv
  <2>5. CurrentInUse'
    <3>1. Pointed(current)' = Pointed(current)
      <4>1. UNCHANGED <<pool, storage, batch, current>> /\ current \in Live
        BY <1>0, <1>1, <1>4
      <4> QED
        BY <4>1 DEF Pointed, Inputs, Live
    <3>2. Shape(Passed)' = Shape(Depth) /\ InPass'
      BY <1>0, <2>1 DEF Shape, Passed, Depth, InPass
    <3>3. current' \in Live'
      BY <1>0, <1>1, <1>4 DEF Live
    <3>4. last = current /\ driver.op # "run"
      BY <1>0 DEF IInv, CurrentInUse
    <3> QED
      BY <1>0, <1>1, <1>4, <2>1, <3>1, <3>2, <3>3, <3>4 DEF CurrentInUse
  <2>6. lossPool' \in [Owners -> Seq(PoolEntry)]
    BY <1>0 DEF IInv, Typed
  <2> QED
    BY <1>0, <1>4, <2>1, <2>3, <2>4, <2>5, <2>6, LossGoesOn
<1> QED
  BY <1>2, <1>3, <1>4, Zenon DEF Metrics

LEMMA LossBackwardKeeps == ASSUME IInv, LossBackward PROVE IInv'
<1> DEFINE t == Plain(Pointed(last))
<1>0. at[1] = "loss gradient" /\ UNCHANGED <<net, storage, left, broken, last>>
  BY DEF LossBackward, loaders
<1>1. /\ InPass /\ Depth \in Nat /\ Passed = Depth /\ Ahead = Depth /\ Given(t, Depth)
      /\ driver.op # "run"
  <2>1. last = current /\ driver.op # "run"
    BY <1>0 DEF IInv, CurrentInUse
  <2> QED
    BY <1>0, <2>1, Prediction
<1>2. CASE ~MayRequest(lossPool[Owner], t)
  <2>1. Throw("reshape") /\ UNCHANGED <<layers, pool, lossPool>>
    BY <1>2 DEF LossBackward, Reshapes
  <2> QED
    BY <1>0, <2>1, OnlyThrows DEF IInv, Typed
<1>3. CASE MayRequest(lossPool[Owner], t)
  <2>1. PICK mark \in {<<"backward", Depth + 1>>, Garbage} :
               lossPool' = [lossPool EXCEPT ![Owner] = Request(@, t, mark)]
    BY <1>3 DEF LossBackward
  <2>2. PICK i : i = Requested(lossPool[Owner], t)
    OBVIOUS
  <2>3. /\ UNCHANGED <<layers, pool, driver, batch>>
        /\ at' = <<"backward", Depth>> /\ current' = <<"loss", i>>
    BY <1>3, <2>2 DEF LossBackward, model, Go
  <2>4. Askable(t) /\ mark \in Marks
    <3>1. Shape(Depth) \in Shapes
      BY <1>1, ShapeStep DEF IInv
    <3>2. <<"backward", Depth + 1>> \in Marks /\ Garbage \in Marks
      BY <1>1 DEF Marks
    <3> QED
      BY <1>1, <3>1, <3>2 DEF Askable, Given
  <2>5. "gradient" \in LossSlots /\ LossNeed["gradient"] = Bytes(t)
    <3>1. LossNeed["gradient"] = Bytes(Float(Shape(Depth), net.device, "Unknown"))
      BY DEF LossNeed, LossSlots
    <3>2. Bytes(Float(Shape(Depth), net.device, "Unknown")) = Bytes(t)
      BY <1>1, BytesAlike DEF Float, Tensor, Given
    <3> QED
      BY <3>1, <3>2 DEF LossSlots
  <2>6. LossServed = {"value"}
    BY <1>0 DEF LossServed
  <2>7. /\ lossPool' \in [Owners -> Seq(PoolEntry)] /\ PoolsFit' /\ i \in DOMAIN lossPool'[Owner]
        /\ Placed(Active(lossPool'[Owner]), lossPool'[Owner], LossServed \cup {"gradient"}, LossNeed)
    <3>1. "gradient" \notin LossServed /\ LossServed \in SUBSET LossSlots
      BY <2>6 DEF LossSlots
    <3> QED
      BY <1>0, <1>1, <2>1, <2>2, <2>3, <2>4, <2>5, <3>1, LossRequestFits
  <2>8. at'[1] = "backward" /\ at'[2] = Depth /\ at' \in Places
    <3>1. \A n \in Nat : n \in 0..n
      OBVIOUS
    <3>2. Depth \in 0..Depth
      BY <1>1, <3>1, Zenon
    <3>3. Places' = Places
      BY <1>0, NetKept
    <3> QED
      BY <2>3, <3>2, <3>3 DEF Places
  <2>9. LossServed' = LossServed \cup {"gradient"}
    BY <2>6, <2>8 DEF LossServed, LossSlots
  <2>10. CurrentInUse'
    <3>1. Owner' = Owner
      BY <2>3 DEF Owner
    <3>2. current' \in LossOnes'
      BY <2>3, <2>7, <3>1 DEF LossOnes
    <3>3. InPass'
      BY <2>8 DEF InPass
    <3> QED
      BY <2>8, <3>2, <3>3 DEF CurrentInUse
  <2>11. current' \notin Live
    BY <2>3 DEF Live
  <2> HIDE DEF t
  <2> QED
    BY <1>0, <2>3, <2>7, <2>8, <2>9, <2>10, <2>11, LossGoesOn
<1> QED
  BY <1>2, <1>3

\* Where backward goes from the layer i.
Down(i) == IF i = 1 THEN <<"step">> ELSE <<"backward", i - 1>>

LEMMA DownIsAPlace ==
  ASSUME Depth \in Nat, NEW i \in 1..Depth
  PROVE  /\ Down(i) \in Places
         /\ \/ Down(i)[1] = "backward" /\ Down(i)[2] = i - 1
            \/ Down(i)[1] = "step" /\ i = 1
<1>1. CASE i = 1
  BY <1>1 DEF Down, Places
<1>2. CASE i # 1
  <2>1. i - 1 \in 0..Depth
    OBVIOUS
  <2>2. Down(i) = <<"backward", i - 1>>
    BY <1>2 DEF Down
  <2>3. Down(i) \in {<<"backward", j>> : j \in 0..Depth}
    BY <2>1, <2>2
  <2>4. Down(i)[1] = "backward" /\ Down(i)[2] = i - 1
    BY <2>2
  <2> QED
    <3>1. Down(i) \in Places
      BY <2>3 DEF Places
    <3> QED
      BY <2>4, <3>1
<1> QED
  BY <1>1, <1>2

\* The gradient a layer is called with, and what the layer has kept for it.
LEMMA BackwardInput ==
  ASSUME IInv, NEW i \in 1..Depth, at = <<"backward", i>>
  PROVE  /\ InPass /\ Depth \in Nat /\ i \in Nat \ {0} /\ Passed = Depth /\ Ahead = i
         /\ current \in Live \cup LossOnes
         /\ Pointed(current).shape \in Shapes /\ Pointed(current).layout \in Layouts
         /\ Pointed(current).device = net.device
         /\ Kept(i) /\ <<"backward", i>> \in Marks /\ Garbage \in Marks /\ Stale \in Marks
         /\ Kind(i) \notin InPlace => <<"backward", i>> \in Slots
         /\ <<"backward", i>> \notin Served
<1>1. InPass /\ Depth \in Nat /\ i \in Nat \ {0} /\ Passed = Depth /\ Ahead = i
  BY ShapeStep DEF InPass, Passed, Ahead, IInv
<1>2. current \in Live \cup LossOnes
  BY DEF IInv, CurrentInUse
<1>3. /\ Pointed(current).shape \in Shapes /\ Pointed(current).layout \in Layouts
      /\ Pointed(current).device = net.device
  BY <1>1, <1>2, InUseWhole DEF IInv
<1>4. Kept(i)
  BY <1>1 DEF IInv, InputsKept
<1>5. <<"backward", i>> \in Marks /\ Garbage \in Marks /\ Stale \in Marks
  BY <1>1 DEF Marks
<1>6. Kind(i) \notin InPlace => <<"backward", i>> \in Slots
  BY DEF Slots
<1>7. <<"backward", i>> \notin Served
  BY <1>1 DEF Served
<1> QED
  BY <1>1, <1>2, <1>3, <1>4, <1>5, <1>6, <1>7

\* A layer is through with its backward call.
LEMMA BackwardGoesOn ==
  ASSUME IInv, NEW i \in 1..Depth, at = <<"backward", i>>, NEW next, Go(Down(i), next),
         UNCHANGED <<net, left, broken>>, LayersTyped',
         \A j \in 1..Depth : layers'[j].saved = layers[j].saved /\ layers'[j].shape = layers[j].shape,
         pool' \in Seq(PoolEntry), lossPool' \in [Owners -> Seq(PoolEntry)],
         storage' \in [Loaders -> [1..Storages -> Memory]], PoolsFit',
         Placed(Active(pool'), pool',
                IF Kind(i) \in InPlace THEN Served ELSE Served \cup {<<"backward", i>>}, Need),
         driver.op # "run" => Placed(Active(lossPool'[Owner]), lossPool'[Owner], LossServed, LossNeed),
         next \in Live' \cup {<<"loss", p>> : p \in DOMAIN lossPool'[Owner]},
         next = current \/ next \notin Live,
         \A q \in Live : q \in Live' /\ (q # next => Pointed(q)' = Pointed(q))
  PROVE  IInv'
<1>0. /\ InPass /\ Depth \in Nat /\ i \in Nat \ {0} /\ Passed = Depth /\ Ahead = i
      /\ at' = Down(i) /\ current' = next /\ UNCHANGED <<driver, batch>> /\ Owner' = Owner
  BY BackwardInput DEF Go, Owner
<1>1. /\ at' \in Places /\ at'[1] \in {"backward", "step"}
      /\ at'[1] = "backward" => at'[2] = i - 1
      /\ at'[1] = "step" => i = 1
  BY <1>0, DownIsAPlace
<1>2. at' \in Places /\ InPass' /\ Passed' = Depth /\ Ahead' = i - 1
  <2>1. InPass' /\ Passed' = Depth
    BY <1>1, NetKept DEF InPass, Passed
  <2>2. Ahead' = i - 1
    BY <1>0, <1>1 DEF Ahead
  <2> QED
    BY <1>1, <2>1, <2>2
<1>3. CurrentInUse'
  <2>1. LossOnes' = {<<"loss", p>> : p \in DOMAIN lossPool'[Owner]}
    BY <1>0 DEF LossOnes
  <2> QED
    BY <1>0, <1>1, <1>2, <2>1 DEF CurrentInUse
<1>4. PassFits'
  <2>1. Placed(Active(pool'), pool', Served', Need')
    <3>2. Slots' = Slots /\ Need' = Need
      BY NetKept
    <3>3. \A s \in Slots : /\ s[1] \in {"forward", "backward"} /\ s[2] \in 1..Depth /\ s[2] \in Nat
                           /\ s = <<s[1], s[2]>> /\ Kind(s[2]) \notin InPlace
      BY DEF Slots
    <3>4. Served' = {s \in Slots : IF s[1] = "forward" THEN s[2] <= Depth ELSE s[2] > i - 1}
      BY <1>2, <3>2 DEF Served
    <3>5. Served = {s \in Slots : IF s[1] = "forward" THEN s[2] <= Depth ELSE s[2] > i}
      BY <1>0 DEF Served
    <3>6. Served \subseteq Served'
      BY <1>0, <3>3, <3>4, <3>5
    <3>7. \A s \in Served' : s \in Served \/ s = <<"backward", i>>
      BY <1>0, <3>3, <3>4, <3>5
    <3>8. CASE Kind(i) \in InPlace
      <4>1. <<"backward", i>> \notin Slots
        BY <3>3, <3>8
      <4>2. Served' = Served
        BY <3>4, <3>6, <3>7, <4>1
      <4> QED
        BY <3>2, <3>8, <4>2
    <3>9. CASE Kind(i) \notin InPlace
      <4>1. <<"backward", i>> \in Slots /\ <<"backward", i>>[1] = "backward"
            /\ <<"backward", i>>[2] = i
        BY <3>9, BackwardInput
      <4>2. <<"backward", i>> \in Served'
        BY <1>0, <3>4, <4>1
      <4>3. Served' = Served \cup {<<"backward", i>>}
        BY <3>6, <3>7, <4>2
      <4> QED
        BY <3>2, <3>9, <4>3
    <3> QED
      BY <3>8, <3>9
  <2>2. LossServed' = LossServed /\ LossNeed' = LossNeed
    BY <1>1, NetKept DEF LossServed, LossSlots
  <2> QED
    BY <1>0, <2>1, <2>2, Zenon DEF PassFits
<1>5. \A j \in 1..Passed' : j \in 1..Passed /\ layers'[j].saved = layers[j].saved
                            /\ layers'[j].shape = layers[j].shape
  BY <1>0, <1>2
<1>6. current' = current \/ current' \notin Live
  BY <1>0
<1>7. \A q \in Live : q # current' => q \in Live' /\ Pointed(q)'.shape = Pointed(q).shape
  BY <1>0
<1> QED
  BY <1>0, <1>2, <1>3, <1>4, <1>5, <1>6, <1>7, PassGoesOn

\* A layer that works in place gives the gradient it was given the shape of its input.
LEMMA BackwardInPlace ==
  ASSUME IInv, NEW i \in 1..Depth, at = <<"backward", i>>, Kind(i) \in InPlace,
         NEW t, t.shape \in Shapes, t.layout \in Layouts, NEW mark \in Marks,
         Numel(t.shape) = Numel(Pointed(current).shape), Write(current, t, mark),
         Go(Down(i), current), UNCHANGED <<net, layers, left, broken>>
  PROVE  IInv'
<1>1. PICK next : next = current
  OBVIOUS
<1>2. InPass /\ next \in Live \cup LossOnes
  BY <1>1, BackwardInput
<1>3. WriteLeaves(next)
  BY <1>1, <1>2, WriteKeeps DEF IInv
<1>4. UNCHANGED <<batch, driver>> /\ Go(Down(i), next)
  BY <1>1 DEF Go
<1>5. \A q \in Live : q \in Live' /\ (q # next => Pointed(q)' = Pointed(q))
  BY <1>3, <1>4, WriteStays
<1>6. /\ PoolsFit' /\ Placed(Active(pool'), pool', Served, Need)
      /\ driver.op # "run" => Placed(Active(lossPool'[Owner]), lossPool'[Owner], LossServed, LossNeed)
  BY <1>2, <1>3, WriteFits
<1>7. /\ pool' \in Seq(PoolEntry) /\ lossPool' \in [Owners -> Seq(PoolEntry)]
      /\ storage' \in [Loaders -> [1..Storages -> Memory]] /\ DOMAIN pool' = DOMAIN pool
      /\ DOMAIN lossPool'[Owner] = DOMAIN lossPool[Owner]
  BY <1>3, OwnerIsOne DEF WriteLeaves
<1>8. next \in Live' \cup {<<"loss", p>> : p \in DOMAIN lossPool'[Owner]}
  BY <1>2, <1>5, <1>7 DEF LossOnes
<1>9. LayersTyped'
  BY <1>7, NetKept DEF IInv, LayersTyped
<1> QED
  BY <1>1, <1>4, <1>5, <1>6, <1>7, <1>8, <1>9, BackwardGoesOn

\* The tensor a layer asks the pool for is for the gradient of its input.
LEMMA GradientFits ==
  ASSUME IInv, NEW i \in 1..Depth, at = <<"backward", i>>, Kind(i) \in Parametric \cup {"maxpool"},
         NEW grad_output, grad_output = Plain(Pointed(current)),
         NEW input, Kind(i) \in Parametric => input = Plain(Pointed(layers[i].saved)),
         NEW t, t = GradInput(net.layers[i], layers[i], input, grad_output)
  PROVE  Askable(t) /\ Need[<<"backward", i>>] = Bytes(t)
<1>1. /\ Kept(i) /\ grad_output.device = net.device /\ grad_output.layout \in Layouts
      /\ Depth \in Nat /\ i \in Nat \ {0}
  BY BackwardInput DEF Plain, Tensor
<1>2. PICK layout \in Layouts : t = Float(Shape(i - 1), net.device, layout)
  <2>1. CASE Kind(i) = "maxpool"
    <3>1. t = Float(layers[i].shape, net.device, "NCHW") /\ layers[i].shape = Shape(i - 1)
      BY <1>1, <2>1 DEF GradInput, Kept, Kind
    <3> QED
      BY <3>1 DEF Layouts
  <2>2. CASE Kind(i) \in Parametric
    <3>1. input.shape = Shape(i - 1)
      BY <1>1, <2>2 DEF Kept, Plain, Tensor
    <3>2. \/ t = Float(input.shape, net.device, "NCHW")
          \/ t = Float(input.shape, net.device, grad_output.layout)
      BY <1>1, <2>2 DEF GradInput, Parametric, Kind
    <3> QED
      BY <1>1, <3>1, <3>2 DEF Layouts
  <2> QED
    BY <2>1, <2>2
<1>3. Shape(i - 1) \in Shapes
  BY <1>1, ShapeStep DEF IInv
<1>4. Askable(t) /\ t.shape = Shape(i - 1) /\ t.dtype = "Float32"
  BY <1>2, <1>3 DEF Askable, Float, Tensor
<1>5. Need[<<"backward", i>>] = Bytes(Float(Shape(i - 1), net.device, "NCHW"))
  <2>1. <<"backward", i>> \in Slots /\ <<"backward", i>>[1] # "forward" /\ <<"backward", i>>[2] = i
    BY DEF Slots, InPlace, Parametric
  <2> QED
    BY <2>1 DEF Need
<1>6. Bytes(Float(Shape(i - 1), net.device, "NCHW")) = Bytes(t)
  BY <1>4, BytesAlike DEF Float, Tensor
<1> QED
  BY <1>4, <1>5, <1>6

\* A layer that writes the gradient of its input into a tensor of the pool.
LEMMA BackwardToPool ==
  ASSUME IInv, NEW i \in 1..Depth, at = <<"backward", i>>, Kind(i) \notin InPlace,
         NEW t, Askable(t), Need[<<"backward", i>>] = Bytes(t), NEW mark \in Marks,
         pool' = Request(pool, t, mark), UNCHANGED <<net, left, broken, lossPool, storage>>,
         \/ Throw("refused") /\ UNCHANGED layers
         \/ /\ Go(Down(i), <<"pool", Requested(pool, t)>>)
            /\ \/ UNCHANGED layers
               \/ \E grad \in Marks : layers' = [layers EXCEPT ![i].grad = grad]
  PROVE  IInv'
<1>0. /\ InPass /\ Depth \in Nat /\ <<"backward", i>> \in Slots /\ <<"backward", i>> \notin Served
  BY BackwardInput
<1>1. PICK to : to = Requested(pool, t)
  OBVIOUS
<1>2. /\ pool' \in Seq(PoolEntry) /\ lossPool' \in [Owners -> Seq(PoolEntry)]
      /\ DOMAIN pool \subseteq DOMAIN pool'
      /\ to \in Active(pool') /\ to \notin Active(pool)
      /\ \A p \in Active(pool) : p \in Active(pool') /\ pool'[p] = pool[p]
      /\ PoolsFit' /\ Placed(Active(pool'), pool', Served \cup {<<"backward", i>>}, Need)
  BY <1>0, <1>1, RequestFits
<1>3. storage' \in [Loaders -> [1..Storages -> Memory]]
  BY DEF IInv, Typed
<1>4. /\ LayersTyped'
      /\ \A j \in 1..Depth : layers'[j].saved = layers[j].saved /\ layers'[j].shape = layers[j].shape
  <2>1. CASE UNCHANGED layers
    <3>1. \A j \in 1..Depth :
            /\ layers'[j] \in LayerState(j) /\ layers'[j].key = layers[j].key
            /\ layers'[j].out = layers[j].out /\ layers'[j].saved = layers[j].saved
      BY <2>1 DEF IInv, LayersTyped
    <3>2. DOMAIN layers' = 1..Depth
      BY <2>1 DEF IInv, LayersTyped
    <3> QED
      BY <1>2, <2>1, <3>1, <3>2, LayersRetouched DEF IInv
  <2>2. ASSUME NEW grad \in Marks, layers' = [layers EXCEPT ![i].grad = grad]
        PROVE  /\ LayersTyped'
               /\ \A j \in 1..Depth : layers'[j].saved = layers[j].saved
                                      /\ layers'[j].shape = layers[j].shape
    <3> DEFINE r == [layers[i] EXCEPT !.grad = grad]
    <3>1. /\ DOMAIN layers = 1..Depth /\ layers[i] \in LayerState(i)
          /\ layers[i].key # NoKey /\ Kind(i) # "activation" => layers[i].out = Shape(i)
      BY DEF IInv, LayersTyped
    <3>2. /\ r \in LayerState(i) /\ r.key = layers[i].key /\ r.out = layers[i].out
          /\ r.saved = layers[i].saved /\ r.shape = layers[i].shape
      BY <3>1 DEF LayerState
    <3>3. layers' = [layers EXCEPT ![i] = r]
      BY <2>2
    <3> HIDE DEF r
    <3>4. LayersTyped'
      BY <1>2, <3>1, <3>2, <3>3, LayerReplaced
    <3> QED
      BY <3>1, <3>2, <3>3, <3>4
  <2> QED
    BY <2>1, <2>2
<1>5. CASE Throw("refused")
  BY <1>2, <1>3, <1>4, <1>5, Throws DEF IInv, Typed
<1>6. CASE Go(Down(i), <<"pool", Requested(pool, t)>>)
  <2>1. PICK next : next = <<"pool", to>>
    OBVIOUS
  <2>2. next \in Live' /\ next \notin Live /\ Go(Down(i), next)
    BY <1>1, <1>2, <1>6, <2>1 DEF Live
  <2>3. \A q \in Live : q \in Live' /\ (q # next => Pointed(q)' = Pointed(q))
    <3>1. UNCHANGED batch
      BY <1>6 DEF Go
    <3> QED
      BY <1>2, <3>1, OthersStay
  <2>4. driver.op # "run" => Placed(Active(lossPool'[Owner]), lossPool'[Owner], LossServed, LossNeed)
    BY <1>0 DEF IInv, PassFits
  <2> QED
    BY <1>2, <1>3, <1>4, <2>2, <2>3, <2>4, BackwardGoesOn
<1> QED
  BY <1>5, <1>6

LEMMA BackwardLayerKeeps == ASSUME IInv, BackwardLayer PROVE IInv'
<1>1. PICK i \in 1..Depth : at = <<"backward", i>>
  <2>1. at[1] = "backward" /\ at[2] \in 1..Depth
    BY DEF BackwardLayer
  <2>2. PICK j \in 0..Depth : at = <<"backward", j>>
    BY <2>1, PlacesOfPasses DEF IInv
  <2>3. at[2] = j
    BY <2>2
  <2> QED
    BY <2>1, <2>2, <2>3
<1> DEFINE layer == net.layers[i]
           l == layers[i]
           above == Pointed(current)
           grad_output == Plain(above)
           input == IF l.saved = Never THEN grad_output ELSE Plain(Pointed(l.saved))
           grad_input == GradInput(layer, l, input, grad_output)
           reshapes == IF layer.kind = "flatten" THEN MayReshape(grad_output, l.shape)
                       ELSE layer.kind # "activation" => MayRequest(pool, grad_input)
           marks == {<<"backward", i>>, Garbage}
<1>2. UNCHANGED <<net, left, broken>>
  BY DEF BackwardLayer
<1> DEFINE c == BackwardCall(net, i, l, input, grad_output, grad_input)
           intact == above.holds = <<"backward", i + 1>>
                     /\ l.read # Stale
                     /\ (layer.kind \in Parametric \cup {"activation"} => Pointed(l.saved).holds = l.read)
                     /\ (layer.kind = "maxpool" => l.indices = l.read)
           mark(fills) == IF intact /\ fills THEN <<"backward", i>> ELSE Garbage
<1>3. \A fills : mark(fills) \in marks
  OBVIOUS
<1>4. IF ~MayGoBack(layer, l)
      THEN Throw("not ready") /\ UNCHANGED <<call, layers, pool, storage, lossPool>>
      ELSE IF ~reshapes THEN Reshapes(layers) /\ UNCHANGED <<storage, lossPool>>
      ELSE IF layer.kind = "flatten"
      THEN Write(current, grad_input, mark(TRUE)) /\ Go(Down(i), current) /\ UNCHANGED <<call, layers>>
      ELSE
        IF ~l.fast /\ Entry(c) = Threw
        THEN /\ Refused
             /\ pool' = IF layer.kind = "activation" THEN pool ELSE Request(pool, grad_input, Stale)
             /\ UNCHANGED <<layers, storage, lossPool>>
        ELSE IF layer.kind = "activation"
        THEN /\ Write(current, grad_output, mark(TRUE))
             /\ Go(Down(i), current) /\ UNCHANGED layers
        ELSE /\ pool' = Request(pool, grad_input, mark(Fills(c, "grad_input")))
             /\ layers' = IF layer.kind \in Parametric
                          THEN [layers EXCEPT ![i].grad = mark(GradientsFilled(c))]
                          ELSE layers
             /\ Go(Down(i), <<"pool", Requested(pool, grad_input)>>)
             /\ UNCHANGED <<storage, lossPool>>
  BY <1>1, ZenonT(30) DEF BackwardLayer, Down
<1>5. /\ InPass /\ Kept(i) /\ Depth \in Nat /\ marks \subseteq Marks /\ Stale \in Marks
      /\ grad_output.shape \in Shapes /\ grad_output.layout \in Layouts
      /\ grad_output = Tensor(grad_output.shape, grad_output.dtype, grad_output.device, grad_output.layout)
      /\ grad_output.shape = Pointed(current).shape
  <2>1. marks \subseteq Marks
    BY <1>1, BackwardInput
  <2> HIDE DEF marks
  <2> QED
    BY <1>1, <2>1, BackwardInput DEF Plain, Tensor
<1>6. CASE Throw("not ready") /\ UNCHANGED <<layers, pool, storage, lossPool>>
  BY <1>2, <1>6, OnlyThrows DEF IInv, Typed
<1>7. CASE Reshapes(layers) /\ UNCHANGED <<storage, lossPool>>
  BY <1>2, <1>7, OnlyThrows DEF Reshapes, IInv, Typed
<1>8. CASE /\ layer.kind = "flatten" /\ MayReshape(grad_output, l.shape)
           /\ Write(current, grad_input, mark(TRUE)) /\ Go(Down(i), current) /\ UNCHANGED layers
  <2>1. PICK m \in Marks : m = mark(TRUE)
    BY <1>3, <1>5
  <2>2. l.shape = Shape(i - 1) /\ Shape(i - 1) \in Shapes
    <3>1. i - 1 \in 0..Depth
      BY <1>5
    <3> QED
      BY <1>5, <1>8, <3>1, ShapeStep DEF Kept, Kind, IInv
  <2>3. grad_input.shape = Shape(i - 1) /\ grad_input.layout = grad_output.layout
    <3>1. grad_input = Reshape(grad_output, l.shape)
      BY <1>8 DEF GradInput
    <3> HIDE DEF grad_output, grad_input
    <3> QED
      BY <1>5, <2>2, <3>1 DEF Reshape, Tensor
  <2>4. Numel(grad_input.shape) = Numel(Pointed(current).shape)
    BY <1>5, <1>8, <2>2, <2>3 DEF MayReshape
  <2>5. Kind(i) \in InPlace /\ Write(current, grad_input, m)
    BY <1>8, <2>1 DEF Kind, InPlace
  <2> HIDE DEF grad_input, grad_output, mark
  <2> QED
    BY <1>1, <1>2, <1>5, <1>8, <2>2, <2>3, <2>4, <2>5, BackwardInPlace
<1>9. CASE /\ layer.kind = "activation" /\ UNCHANGED layers
           /\ Write(current, grad_output, mark(TRUE)) /\ Go(Down(i), current)
  <2>1. PICK m \in Marks : m = mark(TRUE)
    BY <1>3, <1>5
  <2>2. Kind(i) \in InPlace /\ Write(current, grad_output, m)
    BY <1>9, <2>1 DEF Kind, InPlace
  <2> HIDE DEF grad_output, mark
  <2> QED
    BY <1>1, <1>2, <1>5, <1>9, <2>2, BackwardInPlace
<1>10. CASE layer.kind = "activation" /\ Refused /\ pool' = pool /\ UNCHANGED <<layers, storage, lossPool>>
  BY <1>2, <1>10, OnlyThrows DEF Refused, IInv, Typed
<1>11. ASSUME layer.kind \notin {"flatten", "activation"}, MayGoBack(layer, l),
              NEW m \in Marks, pool' = Request(pool, grad_input, m), UNCHANGED <<storage, lossPool>>,
              \/ Throw("refused") /\ UNCHANGED layers
              \/ /\ Go(Down(i), <<"pool", Requested(pool, grad_input)>>)
                 /\ \/ UNCHANGED layers
                    \/ \E grad \in Marks : layers' = [layers EXCEPT ![i].grad = grad]
       PROVE  IInv'
  <2>1. Kind(i) \in Parametric \cup {"maxpool"} /\ Kind(i) \notin InPlace
    BY <1>5, <1>11, ShapeStep DEF IInv, Kinds, Kind, InPlace, Parametric
  <2>2. Kind(i) \in Parametric => input = Plain(Pointed(l.saved))
    <3>1. Kind(i) \in Parametric => l.saved # Never
      BY <1>11 DEF MayGoBack, Kind, Parametric
    <3> QED
      BY <3>1
  <2>3. Askable(grad_input) /\ Need[<<"backward", i>>] = Bytes(grad_input)
    <3> HIDE DEF input, grad_output
    <3>1. grad_output = Plain(Pointed(current))
      BY DEF grad_output
    <3> HIDE DEF grad_input
    <3> QED
      BY <1>1, <2>1, <2>2, <3>1, GradientFits DEF grad_input
  <2> HIDE DEF grad_input
  <2> QED
    BY <1>1, <1>2, <1>11, <2>1, <2>3, BackwardToPool
<1>12. CASE /\ layer.kind \notin {"flatten", "activation"} /\ MayGoBack(layer, l)
            /\ Refused /\ pool' = Request(pool, grad_input, Stale) /\ UNCHANGED <<layers, storage, lossPool>>
  <2> HIDE DEF grad_input
  <2> QED
    BY <1>5, <1>11, <1>12 DEF Refused
<1>13. CASE /\ layer.kind \notin {"flatten", "activation"} /\ MayGoBack(layer, l)
            /\ pool' = Request(pool, grad_input, mark(Fills(c, "grad_input")))
            /\ layers' = IF layer.kind \in Parametric
                         THEN [layers EXCEPT ![i].grad = mark(GradientsFilled(c))]
                         ELSE layers
            /\ Go(Down(i), <<"pool", Requested(pool, grad_input)>>)
            /\ UNCHANGED <<storage, lossPool>>
  <2>1. PICK m \in Marks : m = mark(Fills(c, "grad_input"))
    BY <1>3, <1>5
  <2>2. PICK grad \in Marks : grad = mark(GradientsFilled(c))
    BY <1>3, <1>5
  <2>3. layers' = layers \/ layers' = [layers EXCEPT ![i].grad = grad]
    BY <1>13, <2>2
  <2> HIDE DEF grad_input, mark, c
  <2> QED
    BY <1>11, <1>13, <2>1, <2>3
<1>14. CASE ~MayGoBack(layer, l)
  BY <1>4, <1>6, <1>14
<1>15. CASE MayGoBack(layer, l) /\ ~reshapes
  BY <1>4, <1>7, <1>15
<1>16. CASE MayGoBack(layer, l) /\ reshapes
  <2>1. CASE layer.kind = "flatten"
    <3>1. MayReshape(grad_output, l.shape)
      BY <1>16, <2>1
    <3> HIDE DEF reshapes, mark, grad_input, grad_output
    <3> QED
      BY <1>4, <1>8, <1>16, <2>1, <3>1
  <2>2. CASE layer.kind = "activation"
    <3> HIDE DEF reshapes, mark, grad_input, grad_output, c
    <3> QED
      BY <1>4, <1>9, <1>10, <1>16, <2>2
  <2>3. CASE layer.kind \notin {"flatten", "activation"}
    <3> HIDE DEF reshapes, mark, grad_input, grad_output, c
    <3> QED
      BY <1>4, <1>12, <1>13, <1>16, <2>3
  <2> QED
    BY <2>1, <2>2, <2>3
<1> QED
  BY <1>14, <1>15, <1>16

-----------------------------------------------------------------------------
(* The invariant holds, whatever the networks. *)

LEMMA NewLayerTyped == ASSUME NEW i PROVE NewLayer \in LayerState(i)
  BY DEF NewLayer, LayerState, Modes

LEMMA InitHolds == ASSUME Init PROVE IInv
<1>0. /\ net \in Networks /\ layers = [i \in 1..Len(net.layers) |-> NewLayer]
      /\ pool = <<>> /\ lossPool = [o \in Owners |-> <<>>] /\ at = <<"idle">>
      /\ left = [l \in Loaders |-> BatchCount] /\ broken = [l \in Loaders |-> FALSE]
      /\ driver = Idle /\ batch = Never /\ current = Never
  BY DEF Init
<1>1. Typed
  <2>1. storage \in [Loaders -> [1..Storages -> Memory]]
    <3> DEFINE m == [shape |-> net.input, dtype |-> "Float32", device |-> net.device,
                     layout |-> "NCHW", storage |-> "RowMajor", holds |-> Stale]
    <3>1. net.input \in Shapes
      <4>1. Len(net.layers) \in Nat
        BY <1>0, NetworkAssumed
      <4>2. CurrentShape(net)[0] = net.input
        BY <4>1, ShapeOfLayers
      <4>3. 0 \in 0..Depth
        BY <4>1 DEF Depth
      <4> QED
        BY <4>2, <4>3 DEF Shapes, Shape
    <3>2. m \in Memory
      BY <3>1 DEF Memory, Layouts, Marks
    <3>3. storage = [l \in Loaders |-> [s \in 1..Storages |-> m]]
      BY DEF Init
    <3> HIDE DEF m
    <3> QED
      BY <3>2, <3>3
  <2>2. left \in [Loaders -> 0..BatchCount] /\ broken \in [Loaders -> BOOLEAN]
    BY <1>0, CountsAssumption
  <2>3. pool \in Seq(PoolEntry) /\ lossPool \in [Owners -> Seq(PoolEntry)]
    <3> DEFINE pools == Seq(PoolEntry)
    <3>1. <<>> \in pools
      OBVIOUS
    <3> HIDE DEF pools
    <3>2. pool \in pools /\ lossPool \in [Owners -> pools]
      BY <1>0, <3>1
    <3> QED
      BY <3>2 DEF pools
  <2>4. at \in Places
    BY <1>0 DEF Places
  <2> QED
    BY <1>0, <2>1, <2>2, <2>3, <2>4 DEF Typed
<1>2. LayersTyped
  <2>1. DOMAIN layers = 1..Depth /\ \A i \in 1..Depth : layers[i] = NewLayer
    BY <1>0 DEF Depth
  <2>2. NewLayer.key = NoKey /\ NewLayer.saved = Never
    BY DEF NewLayer
  <2> QED
    BY <2>1, <2>2, NewLayerTyped DEF LayersTyped
<1>3. Driving /\ BatchInUse
  BY <1>0 DEF Driving, Drivers, BatchInUse
<1>4. at[1] = "idle" /\ ~InPass
  BY <1>0 DEF InPass
<1>5. CurrentInUse /\ InputsKept /\ PassFits
  BY <1>0, <1>4 DEF CurrentInUse, InputsKept, PassFits
<1>6. PoolsFit
  <2>1. DOMAIN pool = {} /\ \A o \in Owners : DOMAIN lossPool[o] = {}
    BY <1>0
  <2> QED
    BY <2>1, NothingPlaced DEF PoolsFit
<1> QED
  BY <1>1, <1>2, <1>3, <1>5, <1>6 DEF IInv

LEMMA StutterKeeps == ASSUME IInv, UNCHANGED vars PROVE IInv'
<1>1. UNCHANGED <<net, layers, pool, lossPool, storage, left, broken, driver, at, batch, current, last>>
  BY DEF vars
<1>2. Typed' /\ Driving' /\ LayersTyped' /\ BatchInUse' /\ PoolsFit'
  <2>1. LayersTyped' /\ PoolsFit'
    BY <1>1, SameLayers, PoolsStillFit DEF IInv
  <2>2. Typed'
    BY <1>1, NetKept DEF IInv, Typed
  <2>3. Driving' /\ BatchInUse'
    BY <1>1 DEF IInv, Driving, Drivers, BatchInUse
  <2> QED
    BY <2>1, <2>2, <2>3
<1>3. CASE ~InPass
  <2>1. ~InPass' /\ current' = Never
    BY <1>1, <1>3 DEF IInv, InPass, CurrentInUse
  <2> QED
    BY <1>2, <2>1, LeavesPass
<1>4. CASE InPass
  <2>1. /\ InPass' /\ Owner' = Owner /\ Depth' = Depth
        /\ Served' = Served /\ LossServed' = LossServed /\ Need' = Need /\ LossNeed' = LossNeed
        /\ Passed' = Passed
    <3>1. Slots' = Slots /\ Depth' = Depth /\ Need' = Need /\ LossNeed' = LossNeed
      BY <1>1, NetKept
    <3>2. InPass' /\ Owner' = Owner /\ Passed' = Passed /\ Ahead' = Ahead /\ LossServed' = LossServed
      BY <1>1, <1>4, <3>1 DEF InPass, Owner, Passed, Ahead, LossServed, LossSlots
    <3>3. Served' = Served
      BY <3>1, <3>2 DEF Served
    <3> QED
      BY <3>1, <3>2, <3>3
  <2>2. PassFits'
    BY <1>1, <1>4, <2>1 DEF IInv, PassFits
  <2>3. \A q \in Live : q \in Live' /\ Pointed(q)' = Pointed(q)
    BY <1>1, NothingMoves
  <2>4. CurrentInUse'
    <3>1. Live' = Live /\ LossOnes' = LossOnes
      BY <1>1, <2>1 DEF Live, LossOnes, Active
    <3>2. Pointed(current)' = Pointed(current)
      BY <1>1, <2>1 DEF Pointed, Inputs
    <3>3. Shape(Passed)' = Shape(Passed)
      BY <1>1, <2>1 DEF Shape
    <3> QED
      BY <1>1, <2>1, <3>1, <3>2, <3>3 DEF IInv, CurrentInUse
  <2>5. \A j \in 1..Passed' : j \in 1..Passed /\ layers'[j].saved = layers[j].saved
                              /\ layers'[j].shape = layers[j].shape
    BY <1>1, <2>1
  <2> QED
    <3>1. UNCHANGED <<net, batch, driver, left, broken>> /\ current' = current
      BY <1>1
    <3>2. /\ at' \in Places /\ pool' \in Seq(PoolEntry) /\ lossPool' \in [Owners -> Seq(PoolEntry)]
          /\ storage' \in [Loaders -> [1..Storages -> Memory]]
      BY <1>1 DEF IInv, Typed
    <3> QED
      BY <1>2, <1>4, <2>1, <2>2, <2>3, <2>4, <2>5, <3>1, <3>2, PassGoesOn
<1> QED
  BY <1>3, <1>4

LEMMA NextKeeps == ASSUME IInv, Next PROVE IInv'
<1>1. CASE Construct
  BY <1>1, ConstructKeeps
<1>2. ASSUME NEW epochs \in 0..2, NEW validation \in BOOLEAN, Fit(epochs, validation) PROVE IInv'
  BY <1>2, FitKeeps
<1>3. CASE Evaluate \/ Run
  BY <1>3, ServeKeeps
<1>4. ASSUME NEW loader \in Loaders, ResetEpoch(loader) PROVE IInv'
  BY <1>4, ResetEpochKeeps
<1>5. ASSUME NEW s \in 1..Storages, NextBatch(s) PROVE IInv'
  BY <1>5, NextBatchKeeps
<1>6. CASE BeginPass
  BY <1>6, BeginPassKeeps
<1>7. CASE ForwardLayer
  BY <1>7, ForwardLayerKeeps
<1>8. CASE LossForward
  BY <1>8, LossForwardKeeps
<1>9. CASE Metrics
  BY <1>9, MetricsKeep
<1>10. CASE LossBackward
  BY <1>10, LossBackwardKeeps
<1>11. CASE BackwardLayer
  BY <1>11, BackwardLayerKeeps
<1>12. CASE Step \/ Deliver
  BY <1>12, StepKeeps
<1>13. CASE EndEpoch
  BY <1>13, EndEpochKeeps
<1> QED
  BY <1>1, <1>2, <1>3, <1>4, <1>5, <1>6, <1>7, <1>8, <1>9, <1>10, <1>11, <1>12, <1>13 DEF Next

\* From the first call to the last, whatever throws: the tensors have the shapes the
\* network gives them, what a pass has handed out is in use by it alone, and the pools
\* have no more entries than the requests of a pass account for.
THEOREM Invariant == Spec => []IInv
<1>1. Init => IInv
  BY InitHolds
<1>2. IInv /\ [Next]_vars => IInv'
  BY NextKeeps, StutterKeeps
<1> QED
  BY <1>1, <1>2, PTL DEF Spec

LEMMA ShapesWrap == ASSUME Typed, NEW s \in Shapes PROVE Size(Numel(s)) = Numel(s)
<1>1. CASE s = <<1>>
  <2>1. <<1>> \in Seq(Nat) /\ <<1>> # <<>>
    OBVIOUS
  <2> QED
    BY <1>1, <2>1, NumelWraps
<1>2. ASSUME NEW k \in 0..Depth, s = Shape(k) PROVE Size(Numel(s)) = Numel(s)
  <2>1. s \in Batches
    BY <1>2, ShapesAreBatches DEF Typed, Shape, Depth
  <2>2. s \in Seq(Nat) /\ s # <<>>
    BY <2>1, BatchHas
  <2> QED
    BY <2>2, NumelWraps
<1> QED
  BY <1>1, <1>2 DEF Shapes

LEMMA TypeFollows == ASSUME IInv PROVE TypeOK
<1>1. \A i \in DOMAIN pool : pool[i].device = net.device /\ Size(Numel(pool[i].shape)) = Numel(pool[i].shape)
  <2>1. \A i \in DOMAIN pool : pool[i] \in PoolEntry
    BY DEF IInv, Typed
  <2>2. \A i \in DOMAIN pool : pool[i].device = net.device /\ pool[i].shape \in Shapes
    BY <2>1 DEF PoolEntry
  <2> QED
    BY <2>2, ShapesWrap DEF IInv
<1>2. \A i \in 1..Depth : layers[i].mode \in {"Training", "Inference"}
        /\ layers[i].saved \in {Never, <<"batch">>} \cup {<<"pool", p>> : p \in DOMAIN pool}
  BY DEF IInv, LayersTyped, LayerState, Modes
<1>3. at[1] \in {"idle", "next", "begin", "metrics", "loss gradient", "step", "forward", "backward"}
  <2>0. at \in Places
    BY DEF IInv, Typed
  <2>1. ASSUME NEW w \in {"idle", "next", "begin", "metrics", "loss gradient", "step"}, at = <<w>>
        PROVE  at[1] = w
    BY <2>1
  <2>2. ASSUME NEW w \in {"forward", "backward"}, NEW i, at = <<w, i>> PROVE at[1] = w
    BY <2>2
  <2> QED
    BY <2>0, <2>1, <2>2, Zenon DEF Places
<1>4. current \in {Never, <<"batch">>} \cup {<<"pool", p>> : p \in DOMAIN pool}
                  \cup UNION {{<<"loss", p>> : p \in DOMAIN lossPool[o]} : o \in Owners}
  <2>1. current = Never \/ current \in Live \cup LossOnes
    BY <1>3 DEF IInv, CurrentInUse, InPass
  <2> QED
    BY <2>1, OwnerIsOne DEF Live, Active, LossOnes
<1>5. (batch # Never) = (at[1] \notin {"idle", "next"})
  BY DEF IInv, BatchInUse
<1>6. left \in [Loaders -> 0..BatchCount] /\ broken \in [Loaders -> BOOLEAN]
  BY DEF IInv, Typed
<1> QED
  BY <1>1, <1>2, <1>4, <1>5, <1>6, Zenon DEF TypeOK

\* Every pointer a layer or a driver keeps across calls, also across calls that throw, is to
\* a tensor that there is, on the device of the network, and the number of elements of
\* every tensor of the pool is one that size_t holds.
THEOREM PointersValid == Spec => []TypeOK
<1>1. IInv => TypeOK
  BY TypeFollows
<1> QED
  BY <1>1, Invariant, PTL

LEMMA BoundFollows == ASSUME IInv PROVE PoolBounded
<1> DEFINE asking == {i \in 1..Depth : Kind(i) \notin InPlace}
<1>1. IsFiniteSet(asking) /\ Requests = Cardinality(asking)
  <2>1. Depth \in Nat
    BY ShapeStep DEF IInv
  <2>2. IsFiniteSet(1..Depth)
    BY <2>1, FS_Interval
  <2>3. asking \in SUBSET (1..Depth)
    OBVIOUS
  <2> QED
    BY <2>2, <2>3, FS_Subset DEF Requests
<1> HIDE DEF asking
<1>2. \A a, b : a # b => IsFiniteSet({a, b}) /\ Cardinality({a, b}) = 2
  <2> SUFFICES ASSUME NEW a, NEW b, a # b PROVE IsFiniteSet({a, b}) /\ Cardinality({a, b}) = 2
    OBVIOUS
  <2>1. IsFiniteSet({a}) /\ Cardinality({a}) = 1 /\ b \notin {a} /\ {a} \cup {b} = {a, b}
    BY FS_Singleton
  <2>2. IsFiniteSet({a} \cup {b}) /\ Cardinality({a} \cup {b}) = Cardinality({a}) + 1
    BY <2>1, FS_AddElement
  <2> QED
    BY <2>1, <2>2
<1>3. IsFiniteSet(Slots) /\ Cardinality(Slots) = 2 * Requests
  <2>1. Slots = {"forward", "backward"} \X asking
    BY DEF Slots, asking
  <2>2. IsFiniteSet({"forward", "backward"}) /\ Cardinality({"forward", "backward"}) = 2
    BY <1>2
  <2> QED
    BY <1>1, <2>1, <2>2, FS_Product
<1>4. IsFiniteSet(LossSlots) /\ Cardinality(LossSlots) = 2
  BY <1>2 DEF LossSlots
<1>5. Len(pool) <= 2 * Requests
  <2>1. pool \in Seq(PoolEntry) /\ Placed(DOMAIN pool, pool, Slots, Need)
    BY DEF IInv, Typed, PoolsFit
  <2>2. Len(pool) <= Cardinality(Slots)
    BY <1>3, <2>1, PlacedBounds
  <2> QED
    BY <1>3, <2>2
<1>6. ASSUME NEW o \in Owners PROVE Len(lossPool[o]) <= 2
  <2>1. lossPool[o] \in Seq(PoolEntry) /\ Placed(DOMAIN lossPool[o], lossPool[o], LossSlots, LossNeed)
    BY DEF IInv, Typed, PoolsFit
  <2>2. Len(lossPool[o]) <= Cardinality(LossSlots)
    BY <1>4, <2>1, PlacedBounds
  <2> QED
    BY <1>4, <2>2
<1> QED
  BY <1>5, <1>6 DEF PoolBounded

\* The pool a model's layers share never has more tensors than one training pass asks it for,
\* two for each layer that does not work in place, and a pool of the loss never more
\* than two, though batches, modes and calls that throw half-way come in any order.
THEOREM PoolStaysBounded == Spec => []PoolBounded
<1>1. IInv => PoolBounded
  BY BoundFollows
<1> QED
  BY <1>1, Invariant, PTL

\* What the layers keep from forward to backward, a pointer to the input or its shape, is good
\* until the pass is over: the tensor is still handed out, has the shape it had, and is not
\* the one that the pass is writing.
THEOREM InputsSurvive == Spec => []InputsKept
<1>1. IInv => InputsKept
  BY DEF IInv
<1> QED
  BY <1>1, Invariant, PTL

-----------------------------------------------------------------------------
(***************************************************************************)
(* Two theorems about the networks of a session, on top of its invariant.  *)
(* For any supported network no layer, loss or loader throws: operations   *)
(* accept what such a network gives them; Smooth says what it goes on      *)
(* giving them.  And the optimizer steps with gradients of this batch      *)
(* only: Fresh says what the tensors hold from the forward pass to the     *)
(* layer that goes back with it.  One lemma per action keeps each.         *)
(***************************************************************************)

(* The operators that decide whether a call throws. *)

\* Shape::numel of two dimensions.
LEMMA NumelOfPair ==
  ASSUME NEW a \in Nat, NEW b \in Nat
  PROVE  Numel(<<a, b>>) = Size(Size(a) * b)
<1>1. Len(<<a, b>>) = 2
  OBVIOUS
<1>2. PICK product : Numel(<<a, b>>) = product[2] /\ ProductUpto(product, <<a, b>>, 2)
  <2>1. Numel(<<a, b>>) = (CHOOSE product : ProductUpto(product, <<a, b>>, 2))[2]
    BY <1>1 DEF Numel, ProductUpto
  <2> QED
    BY <2>1, DimensionsExist
<1>3. \A i \in 0..2 : product[i] = IF i = 0 THEN 1 ELSE Size(product[i - 1] * <<a, b>>[i])
  BY <1>2 DEF ProductUpto
<1>4. product[0] = 1
  BY <1>3
<1>5. product[1] = Size(1 * a)
  <2>1. product[1] = Size(product[1 - 1] * <<a, b>>[1])
    BY <1>3
  <2> QED
    BY <1>4, <2>1
<1>6. product[2] = Size(product[1] * b)
  <2>1. product[2] = Size(product[2 - 1] * <<a, b>>[2])
    BY <1>3
  <2> QED
    BY <2>1
<1> QED
  BY <1>2, <1>5, <1>6

LEMMA NumelOfOne == Numel(<<1>>) = 1
<1>1. Len(<<1>>) = 1
  OBVIOUS
<1>2. PICK product : Numel(<<1>>) = product[1] /\ ProductUpto(product, <<1>>, 1)
  <2>1. Numel(<<1>>) = (CHOOSE product : ProductUpto(product, <<1>>, 1))[1]
    BY <1>1 DEF Numel, ProductUpto
  <2> QED
    BY <2>1, DimensionsExist
<1>3. \A i \in 0..1 : product[i] = IF i = 0 THEN 1 ELSE Size(product[i - 1] * <<1>>[i])
  BY <1>2 DEF ProductUpto
<1>4. product[0] = 1
  BY <1>3
<1>5. product[1] = Size(1 * 1)
  <2>1. product[1] = Size(product[1 - 1] * <<1>>[1])
    BY <1>3
  <2> QED
    BY <1>4, <2>1
<1> QED
  BY <1>2, <1>5 DEF Size

LEMMA SizeIsExact == ASSUME NEW n \in Nat, n < SizeMod PROVE Size(n) = n
  BY DEF Size

LEMMA AtLeastAFactor ==
  ASSUME NEW a \in Nat, NEW b \in Nat, b # 0
  PROVE  a <= a * b
<1>1. PICK c \in Nat : b = c + 1
  <2>1. b - 1 \in Nat /\ b = (b - 1) + 1
    OBVIOUS
  <2> QED
    BY <2>1
<1>2. a * b = a * c + a
  BY <1>1
<1>3. a * c \in Nat
  OBVIOUS
<1> QED
  BY <1>2, <1>3

\* When the size of an image divides their number of elements, and none of it wraps,
\* a flatten layer keeps the number of elements.
LEMMA FlattenKeepsNumel ==
  ASSUME NEW shape \in Batches, Numel(shape) < SizeMod, Numel(shape) % shape[1] = 0
  PROVE  Numel(FlattenOutputShape(shape)) = Numel(shape)
<1> DEFINE n == Numel(shape)
           a == shape[1]
           b == n \div a
<1>1. n \in Nat /\ a \in Nat /\ a # 0
  BY BatchHas, NumelWraps, SizesAreNumbers
<1>2. b \in Nat /\ n = a * b
  <2> HIDE DEF n, a
  <2>1. n % a = 0
    BY DEF n, a
  <2> QED
    BY <1>1, <2>1
<1>3. Numel(<<a, b>>) = Size(Size(a) * b)
  BY <1>1, <1>2, NumelOfPair
<1> HIDE DEF n, a, b
<1>4. CASE b = 0
  <2>1. Size(a) \in Nat
    BY <1>1, SizeWraps
  <2>2. Size(a) * b = 0 /\ n = 0
    BY <1>1, <1>2, <1>4, <2>1
  <2>3. Size(0) = 0
    BY SizeIsExact
  <2> QED
    BY <1>3, <2>2, <2>3 DEF FlattenOutputShape, n, a, b
<1>5. CASE b # 0
  <2>1. a <= n
    BY <1>1, <1>2, <1>5, AtLeastAFactor
  <2>2. n < SizeMod
    BY DEF n
  <2>3. Size(a) = a /\ Size(n) = n
    BY <1>1, <2>1, <2>2, SizeIsExact
  <2> QED
    BY <1>2, <1>3, <2>3 DEF FlattenOutputShape, n, a, b
<1> QED
  BY <1>4, <1>5

LEMMA BackendsRun ==
  ASSUME NEW device \in Backends, NEW kernel, kernel # Threw
  PROVE  Launch(device, kernel) # Threw /\ On(device) # Threw
<1>1. On(device) = device /\ device # Threw
  BY BackendsAssumption DEF On, Threw
<1> QED
  BY <1>1 DEF Launch

\* The arguments of a layer that may have a bias.
LEMMA BiasGiven ==
  ASSUME NEW layer, NEW role, NEW bias, NEW t, role \notin DOMAIN t,
         NEW with, with = WithBias(layer, role, bias, t)
  PROVE  /\ DOMAIN t \subseteq DOMAIN with /\ DOMAIN with \subseteq DOMAIN t \cup {role}
         /\ \A r \in DOMAIN t : with[r] = t[r]
         /\ role \in DOMAIN with => with[role] = bias
<1>1. CASE UsesBias(layer)
  <2>1. with = [r \in DOMAIN t \cup {role} |-> IF r = role THEN bias ELSE t[r]]
    BY <1>1 DEF WithBias
  <2> QED
    BY <2>1
<1>2. CASE ~UsesBias(layer)
  BY <1>2 DEF WithBias
<1> QED
  BY <1>1, <1>2

\* The checked entries of the operations that the layers call.
LOCAL If(role, t) == IF role \in DOMAIN t THEN {t[role]} ELSE {}

LEMMA EntryOfConv2d ==
  ASSUME NEW t, NEW o, NEW data
  PROVE  Entry(Operation("conv2d", t, o, data)) =
           conv2d(t["input"], t["kernels"], If("bias", t), t["result"], o)
  BY DEF Entry, Operation, Optional, If

LEMMA EntryOfLinear ==
  ASSUME NEW t, NEW o, NEW data
  PROVE  Entry(Operation("linear", t, o, data)) =
           linear(t["input"], t["weights"], If("bias", t), t["result"])
  BY DEF Entry, Operation, Optional, If

LEMMA EntryOfMaxpool2d ==
  ASSUME NEW t, NEW o, NEW data
  PROVE  /\ Entry(Operation("maxpool2d", t, o, data)) = maxpool2d(t["input"], t["result"], o)
         /\ Entry(Operation("maxpool2d_with_indices", t, o, data)) =
              maxpool2d_with_indices(t["input"], t["result"], t["indices"], o)
         /\ Entry(Operation("backward_maxpool2d", t, o, data)) =
              backward_maxpool2d(t["indices"], t["grad_output"], t["grad_input"])
  BY DEF Entry, Operation

LEMMA EntryOfActivation ==
  ASSUME NEW t, NEW o, NEW data
  PROVE  /\ Entry(Operation("activation", t, o, data)) = activation(t["tensor"], o.type)
         /\ Entry(Operation("backward_activation", t, o, data)) =
              backward_activation(t["activation_output"], t["grad"], o.type)
  BY DEF Entry, Operation

LEMMA EntryOfBackward ==
  ASSUME NEW t, NEW o, NEW data
  PROVE  /\ Entry(Operation("backward_conv2d", t, o, data)) =
              backward_conv2d(t["input"], t["weights"], t["grad_output"], t["grad_input"],
                              t["grad_weights"], If("grad_bias", t), o)
         /\ Entry(Operation("backward_linear", t, o, data)) =
              backward_linear(t["input"], t["weights"], t["grad_output"], t["grad_input"],
                              t["grad_weights"], If("grad_bias", t))
  BY DEF Entry, Operation, Optional, If

-----------------------------------------------------------------------------
(* What a well-formed network gives its layers. *)

LEMMA WellFormedHas ==
  ASSUME Typed, WellFormed
  PROVE  /\ \E i \in 1..Depth : Kind(i) \in Parametric
         /\ Depth \in Nat /\ Len(Shape(Depth)) = 2 /\ Shape(Depth)[2] # 0
         /\ net.device \in Backends
         /\ \A k \in 0..Depth : /\ Shape(k) \in Batches /\ Numel(Shape(k)) \in Nat
                                /\ Numel(Shape(k)) * 4 < SizeMod
         /\ \A i \in 1..Depth : /\ Supported(i, net.layers[i], Shape(i - 1))
                                /\ LayerAssumed(net.layers[i], Shape(i - 1))
                                /\ Shape(i) = OutputShape(net.layers[i], Shape(i - 1))
                                /\ Kind(i) \in Kinds
<1>1. net \in Networks /\ Depth \in Nat
  BY ShapeStep DEF Typed
<1>2. /\ \E i \in 1..Depth : Kind(i) \in Parametric
      /\ Len(Shape(Depth)) = 2 /\ Shape(Depth)[2] # 0
      /\ \A k \in 0..Depth : Numel(Shape(k)) * DTypeSize("Float32") < SizeMod
      /\ \A i \in 1..Depth : Supported(i, net.layers[i], Shape(i - 1))
  BY DEF WellFormed, Shape
<1>3. DTypeSize("Float32") = 4
  BY DEF DTypeSize
<1>4. ASSUME NEW k \in 0..Depth PROVE Shape(k) \in Batches /\ Numel(Shape(k)) \in Nat
  <2>1. Shape(k) \in Batches
    BY <1>1, ShapesAreBatches DEF Shape, Depth
  <2> QED
    BY <2>1, BatchHas, NumelWraps
<1>5. \A i \in 1..Depth : LayerAssumed(net.layers[i], Shape(i - 1))
  BY <1>1, NetworkAssumed DEF Shape, Depth
<1>6. net.device \in Backends
  BY <1>1, NetworksAssumption
<1> QED
  BY <1>1, <1>2, <1>3, <1>4, <1>5, <1>6, ShapeStep

\* The ranks of what goes in and out of a layer, and the images of a batch.
LEMMA RanksOfLayer ==
  ASSUME Typed, WellFormed, NEW i \in 1..Depth
  PROVE  /\ i \in Nat \ {0} /\ i - 1 \in 0..Depth /\ i \in 0..Depth
         /\ Kind(i) \in {"conv", "maxpool"} => Len(Shape(i - 1)) = 4 /\ Len(Shape(i)) = 4
         /\ Kind(i) = "linear" => Len(Shape(i - 1)) = 2 /\ Len(Shape(i)) = 2
         /\ Kind(i) = "flatten" => /\ Len(Shape(i)) = 2 /\ i > 1 /\ i - 1 \in 1..Depth
                                   /\ Kind(i - 1) \in {"maxpool", "flatten"}
         /\ Kind(i) = "activation" => Shape(i) = Shape(i - 1)
         /\ Shape(i)[1] = Shape(i - 1)[1]
<1>1. /\ Shape(i) = OutputShape(net.layers[i], Shape(i - 1)) /\ Kind(i) \in Kinds
      /\ Supported(i, net.layers[i], Shape(i - 1)) /\ LayerAssumed(net.layers[i], Shape(i - 1))
      /\ Depth \in Nat
  BY WellFormedHas
<1>2. i \in Nat \ {0} /\ i - 1 \in 0..Depth /\ i \in 0..Depth
  BY <1>1
<1>3. CASE Kind(i) = "conv"
  <2>1. Len(Shape(i - 1)) = 4
    BY <1>1, <1>3 DEF LayerAssumed, Kind
  <2>2. Shape(i) = Conv2dOutputShape(net.layers[i], Shape(i - 1))
    BY <1>1, <1>3 DEF OutputShape, Kind
  <2> QED
    BY <1>2, <1>3, <2>1, <2>2 DEF Conv2dOutputShape
<1>4. CASE Kind(i) = "maxpool"
  <2>1. Len(Shape(i - 1)) = 4
    BY <1>1, <1>4 DEF LayerAssumed, Kind
  <2>2. Shape(i) = MaxPoolOutputShape(net.layers[i], Shape(i - 1))
    BY <1>1, <1>4 DEF OutputShape, Kind
  <2> QED
    BY <1>2, <1>4, <2>1, <2>2 DEF MaxPoolOutputShape
<1>5. CASE Kind(i) = "linear"
  <2>1. Len(Shape(i - 1)) = 2
    BY <1>1, <1>5 DEF Supported, Kind
  <2>2. Shape(i) = LinearOutputShape(net.layers[i], Shape(i - 1))
    BY <1>1, <1>5 DEF OutputShape, Kind
  <2> QED
    BY <1>2, <1>5, <2>1, <2>2 DEF LinearOutputShape
<1>6. CASE Kind(i) = "flatten"
  <2>1. i > 1 /\ Kind(i - 1) \in {"maxpool", "flatten"}
    BY <1>1, <1>6 DEF Supported, Kind
  <2>2. Shape(i) = FlattenOutputShape(Shape(i - 1))
    BY <1>1, <1>6 DEF OutputShape, Kind
  <2>3. i - 1 \in 1..Depth
    BY <1>2, <2>1
  <2> QED
    BY <1>2, <1>6, <2>1, <2>2, <2>3 DEF FlattenOutputShape
<1>7. CASE Kind(i) = "activation"
  BY <1>1, <1>2, <1>7 DEF OutputShape, Kind
<1> QED
  BY <1>1, <1>3, <1>4, <1>5, <1>6, <1>7 DEF Kinds

\* Images that a layer other than a pooling one has left go to a layer that keeps them images.
Images(k) == k < Depth /\ Len(Shape(k)) = 4 /\ Kind(k + 1) # "flatten"

LEMMA ImagesGoOn ==
  ASSUME Typed, WellFormed, NEW i \in 1..Depth, Kind(i) \in {"conv", "activation"}, Len(Shape(i)) = 4
  PROVE  Images(i)
<1>1. Depth \in Nat /\ Len(Shape(Depth)) = 2
  BY WellFormedHas
<1>2. i < Depth /\ i + 1 \in 1..Depth /\ (i + 1) - 1 = i
  <2>1. i # Depth
    BY <1>1
  <2> QED
    BY <1>1, <2>1
<1>3. Kind(i + 1) = "flatten" => Kind(i) \in {"maxpool", "flatten"}
  BY <1>2, RanksOfLayer
<1> QED
  BY <1>2, <1>3 DEF Images

\* The number of images stays.
LEMMA ImagesStay ==
  ASSUME Typed, WellFormed, NEW k \in 0..Depth
  PROVE  Shape(k)[1] = net.input[1]
<1> DEFINE good == {m \in Nat : m <= Depth => Shape(m)[1] = net.input[1]}
<1>0. Depth \in Nat
  BY WellFormedHas
<1>1. 0 \in good
  BY ShapeStep
<1>2. ASSUME NEW m \in good PROVE m + 1 \in good
  <2> SUFFICES ASSUME m + 1 <= Depth PROVE Shape(m + 1)[1] = net.input[1]
    OBVIOUS
  <2>1. m + 1 \in 1..Depth /\ (m + 1) - 1 = m /\ m <= Depth
    BY <1>0
  <2>2. Shape(m + 1)[1] = Shape(m)[1]
    BY <2>1, RanksOfLayer
  <2> QED
    BY <2>1, <2>2
<1>3. k \in good
  <2>1. good \in SUBSET Nat /\ k \in Nat
    OBVIOUS
  <2> HIDE DEF good
  <2> QED
    BY <1>1, <1>2, <2>1, EveryNatural
<1> QED
  BY <1>0, <1>3

\* A tensor that a layer asks a pool for never has another number of elements than the
\* one it is given: no size in bytes has wrapped.
LEMMA RequestsGranted ==
  ASSUME Typed, WellFormed, NEW entries \in Seq(PoolEntry), NEW t, Askable(t)
  PROVE  MayRequest(entries, t)
<1> DEFINE i == Requested(entries, t)
<1>1. ASSUME NEW s \in Shapes PROVE Numel(s) \in Nat /\ Numel(s) * 4 < SizeMod
  <2>1. CASE s = <<1>>
    BY <2>1, NumelOfOne
  <2>2. ASSUME NEW k \in 0..Depth, s = Shape(k) PROVE Numel(s) \in Nat /\ Numel(s) * 4 < SizeMod
    BY <2>2, WellFormedHas
  <2> QED
    BY <2>1, <2>2 DEF Shapes
<1>2. ASSUME i \in DOMAIN entries PROVE Numel(t.shape) = Numel(entries[i].shape)
  <2>1. entries[i] \in PoolEntry
    BY <1>2
  <2>2. Bytes(entries[i]) = Bytes(t)
    <3>1. i # Len(entries) + 1
      BY <1>2
    <3> QED
      BY <3>1, RequestedMatches DEF Matches
  <2>3. /\ entries[i].dtype = "Float32" /\ t.dtype = "Float32"
        /\ entries[i].shape \in Shapes /\ t.shape \in Shapes
    BY <2>1 DEF PoolEntry, Askable
  <2> HIDE DEF i
  <2>4. DTypeSize("Float32") = 4
    BY DEF DTypeSize
  <2>5. /\ Bytes(entries[i]) = Size(Numel(entries[i].shape) * 4)
        /\ Bytes(t) = Size(Numel(t.shape) * 4)
    BY <2>3, <2>4 DEF Bytes
  <2>6. PICK a \in Nat, b \in Nat : /\ a = Numel(entries[i].shape) /\ b = Numel(t.shape)
                                    /\ a * 4 < SizeMod /\ b * 4 < SizeMod
    BY <1>1, <2>3
  <2>7. Size(a * 4) = a * 4 /\ Size(b * 4) = b * 4
    BY <2>6, SizeIsExact
  <2>8. a * 4 = b * 4
    BY <2>2, <2>5, <2>6, <2>7, Zenon
  <2> QED
    BY <2>6, <2>8
<1> QED
  BY <1>2 DEF MayRequest, MayReshape

-----------------------------------------------------------------------------
(* No operation of such a network refuses its arguments. *)

LEMMA FloatsAreUniform ==
  ASSUME NEW tensors,
         \A t \in tensors : t.dtype = "Float32" /\ t.device = net.device /\ t.storage = "RowMajor"
  PROVE  Uniform(tensors)
  BY DEF Uniform, OneDevice, AllFloat

\* The window of a layer, and the numbers that describe it.
LEMMA WindowOfConv ==
  ASSUME Typed, WellFormed, NEW i \in 1..Depth, Kind(i) = "conv", NEW layer, layer = net.layers[i]
  PROVE  /\ NonZero(layer.o.stride) /\ NonZero(layer.o.dilation)
         /\ \A a \in Axes : EffectiveKernel(layer.kernel[a], layer.o.dilation[a])
                              <= Size(Shape(i - 1)[2 + a] + 2 * layer.o.padding[a])
<1> DEFINE before == Shape(i - 1)
<1>1. /\ LayerAssumed(layer, before) /\ Supported(i, layer, before) /\ layer.kind = "conv"
      /\ Len(before) = 4 /\ before \in Batches
  BY WellFormedHas, RanksOfLayer DEF Kind
<1> HIDE DEF before
<1>2. Within(before, layer.kernel, layer.o.dilation, layer.o.padding)
  BY <1>1 DEF Supported
<1>3. ASSUME NEW a \in Axes
      PROVE  /\ layer.o.stride[a] # 0 /\ layer.o.dilation[a] # 0
             /\ EffectiveKernel(layer.kernel[a], layer.o.dilation[a])
                  <= Size(before[2 + a] + 2 * layer.o.padding[a])
  <2>1. PICK k, d, p, x : /\ k = layer.kernel[a] /\ d = layer.o.dilation[a]
                          /\ p = layer.o.padding[a] /\ x = before[2 + a]
    OBVIOUS
  <2>2. layer.o.stride[a] # 0 /\ {p, d} \subseteq Nat /\ k \in Nat
    BY <1>1, <2>1, SizesAreNumbers DEF LayerAssumed
  <2>3. x \in Nat
    <3>1. \A b \in 1..Len(before) : before[b] \in Nat
      BY <1>1, BatchHas, SizesAreNumbers
    <3>2. 2 + a \in 1..4
      BY DEF Axes
    <3> QED
      BY <1>1, <2>1, <3>1, <3>2
  <2>4. k > 0 /\ d > 0 /\ d * (k - 1) + 1 <= x + 2 * p /\ x + 2 * p < SizeMod
    BY <1>2, <2>1 DEF Within
  <2>5. d \in Nat /\ p \in Nat /\ k \in Nat /\ k - 1 \in Nat
    BY <2>2, <2>4
  <2>6. d * (k - 1) \in Nat
    BY <2>5
  <2>7. d * (k - 1) + 1 \in Nat /\ d * (k - 1) + 1 < SizeMod /\ x + 2 * p \in Nat
    BY <2>3, <2>4, <2>5, <2>6
  <2>8. Size(d * (k - 1) + 1) = d * (k - 1) + 1 /\ Size(x + 2 * p) = x + 2 * p
    BY <2>4, <2>7, SizeIsExact
  <2>9. EffectiveKernel(k, d) <= Size(x + 2 * p)
    BY <2>4, <2>8 DEF EffectiveKernel
  <2>10. layer.o.dilation[a] # 0
    BY <2>1, <2>4, <2>5
  <2> QED
    BY <2>1, <2>2, <2>9, <2>10
<1> QED
  BY <1>3 DEF NonZero, before

LEMMA WindowOfPool ==
  ASSUME Typed, WellFormed, NEW i \in 1..Depth, Kind(i) = "maxpool", NEW layer, layer = net.layers[i]
  PROVE  /\ NonZero(layer.o.stride) /\ NonZero(layer.o.kernel)
         /\ Fits(Shape(i - 1), layer.o.kernel, layer.o.padding)
<1> DEFINE before == Shape(i - 1)
<1>1. /\ LayerAssumed(layer, before) /\ Supported(i, layer, before) /\ layer.kind = "maxpool"
      /\ Len(before) = 4 /\ before \in Batches
  BY WellFormedHas, RanksOfLayer DEF Kind
<1> HIDE DEF before
<1>2. Within(before, layer.o.kernel, <<1, 1>>, layer.o.padding)
  BY <1>1 DEF Supported
<1>3. ASSUME NEW a \in Axes
      PROVE  /\ layer.o.stride[a] # 0 /\ layer.o.kernel[a] # 0
             /\ layer.o.kernel[a] <= Size(before[2 + a] + 2 * layer.o.padding[a])
  <2>1. PICK k, p, x : k = layer.o.kernel[a] /\ p = layer.o.padding[a] /\ x = before[2 + a]
    OBVIOUS
  <2>2. layer.o.stride[a] # 0 /\ p \in Nat /\ k \in Nat
    BY <1>1, <2>1, SizesAreNumbers DEF LayerAssumed
  <2>3. x \in Nat
    <3>1. \A b \in 1..Len(before) : before[b] \in Nat
      BY <1>1, BatchHas, SizesAreNumbers
    <3>2. 2 + a \in 1..4
      BY DEF Axes
    <3> QED
      BY <1>1, <2>1, <3>1, <3>2
  <2>4. k > 0 /\ 1 * (k - 1) + 1 <= x + 2 * p /\ x + 2 * p < SizeMod
    <3>1. <<1, 1>>[a] = 1
      BY DEF Axes
    <3> QED
      BY <1>2, <2>1, <3>1 DEF Within
  <2>5. k <= x + 2 * p /\ x + 2 * p \in Nat
    BY <2>2, <2>3, <2>4
  <2>6. Size(x + 2 * p) = x + 2 * p
    BY <2>4, <2>5, SizeIsExact
  <2>7. layer.o.kernel[a] # 0
    BY <2>1, <2>2, <2>4
  <2> QED
    BY <2>1, <2>2, <2>5, <2>6, <2>7
<1> QED
  BY <1>3 DEF NonZero, Fits, before

\* The weights and the bias of a layer.
LEMMA ParametersOfLayer ==
  ASSUME NEW i
  PROVE  /\ Kind(i) = "conv" =>
              Weights(net, i) = Float(<<net.layers[i].out, Shape(i - 1)[2], net.layers[i].kernel[1],
                                        net.layers[i].kernel[2]>>, net.device, "NCHW")
         /\ Kind(i) = "linear" =>
              Weights(net, i) = Float(<<net.layers[i].out, Shape(i - 1)[2]>>, net.device, "Unknown")
         /\ Bias(net, i) = Float(<<net.layers[i].out>>, net.device, "Unknown")
  BY DEF Weights, Bias, Kind, Shape

\* What the validations of conv2d compute from the kernels is what the layer computed when it
\* was added to the network.
LEMMA ShapeOfConv ==
  ASSUME Typed, WellFormed, NEW i \in 1..Depth, Kind(i) = "conv", NEW layer, layer = net.layers[i],
         NEW kernels, kernels = Weights(net, i)
  PROVE  /\ kernels.shape = <<layer.out, Shape(i - 1)[2], layer.kernel[1], layer.kernel[2]>>
         /\ Len(Shape(i - 1)) = 4 /\ Len(Shape(i)) = 4
         /\ Fits(Shape(i - 1), EffectiveKernels(kernels, layer.o), layer.o.padding)
         /\ Shape(i) = Outputs(Shape(i - 1), layer.out, EffectiveKernels(kernels, layer.o),
                               layer.o.padding, layer.o.stride)
<1>1. kernels.shape = <<layer.out, Shape(i - 1)[2], layer.kernel[1], layer.kernel[2]>>
  BY ParametersOfLayer DEF Float, Tensor
<1>2. /\ Len(Shape(i - 1)) = 4 /\ Len(Shape(i)) = 4
      /\ Shape(i) = Conv2dOutputShape(layer, Shape(i - 1))
  <2>1. Shape(i) = OutputShape(layer, Shape(i - 1))
    BY WellFormedHas
  <2> QED
    BY <2>1, RanksOfLayer DEF OutputShape, Kind
<1>3. EffectiveKernels(kernels, layer.o) =
        [a \in Axes |-> EffectiveKernel(layer.kernel[a], layer.o.dilation[a])]
  <2>1. \A a \in Axes : kernels.shape[2 + a] = layer.kernel[a]
    BY <1>1 DEF Axes
  <2> QED
    BY <2>1 DEF EffectiveKernels
<1>4. PICK effective : effective = EffectiveKernels(kernels, layer.o)
  OBVIOUS
<1>5. \A a \in Axes : effective[a] = EffectiveKernel(layer.kernel[a], layer.o.dilation[a])
  BY <1>3, <1>4
<1>6. Fits(Shape(i - 1), effective, layer.o.padding)
  BY <1>5, WindowOfConv DEF Fits
<1>7. Shape(i) = Outputs(Shape(i - 1), layer.out, effective, layer.o.padding, layer.o.stride)
  <2>1. /\ effective[1] = EffectiveKernel(layer.kernel[1], layer.o.dilation[1])
        /\ effective[2] = EffectiveKernel(layer.kernel[2], layer.o.dilation[2])
    BY <1>5 DEF Axes
  <2>2. 2 + 1 = 3 /\ 2 + 2 = 4
    OBVIOUS
  <2>3. Outputs(Shape(i - 1), layer.out, effective, layer.o.padding, layer.o.stride)
          = Conv2dOutputShape(layer, Shape(i - 1))
    BY <2>1, <2>2, Zenon DEF Outputs, Conv2dOutputShape
  <2> QED
    BY <1>2, <2>3
<1> QED
  BY <1>1, <1>2, <1>4, <1>6, <1>7

LEMMA ConvRuns ==
  ASSUME Typed, WellFormed, NEW i \in 1..Depth, Kind(i) = "conv",
         NEW input, Given(input, i - 1), NEW l, NEW result, result = Float(Shape(i), net.device, "NCHW")
  PROVE  Entry(ForwardCall(net, i, l, input, result)) # Threw
<1> DEFINE layer == net.layers[i]
           kernels == Weights(net, i)
           bias == Bias(net, i)
           roles == [input |-> input, kernels |-> kernels, result |-> result]
           t == WithBias(layer, "bias", bias, roles)
<1>1. PICK data : ForwardCall(net, i, l, input, result) = Operation("conv2d", t, layer.o, data)
  BY DEF ForwardCall, Kind
<1>2. PICK given \in SUBSET {bias} :
        Entry(Operation("conv2d", t, layer.o, data)) = conv2d(input, kernels, given, result, layer.o)
  <2>1. /\ DOMAIN roles = {"input", "kernels", "result"}
        /\ roles["input"] = input /\ roles["kernels"] = kernels /\ roles["result"] = result
    OBVIOUS
  <2> HIDE DEF roles
  <2>2. /\ t["input"] = input /\ t["kernels"] = kernels /\ t["result"] = result
        /\ "bias" \in DOMAIN t => t["bias"] = bias
    BY <2>1, BiasGiven
  <2> HIDE DEF t, bias, layer
  <2>3. If("bias", t) \in SUBSET {bias}
    BY <2>2 DEF If
  <2> QED
    BY <2>2, <2>3, EntryOfConv2d
<1>3. /\ kernels.shape = <<layer.out, Shape(i - 1)[2], layer.kernel[1], layer.kernel[2]>>
      /\ bias.shape = <<layer.out>> /\ result.shape = Shape(i) /\ input.shape = Shape(i - 1)
      /\ \A u \in {input, kernels, result} \cup {bias} :
           u.dtype = "Float32" /\ u.device = net.device /\ u.storage = "RowMajor"
  BY ParametersOfLayer DEF Float, Tensor, Given
<1>4. /\ Len(Shape(i - 1)) = 4 /\ Len(Shape(i)) = 4
      /\ Fits(Shape(i - 1), EffectiveKernels(kernels, layer.o), layer.o.padding)
      /\ Shape(i) = Outputs(Shape(i - 1), layer.out, EffectiveKernels(kernels, layer.o),
                            layer.o.padding, layer.o.stride)
  BY ShapeOfConv
<1>5. NonZero(layer.o.stride) /\ NonZero(layer.o.dilation)
  BY WindowOfConv
<1> HIDE DEF kernels, bias, layer
<1>6. validate_conv2d_inputs(input, kernels, given, result, layer.o)
  <2>1. Uniform({input, kernels, result} \cup given)
    BY <1>3, FloatsAreUniform
  <2>2. AllRank(4, {input, kernels, result}) /\ AllRank(1, given)
    <3>1. Rank(kernels) = 4 /\ Rank(bias) = 1
      BY <1>3 DEF Rank
    <3>2. Rank(input) = 4 /\ Rank(result) = 4
      BY <1>3, <1>4 DEF Rank
    <3> QED
      BY <3>1, <3>2, Zenon DEF AllRank
  <2>3. input.shape[2] = kernels.shape[2] /\ \A b \in given : b.shape[1] = kernels.shape[1]
    BY <1>3
  <2>4. kernels.shape[1] = layer.out
    BY <1>3
  <2> QED
    BY <1>3, <1>4, <1>5, <2>1, <2>2, <2>3, <2>4 DEF validate_conv2d_inputs
<1>7. conv2d_unchecked(input, layer.o) # Threw
  <2>1. conv2d_float32(layer.o) # Threw
    BY DEF conv2d_float32, Threw
  <2> QED
    BY <2>1, BackendsRun, WellFormedHas DEF conv2d_unchecked, Given
<1> QED
  BY <1>1, <1>2, <1>6, <1>7 DEF conv2d, Checked

LEMMA LinearRuns ==
  ASSUME Typed, WellFormed, NEW i \in 1..Depth, Kind(i) = "linear",
         NEW input, Given(input, i - 1), NEW l, NEW result, result = Float(Shape(i), net.device, "Unknown")
  PROVE  Entry(ForwardCall(net, i, l, input, result)) # Threw
<1> DEFINE layer == net.layers[i]
           weights == Weights(net, i)
           bias == Bias(net, i)
           roles == [input |-> input, weights |-> weights, result |-> result]
           t == WithBias(layer, "bias", bias, roles)
<1>1. PICK o, data : ForwardCall(net, i, l, input, result) = Operation("linear", t, o, data)
  BY DEF ForwardCall, Kind
<1>2. PICK given \in SUBSET {bias} :
        Entry(Operation("linear", t, o, data)) = linear(input, weights, given, result)
  <2>1. /\ DOMAIN roles = {"input", "weights", "result"}
        /\ roles["input"] = input /\ roles["weights"] = weights /\ roles["result"] = result
    OBVIOUS
  <2> HIDE DEF roles
  <2>2. /\ t["input"] = input /\ t["weights"] = weights /\ t["result"] = result
        /\ "bias" \in DOMAIN t => t["bias"] = bias
    BY <2>1, BiasGiven
  <2> HIDE DEF t, bias, layer
  <2>3. If("bias", t) \in SUBSET {bias}
    BY <2>2 DEF If
  <2> QED
    BY <2>2, <2>3, EntryOfLinear
<1>3. /\ weights = Float(<<layer.out, Shape(i - 1)[2]>>, net.device, "Unknown")
      /\ bias = Float(<<layer.out>>, net.device, "Unknown")
  BY ParametersOfLayer
<1> HIDE DEF weights, bias, layer
<1>4. /\ weights.shape = <<layer.out, Shape(i - 1)[2]>> /\ bias.shape = <<layer.out>>
      /\ result.shape = Shape(i) /\ input.shape = Shape(i - 1)
      /\ \A u \in {input, weights, result} \cup {bias} :
           u.dtype = "Float32" /\ u.device = net.device /\ u.storage = "RowMajor"
  BY <1>3 DEF Float, Tensor, Given
<1>5. /\ Len(Shape(i - 1)) = 2 /\ Len(Shape(i)) = 2 /\ Shape(i) = <<Shape(i - 1)[1], layer.out>>
  <2>1. Shape(i) = OutputShape(layer, Shape(i - 1))
    BY WellFormedHas DEF layer
  <2> QED
    BY <2>1, RanksOfLayer DEF OutputShape, LinearOutputShape, Kind, layer
<1>6. validate_linear_inputs(input, weights, given, result)
  <2>1. Uniform({input, weights, result} \cup given)
    BY <1>4, FloatsAreUniform
  <2>2. AllRank(2, {input, weights, result}) /\ AllRank(1, given)
    <3>1. Rank(weights) = 2 /\ Rank(bias) = 1
      BY <1>4 DEF Rank
    <3>2. Rank(input) = 2 /\ Rank(result) = 2
      BY <1>4, <1>5 DEF Rank
    <3> QED
      BY <3>1, <3>2, Zenon DEF AllRank
  <2>3. /\ input.shape[2] = weights.shape[2] /\ result.shape = <<input.shape[1], weights.shape[1]>>
        /\ \A b \in given : b.shape[1] = weights.shape[1]
    BY <1>4, <1>5
  <2> QED
    BY <2>1, <2>2, <2>3 DEF validate_linear_inputs
<1>7. linear_unchecked(input) # Threw
  BY BackendsRun, WellFormedHas DEF linear_unchecked, Given, Threw
<1> QED
  BY <1>1, <1>2, <1>6, <1>7 DEF linear, Checked

LEMMA ShapeOfPool ==
  ASSUME Typed, WellFormed, NEW i \in 1..Depth, Kind(i) = "maxpool", NEW layer, layer = net.layers[i]
  PROVE  /\ Len(Shape(i - 1)) = 4 /\ Len(Shape(i)) = 4
         /\ Shape(i) = MaxPoolOutputShape(layer, Shape(i - 1))
         /\ Shape(i) = Outputs(Shape(i - 1), Shape(i - 1)[2], layer.o.kernel, layer.o.padding, layer.o.stride)
         /\ Shape(i)[1] = Shape(i - 1)[1] /\ Shape(i)[2] = Shape(i - 1)[2]
<1>1. Len(Shape(i - 1)) = 4 /\ Len(Shape(i)) = 4
  BY RanksOfLayer
<1>2. Shape(i) = MaxPoolOutputShape(layer, Shape(i - 1))
  <2>1. Shape(i) = OutputShape(layer, Shape(i - 1))
    BY WellFormedHas
  <2> QED
    BY <2>1 DEF OutputShape, Kind
<1>3. MaxPoolOutputShape(layer, Shape(i - 1)) =
        Outputs(Shape(i - 1), Shape(i - 1)[2], layer.o.kernel, layer.o.padding, layer.o.stride)
  <2>1. 2 + 1 = 3 /\ 2 + 2 = 4
    OBVIOUS
  <2> QED
    BY <2>1, Zenon DEF Outputs, MaxPoolOutputShape
<1>4. Shape(i)[1] = Shape(i - 1)[1] /\ Shape(i)[2] = Shape(i - 1)[2]
  BY <1>2 DEF MaxPoolOutputShape
<1> QED
  BY <1>1, <1>2, <1>3, <1>4

LEMMA PoolRuns ==
  ASSUME Typed, WellFormed, NEW i \in 1..Depth, Kind(i) = "maxpool",
         NEW input, Given(input, i - 1), input.layout = "NCHW",
         NEW l, NEW result, result = Float(Shape(i), net.device, "NCHW")
  PROVE  Entry(ForwardCall(net, i, l, input, result)) # Threw
<1> DEFINE layer == net.layers[i]
           indices == Tensor(result.shape, "Int32", net.device, "NCHW")
<1>1. /\ result.shape = Shape(i) /\ indices.shape = Shape(i) /\ input.shape = Shape(i - 1)
      /\ indices.dtype = "Int32" /\ indices.storage = "RowMajor" /\ indices.device = net.device
      /\ indices.layout = "NCHW" /\ result.layout = "NCHW"
      /\ \A u \in {input, result} : u.dtype = "Float32" /\ u.device = net.device /\ u.storage = "RowMajor"
  BY DEF Float, Tensor, Given
<1> HIDE DEF indices
<1>2. Uniform({input, result}) /\ OneDevice({input, indices})
  <2>1. Uniform({input, result})
    BY <1>1, FloatsAreUniform
  <2> QED
    BY <1>1, <2>1 DEF OneDevice
<1>3. /\ AllRank(4, {input, result}) /\ AllRank(4, {input, result, indices})
      /\ AllNCHW({input, result}) /\ AllNCHW({input, result, indices})
  <2>1. Rank(input) = 4 /\ Rank(result) = 4 /\ Rank(indices) = 4
    BY <1>1, ShapeOfPool DEF Rank
  <2> QED
    BY <1>1, <2>1 DEF AllRank, AllNCHW
<1>4. PoolFits(input, result, layer.o)
  BY <1>1, WindowOfPool, ShapeOfPool DEF PoolFits
<1>5. NonZero(layer.o.kernel) /\ NonZero(layer.o.stride)
  BY WindowOfPool
<1>6. CASE l.mode = "Training"
  <2> DEFINE t == [input |-> input, result |-> result, indices |-> indices]
  <2>1. PICK data : ForwardCall(net, i, l, input, result) = Operation("maxpool2d_with_indices", t, layer.o, data)
    BY <1>6 DEF ForwardCall, Kind, indices
  <2>2. Entry(Operation("maxpool2d_with_indices", t, layer.o, data)) =
          maxpool2d_with_indices(input, result, indices, layer.o)
    <3>1. t["input"] = input /\ t["result"] = result /\ t["indices"] = indices
      OBVIOUS
    <3> HIDE DEF t
    <3> QED
      BY <3>1, EntryOfMaxpool2d
  <2>3. validate_maxpool2d_with_indices_inputs(input, result, indices, layer.o)
    BY <1>1, <1>2, <1>3, <1>4, <1>5 DEF validate_maxpool2d_with_indices_inputs
  <2>4. maxpool2d_with_indices_unchecked(input) # Threw
    BY BackendsRun, WellFormedHas DEF maxpool2d_with_indices_unchecked, Given, Threw
  <2> QED
    BY <2>1, <2>2, <2>3, <2>4 DEF maxpool2d_with_indices, Checked
<1>7. CASE l.mode # "Training"
  <2> DEFINE t == [input |-> input, result |-> result]
  <2>1. PICK data : ForwardCall(net, i, l, input, result) = Operation("maxpool2d", t, layer.o, data)
    BY <1>7 DEF ForwardCall, Kind
  <2>2. Entry(Operation("maxpool2d", t, layer.o, data)) = maxpool2d(input, result, layer.o)
    <3>1. t["input"] = input /\ t["result"] = result
      OBVIOUS
    <3> HIDE DEF t
    <3> QED
      BY <3>1, EntryOfMaxpool2d
  <2>3. validate_maxpool2d_inputs(input, result, layer.o)
    BY <1>1, <1>2, <1>3, <1>4, <1>5 DEF validate_maxpool2d_inputs
  <2>4. maxpool2d_unchecked(input) # Threw
    BY BackendsRun, WellFormedHas DEF maxpool2d_unchecked, Given, Threw
  <2> QED
    BY <2>1, <2>2, <2>3, <2>4 DEF maxpool2d, Checked
<1> QED
  BY <1>6, <1>7

\* Softmax is of matrices.
LEMMA SoftmaxOfMatrices ==
  ASSUME Typed, WellFormed, NEW i \in 1..Depth, Kind(i) = "activation", NEW t, t.shape = Shape(i)
  PROVE  /\ net.layers[i].type \in ActivationTypes
         /\ SoftmaxShape(t, net.layers[i].type)
<1>1. /\ LayerAssumed(net.layers[i], Shape(i - 1)) /\ Supported(i, net.layers[i], Shape(i - 1))
      /\ Shape(i) = Shape(i - 1)
  BY WellFormedHas, RanksOfLayer
<1>2. net.layers[i].type \in ActivationTypes
  BY <1>1 DEF LayerAssumed, Kind
<1>3. SoftmaxShape([shape |-> Shape(i - 1)], net.layers[i].type)
  BY <1>1 DEF Supported, Kind
<1> QED
  BY <1>1, <1>2, <1>3 DEF SoftmaxShape, Rank

LEMMA ActivationRuns ==
  ASSUME Typed, WellFormed, NEW i \in 1..Depth, Kind(i) = "activation",
         NEW input, Given(input, i - 1), NEW l, NEW result
  PROVE  Entry(ForwardCall(net, i, l, input, result)) # Threw
<1> DEFINE type == net.layers[i].type
           t == [tensor |-> input]
           o == [type |-> type]
<1>1. PICK data : ForwardCall(net, i, l, input, result) = Operation("activation", t, o, data)
  BY DEF ForwardCall, Kind
<1>2. Entry(Operation("activation", t, o, data)) = activation(input, type)
  <2>1. t["tensor"] = input /\ o.type = type
    OBVIOUS
  <2> HIDE DEF t, o
  <2> QED
    BY <2>1, EntryOfActivation
<1>3. type \in ActivationTypes /\ SoftmaxShape(input, type)
  BY SoftmaxOfMatrices, RanksOfLayer DEF Given
<1>4. validate_activation_tensor(input, type)
  BY <1>3 DEF validate_activation_tensor, AllFloat, Given
<1>5. activation_unchecked(input, type) # Threw
  <2>1. type # Threw
    BY <1>3 DEF ActivationTypes, Threw
  <2> QED
    BY <2>1, BackendsRun, WellFormedHas DEF activation_unchecked, Given
<1> QED
  BY <1>1, <1>2, <1>4, <1>5 DEF activation, Checked

LEMMA ConvRunsBack ==
  ASSUME Typed, WellFormed, NEW i \in 1..Depth, Kind(i) = "conv", NEW l,
         NEW input, Given(input, i - 1), input.layout = "NCHW",
         NEW grad_output, Given(grad_output, i), grad_output.layout = "NCHW",
         NEW grad_input, grad_input = Float(Shape(i - 1), net.device, "NCHW")
  PROVE  Entry(BackwardCall(net, i, l, input, grad_output, grad_input)) # Threw
<1> DEFINE layer == net.layers[i]
           weights == Weights(net, i)
           bias == Bias(net, i)
           roles == [input |-> input, weights |-> weights, grad_output |-> grad_output,
                     grad_input |-> grad_input, grad_weights |-> weights]
           t == WithBias(layer, "grad_bias", bias, roles)
           images == {input, weights, grad_output, grad_input, weights}
<1>1. PICK data : BackwardCall(net, i, l, input, grad_output, grad_input) =
                    Operation("backward_conv2d", t, layer.o, data)
  BY DEF BackwardCall, Kind
<1>2. PICK given \in SUBSET {bias} :
        Entry(Operation("backward_conv2d", t, layer.o, data)) =
          backward_conv2d(input, weights, grad_output, grad_input, weights, given, layer.o)
  <2>1. /\ DOMAIN roles = {"input", "weights", "grad_output", "grad_input", "grad_weights"}
        /\ roles["input"] = input /\ roles["weights"] = weights /\ roles["grad_output"] = grad_output
        /\ roles["grad_input"] = grad_input /\ roles["grad_weights"] = weights
    OBVIOUS
  <2> HIDE DEF roles
  <2>2. /\ t["input"] = input /\ t["weights"] = weights /\ t["grad_output"] = grad_output
        /\ t["grad_input"] = grad_input /\ t["grad_weights"] = weights
        /\ "grad_bias" \in DOMAIN t => t["grad_bias"] = bias
    BY <2>1, BiasGiven
  <2> HIDE DEF t, bias, layer
  <2>3. If("grad_bias", t) \in SUBSET {bias}
    BY <2>2 DEF If
  <2> QED
    BY <2>2, <2>3, EntryOfBackward
<1>3. /\ weights.shape = <<layer.out, Shape(i - 1)[2], layer.kernel[1], layer.kernel[2]>>
      /\ bias.shape = <<layer.out>> /\ input.shape = Shape(i - 1) /\ grad_input.shape = Shape(i - 1)
      /\ grad_output.shape = Shape(i)
      /\ \A u \in images : u.layout = "NCHW"
      /\ \A u \in images \cup {bias} :
           u.dtype = "Float32" /\ u.device = net.device /\ u.storage = "RowMajor"
  BY ParametersOfLayer DEF Float, Tensor, Given
<1>4. /\ Len(Shape(i - 1)) = 4 /\ Len(Shape(i)) = 4
      /\ Shape(i) = Outputs(Shape(i - 1), layer.out, EffectiveKernels(weights, layer.o),
                            layer.o.padding, layer.o.stride)
  BY ShapeOfConv
<1>5. NonZero(layer.o.stride) /\ NonZero(layer.o.dilation)
  BY WindowOfConv
<1> HIDE DEF weights, bias, layer
<1>6. validate_backward_conv2d_inputs(input, weights, grad_output, grad_input, weights, given, layer.o)
  <2>1. Uniform(images \cup given)
    BY <1>3, FloatsAreUniform
  <2>2. AllRank(4, images)
    <3>1. Len(weights.shape) = 4
      <4>1. PICK kernels : kernels = weights.shape
        OBVIOUS
      <4>2. kernels = <<layer.out, Shape(i - 1)[2], layer.kernel[1], layer.kernel[2]>>
        BY <1>3, <4>1
      <4>3. Len(kernels) = 4
        BY <4>2
      <4> QED
        BY <4>1, <4>3
    <3>2. Len(input.shape) = 4 /\ Len(grad_output.shape) = 4 /\ Len(grad_input.shape) = 4
      BY <1>3, <1>4
    <3>3. \A u \in images : Len(u.shape) = 4
      BY <3>1, <3>2
    <3> QED
      BY <3>3 DEF AllRank, Rank
  <2>3. AllNCHW(images)
    BY <1>3 DEF AllNCHW
  <2>4. weights.shape[1] = layer.out /\ input.shape[2] = weights.shape[2]
    BY <1>3
  <2>5. \A b \in given : Rank(b) = 1 /\ b.shape[1] = weights.shape[1]
    <3>1. PICK outs : bias.shape = <<outs>> /\ weights.shape[1] = outs
      BY <1>3
    <3>2. Rank(bias) = 1 /\ bias.shape[1] = weights.shape[1]
      BY <3>1 DEF Rank
    <3> QED
      BY <3>2
  <2>6. grad_output.shape = conv2d_output_size(input, weights, layer.o)
    BY <1>3, <1>4, <2>4 DEF conv2d_output_size
  <2> QED
    BY <1>3, <1>5, <2>1, <2>2, <2>3, <2>4, <2>5, <2>6 DEF validate_backward_conv2d_inputs
<1>7. backward_conv2d_unchecked(input) # Threw
  BY BackendsRun, WellFormedHas DEF backward_conv2d_unchecked, Given, Threw
<1> QED
  BY <1>1, <1>2, <1>6, <1>7 DEF backward_conv2d, Checked

LEMMA LinearRunsBack ==
  ASSUME Typed, WellFormed, NEW i \in 1..Depth, Kind(i) = "linear", NEW l,
         NEW input, Given(input, i - 1), NEW grad_output, Given(grad_output, i),
         NEW grad_input, Given(grad_input, i - 1)
  PROVE  Entry(BackwardCall(net, i, l, input, grad_output, grad_input)) # Threw
<1> DEFINE layer == net.layers[i]
           weights == Weights(net, i)
           bias == Bias(net, i)
           roles == [input |-> input, weights |-> weights, grad_output |-> grad_output,
                     grad_input |-> grad_input, grad_weights |-> weights]
           t == WithBias(layer, "grad_bias", bias, roles)
           matrices == {input, weights, grad_output, grad_input, weights}
<1>1. PICK o, data : BackwardCall(net, i, l, input, grad_output, grad_input) =
                       Operation("backward_linear", t, o, data)
  BY DEF BackwardCall, Kind
<1>2. PICK given \in SUBSET {bias} :
        Entry(Operation("backward_linear", t, o, data)) =
          backward_linear(input, weights, grad_output, grad_input, weights, given)
  <2>1. /\ DOMAIN roles = {"input", "weights", "grad_output", "grad_input", "grad_weights"}
        /\ roles["input"] = input /\ roles["weights"] = weights /\ roles["grad_output"] = grad_output
        /\ roles["grad_input"] = grad_input /\ roles["grad_weights"] = weights
    OBVIOUS
  <2> HIDE DEF roles
  <2>2. /\ t["input"] = input /\ t["weights"] = weights /\ t["grad_output"] = grad_output
        /\ t["grad_input"] = grad_input /\ t["grad_weights"] = weights
        /\ "grad_bias" \in DOMAIN t => t["grad_bias"] = bias
    BY <2>1, BiasGiven
  <2> HIDE DEF t, bias, layer
  <2>3. If("grad_bias", t) \in SUBSET {bias}
    BY <2>2 DEF If
  <2> QED
    BY <2>2, <2>3, EntryOfBackward
<1>3. /\ weights.shape = <<layer.out, Shape(i - 1)[2]>>
      /\ bias.shape = <<layer.out>> /\ input.shape = Shape(i - 1) /\ grad_input.shape = Shape(i - 1)
      /\ grad_output.shape = Shape(i)
      /\ \A u \in matrices \cup {bias} :
           u.dtype = "Float32" /\ u.device = net.device /\ u.storage = "RowMajor"
  BY ParametersOfLayer DEF Float, Tensor, Given
<1> HIDE DEF weights, bias, layer
<1>4. /\ Len(Shape(i - 1)) = 2 /\ Len(Shape(i)) = 2 /\ Shape(i) = <<Shape(i - 1)[1], layer.out>>
  <2>1. Shape(i) = OutputShape(layer, Shape(i - 1))
    BY WellFormedHas DEF layer
  <2> QED
    BY <2>1, RanksOfLayer DEF OutputShape, LinearOutputShape, Kind, layer
<1>5. validate_backward_linear_inputs(input, weights, grad_output, grad_input, weights, given)
  <2>1. Uniform(matrices \cup given)
    BY <1>3, FloatsAreUniform
  <2>2. AllRank(2, matrices)
    <3>1. Rank(weights) = 2
      <4>1. PICK outs, ins : weights.shape = <<outs, ins>>
        BY <1>3
      <4> QED
        BY <4>1 DEF Rank
    <3>2. Rank(input) = 2 /\ Rank(grad_output) = 2 /\ Rank(grad_input) = 2
      BY <1>3, <1>4 DEF Rank
    <3> QED
      BY <3>1, <3>2 DEF AllRank
  <2>3. weights.shape[1] = layer.out /\ weights.shape[2] = input.shape[2]
    BY <1>3
  <2>4. \A b \in given : Rank(b) = 1 /\ b.shape[1] = weights.shape[1]
    <3>1. PICK outs : bias.shape = <<outs>> /\ weights.shape[1] = outs
      BY <1>3
    <3>2. Rank(bias) = 1 /\ bias.shape[1] = weights.shape[1]
      BY <3>1 DEF Rank
    <3> QED
      BY <3>2
  <2>5. grad_output.shape = <<input.shape[1], weights.shape[1]>>
    BY <1>3, <1>4, <2>3
  <2> QED
    BY <1>3, <2>1, <2>2, <2>3, <2>4, <2>5 DEF validate_backward_linear_inputs
<1>6. backward_linear_unchecked(input) # Threw
  BY BackendsRun, WellFormedHas DEF backward_linear_unchecked, Given, Threw
<1> QED
  BY <1>1, <1>2, <1>5, <1>6 DEF backward_linear, Checked

LEMMA PoolRunsBack ==
  ASSUME Typed, WellFormed, NEW i \in 1..Depth, Kind(i) = "maxpool", NEW l, l.indexed = Shape(i - 1),
         NEW input, NEW grad_output, Given(grad_output, i), NEW grad_input, Given(grad_input, i - 1)
  PROVE  Entry(BackwardCall(net, i, l, input, grad_output, grad_input)) # Threw
<1> DEFINE layer == net.layers[i]
           indices == Tensor(OutputShape(layer, l.indexed), "Int32", net.device, "NCHW")
           t == [indices |-> indices, grad_output |-> grad_output, grad_input |-> grad_input]
<1>1. PICK data : BackwardCall(net, i, l, input, grad_output, grad_input) =
                    Operation("backward_maxpool2d", t, layer.o, data)
  BY DEF BackwardCall, Kind
<1>2. Entry(Operation("backward_maxpool2d", t, layer.o, data)) =
        backward_maxpool2d(indices, grad_output, grad_input)
  <2>1. t["indices"] = indices /\ t["grad_output"] = grad_output /\ t["grad_input"] = grad_input
    OBVIOUS
  <2> HIDE DEF t
  <2> QED
    BY <2>1, EntryOfMaxpool2d
<1>3. /\ indices.shape = Shape(i) /\ indices.dtype = "Int32" /\ indices.storage = "RowMajor"
      /\ indices.device = net.device
      /\ grad_output.shape = Shape(i) /\ grad_input.shape = Shape(i - 1)
      /\ \A u \in {grad_output, grad_input} :
           u.dtype = "Float32" /\ u.device = net.device /\ u.storage = "RowMajor"
  <2>1. OutputShape(layer, l.indexed) = Shape(i)
    BY WellFormedHas
  <2> QED
    BY <2>1 DEF Tensor, Given
<1> HIDE DEF indices, layer
<1>4. validate_backward_maxpool2d_inputs(indices, grad_output, grad_input)
  <2>1. Uniform({grad_output, grad_input}) /\ OneDevice({grad_output, indices})
    <3>1. Uniform({grad_output, grad_input})
      BY <1>3, FloatsAreUniform
    <3> QED
      BY <1>3, <3>1 DEF OneDevice
  <2>2. AllRank(4, {indices, grad_output, grad_input})
    BY <1>3, ShapeOfPool DEF AllRank, Rank
  <2>3. \A a \in {1, 2} : indices.shape[a] = grad_input.shape[a]
    BY <1>3, ShapeOfPool
  <2> QED
    BY <1>3, <2>1, <2>2, <2>3 DEF validate_backward_maxpool2d_inputs
<1>5. backward_maxpool2d_unchecked(grad_output) # Threw
  BY BackendsRun, WellFormedHas DEF backward_maxpool2d_unchecked, Given, Threw
<1> QED
  BY <1>1, <1>2, <1>4, <1>5 DEF backward_maxpool2d, Checked

LEMMA ActivationRunsBack ==
  ASSUME Typed, WellFormed, NEW i \in 1..Depth, Kind(i) = "activation", NEW l,
         NEW output, Given(output, i), NEW grad_output, Given(grad_output, i), NEW grad_input
  PROVE  Entry(BackwardCall(net, i, l, output, grad_output, grad_input)) # Threw
<1> DEFINE type == net.layers[i].type
           t == [activation_output |-> output, grad |-> grad_output]
           o == [type |-> type]
<1>1. PICK data : BackwardCall(net, i, l, output, grad_output, grad_input) =
                    Operation("backward_activation", t, o, data)
  BY DEF BackwardCall, Kind
<1>2. Entry(Operation("backward_activation", t, o, data)) = backward_activation(output, grad_output, type)
  <2>1. t["activation_output"] = output /\ t["grad"] = grad_output /\ o.type = type
    OBVIOUS
  <2> HIDE DEF t, o
  <2> QED
    BY <2>1, EntryOfActivation
<1>3. type \in ActivationTypes /\ SoftmaxShape(output, type)
  BY SoftmaxOfMatrices DEF Given
<1>4. validate_backward_activation_inputs(output, grad_output, type)
  <2>1. Uniform({output, grad_output})
    BY FloatsAreUniform DEF Given
  <2> QED
    BY <1>3, <2>1 DEF validate_backward_activation_inputs, Given
<1>5. backward_activation_unchecked(output, type) # Threw
  <2>1. BackwardKernel[type] # Threw
    BY <1>3 DEF ActivationTypes, BackwardKernel, Threw
  <2> QED
    BY <2>1, BackendsRun, WellFormedHas DEF backward_activation_unchecked, Given
<1> QED
  BY <1>1, <1>2, <1>4, <1>5 DEF backward_activation, Checked

-----------------------------------------------------------------------------
(* The invariant of a well-formed network. *)

Planned == {"nothing", "no batches", "no epochs"}
Training == Owner = "Training"

\* No loader breaks: its storages are as the batches it copies to them.
Fed ==
  /\ \A w \in Loaders : ~broken[w]
  /\ \A w \in Loaders : \A s \in 1..Storages :
       storage[w][s].shape = net.input /\ storage[w][s].layout = "NCHW"

\* Only a Training object trains, and it has made the gradients.
Gradients ==
  /\ prepared => \A i \in 1..Depth : Kind(i) \in Parametric => layers[i].grad # Never
  /\ driver.op = "fit" => prepared
Readied ==
  /\ Gradients
  /\ at[1] \in {"loss gradient", "backward", "step"} => Training
  /\ InPass /\ Training => \A i \in 1..Depth : layers[i].mode = "Training"

\* What the layers have kept for backward is as the operations ask for it.
KeptWhole(j) ==
  /\ Kind(j) = "conv" => Pointed(layers[j].saved).layout = "NCHW"
  /\ Kind(j) = "activation" => layers[j].saved \in Live /\ Pointed(layers[j].saved).shape = Shape(j)
  /\ Kind(j) = "maxpool" /\ Training => layers[j].indices # Never /\ layers[j].indexed = Shape(j - 1)
Whole == InPass => \A j \in 1..Passed : KeptWhole(j)

\* A flatten layer gives another shape to a tensor that no activation has kept.
Apart(q) == q # <<"batch">> /\ \A j \in 1..Passed : Kind(j) = "activation" => layers[j].saved # q
MayFlatten ==
  /\ at[1] = "forward" /\ Passed > 0 /\ Kind(Passed) \in {"maxpool", "flatten"} => Apart(current)
  /\ at[1] = "backward" => Apart(current)

\* Images are in the layout the layers ask for, and a gradient has the shape of what it is of.
Flowing ==
  /\ at[1] = "forward" /\ Len(Shape(Passed)) = 4 => Pointed(current).layout = "NCHW"
  /\ at[1] = "backward" => /\ Pointed(current).shape = Shape(at[2])
                           /\ Images(at[2]) => Pointed(current).layout = "NCHW"

Smooth == threw \in Planned /\ Fed /\ Readied /\ Whole /\ MayFlatten /\ Flowing

\* The end of a pass asks for little.
LEMMA LeavesSmoothly ==
  ASSUME ~InPass', threw' \in Planned, Fed', Gradients'
  PROVE  Smooth'
<1>1. /\ at'[1] # "forward" /\ at'[1] # "backward" /\ at'[1] # "loss gradient" /\ at'[1] # "step"
  BY DEF InPass
<1> QED
  BY <1>1 DEF Smooth, Readied, Whole, MayFlatten, Flowing

LEMMA GradientsStay ==
  ASSUME Gradients, UNCHANGED <<net, prepared>>,
         \A i \in 1..Depth : layers[i].grad # Never => layers'[i].grad # Never,
         driver'.op = "fit" => driver.op = "fit" \/ prepared
  PROVE  Gradients'
<1>1. Depth' = Depth /\ \A i : Kind(i)' = Kind(i)
  BY NetKept
<1> QED
  BY <1>1 DEF Gradients

LEMMA FedStays == ASSUME Fed, UNCHANGED <<net, broken, storage>> PROVE Fed'
  BY DEF Fed

LEMMA GradOfModes ==
  ASSUME IInv, NEW mode, layers' = SetMode(mode)
  PROVE  \A i \in 1..Depth : layers'[i].grad = layers[i].grad
<1> SUFFICES ASSUME NEW i \in 1..Depth PROVE layers'[i].grad = layers[i].grad
  OBVIOUS
<1>1. layers[i] \in LayerState(i)
  BY DEF IInv, LayersTyped
<1>2. layers'[i] = [layers[i] EXCEPT !.mode = mode]
  BY DEF SetMode
<1> QED
  BY <1>1, <1>2 DEF LayerState

LEMMA ConstructSmoothly == ASSUME IInv, WellFormed, Smooth, Construct PROVE Smooth'
<1>1. /\ UNCHANGED <<net, storage, broken, driver, at>> /\ layers' = PrepareTraining /\ driver = Idle
      /\ IF \E i \in 1..Depth : Kind(i) \in Parametric
         THEN prepared' = TRUE /\ threw' = "nothing"
         ELSE threw' = "no parameters" /\ UNCHANGED prepared
  BY DEF Construct, loaders, Kind
<1>2. threw' = "nothing"
  BY <1>1, WellFormedHas DEF IInv
<1>3. ~InPass'
  BY <1>1, IdleIsOutside DEF InPass
<1>4. Gradients'
  <2>1. \A i \in 1..Depth : Kind(i) \in Parametric => layers'[i].grad # Never
    <3>1. ASSUME NEW i \in 1..Depth, Kind(i) \in Parametric PROVE layers'[i].grad # Never
      <4>1. layers[i] \in LayerState(i)
        BY DEF IInv, LayersTyped
      <4>2. layers'[i].grad = IF layers[i].grad = Never THEN Stale ELSE layers[i].grad
        BY <1>1, <3>1, <4>1 DEF PrepareTraining, Kind, LayerState
      <4> QED
        BY <4>2 DEF Stale, Never
    <3> QED
      BY <3>1
  <2>2. driver'.op # "fit"
    BY <1>1 DEF Idle
  <2>3. Depth' = Depth /\ \A i : Kind(i)' = Kind(i)
    BY <1>1, NetKept
  <2> QED
    BY <2>1, <2>2, <2>3 DEF Gradients
<1>5. Fed'
  BY <1>1, FedStays DEF Smooth
<1> QED
  BY <1>2, <1>3, <1>4, <1>5, LeavesSmoothly DEF Planned

LEMMA FitSmoothly ==
  ASSUME IInv, Smooth, NEW epochs \in 0..2, NEW validation \in BOOLEAN, Fit(epochs, validation)
  PROVE  Smooth'
<1>1. /\ UNCHANGED <<net, storage, broken, prepared>> /\ prepared
      /\ layers' = layers \/ layers' = SetMode("Inference")
      /\ at' = <<"idle">> \/ at' = <<"next">>
      /\ threw' \in Planned
  BY DEF Fit, loaders, Throw, Begins, Planned
<1>2. Gradients'
  BY <1>1, GradOfModes, GradientsStay DEF Smooth, Readied
<1>3. Fed' /\ ~InPass'
  BY <1>1, FedStays DEF Smooth, InPass
<1> QED
  BY <1>1, <1>2, <1>3, LeavesSmoothly

LEMMA ServeSmoothly == ASSUME IInv, Smooth, Evaluate \/ Run PROVE Smooth'
<1>1. /\ UNCHANGED <<net, storage, broken, prepared>> /\ layers' = SetMode("Inference")
      /\ at' = <<"next">> /\ threw' \in Planned /\ driver'.op # "fit"
  <2>1. PICK op \in {"evaluate", "run"} : Begins([op |-> op, seen |-> FALSE])
    BY DEF Evaluate, Run
  <2>2. driver'.op = op
    BY <2>1 DEF Begins
  <2>3. UNCHANGED <<net, storage, broken, prepared>> /\ layers' = SetMode("Inference")
    BY DEF Evaluate, Run, loaders
  <2> QED
    BY <2>1, <2>2, <2>3 DEF Begins, Planned
<1>2. Gradients'
  BY <1>1, GradOfModes, GradientsStay DEF Smooth, Readied
<1>3. Fed' /\ ~InPass'
  BY <1>1, FedStays DEF Smooth, InPass
<1> QED
  BY <1>1, <1>2, <1>3, LeavesSmoothly

LEMMA ResetEpochSmoothly == ASSUME IInv, Smooth, NEW loader \in Loaders, ResetEpoch(loader) PROVE Smooth'
<1>1. /\ UNCHANGED <<net, storage, broken, prepared, layers, at, driver, threw>> /\ driver = Idle
  BY DEF ResetEpoch, model
<1>2. Gradients'
  BY <1>1, GradientsStay DEF Smooth, Readied
<1>3. Fed' /\ ~InPass'
  BY <1>1, FedStays, IdleIsOutside DEF Smooth, InPass
<1> QED
  BY <1>1, <1>2, <1>3, LeavesSmoothly DEF Smooth

\* A loader copies to its storages what has their shape and their size.
LEMMA CopySucceeds ==
  ASSUME Typed, WellFormed, Fed, NEW w \in Loaders, NEW s \in 1..Storages,
         NEW host, host = Float(net.input, "CPU", "NCHW")
  PROVE  copy_async(net.device, Plain(storage[w][s]), host) # Threw
<1> DEFINE memory == storage[w][s]
<1>1. memory \in Memory
  <2>1. storage \in [Loaders -> [1..Storages -> Memory]]
    BY DEF Typed
  <2> DEFINE numbers == 1..Storages
  <2>2. s \in numbers /\ storage \in [Loaders -> [numbers -> Memory]]
    BY <2>1
  <2> HIDE DEF numbers
  <2> QED
    BY <2>2
<1>2. memory.shape = net.input /\ memory.dtype = "Float32" /\ memory.device = net.device
  BY <1>1 DEF Fed, Memory
<1> HIDE DEF memory
<1> DEFINE dst == Plain(memory)
<1>3. /\ dst.shape = host.shape /\ dst.dtype = host.dtype
      /\ dst.device = net.device /\ host.device = "CPU"
  BY <1>2 DEF Plain, Float, Tensor
<1> HIDE DEF dst
<1>4. validate_copy(dst, host)
  BY <1>3, BytesAlike DEF validate_copy
<1>5. /\ net.device \in Backends /\ net.device \in {"CPU", "CUDA", "ROCM"}
      /\ On(net.device) = net.device /\ net.device # Threw
  BY WellFormedHas, BackendsAssumption DEF On, Threw
<1>6. copy(dst, host) # Threw
  BY <1>3, <1>4, <1>5 DEF copy, Threw
<1>7. copy_async(net.device, dst, host) # Threw
  BY <1>4, <1>5, <1>6 DEF copy_async
<1> QED
  BY <1>7 DEF dst, memory

LEMMA NextBatchSmoothly ==
  ASSUME IInv, WellFormed, Smooth, NEW s \in 1..Storages, NextBatch(s) PROVE Smooth'
<1> DEFINE host == Float(net.input, "CPU", "NCHW")
           w == Loader
<1>1. w \in Loaders /\ ~broken[w] /\ copy_async(net.device, Plain(storage[w][s]), host) # Threw
  BY OwnerIsOne, CopySucceeds DEF IInv, Smooth, Fed
<1>2. /\ storage' = [storage EXCEPT ![w][s].holds = <<"batch">>]
      /\ at' = <<"begin">> /\ UNCHANGED <<driver, threw, broken, net, layers, prepared>>
  BY <1>1 DEF NextBatch, model
<1> HIDE DEF host, w
<1>3. Gradients'
  BY <1>2, GradientsStay DEF Smooth, Readied
<1>4. Fed'
  <2>1. ASSUME NEW v \in Loaders, NEW n \in 1..Storages
        PROVE  /\ storage'[v][n].shape = storage[v][n].shape
               /\ storage'[v][n].layout = storage[v][n].layout
    <3>1. storage[v][n] \in Memory /\ storage \in [Loaders -> [1..Storages -> Memory]]
      <4> DEFINE numbers == 1..Storages
      <4>1. n \in numbers /\ storage \in [Loaders -> [numbers -> Memory]]
        BY DEF IInv, Typed
      <4> HIDE DEF numbers
      <4>2. storage[v][n] \in Memory
        BY <4>1
      <4> QED
        BY <4>1, <4>2 DEF numbers
    <3>2. storage'[v][n] = storage[v][n] \/ storage'[v][n] = [storage[v][n] EXCEPT !.holds = <<"batch">>]
      <4> DEFINE numbers == 1..Storages
      <4>1. /\ n \in numbers /\ s \in numbers /\ storage \in [Loaders -> [numbers -> Memory]]
        BY <3>1
      <4> HIDE DEF numbers
      <4> QED
        BY <1>1, <1>2, <4>1
    <3> QED
      BY <3>1, <3>2 DEF Memory
  <2> QED
    BY <1>2, <2>1 DEF Smooth, Fed
<1>5. ~InPass'
  BY <1>2 DEF InPass
<1> QED
  BY <1>2, <1>3, <1>4, <1>5, LeavesSmoothly DEF Smooth

LEMMA EndEpochSmoothly == ASSUME IInv, Smooth, EndEpoch PROVE Smooth'
<1>1. /\ UNCHANGED <<net, storage, broken, prepared>> /\ at = <<"next">> /\ driver \in Drivers
      /\ ~broken["validation"]
  BY NextIsOutside DEF EndEpoch, Smooth, Fed, Loaders
<1>2. /\ at' = <<"next">> \/ at' = <<"idle">>
      /\ layers' = layers \/ layers' = SetMode("Inference")
      /\ threw' \in Planned
      /\ \/ driver' = Idle
         \/ driver' = [driver EXCEPT !.phase = "validate", !.seen = FALSE] /\ driver.op = "fit"
         \/ driver' = [driver EXCEPT !.phase = "train", !.epoch = @ + 1, !.seen = FALSE] /\ driver.op = "fit"
  <2>1. CASE ~driver.seen /\ driver.op # "run"
    BY <2>1 DEF EndEpoch, Throw, Planned
  <2>2. CASE ~(~driver.seen /\ driver.op # "run")
             /\ driver.op = "fit" /\ driver.phase = "train" /\ driver.validation
    BY <1>1, <2>2 DEF EndEpoch, Smooth
  <2>3. CASE ~(~driver.seen /\ driver.op # "run")
             /\ ~(driver.op = "fit" /\ driver.phase = "train" /\ driver.validation)
    BY <1>1, <2>3 DEF EndEpoch, Smooth
  <2> QED
    BY <2>1, <2>2, <2>3
<1>3. driver'.op = "fit" => driver.op = "fit"
  BY <1>2 DEF Idle
<1>4. Gradients'
  BY <1>1, <1>2, <1>3, GradOfModes, GradientsStay DEF Smooth, Readied
<1>5. Fed' /\ ~InPass'
  BY <1>1, <1>2, FedStays DEF Smooth, InPass
<1> QED
  BY <1>2, <1>4, <1>5, LeavesSmoothly

\* The driver is through with a batch.
LEMMA BatchDoneSmoothly ==
  ASSUME IInv, InPass, Smooth, driver' = [driver EXCEPT !.seen = TRUE], at' = <<"next">>,
         UNCHANGED <<net, layers, storage, broken, prepared, threw>>
  PROVE  Smooth'
<1>1. driver \in Drivers /\ driver # Idle
  BY DEF IInv, Driving, InPass
<1>2. driver'.op = driver.op
  BY <1>1 DEF Drivers, Idle
<1>3. Gradients'
  BY <1>2, GradientsStay DEF Smooth, Readied
<1>4. Fed' /\ ~InPass'
  BY FedStays DEF Smooth, InPass
<1> QED
  BY <1>3, <1>4, LeavesSmoothly DEF Smooth

LEMMA StepSmoothly == ASSUME IInv, Smooth, Step \/ Deliver PROVE Smooth'
<1>1. InPass
  BY DEF Step, Deliver, InPass
<1> QED
  BY <1>1, BatchDoneSmoothly DEF Step, Deliver, model, loaders

\* Writing a tensor in place gives it the shape and the layout of another.
LEMMA WriteSets ==
  ASSUME IInv, InPass, UNCHANGED <<batch, driver>>, NEW t, NEW mark,
         NEW place \in Live \cup LossOnes, Write(place, t, mark)
  PROVE  /\ Pointed(place)'.shape = t.shape /\ Pointed(place)'.layout = t.layout
         /\ Pointed(place)'.holds = mark
<1>0. /\ pool \in Seq(PoolEntry) /\ lossPool \in [Owners -> Seq(PoolEntry)] /\ Owner \in Owners
      /\ storage \in [Loaders -> [1..Storages -> Memory]] /\ Owner' = Owner
      /\ batch[1] \in Loaders /\ batch[2] \in 1..Storages
  BY OwnerIsOne DEF IInv, Typed, BatchInUse, InPass, Owner
<1>1. \A memory \in Memory \cup PoolEntry :
        /\ Over(memory, t, mark).shape = t.shape /\ Over(memory, t, mark).layout = t.layout
        /\ Over(memory, t, mark).holds = mark
  BY DEF Over, Memory, PoolEntry
<1>2. CASE place = <<"batch">>
  <2> DEFINE w == batch[1]
             s == batch[2]
             numbers == 1..Storages
             m == Over(storage[w][s], t, mark)
  <2>1. storage' = [storage EXCEPT ![w][s] = m] /\ Pointed(place)' = storage'[w][s]
    BY <1>2 DEF Write, Pointed, Inputs
  <2>2. storage \in [Loaders -> [numbers -> Memory]] /\ w \in Loaders /\ s \in numbers
    BY <1>0
  <2>3. storage[w][s] \in Memory
    <3> HIDE DEF w, s, numbers
    <3> QED
      BY <2>2
  <2>4. m.shape = t.shape /\ m.layout = t.layout /\ m.holds = mark
    BY <1>1, <2>3
  <2> HIDE DEF w, s, numbers, m
  <2> QED
    BY <2>1, <2>2, <2>4
<1>3. ASSUME NEW p \in Active(pool), place = <<"pool", p>>
      PROVE  /\ Pointed(place)'.shape = t.shape /\ Pointed(place)'.layout = t.layout
             /\ Pointed(place)'.holds = mark
  <2> DEFINE m == Over(pool[p], t, mark)
  <2>1. pool' = [pool EXCEPT ![p] = m] /\ Pointed(place)' = pool'[p]
    BY <1>3 DEF Write, Pointed
  <2>2. p \in DOMAIN pool /\ pool[p] \in PoolEntry
    BY <1>0 DEF Active
  <2>3. m.shape = t.shape /\ m.layout = t.layout /\ m.holds = mark
    BY <1>1, <2>2
  <2> HIDE DEF m
  <2> QED
    BY <2>1, <2>2, <2>3
<1>4. ASSUME NEW p \in DOMAIN lossPool[Owner], place = <<"loss", p>>
      PROVE  /\ Pointed(place)'.shape = t.shape /\ Pointed(place)'.layout = t.layout
             /\ Pointed(place)'.holds = mark
  <2> DEFINE w == Owner
             m == Over(lossPool[w][p], t, mark)
  <2>1. lossPool' = [lossPool EXCEPT ![w][p] = m] /\ Pointed(place)' = lossPool'[w][p]
    BY <1>0, <1>4 DEF Write, Pointed
  <2>2. w \in Owners /\ p \in DOMAIN lossPool[w] /\ lossPool[w][p] \in PoolEntry
    BY <1>0
  <2>3. m.shape = t.shape /\ m.layout = t.layout /\ m.holds = mark
    BY <1>1, <2>2
  <2> HIDE DEF m, w
  <2> QED
    BY <1>0, <2>1, <2>2, <2>3
<1> QED
  BY <1>2, <1>3, <1>4 DEF Live, LossOnes

\* The storage of the batch keeps its shape when what is written has it.
LEMMA WriteFeeds ==
  ASSUME IInv, InPass, Fed, UNCHANGED <<net, broken, batch, driver>>, NEW t, NEW mark,
         NEW place \in Live \cup LossOnes, Write(place, t, mark),
         place = <<"batch">> => t.shape = net.input /\ t.layout = "NCHW"
  PROVE  Fed'
<1>1. CASE place = <<"batch">>
  <2> DEFINE w == batch[1]
             s == batch[2]
             numbers == 1..Storages
             m == Over(storage[w][s], t, mark)
  <2>1. storage' = [storage EXCEPT ![w][s] = m] /\ Pointed(place)' = storage'[w][s]
    BY <1>1 DEF Write, Pointed, Inputs
  <2>2. storage \in [Loaders -> [numbers -> Memory]] /\ w \in Loaders /\ s \in numbers
    BY DEF IInv, Typed, BatchInUse, InPass
  <2>3. storage'[w][s].shape = net.input /\ storage'[w][s].layout = "NCHW"
    BY <1>1, <2>1, WriteSets
  <2>4. \A v \in Loaders : \A n \in numbers :
          storage[v][n].shape = net.input /\ storage[v][n].layout = "NCHW"
    BY DEF Fed
  <2> HIDE DEF m
  <2>5. \A v \in Loaders : \A n \in numbers :
          storage'[v][n].shape = net.input /\ storage'[v][n].layout = "NCHW"
    <3> HIDE DEF w, s, numbers
    <3> QED
      BY <2>1, <2>2, <2>3, <2>4
  <2> QED
    BY <2>5 DEF Fed
<1>2. CASE place # <<"batch">>
  <2>1. place[1] # "batch"
    BY <1>2 DEF Live, LossOnes
  <2>2. storage' = storage
    BY <2>1 DEF Write
  <2> QED
    BY <2>2, FedStays
<1> QED
  BY <1>1, <1>2

\* What the layers have kept stays as it was, as long as a tensor in use changes its shape
\* only when no activation has kept it.
LEMMA SmoothGoesOn ==
  ASSUME IInv, Smooth, InPass, InPass', UNCHANGED <<net, batch, driver, broken, prepared, threw>>, Fed',
         \A j \in 1..Depth : /\ layers'[j].mode = layers[j].mode
                             /\ layers[j].grad # Never => layers'[j].grad # Never,
         at'[1] \in {"loss gradient", "backward", "step"} => Training,
         \A j \in 1..Passed' :
           \/ KeptWhole(j)'
           \/ /\ j \in 1..Passed /\ layers'[j].saved = layers[j].saved
              /\ layers'[j].indices = layers[j].indices /\ layers'[j].indexed = layers[j].indexed,
         NEW next, next = current \/ next \notin Live,
         \A q \in Live : /\ q \in Live' /\ (q # next => Pointed(q)' = Pointed(q))
                         /\ Pointed(q)'.shape = Pointed(q).shape \/ Apart(q),
         MayFlatten', Flowing'
  PROVE  Smooth'
<1>1. /\ Depth' = Depth /\ (\A i : Kind(i)' = Kind(i)) /\ (\A k : Shape(k)' = Shape(k))
      /\ Training' = Training
  BY NetKept DEF Training, Owner
<1>2. Gradients'
  BY GradientsStay DEF Smooth, Readied
<1>3. Readied'
  BY <1>1, <1>2 DEF Smooth, Readied
<1>4. ASSUME NEW j \in 1..Passed', j \in 1..Passed, layers'[j].saved = layers[j].saved,
             layers'[j].indices = layers[j].indices, layers'[j].indexed = layers[j].indexed
      PROVE  KeptWhole(j)'
  <2>1. KeptWhole(j) /\ Kept(j)
    BY <1>4 DEF Smooth, Whole, IInv, InputsKept
  <2>2. PICK q : q = layers[j].saved /\ q = layers'[j].saved
    BY <1>4
  <2>3. Pointed(layers[j].saved)' = Pointed(q)'
    BY <2>2 DEF Pointed
  <2>4. ASSUME Kind(j) = "conv" PROVE Pointed(q)'.layout = "NCHW"
    <3>1. q \in Live /\ q # current
      BY <2>1, <2>2, <2>4 DEF Kept, Parametric
    <3>2. q # next
      BY <3>1
    <3>3. Pointed(q)' = Pointed(q)
      BY <3>1, <3>2
    <3>4. Pointed(q).layout = "NCHW"
      BY <2>1, <2>2, <2>4 DEF KeptWhole
    <3> QED
      BY <3>3, <3>4
  <2>5. ASSUME Kind(j) = "activation" PROVE q \in Live' /\ Pointed(q)'.shape = Shape(j)
    <3>1. q \in Live /\ Pointed(q).shape = Shape(j)
      BY <2>1, <2>2, <2>5 DEF KeptWhole
    <3>2. ~Apart(q)
      BY <1>4, <2>2, <2>5 DEF Apart
    <3> QED
      BY <3>1, <3>2
  <2> QED
    BY <1>1, <1>4, <2>1, <2>2, <2>3, <2>4, <2>5 DEF KeptWhole
<1>5. Whole'
  BY <1>4 DEF Whole
<1> QED
  BY <1>3, <1>5 DEF Smooth

LEMMA BeginPassSmoothly == ASSUME IInv, Smooth, BeginPass PROVE Smooth'
<1>0. /\ UNCHANGED <<net, storage, broken, prepared>> /\ at = <<"begin">>
      /\ batch[1] \in Loaders /\ batch[2] \in 1..Storages
  BY DEF BeginPass, loaders, IInv, BatchInUse
<1>1. /\ Inputs.shape = net.input /\ Inputs.layout = "NCHW"
      /\ Inputs.dtype = "Float32" /\ Inputs.device = net.device
  <2> DEFINE w == batch[1]
             s == batch[2]
             numbers == 1..Storages
  <2>1. storage \in [Loaders -> [numbers -> Memory]] /\ w \in Loaders /\ s \in numbers
    BY <1>0 DEF IInv, Typed
  <2>2. storage[w][s].shape = net.input /\ storage[w][s].layout = "NCHW"
    BY <2>1 DEF Smooth, Fed
  <2>3. Inputs = storage[w][s]
    BY DEF Inputs
  <2> HIDE DEF w, s, numbers
  <2>4. storage[w][s] \in Memory
    BY <2>1
  <2> QED
    BY <2>2, <2>3, <2>4 DEF Memory
<1>2. Accepts(Inputs)
  BY <1>1 DEF Accepts
<1>3. at' = <<"forward", 1>> /\ current' = <<"batch">> /\ UNCHANGED <<driver, batch, threw>>
  BY <1>2 DEF BeginPass, Go
<1>4. \A i \in 1..Depth : /\ layers'[i].mode = (IF Training THEN "Training" ELSE layers[i].mode)
                          /\ layers[i].grad # Never => layers'[i].grad # Never
  <2> SUFFICES ASSUME NEW i \in 1..Depth
               PROVE  /\ layers'[i].mode = (IF Training THEN "Training" ELSE layers[i].mode)
                      /\ layers[i].grad # Never => layers'[i].grad # Never
    OBVIOUS
  <2> DEFINE mode == IF Owner = "Training" THEN "Training" ELSE layers[i].mode
             read == Forget(layers[i].read)
             indices == Forget(layers[i].indices)
             grad == Forget(layers[i].grad)
  <2>1. layers[i] \in LayerState(i)
    BY DEF IInv, LayersTyped
  <2>2. layers'[i] = [layers[i] EXCEPT !.mode = mode, !.read = read, !.indices = indices, !.grad = grad]
    BY DEF BeginPass
  <2> HIDE DEF mode, read, indices, grad
  <2>3. layers'[i].mode = mode /\ layers'[i].grad = grad
    BY <2>1, <2>2 DEF LayerState
  <2>4. layers[i].grad # Never => grad # Never
    BY DEF grad, Forget, Stale, Never
  <2> QED
    BY <2>3, <2>4 DEF mode, Training
<1>5. Gradients'
  BY <1>0, <1>3, <1>4, GradientsStay DEF Smooth, Readied
<1>6. /\ at'[1] = "forward" /\ Passed' = 0 /\ InPass' /\ Training' = Training /\ Depth' = Depth
      /\ Shape(0)' = net.input
  <2>1. Depth' = Depth /\ Shape(0)' = Shape(0) /\ Shape(0) = net.input
    BY <1>0, NetKept, ShapeStep DEF IInv
  <2> QED
    BY <1>3, <2>1 DEF Passed, InPass, Training, Owner
<1>7. Readied'
  BY <1>4, <1>5, <1>6 DEF Readied
<1>8. Whole' /\ MayFlatten'
  BY <1>6 DEF Whole, MayFlatten
<1>9. Flowing'
  <2>1. Pointed(current)' = Inputs
    BY <1>0, <1>3 DEF Pointed, Inputs
  <2> QED
    BY <1>1, <1>6, <2>1 DEF Flowing
<1> QED
  BY <1>0, <1>3, <1>7, <1>8, <1>9, FedStays DEF Smooth

LEMMA MarksAreSome == \A mark \in Marks : mark # Never
  BY DEF Marks, Never, Stale, Garbage

\* A forward call changes neither the mode of a layer nor its gradients; a pooling layer
\* that trains keeps the indices of the input it has seen.
LEMMA ModeRemembered ==
  ASSUME Typed, LayersTyped, NEW i \in 1..Depth, NEW input, Given(input, i - 1),
         NEW l, l = Prepare(net.layers[i], layers[i], input),
         NEW hit \in BOOLEAN, NEW where, NEW mark \in Marks,
         NEW r, r = Remember(net.layers[i], l, hit, input, where, mark)
  PROVE  /\ r.mode = layers[i].mode /\ r.grad = layers[i].grad /\ r.read = mark
         /\ Kind(i) \in Parametric \cup {"activation"} => r.saved = where
         /\ Kind(i) = "maxpool" /\ r.mode = "Training" => /\ r.indices = mark /\ r.indices # Never
                                                         /\ r.indexed = Shape(i - 1)
<1>1. /\ l \in LayerState(i) /\ layers[i] \in LayerState(i) /\ Kind(i) \in Kinds
      /\ Kind(i) # "activation" => l.key.shape = Shape(i - 1)
  <2>1. l \in LayerState(i) /\ (Kind(i) # "activation" => l.key = Capture(input))
    BY Prepared
  <2>2. Capture(input).shape = Shape(i - 1)
    BY CaptureOfGiven
  <2>3. layers[i] \in LayerState(i)
    BY DEF LayersTyped
  <2>4. Kind(i) \in Kinds
    BY ShapeStep
  <2> QED
    BY <2>1, <2>2, <2>3, <2>4
<1>2. l.mode = layers[i].mode /\ l.grad = layers[i].grad
  BY <1>1 DEF Prepare, LayerState
<1> DEFINE seen == [l EXCEPT !.fast = hit, !.saved = where, !.read = mark]
<1>3. seen \in [mode : Modes, key : {NoKey} \cup KeyOf(i), out : {Never, Shape(i)}, fast : BOOLEAN,
                saved : {where}, shape : {Never, Shape(i - 1)},
                cachedMode : Modes, indices : {Never} \cup Marks, indexed : {Never, Shape(i - 1)},
                grad : {Never} \cup Marks, read : {Never} \cup Marks]
      /\ seen.mode = l.mode /\ seen.grad = l.grad /\ seen.read = mark
  BY <1>1 DEF LayerState
<1>4. CASE Kind(i) \in Parametric
  <2>1. r = seen /\ Kind(i) # "maxpool"
    BY <1>4 DEF Remember, Kind, Parametric
  <2> HIDE DEF seen
  <2> QED
    BY <1>2, <1>3, <2>1
<1>5. CASE Kind(i) = "activation"
  <2>1. r = [seen EXCEPT !.key = Capture(input)]
    BY <1>5 DEF Remember, Kind, Parametric
  <2> HIDE DEF seen
  <2>2. r.mode = seen.mode /\ r.grad = seen.grad /\ r.saved = seen.saved /\ r.read = seen.read
    BY <1>3, <2>1
  <2> QED
    BY <1>2, <1>3, <1>5, <2>2
<1>6. CASE Kind(i) = "flatten"
  <2>1. r = [l EXCEPT !.shape = l.key.shape, !.read = mark]
    BY <1>6 DEF Remember, Kind, Parametric
  <2>2. r.mode = l.mode /\ r.grad = l.grad /\ r.read = mark
    BY <1>1, <2>1 DEF LayerState
  <2> QED
    BY <1>2, <1>6, <2>2 DEF Parametric
<1>7. CASE Kind(i) = "maxpool"
  <2> DEFINE indices == IF l.mode = "Training" THEN mark ELSE l.indices
             indexed == IF l.mode = "Training" THEN l.key.shape ELSE l.indexed
  <2>1. r = [l EXCEPT !.fast = hit, !.cachedMode = l.mode, !.shape = l.key.shape, !.read = mark,
                      !.indices = indices, !.indexed = indexed]
    BY <1>7 DEF Remember, Kind, Parametric
  <2> HIDE DEF indices, indexed
  <2>2. r.mode = l.mode /\ r.grad = l.grad /\ r.read = mark /\ r.indices = indices /\ r.indexed = indexed
    BY <1>1, <2>1 DEF LayerState
  <2>3. l.mode = "Training" => indices = mark /\ indexed = Shape(i - 1)
    BY <1>1, <1>7 DEF indices, indexed
  <2> QED
    BY <1>2, <1>7, <2>2, <2>3, MarksAreSome DEF Parametric
<1> QED
  BY <1>1, <1>4, <1>5, <1>6, <1>7 DEF Kinds, Parametric

\* A layer is through with its forward call.
LEMMA ForwardSmoothly ==
  ASSUME IInv, WellFormed, Smooth, NEW i \in 1..Depth, at = <<"forward", i>>, NEW next,
         Go(<<"forward", i + 1>>, next), UNCHANGED <<net, broken, prepared>>, Fed',
         NEW r, layers' = [layers EXCEPT ![i] = r], r.mode = layers[i].mode, r.grad = layers[i].grad,
         Kind(i) \in {"conv", "activation"} => r.saved = current,
         Kind(i) = "conv" => next # current,
         Kind(i) = "maxpool" /\ r.mode = "Training" => r.indices # Never /\ r.indexed = Shape(i - 1),
         IF Kind(i) \in InPlace THEN next = current ELSE next \notin Live,
         next \in Live', Pointed(next)'.shape = Shape(i),
         Len(Shape(i)) = 4 => Pointed(next)'.layout = "NCHW",
         \A q \in Live : q \in Live' /\ (q # next => Pointed(q)' = Pointed(q))
  PROVE  Smooth'
<1>0. /\ InPass /\ current \in Live /\ Pointed(current).shape = Shape(i - 1)
      /\ Depth \in Nat /\ i \in Nat \ {0} /\ Passed = i - 1 /\ at[1] = "forward"
      /\ at' = <<"forward", i + 1>> /\ current' = next /\ UNCHANGED <<driver, batch, threw>>
      /\ DOMAIN layers = 1..Depth
  BY ForwardInput, ShapeStep DEF Go, Passed, IInv, LayersTyped
<1>1. /\ InPass' /\ at'[1] = "forward" /\ Passed' = i
      /\ Depth' = Depth /\ (\A k : Kind(k)' = Kind(k)) /\ (\A k : Shape(k)' = Shape(k))
      /\ Training' = Training
  <2>1. (i + 1) - 1 = i
    BY <1>0
  <2> QED
    BY <1>0, <2>1, NetKept DEF InPass, Passed, Training, Owner
<1>2. layers'[i] = r /\ \A j \in 1..Depth : j # i => layers'[j] = layers[j]
  BY <1>0
<1>3. PICK from : from = current
  OBVIOUS
<1>4. KeptWhole(i)'
  <2>1. ASSUME Kind(i) = "conv" PROVE Pointed(from)'.layout = "NCHW" /\ layers'[i].saved = from
    <3>1. from \in Live /\ from # next /\ layers'[i].saved = from
      BY <1>0, <1>2, <1>3, <2>1
    <3>2. Len(Shape(i - 1)) = 4
      BY <2>1, RanksOfLayer DEF IInv
    <3>3. Pointed(from).layout = "NCHW"
      BY <1>0, <1>3, <3>2 DEF Smooth, Flowing
    <3> QED
      BY <3>1, <3>3
  <2>2. ASSUME Kind(i) = "activation"
        PROVE  layers'[i].saved = next /\ next \in Live' /\ Pointed(next)'.shape = Shape(i)
    BY <1>2, <2>2 DEF InPlace
  <2>3. ASSUME Kind(i) = "maxpool", Training
        PROVE  layers'[i].indices # Never /\ layers'[i].indexed = Shape(i - 1)
    <3>1. r.mode = "Training"
      BY <1>0, <2>3 DEF Smooth, Readied
    <3> QED
      BY <1>2, <2>3, <3>1
  <2> QED
    BY <1>1, <2>1, <2>2, <2>3 DEF KeptWhole, Pointed, Inputs
<1>5. \A j \in 1..Passed' : j = i \/ (j \in 1..Passed /\ j \in 1..Depth /\ j # i)
  BY <1>0, <1>1
<1>6. \A j \in 1..Passed' :
        \/ KeptWhole(j)'
        \/ /\ j \in 1..Passed /\ layers'[j].saved = layers[j].saved
           /\ layers'[j].indices = layers[j].indices /\ layers'[j].indexed = layers[j].indexed
  <2> SUFFICES ASSUME NEW j \in 1..Passed'
               PROVE \/ KeptWhole(j)'
                     \/ /\ j \in 1..Passed /\ layers'[j].saved = layers[j].saved
                        /\ layers'[j].indices = layers[j].indices /\ layers'[j].indexed = layers[j].indexed
    OBVIOUS
  <2>1. CASE j = i
    BY <1>4, <2>1
  <2>2. CASE j # i
    BY <1>2, <1>5, <2>2
  <2> QED
    BY <2>1, <2>2
<1>7. Kind(i) = "flatten" => Apart(from)
  <2>1. Kind(i) = "flatten" => i - 1 > 0 /\ Kind(i - 1) \in {"maxpool", "flatten"}
    BY <1>0, RanksOfLayer DEF IInv
  <2>2. Kind(i) = "flatten" => Apart(current)
    BY <1>0, <2>1 DEF Smooth, MayFlatten
  <2> QED
    BY <1>3, <2>2
<1>8. \A q \in Live : /\ q \in Live' /\ (q # next => Pointed(q)' = Pointed(q))
                      /\ Pointed(q)'.shape = Pointed(q).shape \/ Apart(q)
  <2> SUFFICES ASSUME NEW q \in Live, q = next PROVE Pointed(q)'.shape = Pointed(q).shape \/ Apart(q)
    OBVIOUS
  <2>1. Kind(i) \in InPlace /\ next = from
    BY <1>3
  <2>2. CASE Kind(i) = "activation"
    <3>1. Shape(i) = Shape(i - 1)
      BY <2>2, RanksOfLayer DEF IInv
    <3>2. Pointed(from).shape = Shape(i - 1)
      BY <1>0, <1>3
    <3> QED
      BY <2>1, <3>1, <3>2
  <2>3. CASE Kind(i) = "flatten"
    BY <1>7, <2>1, <2>3
  <2> QED
    BY <2>1, <2>2, <2>3 DEF InPlace
<1>9. MayFlatten'
  <2> SUFFICES ASSUME Kind(i) \in {"maxpool", "flatten"} PROVE Apart(next)'
    BY <1>0, <1>1 DEF MayFlatten, Apart
  <2>1. \A j \in 1..Passed : Kind(j) = "activation" => layers[j].saved \in Live
    BY <1>0 DEF Smooth, Whole, KeptWhole
  <2>2. next # <<"batch">> /\ \A j \in 1..Passed : Kind(j) = "activation" => layers[j].saved # next
    <3>1. CASE Kind(i) = "maxpool"
      <4>1. next \notin Live /\ <<"batch">> \in Live
        BY <3>1 DEF InPlace, Live
      <4> QED
        BY <2>1, <4>1
    <3>2. CASE Kind(i) = "flatten"
      <4>1. next = from
        BY <1>3, <3>2 DEF InPlace
      <4> QED
        BY <1>7, <3>2, <4>1 DEF Apart
    <3> QED
      BY <3>1, <3>2
  <2>3. \A j \in 1..Passed' : Kind(j) = "activation" => layers'[j].saved # next
    BY <1>2, <1>5, <2>2
  <2> QED
    BY <1>1, <2>2, <2>3 DEF Apart
<1>10. Flowing'
  <2>1. Pointed(current)' = Pointed(next)'
    BY <1>0 DEF Pointed, Inputs
  <2>2. Shape(Passed)' = Shape(i)
    BY <1>1 DEF Shape
  <2> QED
    BY <1>1, <2>1, <2>2 DEF Flowing
<1>11. next = current \/ next \notin Live
  OBVIOUS
<1>12. \A j \in 1..Depth : /\ layers'[j].mode = layers[j].mode
                           /\ layers[j].grad # Never => layers'[j].grad # Never
  <2> SUFFICES ASSUME NEW j \in 1..Depth PROVE layers'[j].mode = layers[j].mode /\ layers'[j].grad = layers[j].grad
    OBVIOUS
  <2> QED
    BY <1>2
<1> QED
  BY <1>0, <1>1, <1>6, <1>8, <1>9, <1>10, <1>11, <1>12, SmoothGoesOn

\* A layer is through with its backward call.
LEMMA BackwardSmoothly ==
  ASSUME IInv, WellFormed, Smooth, NEW i \in 1..Depth, at = <<"backward", i>>, NEW next, Go(Down(i), next),
         UNCHANGED <<net, broken, prepared>>, Fed',
         \A j \in 1..Depth :
           /\ layers'[j].mode = layers[j].mode /\ layers'[j].saved = layers[j].saved
           /\ layers'[j].indices = layers[j].indices /\ layers'[j].indexed = layers[j].indexed
           /\ layers[j].grad # Never => layers'[j].grad # Never,
         next = current \/ next \notin Live,
         Pointed(next)'.shape = Shape(i - 1), Images(i - 1) => Pointed(next)'.layout = "NCHW",
         \A q \in Live : q \in Live' /\ (q # next => Pointed(q)' = Pointed(q))
  PROVE  Smooth'
<1>0. /\ InPass /\ Depth \in Nat /\ i \in Nat \ {0} /\ Passed = Depth /\ at[1] = "backward"
      /\ at' = Down(i) /\ current' = next /\ UNCHANGED <<driver, batch, threw>>
  BY BackwardInput DEF Go
<1>1. /\ at'[1] \in {"backward", "step"} /\ (at'[1] = "backward" => at'[2] = i - 1)
      /\ InPass' /\ Passed' = Depth
      /\ Depth' = Depth /\ (\A k : Kind(k)' = Kind(k)) /\ (\A k : Shape(k)' = Shape(k))
      /\ Training
  <2>1. at'[1] \in {"backward", "step"} /\ (at'[1] = "backward" => at'[2] = i - 1)
    BY <1>0, DownIsAPlace
  <2>2. Training
    BY <1>0 DEF Smooth, Readied
  <2> QED
    BY <1>0, <2>1, <2>2, NetKept DEF InPass, Passed
<1>2. Apart(current)
  BY <1>0 DEF Smooth, MayFlatten
<1>3. PICK from : from = current
  OBVIOUS
<1>4. Apart(from)
  BY <1>2, <1>3
<1>5. \A q \in Live : /\ q \in Live' /\ (q # next => Pointed(q)' = Pointed(q))
                      /\ Pointed(q)'.shape = Pointed(q).shape \/ Apart(q)
  BY <1>3, <1>4
<1>6. MayFlatten'
  <2>1. \A j \in 1..Depth : Kind(j) = "activation" => layers[j].saved \in Live
    BY <1>0 DEF Smooth, Whole, KeptWhole
  <2>2. next # <<"batch">> /\ \A j \in 1..Depth : Kind(j) = "activation" => layers[j].saved # next
    <3>1. CASE next = current
      BY <1>0, <1>3, <1>4, <3>1 DEF Apart
    <3>2. CASE next \notin Live
      <4>1. <<"batch">> \in Live
        BY DEF Live
      <4> QED
        BY <2>1, <3>2, <4>1
    <3> QED
      BY <3>1, <3>2
  <2>3. \A j \in 1..Depth : Kind(j) = "activation" => layers'[j].saved # next
    BY <2>2
  <2> QED
    BY <1>0, <1>1, <2>2, <2>3 DEF MayFlatten, Apart
<1>7. Flowing'
  <2>1. Pointed(current)' = Pointed(next)'
    BY <1>0 DEF Pointed, Inputs
  <2>2. \A k : Images(k)' = Images(k)
    BY <1>1 DEF Images
  <2>3. ASSUME at'[1] = "backward"
        PROVE  /\ Shape(at[2])' = Shape(i - 1)
               /\ Images(at[2])' => Images(i - 1)
    <3>1. PICK k : k = i - 1
      OBVIOUS
    <3>2. at'[2] = k
      BY <1>1, <2>3, <3>1
    <3>3. Shape(at[2])' = Shape(k)' /\ Images(at[2])' = Images(k)'
      BY <3>2 DEF Shape, Images, Kind
    <3> QED
      BY <1>1, <2>2, <3>1, <3>3
  <2> QED
    BY <1>1, <2>1, <2>3 DEF Flowing
<1>8. \A j \in 1..Passed' : /\ j \in 1..Passed /\ layers'[j].saved = layers[j].saved
                            /\ layers'[j].indices = layers[j].indices /\ layers'[j].indexed = layers[j].indexed
  BY <1>0, <1>1
<1> QED
  BY <1>0, <1>1, <1>5, <1>6, <1>7, <1>8, SmoothGoesOn

LEMMA FlattenReshapes ==
  ASSUME Typed, WellFormed, NEW i \in 1..Depth, Kind(i) = "flatten"
  PROVE  Numel(Shape(i)) = Numel(Shape(i - 1))
<1>1. /\ i - 1 \in 0..Depth /\ Supported(i, net.layers[i], Shape(i - 1))
      /\ Shape(i) = OutputShape(net.layers[i], Shape(i - 1))
  BY WellFormedHas, RanksOfLayer
<1>2. Shape(i) = FlattenOutputShape(Shape(i - 1)) /\ Numel(Shape(i - 1)) % Shape(i - 1)[1] = 0
  BY <1>1 DEF Supported, OutputShape, Kind
<1>3. Shape(i - 1) \in Batches /\ Numel(Shape(i - 1)) \in Nat /\ Numel(Shape(i - 1)) * 4 < SizeMod
  BY <1>1, WellFormedHas
<1>4. Numel(Shape(i - 1)) < SizeMod
  BY <1>3
<1> QED
  BY <1>2, <1>3, <1>4, FlattenKeepsNumel

LEMMA InputsFed ==
  ASSUME IInv, InPass, Fed
  PROVE  Pointed(<<"batch">>).shape = net.input /\ Pointed(<<"batch">>).layout = "NCHW"
<1>1. batch[1] \in Loaders /\ batch[2] \in 1..Storages
  BY DEF IInv, BatchInUse, InPass
<1> QED
  BY <1>1 DEF Fed, Pointed, Inputs

\* A tensor in use gets another shape, or another layout, unless it is a loader's.
LEMMA WritesInPlace ==
  ASSUME IInv, InPass, Fed, UNCHANGED <<net, broken, batch, driver>>,
         NEW t, t.shape \in Shapes, t.layout \in Layouts, NEW mark \in Marks,
         NEW place \in Live \cup LossOnes, Numel(t.shape) = Numel(Pointed(place).shape),
         Write(place, t, mark),
         place = <<"batch">> => t.shape = Pointed(place).shape /\ t.layout = Pointed(place).layout
  PROVE  /\ Fed' /\ Pointed(place)'.shape = t.shape /\ Pointed(place)'.layout = t.layout
         /\ \A q \in Live : q \in Live' /\ (q # place => Pointed(q)' = Pointed(q))
<1>1. WriteLeaves(place)
  BY WriteKeeps DEF IInv
<1>2. place = <<"batch">> => t.shape = net.input /\ t.layout = "NCHW"
  BY InputsFed
<1> QED
  BY <1>1, <1>2, WriteSets, WriteFeeds, WriteStays

\* Its operation accepts what the layers before have made.
LEMMA ForwardRuns ==
  ASSUME IInv, WellFormed, Smooth, NEW i \in 1..Depth, at = <<"forward", i>>, Kind(i) # "flatten",
         NEW input, input = Plain(Pointed(current)),
         NEW l, l = Prepare(net.layers[i], layers[i], input), NEW result, result = Result(net, i, l, input)
  PROVE  /\ Entry(ForwardCall(net, i, l, input, result)) # Threw
         /\ Given(input, i - 1) /\ Kind(i) \in Kinds
         /\ Kind(i) # "activation" => result.shape = Shape(i)
<1>0. Typed /\ Given(input, i - 1) /\ Kind(i) \in Kinds
  BY ForwardInput, WellFormedHas DEF IInv
<1>1. Kind(i) # "activation" => l.out = Shape(i)
  BY <1>0, Prepared DEF IInv
<1>2. CASE Kind(i) = "conv"
  <2>1. result = Float(Shape(i), net.device, "NCHW")
    BY <1>1, <1>2 DEF Result, Kind
  <2> QED
    BY <1>0, <1>2, <2>1, ConvRuns DEF Float, Tensor
<1>3. CASE Kind(i) = "linear"
  <2>1. result = Float(Shape(i), net.device, "Unknown")
    BY <1>1, <1>3 DEF Result, Kind
  <2> QED
    BY <1>0, <1>3, <2>1, LinearRuns DEF Float, Tensor
<1>4. CASE Kind(i) = "maxpool"
  <2>1. result = Float(Shape(i), net.device, "NCHW")
    BY <1>1, <1>4 DEF Result, Kind
  <2>2. Len(Shape(i - 1)) = 4 /\ Passed = i - 1 /\ at[1] = "forward"
    BY <1>0, <1>4, RanksOfLayer DEF Passed
  <2>3. input.layout = "NCHW"
    BY <2>2 DEF Smooth, Flowing, Plain, Tensor
  <2> QED
    BY <1>0, <1>4, <2>1, <2>3, PoolRuns DEF Float, Tensor
<1>5. CASE Kind(i) = "activation"
  BY <1>0, <1>5, ActivationRuns
<1> QED
  BY <1>0, <1>2, <1>3, <1>4, <1>5 DEF Kinds

LEMMA ForwardToPoolSmoothly ==
  ASSUME IInv, WellFormed, Smooth, NEW i \in 1..Depth, at = <<"forward", i>>,
         Kind(i) \in Parametric \cup {"maxpool"},
         NEW input, input = Plain(Pointed(current)),
         NEW hit \in BOOLEAN, NEW l, l = Prepare(net.layers[i], layers[i], input),
         ForwardToPool(i, net.layers[i], l, input, hit), UNCHANGED <<net, prepared, broken>>
  PROVE  Smooth'
<1> DEFINE t == Result(net, i, l, input)
           c == ForwardCall(net, i, l, input, t)
           to == Requested(pool, t)
           mark == IF Kind(i) = "maxpool" THEN <<"forward", i>> ELSE Pointed(current).holds
           r == Remember(net.layers[i], l, hit, input, current, mark)
<1>0. /\ InPass /\ current \in Live /\ Pointed(current).shape = Shape(i - 1) /\ Given(input, i - 1)
      /\ mark \in Marks /\ <<"forward", i>> \in Marks
      /\ <<"forward", i>> \in Slots /\ <<"forward", i>> \notin Served
      /\ Kind(i) # "activation" /\ Kind(i) \notin InPlace
      /\ UNCHANGED <<storage, lossPool>> /\ pool \in Seq(PoolEntry)
  BY ForwardInput DEF InPlace, Parametric, ForwardToPool, IInv, Typed
<1>1. l.out = Shape(i)
  BY <1>0, Prepared DEF IInv
<1>2. /\ Askable(t) /\ t.shape = Shape(i) /\ Need[<<"forward", i>>] = Bytes(t)
      /\ Kind(i) \in {"conv", "maxpool"} => t = Float(Shape(i), net.device, "NCHW")
      /\ Kind(i) = "linear" => t = Float(Shape(i), net.device, "Unknown")
  <2>1. Kind(i) \in {"conv", "maxpool"} => t = Float(Shape(i), net.device, "NCHW")
    BY <1>1 DEF Result, Kind
  <2>2. Kind(i) = "linear" => t = Float(Shape(i), net.device, "Unknown")
    BY <1>1 DEF Result, Kind
  <2>3. PICK u : u = Result(net, i, l, input)
    OBVIOUS
  <2> HIDE DEF t
  <2>4. t = u
    BY <2>3 DEF t
  <2>5. Askable(u) /\ u.shape = Shape(i) /\ Need[<<"forward", i>>] = Bytes(u)
    BY <1>1, <2>3, ResultFits DEF IInv
  <2> QED
    BY <2>1, <2>2, <2>4, <2>5
<1>3. MayRequest(pool, t)
  <2> HIDE DEF t
  <2> QED
    BY <1>0, <1>2, RequestsGranted DEF IInv
<1>5. Entry(c) # Threw
  <2> HIDE DEF t, c
  <2>1. t = Result(net, i, l, input) /\ c = ForwardCall(net, i, l, input, t)
    BY DEF t, c
  <2>2. Kind(i) # "flatten"
    BY DEF Parametric
  <2> QED
    BY <2>1, <2>2, ForwardRuns
<1>6. /\ pool' = Request(pool, t, <<"forward", i>>)
      /\ layers' = [layers EXCEPT ![i] = r] /\ Go(<<"forward", i + 1>>, <<"pool", to>>)
  BY <1>3, <1>5 DEF ForwardToPool, Kind
<1> HIDE DEF c
<1>7. /\ to \in Active(pool') /\ to \notin Active(pool)
      /\ pool'[to].shape = t.shape /\ pool'[to].layout = t.layout
      /\ \A p \in Active(pool) : p \in Active(pool') /\ pool'[p] = pool[p]
  <2> HIDE DEF t
  <2> QED
    BY <1>0, <1>2, <1>6, RequestFits
<1>8. /\ r.mode = layers[i].mode /\ r.grad = layers[i].grad
      /\ Kind(i) \in Parametric \cup {"activation"} => r.saved = current
      /\ Kind(i) = "maxpool" /\ r.mode = "Training" => r.indices # Never /\ r.indexed = Shape(i - 1)
  <2>1. PICK m \in Marks : m = mark
    BY <1>0
  <2>2. PICK s : s = Remember(net.layers[i], l, hit, input, current, m)
    OBVIOUS
  <2>3. s = r
    BY <2>1, <2>2
  <2> HIDE DEF r, mark, t
  <2>0. Typed /\ LayersTyped /\ Given(input, i - 1)
    BY <1>0 DEF IInv
  <2>4. /\ s.mode = layers[i].mode /\ s.grad = layers[i].grad
        /\ Kind(i) \in Parametric \cup {"activation"} => s.saved = current
        /\ Kind(i) = "maxpool" /\ s.mode = "Training" => s.indices # Never /\ s.indexed = Shape(i - 1)
    BY <2>0, <2>2, ModeRemembered
  <2> QED
    BY <2>3, <2>4
<1> HIDE DEF r
<1>9. PICK next : next = <<"pool", to>>
  OBVIOUS
<1>10. next \notin Live /\ next \in Live' /\ next # current
  BY <1>0, <1>7, <1>9 DEF Live
<1>11. Pointed(next)'.shape = Shape(i) /\ (Len(Shape(i)) = 4 => Pointed(next)'.layout = "NCHW")
  <2>1. Pointed(next)' = pool'[to]
    BY <1>9 DEF Pointed
  <2>2. Len(Shape(i)) = 4 => t.layout = "NCHW"
    <3>1. Kind(i) = "linear" => Len(Shape(i)) = 2
      BY RanksOfLayer DEF IInv
    <3>2. Kind(i) # "linear" => t.layout = "NCHW"
      BY <1>2 DEF Parametric, Float, Tensor
    <3> QED
      BY <3>1, <3>2
  <2> HIDE DEF t
  <2> QED
    BY <1>2, <1>7, <2>1, <2>2
<1>12. \A q \in Live : q \in Live' /\ (q # next => Pointed(q)' = Pointed(q))
  <2>1. UNCHANGED batch
    BY <1>6 DEF Go
  <2> QED
    BY <1>0, <1>7, <2>1, OthersStay
<1>13. Fed'
  BY <1>0, FedStays DEF Smooth
<1>14. Go(<<"forward", i + 1>>, next)
  BY <1>6, <1>9
<1>15. Kind(i) \in {"conv", "activation"} => r.saved = current
  BY <1>8 DEF Parametric
<1> QED
  BY <1>0, <1>6, <1>8, <1>10, <1>11, <1>12, <1>13, <1>14, <1>15, ForwardSmoothly

LEMMA ForwardActivationSmoothly ==
  ASSUME IInv, WellFormed, Smooth, NEW i \in 1..Depth, at = <<"forward", i>>, Kind(i) = "activation",
         NEW input, input = Plain(Pointed(current)),
         NEW hit \in BOOLEAN, NEW l, l = Prepare(net.layers[i], layers[i], input),
         ForwardActivation(i, net.layers[i], l, input, hit), UNCHANGED <<net, prepared, broken>>
  PROVE  Smooth'
<1> DEFINE r == Remember(net.layers[i], l, hit, input, current, <<"forward", i>>)
<1>0. /\ InPass /\ current \in Live /\ Pointed(current).shape = Shape(i - 1) /\ Given(input, i - 1)
      /\ <<"forward", i>> \in Marks
  BY ForwardInput
<1>1. Entry(ForwardCall(net, i, l, input, input)) # Threw
  BY <1>0, ActivationRuns DEF IInv
<1>2. /\ Write(current, input, <<"forward", i>>) /\ layers' = [layers EXCEPT ![i] = r]
      /\ Go(<<"forward", i + 1>>, current)
  BY <1>1 DEF ForwardActivation
<1>3. r.mode = layers[i].mode /\ r.grad = layers[i].grad /\ r.saved = current
  BY <1>0, ModeRemembered DEF IInv
<1> HIDE DEF r
<1>4. PICK next : next = current
  OBVIOUS
<1>5. Shape(i) = Shape(i - 1) /\ Shape(i) \in Shapes
  BY RanksOfLayer, ShapeStep DEF IInv
<1>6. /\ input.shape = Shape(i) /\ input.layout = Pointed(next).layout /\ input.layout \in Layouts
      /\ Pointed(next).shape = Shape(i)
  BY <1>0, <1>4, <1>5 DEF Given, Plain, Tensor
<1>7. UNCHANGED <<batch, driver>> /\ Write(next, input, <<"forward", i>>)
      /\ Go(<<"forward", i + 1>>, next) /\ next \in Live
  BY <1>0, <1>2, <1>4 DEF Go
<1>8. /\ Fed' /\ Pointed(next)'.shape = input.shape /\ Pointed(next)'.layout = input.layout
      /\ \A q \in Live : q \in Live' /\ (q # next => Pointed(q)' = Pointed(q))
  BY <1>0, <1>5, <1>6, <1>7, WritesInPlace DEF Smooth
<1>9. Len(Shape(i)) = 4 => input.layout = "NCHW"
  <2>1. Passed = i - 1 /\ at[1] = "forward"
    BY DEF Passed
  <2> QED
    BY <1>4, <1>5, <1>6, <2>1 DEF Smooth, Flowing
<1>10. Kind(i) \in InPlace /\ Kind(i) # "conv" /\ Kind(i) # "maxpool"
  BY DEF InPlace
<1> QED
  BY <1>2, <1>3, <1>4, <1>6, <1>7, <1>8, <1>9, <1>10, ForwardSmoothly

LEMMA ForwardFlattenSmoothly ==
  ASSUME IInv, WellFormed, Smooth, NEW i \in 1..Depth, at = <<"forward", i>>, Kind(i) = "flatten",
         NEW input, input = Plain(Pointed(current)),
         NEW l, l = Prepare(net.layers[i], layers[i], input),
         ForwardFlatten(i, net.layers[i], l, input), UNCHANGED <<net, prepared, broken>>
  PROVE  Smooth'
<1> DEFINE r == Remember(net.layers[i], l, FALSE, input, current, <<"forward", i>>)
           t == Result(net, i, l, input)
           mark == Pointed(current).holds
<1>0. /\ InPass /\ current \in Live /\ Pointed(current).shape = Shape(i - 1) /\ Given(input, i - 1)
      /\ <<"forward", i>> \in Marks /\ mark \in Marks
  BY ForwardInput
<1>1. l.out = Shape(i)
  BY <1>0, Prepared DEF IInv
<1>2. Numel(Shape(i)) = Numel(Shape(i - 1))
  BY FlattenReshapes DEF IInv
<1>3. /\ Write(current, t, mark) /\ layers' = [layers EXCEPT ![i] = r]
      /\ Go(<<"forward", i + 1>>, current)
  <2>1. MayReshape(input, l.out)
    BY <1>0, <1>1, <1>2 DEF MayReshape, Given
  <2> QED
    BY <2>1 DEF ForwardFlatten
<1>4. t.shape = Shape(i) /\ t.layout = "Unknown"
  <2>1. input = Tensor(input.shape, input.dtype, input.device, input.layout)
    BY <1>0 DEF Given, Plain, Tensor
  <2>2. t = SetLayout(Reshape(input, Shape(i)), "Unknown")
    BY <1>1 DEF Result, Kind
  <2> QED
    BY <2>1, <2>2 DEF SetLayout, Reshape, Tensor
<1> HIDE DEF t
<1>5. r.mode = layers[i].mode /\ r.grad = layers[i].grad
  <2>1. PICK no \in BOOLEAN : no = FALSE
    OBVIOUS
  <2>2. r = Remember(net.layers[i], l, no, input, current, <<"forward", i>>)
    BY <2>1
  <2> HIDE DEF r
  <2> QED
    BY <1>0, <2>2, ModeRemembered DEF IInv
<1> HIDE DEF r, mark
<1>6. PICK next : next = current
  OBVIOUS
<1>7. /\ UNCHANGED <<batch, driver>> /\ Write(next, t, mark)
      /\ Go(<<"forward", i + 1>>, next) /\ next \in Live
  BY <1>0, <1>3, <1>6 DEF Go
<1>8. next # <<"batch">>
  <2>1. Passed = i - 1 /\ at[1] = "forward"
    BY DEF Passed
  <2>2. i - 1 > 0 /\ Kind(i - 1) \in {"maxpool", "flatten"}
    BY RanksOfLayer DEF IInv
  <2>3. Apart(current)
    BY <2>1, <2>2 DEF Smooth, MayFlatten
  <2> QED
    BY <1>6, <2>3 DEF Apart
<1>9. Shape(i) \in Shapes /\ t.layout \in Layouts /\ Numel(t.shape) = Numel(Pointed(next).shape)
  BY <1>0, <1>2, <1>4, <1>6, ShapeStep DEF IInv, Layouts
<1>10. /\ Fed' /\ Pointed(next)'.shape = t.shape
       /\ \A q \in Live : q \in Live' /\ (q # next => Pointed(q)' = Pointed(q))
  BY <1>0, <1>4, <1>7, <1>8, <1>9, WritesInPlace DEF Smooth
<1>11. Kind(i) \in InPlace /\ Kind(i) \notin {"conv", "activation"} /\ Kind(i) # "maxpool" /\ Len(Shape(i)) = 2
  BY RanksOfLayer DEF InPlace, IInv
<1>12. next \in Live'
  BY <1>7, <1>10
<1>13. Pointed(next)'.shape = Shape(i)
  BY <1>4, <1>10
<1> QED
  <2>1. PICK s : s = r
    OBVIOUS
  <2>2. layers' = [layers EXCEPT ![i] = s] /\ s.mode = layers[i].mode /\ s.grad = layers[i].grad
    BY <1>3, <1>5, <2>1
  <2>3. /\ Kind(i) \in {"conv", "activation"} => s.saved = current
        /\ Kind(i) = "conv" => next # current
        /\ Kind(i) = "maxpool" /\ s.mode = "Training" => s.indices # Never /\ s.indexed = Shape(i - 1)
        /\ IF Kind(i) \in InPlace THEN next = current ELSE next \notin Live
        /\ Len(Shape(i)) = 4 => Pointed(next)'.layout = "NCHW"
    BY <1>6, <1>11
  <2>4. Pointed(next)'.shape = Shape(i) /\ next \in Live' /\ Fed'
        /\ Go(<<"forward", i + 1>>, next)
        /\ \A q \in Live : q \in Live' /\ (q # next => Pointed(q)' = Pointed(q))
    BY <1>7, <1>10, <1>12, <1>13
  <2> QED
    BY <2>2, <2>3, <2>4, ForwardSmoothly

LEMMA ForwardLayerSmoothly == ASSUME IInv, WellFormed, Smooth, ForwardLayer PROVE Smooth'
<1>1. PICK i \in 1..Depth : at = <<"forward", i>>
  <2>1. at[1] = "forward" /\ at[2] \in 1..Depth
    BY DEF ForwardLayer
  <2>2. PICK j \in 1..(Depth + 1) : at = <<"forward", j>>
    BY <2>1, PlacesOfPasses DEF IInv
  <2>3. at[2] = j
    BY <2>2
  <2> QED
    BY <2>1, <2>2, <2>3
<1> DEFINE input == Plain(Pointed(current))
           hit == Hit(net.layers[i], layers[i], input)
           l == Prepare(net.layers[i], layers[i], input)
<1>2. hit \in BOOLEAN
  BY DEF Hit, KeyMatches
<1>3. UNCHANGED <<net, prepared, broken>>
  <2>1. UNCHANGED <<net, prepared>>
    BY DEF ForwardLayer
  <2>2. UNCHANGED broken
    BY DEF ForwardLayer
  <2> QED
    BY <2>1, <2>2
<1>4. /\ Kind(i) \in Parametric \cup {"maxpool"} => ForwardToPool(i, net.layers[i], l, input, hit)
      /\ Kind(i) = "activation" => ForwardActivation(i, net.layers[i], l, input, hit)
      /\ Kind(i) = "flatten" => ForwardFlatten(i, net.layers[i], l, input)
  BY <1>1 DEF ForwardLayer, Kind, Parametric
<1>5. Kind(i) \in Parametric \cup {"maxpool", "activation", "flatten"}
  BY ShapeStep DEF IInv, Kinds, Parametric
<1> HIDE DEF input, hit, l
<1>6. CASE Kind(i) \in Parametric \cup {"maxpool"}
  BY <1>1, <1>2, <1>3, <1>4, <1>6, ForwardToPoolSmoothly DEF input, hit, l
<1>7. CASE Kind(i) = "activation"
  BY <1>1, <1>2, <1>3, <1>4, <1>7, ForwardActivationSmoothly DEF input, hit, l
<1>8. CASE Kind(i) = "flatten"
  BY <1>1, <1>3, <1>4, <1>8, ForwardFlattenSmoothly DEF input, l
<1> QED
  BY <1>5, <1>6, <1>7, <1>8

\* Between forward and backward the model and its pool stay as they are.
LEMMA LossSmoothly ==
  ASSUME IInv, Smooth, InPass, Passed = Depth,
         UNCHANGED <<net, batch, driver, broken, prepared, threw, layers, pool, storage>>,
         at'[1] \in {"metrics", "loss gradient", "backward"}, at'[1] # "metrics" => Training,
         NEW next, next = current \/ next \notin Live, MayFlatten', Flowing'
  PROVE  Smooth'
<1>1. InPass' /\ Passed' = Passed /\ at'[1] # "step"
  BY NetKept DEF InPass, Passed
<1>2. Fed'
  BY FedStays DEF Smooth
<1>3. \A q \in Live : q \in Live' /\ Pointed(q)' = Pointed(q)
  BY NothingMoves
<1>4. \A q \in Live : /\ q \in Live' /\ (q # next => Pointed(q)' = Pointed(q))
                      /\ Pointed(q)'.shape = Pointed(q).shape \/ Apart(q)
  BY <1>3
<1>5. \A j \in 1..Passed' : /\ j \in 1..Passed /\ layers'[j].saved = layers[j].saved
                            /\ layers'[j].indices = layers[j].indices /\ layers'[j].indexed = layers[j].indexed
  BY <1>1
<1>6. \A j \in 1..Depth : /\ layers'[j].mode = layers[j].mode
                          /\ layers[j].grad # Never => layers'[j].grad # Never
  OBVIOUS
<1> QED
  BY <1>1, <1>2, <1>4, <1>5, <1>6, SmoothGoesOn

LEMMA LossPools == ASSUME IInv PROVE lossPool[Owner] \in Seq(PoolEntry)
  BY OwnerIsOne DEF IInv, Typed

LEMMA LossForwardSmoothly == ASSUME IInv, WellFormed, Smooth, LossForward PROVE Smooth'
<1> DEFINE t == Float(<<1>>, net.device, "Unknown")
<1>0. /\ at[1] = "forward" /\ at[2] = Depth + 1
      /\ UNCHANGED <<net, prepared, storage, broken>>
  BY DEF LossForward, loaders
<1>1. InPass /\ Passed = Depth
  BY <1>0, Prediction
<1>2. MayRequest(lossPool[Owner], t)
  <2>1. Askable(t)
    BY DEF Askable, Float, Tensor, Shapes, Layouts
  <2> HIDE DEF t
  <2> QED
    BY <2>1, LossPools, RequestsGranted DEF IInv
<1>3. UNCHANGED <<layers, pool, driver, batch, threw>> /\ at' = <<"metrics">> /\ current' = current
  BY <1>2 DEF LossForward, model, Go
<1>4. at'[1] = "metrics" /\ MayFlatten' /\ Flowing'
  BY <1>3 DEF MayFlatten, Flowing
<1>5. PICK next : next = current
  OBVIOUS
<1> QED
  BY <1>0, <1>1, <1>3, <1>4, <1>5, LossSmoothly

LEMMA MetricsSmoothly == ASSUME IInv, WellFormed, Smooth, Metrics PROVE Smooth'
<1>0. /\ at[1] = "metrics" /\ UNCHANGED <<net, layers, pool, lossPool, prepared, storage, broken>>
  BY DEF Metrics, model, loaders
<1>1. InPass /\ Passed = Depth /\ Depth \in Nat /\ Pointed(current).shape = Shape(Depth)
  BY <1>0, Prediction
<1>2. Len(Shape(Depth)) = 2 /\ Shape(Depth)[2] # 0 /\ Shape(Depth)[1] = net.input[1]
  <2>1. Depth \in 0..Depth
    BY <1>1
  <2> QED
    BY <2>1, WellFormedHas, ImagesStay DEF IInv
<1>3. ~(Rank(Pointed(current)) # 2 \/ Pointed(current).shape[1] # net.input[1] \/ Pointed(current).shape[2] = 0)
  BY <1>1, <1>2 DEF Rank
<1>4. CASE Owner = "Training"
  <2>1. at' = <<"loss gradient">> /\ UNCHANGED <<driver, batch, current, threw>>
    BY <1>3, <1>4, Zenon DEF Metrics
  <2>2. at'[1] = "loss gradient" /\ MayFlatten' /\ Flowing'
    BY <2>1 DEF MayFlatten, Flowing
  <2>3. PICK next : next = current
    OBVIOUS
  <2> QED
    BY <1>0, <1>1, <1>4, <2>1, <2>2, <2>3, LossSmoothly DEF Training
<1>5. CASE Owner # "Training"
  <2>1. at' = <<"next">> /\ driver' = [driver EXCEPT !.seen = TRUE] /\ UNCHANGED threw
    BY <1>3, <1>5, Zenon DEF Metrics
  <2> QED
    BY <1>0, <1>1, <2>1, BatchDoneSmoothly
<1> QED
  BY <1>4, <1>5

LEMMA LossBackwardSmoothly == ASSUME IInv, WellFormed, Smooth, LossBackward PROVE Smooth'
<1> DEFINE t == Plain(Pointed(last))
<1>0. at[1] = "loss gradient" /\ UNCHANGED <<net, prepared, storage, broken, last>>
  BY DEF LossBackward, loaders
<1>1. /\ InPass /\ Depth \in Nat /\ Passed = Depth /\ Given(t, Depth) /\ driver.op # "run"
      /\ Shape(Depth) \in Shapes
  <2>1. last = current /\ driver.op # "run"
    BY <1>0 DEF IInv, CurrentInUse
  <2>2. InPass /\ Depth \in Nat /\ Passed = Depth /\ Given(t, Depth)
    BY <1>0, <2>1, Prediction
  <2> QED
    BY <2>1, <2>2, ShapeStep DEF IInv
<1>2. Askable(t) /\ t.shape = Shape(Depth)
  BY <1>1 DEF Askable, Given
<1>3. MayRequest(lossPool[Owner], t)
  <2> HIDE DEF t
  <2> QED
    BY <1>2, LossPools, RequestsGranted DEF IInv
<1>4. PICK mark \in {<<"backward", Depth + 1>>, Garbage} :
             lossPool' = [lossPool EXCEPT ![Owner] = Request(@, t, mark)]
  BY <1>3 DEF LossBackward
<1>5. PICK i : i = Requested(lossPool[Owner], t)
  OBVIOUS
<1>6. /\ UNCHANGED <<layers, pool, driver, batch, threw>>
      /\ at' = <<"backward", Depth>> /\ current' = <<"loss", i>>
  BY <1>3, <1>5 DEF LossBackward, model, Go
<1>7. lossPool'[Owner][i].shape = Shape(Depth)
  <2>1. mark \in Marks
    BY <1>1 DEF Marks
  <2>2. "gradient" \in LossSlots /\ LossNeed["gradient"] = Bytes(t)
    <3>1. LossNeed["gradient"] = Bytes(Float(Shape(Depth), net.device, "Unknown"))
      BY DEF LossNeed, LossSlots
    <3>2. Bytes(Float(Shape(Depth), net.device, "Unknown")) = Bytes(t)
      BY <1>1, BytesAlike DEF Float, Tensor, Given
    <3> QED
      BY <3>1, <3>2 DEF LossSlots
  <2>3. LossServed = {"value"}
    BY <1>0 DEF LossServed
  <2>4. "gradient" \notin LossServed /\ LossServed \in SUBSET LossSlots
    BY <2>3 DEF LossSlots
  <2> HIDE DEF t
  <2>5. UNCHANGED <<net, pool>> /\ InPass /\ driver.op # "run"
    BY <1>0, <1>1, <1>6
  <2>6. PICK s \in LossSlots : s \notin LossServed /\ LossNeed[s] = Bytes(t)
    BY <2>2, <2>4
  <2>7. PICK holds \in Marks : lossPool' = [lossPool EXCEPT ![Owner] = Request(@, t, holds)]
    BY <1>4, <2>1
  <2>8. lossPool'[Owner][i].shape = t.shape
    BY <1>2, <1>5, <2>4, <2>5, <2>6, <2>7, LossRequestFits
  <2> QED
    BY <1>2, <2>8
<1> HIDE DEF t
<1>8. PICK next : next = <<"loss", i>>
  OBVIOUS
<1>9. next \notin Live /\ next # <<"batch">>
  BY <1>8 DEF Live
<1>10. /\ at'[1] = "backward" /\ at'[2] = Depth /\ Passed' = Depth /\ Depth' = Depth
       /\ (\A k : Kind(k)' = Kind(k)) /\ (\A k : Shape(k)' = Shape(k)) /\ Owner' = Owner
  BY <1>0, <1>6, NetKept DEF Passed, Owner
<1>11. MayFlatten'
  <2>1. \A j \in 1..Depth : Kind(j) = "activation" => layers[j].saved \in Live
    BY <1>1 DEF Smooth, Whole, KeptWhole
  <2>2. \A j \in 1..Depth : Kind(j) = "activation" => layers'[j].saved # next
    BY <1>6, <1>9, <2>1
  <2>3. current' = next
    BY <1>6, <1>8
  <2> QED
    BY <1>9, <1>10, <2>2, <2>3 DEF MayFlatten, Apart
<1>12. Flowing'
  <2>1. Pointed(current)' = lossPool'[Owner][i]
    BY <1>6, <1>10 DEF Pointed
  <2>2. Shape(at[2])' = Shape(Depth)
    BY <1>10 DEF Shape
  <2>3. ~Images(at[2])'
    BY <1>1, <1>10 DEF Images
  <2> QED
    BY <1>7, <1>10, <2>1, <2>2, <2>3 DEF Flowing
<1>13. Training
  BY <1>0 DEF Smooth, Readied
<1> QED
  BY <1>0, <1>1, <1>6, <1>9, <1>10, <1>11, <1>12, <1>13, LossSmoothly

\* What a layer is called with in a pass that trains.
LEMMA BackwardGiven ==
  ASSUME IInv, WellFormed, Smooth, NEW i \in 1..Depth, at = <<"backward", i>>
  PROVE  /\ MayGoBack(net.layers[i], layers[i]) /\ Apart(current)
         /\ Given(Plain(Pointed(current)), i)
         /\ Images(i) => Pointed(current).layout = "NCHW"
         /\ Kind(i) \in Parametric => /\ layers[i].saved # Never
                                      /\ Given(Plain(Pointed(layers[i].saved)), i - 1)
         /\ Kind(i) = "conv" => Pointed(layers[i].saved).layout = "NCHW"
         /\ Kind(i) = "activation" => /\ layers[i].saved # Never
                                      /\ Given(Plain(Pointed(layers[i].saved)), i)
         /\ Kind(i) \in {"maxpool", "flatten"} => layers[i].shape = Shape(i - 1)
         /\ Kind(i) = "maxpool" => layers[i].indexed = Shape(i - 1)
<1>0. /\ InPass /\ Passed = Depth /\ at[1] = "backward" /\ at[2] = i /\ Kept(i)
      /\ current \in Live \cup LossOnes
  BY BackwardInput
<1>1. Training /\ layers[i].mode = "Training" /\ (Kind(i) \in Parametric => layers[i].grad # Never)
  <2>1. Training /\ layers[i].mode = "Training"
    BY <1>0 DEF Smooth, Readied
  <2>2. driver.op = "fit"
    BY <2>1 DEF Training, Owner
  <2> QED
    BY <2>1, <2>2 DEF Smooth, Readied, Gradients
<1>2. KeptWhole(i)
  BY <1>0 DEF Smooth, Whole
<1>3. Apart(current) /\ Pointed(current).shape = Shape(i) /\ (Images(i) => Pointed(current).layout = "NCHW")
  BY <1>0 DEF Smooth, MayFlatten, Flowing
<1>4. Given(Plain(Pointed(current)), i)
  BY <1>0, <1>3, InUseWhole DEF IInv, Given, Plain, Tensor
<1>5. Never \notin Live /\ Shape(i - 1) # Never
  <2>1. Shape(i - 1) \in Batches
    BY WellFormedHas, RanksOfLayer DEF IInv
  <2>2. Never \notin Live
    BY DEF Live, Never
  <2> QED
    BY <2>1, <2>2 DEF Batches, Never
<1>6. PICK q : q = layers[i].saved
  OBVIOUS
<1>7. Kind(i) \in Parametric => q # Never /\ Given(Plain(Pointed(q)), i - 1)
  BY <1>0, <1>5, <1>6, PlainGiven DEF Kept, IInv
<1>8. Kind(i) = "activation" => q # Never /\ Given(Plain(Pointed(q)), i)
  BY <1>0, <1>2, <1>5, <1>6, PlainGiven DEF KeptWhole, IInv
<1>9. Kind(i) \in {"maxpool", "flatten"} => layers[i].shape = Shape(i - 1)
  BY <1>0 DEF Kept
<1>10. MayGoBack(net.layers[i], layers[i])
  <2>1. Kind(i) \in Kinds
    BY ShapeStep DEF IInv
  <2> QED
    BY <1>1, <1>2, <1>5, <1>6, <1>7, <1>8, <1>9, <2>1 DEF MayGoBack, KeptWhole, Kind, Kinds, Parametric
<1> QED
  BY <1>1, <1>2, <1>3, <1>4, <1>6, <1>7, <1>8, <1>9, <1>10 DEF KeptWhole

LEMMA BackwardInPlaceSmoothly ==
  ASSUME IInv, WellFormed, Smooth, NEW i \in 1..Depth, at = <<"backward", i>>,
         NEW t, t.shape = Shape(i - 1), t.layout \in Layouts, NEW mark \in Marks,
         Numel(Shape(i - 1)) = Numel(Shape(i)), Write(current, t, mark),
         Images(i - 1) => t.layout = "NCHW",
         Go(Down(i), current), UNCHANGED <<net, layers, broken, prepared>>
  PROVE  Smooth'
<1>1. PICK next : next = current
  OBVIOUS
<1>2. /\ InPass /\ next \in Live \cup LossOnes /\ next # <<"batch">>
      /\ Pointed(next).shape = Shape(i) /\ Shape(i - 1) \in Shapes
  <2>1. InPass /\ next \in Live \cup LossOnes
    BY <1>1, BackwardInput
  <2>2. next # <<"batch">> /\ Pointed(next).shape = Shape(i)
    BY <1>1, BackwardGiven DEF Apart, Given, Plain, Tensor
  <2>3. Shape(i - 1) \in Shapes
    BY ShapeStep, RanksOfLayer DEF IInv
  <2> QED
    BY <2>1, <2>2, <2>3
<1>3. UNCHANGED <<batch, driver>> /\ Go(Down(i), next) /\ Write(next, t, mark)
  BY <1>1 DEF Go
<1>4. /\ Fed' /\ Pointed(next)'.shape = t.shape /\ Pointed(next)'.layout = t.layout
      /\ \A q \in Live : q \in Live' /\ (q # next => Pointed(q)' = Pointed(q))
  BY <1>2, <1>3, WritesInPlace DEF Smooth
<1> QED
  BY <1>1, <1>3, <1>4, BackwardSmoothly

LEMMA BackwardToPoolSmoothly ==
  ASSUME IInv, WellFormed, Smooth, NEW i \in 1..Depth, at = <<"backward", i>>, Kind(i) \notin InPlace,
         NEW t, Askable(t), t.shape = Shape(i - 1), Need[<<"backward", i>>] = Bytes(t),
         Images(i - 1) => t.layout = "NCHW", NEW mark \in Marks,
         pool' = Request(pool, t, mark), UNCHANGED <<net, broken, prepared, lossPool, storage>>,
         Go(Down(i), <<"pool", Requested(pool, t)>>),
         UNCHANGED layers \/ \E grad \in Marks : layers' = [layers EXCEPT ![i].grad = grad]
  PROVE  Smooth'
<1>0. /\ InPass /\ <<"backward", i>> \in Slots /\ <<"backward", i>> \notin Served
  BY BackwardInput
<1>1. PICK to : to = Requested(pool, t)
  OBVIOUS
<1>2. /\ to \in Active(pool') /\ to \notin Active(pool)
      /\ pool'[to].shape = t.shape /\ pool'[to].layout = t.layout
      /\ \A p \in Active(pool) : p \in Active(pool') /\ pool'[p] = pool[p]
  BY <1>0, <1>1, RequestFits
<1>3. \A j \in 1..Depth :
        /\ layers'[j].mode = layers[j].mode /\ layers'[j].saved = layers[j].saved
        /\ layers'[j].indices = layers[j].indices /\ layers'[j].indexed = layers[j].indexed
        /\ layers[j].grad # Never => layers'[j].grad # Never
  <2>1. ASSUME NEW grad \in Marks, layers' = [layers EXCEPT ![i].grad = grad], NEW j \in 1..Depth
        PROVE  /\ layers'[j].mode = layers[j].mode /\ layers'[j].saved = layers[j].saved
               /\ layers'[j].indices = layers[j].indices /\ layers'[j].indexed = layers[j].indexed
               /\ layers[j].grad # Never => layers'[j].grad # Never
    <3> DEFINE r == [layers[i] EXCEPT !.grad = grad]
    <3>1. DOMAIN layers = 1..Depth /\ layers[i] \in LayerState(i)
      BY DEF IInv, LayersTyped
    <3>2. /\ r.mode = layers[i].mode /\ r.saved = layers[i].saved /\ r.indices = layers[i].indices
          /\ r.indexed = layers[i].indexed /\ r.grad # Never
      BY <3>1, MarksAreSome DEF LayerState
    <3>3. layers' = [layers EXCEPT ![i] = r]
      BY <2>1
    <3> HIDE DEF r
    <3> QED
      BY <3>1, <3>2, <3>3
  <2> QED
    BY <2>1
<1>4. PICK next : next = <<"pool", to>>
  OBVIOUS
<1>5. next \notin Live /\ Go(Down(i), next)
  BY <1>1, <1>2, <1>4 DEF Live
<1>6. Pointed(next)'.shape = Shape(i - 1) /\ (Images(i - 1) => Pointed(next)'.layout = "NCHW")
  <2>1. Pointed(next)' = pool'[to]
    BY <1>4 DEF Pointed
  <2> QED
    BY <1>2, <2>1
<1>7. \A q \in Live : q \in Live' /\ (q # next => Pointed(q)' = Pointed(q))
  <2>1. UNCHANGED batch
    BY DEF Go
  <2> QED
    BY <1>2, <2>1, OthersStay
<1>8. Fed'
  BY FedStays DEF Smooth
<1> QED
  BY <1>3, <1>5, <1>6, <1>7, <1>8, BackwardSmoothly

\* Its operation accepts what the forward pass has left.
LEMMA BackwardRuns ==
  ASSUME IInv, WellFormed, Smooth, NEW i \in 1..Depth, at = <<"backward", i>>,
         NEW l, l = layers[i], NEW grad_output, grad_output = Plain(Pointed(current)),
         NEW input, Kind(i) \in Parametric \cup {"activation"} => input = Plain(Pointed(l.saved)),
         NEW grad_input, grad_input = GradInput(net.layers[i], l, input, grad_output)
  PROVE  /\ Kind(i) # "flatten" => Entry(BackwardCall(net, i, l, input, grad_output, grad_input)) # Threw
         /\ Kind(i) \notin InPlace => /\ grad_input.shape = Shape(i - 1)
                                      /\ Images(i - 1) => grad_input.layout = "NCHW"
<1>1. /\ Given(grad_output, i) /\ Kind(i) \in Kinds
      /\ Images(i) => grad_output.layout = "NCHW"
  BY BackwardGiven, ShapeStep DEF IInv, Plain, Tensor
<1>2. CASE Kind(i) = "conv"
  <2>1. Given(input, i - 1) /\ input.layout = "NCHW"
    BY <1>2, BackwardGiven DEF Parametric, Plain, Tensor
  <2>2. Len(Shape(i)) = 4
    BY <1>2, RanksOfLayer DEF IInv
  <2>3. grad_output.layout = "NCHW"
    BY <1>1, <1>2, <2>2, ImagesGoOn DEF IInv
  <2>4. grad_input = Float(Shape(i - 1), net.device, "NCHW")
    BY <1>1, <1>2, <2>1 DEF GradInput, Kind, Given
  <2>5. Entry(BackwardCall(net, i, l, input, grad_output, grad_input)) # Threw
    BY <1>1, <1>2, <2>1, <2>3, <2>4, ConvRunsBack DEF IInv
  <2> QED
    BY <2>4, <2>5 DEF Float, Tensor
<1>3. CASE Kind(i) = "linear"
  <2>1. Given(input, i - 1)
    BY <1>3, BackwardGiven DEF Parametric
  <2>2. grad_input = Float(Shape(i - 1), net.device, grad_output.layout)
    BY <1>1, <1>3, <2>1 DEF GradInput, Kind, Given
  <2>3. Given(grad_input, i - 1)
    BY <1>1, <2>2 DEF Given, Float, Tensor
  <2>4. Entry(BackwardCall(net, i, l, input, grad_output, grad_input)) # Threw
    BY <1>1, <1>3, <2>1, <2>3, LinearRunsBack DEF IInv
  <2>5. ~Images(i - 1)
    BY <1>3, RanksOfLayer DEF IInv, Images
  <2> QED
    BY <2>3, <2>4, <2>5 DEF Given
<1>4. CASE Kind(i) = "maxpool"
  <2>1. l.indexed = Shape(i - 1) /\ l.shape = Shape(i - 1)
    BY <1>4, BackwardGiven
  <2>2. grad_input = Float(Shape(i - 1), net.device, "NCHW")
    BY <1>1, <1>4, <2>1 DEF GradInput, Kind, Given
  <2>3. Given(grad_input, i - 1) /\ grad_input.layout = "NCHW"
    BY <2>2 DEF Given, Float, Tensor, Layouts
  <2>4. Entry(BackwardCall(net, i, l, input, grad_output, grad_input)) # Threw
    BY <1>1, <1>4, <2>1, <2>3, PoolRunsBack DEF IInv
  <2> QED
    BY <2>3, <2>4 DEF Given
<1>5. CASE Kind(i) = "activation"
  <2>1. Given(input, i)
    BY <1>5, BackwardGiven
  <2> QED
    BY <1>1, <1>5, <2>1, ActivationRunsBack DEF IInv, InPlace
<1>6. CASE Kind(i) = "flatten"
  BY <1>6 DEF InPlace
<1> QED
  BY <1>1, <1>2, <1>3, <1>4, <1>5, <1>6 DEF Kinds

LEMMA BackwardLayerSmoothly == ASSUME IInv, WellFormed, Smooth, BackwardLayer PROVE Smooth'
<1>1. PICK i \in 1..Depth : at = <<"backward", i>>
  <2>1. at[1] = "backward" /\ at[2] \in 1..Depth
    BY DEF BackwardLayer
  <2>2. PICK j \in 0..Depth : at = <<"backward", j>>
    BY <2>1, PlacesOfPasses DEF IInv
  <2>3. at[2] = j
    BY <2>2
  <2> QED
    BY <2>1, <2>2, <2>3
<1> DEFINE layer == net.layers[i]
           l == layers[i]
           above == Pointed(current)
           grad_output == Plain(above)
           input == IF l.saved = Never THEN grad_output ELSE Plain(Pointed(l.saved))
           grad_input == GradInput(layer, l, input, grad_output)
           reshapes == IF layer.kind = "flatten" THEN MayReshape(grad_output, l.shape)
                       ELSE layer.kind # "activation" => MayRequest(pool, grad_input)
           marks == {<<"backward", i>>, Garbage}
<1>2. UNCHANGED <<net, prepared, broken>>
  BY DEF BackwardLayer
<1> DEFINE c == BackwardCall(net, i, l, input, grad_output, grad_input)
           intact == above.holds = <<"backward", i + 1>>
                     /\ l.read # Stale
                     /\ (layer.kind \in Parametric \cup {"activation"} => Pointed(l.saved).holds = l.read)
                     /\ (layer.kind = "maxpool" => l.indices = l.read)
           mark(fills) == IF intact /\ fills THEN <<"backward", i>> ELSE Garbage
<1>3. \A fills : mark(fills) \in marks
  OBVIOUS
<1>4. IF ~MayGoBack(layer, l)
      THEN Throw("not ready") /\ UNCHANGED <<call, layers, pool, storage, lossPool>>
      ELSE IF ~reshapes THEN Reshapes(layers) /\ UNCHANGED <<storage, lossPool>>
      ELSE IF layer.kind = "flatten"
      THEN Write(current, grad_input, mark(TRUE)) /\ Go(Down(i), current) /\ UNCHANGED <<call, layers>>
      ELSE
        IF ~l.fast /\ Entry(c) = Threw
        THEN /\ Refused
             /\ pool' = IF layer.kind = "activation" THEN pool ELSE Request(pool, grad_input, Stale)
             /\ UNCHANGED <<layers, storage, lossPool>>
        ELSE IF layer.kind = "activation"
        THEN /\ Write(current, grad_output, mark(TRUE))
             /\ Go(Down(i), current) /\ UNCHANGED layers
        ELSE /\ pool' = Request(pool, grad_input, mark(Fills(c, "grad_input")))
             /\ layers' = IF layer.kind \in Parametric
                          THEN [layers EXCEPT ![i].grad = mark(GradientsFilled(c))]
                          ELSE layers
             /\ Go(Down(i), <<"pool", Requested(pool, grad_input)>>)
             /\ UNCHANGED <<storage, lossPool>>
  BY <1>1, ZenonT(30) DEF BackwardLayer, Down
<1>5. marks \subseteq Marks /\ Kind(i) \in Kinds
  BY <1>1, BackwardInput, ShapeStep DEF IInv
<1>6. /\ MayGoBack(layer, l) /\ Given(grad_output, i) /\ Apart(current)
      /\ Kind(i) \in Parametric \cup {"activation"} => input = Plain(Pointed(l.saved))
      /\ Kind(i) = "flatten" => l.shape = Shape(i - 1)
      /\ grad_output.layout = Pointed(current).layout /\ (Images(i) => grad_output.layout = "NCHW")
  <2>1. Kind(i) \in Parametric \cup {"activation"} => l.saved # Never
    BY <1>1, BackwardGiven
  <2> QED
    BY <1>1, <2>1, BackwardGiven DEF Plain, Tensor
<1>7. /\ Kind(i) # "flatten" => Entry(c) # Threw
      /\ Kind(i) \notin InPlace => /\ grad_input.shape = Shape(i - 1)
                                   /\ Images(i - 1) => grad_input.layout = "NCHW"
  <2>1. l = layers[i] /\ grad_output = Plain(Pointed(current))
        /\ grad_input = GradInput(net.layers[i], l, input, grad_output)
    OBVIOUS
  <2> HIDE DEF l, grad_output, input, grad_input
  <2> QED
    BY <1>1, <1>6, <2>1, BackwardRuns DEF c
<1>8. Kind(i) \notin InPlace => Askable(grad_input) /\ Need[<<"backward", i>>] = Bytes(grad_input)
  <2>1. grad_output = Plain(Pointed(current)) /\ grad_input = GradInput(net.layers[i], layers[i], input, grad_output)
        /\ (Kind(i) \in Parametric => input = Plain(Pointed(layers[i].saved)))
    BY <1>6
  <2>2. Kind(i) \notin InPlace => Kind(i) \in Parametric \cup {"maxpool"}
    BY <1>5 DEF Kinds, InPlace, Parametric
  <2> HIDE DEF grad_output, input, grad_input, l
  <2> QED
    BY <1>1, <2>1, <2>2, GradientFits
<1>9. CASE Kind(i) = "flatten"
  <2>1. Numel(Shape(i)) = Numel(Shape(i - 1)) /\ grad_output.shape = Shape(i)
    BY <1>6, <1>9, FlattenReshapes DEF IInv, Given
  <2>2. reshapes /\ layer.kind = "flatten"
    BY <1>6, <1>9, <2>1 DEF MayReshape, Kind
  <2>3. Write(current, grad_input, mark(TRUE)) /\ Go(Down(i), current) /\ UNCHANGED layers
    <3> HIDE DEF reshapes, mark, grad_input, grad_output
    <3> QED
      BY <1>4, <1>6, <2>2
  <2>4. PICK m \in Marks : m = mark(TRUE)
    BY <1>3, <1>5
  <2>5. grad_input.shape = Shape(i - 1) /\ grad_input.layout \in Layouts
    <3>1. grad_input = Reshape(grad_output, Shape(i - 1))
      BY <1>6, <1>9, <2>2 DEF GradInput
    <3>2. grad_output = Tensor(grad_output.shape, grad_output.dtype, grad_output.device, grad_output.layout)
      BY DEF Plain, Tensor
    <3> HIDE DEF grad_output, grad_input
    <3> QED
      BY <1>6, <3>1, <3>2 DEF Reshape, Tensor, Given
  <2>6. ~Images(i - 1)
    <3>1. (i - 1) + 1 = i
      BY RanksOfLayer DEF IInv
    <3> QED
      BY <1>9, <3>1 DEF Images
  <2>7. Write(current, grad_input, m)
    BY <2>3, <2>4
  <2> HIDE DEF reshapes, mark, grad_input, grad_output
  <2> QED
    BY <1>1, <1>2, <2>1, <2>3, <2>5, <2>6, <2>7, BackwardInPlaceSmoothly
<1>10. CASE Kind(i) = "activation"
  <2>1. reshapes /\ layer.kind = "activation" /\ Entry(c) # Threw
    BY <1>7, <1>10 DEF Kind
  <2>2. Write(current, grad_output, mark(TRUE)) /\ Go(Down(i), current) /\ UNCHANGED layers
    <3> HIDE DEF reshapes, mark, grad_input, grad_output, c
    <3> QED
      BY <1>4, <1>6, <2>1
  <2>3. PICK m \in Marks : m = mark(TRUE)
    BY <1>3, <1>5
  <2>4. Shape(i) = Shape(i - 1)
    BY <1>10, RanksOfLayer DEF IInv
  <2>5. grad_output.shape = Shape(i - 1) /\ grad_output.layout \in Layouts
    BY <1>6, <2>4 DEF Given
  <2>6. Images(i - 1) => grad_output.layout = "NCHW"
    <3>1. Images(i - 1) => Len(Shape(i)) = 4
      BY <2>4 DEF Images
    <3>2. Images(i - 1) => Images(i)
      BY <1>10, <3>1, ImagesGoOn DEF IInv
    <3> QED
      BY <1>6, <3>2
  <2>7. Write(current, grad_output, m)
    BY <2>2, <2>3
  <2> HIDE DEF reshapes, mark, grad_input, grad_output
  <2> QED
    BY <1>1, <1>2, <2>2, <2>4, <2>5, <2>6, <2>7, BackwardInPlaceSmoothly
<1>11. CASE Kind(i) \notin {"flatten", "activation"}
  <2>0. Kind(i) \notin InPlace
    BY <1>11 DEF InPlace
  <2>1. MayRequest(pool, grad_input)
    <3>1. pool \in Seq(PoolEntry)
      BY DEF IInv, Typed
    <3> HIDE DEF grad_input
    <3> QED
      BY <1>8, <2>0, <3>1, RequestsGranted DEF IInv
  <2>2. reshapes /\ layer.kind \notin {"flatten", "activation"} /\ Entry(c) # Threw
    BY <1>7, <1>11, <2>1 DEF Kind
  <2>3. /\ pool' = Request(pool, grad_input, mark(Fills(c, "grad_input")))
        /\ layers' = IF layer.kind \in Parametric
                     THEN [layers EXCEPT ![i].grad = mark(GradientsFilled(c))]
                     ELSE layers
        /\ Go(Down(i), <<"pool", Requested(pool, grad_input)>>)
        /\ UNCHANGED <<storage, lossPool>>
    <3> HIDE DEF reshapes, mark, grad_input, grad_output, c
    <3> QED
      BY <1>4, <1>6, <2>2
  <2>4. PICK m \in Marks : m = mark(Fills(c, "grad_input"))
    BY <1>3, <1>5
  <2>5. PICK grad \in Marks : grad = mark(GradientsFilled(c))
    BY <1>3, <1>5
  <2>6. layers' = layers \/ layers' = [layers EXCEPT ![i].grad = grad]
    BY <2>3, <2>5
  <2>7. pool' = Request(pool, grad_input, m)
    BY <2>3, <2>4
  <2> HIDE DEF reshapes, mark, grad_input, grad_output, c
  <2> QED
    BY <1>1, <1>2, <1>7, <1>8, <2>0, <2>3, <2>6, <2>7, BackwardToPoolSmoothly
<1> QED
  BY <1>9, <1>10, <1>11

-----------------------------------------------------------------------------
(* Every step of such a network is smooth. *)

LEMMA StutterSmoothly == ASSUME IInv, Smooth, UNCHANGED vars PROVE Smooth'
<1>1. UNCHANGED <<net, layers, pool, lossPool, prepared, storage, broken, driver, at, batch, current, threw>>
  BY DEF vars
<1>2. Fed'
  BY <1>1, FedStays DEF Smooth
<1>3. Depth' = Depth /\ (\A k : Kind(k)' = Kind(k)) /\ (\A k : Shape(k)' = Shape(k)) /\ Passed' = Passed
      /\ Owner' = Owner
  BY <1>1, NetKept DEF Passed, Owner
<1>4. CASE ~InPass
  <2>1. ~InPass' /\ Gradients'
    BY <1>1, <1>3, <1>4 DEF InPass, Smooth, Readied, Gradients
  <2> QED
    BY <1>1, <1>2, <2>1, LeavesSmoothly DEF Smooth
<1>5. CASE InPass
  <2>1. InPass' /\ (at'[1] \in {"loss gradient", "backward", "step"} => Training)
    BY <1>1, <1>5 DEF InPass, Smooth, Readied
  <2>2. MayFlatten'
    <3>1. MayFlatten
      BY DEF Smooth
    <3> QED
      BY <1>1, <1>3, <3>1 DEF MayFlatten, Apart
  <2>3. Flowing'
    <3>1. Flowing
      BY DEF Smooth
    <3>2. Pointed(current)' = Pointed(current)
      BY <1>1, <1>3 DEF Pointed, Inputs
    <3>3. Shape(Passed)' = Shape(Passed) /\ Shape(at[2])' = Shape(at[2]) /\ Images(at[2])' = Images(at[2])
      BY <1>1, <1>3 DEF Shape, Images, Kind
    <3> QED
      BY <1>1, <3>1, <3>2, <3>3 DEF Flowing
  <2>4. PICK next : next = current
    OBVIOUS
  <2>5. \A q \in Live : /\ q \in Live' /\ (q # next => Pointed(q)' = Pointed(q))
                        /\ Pointed(q)'.shape = Pointed(q).shape \/ Apart(q)
    BY <1>1, NothingMoves
  <2>6. \A j \in 1..Passed' : /\ j \in 1..Passed /\ layers'[j].saved = layers[j].saved
                              /\ layers'[j].indices = layers[j].indices /\ layers'[j].indexed = layers[j].indexed
    BY <1>1, <1>3
  <2>7. \A j \in 1..Depth : /\ layers'[j].mode = layers[j].mode
                            /\ layers[j].grad # Never => layers'[j].grad # Never
    BY <1>1
  <2> QED
    BY <1>1, <1>2, <1>5, <2>1, <2>2, <2>3, <2>4, <2>5, <2>6, <2>7, SmoothGoesOn
<1> QED
  BY <1>4, <1>5

LEMMA NextSmoothly == ASSUME IInv, WellFormed, Smooth, Next PROVE Smooth'
<1>1. CASE Construct
  BY <1>1, ConstructSmoothly
<1>2. ASSUME NEW epochs \in 0..2, NEW validation \in BOOLEAN, Fit(epochs, validation) PROVE Smooth'
  BY <1>2, FitSmoothly
<1>3. CASE Evaluate \/ Run
  BY <1>3, ServeSmoothly
<1>4. ASSUME NEW loader \in Loaders, ResetEpoch(loader) PROVE Smooth'
  BY <1>4, ResetEpochSmoothly
<1>5. ASSUME NEW s \in 1..Storages, NextBatch(s) PROVE Smooth'
  BY <1>5, NextBatchSmoothly
<1>6. CASE BeginPass
  BY <1>6, BeginPassSmoothly
<1>7. CASE ForwardLayer
  BY <1>7, ForwardLayerSmoothly
<1>8. CASE LossForward
  BY <1>8, LossForwardSmoothly
<1>9. CASE Metrics
  BY <1>9, MetricsSmoothly
<1>10. CASE LossBackward
  BY <1>10, LossBackwardSmoothly
<1>11. CASE BackwardLayer
  BY <1>11, BackwardLayerSmoothly
<1>12. CASE Step \/ Deliver
  BY <1>12, StepSmoothly
<1>13. CASE EndEpoch
  BY <1>13, EndEpochSmoothly
<1> QED
  BY <1>1, <1>2, <1>3, <1>4, <1>5, <1>6, <1>7, <1>8, <1>9, <1>10, <1>11, <1>12, <1>13 DEF Next

LEMMA InitSmoothly == ASSUME Init PROVE Smooth
<1>1. /\ threw = "nothing" /\ prepared = FALSE /\ driver = Idle /\ at = <<"idle">>
      /\ broken = [w \in Loaders |-> FALSE]
  BY DEF Init
<1>2. Fed
  <2>1. \A w \in Loaders : \A s \in 1..Storages :
          storage[w][s].shape = net.input /\ storage[w][s].layout = "NCHW"
    BY DEF Init
  <2> QED
    BY <1>1, <2>1 DEF Fed
<1>3. Gradients /\ ~InPass /\ at[1] = "idle"
  BY <1>1, Zenon DEF Gradients, Idle, InPass
<1> QED
  BY <1>1, <1>2, <1>3 DEF Smooth, Readied, Whole, MayFlatten, Flowing, Planned

\* A program has one network.
LEMMA NetStays == ASSUME Next \/ UNCHANGED vars PROVE UNCHANGED net
  BY DEF Next, vars, Construct, Fit, Evaluate, Run, ResetEpoch, NextBatch, BeginPass, ForwardLayer,
         LossForward, Metrics, LossBackward, BackwardLayer, Step, Deliver, EndEpoch

LEMMA StaysWellFormed == ASSUME UNCHANGED net PROVE WellFormed' = WellFormed
<1>1. /\ CurrentShape(net)' = CurrentShape(net) /\ Depth' = Depth /\ \A i : Kind(i)' = Kind(i)
  BY DEF Depth, Kind
<1>2. \A i, layer, before : Supported(i, layer, before)' = Supported(i, layer, before)
  BY <1>1 DEF Supported
<1> QED
  BY <1>1, <1>2 DEF WellFormed

\* A network that the layers support trains, evaluates and infers, in any order and for any
\* number of calls, without an exception but those of a driver for want of batches or
\* epochs: no operation refuses its arguments, no pool and no flatten layer reshapes a tensor
\* to another number of elements, no layer is called backward before it is ready, no loader
\* breaks and no prediction is without classes.
THEOREM SupportedNeverThrow == Spec => []WellFormedNeverThrows
<1> DEFINE Inv == IInv /\ (WellFormed => Smooth)
<1>1. Init => Inv
  BY InitHolds, InitSmoothly
<1>2. Inv /\ [Next]_vars => Inv'
  <2> SUFFICES ASSUME Inv, [Next]_vars PROVE Inv'
    OBVIOUS
  <2>1. IInv'
    BY NextKeeps, StutterKeeps
  <2>2. WellFormed' = WellFormed
    BY NetStays, StaysWellFormed
  <2>3. WellFormed => Smooth'
    BY NextSmoothly, StutterSmoothly
  <2> QED
    BY <2>1, <2>2, <2>3
<1>3. Inv => WellFormedNeverThrows
  BY DEF Smooth, Planned, WellFormedNeverThrows
<1> QED
  BY <1>1, <1>2, <1>3, PTL DEF Spec

-----------------------------------------------------------------------------
(* What the tensor holds that a layer passes on. *)

LEMMA LeftIsFresh == ASSUME NEW i PROVE Left(i) # Stale
<1>1. Left(i) = <<"batch">> \/ \E j : Left(i) = <<"forward", j>>
  BY Zenon DEF Left
<1>2. <<"batch">> # Stale /\ \A j : <<"forward", j>> # Stale
  BY DEF Stale
<1> QED
  BY <1>1, <1>2

LEMMA LeftStep ==
  ASSUME Depth \in Nat
  PROVE  /\ Left(0) = <<"batch">>
         /\ \A i \in 1..Depth : Left(i) = IF Kind(i) = "flatten" THEN Left(i - 1) ELSE <<"forward", i>>
<1> DEFINE makers(i) == {j \in 1..i : net.layers[j].kind # "flatten"}
<1>1. \A i : Left(i) = IF makers(i) = {} THEN <<"batch">> ELSE <<"forward", Max(makers(i))>>
  BY Zenon DEF Left
<1>2. Left(0) = <<"batch">>
  <2>1. makers(0) = {}
    OBVIOUS
  <2> QED
    BY <1>1, <2>1
<1>3. ASSUME NEW i \in 1..Depth, Kind(i) = "flatten" PROVE Left(i) = Left(i - 1)
  <2>1. makers(i) = makers(i - 1)
    <3>1. \A j \in 1..i : j # i => j \in 1..(i - 1)
      OBVIOUS
    <3>2. \A j \in 1..(i - 1) : j \in 1..i
      OBVIOUS
    <3> QED
      BY <1>3, <3>1, <3>2 DEF Kind
  <2> HIDE DEF makers
  <2> QED
    BY <1>1, <2>1
<1>4. ASSUME NEW i \in 1..Depth, Kind(i) # "flatten" PROVE Left(i) = <<"forward", i>>
  <2>1. i \in makers(i) /\ makers(i) \subseteq Int /\ \A j \in makers(i) : j <= i
    BY <1>4 DEF Kind
  <2> HIDE DEF makers
  <2>2. Max(makers(i)) = i
    <3>1. PICK s : s = makers(i)
      OBVIOUS
    <3>2. Max(s) = CHOOSE x \in s : \A y \in s : x >= y
      BY DEF Max
    <3>3. i \in s /\ \A y \in s : i >= y
      BY <2>1, <3>1
    <3>4. \E x \in s : \A y \in s : x >= y
      BY <3>3
    <3>5. Max(s) \in s /\ \A y \in s : Max(s) >= y
      BY <3>2, <3>4
    <3>6. Max(s) \in Int /\ i \in Int /\ Max(s) <= i /\ Max(s) >= i
      BY <2>1, <3>1, <3>3, <3>5
    <3> QED
      BY <3>1, <3>6
  <2> QED
    BY <1>1, <2>1, <2>2
<1> QED
  BY <1>2, <1>3, <1>4

-----------------------------------------------------------------------------
(* The backward operations write the whole of what they are given to fill. *)

\* The iterations of a loop, an element each, are enough for the tensor.
Fill(c, loop, role) ==
  /\ Below(Elements(c, role)) \subseteq Below(Iterations(c, loop))
  /\ \A a : \E e \in Body(c, loop, a) : e.to = <<role, a>>

LEMMA LoopFills ==
  ASSUME NEW c, NEW role, NEW loops, loops = CpuLoops(c, Unchecked(c)), 
         NEW k \in DOMAIN loops, NEW loop, loop = loops[k], Fill(c, loop, role)
  PROVE  Fills(c, role)
<1>0. /\ Below(Elements(c, role)) \subseteq Below(Iterations(c, loop))
      /\ \A a : \E e \in Body(c, loop, a) : e.to = <<role, a>>
  BY DEF Fill
<1>1. ASSUME NEW a \in Below(Elements(c, role)) PROVE <<role, a>> \in {e.to : e \in Writes(c)}
  <2>1. PICK e \in Body(c, loop, a) : e.to = <<role, a>>
    BY <1>0
  <2>2. e \in UNION {Body(c, loop, j) : j \in Below(Iterations(c, loop))}
    BY <1>0, Zenon
  <2>3. e \in Writes(c)
    <3> DEFINE all(l) == UNION {UNION {Body(c, l[i], j) : j \in Below(Iterations(c, l[i]))} : i \in DOMAIN l}
    <3>1. Writes(c) = all(CpuLoops(c, Unchecked(c)))
      BY Zenon DEF Writes
    <3>2. e \in all(loops)
      <4> DEFINE of(l) == UNION {Body(c, l, j) : j \in Below(Iterations(c, l))}
      <4>1. e \in of(loop) /\ all(loops) = UNION {of(loops[i]) : i \in DOMAIN loops}
        BY <2>2
      <4> HIDE DEF of, all
      <4> QED
        BY <4>1
    <3> HIDE DEF all
    <3> QED
      BY <3>1, <3>2
  <2> QED
    BY <2>1, <2>3
<1> QED
  BY <1>1, Zenon DEF Fills

LEMMA EffectGoes == ASSUME NEW cell, NEW terms PROVE Effect(cell, terms).to = cell
  BY DEF Effect

\* The loops of the backward operations that write an element each.
LEMMA ElementsWritten ==
  ASSUME NEW c, NEW a
  PROVE  /\ \E e \in Body(c, "conv_grad_input", a) : e.to = <<"grad_input", a>>
         /\ \E e \in Body(c, "conv_grad_weights", a) : e.to = <<"grad_weights", a>>
         /\ \E e \in Body(c, "linear_grad_input", a) : e.to = <<"grad_input", a>>
         /\ \E e \in Body(c, "linear_grad_weights", a) : e.to = <<"grad_weights", a>>
         /\ \E e \in Body(c, "conv_grad_bias", a) : e.to = <<"grad_bias", a>>
         /\ \E e \in Body(c, "linear_grad_bias", a) : e.to = <<"grad_bias", a>>
         /\ \E e \in Body(c, "fill", a) : e.to = <<"grad_prediction", a>>
<1>1. /\ Body(c, "conv_grad_input", a) = ConvGradInput(c, a)
      /\ Body(c, "conv_grad_weights", a) = ConvGradWeights(c, a)
      /\ Body(c, "linear_grad_input", a) = LinearGradInput(c, a)
      /\ Body(c, "linear_grad_weights", a) = LinearGradWeights(c, a)
      /\ Body(c, "conv_grad_bias", a) = ConvGradBias(c, a)
      /\ Body(c, "linear_grad_bias", a) = LinearGradBias(c, a)
      /\ Body(c, "fill", a) = FillGradient(c, a)
  BY DEF Body
<1>2. \E terms : ConvGradInput(c, a) = {Effect(<<"grad_input", a>>, terms)}
  BY Zenon DEF ConvGradInput
<1>3. \E terms : ConvGradWeights(c, a) = {Effect(<<"grad_weights", a>>, terms)}
  BY Zenon DEF ConvGradWeights
<1>4. \E terms : LinearGradInput(c, a) = {Effect(<<"grad_input", a>>, terms)}
  BY Zenon DEF LinearGradInput
<1>5. \E terms : LinearGradWeights(c, a) = {Effect(<<"grad_weights", a>>, terms)}
  BY Zenon DEF LinearGradWeights
<1>6. \E terms : FillGradient(c, a) = {Effect(<<"grad_prediction", a>>, terms)}
  BY Zenon DEF FillGradient
<1>7. ASSUME NEW set, NEW cell, \E terms : set = {Effect(cell, terms)}
      PROVE  \E e \in set : e.to = cell
  BY <1>7, EffectGoes
<1>8. \E terms : ConvGradBias(c, a) = {Effect(<<"grad_bias", a>>, terms)}
  BY Zenon DEF ConvGradBias
<1>9. \E terms : LinearGradBias(c, a) = {Effect(<<"grad_bias", a>>, terms)}
  BY Zenon DEF LinearGradBias
<1>10. /\ \E e \in ConvGradInput(c, a) : e.to = <<"grad_input", a>>
       /\ \E e \in ConvGradWeights(c, a) : e.to = <<"grad_weights", a>>
       /\ \E e \in ConvGradBias(c, a) : e.to = <<"grad_bias", a>>
  BY <1>2, <1>3, <1>7, <1>8
<1>11. /\ \E e \in LinearGradInput(c, a) : e.to = <<"grad_input", a>>
       /\ \E e \in LinearGradWeights(c, a) : e.to = <<"grad_weights", a>>
       /\ \E e \in LinearGradBias(c, a) : e.to = <<"grad_bias", a>>
  BY <1>4, <1>5, <1>7, <1>9
<1>12. \E e \in FillGradient(c, a) : e.to = <<"grad_prediction", a>>
  BY <1>6, <1>7
<1> QED
  BY <1>1, <1>10, <1>11, <1>12

LEMMA PairBelow ==
  ASSUME NEW a \in Nat, NEW b \in Nat
  PROVE  Below(Numel(<<a, b>>)) \subseteq Below(a * b)
<1>1. Numel(<<a, b>>) = Size(Size(a) * b)
  BY NumelOfPair
<1>2. \A n \in Nat : Size(n) \in Nat /\ Size(n) <= n
  BY DEF Size
<1>3. Size(a) \in Nat /\ Size(a) <= a
  BY <1>2
<1>4. Size(a) * b \in Nat /\ a * b \in Nat /\ Size(a) * b <= a * b
  <2>1. PICK s \in Nat, d \in Nat : s = Size(a) /\ a = s + d
    <3>1. a - Size(a) \in Nat /\ a = Size(a) + (a - Size(a))
      BY <1>3
    <3> QED
      BY <1>3, <3>1
  <2>2. a * b = s * b + d * b /\ s * b \in Nat /\ d * b \in Nat
    BY <2>1
  <2> QED
    BY <2>1, <2>2
<1>5. Numel(<<a, b>>) \in Nat /\ Numel(<<a, b>>) <= a * b
  BY <1>1, <1>2, <1>4
<1> QED
  BY <1>4, <1>5 DEF Below

LEMMA KernelOf ==
  ASSUME NEW device \in Backends, NEW kernel
  PROVE  Launch(device, kernel) = kernel
<1>1. On(device) = device /\ device # Threw
  BY BackendsAssumption DEF On, Threw
<1> QED
  BY <1>1 DEF Launch

LEMMA ThreeOf ==
  ASSUME NEW S, NEW u \in Seq(S), NEW v \in Seq(S), Len(u) = 2, Len(v) = 1
  PROVE  /\ {1, 2, 3} \subseteq DOMAIN (u \o v)
         /\ (u \o v)[1] = u[1] /\ (u \o v)[2] = u[2] /\ (u \o v)[3] = v[1]
<1>1. Len(u \o v) = Len(u) + Len(v) /\ u \o v \in Seq(S)
  BY ConcatProperties
<1>2. Len(u \o v) = 3 /\ DOMAIN (u \o v) = 1 .. Len(u \o v)
  BY <1>1
<1>3. {1, 2, 3} \subseteq 1 .. (Len(u) + Len(v)) /\ ~(3 <= Len(u)) /\ 1 <= Len(u) /\ 2 <= Len(u)
      /\ 3 - Len(u) = 1
  OBVIOUS
<1>4. \A i \in 1 .. (Len(u) + Len(v)) :
        (u \o v)[i] = IF i <= Len(u) THEN u[i] ELSE v[i - Len(u)]
  BY ConcatProperties
<1> QED
  BY <1>2, <1>3, <1>4

LEMMA BackwardLoops ==
  ASSUME NEW c
  PROVE  /\ {1, 2} \subseteq DOMAIN CpuLoops(c, "backward_conv2d")
         /\ CpuLoops(c, "backward_conv2d")[1] = "conv_grad_input"
         /\ CpuLoops(c, "backward_conv2d")[2] = "conv_grad_weights"
         /\ {1, 2} \subseteq DOMAIN CpuLoops(c, "backward_linear")
         /\ CpuLoops(c, "backward_linear")[1] = "linear_grad_input"
         /\ CpuLoops(c, "backward_linear")[2] = "linear_grad_weights"
         /\ "grad_bias" \in DOMAIN c.t =>
              /\ 3 \in DOMAIN CpuLoops(c, "backward_conv2d")
              /\ CpuLoops(c, "backward_conv2d")[3] = "conv_grad_bias"
              /\ 3 \in DOMAIN CpuLoops(c, "backward_linear")
              /\ CpuLoops(c, "backward_linear")[3] = "linear_grad_bias"
<1>1. ASSUME NEW x, NEW y, NEW z, NEW s, s = <<x, y>> \o <<z>>
      PROVE  {1, 2, 3} \subseteq DOMAIN s /\ s[1] = x /\ s[2] = y /\ s[3] = z
  <2>1. PICK u, v : u = <<x, y>> /\ v = <<z>>
    OBVIOUS
  <2>2. /\ u \in Seq({x, y, z}) /\ v \in Seq({x, y, z}) /\ Len(u) = 2 /\ Len(v) = 1
        /\ u[1] = x /\ u[2] = y /\ v[1] = z
    BY <2>1
  <2>3. s = u \o v
    BY <1>1, <2>1
  <2> QED
    BY <2>2, <2>3, ThreeOf
<1>2. ASSUME NEW x, NEW y, NEW s, s = <<x, y>> \o <<>>
      PROVE  {1, 2} \subseteq DOMAIN s /\ s[1] = x /\ s[2] = y
  <2>1. PICK u, v : u = <<x, y>> /\ v = <<>>
    OBVIOUS
  <2>2. u \in Seq({x, y}) /\ v \in Seq({x, y}) /\ Len(u) = 2 /\ Len(v) = 0 /\ u[1] = x /\ u[2] = y
    BY <2>1
  <2>3. s = u \o v
    BY <1>2, <2>1
  <2> QED
    BY <2>2, <2>3
<1>3. CASE "grad_bias" \in DOMAIN c.t
  <2>1. CpuLoops(c, "backward_conv2d") = <<"conv_grad_input", "conv_grad_weights">> \o <<"conv_grad_bias">>
    BY <1>3 DEF CpuLoops
  <2>2. CpuLoops(c, "backward_linear") = <<"linear_grad_input", "linear_grad_weights">> \o <<"linear_grad_bias">>
    BY <1>3 DEF CpuLoops
  <2> QED
    BY <1>1, <2>1, <2>2
<1>4. CASE "grad_bias" \notin DOMAIN c.t
  <2>1. CpuLoops(c, "backward_conv2d") = <<"conv_grad_input", "conv_grad_weights">> \o <<>>
    BY <1>4 DEF CpuLoops
  <2>2. CpuLoops(c, "backward_linear") = <<"linear_grad_input", "linear_grad_weights">> \o <<>>
    BY <1>4 DEF CpuLoops
  <2> QED
    BY <1>2, <1>4, <2>1, <2>2
<1> QED
  BY <1>3, <1>4

LEMMA ElementsOfOne ==
  ASSUME NEW a \in Sizes
  PROVE  Numel(<< a >>) = a
<1> DEFINE s == <<a>>
<1>1. s \in Seq(Nat) /\ Len(s) = 1 /\ s[1] = a /\ a \in Nat /\ a < SizeMod
  BY DEF Sizes, Below
<1> HIDE DEF s
<1>2. PICK product : Numel(s) = product[1] /\ ProductUpto(product, s, 1)
  <2>1. Numel(s) = (CHOOSE product : ProductUpto(product, s, 1))[1]
    BY <1>1 DEF Numel, ProductUpto
  <2> QED
    BY <2>1, DimensionsExist
<1>3. product[0] = 1 /\ product[1] = Size(product[1 - 1] * s[1])
  BY <1>2 DEF ProductUpto
<1>4. product[1] = Size(1 * a)
  BY <1>1, <1>3
<1> QED
  BY <1>1, <1>2, <1>4, SizeIsExact DEF s

\* The arguments of a layer that goes back, and its bias.
LEMMA RolesOfBackward ==
  ASSUME NEW i \in 1..Depth, Kind(i) \in Parametric, NEW l, NEW input, NEW grad_output, NEW grad_input,
         NEW c, c = BackwardCall(net, i, l, input, grad_output, grad_input)
  PROVE  /\ c.op = IF Kind(i) = "conv" THEN "backward_conv2d" ELSE "backward_linear"
         /\ c.t["input"] = input /\ c.t["grad_input"] = grad_input
         /\ c.t["weights"] = Weights(net, i) /\ c.t["grad_weights"] = Weights(net, i)
         /\ "grad_bias" \in DOMAIN c.t => c.t["grad_bias"] = Bias(net, i)
<1> DEFINE roles == [input |-> input, weights |-> Weights(net, i), grad_output |-> grad_output,
                     grad_input |-> grad_input, grad_weights |-> Weights(net, i)]
<1>1. /\ c.t = WithBias(net.layers[i], "grad_bias", Bias(net, i), roles)
      /\ c.op = IF Kind(i) = "conv" THEN "backward_conv2d" ELSE "backward_linear"
  <2>1. CASE Kind(i) = "conv"
    BY <2>1 DEF BackwardCall, Operation, Kind
  <2>2. CASE Kind(i) = "linear"
    BY <2>2 DEF BackwardCall, Operation, Kind
  <2> QED
    BY <2>1, <2>2 DEF Parametric
<1>2. /\ DOMAIN roles = {"input", "weights", "grad_output", "grad_input", "grad_weights"}
      /\ roles["input"] = input /\ roles["grad_input"] = grad_input
      /\ roles["weights"] = Weights(net, i) /\ roles["grad_weights"] = Weights(net, i)
  OBVIOUS
<1> HIDE DEF roles
<1> QED
  BY <1>1, <1>2, BiasGiven

LEMMA BiasFills ==
  ASSUME Typed, NEW i \in 1..Depth, Kind(i) \in Parametric, NEW l, NEW input, NEW grad_output, NEW grad_input,
         NEW c, c = BackwardCall(net, i, l, input, grad_output, grad_input),
         NEW loops, loops = CpuLoops(c, Unchecked(c)),
         NEW loop, loop \in {"conv_grad_bias", "linear_grad_bias"},
         "grad_bias" \in DOMAIN c.t => 3 \in DOMAIN loops /\ loops[3] = loop
  PROVE  "grad_bias" \in DOMAIN c.t => Fills(c, "grad_bias")
<1> SUFFICES ASSUME "grad_bias" \in DOMAIN c.t PROVE Fills(c, "grad_bias")
  OBVIOUS
<1>1. PICK out : out = net.layers[i].out
  OBVIOUS
<1>2. out \in Sizes
  <2>1. LayerAssumed(net.layers[i], CurrentShape(net)[i - 1])
    BY NetworkAssumed DEF Typed, Depth
  <2> QED
    BY <1>1, <2>1 DEF LayerAssumed, Kind
<1>3. c.t["grad_bias"].shape = << out >> /\ c.t["weights"].shape[1] = out
  <2>1. Weights(net, i).shape[1] = out /\ Bias(net, i).shape = << out >>
    BY <1>1, ParametersOfLayer DEF Float, Tensor, Parametric
  <2> QED
    BY <2>1, RolesOfBackward
<1>4. Elements(c, "grad_bias") = out /\ Iterations(c, loop) = out
  <2>1. Iterations(c, loop) = c.t["weights"].shape[1]
    BY DEF Iterations
  <2> QED
    BY <1>2, <1>3, <2>1, ElementsOfOne DEF Elements
<1>5. Fill(c, loop, "grad_bias")
  BY <1>4, ElementsWritten DEF Fill
<1> QED
  BY <1>5, LoopFills

LEMMA ConvFills ==
  ASSUME Typed, NEW i \in 1..Depth, Kind(i) = "conv", NEW l, NEW input, input.device = net.device,
         NEW grad_output, NEW grad_input,
         NEW c, c = BackwardCall(net, i, l, input, grad_output, grad_input)
  PROVE  Fills(c, "grad_input") /\ GradientsFilled(c)
<1>0. net.device \in Backends
  BY NetworksAssumption DEF Typed
<1>1. c.op = "backward_conv2d" /\ c.t["input"] = input /\ net.device \in Backends
  BY <1>0, RolesOfBackward DEF Parametric
<1>2. Unchecked(c) = "backward_conv2d"
  <2>1. Unchecked(c) = backward_conv2d_unchecked(c.t["input"])
    BY <1>1 DEF Unchecked
  <2> QED
    BY <1>1, <2>1, KernelOf DEF backward_conv2d_unchecked
<1>3. PICK loops : loops = CpuLoops(c, Unchecked(c))
  OBVIOUS
<1>5. /\ Iterations(c, "conv_grad_input") = Elements(c, "grad_input")
      /\ Iterations(c, "conv_grad_weights") = Elements(c, "grad_weights")
  BY DEF Iterations
<1>6. /\ 1 \in DOMAIN loops /\ 2 \in DOMAIN loops
      /\ loops[1] = "conv_grad_input" /\ loops[2] = "conv_grad_weights"
  BY <1>1, <1>2, <1>3, BackwardLoops
<1>7. Fills(c, "grad_input")
  <2>1. Below(Elements(c, "grad_input")) \subseteq Below(Iterations(c, "conv_grad_input"))
    BY <1>5, <1>6
  <2>2. Fill(c, "conv_grad_input", "grad_input")
    BY <2>1, ElementsWritten DEF Fill
  <2> QED
    BY <1>3, <1>6, <2>2, LoopFills
<1>8. Fills(c, "grad_weights")
  <2>1. Below(Elements(c, "grad_weights")) \subseteq Below(Iterations(c, "conv_grad_weights"))
    BY <1>5, <1>6
  <2>2. Fill(c, "conv_grad_weights", "grad_weights")
    BY <2>1, ElementsWritten DEF Fill
  <2> QED
    BY <1>3, <1>6, <2>2, LoopFills
<1>9. "grad_bias" \in DOMAIN c.t => Fills(c, "grad_bias")
  BY <1>1, <1>2, <1>3, BackwardLoops, BiasFills DEF Parametric
<1> QED
  BY <1>7, <1>8, <1>9 DEF GradientsFilled

LEMMA LinearFills ==
  ASSUME Typed, Matrices, NEW i \in 1..Depth, Kind(i) = "linear", NEW l,
         NEW input, input.device = net.device, input.shape = Shape(i - 1),
         NEW grad_output, NEW grad_input, grad_input.shape = Shape(i - 1),
         NEW c, c = BackwardCall(net, i, l, input, grad_output, grad_input)
  PROVE  Fills(c, "grad_input") /\ GradientsFilled(c)
<1>0. net.device \in Backends
  BY NetworksAssumption DEF Typed
<1>1. /\ c.op = "backward_linear" /\ c.t["input"] = input
      /\ c.t["grad_input"] = grad_input /\ c.t["weights"] = Weights(net, i)
      /\ c.t["grad_weights"] = Weights(net, i) /\ net.device \in Backends
  BY <1>0, RolesOfBackward DEF Parametric
<1>2. Unchecked(c) = "backward_linear"
  <2>1. Unchecked(c) = backward_linear_unchecked(c.t["input"])
    BY <1>1 DEF Unchecked
  <2> QED
    BY <1>1, <2>1, KernelOf DEF backward_linear_unchecked
<1>3. PICK loops : loops = CpuLoops(c, Unchecked(c))
  OBVIOUS
<1>5. /\ Iterations(c, "linear_grad_input") = c.t["input"].shape[1] * c.t["input"].shape[2]
      /\ Iterations(c, "linear_grad_weights") = c.t["weights"].shape[1] * c.t["input"].shape[2]
  BY DEF Iterations
<1>6. /\ 1 \in DOMAIN loops /\ 2 \in DOMAIN loops
      /\ loops[1] = "linear_grad_input" /\ loops[2] = "linear_grad_weights"
  BY <1>1, <1>2, <1>3, BackwardLoops
<1>7. PICK a \in Nat, b \in Nat : Shape(i - 1) = <<a, b>>
  <2>1. net \in Networks /\ i - 1 \in 0..Len(net.layers)
    BY NetworkAssumed DEF Typed, Depth
  <2>2. Shape(i - 1) \in Seq(Nat)
    BY <2>1, ShapesAreBatches, BatchHas, SizesAreNumbers DEF Shape
  <2>3. Len(Shape(i - 1)) = 2
    BY DEF Matrices, Shape
  <2>4. Shape(i - 1)[1] \in Nat /\ Shape(i - 1)[2] \in Nat
        /\ Shape(i - 1) = <<Shape(i - 1)[1], Shape(i - 1)[2]>>
    BY <2>2, <2>3
  <2> QED
    BY <2>4
<1>8. net.layers[i].out \in Nat
  <2>1. LayerAssumed(net.layers[i], CurrentShape(net)[i - 1])
    BY NetworkAssumed DEF Typed, Depth
  <2> QED
    BY <2>1, SizesAreNumbers DEF LayerAssumed, Kind, Parametric
<1>9. /\ Weights(net, i).shape = <<net.layers[i].out, b>>
      /\ Weights(net, i).shape[1] = net.layers[i].out
  BY <1>7, ParametersOfLayer DEF Float, Tensor
<1>10. Fills(c, "grad_input")
  <2>1. Below(Elements(c, "grad_input")) \subseteq Below(Iterations(c, "linear_grad_input"))
    <3>1. Elements(c, "grad_input") = Numel(<<a, b>>) /\ Iterations(c, "linear_grad_input") = a * b
      BY <1>1, <1>5, <1>6, <1>7 DEF Elements
    <3> QED
      BY <3>1, PairBelow
  <2>2. Fill(c, "linear_grad_input", "grad_input")
    BY <2>1, ElementsWritten DEF Fill
  <2> QED
    BY <1>3, <1>6, <2>2, LoopFills
<1>11. Fills(c, "grad_weights")
  <2>1. Below(Elements(c, "grad_weights")) \subseteq Below(Iterations(c, "linear_grad_weights"))
    <3>1. /\ Elements(c, "grad_weights") = Numel(<<net.layers[i].out, b>>)
          /\ Iterations(c, "linear_grad_weights") = net.layers[i].out * b
      BY <1>1, <1>5, <1>6, <1>7, <1>9 DEF Elements
    <3> QED
      BY <1>8, <3>1, PairBelow
  <2>2. Fill(c, "linear_grad_weights", "grad_weights")
    BY <2>1, ElementsWritten DEF Fill
  <2> QED
    BY <1>3, <1>6, <2>2, LoopFills
<1>12. "grad_bias" \in DOMAIN c.t => Fills(c, "grad_bias")
  BY <1>1, <1>2, <1>3, BackwardLoops, BiasFills DEF Parametric
<1> QED
  BY <1>10, <1>11, <1>12 DEF GradientsFilled

LEMMA PoolFills ==
  ASSUME NEW i, Kind(i) = "maxpool", NEW l, NEW input, NEW grad_output, NEW grad_input,
         NEW c, c = BackwardCall(net, i, l, input, grad_output, grad_input)
  PROVE  Fills(c, "grad_input")
<1>1. c.op = "backward_maxpool2d"
  BY DEF BackwardCall, Operation, Kind
<1> QED
  BY <1>1 DEF Fills

LEMMA LossFills ==
  ASSUME NEW roles, roles["prediction"].device \in Backends,
         NEW c, c = LossCall("backward_categorical_cross_entropy", roles)
  PROVE  Fills(c, "grad_prediction")
<1>1. c.op = "backward_categorical_cross_entropy" /\ c.t = roles
  BY DEF LossCall, Operation
<1>2. Unchecked(c) = "backward_categorical_cross_entropy"
  <2>1. Unchecked(c) = backward_categorical_cross_entropy_unchecked(c.t["prediction"])
    BY <1>1 DEF Unchecked
  <2> QED
    BY <1>1, <2>1, KernelOf DEF backward_categorical_cross_entropy_unchecked
<1>3. PICK loops : loops = CpuLoops(c, Unchecked(c))
  OBVIOUS
<1>4. loops = <<"fill", "backward_categorical_loss">>
  BY <1>2, <1>3 DEF CpuLoops
<1>5. 1 \in DOMAIN loops /\ loops[1] = "fill"
  BY <1>4
<1>6. Below(Elements(c, "grad_prediction")) \subseteq Below(Iterations(c, "fill"))
  BY <1>5 DEF Iterations
<1>7. Fill(c, "fill", "grad_prediction")
  BY <1>6, ElementsWritten DEF Fill
<1> QED
  BY <1>3, <1>5, <1>7, LoopFills

-----------------------------------------------------------------------------
(* The invariant of the marks. *)

Clean == Matrices /\ ~OutputOverwritten

InTraining ==
  /\ at[1] \in {"loss gradient", "backward", "step"} => Training
  /\ InPass /\ Training => \A i \in 1..Depth : layers[i].mode = "Training"

\* What goes from layer to layer is of this pass.
Carried ==
  /\ at[1] = "begin" => Inputs.holds = <<"batch">>
  /\ at[1] \in {"forward", "metrics", "loss gradient"} => Pointed(current).holds = Left(Passed)
  /\ at[1] = "backward" => Pointed(current).holds = <<"backward", at[2] + 1>>

\* The tensor a layer has kept holds what it held when its forward call returned; an
\* activation alone may have kept the tensor the pass goes on with, until the loss.
Unspoiled(j) ==
  /\ layers[j].read # Stale
  /\ Kind(j) \in Parametric \cup {"activation"} =>
       /\ layers[j].saved \in Live /\ Pointed(layers[j].saved).holds = layers[j].read
       /\ layers[j].saved = current => /\ Kind(j) = "activation" /\ at[1] \notin {"backward", "step"}
                                       /\ \A k \in (j + 1)..Passed : Kind(k) = "flatten"
  /\ Kind(j) = "maxpool" /\ Training => layers[j].indices = layers[j].read

GradientsMade ==
  at[1] \in {"backward", "step"} =>
    \A i \in (Ahead + 1)..Depth : Kind(i) \in Parametric => layers[i].grad = <<"backward", i>>

Fresh == /\ InTraining /\ Carried /\ GradientsMade
         /\ InPass => \A j \in 1..Passed : Unspoiled(j)

LEMMA CleanStays ==
  ASSUME UNCHANGED net
  PROVE  Clean' = Clean /\ \A k : Left(k)' = Left(k)
<1>1. Depth' = Depth /\ (\A i : Kind(i)' = Kind(i)) /\ CurrentShape(net)' = CurrentShape(net)
  BY NetKept
<1>2. Matrices' = Matrices
  BY <1>1 DEF Matrices
<1>3. OutputOverwritten' = OutputOverwritten
  BY <1>1 DEF OutputOverwritten
<1>4. \A k : Left(k)' = Left(k)
  BY DEF Left
<1> QED
  BY <1>2, <1>3, <1>4 DEF Clean

LEMMA OutsideFresh == ASSUME at'[1] \in {"idle", "next"} PROVE Fresh'
<1>1. ~InPass' /\ at'[1] \notin {"begin", "forward", "metrics", "loss gradient", "backward", "step"}
  BY DEF InPass
<1> QED
  BY <1>1 DEF Fresh, InTraining, Carried, GradientsMade

LEMMA NoPassFresh ==
  ASSUME IInv, \/ Construct \/ (\E epochs \in 0..2, validation \in BOOLEAN : Fit(epochs, validation))
               \/ Evaluate \/ Run \/ (\E loader \in Loaders : ResetEpoch(loader))
               \/ Step \/ Deliver \/ EndEpoch
  PROVE  Fresh'
<1>1. driver = Idle => at = <<"idle">>
  BY DEF IInv, Driving
<1>2. at' = <<"idle">> \/ at' = <<"next">>
  <2>1. CASE Construct \/ \E loader \in Loaders : ResetEpoch(loader)
    BY <1>1, <2>1 DEF Construct, ResetEpoch
  <2>2. CASE \E epochs \in 0..2, validation \in BOOLEAN : Fit(epochs, validation)
    BY <2>2 DEF Fit, Throw, Begins
  <2>3. CASE Evaluate \/ Run \/ Step \/ Deliver
    BY <2>3 DEF Evaluate, Run, Step, Deliver, Begins
  <2>4. CASE EndEpoch
    BY <2>4 DEF EndEpoch, Throw
  <2> QED
    BY <2>1, <2>2, <2>3, <2>4
<1> QED
  BY <1>2, OutsideFresh

LEMMA NextBatchFresh == ASSUME IInv, NEW s \in 1..Storages, NextBatch(s) PROVE Fresh'
<1>1. CASE at' = <<"idle">>
  BY <1>1, OutsideFresh
<1>2. CASE /\ storage' = [storage EXCEPT ![Loader][s].holds = <<"batch">>] /\ at' = <<"begin">>
           /\ batch' = <<Loader, s, IF left[Loader] = 1 THEN 1 ELSE net.input[1]>>
  <2>1. at'[1] = "begin" /\ ~InPass'
    BY <1>2 DEF InPass
  <2>2. Inputs'.holds = <<"batch">>
    <3> DEFINE numbers == 1..Storages
               w == Loader
               m == [storage[w][s] EXCEPT !.holds = <<"batch">>]
    <3>1. storage \in [Loaders -> [numbers -> Memory]] /\ w \in Loaders /\ s \in numbers
      BY OwnerIsOne DEF IInv, Typed
    <3>2. storage' = [storage EXCEPT ![w][s] = m]
      BY <1>2
    <3>3. Inputs' = storage'[w][s]
      BY <1>2 DEF Inputs
    <3>4. m.holds = <<"batch">>
      <4>1. storage[w][s] \in Memory
        <5> HIDE DEF numbers, w
        <5> QED
          BY <3>1
      <4> QED
        BY <4>1 DEF Memory
    <3> HIDE DEF numbers, w, m
    <3> QED
      BY <3>1, <3>2, <3>3, <3>4
  <2> QED
    BY <2>1, <2>2 DEF Fresh, InTraining, Carried, GradientsMade
<1> QED
  BY <1>1, <1>2 DEF NextBatch, Throw

LEMMA BeginPassFresh == ASSUME IInv, Fresh, BeginPass PROVE Fresh'
<1>1. CASE at' = <<"idle">>
  BY <1>1, OutsideFresh
<1>2. CASE Go(<<"forward", 1>>, <<"batch">>)
  <2>1. /\ at' = <<"forward", 1>> /\ current' = <<"batch">> /\ at = <<"begin">>
        /\ UNCHANGED <<net, driver, batch, storage>>
        /\ layers' = [i \in 1..Depth |->
             [layers[i] EXCEPT !.mode = IF Owner = "Training" THEN "Training" ELSE @,
                !.read = Forget(@), !.indices = Forget(@), !.grad = Forget(@)]]
    BY <1>2 DEF BeginPass, Go, loaders
  <2>2. /\ at'[1] = "forward" /\ at'[2] = 1 /\ Depth' = Depth /\ Passed' = 0 /\ Owner' = Owner
        /\ Depth \in Nat
    <3>1. at'[1] = "forward" /\ at'[2] = 1
      BY <2>1
    <3>2. Passed' = at'[2] - 1
      BY <3>1 DEF Passed
    <3>3. Depth' = Depth /\ Owner' = Owner
      BY <2>1 DEF Depth, Owner
    <3>4. Depth \in Nat
      BY ShapeStep DEF IInv
    <3> QED
      BY <3>1, <3>2, <3>3, <3>4
  <2>3. InTraining'
    <3>1. ASSUME Training, NEW i \in 1..Depth PROVE layers'[i].mode = "Training"
      <4>1. layers[i] \in LayerState(i)
        BY DEF IInv, LayersTyped
      <4> QED
        BY <2>1, <3>1, <4>1 DEF Training, LayerState
    <3> QED
      BY <2>2, <3>1 DEF InTraining, Training
  <2>4. Carried'
    <3>1. Inputs.holds = <<"batch">>
      BY <2>1 DEF Fresh, Carried
    <3>2. Pointed(current)' = Inputs
      BY <2>1 DEF Pointed, Inputs
    <3>3. Left(0)' = <<"batch">>
      BY <2>1, <2>2, LeftStep, CleanStays
    <3>4. Left(Passed)' = Left(0)'
      BY <2>2
    <3> QED
      BY <2>2, <3>1, <3>2, <3>3, <3>4 DEF Carried
  <2>5. GradientsMade' /\ ~(\E j : j \in 1..Passed')
    BY <2>2 DEF GradientsMade
  <2> QED
    BY <2>3, <2>4, <2>5 DEF Fresh
<1> QED
  BY <1>1, <1>2 DEF BeginPass, Throw

\* A layer is through with its forward call.
LEMMA ForwardFresh ==
  ASSUME IInv, Clean, Fresh, NEW i \in 1..Depth, at = <<"forward", i>>, NEW next,
         Go(<<"forward", i + 1>>, next), UNCHANGED net,
         NEW r, layers' = [layers EXCEPT ![i] = r], r.mode = layers[i].mode, r.read # Stale,
         Kind(i) \in Parametric \cup {"activation"} => r.saved = current,
         Kind(i) \in Parametric => r.read = Pointed(current).holds /\ next # current,
         Kind(i) = "activation" => r.read = <<"forward", i>>,
         Kind(i) = "maxpool" /\ r.mode = "Training" => r.indices = r.read,
         next \in Live', Pointed(next)'.holds = Left(i), next = current \/ next \notin Live,
         (next = current) = (Kind(i) \in InPlace),
         \A q \in Live : q \in Live' /\ (q # next => Pointed(q)' = Pointed(q))
  PROVE  Fresh'
<1>0. /\ InPass /\ current \in Live /\ Pointed(current).holds = Left(i - 1)
      /\ Depth \in Nat /\ i \in Nat \ {0} /\ Passed = i - 1 /\ at[1] = "forward"
      /\ at' = <<"forward", i + 1>> /\ current' = next /\ UNCHANGED <<driver, batch>>
      /\ DOMAIN layers = 1..Depth
  <2>1. InPass /\ current \in Live /\ Depth \in Nat /\ i \in Nat \ {0} /\ Passed = i - 1 /\ at[1] = "forward"
    BY ForwardInput, ShapeStep DEF Passed, IInv
  <2> QED
    BY <2>1 DEF Go, IInv, LayersTyped, Fresh, Carried
<1>1. /\ InPass' /\ at'[1] = "forward" /\ Passed' = i
      /\ Depth' = Depth /\ (\A k : Kind(k)' = Kind(k)) /\ (\A k : Left(k)' = Left(k))
      /\ Training' = Training
  <2>1. (i + 1) - 1 = i
    BY <1>0
  <2> QED
    BY <1>0, <2>1, NetKept, CleanStays DEF InPass, Passed, Training, Owner
<1>2. layers'[i] = r /\ \A j \in 1..Depth : j # i => layers'[j] = layers[j]
  BY <1>0
<1>3. InTraining'
  <2>1. \A j \in 1..Depth : layers'[j].mode = layers[j].mode
    BY <1>2
  <2> QED
    BY <1>0, <1>1, <2>1 DEF Fresh, InTraining
<1>4. Carried'
  <2>1. Pointed(current)' = Pointed(next)'
    BY <1>0 DEF Pointed, Inputs
  <2>2. Left(Passed)' = Left(i)
    BY <1>1 DEF Left
  <2> QED
    BY <1>1, <2>1, <2>2 DEF Carried
<1>5. GradientsMade'
  BY <1>1 DEF GradientsMade
<1>6. PICK from : from = current
  OBVIOUS
<1>7. Left(i) = IF Kind(i) = "flatten" THEN Left(i - 1) ELSE <<"forward", i>>
  BY <1>0, LeftStep
<1>8. Unspoiled(i)'
  <2>1. ASSUME Kind(i) \in Parametric \cup {"activation"}
        PROVE  /\ layers'[i].saved = from /\ from \in Live' /\ Pointed(from)'.holds = r.read
               /\ from = next => Kind(i) = "activation"
    <3>1. CASE Kind(i) \in Parametric
      BY <1>0, <1>2, <1>6, <3>1
    <3>2. CASE Kind(i) = "activation"
      BY <1>0, <1>2, <1>6, <1>7, <3>2 DEF InPlace
    <3> QED
      BY <2>1, <3>1, <3>2
  <2>2. \A k \in (i + 1)..i : FALSE
    BY <1>0
  <2>3. Kind(i) = "maxpool" /\ Training => r.indices = r.read
    BY <1>0 DEF Fresh, InTraining
  <2>4. Kind(i) \in Parametric \cup {"activation"} => Pointed(layers[i].saved)' = Pointed(from)'
    BY <2>1 DEF Pointed, Inputs
  <2>5. layers'[i].read = r.read /\ layers'[i].indices = r.indices
    BY <1>2
  <2> QED
    BY <1>0, <1>1, <2>1, <2>2, <2>3, <2>4, <2>5 DEF Unspoiled
<1>9. ASSUME NEW j \in 1..(i - 1) PROVE Unspoiled(j)'
  <2>1. Unspoiled(j) /\ j \in 1..Depth /\ j # i /\ j < i
    BY <1>0 DEF Fresh
  <2>2. layers'[j] = layers[j]
    BY <1>2, <2>1
  <2>3. ASSUME Kind(j) \in Parametric \cup {"activation"}, NEW q, q = layers[j].saved
        PROVE  /\ q \in Live' /\ Pointed(q)'.holds = layers[j].read
               /\ q = next => /\ Kind(j) = "activation"
                              /\ \A k \in (j + 1)..i : Kind(k) = "flatten"
    <3>1. /\ q \in Live /\ Pointed(q).holds = layers[j].read
          /\ q = from => Kind(j) = "activation" /\ \A k \in (j + 1)..(i - 1) : Kind(k) = "flatten"
      BY <1>0, <1>6, <2>1, <2>3 DEF Unspoiled
    <3>2. CASE q # next
      BY <3>1, <3>2
    <3>3. CASE q = next
      <4>1. q = from /\ Kind(i) \in InPlace
        BY <1>6, <3>1, <3>3
      <4>2. Kind(i) # "activation"
        BY <2>1, <3>1, <4>1 DEF Clean, OutputOverwritten
      <4>3. Kind(i) = "flatten"
        BY <4>1, <4>2 DEF InPlace
      <4>4. Pointed(q)'.holds = layers[j].read
        BY <1>0, <1>6, <1>7, <3>1, <3>3, <4>1, <4>3
      <4>5. \A k \in (j + 1)..i : k = i \/ k \in (j + 1)..(i - 1)
        BY <1>0
      <4> QED
        BY <3>1, <4>1, <4>3, <4>4, <4>5
    <3> QED
      BY <3>2, <3>3
  <2>4. PICK q : q = layers[j].saved
    OBVIOUS
  <2>5. layers'[j].read # Stale /\ (Kind(j) = "maxpool" /\ Training => layers'[j].indices = layers'[j].read)
    BY <2>1, <2>2 DEF Unspoiled
  <2>6. Pointed(layers[j].saved)' = Pointed(q)'
    BY <2>2, <2>4 DEF Pointed, Inputs
  <2> QED
    BY <1>0, <1>1, <2>2, <2>3, <2>4, <2>5, <2>6 DEF Unspoiled
<1>10. \A j \in 1..i : j = i \/ j \in 1..(i - 1)
  BY <1>0
<1> QED
  BY <1>1, <1>3, <1>4, <1>5, <1>8, <1>9, <1>10 DEF Fresh

LEMMA ForwardToPoolFresh ==
  ASSUME IInv, Clean, Fresh, NEW i \in 1..Depth, at = <<"forward", i>>,
         Kind(i) \in Parametric \cup {"maxpool"},
         NEW input, input = Plain(Pointed(current)),
         NEW hit \in BOOLEAN, NEW l, l = Prepare(net.layers[i], layers[i], input),
         ForwardToPool(i, net.layers[i], l, input, hit), UNCHANGED net
  PROVE  Fresh'
<1> DEFINE t == Result(net, i, l, input)
           to == Requested(pool, t)
           mark == IF Kind(i) = "maxpool" THEN <<"forward", i>> ELSE Pointed(current).holds
           r == Remember(net.layers[i], l, hit, input, current, mark)
<1>0. /\ InPass /\ current \in Live /\ Pointed(current).shape = Shape(i - 1) /\ Given(input, i - 1)
      /\ mark \in Marks /\ <<"forward", i>> \in Marks
      /\ <<"forward", i>> \in Slots /\ <<"forward", i>> \notin Served
      /\ Kind(i) # "activation" /\ Kind(i) # "flatten" /\ Kind(i) \notin InPlace
      /\ UNCHANGED <<storage, lossPool>> /\ pool \in Seq(PoolEntry)
  BY ForwardInput DEF InPlace, Parametric, ForwardToPool, IInv, Typed
<1>1. l.out = Shape(i)
  BY <1>0, Prepared DEF IInv
<1>2. CASE at' = <<"idle">>
  BY <1>2, OutsideFresh
<1>3. CASE /\ pool' = Request(pool, t, <<"forward", i>>)
           /\ layers' = [layers EXCEPT ![i] = r] /\ Go(<<"forward", i + 1>>, <<"pool", to>>)
  <2>1. Askable(t) /\ Need[<<"forward", i>>] = Bytes(t)
    BY <1>1, ResultFits DEF IInv
  <2>2. /\ to \in Active(pool') /\ to \notin Active(pool) /\ pool'[to].holds = <<"forward", i>>
        /\ \A p \in Active(pool) : p \in Active(pool') /\ pool'[p] = pool[p]
    <3> HIDE DEF t
    <3>1. /\ to \in Active(pool') /\ to \notin Active(pool)
          /\ \A p \in Active(pool) : p \in Active(pool') /\ pool'[p] = pool[p]
      BY <1>0, <1>3, <2>1, RequestFits
    <3>2. HandsOut(pool, to, t, <<"forward", i>>, pool')
      BY <1>0, <1>3, RequestChangesOne
    <3> QED
      BY <3>1, <3>2 DEF HandsOut, Handed
  <2>3. /\ r.mode = layers[i].mode /\ r.read = mark
        /\ Kind(i) \in Parametric \cup {"activation"} => r.saved = current
        /\ Kind(i) = "maxpool" /\ r.mode = "Training" => r.indices = mark
    <3>1. PICK m \in Marks : m = mark
      BY <1>0
    <3>2. PICK s : s = Remember(net.layers[i], l, hit, input, current, m)
      OBVIOUS
    <3>3. s = r
      BY <3>1, <3>2
    <3> HIDE DEF r, mark, t
    <3>4. Typed /\ LayersTyped /\ Given(input, i - 1)
      BY <1>0 DEF IInv
    <3>5. /\ s.mode = layers[i].mode /\ s.read = m
          /\ Kind(i) \in Parametric \cup {"activation"} => s.saved = current
          /\ Kind(i) = "maxpool" /\ s.mode = "Training" => s.indices = m
      BY <3>2, <3>4, ModeRemembered
    <3> QED
      BY <3>1, <3>3, <3>5
  <2> HIDE DEF r
  <2>4. PICK next : next = <<"pool", to>>
    OBVIOUS
  <2>5. next \notin Live /\ next \in Live' /\ next # current
    BY <1>0, <2>2, <2>4 DEF Live
  <2>6. Pointed(next)'.holds = Left(i)
    <3>1. Pointed(next)' = pool'[to]
      BY <2>4 DEF Pointed
    <3>2. Left(i) = <<"forward", i>>
      BY <1>0, LeftStep, ShapeStep DEF IInv
    <3> QED
      BY <2>2, <3>1, <3>2
  <2>7. \A q \in Live : q \in Live' /\ (q # next => Pointed(q)' = Pointed(q))
    <3>1. UNCHANGED batch
      BY <1>3 DEF Go
    <3> QED
      BY <1>0, <2>2, <3>1, OthersStay
  <2>8. Go(<<"forward", i + 1>>, next)
    BY <1>3, <2>4
  <2>9. r.read # Stale /\ (Kind(i) \in Parametric => r.read = Pointed(current).holds)
        /\ (Kind(i) = "maxpool" /\ r.mode = "Training" => r.indices = r.read)
    <3>1. Passed = i - 1 /\ at[1] = "forward"
      BY DEF Passed
    <3>2. Pointed(current).holds # Stale
      BY <3>1, LeftIsFresh DEF Fresh, Carried
    <3>3. <<"forward", i>> # Stale
      BY DEF Stale
    <3> QED
      BY <2>3, <3>2, <3>3 DEF Parametric
  <2>10. /\ layers' = [layers EXCEPT ![i] = r] /\ r.mode = layers[i].mode /\ r.read # Stale
         /\ Kind(i) \in Parametric \cup {"activation"} => r.saved = current
         /\ Kind(i) \in Parametric => r.read = Pointed(current).holds /\ next # current
         /\ Kind(i) = "activation" => r.read = <<"forward", i>>
    BY <1>0, <1>3, <2>3, <2>5, <2>9
  <2>11. (next = current) = (Kind(i) \in InPlace)
    BY <1>0, <2>5
  <2> HIDE DEF mark, t, to
  <2> QED
    BY <2>5, <2>6, <2>7, <2>8, <2>9, <2>10, <2>11, ForwardFresh
<1>4. \/ Throw("reshape") \/ Throw("refused")
      \/ /\ pool' = Request(pool, t, <<"forward", i>>)
         /\ layers' = [layers EXCEPT ![i] = r] /\ Go(<<"forward", i + 1>>, <<"pool", to>>)
  <2>1. CASE ~MayRequest(pool, t)
    BY <2>1 DEF ForwardToPool, Reshapes
  <2>2. CASE MayRequest(pool, t)
    BY <2>2 DEF ForwardToPool, Refused, Kind
  <2> QED
    BY <2>1, <2>2
<1> QED
  BY <1>2, <1>3, <1>4 DEF Throw

\* A layer that works in place goes on with the tensor it was given.
LEMMA ForwardInPlaceFresh ==
  ASSUME IInv, Clean, Fresh, NEW i \in 1..Depth, at = <<"forward", i>>, Kind(i) \in InPlace,
         NEW t, t.shape \in Shapes, t.layout \in Layouts, Numel(t.shape) = Numel(Shape(i - 1)),
         Write(current, t, Left(i)), Left(i) \in Marks,
         NEW r, layers' = [layers EXCEPT ![i] = r], r.mode = layers[i].mode, r.read # Stale,
         Kind(i) = "activation" => r.saved = current /\ r.read = <<"forward", i>>,
         Go(<<"forward", i + 1>>, current), UNCHANGED net
  PROVE  Fresh'
<1>1. PICK next : next = current
  OBVIOUS
<1>2. InPass /\ next \in Live /\ Pointed(next).shape = Shape(i - 1)
  BY <1>1, ForwardInput
<1>3. UNCHANGED <<batch, driver>> /\ Write(next, t, Left(i)) /\ Go(<<"forward", i + 1>>, next)
  BY <1>1 DEF Go
<1>4. WriteLeaves(next)
  BY <1>2, <1>3, WriteKeeps DEF IInv
<1>5. \A q \in Live : q \in Live' /\ (q # next => Pointed(q)' = Pointed(q))
  BY <1>3, <1>4, WriteStays
<1>6. Pointed(next)'.holds = Left(i)
  <2>1. PICK mark : mark = Left(i)
    OBVIOUS
  <2>2. Write(next, t, mark)
    BY <1>3, <2>1
  <2> QED
    BY <1>2, <1>3, <2>1, <2>2, WriteSets
<1>7. Kind(i) \notin Parametric /\ Kind(i) # "maxpool"
  BY DEF InPlace, Parametric
<1> QED
  BY <1>1, <1>2, <1>3, <1>5, <1>6, <1>7, ForwardFresh

LEMMA ForwardActivationFresh ==
  ASSUME IInv, Clean, Fresh, NEW i \in 1..Depth, at = <<"forward", i>>, Kind(i) = "activation",
         NEW input, input = Plain(Pointed(current)),
         NEW hit \in BOOLEAN, NEW l, l = Prepare(net.layers[i], layers[i], input),
         ForwardActivation(i, net.layers[i], l, input, hit), UNCHANGED net
  PROVE  Fresh'
<1> DEFINE r == Remember(net.layers[i], l, hit, input, current, <<"forward", i>>)
<1>0. /\ Given(input, i - 1) /\ <<"forward", i>> \in Marks
  BY ForwardInput
<1>1. \/ /\ Write(current, input, <<"forward", i>>) /\ layers' = [layers EXCEPT ![i] = r]
         /\ Go(<<"forward", i + 1>>, current)
      \/ at' = <<"idle">>
  BY DEF ForwardActivation, Refused, Throw
<1>2. CASE at' = <<"idle">>
  BY <1>2, OutsideFresh
<1>3. CASE /\ Write(current, input, <<"forward", i>>) /\ layers' = [layers EXCEPT ![i] = r]
           /\ Go(<<"forward", i + 1>>, current)
  <2>1. r.mode = layers[i].mode /\ r.saved = current /\ r.read = <<"forward", i>>
    BY <1>0, ModeRemembered DEF IInv
  <2> HIDE DEF r
  <2>2. Left(i) = <<"forward", i>> /\ r.read # Stale
    BY <2>1, LeftStep, ShapeStep DEF IInv, Stale
  <2>3. input.shape = Shape(i - 1) /\ input.shape \in Shapes /\ input.layout \in Layouts
    <3>1. Shape(i) = Shape(i - 1) /\ Shape(i) \in Shapes
      <4>1. i \in 0..Depth
        BY ShapeStep DEF IInv
      <4> QED
        BY <4>1, ShapeStep DEF OutputShape, Kind, IInv
    <3> QED
      BY <1>0, <3>1 DEF Given
  <2>4. Kind(i) \in InPlace
    BY DEF InPlace
  <2> QED
    BY <1>0, <1>3, <2>1, <2>2, <2>3, <2>4, ForwardInPlaceFresh
<1> QED
  BY <1>1, <1>2, <1>3

LEMMA ForwardFlattenFresh ==
  ASSUME IInv, Clean, Fresh, NEW i \in 1..Depth, at = <<"forward", i>>, Kind(i) = "flatten",
         NEW input, input = Plain(Pointed(current)),
         NEW l, l = Prepare(net.layers[i], layers[i], input),
         ForwardFlatten(i, net.layers[i], l, input), UNCHANGED net
  PROVE  Fresh'
<1> DEFINE r == Remember(net.layers[i], l, FALSE, input, current, <<"forward", i>>)
           t == Result(net, i, l, input)
           mark == Pointed(current).holds
<1>0. Given(input, i - 1) /\ mark \in Marks /\ <<"forward", i>> \in Marks
  BY ForwardInput
<1>1. l.out = Shape(i)
  BY <1>0, Prepared DEF IInv
<1>2. CASE ~MayReshape(input, l.out)
  <2>1. at' = <<"idle">>
    BY <1>2 DEF ForwardFlatten, Reshapes, Throw
  <2> QED
    BY <2>1, OutsideFresh
<1>3. CASE MayReshape(input, l.out)
  <2>1. /\ Write(current, t, mark) /\ layers' = [layers EXCEPT ![i] = r]
        /\ Go(<<"forward", i + 1>>, current)
    BY <1>3 DEF ForwardFlatten
  <2>2. r.mode = layers[i].mode /\ r.read = <<"forward", i>>
    <3>1. PICK no \in BOOLEAN : no = FALSE
      OBVIOUS
    <3>2. PICK s : s = Remember(net.layers[i], l, no, input, current, <<"forward", i>>)
      OBVIOUS
    <3>3. s = r
      BY <3>1, <3>2
    <3> HIDE DEF r
    <3>4. s.mode = layers[i].mode /\ s.read = <<"forward", i>>
      BY <1>0, <3>2, ModeRemembered DEF IInv
    <3> QED
      BY <3>3, <3>4
  <2>3. mark = Left(i)
    <3>1. Passed = i - 1 /\ at[1] = "forward"
      BY DEF Passed
    <3>2. mark = Left(i - 1)
      BY <3>1 DEF Fresh, Carried
    <3>3. Left(i) = Left(i - 1)
      BY LeftStep, ShapeStep DEF IInv
    <3> QED
      BY <3>2, <3>3
  <2>4. t.shape = Shape(i) /\ t.layout \in Layouts
    <3>1. input.shape = Shape(i - 1) /\ input = Tensor(input.shape, input.dtype, input.device, input.layout)
      BY <1>0 DEF Given, Plain, Tensor
    <3>2. t = SetLayout(Reshape(input, Shape(i)), "Unknown")
      BY <1>1 DEF Result, Kind
    <3> QED
      BY <3>1, <3>2 DEF SetLayout, Reshape, Layouts, Tensor
  <2>5. Shape(i) \in Shapes /\ Numel(Shape(i)) = Numel(Shape(i - 1))
    BY <1>0, <1>1, <1>3, ShapeStep DEF MayReshape, Given, IInv
  <2>6. Kind(i) \in InPlace /\ Kind(i) # "activation"
    BY DEF InPlace
  <2> HIDE DEF r, t, mark
  <2>7. Write(current, t, Left(i)) /\ Left(i) \in Marks /\ r.read # Stale
    BY <1>0, <2>1, <2>2, <2>3 DEF Stale
  <2> QED
    BY <2>1, <2>2, <2>4, <2>5, <2>6, <2>7, ForwardInPlaceFresh
<1> QED
  BY <1>2, <1>3

LEMMA ForwardLayerFresh == ASSUME IInv, Clean, Fresh, ForwardLayer PROVE Fresh'
<1>1. PICK i \in 1..Depth : at = <<"forward", i>>
  <2>1. at[1] = "forward" /\ at[2] \in 1..Depth
    BY DEF ForwardLayer
  <2>2. PICK j \in 1..(Depth + 1) : at = <<"forward", j>>
    BY <2>1, PlacesOfPasses DEF IInv
  <2>3. at[2] = j
    BY <2>2
  <2> QED
    BY <2>1, <2>2, <2>3
<1> DEFINE input == Plain(Pointed(current))
           hit == Hit(net.layers[i], layers[i], input)
           l == Prepare(net.layers[i], layers[i], input)
<1>2. hit \in BOOLEAN
  BY DEF Hit, KeyMatches
<1>3. UNCHANGED net
  BY DEF ForwardLayer
<1>4. /\ Kind(i) \in Parametric \cup {"maxpool"} => ForwardToPool(i, net.layers[i], l, input, hit)
      /\ Kind(i) = "activation" => ForwardActivation(i, net.layers[i], l, input, hit)
      /\ Kind(i) = "flatten" => ForwardFlatten(i, net.layers[i], l, input)
  BY <1>1 DEF ForwardLayer, Kind, Parametric
<1>5. Kind(i) \in Parametric \cup {"maxpool", "activation", "flatten"}
  BY ShapeStep DEF IInv, Kinds, Parametric
<1> HIDE DEF input, hit, l
<1>6. CASE Kind(i) \in Parametric \cup {"maxpool"}
  BY <1>1, <1>2, <1>3, <1>4, <1>6, ForwardToPoolFresh DEF input, hit, l
<1>7. CASE Kind(i) = "activation"
  BY <1>1, <1>2, <1>3, <1>4, <1>7, ForwardActivationFresh DEF input, hit, l
<1>8. CASE Kind(i) = "flatten"
  BY <1>1, <1>3, <1>4, <1>8, ForwardFlattenFresh DEF input, l
<1> QED
  BY <1>5, <1>6, <1>7, <1>8

LEMMA NoneAbove == \A n \in Nat : \A i \in (n + 1)..n : FALSE
  OBVIOUS

\* Between forward and backward the model and its pool stay as they are.
LEMMA LossFresh ==
  ASSUME IInv, Fresh, at[1] \in {"forward", "metrics", "loss gradient"},
         at[1] = "forward" => at[2] = Depth + 1,
         at'[1] \in {"metrics", "loss gradient", "backward"}, at'[1] # "metrics" => Training,
         at'[1] = "backward" => /\ at'[2] = Depth /\ current' \notin Live
                                /\ Pointed(current)'.holds = <<"backward", Depth + 1>>,
         at'[1] # "backward" => current' = current,
         UNCHANGED <<net, batch, driver, layers, pool, storage>>
  PROVE  Fresh'
<1>0. /\ InPass /\ Depth \in Nat /\ Passed = Depth /\ current \in Live
      /\ Pointed(current).holds = Left(Depth)
  <2>1. InPass /\ Depth \in Nat /\ Passed = Depth /\ current \in Live
    BY Prediction
  <2> QED
    BY <2>1 DEF Fresh, Carried
<1>1. /\ InPass' /\ Passed' = Depth /\ Depth' = Depth /\ (\A k : Kind(k)' = Kind(k))
      /\ (\A k : Left(k)' = Left(k)) /\ Training' = Training
  BY NetKept, CleanStays DEF InPass, Passed, Training, Owner
<1>2. InTraining'
  BY <1>0, <1>1 DEF Fresh, InTraining
<1>3. \A q \in Live : q \in Live' /\ Pointed(q)' = Pointed(q)
  BY NothingMoves
<1>4. Carried'
  <2>1. CASE at'[1] = "backward"
    BY <1>1, <2>1 DEF Carried
  <2>2. CASE at'[1] # "backward"
    <3>1. PICK q : q = current
      OBVIOUS
    <3>2. Pointed(current)' = Pointed(q)'
      BY <2>2, <3>1 DEF Pointed, Inputs
    <3>3. Pointed(q)'.holds = Left(Depth)
      BY <1>0, <1>3, <3>1
    <3>4. Left(Passed)' = Left(Depth)
      BY <1>1 DEF Left
    <3> QED
      BY <2>2, <3>2, <3>3, <3>4 DEF Carried
  <2> QED
    BY <2>1, <2>2
<1>5. GradientsMade'
  <2>1. at'[1] = "backward" => Ahead' = Depth
    BY DEF Ahead
  <2>2. \A i \in (Depth + 1)..Depth : FALSE
    BY <1>0, NoneAbove
  <2>3. at'[1] # "step"
    OBVIOUS
  <2> QED
    BY <1>1, <2>1, <2>2, <2>3 DEF GradientsMade
<1>6. ASSUME NEW j \in 1..Depth PROVE Unspoiled(j)'
  <2>1. Unspoiled(j)
    BY <1>0 DEF Fresh
  <2>2. PICK q : q = layers[j].saved
    OBVIOUS
  <2>3. Pointed(layers[j].saved)' = Pointed(q)'
    BY <2>2 DEF Pointed, Inputs
  <2>4. ASSUME Kind(j) \in Parametric \cup {"activation"}
        PROVE  /\ q \in Live' /\ Pointed(q)'.holds = layers[j].read
               /\ q = current' => /\ Kind(j) = "activation" /\ at'[1] \notin {"backward", "step"}
                                  /\ \A k \in (j + 1)..Depth : Kind(k) = "flatten"
    BY <1>0, <1>3, <2>1, <2>2, <2>4 DEF Unspoiled
  <2> QED
    BY <1>1, <2>1, <2>2, <2>3, <2>4 DEF Unspoiled
<1> QED
  BY <1>1, <1>2, <1>4, <1>5, <1>6 DEF Fresh

LEMMA LossForwardFresh == ASSUME IInv, Fresh, LossForward PROVE Fresh'
<1>0. at[1] = "forward" /\ at[2] = Depth + 1 /\ UNCHANGED <<net, storage>>
  BY DEF LossForward, loaders
<1>1. \/ at' = <<"idle">>
      \/ at' = <<"metrics">> /\ current' = current /\ UNCHANGED <<batch, driver, layers, pool>>
  BY DEF LossForward, Reshapes, Throw, Go, model
<1>2. CASE at' = <<"idle">>
  BY <1>2, OutsideFresh
<1>3. CASE at' = <<"metrics">> /\ current' = current /\ UNCHANGED <<batch, driver, layers, pool>>
  <2>1. at'[1] = "metrics"
    BY <1>3
  <2> QED
    BY <1>0, <1>3, <2>1, LossFresh
<1> QED
  BY <1>1, <1>2, <1>3

LEMMA MetricsFresh == ASSUME IInv, Fresh, Metrics PROVE Fresh'
<1>0. at[1] = "metrics" /\ UNCHANGED <<net, layers, pool, storage>>
  BY DEF Metrics, model, loaders
<1>1. \/ at' = <<"idle">> \/ at' = <<"next">>
      \/ /\ Owner = "Training" /\ at' = <<"loss gradient">> /\ current' = current
         /\ UNCHANGED <<batch, driver>>
  BY Zenon DEF Metrics, Throw
<1>2. CASE at' = <<"idle">> \/ at' = <<"next">>
  BY <1>2, OutsideFresh
<1>3. CASE /\ Owner = "Training" /\ at' = <<"loss gradient">> /\ current' = current
           /\ UNCHANGED <<batch, driver>>
  <2>1. at'[1] = "loss gradient" /\ Training
    BY <1>3 DEF Training
  <2> QED
    BY <1>0, <1>3, <2>1, LossFresh
<1> QED
  BY <1>1, <1>2, <1>3

LEMMA LossBackwardFresh == ASSUME IInv, Fresh, LossBackward PROVE Fresh'
<1> DEFINE t == Plain(Pointed(last))
           roles == [prediction |-> t, target |-> Targets, grad_prediction |-> t]
           c == LossCall("backward_categorical_cross_entropy", roles)
           made == IF Pointed(last).holds = Left(Depth) /\ Fills(c, "grad_prediction")
                   THEN <<"backward", Depth + 1>> ELSE Garbage
           entries == lossPool[Owner]
           i == Requested(entries, t)
<1>0. at[1] = "loss gradient" /\ UNCHANGED <<net, storage>>
  BY DEF LossBackward, loaders
<1>1. CASE at' = <<"idle">>
  BY <1>1, OutsideFresh
<1>2. CASE /\ lossPool' = [lossPool EXCEPT ![Owner] = Request(@, t, made)]
           /\ at' = <<"backward", Depth>> /\ current' = <<"loss", i>>
           /\ UNCHANGED <<layers, pool, driver, batch>>
  <2>1. Given(t, Depth) /\ Pointed(last).holds = Left(Depth)
    <3>1. last = current /\ Passed = Depth /\ Given(Plain(Pointed(current)), Depth)
      BY <1>0, Prediction DEF IInv, CurrentInUse
    <3> QED
      BY <1>0, <3>1 DEF Fresh, Carried
  <2>2. Fills(c, "grad_prediction")
    <3>1. net.device \in Backends
      BY NetworksAssumption DEF IInv, Typed
    <3>2. roles["prediction"].device \in Backends
      <4> HIDE DEF t
      <4> QED
        BY <2>1, <3>1 DEF Given
    <3> HIDE DEF roles
    <3> QED
      BY <3>2, LossFills
  <2>3. made = <<"backward", Depth + 1>>
    BY <2>1, <2>2
  <2> HIDE DEF made, t
  <2>4. lossPool'[Owner][i].holds = made
    <3>1. lossPool'[Owner] = Request(entries, t, made)
      BY <1>2, OwnerIsOne DEF IInv, Typed
    <3>2. entries \in Seq(PoolEntry)
      BY LossPools
    <3>3. HandsOut(entries, i, t, made, lossPool'[Owner])
      BY <3>1, <3>2, RequestChangesOne
    <3> QED
      BY <3>3 DEF HandsOut, Handed
  <2>5. Pointed(current)' = lossPool'[Owner][i] /\ Owner' = Owner
    BY <1>2 DEF Pointed, Owner
  <2>6. current' \notin Live /\ at'[1] = "backward" /\ at'[2] = Depth
    BY <1>2 DEF Live
  <2>7. Training
    BY <1>0 DEF Fresh, InTraining
  <2> HIDE DEF i, entries, c, roles
  <2> QED
    BY <1>0, <1>2, <2>3, <2>4, <2>5, <2>6, <2>7, LossFresh
<1>3. CASE ~MayRequest(entries, t)
  BY <1>1, <1>3 DEF LossBackward, Reshapes, Throw
<1>4. CASE MayRequest(entries, t)
  BY <1>2, <1>4 DEF LossBackward, Go, model
<1> QED
  BY <1>3, <1>4

\* A layer is through with its backward call.
LEMMA BackwardFresh ==
  ASSUME IInv, Fresh, NEW i \in 1..Depth, at = <<"backward", i>>, NEW next, Go(Down(i), next),
         UNCHANGED net, Pointed(next)'.holds = <<"backward", i>>, next = current \/ next \notin Live,
         \A q \in Live : q \in Live' /\ (q # next => Pointed(q)' = Pointed(q)),
         \A j \in 1..Depth :
           /\ layers'[j].mode = layers[j].mode /\ layers'[j].saved = layers[j].saved
           /\ layers'[j].read = layers[j].read /\ layers'[j].indices = layers[j].indices
           /\ layers'[j].grad = IF j = i /\ Kind(i) \in Parametric THEN <<"backward", i>> ELSE layers[j].grad
  PROVE  Fresh'
<1>0. /\ InPass /\ Depth \in Nat /\ i \in Nat \ {0} /\ Passed = Depth /\ Ahead = i /\ at[1] = "backward"
      /\ at' = Down(i) /\ current' = next /\ UNCHANGED <<driver, batch>>
  BY BackwardInput DEF Go
<1>1. /\ at'[1] \in {"backward", "step"}
      /\ at'[1] = "backward" => at'[2] = i - 1
      /\ at'[1] = "step" => i = 1
  BY <1>0, DownIsAPlace
<1>2. /\ InPass' /\ Passed' = Depth /\ Ahead' = i - 1 /\ Depth' = Depth
      /\ (\A k : Kind(k)' = Kind(k)) /\ Training' = Training
  <2>1. InPass' /\ Passed' = Depth
    BY <1>1, NetKept DEF InPass, Passed
  <2>2. Ahead' = i - 1
    BY <1>0, <1>1 DEF Ahead
  <2> QED
    BY <1>0, <2>1, <2>2, NetKept DEF Training, Owner
<1>3. InTraining'
  <2>1. Training
    BY <1>0 DEF Fresh, InTraining
  <2> QED
    BY <1>0, <1>2, <2>1 DEF Fresh, InTraining
<1>4. Carried'
  <2>1. Pointed(current)' = Pointed(next)'
    BY <1>0 DEF Pointed, Inputs
  <2>2. at'[1] = "backward" => at'[2] + 1 = i
    BY <1>0, <1>1
  <2> QED
    BY <1>1, <2>1, <2>2 DEF Carried
<1>5. GradientsMade'
  <2>1. \A j \in ((i - 1) + 1)..Depth : j \in 1..Depth /\ (j = i \/ j \in (i + 1)..Depth)
    BY <1>0
  <2>2. \A j \in (i + 1)..Depth : Kind(j) \in Parametric => layers[j].grad = <<"backward", j>>
    BY <1>0 DEF Fresh, GradientsMade
  <2>3. \A j \in (Ahead' + 1)..Depth : Kind(j) \in Parametric => layers'[j].grad = <<"backward", j>>
    BY <1>2, <2>1, <2>2
  <2> QED
    BY <1>2, <2>3 DEF GradientsMade
<1>6. ASSUME NEW j \in 1..Depth PROVE Unspoiled(j)'
  <2>1. Unspoiled(j)
    BY <1>0 DEF Fresh
  <2>2. PICK q : q = layers[j].saved
    OBVIOUS
  <2>3. Pointed(layers[j].saved)' = Pointed(q)'
    BY <2>2 DEF Pointed, Inputs
  <2>4. ASSUME Kind(j) \in Parametric \cup {"activation"}
        PROVE  q \in Live' /\ Pointed(q)'.holds = layers[j].read /\ q # next
    <3>1. q \in Live /\ q # current /\ Pointed(q).holds = layers[j].read
      BY <1>0, <2>1, <2>2, <2>4 DEF Unspoiled
    <3> QED
      BY <3>1
  <2> QED
    BY <1>0, <1>2, <2>1, <2>2, <2>3, <2>4 DEF Unspoiled
<1> QED
  BY <1>2, <1>3, <1>4, <1>5, <1>6 DEF Fresh

\* A layer that works in place writes over the gradient it was given.
LEMMA BackwardInPlaceFresh ==
  ASSUME IInv, Fresh, NEW i \in 1..Depth, at = <<"backward", i>>, Kind(i) \in InPlace,
         NEW t, t.shape \in Shapes, t.layout \in Layouts, Numel(t.shape) = Numel(Pointed(current).shape),
         Write(current, t, <<"backward", i>>),
         Go(Down(i), current), UNCHANGED <<net, layers>>
  PROVE  Fresh'
<1>1. PICK next : next = current
  OBVIOUS
<1>2. InPass /\ next \in Live \cup LossOnes /\ <<"backward", i>> \in Marks
  BY <1>1, BackwardInput
<1>3. UNCHANGED <<batch, driver>> /\ Write(next, t, <<"backward", i>>) /\ Go(Down(i), next)
  BY <1>1 DEF Go
<1>4. WriteLeaves(next)
  BY <1>1, <1>2, <1>3, WriteKeeps DEF IInv
<1>5. \A q \in Live : q \in Live' /\ (q # next => Pointed(q)' = Pointed(q))
  BY <1>3, <1>4, WriteStays
<1>6. Pointed(next)'.holds = <<"backward", i>>
  BY <1>2, <1>3, WriteSets
<1>7. Kind(i) \notin Parametric
  BY DEF InPlace, Parametric
<1> QED
  BY <1>1, <1>3, <1>5, <1>6, <1>7, BackwardFresh

\* A layer that writes the gradient of its input into a tensor of the pool.
LEMMA BackwardToPoolFresh ==
  ASSUME IInv, Fresh, NEW i \in 1..Depth, at = <<"backward", i>>, Kind(i) \notin InPlace,
         NEW t, Askable(t), Need[<<"backward", i>>] = Bytes(t),
         pool' = Request(pool, t, <<"backward", i>>), UNCHANGED <<net, lossPool, storage>>,
         Go(Down(i), <<"pool", Requested(pool, t)>>),
         layers' = IF Kind(i) \in Parametric THEN [layers EXCEPT ![i].grad = <<"backward", i>>] ELSE layers
  PROVE  Fresh'
<1>0. /\ InPass /\ <<"backward", i>> \in Slots /\ <<"backward", i>> \notin Served
      /\ <<"backward", i>> \in Marks /\ pool \in Seq(PoolEntry)
  BY BackwardInput DEF IInv, Typed
<1>1. PICK to : to = Requested(pool, t)
  OBVIOUS
<1>2. /\ to \in Active(pool') /\ to \notin Active(pool) /\ pool'[to].holds = <<"backward", i>>
      /\ \A p \in Active(pool) : p \in Active(pool') /\ pool'[p] = pool[p]
  <2>1. HandsOut(pool, to, t, <<"backward", i>>, pool')
    BY <1>0, <1>1, RequestChangesOne
  <2>2. /\ to \in Active(pool') /\ to \notin Active(pool)
        /\ \A p \in Active(pool) : p \in Active(pool') /\ pool'[p] = pool[p]
    BY <1>0, <1>1, RequestFits
  <2> QED
    BY <2>1, <2>2 DEF HandsOut, Handed
<1>3. \A j \in 1..Depth :
        /\ layers'[j].mode = layers[j].mode /\ layers'[j].saved = layers[j].saved
        /\ layers'[j].read = layers[j].read /\ layers'[j].indices = layers[j].indices
        /\ layers'[j].grad = IF j = i /\ Kind(i) \in Parametric THEN <<"backward", i>> ELSE layers[j].grad
  <2>1. CASE Kind(i) \notin Parametric
    BY <2>1
  <2>2. CASE Kind(i) \in Parametric
    <3> DEFINE r == [layers[i] EXCEPT !.grad = <<"backward", i>>]
    <3>1. DOMAIN layers = 1..Depth /\ layers[i] \in LayerState(i)
      BY DEF IInv, LayersTyped
    <3>2. /\ r.mode = layers[i].mode /\ r.saved = layers[i].saved /\ r.indices = layers[i].indices
          /\ r.read = layers[i].read /\ r.grad = <<"backward", i>>
      BY <3>1 DEF LayerState
    <3>3. layers' = [layers EXCEPT ![i] = r]
      BY <2>2
    <3> HIDE DEF r
    <3> QED
      BY <2>2, <3>1, <3>2, <3>3
  <2> QED
    BY <2>1, <2>2
<1>4. PICK next : next = <<"pool", to>>
  OBVIOUS
<1>5. next \notin Live /\ Go(Down(i), next)
  BY <1>1, <1>2, <1>4 DEF Live
<1>6. Pointed(next)'.holds = <<"backward", i>>
  <2>1. Pointed(next)' = pool'[to]
    BY <1>4 DEF Pointed
  <2> QED
    BY <1>2, <2>1
<1>7. \A q \in Live : q \in Live' /\ (q # next => Pointed(q)' = Pointed(q))
  <2>1. UNCHANGED batch
    BY DEF Go
  <2> QED
    BY <1>2, <2>1, OthersStay
<1> QED
  BY <1>3, <1>5, <1>6, <1>7, BackwardFresh

\* What a layer goes back with is what its forward call has left.
LEMMA NothingSpoiled ==
  ASSUME IInv, Fresh, NEW i \in 1..Depth, at = <<"backward", i>>, NEW l, l = layers[i]
  PROVE  /\ Pointed(current).holds = <<"backward", i + 1>> /\ l.read # Stale
         /\ Kind(i) \in Parametric \cup {"activation"} => Pointed(l.saved).holds = l.read
         /\ Kind(i) = "maxpool" => l.indices = l.read
<1>1. InPass /\ Passed = Depth /\ at[1] = "backward" /\ at[2] = i
  BY BackwardInput
<1>2. Unspoiled(i) /\ Training /\ Pointed(current).holds = <<"backward", i + 1>>
  BY <1>1 DEF Fresh, InTraining, Carried
<1> QED
  BY <1>2 DEF Unspoiled

\* Its gradients are made whole.
LEMMA MadeWhole ==
  ASSUME IInv, Matrices, NEW i \in 1..Depth, at = <<"backward", i>>, Kind(i) \in Parametric \cup {"maxpool"},
         NEW l, l = layers[i], NEW grad_output, grad_output = Plain(Pointed(current)),
         NEW input, Kind(i) \in Parametric => input = Plain(Pointed(l.saved)),
         NEW t, t = GradInput(net.layers[i], l, input, grad_output),
         NEW c, c = BackwardCall(net, i, l, input, grad_output, t)
  PROVE  Fills(c, "grad_input") /\ (Kind(i) \in Parametric => GradientsFilled(c))
<1>1. InPass /\ Kept(i)
  BY BackwardInput
<1>2. ASSUME Kind(i) \in Parametric PROVE Given(input, i - 1)
  <2>1. PICK q : q = l.saved
    OBVIOUS
  <2>2. q \in Live /\ Pointed(q).shape = Shape(i - 1) /\ input = Plain(Pointed(q))
    BY <1>1, <1>2, <2>1 DEF Kept
  <2> QED
    BY <1>1, <2>2, PlainGiven DEF IInv
<1>3. CASE Kind(i) = "conv"
  <2>1. Kind(i) \in Parametric
    BY <1>3 DEF Parametric
  <2>2. input.device = net.device
    BY <1>2, <2>1 DEF Given
  <2> QED
    BY <1>3, <2>2, ConvFills DEF IInv
<1>4. CASE Kind(i) = "linear"
  <2>1. Kind(i) \in Parametric
    BY <1>4 DEF Parametric
  <2>2. input.device = net.device /\ input.shape = Shape(i - 1)
    BY <1>2, <2>1 DEF Given
  <2>3. t.shape = Shape(i - 1)
    BY <1>4, <2>2 DEF GradInput, Kind, Float, Tensor
  <2> QED
    BY <1>4, <2>2, <2>3, LinearFills DEF IInv
<1>5. CASE Kind(i) = "maxpool"
  BY <1>5, PoolFills DEF Parametric
<1> QED
  BY <1>3, <1>4, <1>5 DEF Parametric

LEMMA BackwardLayerFresh == ASSUME IInv, Clean, Fresh, BackwardLayer PROVE Fresh'
<1>1. PICK i \in 1..Depth : at = <<"backward", i>>
  <2>1. at[1] = "backward" /\ at[2] \in 1..Depth
    BY DEF BackwardLayer
  <2>2. PICK j \in 0..Depth : at = <<"backward", j>>
    BY <2>1, PlacesOfPasses DEF IInv
  <2>3. at[2] = j
    BY <2>2
  <2> QED
    BY <2>1, <2>2, <2>3
<1> DEFINE layer == net.layers[i]
           l == layers[i]
           above == Pointed(current)
           grad_output == Plain(above)
           input == IF l.saved = Never THEN grad_output ELSE Plain(Pointed(l.saved))
           grad_input == GradInput(layer, l, input, grad_output)
           c == BackwardCall(net, i, l, input, grad_output, grad_input)
           reshapes == IF layer.kind = "flatten" THEN MayReshape(grad_output, l.shape)
                       ELSE layer.kind # "activation" => MayRequest(pool, grad_input)
           intact == above.holds = <<"backward", i + 1>>
                     /\ l.read # Stale
                     /\ (layer.kind \in Parametric \cup {"activation"} => Pointed(l.saved).holds = l.read)
                     /\ (layer.kind = "maxpool" => l.indices = l.read)
           mark(fills) == IF intact /\ fills THEN <<"backward", i>> ELSE Garbage
<1>2. UNCHANGED net
  BY DEF BackwardLayer
<1>3. intact
  BY <1>1, NothingSpoiled DEF Kind
<1>4. mark(TRUE) = <<"backward", i>>
  BY <1>3
<1>5. \/ at' = <<"idle">>
      \/ /\ Kind(i) = "flatten" /\ MayReshape(grad_output, l.shape)
         /\ Write(current, grad_input, mark(TRUE)) /\ Go(Down(i), current) /\ UNCHANGED layers
      \/ /\ Kind(i) = "activation"
         /\ Write(current, grad_output, mark(TRUE)) /\ Go(Down(i), current) /\ UNCHANGED layers
      \/ /\ Kind(i) \notin {"flatten", "activation"} /\ MayGoBack(layer, l)
         /\ pool' = Request(pool, grad_input, mark(Fills(c, "grad_input")))
         /\ layers' = IF Kind(i) \in Parametric
                      THEN [layers EXCEPT ![i].grad = mark(GradientsFilled(c))]
                      ELSE layers
         /\ Go(Down(i), <<"pool", Requested(pool, grad_input)>>)
         /\ UNCHANGED <<storage, lossPool>>
  <2>1. IF ~MayGoBack(layer, l)
        THEN Throw("not ready") /\ UNCHANGED <<call, layers, pool, storage, lossPool>>
        ELSE IF ~reshapes THEN Reshapes(layers) /\ UNCHANGED <<storage, lossPool>>
        ELSE IF layer.kind = "flatten"
        THEN Write(current, grad_input, mark(TRUE)) /\ Go(Down(i), current) /\ UNCHANGED <<call, layers>>
        ELSE
          IF ~l.fast /\ Entry(c) = Threw
          THEN /\ Refused
               /\ pool' = IF layer.kind = "activation" THEN pool ELSE Request(pool, grad_input, Stale)
               /\ UNCHANGED <<layers, storage, lossPool>>
          ELSE IF layer.kind = "activation"
          THEN /\ Write(current, grad_output, mark(TRUE))
               /\ Go(Down(i), current) /\ UNCHANGED layers
          ELSE /\ pool' = Request(pool, grad_input, mark(Fills(c, "grad_input")))
               /\ layers' = IF layer.kind \in Parametric
                            THEN [layers EXCEPT ![i].grad = mark(GradientsFilled(c))]
                            ELSE layers
               /\ Go(Down(i), <<"pool", Requested(pool, grad_input)>>)
               /\ UNCHANGED <<storage, lossPool>>
    BY <1>1, ZenonT(30) DEF BackwardLayer, Down
  <2>2. layer.kind = "flatten" /\ reshapes => MayReshape(grad_output, l.shape)
    OBVIOUS
  <2>3. Throw("not ready") \/ Reshapes(layers) \/ Refused => at' = <<"idle">>
    BY DEF Throw, Reshapes, Refused
  <2> HIDE DEF reshapes, mark, grad_input, grad_output, c, l
  <2> QED
    BY <2>1, <2>2, <2>3, Zenon DEF Kind
<1>6. /\ InPass /\ Kept(i) /\ i - 1 \in 0..Depth
      /\ grad_output.shape \in Shapes /\ grad_output.layout \in Layouts
      /\ grad_output = Tensor(grad_output.shape, grad_output.dtype, grad_output.device, grad_output.layout)
      /\ grad_output.shape = Pointed(current).shape
  BY <1>1, BackwardInput DEF Plain, Tensor
<1>7. CASE at' = <<"idle">>
  BY <1>7, OutsideFresh
<1>8. CASE /\ Kind(i) = "flatten" /\ MayReshape(grad_output, l.shape)
           /\ Write(current, grad_input, mark(TRUE)) /\ Go(Down(i), current) /\ UNCHANGED layers
  <2>1. l.shape = Shape(i - 1) /\ Shape(i - 1) \in Shapes
    BY <1>6, <1>8, ShapeStep DEF Kept, IInv
  <2>2. grad_input.shape = Shape(i - 1) /\ grad_input.layout = grad_output.layout
    <3>1. grad_input = Reshape(grad_output, l.shape)
      BY <1>8 DEF GradInput, Kind
    <3> HIDE DEF grad_output, grad_input
    <3> QED
      BY <1>6, <2>1, <3>1 DEF Reshape, Tensor
  <2>3. Numel(grad_input.shape) = Numel(Pointed(current).shape)
    BY <1>6, <1>8, <2>1, <2>2 DEF MayReshape
  <2>4. Kind(i) \in InPlace /\ Write(current, grad_input, <<"backward", i>>)
    BY <1>4, <1>8 DEF InPlace
  <2> HIDE DEF grad_input, grad_output, mark
  <2> QED
    BY <1>1, <1>2, <1>6, <1>8, <2>1, <2>2, <2>3, <2>4, BackwardInPlaceFresh
<1>9. CASE /\ Kind(i) = "activation"
           /\ Write(current, grad_output, mark(TRUE)) /\ Go(Down(i), current) /\ UNCHANGED layers
  <2>1. Kind(i) \in InPlace /\ Write(current, grad_output, <<"backward", i>>)
    BY <1>4, <1>9 DEF InPlace
  <2> HIDE DEF grad_output, mark
  <2> QED
    BY <1>1, <1>2, <1>6, <1>9, <2>1, BackwardInPlaceFresh
<1>10. CASE /\ Kind(i) \notin {"flatten", "activation"} /\ MayGoBack(layer, l)
            /\ pool' = Request(pool, grad_input, mark(Fills(c, "grad_input")))
            /\ layers' = IF Kind(i) \in Parametric
                         THEN [layers EXCEPT ![i].grad = mark(GradientsFilled(c))]
                         ELSE layers
            /\ Go(Down(i), <<"pool", Requested(pool, grad_input)>>)
            /\ UNCHANGED <<storage, lossPool>>
  <2>1. Kind(i) \in Parametric \cup {"maxpool"} /\ Kind(i) \notin InPlace
    BY <1>10, ShapeStep DEF IInv, Kinds, InPlace, Parametric
  <2>2. Kind(i) \in Parametric => input = Plain(Pointed(l.saved))
    <3>1. Kind(i) \in Parametric => l.saved # Never
      BY <1>10 DEF MayGoBack, Kind, Parametric
    <3> QED
      BY <3>1
  <2>3. /\ l = layers[i] /\ grad_output = Plain(Pointed(current))
        /\ grad_input = GradInput(net.layers[i], l, input, grad_output)
        /\ c = BackwardCall(net, i, l, input, grad_output, grad_input)
    OBVIOUS
  <2>4. Askable(grad_input) /\ Need[<<"backward", i>>] = Bytes(grad_input)
    <3> HIDE DEF grad_output, input, grad_input, c
    <3> QED
      BY <1>1, <2>1, <2>2, <2>3, GradientFits
  <2>5. Fills(c, "grad_input") /\ (Kind(i) \in Parametric => GradientsFilled(c))
    <3> HIDE DEF l, grad_output, input, grad_input, c
    <3> QED
      BY <1>1, <2>1, <2>2, <2>3, MadeWhole DEF Clean
  <2>6. /\ mark(Fills(c, "grad_input")) = <<"backward", i>>
        /\ Kind(i) \in Parametric => mark(GradientsFilled(c)) = <<"backward", i>>
    BY <1>3, <2>5
  <2> HIDE DEF mark, c, grad_input
  <2>7. /\ pool' = Request(pool, grad_input, <<"backward", i>>)
        /\ layers' = IF Kind(i) \in Parametric THEN [layers EXCEPT ![i].grad = <<"backward", i>>] ELSE layers
    BY <1>10, <2>6
  <2> QED
    BY <1>1, <1>2, <1>10, <2>1, <2>4, <2>7, BackwardToPoolFresh
<1> QED
  BY <1>5, <1>7, <1>8, <1>9, <1>10

LEMMA StutterFresh == ASSUME Fresh, UNCHANGED vars PROVE Fresh'
<1>1. UNCHANGED <<net, layers, pool, lossPool, storage, driver, at, batch, current>>
  BY DEF vars
<1>2. /\ Depth' = Depth /\ (\A k : Kind(k)' = Kind(k)) /\ (\A k : Left(k)' = Left(k))
      /\ Passed' = Passed /\ Ahead' = Ahead /\ Training' = Training /\ InPass' = InPass
      /\ Live' = Live /\ Inputs' = Inputs /\ \A q : Pointed(q)' = Pointed(q)
  BY <1>1, NetKept, CleanStays DEF Passed, Ahead, Training, Owner, InPass, Live, Active, Inputs, Pointed
<1>3. InTraining' = InTraining
  BY <1>1, <1>2 DEF InTraining
<1>4. Carried' = Carried
  <2>1. Pointed(current)' = Pointed(current) /\ Left(Passed)' = Left(Passed)
    BY <1>1, <1>2 DEF Pointed, Inputs, Left
  <2> QED
    BY <1>1, <1>2, <2>1 DEF Carried
<1>5. GradientsMade' = GradientsMade
  BY <1>1, <1>2 DEF GradientsMade
<1>6. \A j : Unspoiled(j)' = Unspoiled(j)
  <2> SUFFICES ASSUME NEW j PROVE Unspoiled(j)' = Unspoiled(j)
    OBVIOUS
  <2>1. Pointed(layers[j].saved)' = Pointed(layers[j].saved)
    BY <1>1, <1>2 DEF Pointed, Inputs
  <2> QED
    BY <1>1, <1>2, <2>1 DEF Unspoiled
<1> QED
  BY <1>2, <1>3, <1>4, <1>5, <1>6 DEF Fresh

LEMMA NextFresh == ASSUME IInv, Clean, Fresh, Next PROVE Fresh'
<1>1. CASE \/ Construct \/ (\E epochs \in 0..2, validation \in BOOLEAN : Fit(epochs, validation))
           \/ Evaluate \/ Run \/ (\E loader \in Loaders : ResetEpoch(loader))
           \/ Step \/ Deliver \/ EndEpoch
  BY <1>1, NoPassFresh
<1>2. ASSUME NEW s \in 1..Storages, NextBatch(s) PROVE Fresh'
  BY <1>2, NextBatchFresh
<1>3. CASE BeginPass
  BY <1>3, BeginPassFresh
<1>4. CASE ForwardLayer
  BY <1>4, ForwardLayerFresh
<1>5. CASE LossForward
  BY <1>5, LossForwardFresh
<1>6. CASE Metrics
  BY <1>6, MetricsFresh
<1>7. CASE LossBackward
  BY <1>7, LossBackwardFresh
<1>8. CASE BackwardLayer
  BY <1>8, BackwardLayerFresh
<1> QED
  BY <1>1, <1>2, <1>3, <1>4, <1>5, <1>6, <1>7, <1>8 DEF Next

\* When the optimizer steps, the gradient of every layer with parameters is one of this batch,
\* made whole and from tensors that nothing has overwritten since the forward pass, whatever
\* the network, as long as no activation overwrites the output another one keeps and linear
\* layers and Softmax are given matrices: the tensors that TensorPool hands out again, the
\* activations that work in place, and the passes that threw half-way leave nothing behind.
THEOREM GradientsAreOfThisBatch == Spec => []GradientsOfThisBatch
<1> DEFINE Inv == IInv /\ (Clean => Fresh)
<1>1. Init => Inv
  <2> SUFFICES ASSUME Init PROVE Inv
    OBVIOUS
  <2>1. at[1] = "idle" /\ ~InPass
    BY DEF Init, InPass
  <2>2. Fresh
    BY <2>1 DEF Fresh, InTraining, Carried, GradientsMade
  <2> QED
    BY <2>2, InitHolds
<1>2. Inv /\ [Next]_vars => Inv'
  <2> SUFFICES ASSUME Inv, [Next]_vars PROVE Inv'
    OBVIOUS
  <2>1. IInv'
    BY NextKeeps, StutterKeeps
  <2>2. Clean' = Clean
    BY NetStays, CleanStays
  <2>3. Clean => Fresh'
    BY NextFresh, StutterFresh
  <2> QED
    BY <2>1, <2>2, <2>3
<1>3. Inv => GradientsOfThisBatch
  <2> SUFFICES ASSUME Inv, at = <<"step">>, Matrices, ~OutputOverwritten, NEW i \in 1..Depth,
                      Kind(i) \in Parametric
               PROVE  layers[i].grad = <<"backward", i>>
    BY DEF GradientsOfThisBatch
  <2>1. at[1] = "step" /\ Ahead = 0
    BY DEF Ahead
  <2>2. i \in (Ahead + 1)..Depth
    BY <2>1
  <2> QED
    BY <2>1, <2>2 DEF Clean, Fresh, GradientsMade
<1> QED
  BY <1>1, <1>2, <1>3, PTL DEF Spec

-----------------------------------------------------------------------------
(* The cells of an operation, as KernelLaunch_proofs has them: it looks at  *)
(* single calls, and what it proves of one that the validation accepts      *)
(* holds of the calls that the layers and the loss make.                    *)

LOCAL K == INSTANCE KernelLaunch_proofs
  WITH Calls <- {}, BlockLine <- 2^3, BlockAxis <- 1, BiasTile <- 1, BiasLanes <- 1,
       outcome <- 0, launches <- <<>>, running <- FALSE, stage <- 0, todo <- 0, mem <- 0

LEMMA SameBody == ASSUME NEW c, NEW loop, NEW i PROVE K!Body(c, loop, i) = Body(c, loop, i)
BY Zenon DEF K!Min, Min, K!Cardinality, Cardinality, K!Body, Body, K!Effect, Effect, K!Add,
  Add, K!AtomicAdd, AtomicAdd, K!Below, Below, K!Offset, Offset, K!Cell, Cell, K!Elements,
  Elements, K!ConvDims, ConvDims, K!UsedBias, UsedBias, K!ConvCell, ConvCell, K!ValidCell,
  ValidCell, K!PaddedCell, PaddedCell, K!StridedCell, StridedCell, K!GeneralCell, GeneralCell,
  K!ConvPlane, ConvPlane, K!ConvRow, ConvRow, K!Conv2dCpuFloat32ValidTask,
  Conv2dCpuFloat32ValidTask, K!Conv2dCpuFloat32PaddedTask, Conv2dCpuFloat32PaddedTask,
  K!Conv2dCpuFloat32StridedTask, Conv2dCpuFloat32StridedTask, K!Conv2dCpuFloat32GeneralTask,
  Conv2dCpuFloat32GeneralTask, K!ConvPlanes, ConvPlanes, K!ConvRows, ConvRows, K!BackDims,
  BackDims, K!GradOutput, GradOutput, K!ConvGradInput, ConvGradInput, K!ConvGradWeights,
  ConvGradWeights, K!ConvGradBias, ConvGradBias, K!LinearDims, LinearDims, K!InputAt, InputAt,
  K!WeightAt, WeightAt, K!GradAt, GradAt, K!LinearCpuFloat32Task, LinearCpuFloat32Task,
  K!LinearGradInput, LinearGradInput, K!LinearGradWeights, LinearGradWeights, K!LinearGradBias,
  LinearGradBias, K!PoolDims, PoolDims, K!PoolAt, PoolAt, K!Window, Window, K!Share, Share,
  K!AvgPoolCell, AvgPoolCell, K!MaxPoolCell, MaxPoolCell, K!PoolRow, PoolRow,
  K!MaxPool2dCpuFloat32Task, MaxPool2dCpuFloat32Task, K!AvgPool2dCpuFloat32Task,
  AvgPool2dCpuFloat32Task, K!PoolRows, PoolRows, K!MaxIndex, MaxIndex, K!MaxPool2dWithIndices,
  MaxPool2dWithIndices, K!ZeroGradInputTask, ZeroGradInputTask, K!ScatterMax, ScatterMax,
  K!ScatterAverage, ScatterAverage, K!Made, Made, K!ActivationTask, ActivationTask,
  K!BackwardActivationTask, BackwardActivationTask, K!RowCells, RowCells,
  K!SoftmaxCpuFloat32Task, SoftmaxCpuFloat32Task, K!BackwardSoftmaxCpuFloat32Task,
  BackwardSoftmaxCpuFloat32Task, K!ValidCount, ValidCount, K!LossTerm, LossTerm,
  K!ElementwiseLoss, ElementwiseLoss, K!BackwardLossTask, BackwardLossTask, K!FillPadding,
  FillPadding, K!ClassInRange, ClassInRange, K!ClassCell, ClassCell, K!ClassTerm, ClassTerm,
  K!CategoricalLoss, CategoricalLoss, K!ClassesBefore, ClassesBefore, K!FillGradient,
  FillGradient, K!BackwardCategoricalLoss, BackwardCategoricalLoss, K!SgdUpdateCpuFloat32Task,
  SgdUpdateCpuFloat32Task, K!AdamUpdateCpuFloat32Task, AdamUpdateCpuFloat32Task, K!Numel,
  Numel, K!Size, Size

LEMMA SameIterations == ASSUME NEW c, NEW loop PROVE K!Iterations(c, loop) = Iterations(c, loop)
BY Zenon DEF K!Iterations, Iterations, K!ConvPlanes, ConvPlanes, K!ConvRows, ConvRows,
  K!ConvDims, ConvDims, K!PoolRows, PoolRows, K!PoolDims, PoolDims, K!ValidCount, ValidCount,
  K!Elements, Elements, K!Numel, Numel, K!Size, Size

LEMMA SameLoops == ASSUME NEW c, NEW kernel PROVE K!CpuLoops(c, kernel) = CpuLoops(c, kernel)
BY Zenon DEF K!CpuLoops, CpuLoops

LEMMA SameEntry == ASSUME NEW c PROVE K!Entry(c) = Entry(c)
BY Zenon DEF K!Threw, Threw, K!Size, Size, K!DTypeSize, DTypeSize, K!Numel, Numel, K!Volume,
  Volume, K!Tensor, Tensor, K!Rank, Rank, K!Bytes, Bytes, K!MayReshape, MayReshape, K!Reshape,
  Reshape, K!SetLayout, SetLayout, K!EffectiveKernel, EffectiveKernel, K!OutputSize,
  OutputSize, K!validate_copy, validate_copy, K!On, On, K!copy, copy, K!validate_copy_to_host,
  validate_copy_to_host, K!copy_to_host, copy_to_host, K!copy_async, copy_async,
  K!allocator_for, allocator_for, K!MatchesActive, MatchesActive, K!Matches, Matches,
  K!Requested, Requested, K!MayRequest, MayRequest, K!Request, Request, K!ResetNothing,
  ResetNothing, K!ResetToNothing, ResetToNothing, K!Reset, Reset, K!NoKey, NoKey, K!Capture,
  Capture, K!KeyMatches, KeyMatches, K!OneDevice, OneDevice, K!AllFloat, AllFloat, K!AllRank,
  AllRank, K!AllNCHW, AllNCHW, K!Uniform, Uniform, K!Axes, Axes, K!NonZero, NonZero, K!Fits,
  Fits, K!Outputs, Outputs, K!Launch, Launch, K!Checked, Checked, K!EffectiveKernels,
  EffectiveKernels, K!validate_conv2d_inputs, validate_conv2d_inputs, K!is_valid_conv2d,
  is_valid_conv2d, K!is_padded_conv2d_any_dilation, is_padded_conv2d_any_dilation,
  K!is_padded_conv2d, is_padded_conv2d, K!is_strided_conv2d, is_strided_conv2d,
  K!conv2d_float32, conv2d_float32, K!conv2d_unchecked, conv2d_unchecked, K!conv2d, conv2d,
  K!conv2d_output_size, conv2d_output_size, K!validate_backward_conv2d_inputs,
  validate_backward_conv2d_inputs, K!backward_conv2d_unchecked, backward_conv2d_unchecked,
  K!backward_conv2d, backward_conv2d, K!validate_linear_inputs_any_bias,
  validate_linear_inputs_any_bias, K!validate_linear_inputs, validate_linear_inputs,
  K!linear_unchecked, linear_unchecked, K!linear, linear, K!validate_backward_linear_inputs,
  validate_backward_linear_inputs, K!backward_linear_unchecked, backward_linear_unchecked,
  K!backward_linear, backward_linear, K!ActivationTypes, ActivationTypes, K!SoftmaxShape,
  SoftmaxShape, K!validate_activation_tensor, validate_activation_tensor,
  K!activation_unchecked, activation_unchecked, K!activation, activation, K!BackwardKernel,
  BackwardKernel, K!validate_backward_activation_inputs, validate_backward_activation_inputs,
  K!backward_activation_unchecked, backward_activation_unchecked, K!backward_activation,
  backward_activation, K!PoolFits, PoolFits, K!validate_maxpool2d_inputs,
  validate_maxpool2d_inputs, K!maxpool2d_unchecked, maxpool2d_unchecked, K!maxpool2d,
  maxpool2d, K!validate_maxpool2d_with_indices_inputs, validate_maxpool2d_with_indices_inputs,
  K!maxpool2d_with_indices_unchecked, maxpool2d_with_indices_unchecked,
  K!maxpool2d_with_indices, maxpool2d_with_indices, K!validate_backward_maxpool2d_inputs,
  validate_backward_maxpool2d_inputs, K!backward_maxpool2d_unchecked,
  backward_maxpool2d_unchecked, K!backward_maxpool2d, backward_maxpool2d,
  K!validate_avgpool2d_inputs, validate_avgpool2d_inputs, K!avgpool2d_unchecked,
  avgpool2d_unchecked, K!avgpool2d, avgpool2d, K!validate_backward_avgpool2d_inputs,
  validate_backward_avgpool2d_inputs, K!backward_avgpool2d_unchecked,
  backward_avgpool2d_unchecked, K!backward_avgpool2d, backward_avgpool2d, K!Reductions,
  Reductions, K!Counted, Counted, K!validate_mse_loss_inputs, validate_mse_loss_inputs,
  K!validate_backward_mse_loss_inputs, validate_backward_mse_loss_inputs, K!mse_loss_unchecked,
  mse_loss_unchecked, K!mse_loss, mse_loss, K!backward_mse_loss_unchecked,
  backward_mse_loss_unchecked, K!backward_mse_loss, backward_mse_loss,
  K!validate_binary_cross_entropy_inputs, validate_binary_cross_entropy_inputs,
  K!validate_backward_binary_cross_entropy_inputs,
  validate_backward_binary_cross_entropy_inputs, K!binary_cross_entropy_unchecked,
  binary_cross_entropy_unchecked, K!binary_cross_entropy, binary_cross_entropy,
  K!backward_binary_cross_entropy_unchecked, backward_binary_cross_entropy_unchecked,
  K!backward_binary_cross_entropy, backward_binary_cross_entropy, K!Classified, Classified,
  K!validate_categorical_cross_entropy_inputs, validate_categorical_cross_entropy_inputs,
  K!validate_backward_categorical_cross_entropy_inputs,
  validate_backward_categorical_cross_entropy_inputs, K!categorical_cross_entropy_unchecked,
  categorical_cross_entropy_unchecked, K!categorical_cross_entropy, categorical_cross_entropy,
  K!backward_categorical_cross_entropy_unchecked, backward_categorical_cross_entropy_unchecked,
  K!backward_categorical_cross_entropy, backward_categorical_cross_entropy, K!One, One,
  K!validate_sgd_update_inputs, validate_sgd_update_inputs, K!sgd_update_unchecked,
  sgd_update_unchecked, K!sgd_update, sgd_update, K!validate_adam_update_inputs,
  validate_adam_update_inputs, K!adam_update_unchecked, adam_update_unchecked, K!adam_update,
  adam_update, K!Optional, Optional, K!Entry, Entry, K!Unchecked, Unchecked

LEMMA APowerOfTwo == \E n \in 0..10 : 2^3 = 2^n
<1>1. 3 \in 0..10
  OBVIOUS
<1> QED
  BY <1>1

\* What an operation takes that it may be called with, whoever calls it.
Sized(t) == t.shape \in Seq(Sizes) /\ Volume(t.shape) < SizeMod

LEMMA AcceptedBounded ==
  ASSUME NEW c, K!CallAssumed(c), K!AllocatedOf(c), c.op # "backward_maxpool2d", Entry(c) # Threw
  PROVE  K!Bounded(c, Entry(c))
<1>1. K!IndicesIn(c) /\ K!Entry(c) # K!Threw
  BY SameEntry DEF K!IndicesIn, K!Threw, Threw
<1>2. K!Bounded(c, K!Entry(c))
  BY <1>1, APowerOfTwo, K!EveryCallBounded, BackendsAssumption, SizeModAssumption, CpuThreadsAssumption
     DEF K!CallsAssumption
<1> QED
  BY <1>2, SameEntry

\* An operation whose checked entry accepts its tensors touches no cell outside them,
\* though it is called by the entry that checks nothing.
LEMMA AcceptedStaysWithin ==
  ASSUME NEW c, K!CallAssumed(c), K!AllocatedOf(c), c.op \notin {"backward_maxpool2d", "mse_loss"},
         Entry(c) # Threw, Unchecked(c) = Entry(c)
  PROVE  InBounds(c)
<1>1. K!Bounded(c, Entry(c))
  BY AcceptedBounded
<1>2. CpuLoops(c, Unchecked(c)) \in Seq(K!CpuBounded(c))
  BY <1>1, SameLoops DEF K!Bounded
<1> DEFINE loops == CpuLoops(c, Unchecked(c))
<1>3. ASSUME NEW e \in Writes(c), NEW x \in {e.to} \cup UNION {{term[i] : i \in DOMAIN term} : term \in e.terms},
             x[1] \in DOMAIN c.t
      PROVE  x[2] \in Below(Elements(c, x[1]))
  <2>1. PICK k \in DOMAIN loops : \E j \in Below(Iterations(c, loops[k])) : e \in Body(c, loops[k], j)
    BY <1>3 DEF Writes
  <2> HIDE DEF loops
  <2>2. PICK j \in Below(Iterations(c, loops[k])) : e \in Body(c, loops[k], j)
    BY <2>1
  <2>3. loops[k] \in K!CpuBounded(c)
    BY <1>2 DEF loops
  <2>4. K!AllSafe(c, K!Body(c, loops[k], j))
    BY <2>2, <2>3, SameIterations DEF K!CpuBounded, K!SafeLoop, K!Below, Below
  <2>5. K!Safe(c, e)
    BY <2>2, <2>4, SameBody DEF K!AllSafe
  <2>6. x \in K!Reads(e) \cup {e.to}
    BY <1>3 DEF K!Reads
  <2>7. K!InTensor(c, x)
    BY <2>5, <2>6 DEF K!Safe
  <2> QED
    BY <1>3, <2>7 DEF K!InTensor, K!Below, Below, K!Elements, Elements, K!Numel, Numel, K!Size, Size
<1> QED
  BY <1>3 DEF InBounds

LEMMA SameVolume == ASSUME NEW s PROVE K!Volume(s) = Volume(s)
BY DEF K!Volume, Volume

LEMMA SameSizes == K!Sizes = Sizes
BY DEF K!Sizes, Sizes, K!Below, Below

LEMMA VolumeOfOne ==
  ASSUME NEW a \in Nat
  PROVE  Volume(<< a >>) = a
<1> DEFINE s == <<a>>
<1>1. s \in Seq(Nat) /\ Len(s) = 1 /\ s[1] = a
  OBVIOUS
<1> HIDE DEF s
<1>2. PICK f \in [0..1 -> Int] : Volume(s) = f[1] /\ f[0] = 1 /\ \A i \in 1..1 : f[i] = f[i - 1] * s[i]
  BY <1>1, APowerOfTwo, K!VolumeChain, SameVolume, BackendsAssumption, CpuThreadsAssumption
     DEF K!CallsAssumption
<1>3. f[1] = f[1 - 1] * s[1]
  BY <1>2
<1> QED
  BY <1>1, <1>2, <1>3 DEF s

LEMMA SizedOne ==
  ASSUME NEW a \in Sizes, NEW t, t.shape = << a >>
  PROVE  Sized(t)
<1>1. a \in Nat /\ a < SizeMod
  BY DEF Sizes, Below
<1> QED
  BY <1>1, VolumeOfOne DEF Sized

LEMMA SizedShape ==
  ASSUME Typed, NothingWraps, NEW k \in 0..Depth, NEW t, t.shape = Shape(k)
  PROVE  Sized(t)
<1>1. Shape(k) \in Batches
  BY ShapesAreBatches DEF Shape, Depth, Typed
<1> QED
  BY <1>1 DEF Batches, Sized, NothingWraps, Shape

LEMMA SizedParameters ==
  ASSUME Typed, WellFormed, NothingWraps, NEW i \in 1..Depth, Kind(i) \in Parametric
  PROVE  Sized(Weights(net, i)) /\ Sized(Bias(net, i))
<1>1. /\ i - 1 \in 0..Depth /\ Shape(i - 1) \in Batches /\ Len(Shape(i - 1)) \in {2, 4}
      /\ LayerAssumed(net.layers[i], Shape(i - 1))
  BY WellFormedHas, RanksOfLayer DEF Parametric
<1>2. net.layers[i].out \in Sizes /\ Shape(i - 1)[2] \in Sizes
  BY <1>1, BatchHas DEF LayerAssumed, Kind
<1>3. Kind(i) = "conv" => net.layers[i].kernel[1] \in Sizes /\ net.layers[i].kernel[2] \in Sizes
  BY <1>1 DEF LayerAssumed, Kind, Axes
<1>4. Weights(net, i).shape \in Seq(Sizes)
  <2>1. CASE Kind(i) = "conv"
    <3>1. PICK k \in Sizes, b \in Sizes, h \in Sizes, w \in Sizes : Weights(net, i).shape = <<k, b, h, w>>
      BY <1>2, <1>3, <2>1, ParametersOfLayer DEF Float, Tensor
    <3>2. <<k, b, h, w>> \in Seq(Sizes)
      OBVIOUS
    <3> QED
      BY <3>1, <3>2
  <2>2. CASE Kind(i) = "linear"
    <3>1. PICK k \in Sizes, b \in Sizes : Weights(net, i).shape = <<k, b>>
      BY <1>2, <2>2, ParametersOfLayer DEF Float, Tensor
    <3>2. <<k, b>> \in Seq(Sizes)
      OBVIOUS
    <3> QED
      BY <3>1, <3>2
  <2> QED
    BY <2>1, <2>2 DEF Parametric
<1>5. Volume(Weights(net, i).shape) < SizeMod
  BY DEF NothingWraps
<1>6. Bias(net, i).shape = <<net.layers[i].out>>
  BY ParametersOfLayer DEF Float, Tensor
<1> QED
  BY <1>2, <1>4, <1>5, <1>6, SizedOne DEF Sized

\* The unchecked entry starts the kernel that the checked one starts.
LEMMA UncheckedAlike ==
  ASSUME NEW c, Entry(c) # Threw,
         c.op \in {"conv2d", "backward_conv2d", "linear", "backward_linear", "maxpool2d",
                   "maxpool2d_with_indices", "activation", "backward_activation",
                   "categorical_cross_entropy", "backward_categorical_cross_entropy"}
  PROVE  Unchecked(c) = Entry(c)
<1>0. \A valid, kernel : Checked(valid, kernel) # Threw => Checked(valid, kernel) = kernel
  BY DEF Checked
<1>1. CASE c.op = "conv2d"
  BY <1>0, <1>1 DEF Entry, Unchecked, conv2d
<1>2. CASE c.op = "backward_conv2d"
  BY <1>0, <1>2 DEF Entry, Unchecked, backward_conv2d
<1>3. CASE c.op = "linear"
  BY <1>0, <1>3 DEF Entry, Unchecked, linear
<1>4. CASE c.op = "backward_linear"
  BY <1>0, <1>4 DEF Entry, Unchecked, backward_linear
<1>5. CASE c.op = "maxpool2d"
  BY <1>0, <1>5 DEF Entry, Unchecked, maxpool2d
<1>6. CASE c.op = "maxpool2d_with_indices"
  BY <1>0, <1>6 DEF Entry, Unchecked, maxpool2d_with_indices
<1>7. CASE c.op = "activation"
  BY <1>0, <1>7 DEF Entry, Unchecked, activation
<1>8. CASE c.op = "backward_activation"
  BY <1>0, <1>8 DEF Entry, Unchecked, backward_activation
<1>9. CASE c.op = "categorical_cross_entropy"
  BY <1>0, <1>9 DEF Entry, Unchecked, categorical_cross_entropy
<1>10. CASE c.op = "backward_categorical_cross_entropy"
  BY <1>0, <1>10 DEF Entry, Unchecked, backward_categorical_cross_entropy
<1> QED
  BY <1>1, <1>2, <1>3, <1>4, <1>5, <1>6, <1>7, <1>8, <1>9, <1>10

\* A call of sized tensors, with the options that its operation reads.
LEMMA SizedStaysWithin ==
  ASSUME NEW c, Entry(c) # Threw,
         c.op \in {"conv2d", "backward_conv2d", "linear", "backward_linear", "maxpool2d",
                   "maxpool2d_with_indices", "activation", "backward_activation",
                   "categorical_cross_entropy", "backward_categorical_cross_entropy"},
         K!Takes[c.op] \subseteq DOMAIN c.t, DOMAIN c.t \subseteq K!Takes[c.op] \cup K!MayTake(c.op),
         \A role \in DOMAIN c.t : Sized(c.t[role]),
         c.op \in {"conv2d", "backward_conv2d"} =>
           \A a \in Axes : {c.o.stride[a], c.o.padding[a], c.o.dilation[a]} \subseteq Sizes,
         c.op \in {"maxpool2d", "maxpool2d_with_indices"} =>
           \A a \in Axes : {c.o.stride[a], c.o.padding[a], c.o.kernel[a]} \subseteq Sizes,
         c.op \in {"activation", "backward_activation"} => c.o.type \in ActivationTypes,
         c.op \in {"categorical_cross_entropy", "backward_categorical_cross_entropy"} =>
           c.o.valid \in Sizes /\ c.data["target"] \in [Below(Elements(c, "target")) -> Int]
  PROVE  InBounds(c)
<1>1. K!AllocatedOf(c)
  BY SameVolume DEF K!AllocatedOf, Sized
<1>2. K!CallAssumed(c)
  <2>1. /\ c.op \in DOMAIN K!Takes
        /\ "prediction" \in K!Takes[c.op] =>
             c.op \in {"categorical_cross_entropy", "backward_categorical_cross_entropy"}
    BY DEF K!Takes, K!Gradients
  <2>2. \A role \in DOMAIN c.t : c.t[role].shape \in Seq(K!Sizes)
    BY SameSizes DEF Sized
  <2>3. c.op \in {"categorical_cross_entropy", "backward_categorical_cross_entropy"} =>
          K!Integral(c, "target")
    BY Zenon DEF K!Integral, K!Below, Below, K!Elements, Elements, K!Numel, Numel, K!Size, Size
  <2>4. K!Axes = Axes /\ K!ActivationTypes = ActivationTypes
    BY DEF K!Axes, Axes, K!ActivationTypes, ActivationTypes
  <2> QED
    BY <2>1, <2>2, <2>3, <2>4, SameSizes DEF K!CallAssumed
<1> QED
  BY <1>1, <1>2, UncheckedAlike, AcceptedStaysWithin

-----------------------------------------------------------------------------
(* The calls of the layers and of the loss. *)

\* What is called is what was asked for.
LEMMA AskedAlike ==
  ASSUME NEW c, NEW checked
  PROVE  LET asked == Asked(c, checked) IN
         /\ asked.op = c.op /\ asked.t = c.t /\ asked.o = c.o /\ asked.data = c.data
         /\ Entry(asked) = Entry(c)
<1> DEFINE asked == Asked(c, checked)
<1>1. asked.op = c.op /\ asked.t = c.t /\ asked.o = c.o /\ asked.data = c.data
  BY DEF Asked
<1> HIDE DEF asked
<1>2. Entry(asked) = Entry(c)
  BY <1>1 DEF Entry, Optional
<1> QED
  BY <1>1, <1>2 DEF asked

LEMMA OptionsOfLayer ==
  ASSUME Typed, WellFormed, NEW i \in 1..Depth
  PROVE  LET layer == net.layers[i] IN
         /\ Kind(i) = "conv" =>
              \A a \in Axes : {layer.o.stride[a], layer.o.padding[a], layer.o.dilation[a]} \subseteq Sizes
         /\ Kind(i) = "maxpool" =>
              \A a \in Axes : {layer.o.stride[a], layer.o.padding[a], layer.o.kernel[a]} \subseteq Sizes
         /\ Kind(i) = "activation" => layer.type \in ActivationTypes
<1>1. LayerAssumed(net.layers[i], Shape(i - 1))
  BY WellFormedHas
<1> QED
  BY <1>1 DEF LayerAssumed, Kind

LEMMA ForwardStaysWithin ==
  ASSUME Typed, WellFormed, NothingWraps, NEW i \in 1..Depth, Kind(i) # "flatten",
         NEW input, Given(input, i - 1), NEW l, NEW result, Kind(i) # "activation" => result.shape = Shape(i),
         Entry(ForwardCall(net, i, l, input, result)) # Threw, NEW checked
  PROVE  InBounds(Asked(ForwardCall(net, i, l, input, result), checked))
<1> DEFINE layer == net.layers[i]
           called == ForwardCall(net, i, l, input, result)
           indices == Tensor(result.shape, "Int32", net.device, "NCHW")
<1>1. PICK c : c = Asked(called, checked)
  OBVIOUS
<1>2. c.op = called.op /\ c.t = called.t /\ c.o = called.o /\ Entry(c) # Threw
  BY <1>1, AskedAlike
<1>3. Kind(i) \in Kinds /\ i - 1 \in 0..Depth /\ i \in 0..Depth
  BY WellFormedHas, RanksOfLayer
<1>4. Sized(input)
  BY <1>3, SizedShape DEF Given
<1>5. Kind(i) # "activation" => Sized(result) /\ Sized(indices)
  BY <1>3, SizedShape DEF Tensor
<1> HIDE DEF indices
<1>6. CASE Kind(i) = "conv"
  <2> DEFINE roles == [input |-> input, kernels |-> Weights(net, i), result |-> result]
  <2>1. /\ c.op = "conv2d" /\ c.o = layer.o
        /\ c.t = WithBias(layer, "bias", Bias(net, i), roles)
    BY <1>2, <1>6 DEF ForwardCall, Operation, Kind
  <2>2. K!Takes[c.op] = {"input", "kernels", "result"} /\ K!MayTake(c.op) = {"bias"}
    BY <2>1 DEF K!Takes, K!MayTake
  <2>5. /\ DOMAIN roles = {"input", "kernels", "result"}
        /\ \A role \in DOMAIN roles : Sized(roles[role])
    BY <1>4, <1>5, <1>6, SizedParameters DEF Parametric
  <2> HIDE DEF roles
  <2>3. /\ {"input", "kernels", "result"} \subseteq DOMAIN c.t
        /\ DOMAIN c.t \subseteq {"input", "kernels", "result"} \cup {"bias"}
    BY <2>1, <2>5, BiasGiven
  <2>4. \A role \in DOMAIN c.t : Sized(c.t[role])
    BY <1>6, <2>1, <2>5, BiasGiven, SizedParameters DEF Parametric
  <2> QED
    BY <1>1, <1>2, <1>6, <2>1, <2>2, <2>3, <2>4, OptionsOfLayer, SizedStaysWithin
<1>7. CASE Kind(i) = "linear"
  <2> DEFINE roles == [input |-> input, weights |-> Weights(net, i), result |-> result]
  <2>1. /\ c.op = "linear"
        /\ c.t = WithBias(layer, "bias", Bias(net, i), roles)
    BY <1>2, <1>7 DEF ForwardCall, Operation, Kind
  <2>2. K!Takes[c.op] = {"input", "weights", "result"} /\ K!MayTake(c.op) = {"bias"}
    BY <2>1 DEF K!Takes, K!MayTake
  <2>5. /\ DOMAIN roles = {"input", "weights", "result"}
        /\ \A role \in DOMAIN roles : Sized(roles[role])
    BY <1>4, <1>5, <1>7, SizedParameters DEF Parametric
  <2> HIDE DEF roles
  <2>3. /\ {"input", "weights", "result"} \subseteq DOMAIN c.t
        /\ DOMAIN c.t \subseteq {"input", "weights", "result"} \cup {"bias"}
    BY <2>1, <2>5, BiasGiven
  <2>4. \A role \in DOMAIN c.t : Sized(c.t[role])
    BY <1>7, <2>1, <2>5, BiasGiven, SizedParameters DEF Parametric
  <2> QED
    BY <1>1, <1>2, <2>1, <2>2, <2>3, <2>4, SizedStaysWithin
<1>8. CASE Kind(i) = "maxpool" /\ l.mode = "Training"
  <2>1. /\ c.op = "maxpool2d_with_indices" /\ c.o = layer.o
        /\ c.t = [input |-> input, result |-> result, indices |-> indices]
    BY <1>2, <1>8 DEF ForwardCall, Operation, Kind, indices
  <2>2. K!Takes[c.op] = {"input", "result", "indices"}
    BY <2>1 DEF K!Takes
  <2>3. DOMAIN c.t = {"input", "result", "indices"}
    BY <2>1
  <2>4. \A role \in DOMAIN c.t : Sized(c.t[role])
    BY <1>4, <1>5, <1>8, <2>1
  <2> QED
    BY <1>1, <1>2, <1>8, <2>1, <2>2, <2>3, <2>4, OptionsOfLayer, SizedStaysWithin
<1>9. CASE Kind(i) = "maxpool" /\ l.mode # "Training"
  <2>1. /\ c.op = "maxpool2d" /\ c.o = layer.o
        /\ c.t = [input |-> input, result |-> result]
    BY <1>2, <1>9 DEF ForwardCall, Operation, Kind
  <2>2. K!Takes[c.op] = {"input", "result"}
    BY <2>1 DEF K!Takes
  <2>3. DOMAIN c.t = {"input", "result"}
    BY <2>1
  <2>4. \A role \in DOMAIN c.t : Sized(c.t[role])
    BY <1>4, <1>5, <1>9, <2>1
  <2> QED
    BY <1>1, <1>2, <1>9, <2>1, <2>2, <2>3, <2>4, OptionsOfLayer, SizedStaysWithin
<1>10. CASE Kind(i) = "activation"
  <2>1. c.op = "activation" /\ c.o = [type |-> layer.type] /\ c.t = [tensor |-> input]
    BY <1>2, <1>10 DEF ForwardCall, Operation, Kind
  <2>2. K!Takes[c.op] = {"tensor"}
    BY <2>1 DEF K!Takes
  <2>3. DOMAIN c.t = {"tensor"} /\ c.o.type = layer.type
    BY <2>1
  <2>4. \A role \in DOMAIN c.t : Sized(c.t[role])
    BY <1>4, <2>1
  <2> QED
    BY <1>1, <1>2, <1>10, <2>1, <2>2, <2>3, <2>4, OptionsOfLayer, SizedStaysWithin
<1> QED
  BY <1>3, <1>6, <1>7, <1>8, <1>9, <1>10 DEF Kinds

LEMMA BackwardStaysWithin ==
  ASSUME Typed, WellFormed, NothingWraps, NEW i \in 1..Depth, Kind(i) # "flatten",
         NEW input, Kind(i) \in Parametric => Given(input, i - 1), Kind(i) = "activation" => Given(input, i),
         NEW l, Kind(i) = "maxpool" => l.indexed = Shape(i - 1),
         NEW grad_output, Given(grad_output, i),
         NEW grad_input, Kind(i) # "activation" => grad_input.shape = Shape(i - 1),
         Entry(BackwardCall(net, i, l, input, grad_output, grad_input)) # Threw, NEW checked
  PROVE  InBounds(Asked(BackwardCall(net, i, l, input, grad_output, grad_input), checked))
<1> DEFINE layer == net.layers[i]
           called == BackwardCall(net, i, l, input, grad_output, grad_input)
           indices == Tensor(OutputShape(layer, l.indexed), "Int32", net.device, "NCHW")
           gradients == [input |-> input, weights |-> Weights(net, i), grad_output |-> grad_output,
                         grad_input |-> grad_input, grad_weights |-> Weights(net, i)]
<1>1. PICK c : c = Asked(called, checked)
  OBVIOUS
<1>2. c.op = called.op /\ c.t = called.t /\ c.o = called.o /\ Entry(c) # Threw
  BY <1>1, AskedAlike
<1>3. /\ Kind(i) \in Kinds /\ i - 1 \in 0..Depth /\ i \in 0..Depth
      /\ OutputShape(layer, Shape(i - 1)) = Shape(i)
  BY WellFormedHas, RanksOfLayer
<1>4. Sized(grad_output) /\ (Kind(i) # "activation" => Sized(grad_input))
  BY <1>3, SizedShape DEF Given
<1>5. Kind(i) \in Parametric \cup {"activation"} => Sized(input)
  BY <1>3, SizedShape DEF Given
<1>6. CASE Kind(i) \in Parametric
  <2>1. /\ c.t = WithBias(layer, "grad_bias", Bias(net, i), gradients)
        /\ Kind(i) = "conv" => c.op = "backward_conv2d" /\ c.o = layer.o
        /\ Kind(i) = "linear" => c.op = "backward_linear"
    BY <1>2, <1>6 DEF BackwardCall, Operation, Kind, Parametric
  <2>2. c.op \in {"backward_conv2d", "backward_linear"} /\ (c.op = "backward_conv2d" => Kind(i) = "conv")
    BY <1>6, <2>1 DEF Parametric
  <2>3. /\ K!Takes[c.op] = {"input", "weights", "grad_output", "grad_input", "grad_weights"}
        /\ K!MayTake(c.op) = {"grad_bias"}
    BY <2>2 DEF K!Takes, K!MayTake, K!Gradients
  <2>6. /\ DOMAIN gradients = {"input", "weights", "grad_output", "grad_input", "grad_weights"}
        /\ \A role \in DOMAIN gradients : Sized(gradients[role])
    BY <1>4, <1>5, <1>6, SizedParameters DEF Parametric
  <2> HIDE DEF gradients
  <2>4. /\ DOMAIN gradients \subseteq DOMAIN c.t
        /\ DOMAIN c.t \subseteq DOMAIN gradients \cup {"grad_bias"}
    BY <2>1, <2>6, BiasGiven
  <2>5. \A role \in DOMAIN c.t : Sized(c.t[role])
    BY <1>6, <2>1, <2>6, BiasGiven, SizedParameters DEF Parametric
  <2> QED
    BY <1>1, <1>2, <2>1, <2>2, <2>3, <2>4, <2>5, <2>6, OptionsOfLayer, SizedStaysWithin
<1>7. CASE Kind(i) = "maxpool"
  <2>1. /\ c.op = "backward_maxpool2d"
        /\ c.t = [indices |-> indices, grad_output |-> grad_output, grad_input |-> grad_input]
    BY <1>2, <1>7 DEF BackwardCall, Operation, Kind
  <2>2. indices.shape = grad_output.shape
    BY <1>3, <1>7 DEF Tensor, Given
  <2> HIDE DEF indices
  <2>3. Elements(c, "indices") = Elements(c, "grad_output")
    BY <2>1, <2>2 DEF Elements
  <2> QED
    BY <1>1, <2>1, <2>3 DEF InBounds
<1>8. CASE Kind(i) = "activation"
  <2>1. /\ c.op = "backward_activation" /\ c.o = [type |-> layer.type]
        /\ c.t = [activation_output |-> input, grad |-> grad_output]
    BY <1>2, <1>8 DEF BackwardCall, Operation, Kind
  <2>2. K!Takes[c.op] = {"activation_output", "grad"}
    BY <2>1 DEF K!Takes
  <2>3. DOMAIN c.t = {"activation_output", "grad"} /\ c.o.type = layer.type
    BY <2>1
  <2>4. \A role \in DOMAIN c.t : Sized(c.t[role])
    BY <1>4, <1>5, <1>8, <2>1
  <2> QED
    BY <1>1, <1>2, <1>8, <2>1, <2>2, <2>3, <2>4, OptionsOfLayer, SizedStaysWithin
<1> QED
  BY <1>3, <1>6, <1>7, <1>8 DEF Kinds, Parametric

\* The loss is always called by the entry that checks nothing; the checked one would
\* accept what it is called with.
LEMMA LossStaysWithin ==
  ASSUME Typed, WellFormed, NothingWraps, batch[3] \in 1..net.input[1],
         NEW prediction, Given(prediction, Depth),
         NEW op, NEW roles,
         \/ /\ op = "categorical_cross_entropy"
            /\ roles = [prediction |-> prediction, target |-> Targets,
                        result |-> Float(<< 1 >>, net.device, "Unknown")]
         \/ /\ op = "backward_categorical_cross_entropy"
            /\ roles = [prediction |-> prediction, target |-> Targets, grad_prediction |-> prediction],
         NEW checked
  PROVE  InBounds(Asked(LossCall(op, roles), checked))
<1> DEFINE called == LossCall(op, roles)
           result == Float(<< 1 >>, net.device, "Unknown")
           images == net.input[1]
<1>1. PICK c : c = Asked(called, checked)
  OBVIOUS
<1>2. /\ c.op = op /\ c.t = roles /\ Entry(c) = Entry(called)
      /\ c.o = [reduction |-> "Mean", valid |-> batch[3]]
      /\ c.data = [target |-> [n \in Below(images) |-> 0]]
  BY <1>1, AskedAlike DEF LossCall, Operation
<1>3. /\ Shape(Depth) \in Batches /\ Len(Shape(Depth)) = 2 /\ Shape(Depth)[2] # 0
      /\ Depth \in Nat /\ net.device \in Backends
  BY WellFormedHas
<1>4. Shape(Depth)[1] = images
  BY <1>3, ImagesStay
<1>5. images \in Sizes /\ images \in Nat \ {0}
  BY <1>3, <1>4, BatchHas, SizesAreNumbers
<1>6. batch[3] \in Sizes
  BY <1>5 DEF Sizes, Below
<1>7. /\ Targets.shape = << images >> /\ Targets.dtype = "Int32" /\ Targets.storage = "RowMajor"
      /\ Targets.device = net.device
      /\ result.shape = << 1 >> /\ result.dtype = "Float32" /\ result.storage = "RowMajor"
      /\ result.device = net.device
  BY DEF Targets, Float, Tensor
<1> HIDE DEF images, result
<1>8. Sized(prediction) /\ Sized(Targets) /\ Sized(result)
  <2>1. 1 \in Sizes
    BY DEF Sizes, Below
  <2> QED
    BY <1>3, <1>5, <1>7, <2>1, SizedShape, SizedOne DEF Given
<1>9. \A role \in DOMAIN c.t : Sized(c.t[role])
  BY <1>2, <1>8 DEF result
<1>10. c.data["target"] \in [Below(Elements(c, "target")) -> Int]
  <2>1. Elements(c, "target") = images
    <3>1. c.t["target"] = Targets
      BY <1>2
    <3> QED
      BY <1>5, <1>7, <3>1, ElementsOfOne DEF Elements
  <2> QED
    BY <1>2, <2>1
<1>11. /\ Classified(prediction, Targets) /\ Counted(c.o.valid, prediction)
       /\ Uniform({prediction, result}) /\ Uniform({prediction})
       /\ c.o.reduction \in Reductions
  <2>1. Uniform({prediction, result}) /\ Uniform({prediction})
    BY <1>7, FloatsAreUniform DEF Given
  <2>2. Classified(prediction, Targets)
    BY <1>3, <1>4, <1>5, <1>7 DEF Classified, Given, OneDevice, Rank
  <2>3. Counted(c.o.valid, prediction)
    BY <1>2, <1>4 DEF Counted, Given, images
  <2> QED
    BY <1>2, <2>1, <2>2, <2>3 DEF Reductions
<1>12. CASE op = "categorical_cross_entropy"
  <2>1. c.t = [prediction |-> prediction, target |-> Targets, result |-> result]
    BY <1>2, <1>12 DEF result
  <2>2. Entry(c) = categorical_cross_entropy(prediction, Targets, result, c.o.reduction, c.o.valid)
    BY <1>2, <1>12, <2>1 DEF Entry
  <2>3. validate_categorical_cross_entropy_inputs(prediction, Targets, result, c.o.reduction, c.o.valid)
    BY <1>7, <1>11 DEF validate_categorical_cross_entropy_inputs
  <2>4. Entry(c) # Threw
    BY <1>3, <2>2, <2>3, BackendsRun
       DEF categorical_cross_entropy, categorical_cross_entropy_unchecked, Checked, Given, Threw
  <2>5. K!Takes[c.op] = {"prediction", "target", "result"}
    BY <1>2, <1>12 DEF K!Takes
  <2>6. DOMAIN c.t = {"prediction", "target", "result"}
    BY <2>1
  <2> QED
    BY <1>1, <1>2, <1>6, <1>9, <1>10, <1>12, <2>4, <2>5, <2>6, SizedStaysWithin
<1>13. CASE op = "backward_categorical_cross_entropy"
  <2>1. c.t = [prediction |-> prediction, target |-> Targets, grad_prediction |-> prediction]
    BY <1>2, <1>13
  <2>2. Entry(c) = backward_categorical_cross_entropy(prediction, Targets, prediction, c.o.reduction, c.o.valid)
    BY <1>2, <1>13, <2>1 DEF Entry
  <2>3. validate_backward_categorical_cross_entropy_inputs(prediction, Targets, prediction,
                                                           c.o.reduction, c.o.valid)
    BY <1>11 DEF validate_backward_categorical_cross_entropy_inputs
  <2>4. Entry(c) # Threw
    BY <1>3, <2>2, <2>3, BackendsRun
       DEF backward_categorical_cross_entropy, backward_categorical_cross_entropy_unchecked, Checked,
           Given, Threw
  <2>5. K!Takes[c.op] = {"prediction", "target", "grad_prediction"}
    BY <1>2, <1>13 DEF K!Takes
  <2>6. DOMAIN c.t = {"prediction", "target", "grad_prediction"}
    BY <2>1
  <2> QED
    BY <1>1, <1>2, <1>6, <1>9, <1>10, <1>13, <2>4, <2>5, <2>6, SizedStaysWithin
<1> QED
  BY <1>12, <1>13

\* The latest call, whichever entry it was.
Contained == WellFormed /\ NothingWraps /\ call # NoCall => InBounds(call)

LEMMA ForwardLayerWithin ==
  ASSUME IInv, WellFormed, Smooth, NothingWraps, ForwardLayer
  PROVE  call' = call \/ InBounds(call')
<1>1. PICK i \in 1..Depth : at = <<"forward", i>>
  <2>1. at[1] = "forward" /\ at[2] \in 1..Depth
    BY DEF ForwardLayer
  <2>2. PICK j \in 1..(Depth + 1) : at = <<"forward", j>>
    BY <2>1, PlacesOfPasses DEF IInv
  <2>3. at[2] = j
    BY <2>2
  <2> QED
    BY <2>1, <2>2, <2>3
<1> DEFINE input == Plain(Pointed(current))
           hit == Hit(net.layers[i], layers[i], input)
           l == Prepare(net.layers[i], layers[i], input)
           result == Result(net, i, l, input)
<1>2. /\ Kind(i) \in Parametric \cup {"maxpool"} => ForwardToPool(i, net.layers[i], l, input, hit)
      /\ Kind(i) = "activation" => ForwardActivation(i, net.layers[i], l, input, hit)
      /\ Kind(i) = "flatten" => ForwardFlatten(i, net.layers[i], l, input)
  BY <1>1 DEF ForwardLayer, Kind, Parametric
<1>3. Kind(i) \in Parametric \cup {"maxpool", "activation", "flatten"}
  BY ShapeStep DEF IInv, Kinds, Parametric
<1>4. Kind(i) = "activation" => result = input
  BY DEF Result, Kind
<1>5. l = Prepare(net.layers[i], layers[i], input) /\ result = Result(net, i, l, input)
  OBVIOUS
<1>6. input = Plain(Pointed(current))
  OBVIOUS
<1> HIDE DEF input, hit, l, result
<1>7. ASSUME Kind(i) # "flatten", NEW checked
      PROVE  InBounds(Asked(ForwardCall(net, i, l, input, result), checked))
  <2>1. /\ Entry(ForwardCall(net, i, l, input, result)) # Threw
        /\ Given(input, i - 1) /\ (Kind(i) # "activation" => result.shape = Shape(i))
    BY <1>1, <1>5, <1>6, <1>7, ForwardRuns
  <2> QED
    BY <1>7, <2>1, ForwardStaysWithin DEF IInv
<1>8. CASE Kind(i) \in Parametric \cup {"maxpool"}
  <2>1. call' = call \/ call' = Asked(ForwardCall(net, i, l, input, result), ~hit)
    BY <1>2, <1>8 DEF ForwardToPool, Reshapes, result
  <2> QED
    BY <1>7, <1>8, <2>1 DEF Parametric
<1>9. CASE Kind(i) = "activation"
  <2>1. call' = Asked(ForwardCall(net, i, l, input, result), ~hit)
    BY <1>2, <1>4, <1>9 DEF ForwardActivation
  <2> QED
    BY <1>7, <1>9, <2>1
<1>10. CASE Kind(i) = "flatten"
  BY <1>2, <1>10 DEF ForwardFlatten, Reshapes
<1> QED
  BY <1>3, <1>8, <1>9, <1>10

LEMMA LossForwardWithin ==
  ASSUME IInv, WellFormed, NothingWraps, LossForward
  PROVE  call' = call \/ InBounds(call')
<1> DEFINE prediction == Plain(Pointed(current))
           roles == [prediction |-> prediction, target |-> Targets,
                     result |-> Float(<< 1 >>, net.device, "Unknown")]
<1>1. at[1] = "forward" /\ at[2] = Depth + 1
  BY DEF LossForward
<1>2. InPass /\ Given(prediction, Depth)
  BY <1>1, Prediction
<1>3. batch[3] \in 1..net.input[1]
  BY <1>2 DEF IInv, BatchInUse, InPass
<1>4. call' = call \/ call' = Asked(LossCall("categorical_cross_entropy", roles), FALSE)
  BY DEF LossForward, Reshapes
<1> HIDE DEF prediction
<1>5. InBounds(Asked(LossCall("categorical_cross_entropy", roles), FALSE))
  BY <1>2, <1>3, LossStaysWithin DEF IInv
<1> QED
  BY <1>4, <1>5

LEMMA LossBackwardWithin ==
  ASSUME IInv, WellFormed, NothingWraps, LossBackward
  PROVE  call' = call \/ InBounds(call')
<1> DEFINE prediction == Plain(Pointed(last))
           roles == [prediction |-> prediction, target |-> Targets, grad_prediction |-> prediction]
<1>1. at[1] = "loss gradient"
  BY DEF LossBackward
<1>2. InPass /\ Given(prediction, Depth)
  <2>1. last = current
    BY <1>1 DEF IInv, CurrentInUse
  <2> QED
    BY <1>1, <2>1, Prediction
<1>3. batch[3] \in 1..net.input[1]
  BY <1>2 DEF IInv, BatchInUse, InPass
<1>4. call' = call \/ call' = Asked(LossCall("backward_categorical_cross_entropy", roles), FALSE)
  BY DEF LossBackward, Reshapes
<1> HIDE DEF prediction
<1>5. InBounds(Asked(LossCall("backward_categorical_cross_entropy", roles), FALSE))
  BY <1>2, <1>3, LossStaysWithin DEF IInv
<1> QED
  BY <1>4, <1>5

LEMMA BackwardLayerWithin ==
  ASSUME IInv, WellFormed, Smooth, NothingWraps, BackwardLayer
  PROVE  call' = call \/ InBounds(call')
<1>1. PICK i \in 1..Depth : at = <<"backward", i>>
  <2>1. at[1] = "backward" /\ at[2] \in 1..Depth
    BY DEF BackwardLayer
  <2>2. PICK j \in 0..Depth : at = <<"backward", j>>
    BY <2>1, PlacesOfPasses DEF IInv
  <2>3. at[2] = j
    BY <2>2
  <2> QED
    BY <2>1, <2>2, <2>3
<1> DEFINE layer == net.layers[i]
           l == layers[i]
           grad_output == Plain(Pointed(current))
           input == IF l.saved = Never THEN grad_output ELSE Plain(Pointed(l.saved))
           grad_input == GradInput(layer, l, input, grad_output)
           c == BackwardCall(net, i, l, input, grad_output, grad_input)
<1>2. call' = call \/ (Kind(i) # "flatten" /\ call' = Asked(c, ~l.fast))
  BY <1>1, ZenonT(30) DEF BackwardLayer, Reshapes, Kind
<1>3. /\ Given(grad_output, i)
      /\ Kind(i) \in Parametric \cup {"activation"} => input = Plain(Pointed(l.saved))
      /\ Kind(i) \in Parametric => Given(input, i - 1)
      /\ Kind(i) = "activation" => Given(input, i)
      /\ Kind(i) = "maxpool" => l.indexed = Shape(i - 1)
  BY <1>1, BackwardGiven
<1>4. l = layers[i] /\ grad_output = Plain(Pointed(current)) /\ grad_input = GradInput(net.layers[i], l, input, grad_output)
  OBVIOUS
<1>5. c = BackwardCall(net, i, l, input, grad_output, grad_input)
  OBVIOUS
<1> HIDE DEF l, grad_output, input, grad_input, c
<1>6. ASSUME Kind(i) # "flatten" PROVE InBounds(Asked(c, ~l.fast))
  <2>1. /\ Entry(c) # Threw
        /\ Kind(i) \notin InPlace => grad_input.shape = Shape(i - 1)
    BY <1>1, <1>3, <1>4, <1>5, <1>6, BackwardRuns
  <2>2. Kind(i) # "activation" => grad_input.shape = Shape(i - 1)
    BY <1>6, <2>1 DEF InPlace
  <2> QED
    BY <1>3, <1>5, <1>6, <2>1, <2>2, BackwardStaysWithin DEF IInv
<1> QED
  BY <1>2, <1>6

LEMMA NextWithin ==
  ASSUME IInv, WellFormed => Smooth, Contained, Next \/ UNCHANGED vars
  PROVE  Contained'
<1>1. WellFormed' = WellFormed /\ NothingWraps' = NothingWraps
  <2>1. UNCHANGED net
    BY NetStays
  <2> QED
    BY <2>1, StaysWellFormed DEF NothingWraps, Depth, Kind
<1> SUFFICES ASSUME WellFormed, NothingWraps, call' # NoCall PROVE InBounds(call')
  BY <1>1 DEF Contained
<1>2. CASE ForwardLayer \/ LossForward \/ LossBackward \/ BackwardLayer
  <2>1. call' = call \/ InBounds(call')
    BY <1>2, ForwardLayerWithin, LossForwardWithin, LossBackwardWithin, BackwardLayerWithin
  <2> QED
    BY <2>1 DEF Contained
<1>3. CASE UNCHANGED call
  BY <1>3 DEF Contained
<1>4. CASE EndEpoch
  BY <1>4 DEF EndEpoch
<1>5. CASE ~(ForwardLayer \/ LossForward \/ LossBackward \/ BackwardLayer \/ EndEpoch)
  <2>1. UNCHANGED call
    BY <1>5 DEF Next, vars, Construct, Fit, Evaluate, Run, ResetEpoch, NextBatch, BeginPass,
                Metrics, Step, Deliver
  <2> QED
    BY <1>3, <2>1
<1> QED
  BY <1>2, <1>4, <1>5

\* In a network that the layers support, whatever the order of training, evaluation and
\* inference, the calls that skip the validation, once a layer has seen an input of this
\* description and for the loss always, touch no cell outside their tensors: each is one
\* that the validation would have accepted, and of the size that memory was given.
THEOREM SupportedStayInBounds == Spec => [](WellFormed => FastPathInBounds)
<1> DEFINE Inv == IInv /\ (WellFormed => Smooth) /\ Contained
<1>1. Init => Inv
  BY InitHolds, InitSmoothly DEF Init, Contained
<1>2. Inv /\ [Next]_vars => Inv'
  <2> SUFFICES ASSUME Inv, [Next]_vars PROVE Inv'
    OBVIOUS
  <2>1. IInv'
    BY NextKeeps, StutterKeeps
  <2>2. WellFormed' = WellFormed
    BY NetStays, StaysWellFormed
  <2>3. WellFormed => Smooth'
    BY NextSmoothly, StutterSmoothly
  <2>4. Contained'
    BY NextWithin
  <2> QED
    BY <2>1, <2>2, <2>3, <2>4
<1>3. Inv => (WellFormed => FastPathInBounds)
  BY DEF Contained, FastPathInBounds
<1> QED
  BY <1>1, <1>2, <1>3, PTL DEF Spec
=============================================================================
