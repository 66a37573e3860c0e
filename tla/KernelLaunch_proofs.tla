------------------------- MODULE KernelLaunch_proofs -------------------------
(***************************************************************************)
(* No launch of any accepted call races, on the CPU pool or on the GPU, or *)
(* leaves its tensors.                                                     *)
(* First arithmetic: two iterations, or two threads of a grid, that a loop *)
(* or a kernel tells apart write at different addresses.  Then, kernel by  *)
(* kernel, what one worker touches: its own cells of what is written, and  *)
(* the rest it only reads, or adds to atomically.  Then what the           *)
(* validations leave of the calls: the tensors a launch writes are as      *)
(* large as its loops take them to be.  IInv ties the steps to that: what  *)
(* is left to do in a launch is what the kernel does there.                *)
(*                                                                         *)
(* The second half shows in the same order that none of them touches a     *)
(* cell outside its tensors: addresses of indices below the extents, then  *)
(* the iterations and the threads of each kernel, then every accepted call *)
(* and, with IInv, every step (BInv).                                      *)
(***************************************************************************)
EXTENDS KernelLaunch, SequenceTheorems, Counting

USE SizeModAssumption

-----------------------------------------------------------------------------
(* Addresses. *)

LEMMA Quotient ==
  ASSUME NEW i \in Nat, NEW d \in Nat \ {0}
  PROVE  i \div d \in Nat /\ i % d \in Below(d) /\ i = (i \div d) * d + (i % d)
BY DEF Below

\* The quotient is below n if the number is below n times the divisor.
LEMMA QuotientBelow ==
  ASSUME NEW n \in Nat, NEW d \in Nat, NEW i \in Below(n * d)
  PROVE  d # 0 /\ i \in Nat /\ i \div d \in Below(n) /\ i % d \in Below(d)
         /\ i = (i \div d) * d + (i % d)
<1>1. d # 0 /\ i \in Nat /\ i < n * d
  BY DEF Below
<1>2. i \div d \in Nat /\ i % d \in Below(d) /\ i = (i \div d) * d + (i % d)
  BY <1>1, Quotient
<1>3. i \div d < n
  <2>1. SUFFICES ASSUME n <= i \div d PROVE FALSE
    BY <1>2
  <2>2. n * d <= (i \div d) * d
    BY <1>2, <2>1, ProductGrows
  <2> QED
    BY <1>1, <1>2, <2>2 DEF Below
<1> QED
  BY <1>1, <1>2, <1>3 DEF Below

LEMMA OffsetOfPair ==
  ASSUME NEW p \in Int, NEW q \in Int, NEW a \in Int, NEW b \in Int
  PROVE  Offset(<<p, q>>, <<a, b>>) = a * q + b
<1> DEFINE dims == <<p, q>>   index == <<a, b>>
           f == [i \in 0..2 |-> IF i = 0 THEN 0 ELSE IF i = 1 THEN a ELSE a * q + b]
           step(at, i) == IF i = 0 THEN 0 ELSE at[i - 1] * dims[i] + index[i]
<1>1. Len(dims) = 2
  OBVIOUS
<1>2. f = [i \in 0..2 |-> step(f, i)]
  <2>1. f[0] = 0 /\ f[1] = a /\ f[2] = a * q + b
    OBVIOUS
  <2>2. step(f, 0) = 0 /\ step(f, 1) = a /\ step(f, 2) = a * q + b
    BY <2>1
  <2>3. \A i \in 0..2 : i = 0 \/ i = 1 \/ i = 2
    OBVIOUS
  <2>4. \A i \in 0..2 : f[i] = step(f, i)
    BY <2>1, <2>2, <2>3
  <2>5. f = [i \in 0..2 |-> f[i]]
    OBVIOUS
  <2> HIDE DEF f, step
  <2> QED
    BY <2>4, <2>5
<1>3. PICK at : Offset(dims, index) = at[2] /\ at = [i \in 0..2 |-> step(at, i)]
  <2>1. Offset(dims, index) = (CHOOSE at : at = [i \in 0..2 |-> step(at, i)])[2]
    BY <1>1 DEF Offset
  <2> HIDE DEF f, step
  <2> QED
    BY <1>2, <2>1
<1>4. \A i \in 0..2 : at[i] = step(at, i)
  <2> HIDE DEF step
  <2> QED
    BY <1>3
<1>5. at[0] = 0
  BY <1>4
<1>6. at[1] = at[0] * p + a
  BY <1>4
<1>7. at[2] = at[1] * q + b
  BY <1>4
<1> HIDE DEF step, dims, index
<1> QED
  BY <1>3, <1>5, <1>6, <1>7 DEF dims, index

Address(k, h, w, a, b, i, j) == ((a * k + b) * h + i) * w + j
LEMMA AddressOfImage ==
  ASSUME NEW n \in Int, NEW k \in Int, NEW h \in Int, NEW w \in Int,
         NEW a \in Int, NEW b \in Int, NEW c \in Int, NEW d \in Int
  PROVE  Offset(<<n, k, h, w>>, <<a, b, c, d>>) = Address(k, h, w, a, b, c, d)
<1> SUFFICES Offset(<<n, k, h, w>>, <<a, b, c, d>>) = ((a * k + b) * h + c) * w + d
  BY DEF Address
<1> DEFINE dims == <<n, k, h, w>>   index == <<a, b, c, d>>
           two == a * k + b
           three == two * h + c
           f == [i \in 0..4 |-> IF i = 0 THEN 0 ELSE IF i = 1 THEN a ELSE IF i = 2 THEN two
                                ELSE IF i = 3 THEN three ELSE three * w + d]
           step(at, i) == IF i = 0 THEN 0 ELSE at[i - 1] * dims[i] + index[i]
<1>1. Len(dims) = 4
  OBVIOUS
<1>t. two \in Int /\ three \in Int
  OBVIOUS
<1>2. f = [i \in 0..4 |-> step(f, i)]
  <2>1. f[0] = 0 /\ f[1] = a /\ f[2] = two /\ f[3] = three /\ f[4] = three * w + d
    OBVIOUS
  <2>2. step(f, 0) = 0 /\ step(f, 1) = f[0] * n + a /\ step(f, 2) = f[1] * k + b
        /\ step(f, 3) = f[2] * h + c /\ step(f, 4) = f[3] * w + d
    <3> HIDE DEF f
    <3> QED
      OBVIOUS
  <2>3. \A i \in 0..4 : i = 0 \/ i = 1 \/ i = 2 \/ i = 3 \/ i = 4
    OBVIOUS
  <2>5. f = [i \in 0..4 |-> f[i]]
    OBVIOUS
  <2> HIDE DEF f, step
  <2>6. step(f, 1) = a
    BY <2>1, <2>2
  <2>4. \A i \in 0..4 : f[i] = step(f, i)
    BY <2>1, <2>2, <2>3, <2>6
  <2> QED
    BY <2>4, <2>5
<1>3. PICK at : Offset(dims, index) = at[4] /\ at = [i \in 0..4 |-> step(at, i)]
  <2>1. Offset(dims, index) = (CHOOSE at : at = [i \in 0..4 |-> step(at, i)])[4]
    BY <1>1 DEF Offset
  <2> HIDE DEF f, step
  <2> QED
    BY <1>2, <2>1
<1>4. \A i \in 0..4 : at[i] = step(at, i)
  <2> HIDE DEF step
  <2> QED
    BY <1>3
<1>5. at[0] = 0
  BY <1>4
<1>6. at[1] = at[0] * n + a
  BY <1>4
<1>7. at[2] = at[1] * k + b
  BY <1>4
<1>8. at[3] = at[2] * h + c
  BY <1>4
<1>9. at[4] = at[3] * w + d
  BY <1>4
<1>10. at[1] = a
  BY <1>5, <1>6
<1> HIDE DEF step, dims, index
<1> QED
  BY <1>3, <1>7, <1>8, <1>9, <1>10 DEF dims, index

-----------------------------------------------------------------------------
(* What an iteration touches.  Iteration i of a loop has the addresses of row *)
(* i, of a width that the loop fixes, in each of the tensors it writes.       *)

Own(x, width, i) == x[2] \in (i * width)..(i * width + width - 1)
Private(x, out, width, i) == x[1] \in out => Own(x, width, i)
TermsPrivate(terms, out, width, i) ==
  \A term \in terms : \A k \in DOMAIN term : Private(term[k], out, width, i)
Confined(effects, out, width, i) ==
  \A e \in effects : /\ e.to[1] \in out /\ Own(e.to, width, i)
                     /\ \A x \in Reads(e) : Private(x, out, width, i)

LEMMA RowsApart ==
  ASSUME NEW i \in Nat, NEW j \in Nat, i # j, NEW width \in Nat, NEW x
  PROVE  ~(Own(x, width, i) /\ Own(x, width, j))
<1>1. SUFFICES ASSUME Own(x, width, i), Own(x, width, j) PROVE FALSE
  OBVIOUS
<1>2. /\ x[2] \in Int /\ i * width <= x[2] /\ x[2] < i * width + width
      /\ j * width <= x[2] /\ x[2] < j * width + width
  BY <1>1 DEF Own
<1>3. CASE i < j
  <2>1. (i + 1) * width <= j * width
    BY <1>3, ProductGrows
  <2> QED
    BY <1>2, <2>1
<1>4. CASE j < i
  <2>1. (j + 1) * width <= i * width
    BY <1>4, ProductGrows
  <2> QED
    BY <1>2, <2>1
<1> QED
  BY <1>3, <1>4

LEMMA ConfinedApart ==
  ASSUME NEW i \in Nat, NEW j \in Nat, i # j, NEW width \in Nat, NEW out, NEW E, NEW F,
         Confined(E, out, width, i), Confined(F, out, width, j),
         NEW e \in E, NEW f \in F
  PROVE  e.to # f.to /\ e.to \notin Reads(f)
<1>1. e.to[1] \in out /\ Own(e.to, width, i) /\ Own(f.to, width, j)
  BY DEF Confined
<1>2. e.to \in Reads(f) => Own(e.to, width, j)
  BY <1>1 DEF Confined, Private
<1> QED
  BY <1>1, <1>2, RowsApart

LEMMA ReadsOfEffect ==
  ASSUME NEW cell, NEW terms
  PROVE  /\ Effect(cell, terms).to = cell
         /\ ~Effect(cell, terms).atomic
         /\ Reads(Effect(cell, terms)) = UNION {{term[k] : k \in DOMAIN term} : term \in terms}
BY DEF Effect, Reads

LEMMA EffectConfined ==
  ASSUME NEW out, NEW width, NEW i, NEW cell, NEW terms,
         cell[1] \in out, Own(cell, width, i), TermsPrivate(terms, out, width, i)
  PROVE  Confined({Effect(cell, terms)}, out, width, i)
<1> DEFINE e == Effect(cell, terms)
<1>1. e.to = cell
  BY ReadsOfEffect
<1>2. \A x \in Reads(e) : Private(x, out, width, i)
  <2> SUFFICES ASSUME NEW x \in Reads(e) PROVE Private(x, out, width, i)
    OBVIOUS
  <2>1. PICK term \in terms : \E k \in DOMAIN term : x = term[k]
    BY ReadsOfEffect
  <2> QED
    BY <2>1 DEF TermsPrivate
<1> HIDE DEF e
<1>3. \A f \in {e} : f = e
  OBVIOUS
<1>4. Confined({e}, out, width, i)
  BY <1>1, <1>2, <1>3 DEF Confined
<1> QED
  BY <1>4 DEF e

LEMMA ConfinedTogether ==
  ASSUME NEW out, NEW width, NEW i, NEW S, \A E \in S : Confined(E, out, width, i)
  PROVE  Confined(UNION S, out, width, i)
BY DEF Confined

-----------------------------------------------------------------------------
(* The iterations of the loops. *)

\* Every term of an effect on the result is of other tensors.
OneOutput(e, cell, others) ==
  /\ e.to = cell /\ ~e.atomic /\ ~e.keep
  /\ \A x \in Reads(e) : x[1] \in others

LEMMA OutputOfEffect ==
  ASSUME NEW cell, NEW terms, NEW others,
         \A term \in terms : \A k \in DOMAIN term : term[k][1] \in others
  PROVE  OneOutput(Effect(cell, terms), cell, others)
<1>1. \A x \in Reads(Effect(cell, terms)) : x[1] \in others
  <2> SUFFICES ASSUME NEW x \in Reads(Effect(cell, terms)) PROVE x[1] \in others
    OBVIOUS
  <2>1. PICK term \in terms : \E k \in DOMAIN term : x = term[k]
    BY ReadsOfEffect
  <2> QED
    BY <2>1
<1> QED
  BY <1>1 DEF OneOutput, Effect

ConvSources == {"bias", "input", "kernels"}
ConvOutput(c, e, n, k, oh, ow) ==
  LET d == ConvDims(c) IN
  OneOutput(e, Cell("result", <<d.N, d.K, d.OH, d.OW>>, <<n, k, oh, ow>>), ConvSources)

\* A product of an element of the input and one of the kernels.
ConvTerm(c, k, term) ==
  term \in UsedBias(c, k) \/ \E x, y : term = << <<"input", x>>, <<"kernels", y>> >>

LEMMA ConvOutputOf ==
  ASSUME NEW c, NEW n, NEW k, NEW oh, NEW ow, NEW e,
         e.to = Cell("result", <<ConvDims(c).N, ConvDims(c).K, ConvDims(c).OH, ConvDims(c).OW>>,
                     <<n, k, oh, ow>>),
         ~e.keep, ~e.atomic, \A term \in e.terms : ConvTerm(c, k, term)
  PROVE  ConvOutput(c, e, n, k, oh, ow)
<1>1. ASSUME NEW x \in Reads(e) PROVE x[1] \in ConvSources
  <2>1. PICK term \in e.terms : \E j \in DOMAIN term : x = term[j]
    BY DEF Reads
  <2>2. CASE term \in UsedBias(c, k)
    BY <2>1, <2>2 DEF UsedBias, ConvSources
  <2>3. CASE \E y, z : term = << <<"input", y>>, <<"kernels", z>> >>
    BY <2>1, <2>3 DEF ConvSources
  <2> QED
    BY <2>1, <2>2, <2>3 DEF ConvTerm
<1> QED
  BY <1>1 DEF ConvOutput, OneOutput

LEMMA ConvOutputs ==
  ASSUME NEW c, NEW n, NEW k, NEW oh, NEW ow
  PROVE  /\ ConvOutput(c, ValidCell(c, n, k, oh, ow), n, k, oh, ow)
         /\ ConvOutput(c, PaddedCell(c, n, k, oh, ow), n, k, oh, ow)
         /\ ConvOutput(c, StridedCell(c, n, k, oh, ow), n, k, oh, ow)
         /\ ConvOutput(c, GeneralCell(c, n, k, oh, ow), n, k, oh, ow)
<1>1. ConvOutput(c, ValidCell(c, n, k, oh, ow), n, k, oh, ow)
  <2> DEFINE e == ValidCell(c, n, k, oh, ow)
  <2>1. \A term \in e.terms : ConvTerm(c, k, term)
    BY Zenon DEF ValidCell, ConvCell, Effect, Cell, ConvTerm
  <2>2. /\ e.to = Cell("result", <<ConvDims(c).N, ConvDims(c).K, ConvDims(c).OH, ConvDims(c).OW>>,
                       <<n, k, oh, ow>>)
        /\ ~e.keep /\ ~e.atomic
    BY DEF ValidCell, ConvCell, Effect
  <2> QED
    BY <2>1, <2>2, ConvOutputOf
<1>2. ConvOutput(c, PaddedCell(c, n, k, oh, ow), n, k, oh, ow)
  <2> DEFINE e == PaddedCell(c, n, k, oh, ow)
  <2>1. \A term \in e.terms : ConvTerm(c, k, term)
    BY Zenon DEF PaddedCell, ConvCell, Effect, Cell, ConvTerm
  <2>2. /\ e.to = Cell("result", <<ConvDims(c).N, ConvDims(c).K, ConvDims(c).OH, ConvDims(c).OW>>,
                       <<n, k, oh, ow>>)
        /\ ~e.keep /\ ~e.atomic
    BY DEF PaddedCell, ConvCell, Effect
  <2> QED
    BY <2>1, <2>2, ConvOutputOf
<1>3. ConvOutput(c, StridedCell(c, n, k, oh, ow), n, k, oh, ow)
  <2> DEFINE e == StridedCell(c, n, k, oh, ow)
  <2>1. \A term \in e.terms : ConvTerm(c, k, term)
    BY Zenon DEF StridedCell, ConvCell, Effect, Cell, ConvTerm
  <2>2. /\ e.to = Cell("result", <<ConvDims(c).N, ConvDims(c).K, ConvDims(c).OH, ConvDims(c).OW>>,
                       <<n, k, oh, ow>>)
        /\ ~e.keep /\ ~e.atomic
    BY DEF StridedCell, ConvCell, Effect
  <2> QED
    BY <2>1, <2>2, ConvOutputOf
<1>4. ConvOutput(c, GeneralCell(c, n, k, oh, ow), n, k, oh, ow)
  <2> DEFINE e == GeneralCell(c, n, k, oh, ow)
  <2>1. \A term \in e.terms : ConvTerm(c, k, term)
    BY Zenon DEF GeneralCell, ConvCell, Effect, Cell, ConvTerm
  <2>2. /\ e.to = Cell("result", <<ConvDims(c).N, ConvDims(c).K, ConvDims(c).OH, ConvDims(c).OW>>,
                       <<n, k, oh, ow>>)
        /\ ~e.keep /\ ~e.atomic
    BY DEF GeneralCell, ConvCell, Effect
  <2> QED
    BY <2>1, <2>2, ConvOutputOf
<1> QED
  BY <1>1, <1>2, <1>3, <1>4

ConvMeasured(c) ==
  LET d == ConvDims(c) IN {d.N, d.C, d.H, d.W, d.K, d.R, d.S, d.OH, d.OW} \subseteq Nat

LEMMA InPlane ==
  ASSUME NEW i \in Nat, NEW height \in Nat, NEW width \in Nat,
         NEW h \in Below(height), NEW w \in Below(width)
  PROVE  (i * height + h) * width + w
           \in (i * (height * width))..(i * (height * width) + height * width - 1)
<1>1. h \in Nat /\ h + 1 <= height /\ w \in Nat /\ w + 1 <= width
  BY DEF Below
<1>2. (h + 1) * width <= height * width
  BY <1>1, ProductGrows
<1>3. (i * height + h) * width = i * (height * width) + h * width
  BY <1>1
<1>4. h * width \in Nat /\ i * (height * width) \in Nat /\ (h + 1) * width = h * width + width
      /\ height * width \in Nat
  BY <1>1
<1> HIDE DEF Below
<1> QED
  BY <1>1, <1>2, <1>3, <1>4

LEMMA ConvPlace ==
  ASSUME NEW c, ConvMeasured(c), NEW e, NEW i, NEW oh \in Below(ConvDims(c).OH),
         NEW ow \in Below(ConvDims(c).OW), i \in Below(ConvPlanes(c)),
         ConvOutput(c, e, i \div ConvDims(c).K, i % ConvDims(c).K, oh, ow)
  PROVE  /\ i \in Nat /\ ~e.keep /\ ~e.atomic
         /\ e.to = <<"result", (i * ConvDims(c).OH + oh) * ConvDims(c).OW + ow>>
         /\ \A x \in Reads(e) : x[1] # "result"
<1> DEFINE d == ConvDims(c)
<1>1. d.N \in Nat /\ d.K \in Nat /\ d.OH \in Nat /\ d.OW \in Nat /\ i \in Below(d.N * d.K)
  BY DEF ConvMeasured, ConvPlanes
<1> DEFINE n == i \div d.K   k == i % d.K
<1>2. i \in Nat /\ n \in Nat /\ k \in Nat /\ n * d.K + k = i
  <2> HIDE DEF d
  <2>1. i \in Nat /\ n \in Below(d.N) /\ k \in Below(d.K) /\ i = n * d.K + k
    BY <1>1, QuotientBelow
  <2> HIDE DEF n, k
  <2> QED
    BY <2>1 DEF Below
<1>3. oh \in Int /\ ow \in Int
  BY DEF Below
<1> HIDE DEF n, k
<1>4. Offset(<<d.N, d.K, d.OH, d.OW>>, <<n, k, oh, ow>>) = ((n * d.K + k) * d.OH + oh) * d.OW + ow
  <2> HIDE DEF d
  <2>1. d.N \in Int /\ d.K \in Int /\ d.OH \in Int /\ d.OW \in Int /\ n \in Int /\ k \in Int /\ oh \in Int /\ ow \in Int
    BY <1>1, <1>2, <1>3
  <2>2. PICK a \in Int, b \in Int, x \in Int, y \in Int : a = d.N /\ b = d.K /\ x = d.OH /\ y = d.OW
    BY <2>1
  <2>3. Offset(<<a, b, x, y>>, <<n, k, oh, ow>>) = Address(b, x, y, n, k, oh, ow)
    BY <2>1, AddressOfImage
  <2> QED
    BY <2>2, <2>3 DEF Address
<1>5. OneOutput(e, <<"result", Offset(<<d.N, d.K, d.OH, d.OW>>, <<n, k, oh, ow>>)>>, ConvSources)
  BY DEF ConvOutput, Cell, n, k
<1>6. e.to = <<"result", (i * d.OH + oh) * d.OW + ow>>
  <2> HIDE DEF d
  <2> QED
    BY <1>2, <1>4, <1>5 DEF OneOutput
<1> QED
  BY <1>2, <1>5, <1>6 DEF OneOutput, ConvSources

LEMMA OutputsConfined ==
  ASSUME NEW effects, NEW width, NEW i,
         \A e \in effects : /\ e.to[1] = "result" /\ Own(e.to, width, i)
                            /\ \A x \in Reads(e) : x[1] # "result"
  PROVE  Confined(effects, {"result"}, width, i)
BY DEF Confined, Private

LEMMA PlanesConfined ==
  ASSUME NEW c, ConvMeasured(c), NEW i \in Below(ConvPlanes(c))
  PROVE  /\ Confined(Conv2dCpuFloat32ValidTask(c, i), {"result"}, ConvDims(c).OH * ConvDims(c).OW, i)
         /\ Confined(Conv2dCpuFloat32GeneralTask(c, i), {"result"}, ConvDims(c).OH * ConvDims(c).OW, i)
<1> DEFINE d == ConvDims(c)
<1>1. d.OH \in Nat /\ d.OW \in Nat
  BY DEF ConvMeasured
<1>2. ASSUME NEW e, NEW oh \in Below(d.OH), NEW ow \in Below(d.OW),
             ConvOutput(c, e, i \div d.K, i % d.K, oh, ow)
      PROVE  /\ e.to[1] = "result" /\ Own(e.to, d.OH * d.OW, i)
             /\ \A x \in Reads(e) : x[1] # "result"
  <2>1. /\ i \in Nat /\ e.to = <<"result", (i * d.OH + oh) * d.OW + ow>>
        /\ \A x \in Reads(e) : x[1] # "result"
    BY <1>2, ConvPlace
  <2> HIDE DEF d
  <2>2. (i * d.OH + oh) * d.OW + ow \in (i * (d.OH * d.OW))..(i * (d.OH * d.OW) + d.OH * d.OW - 1)
    BY <1>1, <2>1, InPlane
  <2> QED
    BY <2>1, <2>2 DEF Own
<1>3. Confined(Conv2dCpuFloat32ValidTask(c, i), {"result"}, d.OH * d.OW, i)
  <2>1. ASSUME NEW e \in Conv2dCpuFloat32ValidTask(c, i)
        PROVE  \E oh \in Below(d.OH), ow \in Below(d.OW) : ConvOutput(c, e, i \div d.K, i % d.K, oh, ow)
    <3>1. PICK p \in Below(d.OH) \X Below(d.OW) : e = ValidCell(c, i \div d.K, i % d.K, p[1], p[2])
      BY <2>1 DEF Conv2dCpuFloat32ValidTask, ConvPlane
    <3> QED
      BY <3>1, ConvOutputs
  <2> QED
    BY <1>2, <2>1, OutputsConfined
<1>4. Confined(Conv2dCpuFloat32GeneralTask(c, i), {"result"}, d.OH * d.OW, i)
  <2>1. ASSUME NEW e \in Conv2dCpuFloat32GeneralTask(c, i)
        PROVE  \E oh \in Below(d.OH), ow \in Below(d.OW) : ConvOutput(c, e, i \div d.K, i % d.K, oh, ow)
    <3>1. PICK p \in Below(d.OH) \X Below(d.OW) : e = GeneralCell(c, i \div d.K, i % d.K, p[1], p[2])
      BY <2>1 DEF Conv2dCpuFloat32GeneralTask, ConvPlane
    <3> QED
      BY <3>1, ConvOutputs
  <2> QED
    BY <1>2, <2>1, OutputsConfined
<1> QED
  BY <1>3, <1>4

LEMMA RowsConfined ==
  ASSUME NEW c, ConvMeasured(c), NEW i \in Below(ConvRows(c))
  PROVE  /\ Confined(Conv2dCpuFloat32PaddedTask(c, i), {"result"}, ConvDims(c).OW, i)
         /\ Confined(Conv2dCpuFloat32StridedTask(c, i), {"result"}, ConvDims(c).OW, i)
<1> DEFINE d == ConvDims(c)
           nk == i \div d.OH
           oh == i % d.OH
<1>1. /\ d.K \in Nat /\ d.OH \in Nat /\ d.OW \in Nat /\ d.N * d.K \in Nat
      /\ i \in Below((d.N * d.K) * d.OH)
  BY DEF ConvMeasured, ConvRows
<1>2. i \in Nat /\ nk \in Below(d.N * d.K) /\ oh \in Below(d.OH) /\ nk * d.OH + oh = i
  <2> DEFINE planes == d.N * d.K
  <2>1. d.OH \in Nat /\ planes \in Nat /\ i \in Below(planes * d.OH)
    BY <1>1
  <2> HIDE DEF d, planes
  <2>2. i \in Nat /\ nk \in Below(planes) /\ oh \in Below(d.OH) /\ i = nk * d.OH + oh
    BY <2>1, QuotientBelow
  <2> QED
    BY <2>2 DEF planes
<1>3. ASSUME NEW e, NEW ow \in Below(d.OW),
             ConvOutput(c, e, nk \div d.K, nk % d.K, oh, ow)
      PROVE  /\ e.to[1] = "result" /\ Own(e.to, d.OW, i)
             /\ \A x \in Reads(e) : x[1] # "result"
  <2>1. /\ e.to = <<"result", (nk * d.OH + oh) * d.OW + ow>>
        /\ \A x \in Reads(e) : x[1] # "result"
    <3> HIDE DEF nk, oh
    <3> QED
      BY <1>2, <1>3, ConvPlace DEF ConvPlanes
  <2>2. i * d.OW \in Nat /\ ow \in Nat /\ ow < d.OW
    <3>1. i \in Nat /\ d.OW \in Nat
      BY <1>1, <1>2
    <3> HIDE DEF d
    <3> QED
      BY <3>1 DEF Below
  <2>3. e.to = <<"result", i * d.OW + ow>>
    BY <1>2, <2>1
  <2> HIDE DEF d, nk, oh
  <2> QED
    BY <1>1, <2>1, <2>2, <2>3 DEF Own
<1>4. Confined(Conv2dCpuFloat32PaddedTask(c, i), {"result"}, d.OW, i)
  <2>1. ASSUME NEW e \in Conv2dCpuFloat32PaddedTask(c, i)
        PROVE  \E ow \in Below(d.OW) : ConvOutput(c, e, nk \div d.K, nk % d.K, oh, ow)
    <3>1. PICK ow \in Below(d.OW) : e = PaddedCell(c, nk \div d.K, nk % d.K, oh, ow)
      BY <2>1 DEF Conv2dCpuFloat32PaddedTask, ConvRow
    <3> QED
      BY <3>1, ConvOutputs
  <2> QED
    BY <1>3, <2>1, OutputsConfined
<1>5. Confined(Conv2dCpuFloat32StridedTask(c, i), {"result"}, d.OW, i)
  <2>1. ASSUME NEW e \in Conv2dCpuFloat32StridedTask(c, i)
        PROVE  \E ow \in Below(d.OW) : ConvOutput(c, e, nk \div d.K, nk % d.K, oh, ow)
    <3>1. PICK ow \in Below(d.OW) : e = StridedCell(c, nk \div d.K, nk % d.K, oh, ow)
      BY <2>1 DEF Conv2dCpuFloat32StridedTask, ConvRow
    <3> QED
      BY <3>1, ConvOutputs
  <2> QED
    BY <1>3, <2>1, OutputsConfined
<1> QED
  BY <1>4, <1>5

\* The loops whose iteration i writes element i, from other tensors.
OneOrTwo(term, others) ==
  \/ \E x : term = <<x>> /\ x[1] \in others
  \/ \E x, y : term = <<x, y>> /\ x[1] \in others /\ y[1] \in others

LEMMA ElementConfined ==
  ASSUME NEW i \in Nat, NEW effects, NEW out, NEW others, others \cap out = {},
         \A e \in effects : /\ ~e.keep /\ e.to[1] \in out /\ e.to[2] = i
                            /\ \A term \in e.terms : OneOrTwo(term, others)
  PROVE  Confined(effects, out, 1, i)
<1>1. ASSUME NEW e \in effects, NEW x \in Reads(e) PROVE x[1] \notin out
  <2>1. PICK term \in e.terms : \E k \in DOMAIN term : x = term[k]
    BY DEF Reads
  <2>2. CASE \E y : term = <<y>> /\ y[1] \in others
    BY <2>1, <2>2
  <2>3. CASE \E y, z : term = <<y, z>> /\ y[1] \in others /\ z[1] \in others
    BY <2>1, <2>3
  <2> QED
    BY <2>1, <2>2, <2>3 DEF OneOrTwo
<1>2. \A e \in effects : Own(e.to, 1, i)
  BY DEF Own
<1> QED
  BY <1>1, <1>2 DEF Confined, Private

\* A term of one of the gradients.
GradientTerm(term) ==
  \/ \E x, y : term = << <<"grad_output", x>>, <<"weights", y>> >>
  \/ \E x, y : term = << <<"input", x>>, <<"grad_output", y>> >>
  \/ \E x : term = << <<"grad_output", x>> >>

LEMMA GradientConfined ==
  \A i \in Nat, role \in {"grad_input", "grad_weights", "grad_bias"} : \A terms :
    (\A term \in terms : GradientTerm(term)) => Confined({Effect(<<role, i>>, terms)}, {role}, 1, i)
<1> SUFFICES ASSUME NEW i \in Nat, NEW role \in {"grad_input", "grad_weights", "grad_bias"}, NEW terms,
                    \A term \in terms : GradientTerm(term)
             PROVE  Confined({Effect(<<role, i>>, terms)}, {role}, 1, i)
  OBVIOUS
<1> DEFINE effects == {Effect(<<role, i>>, terms)}
<1>1. \A e \in effects : ~e.keep /\ e.to[1] = role /\ e.to[2] = i /\ e.terms = terms
  BY DEF Effect
<1>2. {"input", "weights", "grad_output"} \cap {role} = {}
  OBVIOUS
<1>3. \A term \in terms : OneOrTwo(term, {"input", "weights", "grad_output"})
  BY DEF GradientTerm, OneOrTwo
<1> HIDE DEF effects
<1>4. Confined(effects, {role}, 1, i)
  BY <1>1, <1>2, <1>3, ElementConfined
<1> QED
  BY <1>4 DEF effects

LEMMA GradientsConfined ==
  ASSUME NEW c, NEW i \in Nat
  PROVE  /\ Confined(ConvGradInput(c, i), {"grad_input"}, 1, i)
         /\ Confined(ConvGradWeights(c, i), {"grad_weights"}, 1, i)
         /\ Confined(ConvGradBias(c, i), {"grad_bias"}, 1, i)
         /\ Confined(LinearGradInput(c, i), {"grad_input"}, 1, i)
         /\ Confined(LinearGradWeights(c, i), {"grad_weights"}, 1, i)
         /\ Confined(LinearGradBias(c, i), {"grad_bias"}, 1, i)
<1>1. Confined(ConvGradInput(c, i), {"grad_input"}, 1, i)
  <2>1. "grad_input" \in {"grad_input", "grad_weights", "grad_bias"}
    OBVIOUS
  <2> QED
    BY <2>1, GradientConfined, Zenon DEF ConvGradInput, GradOutput, Cell, GradientTerm
<1>2. Confined(ConvGradWeights(c, i), {"grad_weights"}, 1, i)
  <2>1. "grad_weights" \in {"grad_input", "grad_weights", "grad_bias"}
    OBVIOUS
  <2> QED
    BY <2>1, GradientConfined, Zenon DEF ConvGradWeights, GradOutput, Cell, GradientTerm
<1>3. Confined(ConvGradBias(c, i), {"grad_bias"}, 1, i)
  <2>1. "grad_bias" \in {"grad_input", "grad_weights", "grad_bias"}
    OBVIOUS
  <2> QED
    BY <2>1, GradientConfined, Zenon DEF ConvGradBias, GradOutput, Cell, GradientTerm
<1>4. Confined(LinearGradInput(c, i), {"grad_input"}, 1, i)
  <2>1. ASSUME NEW e \in LinearGradInput(c, i)
        PROVE  ~e.keep /\ e.to[1] = "grad_input" /\ e.to[2] = i
    BY <2>1 DEF LinearGradInput, Effect
  <2>2. ASSUME NEW e \in LinearGradInput(c, i), NEW term \in e.terms
        PROVE  OneOrTwo(term, {"input", "weights", "grad_output"})
    BY <2>2 DEF LinearGradInput, Effect, GradAt, WeightAt, OneOrTwo
  <2> QED
    BY <2>1, <2>2, ElementConfined
<1>5. Confined(LinearGradWeights(c, i), {"grad_weights"}, 1, i)
  <2>1. ASSUME NEW e \in LinearGradWeights(c, i)
        PROVE  ~e.keep /\ e.to[1] = "grad_weights" /\ e.to[2] = i
    BY <2>1 DEF LinearGradWeights, Effect
  <2>2. ASSUME NEW e \in LinearGradWeights(c, i), NEW term \in e.terms
        PROVE  OneOrTwo(term, {"input", "weights", "grad_output"})
    BY <2>2 DEF LinearGradWeights, Effect, GradAt, InputAt, OneOrTwo
  <2> QED
    BY <2>1, <2>2, ElementConfined
<1>6. Confined(LinearGradBias(c, i), {"grad_bias"}, 1, i)
  <2>1. ASSUME NEW e \in LinearGradBias(c, i)
        PROVE  ~e.keep /\ e.to[1] = "grad_bias" /\ e.to[2] = i
    BY <2>1 DEF LinearGradBias, Effect
  <2>2. ASSUME NEW e \in LinearGradBias(c, i), NEW term \in e.terms
        PROVE  OneOrTwo(term, {"input", "weights", "grad_output"})
    BY <2>2 DEF LinearGradBias, Effect, GradAt, OneOrTwo
  <2> QED
    BY <2>1, <2>2, ElementConfined
<1> QED
  BY <1>1, <1>2, <1>3, <1>4, <1>5, <1>6

\* The loops that read, of what they write, only what they are about to replace.
LEMMA CellsConfined ==
  ASSUME NEW i \in Nat, NEW effects, NEW out,
         \A e \in effects : /\ e.to[1] \in out /\ e.to[2] = i
                            /\ \A x \in Reads(e) : x[1] \in out => x[2] = i
  PROVE  Confined(effects, out, 1, i)
<1>1. \A x : x[2] = i => Own(x, 1, i)
  BY DEF Own
<1> QED
  BY <1>1 DEF Confined, Private

LEMMA ReadsOfMade ==
  ASSUME NEW cell, NEW from
  PROVE  /\ Made(cell, from).to = cell /\ ~Made(cell, from).atomic
         /\ Reads(Made(cell, from)) \subseteq from
<1>1. Reads(Made(cell, from)) = UNION {{term[k] : k \in DOMAIN term} : term \in {<<x>> : x \in from}}
  BY ReadsOfEffect DEF Made
<1>2. ASSUME NEW y \in Reads(Made(cell, from)) PROVE y \in from
  <2>1. PICK term \in {<<x>> : x \in from} : \E k \in DOMAIN term : y = term[k]
    BY <1>1
  <2>2. PICK x \in from : term = <<x>>
    BY <2>1
  <2> QED
    BY <2>1, <2>2
<1> QED
  BY <1>2 DEF Made, Effect

LEMMA MadeConfined ==
  ASSUME NEW i \in Nat, NEW role, NEW out, role \in out, NEW from, \A x \in from : x[2] = i
  PROVE  Confined({Made(<<role, i>>, from)}, out, 1, i)
<1> DEFINE effects == {Made(<<role, i>>, from)}
<1>1. \A e \in effects : /\ e.to[1] \in out /\ e.to[2] = i
                         /\ \A x \in Reads(e) : x[1] \in out => x[2] = i
  BY ReadsOfMade
<1> HIDE DEF effects
<1>2. Confined(effects, out, 1, i)
  BY <1>1, CellsConfined
<1> QED
  BY <1>2 DEF effects

LEMMA UpdatesConfined ==
  ASSUME NEW c, NEW i \in Nat
  PROVE  /\ Confined(ActivationTask(c, i), {"tensor"}, 1, i)
         /\ Confined(BackwardActivationTask(c, i), {"grad"}, 1, i)
         /\ Confined(SgdUpdateCpuFloat32Task(c, i), {"value"}, 1, i)
         /\ Confined(ZeroGradInputTask(c, i), {"grad_input"}, 1, i)
         /\ Confined(BackwardLossTask(c, i), {"grad_prediction"}, 1, i)
<1>1. Confined(ActivationTask(c, i), {"tensor"}, 1, i)
  BY MadeConfined DEF ActivationTask
<1>2. Confined(BackwardActivationTask(c, i), {"grad"}, 1, i)
  BY MadeConfined DEF BackwardActivationTask
<1>3. Confined(SgdUpdateCpuFloat32Task(c, i), {"value"}, 1, i)
  BY MadeConfined DEF SgdUpdateCpuFloat32Task
<1>4. Confined(ZeroGradInputTask(c, i), {"grad_input"}, 1, i)
  BY GradientConfined DEF ZeroGradInputTask
<1>5. Confined(BackwardLossTask(c, i), {"grad_prediction"}, 1, i)
  <2> DEFINE terms == LossTerm(c, i)
  <2>1. TermsPrivate(terms, {"grad_prediction"}, 1, i)
    BY DEF TermsPrivate, Private, LossTerm
  <2>2. Own(<<"grad_prediction", i>>, 1, i)
    BY DEF Own
  <2>3. Confined({Effect(<<"grad_prediction", i>>, terms)}, {"grad_prediction"}, 1, i)
    <3> HIDE DEF terms
    <3> QED
      BY <2>1, <2>2, EffectConfined
  <2> QED
    BY <2>3 DEF BackwardLossTask
<1> QED
  BY <1>1, <1>2, <1>3, <1>4, <1>5

LEMMA LinearConfined ==
  ASSUME NEW c, NEW i \in Nat
  PROVE  Confined(LinearCpuFloat32Task(c, i), {"result"}, 1, i)
<1>1. ASSUME NEW e \in LinearCpuFloat32Task(c, i)
      PROVE  ~e.keep /\ e.to[1] = "result" /\ e.to[2] = i
  BY <1>1 DEF LinearCpuFloat32Task, Effect
<1>2. ASSUME NEW e \in LinearCpuFloat32Task(c, i), NEW term \in e.terms
      PROVE  OneOrTwo(term, {"input", "weights", "bias"})
  BY <1>2 DEF LinearCpuFloat32Task, Effect, InputAt, WeightAt, OneOrTwo
<1> QED
  BY <1>1, <1>2, ElementConfined

LEMMA AdamConfined ==
  ASSUME NEW c, NEW i \in Nat
  PROVE  Confined(AdamUpdateCpuFloat32Task(c, i), {"value", "first_moment", "second_moment"}, 1, i)
<1> DEFINE out == {"value", "first_moment", "second_moment"}
           m == <<"first_moment", i>>   v == <<"second_moment", i>>   g == <<"grad", i>>
           x == <<"value", i>>
           first == {<<m>>, <<g>>}   second == {<<v>>, <<g, g>>}
           products == {p[1] \o p[2] : p \in first \X second}
           E1 == Effect(m, first)   E2 == Effect(v, second)   E3 == Effect(x, {<<x>>} \cup products)
<1>1. AdamUpdateCpuFloat32Task(c, i) = {E1, E2, E3}
  BY DEF AdamUpdateCpuFloat32Task
<1>2. \A term \in products : term \in Seq({m, v, g})
  <2> HIDE DEF m, v, g
  <2> SUFFICES ASSUME NEW p \in first \X second PROVE p[1] \o p[2] \in Seq({m, v, g})
    OBVIOUS
  <2>1. p[1] \in Seq({m, v, g}) /\ p[2] \in Seq({m, v, g})
    <3>1. p[1] \in {<<m>>, <<g>>} /\ p[2] \in {<<v>>, <<g, g>>}
      OBVIOUS
    <3>2. <<m>> \in Seq({m, v, g}) /\ <<g>> \in Seq({m, v, g}) /\ <<v>> \in Seq({m, v, g})
          /\ <<g, g>> \in Seq({m, v, g})
      OBVIOUS
    <3> QED
      BY <3>1, <3>2
  <2> QED
    BY <2>1, ConcatProperties
<1>3. m[2] = i /\ v[2] = i /\ g[2] = i /\ x[2] = i /\ m[1] \in out /\ v[1] \in out /\ x[1] \in out
  OBVIOUS
<1> HIDE DEF products, m, v, g, x
<1>4. \A y \in {m, v, g, x} : Own(y, 1, i)
  BY <1>3 DEF Own
<1>5. TermsPrivate(first, out, 1, i) /\ TermsPrivate(second, out, 1, i)
  BY <1>4 DEF TermsPrivate, Private
<1>6. TermsPrivate({<<x>>} \cup products, out, 1, i)
  <2>1. ASSUME NEW term \in products, NEW k \in DOMAIN term PROVE term[k] \in {m, v, g}
    <3>1. term \in Seq({m, v, g})
      BY <1>2
    <3> QED
      BY <3>1
  <2> QED
    BY <1>4, <2>1 DEF TermsPrivate, Private
<1> HIDE DEF first, second, out
<1>7. Confined({E1}, out, 1, i) /\ Confined({E2}, out, 1, i) /\ Confined({E3}, out, 1, i)
  BY <1>3, <1>4, <1>5, <1>6, EffectConfined
<1>8. Confined(UNION {{E1}, {E2}, {E3}}, out, 1, i)
  <2> HIDE DEF E1, E2, E3
  <2> QED
    BY <1>7, ConfinedTogether
<1>9. UNION {{E1}, {E2}, {E3}} = {E1, E2, E3}
  OBVIOUS
<1> QED
  BY <1>1, <1>8, <1>9 DEF out

PoolMeasured(c) ==
  LET d == PoolDims(c, "input", "result") IN {d.N, d.C, d.H, d.W, d.OH, d.OW} \subseteq Nat
PoolOutput(c, e, n, ch, oh, ow) ==
  LET d == PoolDims(c, "input", "result") IN
  /\ e.to = Cell("result", <<d.N, d.C, d.OH, d.OW>>, <<n, ch, oh, ow>>) /\ ~e.atomic
  /\ \A x \in Reads(e) : x[1] # "result"

LEMMA PoolOutputs ==
  ASSUME NEW c, NEW n, NEW ch, NEW oh, NEW ow
  PROVE  /\ PoolOutput(c, MaxPoolCell(c, n, ch, oh, ow), n, ch, oh, ow)
         /\ PoolOutput(c, AvgPoolCell(c, n, ch, oh, ow), n, ch, oh, ow)
<1> DEFINE d == PoolDims(c, "input", "result")
           window == Window(c, d, oh, ow)
           cell == Cell("result", <<d.N, d.C, d.OH, d.OW>>, <<n, ch, oh, ow>>)
           largest == {<<PoolAt(d, "input", n, ch, p[1], p[2])>> : p \in window}
           shared == {<<PoolAt(d, "input", n, ch, p[1], p[2]), Share(Cardinality(window))>> : p \in window}
<1>1. /\ MaxPoolCell(c, n, ch, oh, ow) = Effect(cell, largest)
      /\ AvgPoolCell(c, n, ch, oh, ow) = Effect(cell, shared)
  BY DEF MaxPoolCell, AvgPoolCell
<1>2. \A p : PoolAt(d, "input", n, ch, p[1], p[2])[1] = "input"
  BY DEF PoolAt, Cell
<1>3. \A x : Share(x)[1] = "share"
  BY DEF Share
<1> HIDE DEF cell, window, d
<1>4. ASSUME NEW x \in Reads(Effect(cell, largest)) PROVE x[1] # "result"
  <2>1. PICK term \in largest : \E k \in DOMAIN term : x = term[k]
    BY <1>4, ReadsOfEffect
  <2>2. PICK p \in window : term = <<PoolAt(d, "input", n, ch, p[1], p[2])>>
    BY <2>1
  <2> QED
    BY <1>2, <2>1, <2>2
<1>5. ASSUME NEW x \in Reads(Effect(cell, shared)) PROVE x[1] # "result"
  <2>1. PICK term \in shared : \E k \in DOMAIN term : x = term[k]
    BY <1>5, ReadsOfEffect
  <2>2. PICK p \in window :
          term = <<PoolAt(d, "input", n, ch, p[1], p[2]), Share(Cardinality(window))>>
    BY <2>1
  <2> QED
    BY <1>2, <1>3, <2>1, <2>2
<1>6. /\ Effect(cell, largest).to = cell /\ ~Effect(cell, largest).atomic
      /\ Effect(cell, shared).to = cell /\ ~Effect(cell, shared).atomic
  BY DEF Effect
<1> HIDE DEF largest, shared
<1> QED
  BY <1>1, <1>4, <1>5, <1>6 DEF PoolOutput, cell, d

PoolSpot(c, e, i, oh, ow) ==
  LET d == PoolDims(c, "input", "result") IN
  /\ i \in Nat /\ ~e.atomic /\ e.to = <<"result", (i * d.OH + oh) * d.OW + ow>>
  /\ \A x \in Reads(e) : x[1] # "result"
LEMMA PoolPlace ==
  ASSUME NEW c, PoolMeasured(c), NEW e, NEW oh, NEW ow,
         oh \in Below(PoolDims(c, "input", "result").OH), ow \in Below(PoolDims(c, "input", "result").OW),
         NEW i \in Below(PoolDims(c, "input", "result").N * PoolDims(c, "input", "result").C),
         NEW n, NEW ch, n = i \div PoolDims(c, "input", "result").C,
         ch = i % PoolDims(c, "input", "result").C, PoolOutput(c, e, n, ch, oh, ow)
  PROVE  PoolSpot(c, e, i, oh, ow)
<1> DEFINE d == PoolDims(c, "input", "result")
<1>1. d.N \in Nat /\ d.C \in Nat /\ d.OH \in Nat /\ d.OW \in Nat /\ i \in Below(d.N * d.C)
      /\ n = i \div d.C /\ ch = i % d.C
  BY DEF PoolMeasured
<1>2. i \in Nat /\ n \in Nat /\ ch \in Nat /\ n * d.C + ch = i
  <2> HIDE DEF d
  <2>1. i \in Nat /\ n \in Below(d.N) /\ ch \in Below(d.C) /\ i = n * d.C + ch
    BY <1>1, QuotientBelow
  <2> QED
    BY <2>1 DEF Below
<1>3. oh \in Int /\ ow \in Int
  BY DEF Below
<1>4. Offset(<<d.N, d.C, d.OH, d.OW>>, <<n, ch, oh, ow>>) = ((n * d.C + ch) * d.OH + oh) * d.OW + ow
  <2> HIDE DEF d
  <2>1. /\ d.N \in Int /\ d.C \in Int /\ d.OH \in Int /\ d.OW \in Int
        /\ n \in Int /\ ch \in Int /\ oh \in Int /\ ow \in Int
    BY <1>1, <1>2, <1>3
  <2>2. Offset(<<d.N, d.C, d.OH, d.OW>>, <<n, ch, oh, ow>>) = Address(d.C, d.OH, d.OW, n, ch, oh, ow)
    <3>1. PICK p \in Int, q \in Int, r \in Int, s \in Int : p = d.N /\ q = d.C /\ r = d.OH /\ s = d.OW
      BY <2>1
    <3>2. Offset(<<p, q, r, s>>, <<n, ch, oh, ow>>) = Address(q, r, s, n, ch, oh, ow)
      BY <2>1, AddressOfImage
    <3> QED
      BY <3>1, <3>2
  <2> QED
    BY <2>2, Zenon DEF Address
<1>5. /\ e.to = <<"result", Offset(<<d.N, d.C, d.OH, d.OW>>, <<n, ch, oh, ow>>)>> /\ ~e.atomic
      /\ \A x \in Reads(e) : x[1] # "result"
  BY DEF PoolOutput, Cell
<1>6. e.to = <<"result", (i * d.OH + oh) * d.OW + ow>>
  <2> HIDE DEF d
  <2> QED
    BY <1>2, <1>4, <1>5
<1> QED
  BY <1>2, <1>5, <1>6 DEF PoolSpot

LEMMA PoolsConfined ==
  ASSUME NEW c, PoolMeasured(c), NEW i \in Below(PoolRows(c))
  PROVE  /\ Confined(MaxPool2dCpuFloat32Task(c, i), {"result"}, PoolDims(c, "input", "result").OW, i)
         /\ Confined(AvgPool2dCpuFloat32Task(c, i), {"result"}, PoolDims(c, "input", "result").OW, i)
<1> DEFINE d == PoolDims(c, "input", "result")
           nc == i \div d.OH
           oh == i % d.OH
<1>1. /\ d.C \in Nat /\ d.OH \in Nat /\ d.OW \in Nat /\ d.N * d.C \in Nat
      /\ i \in Below((d.N * d.C) * d.OH)
  BY DEF PoolMeasured, PoolRows
<1>2. i \in Nat /\ nc \in Below(d.N * d.C) /\ oh \in Below(d.OH) /\ nc * d.OH + oh = i
  <2> DEFINE planes == d.N * d.C
  <2>1. d.OH \in Nat /\ planes \in Nat /\ i \in Below(planes * d.OH)
    BY <1>1
  <2> HIDE DEF d, planes
  <2>2. i \in Nat /\ nc \in Below(planes) /\ oh \in Below(d.OH) /\ i = nc * d.OH + oh
    BY <2>1, QuotientBelow
  <2> QED
    BY <2>2 DEF planes
<1>3. ASSUME NEW e, NEW ow \in Below(d.OW),
             PoolOutput(c, e, nc \div d.C, nc % d.C, oh, ow)
      PROVE  /\ e.to[1] = "result" /\ Own(e.to, d.OW, i)
             /\ \A x \in Reads(e) : x[1] # "result"
  <2>1. /\ e.to = <<"result", (nc * d.OH + oh) * d.OW + ow>>
        /\ \A x \in Reads(e) : x[1] # "result"
    <3> HIDE DEF nc, oh
    <3>1. PoolSpot(c, e, nc, oh, ow)
      BY <1>2, <1>3, PoolPlace
    <3> QED
      BY <3>1 DEF PoolSpot
  <2>2. i * d.OW \in Nat /\ ow \in Nat /\ ow < d.OW
    <3>1. i \in Nat /\ d.OW \in Nat
      BY <1>1, <1>2
    <3> HIDE DEF d
    <3> QED
      BY <3>1 DEF Below
  <2>3. e.to = <<"result", i * d.OW + ow>>
    BY <1>2, <2>1
  <2> HIDE DEF d, nc, oh
  <2> QED
    BY <1>1, <2>1, <2>2, <2>3 DEF Own
<1>4. Confined(MaxPool2dCpuFloat32Task(c, i), {"result"}, d.OW, i)
  <2>1. ASSUME NEW e \in MaxPool2dCpuFloat32Task(c, i)
        PROVE  \E ow \in Below(d.OW) : PoolOutput(c, e, nc \div d.C, nc % d.C, oh, ow)
    <3>1. PICK ow \in Below(d.OW) : e = MaxPoolCell(c, nc \div d.C, nc % d.C, oh, ow)
      BY <2>1 DEF MaxPool2dCpuFloat32Task, PoolRow
    <3> QED
      BY <3>1, PoolOutputs
  <2> QED
    BY <1>3, <2>1, OutputsConfined
<1>5. Confined(AvgPool2dCpuFloat32Task(c, i), {"result"}, d.OW, i)
  <2>1. ASSUME NEW e \in AvgPool2dCpuFloat32Task(c, i)
        PROVE  \E ow \in Below(d.OW) : PoolOutput(c, e, nc \div d.C, nc % d.C, oh, ow)
    <3>1. PICK ow \in Below(d.OW) : e = AvgPoolCell(c, nc \div d.C, nc % d.C, oh, ow)
      BY <2>1 DEF AvgPool2dCpuFloat32Task, PoolRow
    <3> QED
      BY <3>1, PoolOutputs
  <2> QED
    BY <1>3, <2>1, OutputsConfined
<1> QED
  BY <1>4, <1>5

LEMMA IndicesConfined ==
  ASSUME NEW c, NEW i \in Nat
  PROVE  Confined(MaxPool2dWithIndices(c, i), {"result", "indices"}, 1, i)
<1>1. ASSUME NEW e \in MaxPool2dWithIndices(c, i)
      PROVE  ~e.keep /\ e.to[1] \in {"result", "indices"} /\ e.to[2] = i
  BY <1>1 DEF MaxPool2dWithIndices, Effect
<1>2. ASSUME NEW e \in MaxPool2dWithIndices(c, i), NEW term \in e.terms
      PROVE  OneOrTwo(term, {"input", "index"})
  <2>1. \E terms, index :
          /\ MaxPool2dWithIndices(c, i) = {Effect(<<"result", i>>, terms), Effect(<<"indices", i>>, {<<index>>})}
          /\ index[1] = "index" /\ \A x \in terms : \E y : x = << <<"input", y>> >>
    <3> DEFINE d == PoolDims(c, "input", "result")
               ow == i % d.OW
               oh == (i \div d.OW) % d.OH
               ch == (i \div (d.OW * d.OH)) % d.C
               n  == i \div (d.OW * d.OH * d.C)
               terms == {<<PoolAt(d, "input", n, ch, p[1], p[2])>> : p \in Window(c, d, oh, ow)}
               index == <<"index", MaxIndex(c, d, n, ch, oh, ow)>>
    <3>1. MaxPool2dWithIndices(c, i) = {Effect(<<"result", i>>, terms), Effect(<<"indices", i>>, {<<index>>})}
      BY DEF MaxPool2dWithIndices
    <3>2. \A x \in terms : \E y : x = << <<"input", y>> >>
      BY DEF PoolAt, Cell
    <3>3. index[1] = "index"
      OBVIOUS
    <3> HIDE DEF terms, index
    <3> QED
      BY <3>1, <3>2, <3>3
  <2> QED
    BY <1>2, <2>1 DEF OneOrTwo, Effect
<1> QED
  BY <1>1, <1>2, ElementConfined

\* The cells of a row of a matrix.
LEMMA CellsOfRow ==
  ASSUME NEW c, NEW role, NEW n \in Nat, c.t[role].shape \in Seq(Nat), Len(c.t[role].shape) = 2
  PROVE  /\ c.t[role].shape[2] \in Nat
         /\ \A x \in RowCells(c, role, n) :
              /\ x[1] = role /\ x[2] \in Nat /\ Own(x, c.t[role].shape[2], n)
              /\ \E class \in Below(c.t[role].shape[2]) : x = <<role, n * c.t[role].shape[2] + class>>
<1> DEFINE shape == c.t[role].shape   width == shape[2]
<1>1. shape[1] \in Nat /\ width \in Nat /\ shape = <<shape[1], width>>
  OBVIOUS
<1>2. ASSUME NEW class \in Below(width)
      PROVE  /\ Cell(role, shape, <<n, class>>) = <<role, n * width + class>>
             /\ class \in Nat /\ class < width
  <2>1. class \in Nat /\ class < width
    BY <1>1 DEF Below
  <2> HIDE DEF shape, width
  <2>2. Offset(<<shape[1], width>>, <<n, class>>) = n * width + class
    BY <1>1, <2>1, OffsetOfPair
  <2> QED
    BY <1>1, <2>1, <2>2 DEF Cell
<1>3. ASSUME NEW x \in RowCells(c, role, n)
      PROVE  /\ x[1] = role /\ x[2] \in Nat /\ Own(x, width, n)
             /\ \E class \in Below(width) : x = <<role, n * width + class>>
  <2>1. PICK class \in Below(width) : x = Cell(role, shape, <<n, class>>)
    BY <1>3 DEF RowCells
  <2>2. x = <<role, n * width + class>> /\ class \in Nat /\ class < width
    BY <1>2, <2>1
  <2>3. n * width \in Nat
    BY <1>1
  <2> HIDE DEF width
  <2>4. x[1] = role /\ x[2] = n * width + class
    BY <2>2
  <2>5. x[2] \in Nat /\ Own(x, width, n)
    <3>1. PICK base \in Nat : base = n * width
      BY <2>3
    <3>2. x[2] = base + class /\ width \in Nat /\ class \in Nat /\ class < width
      BY <1>1, <2>2, <2>4, <3>1
    <3>3. x[2] \in Nat /\ x[2] \in base..(base + width - 1)
      BY <3>2
    <3> QED
      BY <3>1, <3>3 DEF Own
  <2> QED
    BY <2>2, <2>4, <2>5
<1> QED
  BY <1>1, <1>3

LEMMA SoftmaxConfined ==
  ASSUME NEW c, NEW n \in Nat, c.t["tensor"].shape \in Seq(Nat), Len(c.t["tensor"].shape) = 2
  PROVE  Confined(SoftmaxCpuFloat32Task(c, n), {"tensor"}, c.t["tensor"].shape[2], n)
<1> DEFINE row == RowCells(c, "tensor", n)   width == c.t["tensor"].shape[2]
           terms(x) == {<<x, p[1], p[2], p[3]>> : p \in row \X row \X row}
<1>1. \A x \in row : x[1] = "tensor" /\ Own(x, width, n)
  BY CellsOfRow
<1>2. SoftmaxCpuFloat32Task(c, n) = UNION {{Effect(x, terms(x))} : x \in row}
  BY DEF SoftmaxCpuFloat32Task
<1> HIDE DEF row, width
<1>3. ASSUME NEW x \in row PROVE Confined({Effect(x, terms(x))}, {"tensor"}, width, n)
  <2>1. ASSUME NEW term \in terms(x), NEW k \in DOMAIN term PROVE term[k] \in row
    <3>1. PICK p \in row \X row \X row : term = <<x, p[1], p[2], p[3]>>
      BY <2>1
    <3> QED
      BY <3>1
  <2>2. TermsPrivate(terms(x), {"tensor"}, width, n)
    <3> HIDE DEF terms
    <3> QED
      BY <1>1, <2>1 DEF TermsPrivate, Private
  <2> HIDE DEF terms
  <2> QED
    BY <1>1, <2>2, EffectConfined
<1> HIDE DEF terms
<1>4. Confined(UNION {{Effect(x, terms(x))} : x \in row}, {"tensor"}, width, n)
  BY <1>3, ConfinedTogether
<1> QED
  BY <1>2, <1>4 DEF width

LEMMA BackwardSoftmaxConfined ==
  ASSUME NEW c, NEW n \in Nat, c.t["grad"].shape \in Seq(Nat), Len(c.t["grad"].shape) = 2
  PROVE  Confined(BackwardSoftmaxCpuFloat32Task(c, n), {"grad"}, c.t["grad"].shape[2], n)
<1> DEFINE row == RowCells(c, "grad", n)   width == c.t["grad"].shape[2]
           output(x) == <<"activation_output", x[2]>>
           terms(x) == {<<output(x), x>>} \cup {<<output(x), g, output(g)>> : g \in row}
<1>1. \A x \in row : x[1] = "grad" /\ Own(x, width, n)
  BY CellsOfRow
<1>2. BackwardSoftmaxCpuFloat32Task(c, n) = UNION {{Effect(x, terms(x))} : x \in row}
  BY DEF BackwardSoftmaxCpuFloat32Task
<1> HIDE DEF row, width
<1>3. ASSUME NEW x \in row PROVE Confined({Effect(x, terms(x))}, {"grad"}, width, n)
  <2>1. ASSUME NEW term \in terms(x), NEW k \in DOMAIN term
        PROVE  term[k] \in row \/ term[k][1] = "activation_output"
    <3>1. CASE term = <<output(x), x>>
      BY <3>1
    <3>2. CASE \E g \in row : term = <<output(x), g, output(g)>>
      BY <3>2
    <3> QED
      BY <2>1, <3>1, <3>2
  <2>2. TermsPrivate(terms(x), {"grad"}, width, n)
    <3> HIDE DEF terms
    <3> QED
      BY <1>1, <2>1 DEF TermsPrivate, Private
  <2> HIDE DEF terms
  <2> QED
    BY <1>1, <2>2, EffectConfined
<1> HIDE DEF terms
<1>4. Confined(UNION {{Effect(x, terms(x))} : x \in row}, {"grad"}, width, n)
  BY <1>3, ConfinedTogether
<1> QED
  BY <1>2, <1>4 DEF width

\* product is what the loop of Shape::numel has after the dimension k.
ProductUpto(product, shape, k) ==
  product = [i \in 0..k |-> IF i = 0 THEN 1 ELSE Size(product[i - 1] * shape[i])]

LEMMA DimensionsGrow ==
  ASSUME NEW shape, NEW k \in Nat, NEW product, ProductUpto(product, shape, k)
  PROVE  \E more : ProductUpto(more, shape, k + 1)
<1> DEFINE more == [i \in 0..(k + 1) |-> IF i = 0 THEN 1 ELSE Size(product[i - 1] * shape[i])]
<1>1. \A i \in 0..k : product[i] = IF i = 0 THEN 1 ELSE Size(product[i - 1] * shape[i])
  BY DEF ProductUpto
<1>2. \A i \in 0..k : more[i] = product[i]
  <2>1. \A i \in 0..k : i \in 0..(k + 1)
    OBVIOUS
  <2> QED
    BY <1>1, <2>1
<1>3. \A i \in 0..(k + 1) : i # 0 => i - 1 \in 0..k /\ more[i - 1] = product[i - 1]
  <2>1. \A i \in 0..(k + 1) : i # 0 => i - 1 \in 0..k
    OBVIOUS
  <2> HIDE DEF more
  <2> QED
    BY <1>2, <2>1
<1>4. \A i \in 0..(k + 1) : more[i] = IF i = 0 THEN 1 ELSE Size(more[i - 1] * shape[i])
  <2>1. \A i \in 0..(k + 1) : more[i] = IF i = 0 THEN 1 ELSE Size(product[i - 1] * shape[i])
    OBVIOUS
  <2> HIDE DEF more
  <2> QED
    BY <1>3, <2>1
<1>5. ProductUpto(more, shape, k + 1)
  <2>1. more = [i \in 0..(k + 1) |-> more[i]]
    OBVIOUS
  <2> HIDE DEF more
  <2> QED
    BY <1>4, <2>1 DEF ProductUpto
<1> QED
  BY <1>5

LEMMA DimensionsExist == ASSUME NEW shape, NEW k \in Nat PROVE \E product : ProductUpto(product, shape, k)
<1> DEFINE with == {m \in Nat : \E product : ProductUpto(product, shape, m)}
<1>1. 0 \in with
  <2> DEFINE product == [i \in 0..0 |-> 1]
  <2>1. product = [i \in 0..0 |-> IF i = 0 THEN 1 ELSE Size(product[i - 1] * shape[i])]
    <3>1. \A i \in 0..0 : i = 0
      OBVIOUS
    <3> QED
      BY <3>1
  <2>2. ProductUpto(product, shape, 0)
    <3> HIDE DEF product
    <3> QED
      BY <2>1 DEF ProductUpto
  <2> QED
    BY <2>2
<1>2. \A m \in with : m + 1 \in with
  BY DimensionsGrow
<1>3. k \in with
  <2>1. with \in SUBSET Nat
    OBVIOUS
  <2> HIDE DEF with
  <2> QED
    BY <1>1, <1>2, <2>1, EveryNatural
<1> QED
  BY <1>3

LEMMA SizeIsNat == ASSUME NEW n \in Int PROVE Size(n) \in Below(SizeMod) /\ Size(n) \in Nat
  BY DEF Size, Below

\* The number of elements is a number, for a scalar too.
LEMMA NumelIsNat ==
  ASSUME NEW shape \in Seq(Nat)
  PROVE  Numel(shape) \in Nat
<1> DEFINE k == Len(shape)
<1>0. k \in Nat /\ \A i \in 1..k : shape[i] \in Nat
  OBVIOUS
<1>1. PICK product : Numel(shape) = product[k] /\ ProductUpto(product, shape, k)
  <2>1. Numel(shape) = (CHOOSE product : ProductUpto(product, shape, k))[k]
    BY DEF Numel, ProductUpto
  <2> QED
    BY <2>1, <1>0, DimensionsExist
<1> HIDE DEF k
<1>2. \A i \in 0..k : product[i] = IF i = 0 THEN 1 ELSE Size(product[i - 1] * shape[i])
  BY <1>1 DEF ProductUpto
<1> DEFINE good == {m \in Nat : m <= k => product[m] \in Nat}
<1>3. 0 \in good
  BY <1>0, <1>2
<1>4. ASSUME NEW m \in good PROVE m + 1 \in good
  <2> SUFFICES ASSUME m + 1 <= k PROVE product[m + 1] \in Nat
    OBVIOUS
  <2>1. product[m] \in Nat /\ m + 1 \in 1..k /\ m + 1 \in 0..k /\ (m + 1) - 1 = m
    BY <1>0
  <2>2. shape[m + 1] \in Nat
    BY <1>0, <2>1
  <2>3. product[m] * shape[m + 1] \in Int
    BY <2>1, <2>2
  <2>4. product[m + 1] = Size(product[m] * shape[m + 1])
    BY <1>2, <2>1
  <2> QED
    BY <2>3, <2>4, SizeIsNat
<1>5. \A m \in Nat : m \in good
  <2>1. good \in SUBSET Nat
    OBVIOUS
  <2> HIDE DEF good
  <2> QED
    BY <1>3, <1>4, <2>1, EveryNatural
<1>6. product[k] \in Nat
  BY <1>0, <1>5
<1> QED
  BY <1>1, <1>6

-----------------------------------------------------------------------------
(* The launches of accepted calls, and what is known of the tensors of each. *)

ConvLoops == {"conv2d_valid", "conv2d_padded", "conv2d_strided", "conv2d_general"}
PoolLoops == {"maxpool2d", "avgpool2d"}
ElementLoops == {"conv_grad_input", "conv_grad_weights", "conv_grad_bias", "linear_grad_input",
                 "linear_grad_weights", "linear_grad_bias", "linear", "maxpool2d_with_indices",
                 "zero", "elementwise", "backward_elementwise", "backward_loss", "sgd", "adam"}
RowLoops == {"softmax", "backward_softmax"}
LaunchNames == ConvLoops \cup PoolLoops \cup ElementLoops \cup RowLoops \cup Serial \cup Memset

WrittenBy(loop) ==
  CASE loop \in {"conv_grad_input", "linear_grad_input", "zero"} -> {"grad_input"}
    [] loop \in {"conv_grad_weights", "linear_grad_weights"} -> {"grad_weights"}
    [] loop \in {"conv_grad_bias", "linear_grad_bias"} -> {"grad_bias"}
    [] loop = "maxpool2d_with_indices" -> {"result", "indices"}
    [] loop \in {"elementwise", "softmax"} -> {"tensor"}
    [] loop \in {"backward_elementwise", "backward_softmax"} -> {"grad"}
    [] loop = "backward_loss" -> {"grad_prediction"}
    [] loop = "sgd" -> {"value"}
    [] loop = "adam" -> {"value", "first_moment", "second_moment"}
    [] OTHER -> {"result"}

Width(c, loop) ==
  CASE loop \in {"conv2d_valid", "conv2d_general"} -> ConvDims(c).OH * ConvDims(c).OW
    [] loop \in {"conv2d_padded", "conv2d_strided"} -> ConvDims(c).OW
    [] loop \in PoolLoops -> PoolDims(c, "input", "result").OW
    [] loop = "softmax" -> c.t["tensor"].shape[2]
    [] loop = "backward_softmax" -> c.t["grad"].shape[2]
    [] OTHER -> 1

Matrix(c, role) == c.t[role].shape \in Seq(Nat) /\ Len(c.t[role].shape) = 2
LinearMeasured(c) ==
  LET d == LinearDims(c) IN {d.batch_size, d.input_features, d.output_features} \subseteq Nat
Measured(c, launch) ==
  /\ launch \in ConvLoops =>
       /\ ConvMeasured(c)
       /\ c.t["result"].shape[1] = ConvDims(c).N /\ c.t["result"].shape[2] = ConvDims(c).K
  /\ launch \in PoolLoops =>
       /\ PoolMeasured(c)
       /\ c.t["result"].shape[1] = PoolDims(c, "input", "result").N
       /\ c.t["result"].shape[2] = PoolDims(c, "input", "result").C
  /\ launch \in Tiled \cup {"linear_grad_bias"} => LinearMeasured(c)
  /\ launch = "softmax" => Matrix(c, "tensor")
  /\ launch = "backward_softmax" =>
       Matrix(c, "grad") /\ c.t["activation_output"].shape = c.t["grad"].shape
  /\ launch = "backward_categorical_loss" => c.t["prediction"].shape[2] \in Nat
  /\ launch \in {"scatter_max", "scatter_average"} => Elements(c, "grad_output") \in Nat
  /\ launch = "loss" => ValidCount(c) \in Nat
  /\ launch \in {"categorical_loss", "backward_categorical_loss"} => c.o.valid \in Nat
  /\ launch \notin Serial \cup Memset => Iterations(c, launch) \in Nat
Sound(c) == {launch \in LaunchNames : Measured(c, launch)}

LEMMA LoopConfined ==
  ASSUME NEW c, NEW loop \in Sound(c) \ (Serial \cup Memset), NEW i \in Below(Iterations(c, loop))
  PROVE  /\ i \in Nat /\ Width(c, loop) \in Nat
         /\ Confined(Body(c, loop, i), WrittenBy(loop), Width(c, loop), i)
<1>0. loop \in ConvLoops \cup PoolLoops \cup ElementLoops \cup RowLoops
  BY DEF Sound, LaunchNames
<1>1. i \in Nat
  BY DEF Sound, Measured, Below
<1>2. CASE loop \in {"conv2d_valid", "conv2d_general"}
  <2>1. ConvMeasured(c) /\ i \in Below(ConvPlanes(c))
    BY <1>2 DEF Sound, Measured, ConvLoops, Iterations
  <2>2. /\ Width(c, loop) = ConvDims(c).OH * ConvDims(c).OW
        /\ WrittenBy(loop) = {"result"}
    BY <1>2 DEF Width, WrittenBy, PoolLoops
  <2>3. ConvDims(c).OH \in Nat /\ ConvDims(c).OW \in Nat
    BY <2>1 DEF ConvMeasured
  <2>4. Width(c, loop) \in Nat
    BY <2>2, <2>3
  <2>5. Body(c, loop, i) \in {Conv2dCpuFloat32ValidTask(c, i), Conv2dCpuFloat32GeneralTask(c, i)}
    BY <1>2 DEF Body
  <2> QED
    BY <1>1, <2>1, <2>2, <2>4, <2>5, PlanesConfined
<1>3. CASE loop \in {"conv2d_padded", "conv2d_strided"}
  <2>1. ConvMeasured(c) /\ i \in Below(ConvRows(c))
    BY <1>3 DEF Sound, Measured, ConvLoops, Iterations
  <2>2. Width(c, loop) = ConvDims(c).OW /\ WrittenBy(loop) = {"result"}
    BY <1>3 DEF Width, WrittenBy, PoolLoops
  <2>4. Width(c, loop) \in Nat
    BY <2>1, <2>2 DEF ConvMeasured
  <2>5. Body(c, loop, i) \in {Conv2dCpuFloat32PaddedTask(c, i), Conv2dCpuFloat32StridedTask(c, i)}
    BY <1>3 DEF Body
  <2> QED
    BY <1>1, <2>1, <2>2, <2>4, <2>5, RowsConfined
<1>4. CASE loop \in PoolLoops
  <2>1. PoolMeasured(c) /\ i \in Below(PoolRows(c))
    BY <1>4 DEF Sound, Measured, PoolLoops, Iterations
  <2>2. Width(c, loop) = PoolDims(c, "input", "result").OW /\ WrittenBy(loop) = {"result"}
    BY <1>4 DEF Width, WrittenBy, PoolLoops
  <2>4. Width(c, loop) \in Nat
    BY <2>1, <2>2 DEF PoolMeasured
  <2>5. Body(c, loop, i) \in {MaxPool2dCpuFloat32Task(c, i), AvgPool2dCpuFloat32Task(c, i)}
    BY <1>4 DEF Body, PoolLoops
  <2> QED
    BY <1>1, <2>1, <2>2, <2>4, <2>5, PoolsConfined
<1>5. CASE loop \in ElementLoops
  <2>1. Width(c, loop) = 1
    BY <1>5 DEF Width, ElementLoops, PoolLoops
  <2>2. Confined(Body(c, loop, i), WrittenBy(loop), 1, i)
    <3>1. CASE loop \in {"conv_grad_input", "conv_grad_weights", "conv_grad_bias",
                         "linear_grad_input", "linear_grad_weights", "linear_grad_bias"}
      BY <1>1, <3>1, GradientsConfined DEF Body, WrittenBy
    <3>2. CASE loop \in {"elementwise", "backward_elementwise", "sgd", "zero", "backward_loss"}
      BY <1>1, <3>2, UpdatesConfined DEF Body, WrittenBy
    <3>3. CASE loop \in {"linear", "maxpool2d_with_indices", "adam"}
      BY <1>1, <3>3, LinearConfined, IndicesConfined, AdamConfined DEF Body, WrittenBy
    <3> QED
      BY <1>5, <3>1, <3>2, <3>3 DEF ElementLoops
  <2> QED
    BY <1>1, <2>1, <2>2
<1>6. CASE loop = "softmax"
  <2>1. Matrix(c, "tensor")
    BY <1>6 DEF Sound, Measured
  <2>2. /\ Width(c, loop) = c.t["tensor"].shape[2] /\ WrittenBy(loop) = {"tensor"}
        /\ Body(c, loop, i) = SoftmaxCpuFloat32Task(c, i)
    BY <1>6 DEF Width, WrittenBy, Body, PoolLoops
  <2>3. c.t["tensor"].shape[2] \in Nat
    BY <2>1 DEF Matrix
  <2> QED
    BY <1>1, <2>1, <2>2, <2>3, SoftmaxConfined DEF Matrix
<1>7. CASE loop = "backward_softmax"
  <2>1. Matrix(c, "grad")
    BY <1>7 DEF Sound, Measured
  <2>2. /\ Width(c, loop) = c.t["grad"].shape[2] /\ WrittenBy(loop) = {"grad"}
        /\ Body(c, loop, i) = BackwardSoftmaxCpuFloat32Task(c, i)
    BY <1>7 DEF Width, WrittenBy, Body, PoolLoops
  <2>3. c.t["grad"].shape[2] \in Nat
    BY <2>1 DEF Matrix
  <2> QED
    BY <1>1, <2>1, <2>2, <2>3, BackwardSoftmaxConfined DEF Matrix
<1> QED
  BY <1>0, <1>2, <1>3, <1>4, <1>5, <1>6, <1>7 DEF ConvLoops, RowLoops

-----------------------------------------------------------------------------
(* Two workers that nothing orders. *)

\* The first writes nothing that the second touches.
Apart(E, F) == \A e \in E, f \in F : e.to # f.to /\ e.to \notin Reads(f)
Unordered(E, F) ==
  \A e \in E, f \in F :
    /\ e.to = f.to => e.atomic /\ f.atomic
    /\ e.to \notin Reads(f) \ (IF f.atomic THEN {f.to} ELSE {})

LEMMA ApartIsUnordered == ASSUME NEW E, NEW F, Apart(E, F) PROVE Unordered(E, F)
BY DEF Apart, Unordered

\* The ranges of two threads have no iteration in common.
LEMMA RangesApart ==
  ASSUME NEW chunk \in Nat, NEW t \in Nat, NEW u \in Nat, t # u, NEW i \in Nat, NEW j \in Nat,
         t * chunk <= i, i < (t + 1) * chunk, u * chunk <= j, j < (u + 1) * chunk
  PROVE  i # j
<1>1. CASE t < u
  <2>1. (t + 1) * chunk <= u * chunk
    BY <1>1, ProductGrows
  <2> QED
    BY <2>1
<1>2. CASE u < t
  <2>1. (u + 1) * chunk <= t * chunk
    BY <1>2, ProductGrows
  <2> QED
    BY <2>1
<1> QED
  BY <1>1, <1>2

LEMMA Divided ==
  ASSUME NEW work \in Nat, work # 0, NEW threads, threads = Min({CpuThreads, work})
  PROVE  threads \in Nat \ {0} /\ (work + threads - 1) \div threads \in Nat
<1>1. CpuThreads \in Nat \ {0}
  BY CpuThreadsAssumption
<1>2. \E x \in {CpuThreads, work} : \A y \in {CpuThreads, work} : x <= y
  BY <1>1
<1>3. threads \in {CpuThreads, work}
  BY <1>2 DEF Min
<1>4. threads \in Nat \ {0}
  BY <1>1, <1>3
<1>5. PICK n \in Nat : n = work + threads - 1
  BY <1>4
<1>6. n \div threads \in Nat
  BY <1>4, <1>5
<1> QED
  BY <1>4, <1>5, <1>6

LEMMA CpuApart ==
  ASSUME NEW c, NEW loop \in Sound(c) \ {"clear_result", "clear_gradient"},
         NEW t \in DOMAIN CpuWork(c, loop), NEW u \in DOMAIN CpuWork(c, loop), t # u
  PROVE  Apart(CpuWork(c, loop)[t], CpuWork(c, loop)[u])
<1> DEFINE work == Iterations(c, loop)
           threads == IF loop \in Serial THEN 1 ELSE Min({CpuThreads, work})
           chunk == (work + threads - 1) \div threads
           range(v) == {i \in Below(work) : v * chunk <= i /\ i < (v + 1) * chunk}
           all == {v \in Below(threads) : v * chunk < work}
<1>1. work # 0
  BY DEF CpuWork
<1>2. CpuWork(c, loop) = [v \in all |-> UNION {Body(c, loop, i) : i \in range(v)}]
  BY <1>1 DEF CpuWork
<1>3. t \in Below(threads) /\ u \in Below(threads) /\ t \in all /\ u \in all
  BY <1>2
<1>4. loop \notin Serial
  BY <1>3 DEF Below
<1>5. loop \in Sound(c) \ (Serial \cup Memset)
  BY <1>4 DEF Memset, Serial
<1>6. work \in Nat
  BY <1>5 DEF Sound, Measured
<1>7. threads = Min({CpuThreads, work})
  BY <1>4
<1>8. threads \in Nat \ {0} /\ chunk \in Nat
  <2> HIDE DEF work, threads
  <2> QED
    BY <1>1, <1>6, <1>7, Divided
<1>9. t \in Nat /\ u \in Nat
  <2> HIDE DEF threads
  <2> QED
    BY <1>3, <1>8 DEF Below
<1>10. ASSUME NEW e \in CpuWork(c, loop)[t], NEW f \in CpuWork(c, loop)[u]
       PROVE  e.to # f.to /\ e.to \notin Reads(f)
  <2>1. PICK i \in range(t) : e \in Body(c, loop, i)
    <3> HIDE DEF range, all
    <3> QED
      BY <1>2, <1>3, <1>10
  <2>2. PICK j \in range(u) : f \in Body(c, loop, j)
    <3> HIDE DEF range, all
    <3> QED
      BY <1>2, <1>3, <1>10
  <2>3. i \in Below(work) /\ j \in Below(work) /\ t * chunk <= i /\ i < (t + 1) * chunk
        /\ u * chunk <= j /\ j < (u + 1) * chunk
    BY <2>1, <2>2
  <2>4. /\ i \in Nat /\ j \in Nat /\ Width(c, loop) \in Nat
        /\ Confined(Body(c, loop, i), WrittenBy(loop), Width(c, loop), i)
        /\ Confined(Body(c, loop, j), WrittenBy(loop), Width(c, loop), j)
    BY <1>5, <2>3, LoopConfined
  <2>5. i # j
    <3> HIDE DEF work, threads, chunk
    <3> QED
      BY <1>8, <1>9, <2>3, <2>4, RangesApart
  <2> QED
    BY <2>1, <2>2, <2>4, <2>5, ConfinedApart
<1> QED
  BY <1>10 DEF Apart

-----------------------------------------------------------------------------
(* What the validations leave of the calls. *)

Started(c, kernel) ==
  /\ c.op # "mse_loss" => CpuLoops(c, kernel) \in Seq(Sound(c) \ {"clear_result", "clear_gradient"})
  /\ CudaLaunches(c, kernel) \in Seq(Sound(c) \ {"fill"})

LEMMA ShapesAssumed ==
  ASSUME NEW c, CallAssumed(c), NEW role \in Takes[c.op]
  PROVE  /\ c.t[role].shape \in Seq(Nat) /\ Elements(c, role) \in Nat
         /\ \A i \in 1..Len(c.t[role].shape) : c.t[role].shape[i] \in Nat
<1>1. role \in DOMAIN c.t
  BY DEF CallAssumed
<1>2. c.t[role].shape \in Seq(Sizes)
  BY <1>1 DEF CallAssumed
<1>3. Sizes \subseteq Nat
  BY DEF Sizes, Below
<1> DEFINE shape == c.t[role].shape
<1> HIDE DEF shape
<1>4. shape \in Seq(Nat) /\ \A i \in 1..Len(shape) : shape[i] \in Nat
  <2>1. shape \in Seq(Nat)
    <3>1. shape \in Seq(Sizes)
      BY <1>2 DEF shape
    <3> QED
      BY <1>3, <3>1, SeqMonotonic
  <2> QED
    BY <2>1, ElementOfSeq
<1>5. Numel(shape) \in Nat
  BY <1>4, NumelIsNat
<1> QED
  BY <1>4, <1>5 DEF Elements, shape

\* The two sizes of a matrix a call takes.
LEMMA TwoSizes ==
  ASSUME NEW c, CallAssumed(c), NEW role \in Takes[c.op], Len(c.t[role].shape) = 2
  PROVE  c.t[role].shape[1] \in Nat /\ c.t[role].shape[2] \in Nat
<1>1. \A i \in 1..Len(c.t[role].shape) : c.t[role].shape[i] \in Nat
  BY ShapesAssumed
<1> DEFINE shape == c.t[role].shape
<1>2. Len(shape) = 2 /\ \A i \in 1..Len(shape) : shape[i] \in Nat
  BY <1>1
<1> HIDE DEF shape
<1>3. shape[1] \in Nat /\ shape[2] \in Nat
  BY <1>2
<1> QED
  BY <1>3 DEF shape

LEMMA MoreOrLess ==
  ASSUME NEW S, NEW a \in S, NEW b \in S, NEW x \in S, NEW more \in {<<x>>, <<>>}
  PROVE  <<a, b>> \o more \in Seq(S)
<1>1. <<a, b>> \in Seq(S) /\ <<x>> \in Seq(S) /\ <<>> \in Seq(S)
  OBVIOUS
<1>2. more \in Seq(S)
  BY <1>1
<1> QED
  BY <1>1, <1>2, ConcatProperties

LEMMA StartedOne ==
  ASSUME NEW c, NEW kernel, NEW a \in Sound(c) \ {"clear_result", "clear_gradient"}, a # "fill",
         CpuLoops(c, kernel) = <<a>>, CudaLaunches(c, kernel) = <<a>>
  PROVE  Started(c, kernel)
<1>1. <<a>> \in Seq(Sound(c) \ {"clear_result", "clear_gradient"}) /\ <<a>> \in Seq(Sound(c) \ {"fill"})
  OBVIOUS
<1> QED
  BY <1>1 DEF Started

LEMMA StartedTwo ==
  ASSUME NEW c, NEW kernel, NEW a \in Sound(c) \ {"clear_result", "clear_gradient"},
         NEW b \in Sound(c) \ {"clear_result", "clear_gradient"}, CpuLoops(c, kernel) = <<a, b>>,
         NEW x \in Sound(c) \ {"fill"}, NEW y \in Sound(c) \ {"fill"},
         CudaLaunches(c, kernel) = <<x, y>>
  PROVE  Started(c, kernel)
<1>1. <<a, b>> \in Seq(Sound(c) \ {"clear_result", "clear_gradient"}) /\ <<x, y>> \in Seq(Sound(c) \ {"fill"})
  OBVIOUS
<1> QED
  BY <1>1 DEF Started

LEMMA ConvStarted ==
  ASSUME NEW c, CallAssumed(c), c.op = "conv2d", Entry(c) # Threw
  PROVE  Started(c, Entry(c))
<1> DEFINE t == c.t   kernel == Entry(c)
<1>1. /\ validate_conv2d_inputs(t["input"], t["kernels"], Optional(c, "bias"), t["result"], c.o)
      /\ kernel = conv2d_float32(c.o)
  BY Zenon DEF Entry, conv2d, conv2d_unchecked, Checked, Launch
<1>2. kernel \in ConvLoops
  BY <1>1 DEF conv2d_float32, ConvLoops
<1>3. /\ Len(t["input"].shape) = 4 /\ Len(t["kernels"].shape) = 4 /\ Len(t["result"].shape) = 4
      /\ t["result"].shape[1] = t["input"].shape[1] /\ t["result"].shape[2] = t["kernels"].shape[1]
  BY <1>1 DEF validate_conv2d_inputs, AllRank, Rank, Outputs
<1>4. {"input", "kernels", "result"} \subseteq Takes[c.op]
  BY DEF Takes
<1>5. /\ \A i \in 1..4 : t["input"].shape[i] \in Nat
      /\ \A i \in 1..4 : t["kernels"].shape[i] \in Nat
      /\ \A i \in 1..4 : t["result"].shape[i] \in Nat
  BY <1>3, <1>4, ShapesAssumed
<1>6. ConvMeasured(c)
  BY <1>5 DEF ConvMeasured, ConvDims
<1>7. ConvPlanes(c) \in Nat /\ ConvRows(c) \in Nat
  BY <1>6 DEF ConvMeasured, ConvPlanes, ConvRows
<1>8. Iterations(c, kernel) \in Nat
  BY <1>2, <1>7 DEF Iterations, ConvLoops
<1>9. t["result"].shape[1] = ConvDims(c).N /\ t["result"].shape[2] = ConvDims(c).K
  BY <1>3 DEF ConvDims
<1>10. kernel \in Sound(c) \ {"clear_result", "clear_gradient"}
  <2> HIDE DEF kernel
  <2> QED
    BY <1>2, <1>6, <1>8, <1>9 DEF Sound, Measured, LaunchNames, ConvLoops, PoolLoops, Tiled
<1>12. kernel # "fill"
  BY <1>2 DEF ConvLoops
<1>11. CpuLoops(c, kernel) = <<kernel>> /\ CudaLaunches(c, kernel) = <<kernel>>
  <2> HIDE DEF kernel
  <2> QED
    BY <1>2 DEF CpuLoops, CudaLaunches, ConvLoops
<1> HIDE DEF kernel
<1> QED
  BY <1>10, <1>11, <1>12, StartedOne DEF kernel

LEMMA BackwardConvStarted ==
  ASSUME NEW c, CallAssumed(c), c.op = "backward_conv2d", Entry(c) # Threw
  PROVE  Started(c, Entry(c))
<1> DEFINE t == c.t
<1>1. /\ validate_backward_conv2d_inputs(t["input"], t["weights"], t["grad_output"], t["grad_input"],
                                         t["grad_weights"], Optional(c, "grad_bias"), c.o)
      /\ Entry(c) = "backward_conv2d"
  BY Zenon DEF Entry, backward_conv2d, backward_conv2d_unchecked, Checked, Launch
<1>3. Len(t["weights"].shape) = 4
  BY <1>1 DEF validate_backward_conv2d_inputs, AllRank, Rank
<1>4. Takes[c.op] = Gradients
  BY DEF Takes
<1>5. /\ t["weights"].shape[1] \in Nat
      /\ Elements(c, "grad_input") \in Nat /\ Elements(c, "grad_weights") \in Nat
  BY <1>3, <1>4, ShapesAssumed DEF Gradients
<1>6. {"conv_grad_input", "conv_grad_weights", "conv_grad_bias"} \subseteq
        Sound(c) \ {"clear_result", "clear_gradient"}
  BY <1>5 DEF Sound, Measured, LaunchNames, ElementLoops, ConvLoops, PoolLoops, Tiled, Iterations
<1>7. CpuLoops(c, "backward_conv2d") \in Seq(Sound(c) \ {"clear_result", "clear_gradient"})
      /\ CpuLoops(c, "backward_conv2d") \in Seq(Sound(c) \ {"fill"})
  <2> DEFINE more == IF "grad_bias" \in DOMAIN c.t THEN <<"conv_grad_bias">> ELSE <<>>
  <2>1. CpuLoops(c, "backward_conv2d") = <<"conv_grad_input", "conv_grad_weights">> \o more
    BY DEF CpuLoops
  <2>2. more \in {<<"conv_grad_bias">>, <<>>}
    OBVIOUS
  <2> HIDE DEF more
  <2> QED
    BY <1>6, <2>1, <2>2, MoreOrLess
<1>8. CudaLaunches(c, "backward_conv2d") = CpuLoops(c, "backward_conv2d")
  BY DEF CudaLaunches
<1> QED
  BY <1>1, <1>7, <1>8 DEF Started

LEMMA LinearStarted ==
  ASSUME NEW c, CallAssumed(c), c.op = "linear", Entry(c) # Threw
  PROVE  Started(c, Entry(c))
<1> DEFINE t == c.t
<1>1. /\ validate_linear_inputs(t["input"], t["weights"], Optional(c, "bias"), t["result"])
      /\ Entry(c) = "linear"
  BY Zenon DEF Entry, linear, linear_unchecked, Checked, Launch
<1>2. Len(t["input"].shape) = 2 /\ Len(t["weights"].shape) = 2
  BY <1>1 DEF validate_linear_inputs, AllRank, Rank
<1>3. {"input", "weights"} \subseteq Takes[c.op]
  BY DEF Takes
<1>4. /\ t["input"].shape[1] \in Nat /\ t["input"].shape[2] \in Nat /\ t["weights"].shape[1] \in Nat
  <2>1. "input" \in Takes[c.op] /\ "weights" \in Takes[c.op]
    BY <1>3
  <2>2. t["input"].shape[1] \in Nat /\ t["input"].shape[2] \in Nat
    BY <1>2, <2>1, TwoSizes
  <2>3. t["weights"].shape[1] \in Nat
    BY <1>2, <2>1, TwoSizes
  <2> QED
    BY <2>2, <2>3
<1>5. LinearMeasured(c)
  BY <1>4 DEF LinearMeasured, LinearDims
<1>6. Iterations(c, "linear") \in Nat
  BY <1>4 DEF Iterations
<1>7. "linear" \in Sound(c) \ {"clear_result", "clear_gradient"}
  BY <1>5, <1>6 DEF Sound, Measured, LaunchNames, ElementLoops, ConvLoops, PoolLoops
<1>8. CpuLoops(c, "linear") = <<"linear">> /\ CudaLaunches(c, "linear") \in {<<>>, <<"linear">>}
  BY DEF CpuLoops, CudaLaunches
<1>9. <<"linear">> \in Seq(Sound(c) \ {"clear_result", "clear_gradient"})
      /\ <<"linear">> \in Seq(Sound(c) \ {"fill"}) /\ <<>> \in Seq(Sound(c) \ {"fill"})
  BY <1>7
<1> QED
  BY <1>1, <1>8, <1>9 DEF Started

LEMMA BackwardLinearStarted ==
  ASSUME NEW c, CallAssumed(c), c.op = "backward_linear", Entry(c) # Threw
  PROVE  Started(c, Entry(c))
<1> DEFINE t == c.t
<1>1. /\ validate_backward_linear_inputs(t["input"], t["weights"], t["grad_output"], t["grad_input"],
                                         t["grad_weights"], Optional(c, "grad_bias"))
      /\ Entry(c) = "backward_linear"
  BY Zenon DEF Entry, backward_linear, backward_linear_unchecked, Checked, Launch
<1>2. Len(t["input"].shape) = 2 /\ Len(t["weights"].shape) = 2
  BY <1>1 DEF validate_backward_linear_inputs, AllRank, Rank
<1>3. {"input", "weights"} \subseteq Takes[c.op]
  BY DEF Takes, Gradients
<1>4. /\ t["input"].shape[1] \in Nat /\ t["input"].shape[2] \in Nat /\ t["weights"].shape[1] \in Nat
  <2>1. "input" \in Takes[c.op] /\ "weights" \in Takes[c.op]
    BY <1>3
  <2>2. t["input"].shape[1] \in Nat /\ t["input"].shape[2] \in Nat
    BY <1>2, <2>1, TwoSizes
  <2>3. t["weights"].shape[1] \in Nat
    BY <1>2, <2>1, TwoSizes
  <2> QED
    BY <2>2, <2>3
<1>5. LinearMeasured(c)
  BY <1>4 DEF LinearMeasured, LinearDims
<1>6. /\ Iterations(c, "linear_grad_input") \in Nat /\ Iterations(c, "linear_grad_weights") \in Nat
      /\ Iterations(c, "linear_grad_bias") \in Nat
  BY <1>4 DEF Iterations
<1>7. {"linear_grad_input", "linear_grad_weights", "linear_grad_bias"} \subseteq
        Sound(c) \ {"clear_result", "clear_gradient"}
  BY <1>5, <1>6 DEF Sound, Measured, LaunchNames, ElementLoops, ConvLoops, PoolLoops
<1> DEFINE more == IF "grad_bias" \in DOMAIN c.t THEN <<"linear_grad_bias">> ELSE <<>>
           loops == <<"linear_grad_input", "linear_grad_weights">> \o more
<1>8. CpuLoops(c, "backward_linear") = loops /\ CudaLaunches(c, "backward_linear") \in {<<>>, loops}
  BY DEF CpuLoops, CudaLaunches
<1>9. more \in {<<"linear_grad_bias">>, <<>>}
  OBVIOUS
<1> HIDE DEF more
<1>10. loops \in Seq(Sound(c) \ {"clear_result", "clear_gradient"})
  BY <1>7, <1>9, MoreOrLess
<1>11. loops \in Seq(Sound(c) \ {"fill"}) /\ <<>> \in Seq(Sound(c) \ {"fill"})
  <2>1. <<>> \in Seq(Sound(c) \ {"fill"})
    OBVIOUS
  <2> QED
    BY <1>7, <1>9, <2>1, MoreOrLess
<1> HIDE DEF loops
<1> QED
  BY <1>1, <1>8, <1>10, <1>11 DEF Started

LEMMA MaxPoolStarted ==
  ASSUME NEW c, CallAssumed(c), c.op = "maxpool2d", Entry(c) # Threw
  PROVE  Started(c, Entry(c))
<1> DEFINE t == c.t   d == PoolDims(c, "input", "result")
<1>1. validate_maxpool2d_inputs(t["input"], t["result"], c.o) /\ Entry(c) = "maxpool2d"
  BY Zenon DEF Entry, maxpool2d, maxpool2d_unchecked, Checked, Launch
<1>2. /\ Len(t["input"].shape) = 4 /\ Len(t["result"].shape) = 4
      /\ t["result"].shape[1] = t["input"].shape[1] /\ t["result"].shape[2] = t["input"].shape[2]
  BY <1>1 DEF validate_maxpool2d_inputs, AllRank, Rank, PoolFits, Outputs
<1>3. {"input", "result"} \subseteq Takes[c.op]
  BY DEF Takes
<1>4. /\ \A i \in 1..4 : t["input"].shape[i] \in Nat
      /\ \A i \in 1..4 : t["result"].shape[i] \in Nat
  BY <1>2, <1>3, ShapesAssumed
<1>5. PoolMeasured(c)
  BY <1>4 DEF PoolMeasured, PoolDims
<1>6. Iterations(c, "maxpool2d") \in Nat
  <2>1. Iterations(c, "maxpool2d") = PoolRows(c)
    BY DEF Iterations
  <2> QED
    BY <1>5, <2>1 DEF PoolRows, PoolMeasured
<1>7. t["result"].shape[1] = d.N /\ t["result"].shape[2] = d.C
  BY <1>2 DEF PoolDims
<1>8. "maxpool2d" \in Sound(c) \ {"clear_result", "clear_gradient"}
  <2> HIDE DEF d
  <2> QED
    BY <1>5, <1>6, <1>7 DEF d, Sound, Measured, LaunchNames, PoolLoops, ConvLoops, Tiled
<1>9. CpuLoops(c, "maxpool2d") = <<"maxpool2d">> /\ CudaLaunches(c, "maxpool2d") = <<"maxpool2d">>
  BY DEF CpuLoops, CudaLaunches
<1> QED
  BY <1>1, <1>8, <1>9, StartedOne

LEMMA AvgPoolStarted ==
  ASSUME NEW c, CallAssumed(c), c.op = "avgpool2d", Entry(c) # Threw
  PROVE  Started(c, Entry(c))
<1> DEFINE t == c.t   d == PoolDims(c, "input", "result")
<1>1. validate_avgpool2d_inputs(t["input"], t["result"], c.o) /\ Entry(c) = "avgpool2d"
  BY Zenon DEF Entry, avgpool2d, avgpool2d_unchecked, Checked, Launch
<1>2. /\ Len(t["input"].shape) = 4 /\ Len(t["result"].shape) = 4
      /\ t["result"].shape[1] = t["input"].shape[1] /\ t["result"].shape[2] = t["input"].shape[2]
  BY <1>1 DEF validate_avgpool2d_inputs, AllRank, Rank, PoolFits, Outputs
<1>3. {"input", "result"} \subseteq Takes[c.op]
  BY DEF Takes
<1>4. /\ \A i \in 1..4 : t["input"].shape[i] \in Nat
      /\ \A i \in 1..4 : t["result"].shape[i] \in Nat
  BY <1>2, <1>3, ShapesAssumed
<1>5. PoolMeasured(c)
  BY <1>4 DEF PoolMeasured, PoolDims
<1>6. Iterations(c, "avgpool2d") \in Nat
  <2>1. Iterations(c, "avgpool2d") = PoolRows(c)
    BY DEF Iterations
  <2> QED
    BY <1>5, <2>1 DEF PoolRows, PoolMeasured
<1>7. t["result"].shape[1] = d.N /\ t["result"].shape[2] = d.C
  BY <1>2 DEF PoolDims
<1>8. "avgpool2d" \in Sound(c) \ {"clear_result", "clear_gradient"}
  <2> HIDE DEF d
  <2> QED
    BY <1>5, <1>6, <1>7 DEF d, Sound, Measured, LaunchNames, PoolLoops, ConvLoops, Tiled
<1>9. CpuLoops(c, "avgpool2d") = <<"avgpool2d">> /\ CudaLaunches(c, "avgpool2d") = <<"avgpool2d">>
  BY DEF CpuLoops, CudaLaunches
<1> QED
  BY <1>1, <1>8, <1>9, StartedOne

LEMMA MaxPoolWithIndicesStarted ==
  ASSUME NEW c, CallAssumed(c), c.op = "maxpool2d_with_indices", Entry(c) # Threw
  PROVE  Started(c, Entry(c))
<1>1. Entry(c) = "maxpool2d_with_indices"
  BY Zenon DEF Entry, maxpool2d_with_indices, maxpool2d_with_indices_unchecked, Checked, Launch
<1>2. Elements(c, "result") \in Nat
  <2>1. "result" \in Takes[c.op]
    BY DEF Takes
  <2> QED
    BY <2>1, ShapesAssumed
<1>3. "maxpool2d_with_indices" \in Sound(c) \ {"clear_result", "clear_gradient"}
  BY <1>2 DEF Sound, Measured, LaunchNames, ElementLoops, PoolLoops, ConvLoops, Tiled, Iterations
<1>4. /\ CpuLoops(c, "maxpool2d_with_indices") = <<"maxpool2d_with_indices">>
      /\ CudaLaunches(c, "maxpool2d_with_indices") = <<"maxpool2d_with_indices">>
  BY DEF CpuLoops, CudaLaunches
<1> QED
  BY <1>1, <1>3, <1>4, StartedOne

LEMMA BackwardPoolStarted ==
  ASSUME NEW c, CallAssumed(c), c.op \in {"backward_maxpool2d", "backward_avgpool2d"}, Entry(c) # Threw
  PROVE  Started(c, Entry(c))
<1>1. Entry(c) = c.op
  <2>1. CASE c.op = "backward_maxpool2d"
    BY <2>1, Zenon DEF Entry, backward_maxpool2d, backward_maxpool2d_unchecked, Checked, Launch
  <2>2. CASE c.op = "backward_avgpool2d"
    BY <2>2, Zenon DEF Entry, backward_avgpool2d, backward_avgpool2d_unchecked, Checked, Launch
  <2> QED
    BY <2>1, <2>2
<1>2. Elements(c, "grad_input") \in Nat /\ Elements(c, "grad_output") \in Nat
  <2>1. {"grad_input", "grad_output"} \subseteq Takes[c.op]
    BY DEF Takes
  <2> QED
    BY <2>1, ShapesAssumed
<1>3. {"zero", "scatter_max", "scatter_average"} \subseteq Sound(c) \ {"clear_result", "clear_gradient"}
  BY <1>2 DEF Sound, Measured, LaunchNames, ElementLoops, PoolLoops, ConvLoops, Tiled, Iterations, Serial
<1>4. \E b \in {"scatter_max", "scatter_average"} :
        CpuLoops(c, c.op) = <<"zero", b>> /\ CudaLaunches(c, c.op) = <<"zero", b>>
  BY DEF CpuLoops, CudaLaunches
<1> QED
  BY <1>1, <1>3, <1>4, StartedTwo

LEMMA ActivationStarted ==
  ASSUME NEW c, CallAssumed(c), c.op = "activation", Entry(c) # Threw
  PROVE  Started(c, Entry(c))
<1> DEFINE t == c.t["tensor"]
<1>1. validate_activation_tensor(t, c.o.type) /\ Entry(c) = c.o.type
  BY Zenon DEF Entry, activation, activation_unchecked, Checked, Launch
<1>2. c.o.type \in ActivationTypes
  BY DEF CallAssumed
<1>3. /\ t.shape \in Seq(Nat) /\ Elements(c, "tensor") \in Nat
      /\ \A i \in 1..Len(t.shape) : t.shape[i] \in Nat
  <2>1. "tensor" \in Takes[c.op]
    BY DEF Takes
  <2> QED
    BY <2>1, ShapesAssumed
<1>4. CASE c.o.type = "Softmax"
  <2>1. Matrix(c, "tensor") /\ t.shape[1] \in Nat
    BY <1>1, <1>3, <1>4 DEF validate_activation_tensor, SoftmaxShape, Rank, Matrix
  <2>2. "softmax" \in Sound(c) \ {"clear_result", "clear_gradient"}
    BY <2>1 DEF Sound, Measured, LaunchNames, RowLoops, PoolLoops, ConvLoops, Tiled, Iterations
  <2>3. CpuLoops(c, "Softmax") = <<"softmax">> /\ CudaLaunches(c, "Softmax") = <<"softmax">>
    BY DEF CpuLoops, CudaLaunches
  <2> QED
    BY <1>1, <1>4, <2>2, <2>3, StartedOne
<1>5. CASE c.o.type # "Softmax"
  <2>1. "elementwise" \in Sound(c) \ {"clear_result", "clear_gradient"}
    BY <1>3 DEF Sound, Measured, LaunchNames, ElementLoops, PoolLoops, ConvLoops, Tiled, Iterations
  <2>2. /\ CpuLoops(c, c.o.type) = <<"elementwise">> /\ CudaLaunches(c, c.o.type) = <<"elementwise">>
    BY <1>2, <1>5 DEF CpuLoops, CudaLaunches, ActivationTypes
  <2> QED
    BY <1>1, <2>1, <2>2, StartedOne
<1> QED
  BY <1>4, <1>5

LEMMA BackwardActivationStarted ==
  ASSUME NEW c, CallAssumed(c), c.op = "backward_activation", Entry(c) # Threw
  PROVE  Started(c, Entry(c))
<1> DEFINE output == c.t["activation_output"]   grad == c.t["grad"]
<1>1. /\ validate_backward_activation_inputs(output, grad, c.o.type)
      /\ Entry(c) = BackwardKernel[c.o.type]
  BY Zenon DEF Entry, backward_activation, backward_activation_unchecked, Checked, Launch
<1>2. c.o.type \in ActivationTypes
  BY DEF CallAssumed
<1>3. /\ grad.shape \in Seq(Nat) /\ Elements(c, "grad") \in Nat
      /\ \A i \in 1..Len(grad.shape) : grad.shape[i] \in Nat
  <2>1. "grad" \in Takes[c.op]
    BY DEF Takes
  <2> QED
    BY <2>1, ShapesAssumed
<1>0. output.shape = grad.shape
  BY <1>1 DEF validate_backward_activation_inputs
<1>4. CASE c.o.type = "Softmax"
  <2>1. Matrix(c, "grad") /\ output.shape[1] \in Nat
    BY <1>0, <1>1, <1>3, <1>4 DEF validate_backward_activation_inputs, SoftmaxShape, Rank, Matrix
  <2>2. "backward_softmax" \in Sound(c) \ {"clear_result", "clear_gradient"}
    BY <1>0, <2>1 DEF Sound, Measured, LaunchNames, RowLoops, PoolLoops, ConvLoops, Tiled, Iterations
  <2>3. /\ CpuLoops(c, "backward_Softmax") = <<"backward_softmax">>
        /\ CudaLaunches(c, "backward_Softmax") = <<"backward_softmax">>
        /\ BackwardKernel["Softmax"] = "backward_Softmax"
    BY DEF CpuLoops, CudaLaunches, BackwardKernel
  <2> QED
    BY <1>1, <1>4, <2>2, <2>3, StartedOne
<1>5. CASE c.o.type # "Softmax"
  <2>1. "backward_elementwise" \in Sound(c) \ {"clear_result", "clear_gradient"}
    BY <1>3 DEF Sound, Measured, LaunchNames, ElementLoops, PoolLoops, ConvLoops, Tiled, Iterations
  <2>2. BackwardKernel[c.o.type] \in {"backward_ReLU", "backward_Sigmoid", "backward_Tanh"}
    BY <1>2, <1>5 DEF BackwardKernel, ActivationTypes
  <2>3. \A kernel \in {"backward_ReLU", "backward_Sigmoid", "backward_Tanh"} :
          /\ CpuLoops(c, kernel) = <<"backward_elementwise">>
          /\ CudaLaunches(c, kernel) = <<"backward_elementwise">>
    BY DEF CpuLoops, CudaLaunches
  <2> QED
    BY <1>1, <2>1, <2>2, <2>3, StartedOne
<1> QED
  BY <1>4, <1>5

\* The number of the elements that count.
LEMMA ValidCountIsNat ==
  ASSUME NEW c, Elements(c, "prediction") \in Nat, c.t["prediction"].shape[1] \in Nat,
         c.o.valid \in 1..c.t["prediction"].shape[1]
  PROVE  ValidCount(c) \in Nat
<1>1. PICK all \in Nat, rows \in Nat, valid \in Nat :
        all = Elements(c, "prediction") /\ rows = c.t["prediction"].shape[1] /\ valid = c.o.valid
  OBVIOUS
<1>2. rows # 0
  BY <1>1
<1>3. all \div rows \in Nat
  BY <1>2
<1>4. valid * (all \div rows) \in Nat
  BY <1>3
<1> QED
  BY <1>1, <1>4 DEF ValidCount

LossOperations == {"mse_loss", "binary_cross_entropy", "categorical_cross_entropy"}

LEMMA LossStarted ==
  ASSUME NEW c, CallAssumed(c), c.op \in LossOperations, Entry(c) # Threw
  PROVE  Started(c, Entry(c))
<1> DEFINE prediction == c.t["prediction"]
<1>1. /\ Entry(c) = c.op
      /\ c.op # "categorical_cross_entropy" => Rank(prediction) # 0 /\ Counted(c.o.valid, prediction)
  <2>1. CASE c.op = "mse_loss"
    <3>1. /\ Entry(c) = c.op
          /\ validate_mse_loss_inputs(prediction, c.t["target"], c.t["result"], c.o.reduction, c.o.valid)
      BY <2>1, Zenon DEF Entry, mse_loss, mse_loss_unchecked, Checked, Launch
    <3> QED
      BY <3>1 DEF validate_mse_loss_inputs
  <2>2. CASE c.op = "binary_cross_entropy"
    <3>1. /\ Entry(c) = c.op
          /\ validate_binary_cross_entropy_inputs(prediction, c.t["target"], c.t["result"],
                                                  c.o.reduction, c.o.valid)
      BY <2>2, Zenon DEF Entry, binary_cross_entropy, binary_cross_entropy_unchecked, Checked, Launch
    <3> QED
      BY <3>1 DEF validate_binary_cross_entropy_inputs, validate_mse_loss_inputs
  <2>3. CASE c.op = "categorical_cross_entropy"
    BY <2>3, Zenon DEF Entry, categorical_cross_entropy, categorical_cross_entropy_unchecked, Checked, Launch
  <2> QED
    BY <2>1, <2>2, <2>3 DEF LossOperations
<1>2. /\ prediction.shape \in Seq(Nat) /\ Elements(c, "prediction") \in Nat
      /\ \A i \in 1..Len(prediction.shape) : prediction.shape[i] \in Nat
      /\ c.o.valid \in Nat
  <2>1. "prediction" \in Takes[c.op]
    BY DEF Takes, LossOperations
  <2>2. c.o.valid \in Sizes
    BY <2>1 DEF CallAssumed
  <2> QED
    BY <2>1, <2>2, ShapesAssumed DEF Sizes, Below
<1>3. c.op # "categorical_cross_entropy" => ValidCount(c) \in Nat
  <2> SUFFICES ASSUME c.op # "categorical_cross_entropy" PROVE ValidCount(c) \in Nat
    OBVIOUS
  <2>1. Len(prediction.shape) \in Nat \ {0}
    BY <1>1, <1>2 DEF Rank
  <2>2. prediction.shape[1] \in Nat /\ c.o.valid \in 1..prediction.shape[1]
    BY <1>1, <1>2, <2>1 DEF Counted
  <2> QED
    BY <1>2, <2>2, ValidCountIsNat
<1>4. PICK a \in {"loss", "categorical_loss"} :
        /\ a = "loss" => c.op # "categorical_cross_entropy"
        /\ c.op # "mse_loss" => CpuLoops(c, c.op) = <<a>>
        /\ CudaLaunches(c, c.op) = <<"clear_result", a>>
  BY DEF CpuLoops, CudaLaunches, LossOperations
<1>5. /\ a \in Sound(c) /\ "clear_result" \in Sound(c) /\ a \notin {"clear_result", "clear_gradient", "fill"}
  BY <1>2, <1>3, <1>4 DEF Sound, Measured, LaunchNames, PoolLoops, ConvLoops, Tiled, Serial, Memset
<1>6. /\ <<a>> \in Seq(Sound(c) \ {"clear_result", "clear_gradient"})
      /\ <<"clear_result", a>> \in Seq(Sound(c) \ {"fill"})
  BY <1>5
<1> QED
  BY <1>1, <1>4, <1>6 DEF Started

LEMMA BackwardLossStarted ==
  ASSUME NEW c, CallAssumed(c), c.op \in {"backward_mse_loss", "backward_binary_cross_entropy"},
         Entry(c) # Threw
  PROVE  Started(c, Entry(c))
<1> DEFINE prediction == c.t["prediction"]
<1>1. /\ Entry(c) = c.op /\ Rank(prediction) # 0 /\ Counted(c.o.valid, prediction)
  <2>1. CASE c.op = "backward_mse_loss"
    <3>1. /\ Entry(c) = c.op
          /\ validate_backward_mse_loss_inputs(prediction, c.t["target"], c.t["grad_prediction"],
                                               c.o.reduction, c.o.valid)
      BY <2>1, Zenon DEF Entry, backward_mse_loss, backward_mse_loss_unchecked, Checked, Launch
    <3> QED
      BY <3>1 DEF validate_backward_mse_loss_inputs
  <2>2. CASE c.op = "backward_binary_cross_entropy"
    <3>1. /\ Entry(c) = c.op
          /\ validate_backward_binary_cross_entropy_inputs(prediction, c.t["target"], c.t["grad_prediction"],
                                               c.o.reduction, c.o.valid)
      BY <2>2, Zenon DEF Entry, backward_binary_cross_entropy, backward_binary_cross_entropy_unchecked,
                         Checked, Launch
    <3> QED
      BY <3>1 DEF validate_backward_binary_cross_entropy_inputs, validate_backward_mse_loss_inputs
  <2> QED
    BY <2>1, <2>2
<1>2. /\ prediction.shape \in Seq(Nat) /\ Elements(c, "prediction") \in Nat
      /\ \A i \in 1..Len(prediction.shape) : prediction.shape[i] \in Nat
  <2>1. "prediction" \in Takes[c.op]
    BY DEF Takes
  <2> QED
    BY <2>1, ShapesAssumed
<1>3. prediction.shape[1] \in Nat /\ c.o.valid \in 1..prediction.shape[1]
  <2>1. Len(prediction.shape) \in Nat \ {0}
    BY <1>1, <1>2 DEF Rank
  <2> QED
    BY <1>1, <1>2, <2>1 DEF Counted
<1>4. ValidCount(c) \in Nat
  BY <1>2, <1>3, ValidCountIsNat
<1>5. {"backward_loss", "fill_padding"} \subseteq Sound(c) \ {"clear_result", "clear_gradient"}
  BY <1>4 DEF Sound, Measured, LaunchNames, ElementLoops, PoolLoops, ConvLoops, Tiled, Serial, Iterations
<1>6. /\ CpuLoops(c, c.op) = <<"backward_loss", "fill_padding">>
      /\ CudaLaunches(c, c.op) = <<"fill_padding", "backward_loss">>
  BY DEF CpuLoops, CudaLaunches
<1> QED
  BY <1>1, <1>5, <1>6, StartedTwo

LEMMA BackwardCategoricalStarted ==
  ASSUME NEW c, CallAssumed(c), c.op = "backward_categorical_cross_entropy", Entry(c) # Threw
  PROVE  Started(c, Entry(c))
<1> DEFINE prediction == c.t["prediction"]
<1>1. /\ Entry(c) = c.op
      /\ validate_backward_categorical_cross_entropy_inputs(prediction, c.t["target"],
           c.t["grad_prediction"], c.o.reduction, c.o.valid)
  BY Zenon DEF Entry, backward_categorical_cross_entropy, backward_categorical_cross_entropy_unchecked,
               Checked, Launch
<1>2. Len(prediction.shape) = 2
  BY <1>1 DEF validate_backward_categorical_cross_entropy_inputs, Classified, Rank
<1>3. prediction.shape[2] \in Nat /\ c.o.valid \in Nat
  <2>1. "prediction" \in Takes[c.op]
    BY DEF Takes
  <2>2. c.o.valid \in Sizes
    BY <2>1 DEF CallAssumed
  <2> QED
    BY <1>2, <2>1, <2>2, ShapesAssumed DEF Sizes, Below
<1>4. /\ {"fill", "backward_categorical_loss"} \subseteq Sound(c) \ {"clear_result", "clear_gradient"}
      /\ "clear_gradient" \in Sound(c)
  BY <1>3 DEF Sound, Measured, LaunchNames, PoolLoops, ConvLoops, Tiled, Serial, Memset
<1>5. /\ CpuLoops(c, c.op) = <<"fill", "backward_categorical_loss">>
      /\ CudaLaunches(c, c.op) = <<"clear_gradient", "backward_categorical_loss">>
  BY DEF CpuLoops, CudaLaunches
<1> QED
  BY <1>1, <1>4, <1>5, StartedTwo

LEMMA UpdateStarted ==
  ASSUME NEW c, CallAssumed(c), c.op \in {"sgd_update", "adam_update"}, Entry(c) # Threw
  PROVE  Started(c, Entry(c))
<1>1. Entry(c) = c.op
  <2>1. CASE c.op = "sgd_update"
    BY <2>1, Zenon DEF Entry, sgd_update, sgd_update_unchecked, Checked, Launch
  <2>2. CASE c.op = "adam_update"
    BY <2>2, Zenon DEF Entry, adam_update, adam_update_unchecked, Checked, Launch
  <2> QED
    BY <2>1, <2>2
<1>2. Elements(c, "value") \in Nat
  <2>1. "value" \in Takes[c.op]
    BY DEF Takes
  <2> QED
    BY <2>1, ShapesAssumed
<1>3. {"sgd", "adam"} \subseteq Sound(c) \ {"clear_result", "clear_gradient"}
  BY <1>2 DEF Sound, Measured, LaunchNames, ElementLoops, PoolLoops, ConvLoops, Tiled, Iterations
<1>4. \E a \in {"sgd", "adam"} : CpuLoops(c, c.op) = <<a>> /\ CudaLaunches(c, c.op) = <<a>>
  BY DEF CpuLoops, CudaLaunches
<1> QED
  BY <1>1, <1>3, <1>4, StartedOne

LEMMA EveryCallStarted ==
  ASSUME NEW c, CallAssumed(c), Entry(c) # Threw
  PROVE  Started(c, Entry(c))
<1>1. c.op \in {"conv2d", "backward_conv2d", "linear", "backward_linear", "maxpool2d", "avgpool2d",
                "maxpool2d_with_indices", "backward_maxpool2d", "backward_avgpool2d", "activation",
                "backward_activation", "backward_mse_loss", "backward_binary_cross_entropy",
                "backward_categorical_cross_entropy", "sgd_update", "adam_update"}
               \cup LossOperations
  BY DEF CallAssumed, Takes, LossOperations
<1> QED
  BY <1>1, ConvStarted, BackwardConvStarted, LinearStarted, BackwardLinearStarted, MaxPoolStarted,
     AvgPoolStarted, MaxPoolWithIndicesStarted, BackwardPoolStarted, ActivationStarted,
     BackwardActivationStarted, LossStarted, BackwardLossStarted, BackwardCategoricalStarted,
     UpdateStarted

-----------------------------------------------------------------------------
(* The threads of a GPU. *)

LEMMA PairsDiffer ==
  ASSUME NEW i \in Nat, NEW j \in Nat, NEW width \in Nat, NEW a \in Below(width), NEW b \in Below(width),
         i # j \/ a # b
  PROVE  i * width + a # j * width + b
<1>1. PICK p \in Nat, q \in Nat : p = i * width /\ q = j * width
  OBVIOUS
<1>2. CASE i # j
  <2> SUFFICES ASSUME p + a = q + b PROVE FALSE
    BY <1>1
  <2> DEFINE x == <<"", p + a>>
  <2>1. Own(x, width, i) /\ Own(x, width, j)
    BY <1>1 DEF Own, Below
  <2> QED
    BY <1>2, <2>1, RowsApart
<1>3. CASE i = j
  BY <1>1, <1>3 DEF Below
<1> QED
  BY <1>2, <1>3

LEMMA Powers == ASSUME NEW n \in 0..10 PROVE 2^n \in Nat \ {0}
<1>0. n = 0 \/ n = 1 \/ n = 2 \/ n = 3 \/ n = 4 \/ n = 5 \/ n = 6 \/ n = 7 \/ n = 8 \/ n = 9 \/ n = 10
  OBVIOUS
<1>1. CASE n = 0
  <2>1. 2^0 = 1
    BY SMT
  <2>2. 2^n = 1
    BY <1>1, <2>1, Zenon
  <2> QED
    BY <2>2
<1>2. CASE n = 1
  <2>1. 2^1 = 2
    BY SMT
  <2>2. 2^n = 2
    BY <1>2, <2>1, Zenon
  <2> QED
    BY <2>2
<1>3. CASE n = 2
  <2>1. 2^2 = 4
    BY SMT
  <2>2. 2^n = 4
    BY <1>3, <2>1, Zenon
  <2> QED
    BY <2>2
<1>4. CASE n = 3
  <2>1. 2^3 = 8
    BY SMT
  <2>2. 2^n = 8
    BY <1>4, <2>1, Zenon
  <2> QED
    BY <2>2
<1>5. CASE n = 4
  <2>1. 2^4 = 16
    BY SMT
  <2>2. 2^n = 16
    BY <1>5, <2>1, Zenon
  <2> QED
    BY <2>2
<1>6. CASE n = 5
  <2>1. 2^5 = 32
    BY SMT
  <2>2. 2^n = 32
    BY <1>6, <2>1, Zenon
  <2> QED
    BY <2>2
<1>7. CASE n = 6
  <2>1. 2^6 = 64
    BY SMT
  <2>2. 2^n = 64
    BY <1>7, <2>1, Zenon
  <2> QED
    BY <2>2
<1>8. CASE n = 7
  <2>1. 2^7 = 128
    BY SMT
  <2>2. 2^n = 128
    BY <1>8, <2>1, Zenon
  <2> QED
    BY <2>2
<1>9. CASE n = 8
  <2>1. 2^8 = 256
    BY SMT
  <2>2. 2^n = 256
    BY <1>9, <2>1, Zenon
  <2> QED
    BY <2>2
<1>10. CASE n = 9
  <2>1. 2^9 = 512
    BY SMT
  <2>2. 2^n = 512
    BY <1>10, <2>1, Zenon
  <2> QED
    BY <2>2
<1>11. CASE n = 10
  <2>1. 2^10 = 1024
    BY SMT
  <2>2. 2^n = 1024
    BY <1>11, <2>1, Zenon
  <2> QED
    BY <2>2
<1> QED
  BY <1>0, <1>1, <1>2, <1>3, <1>4, <1>5, <1>6, <1>7, <1>8, <1>9, <1>10, <1>11

LEMMA LineAndSteps == BlockLine \in Nat \ {0} /\ Steps \in 0..10
<1>1. PICK n \in 0..10 : BlockLine = 2^n
  BY BlockLineAssumption
<1>2. BlockLine \in Nat \ {0}
  BY <1>1, Powers
<1>3. Steps \in 0..10
  BY <1>1 DEF Steps
<1> QED
  BY <1>2, <1>3

LEMMA BlocksAreNat == {BlockAxis, BiasTile, BiasLanes} \subseteq Nat \ {0}
BY BlockAssumption

\* A thread that only adds atomically, to tensors it does not read otherwise.
OnlyAdds(effects, out) ==
  \A e \in effects : e.atomic /\ e.to[1] \in out /\ \A x \in Reads(e) : x = e.to \/ x[1] \notin out

LEMMA AddsUnordered ==
  ASSUME NEW E, NEW F, NEW out, OnlyAdds(E, out), OnlyAdds(F, out)
  PROVE  Unordered(E, F)
BY Zenon DEF OnlyAdds, Unordered

Atomic(cell, terms) == [to |-> cell, keep |-> TRUE, atomic |-> TRUE, terms |-> terms]

LEMMA AtomicOnlyAdds ==
  ASSUME NEW out, NEW cell, NEW terms, cell[1] \in out,
         \A term \in terms : \E x, y : (term = <<x, y>> \/ term = <<x>>) /\ x[1] \notin out /\ y[1] \notin out
  PROVE  OnlyAdds({Atomic(cell, terms)}, out)
<1> DEFINE e == Atomic(cell, terms)
<1>1. /\ e.to = cell /\ e.atomic
      /\ \A x \in Reads(e) : x = cell \/ \E term \in terms : \E k \in DOMAIN term : x = term[k]
  BY DEF Atomic, Reads
<1> HIDE DEF e
<1> SUFFICES ASSUME NEW x \in Reads(e) PROVE x = cell \/ x[1] \notin out
  BY <1>1 DEF OnlyAdds, e
<1>2. ASSUME NEW term \in terms, NEW k \in DOMAIN term, x = term[k] PROVE x[1] \notin out
  <2>1. PICK a, b : (term = <<a, b>> \/ term = <<a>>) /\ a[1] \notin out /\ b[1] \notin out
    OBVIOUS
  <2>2. term[k] = a \/ term[k] = b
    BY <1>2, <2>1
  <2> QED
    BY <1>2, <2>1, <2>2
<1> QED
  BY <1>1, <1>2

LEMMA Rewritten ==
  ASSUME NEW cell, NEW terms, NEW f, f = [to |-> cell, keep |-> TRUE, atomic |-> FALSE, terms |-> terms],
         NEW e, e = [f EXCEPT !.keep = TRUE, !.atomic = TRUE]
  PROVE  e = Atomic(cell, terms)
BY DEF Atomic

LEMMA ScattersOnlyAdd ==
  ASSUME NEW c, NEW i
  PROVE  /\ OnlyAdds(mse_loss_cuda_float32_kernel(c, i), {"result"})
         /\ OnlyAdds(categorical_cross_entropy_cuda_float32_kernel(c, i), {"result"})
         /\ OnlyAdds(backward_maxpool2d_cuda_float32_kernel(c, i), {"grad_input"})
         /\ OnlyAdds(backward_avgpool2d_cuda_float32_kernel(c, i), {"grad_input"})
<1>1. OnlyAdds(mse_loss_cuda_float32_kernel(c, i), {"result"})
  <2> DEFINE cell == <<"result", 0>>   x == <<"prediction", i>>   y == <<"target", i>>
  <2>1. cell[1] \in {"result"} /\ x[1] \notin {"result"} /\ y[1] \notin {"result"}
    OBVIOUS
  <2>2. LossTerm(c, i) = {<<x, y>>} /\ mse_loss_cuda_float32_kernel(c, i) = {Atomic(cell, LossTerm(c, i))}
    BY DEF LossTerm, mse_loss_cuda_float32_kernel, AtomicAdd, Atomic
  <2> HIDE DEF cell, x, y
  <2>3. \A term \in LossTerm(c, i) : \E a, b : (term = <<a, b>> \/ term = <<a>>)
                                      /\ a[1] \notin {"result"} /\ b[1] \notin {"result"}
    BY <2>1, <2>2, Zenon
  <2> QED
    BY <2>1, <2>2, <2>3, AtomicOnlyAdds
<1>2. OnlyAdds(categorical_cross_entropy_cuda_float32_kernel(c, i), {"result"})
  <2>1. CASE ~ClassInRange(c, i)
    BY <2>1 DEF OnlyAdds, categorical_cross_entropy_cuda_float32_kernel
  <2>2. CASE ClassInRange(c, i)
    <3> DEFINE cell == <<"result", 0>>   x == ClassCell(c, "prediction", i)   y == <<"target", i>>
    <3>1. cell[1] \in {"result"} /\ x[1] \notin {"result"} /\ y[1] \notin {"result"}
      BY DEF ClassCell
    <3>2. /\ ClassTerm(c, i) = {<<x, y>>}
          /\ categorical_cross_entropy_cuda_float32_kernel(c, i) = {Atomic(cell, ClassTerm(c, i))}
      BY <2>2 DEF ClassTerm, categorical_cross_entropy_cuda_float32_kernel, AtomicAdd, Atomic
    <3> HIDE DEF cell, x, y
    <3>3. \A term \in ClassTerm(c, i) : \E a, b : (term = <<a, b>> \/ term = <<a>>)
                                        /\ a[1] \notin {"result"} /\ b[1] \notin {"result"}
      BY <3>1, <3>2, Zenon
    <3> QED
      BY <3>1, <3>2, <3>3, AtomicOnlyAdds
  <2> QED
    BY <2>1, <2>2
<1>3. OnlyAdds(backward_maxpool2d_cuda_float32_kernel(c, i), {"grad_input"})
  <2> DEFINE cell == <<"grad_input", c.data["indices"][i]>>   x == <<"grad_output", i>>
             e == Atomic(cell, {<<x>>})
  <2>1. cell[1] \in {"grad_input"} /\ x[1] \notin {"grad_input"}
    OBVIOUS
  <2>2. backward_maxpool2d_cuda_float32_kernel(c, i) = {e}
    <3> DEFINE f == [to |-> cell, keep |-> TRUE, atomic |-> FALSE, terms |-> {<<x>>}]
    <3>1. backward_maxpool2d_cuda_float32_kernel(c, i) = {[g EXCEPT !.keep = TRUE, !.atomic = TRUE] : g \in {f}}
      BY Zenon DEF backward_maxpool2d_cuda_float32_kernel, Atomically, ScatterMax, Add
    <3>2. PICK h : h = [f EXCEPT !.keep = TRUE, !.atomic = TRUE]
      OBVIOUS
    <3>3. h = Atomic(cell, {<<x>>})
      <4> DEFINE terms == {<<x>>}
      <4>1. f = [to |-> cell, keep |-> TRUE, atomic |-> FALSE, terms |-> terms]
        OBVIOUS
      <4> HIDE DEF cell, terms, f
      <4>2. h = Atomic(cell, terms)
        BY <3>2, <4>1, Rewritten
      <4> QED
        BY <4>2 DEF terms
    <3> HIDE DEF f
    <3>4. backward_maxpool2d_cuda_float32_kernel(c, i) = {h}
      BY <3>1, <3>2
    <3> QED
      BY <3>3, <3>4
  <2> HIDE DEF cell, x, e
  <2>3. \A term \in {<<x>>} : \E a, b : (term = <<a, b>> \/ term = <<a>>)
                                      /\ a[1] \notin {"grad_input"} /\ b[1] \notin {"grad_input"}
    BY <2>1
  <2>4. OnlyAdds({e}, {"grad_input"})
    <3> DEFINE terms == {<<x>>}
    <3> HIDE DEF terms
    <3>1. \A term \in terms : \E a, b : (term = <<a, b>> \/ term = <<a>>)
                                      /\ a[1] \notin {"grad_input"} /\ b[1] \notin {"grad_input"}
      BY <2>3 DEF terms
    <3>2. e = Atomic(cell, terms)
      BY DEF terms, e
    <3> QED
      BY <2>1, <3>1, <3>2, AtomicOnlyAdds
  <2> QED
    BY <2>2, <2>4
<1>4. OnlyAdds(backward_avgpool2d_cuda_float32_kernel(c, i), {"grad_input"})
  <2> SUFFICES ASSUME NEW e \in backward_avgpool2d_cuda_float32_kernel(c, i)
               PROVE  OnlyAdds({e}, {"grad_input"})
    BY DEF OnlyAdds
  <2>1. PICK f \in ScatterAverage(c, i) : e = [f EXCEPT !.keep = TRUE, !.atomic = TRUE]
    BY DEF backward_avgpool2d_cuda_float32_kernel, Atomically
  <2> DEFINE x == <<"grad_output", i>>
  <2>2. PICK a, n : f = Add(<<"grad_input", a>>, {<<x, <<"share", n>>>>})
    BY <2>1, Zenon DEF ScatterAverage, PoolAt, Cell, Share
  <2> DEFINE cell == <<"grad_input", a>>   y == <<"share", n>>   terms == {<<x, y>>}
  <2>3. cell[1] \in {"grad_input"} /\ x[1] \notin {"grad_input"} /\ y[1] \notin {"grad_input"}
    OBVIOUS
  <2>4. e = Atomic(cell, terms)
    BY <2>1, <2>2 DEF Add, Atomic
  <2> HIDE DEF cell, x, y
  <2>5. \A term \in terms : \E p, q : (term = <<p, q>> \/ term = <<p>>)
                                      /\ p[1] \notin {"grad_input"} /\ q[1] \notin {"grad_input"}
    BY <2>3, Zenon
  <2> HIDE DEF terms
  <2> QED
    BY <2>3, <2>4, <2>5, AtomicOnlyAdds
<1> QED
  BY <1>1, <1>2, <1>3, <1>4

LEMMA ClassesConfined ==
  ASSUME NEW c, NEW n \in Nat, c.t["prediction"].shape[2] \in Nat
  PROVE  Confined(backward_categorical_cross_entropy_cuda_float32_kernel(c, n), {"grad_prediction"},
                  c.t["prediction"].shape[2], n)
<1>1. CASE ~ClassInRange(c, n)
  BY <1>1 DEF Confined, backward_categorical_cross_entropy_cuda_float32_kernel
<1>2. CASE ClassInRange(c, n)
  <2> DEFINE width == c.t["prediction"].shape[2]   cell == ClassCell(c, "grad_prediction", n)
             x == ClassCell(c, "prediction", n)   y == <<"target", n>>
  <2>1. cell[1] \in {"grad_prediction"} /\ Own(cell, width, n)
    <3>1. PICK k \in Below(width) : k = c.data["target"][n]
      BY <1>2 DEF ClassInRange
    <3>0. width \in Nat
      OBVIOUS
    <3> HIDE DEF width
    <3>2. PICK base \in Nat : base = n * width
      BY <3>0
    <3>3. cell = <<"grad_prediction", base + k>>
      BY <3>1, <3>2 DEF ClassCell, width
    <3> HIDE DEF cell
    <3>4. base + k \in base..(base + width - 1)
      BY <3>0, <3>1 DEF Below
    <3> QED
      BY <3>2, <3>3, <3>4 DEF Own
  <2>2. x[1] \notin {"grad_prediction"} /\ y[1] \notin {"grad_prediction"}
    BY DEF ClassCell
  <2>3. ClassTerm(c, n) = {<<x, y>>}
    BY DEF ClassTerm
  <2>4. backward_categorical_cross_entropy_cuda_float32_kernel(c, n) = {Effect(cell, ClassTerm(c, n))}
    BY <1>2 DEF backward_categorical_cross_entropy_cuda_float32_kernel
  <2> HIDE DEF cell, x, y, width
  <2>5. TermsPrivate(ClassTerm(c, n), {"grad_prediction"}, width, n)
    BY <2>2, <2>3 DEF TermsPrivate, Private
  <2> QED
    BY <2>1, <2>4, <2>5, EffectConfined DEF width
<1> QED
  BY <1>1, <1>2

LEMMA IndexedApart ==
  ASSUME NEW c, NEW launch \in Sound(c) \cap Indexed, NEW i \in Nat, NEW j \in Nat, i # j,
         i < Count(c, launch), j < Count(c, launch)
  PROVE  Unordered(IndexedBody(c, launch, i), IndexedBody(c, launch, j))
<1>1. CASE launch \in {"loss", "categorical_loss", "scatter_max", "scatter_average"}
  <2> DEFINE out == IF launch \in {"loss", "categorical_loss"} THEN {"result"} ELSE {"grad_input"}
  <2>1. \A k : OnlyAdds(IndexedBody(c, launch, k), out)
    BY <1>1, ScattersOnlyAdd DEF IndexedBody
  <2> QED
    BY <2>1, AddsUnordered
<1>2. CASE launch = "backward_categorical_loss"
  <2>1. c.t["prediction"].shape[2] \in Nat
    BY <1>2 DEF Sound, Measured
  <2>2. \A k : IndexedBody(c, launch, k) = backward_categorical_cross_entropy_cuda_float32_kernel(c, k)
    BY <1>2 DEF IndexedBody
  <2>3. Apart(IndexedBody(c, launch, i), IndexedBody(c, launch, j))
    BY <2>1, <2>2, ClassesConfined, ConfinedApart DEF Apart
  <2> QED
    BY <2>3, ApartIsUnordered
<1>3. CASE launch \notin {"loss", "categorical_loss", "scatter_max", "scatter_average", "backward_categorical_loss"}
  <2>1. launch \in Sound(c) \ (Serial \cup Memset)
    BY <1>3 DEF Indexed, Serial, Memset
  <2>2. Count(c, launch) = Iterations(c, launch) /\ Iterations(c, launch) \in Nat
    BY <1>3, <2>1 DEF Count, Sound, Measured
  <2>3. \A k : IndexedBody(c, launch, k) = Body(c, launch, k)
    BY <1>3 DEF IndexedBody
  <2>4. i \in Below(Iterations(c, launch)) /\ j \in Below(Iterations(c, launch))
    BY <2>2 DEF Below
  <2>5. /\ Width(c, launch) \in Nat
        /\ Confined(Body(c, launch, i), WrittenBy(launch), Width(c, launch), i)
        /\ Confined(Body(c, launch, j), WrittenBy(launch), Width(c, launch), j)
    BY <2>1, <2>4, LoopConfined
  <2>6. Apart(IndexedBody(c, launch, i), IndexedBody(c, launch, j))
    BY <2>3, <2>5, ConfinedApart DEF Apart
  <2> QED
    BY <2>6, ApartIsUnordered
<1> QED
  BY <1>1, <1>2, <1>3

LEMMA DividedUp ==
  ASSUME NEW n \in Nat, NEW d \in Nat \ {0}
  PROVE  DivideUp(n, d) \in Nat
BY Quotient DEF DivideUp

LEMMA IndexedLaunch ==
  ASSUME NEW c, NEW launch \in Indexed
  PROVE  /\ Threads(launch) = Below(BlockLine)
         /\ Grid(c, launch) = Below(DivideUp(Count(c, launch), BlockLine))
         /\ \A g, t, m : Effects(c, launch, g, t, m) =
              LET index == g * BlockLine + t IN
              IF index < Count(c, launch) THEN IndexedBody(c, launch, index) ELSE {}
<1>1. /\ launch \notin Memset /\ launch \notin Planar /\ launch \notin Tiled
      /\ launch \notin {"linear_grad_bias", "softmax", "backward_softmax", "linear", "linear_grad_input",
                        "linear_grad_weights"}
  BY DEF Indexed, Memset, Planar, Tiled
<1> QED
  BY <1>1 DEF Threads, Grid, Effects

LEMMA IndexedLaunchApart ==
  ASSUME NEW c, NEW launch \in Sound(c) \cap Indexed,
         NEW g \in Grid(c, launch), NEW h \in Grid(c, launch), NEW t \in Threads(launch), NEW u \in Threads(launch),
         NEW m, NEW n, g # h \/ t # u
  PROVE  Unordered(Effects(c, launch, g, t, m), Effects(c, launch, h, u, n))
<1>2. Threads(launch) = Below(BlockLine) /\ Grid(c, launch) = Below(DivideUp(Count(c, launch), BlockLine))
  BY IndexedLaunch
<1>3. Count(c, launch) \in Nat
  <2>1. CASE launch \in {"scatter_max", "scatter_average", "loss", "categorical_loss", "backward_categorical_loss"}
    BY <2>1 DEF Count, Sound, Measured, Iterations
  <2>2. CASE launch \notin {"scatter_max", "scatter_average", "loss", "categorical_loss", "backward_categorical_loss"}
    <3>1. launch \notin Serial \cup Memset /\ Count(c, launch) = Iterations(c, launch)
      BY <2>2 DEF Count, Indexed, Serial, Memset
    <3> QED
      BY <3>1 DEF Sound, Measured
  <2> QED
    BY <2>1, <2>2
<1>4. BlockLine \in Nat \ {0} /\ DivideUp(Count(c, launch), BlockLine) \in Nat
  <2>1. BlockLine \in Nat \ {0}
    BY LineAndSteps
  <2> QED
    BY <1>3, <2>1, DividedUp
<1>5. g \in Nat /\ h \in Nat
  BY <1>2, <1>4 DEF Below
<1>6. \A k \in Nat, v \in Below(BlockLine) : k * BlockLine + v \in Nat
  BY <1>4 DEF Below
<1>7. PICK i \in Nat, j \in Nat : i = g * BlockLine + t /\ j = h * BlockLine + u
  BY <1>2, <1>5, <1>6
<1>8. i # j
  <2>1. t \in Below(BlockLine) /\ u \in Below(BlockLine) /\ BlockLine \in Nat
    BY <1>2, <1>4
  <2>2. g * BlockLine + t # h * BlockLine + u
    BY <1>5, <2>1, PairsDiffer
  <2> QED
    BY <1>7, <2>2
<1>9. /\ Effects(c, launch, g, t, m) = IF i < Count(c, launch) THEN IndexedBody(c, launch, i) ELSE {}
      /\ Effects(c, launch, h, u, n) = IF j < Count(c, launch) THEN IndexedBody(c, launch, j) ELSE {}
  BY <1>7, IndexedLaunch
<1> QED
  BY <1>8, <1>9, IndexedApart DEF Unordered

\* What a thread of a plane does: the output at (oh, ow) of plane i.
PlanarSpot(c, e, i, oh, ow) ==
  /\ e.to = <<"result", (i * Output(c, 1) + oh) * Output(c, 2) + ow>>
  /\ \A x \in Reads(e) : x[1] # "result"

PlanarCell(c, launch, n, k, oh, ow) ==
  CASE launch = "conv2d_valid" -> ValidCell(c, n, k, oh, ow)
    [] launch = "conv2d_padded" -> PaddedCell(c, n, k, oh, ow)
    [] launch = "conv2d_strided" -> StridedCell(c, n, k, oh, ow)
    [] launch = "conv2d_general" -> GeneralCell(c, n, k, oh, ow)
    [] launch = "maxpool2d" -> MaxPoolCell(c, n, k, oh, ow)
    [] launch = "avgpool2d" -> AvgPoolCell(c, n, k, oh, ow)

LEMMA PlanarCells ==
  ASSUME NEW c, NEW launch \in Planar, NEW block, NEW thread, NEW e \in PlanarKernel(c, launch, block, thread),
         NEW oh, oh = block[2] * BlockAxis + thread[2], NEW ow, ow = block[1] * BlockAxis + thread[1],
         NEW channels, channels = c.t["result"].shape[2]
  PROVE  /\ ~(oh >= Output(c, 1)) /\ ~(ow >= Output(c, 2))
         /\ e = PlanarCell(c, launch, block[3] \div channels, block[3] % channels, oh, ow)
<1>1. launch \in {"conv2d_valid", "conv2d_padded", "conv2d_strided", "conv2d_general", "maxpool2d", "avgpool2d"}
  BY DEF Planar
<1>2. PlanarKernel(c, launch, block, thread) =
        IF oh >= Output(c, 1) \/ ow >= Output(c, 2) THEN {}
        ELSE {PlanarCell(c, launch, block[3] \div channels, block[3] % channels, oh, ow)}
  <2>1. CASE launch = "conv2d_valid"
    BY <2>1, Zenon DEF PlanarKernel, PlanarThread, PlanarCell, conv2d_cuda_float32_valid_kernel
  <2>2. CASE launch = "conv2d_padded"
    BY <2>2, Zenon DEF PlanarKernel, PlanarThread, PlanarCell, conv2d_cuda_float32_padded_kernel
  <2>3. CASE launch = "conv2d_strided"
    BY <2>3, Zenon DEF PlanarKernel, PlanarThread, PlanarCell, conv2d_cuda_float32_strided_kernel
  <2>4. CASE launch = "conv2d_general"
    BY <2>4, Zenon DEF PlanarKernel, PlanarThread, PlanarCell, conv2d_cuda_float32_general_kernel
  <2>5. CASE launch = "maxpool2d"
    BY <2>5, Zenon DEF PlanarKernel, PlanarThread, PlanarCell, maxpool2d_cuda_float32_kernel
  <2>6. CASE launch = "avgpool2d"
    BY <2>6, Zenon DEF PlanarKernel, PlanarThread, PlanarCell, avgpool2d_cuda_float32_kernel
  <2> QED
    BY <1>1, <2>1, <2>2, <2>3, <2>4, <2>5, <2>6
<1> QED
  BY <1>2

LEMMA PlanarCellPlace ==
  ASSUME NEW c, NEW launch \in Sound(c) \cap Planar, NEW i, i \in Below(c.t["result"].shape[1] * c.t["result"].shape[2]),
         NEW oh \in Below(Output(c, 1)), NEW ow \in Below(Output(c, 2)),
         NEW channels, channels = c.t["result"].shape[2]
  PROVE  PlanarSpot(c, PlanarCell(c, launch, i \div channels, i % channels, oh, ow), i, oh, ow)
<1> DEFINE e == PlanarCell(c, launch, i \div channels, i % channels, oh, ow)
<1>1. CASE launch \in ConvLoops
  <2>1. /\ ConvMeasured(c) /\ channels = ConvDims(c).K /\ i \in Below(ConvPlanes(c))
        /\ Output(c, 1) = ConvDims(c).OH /\ Output(c, 2) = ConvDims(c).OW
    BY <1>1 DEF Sound, Measured, ConvPlanes, Output, ConvDims
  <2>2. ConvOutput(c, e, i \div channels, i % channels, oh, ow)
    BY <1>1, ConvOutputs DEF ConvLoops, PlanarCell
  <2> HIDE DEF e
  <2>3. ConvOutput(c, e, i \div ConvDims(c).K, i % ConvDims(c).K, oh, ow)
    BY <2>1, <2>2, Zenon
  <2>4. /\ e.to = <<"result", (i * ConvDims(c).OH + oh) * ConvDims(c).OW + ow>>
        /\ \A x \in Reads(e) : x[1] # "result"
    <3>1. oh \in Below(ConvDims(c).OH) /\ ow \in Below(ConvDims(c).OW)
      BY <2>1
    <3> QED
      BY <2>1, <2>3, <3>1, ConvPlace, Zenon
  <2> QED
    BY <2>1, <2>4, Zenon DEF PlanarSpot, e
<1>2. CASE launch \in PoolLoops
  <2> DEFINE d == PoolDims(c, "input", "result")
  <2>1. /\ PoolMeasured(c) /\ channels = d.C /\ i \in Below(d.N * d.C)
        /\ Output(c, 1) = d.OH /\ Output(c, 2) = d.OW
    BY <1>2 DEF Sound, Measured, Output, PoolDims
  <2>2. PoolOutput(c, e, i \div channels, i % channels, oh, ow)
    BY <1>2, PoolOutputs DEF PoolLoops, PlanarCell
  <2> HIDE DEF e
  <2>3. PoolSpot(c, e, i, oh, ow)
    BY <2>1, <2>2, PoolPlace
  <2> QED
    BY <2>1, <2>3 DEF PlanarSpot, PoolSpot, e
<1> QED
  BY <1>1, <1>2 DEF Planar, ConvLoops, PoolLoops

LEMMA PlanarLaunch ==
  ASSUME NEW c, NEW launch \in Planar
  PROVE  /\ Threads(launch) = Below(BlockAxis) \X Below(BlockAxis)
         /\ Grid(c, launch) = PlanarGrid(c)
         /\ \A g, t, m : Effects(c, launch, g, t, m) = PlanarKernel(c, launch, g, t)
<1>1. /\ launch \notin Memset /\ launch \notin Indexed /\ launch \notin Tiled
      /\ launch \notin {"linear_grad_bias", "softmax", "backward_softmax", "linear", "linear_grad_input",
                        "linear_grad_weights"}
  BY DEF Indexed, Memset, Planar, Tiled
<1> QED
  BY <1>1 DEF Threads, Grid, Effects

Spot(height, width, i, h, w) == (i * height + h) * width + w
LEMMA SpotsDiffer ==
  ASSUME NEW height \in Nat, NEW width \in Nat, NEW i \in Nat, NEW j \in Nat,
         NEW h \in Below(height), NEW k \in Below(height), NEW v \in Below(width), NEW w \in Below(width),
         i # j \/ h # k \/ v # w
  PROVE  Spot(height, width, i, h, v) # Spot(height, width, j, k, w)
<1>1. PICK p \in Nat, q \in Nat : p = i * height + h /\ q = j * height + k
  <2>1. i * height \in Nat /\ j * height \in Nat
    OBVIOUS
  <2> QED
    BY <2>1 DEF Below
<1>2. p # q \/ v # w
  BY <1>1, PairsDiffer
<1> QED
  BY <1>1, <1>2, PairsDiffer DEF Spot

LEMMA OutputsMeasured ==
  ASSUME NEW c, NEW launch \in Sound(c) \cap Planar
  PROVE  /\ Output(c, 1) \in Nat /\ Output(c, 2) \in Nat
         /\ c.t["result"].shape[1] * c.t["result"].shape[2] \in Nat
<1>1. launch \in ConvLoops \/ launch \in PoolLoops
  BY DEF Planar, ConvLoops, PoolLoops
<1>2. CASE launch \in ConvLoops
  BY <1>2 DEF Sound, Measured, ConvMeasured, ConvDims, Output
<1>3. CASE launch \in PoolLoops
  BY <1>3 DEF Sound, Measured, PoolMeasured, PoolDims, Output
<1> QED
  BY <1>1, <1>2, <1>3

LEMMA PlanarLaunchApart ==
  ASSUME NEW c, NEW launch \in Sound(c) \cap Planar,
         NEW g \in Grid(c, launch), NEW h \in Grid(c, launch), NEW t \in Threads(launch), NEW u \in Threads(launch),
         NEW m, NEW n, g # h \/ t # u
  PROVE  Unordered(Effects(c, launch, g, t, m), Effects(c, launch, h, u, n))
<1> DEFINE planes == c.t["result"].shape[1] * c.t["result"].shape[2]   channels == c.t["result"].shape[2]
           row(b, v) == b[2] * BlockAxis + v[2]   column(b, v) == b[1] * BlockAxis + v[1]
<1>1. /\ Output(c, 1) \in Nat /\ Output(c, 2) \in Nat /\ planes \in Nat
  BY OutputsMeasured
<1>2. BlockAxis \in Nat \ {0}
  BY BlocksAreNat
<1>3. /\ Below(DivideUp(Output(c, 2), BlockAxis)) \subseteq Nat
      /\ Below(DivideUp(Output(c, 1), BlockAxis)) \subseteq Nat
      /\ Below(planes) \subseteq Nat
  <2>1. DivideUp(Output(c, 2), BlockAxis) \in Nat /\ DivideUp(Output(c, 1), BlockAxis) \in Nat
    BY <1>1, <1>2, DividedUp
  <2> QED
    BY <1>1, <2>1 DEF Below
<1>4. \A b \in Grid(c, launch) :
        b[1] \in Nat /\ b[2] \in Nat /\ b[3] \in Nat /\ b[3] \in Below(planes) /\ b = <<b[1], b[2], b[3]>>
  <2>1. Grid(c, launch) = Below(DivideUp(Output(c, 2), BlockAxis)) \X Below(DivideUp(Output(c, 1), BlockAxis))
                          \X Below(planes)
    BY PlanarLaunch DEF PlanarGrid
  <2> HIDE DEF planes
  <2> QED
    BY <1>3, <2>1
<1>5. \A v \in Threads(launch) : v[1] \in Below(BlockAxis) /\ v[2] \in Below(BlockAxis) /\ v = <<v[1], v[2]>>
  BY PlanarLaunch
<1>6. \A b \in Grid(c, launch), v \in Threads(launch) : row(b, v) \in Nat /\ column(b, v) \in Nat
  <2> SUFFICES ASSUME NEW b \in Grid(c, launch), NEW v \in Threads(launch)
               PROVE  row(b, v) \in Nat /\ column(b, v) \in Nat
    OBVIOUS
  <2>1. PICK p \in Nat, q \in Nat : p = b[2] * BlockAxis /\ q = b[1] * BlockAxis
    BY <1>2, <1>4
  <2>2. v[1] \in Nat /\ v[2] \in Nat
    BY <1>2, <1>5 DEF Below
  <2> QED
    BY <2>1, <2>2
<1>7. \A b \in Grid(c, launch), v \in Threads(launch) : \A k : \A e \in Effects(c, launch, b, v, k) :
        /\ row(b, v) \in Below(Output(c, 1)) /\ column(b, v) \in Below(Output(c, 2))
        /\ PlanarSpot(c, e, b[3], row(b, v), column(b, v))
  <2> SUFFICES ASSUME NEW b \in Grid(c, launch), NEW v \in Threads(launch), NEW k,
                      NEW e \in Effects(c, launch, b, v, k)
               PROVE  /\ row(b, v) \in Below(Output(c, 1)) /\ column(b, v) \in Below(Output(c, 2))
                      /\ PlanarSpot(c, e, b[3], row(b, v), column(b, v))
    OBVIOUS
  <2>1. PICK oh \in Nat, ow \in Nat : oh = row(b, v) /\ ow = column(b, v)
    BY <1>6
  <2>2. e \in PlanarKernel(c, launch, b, v)
    BY PlanarLaunch
  <2>3. /\ ~(oh >= Output(c, 1)) /\ ~(ow >= Output(c, 2))
        /\ e = PlanarCell(c, launch, b[3] \div channels, b[3] % channels, oh, ow)
    <3>1. PICK deep : deep = channels
      OBVIOUS
    <3> QED
      BY <2>1, <2>2, <3>1, PlanarCells
  <2>4. oh \in Below(Output(c, 1)) /\ ow \in Below(Output(c, 2))
    BY <1>1, <2>3 DEF Below
  <2>5. b[3] \in Below(planes)
    BY <1>4
  <2>6. PlanarSpot(c, e, b[3], oh, ow)
    BY <2>3, <2>4, <2>5, PlanarCellPlace
  <2> QED
    BY <2>1, <2>4, <2>6
<1>8. g[3] # h[3] \/ row(g, t) # row(h, u) \/ column(g, t) # column(h, u)
  <2>1. g[1] # h[1] \/ g[2] # h[2] \/ g[3] # h[3] \/ t[1] # u[1] \/ t[2] # u[2]
    BY <1>4, <1>5
  <2>2. CASE g[1] # h[1] \/ t[1] # u[1]
    BY <1>2, <1>4, <1>5, <2>2, PairsDiffer
  <2>3. CASE g[2] # h[2] \/ t[2] # u[2]
    BY <1>2, <1>4, <1>5, <2>3, PairsDiffer
  <2> QED
    BY <2>1, <2>2, <2>3
<1>9. Apart(Effects(c, launch, g, t, m), Effects(c, launch, h, u, n))
  <2> SUFFICES ASSUME NEW e \in Effects(c, launch, g, t, m), NEW f \in Effects(c, launch, h, u, n)
               PROVE  e.to # f.to /\ e.to \notin Reads(f)
    BY DEF Apart
  <2>1. PICK p \in Below(Output(c, 1)), q \in Below(Output(c, 1)), v \in Below(Output(c, 2)), w \in Below(Output(c, 2)) :
          /\ p = row(g, t) /\ q = row(h, u) /\ v = column(g, t) /\ w = column(h, u)
          /\ PlanarSpot(c, e, g[3], p, v) /\ PlanarSpot(c, f, h[3], q, w)
    BY <1>7
  <2>2. PICK i \in Nat, j \in Nat : i = g[3] /\ j = h[3]
    BY <1>4
  <2>3. i # j \/ p # q \/ v # w
    BY <1>8, <2>1, <2>2
  <2>5. Spot(Output(c, 1), Output(c, 2), i, p, v) # Spot(Output(c, 1), Output(c, 2), j, q, w)
    BY <1>1, <2>3, SpotsDiffer
  <2>4. /\ e.to = <<"result", Spot(Output(c, 1), Output(c, 2), i, p, v)>>
        /\ f.to = <<"result", Spot(Output(c, 1), Output(c, 2), j, q, w)>>
        /\ \A x \in Reads(f) : x[1] # "result"
    BY <2>1, <2>2 DEF PlanarSpot, Spot
  <2> QED
    BY <2>4, <2>5
<1> QED
  BY <1>9, ApartIsUnordered

\* The cells of one block: shared memory and registers, and its share of a tensor.
TileNames == {"input_tile", "weight_tile", "grad_output_tile"}
BlockNames == TileNames \cup {"sum", "partial_sums", "shared", "maximum"}
AtHome(x, block) == x[1] \in BlockNames /\ x[2][1] = block
WithinBlock(effects, out, addresses, block) ==
  \A e \in effects :
    /\ AtHome(e.to, block) \/ (e.to[1] = out /\ e.to[2] \in addresses)
    /\ \A x \in Reads(e) : \/ AtHome(x, block) \/ (x[1] = out /\ x[2] \in addresses)
                           \/ x[1] \notin BlockNames \cup {out}

LEMMA BlocksApart ==
  ASSUME NEW E, NEW F, NEW out, out \notin BlockNames, NEW A, NEW B, A \cap B = {}, NEW g, NEW h, g # h,
         WithinBlock(E, out, A, g), WithinBlock(F, out, B, h)
  PROVE  Apart(E, F)
<1> SUFFICES ASSUME NEW e \in E, NEW f \in F PROVE e.to # f.to /\ e.to \notin Reads(f)
  BY DEF Apart
<1>1. \A x : (AtHome(x, h) \/ (x[1] = out /\ x[2] \in B) \/ x[1] \notin BlockNames \cup {out}) => x # e.to
  BY Zenon DEF WithinBlock, AtHome
<1> QED
  BY <1>1, Zenon DEF WithinBlock

-----------------------------------------------------------------------------
(* The tiled products. *)

LEMMA PlacesDiffer ==
  ASSUME NEW b \in Nat, NEW c \in Nat, NEW t \in Below(BlockAxis), NEW u \in Below(BlockAxis),
         NEW i \in Half, NEW j \in Half
  PROVE  /\ Place(b, t, i) \in Nat /\ InTile(t, i) \in Nat
         /\ b # c \/ t # u \/ i # j => Place(b, t, i) # Place(c, u, j)
         /\ t # u \/ i # j => InTile(t, i) # InTile(u, j)
<1>1. /\ BlockAxis \in Nat \ {0} /\ t \in Nat /\ u \in Nat /\ i \in {0, 1} /\ j \in {0, 1}
      /\ t < BlockAxis /\ u < BlockAxis
  BY BlocksAreNat DEF Below, Half
<1>2. PICK x \in Nat, y \in Nat : x = b * 2 + i /\ y = c * 2 + j
  BY <1>1
<1>3. (b * 2) * BlockAxis \in Nat /\ (c * 2) * BlockAxis \in Nat
  BY <1>1
<1>4. Place(b, t, i) = x * BlockAxis + t /\ Place(c, u, j) = y * BlockAxis + u
  <2>1. /\ (b * 2 + 0) * BlockAxis = (b * 2) * BlockAxis /\ (b * 2 + 1) * BlockAxis = (b * 2) * BlockAxis + BlockAxis
        /\ (c * 2 + 0) * BlockAxis = (c * 2) * BlockAxis /\ (c * 2 + 1) * BlockAxis = (c * 2) * BlockAxis + BlockAxis
        /\ 0 * BlockAxis = 0 /\ 1 * BlockAxis = BlockAxis
    BY <1>1
  <2>2. CASE i = 0 /\ j = 0
    BY <1>1, <1>2, <1>3, <2>1, <2>2 DEF Place
  <2>3. CASE i = 0 /\ j = 1
    BY <1>1, <1>2, <1>3, <2>1, <2>3 DEF Place
  <2>4. CASE i = 1 /\ j = 0
    BY <1>1, <1>2, <1>3, <2>1, <2>4 DEF Place
  <2>5. CASE i = 1 /\ j = 1
    BY <1>1, <1>2, <1>3, <2>1, <2>5 DEF Place
  <2> QED
    BY <1>1, <2>2, <2>3, <2>4, <2>5
<1>5. x # y <=> (b # c \/ i # j)
  BY <1>1, <1>2
<1>6. t # u \/ x # y => x * BlockAxis + t # y * BlockAxis + u
  BY <1>1, PairsDiffer
<1>7. t # u \/ i # j => i * BlockAxis + t # j * BlockAxis + u
  <2>1. i \in Nat /\ j \in Nat
    BY <1>1
  <2> QED
    BY <1>1, <2>1, PairsDiffer
<1>8. /\ x * BlockAxis \in Nat /\ i * BlockAxis \in Nat /\ j * BlockAxis \in Nat
  BY <1>1
<1>9. InTile(t, i) = i * BlockAxis + t /\ InTile(u, j) = j * BlockAxis + u
  BY <1>1, <1>8 DEF InTile
<1> QED
  BY <1>1, <1>4, <1>5, <1>6, <1>7, <1>8, <1>9

\* Where a thread loads, by kernel and tile.
TileSpot(launch, tile, thread, half) ==
  CASE launch = "linear" -> <<InTile(thread[2], half), thread[1]>>
    [] launch = "linear_grad_weights" -> <<thread[2], InTile(thread[1], half)>>
    [] launch = "linear_grad_input" ->
         IF tile = "weight_tile" THEN <<InTile(thread[1], half), thread[2]>>
         ELSE <<InTile(thread[2], half), thread[1]>>
TensorNames == {"input", "weights", "grad_output"}

Loaded(e, launch, block, thread) ==
  /\ \E tile \in TileNames, half \in Half :
       LET at == TileSpot(launch, tile, thread, half) IN e.to = Shared(tile, block, at[1], at[2])
  /\ \A x \in Reads(e) : x[1] \in TensorNames
Multiplied(e, block, thread) ==
  /\ \E i, j \in Half : e.to = Register(block, thread, i, j)
  /\ \A x \in Reads(e) : x = e.to \/ (x[1] \in TileNames /\ x[2][1] = block)
Stored(e, out, width, block, thread) ==
  /\ \E i, j \in Half :
       /\ Place(block[1], thread[1], j) < width
       /\ e.to = <<out, Place(block[2], thread[2], i) * width + Place(block[1], thread[1], j)>>
  /\ \A x \in Reads(e) : (x[1] = "sum" /\ x[2][1] = block) \/ x[1] = "bias"
TiledEffect(e, launch, tiles, out, width, block, thread, at) ==
  IF at = 2 * tiles THEN Stored(e, out, width, block, thread)
  ELSE IF at % 2 = 0 THEN Loaded(e, launch, block, thread)
  ELSE Multiplied(e, block, thread)

LEMMA LoadIsLoaded ==
  ASSUME NEW launch, NEW tile \in TileNames, NEW half \in Half, NEW block, NEW thread, NEW row, NEW col,
         TileSpot(launch, tile, thread, half) = <<row, col>>, NEW inside, NEW cell, cell[1] \in TensorNames
  PROVE  Loaded(Load(tile, block, row, col, inside, cell), launch, block, thread)
<1> DEFINE terms == IF inside THEN {<<cell>>} ELSE {}   to == Shared(tile, block, row, col)
<1>1. Load(tile, block, row, col, inside, cell) = Effect(to, terms)
  BY DEF Load
<1>2. terms \subseteq {<<cell>>}
  OBVIOUS
<1> HIDE DEF terms, to
<1>3. Effect(to, terms).to = to
      /\ Reads(Effect(to, terms)) = UNION {{term[k] : k \in DOMAIN term} : term \in terms}
  BY ReadsOfEffect
<1>4. \A x \in Reads(Effect(to, terms)) : x = cell
  BY <1>2, <1>3
<1>5. \E t \in TileNames, h \in Half :
        LET at == TileSpot(launch, t, thread, h) IN to = Shared(t, block, at[1], at[2])
  BY DEF to
<1> QED
  BY <1>1, <1>3, <1>4, <1>5 DEF Loaded

LEMMA AddIsMultiplied ==
  ASSUME NEW block, NEW thread, NEW i \in Half, NEW j \in Half, NEW terms,
         \A term \in terms : \E s, t \in TileNames : \E p, q, v, w :
           term = <<Shared(s, block, p, q), Shared(t, block, v, w)>>
  PROVE  Multiplied(Add(Register(block, thread, i, j), terms), block, thread)
<1> DEFINE to == Register(block, thread, i, j)   e == Add(to, terms)
<1>1. e.to = to /\ Reads(e) = (UNION {{term[k] : k \in DOMAIN term} : term \in terms}) \cup {to}
  BY DEF Add, Reads
<1> HIDE DEF e
<1>2. ASSUME NEW term \in terms, NEW k \in DOMAIN term PROVE term[k][1] \in TileNames /\ term[k][2][1] = block
  <2>1. PICK s, t, p, q, v, w :
          s \in TileNames /\ t \in TileNames /\ term = <<Shared(s, block, p, q), Shared(t, block, v, w)>>
    OBVIOUS
  <2>2. term[k] = Shared(s, block, p, q) \/ term[k] = Shared(t, block, v, w)
    BY <2>1
  <2> QED
    BY <2>2 DEF Shared
<1>3. \A x \in Reads(e) : x = to \/ (x[1] \in TileNames /\ x[2][1] = block)
  BY <1>1, <1>2
<1> QED
  BY <1>1, <1>3 DEF Multiplied, e

LEMMA StoreIsStored ==
  ASSUME NEW block, NEW thread, NEW i \in Half, NEW j \in Half, NEW inside, NEW out, NEW width, NEW address, NEW more,
         inside => /\ Place(block[1], thread[1], j) < width
                   /\ address = Place(block[2], thread[2], i) * width + Place(block[1], thread[1], j),
         \A term \in more : \E x : term = << <<"bias", x>> >>,
         NEW e \in Store(block, thread, i, j, inside, <<out, address>>, more)
  PROVE  Stored(e, out, width, block, thread)
<1> DEFINE sum == Register(block, thread, i, j)   terms == {<<sum>>} \cup more   to == <<out, address>>
<1>1. inside /\ e = Effect(to, terms)
  BY DEF Store
<1>2. \A term \in terms : \A k \in DOMAIN term : term[k] = sum \/ term[k][1] = "bias"
  <2> SUFFICES ASSUME NEW term \in more, NEW k \in DOMAIN term PROVE term[k][1] = "bias"
    OBVIOUS
  <2>1. PICK x : term = << <<"bias", x>> >>
    OBVIOUS
  <2> QED
    BY <2>1
<1> HIDE DEF terms, to
<1>3. e.to = to /\ Reads(e) = UNION {{term[k] : k \in DOMAIN term} : term \in terms}
  BY <1>1, ReadsOfEffect
<1>4. \A x \in Reads(e) : x = sum \/ x[1] = "bias"
  BY <1>2, <1>3
<1>5. sum[1] = "sum" /\ sum[2][1] = block
  BY DEF Register
<1>6. \E p, q \in Half : /\ Place(block[1], thread[1], q) < width
                         /\ to = <<out, Place(block[2], thread[2], p) * width + Place(block[1], thread[1], q)>>
  BY <1>1 DEF to
<1> QED
  BY <1>3, <1>4, <1>5, <1>6 DEF Stored

LEMMA LinearTiles ==
  ASSUME NEW c, NEW block, NEW thread, NEW at, NEW e \in linear_cuda_float32_kernel(c, block, thread, at)
  PROVE  TiledEffect(e, "linear", Tiles(c, "linear"), "result", LinearDims(c).output_features, block, thread, at)
<1> DEFINE d == LinearDims(c)   tx == thread[1]   ty == thread[2]
           feature == (at \div 2) * BlockAxis + tx
<1>1. CASE at = 2 * Tiles(c, "linear")
  <2> DEFINE n(i) == Place(block[2], ty, i)   out(j) == Place(block[1], tx, j)
             more(j) == IF "bias" \in DOMAIN c.t THEN {<< <<"bias", out(j)>> >>} ELSE {}
  <2>0. linear_cuda_float32_kernel(c, block, thread, at) =
          UNION {Store(block, thread, i, j, n(i) < d.batch_size /\ out(j) < d.output_features,
                      <<"result", n(i) * d.output_features + out(j)>>, more(j)) : i, j \in Half}
    BY <1>1 DEF linear_cuda_float32_kernel
  <2>1. PICK i \in Half, j \in Half :
          e \in Store(block, thread, i, j, n(i) < d.batch_size /\ out(j) < d.output_features,
                      <<"result", n(i) * d.output_features + out(j)>>, more(j))
    <3> HIDE DEF n, out, more
    <3> QED
      BY <2>0
  <2>2. \A term \in more(j) : \E x : term = << <<"bias", x>> >>
    OBVIOUS
  <2>3. Stored(e, "result", d.output_features, block, thread)
    <3> DEFINE inside == n(i) < d.batch_size /\ out(j) < d.output_features
               address == n(i) * d.output_features + out(j)   added == more(j)   width == d.output_features
    <3>1. inside => /\ Place(block[1], thread[1], j) < width
                    /\ address = Place(block[2], thread[2], i) * width + Place(block[1], thread[1], j)
      OBVIOUS
    <3>2. e \in Store(block, thread, i, j, inside, <<"result", address>>, added)
      BY <2>1
    <3>3. \A term \in added : \E x : term = << <<"bias", x>> >>
      BY <2>2
    <3> HIDE DEF inside, address, added, width
    <3>4. Stored(e, "result", width, block, thread)
      BY <3>1, <3>2, <3>3, StoreIsStored
    <3> QED
      BY <3>4 DEF width
  <2> QED
    BY <1>1, <2>3 DEF TiledEffect
<1>2. CASE at # 2 * Tiles(c, "linear") /\ at % 2 = 0
  <2>1. PICK i \in Half :
          \/ e = Load("input_tile", block, InTile(ty, i), tx,
                      Place(block[2], ty, i) < d.batch_size /\ feature < d.input_features,
                      InputAt(d, Place(block[2], ty, i), feature))
          \/ e = Load("weight_tile", block, InTile(ty, i), tx,
                      Place(block[1], ty, i) < d.output_features /\ feature < d.input_features,
                      WeightAt(d, Place(block[1], ty, i), feature))
    BY <1>2 DEF linear_cuda_float32_kernel, Multiply
  <2>2. PICK tile, inside, cell :
          tile \in TileNames /\ e = Load(tile, block, InTile(ty, i), tx, inside, cell) /\ cell[1] \in TensorNames
    BY <2>1 DEF TileNames, InputAt, WeightAt, TensorNames
  <2>3. TileSpot("linear", tile, thread, i) = <<InTile(ty, i), tx>>
    BY DEF TileSpot
  <2>4. Loaded(e, "linear", block, thread)
    BY <2>2, <2>3, LoadIsLoaded
  <2> QED
    BY <1>2, <2>4 DEF TiledEffect
<1>3. CASE at # 2 * Tiles(c, "linear") /\ at % 2 # 0
  <2>0. linear_cuda_float32_kernel(c, block, thread, at) =
          {Add(Register(block, thread, i, j),
                  {<<Shared("input_tile", block, InTile(ty, i), k), Shared("weight_tile", block, InTile(tx, j), k)>>
                     : k \in Below(BlockAxis)}) : i, j \in Half}
    BY <1>3 DEF linear_cuda_float32_kernel, Multiply
  <2>1. PICK i \in Half, j \in Half :
          e = Add(Register(block, thread, i, j),
                  {<<Shared("input_tile", block, InTile(ty, i), k), Shared("weight_tile", block, InTile(tx, j), k)>>
                     : k \in Below(BlockAxis)})
    BY <2>0
  <2>2. Multiplied(e, block, thread)
    BY <2>1, AddIsMultiplied DEF TileNames
  <2> QED
    BY <1>3, <2>2 DEF TiledEffect
<1> QED
  BY <1>1, <1>2, <1>3

LEMMA GradWeightsTiles ==
  ASSUME NEW c, NEW block, NEW thread, NEW at,
         NEW e \in backward_linear_grad_weights_cuda_float32_kernel(c, block, thread, at)
  PROVE  TiledEffect(e, "linear_grad_weights", Tiles(c, "linear_grad_weights"), "grad_weights",
                     LinearDims(c).input_features, block, thread, at)
<1> DEFINE d == LinearDims(c)   tx == thread[1]   ty == thread[2]
           n == (at \div 2) * BlockAxis + ty
<1>1. CASE at = 2 * Tiles(c, "linear_grad_weights")
  <2> DEFINE out(i) == Place(block[2], ty, i)   in(j) == Place(block[1], tx, j)
  <2>0. backward_linear_grad_weights_cuda_float32_kernel(c, block, thread, at) =
          UNION {Store(block, thread, i, j, out(i) < d.output_features /\ in(j) < d.input_features,
                      <<"grad_weights", out(i) * d.input_features + in(j)>>, {}) : i, j \in Half}
    BY <1>1 DEF backward_linear_grad_weights_cuda_float32_kernel
  <2>1. PICK i \in Half, j \in Half :
          e \in Store(block, thread, i, j, out(i) < d.output_features /\ in(j) < d.input_features,
                      <<"grad_weights", out(i) * d.input_features + in(j)>>, {})
    BY <2>0
  <2>3. Stored(e, "grad_weights", d.input_features, block, thread)
    <3> DEFINE inside == out(i) < d.output_features /\ in(j) < d.input_features
               address == out(i) * d.input_features + in(j)   width == d.input_features
    <3>1. inside => /\ Place(block[1], thread[1], j) < width
                    /\ address = Place(block[2], thread[2], i) * width + Place(block[1], thread[1], j)
      OBVIOUS
    <3>2. e \in Store(block, thread, i, j, inside, <<"grad_weights", address>>, {})
      BY <2>1
    <3> HIDE DEF inside, address, width
    <3>4. Stored(e, "grad_weights", width, block, thread)
      BY <3>1, <3>2, StoreIsStored
    <3> QED
      BY <3>4 DEF width
  <2> QED
    BY <1>1, <2>3 DEF TiledEffect
<1>2. CASE at # 2 * Tiles(c, "linear_grad_weights") /\ at % 2 = 0
  <2>1. PICK i \in Half :
          \/ e = Load("grad_output_tile", block, ty, InTile(tx, i),
                      n < d.batch_size /\ Place(block[2], tx, i) < d.output_features,
                      GradAt(d, n, Place(block[2], tx, i)))
          \/ e = Load("input_tile", block, ty, InTile(tx, i),
                      n < d.batch_size /\ Place(block[1], tx, i) < d.input_features,
                      InputAt(d, n, Place(block[1], tx, i)))
    BY <1>2 DEF backward_linear_grad_weights_cuda_float32_kernel, Multiply
  <2>2. PICK tile, inside, cell :
          tile \in TileNames /\ e = Load(tile, block, ty, InTile(tx, i), inside, cell) /\ cell[1] \in TensorNames
    BY <2>1 DEF TileNames, InputAt, GradAt, TensorNames
  <2>3. TileSpot("linear_grad_weights", tile, thread, i) = <<ty, InTile(tx, i)>>
    BY DEF TileSpot
  <2>4. Loaded(e, "linear_grad_weights", block, thread)
    BY <2>2, <2>3, LoadIsLoaded
  <2> QED
    BY <1>2, <2>4 DEF TiledEffect
<1>3. CASE at # 2 * Tiles(c, "linear_grad_weights") /\ at % 2 # 0
  <2>0. backward_linear_grad_weights_cuda_float32_kernel(c, block, thread, at) =
          {Add(Register(block, thread, i, j),
                  {<<Shared("grad_output_tile", block, k, InTile(ty, i)), Shared("input_tile", block, k, InTile(tx, j))>>
                     : k \in Below(BlockAxis)}) : i, j \in Half}
    BY <1>3 DEF backward_linear_grad_weights_cuda_float32_kernel, Multiply
  <2>1. PICK i \in Half, j \in Half :
          e = Add(Register(block, thread, i, j),
                  {<<Shared("grad_output_tile", block, k, InTile(ty, i)), Shared("input_tile", block, k, InTile(tx, j))>>
                     : k \in Below(BlockAxis)})
    BY <2>0
  <2>2. Multiplied(e, block, thread)
    BY <2>1, AddIsMultiplied DEF TileNames
  <2> QED
    BY <1>3, <2>2 DEF TiledEffect
<1> QED
  BY <1>1, <1>2, <1>3

LEMMA GradInputTiles ==
  ASSUME NEW c, NEW block, NEW thread, NEW at,
         NEW e \in backward_linear_grad_input_cuda_float32_kernel(c, block, thread, at)
  PROVE  TiledEffect(e, "linear_grad_input", Tiles(c, "linear_grad_input"), "grad_input",
                     LinearDims(c).input_features, block, thread, at)
<1> DEFINE d == LinearDims(c)   tx == thread[1]   ty == thread[2]
           base == (at \div 2) * BlockAxis
<1>1. CASE at = 2 * Tiles(c, "linear_grad_input")
  <2> DEFINE n(i) == Place(block[2], ty, i)   in(j) == Place(block[1], tx, j)
  <2>0. backward_linear_grad_input_cuda_float32_kernel(c, block, thread, at) =
          UNION {Store(block, thread, i, j, n(i) < d.batch_size /\ in(j) < d.input_features,
                      <<"grad_input", n(i) * d.input_features + in(j)>>, {}) : i, j \in Half}
    BY <1>1 DEF backward_linear_grad_input_cuda_float32_kernel
  <2>1. PICK i \in Half, j \in Half :
          e \in Store(block, thread, i, j, n(i) < d.batch_size /\ in(j) < d.input_features,
                      <<"grad_input", n(i) * d.input_features + in(j)>>, {})
    BY <2>0
  <2>3. Stored(e, "grad_input", d.input_features, block, thread)
    <3> DEFINE inside == n(i) < d.batch_size /\ in(j) < d.input_features
               address == n(i) * d.input_features + in(j)   width == d.input_features
    <3>1. inside => /\ Place(block[1], thread[1], j) < width
                    /\ address = Place(block[2], thread[2], i) * width + Place(block[1], thread[1], j)
      OBVIOUS
    <3>2. e \in Store(block, thread, i, j, inside, <<"grad_input", address>>, {})
      BY <2>1
    <3> HIDE DEF inside, address, width
    <3>4. Stored(e, "grad_input", width, block, thread)
      BY <3>1, <3>2, StoreIsStored
    <3> QED
      BY <3>4 DEF width
  <2> QED
    BY <1>1, <2>3 DEF TiledEffect
<1>2. CASE at # 2 * Tiles(c, "linear_grad_input") /\ at % 2 = 0
  <2>1. PICK i \in Half :
          \/ e = Load("grad_output_tile", block, InTile(ty, i), tx,
                      Place(block[2], ty, i) < d.batch_size /\ base + tx < d.output_features,
                      GradAt(d, Place(block[2], ty, i), base + tx))
          \/ e = Load("weight_tile", block, InTile(tx, i), ty,
                      base + ty < d.output_features /\ Place(block[1], tx, i) < d.input_features,
                      WeightAt(d, base + ty, Place(block[1], tx, i)))
    BY <1>2 DEF backward_linear_grad_input_cuda_float32_kernel, Multiply
  <2>2. PICK inside, cell :
          /\ \/ e = Load("grad_output_tile", block, InTile(ty, i), tx, inside, cell)
             \/ e = Load("weight_tile", block, InTile(tx, i), ty, inside, cell)
          /\ cell[1] \in TensorNames
    BY <2>1 DEF WeightAt, GradAt, TensorNames
  <2>3. /\ TileSpot("linear_grad_input", "grad_output_tile", thread, i) = <<InTile(ty, i), tx>>
        /\ TileSpot("linear_grad_input", "weight_tile", thread, i) = <<InTile(tx, i), ty>>
        /\ "grad_output_tile" \in TileNames /\ "weight_tile" \in TileNames
    BY DEF TileSpot, TileNames
  <2>4. Loaded(e, "linear_grad_input", block, thread)
    BY <2>2, <2>3, LoadIsLoaded
  <2> QED
    BY <1>2, <2>4 DEF TiledEffect
<1>3. CASE at # 2 * Tiles(c, "linear_grad_input") /\ at % 2 # 0
  <2>0. backward_linear_grad_input_cuda_float32_kernel(c, block, thread, at) =
          {Add(Register(block, thread, i, j),
                  {<<Shared("grad_output_tile", block, InTile(ty, i), k), Shared("weight_tile", block, InTile(tx, j), k)>>
                     : k \in Below(BlockAxis)}) : i, j \in Half}
    BY <1>3 DEF backward_linear_grad_input_cuda_float32_kernel, Multiply
  <2>1. PICK i \in Half, j \in Half :
          e = Add(Register(block, thread, i, j),
                  {<<Shared("grad_output_tile", block, InTile(ty, i), k), Shared("weight_tile", block, InTile(tx, j), k)>>
                     : k \in Below(BlockAxis)})
    BY <2>0
  <2>2. Multiplied(e, block, thread)
    BY <2>1, AddIsMultiplied DEF TileNames
  <2> QED
    BY <1>3, <2>2 DEF TiledEffect
<1> QED
  BY <1>1, <1>2, <1>3

TileOut(launch) ==
  CASE launch = "linear" -> "result"
    [] launch = "linear_grad_input" -> "grad_input"
    [] launch = "linear_grad_weights" -> "grad_weights"
TileWidth(c, launch) ==
  IF launch = "linear" THEN LinearDims(c).output_features ELSE LinearDims(c).input_features

LEMMA TiledLaunch ==
  ASSUME NEW c, NEW launch \in Tiled
  PROVE  /\ Threads(launch) = Below(BlockAxis) \X Below(BlockAxis)
         /\ Grid(c, launch) = TiledGrid(c, launch)
         /\ \A g, t, m : \A e \in Effects(c, launch, g, t, m) :
              TiledEffect(e, launch, Tiles(c, launch), TileOut(launch), TileWidth(c, launch), g, t, m)
<1>1. /\ launch \notin Memset /\ launch \notin Indexed /\ launch \notin Planar
      /\ launch \in {"linear", "linear_grad_input", "linear_grad_weights"}
  BY DEF Indexed, Memset, Planar, Tiled
<1>2. Threads(launch) = Below(BlockAxis) \X Below(BlockAxis) /\ Grid(c, launch) = TiledGrid(c, launch)
  BY <1>1 DEF Threads, Grid
<1>3. ASSUME NEW g, NEW t, NEW m, NEW e \in Effects(c, launch, g, t, m)
      PROVE  TiledEffect(e, launch, Tiles(c, launch), TileOut(launch), TileWidth(c, launch), g, t, m)
  <2>1. CASE launch = "linear"
    <3>1. e \in linear_cuda_float32_kernel(c, g, t, m)
      BY <1>1, <1>3, <2>1 DEF Effects
    <3>2. TileOut("linear") = "result" /\ TileWidth(c, "linear") = LinearDims(c).output_features
      BY DEF TileOut, TileWidth
    <3> QED
      BY <2>1, <3>1, <3>2, LinearTiles
  <2>2. CASE launch = "linear_grad_input"
    <3>1. e \in backward_linear_grad_input_cuda_float32_kernel(c, g, t, m)
      BY <1>1, <1>3, <2>2 DEF Effects
    <3>2. /\ TileOut("linear_grad_input") = "grad_input"
          /\ TileWidth(c, "linear_grad_input") = LinearDims(c).input_features
      BY DEF TileOut, TileWidth
    <3> QED
      BY <2>2, <3>1, <3>2, GradInputTiles
  <2>3. CASE launch = "linear_grad_weights"
    <3>1. e \in backward_linear_grad_weights_cuda_float32_kernel(c, g, t, m)
      BY <1>1, <1>3, <2>3 DEF Effects
    <3>2. /\ TileOut("linear_grad_weights") = "grad_weights"
          /\ TileWidth(c, "linear_grad_weights") = LinearDims(c).input_features
      BY DEF TileOut, TileWidth
    <3> QED
      BY <2>3, <3>1, <3>2, GradWeightsTiles
  <2> QED
    BY <1>1, <2>1, <2>2, <2>3
<1> QED
  BY <1>2, <1>3

LEMMA TiledMeasured ==
  ASSUME NEW c, NEW launch \in Sound(c) \cap Tiled
  PROVE  /\ TileWidth(c, launch) \in Nat
         /\ \A b \in TiledGrid(c, launch) : b[1] \in Nat /\ b[2] \in Nat /\ b = <<b[1], b[2]>>
<1> DEFINE d == LinearDims(c)   size == 2 * BlockAxis
           columns == IF launch = "linear" THEN d.output_features ELSE d.input_features
           rows == IF launch = "linear_grad_weights" THEN d.output_features ELSE d.batch_size
<1>1. d.output_features \in Nat /\ d.input_features \in Nat /\ d.batch_size \in Nat
  BY DEF Sound, Measured, LinearMeasured
<1>2. size \in Nat \ {0}
  BY BlocksAreNat
<1>3. columns \in Nat /\ rows \in Nat
  BY <1>1
<1>4. TiledGrid(c, launch) = Below(DivideUp(columns, size)) \X Below(DivideUp(rows, size))
  BY Zenon DEF TiledGrid
<1> HIDE DEF columns, rows, size
<1>5. DivideUp(columns, size) \in Nat /\ DivideUp(rows, size) \in Nat
  BY <1>2, <1>3, DividedUp
<1>6. Below(DivideUp(columns, size)) \subseteq Nat /\ Below(DivideUp(rows, size)) \subseteq Nat
  BY <1>5 DEF Below
<1> QED
  BY <1>1, <1>4, <1>6 DEF TileWidth

\* The elements of the square a block computes.
Element(width, row, column) == row * width + column
TileAddresses(width, block) ==
  {Element(width, Place(block[2], p[1], p[2]), Place(block[1], p[3], p[4])) :
     p \in {q \in Below(BlockAxis) \X Half \X Below(BlockAxis) \X Half : Place(block[1], q[3], q[4]) < width}}

LEMMA ElementsDiffer ==
  ASSUME NEW width \in Nat, NEW p \in Nat, NEW q \in Nat, NEW x \in Nat, NEW y \in Nat,
         x < width, y < width, p # q \/ x # y
  PROVE  Element(width, p, x) # Element(width, q, y)
<1>1. x \in Below(width) /\ y \in Below(width)
  BY DEF Below
<1>2. p * width + x # q * width + y
  BY <1>1, PairsDiffer
<1> QED
  BY <1>2 DEF Element

LEMMA SquaresApart ==
  ASSUME NEW width \in Nat, NEW g, NEW h, g[1] \in Nat, g[2] \in Nat, h[1] \in Nat, h[2] \in Nat,
         g[1] # h[1] \/ g[2] # h[2]
  PROVE  TileAddresses(width, g) \cap TileAddresses(width, h) = {}
<1> SUFFICES ASSUME NEW a \in TileAddresses(width, g), a \in TileAddresses(width, h) PROVE FALSE
  OBVIOUS
<1>1. PICK t \in Below(BlockAxis), i \in Half, v \in Below(BlockAxis), k \in Half :
        /\ Place(g[1], v, k) < width /\ a = Element(width, Place(g[2], t, i), Place(g[1], v, k))
  BY DEF TileAddresses
<1>2. PICK u \in Below(BlockAxis), j \in Half, w \in Below(BlockAxis), l \in Half :
        /\ Place(h[1], w, l) < width /\ a = Element(width, Place(h[2], u, j), Place(h[1], w, l))
  BY DEF TileAddresses
<1>3. PICK b \in Nat, c \in Nat, d \in Nat, e \in Nat : b = g[2] /\ c = h[2] /\ d = g[1] /\ e = h[1]
  OBVIOUS
<1>4. PICK p \in Nat, q \in Nat, x \in Nat, y \in Nat :
        /\ p = Place(b, t, i) /\ q = Place(c, u, j) /\ x = Place(d, v, k) /\ y = Place(e, w, l)
  BY PlacesDiffer
<1>5. p # q \/ x # y
  <2>1. b # c => Place(b, t, i) # Place(c, u, j)
    BY PlacesDiffer
  <2>2. d # e => Place(d, v, k) # Place(e, w, l)
    BY PlacesDiffer
  <2> QED
    BY <1>3, <1>4, <2>1, <2>2
<1>6. x < width /\ y < width /\ a = Element(width, p, x) /\ a = Element(width, q, y)
  BY <1>1, <1>2, <1>3, <1>4
<1> QED
  BY <1>5, <1>6, ElementsDiffer

LEMMA TileWithinBlock ==
  ASSUME NEW c, NEW launch \in Tiled, NEW g, NEW t, t[1] \in Below(BlockAxis), t[2] \in Below(BlockAxis), NEW m
  PROVE  WithinBlock(Effects(c, launch, g, t, m), TileOut(launch), TileAddresses(TileWidth(c, launch), g), g)
<1> DEFINE out == TileOut(launch)   width == TileWidth(c, launch)
<1>0. out \in {"result", "grad_input", "grad_weights"}
  BY DEF TileOut, Tiled
<1> SUFFICES ASSUME NEW e \in Effects(c, launch, g, t, m)
             PROVE  /\ AtHome(e.to, g) \/ (e.to[1] = out /\ e.to[2] \in TileAddresses(width, g))
                    /\ \A x \in Reads(e) : AtHome(x, g) \/ x[1] \notin BlockNames \cup {out}
  BY DEF WithinBlock
<1>1. Stored(e, out, width, g, t) \/ Loaded(e, launch, g, t) \/ Multiplied(e, g, t)
  BY TiledLaunch DEF TiledEffect
<1> HIDE DEF out, width
<1>2. CASE Stored(e, out, width, g, t)
  <2>1. PICK i \in Half, j \in Half :
          Place(g[1], t[1], j) < width /\ e.to = <<out, Element(width, Place(g[2], t[2], i), Place(g[1], t[1], j))>>
    BY <1>2 DEF Stored, Element
  <2>2. Element(width, Place(g[2], t[2], i), Place(g[1], t[1], j)) \in TileAddresses(width, g)
    <3> DEFINE p == <<t[2], i, t[1], j>>
    <3>1. p \in {q \in Below(BlockAxis) \X Half \X Below(BlockAxis) \X Half : Place(g[1], q[3], q[4]) < width}
      BY <2>1
    <3>2. p[1] = t[2] /\ p[2] = i /\ p[3] = t[1] /\ p[4] = j
      OBVIOUS
    <3> HIDE DEF p
    <3> QED
      BY <3>1, <3>2 DEF TileAddresses
  <2>3. \A x \in Reads(e) : AtHome(x, g) \/ x[1] \notin BlockNames \cup {out}
    BY <1>0, <1>2 DEF Stored, AtHome, BlockNames, TileNames
  <2> QED
    BY <2>1, <2>2, <2>3
<1>3. CASE Loaded(e, launch, g, t)
  <2>1. AtHome(e.to, g)
    BY <1>3 DEF Loaded, Shared, AtHome, BlockNames
  <2>2. \A x \in Reads(e) : x[1] \notin BlockNames \cup {out}
    BY <1>0, <1>3 DEF Loaded, TensorNames, BlockNames, TileNames
  <2> QED
    BY <2>1, <2>2
<1>4. CASE Multiplied(e, g, t)
  <2>1. AtHome(e.to, g)
    BY <1>4 DEF Multiplied, Register, AtHome, BlockNames
  <2>2. \A x \in Reads(e) : AtHome(x, g)
    BY <1>4, <2>1 DEF Multiplied, AtHome, BlockNames
  <2> QED
    BY <2>1, <2>2
<1> QED
  BY <1>1, <1>2, <1>3, <1>4

LEMMA SpotsOfTiles ==
  ASSUME NEW launch \in Tiled, NEW tile, NEW t \in Below(BlockAxis) \X Below(BlockAxis),
         NEW u \in Below(BlockAxis) \X Below(BlockAxis), t # u, NEW i \in Half, NEW j \in Half
  PROVE  TileSpot(launch, tile, t, i) # TileSpot(launch, tile, u, j)
<1>1. t[1] \in Below(BlockAxis) /\ t[2] \in Below(BlockAxis) /\ u[1] \in Below(BlockAxis) /\ u[2] \in Below(BlockAxis)
      /\ (t[1] # u[1] \/ t[2] # u[2])
  OBVIOUS
<1>2. /\ t[1] # u[1] => InTile(t[1], i) # InTile(u[1], j)
      /\ t[2] # u[2] => InTile(t[2], i) # InTile(u[2], j)
  <2>1. 0 \in Nat
    OBVIOUS
  <2> QED
    BY <1>1, <2>1, PlacesDiffer
<1>3. launch \in {"linear", "linear_grad_input", "linear_grad_weights"}
  BY DEF Tiled
<1> QED
  BY <1>1, <1>2, <1>3 DEF TileSpot

LEMMA SpotIsPair ==
  ASSUME NEW launch \in Tiled, NEW tile, NEW t, NEW i
  PROVE  \E p, q : TileSpot(launch, tile, t, i) = <<p, q>>
BY DEF TileSpot, Tiled

LEMMA TileThreadsApart ==
  ASSUME NEW c, NEW launch \in Sound(c) \cap Tiled, NEW g \in Grid(c, launch), NEW m,
         NEW t \in Threads(launch), NEW u \in Threads(launch), t # u
  PROVE  Apart(Effects(c, launch, g, t, m), Effects(c, launch, g, u, m))
<1> DEFINE out == TileOut(launch)   width == TileWidth(c, launch)
<1>0. out \in {"result", "grad_input", "grad_weights"}
  BY DEF TileOut, Tiled
<1> SUFFICES ASSUME NEW e \in Effects(c, launch, g, t, m), NEW f \in Effects(c, launch, g, u, m)
             PROVE  e.to # f.to /\ e.to \notin Reads(f)
  BY DEF Apart
<1>1. \/ Stored(e, out, width, g, t) /\ Stored(f, out, width, g, u)
      \/ Loaded(e, launch, g, t) /\ Loaded(f, launch, g, u)
      \/ Multiplied(e, g, t) /\ Multiplied(f, g, u)
  BY TiledLaunch DEF TiledEffect
<1>2. /\ width \in Nat /\ g[1] \in Nat /\ g[2] \in Nat
      /\ t[1] \in Below(BlockAxis) /\ t[2] \in Below(BlockAxis) /\ u[1] \in Below(BlockAxis) /\ u[2] \in Below(BlockAxis)
      /\ (t[1] # u[1] \/ t[2] # u[2])
      /\ t \in Below(BlockAxis) \X Below(BlockAxis) /\ u \in Below(BlockAxis) \X Below(BlockAxis)
  BY TiledLaunch, TiledMeasured
<1> HIDE DEF out, width
<1>3. CASE Stored(e, out, width, g, t) /\ Stored(f, out, width, g, u)
  <2>1. PICK i \in Half, j \in Half :
          Place(g[1], t[1], j) < width /\ e.to = <<out, Element(width, Place(g[2], t[2], i), Place(g[1], t[1], j))>>
    BY <1>3 DEF Stored, Element
  <2>2. PICK k \in Half, l \in Half :
          Place(g[1], u[1], l) < width /\ f.to = <<out, Element(width, Place(g[2], u[2], k), Place(g[1], u[1], l))>>
    BY <1>3 DEF Stored, Element
  <2>3. Element(width, Place(g[2], t[2], i), Place(g[1], t[1], j)) # Element(width, Place(g[2], u[2], k), Place(g[1], u[1], l))
    <3>1. PICK a \in Nat, b \in Nat, v \in Below(BlockAxis), w \in Below(BlockAxis), r \in Below(BlockAxis), z \in Below(BlockAxis) :
            a = g[1] /\ b = g[2] /\ v = t[1] /\ w = t[2] /\ r = u[1] /\ z = u[2]
      BY <1>2
    <3>2. PICK p \in Nat, q \in Nat, x \in Nat, y \in Nat :
            /\ p = Place(b, w, i) /\ q = Place(b, z, k) /\ x = Place(a, v, j) /\ y = Place(a, r, l)
      BY PlacesDiffer
    <3>3. p # q \/ x # y
      <4>1. w # z => Place(b, w, i) # Place(b, z, k)
        BY PlacesDiffer
      <4>2. v # r => Place(a, v, j) # Place(a, r, l)
        BY PlacesDiffer
      <4> QED
        BY <1>2, <3>1, <3>2, <4>1, <4>2
    <3>4. x < width /\ y < width
      BY <2>1, <2>2, <3>1, <3>2
    <3>5. Element(width, p, x) # Element(width, q, y)
      BY <1>2, <3>3, <3>4, ElementsDiffer
    <3> QED
      BY <3>1, <3>2, <3>5
  <2>4. \A x \in Reads(f) : x[1] # out
    BY <1>0, <1>3 DEF Stored
  <2> QED
    BY <2>1, <2>2, <2>3, <2>4
<1>4. CASE Loaded(e, launch, g, t) /\ Loaded(f, launch, g, u)
  <2>1. PICK tile, i, p, q :
          tile \in TileNames /\ i \in Half /\ TileSpot(launch, tile, t, i) = <<p, q>> /\ e.to = Shared(tile, g, p, q)
    BY <1>4, SpotIsPair DEF Loaded
  <2>2. PICK other, j, v, w :
          other \in TileNames /\ j \in Half /\ TileSpot(launch, other, u, j) = <<v, w>> /\ f.to = Shared(other, g, v, w)
    BY <1>4, SpotIsPair DEF Loaded
  <2>3. tile = other => <<p, q>> # <<v, w>>
    BY <1>2, <2>1, <2>2, SpotsOfTiles
  <2>4. \A x \in Reads(f) : x[1] # tile
    BY <1>4, <2>1 DEF Loaded, TensorNames, TileNames
  <2> QED
    BY <2>1, <2>2, <2>3, <2>4 DEF Shared
<1>5. CASE Multiplied(e, g, t) /\ Multiplied(f, g, u)
  <2>1. PICK i \in Half, j \in Half : e.to = Register(g, t, i, j)
    BY <1>5 DEF Multiplied
  <2>2. PICK k \in Half, l \in Half : f.to = Register(g, u, k, l)
    BY <1>5 DEF Multiplied
  <2>3. \A x \in Reads(f) : x = f.to \/ x[1] # "sum"
    BY <1>5 DEF Multiplied, TileNames
  <2> QED
    BY <2>1, <2>2, <2>3 DEF Register
<1> QED
  BY <1>1, <1>3, <1>4, <1>5

LEMMA TiledLaunchApart ==
  ASSUME NEW c, NEW launch \in Sound(c) \cap Tiled,
         NEW g \in Grid(c, launch), NEW h \in Grid(c, launch), NEW t \in Threads(launch), NEW u \in Threads(launch),
         NEW m, NEW n, g # h \/ (m = n /\ t # u)
  PROVE  Unordered(Effects(c, launch, g, t, m), Effects(c, launch, h, u, n))
<1>1. CASE g # h
  <2> DEFINE out == TileOut(launch)   A == TileAddresses(TileWidth(c, launch), g)   B == TileAddresses(TileWidth(c, launch), h)
  <2>1. /\ TileWidth(c, launch) \in Nat /\ g[1] \in Nat /\ g[2] \in Nat /\ h[1] \in Nat /\ h[2] \in Nat
        /\ (g[1] # h[1] \/ g[2] # h[2])
    BY <1>1, TiledLaunch, TiledMeasured
  <2>2. /\ t[1] \in Below(BlockAxis) /\ t[2] \in Below(BlockAxis) /\ u[1] \in Below(BlockAxis) /\ u[2] \in Below(BlockAxis)
    BY TiledLaunch
  <2>3. A \cap B = {}
    BY <2>1, SquaresApart
  <2>4. WithinBlock(Effects(c, launch, g, t, m), out, A, g) /\ WithinBlock(Effects(c, launch, h, u, n), out, B, h)
    BY <2>2, TileWithinBlock
  <2>5. out \notin BlockNames
    BY DEF TileOut, Tiled, BlockNames, TileNames
  <2> HIDE DEF out, A, B
  <2> QED
    BY <1>1, <2>3, <2>4, <2>5, BlocksApart, ApartIsUnordered
<1>2. CASE g = h /\ m = n /\ t # u
  BY <1>2, TileThreadsApart, ApartIsUnordered
<1> QED
  BY <1>1, <1>2

(***************************************************************************)
(* The reductions over shared memory.                                      *)
(***************************************************************************)
BiasEffect(e, g, t, m) ==
  \/ /\ m = 0 /\ e.to = Shared("partial_sums", g, t[2], t[1])
     /\ \A x \in Reads(e) : x[1] = "grad_output"
  \/ /\ m # 0 /\ t[2] = 0 /\ e.to = <<"grad_bias", g * BiasTile + t[1]>>
     /\ \A x \in Reads(e) : AtHome(x, g)

LEMMA BiasLaunch ==
  ASSUME NEW c, NEW g, NEW t, NEW m
  PROVE  /\ Threads("linear_grad_bias") = Below(BiasTile) \X Below(BiasLanes)
         /\ Grid(c, "linear_grad_bias") = Below(DivideUp(c.t["weights"].shape[1], BiasTile))
         /\ \A e \in Effects(c, "linear_grad_bias", g, t, m) : BiasEffect(e, g, t, m)
<1>1. /\ "linear_grad_bias" \notin Memset /\ "linear_grad_bias" \notin Indexed /\ "linear_grad_bias" \notin Planar
      /\ "linear_grad_bias" \notin Tiled
  BY DEF Memset, Indexed, Planar, Tiled
<1>2. /\ Threads("linear_grad_bias") = Below(BiasTile) \X Below(BiasLanes)
      /\ Grid(c, "linear_grad_bias") = Below(DivideUp(c.t["weights"].shape[1], BiasTile))
  BY <1>1 DEF Threads, Grid
<1>3. Effects(c, "linear_grad_bias", g, t, m) = backward_linear_grad_bias_cuda_float32_kernel(c, g, t, m)
  BY <1>1 DEF Effects
<1>4. ASSUME NEW e \in Effects(c, "linear_grad_bias", g, t, m)
      PROVE  BiasEffect(e, g, t, m)
  <2> DEFINE d == LinearDims(c)   out == g * BiasTile + t[1]
             mine == {n \in Below(d.batch_size) : n % BiasLanes = t[2]}
             terms == IF out < d.output_features THEN {<<GradAt(d, n, out)>> : n \in mine} ELSE {}
             partials == {<<Shared("partial_sums", g, lane, t[1])>> : lane \in Below(BiasLanes)}
  <2>1. CASE m = 0
    <3>1. e = Effect(Shared("partial_sums", g, t[2], t[1]), terms)
      BY <1>3, <1>4, <2>1 DEF backward_linear_grad_bias_cuda_float32_kernel
    <3>2. ASSUME NEW term \in terms PROVE \A k \in DOMAIN term : term[k][1] = "grad_output"
      BY <3>2 DEF GradAt
    <3> HIDE DEF terms
    <3> QED
      BY <2>1, <3>1, <3>2 DEF BiasEffect, Effect, Reads
  <2>2. CASE m # 0
    <3>1. t[2] = 0 /\ e = Effect(<<"grad_bias", out>>, partials)
      BY <1>3, <1>4, <2>2 DEF backward_linear_grad_bias_cuda_float32_kernel
    <3>2. ASSUME NEW term \in partials PROVE \A k \in DOMAIN term : AtHome(term[k], g)
      BY <3>2 DEF Shared, AtHome, BlockNames
    <3> HIDE DEF partials
    <3> QED
      BY <2>2, <3>1, <3>2 DEF BiasEffect, Effect, Reads
  <2> QED
    BY <2>1, <2>2
<1> QED
  BY <1>2, <1>4

LEMMA BiasLaunchApart ==
  ASSUME NEW c, "linear_grad_bias" \in Sound(c),
         NEW g \in Grid(c, "linear_grad_bias"), NEW h \in Grid(c, "linear_grad_bias"),
         NEW t \in Threads("linear_grad_bias"), NEW u \in Threads("linear_grad_bias"),
         NEW m, NEW n, g # h \/ (m = n /\ t # u)
  PROVE  Unordered(Effects(c, "linear_grad_bias", g, t, m), Effects(c, "linear_grad_bias", h, u, n))
<1> DEFINE E == Effects(c, "linear_grad_bias", g, t, m)   F == Effects(c, "linear_grad_bias", h, u, n)
           addresses(b) == {b * BiasTile + i : i \in Below(BiasTile)}
<1>1. /\ t[1] \in Below(BiasTile) /\ u[1] \in Below(BiasTile) /\ t[2] \in Below(BiasLanes) /\ u[2] \in Below(BiasLanes)
      /\ (t # u => t[1] # u[1] \/ t[2] # u[2])
  BY BiasLaunch
<1>2. (\A e \in E : BiasEffect(e, g, t, m)) /\ (\A f \in F : BiasEffect(f, h, u, n))
  BY BiasLaunch
<1>3. BiasTile \in Nat \ {0}
  BY BlocksAreNat
<1>4. g \in Nat /\ h \in Nat
  <2>1. LinearDims(c).output_features \in Nat
    BY DEF Sound, Measured, LinearMeasured
  <2>2. DivideUp(c.t["weights"].shape[1], BiasTile) \in Nat
    BY <1>3, <2>1, DividedUp DEF LinearDims
  <2>3. Grid(c, "linear_grad_bias") = Below(DivideUp(c.t["weights"].shape[1], BiasTile))
    BY BiasLaunch
  <2> QED
    BY <2>2, <2>3 DEF Below
<1> HIDE DEF E, F
<1>5. CASE g # h
  <2>1. addresses(g) \cap addresses(h) = {}
    <3>1. ASSUME NEW i \in Below(BiasTile), NEW j \in Below(BiasTile)
          PROVE  g * BiasTile + i # h * BiasTile + j
      <4>1. BiasTile \in Nat /\ g # h
        BY <1>3, <1>5
      <4> QED
        BY <1>4, <4>1, PairsDiffer
    <3> QED
      BY <3>1
  <2>2. WithinBlock(E, "grad_bias", addresses(g), g)
    BY <1>1, <1>2 DEF WithinBlock, BiasEffect, Shared, AtHome, BlockNames, TileNames
  <2>3. WithinBlock(F, "grad_bias", addresses(h), h)
    BY <1>1, <1>2 DEF WithinBlock, BiasEffect, Shared, AtHome, BlockNames, TileNames
  <2>4. "grad_bias" \notin BlockNames
    BY DEF BlockNames, TileNames
  <2> HIDE DEF addresses
  <2> QED
    BY <1>5, <2>1, <2>2, <2>3, <2>4, BlocksApart, ApartIsUnordered DEF E, F
<1>6. CASE g = h /\ m = n /\ t # u
  <2> SUFFICES ASSUME NEW e \in E, NEW f \in F PROVE e.to # f.to /\ e.to \notin Reads(f)
    BY ApartIsUnordered DEF Apart, E, F
  <2>1. CASE m = 0
    BY <1>1, <1>2, <1>6, <2>1 DEF BiasEffect, Shared
  <2>2. CASE m # 0
    <3>1. PICK a \in Nat, b \in Nat : a = g * BiasTile + t[1] /\ b = g * BiasTile + u[1]
      <4>1. g * BiasTile \in Nat /\ t[1] \in Nat /\ u[1] \in Nat
        BY <1>1, <1>3, <1>4 DEF Below
      <4> QED
        BY <4>1
    <3>2. t[2] = 0 /\ u[2] = 0 /\ e.to = <<"grad_bias", a>> /\ f.to = <<"grad_bias", b>> /\ \A x \in Reads(f) : AtHome(x, g)
      BY <1>2, <1>6, <2>2, <3>1 DEF BiasEffect
    <3>3. a # b
      BY <1>1, <1>3, <1>4, <1>6, <3>1, <3>2, PairsDiffer
    <3> QED
      BY <3>2, <3>3 DEF AtHome, BlockNames, TileNames
  <2> QED
    BY <2>1, <2>2
<1> QED
  BY <1>5, <1>6

\* What a thread of the two softmax kernels does in a stage: it gathers its share of
\* the row, adds what another thread has gathered, or rewrites its share.
Maximum(row, t) == <<"maximum", <<row, t>>>>
Gathers(e, mine, row, t) ==
  /\ e.to \in mine \cup {Part(row, t)}
  /\ \A x \in Reads(e) : x \in mine \cup {Maximum(row, t)} \/ x[1] = "activation_output"
Folds(e, offset, row, t) ==
  t < offset /\ e.to = Part(row, t) /\ Reads(e) \subseteq {Part(row, t), Part(row, t + offset)}
Rescales(e, mine, row, t) ==
  /\ e.to \in mine \cup {Maximum(row, t)}
  /\ \A x \in Reads(e) : x \in mine \cup {Part(row, 0)} \/ x[1] = "activation_output"
\* One of the three, all threads the same.
InStage(c, launch, role, row, m) ==
  \/ \A t : \A e \in Effects(c, launch, row, t, m) : Gathers(e, Strided(c, role, row, t), row, t)
  \/ \E offset \in Nat : \A t : \A e \in Effects(c, launch, row, t, m) : Folds(e, offset, row, t)
  \/ \A t : \A e \in Effects(c, launch, row, t, m) : Rescales(e, Strided(c, role, row, t), row, t)

LEMMA FoldFolds ==
  ASSUME NEW row, NEW step \in 1..Steps
  PROVE  \E offset \in Nat : \A t : \A e \in Fold(row, t, step) : Folds(e, offset, row, t)
<1>1. step \in 0..10
  BY LineAndSteps
<1>2. 2^step \in Nat \ {0}
  BY <1>1, Powers
<1>3. PICK offset \in Nat : offset = BlockLine \div 2^step
  BY <1>2, LineAndSteps, Quotient
<1>4. ASSUME NEW t, NEW e \in Fold(row, t, step) PROVE Folds(e, offset, row, t)
  <2>1. t < offset /\ e = Effect(Part(row, t), {<<Part(row, t)>>, <<Part(row, t + offset)>>})
    BY <1>3, <1>4 DEF Fold
  <2> QED
    BY <2>1 DEF Folds, Effect, Reads
<1> QED
  BY <1>4

LEMMA SoftmaxStages ==
  ASSUME NEW c, NEW row, NEW m \in 0..(2 * Steps + 3)
  PROVE  InStage(c, "softmax", "tensor", row, m)
<1> DEFINE mine(t) == Strided(c, "tensor", row, t)   k == 2 * Steps
<1>0. "softmax" \notin Memset /\ "softmax" \notin Indexed /\ "softmax" \notin Planar
  BY DEF Memset, Indexed, Planar
<1>1. \A t : Effects(c, "softmax", row, t, m) = softmax_cuda_float32_kernel(c, row, t, m)
  BY <1>0 DEF Effects
<1>2. Steps \in Nat /\ k = 2 * Steps /\ k \in Nat /\ k = Steps + Steps
  BY LineAndSteps
<1>3. CASE m = 0
  <2>0. m \notin 1..Steps /\ m # Steps + 1 /\ m # Steps + 2 /\ m \notin (Steps + 3)..(k + 2) /\ m # k + 3
    BY <1>2, <1>3
  <2>1. ASSUME NEW t, NEW e \in Effects(c, "softmax", row, t, m) PROVE Gathers(e, mine(t), row, t)
    <3>1. e = Effect(Part(row, t), {<<x>> : x \in mine(t)})
      BY <1>1, <1>3, <2>0, <2>1 DEF softmax_cuda_float32_kernel
    <3> HIDE DEF mine
    <3> QED
      BY <3>1 DEF Gathers, Effect, Reads
  <2> QED
    BY <2>1 DEF InStage
<1>4. CASE m \in 1..Steps
  <2>1. m # 0 /\ m # Steps + 1 /\ m # Steps + 2 /\ m \notin (Steps + 3)..(k + 2) /\ m # k + 3
    BY <1>2, <1>4
  <2>2. \A t : Effects(c, "softmax", row, t, m) = Fold(row, t, m)
    BY <1>1, <1>4, <2>1 DEF softmax_cuda_float32_kernel
  <2> QED
    BY <1>4, <2>2, FoldFolds DEF InStage
<1>5. CASE m = Steps + 1
  <2>1. m # 0 /\ m \notin 1..Steps /\ m # Steps + 2 /\ m \notin (Steps + 3)..(k + 2) /\ m # k + 3
    BY <1>2, <1>5
  <2>2. ASSUME NEW t, NEW e \in Effects(c, "softmax", row, t, m) PROVE Rescales(e, mine(t), row, t)
    <3>1. e = Effect(Maximum(row, t), {<<Part(row, 0)>>})
      BY <1>1, <1>5, <2>1, <2>2 DEF softmax_cuda_float32_kernel, Maximum
    <3> HIDE DEF mine
    <3> QED
      BY <3>1 DEF Rescales, Effect, Reads
  <2> QED
    BY <2>2 DEF InStage
<1>6. CASE m = Steps + 2
  <2>1. m # 0 /\ m \notin 1..Steps /\ m # Steps + 1 /\ m \notin (Steps + 3)..(k + 2) /\ m # k + 3
    BY <1>2, <1>6
  <2>2. ASSUME NEW t, NEW e \in Effects(c, "softmax", row, t, m) PROVE Gathers(e, mine(t), row, t)
    <3>1. \/ \E x \in mine(t) : e = Effect(x, {<<x, Maximum(row, t)>>})
          \/ e = Effect(Part(row, t), {<<x, Maximum(row, t)>> : x \in mine(t)})
      BY <1>1, <1>6, <2>1, <2>2 DEF softmax_cuda_float32_kernel, Maximum
    <3> HIDE DEF mine
    <3>2. CASE \E x \in mine(t) : e = Effect(x, {<<x, Maximum(row, t)>>})
      BY <3>2 DEF Gathers, Effect, Reads
    <3>3. CASE e = Effect(Part(row, t), {<<x, Maximum(row, t)>> : x \in mine(t)})
      BY <3>3 DEF Gathers, Effect, Reads
    <3> QED
      BY <3>1, <3>2, <3>3
  <2> QED
    BY <2>2 DEF InStage
<1>7. CASE m \in (Steps + 3)..(k + 2)
  <2>1. m # 0 /\ m \notin 1..Steps /\ m # Steps + 1 /\ m # Steps + 2 /\ m # k + 3
        /\ m - Steps - 2 \in 1..Steps
    BY <1>2, <1>7
  <2>2. \A t : Effects(c, "softmax", row, t, m) = Fold(row, t, m - Steps - 2)
    BY <1>1, <1>7, <2>1 DEF softmax_cuda_float32_kernel
  <2> HIDE DEF k
  <2>3. PICK step \in 1..Steps : step = m - Steps - 2
    BY <2>1
  <2> QED
    BY <2>2, <2>3, FoldFolds DEF InStage
<1>8. CASE m = k + 3
  <2>1. m # 0 /\ m \notin 1..Steps /\ m # Steps + 1 /\ m # Steps + 2 /\ m \notin (Steps + 3)..(k + 2)
    BY <1>2, <1>8
  <2>2. ASSUME NEW t, NEW e \in Effects(c, "softmax", row, t, m) PROVE Rescales(e, mine(t), row, t)
    <3>1. \E x \in mine(t) : e = Effect(x, {<<x, Part(row, 0)>>})
      BY <1>1, <1>8, <2>1, <2>2 DEF softmax_cuda_float32_kernel
    <3> HIDE DEF mine
    <3> QED
      BY <3>1 DEF Rescales, Effect, Reads
  <2> QED
    BY <2>2 DEF InStage
<1>9. \/ m = 0 \/ m \in 1..Steps \/ m = Steps + 1 \/ m = Steps + 2 \/ m \in (Steps + 3)..(k + 2) \/ m = k + 3
  BY <1>2
<1> QED
  BY <1>3, <1>4, <1>5, <1>6, <1>7, <1>8, <1>9

LEMMA BackwardSoftmaxStages ==
  ASSUME NEW c, NEW row, NEW m \in 0..(Steps + 1)
  PROVE  InStage(c, "backward_softmax", "grad", row, m)
<1> DEFINE mine(t) == Strided(c, "grad", row, t)
           output(x) == <<"activation_output", x[2]>>
<1>0. "backward_softmax" \notin Memset /\ "backward_softmax" \notin Indexed /\ "backward_softmax" \notin Planar
  BY DEF Memset, Indexed, Planar
<1>1. \A t : Effects(c, "backward_softmax", row, t, m) = backward_softmax_cuda_float32_kernel(c, row, t, m)
  BY <1>0 DEF Effects
<1>2. Steps \in Nat
  BY LineAndSteps
<1>3. CASE m = 0
  <2>0. m \notin 1..Steps /\ m # Steps + 1
    BY <1>2, <1>3
  <2>1. ASSUME NEW t, NEW e \in Effects(c, "backward_softmax", row, t, m) PROVE Gathers(e, mine(t), row, t)
    <3>1. e = Effect(Part(row, t), {<<x, output(x)>> : x \in mine(t)})
      BY <1>1, <1>3, <2>0, <2>1 DEF backward_softmax_cuda_float32_kernel
    <3> HIDE DEF mine
    <3> QED
      BY <3>1 DEF Gathers, Effect, Reads
  <2> QED
    BY <2>1 DEF InStage
<1>4. CASE m \in 1..Steps
  <2>1. m # 0 /\ m # Steps + 1
    BY <1>2, <1>4
  <2>2. \A t : Effects(c, "backward_softmax", row, t, m) = Fold(row, t, m)
    BY <1>1, <1>4, <2>1 DEF backward_softmax_cuda_float32_kernel
  <2> QED
    BY <1>4, <2>2, FoldFolds DEF InStage
<1>5. CASE m = Steps + 1
  <2>1. m # 0 /\ m \notin 1..Steps
    BY <1>2, <1>5
  <2>2. ASSUME NEW t, NEW e \in Effects(c, "backward_softmax", row, t, m) PROVE Rescales(e, mine(t), row, t)
    <3>0. Effects(c, "backward_softmax", row, t, m) =
            {Effect(x, {<<output(x), x>>, <<output(x), Part(row, 0)>>}) : x \in mine(t)}
      BY <1>1, <1>5, <2>1, Zenon DEF backward_softmax_cuda_float32_kernel
    <3>1. \E x \in mine(t) : e = Effect(x, {<<output(x), x>>, <<output(x), Part(row, 0)>>})
      BY <2>2, <3>0, Zenon
    <3> HIDE DEF mine
    <3> QED
      BY <3>1 DEF Rescales, Effect, Reads
  <2> QED
    BY <2>2 DEF InStage
<1> QED
  BY <1>2, <1>3, <1>4, <1>5

\* The share of a thread: cells of its row, that no other thread has.
LEMMA SharesApart ==
  ASSUME NEW c, NEW role, Matrix(c, role), NEW row \in Nat, NEW t, NEW x \in Strided(c, role, row, t)
  PROVE  /\ x[1] = role /\ Own(x, c.t[role].shape[2], row)
         /\ \A u : x \in Strided(c, role, row, u) => u = t
<1>1. x \in RowCells(c, role, row)
  BY DEF Strided
<1>2. x[1] = role /\ Own(x, c.t[role].shape[2], row)
  BY <1>1, CellsOfRow DEF Matrix
<1>3. \A u : x \in Strided(c, role, row, u) => u = t
  BY DEF Strided
<1> QED
  BY <1>2, <1>3

LEMMA RowThreadsApart ==
  ASSUME NEW c, NEW launch, NEW role \in {"tensor", "grad"}, Matrix(c, role), NEW row \in Nat, NEW m,
         InStage(c, launch, role, row, m), NEW t \in Nat, NEW u \in Nat, t # u
  PROVE  Apart(Effects(c, launch, row, t, m), Effects(c, launch, row, u, m))
<1> DEFINE mine == Strided(c, role, row, t)   yours == Strided(c, role, row, u)
<1> SUFFICES ASSUME NEW e \in Effects(c, launch, row, t, m), NEW f \in Effects(c, launch, row, u, m)
             PROVE  e.to # f.to /\ e.to \notin Reads(f)
  BY DEF Apart
<1>1. /\ \A x \in mine : x[1] = role /\ x \notin yours
      /\ \A x \in yours : x[1] = role
  BY SharesApart
<1>2. \/ Gathers(e, mine, row, t) /\ Gathers(f, yours, row, u)
      \/ \E offset \in Nat : Folds(e, offset, row, t) /\ Folds(f, offset, row, u)
      \/ Rescales(e, mine, row, t) /\ Rescales(f, yours, row, u)
  BY DEF InStage
<1> HIDE DEF mine, yours
<1>3. CASE Gathers(e, mine, row, t) /\ Gathers(f, yours, row, u)
  BY <1>1, <1>3 DEF Gathers, Part, Maximum
<1>4. CASE \E offset \in Nat : Folds(e, offset, row, t) /\ Folds(f, offset, row, u)
  <2>1. PICK offset \in Nat : Folds(e, offset, row, t) /\ Folds(f, offset, row, u)
    BY <1>4
  <2>2. t < offset /\ t # u + offset
    BY <2>1 DEF Folds
  <2> QED
    BY <2>1, <2>2 DEF Folds, Part
<1>5. CASE Rescales(e, mine, row, t) /\ Rescales(f, yours, row, u)
  BY <1>1, <1>5 DEF Rescales, Part, Maximum
<1> QED
  BY <1>2, <1>3, <1>4, <1>5

LEMMA RowWithinBlock ==
  ASSUME NEW c, NEW launch, NEW role \in {"tensor", "grad"}, Matrix(c, role), NEW row \in Nat, NEW m,
         InStage(c, launch, role, row, m), NEW t
  PROVE  LET width == c.t[role].shape[2] IN
         WithinBlock(Effects(c, launch, row, t, m), role, (row * width)..(row * width + width - 1), row)
<1> DEFINE mine == Strided(c, role, row, t)   width == c.t[role].shape[2]
           addresses == (row * width)..(row * width + width - 1)
<1>1. ASSUME NEW x, \/ x \in mine \/ x \in {Maximum(row, t), Part(row, t), Part(row, 0)}
                    \/ \E i : x = Part(row, i) \/ x[1] = "activation_output"
      PROVE  \/ AtHome(x, row) \/ (x[1] = role /\ x[2] \in addresses)
             \/ x[1] \notin BlockNames \cup {role}
  <2>1. CASE x \in mine
    BY <2>1, SharesApart DEF Own
  <2>2. CASE x[1] = "activation_output"
    BY <2>2 DEF BlockNames, TileNames
  <2>3. CASE x = Maximum(row, t) \/ \E i : x = Part(row, i)
    BY <2>3 DEF AtHome, BlockNames, Maximum, Part
  <2> QED
    BY <1>1, <2>1, <2>2, <2>3
<1>2. ASSUME NEW x, x \in mine \/ x = Maximum(row, t) \/ \E i : x = Part(row, i)
      PROVE  AtHome(x, row) \/ (x[1] = role /\ x[2] \in addresses)
  <2>1. CASE x \in mine
    BY <2>1, SharesApart DEF Own
  <2>3. CASE x = Maximum(row, t) \/ \E i : x = Part(row, i)
    BY <2>3 DEF AtHome, BlockNames, Maximum, Part
  <2> QED
    BY <1>2, <2>1, <2>3
<1> HIDE DEF mine, addresses
<1> SUFFICES ASSUME NEW e \in Effects(c, launch, row, t, m)
             PROVE  /\ AtHome(e.to, row) \/ (e.to[1] = role /\ e.to[2] \in addresses)
                    /\ \A x \in Reads(e) : \/ AtHome(x, row) \/ (x[1] = role /\ x[2] \in addresses)
                                           \/ x[1] \notin BlockNames \cup {role}
  BY DEF WithinBlock, addresses
<1>3. /\ e.to \in mine \/ e.to = Maximum(row, t) \/ \E i : e.to = Part(row, i)
      /\ \A x \in Reads(e) : x \in mine \/ x = Maximum(row, t) \/ (\E i : x = Part(row, i)) \/ x[1] = "activation_output"
  <2>1. CASE Gathers(e, mine, row, t)
    BY <2>1 DEF Gathers
  <2>2. CASE \E offset \in Nat : Folds(e, offset, row, t)
    BY <2>2 DEF Folds
  <2>3. CASE Rescales(e, mine, row, t)
    BY <2>3 DEF Rescales
  <2> QED
    BY <2>1, <2>2, <2>3 DEF InStage, mine
<1> QED
  BY <1>1, <1>2, <1>3

LEMMA RowLaunchApart ==
  ASSUME NEW c, NEW launch \in Sound(c) \cap {"softmax", "backward_softmax"},
         NEW g \in Grid(c, launch), NEW h \in Grid(c, launch), NEW t \in Threads(launch), NEW u \in Threads(launch),
         NEW m \in 0..LastStage(c, launch), NEW n \in 0..LastStage(c, launch), g # h \/ (m = n /\ t # u)
  PROVE  Unordered(Effects(c, launch, g, t, m), Effects(c, launch, h, u, n))
<1> DEFINE role == IF launch = "softmax" THEN "tensor" ELSE "grad"   width == c.t[role].shape[2]
           row(b) == (b * width)..(b * width + width - 1)
<1>0. launch \notin Memset /\ launch \notin Indexed /\ launch \notin Planar /\ launch \notin Tiled
      /\ launch # "linear_grad_bias"
  BY DEF Memset, Indexed, Planar, Tiled
<1>1. role \in {"tensor", "grad"} /\ Matrix(c, role)
  BY DEF Sound, Measured
<1>2. g \in Nat /\ h \in Nat
  <2>1. CASE launch = "softmax"
    <3>1. Grid(c, launch) = Below(c.t["tensor"].shape[1])
      BY <1>0, <2>1 DEF Grid
    <3>2. c.t["tensor"].shape[1] \in Nat
      BY <1>1, <2>1 DEF Matrix
    <3> QED
      BY <3>1, <3>2 DEF Below
  <2>2. CASE launch = "backward_softmax"
    <3>1. Grid(c, launch) = Below(c.t["activation_output"].shape[1])
      BY <1>0, <2>2 DEF Grid
    <3>2. c.t["activation_output"].shape[1] \in Nat
      BY <1>1, <2>2 DEF Matrix, Sound, Measured
    <3> QED
      BY <3>1, <3>2 DEF Below
  <2> QED
    BY <2>1, <2>2
<1>3. t \in Nat /\ u \in Nat
  <2>1. Threads(launch) = Below(BlockLine)
    BY <1>0 DEF Threads
  <2> QED
    BY <2>1, LineAndSteps DEF Below
<1>4. \A b : InStage(c, launch, role, b, m) /\ InStage(c, launch, role, b, n)
  <2>1. CASE launch = "softmax"
    <3>1. LastStage(c, launch) = 2 * Steps + 3
      BY <1>0, <2>1 DEF LastStage
    <3> QED
      BY <2>1, <3>1, SoftmaxStages
  <2>2. CASE launch = "backward_softmax"
    <3>1. LastStage(c, launch) = Steps + 1
      BY <1>0, <2>2 DEF LastStage
    <3> QED
      BY <2>2, <3>1, BackwardSoftmaxStages
  <2> QED
    BY <2>1, <2>2
<1>5. width \in Nat
  BY <1>1 DEF Matrix
<1> HIDE DEF role, width
<1>6. CASE g # h
  <2>1. row(g) \cap row(h) = {}
    <3> SUFFICES ASSUME NEW a \in row(g), a \in row(h) PROVE FALSE
      OBVIOUS
    <3>1. Own(<<role, a>>, width, g) /\ Own(<<role, a>>, width, h)
      BY DEF Own
    <3> QED
      BY <1>2, <1>5, <1>6, <3>1, RowsApart
  <2>2. /\ WithinBlock(Effects(c, launch, g, t, m), role, row(g), g)
        /\ WithinBlock(Effects(c, launch, h, u, n), role, row(h), h)
    BY <1>1, <1>2, <1>4, RowWithinBlock DEF width
  <2>3. role \notin BlockNames
    BY <1>1 DEF BlockNames, TileNames
  <2> HIDE DEF row
  <2> QED
    BY <1>6, <2>1, <2>2, <2>3, BlocksApart, ApartIsUnordered
<1>7. CASE g = h /\ m = n /\ t # u
  BY <1>1, <1>2, <1>3, <1>4, <1>7, RowThreadsApart, ApartIsUnordered
<1> QED
  BY <1>6, <1>7

\* Any two threads of a launch on a GPU, at the stages at which their blocks may be.
LEMMA CudaApart ==
  ASSUME NEW c, NEW launch \in Sound(c) \ {"fill"},
         NEW g \in Grid(c, launch), NEW h \in Grid(c, launch), NEW t \in Threads(launch), NEW u \in Threads(launch),
         NEW m \in 0..LastStage(c, launch), NEW n \in 0..LastStage(c, launch), g # h \/ (m = n /\ t # u)
  PROVE  Unordered(Effects(c, launch, g, t, m), Effects(c, launch, h, u, n))
<1>1. launch \in Memset \cup Indexed \cup Planar \cup Tiled \cup {"linear_grad_bias", "softmax", "backward_softmax"}
  BY DEF Sound, LaunchNames, ConvLoops, PoolLoops, ElementLoops, RowLoops, Serial, Memset, Indexed, Planar, Tiled
<1>2. CASE launch \in Memset
  <2>0. /\ launch \notin Indexed /\ launch \notin Planar /\ launch \notin Tiled
        /\ launch \notin {"linear_grad_bias", "softmax", "backward_softmax"}
    BY <1>2 DEF Memset, Indexed, Planar, Tiled
  <2>1. Grid(c, launch) = {0} /\ Threads(launch) = {0}
    BY <1>2, <2>0 DEF Grid, Threads
  <2> QED
    BY <2>1
<1>3. CASE launch \in Indexed
  BY <1>3, IndexedLaunchApart
<1>4. CASE launch \in Planar
  BY <1>4, PlanarLaunchApart
<1>5. CASE launch \in Tiled
  BY <1>5, TiledLaunchApart
<1>6. CASE launch = "linear_grad_bias"
  BY <1>6, BiasLaunchApart
<1>7. CASE launch \in {"softmax", "backward_softmax"}
  BY <1>7, RowLaunchApart
<1> QED
  BY <1>1, <1>2, <1>3, <1>4, <1>5, <1>6, <1>7

LEMMA LastIsNat ==
  ASSUME NEW c, NEW launch \in Sound(c)
  PROVE  LastStage(c, launch) \in Nat
<1>1. CASE launch \in Tiled
  <2>1. Common(c, launch) \in Nat
    BY <1>1 DEF Common, Tiled, Sound, Measured, LinearMeasured
  <2>2. Tiles(c, launch) \in Nat
    BY <2>1, DividedUp, BlocksAreNat DEF Tiles
  <2>3. LastStage(c, launch) = 2 * Tiles(c, launch)
    BY <1>1 DEF LastStage, Tiled
  <2> QED
    BY <2>2, <2>3
<1>2. CASE launch \notin Tiled
  <2>1. Steps \in Nat
    BY LineAndSteps
  <2>2. LastStage(c, launch) \in {1, 2 * Steps + 3, Steps + 1, 0}
    BY <1>2 DEF LastStage
  <2> QED
    BY <2>1, <2>2
<1> QED
  BY <1>1, <1>2

(***************************************************************************)
(* The inductive invariant: what is left to do in a launch is what the     *)
(* kernel does there, and the launches are those of an accepted call.      *)
(***************************************************************************)
LaunchableOf(c, cpu) == IF cpu THEN Sound(c) \ {"clear_result", "clear_gradient"} ELSE Sound(c) \ {"fill"}
GroupsOf(c, cpu, launch) == IF cpu THEN {0} ELSE Grid(c, launch)
LastOf(c, cpu, launch) == IF cpu THEN 0 ELSE LastStage(c, launch)
WorkOf(c, cpu, launch, group, at) ==
  LET effects == IF cpu THEN CpuWork(c, launch)
                 ELSE [t \in Threads(launch) |-> Effects(c, launch, group, t, at)]
  IN  [t \in {u \in DOMAIN effects : effects[u] # {}} |-> effects[t]]
LeftToDo(left, work) == DOMAIN left \subseteq DOMAIN work /\ \A w \in DOMAIN left : left[w] = work[w]
InLaunch ==
  LET launch == Head(launches) IN
  /\ launches # <<>> /\ outcome = "running"
  /\ DOMAIN stage = GroupsOf(call, OnCpu, launch) /\ DOMAIN todo = GroupsOf(call, OnCpu, launch)
  /\ \A g \in GroupsOf(call, OnCpu, launch) :
       /\ stage[g] \in 0..LastOf(call, OnCpu, launch)
       /\ LeftToDo(todo[g], WorkOf(call, OnCpu, launch, g, stage[g]))
IInv ==
  /\ call \in Calls /\ launches \in Seq(LaunchableOf(call, OnCpu)) /\ running \in BOOLEAN
  /\ running => InLaunch
  /\ ~running => DOMAIN todo = {}

LEMMA OfTheCall ==
  /\ \A launch : Groups(launch) = GroupsOf(call, OnCpu, launch) /\ Last(launch) = LastOf(call, OnCpu, launch)
  /\ \A launch, g, m : Work(launch, g, m) = WorkOf(call, OnCpu, launch, g, m)
BY DEF Groups, GroupsOf, Last, LastOf, Work, WorkOf

\* The CPU has no kernel of mse_loss, and no call asks for it.
LEMMA NoLossOnCpu ==
  ASSUME call \in Calls, OnCpu
  PROVE  call.op # "mse_loss"
<1> SUFFICES ASSUME call.op = "mse_loss" PROVE FALSE
  OBVIOUS
<1>1. CallAssumed(call)
  BY CallsAssumption
<1>2. DOMAIN call.t = {"prediction", "target", "result"}
  BY <1>1 DEF CallAssumed, Takes, MayTake
<1>3. {"input", "tensor", "activation_output", "prediction", "value"} \cap DOMAIN call.t = {"prediction"}
  BY <1>2
<1>4. First = "prediction"
  BY <1>3 DEF First
<1> QED
  BY <1>1, <1>4 DEF CallAssumed, OnCpu

LEMMA CallLaunches ==
  ASSUME call \in Calls, Entry(call) # Threw
  PROVE  Launches(Entry(call)) \in Seq(LaunchableOf(call, OnCpu))
<1>1. CallAssumed(call)
  BY CallsAssumption
<1>2. Started(call, Entry(call))
  BY <1>1, EveryCallStarted
<1>3. CASE OnCpu
  <2>1. call.op # "mse_loss"
    BY <1>3, NoLossOnCpu
  <2>2. Launches(Entry(call)) = CpuLoops(call, Entry(call))
    BY <1>3 DEF Launches
  <2>3. LaunchableOf(call, OnCpu) = Sound(call) \ {"clear_result", "clear_gradient"}
    BY <1>3 DEF LaunchableOf
  <2> QED
    BY <1>2, <2>1, <2>2, <2>3 DEF Started
<1>4. CASE ~OnCpu
  <2>2. Launches(Entry(call)) = CudaLaunches(call, Entry(call))
    BY <1>4 DEF Launches
  <2>3. LaunchableOf(call, OnCpu) = Sound(call) \ {"fill"}
    BY <1>4 DEF LaunchableOf
  <2> QED
    BY <1>2, <2>2, <2>3 DEF Started
<1> QED
  BY <1>3, <1>4

LEMMA LastOfLaunch ==
  ASSUME NEW c, NEW cpu \in BOOLEAN, NEW launch \in LaunchableOf(c, cpu)
  PROVE  LastOf(c, cpu, launch) \in Nat
BY LastIsNat DEF LastOf, LaunchableOf

LEMMA InitHolds == Init => IInv
<1> SUFFICES ASSUME Init PROVE IInv
  OBVIOUS
<1>1. DOMAIN todo = {}
  BY DEF Init, Nothing
<1>2. call \in Calls /\ launches = <<>> /\ ~running /\ running \in BOOLEAN
  BY DEF Init
<1> QED
  BY <1>1, <1>2 DEF IInv

\* The call, and with it the backend, stands.
LEMMA CallStands == ASSUME call' = call PROVE OnCpu' = OnCpu
BY DEF OnCpu, First

LEMMA CallKeeps == ASSUME IInv, Call PROVE IInv'
<1>1. /\ call' = call /\ call \in Calls /\ running' = running /\ stage' = stage /\ todo' = todo
      /\ outcome = "called" /\ launches \in Seq(LaunchableOf(call, OnCpu))
  BY DEF IInv, Call
<1>2. launches' \in Seq(LaunchableOf(call, OnCpu))
  BY <1>1, CallLaunches DEF Call
<1>3. ~running /\ DOMAIN todo = {}
  BY <1>1 DEF IInv, InLaunch
<1> QED
  BY <1>1, <1>2, <1>3, CallStands DEF IInv

LEMMA BeginLaunchKeeps == ASSUME IInv, BeginLaunch PROVE IInv'
<1>1. /\ call' = call /\ call \in Calls /\ launches' = launches /\ launches \in Seq(LaunchableOf(call, OnCpu))
      /\ launches # <<>> /\ OnCpu' = OnCpu /\ outcome = "running" /\ ~running /\ DOMAIN todo = {}
  BY CallStands DEF IInv, BeginLaunch
<1> DEFINE launch == Head(launches)   groups == GroupsOf(call, OnCpu, launch)
<1>2. launch \in LaunchableOf(call, OnCpu)
  BY <1>1
<1>3. CASE groups = {}
  <2>1. running' = running /\ todo' = todo
    BY <1>3, OfTheCall DEF BeginLaunch
  <2> QED
    BY <1>1, <2>1 DEF IInv
<1>4. CASE groups # {}
  <2>1. /\ running' = TRUE /\ outcome' = outcome /\ stage' = [g \in groups |-> 0]
        /\ todo' = [g \in groups |-> WorkOf(call, OnCpu, launch, g, 0)]
    BY <1>4, OfTheCall DEF BeginLaunch
  <2>2. LastOf(call, OnCpu, launch) \in Nat
    BY <1>2, LastOfLaunch DEF OnCpu
  <2>3. \A g \in groups :
          /\ stage'[g] \in 0..LastOf(call, OnCpu, launch)
          /\ LeftToDo(todo'[g], WorkOf(call, OnCpu, launch, g, stage'[g]))
    BY <2>1, <2>2 DEF LeftToDo
  <2>4. InLaunch'
    BY <1>1, <2>1, <2>3 DEF InLaunch
  <2> QED
    BY <1>1, <2>1, <2>4 DEF IInv
<1> QED
  BY <1>3, <1>4

\* Within a launch only the stages and what is left to do change.
LEMMA LaunchKeeps ==
  ASSUME IInv, running, call' = call, outcome' = outcome, launches' = launches, running' = running,
         DOMAIN stage' = DOMAIN stage, DOMAIN todo' = DOMAIN todo,
         \A g \in GroupsOf(call, OnCpu, Head(launches)) :
           /\ stage'[g] \in 0..LastOf(call, OnCpu, Head(launches))
           /\ LeftToDo(todo'[g], WorkOf(call, OnCpu, Head(launches), g, stage'[g]))
  PROVE  IInv'
<1>1. OnCpu' = OnCpu
  BY CallStands
<1>2. InLaunch
  BY DEF IInv
<1>3. InLaunch'
  BY <1>1, <1>2 DEF InLaunch
<1> QED
  BY <1>1, <1>3 DEF IInv

LEMMA StepKeeps ==
  ASSUME IInv, NEW g \in DOMAIN todo, NEW w, w \in DOMAIN todo[g], Step(g, w)
  PROVE  IInv'
<1> DEFINE launch == Head(launches)
<1>1. running /\ InLaunch
  BY DEF IInv
<1>2. /\ call' = call /\ outcome' = outcome /\ launches' = launches /\ running' = running /\ stage' = stage
      /\ todo' = [todo EXCEPT ![g] = [v \in DOMAIN @ \ {w} |-> @[v]]]
  BY DEF Step
<1>3. ASSUME NEW h \in GroupsOf(call, OnCpu, launch)
      PROVE  /\ stage'[h] \in 0..LastOf(call, OnCpu, launch)
             /\ LeftToDo(todo'[h], WorkOf(call, OnCpu, launch, h, stage'[h]))
  <2>1. /\ stage[h] \in 0..LastOf(call, OnCpu, launch) /\ h \in DOMAIN todo
        /\ LeftToDo(todo[h], WorkOf(call, OnCpu, launch, h, stage[h]))
    BY <1>1 DEF InLaunch
  <2>2. todo'[h] = IF h = g THEN [v \in DOMAIN todo[g] \ {w} |-> todo[g][v]] ELSE todo[h]
    BY <1>2, <2>1
  <2> QED
    BY <1>2, <2>1, <2>2 DEF LeftToDo
<1> QED
  BY <1>1, <1>2, <1>3, LaunchKeeps

LEMMA SynchronizeKeeps ==
  ASSUME IInv, NEW g \in DOMAIN todo, Synchronize(g)
  PROVE  IInv'
<1> DEFINE launch == Head(launches)
<1>1. running /\ InLaunch
  BY DEF IInv
<1>2. /\ call' = call /\ outcome' = outcome /\ launches' = launches /\ running' = running
      /\ stage' = [stage EXCEPT ![g] = @ + 1] /\ stage[g] < LastOf(call, OnCpu, launch)
      /\ todo' = [todo EXCEPT ![g] = WorkOf(call, OnCpu, launch, g, stage[g] + 1)]
  BY OfTheCall DEF Synchronize
<1>3. LastOf(call, OnCpu, launch) \in Nat
  <2>1. OnCpu \in BOOLEAN
    BY DEF OnCpu
  <2>2. launch \in LaunchableOf(call, OnCpu)
    BY <1>1 DEF IInv, InLaunch
  <2> QED
    BY <2>1, <2>2, LastOfLaunch
<1>4. ASSUME NEW h \in GroupsOf(call, OnCpu, launch)
      PROVE  /\ stage'[h] \in 0..LastOf(call, OnCpu, launch)
             /\ LeftToDo(todo'[h], WorkOf(call, OnCpu, launch, h, stage'[h]))
  <2>1. /\ stage[h] \in 0..LastOf(call, OnCpu, launch) /\ h \in DOMAIN todo /\ h \in DOMAIN stage
        /\ LeftToDo(todo[h], WorkOf(call, OnCpu, launch, h, stage[h]))
    BY <1>1 DEF InLaunch
  <2>2. CASE h = g
    <3>1. stage'[h] = stage[g] + 1 /\ todo'[h] = WorkOf(call, OnCpu, launch, g, stage[g] + 1)
      BY <1>2, <2>1, <2>2
    <3>2. stage[g] + 1 \in 0..LastOf(call, OnCpu, launch)
      BY <1>2, <1>3, <2>1, <2>2
    <3> QED
      BY <2>2, <3>1, <3>2 DEF LeftToDo
  <2>3. CASE h # g
    <3>1. stage'[h] = stage[h] /\ todo'[h] = todo[h]
      BY <1>2, <2>1, <2>3
    <3> QED
      BY <2>1, <3>1
  <2> QED
    BY <2>2, <2>3
<1> QED
  BY <1>1, <1>2, <1>4, LaunchKeeps

LEMMA EndLaunchKeeps == ASSUME IInv, EndLaunch PROVE IInv'
<1>1. /\ call' = call /\ call \in Calls /\ OnCpu' = OnCpu /\ running' = FALSE /\ todo' = Nothing
      /\ launches' = Tail(launches) /\ launches # <<>> /\ launches \in Seq(LaunchableOf(call, OnCpu))
  BY CallStands DEF IInv, EndLaunch, InLaunch
<1>2. launches' \in Seq(LaunchableOf(call, OnCpu))
  BY <1>1
<1>3. DOMAIN todo' = {}
  BY <1>1 DEF Nothing
<1> QED
  BY <1>1, <1>2, <1>3 DEF IInv

LEMMA NextKeeps == ASSUME IInv, [Next]_vars PROVE IInv'
<1>1. CASE Call
  BY <1>1, CallKeeps
<1>2. CASE BeginLaunch
  BY <1>2, BeginLaunchKeeps
<1>3. CASE EndLaunch
  BY <1>3, EndLaunchKeeps
<1>4. CASE Return
  <2>1. UNCHANGED <<call, launches, running, stage, todo>> /\ ~running
    BY <1>4 DEF Return, IInv, InLaunch
  <2> QED
    BY <2>1, CallStands DEF IInv
<1>5. ASSUME NEW g \in DOMAIN todo, Synchronize(g) PROVE IInv'
  BY <1>5, SynchronizeKeeps
<1>6. ASSUME \E g \in DOMAIN todo : \E w \in DOMAIN todo[g] : Step(g, w) PROVE IInv'
  BY <1>6, StepKeeps
<1>7. CASE UNCHANGED vars
  BY <1>7, CallStands DEF vars, IInv, InLaunch
<1> QED
  BY <1>1, <1>2, <1>3, <1>4, <1>5, <1>6, <1>7 DEF Next

LEMMA NothingRaces == ASSUME IInv PROVE NoRace
<1> SUFFICES ASSUME NEW p \in Pending, NEW q \in Pending, p # q
             PROVE  Unordered(todo[p[1]][p[2]], todo[q[1]][q[2]])
  BY DEF NoRace, Unordered
<1> DEFINE launch == Head(launches)
<1>1. PICK g \in DOMAIN todo : \E t \in DOMAIN todo[g] : p = <<g, t>>
  BY DEF Pending
<1>2. PICK h \in DOMAIN todo : \E u \in DOMAIN todo[h] : q = <<h, u>>
  BY DEF Pending
<1>3. PICK t \in DOMAIN todo[g] : p = <<g, t>>
  BY <1>1
<1>4. PICK u \in DOMAIN todo[h] : q = <<h, u>>
  BY <1>2
<1>5. g # h \/ t # u
  BY <1>3, <1>4
<1>6. running /\ InLaunch
  BY <1>1 DEF IInv
<1>7. launch \in LaunchableOf(call, OnCpu)
  BY <1>6 DEF IInv, InLaunch
<1>8. /\ t \in DOMAIN WorkOf(call, OnCpu, launch, g, stage[g]) /\ todo[g][t] = WorkOf(call, OnCpu, launch, g, stage[g])[t]
      /\ u \in DOMAIN WorkOf(call, OnCpu, launch, h, stage[h]) /\ todo[h][u] = WorkOf(call, OnCpu, launch, h, stage[h])[u]
      /\ g \in GroupsOf(call, OnCpu, launch) /\ h \in GroupsOf(call, OnCpu, launch)
      /\ stage[g] \in 0..LastOf(call, OnCpu, launch) /\ stage[h] \in 0..LastOf(call, OnCpu, launch)
  BY <1>6 DEF InLaunch, LeftToDo
<1>9. CASE OnCpu
  <2>1. g = 0 /\ h = 0 /\ t # u
    BY <1>5, <1>8, <1>9 DEF GroupsOf
  <2>2. /\ t \in DOMAIN CpuWork(call, launch) /\ todo[g][t] = CpuWork(call, launch)[t]
        /\ u \in DOMAIN CpuWork(call, launch) /\ todo[h][u] = CpuWork(call, launch)[u]
    BY <1>8, <1>9 DEF WorkOf
  <2>3. launch \in Sound(call) \ {"clear_result", "clear_gradient"}
    BY <1>7, <1>9 DEF LaunchableOf
  <2> QED
    BY <1>3, <1>4, <2>1, <2>2, <2>3, CpuApart, ApartIsUnordered
<1>10. CASE ~OnCpu
  <2>1. /\ t \in Threads(launch) /\ todo[g][t] = Effects(call, launch, g, t, stage[g])
        /\ u \in Threads(launch) /\ todo[h][u] = Effects(call, launch, h, u, stage[h])
    BY <1>8, <1>10 DEF WorkOf
  <2>2. /\ g \in Grid(call, launch) /\ h \in Grid(call, launch) /\ launch \in Sound(call) \ {"fill"}
        /\ stage[g] \in 0..LastStage(call, launch) /\ stage[h] \in 0..LastStage(call, launch)
    BY <1>7, <1>8, <1>10 DEF GroupsOf, LaunchableOf, LastOf
  <2>3. g # h \/ (stage[g] = stage[h] /\ t # u)
    BY <1>5
  <2>4. Unordered(Effects(call, launch, g, t, stage[g]), Effects(call, launch, h, u, stage[h]))
    BY <2>1, <2>2, <2>3, CudaApart
  <2> QED
    BY <1>3, <1>4, <2>1, <2>4
<1> QED
  BY <1>9, <1>10

\* Two threads that nothing orders touch one cell only to read it, or both by an atomic
\* addition, whatever the call, the shapes, the number of threads of the pool and the
\* sizes of the blocks.
THEOREM NothingRacesEver == Spec => []NoRace
<1>1. Init => IInv
  BY InitHolds
<1>2. IInv /\ [Next]_vars => IInv'
  BY NextKeeps
<1>3. IInv => NoRace
  BY NothingRaces
<1> QED
  BY <1>1, <1>2, <1>3, PTL DEF Spec

-----------------------------------------------------------------------------
(* Nothing is touched outside the tensors.  First the arithmetic of addresses, in
   size_t and out of it. *)

\* The remainder does not see a multiple of the divisor.
LEMMA RemainderOfSum ==
  ASSUME NEW m \in Nat \ {0}, NEW r \in Nat, NEW q \in Nat
  PROVE  ((q * m) + r) % m = r % m
<1> DEFINE x == (q * m) + r
<1>1. x \in Nat
  OBVIOUS
<1>2. /\ r \div m \in Nat /\ r % m \in Below(m) /\ r = (r \div m) * m + (r % m)
      /\ x \div m \in Nat /\ x % m \in Below(m) /\ x = (x \div m) * m + (x % m)
  BY <1>1, Quotient
<1>3. PICK a \in Nat, b \in Nat, s \in Nat, t \in Nat :
        a = r \div m /\ b = x \div m /\ s = r % m /\ t = x % m
  <2>1. \A y \in Below(m) : y \in Nat
    BY DEF Below
  <2> HIDE DEF x
  <2> QED
    BY <1>2, <2>1, Zenon
<1> HIDE DEF x
<1>4. s < m /\ t < m /\ r = a * m + s /\ x = b * m + t /\ x = (q * m) + r
  BY <1>2, <1>3 DEF Below, x
<1>5. (q + a) * m + s = b * m + t
  <2>1. (q + a) * m = q * m + a * m
    OBVIOUS
  <2> QED
    BY <1>4, <2>1
<1>6. s = t
  <2>1. q + a \in Nat /\ s \in Below(m) /\ t \in Below(m)
    BY <1>4 DEF Below
  <2> QED
    BY <1>5, <2>1, PairsDiffer
<1> QED
  BY <1>3, <1>6 DEF x

LEMMA SizeOfSmall ==
  ASSUME NEW n \in Nat, n < SizeMod
  PROVE  Size(n) = n
<1>1. PICK m \in Nat \ {0} : m = SizeMod
  BY SizeModAssumption
<1>2. n \div m \in Nat /\ n % m \in Below(m) /\ n = (n \div m) * m + (n % m)
  BY Quotient
<1>3. PICK q \in Nat, r \in Below(m) : q = n \div m /\ r = n % m
  BY <1>2
<1>4. n \in Below(m) /\ r \in Nat /\ 0 \in Nat
  BY <1>1, <1>3 DEF Below
<1>5. q * m + r = 0 * m + n
  BY <1>2, <1>3, <1>4
<1>6. r = n
  BY <1>4, <1>5, PairsDiffer
<1> QED
  BY <1>1, <1>3, <1>6 DEF Size

LEMMA SizeOfProduct ==
  ASSUME NEW a \in Nat, NEW b \in Nat
  PROVE  Size(Size(a) * b) = Size(a * b)
<1>1. /\ SizeMod \in Nat \ {0}
  BY SizeModAssumption
<1>2. a \div SizeMod \in Nat /\ a % SizeMod \in Nat /\ a = (a \div SizeMod) * SizeMod + (a % SizeMod)
  BY <1>1, Quotient DEF Below
<1>3. PICK q \in Nat, r \in Nat, m \in Nat \ {0} : q = a \div SizeMod /\ r = a % SizeMod /\ m = SizeMod
  BY <1>1, <1>2
<1>4. a * b = ((q * b) * m) + (r * b)
  <2>1. a = q * m + r
    BY <1>2, <1>3
  <2>2. (q * m + r) * b = (q * b) * m + r * b
    OBVIOUS
  <2> QED
    BY <2>1, <2>2
<1>5. PICK p \in Nat, s \in Nat : p = q * b /\ s = r * b
  OBVIOUS
<1>6. ((p * m) + s) % m = s % m
  BY RemainderOfSum
<1>7. (a * b) % m = (r * b) % m
  BY <1>4, <1>5, <1>6
<1> QED
  BY <1>3, <1>7 DEF Size

\* A table of k numbers, each made from the one before by G.
IsChain(f, a, G, k) == f \in [0..k -> Int] /\ f[0] = a /\ \A i \in 1..k : f[i] = G[<<i, f[i - 1]>>]

LEMMA ChainGrows ==
  ASSUME NEW a \in Int, NEW k \in Nat, NEW G \in [(1..k) \X Int -> Int],
         NEW m \in Nat, m + 1 <= k, NEW f, IsChain(f, a, G, m)
  PROVE  \E h : IsChain(h, a, G, m + 1)
<1> DEFINE h == [i \in 0..(m + 1) |-> IF i = m + 1 THEN G[<<m + 1, f[m]>>] ELSE f[i]]
<1>1. f \in [0..m -> Int] /\ f[0] = a /\ \A i \in 1..m : f[i] = G[<<i, f[i - 1]>>]
  BY DEF IsChain
<1>2. f[m] \in Int /\ m + 1 \in 1..k
  BY <1>1
<1>3. G[<<m + 1, f[m]>>] \in Int
  <2>1. <<m + 1, f[m]>> \in (1..k) \X Int
    BY <1>2
  <2> QED
    BY <2>1
<1>4. h \in [0..(m + 1) -> Int]
  <2>1. \A i \in 0..(m + 1) : i # m + 1 => i \in 0..m
    OBVIOUS
  <2> QED
    BY <1>1, <1>3, <2>1
<1>5. h[0] = a
  BY <1>1
<1>6. ASSUME NEW i \in 1..(m + 1) PROVE h[i] = G[<<i, h[i - 1]>>]
  <2>1. CASE i = m + 1
    <3>1. h[i] = G[<<m + 1, f[m]>>] /\ h[i - 1] = f[m]
      BY <2>1
    <3> QED
      BY <2>1, <3>1
  <2>2. CASE i # m + 1
    <3>1. i \in 1..m /\ i \in 0..(m + 1) /\ i - 1 \in 0..(m + 1) /\ i - 1 # m + 1
      BY <2>2
    <3>2. h[i] = f[i] /\ h[i - 1] = f[i - 1]
      BY <2>2, <3>1
    <3> QED
      BY <1>1, <3>1, <3>2
  <2> QED
    BY <2>1, <2>2
<1> HIDE DEF h
<1>7. IsChain(h, a, G, m + 1)
  BY <1>4, <1>5, <1>6 DEF IsChain
<1> QED
  BY <1>7

LEMMA ChainExists ==
  ASSUME NEW a \in Int, NEW k \in Nat, NEW G \in [(1..k) \X Int -> Int]
  PROVE  \E f : IsChain(f, a, G, k)
<1> DEFINE good == {m \in Nat : m <= k => \E f : IsChain(f, a, G, m)}
<1>1. 0 \in good
  <2> DEFINE f == [i \in 0..0 |-> a]
  <2>1. f \in [0..0 -> Int] /\ f[0] = a /\ \A i \in 1..0 : f[i] = G[<<i, f[i - 1]>>]
    OBVIOUS
  <2> HIDE DEF f
  <2>2. IsChain(f, a, G, 0)
    BY <2>1 DEF IsChain
  <2> QED
    BY <2>2
<1>2. ASSUME NEW m \in good PROVE m + 1 \in good
  <2> SUFFICES ASSUME m + 1 <= k PROVE \E f : IsChain(f, a, G, m + 1)
    OBVIOUS
  <2>1. PICK f : IsChain(f, a, G, m)
    OBVIOUS
  <2> QED
    BY <2>1, ChainGrows
<1>3. k \in good
  <2>1. good \in SUBSET Nat
    OBVIOUS
  <2> HIDE DEF good
  <2> QED
    BY <1>1, <1>2, <2>1, EveryNatural
<1> QED
  BY <1>3

LEMMA VolumeChain ==
  ASSUME NEW shape \in Seq(Nat)
  PROVE  \E f \in [0..Len(shape) -> Int] :
           /\ Volume(shape) = f[Len(shape)] /\ f[0] = 1
           /\ \A i \in 1..Len(shape) : f[i] = f[i - 1] * shape[i]
<1> DEFINE k == Len(shape)
           G == [p \in (1..k) \X Int |-> p[2] * shape[p[1]]]
           step(f, i) == IF i = 0 THEN 1 ELSE f[i - 1] * shape[i]
<1>0. k \in Nat /\ \A i \in 1..k : shape[i] \in Nat
  OBVIOUS
<1>1. G \in [(1..k) \X Int -> Int]
  <2> HIDE DEF k
  <2> QED
    BY <1>0
<1>2. \A i \in 1..k, x \in Int : G[<<i, x>>] = x * shape[i]
  OBVIOUS
<1>3. PICK f : IsChain(f, 1, G, k)
  <2>1. 1 \in Int
    OBVIOUS
  <2> HIDE DEF k, G
  <2> QED
    BY <1>0, <1>1, <2>1, ChainExists, Zenon
<1>4. Volume(shape) = (CHOOSE g : g = [i \in 0..k |-> step(g, i)])[k]
  BY DEF Volume
<1> HIDE DEF k, G
<1>5. f = [i \in 0..k |-> step(f, i)]
  <2>1. \A i \in 0..k : f[i] = step(f, i)
    <3>1. \A i \in 0..k : i # 0 => i \in 1..k /\ i - 1 \in 0..k
      BY <1>0
    <3> QED
      BY <1>2, <1>3, <3>1 DEF IsChain
  <2>2. f = [i \in 0..k |-> f[i]]
    BY <1>3 DEF IsChain
  <2> HIDE DEF step
  <2> QED
    BY <2>1, <2>2
<1>6. PICK g : Volume(shape) = g[k] /\ g = [i \in 0..k |-> step(g, i)]
  <2> HIDE DEF step
  <2> QED
    BY <1>4, <1>5
<1>7. \A i \in 0..k : g[i] = step(g, i)
  <2> HIDE DEF step
  <2> QED
    BY <1>6
<1>8. g[0] = 1 /\ \A i \in 1..k : g[i] = g[i - 1] * shape[i]
  <2>1. 0 \in 0..k /\ \A i \in 1..k : i \in 0..k /\ i # 0
    BY <1>0
  <2> QED
    BY <1>7, <2>1
<1>9. g \in [0..k -> Int]
  <2> DEFINE good == {m \in Nat : m <= k => g[m] \in Int}
  <2>1. 0 \in good
    BY <1>8
  <2>2. ASSUME NEW m \in good PROVE m + 1 \in good
    <3> SUFFICES ASSUME m + 1 <= k PROVE g[m + 1] \in Int
      OBVIOUS
    <3>1. m + 1 \in 1..k /\ (m + 1) - 1 = m /\ g[m] \in Int
      BY <1>0
    <3>2. shape[m + 1] \in Nat
      BY <1>0, <3>1
    <3>3. g[m + 1] = g[m] * shape[m + 1]
      BY <1>8, <3>1
    <3> QED
      BY <3>1, <3>2, <3>3
  <2>3. \A m \in Nat : m \in good
    <3>1. good \in SUBSET Nat
      OBVIOUS
    <3> HIDE DEF good
    <3> QED
      BY <2>1, <2>2, <3>1, EveryNatural
  <2>4. \A m \in 0..k : g[m] \in Int
    BY <1>0, <2>3
  <2>5. DOMAIN g = 0..k /\ g = [i \in 0..k |-> g[i]]
    <3> HIDE DEF step
    <3> QED
      BY <1>6
  <2> QED
    BY <2>4, <2>5
<1> QED
  BY <1>6, <1>8, <1>9 DEF k

LEMMA NumelOfVolume ==
  ASSUME NEW shape \in Seq(Nat)
  PROVE  Volume(shape) \in Nat /\ Numel(shape) = Size(Volume(shape))
<1> DEFINE k == Len(shape)
<1>0. k \in Nat /\ \A i \in 1..k : shape[i] \in Nat
  OBVIOUS
<1>1. PICK product : Numel(shape) = product[k] /\ ProductUpto(product, shape, k)
  <2>1. Numel(shape) = (CHOOSE product : ProductUpto(product, shape, k))[k]
    BY DEF Numel, ProductUpto
  <2> QED
    BY <2>1, <1>0, DimensionsExist
<1>2. PICK f \in [0..k -> Int] : Volume(shape) = f[k] /\ f[0] = 1 /\ \A i \in 1..k : f[i] = f[i - 1] * shape[i]
  BY VolumeChain
<1> HIDE DEF k
<1>3. \A i \in 0..k : product[i] = IF i = 0 THEN 1 ELSE Size(product[i - 1] * shape[i])
  BY <1>1 DEF ProductUpto
<1> DEFINE good == {m \in Nat : m <= k => f[m] \in Nat /\ product[m] = Size(f[m])}
<1>4. 0 \in good
  <2>1. Size(1) = 1
    <3>1. 1 \in Nat /\ 1 < SizeMod
      BY SizeModAssumption
    <3> QED
      BY <3>1, SizeOfSmall
  <2> QED
    BY <1>0, <1>2, <1>3, <2>1
<1>5. ASSUME NEW m \in good PROVE m + 1 \in good
  <2> SUFFICES ASSUME m + 1 <= k PROVE f[m + 1] \in Nat /\ product[m + 1] = Size(f[m + 1])
    OBVIOUS
  <2>1. f[m] \in Nat /\ product[m] = Size(f[m]) /\ m + 1 \in 1..k /\ m + 1 \in 0..k /\ (m + 1) - 1 = m
    BY <1>0
  <2>2. shape[m + 1] \in Nat
    BY <1>0, <2>1
  <2>3. f[m + 1] = f[m] * shape[m + 1] /\ product[m + 1] = Size(product[m] * shape[m + 1])
    BY <1>2, <1>3, <2>1
  <2>4. PICK a \in Nat, b \in Nat : a = f[m] /\ b = shape[m + 1]
    BY <2>1, <2>2
  <2>5. Size(Size(a) * b) = Size(a * b)
    BY SizeOfProduct
  <2>6. a * b \in Nat
    OBVIOUS
  <2> QED
    BY <2>1, <2>3, <2>4, <2>5, <2>6
<1>6. \A m \in Nat : m \in good
  <2>1. good \in SUBSET Nat
    OBVIOUS
  <2> HIDE DEF good
  <2> QED
    BY <1>4, <1>5, <2>1, EveryNatural
<1>7. f[k] \in Nat /\ product[k] = Size(f[k])
  BY <1>0, <1>6
<1> QED
  BY <1>1, <1>2, <1>7

LEMMA PlaceBelow ==
  ASSUME NEW n \in Nat, NEW k \in Nat, NEW a \in Below(n), NEW b \in Below(k)
  PROVE  a * k + b \in Below(n * k)
<1>1. a \in Nat /\ a + 1 <= n /\ b \in Nat /\ b + 1 <= k
  BY DEF Below
<1>2. (a + 1) * k <= n * k /\ n * k \in Nat
  BY <1>1, ProductGrows
<1>3. (a + 1) * k = a * k + k /\ a * k \in Nat
  BY <1>1
<1> QED
  BY <1>1, <1>2, <1>3 DEF Below

LEMMA OffsetChain ==
  ASSUME NEW dims \in Seq(Nat), NEW index, \A i \in 1..Len(dims) : index[i] \in Below(dims[i])
  PROVE  \E at : /\ Offset(dims, index) = at[Len(dims)] /\ at[0] = 0
                 /\ \A i \in 1..Len(dims) : at[i] = at[i - 1] * dims[i] + index[i]
<1> DEFINE k == Len(dims)
           G == [p \in (1..k) \X Int |-> p[2] * dims[p[1]] + index[p[1]]]
           step(f, i) == IF i = 0 THEN 0 ELSE f[i - 1] * dims[i] + index[i]
<1>0. k \in Nat /\ \A i \in 1..k : dims[i] \in Nat /\ index[i] \in Int
  BY DEF Below
<1>1. G \in [(1..k) \X Int -> Int]
  <2> HIDE DEF k
  <2> QED
    BY <1>0
<1>2. \A i \in 1..k, x \in Int : G[<<i, x>>] = x * dims[i] + index[i]
  OBVIOUS
<1>3. PICK f : IsChain(f, 0, G, k)
  <2>1. 0 \in Int
    OBVIOUS
  <2> HIDE DEF k, G
  <2> QED
    BY <1>0, <1>1, <2>1, ChainExists, Zenon
<1>4. Offset(dims, index) = (CHOOSE g : g = [i \in 0..k |-> step(g, i)])[k]
  BY DEF Offset
<1> HIDE DEF k, G
<1>5. f = [i \in 0..k |-> step(f, i)]
  <2>1. \A i \in 0..k : f[i] = step(f, i)
    <3>1. \A i \in 0..k : i # 0 => i \in 1..k /\ i - 1 \in 0..k
      BY <1>0
    <3> QED
      BY <1>2, <1>3, <3>1 DEF IsChain
  <2>2. f = [i \in 0..k |-> f[i]]
    BY <1>3 DEF IsChain
  <2> HIDE DEF step
  <2> QED
    BY <2>1, <2>2
<1>6. PICK g : Offset(dims, index) = g[k] /\ g = [i \in 0..k |-> step(g, i)]
  <2> HIDE DEF step
  <2> QED
    BY <1>4, <1>5
<1>7. \A i \in 0..k : g[i] = step(g, i)
  <2> HIDE DEF step
  <2> QED
    BY <1>6
<1>8. g[0] = 0 /\ \A i \in 1..k : g[i] = g[i - 1] * dims[i] + index[i]
  <2>1. 0 \in 0..k /\ \A i \in 1..k : i \in 0..k /\ i # 0
    BY <1>0
  <2> QED
    BY <1>7, <2>1
<1> QED
  BY <1>6, <1>8 DEF k

\* The address of an index below the dimensions is below their product.
LEMMA OffsetBelow ==
  ASSUME NEW dims \in Seq(Nat), NEW index, \A i \in 1..Len(dims) : index[i] \in Below(dims[i])
  PROVE  Offset(dims, index) \in Below(Volume(dims))
<1> DEFINE k == Len(dims)
<1>0. k \in Nat /\ \A i \in 1..k : dims[i] \in Nat /\ index[i] \in Below(dims[i])
  OBVIOUS
<1>1. PICK at : Offset(dims, index) = at[k] /\ at[0] = 0 /\ \A i \in 1..k : at[i] = at[i - 1] * dims[i] + index[i]
  BY OffsetChain
<1>2. PICK f \in [0..k -> Int] : Volume(dims) = f[k] /\ f[0] = 1 /\ \A i \in 1..k : f[i] = f[i - 1] * dims[i]
  BY VolumeChain
<1> HIDE DEF k
<1> DEFINE good == {m \in Nat : m <= k => f[m] \in Nat /\ at[m] \in Below(f[m])}
<1>3. 0 \in good
  BY <1>1, <1>2 DEF Below
<1>4. ASSUME NEW m \in good PROVE m + 1 \in good
  <2> SUFFICES ASSUME m + 1 <= k PROVE f[m + 1] \in Nat /\ at[m + 1] \in Below(f[m + 1])
    OBVIOUS
  <2>1. f[m] \in Nat /\ at[m] \in Below(f[m]) /\ m + 1 \in 1..k /\ (m + 1) - 1 = m
    BY <1>0
  <2>2. dims[m + 1] \in Nat /\ index[m + 1] \in Below(dims[m + 1])
    BY <1>0, <2>1
  <2>3. f[m + 1] = f[m] * dims[m + 1] /\ at[m + 1] = at[m] * dims[m + 1] + index[m + 1]
    BY <1>1, <1>2, <2>1
  <2>4. at[m] * dims[m + 1] + index[m + 1] \in Below(f[m] * dims[m + 1])
    BY <2>1, <2>2, PlaceBelow
  <2>5. f[m] * dims[m + 1] \in Nat
    BY <2>1, <2>2
  <2> QED
    BY <2>3, <2>4, <2>5
<1>5. \A m \in Nat : m \in good
  <2>1. good \in SUBSET Nat
    OBVIOUS
  <2> HIDE DEF good
  <2> QED
    BY <1>3, <1>4, <2>1, EveryNatural
<1>6. at[k] \in Below(f[k])
  BY <1>0, <1>5
<1> QED
  BY <1>1, <1>2, <1>6

-----------------------------------------------------------------------------
(* What lies in the tensors. *)

\* The numbers of elements a size_t holds are the products of the extents.
AllocatedOf(c) == \A role \in DOMAIN c.t : Volume(c.t[role].shape) < SizeMod
InTensor(c, x) == x[1] \in DOMAIN c.t => x[2] \in Below(Elements(c, x[1]))

LEMMA ShapeOf ==
  ASSUME NEW c, CallAssumed(c), NEW role \in DOMAIN c.t
  PROVE  /\ c.t[role].shape \in Seq(Nat) /\ Elements(c, role) \in Nat
         /\ \A i \in 1..Len(c.t[role].shape) : c.t[role].shape[i] \in Nat
<1>1. c.t[role].shape \in Seq(Sizes)
  BY DEF CallAssumed
<1>2. Sizes \subseteq Nat
  BY DEF Sizes, Below
<1> DEFINE shape == c.t[role].shape
<1> HIDE DEF shape
<1>3. shape \in Seq(Nat)
  <2>1. shape \in Seq(Sizes)
    BY <1>1 DEF shape
  <2> QED
    BY <1>2, <2>1, SeqMonotonic
<1>4. Numel(shape) \in Nat /\ \A i \in 1..Len(shape) : shape[i] \in Nat
  BY <1>3, NumelIsNat, ElementOfSeq
<1> QED
  BY <1>3, <1>4 DEF Elements, shape

LEMMA ElementsAreVolume ==
  ASSUME NEW c, CallAssumed(c), AllocatedOf(c), NEW role \in DOMAIN c.t
  PROVE  Elements(c, role) = Volume(c.t[role].shape)
<1>1. c.t[role].shape \in Seq(Nat)
  BY ShapeOf
<1>2. Volume(c.t[role].shape) \in Nat /\ Numel(c.t[role].shape) = Size(Volume(c.t[role].shape))
  BY <1>1, NumelOfVolume
<1>3. Volume(c.t[role].shape) < SizeMod
  BY DEF AllocatedOf
<1> QED
  BY <1>2, <1>3, SizeOfSmall DEF Elements

\* An index below the extents is that of an element.
LEMMA CellInTensor ==
  ASSUME NEW c, CallAssumed(c), AllocatedOf(c), NEW role, NEW index,
         role \in DOMAIN c.t =>
           \A i \in 1..Len(c.t[role].shape) : index[i] \in Below(c.t[role].shape[i])
  PROVE  InTensor(c, Cell(role, c.t[role].shape, index))
<1> SUFFICES ASSUME role \in DOMAIN c.t
             PROVE  Offset(c.t[role].shape, index) \in Below(Elements(c, role))
  BY DEF InTensor, Cell
<1>1. c.t[role].shape \in Seq(Nat)
  BY ShapeOf
<1>2. Offset(c.t[role].shape, index) \in Below(Volume(c.t[role].shape))
  BY <1>1, OffsetBelow
<1> QED
  BY <1>2, ElementsAreVolume

LEMMA ImageInTensor ==
  ASSUME NEW c, CallAssumed(c), AllocatedOf(c), NEW role, Len(c.t[role].shape) = 4,
         NEW n \in Below(c.t[role].shape[1]), NEW k \in Below(c.t[role].shape[2]),
         NEW h \in Below(c.t[role].shape[3]), NEW w \in Below(c.t[role].shape[4])
  PROVE  InTensor(c, Cell(role, c.t[role].shape, <<n, k, h, w>>))
<1> DEFINE index == <<n, k, h, w>>
<1>1. \A i \in 1..4 : i = 1 \/ i = 2 \/ i = 3 \/ i = 4
  OBVIOUS
<1>2. index[1] = n /\ index[2] = k /\ index[3] = h /\ index[4] = w
  OBVIOUS
<1> HIDE DEF index
<1>3. \A i \in 1..Len(c.t[role].shape) : index[i] \in Below(c.t[role].shape[i])
  BY <1>1, <1>2
<1>4. InTensor(c, Cell(role, c.t[role].shape, index))
  BY <1>3, CellInTensor
<1> QED
  BY <1>4 DEF index

LEMMA MatrixInTensor ==
  ASSUME NEW c, CallAssumed(c), AllocatedOf(c), NEW role, Len(c.t[role].shape) = 2,
         NEW n \in Below(c.t[role].shape[1]), NEW k \in Below(c.t[role].shape[2])
  PROVE  /\ InTensor(c, Cell(role, c.t[role].shape, <<n, k>>))
         /\ InTensor(c, <<role, n * c.t[role].shape[2] + k>>)
<1> DEFINE index == <<n, k>>   shape == c.t[role].shape
<1>1. \A i \in 1..2 : i = 1 \/ i = 2
  OBVIOUS
<1>2. index[1] = n /\ index[2] = k
  OBVIOUS
<1> HIDE DEF index
<1>3. \A i \in 1..Len(c.t[role].shape) : index[i] \in Below(c.t[role].shape[i])
  BY <1>1, <1>2
<1>4. InTensor(c, Cell(role, shape, index))
  BY <1>3, CellInTensor
<1>5. role \in DOMAIN c.t => Offset(shape, index) = n * shape[2] + k
  <2> SUFFICES ASSUME role \in DOMAIN c.t PROVE Offset(shape, index) = n * shape[2] + k
    OBVIOUS
  <2>1. shape \in Seq(Nat) /\ Len(shape) = 2
    BY ShapeOf
  <2> HIDE DEF shape
  <2>2. shape = <<shape[1], shape[2]>> /\ shape[1] \in Int /\ shape[2] \in Int
    BY <2>1
  <2>3. n \in Int /\ k \in Int
    BY DEF Below
  <2>4. PICK a \in Int, b \in Int : a = shape[1] /\ b = shape[2]
    BY <2>2
  <2>5. Offset(<<a, b>>, <<n, k>>) = n * b + k
    BY <2>3, OffsetOfPair
  <2> QED
    BY <2>2, <2>4, <2>5 DEF index
<1> QED
  BY <1>4, <1>5 DEF index, Cell, InTensor

LEMMA VectorInTensor ==
  ASSUME NEW c, CallAssumed(c), AllocatedOf(c), NEW role, NEW n,
         role \in DOMAIN c.t => Len(c.t[role].shape) = 1 /\ c.t[role].shape[1] = n,
         NEW k \in Below(n)
  PROVE  InTensor(c, <<role, k>>)
<1> SUFFICES ASSUME role \in DOMAIN c.t PROVE k \in Below(Elements(c, role))
  BY DEF InTensor
<1> DEFINE index == <<k>>   shape == c.t[role].shape
<1>1. shape \in Seq(Nat) /\ Len(shape) = 1 /\ shape[1] = n
  BY ShapeOf
<1>2. \A i \in 1..1 : i = 1
  OBVIOUS
<1>3. index[1] = k
  OBVIOUS
<1> HIDE DEF index
<1>4. \A i \in 1..Len(shape) : index[i] \in Below(shape[i])
  BY <1>1, <1>2, <1>3
<1>5. InTensor(c, Cell(role, shape, index))
  BY <1>4, CellInTensor
<1>6. Offset(shape, index) \in Below(Elements(c, role))
  BY <1>5 DEF InTensor, Cell
<1> HIDE DEF shape
<1>7. PICK at : /\ Offset(shape, index) = at[Len(shape)] /\ at[0] = 0
                /\ \A i \in 1..Len(shape) : at[i] = at[i - 1] * shape[i] + index[i]
  BY <1>1, <1>4, OffsetChain
<1>8. at[1] = 0 * shape[1] + k
  <2>1. at[1] = at[1 - 1] * shape[1] + index[1]
    BY <1>1, <1>7
  <2> QED
    BY <1>3, <1>7, <2>1
<1>9. n \in Nat /\ k \in Int
  BY <1>1 DEF Below
<1> QED
  BY <1>1, <1>6, <1>7, <1>8, <1>9

SafeTerm(c, term) == \A k \in DOMAIN term : InTensor(c, term[k])
Safe(c, e) == \A x \in Reads(e) \cup {e.to} : InTensor(c, x)
AllSafe(c, effects) == \A e \in effects : Safe(c, e)

LEMMA SafeWhen ==
  ASSUME NEW c, NEW e, InTensor(c, e.to), \A term \in e.terms : SafeTerm(c, term)
  PROVE  Safe(c, e)
BY Zenon DEF Safe, SafeTerm, Reads

LEMMA SafeEffect ==
  ASSUME NEW c, NEW cell, NEW terms, InTensor(c, cell), \A term \in terms : SafeTerm(c, term)
  PROVE  Safe(c, Effect(cell, terms)) /\ Safe(c, Add(cell, terms)) /\ Safe(c, AtomicAdd(cell, terms))
<1>1. ASSUME NEW e, e.to = cell, e.terms = terms PROVE Safe(c, e)
  BY <1>1, SafeWhen
<1>2. /\ Effect(cell, terms).to = cell /\ Effect(cell, terms).terms = terms
      /\ Add(cell, terms).to = cell /\ Add(cell, terms).terms = terms
      /\ AtomicAdd(cell, terms).to = cell /\ AtomicAdd(cell, terms).terms = terms
  BY DEF Effect, Add, AtomicAdd
<1> QED
  BY <1>1, <1>2

LEMMA SafeProducts ==
  ASSUME NEW c
  PROVE  /\ \A x : InTensor(c, x) => SafeTerm(c, <<x>>)
         /\ \A x, y : InTensor(c, x) /\ InTensor(c, y) => SafeTerm(c, <<x, y>>)
         /\ \A x, y, z : InTensor(c, x) /\ InTensor(c, y) /\ InTensor(c, z) => SafeTerm(c, <<x, y, z>>)
<1>1. ASSUME NEW x, InTensor(c, x) PROVE SafeTerm(c, <<x>>)
  <2>1. \A k \in DOMAIN <<x>> : <<x>>[k] = x
    OBVIOUS
  <2> QED
    BY <1>1, <2>1 DEF SafeTerm
<1>2. ASSUME NEW x, NEW y, InTensor(c, x), InTensor(c, y) PROVE SafeTerm(c, <<x, y>>)
  <2>1. \A k \in DOMAIN <<x, y>> : <<x, y>>[k] \in {x, y}
    OBVIOUS
  <2> QED
    BY <1>2, <2>1 DEF SafeTerm
<1>3. ASSUME NEW x, NEW y, NEW z, InTensor(c, x), InTensor(c, y), InTensor(c, z) PROVE SafeTerm(c, <<x, y, z>>)
  <2>1. \A k \in DOMAIN <<x, y, z>> : <<x, y, z>>[k] \in {x, y, z}
    OBVIOUS
  <2> QED
    BY <1>3, <2>1 DEF SafeTerm
<1> QED
  BY <1>1, <1>2, <1>3

LEMMA FourExtents ==
  ASSUME NEW shape \in Seq(Nat), Len(shape) = 4
  PROVE  /\ shape = <<shape[1], shape[2], shape[3], shape[4]>>
         /\ shape[1] \in Nat /\ shape[2] \in Nat /\ shape[3] \in Nat /\ shape[4] \in Nat
<1> DEFINE four == <<shape[1], shape[2], shape[3], shape[4]>>
<1>1. shape[1] \in Nat /\ shape[2] \in Nat /\ shape[3] \in Nat /\ shape[4] \in Nat
  <2>1. \A i \in 1..4 : shape[i] \in Nat
    BY ElementOfSeq
  <2>2. 1 \in 1..4 /\ 2 \in 1..4 /\ 3 \in 1..4 /\ 4 \in 1..4
    OBVIOUS
  <2> QED
    BY <2>1, <2>2, Zenon
<1>2. four \in Seq(Nat) /\ Len(four) = 4 /\ \A i \in 1..4 : four[i] = shape[i]
  <2>1. \A i \in 1..4 : i = 1 \/ i = 2 \/ i = 3 \/ i = 4
    OBVIOUS
  <2>2. four[1] = shape[1] /\ four[2] = shape[2] /\ four[3] = shape[3] /\ four[4] = shape[4] /\ Len(four) = 4
    OBVIOUS
  <2>3. four \in Seq(Nat)
    BY <1>1
  <2> HIDE DEF four
  <2> QED
    BY <2>1, <2>2, <2>3
<1> HIDE DEF four
<1>3. shape = four
  BY <1>2, SeqEqual
<1> QED
  BY <1>1, <1>3 DEF four

-----------------------------------------------------------------------------
(* Convolutions stay in their tensors. *)

\* A window over an unpadded axis ends before the axis does.
LEMMA WindowEnds ==
  ASSUME NEW in \in Sizes, NEW kernel \in Nat, kernel <= in, NEW stride \in Nat \ {0},
         NEW out, out = OutputSize(in, kernel, 0, stride), NEW o \in Below(out), NEW r \in Below(kernel)
  PROVE  o * stride + r \in Below(in)
<1>1. in \in Nat /\ in < SizeMod /\ in - kernel \in Nat /\ in + 2 * 0 - kernel = in - kernel
  BY SizeModAssumption DEF Sizes, Below
<1>2. PICK room \in Nat : room = in - kernel
  BY <1>1
<1>3. Size(in + 2 * 0 - kernel) = room
  <2>1. room < SizeMod
    BY <1>1, <1>2, SizeModAssumption
  <2> QED
    BY <1>1, <1>2, <2>1, SizeOfSmall
<1>4. PICK q \in Nat : q = room \div stride
  BY Quotient
<1>5. q * stride <= room
  <2>1. /\ room \div stride \in Nat /\ room % stride \in Below(stride)
        /\ room = (room \div stride) * stride + (room % stride)
    BY Quotient
  <2>2. PICK b \in Below(stride) : b = room % stride
    BY <2>1
  <2>3. room = q * stride + b /\ b >= 0 /\ b \in Int /\ q * stride \in Int
    BY <1>4, <2>1, <2>2 DEF Below
  <2> QED
    BY <2>3
<1>6. out = Size(q + 1)
  BY <1>3, <1>4 DEF OutputSize
<1>7. o <= q /\ o \in Nat
  <2>1. PICK m \in Nat \ {0} : m = SizeMod
    BY SizeModAssumption
  <2>2. PICK a \in Nat, b \in Nat : a = (q + 1) \div m /\ b = (q + 1) % m /\ q + 1 = a * m + b
    <3>1. \A y \in Below(m) : y \in Nat
      BY DEF Below
    <3>2. q + 1 \in Nat
      OBVIOUS
    <3> QED
      BY <3>1, <3>2, Quotient
  <2>3. a * m \in Nat
    OBVIOUS
  <2>4. out = b
    BY <1>6, <2>1, <2>2 DEF Size
  <2> QED
    BY <2>2, <2>3, <2>4 DEF Below
<1>8. o * stride <= q * stride /\ o * stride \in Nat
  BY <1>7, ProductGrows
<1>9. r \in Nat /\ r < kernel
  BY DEF Below
<1>10. PICK x \in Nat, y \in Nat : x = o * stride /\ y = q * stride
  BY <1>7
<1> QED
  BY <1>1, <1>2, <1>5, <1>8, <1>9, <1>10 DEF Below

ConvLaid(c) ==
  LET d == ConvDims(c) IN
  /\ ConvMeasured(c)
  /\ c.t["input"].shape = <<d.N, d.C, d.H, d.W>> /\ Len(c.t["input"].shape) = 4
  /\ c.t["kernels"].shape = <<d.K, d.C, d.R, d.S>> /\ Len(c.t["kernels"].shape) = 4
  /\ c.t["result"].shape = <<d.N, d.K, d.OH, d.OW>> /\ Len(c.t["result"].shape) = 4
  /\ "bias" \in DOMAIN c.t => Len(c.t["bias"].shape) = 1 /\ c.t["bias"].shape[1] = d.K

LEMMA ConvIsLaid ==
  ASSUME NEW c, CallAssumed(c), c.op = "conv2d", Entry(c) # Threw
  PROVE  ConvLaid(c)
<1> DEFINE t == c.t   d == ConvDims(c)
<1>1. validate_conv2d_inputs(t["input"], t["kernels"], Optional(c, "bias"), t["result"], c.o)
  BY Zenon DEF Entry, conv2d, Checked
<1>2. /\ Len(t["input"].shape) = 4 /\ Len(t["kernels"].shape) = 4 /\ Len(t["result"].shape) = 4
      /\ t["result"].shape[1] = t["input"].shape[1] /\ t["result"].shape[2] = t["kernels"].shape[1]
      /\ t["input"].shape[2] = t["kernels"].shape[2]
  BY <1>1 DEF validate_conv2d_inputs, AllRank, Rank, Outputs
<1>3. \A b \in Optional(c, "bias") : Len(b.shape) = 1 /\ b.shape[1] = t["kernels"].shape[1]
  BY <1>1 DEF validate_conv2d_inputs, AllRank, Rank
<1>4. "input" \in DOMAIN t /\ "kernels" \in DOMAIN t /\ "result" \in DOMAIN t
  BY DEF CallAssumed, Takes
<1>5. t["input"].shape \in Seq(Nat) /\ t["kernels"].shape \in Seq(Nat) /\ t["result"].shape \in Seq(Nat)
  BY <1>4, ShapeOf
<1>7. /\ d.N = t["input"].shape[1] /\ d.C = t["input"].shape[2] /\ d.H = t["input"].shape[3]
      /\ d.W = t["input"].shape[4] /\ d.K = t["kernels"].shape[1] /\ d.R = t["kernels"].shape[3]
      /\ d.S = t["kernels"].shape[4] /\ d.OH = t["result"].shape[3] /\ d.OW = t["result"].shape[4]
  BY DEF ConvDims
<1> HIDE DEF d
<1>8. t["input"].shape = <<d.N, d.C, d.H, d.W>> /\ d.N \in Nat /\ d.C \in Nat /\ d.H \in Nat /\ d.W \in Nat
  BY <1>2, <1>5, <1>7, FourExtents
<1>9. t["kernels"].shape = <<d.K, d.C, d.R, d.S>> /\ d.K \in Nat /\ d.R \in Nat /\ d.S \in Nat
  BY <1>2, <1>5, <1>7, FourExtents
<1>10. t["result"].shape = <<d.N, d.K, d.OH, d.OW>> /\ d.OH \in Nat /\ d.OW \in Nat
  BY <1>2, <1>5, <1>7, FourExtents
<1>11. "bias" \in DOMAIN t => Len(t["bias"].shape) = 1 /\ t["bias"].shape[1] = d.K
  BY <1>3, <1>7 DEF Optional
<1> QED
  BY <1>2, <1>8, <1>9, <1>10, <1>11 DEF ConvLaid, ConvMeasured, d

ConvRead(c, n, k, term) ==
  LET d == ConvDims(c) IN
  \/ term \in UsedBias(c, k)
  \/ \E ch \in Below(d.C), r \in Below(d.R), s \in Below(d.S), h \in Below(d.H), w \in Below(d.W) :
       term = <<Cell("input", <<d.N, d.C, d.H, d.W>>, <<n, ch, h, w>>),
                Cell("kernels", <<d.K, d.C, d.R, d.S>>, <<k, ch, r, s>>)>>

LEMMA ConvReadSafe ==
  ASSUME NEW c, CallAssumed(c), AllocatedOf(c), ConvLaid(c), NEW n \in Below(ConvDims(c).N),
         NEW k \in Below(ConvDims(c).K), NEW term, ConvRead(c, n, k, term)
  PROVE  SafeTerm(c, term)
<1> DEFINE d == ConvDims(c)
<1>1. CASE term \in UsedBias(c, k)
  <2>1. term = << <<"bias", k>> >>
    BY <1>1 DEF UsedBias
  <2>2. "bias" \in DOMAIN c.t => Len(c.t["bias"].shape) = 1 /\ c.t["bias"].shape[1] = d.K
    BY DEF ConvLaid
  <2>3. InTensor(c, <<"bias", k>>)
    BY <2>2, VectorInTensor
  <2> QED
    BY <2>1, <2>3, SafeProducts
<1>2. CASE term \notin UsedBias(c, k)
  <2>1. PICK ch \in Below(d.C), r \in Below(d.R), s \in Below(d.S), h \in Below(d.H), w \in Below(d.W) :
          term = <<Cell("input", <<d.N, d.C, d.H, d.W>>, <<n, ch, h, w>>),
                   Cell("kernels", <<d.K, d.C, d.R, d.S>>, <<k, ch, r, s>>)>>
    BY <1>2 DEF ConvRead
  <2>2. /\ c.t["input"].shape = <<d.N, d.C, d.H, d.W>> /\ Len(c.t["input"].shape) = 4
        /\ c.t["kernels"].shape = <<d.K, d.C, d.R, d.S>> /\ Len(c.t["kernels"].shape) = 4
    BY DEF ConvLaid
  <2> HIDE DEF d
  <2>3. /\ c.t["input"].shape[1] = d.N /\ c.t["input"].shape[2] = d.C
        /\ c.t["input"].shape[3] = d.H /\ c.t["input"].shape[4] = d.W
        /\ c.t["kernels"].shape[1] = d.K /\ c.t["kernels"].shape[2] = d.C
        /\ c.t["kernels"].shape[3] = d.R /\ c.t["kernels"].shape[4] = d.S
    BY <2>2
  <2>4. n \in Below(d.N) /\ k \in Below(d.K)
    BY DEF d
  <2>5. InTensor(c, Cell("input", c.t["input"].shape, <<n, ch, h, w>>))
    BY <2>2, <2>3, <2>4, ImageInTensor
  <2>6. InTensor(c, Cell("kernels", c.t["kernels"].shape, <<k, ch, r, s>>))
    BY <2>2, <2>3, <2>4, ImageInTensor
  <2> QED
    BY <2>1, <2>2, <2>5, <2>6, SafeProducts
<1> QED
  BY <1>1, <1>2

LEMMA ConvWriteSafe ==
  ASSUME NEW c, CallAssumed(c), AllocatedOf(c), ConvLaid(c), NEW n \in Below(ConvDims(c).N),
         NEW k \in Below(ConvDims(c).K), NEW oh \in Below(ConvDims(c).OH), NEW ow \in Below(ConvDims(c).OW),
         NEW e, e.to = Cell("result", <<ConvDims(c).N, ConvDims(c).K, ConvDims(c).OH, ConvDims(c).OW>>,
                            <<n, k, oh, ow>>),
         \A term \in e.terms : ConvRead(c, n, k, term)
  PROVE  Safe(c, e)
<1> DEFINE d == ConvDims(c)
<1>1. c.t["result"].shape = <<d.N, d.K, d.OH, d.OW>> /\ Len(c.t["result"].shape) = 4
  BY DEF ConvLaid
<1>2. n \in Below(d.N) /\ k \in Below(d.K) /\ oh \in Below(d.OH) /\ ow \in Below(d.OW)
      /\ e.to = Cell("result", <<d.N, d.K, d.OH, d.OW>>, <<n, k, oh, ow>>)
  OBVIOUS
<1>3. \A term \in e.terms : SafeTerm(c, term)
  BY ConvReadSafe
<1> HIDE DEF d
<1>4. /\ c.t["result"].shape[1] = d.N /\ c.t["result"].shape[2] = d.K
      /\ c.t["result"].shape[3] = d.OH /\ c.t["result"].shape[4] = d.OW
  BY <1>1
<1>5. InTensor(c, Cell("result", c.t["result"].shape, <<n, k, oh, ow>>))
  BY <1>1, <1>2, <1>4, ImageInTensor
<1> QED
  BY <1>1, <1>2, <1>3, <1>5, SafeWhen

\* Where a kernel reads without looking, the windows end in the input.
Unguarded(c) ==
  LET d == ConvDims(c) IN
  /\ \A o \in Below(d.OH), r \in Below(d.R) : o * c.o.stride[1] + r \in Below(d.H)
  /\ \A o \in Below(d.OW), s \in Below(d.S) : o * c.o.stride[2] + s \in Below(d.W)

LEMMA ConvUnguarded ==
  ASSUME NEW c, CallAssumed(c), c.op = "conv2d", Entry(c) # Threw,
         c.o.padding = <<0, 0>>, c.o.dilation = <<1, 1>>
  PROVE  Unguarded(c)
<1> DEFINE t == c.t   d == ConvDims(c)   o == c.o
           effective == EffectiveKernels(t["kernels"], o)
<1>1. /\ NonZero(o.stride) /\ Fits(t["input"].shape, effective, o.padding)
      /\ t["result"].shape = Outputs(t["input"].shape, t["kernels"].shape[1], effective, o.padding, o.stride)
  BY Zenon DEF Entry, conv2d, Checked, validate_conv2d_inputs
<1>2. ConvLaid(c)
  BY ConvIsLaid
<1>3. "input" \in DOMAIN t /\ "kernels" \in DOMAIN t /\ "result" \in DOMAIN t
  BY DEF CallAssumed, Takes
<1>4. ASSUME NEW a \in Axes, NEW in, NEW kernel, NEW out,
             in = t["input"].shape[2 + a], kernel = t["kernels"].shape[2 + a],
             out = OutputSize(in, effective[a], o.padding[a], o.stride[a]),
             NEW i \in Below(out), NEW r \in Below(kernel)
      PROVE  i * o.stride[a] + r \in Below(in)
  <2>1. a \in {1, 2} /\ o.stride[a] \in Sizes /\ o.stride[a] # 0
    BY <1>1 DEF Axes, NonZero, CallAssumed
  <2>2. in \in Sizes /\ kernel \in Sizes
    <3>1. t["input"].shape \in Seq(Sizes) /\ t["kernels"].shape \in Seq(Sizes)
      BY <1>3 DEF CallAssumed
    <3>2. Len(t["input"].shape) = 4 /\ Len(t["kernels"].shape) = 4
      BY <1>2 DEF ConvLaid
    <3>3. 2 + a \in 1..4
      BY <2>1
    <3> QED
      BY <1>4, <3>1, <3>2, <3>3, ElementOfSeq
  <2>3. o.padding[a] = 0 /\ o.dilation[a] = 1
    BY <2>1
  <2>4. effective[a] = Size(kernel)
    <3>1. effective[a] = EffectiveKernel(kernel, 1)
      BY <1>4, <2>1, <2>3 DEF EffectiveKernels, Axes
    <3>2. 1 * (kernel - 1) + 1 = kernel
      BY <2>2 DEF Sizes, Below
    <3> QED
      BY <3>1, <3>2 DEF EffectiveKernel
  <2>5. kernel \in Nat /\ kernel < SizeMod /\ in \in Nat /\ in < SizeMod
    BY <2>2, SizeModAssumption DEF Sizes, Below
  <2>6. effective[a] = kernel
    BY <2>4, <2>5, SizeOfSmall
  <2>7. kernel <= in
    <3>1. effective[a] <= Size(t["input"].shape[2 + a] + 2 * o.padding[a])
      BY <1>1 DEF Fits
    <3>2. in + 2 * 0 = in
      BY <2>5
    <3>3. Size(in) = in
      BY <2>5, SizeOfSmall
    <3> HIDE DEF effective
    <3> QED
      BY <1>4, <2>3, <2>6, <3>1, <3>2, <3>3
  <2>8. out = OutputSize(in, kernel, 0, o.stride[a])
    BY <1>4, <2>3, <2>6
  <2>9. o.stride[a] \in Nat \ {0}
    BY <2>1 DEF Sizes, Below
  <2> QED
    BY <2>2, <2>5, <2>7, <2>8, <2>9, <1>4, WindowEnds
<1>5. /\ d.H = t["input"].shape[3] /\ d.W = t["input"].shape[4] /\ d.R = t["kernels"].shape[3]
      /\ d.S = t["kernels"].shape[4] /\ d.OH = t["result"].shape[3] /\ d.OW = t["result"].shape[4]
  BY DEF ConvDims
<1>6. /\ t["result"].shape[3] = OutputSize(t["input"].shape[3], effective[1], o.padding[1], o.stride[1])
      /\ t["result"].shape[4] = OutputSize(t["input"].shape[4], effective[2], o.padding[2], o.stride[2])
  <2> HIDE DEF effective
  <2> QED
    BY <1>1 DEF Outputs
<1>7. 2 + 1 = 3 /\ 2 + 2 = 4 /\ 1 \in Axes /\ 2 \in Axes
  BY DEF Axes
<1> HIDE DEF effective, d
<1>8. \A i \in Below(d.OH), r \in Below(d.R) : i * o.stride[1] + r \in Below(d.H)
  BY <1>4, <1>5, <1>6, <1>7
<1>9. \A i \in Below(d.OW), r \in Below(d.S) : i * o.stride[2] + r \in Below(d.W)
  BY <1>4, <1>5, <1>6, <1>7
<1> QED
  BY <1>8, <1>9 DEF Unguarded, d

LEMMA ConvCellsSafe ==
  ASSUME NEW c, CallAssumed(c), AllocatedOf(c), ConvLaid(c), NEW n \in Below(ConvDims(c).N),
         NEW k \in Below(ConvDims(c).K), NEW oh \in Below(ConvDims(c).OH), NEW ow \in Below(ConvDims(c).OW)
  PROVE  /\ Safe(c, PaddedCell(c, n, k, oh, ow)) /\ Safe(c, GeneralCell(c, n, k, oh, ow))
         /\ Unguarded(c) => Safe(c, StridedCell(c, n, k, oh, ow))
         /\ Unguarded(c) /\ c.o.stride = <<1, 1>> => Safe(c, ValidCell(c, n, k, oh, ow))
<1> DEFINE d == ConvDims(c)
           cell == Cell("result", <<d.N, d.K, d.OH, d.OW>>, <<n, k, oh, ow>>)
<1>1. /\ ValidCell(c, n, k, oh, ow).to = cell /\ StridedCell(c, n, k, oh, ow).to = cell
      /\ PaddedCell(c, n, k, oh, ow).to = cell /\ GeneralCell(c, n, k, oh, ow).to = cell
  BY DEF ValidCell, StridedCell, PaddedCell, GeneralCell, ConvCell, Effect
<1>2. Safe(c, PaddedCell(c, n, k, oh, ow))
  <2> DEFINE e == PaddedCell(c, n, k, oh, ow)
  <2>1. ASSUME NEW term \in e.terms PROVE ConvRead(c, n, k, term)
    <3>1. term \in UsedBias(c, k) \/
          \E ch \in Below(d.C), r \in Below(d.R), s \in Below(d.S) :
            /\ oh + r - c.o.padding[1] \in Below(d.H) /\ ow + s - c.o.padding[2] \in Below(d.W)
            /\ term = <<Cell("input", <<d.N, d.C, d.H, d.W>>, <<n, ch, oh + r - c.o.padding[1], ow + s - c.o.padding[2]>>),
                          Cell("kernels", <<d.K, d.C, d.R, d.S>>, <<k, ch, r, s>>)>>
      BY DEF PaddedCell, ConvCell, Effect
    <3> QED
      BY <3>1 DEF ConvRead
  <2> HIDE DEF e
  <2>2. e.to = cell
    BY <1>1 DEF e
  <2>3. Safe(c, e)
    BY <2>1, <2>2, ConvWriteSafe
  <2> QED
    BY <2>3 DEF e
<1>3. Safe(c, GeneralCell(c, n, k, oh, ow))
  <2> DEFINE e == GeneralCell(c, n, k, oh, ow)
  <2>1. ASSUME NEW term \in e.terms PROVE ConvRead(c, n, k, term)
    <3>1. term \in UsedBias(c, k) \/
          \E ch \in Below(d.C), r \in Below(d.R), s \in Below(d.S) :
            /\ oh * c.o.stride[1] + r * c.o.dilation[1] - c.o.padding[1] \in Below(d.H) /\ ow * c.o.stride[2] + s * c.o.dilation[2] - c.o.padding[2] \in Below(d.W)
            /\ term = <<Cell("input", <<d.N, d.C, d.H, d.W>>, <<n, ch, oh * c.o.stride[1] + r * c.o.dilation[1] - c.o.padding[1], ow * c.o.stride[2] + s * c.o.dilation[2] - c.o.padding[2]>>),
                          Cell("kernels", <<d.K, d.C, d.R, d.S>>, <<k, ch, r, s>>)>>
      BY DEF GeneralCell, ConvCell, Effect
    <3> QED
      BY <3>1 DEF ConvRead
  <2> HIDE DEF e
  <2>2. e.to = cell
    BY <1>1 DEF e
  <2>3. Safe(c, e)
    BY <2>1, <2>2, ConvWriteSafe
  <2> QED
    BY <2>3 DEF e
<1>4. ASSUME Unguarded(c) PROVE Safe(c, StridedCell(c, n, k, oh, ow))
  <2> DEFINE e == StridedCell(c, n, k, oh, ow)
  <2>1. ASSUME NEW term \in e.terms PROVE ConvRead(c, n, k, term)
    <3>1. term \in UsedBias(c, k) \/
          \E ch \in Below(d.C), r \in Below(d.R), s \in Below(d.S) :
            /\ term = <<Cell("input", <<d.N, d.C, d.H, d.W>>, <<n, ch, oh * c.o.stride[1] + r, ow * c.o.stride[2] + s>>),
                          Cell("kernels", <<d.K, d.C, d.R, d.S>>, <<k, ch, r, s>>)>>
      BY DEF StridedCell, ConvCell, Effect
    <3>2. /\ \A r \in Below(d.R) : oh * c.o.stride[1] + r \in Below(d.H)
          /\ \A s \in Below(d.S) : ow * c.o.stride[2] + s \in Below(d.W)
      BY <1>4 DEF Unguarded
    <3> QED
      BY <3>1, <3>2 DEF ConvRead
  <2> HIDE DEF e
  <2>2. e.to = cell
    BY <1>1 DEF e
  <2>3. Safe(c, e)
    BY <2>1, <2>2, ConvWriteSafe
  <2> QED
    BY <2>3 DEF e
<1>5. ASSUME Unguarded(c), c.o.stride = <<1, 1>> PROVE Safe(c, ValidCell(c, n, k, oh, ow))
  <2> DEFINE e == ValidCell(c, n, k, oh, ow)
  <2>1. ASSUME NEW term \in e.terms PROVE ConvRead(c, n, k, term)
    <3>1. term \in UsedBias(c, k) \/
          \E ch \in Below(d.C), r \in Below(d.R), s \in Below(d.S) :
            /\ term = <<Cell("input", <<d.N, d.C, d.H, d.W>>, <<n, ch, oh + r, ow + s>>),
                          Cell("kernels", <<d.K, d.C, d.R, d.S>>, <<k, ch, r, s>>)>>
      BY DEF ValidCell, ConvCell, Effect
    <3>2. c.o.stride[1] = 1 /\ c.o.stride[2] = 1 /\ oh \in Int /\ ow \in Int
      BY <1>5 DEF Below
    <3>3. oh * 1 = oh /\ ow * 1 = ow
      BY <3>2
    <3>4. /\ \A r \in Below(d.R) : oh + r \in Below(d.H)
          /\ \A s \in Below(d.S) : ow + s \in Below(d.W)
      BY <1>5, <3>2, <3>3 DEF Unguarded
    <3> QED
      BY <3>1, <3>4 DEF ConvRead
  <2> HIDE DEF e
  <2>2. e.to = cell
    BY <1>1 DEF e
  <2>3. Safe(c, e)
    BY <2>1, <2>2, ConvWriteSafe
  <2> QED
    BY <2>3 DEF e
<1> QED
  BY <1>2, <1>3, <1>4, <1>5

\* The kernel a convolution starts, and the cells it may compute.
LEMMA ConvAccepted ==
  ASSUME NEW c, CallAssumed(c), AllocatedOf(c), c.op = "conv2d", Entry(c) # Threw,
         NEW n \in Below(ConvDims(c).N), NEW k \in Below(ConvDims(c).K),
         NEW oh \in Below(ConvDims(c).OH), NEW ow \in Below(ConvDims(c).OW)
  PROVE  Entry(c) \in ConvLoops /\ Safe(c, PlanarCell(c, Entry(c), n, k, oh, ow))
<1>1. ConvLaid(c)
  BY ConvIsLaid
<1>2. Entry(c) = conv2d_float32(c.o)
  BY Zenon DEF Entry, conv2d, conv2d_unchecked, Checked, Launch
<1>3. Entry(c) \in ConvLoops
  BY <1>2 DEF conv2d_float32, ConvLoops
<1>4. /\ Entry(c) = "conv2d_valid" => is_valid_conv2d(c.o)
      /\ Entry(c) = "conv2d_strided" => is_strided_conv2d(c.o)
  BY <1>2 DEF conv2d_float32
<1>5. /\ Entry(c) \in {"conv2d_valid", "conv2d_strided"} => Unguarded(c)
      /\ Entry(c) = "conv2d_valid" => c.o.stride = <<1, 1>>
  BY <1>4, ConvUnguarded DEF is_valid_conv2d, is_strided_conv2d
<1>6. /\ Safe(c, PaddedCell(c, n, k, oh, ow)) /\ Safe(c, GeneralCell(c, n, k, oh, ow))
      /\ Unguarded(c) => Safe(c, StridedCell(c, n, k, oh, ow))
      /\ Unguarded(c) /\ c.o.stride = <<1, 1>> => Safe(c, ValidCell(c, n, k, oh, ow))
  BY <1>1, ConvCellsSafe
<1> QED
  BY <1>3, <1>5, <1>6 DEF ConvLoops, PlanarCell

-----------------------------------------------------------------------------
(* The iterations of the loops and the threads of the grids stay within too. *)

SafeLoop(c, launch) == \A i \in Below(Iterations(c, launch)) : AllSafe(c, Body(c, launch, i))
SafeGrid(c, launch) ==
  \A g \in Grid(c, launch), t \in Threads(launch), m \in 0..LastStage(c, launch) :
    AllSafe(c, Effects(c, launch, g, t, m))

\* An output plane per image and channel: shape is that of the result.
Planes(c, launch) ==
  LET shape == c.t["result"].shape IN
  /\ shape[1] \in Nat /\ shape[2] \in Nat /\ shape[3] \in Nat /\ shape[4] \in Nat
  /\ \A n \in Below(shape[1]), k \in Below(shape[2]), oh \in Below(shape[3]), ow \in Below(shape[4]) :
       Safe(c, PlanarCell(c, launch, n, k, oh, ow))

LEMMA PlanesInGrid ==
  ASSUME NEW c, NEW launch \in Planar, Planes(c, launch)
  PROVE  SafeGrid(c, launch)
<1> DEFINE shape == c.t["result"].shape
<1>1. /\ shape[1] \in Nat /\ shape[2] \in Nat /\ shape[3] \in Nat /\ shape[4] \in Nat
      /\ Output(c, 1) = shape[3] /\ Output(c, 2) = shape[4]
  BY DEF Planes, Output
<1> SUFFICES ASSUME NEW g \in Grid(c, launch), NEW t \in Threads(launch), NEW m,
                    NEW e \in Effects(c, launch, g, t, m)
             PROVE  Safe(c, e)
  BY DEF SafeGrid, AllSafe
<1>2. e \in PlanarKernel(c, launch, g, t)
  BY PlanarLaunch
<1>3. BlockAxis \in Nat \ {0}
  BY BlocksAreNat
<1> HIDE DEF shape
<1>4. g \in Below(DivideUp(shape[4], BlockAxis)) \X Below(DivideUp(shape[3], BlockAxis))
            \X Below(shape[1] * shape[2])
  BY <1>1, PlanarLaunch DEF PlanarGrid, shape
<1>5. t[1] \in Nat /\ t[2] \in Nat
  BY PlanarLaunch DEF Below
<1>6. g[1] \in Nat /\ g[2] \in Nat /\ g[3] \in Below(shape[1] * shape[2])
  <2>1. DivideUp(shape[4], BlockAxis) \in Nat /\ DivideUp(shape[3], BlockAxis) \in Nat
    BY <1>1, <1>3, DividedUp
  <2>2. /\ g[1] \in Below(DivideUp(shape[4], BlockAxis)) /\ g[2] \in Below(DivideUp(shape[3], BlockAxis))
        /\ g[3] \in Below(shape[1] * shape[2])
    BY <1>4
  <2> QED
    BY <2>1, <2>2 DEF Below
<1>7. PICK oh \in Nat, ow \in Nat : oh = g[2] * BlockAxis + t[2] /\ ow = g[1] * BlockAxis + t[1]
  <2>1. PICK p \in Nat, q \in Nat : p = g[2] * BlockAxis /\ q = g[1] * BlockAxis
    BY <1>3, <1>6
  <2>2. g[2] * BlockAxis + t[2] \in Nat /\ g[1] * BlockAxis + t[1] \in Nat
    BY <1>5, <2>1
  <2> QED
    BY <2>2
<1>8. /\ ~(oh >= Output(c, 1)) /\ ~(ow >= Output(c, 2))
      /\ e = PlanarCell(c, launch, g[3] \div shape[2], g[3] % shape[2], oh, ow)
  <2>1. PICK deep : deep = c.t["result"].shape[2]
    OBVIOUS
  <2>2. /\ ~(oh >= Output(c, 1)) /\ ~(ow >= Output(c, 2))
        /\ e = PlanarCell(c, launch, g[3] \div deep, g[3] % deep, oh, ow)
    BY <1>2, <1>7, <2>1, PlanarCells
  <2> QED
    BY <2>1, <2>2 DEF shape
<1>9. oh \in Below(shape[3]) /\ ow \in Below(shape[4])
  BY <1>1, <1>8 DEF Below
<1>10. g[3] \div shape[2] \in Below(shape[1]) /\ g[3] % shape[2] \in Below(shape[2])
  BY <1>1, <1>6, QuotientBelow
<1> QED
  BY <1>8, <1>9, <1>10 DEF Planes, shape

LEMMA ConvSafe ==
  ASSUME NEW c, CallAssumed(c), AllocatedOf(c), c.op = "conv2d", Entry(c) # Threw
  PROVE  SafeLoop(c, Entry(c)) /\ SafeGrid(c, Entry(c))
<1> DEFINE d == ConvDims(c)   launch == Entry(c)
<1>1. /\ d.N \in Nat /\ d.K \in Nat /\ d.OH \in Nat /\ d.OW \in Nat
      /\ c.t["result"].shape = <<d.N, d.K, d.OH, d.OW>>
  BY ConvIsLaid DEF ConvLaid, ConvMeasured
<1>2. launch \in ConvLoops
  <2>1. launch = conv2d_float32(c.o)
    BY Zenon DEF Entry, conv2d, conv2d_unchecked, Checked, Launch
  <2> QED
    BY <2>1 DEF conv2d_float32, ConvLoops
<1>3. \A n \in Below(d.N), k \in Below(d.K), oh \in Below(d.OH), ow \in Below(d.OW) :
        Safe(c, PlanarCell(c, launch, n, k, oh, ow))
  BY ConvAccepted
<1> HIDE DEF d, launch
<1>4. SafeGrid(c, launch)
  <2>1. launch \in Planar
    BY <1>2 DEF ConvLoops, Planar
  <2>2. /\ c.t["result"].shape[1] = d.N /\ c.t["result"].shape[2] = d.K
        /\ c.t["result"].shape[3] = d.OH /\ c.t["result"].shape[4] = d.OW
    BY <1>1
  <2>3. Planes(c, launch)
    BY <1>1, <1>3, <2>2 DEF Planes
  <2> QED
    BY <2>1, <2>3, PlanesInGrid
<1>5. SafeLoop(c, launch)
  <2> SUFFICES ASSUME NEW i \in Below(Iterations(c, launch)), NEW e \in Body(c, launch, i)
               PROVE  Safe(c, e)
    BY DEF SafeLoop, AllSafe
  <2>1. CASE launch \in {"conv2d_valid", "conv2d_general"}
    <3>1. i \in Below(d.N * d.K)
      BY <2>1 DEF Iterations, ConvPlanes, d
    <3>2. i \div d.K \in Below(d.N) /\ i % d.K \in Below(d.K)
      BY <1>1, <3>1, QuotientBelow
    <3>3. PICK p \in Below(d.OH) \X Below(d.OW) :
            e = PlanarCell(c, launch, i \div d.K, i % d.K, p[1], p[2])
      BY <2>1 DEF Body, Conv2dCpuFloat32ValidTask, Conv2dCpuFloat32GeneralTask, ConvPlane, PlanarCell, d
    <3> QED
      BY <1>3, <3>2, <3>3
  <2>2. CASE launch \in {"conv2d_padded", "conv2d_strided"}
    <3> DEFINE nk == i \div d.OH   oh == i % d.OH
    <3>1. i \in Below((d.N * d.K) * d.OH)
      BY <2>2 DEF Iterations, ConvRows, d
    <3>2. PICK planes \in Nat : planes = d.N * d.K
      BY <1>1
    <3>3. nk \in Below(planes) /\ oh \in Below(d.OH)
      BY <1>1, <3>1, <3>2, QuotientBelow
    <3>4. PICK ow \in Below(d.OW) : e = PlanarCell(c, launch, nk \div d.K, nk % d.K, oh, ow)
      BY <2>2 DEF Body, Conv2dCpuFloat32PaddedTask, Conv2dCpuFloat32StridedTask, ConvRow, PlanarCell, d
    <3> HIDE DEF nk, oh
    <3>5. nk \div d.K \in Below(d.N) /\ nk % d.K \in Below(d.K)
      BY <1>1, <3>2, <3>3, QuotientBelow
    <3> QED
      BY <1>3, <3>3, <3>4, <3>5
  <2> QED
    BY <1>2, <2>1, <2>2 DEF ConvLoops
<1> QED
  BY <1>4, <1>5 DEF launch

\* Registers, shared memory and factors are in no tensor.
NoTensors == BlockNames \cup {"share", "index"}

LEMMA NotTensors ==
  ASSUME NEW c, CallAssumed(c)
  PROVE  \A x : x[1] \in NoTensors => InTensor(c, x)
<1> DEFINE roles == Gradients \cup {"kernels", "result", "indices", "tensor", "activation_output", "grad", "prediction",
                     "target", "grad_prediction", "value", "first_moment", "second_moment", "bias", "grad_bias"}
<1>1. Takes[c.op] \subseteq roles
  <2>1. \A op \in DOMAIN Takes : Takes[op] \subseteq roles
    BY DEF Takes, Gradients
  <2> QED
    BY <2>1 DEF CallAssumed
<1>2. MayTake(c.op) \subseteq roles
  BY DEF MayTake
<1>3. DOMAIN c.t \subseteq roles
  BY <1>1, <1>2 DEF CallAssumed
<1>4. roles \cap NoTensors = {}
  BY DEF NoTensors, BlockNames, TileNames, Gradients
<1> QED
  BY <1>3, <1>4 DEF InTensor

\* A launch of a thread per iteration.
LEMMA IndexedSafe ==
  ASSUME NEW c, NEW launch \in Indexed, Count(c, launch) \in Nat,
         \A i \in Below(Count(c, launch)) : AllSafe(c, IndexedBody(c, launch, i))
  PROVE  SafeGrid(c, launch)
<1> SUFFICES ASSUME NEW g \in Grid(c, launch), NEW t \in Threads(launch), NEW m
             PROVE  AllSafe(c, Effects(c, launch, g, t, m))
  BY DEF SafeGrid
<1>1. BlockLine \in Nat \ {0}
  BY LineAndSteps
<1>2. g \in Nat /\ t \in Nat
  <2>1. DivideUp(Count(c, launch), BlockLine) \in Nat
    BY <1>1, DividedUp
  <2>2. g \in Below(DivideUp(Count(c, launch), BlockLine)) /\ t \in Below(BlockLine)
    BY IndexedLaunch
  <2> QED
    BY <1>1, <2>1, <2>2 DEF Below
<1>3. PICK i \in Nat : i = g * BlockLine + t
  <2>1. PICK base \in Nat : base = g * BlockLine
    BY <1>1, <1>2
  <2> QED
    BY <1>2, <2>1
<1>4. Effects(c, launch, g, t, m) = IF i < Count(c, launch) THEN IndexedBody(c, launch, i) ELSE {}
  BY <1>3, IndexedLaunch
<1>5. i < Count(c, launch) => i \in Below(Count(c, launch))
  BY DEF Below
<1>6. AllSafe(c, {})
  BY DEF AllSafe
<1> QED
  BY <1>4, <1>5, <1>6

\* Where a thread does what an iteration does.
Alike == Indexed \ {"loss", "categorical_loss", "backward_categorical_loss", "scatter_max", "scatter_average"}
LEMMA AlikeSafe ==
  ASSUME NEW c, NEW launch \in Alike, Iterations(c, launch) \in Nat, SafeLoop(c, launch)
  PROVE  SafeGrid(c, launch)
<1>1. Count(c, launch) = Iterations(c, launch) /\ \A i : IndexedBody(c, launch, i) = Body(c, launch, i)
  BY DEF Alike, Count, IndexedBody
<1> QED
  BY <1>1, IndexedSafe DEF Alike, SafeLoop

\* Atomic or not, an addition is to the same cell.
LEMMA AtomicallySafe ==
  ASSUME NEW c, NEW effects, AllSafe(c, effects),
         \A e \in effects : \E cell, terms : e = Add(cell, terms)
  PROVE  AllSafe(c, Atomically(effects))
<1> SUFFICES ASSUME NEW f \in Atomically(effects) PROVE Safe(c, f)
  BY DEF AllSafe
<1>1. PICK e \in effects : f = [e EXCEPT !.keep = TRUE, !.atomic = TRUE]
  BY DEF Atomically
<1>2. PICK cell, terms : e = Add(cell, terms)
  OBVIOUS
<1>3. f.to = e.to /\ f.terms = e.terms /\ f.keep /\ e.keep
  BY <1>1, <1>2 DEF Add
<1>4. Reads(f) = Reads(e)
  BY <1>3 DEF Reads
<1> QED
  BY <1>3, <1>4 DEF AllSafe, Safe

-----------------------------------------------------------------------------
(* The launches of an accepted call. *)

CpuBounded(c) == {launch \in LaunchNames : SafeLoop(c, launch)}
CudaBounded(c) == {launch \in LaunchNames : SafeGrid(c, launch)}
Bounded(c, kernel) ==
  /\ c.op # "mse_loss" => CpuLoops(c, kernel) \in Seq(CpuBounded(c))
  /\ CudaLaunches(c, kernel) \in Seq(CudaBounded(c))

LEMMA BoundedOne ==
  ASSUME NEW c, NEW kernel, NEW a \in LaunchNames, SafeLoop(c, a), SafeGrid(c, a),
         CpuLoops(c, kernel) = <<a>>, CudaLaunches(c, kernel) = <<a>>
  PROVE  Bounded(c, kernel)
<1>1. a \in CpuBounded(c) /\ a \in CudaBounded(c)
  BY DEF CpuBounded, CudaBounded
<1>2. <<a>> \in Seq(CpuBounded(c)) /\ <<a>> \in Seq(CudaBounded(c))
  BY <1>1
<1> QED
  BY <1>2 DEF Bounded

LEMMA BoundedTwo ==
  ASSUME NEW c, NEW kernel, NEW a \in LaunchNames, NEW b \in LaunchNames, SafeLoop(c, a), SafeLoop(c, b),
         NEW x \in LaunchNames, NEW y \in LaunchNames, SafeGrid(c, x), SafeGrid(c, y),
         CpuLoops(c, kernel) = <<a, b>>, CudaLaunches(c, kernel) = <<x, y>>
  PROVE  Bounded(c, kernel)
<1>1. a \in CpuBounded(c) /\ b \in CpuBounded(c) /\ x \in CudaBounded(c) /\ y \in CudaBounded(c)
  BY DEF CpuBounded, CudaBounded
<1>2. <<a, b>> \in Seq(CpuBounded(c)) /\ <<x, y>> \in Seq(CudaBounded(c))
  BY <1>1
<1> QED
  BY <1>2 DEF Bounded

LEMMA ConvBounded ==
  ASSUME NEW c, CallAssumed(c), AllocatedOf(c), c.op = "conv2d", Entry(c) # Threw
  PROVE  Bounded(c, Entry(c))
<1> DEFINE kernel == Entry(c)
<1>1. SafeLoop(c, kernel) /\ SafeGrid(c, kernel)
  BY ConvSafe
<1>2. kernel \in ConvLoops
  <2>1. kernel = conv2d_float32(c.o)
    BY Zenon DEF Entry, conv2d, conv2d_unchecked, Checked, Launch
  <2> QED
    BY <2>1 DEF conv2d_float32, ConvLoops
<1> HIDE DEF kernel
<1>3. CpuLoops(c, kernel) = <<kernel>> /\ CudaLaunches(c, kernel) = <<kernel>> /\ kernel \in LaunchNames
  BY <1>2 DEF CpuLoops, CudaLaunches, ConvLoops, LaunchNames
<1>4. Bounded(c, kernel)
  BY <1>1, <1>3, BoundedOne
<1> QED
  BY <1>4 DEF kernel

-----------------------------------------------------------------------------
(* Elementwise operations and updates. *)

LEMMA ElementInTensor ==
  ASSUME NEW c, NEW role, NEW other, c.t[role].shape = c.t[other].shape, NEW i \in Below(Elements(c, other))
  PROVE  InTensor(c, <<role, i>>)
BY DEF InTensor, Elements

LEMMA SafeMade ==
  ASSUME NEW c, NEW cell, NEW from, InTensor(c, cell), \A x \in from : InTensor(c, x)
  PROVE  Safe(c, Made(cell, from))
<1>1. Made(cell, from).to = cell /\ Reads(Made(cell, from)) \subseteq from
  BY ReadsOfMade
<1> QED
  BY <1>1 DEF Safe

LEMMA ActivationBounded ==
  ASSUME NEW c, CallAssumed(c), c.op = "activation", Entry(c) # Threw, c.o.type # "Softmax"
  PROVE  Bounded(c, Entry(c))
<1> DEFINE t == c.t["tensor"]
<1>1. Entry(c) = c.o.type /\ c.o.type \in ActivationTypes
  BY Zenon DEF Entry, activation, activation_unchecked, Checked, Launch, CallAssumed
<1>2. Elements(c, "tensor") \in Nat
  <2>1. "tensor" \in Takes[c.op]
    BY DEF Takes
  <2> QED
    BY <2>1, ShapesAssumed
<1>3. Iterations(c, "elementwise") = Elements(c, "tensor") /\ \A i : Body(c, "elementwise", i) = ActivationTask(c, i)
  BY DEF Iterations, Body
<1>4. ASSUME NEW i \in Below(Elements(c, "tensor")) PROVE AllSafe(c, ActivationTask(c, i))
  <2>1. InTensor(c, <<"tensor", i>>)
    BY ElementInTensor
  <2>2. \A x \in {<<"tensor", i>>} : InTensor(c, x)
    BY <2>1
  <2>3. Safe(c, Made(<<"tensor", i>>, {<<"tensor", i>>}))
    BY <2>1, <2>2, SafeMade
  <2> QED
    BY <2>3 DEF AllSafe, ActivationTask
<1>5. SafeLoop(c, "elementwise")
  BY <1>3, <1>4 DEF SafeLoop
<1>6. SafeGrid(c, "elementwise")
  <2>1. "elementwise" \in Alike
    BY DEF Alike, Indexed
  <2> QED
    BY <1>2, <1>3, <1>5, <2>1, AlikeSafe
<1>7. /\ CpuLoops(c, c.o.type) = <<"elementwise">> /\ CudaLaunches(c, c.o.type) = <<"elementwise">>
      /\ "elementwise" \in LaunchNames
  BY <1>1 DEF CpuLoops, CudaLaunches, ActivationTypes, LaunchNames, ElementLoops
<1> QED
  BY <1>1, <1>5, <1>6, <1>7, BoundedOne

LEMMA BackwardActivationBounded ==
  ASSUME NEW c, CallAssumed(c), c.op = "backward_activation", Entry(c) # Threw, c.o.type # "Softmax"
  PROVE  Bounded(c, Entry(c))
<1> DEFINE kernel == BackwardKernel[c.o.type]
<1>1. /\ validate_backward_activation_inputs(c.t["activation_output"], c.t["grad"], c.o.type)
      /\ Entry(c) = kernel /\ c.o.type \in ActivationTypes
  BY Zenon DEF Entry, backward_activation, backward_activation_unchecked, Checked, Launch, CallAssumed
<1>2. Elements(c, "grad") \in Nat
  <2>1. "grad" \in Takes[c.op]
    BY DEF Takes
  <2> QED
    BY <2>1, ShapesAssumed
<1>3. /\ Iterations(c, "backward_elementwise") = Elements(c, "grad")
      /\ \A i : Body(c, "backward_elementwise", i) = BackwardActivationTask(c, i)
  BY DEF Iterations, Body
<1>4. ASSUME NEW i \in Below(Elements(c, "grad")) PROVE AllSafe(c, BackwardActivationTask(c, i))
  <2> DEFINE from == {<<"grad", i>>, <<"activation_output", i>>}
  <2>1. c.t["activation_output"].shape = c.t["grad"].shape
    BY <1>1 DEF validate_backward_activation_inputs
  <2>2. InTensor(c, <<"grad", i>>) /\ InTensor(c, <<"activation_output", i>>)
    BY <2>1, ElementInTensor
  <2>3. \A x \in from : InTensor(c, x)
    BY <2>2
  <2> HIDE DEF from
  <2>4. Safe(c, Made(<<"grad", i>>, from))
    BY <2>2, <2>3, SafeMade
  <2> QED
    BY <2>4 DEF AllSafe, BackwardActivationTask, from
<1>5. SafeLoop(c, "backward_elementwise")
  BY <1>3, <1>4 DEF SafeLoop
<1>6. SafeGrid(c, "backward_elementwise")
  <2>1. "backward_elementwise" \in Alike
    BY DEF Alike, Indexed
  <2> QED
    BY <1>2, <1>3, <1>5, <2>1, AlikeSafe
<1>7. kernel \in {"backward_ReLU", "backward_Sigmoid", "backward_Tanh"}
  BY <1>1 DEF BackwardKernel, ActivationTypes
<1> HIDE DEF kernel
<1>8. /\ CpuLoops(c, kernel) = <<"backward_elementwise">> /\ CudaLaunches(c, kernel) = <<"backward_elementwise">>
      /\ "backward_elementwise" \in LaunchNames
  BY <1>7 DEF CpuLoops, CudaLaunches, LaunchNames, ElementLoops
<1> QED
  BY <1>1, <1>5, <1>6, <1>8, BoundedOne

LEMMA SgdBounded ==
  ASSUME NEW c, CallAssumed(c), c.op = "sgd_update", Entry(c) # Threw
  PROVE  Bounded(c, Entry(c))
<1>1. Entry(c) = "sgd_update" /\ validate_sgd_update_inputs(c.t["value"], c.t["grad"])
  BY Zenon DEF Entry, sgd_update, sgd_update_unchecked, Checked, Launch
<1>2. Elements(c, "value") \in Nat
  <2>1. "value" \in Takes[c.op]
    BY DEF Takes
  <2> QED
    BY <2>1, ShapesAssumed
<1>3. Iterations(c, "sgd") = Elements(c, "value") /\ \A i : Body(c, "sgd", i) = SgdUpdateCpuFloat32Task(c, i)
  BY DEF Iterations, Body
<1>4. ASSUME NEW i \in Below(Elements(c, "value")) PROVE AllSafe(c, SgdUpdateCpuFloat32Task(c, i))
  <2> DEFINE from == {<<"value", i>>, <<"grad", i>>}
  <2>1. c.t["grad"].shape = c.t["value"].shape
    BY <1>1 DEF validate_sgd_update_inputs
  <2>2. InTensor(c, <<"value", i>>) /\ InTensor(c, <<"grad", i>>)
    BY <2>1, ElementInTensor
  <2>3. \A x \in from : InTensor(c, x)
    BY <2>2
  <2> HIDE DEF from
  <2>4. Safe(c, Made(<<"value", i>>, from))
    BY <2>2, <2>3, SafeMade
  <2> QED
    BY <2>4 DEF AllSafe, SgdUpdateCpuFloat32Task, from
<1>5. SafeLoop(c, "sgd")
  BY <1>3, <1>4 DEF SafeLoop
<1>6. SafeGrid(c, "sgd")
  <2>1. "sgd" \in Alike
    BY DEF Alike, Indexed
  <2> QED
    BY <1>2, <1>3, <1>5, <2>1, AlikeSafe
<1>7. CpuLoops(c, "sgd_update") = <<"sgd">> /\ CudaLaunches(c, "sgd_update") = <<"sgd">> /\ "sgd" \in LaunchNames
  BY DEF CpuLoops, CudaLaunches, LaunchNames, ElementLoops
<1> QED
  BY <1>1, <1>5, <1>6, <1>7, BoundedOne

LEMMA AdamBounded ==
  ASSUME NEW c, CallAssumed(c), c.op = "adam_update", Entry(c) # Threw
  PROVE  Bounded(c, Entry(c))
<1>1. /\ Entry(c) = "adam_update"
      /\ validate_adam_update_inputs(c.t["value"], c.t["grad"], c.t["first_moment"], c.t["second_moment"], c.o)
  BY Zenon DEF Entry, adam_update, adam_update_unchecked, Checked, Launch
<1>2. Elements(c, "value") \in Nat
  <2>1. "value" \in Takes[c.op]
    BY DEF Takes
  <2> QED
    BY <2>1, ShapesAssumed
<1>3. Iterations(c, "adam") = Elements(c, "value") /\ \A i : Body(c, "adam", i) = AdamUpdateCpuFloat32Task(c, i)
  BY DEF Iterations, Body
<1>4. ASSUME NEW i \in Below(Elements(c, "value")) PROVE AllSafe(c, AdamUpdateCpuFloat32Task(c, i))
  <2> DEFINE m == <<"first_moment", i>>   v == <<"second_moment", i>>   g == <<"grad", i>>   x == <<"value", i>>
             first == {<<m>>, <<g>>}   second == {<<v>>, <<g, g>>}
             products == {p[1] \o p[2] : p \in first \X second}
             E1 == Effect(m, first)   E2 == Effect(v, second)   E3 == Effect(x, {<<x>>} \cup products)
  <2>1. AdamUpdateCpuFloat32Task(c, i) = {E1, E2, E3}
    BY DEF AdamUpdateCpuFloat32Task
  <2>2. InTensor(c, m) /\ InTensor(c, v) /\ InTensor(c, g) /\ InTensor(c, x)
    <3>1. \A role \in {"grad", "first_moment", "second_moment", "value"} : c.t[role].shape = c.t["value"].shape
      BY <1>1 DEF validate_adam_update_inputs
    <3> QED
      BY <3>1, ElementInTensor
  <2> HIDE DEF m, v, g, x
  <2>3. \A term \in {<<x>>, <<m>>, <<g>>, <<v>>, <<g, g>>} : SafeTerm(c, term)
    BY <2>2, SafeProducts
  <2>4. \A term \in products : SafeTerm(c, term)
    <3> SUFFICES ASSUME NEW p \in first \X second, NEW k \in DOMAIN (p[1] \o p[2])
                 PROVE  InTensor(c, (p[1] \o p[2])[k])
      BY DEF SafeTerm
    <3>1. p[1] \in {<<m>>, <<g>>} /\ p[2] \in {<<v>>, <<g, g>>}
      OBVIOUS
    <3>2. p[1] \in Seq({m, v, g}) /\ p[2] \in Seq({m, v, g})
      <4>1. <<m>> \in Seq({m, v, g}) /\ <<g>> \in Seq({m, v, g}) /\ <<v>> \in Seq({m, v, g})
            /\ <<g, g>> \in Seq({m, v, g})
        OBVIOUS
      <4> QED
        BY <3>1, <4>1
    <3>3. p[1] \o p[2] \in Seq({m, v, g})
      BY <3>2, ConcatProperties
    <3>4. (p[1] \o p[2])[k] \in {m, v, g}
      BY <3>3
    <3> QED
      BY <2>2, <3>4
  <2> HIDE DEF products
  <2>5. /\ \A term \in first : SafeTerm(c, term)
        /\ \A term \in second : SafeTerm(c, term)
        /\ \A term \in {<<x>>} \cup products : SafeTerm(c, term)
    BY <2>3, <2>4
  <2> HIDE DEF first, second
  <2>6. Safe(c, E1) /\ Safe(c, E2)
    BY <2>2, <2>5, SafeEffect
  <2>7. Safe(c, E3)
    <3>1. PICK terms : terms = {<<x>>} \cup products
      OBVIOUS
    <3>2. Safe(c, Effect(x, terms))
      BY <2>2, <2>5, <3>1, SafeEffect
    <3> QED
      BY <3>1, <3>2
  <2> HIDE DEF E1, E2, E3
  <2> QED
    BY <2>1, <2>6, <2>7 DEF AllSafe
<1>5. SafeLoop(c, "adam")
  BY <1>3, <1>4 DEF SafeLoop
<1>6. SafeGrid(c, "adam")
  <2>1. "adam" \in Alike
    BY DEF Alike, Indexed
  <2> QED
    BY <1>2, <1>3, <1>5, <2>1, AlikeSafe
<1>7. CpuLoops(c, "adam_update") = <<"adam">> /\ CudaLaunches(c, "adam_update") = <<"adam">> /\ "adam" \in LaunchNames
  BY DEF CpuLoops, CudaLaunches, LaunchNames, ElementLoops
<1> QED
  BY <1>1, <1>5, <1>6, <1>7, BoundedOne

-----------------------------------------------------------------------------
(* Softmax. *)

\* The cells of the rows of a matrix, and those at their places in another one.
LEMMA RowInTensor ==
  ASSUME NEW c, CallAssumed(c), AllocatedOf(c), NEW role, Matrix(c, role),
         NEW n \in Below(c.t[role].shape[1]), NEW x \in RowCells(c, role, n),
         NEW other, c.t[other].shape = c.t[role].shape
  PROVE  InTensor(c, x) /\ InTensor(c, <<other, x[2]>>)
<1>1. n \in Nat /\ c.t[role].shape \in Seq(Nat) /\ Len(c.t[role].shape) = 2
  BY DEF Matrix, Below
<1>2. PICK class \in Below(c.t[role].shape[2]) : x = <<role, n * c.t[role].shape[2] + class>>
  BY <1>1, CellsOfRow
<1>3. InTensor(c, <<role, n * c.t[role].shape[2] + class>>)
  BY <1>1, MatrixInTensor
<1>4. InTensor(c, <<other, n * c.t[other].shape[2] + class>>)
  <2>1. PICK width : width = c.t[role].shape[2]
    OBVIOUS
  <2>2. Len(c.t[other].shape) = 2 /\ n \in Below(c.t[other].shape[1]) /\ class \in Below(c.t[other].shape[2])
    BY <1>1
  <2> QED
    BY <2>2, MatrixInTensor
<1> QED
  BY <1>2, <1>3, <1>4

LEMMA SoftmaxLoopSafe ==
  ASSUME NEW c, CallAssumed(c), AllocatedOf(c), Matrix(c, "tensor")
  PROVE  SafeLoop(c, "softmax")
<1>1. Iterations(c, "softmax") = c.t["tensor"].shape[1] /\ \A n : Body(c, "softmax", n) = SoftmaxCpuFloat32Task(c, n)
  BY DEF Iterations, Body
<1> SUFFICES ASSUME NEW n \in Below(c.t["tensor"].shape[1]), NEW e \in SoftmaxCpuFloat32Task(c, n)
             PROVE  Safe(c, e)
  BY <1>1 DEF SafeLoop, AllSafe
<1> DEFINE row == RowCells(c, "tensor", n)
           terms(x) == {<<x, p[1], p[2], p[3]>> : p \in row \X row \X row}
<1>2. PICK x \in row : e = Effect(x, terms(x))
  BY DEF SoftmaxCpuFloat32Task
<1>3. \A y \in row : InTensor(c, y)
  BY RowInTensor
<1> HIDE DEF row
<1>4. ASSUME NEW term \in terms(x) PROVE SafeTerm(c, term)
  <2>1. PICK p \in row \X row \X row : term = <<x, p[1], p[2], p[3]>>
    BY <1>4
  <2>2. \A k \in DOMAIN term : term[k] \in row
    BY <2>1
  <2> QED
    BY <1>3, <2>2 DEF SafeTerm
<1> HIDE DEF terms
<1> QED
  BY <1>2, <1>3, <1>4, SafeEffect

LEMMA BackwardSoftmaxLoopSafe ==
  ASSUME NEW c, CallAssumed(c), AllocatedOf(c), Matrix(c, "grad"),
         c.t["activation_output"].shape = c.t["grad"].shape
  PROVE  SafeLoop(c, "backward_softmax")
<1>1. /\ Iterations(c, "backward_softmax") = c.t["grad"].shape[1]
      /\ \A n : Body(c, "backward_softmax", n) = BackwardSoftmaxCpuFloat32Task(c, n)
  BY DEF Iterations, Body
<1> SUFFICES ASSUME NEW n \in Below(c.t["grad"].shape[1]), NEW e \in BackwardSoftmaxCpuFloat32Task(c, n)
             PROVE  Safe(c, e)
  BY <1>1 DEF SafeLoop, AllSafe
<1> DEFINE row == RowCells(c, "grad", n)
           output(x) == <<"activation_output", x[2]>>
           terms(x) == {<<output(x), x>>} \cup {<<output(x), g, output(g)>> : g \in row}
<1>2. PICK x \in row : e = Effect(x, terms(x))
  BY DEF BackwardSoftmaxCpuFloat32Task
<1>3. \A y \in row : InTensor(c, y) /\ InTensor(c, output(y))
  BY RowInTensor
<1> HIDE DEF row, output
<1>4. ASSUME NEW term \in terms(x) PROVE SafeTerm(c, term)
  BY <1>3, <1>4, SafeProducts
<1> HIDE DEF terms
<1> QED
  BY <1>2, <1>3, <1>4, SafeEffect

LEMMA SoftmaxGridSafe ==
  ASSUME NEW c, CallAssumed(c), AllocatedOf(c), c.op = "activation", Matrix(c, "tensor")
  PROVE  SafeGrid(c, "softmax")
<1>0. "softmax" \notin Memset /\ "softmax" \notin Indexed /\ "softmax" \notin Planar /\ "softmax" \notin Tiled
  BY DEF Memset, Indexed, Planar, Tiled
<1>1. Grid(c, "softmax") = Below(c.t["tensor"].shape[1]) /\ LastStage(c, "softmax") = 2 * Steps + 3
  BY <1>0 DEF Grid, LastStage
<1> SUFFICES ASSUME NEW row \in Below(c.t["tensor"].shape[1]), NEW t, NEW m \in 0..(2 * Steps + 3),
                    NEW e \in Effects(c, "softmax", row, t, m)
             PROVE  Safe(c, e)
  BY <1>1 DEF SafeGrid, AllSafe
<1> DEFINE mine == Strided(c, "tensor", row, t)
<1>2. \A x \in mine : InTensor(c, x)
  BY RowInTensor DEF Strided
<1>3. \A x : x = Maximum(row, t) \/ (\E i : x = Part(row, i)) => InTensor(c, x)
  BY NotTensors DEF Maximum, Part, NoTensors, BlockNames
<1>4. \A x : x[1] = "activation_output" => InTensor(c, x)
  <2>1. DOMAIN c.t \subseteq {"tensor"}
    BY DEF CallAssumed, Takes, MayTake
  <2> QED
    BY <2>1 DEF InTensor
<1>5. InStage(c, "softmax", "tensor", row, m)
  BY SoftmaxStages
<1>6. /\ e.to \in mine \/ e.to = Maximum(row, t) \/ \E i : e.to = Part(row, i)
      /\ \A x \in Reads(e) : x \in mine \/ x = Maximum(row, t) \/ (\E i : x = Part(row, i)) \/ x[1] = "activation_output"
  <2> HIDE DEF mine
  <2>1. CASE Gathers(e, mine, row, t)
    BY <2>1 DEF Gathers
  <2>2. CASE \E offset \in Nat : Folds(e, offset, row, t)
    BY <2>2 DEF Folds
  <2>3. CASE Rescales(e, mine, row, t)
    BY <2>3 DEF Rescales
  <2> QED
    BY <1>5, <2>1, <2>2, <2>3 DEF InStage, mine
<1> HIDE DEF mine
<1> QED
  BY <1>2, <1>3, <1>4, <1>6 DEF Safe

LEMMA BackwardSoftmaxGridSafe ==
  ASSUME NEW c, CallAssumed(c), AllocatedOf(c), Matrix(c, "grad"),
         c.t["activation_output"].shape = c.t["grad"].shape
  PROVE  SafeGrid(c, "backward_softmax")
<1> DEFINE launch == "backward_softmax"
<1>0. launch \notin Memset /\ launch \notin Indexed /\ launch \notin Planar /\ launch \notin Tiled
  BY DEF Memset, Indexed, Planar, Tiled
<1>1. Grid(c, launch) = Below(c.t["grad"].shape[1]) /\ LastStage(c, launch) = Steps + 1
  BY <1>0 DEF Grid, LastStage
<1> SUFFICES ASSUME NEW row \in Below(c.t["grad"].shape[1]), NEW t, NEW m \in 0..(Steps + 1),
                    NEW e \in Effects(c, launch, row, t, m)
             PROVE  Safe(c, e)
  BY <1>1 DEF SafeGrid, AllSafe
<1> DEFINE mine == Strided(c, "grad", row, t)   output(x) == <<"activation_output", x[2]>>
<1>2. \A x \in mine : InTensor(c, x) /\ InTensor(c, output(x))
  BY RowInTensor DEF Strided
<1>3. \A i : InTensor(c, Part(row, i))
  BY NotTensors DEF Part, NoTensors, BlockNames
<1>4. Effects(c, launch, row, t, m) = backward_softmax_cuda_float32_kernel(c, row, t, m)
  BY <1>0 DEF Effects
<1>5. Steps \in Nat
  BY LineAndSteps
<1>6. CASE m = 0
  <2> DEFINE terms == {<<x, output(x)>> : x \in mine}
  <2>1. e = Effect(Part(row, t), terms)
    BY <1>4, <1>5, <1>6 DEF backward_softmax_cuda_float32_kernel
  <2> HIDE DEF mine, output
  <2>2. \A term \in terms : SafeTerm(c, term)
    BY <1>2, SafeProducts
  <2> HIDE DEF terms
  <2> QED
    BY <1>3, <2>1, <2>2, SafeEffect
<1>7. CASE m \in 1..Steps
  <2>1. e \in Fold(row, t, m)
    BY <1>4, <1>5, <1>7 DEF backward_softmax_cuda_float32_kernel
  <2>2. PICK offset \in Nat : Folds(e, offset, row, t)
    BY <1>7, <2>1, FoldFolds
  <2> QED
    BY <1>3, <2>2 DEF Folds, Safe
<1>8. CASE m = Steps + 1
  <2> DEFINE terms(x) == {<<output(x), x>>, <<output(x), Part(row, 0)>>}
  <2>0. m # 0 /\ m \notin 1..Steps
    BY <1>5, <1>8
  <2>1. PICK x \in mine : e = Effect(x, terms(x))
    <3>1. Effects(c, launch, row, t, m) = {Effect(x, terms(x)) : x \in mine}
      BY <1>4, <1>8, <2>0, Zenon DEF backward_softmax_cuda_float32_kernel
    <3> HIDE DEF launch, mine, terms
    <3> QED
      BY <3>1
  <2> HIDE DEF mine, output
  <2>2. \A term \in terms(x) : SafeTerm(c, term)
    BY <1>2, <1>3, SafeProducts
  <2> HIDE DEF terms
  <2> QED
    BY <1>2, <2>1, <2>2, SafeEffect
<1> QED
  BY <1>5, <1>6, <1>7, <1>8

LEMMA SoftmaxBounded ==
  ASSUME NEW c, CallAssumed(c), AllocatedOf(c), c.op \in {"activation", "backward_activation"},
         Entry(c) # Threw, c.o.type = "Softmax"
  PROVE  Bounded(c, Entry(c))
<1>1. CASE c.op = "activation"
  <2> DEFINE t == c.t["tensor"]
  <2>1. validate_activation_tensor(t, c.o.type) /\ Entry(c) = c.o.type
    BY <1>1, Zenon DEF Entry, activation, activation_unchecked, Checked, Launch
  <2>2. t.shape \in Seq(Nat)
    <3>1. "tensor" \in Takes[c.op]
      BY <1>1 DEF Takes
    <3> QED
      BY <3>1, ShapesAssumed
  <2>3. Matrix(c, "tensor")
    BY <2>1, <2>2 DEF validate_activation_tensor, SoftmaxShape, Rank, Matrix
  <2>4. SafeLoop(c, "softmax") /\ SafeGrid(c, "softmax")
    BY <1>1, <2>3, SoftmaxLoopSafe, SoftmaxGridSafe
  <2>5. CpuLoops(c, "Softmax") = <<"softmax">> /\ CudaLaunches(c, "Softmax") = <<"softmax">> /\ "softmax" \in LaunchNames
    BY DEF CpuLoops, CudaLaunches, LaunchNames, RowLoops
  <2> QED
    BY <2>1, <2>4, <2>5, BoundedOne
<1>2. CASE c.op = "backward_activation"
  <2> DEFINE output == c.t["activation_output"]   grad == c.t["grad"]
  <2>1. validate_backward_activation_inputs(output, grad, c.o.type) /\ Entry(c) = "backward_Softmax"
    <3>1. validate_backward_activation_inputs(output, grad, c.o.type) /\ Entry(c) = BackwardKernel[c.o.type]
      BY <1>2, Zenon DEF Entry, backward_activation, backward_activation_unchecked, Checked, Launch
    <3> QED
      BY <3>1 DEF BackwardKernel
  <2>2. grad.shape \in Seq(Nat)
    <3>1. "grad" \in Takes[c.op]
      BY <1>2 DEF Takes
    <3> QED
      BY <3>1, ShapesAssumed
  <2>3. Matrix(c, "grad") /\ output.shape = grad.shape
    BY <2>1, <2>2 DEF validate_backward_activation_inputs, SoftmaxShape, Rank, Matrix
  <2>4. SafeLoop(c, "backward_softmax") /\ SafeGrid(c, "backward_softmax")
    BY <2>3, BackwardSoftmaxLoopSafe, BackwardSoftmaxGridSafe
  <2>5. /\ CpuLoops(c, "backward_Softmax") = <<"backward_softmax">>
        /\ CudaLaunches(c, "backward_Softmax") = <<"backward_softmax">> /\ "backward_softmax" \in LaunchNames
    BY DEF CpuLoops, CudaLaunches, LaunchNames, RowLoops
  <2> QED
    BY <2>1, <2>4, <2>5, BoundedOne
<1> QED
  BY <1>1, <1>2

-----------------------------------------------------------------------------
(* Losses. *)

LEMMA MemsetSafe ==
  ASSUME NEW c, NEW launch \in Memset, AllSafe(c, Cleared(c, launch))
  PROVE  SafeGrid(c, launch)
<1>0. /\ launch \notin Indexed /\ launch \notin Planar
      /\ launch \notin {"linear", "linear_grad_input", "linear_grad_weights", "linear_grad_bias", "softmax", "backward_softmax"}
  BY DEF Memset, Indexed, Planar
<1>1. \A g, t, m : Effects(c, launch, g, t, m) = Cleared(c, launch)
  BY <1>0 DEF Effects
<1> QED
  BY <1>1 DEF SafeGrid

\* The rows that count are rows of the prediction.
LEMMA ValidWithin ==
  ASSUME NEW c, Elements(c, "prediction") \in Nat, c.t["prediction"].shape[1] \in Nat,
         c.o.valid \in 1..c.t["prediction"].shape[1]
  PROVE  Below(ValidCount(c)) \subseteq Below(Elements(c, "prediction"))
<1>1. PICK all \in Nat, rows \in Nat \ {0}, valid \in Nat :
        all = Elements(c, "prediction") /\ rows = c.t["prediction"].shape[1] /\ valid = c.o.valid /\ valid <= rows
  OBVIOUS
<1>2. all \div rows \in Nat /\ all % rows \in Below(rows) /\ all = (all \div rows) * rows + (all % rows)
  BY Quotient
<1>3. PICK q \in Nat, r \in Nat : q = all \div rows /\ all = q * rows + r
  <2>1. all % rows \in Nat
    BY <1>2 DEF Below
  <2> QED
    BY <1>2, <2>1
<1>4. valid * q <= rows * q /\ valid * q \in Nat /\ rows * q = q * rows
  <2>1. valid * q \in Nat /\ rows * q = q * rows
    BY <1>1
  <2>2. valid * q <= rows * q
    BY <1>1, ProductGrows
  <2> QED
    BY <2>1, <2>2
<1>5. PICK x \in Nat, y \in Nat : x = valid * q /\ y = rows * q
  BY <1>4
<1>6. x <= all
  BY <1>3, <1>4, <1>5
<1>7. ValidCount(c) = x
  BY <1>1, <1>3, <1>5 DEF ValidCount
<1> QED
  BY <1>1, <1>6, <1>7 DEF Below

LEMMA ResultInTensor ==
  ASSUME NEW c, CallAssumed(c), AllocatedOf(c), c.t["result"].shape = << 1 >>
  PROVE  InTensor(c, <<"result", 0>>)
<1>1. Len(<<1>>) = 1 /\ <<1>>[1] = 1 /\ 0 \in Below(1)
  BY DEF Below
<1>2. Len(c.t["result"].shape) = 1 /\ c.t["result"].shape[1] = 1
  BY <1>1
<1>3. PICK zero, one : zero = 0 /\ one = 1
  OBVIOUS
<1>4. "result" \in DOMAIN c.t => Len(c.t["result"].shape) = 1 /\ c.t["result"].shape[1] = one
  BY <1>2, <1>3
<1>5. InTensor(c, <<"result", zero>>)
  BY <1>1, <1>3, <1>4, VectorInTensor
<1> QED
  BY <1>3, <1>5

Measurable(c) ==
  /\ Elements(c, "prediction") \in Nat /\ c.t["prediction"].shape[1] \in Nat
  /\ c.o.valid \in 1..c.t["prediction"].shape[1]
  /\ c.t["target"].shape = c.t["prediction"].shape

LEMMA LossTermSafe ==
  ASSUME NEW c, Measurable(c), NEW i \in Below(ValidCount(c)), NEW term \in LossTerm(c, i)
  PROVE  SafeTerm(c, term)
<1>1. i \in Below(Elements(c, "prediction"))
  BY ValidWithin DEF Measurable
<1>2. InTensor(c, <<"prediction", i>>) /\ InTensor(c, <<"target", i>>)
  BY <1>1, ElementInTensor DEF Measurable
<1>3. term = << <<"prediction", i>>, <<"target", i>> >>
  BY DEF LossTerm
<1> QED
  BY <1>2, <1>3, SafeProducts

LEMMA Predicted ==
  ASSUME NEW c, CallAssumed(c), "prediction" \in Takes[c.op], Rank(c.t["prediction"]) # 0,
         Counted(c.o.valid, c.t["prediction"]), c.t["prediction"].shape = c.t["target"].shape
  PROVE  Measurable(c)
<1> DEFINE shape == c.t["prediction"].shape
<1>1. shape \in Seq(Nat) /\ Elements(c, "prediction") \in Nat /\ \A i \in 1..Len(shape) : shape[i] \in Nat
  BY ShapesAssumed
<1>2. Len(shape) \in Nat \ {0}
  BY <1>1 DEF Rank
<1>3. shape[1] \in Nat
  BY <1>1, <1>2
<1> QED
  BY <1>1, <1>3 DEF Measurable, Counted

LEMMA LossBounded ==
  ASSUME NEW c, CallAssumed(c), AllocatedOf(c), c.op \in {"mse_loss", "binary_cross_entropy"}, Entry(c) # Threw
  PROVE  Bounded(c, Entry(c))
<1>1. Entry(c) = c.op /\ validate_mse_loss_inputs(c.t["prediction"], c.t["target"], c.t["result"], c.o.reduction, c.o.valid)
  <2>1. CASE c.op = "mse_loss"
    BY <2>1, Zenon DEF Entry, mse_loss, mse_loss_unchecked, Checked, Launch
  <2>2. CASE c.op = "binary_cross_entropy"
    <3>1. /\ Entry(c) = c.op
          /\ validate_binary_cross_entropy_inputs(c.t["prediction"], c.t["target"], c.t["result"],
                                                  c.o.reduction, c.o.valid)
      BY <2>2, Zenon DEF Entry, binary_cross_entropy, binary_cross_entropy_unchecked, Checked, Launch
    <3> QED
      BY <3>1 DEF validate_binary_cross_entropy_inputs
  <2> QED
    BY <2>1, <2>2
<1>2. Measurable(c) /\ c.t["result"].shape = <<1>>
  <2>1. "prediction" \in Takes[c.op]
    BY DEF Takes
  <2> QED
    BY <1>1, <2>1, Predicted DEF validate_mse_loss_inputs
<1>3. InTensor(c, <<"result", 0>>)
  BY <1>2, ResultInTensor
<1>4. SafeLoop(c, "loss")
  <2> DEFINE terms == UNION {LossTerm(c, j) : j \in Below(ValidCount(c))}
  <2>1. \A i : Body(c, "loss", i) = {Effect(<<"result", 0>>, terms)}
    BY DEF Body, ElementwiseLoss
  <2>2. \A term \in terms : SafeTerm(c, term)
    BY <1>2, LossTermSafe
  <2> HIDE DEF terms
  <2>3. Safe(c, Effect(<<"result", 0>>, terms))
    BY <1>3, <2>2, SafeEffect
  <2> QED
    BY <2>1, <2>3 DEF SafeLoop, AllSafe
<1>5. SafeGrid(c, "loss")
  <2>1. Count(c, "loss") = ValidCount(c) /\ ValidCount(c) \in Nat
    BY <1>2, ValidCountIsNat DEF Count, Measurable
  <2>2. ASSUME NEW i \in Below(Count(c, "loss")) PROVE AllSafe(c, IndexedBody(c, "loss", i))
    <3>1. IndexedBody(c, "loss", i) = {AtomicAdd(<<"result", 0>>, LossTerm(c, i))}
      BY DEF IndexedBody, mse_loss_cuda_float32_kernel
    <3>2. \A term \in LossTerm(c, i) : SafeTerm(c, term)
      BY <1>2, <2>1, <2>2, LossTermSafe
    <3>3. Safe(c, AtomicAdd(<<"result", 0>>, LossTerm(c, i)))
      BY <1>3, <3>2, SafeEffect
    <3> QED
      BY <3>1, <3>3 DEF AllSafe
  <2> QED
    BY <2>1, <2>2, IndexedSafe DEF Indexed
<1>6. SafeGrid(c, "clear_result")
  <2>1. Cleared(c, "clear_result") = {Effect(<<"result", 0>>, {})} /\ "clear_result" \in Memset
    BY DEF Cleared, Memset
  <2>2. Safe(c, Effect(<<"result", 0>>, {}))
    BY <1>3, SafeEffect
  <2> QED
    BY <2>1, <2>2, MemsetSafe DEF AllSafe
<1>7. "loss" \in CpuBounded(c) /\ "loss" \in CudaBounded(c) /\ "clear_result" \in CudaBounded(c)
  BY <1>4, <1>5, <1>6 DEF CpuBounded, CudaBounded, LaunchNames, Serial, Memset
<1>8. c.op # "mse_loss" => CpuLoops(c, c.op) = <<"loss">>
  BY DEF CpuLoops
<1>9. CudaLaunches(c, c.op) = <<"clear_result", "loss">>
  BY DEF CudaLaunches
<1>10. <<"loss">> \in Seq(CpuBounded(c)) /\ <<"clear_result", "loss">> \in Seq(CudaBounded(c))
  BY <1>7
<1> QED
  BY <1>1, <1>8, <1>9, <1>10 DEF Bounded

LEMMA BackwardLossBounded ==
  ASSUME NEW c, CallAssumed(c), AllocatedOf(c), c.op \in {"backward_mse_loss", "backward_binary_cross_entropy"},
         Entry(c) # Threw
  PROVE  Bounded(c, Entry(c))
<1>1. /\ Entry(c) = c.op
      /\ validate_backward_mse_loss_inputs(c.t["prediction"], c.t["target"], c.t["grad_prediction"],
                                           c.o.reduction, c.o.valid)
  <2>1. CASE c.op = "backward_mse_loss"
    BY <2>1, Zenon DEF Entry, backward_mse_loss, backward_mse_loss_unchecked, Checked, Launch
  <2>2. CASE c.op = "backward_binary_cross_entropy"
    <3>1. /\ Entry(c) = c.op
          /\ validate_backward_binary_cross_entropy_inputs(c.t["prediction"], c.t["target"], c.t["grad_prediction"],
                                                           c.o.reduction, c.o.valid)
      BY <2>2, Zenon DEF Entry, backward_binary_cross_entropy, backward_binary_cross_entropy_unchecked,
                         Checked, Launch
    <3> QED
      BY <3>1 DEF validate_backward_binary_cross_entropy_inputs
  <2> QED
    BY <2>1, <2>2
<1>2. Measurable(c) /\ c.t["grad_prediction"].shape = c.t["prediction"].shape
  <2>1. "prediction" \in Takes[c.op]
    BY DEF Takes
  <2> QED
    BY <1>1, <2>1, Predicted DEF validate_backward_mse_loss_inputs
<1>3. \A i \in Below(Elements(c, "prediction")) : InTensor(c, <<"grad_prediction", i>>)
  BY <1>2, ElementInTensor
<1>4. Iterations(c, "backward_loss") = ValidCount(c) /\ ValidCount(c) \in Nat
  BY <1>2, ValidCountIsNat DEF Iterations, Measurable
<1>5. SafeLoop(c, "backward_loss")
  <2> SUFFICES ASSUME NEW i \in Below(ValidCount(c)) PROVE AllSafe(c, Body(c, "backward_loss", i))
    BY <1>4 DEF SafeLoop
  <2>1. Body(c, "backward_loss", i) = {Effect(<<"grad_prediction", i>>, LossTerm(c, i))}
    BY DEF Body, BackwardLossTask
  <2>2. InTensor(c, <<"grad_prediction", i>>)
    BY <1>2, <1>3, ValidWithin DEF Measurable
  <2>3. \A term \in LossTerm(c, i) : SafeTerm(c, term)
    BY <1>2, LossTermSafe
  <2>4. Safe(c, Effect(<<"grad_prediction", i>>, LossTerm(c, i)))
    BY <2>2, <2>3, SafeEffect
  <2> QED
    BY <2>1, <2>4 DEF AllSafe
<1>6. SafeGrid(c, "backward_loss")
  <2>1. "backward_loss" \in Alike
    BY DEF Alike, Indexed
  <2> QED
    BY <1>4, <1>5, <2>1, AlikeSafe
<1>7. ASSUME NEW i PROVE AllSafe(c, FillPadding(c, i))
  <2> SUFFICES ASSUME NEW j \in Below(Elements(c, "prediction")) PROVE Safe(c, Effect(<<"grad_prediction", j>>, {}))
    BY DEF AllSafe, FillPadding
  <2> QED
    BY <1>3, SafeEffect
<1>8. SafeLoop(c, "fill_padding")
  BY <1>7 DEF SafeLoop, Body
<1>9. SafeGrid(c, "fill_padding")
  <2>1. Cleared(c, "fill_padding") = FillPadding(c, 0) /\ "fill_padding" \in Memset
    BY DEF Cleared, Memset
  <2> QED
    BY <1>7, <2>1, MemsetSafe
<1>10. /\ CpuLoops(c, c.op) = <<"backward_loss", "fill_padding">>
       /\ CudaLaunches(c, c.op) = <<"fill_padding", "backward_loss">>
       /\ "backward_loss" \in LaunchNames /\ "fill_padding" \in LaunchNames
  BY DEF CpuLoops, CudaLaunches, LaunchNames, ElementLoops, Memset
<1> QED
  BY <1>1, <1>5, <1>6, <1>8, <1>9, <1>10, BoundedTwo

\* The cell of a class in range, in the prediction or in its gradient.
Classes(c) ==
  /\ Len(c.t["prediction"].shape) = 2 /\ c.t["target"].shape = <<c.t["prediction"].shape[1]>>
  /\ c.o.valid \in 1..c.t["prediction"].shape[1] /\ c.t["prediction"].shape[1] \in Nat

LEMMA ClassSafe ==
  ASSUME NEW c, CallAssumed(c), AllocatedOf(c), Classes(c), NEW n \in Below(c.o.valid), ClassInRange(c, n)
  PROVE  /\ \A term \in ClassTerm(c, n) : SafeTerm(c, term)
         /\ \A role : c.t[role].shape = c.t["prediction"].shape => InTensor(c, ClassCell(c, role, n))
<1>1. n \in Below(c.t["prediction"].shape[1])
  BY DEF Classes, Below
<1>2. ASSUME NEW role, c.t[role].shape = c.t["prediction"].shape PROVE InTensor(c, ClassCell(c, role, n))
  <2>1. PICK width, class : width = c.t["prediction"].shape[2] /\ class = c.data["target"][n]
    OBVIOUS
  <2>2. class \in Below(c.t[role].shape[2]) /\ n \in Below(c.t[role].shape[1]) /\ Len(c.t[role].shape) = 2
    BY <1>1, <1>2, <2>1 DEF ClassInRange, Classes
  <2>3. InTensor(c, <<role, n * c.t[role].shape[2] + class>>)
    BY <2>2, MatrixInTensor
  <2> QED
    BY <1>2, <2>1, <2>3 DEF ClassCell
<1>3. InTensor(c, <<"target", n>>)
  <2>1. PICK rows : rows = c.t["prediction"].shape[1]
    OBVIOUS
  <2>2. Len(<<rows>>) = 1 /\ <<rows>>[1] = rows
    OBVIOUS
  <2>3. "target" \in DOMAIN c.t => Len(c.t["target"].shape) = 1 /\ c.t["target"].shape[1] = rows
    BY <2>1, <2>2 DEF Classes
  <2>4. n \in Below(rows)
    BY <1>1, <2>1
  <2> QED
    BY <2>3, <2>4, VectorInTensor
<1>4. InTensor(c, ClassCell(c, "prediction", n))
  BY <1>2
<1>5. SafeTerm(c, <<ClassCell(c, "prediction", n), <<"target", n>> >>)
  BY <1>3, <1>4, SafeProducts
<1> QED
  BY <1>2, <1>5 DEF ClassTerm

LEMMA ClassesOf ==
  ASSUME NEW c, CallAssumed(c), "prediction" \in Takes[c.op], Classified(c.t["prediction"], c.t["target"]),
         Counted(c.o.valid, c.t["prediction"])
  PROVE  Classes(c) /\ c.o.valid \in Nat
<1>1. Len(c.t["prediction"].shape) = 2
  BY DEF Classified, Rank
<1>2. c.t["prediction"].shape[1] \in Nat
  BY <1>1, TwoSizes
<1> QED
  BY <1>1, <1>2 DEF Classes, Classified, Counted

LEMMA CategoricalBounded ==
  ASSUME NEW c, CallAssumed(c), AllocatedOf(c), c.op = "categorical_cross_entropy", Entry(c) # Threw
  PROVE  Bounded(c, Entry(c))
<1>1. /\ Entry(c) = c.op
      /\ validate_categorical_cross_entropy_inputs(c.t["prediction"], c.t["target"], c.t["result"],
                                                   c.o.reduction, c.o.valid)
  BY Zenon DEF Entry, categorical_cross_entropy, categorical_cross_entropy_unchecked, Checked, Launch
<1>2. Classes(c) /\ c.o.valid \in Nat /\ c.t["result"].shape = <<1>>
  <2>1. "prediction" \in Takes[c.op]
    BY DEF Takes
  <2> QED
    BY <1>1, <2>1, ClassesOf DEF validate_categorical_cross_entropy_inputs
<1>3. InTensor(c, <<"result", 0>>)
  BY <1>2, ResultInTensor
<1>4. SafeLoop(c, "categorical_loss")
  <2> DEFINE terms == UNION {ClassTerm(c, n) : n \in Below(c.o.valid)}
  <2> SUFFICES ASSUME \A n \in Below(c.o.valid) : ClassInRange(c, n)
               PROVE  Safe(c, Effect(<<"result", 0>>, terms))
    BY DEF SafeLoop, AllSafe, Body, CategoricalLoss
  <2>1. \A term \in terms : SafeTerm(c, term)
    BY <1>2, ClassSafe
  <2> HIDE DEF terms
  <2> QED
    BY <1>3, <2>1, SafeEffect
<1>5. SafeGrid(c, "categorical_loss")
  <2>1. Count(c, "categorical_loss") = c.o.valid
    BY DEF Count
  <2>2. ASSUME NEW n \in Below(Count(c, "categorical_loss")) PROVE AllSafe(c, IndexedBody(c, "categorical_loss", n))
    <3>1. IndexedBody(c, "categorical_loss", n) =
            IF ClassInRange(c, n) THEN {AtomicAdd(<<"result", 0>>, ClassTerm(c, n))} ELSE {}
      BY DEF IndexedBody, categorical_cross_entropy_cuda_float32_kernel
    <3>2. ClassInRange(c, n) => Safe(c, AtomicAdd(<<"result", 0>>, ClassTerm(c, n)))
      <4> SUFFICES ASSUME ClassInRange(c, n) PROVE Safe(c, AtomicAdd(<<"result", 0>>, ClassTerm(c, n)))
        OBVIOUS
      <4>1. \A term \in ClassTerm(c, n) : SafeTerm(c, term)
        BY <1>2, <2>1, <2>2, ClassSafe
      <4> QED
        BY <1>3, <4>1, SafeEffect
    <3> QED
      BY <3>1, <3>2 DEF AllSafe
  <2> QED
    BY <1>2, <2>1, <2>2, IndexedSafe DEF Indexed
<1>6. SafeGrid(c, "clear_result")
  <2>1. Cleared(c, "clear_result") = {Effect(<<"result", 0>>, {})} /\ "clear_result" \in Memset
    BY DEF Cleared, Memset
  <2>2. Safe(c, Effect(<<"result", 0>>, {}))
    BY <1>3, SafeEffect
  <2> QED
    BY <2>1, <2>2, MemsetSafe DEF AllSafe
<1>7. /\ "categorical_loss" \in CpuBounded(c) /\ "categorical_loss" \in CudaBounded(c)
      /\ "clear_result" \in CudaBounded(c)
  BY <1>4, <1>5, <1>6 DEF CpuBounded, CudaBounded, LaunchNames, Serial, Memset
<1>8. CpuLoops(c, c.op) = <<"categorical_loss">> /\ CudaLaunches(c, c.op) = <<"clear_result", "categorical_loss">>
  BY DEF CpuLoops, CudaLaunches
<1>9. /\ <<"categorical_loss">> \in Seq(CpuBounded(c))
      /\ <<"clear_result", "categorical_loss">> \in Seq(CudaBounded(c))
  BY <1>7
<1> QED
  BY <1>1, <1>8, <1>9 DEF Bounded

LEMMA BackwardCategoricalBounded ==
  ASSUME NEW c, CallAssumed(c), AllocatedOf(c), c.op = "backward_categorical_cross_entropy", Entry(c) # Threw
  PROVE  Bounded(c, Entry(c))
<1>1. /\ Entry(c) = c.op
      /\ validate_backward_categorical_cross_entropy_inputs(c.t["prediction"], c.t["target"],
           c.t["grad_prediction"], c.o.reduction, c.o.valid)
  BY Zenon DEF Entry, backward_categorical_cross_entropy, backward_categorical_cross_entropy_unchecked,
               Checked, Launch
<1>2. Classes(c) /\ c.o.valid \in Nat /\ c.t["grad_prediction"].shape = c.t["prediction"].shape
  <2>1. "prediction" \in Takes[c.op]
    BY DEF Takes
  <2> QED
    BY <1>1, <2>1, ClassesOf DEF validate_backward_categorical_cross_entropy_inputs
<1>3. ASSUME NEW n \in Below(c.o.valid), ClassInRange(c, n)
      PROVE  Safe(c, Effect(ClassCell(c, "grad_prediction", n), ClassTerm(c, n)))
  <2>1. \A term \in ClassTerm(c, n) : SafeTerm(c, term)
    BY <1>2, <1>3, ClassSafe
  <2>2. InTensor(c, ClassCell(c, "grad_prediction", n))
    BY <1>2, <1>3, ClassSafe
  <2> QED
    BY <2>1, <2>2, SafeEffect
<1>4. SafeLoop(c, "backward_categorical_loss")
  <2> SUFFICES ASSUME NEW n \in ClassesBefore(c)
               PROVE  Safe(c, Effect(ClassCell(c, "grad_prediction", n), ClassTerm(c, n)))
    BY DEF SafeLoop, AllSafe, Body, BackwardCategoricalLoss
  <2>1. n \in Below(c.o.valid) /\ n \in 0..n
    BY DEF ClassesBefore, Below
  <2>2. ClassInRange(c, n)
    BY <2>1 DEF ClassesBefore
  <2> QED
    BY <1>3, <2>1, <2>2
<1>5. SafeGrid(c, "backward_categorical_loss")
  <2>1. Count(c, "backward_categorical_loss") = c.o.valid
    BY DEF Count
  <2>2. ASSUME NEW n \in Below(Count(c, "backward_categorical_loss"))
        PROVE  AllSafe(c, IndexedBody(c, "backward_categorical_loss", n))
    <3>1. IndexedBody(c, "backward_categorical_loss", n) =
            IF ClassInRange(c, n) THEN {Effect(ClassCell(c, "grad_prediction", n), ClassTerm(c, n))} ELSE {}
      BY DEF IndexedBody, backward_categorical_cross_entropy_cuda_float32_kernel
    <3> QED
      BY <1>3, <2>1, <2>2, <3>1 DEF AllSafe
  <2> QED
    BY <1>2, <2>1, <2>2, IndexedSafe DEF Indexed
<1>6. SafeLoop(c, "fill")
  <2>1. Iterations(c, "fill") = Elements(c, "grad_prediction")
    BY DEF Iterations
  <2> SUFFICES ASSUME NEW i \in Below(Elements(c, "grad_prediction")) PROVE Safe(c, Effect(<<"grad_prediction", i>>, {}))
    BY <2>1 DEF SafeLoop, AllSafe, Body, FillGradient
  <2>2. InTensor(c, <<"grad_prediction", i>>)
    BY ElementInTensor
  <2> QED
    BY <2>2, SafeEffect
<1>7. SafeGrid(c, "clear_gradient")
  <2>1. /\ Cleared(c, "clear_gradient") = {Effect(<<"grad_prediction", i>>, {}) : i \in Below(Elements(c, "prediction"))}
        /\ "clear_gradient" \in Memset
    BY DEF Cleared, Memset
  <2>2. ASSUME NEW i \in Below(Elements(c, "prediction")) PROVE Safe(c, Effect(<<"grad_prediction", i>>, {}))
    <3>1. InTensor(c, <<"grad_prediction", i>>)
      BY <1>2, ElementInTensor
    <3> QED
      BY <3>1, SafeEffect
  <2>3. AllSafe(c, Cleared(c, "clear_gradient"))
    BY <2>1, <2>2 DEF AllSafe
  <2> QED
    BY <2>1, <2>3, MemsetSafe
<1>8. /\ CpuLoops(c, c.op) = <<"fill", "backward_categorical_loss">>
      /\ CudaLaunches(c, c.op) = <<"clear_gradient", "backward_categorical_loss">>
      /\ {"fill", "backward_categorical_loss", "clear_gradient"} \subseteq LaunchNames
  BY DEF CpuLoops, CudaLaunches, LaunchNames, Serial, Memset
<1> QED
  BY <1>1, <1>4, <1>5, <1>6, <1>7, <1>8, BoundedTwo

-----------------------------------------------------------------------------
(* Linear layers. *)

\* A matrix, if the call has it.
Laid(c, role, rows, columns) ==
  role \in DOMAIN c.t =>
    Len(c.t[role].shape) = 2 /\ c.t[role].shape[1] = rows /\ c.t[role].shape[2] = columns

LEMMA LaidInTensor ==
  ASSUME NEW c, CallAssumed(c), AllocatedOf(c), NEW role, NEW rows, NEW columns, Laid(c, role, rows, columns),
         NEW i \in Below(rows), NEW j \in Below(columns)
  PROVE  InTensor(c, <<role, i * columns + j>>)
<1>1. CASE role \in DOMAIN c.t
  <2>1. /\ Len(c.t[role].shape) = 2 /\ i \in Below(c.t[role].shape[1]) /\ j \in Below(c.t[role].shape[2])
        /\ c.t[role].shape[2] = columns
    BY <1>1 DEF Laid
  <2>2. InTensor(c, <<role, i * c.t[role].shape[2] + j>>)
    BY <2>1, MatrixInTensor
  <2> QED
    BY <2>1, <2>2
<1>2. CASE role \notin DOMAIN c.t
  BY <1>2 DEF InTensor
<1> QED
  BY <1>1, <1>2

LinearLaid(c) ==
  LET d == LinearDims(c) IN
  /\ LinearMeasured(c)
  /\ Laid(c, "input", d.batch_size, d.input_features) /\ Laid(c, "grad_input", d.batch_size, d.input_features)
  /\ Laid(c, "weights", d.output_features, d.input_features)
  /\ Laid(c, "grad_weights", d.output_features, d.input_features)
  /\ Laid(c, "result", d.batch_size, d.output_features) /\ Laid(c, "grad_output", d.batch_size, d.output_features)
  /\ \A role \in {"bias", "grad_bias"} :
       role \in DOMAIN c.t => Len(c.t[role].shape) = 1 /\ c.t[role].shape[1] = d.output_features

LEMMA LinearCells ==
  ASSUME NEW c, CallAssumed(c), AllocatedOf(c), LinearLaid(c), NEW d, d = LinearDims(c)
  PROVE  /\ \A n \in Below(d.batch_size), i \in Below(d.input_features) :
              InTensor(c, InputAt(d, n, i)) /\ InTensor(c, <<"grad_input", n * d.input_features + i>>)
         /\ \A o \in Below(d.output_features), i \in Below(d.input_features) :
              InTensor(c, WeightAt(d, o, i)) /\ InTensor(c, <<"grad_weights", o * d.input_features + i>>)
         /\ \A n \in Below(d.batch_size), o \in Below(d.output_features) :
              InTensor(c, GradAt(d, n, o)) /\ InTensor(c, <<"result", n * d.output_features + o>>)
         /\ \A o \in Below(d.output_features) : InTensor(c, <<"bias", o>>) /\ InTensor(c, <<"grad_bias", o>>)
<1>1. PICK batch, in, out : batch = d.batch_size /\ in = d.input_features /\ out = d.output_features
  OBVIOUS
<1>2. /\ Laid(c, "input", batch, in) /\ Laid(c, "grad_input", batch, in) /\ Laid(c, "weights", out, in)
      /\ Laid(c, "grad_weights", out, in) /\ Laid(c, "result", batch, out) /\ Laid(c, "grad_output", batch, out)
      /\ \A role \in {"bias", "grad_bias"} : role \in DOMAIN c.t => Len(c.t[role].shape) = 1 /\ c.t[role].shape[1] = out
  BY <1>1 DEF LinearLaid
<1>3. ASSUME NEW n \in Below(batch), NEW i \in Below(in)
      PROVE  InTensor(c, <<"input", n * in + i>>) /\ InTensor(c, <<"grad_input", n * in + i>>)
  BY <1>2, LaidInTensor
<1>4. ASSUME NEW o \in Below(out), NEW i \in Below(in)
      PROVE  InTensor(c, <<"weights", o * in + i>>) /\ InTensor(c, <<"grad_weights", o * in + i>>)
  BY <1>2, LaidInTensor
<1>5. ASSUME NEW n \in Below(batch), NEW o \in Below(out)
      PROVE  InTensor(c, <<"grad_output", n * out + o>>) /\ InTensor(c, <<"result", n * out + o>>)
  BY <1>2, LaidInTensor
<1>6. ASSUME NEW o \in Below(out) PROVE InTensor(c, <<"bias", o>>) /\ InTensor(c, <<"grad_bias", o>>)
  BY <1>2, VectorInTensor
<1> QED
  BY <1>1, <1>3, <1>4, <1>5, <1>6 DEF InputAt, WeightAt, GradAt

LEMMA LinearLoopSafe ==
  ASSUME NEW c, CallAssumed(c), AllocatedOf(c), LinearLaid(c)
  PROVE  SafeLoop(c, "linear") /\ SafeLoop(c, "linear_grad_input") /\ SafeLoop(c, "linear_grad_weights")
         /\ SafeLoop(c, "linear_grad_bias")
<1>1. PICK d : d = LinearDims(c)
  OBVIOUS
<1>2. PICK batch \in Nat, in \in Nat, out \in Nat :
        batch = d.batch_size /\ in = d.input_features /\ out = d.output_features
  BY <1>1 DEF LinearLaid, LinearMeasured
<1>3. /\ \A n \in Below(batch), i \in Below(in) :
           InTensor(c, InputAt(d, n, i)) /\ InTensor(c, <<"grad_input", n * in + i>>)
      /\ \A o \in Below(out), i \in Below(in) :
           InTensor(c, WeightAt(d, o, i)) /\ InTensor(c, <<"grad_weights", o * in + i>>)
      /\ \A n \in Below(batch), o \in Below(out) :
           InTensor(c, GradAt(d, n, o)) /\ InTensor(c, <<"result", n * out + o>>)
      /\ \A o \in Below(out) : InTensor(c, <<"bias", o>>) /\ InTensor(c, <<"grad_bias", o>>)
  <2>1. /\ \A n \in Below(d.batch_size), i \in Below(d.input_features) :
             InTensor(c, InputAt(d, n, i)) /\ InTensor(c, <<"grad_input", n * d.input_features + i>>)
        /\ \A o \in Below(d.output_features), i \in Below(d.input_features) :
             InTensor(c, WeightAt(d, o, i)) /\ InTensor(c, <<"grad_weights", o * d.input_features + i>>)
        /\ \A n \in Below(d.batch_size), o \in Below(d.output_features) :
             InTensor(c, GradAt(d, n, o)) /\ InTensor(c, <<"result", n * d.output_features + o>>)
        /\ \A o \in Below(d.output_features) : InTensor(c, <<"bias", o>>) /\ InTensor(c, <<"grad_bias", o>>)
    BY <1>1, LinearCells
  <2> QED
    BY <1>2, <2>1
<1>4. c.t["input"].shape[1] = batch /\ c.t["input"].shape[2] = in /\ c.t["weights"].shape[1] = out
  BY <1>1, <1>2 DEF LinearDims
<1>5. SafeLoop(c, "linear")
  <2> SUFFICES ASSUME NEW work \in Below(batch * out) PROVE AllSafe(c, Body(c, "linear", work))
    BY <1>4 DEF SafeLoop, Iterations
  <2>1. PICK n, o : n = work \div out /\ o = work % out
    OBVIOUS
  <2>2. n \in Below(batch) /\ o \in Below(out) /\ work = n * out + o
    BY <2>1, QuotientBelow
  <2> DEFINE terms == {<<InputAt(d, n, i), WeightAt(d, o, i)>> : i \in Below(in)}
                      \cup (IF "bias" \in DOMAIN c.t THEN {<< <<"bias", o>> >>} ELSE {})
  <2>3. Body(c, "linear", work) = {Effect(<<"result", work>>, terms)}
    BY <1>1, <1>2, <2>1 DEF Body, LinearCpuFloat32Task
  <2>4. InTensor(c, <<"result", work>>)
    BY <1>3, <2>2
  <2>5. \A term \in terms : SafeTerm(c, term)
    BY <1>3, <2>2, SafeProducts
  <2> HIDE DEF terms
  <2>6. Safe(c, Effect(<<"result", work>>, terms))
    BY <2>4, <2>5, SafeEffect
  <2> QED
    BY <2>3, <2>6 DEF AllSafe
<1>6. SafeLoop(c, "linear_grad_input")
  <2> SUFFICES ASSUME NEW index \in Below(batch * in) PROVE AllSafe(c, Body(c, "linear_grad_input", index))
    BY <1>4 DEF SafeLoop, Iterations
  <2>1. PICK n, i : n = index \div in /\ i = index % in
    OBVIOUS
  <2>2. n \in Below(batch) /\ i \in Below(in) /\ index = n * in + i
    BY <2>1, QuotientBelow
  <2> DEFINE terms == {<<GradAt(d, n, o), WeightAt(d, o, i)>> : o \in Below(out)}
  <2>3. Body(c, "linear_grad_input", index) = {Effect(<<"grad_input", index>>, terms)}
    BY <1>1, <1>2, <2>1 DEF Body, LinearGradInput
  <2>4. InTensor(c, <<"grad_input", index>>)
    BY <1>3, <2>2
  <2>5. \A term \in terms : SafeTerm(c, term)
    BY <1>3, <2>2, SafeProducts
  <2> HIDE DEF terms
  <2>6. Safe(c, Effect(<<"grad_input", index>>, terms))
    BY <2>4, <2>5, SafeEffect
  <2> QED
    BY <2>3, <2>6 DEF AllSafe
<1>7. SafeLoop(c, "linear_grad_weights")
  <2> SUFFICES ASSUME NEW index \in Below(out * in) PROVE AllSafe(c, Body(c, "linear_grad_weights", index))
    BY <1>4 DEF SafeLoop, Iterations
  <2>1. PICK o, i : o = index \div in /\ i = index % in
    OBVIOUS
  <2>2. o \in Below(out) /\ i \in Below(in) /\ index = o * in + i
    BY <2>1, QuotientBelow
  <2> DEFINE terms == {<<GradAt(d, n, o), InputAt(d, n, i)>> : n \in Below(batch)}
  <2>3. Body(c, "linear_grad_weights", index) = {Effect(<<"grad_weights", index>>, terms)}
    BY <1>1, <1>2, <2>1 DEF Body, LinearGradWeights
  <2>4. InTensor(c, <<"grad_weights", index>>)
    BY <1>3, <2>2
  <2>5. \A term \in terms : SafeTerm(c, term)
    BY <1>3, <2>2, SafeProducts
  <2> HIDE DEF terms
  <2>6. Safe(c, Effect(<<"grad_weights", index>>, terms))
    BY <2>4, <2>5, SafeEffect
  <2> QED
    BY <2>3, <2>6 DEF AllSafe
<1>8. SafeLoop(c, "linear_grad_bias")
  <2> SUFFICES ASSUME NEW o \in Below(out) PROVE AllSafe(c, Body(c, "linear_grad_bias", o))
    BY <1>4 DEF SafeLoop, Iterations
  <2> DEFINE terms == {<<GradAt(d, n, o)>> : n \in Below(batch)}
  <2>3. Body(c, "linear_grad_bias", o) = {Effect(<<"grad_bias", o>>, terms)}
    BY <1>1, <1>2 DEF Body, LinearGradBias
  <2>4. InTensor(c, <<"grad_bias", o>>)
    BY <1>3
  <2>5. \A term \in terms : SafeTerm(c, term)
    BY <1>3, SafeProducts
  <2> HIDE DEF terms
  <2>6. Safe(c, Effect(<<"grad_bias", o>>, terms))
    BY <2>4, <2>5, SafeEffect
  <2> QED
    BY <2>3, <2>6 DEF AllSafe
<1> QED
  BY <1>5, <1>6, <1>7, <1>8

LEMMA LoadSafe ==
  ASSUME NEW c, CallAssumed(c), NEW tile \in TileNames, NEW block, NEW row, NEW col, NEW inside, NEW cell,
         inside => InTensor(c, cell)
  PROVE  Safe(c, Load(tile, block, row, col, inside, cell))
<1> DEFINE terms == IF inside THEN {<<cell>>} ELSE {}   to == Shared(tile, block, row, col)
<1>1. Load(tile, block, row, col, inside, cell) = Effect(to, terms)
  BY DEF Load
<1>2. InTensor(c, to)
  <2>1. to[1] \in NoTensors
    BY DEF Shared, NoTensors, BlockNames
  <2> HIDE DEF to
  <2> QED
    BY <2>1, NotTensors
<1>3. \A term \in terms : SafeTerm(c, term)
  BY SafeProducts
<1> HIDE DEF terms, to
<1> QED
  BY <1>1, <1>2, <1>3, SafeEffect

LEMMA MultipliedSafe ==
  ASSUME NEW c, CallAssumed(c), NEW e, NEW block, NEW thread, Multiplied(e, block, thread)
  PROVE  Safe(c, e)
<1>1. e.to[1] = "sum" /\ \A x \in Reads(e) : x = e.to \/ x[1] \in TileNames
  BY DEF Multiplied, Register
<1>2. \A x \in Reads(e) \cup {e.to} : x[1] \in NoTensors
  BY <1>1 DEF NoTensors, BlockNames
<1> QED
  BY <1>2, NotTensors DEF Safe

LEMMA StoreSafe ==
  ASSUME NEW c, CallAssumed(c), NEW block, NEW thread, NEW i, NEW j, NEW inside, NEW cell, NEW more,
         inside => InTensor(c, cell) /\ \A term \in more : SafeTerm(c, term),
         NEW e \in Store(block, thread, i, j, inside, cell, more)
  PROVE  Safe(c, e)
<1> DEFINE sum == Register(block, thread, i, j)   terms == {<<sum>>} \cup more
<1>1. inside /\ e = Effect(cell, terms)
  BY DEF Store
<1>2. InTensor(c, sum)
  <2>1. sum[1] \in NoTensors
    BY DEF Register, NoTensors, BlockNames
  <2> HIDE DEF sum
  <2> QED
    BY <2>1, NotTensors
<1> HIDE DEF sum
<1>3. \A term \in terms : SafeTerm(c, term)
  BY <1>1, <1>2, SafeProducts
<1> HIDE DEF terms
<1> QED
  BY <1>1, <1>3, SafeEffect

\* A thread <<tx, ty>> of a block of a tiled kernel, and the stage it is in.
InSquare(block, thread, at) ==
  /\ block[1] \in Nat /\ block[2] \in Nat /\ at \in Nat
  /\ thread[1] \in Below(BlockAxis) /\ thread[2] \in Below(BlockAxis)

LEMMA SquarePlaces ==
  ASSUME NEW block, NEW thread, NEW at, InSquare(block, thread, at)
  PROVE  /\ \A i \in Half : /\ Place(block[1], thread[1], i) \in Nat /\ Place(block[2], thread[2], i) \in Nat
                            /\ Place(block[2], thread[1], i) \in Nat /\ Place(block[1], thread[2], i) \in Nat
         /\ (at \div 2) * BlockAxis + thread[1] \in Nat /\ (at \div 2) * BlockAxis + thread[2] \in Nat
<1>1. PICK bx \in Nat, by \in Nat, tx \in Below(BlockAxis), ty \in Below(BlockAxis) :
        bx = block[1] /\ by = block[2] /\ tx = thread[1] /\ ty = thread[2]
  BY DEF InSquare
<1>2. ASSUME NEW i \in Half
      PROVE  Place(bx, tx, i) \in Nat /\ Place(by, ty, i) \in Nat /\ Place(by, tx, i) \in Nat /\ Place(bx, ty, i) \in Nat
  <2>1. Place(bx, tx, i) \in Nat /\ Place(bx, ty, i) \in Nat
    BY PlacesDiffer
  <2>2. Place(by, tx, i) \in Nat /\ Place(by, ty, i) \in Nat
    BY PlacesDiffer
  <2> QED
    BY <2>1, <2>2
<1>3. PICK base \in Nat : base = (at \div 2) * BlockAxis
  <2>1. PICK half \in Nat : half = at \div 2
    BY Quotient DEF InSquare
  <2>2. PICK axis \in Nat : axis = BlockAxis
    BY BlocksAreNat
  <2>3. half * axis \in Nat
    OBVIOUS
  <2> QED
    BY <2>1, <2>2, <2>3
<1>4. base + tx \in Nat /\ base + ty \in Nat
  BY BlocksAreNat DEF Below
<1> QED
  BY <1>1, <1>2, <1>3, <1>4

LEMMA LinearTilesSafe ==
  ASSUME NEW c, CallAssumed(c), AllocatedOf(c), LinearLaid(c), NEW block, NEW thread, NEW at,
         InSquare(block, thread, at), NEW e \in linear_cuda_float32_kernel(c, block, thread, at)
  PROVE  Safe(c, e)
<1>1. PICK d : d = LinearDims(c)
  OBVIOUS
<1>2. PICK batch \in Nat, in \in Nat, out \in Nat :
        batch = d.batch_size /\ in = d.input_features /\ out = d.output_features
  BY <1>1 DEF LinearLaid, LinearMeasured
<1>3. /\ \A n \in Below(batch), i \in Below(in) : InTensor(c, InputAt(d, n, i))
      /\ \A o \in Below(out), i \in Below(in) : InTensor(c, WeightAt(d, o, i))
      /\ \A n \in Below(batch), o \in Below(out) : InTensor(c, <<"result", n * out + o>>)
      /\ \A o \in Below(out) : InTensor(c, <<"bias", o>>)
  BY <1>1, <1>2, LinearCells
<1>4. PICK feature \in Nat : feature = (at \div 2) * BlockAxis + thread[1]
  BY SquarePlaces
<1>5. \A i \in Half : /\ Place(block[1], thread[1], i) \in Nat /\ Place(block[2], thread[2], i) \in Nat
                      /\ Place(block[1], thread[2], i) \in Nat
  BY SquarePlaces
<1>6. CASE at = 2 * Tiles(c, "linear")
  <2> DEFINE row(i) == Place(block[2], thread[2], i)   column(j) == Place(block[1], thread[1], j)
             more(j) == IF "bias" \in DOMAIN c.t THEN {<< <<"bias", column(j)>> >>} ELSE {}
  <2>0. linear_cuda_float32_kernel(c, block, thread, at) =
          UNION {Store(block, thread, i, j, row(i) < d.batch_size /\ column(j) < d.output_features,
                      <<"result", row(i) * d.output_features + column(j)>>, more(j)) : i, j \in Half}
    BY <1>1, <1>6 DEF linear_cuda_float32_kernel
  <2>1. PICK i \in Half, j \in Half :
          e \in Store(block, thread, i, j, row(i) < d.batch_size /\ column(j) < d.output_features,
                      <<"result", row(i) * d.output_features + column(j)>>, more(j))
    <3> HIDE DEF row, column, more
    <3> QED
      BY <2>0
  <2>2. PICK n \in Nat, o \in Nat : n = row(i) /\ o = column(j)
    BY <1>5
  <2> DEFINE added == IF "bias" \in DOMAIN c.t THEN {<< <<"bias", o>> >>} ELSE {}
             inside == n < batch /\ o < out
  <2>3. e \in Store(block, thread, i, j, inside, <<"result", n * out + o>>, added)
    BY <1>2, <2>1, <2>2
  <2>4. inside => InTensor(c, <<"result", n * out + o>>) /\ InTensor(c, <<"bias", o>>)
    <3> SUFFICES ASSUME inside PROVE n \in Below(batch) /\ o \in Below(out)
      BY <1>3
    <3> QED
      BY DEF Below
  <2>5. InTensor(c, <<"bias", o>>) => \A term \in added : SafeTerm(c, term)
    BY SafeProducts
  <2> HIDE DEF inside, added
  <2> QED
    BY <2>3, <2>4, <2>5, StoreSafe
<1>7. CASE at # 2 * Tiles(c, "linear") /\ at % 2 = 0
  <2>1. PICK i \in Half :
          \/ e = Load("input_tile", block, InTile(thread[2], i), thread[1],
                      Place(block[2], thread[2], i) < batch /\ feature < in,
                      InputAt(d, Place(block[2], thread[2], i), feature))
          \/ e = Load("weight_tile", block, InTile(thread[2], i), thread[1],
                      Place(block[1], thread[2], i) < out /\ feature < in,
                      WeightAt(d, Place(block[1], thread[2], i), feature))
    BY <1>1, <1>2, <1>4, <1>7 DEF linear_cuda_float32_kernel, Multiply
  <2>2. PICK n \in Nat, o \in Nat : n = Place(block[2], thread[2], i) /\ o = Place(block[1], thread[2], i)
    BY <1>5
  <2>3. /\ n < batch /\ feature < in => InTensor(c, InputAt(d, n, feature))
        /\ o < out /\ feature < in => InTensor(c, WeightAt(d, o, feature))
    BY <1>3 DEF Below
  <2>4. PICK tile, inside, cell :
          /\ tile \in TileNames /\ e = Load(tile, block, InTile(thread[2], i), thread[1], inside, cell)
          /\ inside => InTensor(c, cell)
    BY <2>1, <2>2, <2>3 DEF TileNames
  <2> QED
    BY <2>4, LoadSafe
<1>8. CASE at # 2 * Tiles(c, "linear") /\ at % 2 # 0
  <2>1. TiledEffect(e, "linear", Tiles(c, "linear"), "result", LinearDims(c).output_features, block, thread, at)
    BY LinearTiles
  <2> QED
    BY <1>8, <2>1, MultipliedSafe DEF TiledEffect
<1> QED
  BY <1>6, <1>7, <1>8

LEMMA GradWeightsTilesSafe ==
  ASSUME NEW c, CallAssumed(c), AllocatedOf(c), LinearLaid(c), NEW block, NEW thread, NEW at,
         InSquare(block, thread, at),
         NEW e \in backward_linear_grad_weights_cuda_float32_kernel(c, block, thread, at)
  PROVE  Safe(c, e)
<1>1. PICK d : d = LinearDims(c)
  OBVIOUS
<1>2. PICK batch \in Nat, in \in Nat, out \in Nat :
        batch = d.batch_size /\ in = d.input_features /\ out = d.output_features
  BY <1>1 DEF LinearLaid, LinearMeasured
<1>3. /\ \A n \in Below(batch), i \in Below(in) : InTensor(c, InputAt(d, n, i))
      /\ \A o \in Below(out), i \in Below(in) : InTensor(c, <<"grad_weights", o * in + i>>)
      /\ \A n \in Below(batch), o \in Below(out) : InTensor(c, GradAt(d, n, o))
  BY <1>1, <1>2, LinearCells
<1>4. PICK n \in Nat : n = (at \div 2) * BlockAxis + thread[2]
  BY SquarePlaces
<1>5. \A i \in Half : /\ Place(block[1], thread[1], i) \in Nat /\ Place(block[2], thread[2], i) \in Nat
                      /\ Place(block[2], thread[1], i) \in Nat
  BY SquarePlaces
<1>6. CASE at = 2 * Tiles(c, "linear_grad_weights")
  <2> DEFINE row(i) == Place(block[2], thread[2], i)   column(j) == Place(block[1], thread[1], j)
  <2>0. backward_linear_grad_weights_cuda_float32_kernel(c, block, thread, at) =
          UNION {Store(block, thread, i, j, row(i) < d.output_features /\ column(j) < d.input_features,
                      <<"grad_weights", row(i) * d.input_features + column(j)>>, {}) : i, j \in Half}
    BY <1>1, <1>6 DEF backward_linear_grad_weights_cuda_float32_kernel
  <2>1. PICK i \in Half, j \in Half :
          e \in Store(block, thread, i, j, row(i) < d.output_features /\ column(j) < d.input_features,
                      <<"grad_weights", row(i) * d.input_features + column(j)>>, {})
    <3> HIDE DEF row, column
    <3> QED
      BY <2>0
  <2>2. PICK o \in Nat, k \in Nat : o = row(i) /\ k = column(j)
    BY <1>5
  <2> DEFINE inside == o < out /\ k < in
  <2>3. e \in Store(block, thread, i, j, inside, <<"grad_weights", o * in + k>>, {})
    BY <1>2, <2>1, <2>2
  <2>4. inside => InTensor(c, <<"grad_weights", o * in + k>>)
    <3> SUFFICES ASSUME inside PROVE o \in Below(out) /\ k \in Below(in)
      BY <1>3
    <3> QED
      BY DEF Below
  <2> HIDE DEF inside
  <2> QED
    BY <2>3, <2>4, StoreSafe
<1>7. CASE at # 2 * Tiles(c, "linear_grad_weights") /\ at % 2 = 0
  <2>1. PICK i \in Half :
          \/ e = Load("grad_output_tile", block, thread[2], InTile(thread[1], i),
                      n < batch /\ Place(block[2], thread[1], i) < out,
                      GradAt(d, n, Place(block[2], thread[1], i)))
          \/ e = Load("input_tile", block, thread[2], InTile(thread[1], i),
                      n < batch /\ Place(block[1], thread[1], i) < in,
                      InputAt(d, n, Place(block[1], thread[1], i)))
    BY <1>1, <1>2, <1>4, <1>7 DEF backward_linear_grad_weights_cuda_float32_kernel, Multiply
  <2>2. PICK o \in Nat, k \in Nat : o = Place(block[2], thread[1], i) /\ k = Place(block[1], thread[1], i)
    BY <1>5
  <2>3. /\ n < batch /\ o < out => InTensor(c, GradAt(d, n, o))
        /\ n < batch /\ k < in => InTensor(c, InputAt(d, n, k))
    BY <1>3 DEF Below
  <2>4. PICK tile, inside, cell :
          /\ tile \in TileNames /\ e = Load(tile, block, thread[2], InTile(thread[1], i), inside, cell)
          /\ inside => InTensor(c, cell)
    BY <2>1, <2>2, <2>3 DEF TileNames
  <2> QED
    BY <2>4, LoadSafe
<1>8. CASE at # 2 * Tiles(c, "linear_grad_weights") /\ at % 2 # 0
  <2>1. TiledEffect(e, "linear_grad_weights", Tiles(c, "linear_grad_weights"), "grad_weights",
                    LinearDims(c).input_features, block, thread, at)
    BY GradWeightsTiles
  <2> QED
    BY <1>8, <2>1, MultipliedSafe DEF TiledEffect
<1> QED
  BY <1>6, <1>7, <1>8

LEMMA GradInputTilesSafe ==
  ASSUME NEW c, CallAssumed(c), AllocatedOf(c), LinearLaid(c), NEW block, NEW thread, NEW at,
         InSquare(block, thread, at),
         NEW e \in backward_linear_grad_input_cuda_float32_kernel(c, block, thread, at)
  PROVE  Safe(c, e)
<1>1. PICK d : d = LinearDims(c)
  OBVIOUS
<1>2. PICK batch \in Nat, in \in Nat, out \in Nat :
        batch = d.batch_size /\ in = d.input_features /\ out = d.output_features
  BY <1>1 DEF LinearLaid, LinearMeasured
<1>3. /\ \A n \in Below(batch), i \in Below(in) : InTensor(c, <<"grad_input", n * in + i>>)
      /\ \A o \in Below(out), i \in Below(in) : InTensor(c, WeightAt(d, o, i))
      /\ \A n \in Below(batch), o \in Below(out) : InTensor(c, GradAt(d, n, o))
  BY <1>1, <1>2, LinearCells
<1>4. PICK across \in Nat, down \in Nat :
        across = (at \div 2) * BlockAxis + thread[1] /\ down = (at \div 2) * BlockAxis + thread[2]
  BY SquarePlaces
<1>5. \A i \in Half : Place(block[1], thread[1], i) \in Nat /\ Place(block[2], thread[2], i) \in Nat
  BY SquarePlaces
<1>6. CASE at = 2 * Tiles(c, "linear_grad_input")
  <2> DEFINE row(i) == Place(block[2], thread[2], i)   column(j) == Place(block[1], thread[1], j)
  <2>0. backward_linear_grad_input_cuda_float32_kernel(c, block, thread, at) =
          UNION {Store(block, thread, i, j, row(i) < d.batch_size /\ column(j) < d.input_features,
                      <<"grad_input", row(i) * d.input_features + column(j)>>, {}) : i, j \in Half}
    BY <1>1, <1>6 DEF backward_linear_grad_input_cuda_float32_kernel
  <2>1. PICK i \in Half, j \in Half :
          e \in Store(block, thread, i, j, row(i) < d.batch_size /\ column(j) < d.input_features,
                      <<"grad_input", row(i) * d.input_features + column(j)>>, {})
    <3> HIDE DEF row, column
    <3> QED
      BY <2>0
  <2>2. PICK n \in Nat, k \in Nat : n = row(i) /\ k = column(j)
    BY <1>5
  <2> DEFINE inside == n < batch /\ k < in
  <2>3. e \in Store(block, thread, i, j, inside, <<"grad_input", n * in + k>>, {})
    BY <1>2, <2>1, <2>2
  <2>4. inside => InTensor(c, <<"grad_input", n * in + k>>)
    <3> SUFFICES ASSUME inside PROVE n \in Below(batch) /\ k \in Below(in)
      BY <1>3
    <3> QED
      BY DEF Below
  <2> HIDE DEF inside
  <2> QED
    BY <2>3, <2>4, StoreSafe
<1>7. CASE at # 2 * Tiles(c, "linear_grad_input") /\ at % 2 = 0
  <2>1. PICK i \in Half :
          \/ e = Load("grad_output_tile", block, InTile(thread[2], i), thread[1],
                      Place(block[2], thread[2], i) < batch /\ across < out,
                      GradAt(d, Place(block[2], thread[2], i), across))
          \/ e = Load("weight_tile", block, InTile(thread[1], i), thread[2],
                      down < out /\ Place(block[1], thread[1], i) < in,
                      WeightAt(d, down, Place(block[1], thread[1], i)))
    BY <1>1, <1>2, <1>4, <1>7 DEF backward_linear_grad_input_cuda_float32_kernel, Multiply
  <2>2. PICK n \in Nat, k \in Nat : n = Place(block[2], thread[2], i) /\ k = Place(block[1], thread[1], i)
    BY <1>5
  <2>3. /\ n < batch /\ across < out => InTensor(c, GradAt(d, n, across))
        /\ down < out /\ k < in => InTensor(c, WeightAt(d, down, k))
    BY <1>3 DEF Below
  <2>4. PICK tile, row, column, inside, cell :
          /\ tile \in TileNames /\ e = Load(tile, block, row, column, inside, cell)
          /\ inside => InTensor(c, cell)
    BY <2>1, <2>2, <2>3 DEF TileNames
  <2> QED
    BY <2>4, LoadSafe
<1>8. CASE at # 2 * Tiles(c, "linear_grad_input") /\ at % 2 # 0
  <2>1. TiledEffect(e, "linear_grad_input", Tiles(c, "linear_grad_input"), "grad_input",
                    LinearDims(c).input_features, block, thread, at)
    BY GradInputTiles
  <2> QED
    BY <1>8, <2>1, MultipliedSafe DEF TiledEffect
<1> QED
  BY <1>6, <1>7, <1>8

LEMMA TiledSafe ==
  ASSUME NEW c, CallAssumed(c), AllocatedOf(c), LinearLaid(c), NEW launch \in Tiled
  PROVE  SafeGrid(c, launch)
<1>1. LinearMeasured(c)
  BY DEF LinearLaid
<1>2. launch \in Sound(c) \cap Tiled
  <2>1. c.t["input"].shape[1] \in Nat /\ c.t["input"].shape[2] \in Nat /\ c.t["weights"].shape[1] \in Nat
    BY <1>1 DEF LinearMeasured, LinearDims
  <2>2. Iterations(c, launch) \in Nat
    BY <2>1 DEF Iterations, Tiled
  <2> QED
    BY <1>1, <2>2 DEF Sound, Measured, LaunchNames, ElementLoops, ConvLoops, PoolLoops, Tiled
<1>3. LastStage(c, launch) \in Nat
  BY <1>2, LastIsNat
<1> SUFFICES ASSUME NEW g \in Grid(c, launch), NEW t \in Threads(launch), NEW m \in 0..LastStage(c, launch),
                    NEW e \in Effects(c, launch, g, t, m)
             PROVE  Safe(c, e)
  BY DEF SafeGrid, AllSafe
<1>4. InSquare(g, t, m)
  <2>1. g[1] \in Nat /\ g[2] \in Nat
    BY <1>2, TiledLaunch, TiledMeasured
  <2>2. t[1] \in Below(BlockAxis) /\ t[2] \in Below(BlockAxis)
    BY TiledLaunch
  <2> QED
    BY <1>3, <2>1, <2>2 DEF InSquare
<1>5. launch \notin Memset /\ launch \notin Indexed /\ launch \notin Planar
  BY DEF Tiled, Memset, Indexed, Planar
<1>6. CASE launch = "linear"
  BY <1>4, <1>5, <1>6, LinearTilesSafe DEF Effects
<1>7. CASE launch = "linear_grad_input"
  BY <1>4, <1>5, <1>7, GradInputTilesSafe DEF Effects
<1>8. CASE launch = "linear_grad_weights"
  BY <1>4, <1>5, <1>8, GradWeightsTilesSafe DEF Effects
<1> QED
  BY <1>6, <1>7, <1>8 DEF Tiled

LEMMA BiasSafe ==
  ASSUME NEW c, CallAssumed(c), AllocatedOf(c), LinearLaid(c)
  PROVE  SafeGrid(c, "linear_grad_bias")
<1> DEFINE launch == "linear_grad_bias"
<1>1. PICK d : d = LinearDims(c)
  OBVIOUS
<1>2. PICK batch \in Nat, out \in Nat : batch = d.batch_size /\ out = d.output_features
  BY <1>1 DEF LinearLaid, LinearMeasured
<1>3. /\ \A n \in Below(batch), o \in Below(out) : InTensor(c, GradAt(d, n, o))
      /\ \A o \in Below(out) : InTensor(c, <<"grad_bias", o>>)
  BY <1>1, <1>2, LinearCells
<1>4. c.t["weights"].shape[1] = out
  BY <1>1, <1>2 DEF LinearDims
<1>5. launch \notin Memset /\ launch \notin Indexed /\ launch \notin Planar /\ launch \notin Tiled
  BY DEF Memset, Indexed, Planar, Tiled
<1> SUFFICES ASSUME NEW g \in Grid(c, launch), NEW t \in Threads(launch), NEW m, NEW e \in Effects(c, launch, g, t, m)
             PROVE  Safe(c, e)
  BY DEF SafeGrid, AllSafe
<1>6. e \in backward_linear_grad_bias_cuda_float32_kernel(c, g, t, m)
  BY <1>5 DEF Effects
<1>7. BiasTile \in Nat \ {0} /\ BiasLanes \in Nat \ {0}
  BY BlocksAreNat
<1>8. PICK o \in Nat : o = g * BiasTile + t[1]
  <2>1. DivideUp(out, BiasTile) \in Nat
    BY <1>7, DividedUp
  <2>2. g \in Below(DivideUp(out, BiasTile)) /\ t[1] \in Below(BiasTile)
    BY <1>4, BiasLaunch
  <2>3. PICK block \in Nat, x \in Nat, tile \in Nat : block = g /\ x = t[1] /\ tile = BiasTile
    BY <1>7, <2>1, <2>2 DEF Below
  <2>4. block * tile + x \in Nat
    OBVIOUS
  <2> QED
    BY <2>3, <2>4
<1>9. \A lane : InTensor(c, Shared("partial_sums", g, lane, t[1]))
  BY NotTensors DEF Shared, NoTensors, BlockNames
<1>10. CASE m = 0
  <2> DEFINE mine == {n \in Below(batch) : n % BiasLanes = t[2]}
             terms == IF o < out THEN {<<GradAt(d, n, o)>> : n \in mine} ELSE {}
             to == Shared("partial_sums", g, t[2], t[1])
  <2>1. e = Effect(to, terms)
    BY <1>1, <1>2, <1>6, <1>8, <1>10 DEF backward_linear_grad_bias_cuda_float32_kernel
  <2>2. o < out => o \in Below(out)
    BY DEF Below
  <2>3. \A term \in terms : SafeTerm(c, term)
    BY <1>3, <2>2, SafeProducts
  <2>4. InTensor(c, to)
    BY <1>9
  <2> HIDE DEF terms, to
  <2> QED
    BY <2>1, <2>3, <2>4, SafeEffect
<1>11. CASE m # 0
  <2> DEFINE terms == {<<Shared("partial_sums", g, lane, t[1])>> : lane \in Below(BiasLanes)}
  <2>1. o < out /\ e = Effect(<<"grad_bias", o>>, terms)
    BY <1>1, <1>2, <1>6, <1>8, <1>11 DEF backward_linear_grad_bias_cuda_float32_kernel
  <2>2. InTensor(c, <<"grad_bias", o>>)
    BY <1>3, <2>1 DEF Below
  <2>3. \A term \in terms : SafeTerm(c, term)
    BY <1>9, SafeProducts
  <2> HIDE DEF terms
  <2> QED
    BY <2>1, <2>2, <2>3, SafeEffect
<1> QED
  BY <1>10, <1>11

LEMMA LinearBounded ==
  ASSUME NEW c, CallAssumed(c), AllocatedOf(c), c.op = "linear", Entry(c) # Threw
  PROVE  Bounded(c, Entry(c))
<1> DEFINE t == c.t   d == LinearDims(c)
<1>1. /\ validate_linear_inputs(t["input"], t["weights"], Optional(c, "bias"), t["result"])
      /\ Entry(c) = "linear"
  BY Zenon DEF Entry, linear, linear_unchecked, Checked, Launch
<1>2. /\ Len(t["input"].shape) = 2 /\ Len(t["weights"].shape) = 2 /\ Len(t["result"].shape) = 2
      /\ t["input"].shape[2] = t["weights"].shape[2]
      /\ t["result"].shape[1] = t["input"].shape[1] /\ t["result"].shape[2] = t["weights"].shape[1]
  BY <1>1 DEF validate_linear_inputs, AllRank, Rank
<1>3. "bias" \in DOMAIN t => Len(t["bias"].shape) = 1 /\ t["bias"].shape[1] = t["weights"].shape[1]
  <2>1. \A b \in Optional(c, "bias") : Len(b.shape) = 1 /\ b.shape[1] = t["weights"].shape[1]
    BY <1>1 DEF validate_linear_inputs, AllRank, Rank
  <2> QED
    BY <2>1 DEF Optional
<1>4. DOMAIN t \subseteq {"input", "weights", "result", "bias"}
  BY DEF CallAssumed, Takes, MayTake
<1>5. LinearMeasured(c)
  <2>1. "input" \in Takes[c.op] /\ "weights" \in Takes[c.op]
    BY DEF Takes
  <2>2. t["input"].shape[1] \in Nat /\ t["input"].shape[2] \in Nat
    BY <1>2, <2>1, TwoSizes
  <2>3. t["weights"].shape[1] \in Nat
    BY <1>2, <2>1, TwoSizes
  <2> QED
    BY <2>2, <2>3 DEF LinearMeasured, LinearDims
<1>6. /\ d.batch_size = t["input"].shape[1] /\ d.input_features = t["input"].shape[2]
      /\ d.output_features = t["weights"].shape[1]
  BY DEF LinearDims
<1>7. LinearLaid(c)
  <2> HIDE DEF d
  <2> QED
    BY <1>2, <1>3, <1>4, <1>5, <1>6 DEF LinearLaid, Laid, d
<1>8. SafeLoop(c, "linear") /\ SafeGrid(c, "linear")
  <2>1. "linear" \in Tiled
    BY DEF Tiled
  <2> QED
    BY <1>7, <2>1, LinearLoopSafe, TiledSafe
<1>9. "linear" \in CpuBounded(c) /\ "linear" \in CudaBounded(c)
  BY <1>8 DEF CpuBounded, CudaBounded, LaunchNames, ElementLoops
<1>10. CpuLoops(c, "linear") = <<"linear">> /\ CudaLaunches(c, "linear") \in {<<>>, <<"linear">>}
  BY DEF CpuLoops, CudaLaunches
<1>11. /\ <<"linear">> \in Seq(CpuBounded(c)) /\ <<"linear">> \in Seq(CudaBounded(c))
       /\ <<>> \in Seq(CudaBounded(c))
  BY <1>9
<1> QED
  BY <1>1, <1>10, <1>11 DEF Bounded

LEMMA BackwardLinearBounded ==
  ASSUME NEW c, CallAssumed(c), AllocatedOf(c), c.op = "backward_linear", Entry(c) # Threw
  PROVE  Bounded(c, Entry(c))
<1> DEFINE t == c.t   d == LinearDims(c)
<1>1. /\ validate_backward_linear_inputs(t["input"], t["weights"], t["grad_output"], t["grad_input"],
                                         t["grad_weights"], Optional(c, "grad_bias"))
      /\ Entry(c) = "backward_linear"
  BY Zenon DEF Entry, backward_linear, backward_linear_unchecked, Checked, Launch
<1>2. /\ Len(t["input"].shape) = 2 /\ Len(t["weights"].shape) = 2 /\ Len(t["grad_output"].shape) = 2
      /\ t["input"].shape[2] = t["weights"].shape[2]
      /\ t["grad_output"].shape[1] = t["input"].shape[1] /\ t["grad_output"].shape[2] = t["weights"].shape[1]
      /\ t["grad_input"].shape = t["input"].shape /\ t["grad_weights"].shape = t["weights"].shape
  BY <1>1 DEF validate_backward_linear_inputs, AllRank, Rank
<1>3. "grad_bias" \in DOMAIN t => Len(t["grad_bias"].shape) = 1 /\ t["grad_bias"].shape[1] = t["weights"].shape[1]
  <2>1. \A b \in Optional(c, "grad_bias") : Len(b.shape) = 1 /\ b.shape[1] = t["weights"].shape[1]
    BY <1>1 DEF validate_backward_linear_inputs, AllRank, Rank
  <2> QED
    BY <2>1 DEF Optional
<1>4. DOMAIN t \subseteq Gradients \cup {"grad_bias"}
  BY DEF CallAssumed, Takes, MayTake
<1>5. LinearMeasured(c)
  <2>1. "input" \in Takes[c.op] /\ "weights" \in Takes[c.op]
    BY DEF Takes, Gradients
  <2>2. t["input"].shape[1] \in Nat /\ t["input"].shape[2] \in Nat
    BY <1>2, <2>1, TwoSizes
  <2>3. t["weights"].shape[1] \in Nat
    BY <1>2, <2>1, TwoSizes
  <2> QED
    BY <2>2, <2>3 DEF LinearMeasured, LinearDims
<1>6. /\ d.batch_size = t["input"].shape[1] /\ d.input_features = t["input"].shape[2]
      /\ d.output_features = t["weights"].shape[1]
  BY DEF LinearDims
<1>7. LinearLaid(c)
  <2> HIDE DEF d
  <2> QED
    BY <1>2, <1>3, <1>4, <1>5, <1>6 DEF LinearLaid, Laid, d, Gradients
<1>8. {"linear_grad_input", "linear_grad_weights", "linear_grad_bias"} \subseteq CpuBounded(c)
  BY <1>7, LinearLoopSafe DEF CpuBounded, LaunchNames, ElementLoops
<1>9. {"linear_grad_input", "linear_grad_weights", "linear_grad_bias"} \subseteq CudaBounded(c)
  <2>1. SafeGrid(c, "linear_grad_input") /\ SafeGrid(c, "linear_grad_weights")
    BY <1>7, TiledSafe DEF Tiled
  <2> QED
    BY <1>7, <2>1, BiasSafe DEF CudaBounded, LaunchNames, ElementLoops
<1> DEFINE more == IF "grad_bias" \in DOMAIN c.t THEN <<"linear_grad_bias">> ELSE <<>>
           loops == <<"linear_grad_input", "linear_grad_weights">> \o more
<1>10. CpuLoops(c, "backward_linear") = loops /\ CudaLaunches(c, "backward_linear") \in {<<>>, loops}
  BY DEF CpuLoops, CudaLaunches
<1>11. more \in {<<"linear_grad_bias">>, <<>>}
  OBVIOUS
<1> HIDE DEF more
<1>12. loops \in Seq(CpuBounded(c))
  BY <1>8, <1>11, MoreOrLess
<1>13. loops \in Seq(CudaBounded(c)) /\ <<>> \in Seq(CudaBounded(c))
  <2>1. <<>> \in Seq(CudaBounded(c))
    OBVIOUS
  <2> QED
    BY <1>9, <1>11, <2>1, MoreOrLess
<1> HIDE DEF loops
<1> QED
  BY <1>1, <1>10, <1>12, <1>13 DEF Bounded

-----------------------------------------------------------------------------
(* Images, by their elements. *)

LEMMA VolumeOfImage ==
  ASSUME NEW shape \in Seq(Nat), Len(shape) = 4
  PROVE  Volume(shape) = ((shape[1] * shape[2]) * shape[3]) * shape[4]
<1>1. PICK f \in [0..4 -> Int] : Volume(shape) = f[4] /\ f[0] = 1 /\ \A i \in 1..4 : f[i] = f[i - 1] * shape[i]
  BY VolumeChain
<1>2. PICK n \in Nat, k \in Nat, h \in Nat, w \in Nat : n = shape[1] /\ k = shape[2] /\ h = shape[3] /\ w = shape[4]
  BY FourExtents
<1>3. f[1] = f[0] * n /\ f[2] = f[1] * k /\ f[3] = f[2] * h /\ f[4] = f[3] * w
  <2>1. 1 \in 1..4 /\ 2 \in 1..4 /\ 3 \in 1..4 /\ 4 \in 1..4
    OBVIOUS
  <2>2. 1 - 1 = 0 /\ 2 - 1 = 1 /\ 3 - 1 = 2 /\ 4 - 1 = 3
    OBVIOUS
  <2> QED
    BY <1>1, <1>2, <2>1, <2>2
<1>4. f[1] = n
  BY <1>1, <1>3
<1>5. Volume(shape) = ((n * k) * h) * w
  BY <1>1, <1>3, <1>4
<1> QED
  BY <1>2, <1>5

\* The four numbers a kernel makes of the address of an element.
LEMMA IndexOfImage ==
  ASSUME NEW n \in Nat, NEW k \in Nat, NEW h \in Nat, NEW w \in Nat, NEW index \in Below(((n * k) * h) * w)
  PROVE  /\ index % w \in Below(w) /\ (index \div w) % h \in Below(h)
         /\ (index \div (w * h)) % k \in Below(k) /\ index \div (w * h * k) \in Below(n)
<1>1. index % w \in Below(w) /\ (index \div w) % h \in Below(h)
  <2>1. PICK rows \in Nat : rows = (n * k) * h
    OBVIOUS
  <2>2. index \in Below(rows * w)
    BY <2>1
  <2>3. index % w \in Below(w) /\ index \div w \in Below(rows)
    BY <2>2, QuotientBelow
  <2>4. PICK row : row = index \div w
    OBVIOUS
  <2>5. PICK planes \in Nat : planes = n * k
    OBVIOUS
  <2>6. row \in Below(planes * h)
    BY <2>1, <2>3, <2>4, <2>5
  <2>7. row % h \in Below(h)
    BY <2>6, QuotientBelow
  <2> QED
    BY <2>3, <2>4, <2>7
<1>2. (index \div (w * h)) % k \in Below(k)
  <2>1. PICK plane \in Nat, planes \in Nat : plane = w * h /\ planes = n * k
    OBVIOUS
  <2>2. ((n * k) * h) * w = planes * plane
    <3>1. (planes * h) * w = planes * (w * h)
      OBVIOUS
    <3> QED
      BY <2>1, <3>1
  <2>3. index \in Below(planes * plane)
    BY <2>2
  <2>4. PICK image : image = index \div plane
    OBVIOUS
  <2>5. image \in Below(n * k)
    BY <2>1, <2>3, <2>4, QuotientBelow
  <2>6. image % k \in Below(k)
    BY <2>5, QuotientBelow
  <2> QED
    BY <2>1, <2>4, <2>6
<1>3. index \div (w * h * k) \in Below(n)
  <2>1. PICK deep \in Nat : deep = w * h * k
    OBVIOUS
  <2>2. ((n * k) * h) * w = n * deep
    <3>1. ((n * k) * h) * w = n * ((w * h) * k)
      OBVIOUS
    <3> QED
      BY <2>1, <3>1
  <2>3. index \in Below(n * deep)
    BY <2>2
  <2>4. index \div deep \in Below(n)
    BY <2>3, QuotientBelow
  <2> QED
    BY <2>1, <2>4
<1> QED
  BY <1>1, <1>2, <1>3

Image(c, role, n, k, h, w) ==
  /\ role \in DOMAIN c.t /\ Len(c.t[role].shape) = 4 /\ c.t[role].shape = <<n, k, h, w>>
  /\ n \in Nat /\ k \in Nat /\ h \in Nat /\ w \in Nat

LEMMA ImageOf ==
  ASSUME NEW c, CallAssumed(c), NEW role \in DOMAIN c.t, Len(c.t[role].shape) = 4
  PROVE  Image(c, role, c.t[role].shape[1], c.t[role].shape[2], c.t[role].shape[3], c.t[role].shape[4])
<1>1. c.t[role].shape \in Seq(Nat)
  BY ShapeOf
<1> QED
  BY <1>1, FourExtents DEF Image

LEMMA PixelInTensor ==
  ASSUME NEW c, CallAssumed(c), AllocatedOf(c), NEW role, NEW n, NEW k, NEW h, NEW w, Image(c, role, n, k, h, w),
         NEW i \in Below(n), NEW ch \in Below(k), NEW y \in Below(h), NEW x \in Below(w)
  PROVE  InTensor(c, Cell(role, <<n, k, h, w>>, <<i, ch, y, x>>))
<1> DEFINE shape == c.t[role].shape
<1>1. Len(shape) = 4 /\ shape = <<n, k, h, w>>
  BY DEF Image
<1>2. shape[1] = n /\ shape[2] = k /\ shape[3] = h /\ shape[4] = w
  <2> HIDE DEF shape
  <2> QED
    BY <1>1
<1>3. InTensor(c, Cell(role, shape, <<i, ch, y, x>>))
  BY <1>1, <1>2, ImageInTensor
<1> QED
  BY <1>1, <1>3

LEMMA PixelsOfImage ==
  ASSUME NEW c, CallAssumed(c), AllocatedOf(c), NEW role, NEW n, NEW k, NEW h, NEW w, Image(c, role, n, k, h, w),
         NEW index \in Below(Elements(c, role))
  PROVE  /\ index % w \in Below(w) /\ (index \div w) % h \in Below(h)
         /\ (index \div (w * h)) % k \in Below(k) /\ index \div (w * h * k) \in Below(n)
<1> DEFINE shape == c.t[role].shape
<1>1. shape \in Seq(Nat) /\ Len(shape) = 4 /\ shape = <<n, k, h, w>>
      /\ n \in Nat /\ k \in Nat /\ h \in Nat /\ w \in Nat
  BY ShapeOf DEF Image
<1>2. Elements(c, role) = Volume(shape)
  BY ElementsAreVolume DEF Image
<1>3. index \in Below(((n * k) * h) * w)
  <2>1. Volume(shape) = ((shape[1] * shape[2]) * shape[3]) * shape[4]
    BY <1>1, VolumeOfImage
  <2>2. shape[1] = n /\ shape[2] = k /\ shape[3] = h /\ shape[4] = w
    <3> HIDE DEF shape
    <3> QED
      BY <1>1
  <2> HIDE DEF shape
  <2> QED
    BY <1>2, <2>1, <2>2
<1> QED
  BY <1>1, <1>3, IndexOfImage

-----------------------------------------------------------------------------
(* The gradients of a convolution. *)

BackLaid(c) ==
  LET d == BackDims(c) IN
  /\ Image(c, "input", d.N, d.IC, d.IH, d.IW) /\ Image(c, "grad_input", d.N, d.IC, d.IH, d.IW)
  /\ Image(c, "weights", d.OC, d.IC, d.KH, d.KW) /\ Image(c, "grad_weights", d.OC, d.IC, d.KH, d.KW)
  /\ Image(c, "grad_output", d.N, d.OC, d.OH, d.OW)
  /\ "grad_bias" \in DOMAIN c.t => Len(c.t["grad_bias"].shape) = 1 /\ c.t["grad_bias"].shape[1] = d.OC
  /\ \A a \in Axes : c.o.stride[a] \in Nat \ {0} /\ c.o.padding[a] \in Nat /\ c.o.dilation[a] \in Nat

\* A kernel position covers an output where the distance is a multiple of the stride.
LEMMA OutputCovered ==
  ASSUME NEW x \in Nat, NEW k \in Nat, NEW padding \in Nat, NEW dilation \in Nat, NEW stride \in Nat \ {0},
         NEW out \in Nat, x + padding - k * dilation >= 0, (x + padding - k * dilation) \div stride < out
  PROVE  (x + padding - k * dilation) \div stride \in Below(out)
<1>1. PICK spread \in Nat : spread = k * dilation
  OBVIOUS
<1>2. PICK distance \in Nat : distance = x + padding - spread
  BY <1>1
<1>3. distance \div stride \in Nat
  BY Quotient
<1>4. distance \div stride < out
  BY <1>1, <1>2
<1> QED
  BY <1>1, <1>2, <1>3, <1>4 DEF Below

LEMMA ConvGradInputSafe ==
  ASSUME NEW c, CallAssumed(c), AllocatedOf(c), BackLaid(c)
  PROVE  SafeLoop(c, "conv_grad_input")
<1>1. PICK d : d = BackDims(c)
  OBVIOUS
<1>2. /\ Image(c, "grad_input", d.N, d.IC, d.IH, d.IW) /\ Image(c, "weights", d.OC, d.IC, d.KH, d.KW)
      /\ Image(c, "grad_output", d.N, d.OC, d.OH, d.OW)
  BY <1>1 DEF BackLaid
<1>3. PICK s1 \in Nat \ {0}, s2 \in Nat \ {0}, p1 \in Nat, p2 \in Nat, d1 \in Nat, d2 \in Nat :
        /\ s1 = c.o.stride[1] /\ s2 = c.o.stride[2] /\ p1 = c.o.padding[1] /\ p2 = c.o.padding[2]
        /\ d1 = c.o.dilation[1] /\ d2 = c.o.dilation[2]
  BY DEF BackLaid, Axes
<1> SUFFICES ASSUME NEW index \in Below(Elements(c, "grad_input"))
             PROVE  AllSafe(c, Body(c, "conv_grad_input", index))
  BY DEF SafeLoop, Iterations
<1>4. PICK iw, ih, ic, n : /\ iw = index % d.IW /\ ih = (index \div d.IW) % d.IH
                           /\ ic = (index \div (d.IW * d.IH)) % d.IC
                           /\ n = index \div (d.IW * d.IH * d.IC)
  OBVIOUS
<1>5. iw \in Below(d.IW) /\ ih \in Below(d.IH) /\ ic \in Below(d.IC) /\ n \in Below(d.N)
  BY <1>2, <1>4, PixelsOfImage
<1>6. iw \in Nat /\ ih \in Nat /\ d.OH \in Nat /\ d.OW \in Nat
  BY <1>2, <1>5 DEF Below, Image
<1> DEFINE covers(numerator, stride, output) ==
             numerator >= 0 /\ numerator % stride = 0 /\ numerator \div stride < output
           at == {p \in Below(d.OC) \X Below(d.KH) \X Below(d.KW) :
                    /\ covers(ih + p1 - p[2] * d1, s1, d.OH)
                    /\ covers(iw + p2 - p[3] * d2, s2, d.OW)}
           terms == {<<GradOutput(d, n, p[1], (ih + p1 - p[2] * d1) \div s1, (iw + p2 - p[3] * d2) \div s2),
                       Cell("weights", <<d.OC, d.IC, d.KH, d.KW>>, <<p[1], ic, p[2], p[3]>>)>> : p \in at}
<1>7. Body(c, "conv_grad_input", index) = {Effect(<<"grad_input", index>>, terms)}
  BY <1>1, <1>3, <1>4 DEF Body, ConvGradInput
<1>8. ASSUME NEW term \in terms PROVE SafeTerm(c, term)
  <2>1. PICK p \in at :
          term = <<GradOutput(d, n, p[1], (ih + p1 - p[2] * d1) \div s1, (iw + p2 - p[3] * d2) \div s2),
                   Cell("weights", <<d.OC, d.IC, d.KH, d.KW>>, <<p[1], ic, p[2], p[3]>>)>>
    OBVIOUS
  <2>2. /\ p[1] \in Below(d.OC) /\ p[2] \in Below(d.KH) /\ p[3] \in Below(d.KW)
        /\ covers(ih + p1 - p[2] * d1, s1, d.OH) /\ covers(iw + p2 - p[3] * d2, s2, d.OW)
    OBVIOUS
  <2>3. PICK oc, kh, kw : oc = p[1] /\ kh = p[2] /\ kw = p[3]
    OBVIOUS
  <2>4. kh \in Nat /\ kw \in Nat
    BY <2>2, <2>3 DEF Below
  <2>5. (ih + p1 - kh * d1) \div s1 \in Below(d.OH)
    BY <1>6, <2>2, <2>3, <2>4, OutputCovered
  <2>6. (iw + p2 - kw * d2) \div s2 \in Below(d.OW)
    BY <1>6, <2>2, <2>3, <2>4, OutputCovered
  <2>7. PICK oh, ow : oh = (ih + p1 - kh * d1) \div s1 /\ ow = (iw + p2 - kw * d2) \div s2
    OBVIOUS
  <2>8. term = <<Cell("grad_output", <<d.N, d.OC, d.OH, d.OW>>, <<n, oc, oh, ow>>),
                 Cell("weights", <<d.OC, d.IC, d.KH, d.KW>>, <<oc, ic, kh, kw>>)>>
    BY <2>1, <2>3, <2>7 DEF GradOutput
  <2> HIDE DEF at, terms
  <2>9. InTensor(c, Cell("grad_output", <<d.N, d.OC, d.OH, d.OW>>, <<n, oc, oh, ow>>))
    BY <1>2, <1>5, <2>2, <2>3, <2>5, <2>6, <2>7, PixelInTensor
  <2>10. InTensor(c, Cell("weights", <<d.OC, d.IC, d.KH, d.KW>>, <<oc, ic, kh, kw>>))
    BY <1>2, <1>5, <2>2, <2>3, PixelInTensor
  <2> QED
    BY <2>8, <2>9, <2>10, SafeProducts
<1> HIDE DEF terms
<1>9. InTensor(c, <<"grad_input", index>>)
  BY DEF InTensor
<1>10. Safe(c, Effect(<<"grad_input", index>>, terms))
  BY <1>8, <1>9, SafeEffect
<1> QED
  BY <1>7, <1>10 DEF AllSafe

LEMMA ConvGradWeightsSafe ==
  ASSUME NEW c, CallAssumed(c), AllocatedOf(c), BackLaid(c)
  PROVE  SafeLoop(c, "conv_grad_weights")
<1>1. PICK d : d = BackDims(c)
  OBVIOUS
<1>2. /\ Image(c, "grad_weights", d.OC, d.IC, d.KH, d.KW) /\ Image(c, "input", d.N, d.IC, d.IH, d.IW)
      /\ Image(c, "grad_output", d.N, d.OC, d.OH, d.OW)
  BY <1>1 DEF BackLaid
<1> SUFFICES ASSUME NEW index \in Below(Elements(c, "grad_weights"))
             PROVE  AllSafe(c, Body(c, "conv_grad_weights", index))
  BY DEF SafeLoop, Iterations
<1>4. PICK kw, kh, ic, oc : /\ kw = index % d.KW /\ kh = (index \div d.KW) % d.KH
                            /\ ic = (index \div (d.KW * d.KH)) % d.IC
                            /\ oc = index \div (d.KW * d.KH * d.IC)
  OBVIOUS
<1>5. ic \in Below(d.IC) /\ oc \in Below(d.OC)
  BY <1>2, <1>4, PixelsOfImage
<1> DEFINE ih(oh) == oh * c.o.stride[1] + kh * c.o.dilation[1] - c.o.padding[1]
           iw(ow) == ow * c.o.stride[2] + kw * c.o.dilation[2] - c.o.padding[2]
           at == {p \in Below(d.N) \X Below(d.OH) \X Below(d.OW) :
                    ih(p[2]) \in Below(d.IH) /\ iw(p[3]) \in Below(d.IW)}
           terms == {<<Cell("input", <<d.N, d.IC, d.IH, d.IW>>, <<p[1], ic, ih(p[2]), iw(p[3])>>),
                       GradOutput(d, p[1], oc, p[2], p[3])>> : p \in at}
<1>7. Body(c, "conv_grad_weights", index) = {Effect(<<"grad_weights", index>>, terms)}
  BY <1>1, <1>4 DEF Body, ConvGradWeights
<1>8. ASSUME NEW term \in terms PROVE SafeTerm(c, term)
  <2>1. PICK p \in at : term = <<Cell("input", <<d.N, d.IC, d.IH, d.IW>>, <<p[1], ic, ih(p[2]), iw(p[3])>>),
                                 GradOutput(d, p[1], oc, p[2], p[3])>>
    OBVIOUS
  <2>2. PICK y, x : y = ih(p[2]) /\ x = iw(p[3])
    OBVIOUS
  <2>3. /\ p[1] \in Below(d.N) /\ p[2] \in Below(d.OH) /\ p[3] \in Below(d.OW)
        /\ y \in Below(d.IH) /\ x \in Below(d.IW)
    BY <2>2
  <2>4. PICK n, oh, ow : n = p[1] /\ oh = p[2] /\ ow = p[3]
    OBVIOUS
  <2>5. term = <<Cell("input", <<d.N, d.IC, d.IH, d.IW>>, <<n, ic, y, x>>),
                 Cell("grad_output", <<d.N, d.OC, d.OH, d.OW>>, <<n, oc, oh, ow>>)>>
    BY <2>1, <2>2, <2>4 DEF GradOutput
  <2> HIDE DEF at, terms, ih, iw
  <2>6. InTensor(c, Cell("input", <<d.N, d.IC, d.IH, d.IW>>, <<n, ic, y, x>>))
    BY <1>2, <1>5, <2>3, <2>4, PixelInTensor
  <2>7. InTensor(c, Cell("grad_output", <<d.N, d.OC, d.OH, d.OW>>, <<n, oc, oh, ow>>))
    BY <1>2, <1>5, <2>3, <2>4, PixelInTensor
  <2> QED
    BY <2>5, <2>6, <2>7, SafeProducts
<1> HIDE DEF terms
<1>9. InTensor(c, <<"grad_weights", index>>)
  BY DEF InTensor
<1>10. Safe(c, Effect(<<"grad_weights", index>>, terms))
  BY <1>8, <1>9, SafeEffect
<1> QED
  BY <1>7, <1>10 DEF AllSafe

LEMMA ConvGradBiasSafe ==
  ASSUME NEW c, CallAssumed(c), AllocatedOf(c), BackLaid(c)
  PROVE  SafeLoop(c, "conv_grad_bias")
<1>1. PICK d : d = BackDims(c)
  OBVIOUS
<1>2. /\ Image(c, "grad_output", d.N, d.OC, d.OH, d.OW)
      /\ "grad_bias" \in DOMAIN c.t => Len(c.t["grad_bias"].shape) = 1 /\ c.t["grad_bias"].shape[1] = d.OC
  BY <1>1 DEF BackLaid
<1>3. c.t["weights"].shape[1] = d.OC
  BY <1>1 DEF BackDims
<1> SUFFICES ASSUME NEW oc \in Below(d.OC) PROVE AllSafe(c, Body(c, "conv_grad_bias", oc))
  BY <1>3 DEF SafeLoop, Iterations
<1> DEFINE terms == {<<GradOutput(d, p[1], oc, p[2], p[3])>> : p \in Below(d.N) \X Below(d.OH) \X Below(d.OW)}
<1>7. Body(c, "conv_grad_bias", oc) = {Effect(<<"grad_bias", oc>>, terms)}
  BY <1>1 DEF Body, ConvGradBias
<1>8. ASSUME NEW term \in terms PROVE SafeTerm(c, term)
  <2>1. PICK n \in Below(d.N), oh \in Below(d.OH), ow \in Below(d.OW) :
          term = <<Cell("grad_output", <<d.N, d.OC, d.OH, d.OW>>, <<n, oc, oh, ow>>)>>
    BY DEF GradOutput
  <2>2. InTensor(c, Cell("grad_output", <<d.N, d.OC, d.OH, d.OW>>, <<n, oc, oh, ow>>))
    BY <1>2, PixelInTensor
  <2> QED
    BY <2>1, <2>2, SafeProducts
<1> HIDE DEF terms
<1>9. InTensor(c, <<"grad_bias", oc>>)
  BY <1>2, VectorInTensor
<1>10. Safe(c, Effect(<<"grad_bias", oc>>, terms))
  BY <1>8, <1>9, SafeEffect
<1> QED
  BY <1>7, <1>10 DEF AllSafe

LEMMA BackwardConvBounded ==
  ASSUME NEW c, CallAssumed(c), AllocatedOf(c), c.op = "backward_conv2d", Entry(c) # Threw
  PROVE  Bounded(c, Entry(c))
<1> DEFINE t == c.t   d == BackDims(c)
<1>1. /\ validate_backward_conv2d_inputs(t["input"], t["weights"], t["grad_output"], t["grad_input"],
                                         t["grad_weights"], Optional(c, "grad_bias"), c.o)
      /\ Entry(c) = "backward_conv2d"
  BY Zenon DEF Entry, backward_conv2d, backward_conv2d_unchecked, Checked, Launch
<1>2. /\ Len(t["input"].shape) = 4 /\ Len(t["weights"].shape) = 4 /\ Len(t["grad_output"].shape) = 4
      /\ t["input"].shape[2] = t["weights"].shape[2]
      /\ t["grad_output"].shape[1] = t["input"].shape[1] /\ t["grad_output"].shape[2] = t["weights"].shape[1]
      /\ t["grad_input"].shape = t["input"].shape /\ t["grad_weights"].shape = t["weights"].shape
  BY <1>1 DEF validate_backward_conv2d_inputs, AllRank, Rank, conv2d_output_size, Outputs
<1>3. "grad_bias" \in DOMAIN t => Len(t["grad_bias"].shape) = 1 /\ t["grad_bias"].shape[1] = t["weights"].shape[1]
  <2>1. \A b \in Optional(c, "grad_bias") : Len(b.shape) = 1 /\ b.shape[1] = t["weights"].shape[1]
    BY <1>1 DEF validate_backward_conv2d_inputs, AllRank, Rank
  <2> QED
    BY <2>1 DEF Optional
<1>4. {"input", "weights", "grad_output", "grad_input", "grad_weights"} \subseteq DOMAIN t
  BY DEF CallAssumed, Takes, Gradients
<1>5. \A a \in Axes : c.o.stride[a] \in Nat \ {0} /\ c.o.padding[a] \in Nat /\ c.o.dilation[a] \in Nat
  <2>1. \A a \in Axes : {c.o.stride[a], c.o.padding[a], c.o.dilation[a]} \subseteq Sizes
    BY DEF CallAssumed
  <2>2. \A a \in Axes : c.o.stride[a] # 0
    BY <1>1 DEF validate_backward_conv2d_inputs, NonZero
  <2> QED
    BY <2>1, <2>2 DEF Sizes, Below
<1>6. /\ d.N = t["input"].shape[1] /\ d.IC = t["input"].shape[2] /\ d.IH = t["input"].shape[3]
      /\ d.IW = t["input"].shape[4] /\ d.OC = t["weights"].shape[1] /\ d.KH = t["weights"].shape[3]
      /\ d.KW = t["weights"].shape[4] /\ d.OH = t["grad_output"].shape[3] /\ d.OW = t["grad_output"].shape[4]
  BY DEF BackDims
<1> HIDE DEF d
<1>7. /\ Image(c, "input", d.N, d.IC, d.IH, d.IW) /\ Image(c, "grad_input", d.N, d.IC, d.IH, d.IW)
      /\ Image(c, "weights", d.OC, d.IC, d.KH, d.KW) /\ Image(c, "grad_weights", d.OC, d.IC, d.KH, d.KW)
      /\ Image(c, "grad_output", d.N, d.OC, d.OH, d.OW)
  <2>1. Image(c, "input", d.N, d.IC, d.IH, d.IW)
    BY <1>2, <1>4, <1>6, ImageOf
  <2>2. Image(c, "grad_input", d.N, d.IC, d.IH, d.IW)
    BY <1>2, <1>4, <2>1 DEF Image
  <2>3. Image(c, "weights", d.OC, d.IC, d.KH, d.KW)
    BY <1>2, <1>4, <1>6, ImageOf
  <2>4. Image(c, "grad_weights", d.OC, d.IC, d.KH, d.KW)
    BY <1>2, <1>4, <2>3 DEF Image
  <2>5. Image(c, "grad_output", d.N, d.OC, d.OH, d.OW)
    BY <1>2, <1>4, <1>6, ImageOf
  <2> QED
    BY <2>1, <2>2, <2>3, <2>4, <2>5
<1>8. BackLaid(c)
  BY <1>3, <1>5, <1>6, <1>7 DEF BackLaid, d
<1> DEFINE loops == {"conv_grad_input", "conv_grad_weights", "conv_grad_bias"}
<1>9. \A loop \in loops : SafeLoop(c, loop)
  BY <1>8, ConvGradInputSafe, ConvGradWeightsSafe, ConvGradBiasSafe
<1>10. \A loop \in loops : SafeGrid(c, loop)
  <2>1. \A loop \in loops : loop \in Alike /\ Iterations(c, loop) \in Nat
    <3>1. t["weights"].shape[1] \in Nat /\ Elements(c, "grad_input") \in Nat /\ Elements(c, "grad_weights") \in Nat
      BY <1>4, <1>6, <1>7, ShapeOf DEF Image
    <3> QED
      BY <3>1 DEF Alike, Indexed, Iterations
  <2> QED
    BY <1>9, <2>1, AlikeSafe
<1>11. loops \subseteq CpuBounded(c) /\ loops \subseteq CudaBounded(c)
  BY <1>9, <1>10 DEF CpuBounded, CudaBounded, LaunchNames, ElementLoops
<1> DEFINE more == IF "grad_bias" \in DOMAIN c.t THEN <<"conv_grad_bias">> ELSE <<>>
<1>12. /\ CpuLoops(c, "backward_conv2d") = <<"conv_grad_input", "conv_grad_weights">> \o more
       /\ CudaLaunches(c, "backward_conv2d") = CpuLoops(c, "backward_conv2d")
  BY DEF CpuLoops, CudaLaunches
<1>13. more \in {<<"conv_grad_bias">>, <<>>}
  OBVIOUS
<1> HIDE DEF more
<1>14. /\ <<"conv_grad_input", "conv_grad_weights">> \o more \in Seq(CpuBounded(c))
       /\ <<"conv_grad_input", "conv_grad_weights">> \o more \in Seq(CudaBounded(c))
  BY <1>11, <1>13, MoreOrLess
<1> QED
  BY <1>1, <1>12, <1>14 DEF Bounded

-----------------------------------------------------------------------------
(* Pooling. *)

PoolLaid(c, input, output) ==
  LET d == PoolDims(c, input, output) IN
  Image(c, input, d.N, d.C, d.H, d.W) /\ Image(c, output, d.N, d.C, d.OH, d.OW)

LEMMA PoolIsLaid ==
  ASSUME NEW c, CallAssumed(c), NEW input \in DOMAIN c.t, NEW output \in DOMAIN c.t,
         AllRank(4, {c.t[input], c.t[output]}), PoolFits(c.t[input], c.t[output], c.o)
  PROVE  PoolLaid(c, input, output)
<1> DEFINE d == PoolDims(c, input, output)   i == c.t[input].shape   o == c.t[output].shape
<1>1. Len(i) = 4 /\ Len(o) = 4 /\ o[1] = i[1] /\ o[2] = i[2]
  BY DEF AllRank, Rank, PoolFits, Outputs
<1>2. d.N = i[1] /\ d.C = i[2] /\ d.H = i[3] /\ d.W = i[4] /\ d.OH = o[3] /\ d.OW = o[4]
  BY DEF PoolDims
<1>3. Image(c, input, i[1], i[2], i[3], i[4])
  BY <1>1, ImageOf
<1>4. Image(c, output, o[1], o[2], o[3], o[4])
  BY <1>1, ImageOf
<1> HIDE DEF d, i, o
<1>5. Image(c, input, d.N, d.C, d.H, d.W) /\ Image(c, output, d.N, d.C, d.OH, d.OW)
  BY <1>1, <1>2, <1>3, <1>4
<1> QED
  BY <1>5 DEF PoolLaid, d

LEMMA WindowInTensor ==
  ASSUME NEW c, CallAssumed(c), AllocatedOf(c), NEW input, NEW output, PoolLaid(c, input, output),
         NEW d, d = PoolDims(c, input, output), NEW n \in Below(d.N), NEW ch \in Below(d.C),
         NEW oh, NEW ow, NEW p \in Window(c, d, oh, ow)
  PROVE  InTensor(c, PoolAt(d, input, n, ch, p[1], p[2]))
<1>1. Image(c, input, d.N, d.C, d.H, d.W)
  BY DEF PoolLaid
<1>2. PICK y, x : y = p[1] /\ x = p[2]
  OBVIOUS
<1>3. y \in Below(d.H) /\ x \in Below(d.W)
  BY <1>2 DEF Window
<1>4. InTensor(c, Cell(input, <<d.N, d.C, d.H, d.W>>, <<n, ch, y, x>>))
  BY <1>1, <1>3, PixelInTensor
<1> QED
  BY <1>2, <1>4 DEF PoolAt

LEMMA PoolCellsSafe ==
  ASSUME NEW c, CallAssumed(c), AllocatedOf(c), PoolLaid(c, "input", "result"),
         NEW d, d = PoolDims(c, "input", "result"), NEW n \in Below(d.N), NEW ch \in Below(d.C),
         NEW oh \in Below(d.OH), NEW ow \in Below(d.OW)
  PROVE  Safe(c, MaxPoolCell(c, n, ch, oh, ow)) /\ Safe(c, AvgPoolCell(c, n, ch, oh, ow))
<1> DEFINE window == Window(c, d, oh, ow)
           cell == Cell("result", <<d.N, d.C, d.OH, d.OW>>, <<n, ch, oh, ow>>)
           largest == {<<PoolAt(d, "input", n, ch, p[1], p[2])>> : p \in window}
           shared == {<<PoolAt(d, "input", n, ch, p[1], p[2]), Share(Cardinality(window))>> : p \in window}
<1>1. /\ MaxPoolCell(c, n, ch, oh, ow) = Effect(cell, largest)
      /\ AvgPoolCell(c, n, ch, oh, ow) = Effect(cell, shared)
  BY DEF MaxPoolCell, AvgPoolCell
<1>2. InTensor(c, cell)
  <2>1. Image(c, "result", d.N, d.C, d.OH, d.OW)
    BY DEF PoolLaid
  <2> QED
    BY <2>1, PixelInTensor
<1>3. \A p \in window : InTensor(c, PoolAt(d, "input", n, ch, p[1], p[2]))
  BY WindowInTensor
<1>4. \A x : InTensor(c, Share(x))
  BY NotTensors DEF Share, NoTensors
<1> HIDE DEF window, cell
<1>5. (\A term \in largest : SafeTerm(c, term)) /\ (\A term \in shared : SafeTerm(c, term))
  BY <1>3, <1>4, SafeProducts
<1> HIDE DEF largest, shared
<1>6. Safe(c, Effect(cell, largest)) /\ Safe(c, Effect(cell, shared))
  BY <1>2, <1>5, SafeEffect
<1> QED
  BY <1>1, <1>6

LEMMA PoolSafe ==
  ASSUME NEW c, CallAssumed(c), AllocatedOf(c), PoolLaid(c, "input", "result"),
         NEW launch \in {"maxpool2d", "avgpool2d"}
  PROVE  SafeLoop(c, launch) /\ SafeGrid(c, launch)
<1>1. PICK d : d = PoolDims(c, "input", "result")
  OBVIOUS
<1>2. /\ Image(c, "result", d.N, d.C, d.OH, d.OW) /\ c.t["result"].shape = <<d.N, d.C, d.OH, d.OW>>
      /\ d.N \in Nat /\ d.C \in Nat /\ d.OH \in Nat /\ d.OW \in Nat
  BY <1>1 DEF PoolLaid, Image
<1>3. ASSUME NEW n \in Below(d.N), NEW ch \in Below(d.C), NEW oh \in Below(d.OH), NEW ow \in Below(d.OW)
      PROVE  Safe(c, PlanarCell(c, launch, n, ch, oh, ow))
  BY <1>1, PoolCellsSafe DEF PlanarCell
<1>4. SafeGrid(c, launch)
  <2>1. launch \in Planar
    BY DEF Planar
  <2>2. /\ c.t["result"].shape[1] = d.N /\ c.t["result"].shape[2] = d.C
        /\ c.t["result"].shape[3] = d.OH /\ c.t["result"].shape[4] = d.OW
    BY <1>2
  <2>3. Planes(c, launch)
    BY <1>2, <1>3, <2>2 DEF Planes
  <2> QED
    BY <2>1, <2>3, PlanesInGrid
<1>5. SafeLoop(c, launch)
  <2> SUFFICES ASSUME NEW i \in Below(Iterations(c, launch)), NEW e \in Body(c, launch, i)
               PROVE  Safe(c, e)
    BY DEF SafeLoop, AllSafe
  <2> DEFINE nc == i \div d.OH   oh == i % d.OH
  <2>1. i \in Below((d.N * d.C) * d.OH)
    BY <1>1 DEF Iterations, PoolRows
  <2>2. PICK planes \in Nat : planes = d.N * d.C
    BY <1>2
  <2>3. nc \in Below(planes) /\ oh \in Below(d.OH)
    BY <1>2, <2>1, <2>2, QuotientBelow
  <2>4. PICK ow \in Below(d.OW) : e = PlanarCell(c, launch, nc \div d.C, nc % d.C, oh, ow)
    BY <1>1 DEF Body, MaxPool2dCpuFloat32Task, AvgPool2dCpuFloat32Task, PoolRow, PlanarCell
  <2> HIDE DEF nc, oh
  <2>5. nc \div d.C \in Below(d.N) /\ nc % d.C \in Below(d.C)
    BY <1>2, <2>2, <2>3, QuotientBelow
  <2> QED
    BY <1>3, <2>3, <2>4, <2>5
<1> QED
  BY <1>4, <1>5

LEMMA PoolBounded ==
  ASSUME NEW c, CallAssumed(c), AllocatedOf(c), c.op \in {"maxpool2d", "avgpool2d"}, Entry(c) # Threw
  PROVE  Bounded(c, Entry(c))
<1> DEFINE t == c.t
<1>1. AllRank(4, {t["input"], t["result"]}) /\ PoolFits(t["input"], t["result"], c.o) /\ Entry(c) = c.op
  <2>1. CASE c.op = "maxpool2d"
    <3>1. validate_maxpool2d_inputs(t["input"], t["result"], c.o) /\ Entry(c) = "maxpool2d"
      BY <2>1, Zenon DEF Entry, maxpool2d, maxpool2d_unchecked, Checked, Launch
    <3> QED
      BY <2>1, <3>1 DEF validate_maxpool2d_inputs
  <2>2. CASE c.op = "avgpool2d"
    <3>1. validate_avgpool2d_inputs(t["input"], t["result"], c.o) /\ Entry(c) = "avgpool2d"
      BY <2>2, Zenon DEF Entry, avgpool2d, avgpool2d_unchecked, Checked, Launch
    <3> QED
      BY <2>2, <3>1 DEF validate_avgpool2d_inputs
  <2> QED
    BY <2>1, <2>2
<1>2. "input" \in DOMAIN t /\ "result" \in DOMAIN t
  BY DEF CallAssumed, Takes
<1>3. PoolLaid(c, "input", "result")
  BY <1>1, <1>2, PoolIsLaid
<1>4. PICK launch \in {"maxpool2d", "avgpool2d"} : launch = c.op
  OBVIOUS
<1>5. SafeLoop(c, launch) /\ SafeGrid(c, launch)
  BY <1>3, PoolSafe
<1>6. CpuLoops(c, launch) = <<launch>> /\ CudaLaunches(c, launch) = <<launch>> /\ launch \in LaunchNames
  BY DEF CpuLoops, CudaLaunches, LaunchNames, PoolLoops
<1>7. Bounded(c, launch)
  BY <1>5, <1>6, BoundedOne
<1> QED
  BY <1>1, <1>4, <1>7

LEMMA MaxPoolWithIndicesBounded ==
  ASSUME NEW c, CallAssumed(c), AllocatedOf(c), c.op = "maxpool2d_with_indices", Entry(c) # Threw
  PROVE  Bounded(c, Entry(c))
<1> DEFINE t == c.t   launch == "maxpool2d_with_indices"
<1>1. /\ validate_maxpool2d_with_indices_inputs(t["input"], t["result"], t["indices"], c.o)
      /\ Entry(c) = launch
  BY Zenon DEF Entry, maxpool2d_with_indices, maxpool2d_with_indices_unchecked, Checked, Launch
<1>2. /\ AllRank(4, {t["input"], t["result"]}) /\ PoolFits(t["input"], t["result"], c.o)
      /\ t["indices"].shape = t["result"].shape
  BY <1>1 DEF validate_maxpool2d_with_indices_inputs, AllRank
<1>3. "input" \in DOMAIN t /\ "result" \in DOMAIN t
  BY DEF CallAssumed, Takes
<1>4. PoolLaid(c, "input", "result")
  BY <1>2, <1>3, PoolIsLaid
<1>5. PICK d : d = PoolDims(c, "input", "result")
  OBVIOUS
<1>6. Image(c, "result", d.N, d.C, d.OH, d.OW)
  BY <1>4, <1>5 DEF PoolLaid
<1>7. ASSUME NEW index \in Below(Elements(c, "result")) PROVE AllSafe(c, Body(c, launch, index))
  <2>1. PICK ow, oh, ch, n : /\ ow = index % d.OW /\ oh = (index \div d.OW) % d.OH
                             /\ ch = (index \div (d.OW * d.OH)) % d.C /\ n = index \div (d.OW * d.OH * d.C)
    OBVIOUS
  <2>2. ch \in Below(d.C) /\ n \in Below(d.N)
    BY <1>6, <2>1, PixelsOfImage
  <2> DEFINE window == Window(c, d, oh, ow)
             largest == {<<PoolAt(d, "input", n, ch, p[1], p[2])>> : p \in window}
             place == <<"index", MaxIndex(c, d, n, ch, oh, ow)>>
  <2>3. Body(c, launch, index) = {Effect(<<"result", index>>, largest), Effect(<<"indices", index>>, {<<place>>})}
    BY <1>5, <2>1 DEF Body, MaxPool2dWithIndices
  <2>4. \A p \in window : InTensor(c, PoolAt(d, "input", n, ch, p[1], p[2]))
    BY <1>4, <1>5, <2>2, WindowInTensor
  <2>5. InTensor(c, place)
    BY NotTensors DEF NoTensors
  <2> HIDE DEF window, place
  <2>6. (\A term \in largest : SafeTerm(c, term)) /\ (\A term \in {<<place>>} : SafeTerm(c, term))
    BY <2>4, <2>5, SafeProducts
  <2>7. InTensor(c, <<"result", index>>) /\ InTensor(c, <<"indices", index>>)
    BY <1>2, ElementInTensor
  <2> HIDE DEF largest
  <2>8. Safe(c, Effect(<<"result", index>>, largest))
    BY <2>6, <2>7, SafeEffect
  <2>9. Safe(c, Effect(<<"indices", index>>, {<<place>>}))
    BY <2>6, <2>7, SafeEffect
  <2> QED
    BY <2>3, <2>8, <2>9 DEF AllSafe
<1>8. Iterations(c, launch) = Elements(c, "result") /\ Elements(c, "result") \in Nat
  BY <1>3, ShapeOf DEF Iterations
<1>9. SafeLoop(c, launch)
  BY <1>7, <1>8 DEF SafeLoop
<1>10. SafeGrid(c, launch)
  <2>1. launch \in Alike
    BY DEF Alike, Indexed
  <2> QED
    BY <1>8, <1>9, <2>1, AlikeSafe
<1>11. CpuLoops(c, launch) = <<launch>> /\ CudaLaunches(c, launch) = <<launch>> /\ launch \in LaunchNames
  BY DEF CpuLoops, CudaLaunches, LaunchNames, PoolLoops, ElementLoops
<1> HIDE DEF launch
<1>12. launch \in LaunchNames
  BY <1>11
<1>13. Bounded(c, launch)
  BY <1>9, <1>10, <1>11, <1>12, BoundedOne
<1> QED
  BY <1>1, <1>13

LEMMA ZeroSafe ==
  ASSUME NEW c, CallAssumed(c), "grad_input" \in DOMAIN c.t
  PROVE  SafeLoop(c, "zero") /\ SafeGrid(c, "zero")
<1>1. Iterations(c, "zero") = Elements(c, "grad_input") /\ Elements(c, "grad_input") \in Nat
  BY ShapeOf DEF Iterations
<1>2. SafeLoop(c, "zero")
  <2> SUFFICES ASSUME NEW i \in Below(Elements(c, "grad_input")) PROVE AllSafe(c, Body(c, "zero", i))
    BY <1>1 DEF SafeLoop
  <2>1. Body(c, "zero", i) = {Effect(<<"grad_input", i>>, {})}
    BY DEF Body, ZeroGradInputTask
  <2>2. InTensor(c, <<"grad_input", i>>)
    BY DEF InTensor
  <2>3. Safe(c, Effect(<<"grad_input", i>>, {}))
    BY <2>2, SafeEffect
  <2> QED
    BY <2>1, <2>3 DEF AllSafe
<1>3. "zero" \in Alike
  BY DEF Alike, Indexed
<1> QED
  BY <1>1, <1>2, <1>3, AlikeSafe

\* A thread scatters what the caller's iteration does, atomically.
LEMMA ScatterGridSafe ==
  ASSUME NEW c, CallAssumed(c), "grad_output" \in DOMAIN c.t, NEW launch \in {"scatter_max", "scatter_average"},
         SafeLoop(c, launch)
  PROVE  SafeGrid(c, launch)
<1>1. Count(c, launch) = Elements(c, "grad_output") /\ Iterations(c, launch) = Elements(c, "grad_output")
  BY DEF Count, Iterations
<1>2. Elements(c, "grad_output") \in Nat
  BY ShapeOf
<1>3. ASSUME NEW i \in Below(Elements(c, "grad_output")) PROVE AllSafe(c, IndexedBody(c, launch, i))
  <2>1. IndexedBody(c, launch, i) = Atomically(Body(c, launch, i))
    BY DEF IndexedBody, Body, backward_maxpool2d_cuda_float32_kernel, backward_avgpool2d_cuda_float32_kernel
  <2>2. \A e \in Body(c, launch, i) : \E cell, terms : e = Add(cell, terms)
    BY DEF Body, ScatterMax, ScatterAverage
  <2>3. AllSafe(c, Body(c, launch, i))
    BY <1>1 DEF SafeLoop
  <2> QED
    BY <2>1, <2>2, <2>3, AtomicallySafe
<1>4. launch \in Indexed
  BY DEF Indexed
<1> QED
  BY <1>1, <1>2, <1>3, <1>4, IndexedSafe

\* What the caller of backward_maxpool2d gives as the places of the maxima.
IndicesIn(c) ==
  c.op = "backward_maxpool2d" =>
    \A i \in Below(Elements(c, "indices")) : c.data["indices"][i] \in Below(Elements(c, "grad_input"))

LEMMA BackwardMaxPoolBounded ==
  ASSUME NEW c, CallAssumed(c), IndicesIn(c), c.op = "backward_maxpool2d", Entry(c) # Threw
  PROVE  Bounded(c, Entry(c))
<1> DEFINE t == c.t
<1>1. /\ validate_backward_maxpool2d_inputs(t["indices"], t["grad_output"], t["grad_input"])
      /\ Entry(c) = "backward_maxpool2d"
  BY Zenon DEF Entry, backward_maxpool2d, backward_maxpool2d_unchecked, Checked, Launch
<1>2. t["indices"].shape = t["grad_output"].shape
  BY <1>1 DEF validate_backward_maxpool2d_inputs
<1>3. "grad_input" \in DOMAIN t /\ "grad_output" \in DOMAIN t
  BY DEF CallAssumed, Takes
<1>4. SafeLoop(c, "scatter_max")
  <2> SUFFICES ASSUME NEW i \in Below(Elements(c, "grad_output")) PROVE AllSafe(c, Body(c, "scatter_max", i))
    BY DEF SafeLoop, Iterations
  <2> DEFINE to == <<"grad_input", c.data["indices"][i]>>   terms == {<< <<"grad_output", i>> >>}
  <2>1. Body(c, "scatter_max", i) = {Add(to, terms)}
    BY DEF Body, ScatterMax
  <2>2. InTensor(c, to)
    <3>1. i \in Below(Elements(c, "indices"))
      BY <1>2 DEF Elements
    <3>2. c.data["indices"][i] \in Below(Elements(c, "grad_input"))
      BY <3>1 DEF IndicesIn
    <3> QED
      BY <3>2 DEF InTensor
  <2>3. InTensor(c, <<"grad_output", i>>)
    BY DEF InTensor
  <2>4. \A term \in terms : SafeTerm(c, term)
    BY <2>3, SafeProducts
  <2> HIDE DEF to, terms
  <2>5. Safe(c, Add(to, terms))
    BY <2>2, <2>4, SafeEffect
  <2> QED
    BY <2>1, <2>5 DEF AllSafe
<1>5. SafeGrid(c, "scatter_max")
  BY <1>3, <1>4, ScatterGridSafe
<1>6. /\ CpuLoops(c, "backward_maxpool2d") = <<"zero", "scatter_max">>
      /\ CudaLaunches(c, "backward_maxpool2d") = <<"zero", "scatter_max">>
  BY DEF CpuLoops, CudaLaunches
<1>7. "zero" \in LaunchNames /\ "scatter_max" \in LaunchNames
  BY DEF LaunchNames, ElementLoops, Serial
<1>8. SafeLoop(c, "zero") /\ SafeGrid(c, "zero")
  BY <1>3, ZeroSafe
<1> QED
  BY <1>1, <1>4, <1>5, <1>6, <1>7, <1>8, BoundedTwo

LEMMA BackwardAvgPoolBounded ==
  ASSUME NEW c, CallAssumed(c), AllocatedOf(c), c.op = "backward_avgpool2d", Entry(c) # Threw
  PROVE  Bounded(c, Entry(c))
<1> DEFINE t == c.t
<1>1. /\ validate_backward_avgpool2d_inputs(t["grad_output"], t["grad_input"], c.o)
      /\ Entry(c) = "backward_avgpool2d"
  BY Zenon DEF Entry, backward_avgpool2d, backward_avgpool2d_unchecked, Checked, Launch
<1>2. AllRank(4, {t["grad_input"], t["grad_output"]}) /\ PoolFits(t["grad_input"], t["grad_output"], c.o)
  BY <1>1 DEF validate_backward_avgpool2d_inputs, AllRank
<1>3. "grad_input" \in DOMAIN t /\ "grad_output" \in DOMAIN t
  BY DEF CallAssumed, Takes
<1>4. PoolLaid(c, "grad_input", "grad_output")
  BY <1>2, <1>3, PoolIsLaid
<1>5. PICK d : d = PoolDims(c, "grad_input", "grad_output")
  OBVIOUS
<1>6. Image(c, "grad_output", d.N, d.C, d.OH, d.OW)
  BY <1>4, <1>5 DEF PoolLaid
<1>7. SafeLoop(c, "scatter_average")
  <2> SUFFICES ASSUME NEW index \in Below(Elements(c, "grad_output")), NEW e \in Body(c, "scatter_average", index)
               PROVE  Safe(c, e)
    BY DEF SafeLoop, Iterations, AllSafe
  <2>1. PICK ow, oh, ch, n : /\ ow = index % d.OW /\ oh = (index \div d.OW) % d.OH
                             /\ ch = (index \div (d.OW * d.OH)) % d.C /\ n = index \div (d.OW * d.OH * d.C)
    OBVIOUS
  <2>2. ch \in Below(d.C) /\ n \in Below(d.N)
    BY <1>6, <2>1, PixelsOfImage
  <2> DEFINE share == Share(Cardinality(Window(c, d, oh, ow)))
             terms == {<< <<"grad_output", index>>, share>>}
  <2>3. PICK p \in Window(c, d, oh, ow) : e = Add(PoolAt(d, "grad_input", n, ch, p[1], p[2]), terms)
    BY <1>5, <2>1 DEF Body, ScatterAverage
  <2>4. PICK to : to = PoolAt(d, "grad_input", n, ch, p[1], p[2])
    OBVIOUS
  <2>5. InTensor(c, to)
    BY <1>4, <1>5, <2>2, <2>4, WindowInTensor
  <2>6. InTensor(c, share)
    BY NotTensors DEF Share, NoTensors
  <2>7. InTensor(c, <<"grad_output", index>>)
    BY DEF InTensor
  <2> HIDE DEF share
  <2>8. \A term \in terms : SafeTerm(c, term)
    BY <2>6, <2>7, SafeProducts
  <2> HIDE DEF terms
  <2> QED
    BY <2>3, <2>4, <2>5, <2>8, SafeEffect
<1>8. SafeGrid(c, "scatter_average")
  BY <1>3, <1>7, ScatterGridSafe
<1>9. /\ CpuLoops(c, "backward_avgpool2d") = <<"zero", "scatter_average">>
      /\ CudaLaunches(c, "backward_avgpool2d") = <<"zero", "scatter_average">>
  BY DEF CpuLoops, CudaLaunches
<1>10. "zero" \in LaunchNames /\ "scatter_average" \in LaunchNames
  BY DEF LaunchNames, ElementLoops, Serial
<1>11. SafeLoop(c, "zero") /\ SafeGrid(c, "zero")
  BY <1>3, ZeroSafe
<1> QED
  BY <1>1, <1>7, <1>8, <1>9, <1>10, <1>11, BoundedTwo

-----------------------------------------------------------------------------
(* Every call. *)

LEMMA EveryCallBounded ==
  ASSUME NEW c, CallAssumed(c), AllocatedOf(c), IndicesIn(c), Entry(c) # Threw
  PROVE  Bounded(c, Entry(c))
<1>1. c.op \in {"conv2d", "backward_conv2d", "linear", "backward_linear", "maxpool2d", "avgpool2d",
                "maxpool2d_with_indices", "backward_maxpool2d", "backward_avgpool2d", "activation",
                "backward_activation", "mse_loss", "binary_cross_entropy", "categorical_cross_entropy",
                "backward_mse_loss", "backward_binary_cross_entropy", "backward_categorical_cross_entropy",
                "sgd_update", "adam_update"}
  BY DEF CallAssumed, Takes
<1> QED
  BY <1>1, ConvBounded, BackwardConvBounded, LinearBounded, BackwardLinearBounded, PoolBounded,
     MaxPoolWithIndicesBounded, BackwardMaxPoolBounded, BackwardAvgPoolBounded, ActivationBounded,
     BackwardActivationBounded, SoftmaxBounded, LossBounded, BackwardLossBounded, CategoricalBounded,
     BackwardCategoricalBounded, SgdBounded, AdamBounded

\* What a thread of the pool, or the caller, does of a loop is the iterations it is given.
LEMMA CpuWorkSafe ==
  ASSUME NEW c, NEW loop, SafeLoop(c, loop), NEW t \in DOMAIN CpuWork(c, loop)
  PROVE  AllSafe(c, CpuWork(c, loop)[t])
<1> DEFINE work == Iterations(c, loop)
           threads == IF loop \in Serial THEN 1 ELSE Min({CpuThreads, work})
           chunk == (work + threads - 1) \div threads
           range(v) == {i \in Below(work) : v * chunk <= i /\ i < (v + 1) * chunk}
           all == {v \in Below(threads) : v * chunk < work}
<1>1. work # 0
  BY DEF CpuWork
<1>2. CpuWork(c, loop) = [v \in all |-> UNION {Body(c, loop, i) : i \in range(v)}]
  BY <1>1 DEF CpuWork
<1> SUFFICES ASSUME NEW e \in CpuWork(c, loop)[t] PROVE Safe(c, e)
  BY DEF AllSafe
<1>3. PICK i \in range(t) : e \in Body(c, loop, i)
  <2> HIDE DEF range, all
  <2> QED
    BY <1>2
<1>4. i \in Below(work)
  <2> HIDE DEF work, chunk
  <2> QED
    OBVIOUS
<1> QED
  BY <1>3, <1>4 DEF SafeLoop, AllSafe

\* The inductive invariant: the launches still to run stay within the tensors.
BoundedOf(c, cpu) == IF cpu THEN CpuBounded(c) ELSE CudaBounded(c)
BInv == Allocated /\ IndicesOfMaxima => launches \in Seq(BoundedOf(call, OnCpu))

LEMMA CallLaunchesBounded ==
  ASSUME call \in Calls, Entry(call) # Threw, Allocated, IndicesOfMaxima
  PROVE  Launches(Entry(call)) \in Seq(BoundedOf(call, OnCpu))
<1>1. CallAssumed(call)
  BY CallsAssumption
<1>2. AllocatedOf(call) /\ IndicesIn(call)
  BY DEF Allocated, AllocatedOf, IndicesOfMaxima, IndicesIn
<1>3. Bounded(call, Entry(call))
  BY <1>1, <1>2, EveryCallBounded
<1>4. CASE OnCpu
  <2>1. call.op # "mse_loss"
    BY <1>4, NoLossOnCpu
  <2>2. Launches(Entry(call)) = CpuLoops(call, Entry(call)) /\ BoundedOf(call, OnCpu) = CpuBounded(call)
    BY <1>4 DEF Launches, BoundedOf
  <2> QED
    BY <1>3, <2>1, <2>2 DEF Bounded
<1>5. CASE ~OnCpu
  <2>1. Launches(Entry(call)) = CudaLaunches(call, Entry(call)) /\ BoundedOf(call, OnCpu) = CudaBounded(call)
    BY <1>5 DEF Launches, BoundedOf
  <2> QED
    BY <1>3, <2>1 DEF Bounded
<1> QED
  BY <1>4, <1>5

LEMMA InitBounded == Init => BInv
<1> SUFFICES ASSUME Init PROVE launches \in Seq(BoundedOf(call, OnCpu))
  BY DEF BInv
<1> QED
  BY DEF Init

LEMMA NextBounded == ASSUME IInv, BInv, [Next]_vars PROVE BInv'
<1>1. call' = call
  BY DEF Next, vars, Call, BeginLaunch, EndLaunch, Return, Synchronize, Step
<1>2. OnCpu' = OnCpu /\ Allocated' = Allocated /\ IndicesOfMaxima' = IndicesOfMaxima
  BY <1>1, CallStands DEF Allocated, IndicesOfMaxima
<1> SUFFICES ASSUME Allocated, IndicesOfMaxima
             PROVE  launches' \in Seq(BoundedOf(call, OnCpu))
  BY <1>1, <1>2 DEF BInv
<1>3. launches \in Seq(BoundedOf(call, OnCpu)) /\ call \in Calls
  BY DEF BInv, IInv
<1>4. CASE Call
  BY <1>3, <1>4, CallLaunchesBounded DEF Call
<1>5. CASE EndLaunch
  <2>1. launches # <<>> /\ launches' = Tail(launches)
    BY <1>5 DEF EndLaunch, IInv, InLaunch
  <2> QED
    BY <1>3, <2>1
<1>6. CASE ~Call /\ ~EndLaunch
  <2>1. launches' = launches
    BY <1>6 DEF Next, vars, BeginLaunch, Return, Synchronize, Step
  <2> QED
    BY <1>3, <2>1
<1> QED
  BY <1>4, <1>5, <1>6

LEMMA WithinTensors == ASSUME IInv, BInv PROVE WithinBounds
<1> SUFFICES ASSUME Allocated, IndicesOfMaxima, NEW p \in Pending PROVE AllSafe(call, todo[p[1]][p[2]])
  BY DEF WithinBounds, AllSafe, Safe, InTensor
<1> DEFINE launch == Head(launches)
<1>1. PICK g \in DOMAIN todo : \E t \in DOMAIN todo[g] : p = <<g, t>>
  BY DEF Pending
<1>2. PICK t \in DOMAIN todo[g] : p = <<g, t>>
  BY <1>1
<1>3. running /\ InLaunch
  BY <1>1 DEF IInv
<1>4. launch \in BoundedOf(call, OnCpu)
  <2>1. launches \in Seq(BoundedOf(call, OnCpu)) /\ launches # <<>>
    BY <1>3 DEF BInv, InLaunch
  <2> QED
    BY <2>1
<1>5. /\ t \in DOMAIN WorkOf(call, OnCpu, launch, g, stage[g])
      /\ todo[g][t] = WorkOf(call, OnCpu, launch, g, stage[g])[t]
      /\ g \in GroupsOf(call, OnCpu, launch) /\ stage[g] \in 0..LastOf(call, OnCpu, launch)
  BY <1>3 DEF InLaunch, LeftToDo
<1>6. CASE OnCpu
  <2>1. t \in DOMAIN CpuWork(call, launch) /\ todo[g][t] = CpuWork(call, launch)[t]
    BY <1>5, <1>6 DEF WorkOf
  <2>2. SafeLoop(call, launch)
    BY <1>4, <1>6 DEF BoundedOf, CpuBounded
  <2>3. AllSafe(call, CpuWork(call, launch)[t])
    BY <2>1, <2>2, CpuWorkSafe
  <2> QED
    BY <1>2, <2>1, <2>3
<1>7. CASE ~OnCpu
  <2>1. t \in Threads(launch) /\ todo[g][t] = Effects(call, launch, g, t, stage[g])
    BY <1>5, <1>7 DEF WorkOf
  <2>2. g \in Grid(call, launch) /\ stage[g] \in 0..LastStage(call, launch)
    BY <1>5, <1>7 DEF GroupsOf, LastOf
  <2>3. SafeGrid(call, launch)
    BY <1>4, <1>7 DEF BoundedOf, CudaBounded
  <2>4. AllSafe(call, Effects(call, launch, g, t, stage[g]))
    BY <2>1, <2>2, <2>3 DEF SafeGrid
  <2> QED
    BY <1>2, <2>1, <2>4
<1> QED
  BY <1>6, <1>7

\* Whatever call a validation lets through, no thread of the pool or of a grid touches
\* a cell outside its tensors: neither the unguarded convolutions, nor the last blocks
\* of a grid or the tiles that overhang a matrix, as long as a size_t holds the number
\* of elements of each tensor and the indices of the maxima lie in the gradient.
THEOREM WithinBoundsEver == Spec => []WithinBounds
<1>1. Init => IInv /\ BInv
  BY InitHolds, InitBounded
<1>2. IInv /\ BInv /\ [Next]_vars => IInv' /\ BInv'
  BY NextKeeps, NextBounded
<1>3. IInv /\ BInv => WithinBounds
  BY WithinTensors
<1> QED
  BY <1>1, <1>2, <1>3, PTL DEF Spec
==============================================================================
