------------------------------ MODULE Kernels ------------------------------
(***************************************************************************)
(* What the kernels of src/src/kernels read and write, and how the CPU     *)
(* kernels divide it between the threads of the pool.                      *)
(*                                                                         *)
(* A call c has tensors c.t[role], options c.o, and where the values       *)
(* matter c.data[role], the contents of a tensor by address.  A cell is    *)
(* one element of a tensor, <<role, address>>, or of shared memory.  The   *)
(* value of a cell is the set of the products (sequences of cells) it is   *)
(* the sum of; where the arithmetic is not a sum of products (maximum,     *)
(* softmax, losses, updates) it is the set of the cells it is made from.   *)
(*                                                                         *)
(* An effect is one write.  Bodies are the iterations of the kernels'      *)
(* loops: sets of effects.                                                 *)
(***************************************************************************)
EXTENDS Tensors, FiniteSets, FiniteSetsExt

CONSTANT CpuThreads   \* threads of the CPU pool
ASSUME CpuThreadsAssumption == CpuThreads \in Nat \ {0}

Effect(cell, terms)   == [to |-> cell, keep |-> FALSE, atomic |-> FALSE, terms |-> terms]
Add(cell, terms)      == [to |-> cell, keep |-> TRUE, atomic |-> FALSE, terms |-> terms]
AtomicAdd(cell, terms) == [to |-> cell, keep |-> TRUE, atomic |-> TRUE, terms |-> terms]

Below(n) == 0..(n - 1)

\* The row-major address of an index below dims.
Offset(dims, index) ==
  LET at[i \in 0..Len(dims)] == IF i = 0 THEN 0 ELSE at[i - 1] * dims[i] + index[i]
  IN  at[Len(dims)]
Cell(role, dims, index) == <<role, Offset(dims, index)>>
Elements(c, role) == Numel(c.t[role].shape)

-----------------------------------------------------------------------------
(* conv2d: the names of its dimensions in the code. *)

ConvDims(c) ==
  LET i == c.t["input"].shape   k == c.t["kernels"].shape   r == c.t["result"].shape
  IN  [N |-> i[1], C |-> i[2], H |-> i[3], W |-> i[4], K |-> k[1], R |-> k[3], S |-> k[4],
       OH |-> r[3], OW |-> r[4]]

UsedBias(c, k) == IF c.o.use_bias /\ "bias" \in DOMAIN c.t THEN {<< <<"bias", k>> >>} ELSE {}

\* One output: the sum over c, r and s, where IH and IW say which input a kernel
\* position falls on and the guarded variants skip those outside.
ConvCell(c, n, k, oh, ow, IH(_, _), IW(_, _), guarded) ==
  LET d == ConvDims(c)
      inside(ih, iw) == ~guarded \/ (ih \in Below(d.H) /\ iw \in Below(d.W))
      at == {p \in Below(d.C) \X Below(d.R) \X Below(d.S) : inside(IH(oh, p[2]), IW(ow, p[3]))}
  IN  Effect(Cell("result", <<d.N, d.K, d.OH, d.OW>>, <<n, k, oh, ow>>),
             UsedBias(c, k) \cup
             {<<Cell("input", <<d.N, d.C, d.H, d.W>>, <<n, p[1], IH(oh, p[2]), IW(ow, p[3])>>),
                Cell("kernels", <<d.K, d.C, d.R, d.S>>, <<k, p[1], p[2], p[3]>>)>> : p \in at})

ValidCell(c, n, k, oh, ow) ==
  ConvCell(c, n, k, oh, ow, LAMBDA o, r : o + r, LAMBDA o, s : o + s, FALSE)
PaddedCell(c, n, k, oh, ow) ==
  ConvCell(c, n, k, oh, ow, LAMBDA o, r : o + r - c.o.padding[1],
           LAMBDA o, s : o + s - c.o.padding[2], TRUE)
StridedCell(c, n, k, oh, ow) ==
  ConvCell(c, n, k, oh, ow, LAMBDA o, r : o * c.o.stride[1] + r,
           LAMBDA o, s : o * c.o.stride[2] + s, FALSE)
GeneralCell(c, n, k, oh, ow) ==
  ConvCell(c, n, k, oh, ow, LAMBDA o, r : o * c.o.stride[1] + r * c.o.dilation[1] - c.o.padding[1],
           LAMBDA o, s : o * c.o.stride[2] + s * c.o.dilation[2] - c.o.padding[2], TRUE)

\* The four CPU tasks: a unit of work is an image and channel, or one row of it.
ConvPlane(c, work, OneCell(_, _, _, _, _)) ==
  LET d == ConvDims(c) IN
  {OneCell(c, work \div d.K, work % d.K, p[1], p[2]) : p \in Below(d.OH) \X Below(d.OW)}
ConvRow(c, work, OneCell(_, _, _, _, _)) ==
  LET d == ConvDims(c)   nk == work \div d.OH IN
  {OneCell(c, nk \div d.K, nk % d.K, work % d.OH, ow) : ow \in Below(d.OW)}

Conv2dCpuFloat32ValidTask(c, work)   == ConvPlane(c, work, ValidCell)
Conv2dCpuFloat32PaddedTask(c, work)  == ConvRow(c, work, PaddedCell)
Conv2dCpuFloat32StridedTask(c, work) == ConvRow(c, work, StridedCell)
Conv2dCpuFloat32GeneralTask(c, work) == ConvPlane(c, work, GeneralCell)

ConvPlanes(c) == LET d == ConvDims(c) IN d.N * d.K
ConvRows(c) == LET d == ConvDims(c) IN d.N * d.K * d.OH

-----------------------------------------------------------------------------
(* backward_conv2d *)

BackDims(c) ==
  LET i == c.t["input"].shape   w == c.t["weights"].shape   g == c.t["grad_output"].shape
  IN  [N |-> i[1], IC |-> i[2], IH |-> i[3], IW |-> i[4], OC |-> w[1], KH |-> w[3], KW |-> w[4],
       OH |-> g[3], OW |-> g[4]]
GradOutput(d, n, oc, oh, ow) ==
  Cell("grad_output", <<d.N, d.OC, d.OH, d.OW>>, <<n, oc, oh, ow>>)

\* index is an element of grad_input: the outputs whose window covers it.
ConvGradInput(c, index) ==
  LET d == BackDims(c)
      iw == index % d.IW
      ih == (index \div d.IW) % d.IH
      ic == (index \div (d.IW * d.IH)) % d.IC
      n  == index \div (d.IW * d.IH * d.IC)
      numerator_h(kh) == ih + c.o.padding[1] - kh * c.o.dilation[1]
      numerator_w(kw) == iw + c.o.padding[2] - kw * c.o.dilation[2]
      covers(numerator, stride, output) ==
        numerator >= 0 /\ numerator % stride = 0 /\ numerator \div stride < output
      at == {p \in Below(d.OC) \X Below(d.KH) \X Below(d.KW) :
               /\ covers(numerator_h(p[2]), c.o.stride[1], d.OH)
               /\ covers(numerator_w(p[3]), c.o.stride[2], d.OW)}
  IN  {Effect(<<"grad_input", index>>,
         {<<GradOutput(d, n, p[1], numerator_h(p[2]) \div c.o.stride[1],
                                   numerator_w(p[3]) \div c.o.stride[2]),
            Cell("weights", <<d.OC, d.IC, d.KH, d.KW>>, <<p[1], ic, p[2], p[3]>>)>> : p \in at})}

\* index is an element of grad_weights.
ConvGradWeights(c, index) ==
  LET d == BackDims(c)
      kw == index % d.KW
      kh == (index \div d.KW) % d.KH
      ic == (index \div (d.KW * d.KH)) % d.IC
      oc == index \div (d.KW * d.KH * d.IC)
      ih(oh) == oh * c.o.stride[1] + kh * c.o.dilation[1] - c.o.padding[1]
      iw(ow) == ow * c.o.stride[2] + kw * c.o.dilation[2] - c.o.padding[2]
      at == {p \in Below(d.N) \X Below(d.OH) \X Below(d.OW) :
               ih(p[2]) \in Below(d.IH) /\ iw(p[3]) \in Below(d.IW)}
  IN  {Effect(<<"grad_weights", index>>,
         {<<Cell("input", <<d.N, d.IC, d.IH, d.IW>>, <<p[1], ic, ih(p[2]), iw(p[3])>>),
            GradOutput(d, p[1], oc, p[2], p[3])>> : p \in at})}

ConvGradBias(c, oc) ==
  LET d == BackDims(c) IN
  {Effect(<<"grad_bias", oc>>,
     {<<GradOutput(d, p[1], oc, p[2], p[3])>> : p \in Below(d.N) \X Below(d.OH) \X Below(d.OW)})}

-----------------------------------------------------------------------------
(* linear and backward_linear: index is an element of what is written. *)

LinearDims(c) ==
  [batch_size |-> c.t["input"].shape[1], input_features |-> c.t["input"].shape[2],
   output_features |-> c.t["weights"].shape[1]]
InputAt(d, n, in) == <<"input", n * d.input_features + in>>
WeightAt(d, out, in) == <<"weights", out * d.input_features + in>>
GradAt(d, n, out) == <<"grad_output", n * d.output_features + out>>

LinearCpuFloat32Task(c, work) ==
  LET d == LinearDims(c)
      n == work \div d.output_features
      out == work % d.output_features
  IN  {Effect(<<"result", work>>,
              {<<InputAt(d, n, in), WeightAt(d, out, in)>> : in \in Below(d.input_features)}
              \cup (IF "bias" \in DOMAIN c.t THEN {<< <<"bias", out>> >>} ELSE {}))}

LinearGradInput(c, index) ==
  LET d == LinearDims(c)
      n == index \div d.input_features
      in == index % d.input_features
  IN  {Effect(<<"grad_input", index>>,
              {<<GradAt(d, n, out), WeightAt(d, out, in)>> : out \in Below(d.output_features)})}

LinearGradWeights(c, index) ==
  LET d == LinearDims(c)
      out == index \div d.input_features
      in == index % d.input_features
  IN  {Effect(<<"grad_weights", index>>,
              {<<GradAt(d, n, out), InputAt(d, n, in)>> : n \in Below(d.batch_size)})}

LinearGradBias(c, out) ==
  LET d == LinearDims(c) IN
  {Effect(<<"grad_bias", out>>, {<<GradAt(d, n, out)>> : n \in Below(d.batch_size)})}

-----------------------------------------------------------------------------
(* pooling *)

PoolDims(c, input, output) ==
  LET i == c.t[input].shape   o == c.t[output].shape
  IN  [N |-> i[1], C |-> i[2], H |-> i[3], W |-> i[4], OH |-> o[3], OW |-> o[4]]
PoolAt(d, role, n, ch, h, w) == Cell(role, <<d.N, d.C, d.H, d.W>>, <<n, ch, h, w>>)

\* The input positions under a window, without those in the padding.
Window(c, d, oh, ow) ==
  {p \in Below(d.H) \X Below(d.W) :
     /\ p[1] + c.o.padding[1] - oh * c.o.stride[1] \in Below(c.o.kernel[1])
     /\ p[2] + c.o.padding[2] - ow * c.o.stride[2] \in Below(c.o.kernel[2])}
Share(n) == <<"share", n>>   \* the factor 1 / n

AvgPoolCell(c, n, ch, oh, ow) ==
  LET d == PoolDims(c, "input", "result")
      window == Window(c, d, oh, ow)
  IN  Effect(Cell("result", <<d.N, d.C, d.OH, d.OW>>, <<n, ch, oh, ow>>),
             {<<PoolAt(d, "input", n, ch, p[1], p[2]), Share(Cardinality(window))>> : p \in window})

MaxPoolCell(c, n, ch, oh, ow) ==
  LET d == PoolDims(c, "input", "result") IN
  Effect(Cell("result", <<d.N, d.C, d.OH, d.OW>>, <<n, ch, oh, ow>>),
         {<<PoolAt(d, "input", n, ch, p[1], p[2])>> : p \in Window(c, d, oh, ow)})

PoolRow(c, work, OneCell(_, _, _, _, _)) ==
  LET d == PoolDims(c, "input", "result")   nc == work \div d.OH IN
  {OneCell(c, nc \div d.C, nc % d.C, work % d.OH, ow) : ow \in Below(d.OW)}
MaxPool2dCpuFloat32Task(c, work) == PoolRow(c, work, MaxPoolCell)
AvgPool2dCpuFloat32Task(c, work) == PoolRow(c, work, AvgPoolCell)
PoolRows(c) == LET d == PoolDims(c, "input", "result") IN d.N * d.C * d.OH

\* The first of the greatest values of the window.  The scan starts at minus
\* infinity and index 0, and both stay when no value is greater: a data value
\* 0 stands for minus infinity and for NaN.
MaxIndex(c, d, n, ch, oh, ow) ==
  LET window == {PoolAt(d, "input", n, ch, p[1], p[2])[2] : p \in Window(c, d, oh, ow)}
      value(a) == c.data["input"][a]
      greatest == {a \in window : value(a) > 0 /\ \A b \in window : value(b) <= value(a)}
  IN  IF greatest = {} THEN 0 ELSE Min(greatest)

MaxPool2dWithIndices(c, index) ==
  LET d == PoolDims(c, "input", "result")
      ow == index % d.OW
      oh == (index \div d.OW) % d.OH
      ch == (index \div (d.OW * d.OH)) % d.C
      n  == index \div (d.OW * d.OH * d.C)
  IN  {Effect(<<"result", index>>,
              {<<PoolAt(d, "input", n, ch, p[1], p[2])>> : p \in Window(c, d, oh, ow)}),
       Effect(<<"indices", index>>, {<< <<"index", MaxIndex(c, d, n, ch, oh, ow)>> >>})}

ZeroGradInputTask(c, i) == {Effect(<<"grad_input", i>>, {})}

\* The caller scatters alone: two outputs may share an input.
ScatterMax(c, i) == {Add(<<"grad_input", c.data["indices"][i]>>, {<< <<"grad_output", i>> >>})}

ScatterAverage(c, index) ==
  LET d == PoolDims(c, "grad_input", "grad_output")
      ow == index % d.OW
      oh == (index \div d.OW) % d.OH
      ch == (index \div (d.OW * d.OH)) % d.C
      n  == index \div (d.OW * d.OH * d.C)
      window == Window(c, d, oh, ow)
  IN  {Add(PoolAt(d, "grad_input", n, ch, p[1], p[2]),
           {<< <<"grad_output", index>>, Share(Cardinality(window))>>}) : p \in window}

-----------------------------------------------------------------------------
(* activations, losses and updates *)

Made(cell, from) == Effect(cell, {<<x>> : x \in from})

\* Elementwise, in place: ReLU, sigmoid and tanh.
ActivationTask(c, i) == {Made(<<"tensor", i>>, {<<"tensor", i>>})}
BackwardActivationTask(c, i) == {Made(<<"grad", i>>, {<<"grad", i>>, <<"activation_output", i>>})}

\* exp(x - max) / sum: an element is its own, the maximum's and the sum's cells.
RowCells(c, role, n) ==
  {Cell(role, c.t[role].shape, <<n, class>>) : class \in Below(c.t[role].shape[2])}
SoftmaxCpuFloat32Task(c, n) ==
  LET row == RowCells(c, "tensor", n) IN
  {Effect(x, {<<x, p[1], p[2], p[3]>> : p \in row \X row \X row}) : x \in row}
BackwardSoftmaxCpuFloat32Task(c, n) ==
  LET output(x) == <<"activation_output", x[2]>>
      row == RowCells(c, "grad", n)
      dot(x) == {<<output(x), g, output(g)>> : g \in row}
  IN  {Effect(x, {<<output(x), x>>} \cup dot(x)) : x \in row}

\* The elements of the rows that count, and those of the padding rows.
ValidCount(c) == c.o.valid * (Elements(c, "prediction") \div c.t["prediction"].shape[1])

\* One term of the loss; the caller, or every thread of a GPU, adds it.
LossTerm(c, i) == {<< <<"prediction", i>>, <<"target", i>> >>}
ElementwiseLoss(c, i) ==
  {Effect(<<"result", 0>>, UNION {LossTerm(c, j) : j \in Below(ValidCount(c))})}
BackwardLossTask(c, i) == {Effect(<<"grad_prediction", i>>, LossTerm(c, i))}
FillPadding(c, i) ==
  {Effect(<<"grad_prediction", j>>, {}) : j \in Below(Elements(c, "prediction")) \ Below(ValidCount(c))}

\* A class outside 0..class_count - 1 makes the loop of the CPU kernels throw.
ClassInRange(c, n) == c.data["target"][n] \in Below(c.t["prediction"].shape[2])
ClassCell(c, role, n) == <<role, n * c.t["prediction"].shape[2] + c.data["target"][n]>>
ClassTerm(c, n) == {<<ClassCell(c, "prediction", n), <<"target", n>> >>}
CategoricalLoss(c, i) ==
  IF \A n \in Below(c.o.valid) : ClassInRange(c, n)
  THEN {Effect(<<"result", 0>>, UNION {ClassTerm(c, n) : n \in Below(c.o.valid)})}
  ELSE {}
\* The rows before the one that throws are done.
ClassesBefore(c) == {n \in Below(c.o.valid) : \A m \in 0..n : ClassInRange(c, m)}
FillGradient(c, i) == {Effect(<<"grad_prediction", i>>, {})}
BackwardCategoricalLoss(c, i) ==
  {Effect(ClassCell(c, "grad_prediction", n), ClassTerm(c, n)) : n \in ClassesBefore(c)}

SgdUpdateCpuFloat32Task(c, i) == {Made(<<"value", i>>, {<<"value", i>>, <<"grad", i>>})}
AdamUpdateCpuFloat32Task(c, i) ==
  LET at(role) == <<role, i>>
      first == {<<at("first_moment")>>, <<at("grad")>>}
      second == {<<at("second_moment")>>, <<at("grad"), at("grad")>>}
  IN  {Effect(at("first_moment"), first), Effect(at("second_moment"), second),
       Effect(at("value"), {<<at("value")>>} \cup {p[1] \o p[2] : p \in first \X second})}

-----------------------------------------------------------------------------
(* A CPU kernel is a sequence of loops: cpu_parallel_for over a task, or a
   loop of the caller ("serial").  Body is one iteration, Iterations their
   number. *)

Body(c, loop, i) ==
  CASE loop = "conv2d_valid" -> Conv2dCpuFloat32ValidTask(c, i)
    [] loop = "conv2d_padded" -> Conv2dCpuFloat32PaddedTask(c, i)
    [] loop = "conv2d_strided" -> Conv2dCpuFloat32StridedTask(c, i)
    [] loop = "conv2d_general" -> Conv2dCpuFloat32GeneralTask(c, i)
    [] loop = "conv_grad_input" -> ConvGradInput(c, i)
    [] loop = "conv_grad_weights" -> ConvGradWeights(c, i)
    [] loop = "conv_grad_bias" -> ConvGradBias(c, i)
    [] loop = "linear" -> LinearCpuFloat32Task(c, i)
    [] loop = "linear_grad_input" -> LinearGradInput(c, i)
    [] loop = "linear_grad_weights" -> LinearGradWeights(c, i)
    [] loop = "linear_grad_bias" -> LinearGradBias(c, i)
    [] loop = "maxpool2d" -> MaxPool2dCpuFloat32Task(c, i)
    [] loop = "maxpool2d_with_indices" -> MaxPool2dWithIndices(c, i)
    [] loop = "avgpool2d" -> AvgPool2dCpuFloat32Task(c, i)
    [] loop = "zero" -> ZeroGradInputTask(c, i)
    [] loop = "scatter_max" -> ScatterMax(c, i)
    [] loop = "scatter_average" -> ScatterAverage(c, i)
    [] loop = "elementwise" -> ActivationTask(c, i)
    [] loop = "backward_elementwise" -> BackwardActivationTask(c, i)
    [] loop = "softmax" -> SoftmaxCpuFloat32Task(c, i)
    [] loop = "backward_softmax" -> BackwardSoftmaxCpuFloat32Task(c, i)
    [] loop = "loss" -> ElementwiseLoss(c, i)
    [] loop = "backward_loss" -> BackwardLossTask(c, i)
    [] loop = "fill_padding" -> FillPadding(c, i)
    [] loop = "categorical_loss" -> CategoricalLoss(c, i)
    [] loop = "fill" -> FillGradient(c, i)
    [] loop = "backward_categorical_loss" -> BackwardCategoricalLoss(c, i)
    [] loop = "sgd" -> SgdUpdateCpuFloat32Task(c, i)
    [] loop = "adam" -> AdamUpdateCpuFloat32Task(c, i)

Iterations(c, loop) ==
  CASE loop \in {"conv2d_valid", "conv2d_general"} -> ConvPlanes(c)
    [] loop \in {"conv2d_padded", "conv2d_strided"} -> ConvRows(c)
    [] loop \in {"conv_grad_input", "zero"} -> Elements(c, "grad_input")
    [] loop = "conv_grad_weights" -> Elements(c, "grad_weights")
    [] loop = "linear" -> c.t["input"].shape[1] * c.t["weights"].shape[1]
    [] loop = "linear_grad_input" -> c.t["input"].shape[1] * c.t["input"].shape[2]
    [] loop = "linear_grad_weights" -> c.t["weights"].shape[1] * c.t["input"].shape[2]
    [] loop \in {"conv_grad_bias", "linear_grad_bias"} -> c.t["weights"].shape[1]
    [] loop = "maxpool2d_with_indices" -> Elements(c, "result")
    [] loop \in {"maxpool2d", "avgpool2d"} -> PoolRows(c)
    [] loop \in {"scatter_max", "scatter_average"} -> Elements(c, "grad_output")
    [] loop = "elementwise" -> Elements(c, "tensor")
    [] loop = "backward_elementwise" -> Elements(c, "grad")
    [] loop = "softmax" -> c.t["tensor"].shape[1]
    [] loop = "backward_softmax" -> c.t["activation_output"].shape[1]
    [] loop \in {"loss", "fill_padding", "categorical_loss", "backward_categorical_loss"} -> 1
    [] loop = "backward_loss" -> ValidCount(c)
    [] loop = "fill" -> Elements(c, "grad_prediction")
    [] loop \in {"sgd", "adam"} -> Elements(c, "value")

Serial == {"scatter_max", "scatter_average", "loss", "fill_padding", "fill",
           "categorical_loss", "backward_categorical_loss"}

\* There is no CPU kernel of mse_loss: its file defines the backward one.
CpuLoops(c, kernel) ==
  LET bias(loop) == IF "grad_bias" \in DOMAIN c.t THEN <<loop>> ELSE <<>> IN
  CASE kernel = "backward_conv2d" ->
         <<"conv_grad_input", "conv_grad_weights">> \o bias("conv_grad_bias")
    [] kernel = "backward_linear" ->
         <<"linear_grad_input", "linear_grad_weights">> \o bias("linear_grad_bias")
    [] kernel = "backward_maxpool2d" -> <<"zero", "scatter_max">>
    [] kernel = "backward_avgpool2d" -> <<"zero", "scatter_average">>
    [] kernel \in {"ReLU", "Sigmoid", "Tanh"} -> <<"elementwise">>
    [] kernel \in {"backward_ReLU", "backward_Sigmoid", "backward_Tanh"} -> <<"backward_elementwise">>
    [] kernel = "Softmax" -> <<"softmax">>
    [] kernel = "backward_Softmax" -> <<"backward_softmax">>
    [] kernel = "binary_cross_entropy" -> <<"loss">>
    [] kernel \in {"backward_mse_loss", "backward_binary_cross_entropy"} ->
         <<"backward_loss", "fill_padding">>
    [] kernel = "categorical_cross_entropy" -> <<"categorical_loss">>
    [] kernel = "backward_categorical_cross_entropy" -> <<"fill", "backward_categorical_loss">>
    [] kernel = "sgd_update" -> <<"sgd">>
    [] kernel = "adam_update" -> <<"adam">>
    [] OTHER -> <<kernel>>

\* A loop of the categorical kernels that meets a class out of range.
CpuThrows(c, loop) ==
  loop \in {"categorical_loss", "backward_categorical_loss"}
  /\ \E n \in Below(c.o.valid) : ~ClassInRange(c, n)

\* cpu_parallel_for: what each thread does of a loop, as functions of the thread.
CpuWork(c, loop) ==
  LET work == Iterations(c, loop)
      threads == IF loop \in Serial THEN 1 ELSE Min({CpuThreads, work})
      chunk == (work + threads - 1) \div threads
      range(t) == {i \in Below(work) : t * chunk <= i /\ i < (t + 1) * chunk}
  IN  IF work = 0 THEN <<>>
      ELSE [t \in {u \in Below(threads) : u * chunk < work} |->
              UNION {Body(c, loop, i) : i \in range(t)}]
=============================================================================
