---------------------------- MODULE KernelLaunch ---------------------------
(***************************************************************************)
(* One call of an operation: its validation, the choice of the kernel, and *)
(* the run of that kernel by the threads of the CPU pool or of the blocks  *)
(* of a GPU, in any order the pool's queue and the barriers allow.         *)
(*                                                                         *)
(* On a CPU a launch is one cpu_parallel_for (or a loop of the caller) and *)
(* has one group of workers; on a GPU it is one grid, a group is a block.  *)
(* A worker does all it has to do in a stage at once: within a stage it    *)
(* reads and writes nothing that another one writes (NoRace), so that the  *)
(* order of single accesses cannot matter.                                 *)
(***************************************************************************)
EXTENDS Ops, CudaKernels, TLC

CONSTANT Calls     \* the calls to look at: op, t, o and data as in Kernels

\* The tensors an entry takes, and the one it may be given besides.
Gradients == {"input", "weights", "grad_output", "grad_input", "grad_weights"}
Takes ==
  [conv2d |-> {"input", "kernels", "result"}, backward_conv2d |-> Gradients,
   linear |-> {"input", "weights", "result"}, backward_linear |-> Gradients,
   maxpool2d |-> {"input", "result"}, avgpool2d |-> {"input", "result"},
   maxpool2d_with_indices |-> {"input", "result", "indices"},
   backward_maxpool2d |-> {"indices", "grad_output", "grad_input"},
   backward_avgpool2d |-> {"grad_output", "grad_input"},
   activation |-> {"tensor"}, backward_activation |-> {"activation_output", "grad"},
   mse_loss |-> {"prediction", "target", "result"},
   binary_cross_entropy |-> {"prediction", "target", "result"},
   categorical_cross_entropy |-> {"prediction", "target", "result"},
   backward_mse_loss |-> {"prediction", "target", "grad_prediction"},
   backward_binary_cross_entropy |-> {"prediction", "target", "grad_prediction"},
   backward_categorical_cross_entropy |-> {"prediction", "target", "grad_prediction"},
   sgd_update |-> {"value", "grad"},
   adam_update |-> {"value", "grad", "first_moment", "second_moment"}]
MayTake(op) ==
  CASE op \in {"conv2d", "linear"} -> {"bias"}
    [] op \in {"backward_conv2d", "backward_linear"} -> {"grad_bias"}
    [] OTHER -> {}

\* Extents and options are any numbers of type size_t; a class number, the index of a
\* maximum, the rank of a tensor are whatever the caller passes.  The CPU has no kernel
\* of mse_loss: its file defines the backward one.
Sizes == Below(SizeMod)
Integral(c, role) == c.data[role] \in [Below(Elements(c, role)) -> Int]
CallAssumed(c) ==
  /\ c.op \in DOMAIN Takes
  /\ Takes[c.op] \subseteq DOMAIN c.t /\ DOMAIN c.t \subseteq Takes[c.op] \cup MayTake(c.op)
  /\ \A role \in DOMAIN c.t : c.t[role].shape \in Seq(Sizes)
  /\ c.op \in {"conv2d", "backward_conv2d"} =>
       \A a \in Axes : {c.o.stride[a], c.o.padding[a], c.o.dilation[a]} \subseteq Sizes
  /\ c.op \in {"maxpool2d", "maxpool2d_with_indices", "avgpool2d", "backward_avgpool2d"} =>
       \A a \in Axes : {c.o.stride[a], c.o.padding[a], c.o.kernel[a]} \subseteq Sizes
  /\ c.op \in {"activation", "backward_activation"} => c.o.type \in ActivationTypes
  /\ "prediction" \in Takes[c.op] => c.o.valid \in Sizes
  /\ c.op = "mse_loss" => c.t["prediction"].device # "CPU"
  /\ c.op \in {"categorical_cross_entropy", "backward_categorical_cross_entropy"} => Integral(c, "target")
  /\ c.op = "backward_maxpool2d" => Integral(c, "indices")
ASSUME CallsAssumption == \A c \in Calls : CallAssumed(c)

VARIABLES
  call,      \* the call
  outcome,   \* "called", "running", "done" or Threw
  launches,  \* the launches that have not ended
  running,   \* whether the first of them has begun
  stage,     \* of each group of the launch
  todo,      \* todo[g][w]: the effects of the workers that are not done with the stage
  mem        \* the cells written so far

vars == <<call, outcome, launches, running, stage, todo, mem>>

-----------------------------------------------------------------------------
\* The tensor whose device chooses the backend.
First ==
  LET firsts == {"input", "tensor", "activation_output", "prediction", "value"} \cap DOMAIN call.t
  IN  IF firsts = {} THEN "grad_output" ELSE CHOOSE role \in firsts : TRUE
OnCpu == call.t[First].device = "CPU"

Launches(kernel) == IF OnCpu THEN CpuLoops(call, kernel) ELSE CudaLaunches(call, kernel)
Groups(launch) == IF OnCpu THEN {0} ELSE Grid(call, launch)
Last(launch) == IF OnCpu THEN 0 ELSE LastStage(call, launch)
\* What the workers of a group that have something to do in a stage do.
Work(launch, group, at) ==
  LET effects == IF OnCpu THEN CpuWork(call, launch)
                 ELSE [t \in Threads(launch) |-> Effects(call, launch, group, t, at)]
  IN  [t \in {u \in DOMAIN effects : effects[u] # {}} |-> effects[t]]

-----------------------------------------------------------------------------
(* Values *)

Nothing == [x \in {} |-> {}]
\* A register starts at zero, anything else with what it held before.
Value(cell) ==
  IF cell \in DOMAIN mem THEN mem[cell] ELSE IF cell[1] = "sum" THEN {} ELSE {<<cell>>}

\* A product of sums is the sum of the products.
Product(cells) ==
  LET first[n \in 0..Len(cells)] ==
        IF n = 0 THEN {<<>>} ELSE {a \o b : a \in first[n - 1], b \in Value(cells[n])}
  IN  first[Len(cells)]

Apply(effects) ==
  LET written == {e.to : e \in effects}
      sum(cell) == UNION {(UNION {Product(term) : term \in e.terms})
                          \cup (IF e.keep THEN Value(cell) ELSE {})
                            : e \in {f \in effects : f.to = cell}}
  IN  [cell \in DOMAIN mem \cup written |-> IF cell \in written THEN sum(cell) ELSE mem[cell]]

-----------------------------------------------------------------------------
Init ==
  /\ call \in Calls /\ outcome = "called"
  /\ launches = <<>> /\ running = FALSE /\ stage = Nothing /\ todo = Nothing /\ mem = Nothing

Call ==
  /\ outcome = "called"
  /\ LET kernel == Entry(call) IN
     IF kernel = Threw THEN outcome' = Threw /\ UNCHANGED launches
     ELSE outcome' = "running" /\ launches' = Launches(kernel)
  /\ UNCHANGED <<call, running, stage, todo, mem>>

\* The runtime refuses a grid without blocks; cpu_parallel_for returns at once.
BeginLaunch ==
  /\ outcome = "running" /\ ~running /\ launches # <<>>
  /\ LET groups == Groups(Head(launches)) IN
     IF groups = {} THEN outcome' = Threw /\ UNCHANGED <<running, stage, todo>>
     ELSE /\ running' = TRUE
          /\ stage' = [g \in groups |-> 0]
          /\ todo' = [g \in groups |-> Work(Head(launches), g, 0)]
          /\ UNCHANGED outcome
  /\ UNCHANGED <<call, launches, mem>>

\* A worker does its part of the stage.
Step(g, w) ==
  /\ mem' = Apply(todo[g][w])
  /\ todo' = [todo EXCEPT ![g] = [v \in DOMAIN @ \ {w} |-> @[v]]]
  /\ UNCHANGED <<call, outcome, launches, running, stage>>

\* __syncthreads: all threads of the block have come to the barrier.
Synchronize(g) ==
  /\ DOMAIN todo[g] = {} /\ stage[g] < Last(Head(launches))
  /\ stage' = [stage EXCEPT ![g] = @ + 1]
  /\ todo' = [todo EXCEPT ![g] = Work(Head(launches), g, stage[g] + 1)]
  /\ UNCHANGED <<call, outcome, launches, running, mem>>

\* pool.wait() returns, or the stream goes on to the next launch; registers and
\* shared memory are gone.
EndLaunch ==
  /\ running
  /\ \A g \in DOMAIN todo : DOMAIN todo[g] = {} /\ stage[g] = Last(Head(launches))
  /\ running' = FALSE /\ stage' = Nothing /\ todo' = Nothing
  /\ launches' = Tail(launches)
  /\ outcome' = IF OnCpu /\ CpuThrows(call, Head(launches)) THEN Threw ELSE outcome
  /\ mem' = [x \in {y \in DOMAIN mem : y[1] \in DOMAIN call.t} |-> mem[x]]
  /\ UNCHANGED call

Return ==
  /\ outcome = "running" /\ launches = <<>>
  /\ outcome' = "done"
  /\ UNCHANGED <<call, launches, running, stage, todo, mem>>

Next ==
  \/ Call \/ BeginLaunch \/ EndLaunch \/ Return
  \/ \E g \in DOMAIN todo : Synchronize(g)
  \/ \E g \in DOMAIN todo : \E w \in DOMAIN todo[g] : Step(g, w)

Spec == Init /\ [][Next]_vars

-----------------------------------------------------------------------------
(* The definitions of the operations, by the relation between inputs and
   outputs rather than by the loops of the kernels. *)

\* <<image, output channel, input channel, h, w, r, s, input row, input column>>:
\* output (h, w) multiplies that input with position (r, s) of the kernel.
Taps(input, kernels, output, o) ==
  {p \in
     Below(input[1]) \X Below(kernels[1]) \X Below(kernels[2]) \X Below(output[3])
     \X Below(output[4]) \X Below(kernels[3]) \X Below(kernels[4])
     \X Below(input[3]) \X Below(input[4]) :
     /\ p[8] + o.padding[1] = p[4] * o.stride[1] + p[6] * o.dilation[1]
     /\ p[9] + o.padding[2] = p[5] * o.stride[2] + p[7] * o.dilation[2]}

LOCAL All(role) == {<<role, a>> : a \in Below(Elements(call, role))}
LOCAL Shape(role) == call.t[role].shape
\* A sum of products, collected from <<cell, product>> pairs.
LOCAL Collected(cells, pairs) == [x \in cells |-> {p[2] : p \in {q \in pairs : q[1] = x}}]

ConvDefinition ==
  LET taps == Taps(Shape("input"), Shape("kernels"), Shape("result"), call.o)
      result(n, k, h, w) == Cell("result", Shape("result"), <<n, k, h, w>>)
      pairs == {<<result(p[1], p[2], p[4], p[5]),
                  <<Cell("input", Shape("input"), <<p[1], p[3], p[8], p[9]>>),
                    Cell("kernels", Shape("kernels"), <<p[2], p[3], p[6], p[7]>>)>> >> : p \in taps}
      biased == {<<x, << <<"bias", (x[2] \div (Shape("result")[3] * Shape("result")[4]))
                                     % Shape("result")[2]>> >> >> : x \in All("result")}
  IN  Collected(All("result"),
        pairs \cup (IF call.o.use_bias /\ "bias" \in DOMAIN call.t THEN biased ELSE {}))

BackwardConvDefinition ==
  LET taps == Taps(Shape("input"), Shape("weights"), Shape("grad_output"), call.o)
      x(p) == <<p[1], p[3], p[8], p[9]>>
      w(p) == <<p[2], p[3], p[6], p[7]>>
      g(p) == Cell("grad_output", Shape("grad_output"), <<p[1], p[2], p[4], p[5]>>)
      image(i) == (i[2] \div (Shape("grad_output")[3] * Shape("grad_output")[4]))
                  % Shape("grad_output")[2]
  IN  Collected(All("grad_input"),
        {<<Cell("grad_input", Shape("input"), x(p)),
           <<g(p), Cell("weights", Shape("weights"), w(p))>> >> : p \in taps})
      @@ Collected(All("grad_weights"),
           {<<Cell("grad_weights", Shape("weights"), w(p)),
              <<Cell("input", Shape("input"), x(p)), g(p)>> >> : p \in taps})
      @@ (IF "grad_bias" \in DOMAIN call.t
          THEN Collected(All("grad_bias"),
                 {<< <<"grad_bias", image(i)>>, <<i>> >> : i \in All("grad_output")})
          ELSE Nothing)

LinearDefinition ==
  LET d == LinearDims(call) IN
  [x \in All("result") |->
     {<<InputAt(d, x[2] \div d.output_features, i), WeightAt(d, x[2] % d.output_features, i)>>
        : i \in Below(d.input_features)}
     \cup (IF "bias" \in DOMAIN call.t THEN {<< <<"bias", x[2] % d.output_features>> >>} ELSE {})]

\* The three gradients are the three ways to contract the same products.
BackwardLinearDefinition ==
  LET d == LinearDims(call)
      all == Below(d.batch_size) \X Below(d.output_features) \X Below(d.input_features)
      g(p) == GradAt(d, p[1], p[2])
  IN  Collected(All("grad_input"),
        {<< <<"grad_input", InputAt(d, p[1], p[3])[2]>>, <<g(p), WeightAt(d, p[2], p[3])>> >>
           : p \in all})
      @@ Collected(All("grad_weights"),
           {<< <<"grad_weights", WeightAt(d, p[2], p[3])[2]>>, <<g(p), InputAt(d, p[1], p[3])>> >>
              : p \in all})
      @@ (IF "grad_bias" \in DOMAIN call.t
          THEN Collected(All("grad_bias"),
                 {<< <<"grad_bias", i[2] % d.output_features>>, <<i>> >> : i \in All("grad_output")})
          ELSE Nothing)

\* <<image, channel, h, w, input row, input column>>: some position (r, s) of the
\* window of output (h, w) is on that input.
LOCAL PoolTaps(input, output, o) ==
  {p \in Below(input[1]) \X Below(input[2]) \X Below(output[3])
     \X Below(output[4]) \X Below(input[3]) \X Below(input[4]) :
     /\ \E r \in Below(o.kernel[1]) : p[5] + o.padding[1] = p[3] * o.stride[1] + r
     /\ \E s \in Below(o.kernel[2]) : p[6] + o.padding[2] = p[4] * o.stride[2] + s}

LOCAL PoolDefinition(input, output, Pair(_, _, _)) ==
  LET taps == PoolTaps(Shape(input), Shape(output), call.o)
      from(p) == Cell(input, Shape(input), <<p[1], p[2], p[5], p[6]>>)
      to(p) == Cell(output, Shape(output), <<p[1], p[2], p[3], p[4]>>)
      count(p) == Cardinality({q \in taps : to(q) = to(p)})
  IN  {Pair(from(p), to(p), count(p)) : p \in taps}

AvgPoolDefinition ==
  Collected(All("result"),
    PoolDefinition("input", "result", LAMBDA from, to, n : <<to, <<from, Share(n)>> >>))
BackwardAvgPoolDefinition ==
  Collected(All("grad_input"),
    PoolDefinition("grad_input", "grad_output", LAMBDA from, to, n : <<from, <<to, Share(n)>> >>))
MaxPoolDefinition ==
  Collected(All("result"), PoolDefinition("input", "result", LAMBDA from, to, n : <<to, <<from>> >>))

\* The index of a maximum: the first of the greatest inputs of the window.  A window
\* with nothing above minus infinity keeps 0, wherever it is.
IndicesDefinition ==
  LET value(x) == call.data["input"][x[2]]
      window(i) == {t[1] : t \in MaxPoolDefinition[<<"result", i[2]>>]}
      best(i) == {x \in window(i) : value(x) > 0
                    /\ \A y \in window(i) : value(y) < value(x) \/ (value(y) = value(x) /\ y[2] >= x[2])}
      index(i) == IF best(i) = {} THEN 0 ELSE (CHOOSE x \in best(i) : TRUE)[2]
  IN  [i \in All("indices") |-> {<< <<"index", index(i)>> >>}]

BackwardMaxPoolDefinition ==
  [x \in All("grad_input") |->
     {<<i>> : i \in {j \in All("grad_output") : call.data["indices"][j[2]] = x[2]}}]

SoftmaxDefinition(role, output) ==
  LET row(x) == {y \in All(role) : x[2] \div Shape(role)[2] = y[2] \div Shape(role)[2]}
      out(x) == <<output, x[2]>>
  IN  [x \in All(role) |->
        IF role = output THEN {<<x>> \o p : p \in row(x) \X row(x) \X row(x)}
        ELSE {<<out(x), x>>} \cup {<<out(x), y, out(y)>> : y \in row(x)}]

\* The rows a padded batch counts, and the elements of the classes they name.
LOCAL Row(x) == x[2] \div (Elements(call, "prediction") \div Shape("prediction")[1])
LOCAL Counts(x) == Row(x) < call.o.valid
LOCAL Named(x) == Counts(x) /\ x[2] - Row(x) * Shape("prediction")[2] = call.data["target"][Row(x)]
LOCAL LossProduct(x) ==
  <<x, IF "target" \in DOMAIN call.data THEN <<"target", Row(x)>> ELSE <<"target", x[2]>> >>
LOCAL InLoss(x) == IF "target" \in DOMAIN call.data THEN Named(x) ELSE Counts(x)
LossDefinition ==
  [r \in {<<"result", 0>>} |-> {LossProduct(x) : x \in {y \in All("prediction") : InLoss(y)}}]
BackwardLossDefinition ==
  [g \in All("grad_prediction") |->
     LET x == <<"prediction", g[2]>> IN
     IF ~InLoss(x) THEN {} ELSE {LossProduct(x)}]

LOCAL Elementwise(role, from) == [x \in All(role) |-> {<< <<r, x[2]>> >> : r \in from}]
AdamDefinition ==
  LET m(i) == {<< <<"first_moment", i>> >>, << <<"grad", i>> >>}
      v(i) == {<< <<"second_moment", i>> >>, << <<"grad", i>>, <<"grad", i>> >>}
  IN  [x \in All("first_moment") |-> m(x[2])] @@ [x \in All("second_moment") |-> v(x[2])]
      @@ [x \in All("value") |-> {<<x>>} \cup {p[1] \o p[2] : p \in m(x[2]) \X v(x[2])}]

Definition ==
  CASE call.op = "conv2d" -> ConvDefinition
    [] call.op = "backward_conv2d" -> BackwardConvDefinition
    [] call.op = "linear" -> LinearDefinition
    [] call.op = "backward_linear" -> BackwardLinearDefinition
    [] call.op = "maxpool2d" -> MaxPoolDefinition
    [] call.op = "maxpool2d_with_indices" -> MaxPoolDefinition @@ IndicesDefinition
    [] call.op = "backward_maxpool2d" -> BackwardMaxPoolDefinition
    [] call.op = "avgpool2d" -> AvgPoolDefinition
    [] call.op = "backward_avgpool2d" -> BackwardAvgPoolDefinition
    [] call.op = "activation" ->
         IF call.o.type = "Softmax" THEN SoftmaxDefinition("tensor", "tensor")
         ELSE Elementwise("tensor", {"tensor"})
    [] call.op = "backward_activation" ->
         IF call.o.type = "Softmax" THEN SoftmaxDefinition("grad", "activation_output")
         ELSE Elementwise("grad", {"grad", "activation_output"})
    [] call.op \in {"mse_loss", "binary_cross_entropy", "categorical_cross_entropy"} -> LossDefinition
    [] call.op \in {"backward_mse_loss", "backward_binary_cross_entropy",
                    "backward_categorical_cross_entropy"} -> BackwardLossDefinition
    [] call.op = "sgd_update" -> Elementwise("value", {"value", "grad"})
    [] call.op = "adam_update" -> AdamDefinition

-----------------------------------------------------------------------------
(* Properties *)

Pending == UNION {{g} \X DOMAIN todo[g] : g \in DOMAIN todo}
Reads(e) ==
  (UNION {{term[i] : i \in DOMAIN term} : term \in e.terms}) \cup (IF e.keep THEN {e.to} ELSE {})

\* The kernels index raw memory by the shapes they are given.  Whatever a validation
\* lets through, no thread touches a cell outside its tensors: the checks of
\* src/src/ops/validation and the guards of the kernels are enough together, as long as
\* size_t holds the number of elements of each tensor, and the indices of the maxima,
\* which nothing checks, lie in the gradient they are scattered to.
Allocated == \A role \in DOMAIN call.t : Volume(call.t[role].shape) < SizeMod
IndicesOfMaxima ==
  call.op = "backward_maxpool2d" =>
    \A i \in Below(Elements(call, "indices")) :
      call.data["indices"][i] \in Below(Elements(call, "grad_input"))
WithinBounds ==
  Allocated /\ IndicesOfMaxima =>
    \A p \in Pending : \A e \in todo[p[1]][p[2]] : \A x \in Reads(e) \cup {e.to} :
      x[1] \in DOMAIN call.t => x[2] \in Below(Elements(call, x[1]))

\* Two threads that nothing orders (of one cpu_parallel_for, of two blocks, or of a
\* block between the same two barriers) touch one cell only to read it, or both by
\* atomicAdd: the result cannot depend on the schedule.
NoRace ==
  \A p, q \in Pending : p # q =>
    \A e \in todo[p[1]][p[2]], f \in todo[q[1]][q[2]] :
      /\ e.to = f.to => e.atomic /\ f.atomic
      /\ e.to \notin Reads(f) \ (IF f.atomic THEN {f.to} ELSE {})

\* The code leaves a result as it was when a CUDA linear has a dimension of zero: its
\* launch returns early, before the bias is added.
LOCAL LeftAsItWas == ~OnCpu /\ call.op \in {"linear", "backward_linear"} /\ NoElements(call)

\* An accepted call ends with every element of its outputs the sum that defines the
\* operation, whichever kernel, split of the work and tiling computed it, and no other
\* tensor written: the variants of a backend, and the backends, agree.
ComputesDefinition ==
  outcome = "done" /\ ~LeftAsItWas =>
    /\ \A x \in DOMAIN Definition : Value(x) = Definition[x]
    /\ \A x \in DOMAIN mem : x[1] \in DOMAIN call.t => x \in DOMAIN Definition
=============================================================================
