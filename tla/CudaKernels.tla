---------------------------- MODULE CudaKernels ----------------------------
(***************************************************************************)
(* The CUDA kernels of src/src/kernels/cuda: grids of blocks of threads.   *)
(* A kernel is a sequence of launches, each complete before the next on    *)
(* the default stream.  Between two __syncthreads the threads of a block   *)
(* run in any order: an interval is a stage.  Effects(...) is what one     *)
(* thread does in one stage.                                               *)
(*                                                                         *)
(* Shared memory and registers are cells like those of tensors, one set    *)
(* per block; an access guarded out by a bounds test has no effect, or     *)
(* stores a zero, the empty sum.                                           *)
(***************************************************************************)
EXTENDS Kernels

CONSTANTS
  BlockLine,   \* threads of a one-dimensional block, 256 in the program
  BlockAxis,   \* threads per axis of a square block, 16 in the program
  BiasTile,    \* columns a block of the bias gradient sums, 32 in the program
  BiasLanes    \* threads that share a column, 8 in the program

\* The reductions halve the threads until one is left.
ASSUME BlockLineAssumption == \E n \in 0..10 : BlockLine = 2^n
ASSUME BlockAssumption == {BlockAxis, BiasTile, BiasLanes} \subseteq Nat \ {0}

DivideUp(value, divisor) == (value + divisor - 1) \div divisor

-----------------------------------------------------------------------------
(* Launches whose threads do one iteration of the CPU's loop each, if there
   are so many: index = blockIdx.x * blockDim.x + threadIdx.x. *)

Indexed == {"conv_grad_input", "conv_grad_weights", "conv_grad_bias", "maxpool2d_with_indices",
            "zero", "scatter_max", "scatter_average", "elementwise", "backward_elementwise",
            "loss", "backward_loss", "categorical_loss", "backward_categorical_loss",
            "sgd", "adam"}

\* Where the CPU's caller loops alone a thread takes one step, atomically; a
\* class out of range is passed over.
Atomically(effects) == {[e EXCEPT !.keep = TRUE, !.atomic = TRUE] : e \in effects}
mse_loss_cuda_float32_kernel(c, i) == {AtomicAdd(<<"result", 0>>, LossTerm(c, i))}
categorical_cross_entropy_cuda_float32_kernel(c, n) ==
  IF ClassInRange(c, n) THEN {AtomicAdd(<<"result", 0>>, ClassTerm(c, n))} ELSE {}
backward_categorical_cross_entropy_cuda_float32_kernel(c, n) ==
  IF ClassInRange(c, n) THEN {Effect(ClassCell(c, "grad_prediction", n), ClassTerm(c, n))} ELSE {}

\* Mutant: the gradients of overlapping windows are added without atomicAdd.
backward_maxpool2d_not_atomic(c, i) == ScatterMax(c, i)

backward_maxpool2d_cuda_float32_kernel(c, i) == Atomically(ScatterMax(c, i))

backward_avgpool2d_cuda_float32_kernel(c, i) == Atomically(ScatterAverage(c, i))

IndexedBody(c, launch, i) ==
  CASE launch = "loss" -> mse_loss_cuda_float32_kernel(c, i)
    [] launch = "categorical_loss" -> categorical_cross_entropy_cuda_float32_kernel(c, i)
    [] launch = "backward_categorical_loss" ->
         backward_categorical_cross_entropy_cuda_float32_kernel(c, i)
    [] launch = "scatter_max" -> backward_maxpool2d_cuda_float32_kernel(c, i)
    [] launch = "scatter_average" -> backward_avgpool2d_cuda_float32_kernel(c, i)
    [] OTHER -> Body(c, launch, i)

Count(c, launch) ==
  CASE launch = "loss" -> ValidCount(c)
    [] launch \in {"categorical_loss", "backward_categorical_loss"} -> c.o.valid
    [] OTHER -> Iterations(c, launch)

-----------------------------------------------------------------------------
(* Launches over an output plane: a thread per <<ow, oh>>, blockIdx.z for the
   image and channel. *)

Planar == {"conv2d_valid", "conv2d_padded", "conv2d_strided", "conv2d_general",
           "maxpool2d", "avgpool2d"}

Output(c, axis) == c.t["result"].shape[2 + axis]
PlanarGrid(c) ==
  Below(DivideUp(Output(c, 2), BlockAxis)) \X Below(DivideUp(Output(c, 1), BlockAxis))
  \X Below(c.t["result"].shape[1] * c.t["result"].shape[2])

PlanarThread(c, block, thread, OneCell(_, _, _, _, _)) ==
  LET ow == block[1] * BlockAxis + thread[1]
      oh == block[2] * BlockAxis + thread[2]
      channels == c.t["result"].shape[2]
  IN  IF oh >= Output(c, 1) \/ ow >= Output(c, 2) THEN {}
      ELSE {OneCell(c, block[3] \div channels, block[3] % channels, oh, ow)}

conv2d_cuda_float32_valid_kernel(c, block, thread) == PlanarThread(c, block, thread, ValidCell)
conv2d_cuda_float32_padded_kernel(c, block, thread) == PlanarThread(c, block, thread, PaddedCell)
conv2d_cuda_float32_strided_kernel(c, block, thread) == PlanarThread(c, block, thread, StridedCell)
conv2d_cuda_float32_general_kernel(c, block, thread) == PlanarThread(c, block, thread, GeneralCell)
maxpool2d_cuda_float32_kernel(c, block, thread) == PlanarThread(c, block, thread, MaxPoolCell)
avgpool2d_cuda_float32_kernel(c, block, thread) == PlanarThread(c, block, thread, AvgPoolCell)

PlanarKernel(c, launch, block, thread) ==
  CASE launch = "conv2d_valid" -> conv2d_cuda_float32_valid_kernel(c, block, thread)
    [] launch = "conv2d_padded" -> conv2d_cuda_float32_padded_kernel(c, block, thread)
    [] launch = "conv2d_strided" -> conv2d_cuda_float32_strided_kernel(c, block, thread)
    [] launch = "conv2d_general" -> conv2d_cuda_float32_general_kernel(c, block, thread)
    [] launch = "maxpool2d" -> maxpool2d_cuda_float32_kernel(c, block, thread)
    [] launch = "avgpool2d" -> avgpool2d_cuda_float32_kernel(c, block, thread)

-----------------------------------------------------------------------------
(* The tiled products.  A block <<bx, by>> of BlockAxis by BlockAxis threads
   <<tx, ty>> computes a square of twice that size, each thread four of its
   elements, at rows Low(by, ty) and High(by, ty) and columns alike.  The
   common dimension is walked BlockAxis at a time: stage 2i loads tile i into
   shared memory, stage 2i + 1 multiplies it, the last one stores the sums. *)

Half == {0, 1}
Place(block, thread, half) == block * 2 * BlockAxis + thread + half * BlockAxis
InTile(thread, half) == thread + half * BlockAxis

Shared(tile, block, row, col) == <<tile, <<block, row, col>>>>
Register(block, thread, i, j) == <<"sum", <<block, thread, i, j>>>>
Load(tile, block, row, col, inside, cell) ==
  Effect(Shared(tile, block, row, col), IF inside THEN {<<cell>>} ELSE {})

\* The sums a thread adds to: a(i, k) and b(j, k) are cells of shared memory.
Multiply(block, thread, a(_, _), b(_, _)) ==
  {Add(Register(block, thread, i, j), {<<a(i, k), b(j, k)>> : k \in Below(BlockAxis)})
     : i, j \in Half}
Store(block, thread, i, j, inside, cell, more) ==
  IF inside THEN {Effect(cell, {<<Register(block, thread, i, j)>>} \cup more)} ELSE {}

Tiled == {"linear", "linear_grad_input", "linear_grad_weights"}
Common(c, launch) ==
  LET d == LinearDims(c) IN
  CASE launch = "linear" -> d.input_features
    [] launch = "linear_grad_input" -> d.output_features
    [] launch = "linear_grad_weights" -> d.batch_size
Tiles(c, launch) == DivideUp(Common(c, launch), BlockAxis)
TiledGrid(c, launch) ==
  LET d == LinearDims(c)
      size == 2 * BlockAxis
      columns == IF launch = "linear" THEN d.output_features ELSE d.input_features
      rows == IF launch = "linear_grad_weights" THEN d.output_features ELSE d.batch_size
  IN  Below(DivideUp(columns, size)) \X Below(DivideUp(rows, size))

linear_cuda_float32_kernel(c, block, thread, stage) ==
  LET d == LinearDims(c)
      bx == block[1]  by == block[2]  tx == thread[1]  ty == thread[2]
      feature == (stage \div 2) * BlockAxis + tx
      load(i) ==
        LET n == Place(by, ty, i)   out == Place(bx, ty, i) IN
        {Load("input_tile", block, InTile(ty, i), tx,
              n < d.batch_size /\ feature < d.input_features, InputAt(d, n, feature)),
         Load("weight_tile", block, InTile(ty, i), tx,
              out < d.output_features /\ feature < d.input_features, WeightAt(d, out, feature))}
      store(i, j) ==
        LET n == Place(by, ty, i)   out == Place(bx, tx, j) IN
        Store(block, thread, i, j, n < d.batch_size /\ out < d.output_features,
              <<"result", n * d.output_features + out>>,
              IF "bias" \in DOMAIN c.t THEN {<< <<"bias", out>> >>} ELSE {})
  IN  IF stage = 2 * Tiles(c, "linear") THEN UNION {store(i, j) : i, j \in Half}
      ELSE IF stage % 2 = 0 THEN UNION {load(i) : i \in Half}
      ELSE Multiply(block, thread,
             LAMBDA i, k : Shared("input_tile", block, InTile(ty, i), k),
             LAMBDA j, k : Shared("weight_tile", block, InTile(tx, j), k))

backward_linear_grad_weights_cuda_float32_kernel(c, block, thread, stage) ==
  LET d == LinearDims(c)
      bx == block[1]  by == block[2]  tx == thread[1]  ty == thread[2]
      n == (stage \div 2) * BlockAxis + ty
      load(i) ==
        LET out == Place(by, tx, i)   in == Place(bx, tx, i) IN
        {Load("grad_output_tile", block, ty, InTile(tx, i),
              n < d.batch_size /\ out < d.output_features, GradAt(d, n, out)),
         Load("input_tile", block, ty, InTile(tx, i),
              n < d.batch_size /\ in < d.input_features, InputAt(d, n, in))}
      store(i, j) ==
        LET out == Place(by, ty, i)   in == Place(bx, tx, j) IN
        Store(block, thread, i, j, out < d.output_features /\ in < d.input_features,
              <<"grad_weights", out * d.input_features + in>>, {})
  IN  IF stage = 2 * Tiles(c, "linear_grad_weights") THEN UNION {store(i, j) : i, j \in Half}
      ELSE IF stage % 2 = 0 THEN UNION {load(i) : i \in Half}
      ELSE Multiply(block, thread,
             LAMBDA i, k : Shared("grad_output_tile", block, k, InTile(ty, i)),
             LAMBDA j, k : Shared("input_tile", block, k, InTile(tx, j)))

\* It stores the weights transposed, so that both tiles are read along rows.
backward_linear_grad_input_cuda_float32_kernel(c, block, thread, stage) ==
  LET d == LinearDims(c)
      bx == block[1]  by == block[2]  tx == thread[1]  ty == thread[2]
      base == (stage \div 2) * BlockAxis
      load(i) ==
        LET n == Place(by, ty, i)   in == Place(bx, tx, i) IN
        {Load("grad_output_tile", block, InTile(ty, i), tx,
              n < d.batch_size /\ base + tx < d.output_features, GradAt(d, n, base + tx)),
         Load("weight_tile", block, InTile(tx, i), ty,
              base + ty < d.output_features /\ in < d.input_features, WeightAt(d, base + ty, in))}
      store(i, j) ==
        LET n == Place(by, ty, i)   in == Place(bx, tx, j) IN
        Store(block, thread, i, j, n < d.batch_size /\ in < d.input_features,
              <<"grad_input", n * d.input_features + in>>, {})
  IN  IF stage = 2 * Tiles(c, "linear_grad_input") THEN UNION {store(i, j) : i, j \in Half}
      ELSE IF stage % 2 = 0 THEN UNION {load(i) : i \in Half}
      ELSE Multiply(block, thread,
             LAMBDA i, k : Shared("grad_output_tile", block, InTile(ty, i), k),
             LAMBDA j, k : Shared("weight_tile", block, InTile(tx, j), k))

-----------------------------------------------------------------------------
(* Sums and maxima over shared memory. *)

\* BiasLanes threads <<tx, ty>> per column; lane 0 adds what the lanes have.
backward_linear_grad_bias_cuda_float32_kernel(c, block, thread, stage) ==
  LET d == LinearDims(c)
      out == block * BiasTile + thread[1]
      mine == {n \in Below(d.batch_size) : n % BiasLanes = thread[2]}
      partial(lane) == Shared("partial_sums", block, lane, thread[1])
  IN  IF stage = 0
      THEN {Effect(partial(thread[2]),
                   IF out < d.output_features THEN {<<GradAt(d, n, out)>> : n \in mine} ELSE {})}
      ELSE IF thread[2] = 0 /\ out < d.output_features
      THEN {Effect(<<"grad_bias", out>>, {<<partial(lane)>> : lane \in Below(BiasLanes)})}
      ELSE {}

\* The stages of a reduction after each thread has put its part in shared[t]:
\* at each step the lower half adds the upper half, until shared[0] has it all.
Part(block, t) == <<"shared", <<block, t>>>>
Steps == CHOOSE n \in 0..10 : BlockLine = 2^n
Fold(block, t, step) ==
  LET offset == BlockLine \div 2^step IN
  IF t < offset
  THEN {Effect(Part(block, t), {<<Part(block, t)>>, <<Part(block, t + offset)>>})} ELSE {}

Strided(c, role, row, t) ==
  {x \in RowCells(c, role, row) : (x[2] - row * c.t[role].shape[2]) % BlockLine = t}

\* One block per row.  The stages: the maxima, their reduction, its result, the
\* powers and their sums, their reduction, the quotients.
softmax_cuda_float32_kernel(c, row, t, stage) ==
  LET mine == Strided(c, "tensor", row, t)
      maximum == <<"maximum", <<row, t>>>>
  IN  CASE stage = 0 -> {Effect(Part(row, t), {<<x>> : x \in mine})}
        [] stage \in 1..Steps -> Fold(row, t, stage)
        [] stage = Steps + 1 -> {Effect(maximum, {<<Part(row, 0)>>})}
        [] stage = Steps + 2 ->
             {Effect(x, {<<x, maximum>>}) : x \in mine}
             \cup {Effect(Part(row, t), {<<x, maximum>> : x \in mine})}
        [] stage \in (Steps + 3)..(2 * Steps + 2) -> Fold(row, t, stage - Steps - 2)
        [] stage = 2 * Steps + 3 -> {Effect(x, {<<x, Part(row, 0)>>}) : x \in mine}

backward_softmax_cuda_float32_kernel(c, row, t, stage) ==
  LET mine == Strided(c, "grad", row, t)
      output(x) == <<"activation_output", x[2]>>
  IN  CASE stage = 0 -> {Effect(Part(row, t), {<<x, output(x)>> : x \in mine})}
        [] stage \in 1..Steps -> Fold(row, t, stage)
        [] stage = Steps + 1 ->
             {Effect(x, {<<output(x), x>>, <<output(x), Part(row, 0)>>}) : x \in mine}

-----------------------------------------------------------------------------
(* What a kernel launches, and the grid, the threads and the stages of each. *)

NoElements(c) == 0 \in {c.t["input"].shape[1], c.t["input"].shape[2], c.t["weights"].shape[1]}

CudaLaunches(c, kernel) ==
  LET bias(launch) == IF "grad_bias" \in DOMAIN c.t THEN <<launch>> ELSE <<>> IN
  CASE kernel = "linear" -> IF NoElements(c) THEN <<>> ELSE <<"linear">>
    [] kernel = "backward_linear" ->
         IF NoElements(c) THEN <<>>
         ELSE <<"linear_grad_input", "linear_grad_weights">> \o bias("linear_grad_bias")
    [] kernel \in {"mse_loss", "binary_cross_entropy"} -> <<"clear_result", "loss">>
    [] kernel = "categorical_cross_entropy" -> <<"clear_result", "categorical_loss">>
    [] kernel \in {"backward_mse_loss", "backward_binary_cross_entropy"} ->
         <<"fill_padding", "backward_loss">>
    [] kernel = "backward_categorical_cross_entropy" -> <<"clear_gradient", "backward_categorical_loss">>
    [] OTHER -> CpuLoops(c, kernel)

\* cudaMemset, ordered before the launch that follows.
Memset == {"clear_result", "clear_gradient", "fill_padding"}
Cleared(c, launch) ==
  CASE launch = "clear_result" -> {Effect(<<"result", 0>>, {})}
    [] launch = "clear_gradient" ->
         {Effect(<<"grad_prediction", i>>, {}) : i \in Below(Elements(c, "prediction"))}
    [] launch = "fill_padding" -> FillPadding(c, 0)

Grid(c, launch) ==
  CASE launch \in Memset -> {0}
    [] launch \in Indexed -> Below(DivideUp(Count(c, launch), BlockLine))
    [] launch \in Planar -> PlanarGrid(c)
    [] launch \in Tiled -> TiledGrid(c, launch)
    [] launch = "linear_grad_bias" -> Below(DivideUp(c.t["weights"].shape[1], BiasTile))
    [] launch = "softmax" -> Below(c.t["tensor"].shape[1])
    [] launch = "backward_softmax" -> Below(c.t["activation_output"].shape[1])

Threads(launch) ==
  CASE launch \in Memset -> {0}
    [] launch \in Planar \cup Tiled -> Below(BlockAxis) \X Below(BlockAxis)
    [] launch = "linear_grad_bias" -> Below(BiasTile) \X Below(BiasLanes)
    [] OTHER -> Below(BlockLine)

LastStage(c, launch) ==
  CASE launch \in Tiled -> 2 * Tiles(c, launch)
    [] launch = "linear_grad_bias" -> 1
    [] launch = "softmax" -> 2 * Steps + 3
    [] launch = "backward_softmax" -> Steps + 1
    [] OTHER -> 0

Effects(c, launch, block, thread, stage) ==
  CASE launch \in Memset -> Cleared(c, launch)
    [] launch \in Indexed ->
         LET index == block * BlockLine + thread IN
         IF index < Count(c, launch) THEN IndexedBody(c, launch, index) ELSE {}
    [] launch \in Planar -> PlanarKernel(c, launch, block, thread)
    [] launch = "linear" -> linear_cuda_float32_kernel(c, block, thread, stage)
    [] launch = "linear_grad_input" ->
         backward_linear_grad_input_cuda_float32_kernel(c, block, thread, stage)
    [] launch = "linear_grad_weights" ->
         backward_linear_grad_weights_cuda_float32_kernel(c, block, thread, stage)
    [] launch = "linear_grad_bias" ->
         backward_linear_grad_bias_cuda_float32_kernel(c, block, thread, stage)
    [] launch = "softmax" -> softmax_cuda_float32_kernel(c, block, thread, stage)
    [] launch = "backward_softmax" -> backward_softmax_cuda_float32_kernel(c, block, thread, stage)
=============================================================================
