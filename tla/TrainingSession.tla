-------------------------- MODULE TrainingSession --------------------------
(***************************************************************************)
(* A program that trains, evaluates and runs one Sequential model: the     *)
(* drivers Training::fit, Evaluation::evaluate and Inference::run, the     *)
(* passes they make over the layers, the tensor pool the layers share, the *)
(* loss, the optimizer, and the storages of two data loaders.  Calls come  *)
(* in any order, and the program goes on after one that throws.            *)
(*                                                                         *)
(* What a tensor holds is a mark, never its numbers: <<"batch">> for the   *)
(* images a loader put there, <<"forward", i>> and <<"backward", i>> for   *)
(* what layer i computed in this pass, Stale for anything older, Garbage   *)
(* for a gradient computed from the wrong things.  A new pass turns all    *)
(* marks stale.                                                            *)
(***************************************************************************)
EXTENDS Network

CONSTANTS
  Networks,    \* the networks to look at: device, input shape and layers
  BatchCount,  \* batches of an epoch
  Storages     \* storages of a loader's pool

ASSUME CountsAssumption == {BatchCount, Storages} \subseteq Nat \ {0}

\* What Sequential can be given: batches of some images, layers of the kinds there
\* are with the options they verify, and images where a layer reads the height and the
\* width of its input (Shape::operator[] throws for a dimension that is not there).
\* Extents and options are numbers of type size_t.
Sizes == Below(SizeMod)
Kinds == {"conv", "linear", "maxpool", "flatten", "activation"}
LayerAssumed(layer, before) ==
  /\ layer.kind \in Kinds
  /\ layer.kind \in Parametric => layer.out \in Sizes /\ UsesBias(layer) \in BOOLEAN
  /\ layer.kind = "activation" => layer.type \in ActivationTypes
  /\ layer.kind \in {"conv", "maxpool"} =>
       /\ Len(before) = 4
       /\ \A a \in Axes :
            /\ {layer.o.padding[a], layer.o.dilation[a]} \subseteq Sizes
            /\ layer.o.stride[a] \in Sizes \ {0}
            /\ (IF layer.kind = "conv" THEN layer.kernel[a] ELSE layer.o.kernel[a]) \in Sizes
ASSUME NetworksAssumption ==
  \A n \in Networks :
    /\ n.device \in Backends
    /\ n.input \in Seq(Sizes) /\ n.input # <<>> /\ n.input[1] # 0
    /\ n.layers \in Seq({n.layers[i] : i \in DOMAIN n.layers})
    /\ \A i \in DOMAIN n.layers : LayerAssumed(n.layers[i], CurrentShape(n)[i - 1])

Loaders == {"train", "validation"}
Owners == {"Training", "Evaluation"}   \* each has a pool of its own for the loss

VARIABLES
  net,       \* the network
  layers,    \* what each layer remembers
  pool,      \* pool_ of the model
  lossPool,  \* loss_pool_ of each owner
  prepared,  \* whether the Training object is constructed
  storage,   \* storage[loader][s]: the inputs tensor of a batch storage
  left,      \* the batches left of each loader's epoch
  broken,    \* loaders whose worker has thrown
  driver,    \* the call in progress: fit, evaluate, run
  at,        \* where it is
  batch,     \* the storage in use: <<loader, s, valid_sample_count>>
  current,   \* Tensor *current: <<"batch">>, <<"pool", i>> or <<"loss", i>>
  last,      \* last_prediction_ of the loss
  call,      \* the latest operation, and whether it was the checked entry
  threw      \* why the latest call threw

model == <<layers, pool>>
loaders == <<storage, left, broken>>
vars == <<net, layers, pool, lossPool, prepared, storage, left, broken, driver, at, batch,
          current, last, call, threw>>

Stale == <<"stale">>
Garbage == <<"garbage">>
Idle == [op |-> "none"]
NoCall == [op |-> "none"]
Depth == Len(net.layers)
Owner == IF driver.op = "fit" /\ driver.phase = "train" THEN "Training" ELSE "Evaluation"
Loader == IF driver.op = "fit" /\ driver.phase = "train" THEN "train" ELSE "validation"

\* The tensor a pointer points to, and the same memory with another tensor on it.
Inputs == storage[batch[1]][batch[2]]
Pointed(p) ==
  CASE p[1] = "batch" -> Inputs
    [] p[1] = "pool" -> pool[p[2]]
    [] p[1] = "loss" -> lossPool[Owner][p[2]]
Plain(t) == Tensor(t.shape, t.dtype, t.device, t.layout)
Over(memory, t, mark) == [memory EXCEPT !.shape = t.shape, !.layout = t.layout, !.holds = mark]
Write(p, t, mark) ==
  /\ pool' = IF p[1] = "pool" THEN [pool EXCEPT ![p[2]] = Over(@, t, mark)] ELSE pool
  /\ storage' = IF p[1] = "batch"
                THEN [storage EXCEPT ![batch[1]][batch[2]] = Over(@, t, mark)] ELSE storage
  /\ lossPool' = IF p[1] = "loss" THEN [lossPool EXCEPT ![Owner][p[2]] = Over(@, t, mark)] ELSE lossPool

Asked(c, checked) == [op |-> c.op, t |-> c.t, o |-> c.o, data |-> c.data, checked |-> checked]

Throw(why) ==
  /\ driver' = Idle /\ at' = <<"idle">> /\ batch' = Never /\ current' = Never /\ threw' = why
Refused == Throw("refused")
\* reshape_inplace has thrown, in a layer or in the pool it shares.
Reshapes(after) == Throw("reshape") /\ layers' = after /\ UNCHANGED <<pool, call>>
Go(where, pointer) ==
  /\ at' = where /\ current' = pointer /\ UNCHANGED <<driver, batch, threw>>

-----------------------------------------------------------------------------
(* The cells an operation touches, whichever backend runs it: KernelLaunch
   shows the backends alike. *)

Writes(c) ==
  LET loops == CpuLoops(c, Unchecked(c)) IN
  UNION {UNION {Body(c, loops[i], j) : j \in Below(Iterations(c, loops[i]))} : i \in DOMAIN loops}
LOCAL Touched(c) ==
  UNION {{e.to} \cup UNION {{term[i] : i \in DOMAIN term} : term \in e.terms} : e \in Writes(c)}

\* A scatter goes where the indices point: into the input they were taken from.
InBounds(c) ==
  IF c.op = "backward_maxpool2d"
  THEN Elements(c, "indices") = Elements(c, "grad_output")
  ELSE \A x \in Touched(c) : x[1] \in DOMAIN c.t => x[2] \in Below(Elements(c, x[1]))

\* Whether every element of the output is written.
Fills(c, role) ==
  c.op = "backward_maxpool2d"
  \/ {<<role, a>> : a \in Below(Elements(c, role))} \subseteq {e.to : e \in Writes(c)}

\* The gradients of a layer's parameters: those of a bias, if it has one, as well.
GradientsFilled(c) == \A role \in {"grad_weights", "grad_bias"} \cap DOMAIN c.t : Fills(c, role)

-----------------------------------------------------------------------------
(* Sequential::forward: the layers in order. *)

\* A layer that writes a tensor of its own, from the pool.
ForwardToPool(i, layer, l, input, hit) ==
  LET result == Result(net, i, l, input)
      c == ForwardCall(net, i, l, input, result)
      to == Requested(pool, result)
  IN  /\ IF ~MayRequest(pool, result)
         THEN Reshapes([layers EXCEPT ![i] = l])
         ELSE /\ pool' = Request(pool, result, <<"forward", i>>)
              /\ call' = Asked(c, ~hit)
              /\ IF hit \/ Entry(c) # Threw
                 THEN /\ layers' = [layers EXCEPT ![i] =
                           Remember(layer, l, hit, input, current,
                                    IF layer.kind = "maxpool" THEN <<"forward", i>>
                                    ELSE Pointed(current).holds)]
                      /\ Go(<<"forward", i + 1>>, <<"pool", to>>)
                 ELSE layers' = [layers EXCEPT ![i] = l] /\ Refused
      /\ UNCHANGED <<storage, lossPool>>

ForwardActivation(i, layer, l, input, hit) ==
  LET c == ForwardCall(net, i, l, input, input) IN
  /\ call' = Asked(c, ~hit)
  /\ IF hit \/ Entry(c) # Threw
     THEN /\ Write(current, input, <<"forward", i>>)
          /\ layers' = [layers EXCEPT ![i] = Remember(layer, l, hit, input, current, <<"forward", i>>)]
          /\ Go(<<"forward", i + 1>>, current)
     ELSE Refused /\ UNCHANGED <<pool, storage, lossPool, layers>>

ForwardFlatten(i, layer, l, input) ==
  LET after == [layers EXCEPT ![i] = Remember(layer, l, FALSE, input, current, <<"forward", i>>)]
  IN  IF ~MayReshape(input, l.out)
      THEN Reshapes(after) /\ UNCHANGED <<storage, lossPool>>
      ELSE /\ Write(current, Result(net, i, l, input), Pointed(current).holds)
           /\ layers' = after
           /\ Go(<<"forward", i + 1>>, current)
           /\ UNCHANGED call

ForwardLayer ==
  /\ at[1] = "forward" /\ at[2] \in 1..Depth
  /\ LET i == at[2]   layer == net.layers[i]   input == Plain(Pointed(current))
         hit == Hit(layer, layers[i], input)
         l == Prepare(layer, layers[i], input)
     IN  CASE layer.kind \in Parametric \cup {"maxpool"} -> ForwardToPool(i, layer, l, input, hit)
           [] layer.kind = "activation" -> ForwardActivation(i, layer, l, input, hit)
           [] layer.kind = "flatten" -> ForwardFlatten(i, layer, l, input)
  /\ UNCHANGED <<net, prepared, left, broken, last>>

\* Sequential::backward: the layers in reverse.  A gradient counts as one of this pass
\* when it was made, whole, from the gradient of the layer above and from what
\* this layer's forward call left.
BackwardLayer ==
  /\ at[1] = "backward" /\ at[2] \in 1..Depth
  /\ LET i == at[2]   layer == net.layers[i]   l == layers[i]
         above == Pointed(current)
         grad_output == Plain(above)
         input == IF l.saved = Never THEN grad_output ELSE Plain(Pointed(l.saved))
         grad_input == GradInput(layer, l, input, grad_output)
         c == BackwardCall(net, i, l, input, grad_output, grad_input)
         intact == above.holds = <<"backward", i + 1>>
                   /\ l.read # Stale
                   /\ (layer.kind \in Parametric \cup {"activation"} => Pointed(l.saved).holds = l.read)
                   /\ (layer.kind = "maxpool" => l.indices = l.read)
         mark(fills) == IF intact /\ fills THEN <<"backward", i>> ELSE Garbage
         down == IF i = 1 THEN <<"step">> ELSE <<"backward", i - 1>>
         reshapes == IF layer.kind = "flatten" THEN MayReshape(grad_output, l.shape)
                     ELSE layer.kind # "activation" => MayRequest(pool, grad_input)
     IN  IF ~MayGoBack(layer, l) THEN Throw("not ready") /\ UNCHANGED <<call, layers, pool, storage, lossPool>>
         ELSE IF ~reshapes THEN Reshapes(layers) /\ UNCHANGED <<storage, lossPool>>
         ELSE IF layer.kind = "flatten"
         THEN Write(current, grad_input, mark(TRUE)) /\ Go(down, current) /\ UNCHANGED <<call, layers>>
         ELSE
           /\ call' = Asked(c, ~l.fast)
           /\ IF ~l.fast /\ Entry(c) = Threw
              THEN /\ Refused
                   /\ pool' = IF layer.kind = "activation" THEN pool ELSE Request(pool, grad_input, Stale)
                   /\ UNCHANGED <<layers, storage, lossPool>>
              ELSE IF layer.kind = "activation"
              THEN /\ Write(current, grad_output, mark(TRUE))
                   /\ Go(down, current) /\ UNCHANGED layers
              ELSE /\ pool' = Request(pool, grad_input, mark(Fills(c, "grad_input")))
                   /\ layers' = IF layer.kind \in Parametric
                                THEN [layers EXCEPT ![i].grad = mark(GradientsFilled(c))]
                                ELSE layers
                   /\ Go(down, <<"pool", Requested(pool, grad_input)>>)
                   /\ UNCHANGED <<storage, lossPool>>
  /\ UNCHANGED <<net, prepared, left, broken, last>>

-----------------------------------------------------------------------------
(* The loss and the optimizer.  The targets are a class number per image. *)

LossCall(op, roles) ==
  Operation(op, roles, [reduction |-> "Mean", valid |-> batch[3]],
            [target |-> [n \in Below(net.input[1]) |-> 0]])

\* What the tensor holds that layer i passes on: flatten leaves the values alone.
Left(i) ==
  LET makers == {j \in 1..i : net.layers[j].kind # "flatten"} IN
  IF makers = {} THEN <<"batch">> ELSE <<"forward", Max(makers)>>

Targets == Tensor(<<net.input[1]>>, "Int32", net.device, "Unknown")

LossForward ==
  /\ at = <<"forward", Depth + 1>> /\ driver.op # "run"
  /\ LET prediction == Plain(Pointed(current))
         result == Float(<<1>>, net.device, "Unknown")
     IN  IF ~MayRequest(lossPool[Owner], result)
         THEN Reshapes(layers) /\ UNCHANGED <<lossPool, last>>
         ELSE /\ lossPool' = [lossPool EXCEPT ![Owner] = Request(@, result, <<"loss">>)]
              /\ call' = Asked(LossCall("categorical_cross_entropy",
                           [prediction |-> prediction, target |-> Targets, result |-> result]), FALSE)
              /\ last' = current
              /\ Go(<<"metrics">>, current)
              /\ UNCHANGED model
  /\ UNCHANGED <<net, prepared, loaders>>

\* count_correct_predictions; an evaluation is done with the batch then.
Metrics ==
  /\ at = <<"metrics">>
  /\ LET prediction == Pointed(current) IN
     IF Rank(prediction) # 2 \/ prediction.shape[1] # net.input[1] \/ prediction.shape[2] = 0
     THEN Throw("metrics")
     ELSE IF Owner = "Training" THEN at' = <<"loss gradient">> /\ UNCHANGED <<driver, batch, current, threw>>
     ELSE /\ at' = <<"next">> /\ driver' = [driver EXCEPT !.seen = TRUE]
          /\ batch' = Never /\ current' = Never /\ UNCHANGED threw
  /\ UNCHANGED <<net, model, lossPool, prepared, loaders, last, call>>

LossBackward ==
  /\ at = <<"loss gradient">>
  /\ LET prediction == Plain(Pointed(last))
         c == LossCall("backward_categorical_cross_entropy",
                [prediction |-> prediction, target |-> Targets, grad_prediction |-> prediction])
         made == IF Pointed(last).holds = Left(Depth) /\ Fills(c, "grad_prediction")
                 THEN <<"backward", Depth + 1>> ELSE Garbage
     IN  IF ~MayRequest(lossPool[Owner], prediction)
         THEN Reshapes(layers) /\ UNCHANGED lossPool
         ELSE /\ lossPool' = [lossPool EXCEPT ![Owner] = Request(@, prediction, made)]
              /\ call' = Asked(c, FALSE)
              /\ Go(<<"backward", Depth>>, <<"loss", Requested(lossPool[Owner], prediction)>>)
              /\ UNCHANGED model
  /\ UNCHANGED <<net, prepared, loaders, last>>

\* optimizer_.step, and trainBatch returns.
Step ==
  /\ at = <<"step">>
  /\ at' = <<"next">> /\ driver' = [driver EXCEPT !.seen = TRUE]
  /\ batch' = Never /\ current' = Never
  /\ UNCHANGED <<net, model, lossPool, prepared, loaders, last, call, threw>>

\* The callback of Inference::run has seen the prediction.
Deliver ==
  /\ at = <<"forward", Depth + 1>> /\ driver.op = "run"
  /\ at' = <<"next">> /\ driver' = [driver EXCEPT !.seen = TRUE]
  /\ batch' = Never /\ current' = Never
  /\ UNCHANGED <<net, model, lossPool, prepared, loaders, last, call, threw>>

-----------------------------------------------------------------------------
(* The drivers *)

SetMode(mode) == [i \in 1..Depth |-> [layers[i] EXCEPT !.mode = mode]]
PrepareTraining ==
  [i \in 1..Depth |->
     [layers[i] EXCEPT !.mode = "Training",
        !.grad = IF net.layers[i].kind \in Parametric /\ @ = Never THEN Stale ELSE @]]
Begins(d) == /\ driver' = d /\ at' = <<"next">> /\ threw' = "nothing"
             /\ UNCHANGED <<batch, current>>

\* The constructor of Training: the optimizer refuses a model without parameters.
Construct ==
  /\ driver = Idle /\ ~prepared
  /\ layers' = PrepareTraining
  /\ IF \E i \in 1..Depth : net.layers[i].kind \in Parametric
     THEN prepared' = TRUE /\ threw' = "nothing"
     ELSE threw' = "no parameters" /\ UNCHANGED prepared
  /\ UNCHANGED <<net, pool, lossPool, loaders, driver, at, batch, current, last, call>>

Fit(epochs, validation) ==
  /\ driver = Idle /\ prepared
  /\ IF epochs = 0
     THEN Throw("no epochs") /\ UNCHANGED <<layers, lossPool>>
     ELSE /\ Begins([op |-> "fit", phase |-> "train", epoch |-> 1, epochs |-> epochs,
                     validation |-> validation, seen |-> FALSE])
          /\ layers' = IF validation THEN SetMode("Inference") ELSE layers
          /\ lossPool' = [lossPool EXCEPT !["Evaluation"] = <<>>]
  /\ UNCHANGED <<net, pool, prepared, loaders, last, call>>

Evaluate ==
  /\ driver = Idle
  /\ Begins([op |-> "evaluate", seen |-> FALSE])
  /\ layers' = SetMode("Inference")
  /\ lossPool' = [lossPool EXCEPT !["Evaluation"] = <<>>]
  /\ UNCHANGED <<net, pool, prepared, loaders, last, call>>

Run ==
  /\ driver = Idle
  /\ Begins([op |-> "run", seen |-> FALSE])
  /\ layers' = SetMode("Inference")
  /\ UNCHANGED <<net, pool, lossPool, prepared, loaders, last, call>>

\* The program starts an epoch of a loader itself.
ResetEpoch(loader) ==
  /\ driver = Idle /\ ~broken[loader]
  /\ left' = [left EXCEPT ![loader] = BatchCount]
  /\ UNCHANGED <<net, model, lossPool, prepared, storage, broken, driver, at, batch, current, last,
                 call, threw>>

\* loader.next(): on a GPU a transfer worker has copied a host batch, which has the
\* shape of the model's input, to the storage; if it threw, every later call throws.
NextBatch(s) ==
  /\ at = <<"next">> /\ left[Loader] > 0
  /\ LET memory == storage[Loader][s]
         host == Float(net.input, "CPU", "NCHW")
         copied == net.device = "CPU" \/ copy_async(net.device, Plain(memory), host) # Threw
     IN  IF broken[Loader] \/ ~copied
         THEN /\ Throw("loader")
              /\ broken' = [broken EXCEPT ![Loader] = TRUE]
              /\ UNCHANGED <<storage, left>>
         ELSE /\ storage' = [storage EXCEPT ![Loader][s].holds = <<"batch">>]
              /\ left' = [left EXCEPT ![Loader] = @ - 1]
              /\ batch' = <<Loader, s, IF left[Loader] = 1 THEN 1 ELSE net.input[1]>>
              /\ at' = <<"begin">>
              /\ UNCHANGED <<driver, current, threw, broken>>
  /\ UNCHANGED <<net, model, lossPool, prepared, last, call>>

\* The head of trainBatch, of the loop of evaluate and of Inference::forward: the mode,
\* the pools, and the checks of Sequential::forward.
Accepts(input) == input.shape = net.input /\ input.dtype = "Float32" /\ input.device = net.device
Aged(entries) == [i \in DOMAIN entries |-> [entries[i] EXCEPT !.holds = Stale]]
Forget(mark) == IF mark = Never THEN Never ELSE Stale
BeginPass ==
  /\ at = <<"begin">>
  /\ pool' = Reset(Aged(pool))
  /\ lossPool' = IF driver.op = "run" THEN lossPool
                 ELSE [lossPool EXCEPT ![Owner] = Reset(Aged(@))]
  /\ layers' = [i \in 1..Depth |->
       [layers[i] EXCEPT !.mode = IF Owner = "Training" THEN "Training" ELSE @,
          !.read = Forget(@), !.indices = Forget(@), !.grad = Forget(@)]]
  /\ IF Accepts(Inputs) THEN Go(<<"forward", 1>>, <<"batch">>)
     ELSE Throw("input shape")
  /\ UNCHANGED <<net, prepared, loaders, last, call>>

\* has_next() is false: the end of trainEpoch, of evaluate or of run.
EndEpoch ==
  /\ at = <<"next">> /\ left[Loader] = 0
  /\ IF ~driver.seen /\ driver.op # "run"
     THEN Throw("no batches") /\ UNCHANGED <<left, layers>>
     ELSE IF driver.op = "fit" /\ driver.phase = "train" /\ driver.validation
     THEN IF broken["validation"] THEN Throw("loader") /\ UNCHANGED <<left, layers>>
          ELSE /\ left' = [left EXCEPT !["validation"] = BatchCount]
               /\ layers' = SetMode("Inference")
               /\ driver' = [driver EXCEPT !.phase = "validate", !.seen = FALSE]
               /\ UNCHANGED <<at, batch, current, threw>>
     ELSE IF driver.op = "fit" /\ driver.epoch < driver.epochs
     THEN /\ left' = [left EXCEPT !["train"] = BatchCount]
          /\ driver' = [driver EXCEPT !.phase = "train", !.epoch = @ + 1, !.seen = FALSE]
          /\ UNCHANGED <<layers, at, batch, current, threw>>
     ELSE /\ driver' = Idle /\ at' = <<"idle">>
          /\ UNCHANGED <<left, layers, batch, current, threw>>
  /\ call' = NoCall
  /\ UNCHANGED <<net, pool, lossPool, prepared, storage, broken, last>>

-----------------------------------------------------------------------------
Init ==
  /\ net \in Networks
  /\ layers = [i \in 1..Len(net.layers) |-> NewLayer]
  /\ pool = <<>> /\ lossPool = [o \in Owners |-> <<>>] /\ prepared = FALSE
  /\ storage = [l \in Loaders |-> [s \in 1..Storages |->
       [shape |-> net.input, dtype |-> "Float32", device |-> net.device, layout |-> "NCHW",
        storage |-> "RowMajor", holds |-> Stale]]]
  /\ left = [l \in Loaders |-> BatchCount] /\ broken = [l \in Loaders |-> FALSE]
  /\ driver = Idle /\ at = <<"idle">> /\ batch = Never /\ current = Never /\ last = Never
  /\ call = NoCall /\ threw = "nothing"

Next ==
  \/ Construct
  \/ \E epochs \in 0..2, validation \in BOOLEAN : Fit(epochs, validation)
  \/ Evaluate \/ Run
  \/ \E loader \in Loaders : ResetEpoch(loader)
  \/ \E s \in 1..Storages : NextBatch(s)
  \/ BeginPass \/ ForwardLayer
  \/ LossForward \/ Metrics \/ LossBackward \/ BackwardLayer \/ Step
  \/ Deliver \/ EndEpoch

Spec == Init /\ [][Next]_vars

-----------------------------------------------------------------------------
(* Properties *)

Kind(i) == net.layers[i].kind
Requests == Cardinality({i \in 1..Depth : Kind(i) \notin InPlace})

\* Every pointer is to a tensor that exists, and every tensor is whole.
TypeOK ==
  /\ \A i \in DOMAIN pool : pool[i].device = net.device /\ Size(Numel(pool[i].shape)) = Numel(pool[i].shape)
  /\ \A i \in 1..Depth : layers[i].mode \in {"Training", "Inference"}
       /\ layers[i].saved \in {Never, <<"batch">>} \cup {<<"pool", p>> : p \in DOMAIN pool}
  /\ current \in {Never, <<"batch">>} \cup {<<"pool", p>> : p \in DOMAIN pool}
                 \cup UNION {{<<"loss", p>> : p \in DOMAIN lossPool[o]} : o \in Owners}
  /\ (batch # Never) = (at[1] \notin {"idle", "next"})
  /\ left \in [Loaders -> 0..BatchCount] /\ broken \in [Loaders -> BOOLEAN]

\* The networks whose kernels, dilated, lie within the padded images, and whose tensors
\* have numbers of elements that size_t holds.
Within(shape, kernel, dilation, padding) ==
  \A a \in Axes : LET padded == shape[2 + a] + 2 * padding[a] IN
    /\ kernel[a] > 0 /\ dilation[a] > 0
    /\ dilation[a] * (kernel[a] - 1) + 1 <= padded /\ padded < SizeMod
KernelsFit ==
  \A i \in 1..Depth : LET layer == net.layers[i]   before == CurrentShape(net)[i - 1] IN
    /\ layer.kind = "conv" => Within(before, layer.kernel, layer.o.dilation, layer.o.padding)
    /\ layer.kind = "maxpool" => Within(before, layer.o.kernel, <<1, 1>>, layer.o.padding)
NothingWraps ==
  /\ \A i \in 0..Depth : Volume(CurrentShape(net)[i]) < SizeMod
  /\ \A i \in 1..Depth : Kind(i) \in Parametric => Volume(Weights(net, i).shape) < SizeMod

\* A layer that has seen an input of this description once calls the unchecked entry of
\* its operation, forward and backward, also after the checked one had thrown: no
\* such call, and no loss, which is never checked, touches a cell outside its tensors,
\* as long as the kernels lie within the images, and these are not empty.
FastPathInBounds ==
  KernelsFit /\ NothingWraps /\ call # NoCall /\ ~call.checked => InBounds(call)

\* An activation overwrites the output that the activation before it keeps: there are at
\* most flatten layers between them, which pass the tensor on.
OutputOverwritten ==
  \E i, j \in 1..Depth : /\ i < j /\ Kind(i) = "activation" /\ Kind(j) = "activation"
                         /\ \A k \in (i + 1)..(j - 1) : Kind(k) = "flatten"
\* Linear layers and Softmax are given matrices.
Matrices ==
  \A i \in 1..Depth :
    Kind(i) = "linear" \/ (Kind(i) = "activation" /\ net.layers[i].type = "Softmax") =>
      Len(CurrentShape(net)[i - 1]) = 2
\* When the optimizer steps, every gradient is of this batch: made in this pass, whole, from
\* tensors that still held what the forward pass had left in them, though the layers
\* share a pool that hands out memory again, the activations overwrite their inputs, and
\* calls have thrown half-way before.  It takes that no activation overwrites another's
\* output, and matrices where the operations demand them.
GradientsOfThisBatch ==
  at = <<"step">> /\ Matrices /\ ~OutputOverwritten =>
    \A i \in 1..Depth : Kind(i) \in Parametric => layers[i].grad = <<"backward", i>>

\* Training, evaluation and inference in any order, with calls that throw half-way,
\* need no more tensors than one training pass asks for: reset gives all of them back.
PoolBounded ==
  Len(pool) <= 2 * Requests /\ \A o \in Owners : Len(lossPool[o]) <= 2

\* The networks that the layers support: kernels of some size, dilated, lie within the
\* padded images; Softmax is of matrices; a flatten layer comes right after a pooling one,
\* and never first; the numbers of bytes, as size_t counts the elements, do not wrap.
Supported(i, layer, before) ==
  CASE layer.kind = "conv" -> Within(before, layer.kernel, layer.o.dilation, layer.o.padding)
    [] layer.kind = "maxpool" -> Within(before, layer.o.kernel, <<1, 1>>, layer.o.padding)
    [] layer.kind = "linear" -> Len(before) = 2
    [] layer.kind = "flatten" -> /\ i > 1 /\ Kind(i - 1) \in {"maxpool", "flatten"}
                                 /\ Numel(before) % before[1] = 0
    [] layer.kind = "activation" -> SoftmaxShape([shape |-> before], layer.type)
WellFormed ==
  LET shape == CurrentShape(net) IN
  /\ \E i \in 1..Depth : Kind(i) \in Parametric
  /\ Len(shape[Depth]) = 2 /\ shape[Depth][2] # 0
  /\ \A i \in 0..Depth : Numel(shape[i]) * DTypeSize("Float32") < SizeMod
  /\ \A i \in 1..Depth : Supported(i, net.layers[i], shape[i - 1])

\* Such a network trains, evaluates and infers in any order without an exception but
\* those of the drivers for want of batches or epochs.
WellFormedNeverThrows == WellFormed => threw \in {"nothing", "no batches", "no epochs"}
=============================================================================
