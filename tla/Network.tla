------------------------------ MODULE Network ------------------------------
(***************************************************************************)
(* The layers of src/src/cnn/layers and how Sequential builds a network of *)
(* them.  A description layer gives a layer's kind and options; l is what  *)
(* the layer object remembers between calls.                               *)
(*                                                                         *)
(* A call c is a record as in Kernels; the layer that makes it chooses the *)
(* checked entry of the operation, or the unchecked one when the input     *)
(* looks as the one it last prepared for.                                  *)
(***************************************************************************)
EXTENDS Ops, Kernels

Parametric == {"conv", "linear"}   \* the kinds with weights, gradients, and a bias or none

Float(shape, device, layout) == Tensor(shape, "Float32", device, layout)
Operation(op, t, o, data) == [op |-> op, t |-> t, o |-> o, data |-> data]
LOCAL Unused == [x \in {} |-> 0]

-----------------------------------------------------------------------------
(* Shapes *)

\* Mutant: the height is that of the kernel's width, the width that of its height.
Conv2dOutputShapeTransposed(layer, shape) ==
  LET extent(a) == OutputSize(shape[2 + a], EffectiveKernel(layer.kernel[3 - a], layer.o.dilation[a]),
                              layer.o.padding[a], layer.o.stride[a])
  IN  <<shape[1], layer.out, extent(1), extent(2)>>

Conv2dOutputShape(layer, shape) ==
  LET extent(a) == OutputSize(shape[2 + a], EffectiveKernel(layer.kernel[a], layer.o.dilation[a]),
                              layer.o.padding[a], layer.o.stride[a])
  IN  <<shape[1], layer.out, extent(1), extent(2)>>

MaxPoolOutputShape(layer, shape) ==
  LET extent(a) == OutputSize(shape[2 + a], layer.o.kernel[a], layer.o.padding[a], layer.o.stride[a])
  IN  <<shape[1], shape[2], extent(1), extent(2)>>
FlattenOutputShape(shape) == <<shape[1], Numel(shape) \div shape[1]>>
LinearOutputShape(layer, shape) == <<shape[1], layer.out>>

OutputShape(layer, shape) ==
  CASE layer.kind = "conv" -> Conv2dOutputShape(layer, shape)
    [] layer.kind = "maxpool" -> MaxPoolOutputShape(layer, shape)
    [] layer.kind = "flatten" -> FlattenOutputShape(shape)
    [] layer.kind = "linear" -> LinearOutputShape(layer, shape)
    [] layer.kind = "activation" -> shape

\* current_shape_ after each addLayer; CurrentShape(net)[0] is the input's.
CurrentShape(net) ==
  LET after[i \in 0..Len(net.layers)] ==
        IF i = 0 THEN net.input ELSE OutputShape(net.layers[i], after[i - 1])
  IN  after

\* The channels or features a layer was built for are current_shape_[1] then.
Weights(net, i) ==
  LET layer == net.layers[i]   before == CurrentShape(net)[i - 1]
  IN  IF layer.kind = "conv"
      THEN Float(<<layer.out, before[2], layer.kernel[1], layer.kernel[2]>>, net.device, "NCHW")
      ELSE Float(<<layer.out, before[2]>>, net.device, "Unknown")
Bias(net, i) == Float(<<net.layers[i].out>>, net.device, "Unknown")

\* A layer built without a bias passes a null pointer for it and for its gradient.
UsesBias(layer) == IF layer.kind = "conv" THEN layer.o.use_bias ELSE layer.use_bias
WithBias(layer, role, bias, t) ==
  IF UsesBias(layer) THEN [r \in DOMAIN t \cup {role} |-> IF r = role THEN bias ELSE t[r]] ELSE t

-----------------------------------------------------------------------------
(* The state of a layer *)

Never == <<>>     \* a pointer that is null, a tensor never written
NewLayer ==
  [mode |-> "Inference", key |-> NoKey, out |-> Never, fast |-> FALSE, saved |-> Never,
   shape |-> Never, cachedMode |-> "Inference", indices |-> Never, indexed |-> Never,
   grad |-> Never, read |-> Never]

Hit(layer, l, input) ==
  KeyMatches(l.key, input) /\ (layer.kind = "maxpool" => l.cachedMode = l.mode)

\* prepare_cache: the key is captured before the operation sees the input.  An
\* activation captures it after the operation has accepted it.
Prepare(layer, l, input) ==
  IF layer.kind = "activation" \/ KeyMatches(l.key, input) THEN l
  ELSE [l EXCEPT !.out = OutputShape(layer, input.shape), !.key = Capture(input)]

\* The tensor a layer requests for its output.  Flatten and the activations
\* write their input.
InPlace == {"flatten", "activation"}
Result(net, i, l, input) ==
  CASE net.layers[i].kind \in {"conv", "maxpool"} -> Float(l.out, net.device, "NCHW")
    [] net.layers[i].kind = "linear" -> Float(l.out, net.device, "Unknown")
    [] net.layers[i].kind = "flatten" -> SetLayout(Reshape(input, l.out), "Unknown")
    [] net.layers[i].kind = "activation" -> input

ForwardCall(net, i, l, input, result) ==
  LET layer == net.layers[i]
      indices == Tensor(result.shape, "Int32", net.device, "NCHW")
  IN  CASE layer.kind = "conv" ->
             Operation("conv2d",
               WithBias(layer, "bias", Bias(net, i),
                 [input |-> input, kernels |-> Weights(net, i), result |-> result]), layer.o, Unused)
        [] layer.kind = "linear" ->
             Operation("linear",
               WithBias(layer, "bias", Bias(net, i),
                 [input |-> input, weights |-> Weights(net, i), result |-> result]), Unused, Unused)
        [] layer.kind = "maxpool" /\ l.mode = "Training" ->
             Operation("maxpool2d_with_indices",
               [input |-> input, result |-> result, indices |-> indices], layer.o,
               [input |-> [a \in Below(Numel(input.shape)) |-> 1]])
        [] layer.kind = "maxpool" /\ l.mode # "Training" ->
             Operation("maxpool2d", [input |-> input, result |-> result], layer.o, Unused)
        [] layer.kind = "activation" ->
             Operation("activation", [tensor |-> input], [type |-> layer.type], Unused)

\* What the layer remembers of a forward call that went well; "left" is what the
\* tensor it points to then holds.
Remember(layer, l, hit, input, at, left) ==
  LET seen == [l EXCEPT !.fast = hit, !.saved = at, !.read = left] IN
  CASE layer.kind \in Parametric -> seen
    [] layer.kind = "activation" -> [seen EXCEPT !.key = Capture(input)]
    [] layer.kind = "flatten" -> [l EXCEPT !.shape = l.key.shape, !.read = left]
    [] layer.kind = "maxpool" ->
         [l EXCEPT !.fast = hit, !.cachedMode = l.mode, !.shape = l.key.shape, !.read = left,
                   !.indices = IF l.mode = "Training" THEN left ELSE @,
                   !.indexed = IF l.mode = "Training" THEN l.key.shape ELSE @]

\* Whether backward has what it needs; otherwise it throws.
MayGoBack(layer, l) ==
  CASE layer.kind = "conv" -> l.saved # Never /\ l.mode = "Training" /\ l.grad # Never
    [] layer.kind \in {"linear", "activation"} -> l.saved # Never
    [] layer.kind = "maxpool" -> l.shape # Never /\ l.mode = "Training" /\ l.indices # Never
    [] layer.kind = "flatten" -> l.shape # Never

\* Mutant: a flatten layer leaves the gradient flat.
GradInputFlat(layer, l, input, grad_output) ==
  IF layer.kind = "maxpool" THEN Float(l.shape, grad_output.device, "NCHW")
  ELSE IF layer.kind \in Parametric THEN Float(input.shape, grad_output.device, "NCHW")
  ELSE grad_output

\* The tensor it requests for the gradient of its input, or the one it passes on.
GradInput(layer, l, input, grad_output) ==
  CASE layer.kind = "conv" -> Float(input.shape, grad_output.device, "NCHW")
    [] layer.kind = "linear" -> Float(input.shape, grad_output.device, grad_output.layout)
    [] layer.kind = "maxpool" -> Float(l.shape, grad_output.device, "NCHW")
    [] layer.kind = "flatten" -> Reshape(grad_output, l.shape)
    [] layer.kind = "activation" -> grad_output

BackwardCall(net, i, l, input, grad_output, grad_input) ==
  LET layer == net.layers[i]
      gradients == WithBias(layer, "grad_bias", Bias(net, i),
                     [input |-> input, weights |-> Weights(net, i), grad_output |-> grad_output,
                      grad_input |-> grad_input, grad_weights |-> Weights(net, i)])
  IN  CASE layer.kind = "conv" -> Operation("backward_conv2d", gradients, layer.o, Unused)
        [] layer.kind = "linear" -> Operation("backward_linear", gradients, Unused, Unused)
        [] layer.kind = "maxpool" ->
             Operation("backward_maxpool2d",
               [indices |-> Tensor(OutputShape(layer, l.indexed), "Int32", net.device, "NCHW"),
                grad_output |-> grad_output, grad_input |-> grad_input], layer.o, Unused)
        [] layer.kind = "activation" ->
             Operation("backward_activation",
               [activation_output |-> input, grad |-> grad_output], [type |-> layer.type], Unused)
=============================================================================
