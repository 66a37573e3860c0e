-------------------------------- MODULE Ops --------------------------------
(***************************************************************************)
(* The operations of src/src/ops.  Each has two entries: X validates its   *)
(* arguments and calls X_unchecked, which picks the kernel of the device   *)
(* its first tensor is on.  Their value here is the kernel they start, or  *)
(* Threw.  A layer calls X_unchecked directly once it has prepared for an  *)
(* input of the same description.                                          *)
(*                                                                         *)
(* Options are records of pairs <<h, w>>; bias and grad_bias are sets of   *)
(* at most one tensor.  A float hyperparameter is counted in hundredths.   *)
(***************************************************************************)
EXTENDS Tensors

OneDevice(tensors) == \A t, u \in tensors : t.device = u.device
AllFloat(tensors) == \A t \in tensors : t.dtype = "Float32" /\ t.storage = "RowMajor"
AllRank(rank, tensors) == \A t \in tensors : Rank(t) = rank
AllNCHW(tensors) == \A t \in tensors : t.layout = "NCHW"

\* What every validation but the losses' asks of all its tensors.
Uniform(tensors) == OneDevice(tensors) /\ AllFloat(tensors)

\* Both axes of an image tensor <<n, c, h, w>>: axis a has extent shape[2 + a].
Axes == {1, 2}
NonZero(pair) == \A a \in Axes : pair[a] # 0
Fits(shape, kernel, padding) ==
  \A a \in Axes : kernel[a] <= Size(shape[2 + a] + 2 * padding[a])
Outputs(shape, channels, kernel, padding, stride) ==
  <<shape[1], channels, OutputSize(shape[3], kernel[1], padding[1], stride[1]),
    OutputSize(shape[4], kernel[2], padding[2], stride[2])>>

Launch(device, kernel) == IF On(device) = Threw THEN Threw ELSE kernel
Checked(valid, unchecked) == IF valid THEN unchecked ELSE Threw

-----------------------------------------------------------------------------
(* conv2d *)

EffectiveKernels(kernels, options) ==
  [a \in Axes |-> EffectiveKernel(kernels.shape[2 + a], options.dilation[a])]

validate_conv2d_inputs(input, kernels, bias, result, options) ==
  LET effective == EffectiveKernels(kernels, options) IN
  /\ NonZero(options.stride) /\ NonZero(options.dilation)
  /\ Uniform({input, kernels, result} \cup bias)
  /\ AllRank(4, {input, kernels, result}) /\ AllRank(1, bias)
  /\ input.shape[2] = kernels.shape[2]
  /\ \A b \in bias : b.shape[1] = kernels.shape[1]
  /\ Fits(input.shape, effective, options.padding)
  /\ result.shape = Outputs(input.shape, kernels.shape[1], effective,
                            options.padding, options.stride)

is_valid_conv2d(o) == o.stride = <<1, 1>> /\ o.padding = <<0, 0>> /\ o.dilation = <<1, 1>>

\* Mutant: the dilation is not looked at.
is_padded_conv2d_any_dilation(o) == o.stride = <<1, 1>> /\ (\E a \in Axes : o.padding[a] > 0)

is_padded_conv2d(o) ==
  o.stride = <<1, 1>> /\ (\E a \in Axes : o.padding[a] > 0) /\ o.dilation = <<1, 1>>

is_strided_conv2d(o) ==
  (\E a \in Axes : o.stride[a] > 1) /\ o.padding = <<0, 0>> /\ o.dilation = <<1, 1>>

conv2d_float32(o) ==
  CASE is_valid_conv2d(o) -> "conv2d_valid"
    [] is_padded_conv2d(o) -> "conv2d_padded"
    [] is_strided_conv2d(o) -> "conv2d_strided"
    [] OTHER -> "conv2d_general"

conv2d_unchecked(input, options) == Launch(input.device, conv2d_float32(options))

conv2d(input, kernels, bias, result, options) ==
  Checked(validate_conv2d_inputs(input, kernels, bias, result, options),
          conv2d_unchecked(input, options))

\* conv2d_output_size of the backward validation: it does not ask whether the
\* kernel fits, so the difference may wrap.
conv2d_output_size(input, weights, options) ==
  Outputs(input.shape, weights.shape[1], EffectiveKernels(weights, options),
          options.padding, options.stride)

validate_backward_conv2d_inputs(input, weights, grad_output, grad_input, grad_weights, grad_bias, options) ==
  LET images == {input, weights, grad_output, grad_input, grad_weights} IN
  /\ NonZero(options.stride) /\ NonZero(options.dilation)
  /\ Uniform(images \cup grad_bias)
  /\ AllRank(4, images) /\ AllNCHW(images)
  /\ input.shape[2] = weights.shape[2]
  /\ grad_input.shape = input.shape /\ grad_weights.shape = weights.shape
  /\ grad_output.shape = conv2d_output_size(input, weights, options)
  /\ \A b \in grad_bias : Rank(b) = 1 /\ b.shape[1] = weights.shape[1]

backward_conv2d_unchecked(input) == Launch(input.device, "backward_conv2d")

backward_conv2d(input, weights, grad_output, grad_input, grad_weights, grad_bias, options) ==
  Checked(validate_backward_conv2d_inputs(input, weights, grad_output, grad_input,
                                          grad_weights, grad_bias, options),
          backward_conv2d_unchecked(input))

-----------------------------------------------------------------------------
(* linear *)

\* Mutant: the length of the bias is not looked at.
validate_linear_inputs_any_bias(input, weights, bias, result) ==
  /\ Uniform({input, weights, result} \cup bias)
  /\ AllRank(2, {input, weights, result}) /\ AllRank(1, bias)
  /\ input.shape[2] = weights.shape[2]
  /\ result.shape = <<input.shape[1], weights.shape[1]>>

validate_linear_inputs(input, weights, bias, result) ==
  /\ Uniform({input, weights, result} \cup bias)
  /\ AllRank(2, {input, weights, result}) /\ AllRank(1, bias)
  /\ input.shape[2] = weights.shape[2]
  /\ result.shape = <<input.shape[1], weights.shape[1]>>
  /\ \A b \in bias : b.shape[1] = weights.shape[1]

linear_unchecked(input) == Launch(input.device, "linear")

linear(input, weights, bias, result) ==
  Checked(validate_linear_inputs(input, weights, bias, result), linear_unchecked(input))

validate_backward_linear_inputs(input, weights, grad_output, grad_input, grad_weights, grad_bias) ==
  LET matrices == {input, weights, grad_output, grad_input, grad_weights} IN
  /\ Uniform(matrices \cup grad_bias)
  /\ AllRank(2, matrices)
  /\ weights.shape[2] = input.shape[2]
  /\ grad_output.shape = <<input.shape[1], weights.shape[1]>>
  /\ grad_input.shape = input.shape /\ grad_weights.shape = weights.shape
  /\ \A b \in grad_bias : Rank(b) = 1 /\ b.shape[1] = weights.shape[1]

backward_linear_unchecked(input) == Launch(input.device, "backward_linear")

backward_linear(input, weights, grad_output, grad_input, grad_weights, grad_bias) ==
  Checked(validate_backward_linear_inputs(input, weights, grad_output, grad_input,
                                          grad_weights, grad_bias),
          backward_linear_unchecked(input))

-----------------------------------------------------------------------------
(* activation, in place *)

ActivationTypes == {"ReLU", "Sigmoid", "Tanh", "Softmax"}

SoftmaxShape(t, type) ==
  type = "Softmax" => Rank(t) = 2 /\ t.shape[2] # 0

validate_activation_tensor(t, type) == AllFloat({t}) /\ SoftmaxShape(t, type)

activation_unchecked(t, type) == Launch(t.device, type)

activation(t, type) == Checked(validate_activation_tensor(t, type), activation_unchecked(t, type))

BackwardKernel ==
  [ReLU |-> "backward_ReLU", Sigmoid |-> "backward_Sigmoid", Tanh |-> "backward_Tanh",
   Softmax |-> "backward_Softmax"]

validate_backward_activation_inputs(activation_output, grad, type) ==
  /\ Uniform({activation_output, grad})
  /\ activation_output.shape = grad.shape
  /\ SoftmaxShape(activation_output, type)

backward_activation_unchecked(activation_output, type) ==
  Launch(activation_output.device, BackwardKernel[type])

backward_activation(activation_output, grad, type) ==
  Checked(validate_backward_activation_inputs(activation_output, grad, type),
          backward_activation_unchecked(activation_output, type))

-----------------------------------------------------------------------------
(* pooling *)

PoolFits(input, result, options) ==
  /\ Fits(input.shape, options.kernel, options.padding)
  /\ result.shape = Outputs(input.shape, input.shape[2], options.kernel,
                            options.padding, options.stride)

validate_maxpool2d_inputs(input, result, options) ==
  /\ NonZero(options.kernel) /\ NonZero(options.stride)
  /\ Uniform({input, result})
  /\ AllRank(4, {input, result}) /\ AllNCHW({input, result})
  /\ PoolFits(input, result, options)

maxpool2d_unchecked(input) == Launch(input.device, "maxpool2d")
maxpool2d(input, result, options) ==
  Checked(validate_maxpool2d_inputs(input, result, options), maxpool2d_unchecked(input))

validate_maxpool2d_with_indices_inputs(input, result, indices, options) ==
  /\ NonZero(options.kernel) /\ NonZero(options.stride)
  /\ Uniform({input, result}) /\ OneDevice({input, indices})
  /\ indices.dtype = "Int32" /\ indices.storage = "RowMajor"
  /\ AllRank(4, {input, result, indices}) /\ AllNCHW({input, result, indices})
  /\ PoolFits(input, result, options)
  /\ indices.shape = result.shape

maxpool2d_with_indices_unchecked(input) == Launch(input.device, "maxpool2d_with_indices")
maxpool2d_with_indices(input, result, indices, options) ==
  Checked(validate_maxpool2d_with_indices_inputs(input, result, indices, options),
          maxpool2d_with_indices_unchecked(input))

\* It sees neither the input of the forward operation nor its options: that the
\* indices lie in grad_input is the caller's word.
validate_backward_maxpool2d_inputs(indices, grad_output, grad_input) ==
  /\ Uniform({grad_output, grad_input}) /\ OneDevice({grad_output, indices})
  /\ indices.dtype = "Int32" /\ indices.storage = "RowMajor"
  /\ AllRank(4, {indices, grad_output, grad_input})
  /\ indices.shape = grad_output.shape
  /\ \A i \in {1, 2} : indices.shape[i] = grad_input.shape[i]

backward_maxpool2d_unchecked(grad_output) == Launch(grad_output.device, "backward_maxpool2d")
backward_maxpool2d(indices, grad_output, grad_input) ==
  Checked(validate_backward_maxpool2d_inputs(indices, grad_output, grad_input),
          backward_maxpool2d_unchecked(grad_output))

validate_avgpool2d_inputs(input, result, options) ==
  /\ NonZero(options.kernel) /\ NonZero(options.stride)
  /\ Uniform({input, result})
  /\ AllRank(4, {input, result}) /\ AllNCHW({input, result})
  /\ PoolFits(input, result, options)

avgpool2d_unchecked(input) == Launch(input.device, "avgpool2d")
avgpool2d(input, result, options) ==
  Checked(validate_avgpool2d_inputs(input, result, options), avgpool2d_unchecked(input))

validate_backward_avgpool2d_inputs(grad_output, grad_input, options) ==
  /\ NonZero(options.kernel) /\ NonZero(options.stride)
  /\ Uniform({grad_output, grad_input})
  /\ AllRank(4, {grad_output, grad_input}) /\ AllNCHW({grad_output, grad_input})
  /\ PoolFits(grad_input, grad_output, options)

backward_avgpool2d_unchecked(grad_output) == Launch(grad_output.device, "backward_avgpool2d")
backward_avgpool2d(grad_output, grad_input, options) ==
  Checked(validate_backward_avgpool2d_inputs(grad_output, grad_input, options),
          backward_avgpool2d_unchecked(grad_output))

-----------------------------------------------------------------------------
(* losses.  Only the first valid rows of a batch count: a loader pads the last
   one.  The entries without a count take them all. *)

Reductions == {"Mean", "Sum"}
Counted(valid, prediction) == valid \in 1..prediction.shape[1]

validate_mse_loss_inputs(prediction, target, result, reduction, valid) ==
  /\ Uniform({prediction, target, result})
  /\ prediction.shape = target.shape
  /\ Rank(prediction) # 0 /\ Numel(prediction.shape) # 0
  /\ Counted(valid, prediction)
  /\ result.shape = <<1>>
  /\ reduction \in Reductions

validate_backward_mse_loss_inputs(prediction, target, grad, reduction, valid) ==
  /\ Uniform({prediction, target, grad})
  /\ prediction.shape = target.shape /\ prediction.shape = grad.shape
  /\ Rank(prediction) # 0 /\ Numel(prediction.shape) # 0
  /\ Counted(valid, prediction)
  /\ reduction \in Reductions

mse_loss_unchecked(prediction) == Launch(prediction.device, "mse_loss")
mse_loss(prediction, target, result, reduction, valid) ==
  Checked(validate_mse_loss_inputs(prediction, target, result, reduction, valid),
          mse_loss_unchecked(prediction))

backward_mse_loss_unchecked(prediction) == Launch(prediction.device, "backward_mse_loss")
backward_mse_loss(prediction, target, grad, reduction, valid) ==
  Checked(validate_backward_mse_loss_inputs(prediction, target, grad, reduction, valid),
          backward_mse_loss_unchecked(prediction))

\* The same demands, in files of their own.
validate_binary_cross_entropy_inputs(prediction, target, result, reduction, valid) ==
  validate_mse_loss_inputs(prediction, target, result, reduction, valid)
validate_backward_binary_cross_entropy_inputs(prediction, target, grad, reduction, valid) ==
  validate_backward_mse_loss_inputs(prediction, target, grad, reduction, valid)

binary_cross_entropy_unchecked(prediction) ==
  Launch(prediction.device, "binary_cross_entropy")
binary_cross_entropy(prediction, target, result, reduction, valid) ==
  Checked(validate_binary_cross_entropy_inputs(prediction, target, result, reduction, valid),
          binary_cross_entropy_unchecked(prediction))

backward_binary_cross_entropy_unchecked(prediction) ==
  Launch(prediction.device, "backward_binary_cross_entropy")
backward_binary_cross_entropy(prediction, target, grad, reduction, valid) ==
  Checked(validate_backward_binary_cross_entropy_inputs(prediction, target, grad, reduction, valid),
          backward_binary_cross_entropy_unchecked(prediction))

\* A class number per row: that it is below prediction.shape[2] is left to the kernels.
Classified(prediction, target) ==
  /\ target.dtype = "Int32" /\ target.storage = "RowMajor"
  /\ OneDevice({prediction, target})
  /\ Rank(prediction) = 2 /\ prediction.shape[1] # 0 /\ prediction.shape[2] # 0
  /\ target.shape = <<prediction.shape[1]>>

validate_categorical_cross_entropy_inputs(prediction, target, result, reduction, valid) ==
  /\ Uniform({prediction, result}) /\ Classified(prediction, target)
  /\ Counted(valid, prediction)
  /\ result.shape = <<1>>
  /\ reduction \in Reductions

validate_backward_categorical_cross_entropy_inputs(prediction, target, grad, reduction, valid) ==
  /\ Uniform({prediction, grad}) /\ Classified(prediction, target)
  /\ grad.shape = prediction.shape
  /\ Counted(valid, prediction)
  /\ reduction \in Reductions

categorical_cross_entropy_unchecked(prediction) ==
  Launch(prediction.device, "categorical_cross_entropy")
categorical_cross_entropy(prediction, target, result, reduction, valid) ==
  Checked(validate_categorical_cross_entropy_inputs(prediction, target, result, reduction, valid),
          categorical_cross_entropy_unchecked(prediction))

backward_categorical_cross_entropy_unchecked(prediction) ==
  Launch(prediction.device, "backward_categorical_cross_entropy")
backward_categorical_cross_entropy(prediction, target, grad, reduction, valid) ==
  Checked(validate_backward_categorical_cross_entropy_inputs(prediction, target, grad,
                                                             reduction, valid),
          backward_categorical_cross_entropy_unchecked(prediction))

-----------------------------------------------------------------------------
(* optimizer updates *)

One == 100   \* 1.0f

validate_sgd_update_inputs(value, grad) ==
  Uniform({value, grad}) /\ value.shape = grad.shape

sgd_update_unchecked(value) == Launch(value.device, "sgd_update")
sgd_update(value, grad) ==
  Checked(validate_sgd_update_inputs(value, grad), sgd_update_unchecked(value))

\* h: learning_rate, beta1, beta2, epsilon, beta1_power, beta2_power.
validate_adam_update_inputs(value, grad, first_moment, second_moment, h) ==
  /\ Uniform({value, grad, first_moment, second_moment})
  /\ \A t \in {grad, first_moment, second_moment} : value.shape = t.shape
  /\ h.learning_rate > 0 /\ h.epsilon > 0
  /\ h.beta1 > 0 /\ h.beta1 < One /\ h.beta2 > 0 /\ h.beta2 < One
  /\ h.beta1_power \in 0..(One - 1) /\ h.beta2_power \in 0..(One - 1)

adam_update_unchecked(value) == Launch(value.device, "adam_update")
adam_update(value, grad, first_moment, second_moment, h) ==
  Checked(validate_adam_update_inputs(value, grad, first_moment, second_moment, h),
          adam_update_unchecked(value))

-----------------------------------------------------------------------------
(* Calls as records: c.op, the tensors c.t[role] and the options c.o. *)

Optional(c, role) == IF role \in DOMAIN c.t THEN {c.t[role]} ELSE {}

\* The kernel the checked entry of the operation starts, or Threw.
Entry(c) ==
  LET t == c.t   o == c.o IN
  CASE c.op = "conv2d" ->
         conv2d(t["input"], t["kernels"], Optional(c, "bias"), t["result"], o)
    [] c.op = "backward_conv2d" ->
         backward_conv2d(t["input"], t["weights"], t["grad_output"], t["grad_input"],
                         t["grad_weights"], Optional(c, "grad_bias"), o)
    [] c.op = "linear" -> linear(t["input"], t["weights"], Optional(c, "bias"), t["result"])
    [] c.op = "backward_linear" ->
         backward_linear(t["input"], t["weights"], t["grad_output"], t["grad_input"],
                         t["grad_weights"], Optional(c, "grad_bias"))
    [] c.op = "maxpool2d" -> maxpool2d(t["input"], t["result"], o)
    [] c.op = "maxpool2d_with_indices" ->
         maxpool2d_with_indices(t["input"], t["result"], t["indices"], o)
    [] c.op = "backward_maxpool2d" ->
         backward_maxpool2d(t["indices"], t["grad_output"], t["grad_input"])
    [] c.op = "avgpool2d" -> avgpool2d(t["input"], t["result"], o)
    [] c.op = "backward_avgpool2d" ->
         backward_avgpool2d(t["grad_output"], t["grad_input"], o)
    [] c.op = "activation" -> activation(t["tensor"], o.type)
    [] c.op = "backward_activation" ->
         backward_activation(t["activation_output"], t["grad"], o.type)
    [] c.op = "mse_loss" ->
         mse_loss(t["prediction"], t["target"], t["result"], o.reduction, o.valid)
    [] c.op = "backward_mse_loss" ->
         backward_mse_loss(t["prediction"], t["target"], t["grad_prediction"], o.reduction, o.valid)
    [] c.op = "binary_cross_entropy" ->
         binary_cross_entropy(t["prediction"], t["target"], t["result"], o.reduction, o.valid)
    [] c.op = "backward_binary_cross_entropy" ->
         backward_binary_cross_entropy(t["prediction"], t["target"], t["grad_prediction"],
                                       o.reduction, o.valid)
    [] c.op = "categorical_cross_entropy" ->
         categorical_cross_entropy(t["prediction"], t["target"], t["result"], o.reduction, o.valid)
    [] c.op = "backward_categorical_cross_entropy" ->
         backward_categorical_cross_entropy(t["prediction"], t["target"], t["grad_prediction"],
                                            o.reduction, o.valid)
    [] c.op = "sgd_update" -> sgd_update(t["value"], t["grad"])
    [] c.op = "adam_update" ->
         adam_update(t["value"], t["grad"], t["first_moment"], t["second_moment"], o)

\* The kernel its unchecked entry starts.
Unchecked(c) ==
  LET t == c.t   o == c.o IN
  CASE c.op = "conv2d" -> conv2d_unchecked(t["input"], o)
    [] c.op = "backward_conv2d" -> backward_conv2d_unchecked(t["input"])
    [] c.op = "linear" -> linear_unchecked(t["input"])
    [] c.op = "backward_linear" -> backward_linear_unchecked(t["input"])
    [] c.op = "maxpool2d" -> maxpool2d_unchecked(t["input"])
    [] c.op = "maxpool2d_with_indices" -> maxpool2d_with_indices_unchecked(t["input"])
    [] c.op = "backward_maxpool2d" -> backward_maxpool2d_unchecked(t["grad_output"])
    [] c.op = "activation" -> activation_unchecked(t["tensor"], o.type)
    [] c.op = "backward_activation" -> backward_activation_unchecked(t["activation_output"], o.type)
    [] c.op = "categorical_cross_entropy" -> categorical_cross_entropy_unchecked(t["prediction"])
    [] c.op = "backward_categorical_cross_entropy" ->
         backward_categorical_cross_entropy_unchecked(t["prediction"])
    [] c.op = "sgd_update" -> sgd_update_unchecked(t["value"])
    [] c.op = "adam_update" -> adam_update_unchecked(t["value"])
=============================================================================
