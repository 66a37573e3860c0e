--------------------------- MODULE MCKernelLaunch --------------------------
(* The calls TLC looks at: every kernel on both backends, over small shapes. *)
EXTENDS KernelLaunch

Float(shape, device) == Tensor(shape, "Float32", device, "NCHW")
Whole(shape, device) == Tensor(shape, "Int32", device, "NCHW")
MCCall(op, t, o, data) == [op |-> op, t |-> t, o |-> o, data |-> data]
Bias(name, b, device) == IF b = 0 THEN Nothing ELSE name :> Float(<<b>>, device)

Window2(stride, padding, dilation) ==
  [stride |-> stride, padding |-> padding, dilation |-> dilation, use_bias |-> TRUE]

\* Extents of the output of a convolution, as a caller works them out; a caller
\* that gets it wrong is off by one row.
ConvShape(i, k, o, more) ==
  LET extent(a) ==
        IF o.stride[a] = 0 \/ o.dilation[a] = 0 THEN 1
        ELSE OutputSize(i[2 + a], EffectiveKernel(k[2 + a], o.dilation[a]), o.padding[a], o.stride[a])
  IN  <<i[1], k[1], Size(extent(1) + more), extent(2)>>

MCConv2d(device, i, k, b, o, more) ==
  MCCall("conv2d",
         [input |-> Float(i, device), kernels |-> Float(k, device),
          result |-> Float(ConvShape(i, k, o, more), device)] @@ Bias("bias", b, device), o, Nothing)

MCBackwardConv2d(device, i, k, b, o, more) ==
  MCCall("backward_conv2d",
         [input |-> Float(i, device), weights |-> Float(k, device),
          grad_output |-> Float(ConvShape(i, k, o, more), device),
          grad_input |-> Float(i, device), grad_weights |-> Float(k, device)]
         @@ Bias("grad_bias", b, device), o, Nothing)

Convolutions(device, windows, images, biases) ==
  UNION {{MCConv2d(device, x[1], x[2], b, o, more), MCBackwardConv2d(device, x[1], x[2], b, o, more)} :
           <<x, b, o, more>> \in images \X biases \X windows \X {0, 1}}

\* Along one axis at a time every stride, padding and dilation; an image of no
\* elements, a kernel larger than the image.
Axis == {0, 1, 2} \X {0, 1} \X {0, 1, 2}
Windows == {Window2(<<x[1], 1>>, <<x[2], 0>>, <<x[3], 1>>) : x \in Axis}
           \cup {Window2(<<1, x[1]>>, <<0, x[2]>>, <<1, x[3]>>) : x \in Axis}
           \cup {Window2(<<2, 2>>, <<1, 1>>, <<2, 2>>)}
CpuConvolutions ==
  Convolutions("CPU", Windows,
    {<< <<2, 1, 4, 2>>, <<1, 1, 2, 1>> >>, << <<1, 2, 2, 3>>, <<2, 2, 1, 2>> >>,
     << <<1, 1, 1, 2>>, <<1, 1, 2, 3>> >>, << <<0, 1, 2, 2>>, <<1, 1, 1, 1>> >>}, {0, 1, 2})
CudaConvolutions ==
  Convolutions("CUDA",
    {Window2(<<1, 1>>, <<0, 0>>, <<1, 1>>), Window2(<<1, 1>>, <<1, 0>>, <<1, 1>>),
     Window2(<<2, 1>>, <<0, 0>>, <<1, 1>>), Window2(<<1, 2>>, <<0, 1>>, <<2, 1>>)},
    {<< <<1, 1, 3, 2>>, <<1, 1, 2, 1>> >>, << <<1, 1, 1, 3>>, <<2, 1, 1, 2>> >>,
     << <<0, 1, 2, 2>>, <<1, 1, 1, 1>> >>}, {0, 1})

-----------------------------------------------------------------------------
MCLinear(device, n, in, out, b, more) ==
  MCCall("linear",
         [input |-> Float(<<n, in>>, device), weights |-> Float(<<out, in + more>>, device),
          result |-> Float(<<n, out>>, device)] @@ Bias("bias", b, device), Nothing, Nothing)
MCBackwardLinear(device, n, in, out, b, more) ==
  MCCall("backward_linear",
         [input |-> Float(<<n, in>>, device), weights |-> Float(<<out, in>>, device),
          grad_output |-> Float(<<n, out>>, device), grad_input |-> Float(<<n, in + more>>, device),
          grad_weights |-> Float(<<out, in>>, device)] @@ Bias("grad_bias", b, device),
         Nothing, Nothing)
Linears(device, sizes, biases) ==
  UNION {{MCLinear(device, x[1], x[2], x[3], b, more), MCBackwardLinear(device, x[1], x[2], x[3], b, more)}
           : <<x, b, more>> \in sizes \X biases \X {0, 1}}
\* On the GPU: a part of a block, two blocks side by side, one above the other, and
\* a common dimension of more than one tile.
AllLinears ==
  Linears("CPU", {0, 1, 3} \X {0, 1, 2} \X {1, 3}, {0, 1, 3})
  \cup Linears("CUDA", {<<5, 1, 2>>, <<1, 3, 5>>, <<2, 5, 1>>, <<2, 0, 1>>}, {0, 1})
  \cup {MCLinear("CUDA", 2, 3, 3, 3, 0), MCBackwardLinear("CUDA", 3, 2, 3, 3, 0)}

-----------------------------------------------------------------------------
\* Values of an image: ties, increasing, decreasing, and nothing above minus infinity.
Data(n) == {[i \in Below(n) |-> 1], [i \in Below(n) |-> i + 1], [i \in Below(n) |-> n - i],
            [i \in Below(n) |-> 0]}
PoolShape(i, o, more) ==
  <<i[1], i[2], Size(OutputSize(i[3], o.kernel[1], o.padding[1], o.stride[1]) + more),
    OutputSize(i[4], o.kernel[2], o.padding[2], o.stride[2])>>

MCPool(op, device, i, o, more) ==
  MCCall(op, [input |-> Float(i, device), result |-> Float(PoolShape(i, o, more), device)], o, Nothing)
MCMaxPoolIndices(device, i, o, data, more) ==
  MCCall("maxpool2d_with_indices",
         [input |-> Float(i, device), result |-> Float(PoolShape(i, o, more), device),
          indices |-> Whole(PoolShape(i, o, more), device)], o, "input" :> data)
MCBackwardAvgPool(device, i, o, more) ==
  MCCall("backward_avgpool2d",
         [grad_output |-> Float(PoolShape(i, o, more), device), grad_input |-> Float(i, device)],
         o, Nothing)
\* The indices that the forward operation left, for the gradient of its input.
MCBackwardMaxPool(device, i, o, data) ==
  LET c == MCMaxPoolIndices(device, i, o, data, 0)
      d == PoolDims(c, "input", "result")
      index(x) == MaxIndex(c, d, x \div (d.OW * d.OH * d.C), (x \div (d.OW * d.OH)) % d.C,
                           (x \div d.OW) % d.OH, x % d.OW)
  IN  MCCall("backward_maxpool2d",
             [indices |-> c.t["indices"], grad_output |-> c.t["result"],
              grad_input |-> c.t["input"]], o,
             "indices" :> [x \in Below(Elements(c, "result")) |-> index(x)])

PoolWindow(kernel, stride, padding) == [kernel |-> kernel, stride |-> stride, padding |-> padding]
Pools(device, images, windows) ==
  UNION {LET size == Numel(i) IN
         {MCPool(op, device, i, o, more) : op \in {"maxpool2d", "avgpool2d"}, more \in {0, 1}}
         \cup {MCBackwardAvgPool(device, i, o, more) : more \in {0, 1}}
         \cup {MCMaxPoolIndices(device, i, o, data, 0) : data \in Data(size)}
         \cup {MCBackwardMaxPool(device, i, o, data) : data \in Data(size)} :
           <<i, o>> \in images \X windows}
\* Windows that overlap, that leave a gap, and that lie in the padding alone.
AllPools ==
  Pools("CPU", {<<1, 2, 3, 2>>, <<2, 1, 2, 2>>},
        {PoolWindow(<<2, 2>>, <<1, 1>>, <<0, 0>>), PoolWindow(<<1, 1>>, <<2, 2>>, <<0, 0>>),
         PoolWindow(<<2, 1>>, <<1, 1>>, <<1, 0>>), PoolWindow(<<1, 1>>, <<1, 1>>, <<1, 1>>)})
  \cup Pools("CUDA", {<<1, 1, 3, 2>>, <<2, 1, 2, 1>>},
             {PoolWindow(<<2, 1>>, <<1, 1>>, <<0, 0>>), PoolWindow(<<1, 1>>, <<2, 1>>, <<1, 0>>)})

-----------------------------------------------------------------------------
MCActivations(device, shapes) ==
  UNION {{MCCall("activation", [tensor |-> Float(s, device)], [type |-> type], Nothing),
          MCCall("backward_activation",
                 [activation_output |-> Float(s, device), grad |-> Float(s, device)],
                 [type |-> type], Nothing)} :
           <<s, type>> \in shapes \X {"ReLU", "Softmax"}}

LossOps(device) ==
  {"binary_cross_entropy", "backward_binary_cross_entropy", "backward_mse_loss",
   "categorical_cross_entropy", "backward_categorical_cross_entropy"}
  \cup (IF device = "CPU" THEN {} ELSE {"mse_loss"})
Forward == {"mse_loss", "binary_cross_entropy", "categorical_cross_entropy"}
Categorical == {"categorical_cross_entropy", "backward_categorical_cross_entropy"}
\* Class numbers for a categorical loss, a probability per prediction for the others;
\* the others refuse the class numbers that a loader delivers.
MCTargets(op, device) ==
  {Whole(<<2>>, device)} \cup (IF op \in Categorical THEN {} ELSE {Float(<<2, 2>>, device)})
\* Class 2 is out of range; valid runs from none of the rows to one too many.
MCLosses(device) ==
  UNION {{MCCall(op,
     [prediction |-> Float(<<2, 2>>, device), target |-> target]
     @@ (IF op \in Forward THEN "result" :> Float(<<1>>, device)
         ELSE "grad_prediction" :> Float(<<2, 2>>, device)),
     [reduction |-> "Mean", valid |-> valid],
     IF op \in Categorical THEN "target" :> classes ELSE Nothing)
       : target \in MCTargets(op, device), valid \in 0..3, classes \in [{0, 1} -> {0, 1, 2}]}
       : op \in LossOps(device)}

Hyper == [learning_rate |-> 1, epsilon |-> 1, beta1 |-> 90, beta2 |-> 99,
          beta1_power |-> 90, beta2_power |-> 99]
MCUpdates(device) ==
  UNION {{MCCall("sgd_update", [value |-> Float(<<n>>, device), grad |-> Float(<<m>>, device)],
                 Nothing, Nothing),
          MCCall("adam_update",
                 [value |-> Float(<<n>>, device), grad |-> Float(<<m>>, device),
                  first_moment |-> Float(<<n>>, device), second_moment |-> Float(<<m>>, device)],
                 Hyper, Nothing)} : n, m \in {1, 5}}

Devices == {"CPU", "CUDA", "ROCM"}
MCCalls ==
  CpuConvolutions \cup CudaConvolutions \cup AllLinears \cup AllPools
  \cup MCActivations("CPU", {<<1, 2>>, <<3, 2>>, <<0, 2>>, <<4>>})
  \cup MCActivations("CUDA", {<<1, 3>>, <<2, 1>>, <<1, 5>>})
  \cup UNION {MCLosses(device) \cup MCUpdates(device) : device \in Devices}
=============================================================================
