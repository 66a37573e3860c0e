------------------------- MODULE MCTrainingSession -------------------------
(* Networks of the shapes of the tests, and of the mistakes they avoid. *)
EXTENDS TrainingSession

Square(kernel, stride) ==
  [kernel |-> kernel, stride |-> stride, padding |-> <<0, 0>>, dilation |-> <<1, 1>>,
   use_bias |-> TRUE]
Dilated(kernel, dilation, padding) ==
  [Square(kernel, <<1, 1>>) EXCEPT !.dilation = dilation, !.padding = padding]
D(out, kernel, dilation, padding) ==
  [kind |-> "conv", out |-> out, kernel |-> kernel, o |-> Dilated(kernel, dilation, padding)]
C(out, kernel) == [kind |-> "conv", out |-> out, kernel |-> kernel, o |-> Square(kernel, <<1, 1>>)]
P(kernel) == [kind |-> "maxpool", o |-> Square(kernel, kernel)]
F == [kind |-> "flatten"]
L(out) == [kind |-> "linear", out |-> out, use_bias |-> TRUE]
Unbiased(layer) ==
  IF layer.kind = "conv" THEN [layer EXCEPT !.o.use_bias = FALSE] ELSE [layer EXCEPT !.use_bias = FALSE]
A(type) == [kind |-> "activation", type |-> type]

MCNetworks ==
  [device : {"CPU", "CUDA"}, input : {<<2, 1, 3, 2>>},
   layers : {<<C(2, <<2, 1>>), A("ReLU"), P(<<2, 1>>), F, L(2), A("Softmax")>>,
             <<Unbiased(C(2, <<2, 1>>)), C(1, <<1, 1>>), P(<<1, 2>>), F, L(2), A("ReLU"), Unbiased(L(2))>>,
             <<A("ReLU"), P(<<3, 1>>), F, L(2)>>,          \* its first layer writes the batch
             <<P(<<3, 1>>), F, L(2), A("Tanh"), A("Sigmoid")>>, \* two activations in a row
             <<P(<<3,1>>), F, L(2), A("Tanh"), F, A("Sigmoid")>>, \* and with flatten between them
             <<P(<<3,1>>), F, L(2), A("Tanh"), F>>,        \* flatten last
             <<D(2, <<2, 1>>, <<2, 1>>, <<0, 1>>), P(<<1, 2>>), F, L(2)>>,
             <<C(1, <<2, 1>>), D(1, <<2, 1>>, <<2, 1>>, <<0, 0>>), P(<<1, 2>>), F, L(2)>>, \* too far apart
             <<A("Softmax"), P(<<3, 1>>), F, L(2)>>,       \* Softmax of images
             <<P(<<3, 1>>), F, L(0)>>,                     \* no class
             <<C(1, <<2, 1>>), A("ReLU"), F, L(2)>>,       \* flatten after an activation
             <<C(1, <<2, 1>>), F, L(2)>>,                  \* flatten after a convolution
             <<F, L(2)>>,                                  \* flatten first
             <<C(1, <<2, 1>>), L(2)>>,                     \* no flatten
             <<C(1, <<4, 1>>), F, L(2)>>,                  \* a kernel larger than the image
             <<C(2, <<1, 1>>)>>,                           \* images for a prediction
             <<P(<<3, 2>>), F>>}]                          \* no parameters
=============================================================================
