------------------------------ MODULE Tensors ------------------------------
(***************************************************************************)
(* Tensors as the operations, layers and pools see them: shape, element    *)
(* type, device, layout and storage order (src/src/core).  What a tensor   *)
(* holds is left to the modules that use them.                             *)
(*                                                                         *)
(* A nullable Tensor * is a set of at most one tensor.                     *)
(***************************************************************************)
EXTENDS Integers, Sequences

CONSTANTS
  Backends,  \* the device types the build has: CPU, and CUDA or ROCM if enabled
  SizeMod    \* std::size_t wraps at this number, 2^64 in the program

ASSUME BackendsAssumption == "CPU" \in Backends /\ Backends \subseteq {"CPU", "CUDA", "ROCM"}
ASSUME SizeModAssumption == SizeMod \in Nat /\ SizeMod > 8   \* it holds the size of any type

Threw == "threw"     \* the outcome of a call that throws

Size(n) == n % SizeMod

DTypeSize(dtype) ==
  CASE dtype \in {"Float32", "Int32"} -> 4
    [] dtype = "Float64" -> 8
    [] dtype \in {"Float16", "BFloat16"} -> 2
    [] dtype \in {"Int8", "UInt8"} -> 1

\* Shape::numel: 1 for a scalar, otherwise the product, in size_t.
Numel(shape) ==
  LET product[i \in 0..Len(shape)] == IF i = 0 THEN 1 ELSE Size(product[i - 1] * shape[i])
  IN  product[Len(shape)]

\* The number it stands for, which a size_t need not hold.
Volume(shape) ==
  LET product[i \in 0..Len(shape)] == IF i = 0 THEN 1 ELSE product[i - 1] * shape[i]
  IN  product[Len(shape)]

Tensor(shape, dtype, device, layout) ==
  [shape |-> shape, dtype |-> dtype, device |-> device, layout |-> layout,
   storage |-> "RowMajor"]

Rank(t) == Len(t.shape)
Bytes(t) == Size(Numel(t.shape) * DTypeSize(t.dtype))

\* reshape_inplace throws unless the number of elements stays.
MayReshape(t, shape) == Numel(shape) = Numel(t.shape)
Reshape(t, shape) == [t EXCEPT !.shape = shape]
SetLayout(t, layout) == [t EXCEPT !.layout = layout]

\* The start of a window that overlaps (2 * padding + input) positions:
\* the extents that Conv2dLayer and the validations compute, in size_t.
EffectiveKernel(kernel, dilation) == Size(dilation * (kernel - 1) + 1)
OutputSize(input, kernel, padding, stride) ==
  Size((Size(input + 2 * padding - kernel) \div stride) + 1)

-----------------------------------------------------------------------------
(* copy, copy_to_host, TransferStream::copy_async and allocator_for.  They
   return the backend that does the work, or throw. *)

validate_copy(dst, src) ==
  Bytes(dst) = Bytes(src) /\ dst.dtype = src.dtype /\ dst.shape = src.shape

On(device) == IF device \in Backends THEN device ELSE Threw

copy(dst, src) ==
  IF ~validate_copy(dst, src) THEN Threw
  ELSE IF "CUDA" \in {dst.device, src.device} THEN On("CUDA")
  ELSE IF "ROCM" \in {dst.device, src.device} THEN On("ROCM")
  ELSE "CPU"

validate_copy_to_host(src, offset, nbytes) ==
  nbytes = 0 \/ (offset <= Bytes(src) /\ nbytes <= Bytes(src) - offset)

copy_to_host(src, offset, nbytes) ==
  IF validate_copy_to_host(src, offset, nbytes) THEN On(src.device) ELSE Threw

copy_async(stream, dst, src) ==
  IF ~validate_copy(dst, src) THEN Threw
  ELSE IF stream = "CPU" THEN copy(dst, src) ELSE On(stream)

allocator_for(device, memory) ==
  CASE memory = "CudaPinnedHost" -> IF device = "CPU" THEN On("CUDA") ELSE Threw
    [] memory = "RocmPinnedHost" -> IF device = "CPU" THEN On("ROCM") ELSE Threw
    [] memory = "Default" -> On(device)

-----------------------------------------------------------------------------
(* TensorPool: entries in the order they were created, each a tensor and
   whether it is handed out.  A request takes the first free one of the same
   type, device, storage order and size in bytes, whatever its shape. *)

\* Mutant: a tensor that is handed out is handed out again.
MatchesActive(entry, t) ==
  entry.dtype = t.dtype /\ entry.device = t.device /\ Bytes(entry) = Bytes(t)

Matches(entry, t) ==
  /\ ~entry.active
  /\ entry.dtype = t.dtype /\ entry.device = t.device /\ entry.storage = t.storage
  /\ Bytes(entry) = Bytes(t)

\* The place of the entry that a request for t hands out: a free one or a new one.
Requested(pool, t) ==
  LET free == {i \in DOMAIN pool : Matches(pool[i], t)}
  IN  IF free = {} THEN Len(pool) + 1 ELSE CHOOSE i \in free : \A j \in free : i <= j

\* The size in bytes wraps, so that a match may have another number of elements;
\* reshape_inplace then throws.
MayRequest(pool, t) ==
  Requested(pool, t) \in DOMAIN pool => MayReshape(pool[Requested(pool, t)], t.shape)

\* The pool after the request; "holds" is what the caller then writes into it.
Request(pool, t, holds) ==
  LET i == Requested(pool, t)
      entry == [shape |-> t.shape, dtype |-> t.dtype, device |-> t.device, layout |-> t.layout,
                storage |-> t.storage, active |-> TRUE, holds |-> holds]
  IN  IF i \in DOMAIN pool THEN [pool EXCEPT ![i] = entry] ELSE Append(pool, entry)

\* Mutants: the tensors stay handed out; they are freed, as clear does.
ResetNothing(pool) == pool
ResetToNothing(pool) == <<>>

Reset(pool) == [i \in DOMAIN pool |-> [pool[i] EXCEPT !.active = FALSE]]

-----------------------------------------------------------------------------
(* LayerCacheKey: what a layer remembers of the last input it prepared for. *)

NoKey == [valid |-> FALSE]
Capture(t) ==
  [valid |-> TRUE, shape |-> t.shape, dtype |-> t.dtype, device |-> t.device,
   layout |-> t.layout, storage |-> t.storage]
KeyMatches(key, t) == key = Capture(t)
=============================================================================
