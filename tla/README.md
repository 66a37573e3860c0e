# A verification development for Kerneloom

Kerneloom is a C++ library for training convolutional networks on a CPU, on CUDA
or on ROCm devices. Two parts of it are concurrent: the data loader, which
prefetches batches with worker threads, a transfer thread, bounded queues and
storage pools, under memory budgets that several loaders share; and the kernels,
whose loops a thread pool or the blocks of a GPU share out. The layers above them
run in one thread and keep pointers into memory that each pass hands out again.
This directory holds TLA+ modules translated from the code, TLC configurations
that check them on small instances, and TLAPS proofs for every instance.

Paths below are relative to the directory that holds `src/`; the library itself
is `src/src` and its headers are `src/include`.

    tlc -workers 2 -config DataLoaderHost.cfg MCDataLoader.tla
    tlapm DataLoader_proofs.tla

## 1. The system

| Component | State | Operations | Interacts with |
|---|---|---|---|
| `DataLoader::Impl` (`data/data_loader/*`) | generation, published epoch and its index counter, pending map, next index to return, stop flag, stored exception, threads | `reset_epoch`, `next`, worker and transfer loops, `stop_workers`, destructor | queues, pools, cache and budget; `Training` and `Evaluator` call it |
| `BlockingQueue` (`data/internal/blocking_queue.hpp`) | deque, closed flag, two condition variables | `push`, `pop`, `clear`, `close` | carries `PreparedBatch`es from workers to transfer worker to caller |
| `BatchStoragePool` (`data/internal/batch_storage_pool.cpp`) | free storages, allocated count, closed flag | `acquire`, the deleters of what it hands out, `close` | batch storages return to it from any thread |
| Memory budget and registry (`data_loader_memory_budget.cpp`, `data_loader_budget_registry.cpp`) | capacities and reservations by kind, expected loader count, one weak slot per device | `reserve_auto`, `reserve_manual`, `release`, obtaining the default budget, `set_expected_loader_count` | every loader's constructor and destructor |
| `DecodedImageCache` | LRU list, map, used bytes | `find`, `insert` | shared by the loader's workers |
| `CpuThreadPool`, `cpu_parallel_for` | task queue, active count, stop flag | `enqueue`, `wait`, destructor | decoding, CPU kernels |
| Datasets, images, transforms, split | file lists, class indices | enumeration, split, decode, resize | workers |
| Memory planner, `HostBatchPool` | none; an earlier pool | `plan_memory` | no loader |
| Tensors, buffers, `TensorPool` (`core`) | shapes, layouts, device memory, free tensors | allocate, copy, reshape, acquire | everything numeric |
| Layers, network, training, evaluation (`cnn`) | modes, caches for backward, gradients, pooled outputs | `forward`, `backward`, `fit`, `evaluate` | loader, tensors, ops |
| Operations (`ops`) | none | validation, choice of backend and kernel; a checked and an unchecked entry each | layers |
| CPU, CUDA and ROCm kernels | none between calls | loops over `cpu_parallel_for`; grids, shared memory, barriers, atomics | operations, thread pool |

Behaviour that is hard to test, component by component, and what would make the
component correct:

* **Pipeline.** Workers take an index, then a storage, then a queue place, each
  under a different lock; a reset, a failure or the destructor may come between
  any two. Correct means: every index handed out is in one place; batches reach
  the caller in order and belong to the current epoch; storages balance; a stored
  exception is the first cause, and is there before the caller finds the queue
  closed; no worker sleeps through an epoch; `next` and the destructor return.
* **Queue.** Two condition variables: `push` and `pop` call `notify_one` while they
  hold the mutex, `clear` and `close` call `notify_all` after the unlock. Correct
  means: it is a bounded first-in first-out queue, and nobody waits for what is there.
* **Budget.** Construction, failure and destruction of loaders interleave, and
  the storages paid for in one file are allocated in another. Correct means: no
  overcommitment, pools fit, one budget per device, fair shares are honoured.
* **Cache.** Concurrent misses of one image; eviction while an entry is in use.
  Correct means: used bytes are the sum of the entries and within the capacity,
  and the map and the list agree.
* **Thread pool.** `wait` waits for the whole pool. Correct means: each index of
  a parallel loop runs once, no task outlives the call that made it, calls return.
* **Training session.** Layers keep pointers and caches between calls, change
  tensors in place and share a pool; the second time they see an input they skip
  validation. Correct means: `backward` sees what the `forward` before it left, no
  tensor is reused while something refers to it, an unchecked call touches no
  memory that is not its own, and an exception leaves nothing behind that harms a
  later call.
* **Kernels.** Each operation has several implementations, chosen by options, and
  each splits its work in its own way. Correct means: all compute the same sums
  under every schedule, and write nothing else.

`PROJECT.json` lists these hazards at their lines, those no property covers yet
included.

## 2. The modules

| Module | What it is |
|---|---|
| `DataLoader` | the pipeline: workers, transfer worker, caller, queues and pools |
| `MCDataLoader` | its instances for TLC |
| `DataLoader_proofs` | eight theorems about it |
| `BlockingQueue` | what the queue promises: calls in progress and one atomic effect each |
| `BlockingQueueImpl` | the queue with its mutex, condition variables and notifications |
| `MCBlockingQueue`, `BlockingQueue_proofs` | instances; the refinement and the wakeups proved |
| `MemoryBudget` | budgets, registry, and the reservations of loaders |
| `MCMemoryBudget`, `MemoryBudget_proofs` | instances, and seven theorems |
| `CpuThreadPool` | the pool's workers, callers of `cpu_parallel_for`, the destructor |
| `MCCpuThreadPool`, `CpuThreadPool_proofs` | its instance, and five theorems with their invariants |
| `DecodedImageCache` | the cache and the workers that share it |
| `MCDecodedImageCache`, `DecodedImageCache_proofs` | its instance, and its three properties proved |
| `Counting` | lemmas about cardinalities and sums that the proofs share (no variables) |
| `Tensors` | shapes, types, `TensorPool`, copies, `LayerCacheKey` (no variables) |
| `Ops` | validation, dispatch and the two entries of every operation (no variables) |
| `Kernels`, `CudaKernels` | what each iteration, or thread, reads and writes (no variables) |
| `KernelLaunch`, `MCKernelLaunch` | one call of an operation, run by threads in any order, and the calls to look at |
| `Network` | the layers of `Sequential`: shapes, what they remember, the calls they make |
| `TrainingSession`, `MCTrainingSession` | `fit`, `evaluate` and `run` over a network, and the networks to look at |
| `KernelLaunch_proofs` | no launch of any accepted call races, or leaves its tensors |
| `TrainingSession_proofs` | two theorems about the pool, and seven about the session and its networks |

### DataLoader

Variables keep the source's names: `generation_`, `current_epoch_` (the epoch
state is identified by its generation), `next_batch_to_prepare` (one counter per
epoch, as each `EpochState` has its own), `pending` (the map the caller uses),
`stop_requested_`, `worker_exception_`. The fields of both queues and pools are
functions of a *stage*, `"host"` or `"device"`. `pc` is the place of each thread.
`held` are the `Batch` objects the caller has not dropped, which own storages too.

A storage is not an object of the model: the pool variables count storages, and
`Owned`, `queue`, `pending` and `held` say who has them. `Release` is the pool's
deleter, which runs wherever a `shared_ptr` goes out of scope, so it is part of
each action that drops a batch.

An action is one critical section with the local code around it. Three gaps are
kept apart because the code leaves them open: between the predicate of
`epoch_cv_.wait` and the sleep (`"checked"`; the mutex is held, but
`stop_workers` does not take it), between validating the epoch and `push`, and
between `PublishEpoch` and `NotifyEpoch`. The catch blocks and `stop_workers` do
the same things in the same order, so both go through `RaiseStop`, `CloseQueue`,
`ClosePool` and `NotifyStop`, one step per object closed. `MayFail` lets
decoding, the allocation of a storage's tensors and the copy to a device throw
where a worker or the transfer worker calls them; allocations by containers are
left out (section 5).

The queue and the pool appear by their contracts: a push is enabled when there is
room, an acquire when a storage can be had. For the queue that is what
`BlockingQueueImpl` shows; the pool's condition variable is used in the same way
and is taken on trust here.

### BlockingQueueImpl and BlockingQueue

`BlockingQueue` has a `call` per thread (what it asked and has not been given)
and one action per effect. `BlockingQueueImpl` has threads that evaluate a
predicate under the mutex, wait on `push_cv_` or `pop_cv_`, are woken one or all,
find that another thread was faster, or wake for no reason. Its `Implements` and
`ImplementsProgress` instantiate the first with `call <- PendingCall`: a call is
over when its effect has taken place, notifications still to be sent or not.

### MemoryBudget

A loader goes through `none`, `constructing`, `reserved`, `live`, `released` and
back. `Obtain` is `default_data_loader_memory_budget`, `Reserve` and `Refuse` the
two outcomes of `reserve_auto` and `reserve_manual` (`Plans` is what they
compute; empty when they throw), `ConstructionFails` a constructor that throws
after reserving, which runs no destructor, `Release` the release in `~Impl`, and
`Destroyed` the end of the members. `weak_ptr` slots empty when the last loader
lets go (`Unreferenced`). Sums wrap at `SizeMax + 1` and products are checked, as
in the code: `host_prefetch_batches + loader_workers` is a plain sum,
`checked_batch_bytes` is not.

### CpuThreadPool

`tasks_`, `active_tasks_` and `stop_` are the pool's members; `call`, `worker`
(the loop counter) and `ran` (how often the caller's function was run for each
index) belong to the call of `cpu_parallel_for` a caller is in. `Call` is the
call up to its loop, which an empty range or a single chunk never reaches;
`Enqueue`, `NotifyTask` and `Wait` are the loop and the wait; `Take`, `Run` and
`Finish` a worker's turn; `Stop`, `NotifyStop` and `Join` the destructor. One
critical section is one action; the notifications sent after the unlock
(`NotifyTask`, `NotifyStop`) are steps of their own, the one sent under the lock
is part of `Finish`. A thread that waits may wake for no reason at any time.

The pool is a function-local static, so `Stop` requires that no caller is inside
a call. `enqueue` on a stopped pool is then out of reach; a function that throws
ends the program when a worker runs it, and is left out, as is an `enqueue` that
runs out of memory (section 5).

### DecodedImageCache

`find` and `insert` hold `mutex_` throughout and are one action each; the worker
decodes between them, unlocked. List nodes have an identity and an entry an
iterator to one of them, since an `emplace` that runs out of memory leaves a node
without an entry: its key may be inserted again, and the eviction loop, which
looks keys up, may then erase the entry of the newer node. `Place` is
where an iterator points: `splice` and `erase` take the node there, whatever it
holds. `Evictions` is the number of turns of that loop, and `Popped`, `Survivors`
and `UsedAfter` are what it leaves. `recent` is a history variable: the keys in
the order of their last use.

### Tensors, Ops, Kernels and CudaKernels

A tensor is its metadata. `Numel`, `Bytes` and the output sizes wrap at `SizeMod`
as `size_t` does. `validate_*` have the conditions of the functions of that name,
in `src/src/ops/validation`; `*_unchecked` the switch over devices; `Entry` and
`Unchecked` choose by the name of the operation. Each gives the kernel's name, or
`Threw`.

A kernel's value is a set of products: cell `<<role, offset>>` holds the set of
the sequences of input cells whose products were added up to it. That keeps which
elements meet in which sum, and drops the arithmetic, constant factors, order of
summation and the multiplicity of a product. `Kernels` has one loop per task class
of `src/src/kernels/cpu`: how many iterations, and which cells an iteration adds up
into which; `CpuWork` splits them as `cpu_parallel_for` does. `CudaKernels` has for
each `.cu` file the grid, the threads of a block, and per thread its effects in
each *stage*, the interval between two `__syncthreads()`; registers and shared
memory are cells of their own (`"sum"`, `"shared"`...), gone when the launch ends.
Block sizes are constants: `BlockLine` threads of a one-dimensional block,
`BlockAxis` by `BlockAxis` of others, `BiasTile` and `BiasLanes` for the bias sums.

### KernelLaunch

`Call` is the checked entry. `BeginLaunch`, `Step`, `Synchronize` and `EndLaunch`
run one parallel loop or one grid at a time; a `Step` is all a worker does between
two barriers, and workers are interleaved in every order. Doing a worker's part at
once loses nothing: `NoRace` says that no two of them meet on a cell that one of
them writes, but for `atomicAdd`, so their steps commute; `NothingRacesEver` proves it. The definitions of the operations
(`ConvDefinition` and so on) are written as relations between output and input
positions, not as loops.
`CallsAssumption` says what a call may be: any tensors under the roles the function
takes (`Takes`, `MayTake`), of any rank, extents, types and devices, and options of
type `size_t`, whether or not validation accepts them.

### Network and TrainingSession

`Network` has, by the kind of a layer, what `forward` and `backward` compute their
shapes from, request, call and remember; a layer without a bias passes none, nor a
gradient for one (`WithBias`); `l.key` is the `LayerCacheKey`, `l.fast`
the fast-path flag, `l.saved` the `input_` or `output_` pointer, which is a place
(`<<"batch">>`, `<<"pool", i>>`) so that it dangles when the code's does.

What a tensor holds is a *mark*: `<<"forward", i>>` or `<<"backward", i>>` when
layer `i` computed it in this pass, `<<"batch">>` for the loader's images, `Stale`
for anything older, `Garbage` for a gradient computed from anything but what its
layer's `forward` left and the gradient from above. `BeginPass` resets the pools
and turns every mark `Stale`. `ForwardLayer` and `BackwardLayer` are one layer's
call each; `Fit`, `Evaluate`, `Run` and `EndEpoch` the loops of the drivers.
`Throw` is an exception that leaves the driver: it changes nothing else, since
the code has no handlers there, and the program may call again. The loader appears
by its contract (`NextBatch`, `ResetEpoch`): batches in storages of its pool, and a
worker that throws is final. On a GPU `NextBatch` copies to a storage as the last
batch left it, shape included.

The pool hands memory out again by its size in bytes and then reshapes it, which
asks for the same number of *elements*: products that wrap, or a tensor of another
element type, may agree in one and not in the other, and the request then throws
inside the layer, with what `prepare_cache` has already changed (`Reshapes`). A
flatten layer reshapes too, after it has noted the shape for backward.
`NetworksAssumption` says what `Sequential` can be given: layers of the five kinds,
numbers that a `size_t` holds for their options and extents, a bias or none, strides that are not zero (a zero
divides while the network is built), a batch of some images, and images of rank four where a layer reads a
height and a width, since `Shape::operator[]` throws for a dimension that is not
there while the network is built.

## 3. The runs

| Run | Instance | What it shows |
|---|---|---|
| `loader_host` | 2 workers, 3 batches, prefetch 1, 2 epochs, 2 batches kept, failures | all safety properties of the pipeline on a CPU |
| `loader_device` | 2 workers and the transfer worker, 2 batches, 2 epochs | accounting, no loss or duplication, order across two queues |
| `loader_host_liveness` | 2 workers, 4 batches, failures | `next` and the destructor return, but for the two cases below |
| `loader_device_liveness` | 2 workers and the transfer worker, 2 batches, failures | the same with a device |
| `device_pool_exhausted` | 2 workers and the transfer worker, 3 batches, no failure | a counterexample: `next` waits for ever |
| `stop_missed` | 1 worker | a counterexample: the destructor waits for ever |
| `blocking_queue` | 3 threads, 2 values, capacity 2 | refinement, progress, no lost wakeup |
| `memory_budget` | 3 loaders, 2 budgets, CPU and accelerator, 4 requests | no overcommitment, accounting, shares |
| `cpu_thread_pool` | 3 workers, 2 callers, 3 ranges, 2 calls each | indices run once, tasks stay in their call, calls and destructor return |
| `decoded_image_cache` | 3 workers, 5 images, capacity 4, failures | bytes, list and map agree; eviction by recency |
| `kernel_launch` | 2580 calls of 19 operations, valid and not, on a CPU, on CUDA and on a device the build lacks | bounds, races, and the value of every result |
| `training_session` | 17 networks on 2 devices, 2 loaders of 2 batches, `fit` of 1 and 2 epochs | unchecked calls in bounds, gradients of this batch, bounded pools, no exception in a well-formed network |

Properties of the pipeline: `PoolAccounting` (the counter of each pool is the
number of free storages and of those somebody holds), `NothingLostOrDuplicated`,
`DeliveryInOrder`, `ClosedQueueIsExplained` (`next` never ends in "queue closed
before expected batch was produced"), `RootCauseReported` (the stored exception
is not a consequence of closing the pools), `EpochNotMissed`,
`NextReturnsUnlessExhausted` and `DestructorReturnsUnlessStopMissed`.

Properties of the budget: `WithinCapacity`, `ReservedIsHeld` (no reservation is
forgotten, apart from those of failed constructors, which `lost` counts),
`StorageFits` (the pools the constructor sizes stay within the capacity the
budget reserved for them), `OneBudgetPerDevice`, `CountInForce`,
`ExpectedLoadersServed`.

Properties of the thread pool: `NoTaskOutlivesCall` (a task refers to the
caller's function, and `wait` knows only of the whole pool), `EachIndexOnce`,
`NoLostWakeup`, `CallsReturn`, `DestructorReturns`. Of the cache:
`BytesAccounted`, `IteratorsValid` (every entry's iterator is a live node of its
key, so `splice` and `erase` are defined) and `EvictsLeastRecentlyUsed` (in the
order of use, and no more than needed).

Properties of the kernels: `WithinBounds` (validation and the guards inside the
kernels together keep every access inside its tensor; shapes as well as padding,
dilation, valid counts and class numbers may be wrong; two things are asked of the
caller, that `size_t` holds the number of elements of each tensor, and that the
indices given to `backward_maxpool2d`, which nothing checks, lie in the gradient
they are scattered to), `NoRace`, and
`ComputesDefinition`: whichever variant, split and tiling ran, an accepted call
leaves in each output the sum that defines it and changes no other tensor. All
variants of a backend, and the two backends, thereby agree.

Properties of the session: `FastPathInBounds` (a layer takes the unchecked entry
when its key matches, also after the checked one threw; losses always do; none
leaves its tensors, as long as kernels lie within the images and no number of
elements wraps), `GradientsOfThisBatch` (at `optimizer_.step`, each gradient
was made in this pass from what this pass computed), `PoolBounded` (no order of
calls and exceptions makes the pools grow past one training pass) and
`WellFormedNeverThrows`: a network that `WellFormed` calls supported trains,
evaluates and infers in any order, and all that is ever thrown is that a loader has
no batches left or that `fit` was asked for no epochs. Supported are networks with
parameters that end in rows of at least one class, whose dilated kernels lie within
the padded images (`Within`), whose softmax and linear layers get rows, whose
flatten layers come after a pooling one, and whose sizes in bytes fit a
`std::size_t`. Four of the networks fail one of these each, so that the run shows
what they are for.

What these two runs show of the code, and the properties therefore except or
state as they are:

* The key is captured before validation, so a call that threw is accepted the
  next time with the same arguments. `FastPathInBounds` asks for kernels within the
  images (`KernelsFit`): a larger one runs the second time, and then the number of rows
  or columns of the output has wrapped, to nothing, or with a larger stride to a huge
  number. A convolution followed by `Flatten`, or `ReLU` by `Flatten`, is refused in the
  first backward pass, as the layouts differ, and accepted from then on. `WellFormed`
  asks for a pooling layer before `Flatten`. An evaluation before the first training
  pass primes the layers' keys, and the backward check is skipped as well.
* Two activations in a row give the first a wrong gradient: the second overwrites
  the output the first saved, also when a flatten layer between them has passed the
  tensor on. `GradientsOfThisBatch` excepts them (`OutputOverwritten`).
* A `Softmax` or linear layer that is given images is refused the first time and takes
  the unchecked entry from then on, whose loops know the first two extents only;
  `GradientsOfThisBatch` asks for matrices there (`Matrices`).
* `Flatten` as first layer reshapes the batch's storage, and the loader's copy into
  that storage throws when it comes round again on a GPU; `WellFormed` excludes it.
* A CUDA `linear` with a dimension of zero returns before it adds the bias and
  leaves the result unwritten (`LeftAsItWas`).
* A max-pool window with nothing above minus infinity keeps index 0, whichever
  image it is in (`IndicesDefinition`).
* A class number out of range throws on a CPU and is skipped on CUDA.

**Two disagreements.** *The pool may be exhausted by early batches*: a worker
takes an index before a storage, so others may run ahead; the caller keeps what
arrives early, and when that is a whole pool, the awaited batch cannot get a
storage and `next` never returns. It takes more batches in an epoch than the pool
has storages and one slow worker; the device pool has `device_prefetch_batches + 1`,
the host pool (CPU loaders) `host_prefetch_batches + loader_workers`, where two
workers and four batches with a prefetch of one are enough. *A stop may be
missed*: `stop_workers` stores the flag and notifies without `epoch_mutex_`, so a
worker that has evaluated its predicate and not yet fallen asleep sleeps for ever
and is joined. The liveness properties name these two cases and say that there is
no third. `Exhausted` is stated of the caller that waits. `MissedStop` is stated of a
worker that sleeps, or is about to, when every notification of a stop is past; it
covers the notification of a failing worker's catch block as well, which is made
without the mutex in the same way, so it excludes some executions in which the
destructor would wake that worker later.

**Bounds, and why they are enough.** Two workers are the fewest that overtake
each other, and each worker meets the same code; one free place in each queue and
one spare storage make every queue and pool both full and empty; two epochs let
batches of an old epoch meet a new one, and nothing compares more than the current
generation with another; three or four batches reach past the capacities. Keeping
one or two batches is enough to take a storage from the pool for long. The queue
has one thread more than places, and pushers and poppers of both kinds wait at
once. Two budgets suffice for two devices, and three loaders for one that finds
what two others left; `SizeMax = 31` puts the wrap within reach of a request.
Three pool workers are one more than there are chunks: four indices make two
chunks of two and leave the third empty, one index is run by the caller, and an
empty range returns at once; the chunks of both callers may be queued together.
Two calls of each caller let a call begin while the other's is at any point. The
images have a byte size of 1, 2, 2, the whole capacity and more, so that an
insertion evicts none, some or all, and is refused.
The calls of `kernel_launch` reach past one block on each axis (blocks of two by
two, lines of four), more than one tile of the common dimension, several chunks and
an incomplete last one, each stride, dilation and padding along each axis, extents
of zero and one, kernels larger than the image (`SizeMod = 128` puts the wrap of
the output size at numbers that shapes reach), ties and values that never exceed
the initial maximum. Blocks of the real sizes differ only in how many threads run
the same guards. The networks are those of the tests in small and those that break
a rule each, with and without biases: no layer of parameters, `Flatten` first, missing or after a layer
other than pooling, a kernel that is too large, activations side by side. Two
batches and two storages make a key match, a fast path and a reused storage
happen within an epoch; two epochs and the free order of calls put evaluation
and inference, and passes that threw half-way, between training passes. Symmetry is declared for safety runs only. The named bounds are `MaxEpochs`,
`MaxHeld`, `Budgets`, `Counts`, `Capacities`, `Requests`, `Ranges`, `MaxCalls`,
`Calls`, `Networks`, `BatchCount` and `Storages`.

**Fairness.** One weak fairness condition per thread: the operating system runs a
thread that can run. The caller is never obliged to call, to drop a batch or to
destroy the loader (`CallerChoice` has none), and a thread waiting at a mutex or
a condition variable is not enabled. Of the queue's threads each runs on inside a
call; a spurious wakeup is never assumed. The thread pool has a condition per
worker, per caller inside a call and for the owner inside the destructor;
`CallsReturn` also needs that callers stop calling, which `MaxCalls` gives:
a caller waits for the tasks of all. `CHECK_DEADLOCK` is off for the pipeline (a
destroyed loader, or one with no epoch left in the bound, stops), the thread pool
(destroyed), the cache (every worker may have failed) and `kernel_launch` (a call
ends), and on for the queue, the budget and the session, which never stop.

## 4. The proofs

| Theorem | Property | For every |
|---|---|---|
| `TypeCorrect` | `TypeOK` of the pipeline | number of workers, batches, epochs, prefetch counts |
| `RootCause` | `RootCauseReported` | the same |
| `ClosedQueueExplained` | `ClosedQueueIsExplained` | the same |
| `NoEpochMissed` | `EpochNotMissed` | the same |
| `InOrder` | `DeliveryInOrder` | the same |
| `EachBatchOnce` | `NothingLostOrDuplicated` | the same |
| `StoragesAccounted` | `PoolAccounting` | the same |
| `BatchesPlaced` | none; the invariant under the last two | the same |
| `QueueTypeCorrect` | types of the queue | threads, values, capacity |
| `QueueRefinement` | `Implements` | the same |
| `NoWakeupLost` (queue) | `NoLostWakeup` of the queue | the same |
| `BudgetTypeCorrect` | `TypeOK` of the budget | loaders, devices, budgets, capacities, requests |
| `NeverOverpromised` | `WithinCapacity` | the same |
| `BudgetShared` | `OneBudgetPerDevice` | the same |
| `CountStays` | `CountInForce` | the same |
| `NothingReservedForNobody` | `ReservedIsHeld` | the same |
| `StorageAlwaysFits` | `StorageFits` | the same |
| `ExpectedAreServed` | `ExpectedLoadersServed` | the same |
| `PoolTypeCorrect` | `TypeOK` of the thread pool | workers, callers, ranges, calls |
| `TasksStayInCall` | `NoTaskOutlivesCall` | the same |
| `NoWakeupLost` (thread pool) | `NoLostWakeup` of the thread pool | the same |
| `IndicesRunOnce` | `EachIndexOnce` | the same |
| `ChunksPartition` | none; the arithmetic under `EachIndexOnce` | range and number of workers |
| `BytesCounted` | `BytesAccounted` | workers, images, sizes, capacity of the cache |
| `IteratorsAlive` | `IteratorsValid` | the same |
| `OldestEvicted` | `EvictsLeastRecentlyUsed` | the same |
| `RecencyKept` | none; the invariant under the last three | the same |
| `PointersValid` | `TypeOK` of the session | networks, batches of an epoch, storages |
| `PoolStaysBounded` | `PoolBounded` | the same |
| `InputsSurvive` | none; what layers keep from forward to backward | the same |
| `SupportedNeverThrow` | `WellFormedNeverThrows` | the same, and width of `size_t` |
| `GradientsAreOfThisBatch` | `GradientsOfThisBatch` | the same |
| `SupportedStayInBounds` | `FastPathInBounds`, of networks that are `WellFormed` | the same |
| `Invariant` | none; the invariant under the last six | the same |
| `NothingRacesEver` | `NoRace` | call, width of `size_t` (other indices are exact numbers, section 5), threads of the CPU pool, sizes of CUDA blocks |
| `WithinBoundsEver` | `WithinBounds` | the same |
| `NeverHandedOutTwice` | none; a fact about `TensorPool::request` | pool and request |
| `MemoryNeverResized` | none; reuse keeps the size of an entry's memory | pool, request, width of `size_t` |

Assumptions are on constants only and TLC evaluates them: the threads are
distinct, the workers are finitely many and there is one, prefetch counts,
batches of an epoch and storages are positive, the number at which `size_t` wraps
exceeds the size of any element type (8), sizes are natural numbers (`0..SizeMax` where a request or a capacity
is a `std::size_t`), the CPU is a device, no budget is `nullptr`, and a network
is one that `Sequential` can be given (`NetworksAssumption`). The sets of
loaders, of callers and of the queue's threads need not be finite: in each
reachable state finitely many of them are in a call or hold a reservation
(`FiniteCalls` and `HoldersFinite` are parts of the invariants), which is all
that a cardinality or a sum needs.

*Pipeline.* The properties are not inductive. `IInv` in `DataLoader_proofs` adds:
`LabelsOK` (each thread is only in the code of its role), `EpochOrder` (a worker's
epoch is at most the published one, which is at most the generation, and equal to
it when no reset is in progress), `SleepersInformed` (`EpochNotMissed` also for a
worker between predicate and sleep), `StopExplained` (a closed pool, a closed
queue and a raised stop each come after a stored exception or in the destructor;
this is why a "pool is closed" exception always finds the flag raised) and
`PendingCurrent` (the pending map has batches of the current generation only).
`InOrder` then follows from the two places that deliver.

`BatchInv` says where batches are: every batch in hand, queue or pending map was
handed out in its epoch (`ItemsInHand`, `Fetched`), two places never hold the same
one (`Unique`, over the six pairs of kinds of place), every index below the
epoch's counter is somewhere or was returned unless something failed (`Covered`),
and queues hold no more than their capacity (`QueuesFit`, which keeps positions
within the set that `Copies` counts). `Copies` is then a sum of cardinalities of
sets with at most one element, of which at most one is not empty.
`StoragesAccounted` compares, for each pool, the set of the owners of storages
before and after a step: an owner comes, goes, or one takes another's place
(`OwnersMove`). It needs the places too: a transfer or a delivery keeps the count
only because the batch that changes hands was in one place before and is in one
place after, and because batches of an old epoch (`HeldOld`) are not mistaken for
new ones.

*Queue.* The type invariant says in particular that a waiting pusher has a value.
A step of a thread changes the pending call of nobody else, even of those it
wakes, because waiting and running threads have the same pending call
(`OthersKeepCall`); each step is then an effect, or invisible. `NoWakeupLost`
compares, action by action, the number of waiting threads that could go on with
that of the notifications still to be sent and of the threads awake: `push` and
`pop` change either side by one, `clear` and `close` wake a whole wait set.

*Budget.* `IInv` is `TypeOK` with `SlotsAgree` (a live loader's budget is in its
device's slot), `SlotsAlive` (what is in a slot is alive), `Fits`
(`WithinCapacity`) and `CountInForce`. `SlotsAgree` is what makes the count of a
live budget immutable: the setter sees every slot. `WithinCapacity` needs that a
plan reserves of each kind no more than remains, wrapped sums included.
`HeldInvariant` adds that what a budget has reserved is the sum of what its loaders
hold and failed constructors lost, each of which a step changes for one loader;
`StandingInv` that a loader's reservation is that of a plan for its request, so
that the pools its constructor sizes are those that were paid for:
`StorageAlwaysFits` is the equality of two computations in two files, wrapped
products and zero batch counts included. `ExpectedAreServed` bounds the sum of the
shares of fewer than the expected number of loaders, and with it what is left for
the next one, whose smallest plan is therefore not refused.

*Thread pool.* `IInv` adds `ActiveCounted` (`active_tasks_` is the number of
workers between taking a task and accounting for its end: this makes the
predicate of `wait` mean that nobody runs anything), `RolesOK` and `CallsOpen` (a
caller enqueues only when its range is not empty, so chunk sizes are positive).
`ChunksPartition` is arithmetic only: each index of a range is in exactly one
chunk, and the loop reaches that chunk, as the chunks before it are not empty.
`EachIndexOnce` needs the second invariant, `JInv`: tasks
still to be run are chunks their caller's loop has passed (`PendingAreChunks`), no
index of a call is in two of them (`PendingApart`), the function was run once for
the indices of passed chunks that wait in no task and for no other (`RanCounted`),
and a waiting caller's loop had nothing more to enqueue (`LoopEnded`). A call
returns when the pool is idle, which by `ActiveCounted` means no task is left.

`NoWakeupLost` adds that a worker waits beside a queued task only while as many
others are awake, or about to be notified, as there are tasks.

*Cache.* `CacheOK` says of any list, map and count that they belong together: node
identities differ, the node an entry's iterator points to has the entry's key, and
the count is the sum of the sizes. Erasing an entry with its node, popping from the
back, and pushing a node with or without an entry each keep it, and `find` and
`insert` are made of those. An entry that survives an eviction keeps its node
because the eviction loop looks keys up: had the node been popped, so had the
entry, be it by an older node of the same key. `RecentInv` adds that nodes with an
entry stand in the order of last use even when failed insertions left nodes
between them; `OldestEvicted` follows when there are none, since then every popped
node takes its own entry with it and the node popped last is the most recent of
those. A new node finds a free identity by the pigeonhole principle.

*Sums and cardinalities.* The library's sum over a set is a function defined by
recursion over its subsets. `Counting` derives from its definition what the proofs
use (a sum with one element more or less, of two parts, of larger terms), by
induction over the size of a set, stated for sets of naturals (`EveryNatural`, from
the well-founded order `<`) and of subsets (`EverySize`), so that no step
instantiates an operator. Everything else about data is unrolled by one step.

*Tensor pool.* Both theorems are about one request, not about a behaviour: the
session's pointers rest on them. `RequestedMatches` needs that a non-empty set of
places has a least one, which comes from the library's well-founded order on the
natural numbers; the rest is what `Append` and `EXCEPT` change.

*Session.* `IInv` of `TrainingSession_proofs` says three kinds of things. Every
tensor in use has the shape that `CurrentShape` gives its place in the network
(`BatchInUse`, `CurrentInUse`); `CurrentShape` and `Numel` are recursive functions,
whose existence (`ShapesExist`, `DimensionsExist`) is derived once, by induction over
naturals, and which are otherwise unrolled by a step. What a convolution or a linear
layer points to, and the shapes that pooling and `Flatten` note, belong to this pass
for every layer passed (`InputsKept`): the tensor is handed out, so no request
returns it, and it is not the current one, so no activation overwrites it. Training
keeps an input of its own for every layer with parameters because the layer's
result is a new tensor; the backward pass forgets the layers it has passed
(`Passed`). And the pool is bounded: a pass asks at most twice for each layer that
does not work in place, with sizes in bytes that only the network decides (`Need`),
and each entry has the memory of one of these *slots* of its own (`PoolsFit`); in a
pass, the entries handed out are those of the slots served so far (`PassFits`). A new
entry is made only when all entries of its size are handed out; those have slots
served in this pass, so once each stands at its own, the slot of the request is free
for the new one. `Placed` states the injection, and it survives `Reset`, whatever pass
an exception ended.

*Supported networks.* `SupportedNeverThrow` is the invariant `WellFormed => Smooth`
beside `IInv`. `Smooth` says of what the session keeps that no later step can refuse
it: the loaders' storages have the shape and layout of what is copied to them (`Fed`:
no flatten layer has reshaped a batch); the driver trains only what was prepared, with
gradients made and every layer in training mode (`Readied`); what each layer passed has
kept is as its backward operation asks for it (`Whole`: a convolution's input still in
NCHW, an activation's output of its shape, indices of this pass); a tensor that a
flatten layer will reshape is neither the batch nor one an activation remembers
(`MayFlatten`); and the tensor that goes on has the layout of images where the next
layer reads images, and on the way back the shape of what it is the gradient of
(`Flowing`). The last is what the place of a flatten layer is for: in the backward pass
it gives the shape back but not the layout, which only a pooling layer below it does
not ask for. For each operation a lemma shows that such arguments pass its
validation and that a backend takes them (`ConvRuns` to `ActivationRunsBack`); the
extents computed by the layer and those computed by the validation agree because no
intermediate value wraps. Requests are granted because a pool's entries of the
same size in bytes have the same number of elements (`RequestsGranted`). Layers may
prime their keys in any order: the checked and the unchecked entry both return.

*Gradients.* `GradientsAreOfThisBatch` is the invariant `Clean => Fresh` beside `IInv`;
`Clean` is the condition of the property, which no step changes. The property speaks of
one moment only, the step of the optimizer; `Fresh` follows the marks up to it.
`InTraining`: a pass that reaches the loss gradient is the training driver's, with every
layer in training mode, so that every layer remembers. `Carried`: the tensor that the
pass goes on with was left by the layer passed last (`Left`, which looks through flatten
layers) and, on the way back, by the layer above. `Unspoiled`, for each layer passed:
the tensor it keeps still holds what it held when its forward call returned, and it is
not the tensor the pass goes on with, except an activation's while nothing but flatten
layers came after it. That exception is what `OutputOverwritten` is about, and it ends
with the loss, whose gradient is another tensor. `GradientsMade`: the layers that the
backward pass has passed have their gradients. That neither a request nor a layer in
place overwrites what is kept comes from `InputsKept` and `PassFits`. A gradient counts
only when every cell of it is written: `ConvFills`, `LinearFills` and `LossFills` derive
that, for the gradients of the weights and of the bias if there is one, from the loops
of the CPU kernels (a GPU's are compared with them by `kernel_launch`), `LinearFills`
from matrices, since its loops count rows and columns.
The scatter of a pooling layer counts as whole by definition: it clears its target.

*Kernels.* `NoRace` speaks of what is left to do, so `IInv` of `KernelLaunch_proofs`
says what that is: a launch belongs to a call that its validation accepted
(`LaunchableOf`), and what each worker has left is nothing, or all that the kernel does
between the barriers its group stands at (`InLaunch`, `LeftToDo`). The rest is constant.
Two iterations of a loop, or two threads of a grid, write apart because an address is a
place value representation: equal addresses have equal quotients and remainders
(`QuotientBelow`, `AddressOfImage`), so two workers that write the same output element have
the same coordinates, and two different workers do not (`PairsDiffer` for threads of a
grid, `RangesApart` for the chunks of a range). What a worker reads is of another role than
what others write, or its own: `Own` fixes the row that an iteration has in each tensor.
Tiles of the matrix products and the trees of the softmax reductions are compared stage by
stage: in a stage of even number threads fill the tile, each thread its own cells; in one of
odd number they only read it; and in a halving step the cells written are below the
distance and those read above it (`SoftmaxStages`, `BackwardSoftmaxStages`), which
is where `BlockLine` has to be a power of two. Kernels whose targets overlap add
atomically on a GPU, and on a CPU run in the caller's thread. What the shapes have to do
with it comes from the validations (`CallLaunches`): a loop that takes its extents from one
tensor and writes another needs the two to agree, and that is what its validation compared.

`WithinBounds` too speaks of what is left to do. `BInv` says what stands behind it: of
every launch that has not ended, each iteration or thread stays within the tensors in
each stage (`SafeLoop`, `SafeGrid`); `InLaunch` then hands that on to what is left of the
running one. The address of an index below the extents is below their product
(`OffsetBelow`, by induction over the dimensions), and the product is what the code calls
the number of elements, if a `size_t` holds it (`ElementsAreVolume`); that is one of the
two preconditions. Loops that find their coordinates by division find them below the
extents (`QuotientBelow`, `IndexOfImage`). The convolutions without guards need more: that their last
window ends inside the input follows from how the validation computes the size of the
output, even when that computation wraps (`WindowEnds`, `ConvUnguarded`). On a GPU, a
thread beyond the last element does nothing, and the cells of a tile that overhang the
matrix are filled with zeros. The scatter of a pooling layer writes where its data says,
hence the other precondition.

*Calls of the session.* `FastPathInBounds` is about calls that no validation has seen.
`SupportedStayInBounds` is the invariant `Contained`, that the latest call stays within
its tensors, beside `IInv` and `WellFormed => Smooth`. `Smooth` shows of the arguments of
each call, checked or not, that the validation would accept them; `KernelLaunch_proofs`
shows that an accepted call stays within its tensors, and is instantiated here, since
its loops are those of the session (`SameBody` to `SameEntry`). What remains is
its precondition, that no number of elements wraps: the shapes of the tensors of a layer
are batches of the network's shapes or those of its weights (`SizedParameters`), and
those do not wrap by `NothingWraps`. Of a pooling layer's scatter, which goes where its
indices say, it is that the indices have the shape of the gradient (`Whole`: the layer
noted the shape in this pass). The theorem is about
networks that are `WellFormed`, which is less than the property says, and not by
oversight: for `KernelsFit` alone it is false. A linear layer given images reads rows
times columns of them, and when the images have no height those are cells its input does
not have. The run has networks that are not `WellFormed`, none of them
with empty images, and for those the property is checked and not proved.

The proofs corrected the model in these places. `CASE` arms that overlap have no
defined value, though TLC takes the first: the arms of `DeviceBatches`,
`PoolCapacity` and of the max-pooling layer's `ForwardCall` now exclude each other,
as the branches of the code do. Requests and capacities became numbers a
`std::size_t` holds: a capacity above `SizeMax` would have refuted `StorageFits`. The
pool's request had no failure of its own: that `reshape_inplace` may refuse memory of
the right size showed when the shapes of its entries were to be proved.
`GradientsOfThisBatch` used to except whatever followed an operation that refused its
arguments; it now holds there too, if matrices are where they are asked for. It missed
activations with a flatten layer between them, and the mark that the loss finds behind a
flatten layer was wrong: the run has a network for each.

What is model-checked only: of the kernels, `ComputesDefinition`,
which compares sums over every cell; of the session, `FastPathInBounds` of networks
that are not `WellFormed`; and liveness (`NextReturnsUnlessExhausted`,
`DestructorReturnsUnlessStopMissed`, `ImplementsProgress`, `CallsReturn`,
`DestructorReturns`), which is beyond the prover.

## 5. What is left out, and the plan

Left out of the modelled components: spurious wakeups of `epoch_cv_` (the loop
around its predicate makes them steps from `"asleep"` to `"outer"` that change
nothing), the pool's own condition variable, storages of other sizes (a loader
asks for one size only), shuffling and the contents of batches, the getters, the
number of bytes the machine has (an input), constructors that fail before they
reserve.

A `std::bad_alloc` from a container or a small object is left out too: the queue's
deque, the pending map and the `shared_ptr` of a storage in the pipeline, the list
node, the key and the copy of `lru_.back()` during an eviction in the cache (of an
insertion only the failure of `entries_.emplace` is modelled), and the task queue
of the thread pool. The last would matter: `enqueue` that throws inside the loop of
`cpu_parallel_for` unwinds past `pool.wait()`, with tasks of the call still queued
that refer to its `function`. `NoTaskOutlivesCall` is a statement of calls in which
no `enqueue` throws.

Left out of the kernels: rounding, constant factors and how often a product is
added; widths of indices other than that of `size_t`, and the limits of a CUDA
grid; driver errors. CUDA kernels form an index as
`blockIdx.x * blockDim.x + threadIdx.x` in 32 bits, `linear` narrows its dimensions
to `std::uint32_t`, and the index of a maximum is cast to `std::int32_t`: all three
are exact numbers here, so what is shown of them, `NothingRacesEver` and
`WithinBoundsEver` included, is of tensors whose indices these types hold. Elementwise
activations share one body. `mse_loss_cpu_float32` is declared
(`src/include/kernels/cpu/losses/mse_loss_cpu_float32.hpp:13`) and defined nowhere
(the file of that name defines the backward kernel), so the CPU has no forward
kernel of the squared error to model.

Left out of the session: initializers, `AvgPool2dLayer`, callbacks, direct calls of
a layer or of `Sequential` outside the drivers, and the losses other than the
categorical one. Those call unchecked operations with the class numbers a loader
delivers and read them as one float per prediction; `kernel_launch` includes the
same arguments at the checked entry, which refuses them. The session has safety
properties only: its drivers end because their loops are bounded.

Not modelled at all: the ROCm kernels, which repeat the CUDA ones; GPU allocators,
copies and streams, which call the drivers; file and pixel work; the memory planner
and dataset split; vendored code.

The order of the rest:

1. `Algorithms`: memory planning, split, image geometry against reference
   definitions over bounded inputs.
2. `AvgPool2dLayer`, and the ROCm kernels where they differ from CUDA.
