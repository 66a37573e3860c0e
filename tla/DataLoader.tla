----------------------------- MODULE DataLoader -----------------------------
(***************************************************************************)
(* The prefetching pipeline of kl::DataLoader::Impl: loader workers that   *)
(* prepare host batches, the optional transfer worker that copies them to  *)
(* a device, the two bounded queues and the two storage pools between them,*)
(* and the calling thread that resets epochs, takes batches in order and   *)
(* destroys the loader.                                                    *)
(*                                                                         *)
(* A critical section of the code is one action; so is a run of steps that *)
(* touches no shared state.  BlockingQueue and BatchStoragePool appear by  *)
(* their contracts (BlockingQueueImpl shows the queue's condition          *)
(* variables keep it).  The condition variable epoch_cv_ is modelled down  *)
(* to the gap between evaluating its predicate and falling asleep, because *)
(* stop_requested_ is stored without holding its mutex.                    *)
(***************************************************************************)
EXTENDS Integers, Sequences, FiniteSets

CONSTANTS
  Workers,         \* the loader worker threads (options_.loader_workers)
  Main,            \* the thread that owns the loader and calls it
  Transfer,        \* the transfer worker thread (runs only with a device)
  UsesDevice,      \* device_.type() # DeviceType::CPU
  TotalBatches,    \* batch_count()
  HostPrefetch,    \* options_.host_prefetch_batches
  DevicePrefetch,  \* options_.device_prefetch_batches
  MayFail,         \* decoding, allocating or copying may throw
  MaxEpochs,       \* BOUND: calls of reset_epoch, the constructor's included
  MaxHeld          \* BOUND: batches the caller keeps when it calls next

ASSUME ThreadsAssumption ==
  /\ IsFiniteSet(Workers) /\ Workers # {}
  /\ Main \notin Workers /\ Transfer \notin Workers /\ Main # Transfer

ASSUME OptionsAssumption ==
  /\ UsesDevice \in BOOLEAN /\ MayFail \in BOOLEAN
  /\ TotalBatches \in Nat
  /\ HostPrefetch \in Nat \ {0} /\ DevicePrefetch \in Nat \ {0}
  /\ MaxEpochs \in Nat \ {0} /\ MaxHeld \in Nat \ {0}

Producers == Workers \cup {Transfer}
Threads   == Producers \cup {Main}
Stages    == {"host", "device"}

\* The stage whose queue the caller pops, and the stage a thread pushes to.
Out        == IF UsesDevice THEN "device" ELSE "host"
StageOf(t) == IF t = Transfer THEN "device" ELSE "host"

QueueCapacity == [s \in Stages |-> IF s = "host" THEN HostPrefetch ELSE DevicePrefetch]
PoolCapacity  == [s \in Stages |-> IF s = "host" THEN HostPrefetch + Cardinality(Workers)
                                                 ELSE DevicePrefetch + 1]

\* A PreparedBatch: its generation and index; the storage is accounted for
\* by the pool variables.
Batch  == [gen : 0..MaxEpochs, idx : Nat]
NoItem == [gen |-> 0, idx |-> 0]

VARIABLES
  generation_,            \* the atomic epoch counter
  current_epoch_,         \* the generation of the published EpochState, 0 for nullptr
  next_batch_to_prepare,  \* the shared index counter of each EpochState
  queue, closed,          \* host_queue_ and device_queue_
  allocated_count_,       \* of host_batch_pool_ and device_batch_pool_
  available_, poolClosed, \* free storages of each pool, and its closed_ flag
  next_batch_to_return_,  \* the index the caller must get next
  pending,                \* pending_host_batches_ or pending_device_batches_
  held,                   \* Batch objects the caller still owns
  stop_requested_,
  worker_exception_,      \* "none", "failure" or "pool_closed"
  pc,                     \* where each thread is
  epoch,                  \* each worker's epoch, which is also its previous_epoch
  item                    \* the batch a producer is working on

epochVars  == <<generation_, current_epoch_, next_batch_to_prepare>>
queueVars  == <<queue, closed>>
poolVars   == <<allocated_count_, available_, poolClosed>>
callerVars == <<next_batch_to_return_, pending, held>>
failVars   == <<stop_requested_, worker_exception_>>
vars == <<epochVars, queueVars, poolVars, callerVars, failVars, pc, epoch, item>>

-----------------------------------------------------------------------------
(* Helpers. *)

Goto(t, label) == pc' = [pc EXCEPT ![t] = label]

\* How many storages of a stage, given as a function, go back to the pools.
OneOf(s)   == [x \in Stages |-> IF x = s THEN 1 ELSE 0]
Both       == [x \in Stages |-> 1]
Some(s, n) == [x \in Stages |-> IF x = s THEN n ELSE 0]

\* Mutant: a storage freed after close is still counted.
ReleaseUncounted(n) ==
  /\ available_' = [s \in Stages |->
       IF poolClosed[s] THEN available_[s] ELSE available_[s] + n[s]]
  /\ UNCHANGED <<allocated_count_, poolClosed>>

\* BatchStoragePool::release, run by the deleters of the dropped shared_ptrs.
Release(n) ==
  /\ allocated_count_' = [s \in Stages |->
       IF ~poolClosed[s] THEN allocated_count_[s]
       ELSE IF allocated_count_[s] >= n[s] THEN allocated_count_[s] - n[s] ELSE 0]
  /\ available_' = [s \in Stages |->
       IF poolClosed[s] THEN available_[s] ELSE available_[s] + n[s]]
  /\ UNCHANGED poolClosed

\* epoch_mutex_ is held across steps only by a worker between its predicate
\* and its sleep.
EpochMutexFree == \A w \in Workers : pc[w] # "checked"

\* epoch_cv_.notify_all(): every sleeper evaluates the predicate again.
\* It also moves thread t on.
WakeAll(t, label) ==
  pc' = [u \in Threads |-> IF u = t THEN label
                           ELSE IF pc[u] = "asleep" THEN "outer" ELSE pc[u]]

-----------------------------------------------------------------------------
(* DataLoader::Impl::worker_loop *)

\* Top of the outer loop: under epoch_mutex_, the wait's predicate.
AwaitEpoch(w) ==
  /\ pc[w] = "outer" /\ EpochMutexFree
  /\ \/ /\ stop_requested_
        /\ Goto(w, "done") /\ UNCHANGED epoch
     \/ /\ ~stop_requested_ /\ current_epoch_ # epoch[w]
        /\ epoch' = [epoch EXCEPT ![w] = current_epoch_]
        /\ Goto(w, "fetch")
     \/ /\ ~stop_requested_ /\ current_epoch_ = epoch[w]
        /\ Goto(w, "checked") /\ UNCHANGED epoch
  /\ UNCHANGED <<epochVars, queueVars, poolVars, callerVars, failVars, item>>

\* The wait blocks: the mutex is released and the thread sleeps.
FallAsleep(w) ==
  /\ pc[w] = "checked"
  /\ Goto(w, "asleep")
  /\ UNCHANGED <<epochVars, queueVars, poolVars, callerVars, failVars, epoch, item>>

\* Inner loop: next_batch_to_prepare.fetch_add(1).
Fetch(w) ==
  /\ pc[w] = "fetch"
  /\ \/ /\ stop_requested_
        /\ Goto(w, "done") /\ UNCHANGED <<next_batch_to_prepare, item>>
     \/ /\ ~stop_requested_
        /\ LET i == next_batch_to_prepare[epoch[w]] IN
             /\ next_batch_to_prepare' = [next_batch_to_prepare EXCEPT ![epoch[w]] = i + 1]
             /\ IF i >= TotalBatches
                THEN Goto(w, "outer") /\ UNCHANGED item
                ELSE /\ Goto(w, "acquire")
                     /\ item' = [item EXCEPT ![w] = [gen |-> epoch[w], idx |-> i]]
  /\ UNCHANGED <<generation_, current_epoch_, queueVars, poolVars, callerVars, failVars, epoch>>

\* prepare_host_batch after the acquire: find or decode each image, write it.
Decode(w) ==
  /\ pc[w] = "decode"
  /\ \/ Goto(w, "validate") /\ UNCHANGED <<poolVars, item>>
     \/ /\ MayFail
        /\ Goto(w, "catch_failure") /\ Release(OneOf("host"))
        /\ item' = [item EXCEPT ![w] = NoItem]
  /\ UNCHANGED <<epochVars, queueVars, callerVars, failVars, epoch>>

\* Under epoch_mutex_: the batch is dropped if its epoch was replaced.
ValidateEpoch(w) ==
  /\ pc[w] = "validate" /\ w \in Workers /\ EpochMutexFree
  /\ IF current_epoch_ = epoch[w]
     THEN Goto(w, "push") /\ UNCHANGED <<poolVars, item>>
     ELSE /\ Goto(w, "outer") /\ Release(OneOf("host"))
          /\ item' = [item EXCEPT ![w] = NoItem]
  /\ UNCHANGED <<epochVars, queueVars, callerVars, failVars, epoch>>

-----------------------------------------------------------------------------
(* BatchStoragePool::acquire and BlockingQueue::push as the producers use   *)
(* them: a worker on the host stage, the transfer worker on the device one. *)

\* The storages a producer owns, released when its scope unwinds.
Owned(t) == [s \in Stages |->
  CASE s = "host"   -> IF t = Transfer
                       THEN IF pc[t] \in {"validate", "acquire", "copy", "revalidate", "push", "drop"}
                            THEN 1 ELSE 0
                       ELSE IF pc[t] \in {"decode", "validate", "push"} THEN 1 ELSE 0
    [] s = "device" -> IF t = Transfer /\ pc[t] \in {"copy", "revalidate", "push"} THEN 1 ELSE 0]

\* Mutant: acquire takes a storage without waiting for one.
AcquireUnguarded(t) ==
  LET s == StageOf(t) IN
  /\ pc[t] = "acquire" /\ ~poolClosed[s]
  /\ available_' = [available_ EXCEPT ![s] = @ - 1]
  /\ Goto(t, IF t = Transfer THEN "copy" ELSE "decode")
  /\ UNCHANGED <<epochVars, queueVars, allocated_count_, poolClosed, callerVars, failVars,
                 epoch, item>>

\* Mutant: the capacity test is off by one.
AcquireOneTooMany(t) ==
  LET s == StageOf(t) IN
  /\ pc[t] = "acquire" /\ ~poolClosed[s]
  /\ \/ /\ available_[s] > 0
        /\ available_' = [available_ EXCEPT ![s] = @ - 1]
        /\ UNCHANGED allocated_count_
     \/ /\ available_[s] = 0 /\ allocated_count_[s] <= PoolCapacity[s]
        /\ allocated_count_' = [allocated_count_ EXCEPT ![s] = @ + 1]
        /\ UNCHANGED available_
  /\ Goto(t, IF t = Transfer THEN "copy" ELSE "decode")
  /\ UNCHANGED <<epochVars, queueVars, poolClosed, callerVars, failVars, epoch, item>>

\* A free storage is reused; otherwise one is created while below capacity.
Acquire(t) ==
  LET s == StageOf(t) IN
  /\ pc[t] = "acquire" /\ ~poolClosed[s]
  /\ \/ /\ available_[s] > 0
        /\ available_' = [available_ EXCEPT ![s] = @ - 1]
        /\ UNCHANGED allocated_count_
     \/ /\ available_[s] = 0 /\ allocated_count_[s] < PoolCapacity[s]
        /\ allocated_count_' = [allocated_count_ EXCEPT ![s] = @ + 1]
        /\ UNCHANGED available_
  /\ Goto(t, IF t = Transfer THEN "copy" ELSE "decode")
  /\ UNCHANGED <<epochVars, queueVars, poolClosed, callerVars, failVars, epoch, item>>

\* The pool is closed, or create_storage throws.
AcquireThrows(t) ==
  LET s == StageOf(t) IN
  /\ pc[t] = "acquire"
  /\ \/ poolClosed[s] /\ Goto(t, "catch_closed")
     \/ /\ MayFail /\ ~poolClosed[s]
        /\ available_[s] = 0 /\ allocated_count_[s] < PoolCapacity[s]
        /\ Goto(t, "catch_failure")
  /\ Release(Owned(t))
  /\ item' = [item EXCEPT ![t] = NoItem]
  /\ UNCHANGED <<epochVars, queueVars, callerVars, failVars, epoch>>

\* push blocks while the queue is full and open; it refuses once closed.
Push(t) ==
  LET s == StageOf(t) IN
  /\ pc[t] = "push"
  /\ \/ /\ closed[s]
        /\ Goto(t, "done") /\ Release(Owned(t))
        /\ item' = [item EXCEPT ![t] = NoItem] /\ UNCHANGED queue
     \/ /\ ~closed[s] /\ Len(queue[s]) < QueueCapacity[s]
        /\ queue' = [queue EXCEPT ![s] = Append(@, item[t])]
        /\ Goto(t, IF t = Transfer THEN "drop" ELSE "fetch")
        /\ item' = [item EXCEPT ![t] = NoItem] /\ UNCHANGED poolVars
  /\ UNCHANGED <<epochVars, closed, callerVars, failVars, epoch>>

-----------------------------------------------------------------------------
(* DataLoader::Impl::transfer_worker_loop *)

\* while (!stop_requested_): a stop may come after the test and before pop.
TransferLoop ==
  /\ pc[Transfer] = "loop"
  /\ Goto(Transfer, IF stop_requested_ THEN "done" ELSE "pop")
  /\ UNCHANGED <<epochVars, queueVars, poolVars, callerVars, failVars, epoch, item>>

\* host_queue_->pop(); nullopt ends the thread.
TransferPop ==
  /\ pc[Transfer] = "pop"
  /\ \/ /\ queue["host"] = <<>> /\ closed["host"]
        /\ Goto(Transfer, "done") /\ UNCHANGED <<queue, item>>
     \/ /\ queue["host"] # <<>>
        /\ item' = [item EXCEPT ![Transfer] = Head(queue["host"])]
        /\ queue' = [queue EXCEPT !["host"] = Tail(@)]
        /\ Goto(Transfer, "validate")
  /\ UNCHANGED <<epochVars, closed, poolVars, callerVars, failVars, epoch>>

\* The generation test before the device storage is acquired.
TransferValidate ==
  /\ pc[Transfer] = "validate"
  /\ Goto(Transfer, IF item[Transfer].gen = generation_ THEN "acquire" ELSE "drop")
  /\ UNCHANGED <<epochVars, queueVars, poolVars, callerVars, failVars, epoch, item>>

\* Two copy_async calls and synchronize on the transfer stream.
TransferCopy ==
  /\ pc[Transfer] = "copy"
  /\ \/ Goto(Transfer, "revalidate") /\ UNCHANGED <<poolVars, item>>
     \/ /\ MayFail
        /\ Goto(Transfer, "catch_failure") /\ Release(Both)
        /\ item' = [item EXCEPT ![Transfer] = NoItem]
  /\ UNCHANGED <<epochVars, queueVars, callerVars, failVars, epoch>>

\* The generation test after the copy; a stale device storage goes back.
TransferRevalidate ==
  /\ pc[Transfer] = "revalidate"
  /\ IF item[Transfer].gen = generation_
     THEN Goto(Transfer, "push") /\ UNCHANGED poolVars
     ELSE Goto(Transfer, "drop") /\ Release(OneOf("device"))
  /\ UNCHANGED <<epochVars, queueVars, callerVars, failVars, epoch, item>>

\* End of the loop body: the host storage goes back.
TransferDrop ==
  /\ pc[Transfer] = "drop"
  /\ Goto(Transfer, "loop") /\ Release(OneOf("host"))
  /\ item' = [item EXCEPT ![Transfer] = NoItem]
  /\ UNCHANGED <<epochVars, queueVars, callerVars, failVars, epoch>>

-----------------------------------------------------------------------------
(* Failure and shutdown: the catch blocks of both loops, and stop_workers.  *)

\* Mutant: the exception is not stored.
CatchSilently(t) ==
  /\ pc[t] \in {"catch_failure", "catch_closed"}
  /\ Goto(t, "raise_stop")
  /\ UNCHANGED <<epochVars, queueVars, poolVars, callerVars, failVars, epoch, item>>

\* Mutant: an exception met during a shutdown is stored too.
CatchDuringStop(t) ==
  /\ pc[t] \in {"catch_failure", "catch_closed"}
  /\ worker_exception_' =
       IF worker_exception_ # "none" THEN worker_exception_
       ELSE IF pc[t] = "catch_failure" THEN "failure" ELSE "pool_closed"
  /\ Goto(t, "raise_stop")
  /\ UNCHANGED <<epochVars, queueVars, poolVars, callerVars, stop_requested_, epoch, item>>

\* store_worker_exception, unless a stop was already requested.  (Test and
\* store are two steps of the code; a stop that comes between them is the
\* destructor's, which reads no exception, or that of a producer which has
\* stored its own.)
CatchException(t) ==
  /\ pc[t] \in {"catch_failure", "catch_closed"}
  /\ worker_exception_' =
       IF stop_requested_ \/ worker_exception_ # "none" THEN worker_exception_
       ELSE IF pc[t] = "catch_failure" THEN "failure" ELSE "pool_closed"
  /\ Goto(t, "raise_stop")
  /\ UNCHANGED <<epochVars, queueVars, poolVars, callerVars, stop_requested_, epoch, item>>

RaiseStop(t) ==
  /\ pc[t] = "raise_stop"
  /\ stop_requested_' = TRUE
  /\ Goto(t, "close_host_queue")
  /\ UNCHANGED <<epochVars, queueVars, poolVars, callerVars, worker_exception_, epoch, item>>

\* Mutant: the queue the caller waits on stays open.
CloseQueueNotOut(t) ==
  /\ \/ /\ pc[t] = "close_host_queue"
        /\ closed' = [closed EXCEPT !["host"] = UsesDevice]
        /\ Goto(t, IF UsesDevice THEN "close_device_queue" ELSE "close_host_pool")
     \/ /\ pc[t] = "close_device_queue"
        /\ Goto(t, "close_host_pool") /\ UNCHANGED closed
  /\ UNCHANGED <<epochVars, queue, poolVars, callerVars, failVars, epoch, item>>

CloseQueue(t) ==
  /\ \/ /\ pc[t] = "close_host_queue"
        /\ closed' = [closed EXCEPT !["host"] = TRUE]
        /\ Goto(t, IF UsesDevice THEN "close_device_queue" ELSE "close_host_pool")
     \/ /\ pc[t] = "close_device_queue"
        /\ closed' = [closed EXCEPT !["device"] = TRUE]
        /\ Goto(t, "close_host_pool")
  /\ UNCHANGED <<epochVars, queue, poolVars, callerVars, failVars, epoch, item>>

\* Mutant: close frees the storages and forgets to set closed_.
ClosePoolStaysOpen(s) ==
  /\ allocated_count_' = [allocated_count_ EXCEPT ![s] = @ - available_[s]]
  /\ available_' = [available_ EXCEPT ![s] = 0]
  /\ UNCHANGED poolClosed

\* BatchStoragePool::close frees what is available; it is idempotent.
ClosePoolOf(s) ==
  /\ poolClosed' = [poolClosed EXCEPT ![s] = TRUE]
  /\ IF poolClosed[s] THEN UNCHANGED <<allocated_count_, available_>>
     ELSE /\ allocated_count_' = [allocated_count_ EXCEPT ![s] = @ - available_[s]]
          /\ available_' = [available_ EXCEPT ![s] = 0]

ClosePool(t) ==
  /\ \/ /\ pc[t] = "close_host_pool" /\ ClosePoolOf("host")
        /\ Goto(t, IF UsesDevice THEN "close_device_pool" ELSE "notify")
     \/ /\ pc[t] = "close_device_pool" /\ ClosePoolOf("device")
        /\ Goto(t, "notify")
  /\ UNCHANGED <<epochVars, queueVars, callerVars, failVars, epoch, item>>

\* epoch_cv_.notify_all(), called without epoch_mutex_.
NotifyStop(t) ==
  /\ pc[t] = "notify"
  /\ WakeAll(t, IF t = Main THEN "join" ELSE "done")
  /\ UNCHANGED <<epochVars, queueVars, poolVars, callerVars, failVars, epoch, item>>

-----------------------------------------------------------------------------
(* The calling thread: reset_epoch, next, ~Batch and ~Impl.                 *)

\* reset_epoch up to the new generation; the constructor makes the first
\* call.
BeginReset ==
  /\ pc[Main] \in {"construct", "idle"}
  /\ worker_exception_ = "none"
  /\ generation_ < MaxEpochs
  /\ generation_' = generation_ + 1
  /\ next_batch_to_return_' = 0
  /\ Goto(Main, "clear_pending")
  /\ UNCHANGED <<current_epoch_, next_batch_to_prepare, queueVars, poolVars, pending, held,
                 failVars, epoch, item>>

\* Mutant: the pending batches of the last epoch are kept.
ClearPendingNot ==
  /\ pc[Main] = "clear_pending"
  /\ Goto(Main, "clear_host_queue")
  /\ UNCHANGED <<epochVars, queueVars, poolVars, callerVars, failVars, epoch, item>>

ClearPending ==
  /\ pc[Main] = "clear_pending"
  /\ pending' = {} /\ Release(Some(Out, Cardinality(pending)))
  /\ Goto(Main, "clear_host_queue")
  /\ UNCHANGED <<epochVars, queueVars, next_batch_to_return_, held, failVars, epoch, item>>

ClearQueueOf(s) ==
  /\ queue' = [queue EXCEPT ![s] = <<>>]
  /\ Release(Some(s, Len(queue[s])))

ClearQueue ==
  /\ \/ /\ pc[Main] = "clear_host_queue" /\ ClearQueueOf("host")
        /\ Goto(Main, IF UsesDevice THEN "clear_device_queue" ELSE "publish")
     \/ /\ pc[Main] = "clear_device_queue" /\ ClearQueueOf("device")
        /\ Goto(Main, "publish")
  /\ UNCHANGED <<epochVars, closed, callerVars, failVars, epoch, item>>

\* Mutant: current_epoch_ is stored without epoch_mutex_.
PublishUnlocked ==
  /\ pc[Main] = "publish"
  /\ current_epoch_' = generation_
  /\ Goto(Main, "notify_epoch")
  /\ UNCHANGED <<generation_, next_batch_to_prepare, queueVars, poolVars, callerVars, failVars, epoch, item>>

\* The new EpochState, stored under epoch_mutex_.
PublishEpoch ==
  /\ pc[Main] = "publish" /\ EpochMutexFree
  /\ current_epoch_' = generation_
  /\ Goto(Main, "notify_epoch")
  /\ UNCHANGED <<generation_, next_batch_to_prepare, queueVars, poolVars, callerVars, failVars, epoch, item>>

\* Mutant: nobody is notified.
NotifyEpochNot ==
  /\ pc[Main] = "notify_epoch"
  /\ Goto(Main, "idle")
  /\ UNCHANGED <<epochVars, queueVars, poolVars, callerVars, failVars, epoch, item>>

\* epoch_cv_.notify_all(), after epoch_mutex_ was released.
NotifyEpoch ==
  /\ pc[Main] = "notify_epoch"
  /\ WakeAll(Main, "idle")
  /\ UNCHANGED <<epochVars, queueVars, poolVars, callerVars, failVars, epoch, item>>

\* Mutant: next_batch_to_return_ is not advanced.
DeliverSameIndex(b) ==
  /\ held' = held \cup {b}
  /\ Goto(Main, "idle") /\ UNCHANGED next_batch_to_return_

\* The batch b reaches the caller as the next one.
Deliver(b) ==
  /\ held' = held \cup {b}
  /\ next_batch_to_return_' = next_batch_to_return_ + 1
  /\ Goto(Main, "idle")

\* next(): a stored exception makes it throw; a pending batch is returned.
CallNext ==
  /\ pc[Main] = "idle" /\ worker_exception_ = "none"
  /\ next_batch_to_return_ < TotalBatches
  /\ Cardinality(held) < MaxHeld
  /\ \/ \E b \in pending : /\ b.idx = next_batch_to_return_
                           /\ pending' = pending \ {b}
                           /\ Deliver(b)
     \/ /\ \A b \in pending : b.idx # next_batch_to_return_
        /\ Goto(Main, "pop") /\ UNCHANGED <<pending, held, next_batch_to_return_>>
  /\ UNCHANGED <<epochVars, queueVars, poolVars, failVars, epoch, item>>

\* Mutant: a batch that arrives early is dropped instead of kept pending.
PopDroppingEarly ==
  /\ pc[Main] = "pop" /\ queue[Out] # <<>>
  /\ queue' = [queue EXCEPT ![Out] = Tail(@)]
  /\ LET b == Head(queue[Out])
     IN IF b.gen = generation_ /\ b.idx = next_batch_to_return_
        THEN Deliver(b) /\ UNCHANGED <<poolVars, pending>>
        ELSE Release(OneOf(Out)) /\ UNCHANGED <<callerVars, pc>>
  /\ UNCHANGED <<epochVars, closed, failVars, epoch, item>>

\* Mutant: the generation of a popped batch is not tested.
PopAnyGeneration ==
  /\ pc[Main] = "pop" /\ queue[Out] # <<>>
  /\ queue' = [queue EXCEPT ![Out] = Tail(@)]
  /\ LET b == Head(queue[Out])
     IN IF b.idx = next_batch_to_return_
        THEN Deliver(b) /\ UNCHANGED <<poolVars, pending>>
        ELSE /\ pending' = pending \cup {b}
             /\ UNCHANGED <<poolVars, next_batch_to_return_, held, pc>>
  /\ UNCHANGED <<epochVars, closed, failVars, epoch, item>>

\* One turn of the loop of next_from_queue on a popped batch.
Pop ==
  /\ pc[Main] = "pop" /\ queue[Out] # <<>>
  /\ queue' = [queue EXCEPT ![Out] = Tail(@)]
  /\ LET b == Head(queue[Out])
         known == \E p \in pending : p.idx = b.idx
     IN \/ /\ b.gen # generation_
           /\ Release(OneOf(Out)) /\ UNCHANGED <<callerVars, pc>>
        \/ /\ b.gen = generation_ /\ b.idx = next_batch_to_return_
           /\ Deliver(b) /\ UNCHANGED <<poolVars, pending>>
        \/ /\ b.gen = generation_ /\ b.idx # next_batch_to_return_
           /\ IF known THEN Release(OneOf(Out)) /\ UNCHANGED pending
              ELSE pending' = pending \cup {b} /\ UNCHANGED poolVars
           /\ UNCHANGED <<next_batch_to_return_, held, pc>>
  /\ UNCHANGED <<epochVars, closed, failVars, epoch, item>>

\* The queue is closed and drained: next throws, whatever was stored.
PopClosed ==
  /\ pc[Main] = "pop" /\ queue[Out] = <<>> /\ closed[Out]
  /\ Goto(Main, "idle")
  /\ UNCHANGED <<epochVars, queueVars, poolVars, callerVars, failVars, epoch, item>>

\* The caller drops a Batch; after ~Impl the pool is gone and the storage is
\* simply freed.
DropBatch(b) ==
  /\ pc[Main] \in {"idle", "destroyed"}
  /\ held' = held \ {b}
  /\ IF pc[Main] = "idle" THEN Release(OneOf(Out)) ELSE UNCHANGED poolVars
  /\ UNCHANGED <<epochVars, queueVars, next_batch_to_return_, pending, failVars, pc, epoch, item>>

\* ~Impl calls stop_workers.
Destroy ==
  /\ pc[Main] = "idle"
  /\ Goto(Main, "raise_stop")
  /\ UNCHANGED <<epochVars, queueVars, poolVars, callerVars, failVars, epoch, item>>

Join ==
  /\ pc[Main] = "join" /\ \A t \in Producers : pc[t] = "done"
  /\ Goto(Main, "destroyed")
  /\ UNCHANGED <<epochVars, queueVars, poolVars, callerVars, failVars, epoch, item>>

-----------------------------------------------------------------------------
Init ==
  /\ generation_ = 0 /\ current_epoch_ = 0
  /\ next_batch_to_prepare = [g \in 1..MaxEpochs |-> 0]
  /\ queue = [s \in Stages |-> <<>>] /\ closed = [s \in Stages |-> FALSE]
  /\ allocated_count_ = [s \in Stages |-> 0]
  /\ available_ = [s \in Stages |-> 0]
  /\ poolClosed = [s \in Stages |-> FALSE]
  /\ next_batch_to_return_ = 0 /\ pending = {} /\ held = {}
  /\ stop_requested_ = FALSE /\ worker_exception_ = "none"
  /\ pc = [t \in Threads |-> IF t = Main THEN "construct"
                             ELSE IF t # Transfer THEN "outer"
                             ELSE IF UsesDevice THEN "loop" ELSE "done"]
  /\ epoch = [w \in Workers |-> 0]
  /\ item = [t \in Producers |-> NoItem]

\* The handlers of a failing producer and of the destructor.
Shutdown(t) == RaiseStop(t) \/ CloseQueue(t) \/ ClosePool(t) \/ NotifyStop(t)

WorkerStep(w) ==
  \/ AwaitEpoch(w) \/ FallAsleep(w) \/ Fetch(w) \/ Decode(w) \/ ValidateEpoch(w)
  \/ Acquire(w) \/ AcquireThrows(w) \/ Push(w)
  \/ CatchException(w) \/ Shutdown(w)

TransferStep ==
  \/ TransferLoop \/ TransferPop \/ TransferValidate \/ TransferCopy \/ TransferRevalidate \/ TransferDrop
  \/ Acquire(Transfer) \/ AcquireThrows(Transfer) \/ Push(Transfer)
  \/ CatchException(Transfer) \/ Shutdown(Transfer)

\* What the calling thread does inside a call it has made.
CallStep ==
  \/ ClearPending \/ ClearQueue \/ PublishEpoch \/ NotifyEpoch
  \/ Pop \/ PopClosed \/ Shutdown(Main) \/ Join

\* What the caller may choose to do between calls.
CallerChoice == BeginReset \/ CallNext \/ (\E b \in held : DropBatch(b)) \/ Destroy

Next == (\E w \in Workers : WorkerStep(w)) \/ TransferStep \/ CallStep \/ CallerChoice

Spec == Init /\ [][Next]_vars

\* Every thread that can run does run; the caller is never obliged to call.
Fairness ==
  /\ \A w \in Workers : WF_vars(WorkerStep(w))
  /\ WF_vars(TransferStep)
  /\ WF_vars(CallStep)

FairSpec == Spec /\ Fairness

-----------------------------------------------------------------------------
(* Properties. *)

Labels == {"construct", "idle", "clear_pending", "clear_host_queue", "clear_device_queue",
           "publish", "notify_epoch", "join", "destroyed",
           "outer", "checked", "asleep", "fetch", "decode",
           "loop", "pop", "validate", "acquire", "copy", "revalidate", "push", "drop", "done",
           "catch_failure", "catch_closed", "raise_stop", "close_host_queue",
           "close_device_queue", "close_host_pool", "close_device_pool", "notify"}

\* The variables hold values of the types the code declares.  (That
\* allocated_count_ never wraps below zero is part of PoolAccounting.)
TypeOK ==
  /\ generation_ \in 0..MaxEpochs /\ current_epoch_ \in 0..MaxEpochs
  /\ next_batch_to_prepare \in [1..MaxEpochs -> Nat]
  /\ queue \in [Stages -> Seq(Batch)] /\ closed \in [Stages -> BOOLEAN]
  /\ allocated_count_ \in [Stages -> Int] /\ available_ \in [Stages -> Nat]
  /\ poolClosed \in [Stages -> BOOLEAN]
  /\ next_batch_to_return_ \in Nat /\ pending \subseteq Batch /\ held \subseteq Batch
  /\ stop_requested_ \in BOOLEAN
  /\ worker_exception_ \in {"none", "failure", "pool_closed"}
  /\ pc \in [Threads -> Labels]
  /\ epoch \in [Workers -> 0..MaxEpochs]
  /\ item \in [Producers -> Batch]

\* The storages of stage s that are out of their pool.
InUse(s) ==
  Cardinality({t \in Producers : Owned(t)[s] = 1}) + Len(queue[s])
    + (IF s = Out THEN Cardinality(pending) + Cardinality(held) ELSE 0)

\* However acquisitions, resets, failures and closing interleave, a pool's
\* allocated_count_ counts exactly the free storages and those that workers,
\* queue, pending map and caller hold, and never exceeds the capacity the
\* memory budget paid for (BatchStoragePool).
PoolAccounting ==
  pc[Main] # "destroyed" =>
    \A s \in Stages : /\ allocated_count_[s] = available_[s] + InUse(s)
                      /\ allocated_count_[s] <= PoolCapacity[s]

\* Where batch i of the current epoch may be.
Copies(i) ==
  LET b == [gen |-> generation_, idx |-> i] IN
    Cardinality({t \in Producers : item[t] = b})
      + Cardinality({x \in Stages \X (1..HostPrefetch + DevicePrefetch) :
                       x[2] <= Len(queue[x[1]]) /\ queue[x[1]][x[2]] = b})
      + (IF b \in pending THEN 1 ELSE 0)
      + (IF i < next_batch_to_return_ THEN 1 ELSE 0)

\* A producer has failed and is about to raise the stop.
Failing == \E t \in Producers : pc[t] \in {"catch_failure", "catch_closed", "raise_stop"}

\* Once an epoch is published, every index handed out by fetch_add is in one
\* place only (a producer, a queue, the pending map or already returned) and
\* indices not handed out are nowhere: two threads, two queues and the
\* out-of-order map neither lose nor duplicate a batch.  After a failure a
\* batch may be lost, never duplicated.
NothingLostOrDuplicated ==
  (generation_ > 0 /\ current_epoch_ = generation_) =>
    \A i \in 0..TotalBatches - 1 :
      IF i >= next_batch_to_prepare[generation_] THEN Copies(i) = 0
      ELSE /\ Copies(i) <= 1
           /\ Copies(i) = 0 => stop_requested_ \/ Failing

\* next returns the batches of the current epoch in index order, whichever
\* worker finished first and whatever a reset left in flight.
DeliveryInOrder ==
  [][\A b \in held' \ held :
       b = [gen |-> generation_, idx |-> next_batch_to_return_]]_vars

\* next never ends in "queue closed before expected batch was produced": a
\* queue is seen closed only after the exception that explains it was stored.
ClosedQueueIsExplained ==
  pc[Main] = "pop" /\ closed[Out] => worker_exception_ # "none"

\* The exception the caller gets is the first cause, never the
\* "BatchStoragePool is closed" that other threads meet as a consequence.
RootCauseReported == worker_exception_ # "pool_closed"

\* No worker sleeps through the publication of an epoch: one asleep on
\* epoch_cv_ has seen the current epoch, or a notification is on its way.
EpochNotMissed ==
  \A w \in Workers : pc[w] = "asleep" =>
    epoch[w] = current_epoch_ \/ pc[Main] = "notify_epoch"

\* A call of next returns or throws: the queue it waits on is refilled or
\* closed.
NextReturns == (pc[Main] = "pop") ~> (pc[Main] # "pop")

\* The batches that came early, and those the caller kept, own every storage
\* of the pool that the awaited batch needs one from.
Exhausted ==
  pc[Main] = "pop" /\ Cardinality(pending) + Cardinality(held) >= PoolCapacity[Out]

\* That is the only way to wait for ever: in all other executions, failing
\* ones included, each call of next returns or throws.
NextReturnsUnlessExhausted == []~Exhausted => NextReturns

\* A worker asleep on epoch_cv_, or about to be, after the last notification
\* of a shutdown.
ShutdownLabels == {"raise_stop", "close_host_queue", "close_device_queue",
                   "close_host_pool", "close_device_pool", "notify"}
MissedStop ==
  /\ stop_requested_ /\ \A t \in Threads : pc[t] \notin ShutdownLabels
  /\ \E w \in Workers : pc[w] \in {"checked", "asleep"}

\* ~Impl joins every thread: whatever a worker or the transfer worker waits
\* for (a full queue, an empty queue, an exhausted pool) closing ends the wait.
DestructorReturns == (pc[Main] = "raise_stop") ~> (pc[Main] = "destroyed")

\* The same, in the executions in which no worker falls asleep on epoch_cv_
\* after stop_workers has notified it.
DestructorReturnsUnlessStopMissed == []~MissedStop => DestructorReturns

=============================================================================
