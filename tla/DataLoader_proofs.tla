------------------------- MODULE DataLoader_proofs -------------------------
(***************************************************************************)
(* Theorems about DataLoader, for every set of workers, number of batches, *)
(* prefetch depth and number of epochs.  The invariant IInv strengthens    *)
(* the properties until each action preserves it.                          *)
(***************************************************************************)
EXTENDS DataLoader, FiniteSetTheorems, TLAPS

WorkerLabels == {"outer", "checked", "asleep", "fetch", "acquire", "decode", "validate",
                 "push", "done", "catch_failure", "catch_closed"} \cup ShutdownLabels
TransferLabels == {"loop", "pop", "validate", "acquire", "copy", "revalidate", "push",
                   "drop", "done", "catch_failure", "catch_closed"} \cup ShutdownLabels
MainLabels == {"construct", "idle", "clear_pending", "clear_host_queue",
               "clear_device_queue", "publish", "notify_epoch", "pop", "join",
               "destroyed"} \cup ShutdownLabels

\* Each thread runs its own function.
LabelsOK ==
  /\ pc[Main] \in MainLabels
  /\ pc[Transfer] \in TransferLabels
  /\ \A w \in Workers : pc[w] \in WorkerLabels

\* Epochs are published and seen in order; a worker preparing batches does
\* so for an epoch it has seen.
Preparing == {"fetch", "acquire", "decode", "validate", "push"}
EpochOrder ==
  /\ current_epoch_ <= generation_
  /\ \A w \in Workers : /\ epoch[w] <= current_epoch_
                        /\ pc[w] \in Preparing => epoch[w] >= 1

\* A worker between its predicate and its sleep still holds epoch_mutex_, so
\* what it saw is current; asleep, it may only miss what will be notified.
SleepersInformed ==
  /\ \A w \in Workers : pc[w] = "checked" => epoch[w] = current_epoch_
  /\ EpochNotMissed

\* The caller is inside stop_workers, where it stays.
MainStopping == pc[Main] \in ShutdownLabels \cup {"join", "destroyed"}

\* Someone stopped the loader for a reason that is on record.
Explained == worker_exception_ # "none" \/ MainStopping

StopExplained ==
  /\ stop_requested_ => Explained
  /\ \A t \in Producers : pc[t] \in ShutdownLabels => Explained
  /\ \A t \in Threads :
       pc[t] \in (ShutdownLabels \ {"raise_stop"}) \cup {"catch_closed"} => stop_requested_
  /\ \A s \in Stages : closed[s] \/ poolClosed[s] => stop_requested_
  /\ worker_exception_ # "pool_closed"

\* The pending map is finite and holds batches of the current generation.
PendingCurrent ==
  /\ IsFiniteSet(pending)
  /\ pc[Main] # "clear_pending" => \A b \in pending : b.gen = generation_

IInv == /\ TypeOK /\ LabelsOK /\ EpochOrder
        /\ SleepersInformed /\ StopExplained /\ PendingCurrent

-----------------------------------------------------------------------------
(* The operators the actions are built from. *)

USE ThreadsAssumption, OptionsAssumption

\* What the producers and the caller do to one function each: Release and
\* ClosePoolOf keep the pools well typed.
LEMMA ReleaseType ==
  ASSUME TypeOK, NEW n \in [Stages -> Nat], Release(n)
  PROVE  /\ allocated_count_' \in [Stages -> Int]
         /\ available_' \in [Stages -> Nat]
         /\ poolClosed' = poolClosed
  BY DEF TypeOK, Release

LEMMA ClosePoolType ==
  ASSUME TypeOK, NEW s \in Stages, ClosePoolOf(s)
  PROVE  /\ allocated_count_' \in [Stages -> Int]
         /\ available_' \in [Stages -> Nat]
         /\ poolClosed' \in [Stages -> BOOLEAN]
<1>1. /\ allocated_count_ \in [Stages -> Int] /\ available_ \in [Stages -> Nat]
      /\ poolClosed \in [Stages -> BOOLEAN]
  BY DEF TypeOK
<1>2. poolClosed' \in [Stages -> BOOLEAN]
  BY <1>1, Zenon DEF ClosePoolOf
<1>3. \/ UNCHANGED <<allocated_count_, available_>>
      \/ /\ allocated_count_' = [allocated_count_ EXCEPT ![s] = @ - available_[s]]
         /\ available_' = [available_ EXCEPT ![s] = 0]
  BY Zenon DEF ClosePoolOf
<1> QED
  BY <1>1, <1>2, <1>3

LEMMA CountTypes ==
  /\ \A s \in Stages : OneOf(s) \in [Stages -> Nat]
  /\ Both \in [Stages -> Nat]
  /\ \A s \in Stages, k \in Nat : Some(s, k) \in [Stages -> Nat]
  /\ \A t \in Producers : Owned(t) \in [Stages -> Nat]
<1>1. \A s \in Stages : OneOf(s) \in [Stages -> Nat]
  BY DEF OneOf
<1>2. Both \in [Stages -> Nat]
  BY DEF Both
<1>3. \A s \in Stages, k \in Nat : Some(s, k) \in [Stages -> Nat]
  BY DEF Some
<1>4. \A t \in Producers : Owned(t) \in [Stages -> Nat]
  BY DEF Owned, Stages
<1> QED
  BY <1>1, <1>2, <1>3, <1>4

LEMMA InitIInv == Init => IInv
<1> SUFFICES ASSUME Init PROVE IInv
  OBVIOUS
<1> USE DEF Init, Threads, Producers
<1>1. TypeOK
  <2>1. /\ queue \in [Stages -> Seq(Batch)] /\ closed \in [Stages -> BOOLEAN]
        /\ poolClosed \in [Stages -> BOOLEAN]
    OBVIOUS
  <2>2. NoItem \in Batch
    BY DEF NoItem, Batch
  <2>3. pc \in [Threads -> Labels] /\ item \in [Producers -> Batch]
    BY <2>2 DEF Labels
  <2>4. /\ generation_ \in 0..MaxEpochs /\ current_epoch_ \in 0..MaxEpochs
        /\ next_batch_to_prepare \in [1..MaxEpochs -> Nat]
        /\ epoch \in [Workers -> 0..MaxEpochs]
    OBVIOUS
  <2>5. allocated_count_ \in [Stages -> Int] /\ available_ \in [Stages -> Nat]
    OBVIOUS
  <2>6. next_batch_to_return_ \in Nat /\ pending \subseteq Batch /\ held \subseteq Batch
    OBVIOUS
  <2>7. stop_requested_ \in BOOLEAN /\ worker_exception_ \in {"none", "failure", "pool_closed"}
    OBVIOUS
  <2> HIDE DEF Init
  <2> QED
    BY <2>1, <2>3, <2>4, <2>5, <2>6, <2>7 DEF TypeOK
<1>2. LabelsOK
  BY DEF LabelsOK, WorkerLabels, TransferLabels, MainLabels
<1>3. EpochOrder /\ SleepersInformed
  BY DEF EpochOrder, Preparing, SleepersInformed, EpochNotMissed
<1>4. StopExplained
  BY DEF StopExplained, ShutdownLabels
<1>5. PendingCurrent
  BY FS_EmptySet DEF PendingCurrent
<1> QED
  BY <1>1, <1>2, <1>3, <1>4, <1>5 DEF IInv

-----------------------------------------------------------------------------
(* Each conjunct of IInv is preserved. *)

LEMMA LabelsStep == IInv /\ Next => LabelsOK'
<1> SUFFICES ASSUME IInv, Next PROVE LabelsOK'
  OBVIOUS
<1> USE DEF LabelsOK, WorkerLabels, TransferLabels, MainLabels, ShutdownLabels,
            Goto, WakeAll, Threads, Producers
<1>0. /\ pc \in [Threads -> Labels] /\ LabelsOK
  BY DEF IInv, TypeOK
<1>1. ASSUME NEW w \in Workers, WorkerStep(w) PROVE LabelsOK'
  BY <1>0, <1>1 DEF WorkerStep, AwaitEpoch, FallAsleep, Fetch, Decode, ValidateEpoch,
       Acquire, AcquireThrows, Push, CatchException, Shutdown, RaiseStop, CloseQueue,
       ClosePool, NotifyStop
<1>2. CASE TransferStep
  BY <1>0, <1>2 DEF TransferStep, TransferLoop, TransferPop, TransferValidate, TransferCopy,
       TransferRevalidate, TransferDrop,
       Acquire, AcquireThrows, Push, CatchException, Shutdown, RaiseStop, CloseQueue,
       ClosePool, NotifyStop
<1>3. CASE CallStep
  BY <1>0, <1>3 DEF CallStep, ClearPending, ClearQueue, PublishEpoch, NotifyEpoch, Pop,
       PopClosed, Deliver, Join, Shutdown, RaiseStop, CloseQueue, ClosePool, NotifyStop
<1>4. CASE CallerChoice
  BY <1>0, <1>4 DEF CallerChoice, BeginReset, CallNext, Deliver, DropBatch, Destroy
<1> QED
  BY <1>1, <1>2, <1>3, <1>4 DEF Next

LEMMA PcTypeStep == IInv /\ Next => pc' \in [Threads -> Labels]
<1> SUFFICES ASSUME IInv, Next PROVE pc' \in [Threads -> Labels]
  OBVIOUS
<1>1. /\ pc \in [Threads -> Labels]
      /\ Main \in Threads /\ Transfer \in Threads /\ \A w \in Workers : w \in Threads
  BY DEF IInv, TypeOK, Threads, Producers
<1>2. \A t \in Threads, label \in Labels : Goto(t, label) => pc' \in [Threads -> Labels]
  BY <1>1 DEF Goto
<1>3. \A t \in Threads, label \in Labels : WakeAll(t, label) => pc' \in [Threads -> Labels]
  <2>1. "outer" \in Labels
    BY DEF Labels
  <2> QED
    BY <1>1, <2>1 DEF WakeAll
<1> USE DEF Labels, Shutdown
<1>4. \A t \in Threads : RaiseStop(t) \/ CloseQueue(t) \/ ClosePool(t) \/ NotifyStop(t)
        => pc' \in [Threads -> Labels]
  BY <1>2, <1>3 DEF RaiseStop, CloseQueue, ClosePool, NotifyStop
<1>5. \A t \in Threads : Acquire(t) \/ AcquireThrows(t) \/ Push(t) \/ CatchException(t)
        => pc' \in [Threads -> Labels]
  BY <1>2 DEF Acquire, AcquireThrows, Push, CatchException
<1>6. ASSUME NEW w \in Workers, WorkerStep(w) PROVE pc' \in [Threads -> Labels]
  BY <1>1, <1>2, <1>4, <1>5, <1>6
     DEF WorkerStep, AwaitEpoch, FallAsleep, Fetch, Decode, ValidateEpoch
<1>7. CASE TransferStep
  BY <1>1, <1>2, <1>4, <1>5, <1>7
     DEF TransferStep, TransferLoop, TransferPop, TransferValidate, TransferCopy,
         TransferRevalidate, TransferDrop
<1>8. CASE CallStep
  BY <1>1, <1>2, <1>3, <1>4, <1>8
     DEF CallStep, ClearPending, ClearQueue, PublishEpoch, NotifyEpoch, Pop, Deliver,
         PopClosed, Join
<1>9. CASE CallerChoice
  BY <1>1, <1>2, <1>9 DEF CallerChoice, BeginReset, CallNext, Deliver, DropBatch, Destroy
<1> QED
  BY <1>6, <1>7, <1>8, <1>9 DEF Next

\* The pools: only Release, ClosePoolOf and Acquire change them.
PoolTypes == /\ allocated_count_ \in [Stages -> Int]
             /\ available_ \in [Stages -> Nat]
             /\ poolClosed \in [Stages -> BOOLEAN]

LEMMA PoolTypeStep == IInv /\ Next => PoolTypes'
<1> SUFFICES ASSUME IInv, Next PROVE PoolTypes'
  OBVIOUS
<1>0. TypeOK /\ PoolTypes
  BY DEF IInv, TypeOK, PoolTypes
<1>a. UNCHANGED poolVars => PoolTypes'
  BY <1>0 DEF poolVars, PoolTypes
<1>b. \A n \in [Stages -> Nat] : Release(n) => PoolTypes'
  BY <1>0, ReleaseType DEF PoolTypes
<1>c. \A s \in Stages : ClosePoolOf(s) => PoolTypes'
  BY <1>0, ClosePoolType DEF PoolTypes
<1>d. /\ Transfer \in Producers /\ "host" \in Stages /\ "device" \in Stages /\ Out \in Stages
      /\ \A t \in Producers : StageOf(t) \in Stages
  BY DEF Producers, Stages, Out, StageOf
<1>e. /\ Some(Out, Cardinality(pending)) \in [Stages -> Nat]
      /\ \A s \in Stages : OneOf(s) \in [Stages -> Nat]
      /\ \A s \in Stages : Some(s, Len(queue[s])) \in [Stages -> Nat]
      /\ Both \in [Stages -> Nat]
      /\ \A t \in Producers : Owned(t) \in [Stages -> Nat]
  <2>1. Cardinality(pending) \in Nat
    BY FS_CardinalityType DEF IInv, PendingCurrent
  <2>2. \A s \in Stages : Len(queue[s]) \in Nat
    BY <1>0 DEF TypeOK
  <2> QED
    BY CountTypes, <1>d, <2>1, <2>2
<1>f. ASSUME NEW t \in Producers, Acquire(t) \/ AcquireThrows(t) \/ Push(t) PROVE PoolTypes'
  <2>1. CASE Acquire(t)
    BY <1>0, <1>d, <2>1 DEF Acquire, PoolTypes
  <2>2. CASE AcquireThrows(t)
    BY <1>b, <1>e, <2>2 DEF AcquireThrows
  <2>3. CASE Push(t)
    BY <1>a, <1>b, <1>e, <2>3 DEF Push
  <2> QED
    BY <1>f, <2>1, <2>2, <2>3
<1>g. ASSUME NEW t \in Threads, Shutdown(t) PROVE PoolTypes'
  BY <1>a, <1>c, <1>d, <1>g DEF Shutdown, RaiseStop, CloseQueue, ClosePool, NotifyStop
<1>1. ASSUME NEW w \in Workers, WorkerStep(w) PROVE PoolTypes'
  <2>1. w \in Producers /\ w \in Threads
    BY DEF Producers, Threads
  <2> QED
    BY <1>a, <1>b, <1>d, <1>e, <1>f, <1>g, <1>1, <2>1
       DEF WorkerStep, AwaitEpoch, FallAsleep, Fetch, Decode, ValidateEpoch, CatchException
<1>2. CASE TransferStep
  <2>1. Transfer \in Threads
    BY DEF Threads, Producers
  <2> QED
    BY <1>a, <1>b, <1>d, <1>e, <1>f, <1>g, <1>2, <2>1
       DEF TransferStep, TransferLoop, TransferPop, TransferValidate, TransferCopy,
           TransferRevalidate, TransferDrop, CatchException
<1>3. CASE CallStep
  <2>1. Main \in Threads
    BY DEF Threads
  <2> QED
    BY <1>a, <1>b, <1>d, <1>e, <1>g, <1>3, <2>1
       DEF CallStep, ClearPending, ClearQueue, ClearQueueOf, PublishEpoch, NotifyEpoch,
           Pop, PopClosed, Join
<1>4. CASE CallerChoice
  BY <1>a, <1>b, <1>d, <1>e, <1>4 DEF CallerChoice, BeginReset, CallNext, DropBatch, Destroy
<1> QED
  BY <1>1, <1>2, <1>3, <1>4 DEF Next

LEMMA TypeStep == IInv /\ Next => TypeOK'
<1> SUFFICES ASSUME IInv, Next PROVE TypeOK'
  OBVIOUS
<1> DEFINE
  EpochTypes == /\ generation_ \in 0..MaxEpochs /\ current_epoch_ \in 0..MaxEpochs
                /\ next_batch_to_prepare \in [1..MaxEpochs -> Nat]
                /\ epoch \in [Workers -> 0..MaxEpochs]
  QueueTypes == queue \in [Stages -> Seq(Batch)] /\ closed \in [Stages -> BOOLEAN]
  CallerTypes == next_batch_to_return_ \in Nat /\ pending \subseteq Batch /\ held \subseteq Batch
  FailTypes == /\ stop_requested_ \in BOOLEAN
               /\ worker_exception_ \in {"none", "failure", "pool_closed"}
  ItemTypes == item \in [Producers -> Batch]
<1>0. EpochTypes /\ QueueTypes /\ CallerTypes /\ FailTypes /\ ItemTypes /\ EpochOrder
  BY DEF IInv, TypeOK
<1>a. /\ UNCHANGED <<epochVars, epoch>> => EpochTypes'
      /\ UNCHANGED queueVars => QueueTypes'
      /\ UNCHANGED callerVars => CallerTypes'
      /\ UNCHANGED failVars => FailTypes'
      /\ UNCHANGED item => ItemTypes'
  BY <1>0 DEF epochVars, queueVars, callerVars, failVars
<1>b. /\ Transfer \in Producers /\ "host" \in Stages /\ "device" \in Stages /\ Out \in Stages
      /\ \A t \in Producers : StageOf(t) \in Stages
      /\ \A w \in Workers : w \in Producers
      /\ NoItem \in Batch
  BY DEF Producers, Stages, Out, StageOf, NoItem, Batch
<1> USE DEF Shutdown
<1>c. ASSUME NEW t \in Producers, Push(t) PROVE QueueTypes'
  <2>1. item[t] \in Batch /\ queue[StageOf(t)] \in Seq(Batch)
    BY <1>0, <1>b
  <2>2. Append(queue[StageOf(t)], item[t]) \in Seq(Batch)
    BY <2>1
  <2>3. /\ closed' = closed
        /\ \/ queue' = queue
           \/ queue' = [queue EXCEPT ![StageOf(t)] = Append(@, item[t])]
    BY <1>c DEF Push
  <2> QED
    BY <1>0, <1>b, <2>2, <2>3
<1>d. \A t \in Threads : CloseQueue(t) => QueueTypes'
  BY <1>0, <1>b DEF CloseQueue
<1>e. \A s \in Stages : ClearQueueOf(s) /\ UNCHANGED closed => QueueTypes'
  BY <1>0 DEF ClearQueueOf
<1>f. \A t \in Producers : item' = [item EXCEPT ![t] = NoItem] => ItemTypes'
  BY <1>0, <1>b
<1> USE DEF Shutdown
<1>1. EpochTypes'
  <2> HIDE DEF EpochTypes
  <2>1. ASSUME NEW w \in Workers, WorkerStep(w) PROVE EpochTypes'
    <3>1. CASE AwaitEpoch(w)
      BY <1>0, <3>1 DEF AwaitEpoch, EpochTypes, epochVars
    <3>2. CASE Fetch(w)
      <4>1. /\ UNCHANGED <<generation_, current_epoch_, epoch>>
            /\ \/ UNCHANGED next_batch_to_prepare
               \/ next_batch_to_prepare' =
                    [next_batch_to_prepare EXCEPT ![epoch[w]] = next_batch_to_prepare[epoch[w]] + 1]
        BY <3>2 DEF Fetch
      <4>2. epoch[w] \in 1..MaxEpochs
        BY <1>0, <3>2 DEF Fetch, EpochOrder, Preparing, EpochTypes
      <4>3. next_batch_to_prepare \in [1..MaxEpochs -> Nat]
        BY <1>0 DEF EpochTypes
      <4>4. next_batch_to_prepare[epoch[w]] + 1 \in Nat
        BY <4>2, <4>3
      <4>5. next_batch_to_prepare' \in [1..MaxEpochs -> Nat]
        BY <4>1, <4>3, <4>4, Zenon
      <4> QED
        BY <1>0, <4>1, <4>5 DEF EpochTypes
    <3> QED
      BY <1>a, <2>1, <3>1, <3>2
         DEF WorkerStep, FallAsleep, Decode, ValidateEpoch, Acquire, AcquireThrows, Push,
             CatchException, RaiseStop, CloseQueue, ClosePool, NotifyStop
  <2>2. CASE TransferStep
    BY <1>a, <2>2
       DEF TransferStep, TransferLoop, TransferPop, TransferValidate, TransferCopy,
           TransferRevalidate, TransferDrop, Acquire, AcquireThrows, Push,
           CatchException, RaiseStop, CloseQueue, ClosePool, NotifyStop
  <2>3. CASE CallStep
    <3>1. CASE PublishEpoch
      BY <1>0, <3>1 DEF PublishEpoch, EpochTypes
    <3> QED
      BY <1>a, <2>3, <3>1
         DEF CallStep, ClearPending, ClearQueue, NotifyEpoch, Pop, PopClosed, Join,
             RaiseStop, CloseQueue, ClosePool, NotifyStop
  <2>4. CASE CallerChoice
    <3>1. CASE BeginReset
      BY <1>0, <3>1 DEF BeginReset, EpochTypes
    <3> QED
      BY <1>a, <2>4, <3>1 DEF CallerChoice, CallNext, DropBatch, Destroy
  <2> QED
    BY <2>1, <2>2, <2>3, <2>4 DEF Next
<1>2. QueueTypes'
  <2> HIDE DEF QueueTypes
  <2>1. ASSUME NEW w \in Workers, WorkerStep(w) PROVE QueueTypes'
    BY <1>a, <1>b, <1>c, <1>d, <2>1
       DEF WorkerStep, AwaitEpoch, FallAsleep, Fetch, Decode, ValidateEpoch, Acquire,
           AcquireThrows, CatchException, RaiseStop, ClosePool, NotifyStop, Threads
  <2>2. CASE TransferStep
    <3>1. CASE TransferPop
      <4>1. /\ closed' = closed
            /\ \/ queue' = queue
               \/ /\ queue["host"] # <<>>
                  /\ queue' = [queue EXCEPT !["host"] = Tail(@)]
        BY <3>1 DEF TransferPop
      <4>2. queue["host"] \in Seq(Batch)
        BY <1>0, <1>b DEF QueueTypes
      <4>3. queue["host"] # <<>> => Tail(queue["host"]) \in Seq(Batch)
        BY <4>2
      <4> QED
        BY <1>0, <1>b, <4>1, <4>3 DEF QueueTypes
    <3> QED
      BY <1>a, <1>b, <1>c, <1>d, <2>2, <3>1
         DEF TransferStep, TransferLoop, TransferValidate, TransferCopy,
             TransferRevalidate, TransferDrop, Acquire, AcquireThrows,
             CatchException, RaiseStop, ClosePool, NotifyStop, Threads
  <2>3. CASE CallStep
    <3>1. CASE Pop
      BY <1>0, <1>b, <3>1 DEF Pop, QueueTypes
    <3> QED
      BY <1>a, <1>b, <1>d, <1>e, <2>3, <3>1
         DEF CallStep, ClearPending, ClearQueue, PublishEpoch, NotifyEpoch,
             PopClosed, Join, RaiseStop, ClosePool, NotifyStop, Threads
  <2>4. CASE CallerChoice
    BY <1>a, <2>4 DEF CallerChoice, BeginReset, CallNext, DropBatch, Destroy
  <2> QED
    BY <2>1, <2>2, <2>3, <2>4 DEF Next
<1>3. CallerTypes'
  <2> HIDE DEF CallerTypes
  <2>1. \A b \in Batch : Deliver(b) /\ pending' \subseteq pending => CallerTypes'
    BY <1>0 DEF Deliver, CallerTypes
  <2>2. ASSUME NEW w \in Workers, WorkerStep(w) PROVE CallerTypes'
    BY <1>a, <2>2
       DEF WorkerStep, AwaitEpoch, FallAsleep, Fetch, Decode, ValidateEpoch, Acquire,
           AcquireThrows, Push, CatchException, RaiseStop, CloseQueue, ClosePool, NotifyStop
  <2>3. CASE TransferStep
    BY <1>a, <2>3
       DEF TransferStep, TransferLoop, TransferPop, TransferValidate, TransferCopy,
           TransferRevalidate, TransferDrop, Acquire, AcquireThrows, Push,
           CatchException, RaiseStop, CloseQueue, ClosePool, NotifyStop
  <2>4. CASE CallStep
    <3>1. CASE Pop
      <4>1. Head(queue[Out]) \in Batch
        BY <1>0, <1>b, <3>1 DEF Pop
      <4>2. \/ UNCHANGED callerVars
            \/ Deliver(Head(queue[Out])) /\ UNCHANGED pending
            \/ /\ UNCHANGED <<next_batch_to_return_, held>>
               /\ pending' \subseteq pending \cup {Head(queue[Out])}
        BY <3>1 DEF Pop
      <4> QED
        BY <1>0, <1>a, <2>1, <4>1, <4>2 DEF CallerTypes
    <3>2. CASE ClearPending
      BY <1>0, <3>2 DEF ClearPending, CallerTypes
    <3> QED
      BY <1>a, <2>4, <3>1, <3>2
         DEF CallStep, ClearQueue, PublishEpoch, NotifyEpoch, PopClosed, Join,
             RaiseStop, CloseQueue, ClosePool, NotifyStop
  <2>5. CASE CallerChoice
    <3>1. CASE CallNext
      <4>1. \/ \E b \in pending : pending' = pending \ {b} /\ Deliver(b)
            \/ UNCHANGED callerVars
        BY <3>1 DEF CallNext, callerVars
      <4> QED
        BY <1>0, <1>a, <2>1, <4>1 DEF CallerTypes
    <3>2. CASE BeginReset \/ \E b \in held : DropBatch(b)
      BY <1>0, <3>2 DEF BeginReset, DropBatch, CallerTypes
    <3> QED
      BY <1>a, <2>5, <3>1, <3>2 DEF CallerChoice, Destroy
  <2> QED
    BY <2>2, <2>3, <2>4, <2>5 DEF Next
<1>4. FailTypes'
  <2> HIDE DEF FailTypes
  <2>1. \A t \in Threads : RaiseStop(t) => FailTypes'
    BY <1>0 DEF RaiseStop, FailTypes
  <2>2. \A t \in Threads : CatchException(t) => FailTypes'
    BY <1>0 DEF CatchException, FailTypes
  <2>3. ASSUME NEW w \in Workers, WorkerStep(w) PROVE FailTypes'
    BY <1>a, <2>1, <2>2, <2>3
       DEF WorkerStep, AwaitEpoch, FallAsleep, Fetch, Decode, ValidateEpoch, Acquire,
           AcquireThrows, Push, CloseQueue, ClosePool, NotifyStop, Threads, Producers
  <2>4. CASE TransferStep
    BY <1>a, <2>1, <2>2, <2>4
       DEF TransferStep, TransferLoop, TransferPop, TransferValidate, TransferCopy,
           TransferRevalidate, TransferDrop, Acquire, AcquireThrows, Push,
           CloseQueue, ClosePool, NotifyStop, Threads, Producers
  <2>5. CASE CallStep
    BY <1>a, <2>1, <2>5
       DEF CallStep, ClearPending, ClearQueue, PublishEpoch, NotifyEpoch, Pop, PopClosed,
           Join, CloseQueue, ClosePool, NotifyStop, Threads
  <2>6. CASE CallerChoice
    BY <1>a, <2>6 DEF CallerChoice, BeginReset, CallNext, DropBatch, Destroy
  <2> QED
    BY <2>3, <2>4, <2>5, <2>6 DEF Next
<1>5. ItemTypes'
  <2> HIDE DEF ItemTypes
  <2>1. ASSUME NEW w \in Workers, WorkerStep(w) PROVE ItemTypes'
    <3>1. CASE Fetch(w)
      <4>1. [gen |-> epoch[w], idx |-> next_batch_to_prepare[epoch[w]]] \in Batch
        BY <1>0, <3>1 DEF Fetch, EpochOrder, Preparing, Batch
      <4>2. \/ UNCHANGED item
            \/ item' = [item EXCEPT ![w] =
                           [gen |-> epoch[w], idx |-> next_batch_to_prepare[epoch[w]]]]
        BY <3>1 DEF Fetch
      <4> QED
        BY <1>0, <1>a, <4>1, <4>2 DEF ItemTypes
    <3> QED
      BY <1>a, <1>b, <1>f, <2>1, <3>1
         DEF WorkerStep, AwaitEpoch, FallAsleep, Decode, ValidateEpoch, Acquire,
             AcquireThrows, Push, CatchException, RaiseStop, CloseQueue, ClosePool, NotifyStop
  <2>2. CASE TransferStep
    <3>1. CASE TransferPop
      <4>1. \/ UNCHANGED item
            \/ queue["host"] # <<>> /\ item' = [item EXCEPT ![Transfer] = Head(queue["host"])]
        BY <3>1 DEF TransferPop
      <4>2. queue["host"] \in Seq(Batch)
        BY <1>0, <1>b
      <4>3. queue["host"] # <<>> => Head(queue["host"]) \in Batch
        BY <4>2
      <4> QED
        BY <1>0, <1>a, <1>b, <4>1, <4>3 DEF ItemTypes
    <3> QED
      BY <1>a, <1>b, <1>f, <2>2, <3>1
         DEF TransferStep, TransferLoop, TransferValidate, TransferCopy,
             TransferRevalidate, TransferDrop, Acquire, AcquireThrows, Push,
             CatchException, RaiseStop, CloseQueue, ClosePool, NotifyStop
  <2>3. CASE CallStep
    BY <1>a, <2>3
       DEF CallStep, ClearPending, ClearQueue, PublishEpoch, NotifyEpoch, Pop, PopClosed,
           Join, RaiseStop, CloseQueue, ClosePool, NotifyStop
  <2>4. CASE CallerChoice
    BY <1>a, <2>4 DEF CallerChoice, BeginReset, CallNext, DropBatch, Destroy
  <2> QED
    BY <2>1, <2>2, <2>3, <2>4 DEF Next
<1>6. pc' \in [Threads -> Labels]
  BY PcTypeStep
<1> QED
  BY <1>1, <1>2, <1>3, <1>4, <1>5, <1>6, PoolTypeStep DEF PoolTypes, TypeOK

LEMMA EpochStep == IInv /\ Next => EpochOrder'
<1> SUFFICES ASSUME IInv, Next PROVE EpochOrder'
  OBVIOUS
<1> USE DEF EpochOrder, Preparing, Goto, WakeAll, Shutdown
<1>0. /\ pc \in [Threads -> Labels] /\ epoch \in [Workers -> 0..MaxEpochs]
      /\ generation_ \in Nat /\ current_epoch_ \in Nat /\ EpochOrder
      /\ \A w \in Workers : w \in Threads /\ w # Main /\ w # Transfer
  BY DEF IInv, TypeOK, Threads, Producers
<1>1. ASSUME NEW w \in Workers, WorkerStep(w) PROVE EpochOrder'
  <2>1. CASE AwaitEpoch(w)
    BY <1>0, <2>1 DEF AwaitEpoch, epochVars
  <2>2. /\ generation_' = generation_ /\ current_epoch_' = current_epoch_
        /\ epoch' = epoch \/ AwaitEpoch(w)
    BY <1>1 DEF WorkerStep, AwaitEpoch, FallAsleep, Fetch, Decode, ValidateEpoch, Acquire,
         AcquireThrows, Push, CatchException, RaiseStop, CloseQueue, ClosePool, NotifyStop,
         epochVars
  <2>3. AwaitEpoch(w) \/ (\A v \in Workers : pc'[v] \in Preparing => epoch[v] >= 1)
    BY <1>0, <1>1
       DEF WorkerStep, FallAsleep, Fetch, Decode, ValidateEpoch, Acquire, StageOf,
           AcquireThrows, Push, CatchException, RaiseStop, CloseQueue, ClosePool, NotifyStop
  <2> QED
    BY <1>0, <2>1, <2>2, <2>3
<1>2. CASE TransferStep
  BY <1>0, <1>2
     DEF TransferStep, TransferLoop, TransferPop, TransferValidate, TransferCopy,
         TransferRevalidate, TransferDrop, Acquire, AcquireThrows, Push,
         CatchException, RaiseStop, CloseQueue, ClosePool, NotifyStop, epochVars, Threads, Producers
<1>3. CASE CallStep
  BY <1>0, <1>3
     DEF CallStep, ClearPending, ClearQueue, PublishEpoch, NotifyEpoch, Pop, Deliver, PopClosed,
         Join, RaiseStop, CloseQueue, ClosePool, NotifyStop, epochVars, Threads, Producers
<1>4. CASE CallerChoice
  BY <1>0, <1>4 DEF CallerChoice, BeginReset, CallNext, Deliver, DropBatch, Destroy, epochVars
<1> QED
  BY <1>1, <1>2, <1>3, <1>4 DEF Next

LEMMA SleepersStep == IInv /\ Next => SleepersInformed'
<1> SUFFICES ASSUME IInv, Next PROVE SleepersInformed'
  OBVIOUS
<1> USE DEF SleepersInformed, EpochNotMissed, Goto, WakeAll, Shutdown
<1>0. /\ pc \in [Threads -> Labels] /\ epoch \in [Workers -> 0..MaxEpochs]
      /\ SleepersInformed
      /\ \A w \in Workers : w \in Threads /\ w # Main /\ w # Transfer
      /\ Main \in Threads /\ Transfer \in Threads /\ Main # Transfer
  BY DEF IInv, TypeOK, Threads, Producers
<1>1. ASSUME NEW w \in Workers, WorkerStep(w) PROVE SleepersInformed'
  BY <1>0, <1>1
     DEF WorkerStep, AwaitEpoch, FallAsleep, Fetch, Decode, ValidateEpoch, Acquire, StageOf,
         AcquireThrows, Push, CatchException, RaiseStop, CloseQueue, ClosePool, NotifyStop,
         epochVars
<1>2. CASE TransferStep
  BY <1>0, <1>2
     DEF TransferStep, TransferLoop, TransferPop, TransferValidate, TransferCopy,
         TransferRevalidate, TransferDrop, Acquire, AcquireThrows, Push,
         CatchException, RaiseStop, CloseQueue, ClosePool, NotifyStop, epochVars
<1>3. CASE CallStep
  BY <1>0, <1>3
     DEF CallStep, ClearPending, ClearQueue, PublishEpoch, NotifyEpoch, Pop, Deliver, PopClosed,
         Join, RaiseStop, CloseQueue, ClosePool, NotifyStop, epochVars, EpochMutexFree
<1>4. CASE CallerChoice
  BY <1>0, <1>4 DEF CallerChoice, BeginReset, CallNext, Deliver, DropBatch, Destroy, epochVars
<1> QED
  BY <1>1, <1>2, <1>3, <1>4 DEF Next

LEMMA PendingStep == IInv /\ Next => PendingCurrent'
<1> SUFFICES ASSUME IInv, Next PROVE PendingCurrent'
  OBVIOUS
<1> USE DEF PendingCurrent, Goto, WakeAll, Shutdown
<1>0. /\ pc \in [Threads -> Labels] /\ PendingCurrent
      /\ \A w \in Workers : w \in Threads /\ w # Main
      /\ Main \in Threads /\ Transfer \in Threads /\ Main # Transfer
  BY DEF IInv, TypeOK, Threads, Producers
<1>1. ASSUME NEW w \in Workers, WorkerStep(w) PROVE PendingCurrent'
  BY <1>0, <1>1
     DEF WorkerStep, AwaitEpoch, FallAsleep, Fetch, Decode, ValidateEpoch, Acquire,
         AcquireThrows, Push, CatchException, RaiseStop, CloseQueue, ClosePool, NotifyStop,
         epochVars, callerVars
<1>2. CASE TransferStep
  BY <1>0, <1>2
     DEF TransferStep, TransferLoop, TransferPop, TransferValidate, TransferCopy,
         TransferRevalidate, TransferDrop, Acquire, AcquireThrows, Push,
         CatchException, RaiseStop, CloseQueue, ClosePool, NotifyStop, epochVars, callerVars
<1>3. CASE CallStep
  <2>1. CASE ClearPending
    BY <1>0, <2>1, FS_EmptySet DEF ClearPending
  <2>2. CASE Pop
    <3>1. /\ generation_' = generation_ /\ pc[Main] = "pop"
          /\ \/ pending' = pending
             \/ /\ pending' = pending \cup {Head(queue[Out])}
                /\ Head(queue[Out]).gen = generation_
      BY <2>2 DEF Pop, epochVars, callerVars
    <3> QED
      BY <1>0, <3>1, FS_AddElement
  <2> QED
    BY <1>0, <1>3, <2>1, <2>2
       DEF CallStep, ClearQueue, PublishEpoch, NotifyEpoch, PopClosed,
           Join, RaiseStop, CloseQueue, ClosePool, NotifyStop, epochVars, callerVars
<1>4. CASE CallerChoice
  <2>1. \A b \in pending : IsFiniteSet(pending \ {b})
    BY <1>0, FS_RemoveElement
  <2>2. CASE CallNext
    <3>1. /\ generation_' = generation_ /\ pc[Main] = "idle"
          /\ \/ pending' = pending
             \/ \E b \in pending : pending' = pending \ {b}
      BY <2>2 DEF CallNext, epochVars
    <3> QED
      BY <1>0, <2>1, <3>1
  <2>3. CASE BeginReset
    BY <1>0, <2>3 DEF BeginReset
  <2> QED
    BY <1>0, <1>4, <2>2, <2>3 DEF CallerChoice, DropBatch, Destroy, epochVars, callerVars
<1> QED
  BY <1>1, <1>2, <1>3, <1>4 DEF Next

LEMMA StopStep == IInv /\ Next => StopExplained'
<1> SUFFICES ASSUME IInv, Next PROVE StopExplained'
  OBVIOUS
<1> USE DEF StopExplained, Explained, MainStopping, ShutdownLabels, Goto, WakeAll, Shutdown
<1>0. /\ pc \in [Threads -> Labels] /\ StopExplained /\ LabelsOK
      /\ closed \in [Stages -> BOOLEAN] /\ poolClosed \in [Stages -> BOOLEAN]
      /\ \A t \in Producers : t \in Threads /\ t # Main
      /\ Main \in Threads /\ Transfer \in Producers /\ \A w \in Workers : w \in Producers
  BY DEF IInv, TypeOK, Threads, Producers
<1>a. ASSUME NEW t \in Threads, RaiseStop(t) PROVE StopExplained'
  <2>1. t \in Producers \/ t = Main
    BY DEF Threads
  <2> QED
    BY <1>0, <1>a, <2>1 DEF RaiseStop, queueVars, poolVars
<1>b. ASSUME NEW t \in Threads, CloseQueue(t) PROVE StopExplained'
  BY <1>0, <1>b DEF CloseQueue, poolVars, failVars
<1>c. ASSUME NEW t \in Threads, ClosePool(t) PROVE StopExplained'
  BY <1>0, <1>c DEF ClosePool, ClosePoolOf, queueVars, failVars
<1>d. ASSUME NEW t \in Threads, NotifyStop(t) PROVE StopExplained'
  BY <1>0, <1>d DEF NotifyStop, queueVars, poolVars, failVars
<1>e. ASSUME NEW t \in Producers, CatchException(t) PROVE StopExplained'
  BY <1>0, <1>e DEF CatchException, queueVars, poolVars
<1>f. ASSUME NEW t \in Producers, Acquire(t) \/ AcquireThrows(t) \/ Push(t)
      PROVE  StopExplained'
  BY <1>0, <1>f DEF Acquire, AcquireThrows, Push, Release, StageOf, Stages,
       queueVars, poolVars, failVars
<1>1. ASSUME NEW w \in Workers, WorkerStep(w) PROVE StopExplained'
  <2>1. w \in Producers /\ w \in Threads
    BY DEF Producers, Threads
  <2>2. CASE AwaitEpoch(w) \/ FallAsleep(w) \/ Fetch(w)
    BY <1>0, <2>2 DEF AwaitEpoch, FallAsleep, Fetch, queueVars, poolVars, failVars
  <2>3. CASE Decode(w) \/ ValidateEpoch(w)
    BY <1>0, <2>3 DEF Decode, ValidateEpoch, Release, queueVars, poolVars, failVars
  <2> QED
    BY <1>1, <1>a, <1>b, <1>c, <1>d, <1>e, <1>f, <2>1, <2>2, <2>3 DEF WorkerStep
<1>2. CASE TransferStep
  <2>1. Transfer \in Producers /\ Transfer \in Threads
    BY DEF Producers, Threads
  <2>2. CASE TransferLoop \/ TransferPop \/ TransferValidate
    BY <1>0, <2>2 DEF TransferLoop, TransferPop, TransferValidate, queueVars, poolVars, failVars
  <2>3. CASE TransferCopy \/ TransferRevalidate \/ TransferDrop
    BY <1>0, <2>3 DEF TransferCopy, TransferRevalidate, TransferDrop, Release,
         queueVars, poolVars, failVars
  <2> QED
    BY <1>2, <1>a, <1>b, <1>c, <1>d, <1>e, <1>f, <2>1, <2>2, <2>3 DEF TransferStep
<1>3. CASE CallStep
  <2>1. CASE ClearPending \/ ClearQueue
    BY <1>0, <2>1 DEF ClearPending, ClearQueue, ClearQueueOf, Release, queueVars, poolVars, failVars
  <2>2. CASE PublishEpoch \/ NotifyEpoch
    BY <1>0, <2>2 DEF PublishEpoch, NotifyEpoch, queueVars, poolVars, failVars
  <2>3. CASE Pop \/ PopClosed \/ Join
    BY <1>0, <2>3 DEF Pop, PopClosed, Join, Deliver, Release, queueVars, poolVars, failVars, callerVars
  <2> QED
    BY <1>0, <1>3, <1>a, <1>b, <1>c, <1>d, <2>1, <2>2, <2>3 DEF CallStep
<1>4. CASE CallerChoice
  BY <1>0, <1>4 DEF CallerChoice, BeginReset, CallNext, Deliver, Release, DropBatch, Destroy,
         queueVars, poolVars, failVars
<1> QED
  BY <1>1, <1>2, <1>3, <1>4 DEF Next

-----------------------------------------------------------------------------
(* The theorems. *)

LEMMA StutterStep == IInv /\ UNCHANGED vars => IInv'
<1> SUFFICES ASSUME IInv, UNCHANGED vars PROVE IInv'
  OBVIOUS
<1> USE DEF vars, epochVars, queueVars, poolVars, callerVars, failVars, IInv
<1>1. TypeOK' /\ LabelsOK' /\ EpochOrder'
  BY DEF TypeOK, LabelsOK, EpochOrder
<1>2. SleepersInformed' /\ StopExplained' /\ PendingCurrent'
  BY DEF SleepersInformed, EpochNotMissed, StopExplained, Explained, MainStopping,
         PendingCurrent
<1> QED
  BY <1>1, <1>2

\* IInv holds in every reachable state: each action of the loader's threads
\* and of its caller preserves it.
THEOREM Invariant == Spec => []IInv
<1>1. IInv /\ [Next]_vars => IInv'
  BY StutterStep, TypeStep, LabelsStep, EpochStep, SleepersStep, StopStep, PendingStep
     DEF IInv
<1> QED
  BY InitIInv, <1>1, PTL DEF Spec

\* Type correctness, for every size of the loader.
THEOREM TypeCorrect == Spec => []TypeOK
<1>1. IInv => TypeOK
  BY DEF IInv
<1> QED
  BY Invariant, <1>1, PTL

\* What the caller is told is the first failure of a worker, never the
\* closed pool that other threads meet because of it.
THEOREM RootCause == Spec => []RootCauseReported
<1>1. IInv => RootCauseReported
  BY DEF IInv, StopExplained, RootCauseReported
<1> QED
  BY Invariant, <1>1, PTL

\* The runtime_error "queue closed before expected batch was produced" of
\* next_from_queue is unreachable.
THEOREM ClosedQueueExplained == Spec => []ClosedQueueIsExplained
<1>1. IInv => ClosedQueueIsExplained
  BY DEF IInv, StopExplained, Explained, MainStopping, ShutdownLabels, ClosedQueueIsExplained, Out, Stages
<1> QED
  BY Invariant, <1>1, PTL

\* reset_epoch publishes under epoch_mutex_, so that no worker sleeps
\* through a new epoch.
THEOREM NoEpochMissed == Spec => []EpochNotMissed
<1>1. IInv => EpochNotMissed
  BY DEF IInv, SleepersInformed
<1> QED
  BY Invariant, <1>1, PTL

\* next returns the batches of the current epoch in order, for any number
\* of workers finishing in any order and any number of resets.
THEOREM InOrder == Spec => DeliveryInOrder
<1> DEFINE Fresh == \A b \in held' \ held : b = [gen |-> generation_, idx |-> next_batch_to_return_]
<1>1. IInv /\ Next => Fresh
  <2> SUFFICES ASSUME IInv, Next PROVE Fresh
    OBVIOUS
  <2>0. /\ pending \subseteq Batch
        /\ pc[Main] # "clear_pending" => \A b \in pending : b.gen = generation_
        /\ Out \in Stages /\ queue \in [Stages -> Seq(Batch)]
    BY DEF IInv, TypeOK, PendingCurrent, Out, Stages
  <2>a. \A b \in Batch : b.gen = generation_ /\ b.idx = next_batch_to_return_
          => b = [gen |-> generation_, idx |-> next_batch_to_return_]
    BY DEF Batch
  <2>1. CASE CallNext
    BY <2>0, <2>1, <2>a DEF CallNext, Deliver
  <2>2. CASE Pop
    <3>1. Head(queue[Out]) \in Batch
      BY <2>0, <2>2 DEF Pop
    <3>2. \/ held' = held
          \/ /\ held' = held \cup {Head(queue[Out])}
             /\ Head(queue[Out]).gen = generation_
             /\ Head(queue[Out]).idx = next_batch_to_return_
      BY <2>2 DEF Pop, Deliver, callerVars
    <3> QED
      BY <3>1, <3>2, <2>a
  <2>3. CallNext \/ Pop \/ held' \subseteq held
    <3> USE DEF callerVars, Shutdown, RaiseStop, CloseQueue, ClosePool, NotifyStop, Acquire,
          AcquireThrows, Push, CatchException
    <3>1. ASSUME NEW w \in Workers, WorkerStep(w) PROVE held' \subseteq held
      BY <3>1 DEF WorkerStep, AwaitEpoch, FallAsleep, Fetch, Decode, ValidateEpoch
    <3>2. CASE TransferStep
      BY <3>2 DEF TransferStep, TransferLoop, TransferPop, TransferValidate, TransferCopy,
           TransferRevalidate, TransferDrop
    <3>3. CASE CallStep
      BY <3>3 DEF CallStep, ClearPending, ClearQueue, PublishEpoch, NotifyEpoch, PopClosed, Join
    <3>4. CASE CallerChoice
      BY <3>4 DEF CallerChoice, BeginReset, DropBatch, Destroy
    <3> QED
      BY <3>1, <3>2, <3>3, <3>4 DEF Next
  <2> QED
    BY <2>1, <2>2, <2>3
<1> QED
  BY Invariant, <1>1, PTL DEF Spec, DeliveryInOrder

-----------------------------------------------------------------------------
(* Where each batch is.  BatchInv says that a batch of a published epoch is *)
(* at one place of the pipeline, was returned, or was lost by a failure.    *)

\* A place of the pipeline holds batch b: a producer, a queue, the pending map.
InItem(b)  == \E t \in Producers : item[t] = b
InQueue(b) == \E s \in Stages : \E n \in 1..Len(queue[s]) : queue[s][n] = b
Located(b) == InItem(b) \/ InQueue(b) \/ b \in pending

\* A batch that fetch_add handed out; NoItem has generation 0.
Real(b) == b \in Batch /\ b.gen >= 1

\* Batches come from fetch_add on the counter of an epoch that was published,
\* and those of the current generation were not returned yet.
Fetched ==
  \A b \in Batch : Real(b) /\ Located(b) =>
    /\ b.gen <= current_epoch_
    /\ b.idx < next_batch_to_prepare[b.gen]
    /\ b.gen = generation_ => b.idx >= next_batch_to_return_

\* No batch is in two places.
Unique ==
  /\ \A t, u \in Producers : Real(item[t]) /\ item[t] = item[u] => t = u
  /\ \A r, s \in Stages : \A m \in 1..Len(queue[r]), n \in 1..Len(queue[s]) :
       Real(queue[r][m]) /\ queue[r][m] = queue[s][n] => r = s /\ m = n
  /\ \A b \in Batch : Real(b) => /\ ~(InItem(b) /\ InQueue(b))
                                 /\ ~(InItem(b) /\ b \in pending)
                                 /\ ~(InQueue(b) /\ b \in pending)

\* What a producer works on, by where it is.
ItemsInHand ==
  /\ \A w \in Workers : IF pc[w] \in {"acquire", "decode", "validate", "push"}
                        THEN item[w].gen = epoch[w] ELSE item[w] = NoItem
  /\ pc[Transfer] \notin {"validate", "acquire", "copy", "revalidate", "push", "drop"} =>
       item[Transfer] = NoItem
  /\ pc[Transfer] = "drop" => item[Transfer] = NoItem \/ item[Transfer].gen < generation_

\* Between the new generation and its publication nothing of it exists.
Resetting == {"clear_pending", "clear_host_queue", "clear_device_queue", "publish"}
EpochCounters ==
  /\ IF pc[Main] \in Resetting THEN current_epoch_ < generation_ ELSE current_epoch_ = generation_
  /\ \A g \in 1..MaxEpochs : g > current_epoch_ => next_batch_to_prepare[g] = 0
  /\ generation_ >= 1 => next_batch_to_return_ <= next_batch_to_prepare[generation_]

\* Whatever was handed out was returned, is somewhere, or a failure took it.
Covered ==
  generation_ >= 1 /\ current_epoch_ = generation_ =>
    \A i \in 0..TotalBatches - 1 : i < next_batch_to_prepare[generation_] =>
      \/ i < next_batch_to_return_ \/ Located([gen |-> generation_, idx |-> i])
      \/ stop_requested_ \/ Failing

QueuesFit == \A s \in Stages : Len(queue[s]) <= QueueCapacity[s]

\* The batches the caller owns were returned before.
HeldOld ==
  /\ IsFiniteSet(held)
  /\ \A b \in held : b.gen < generation_ \/ (b.gen = generation_ /\ b.idx < next_batch_to_return_)

BatchInv == Fetched /\ Unique /\ ItemsInHand /\ EpochCounters /\ Covered /\ QueuesFit

-----------------------------------------------------------------------------

LEMMA RealBatches ==
  /\ ~Real(NoItem)
  /\ \A b \in Batch : b.gen \in 0..MaxEpochs /\ b.idx \in Nat
                      /\ b = [gen |-> b.gen, idx |-> b.idx]
BY DEF Real, NoItem, Batch

LEMMA TailOf ==
  ASSUME NEW q \in Seq(Batch), q # <<>>
  PROVE  /\ Head(q) = q[1] /\ 1 \in 1..Len(q) /\ Len(q) \in Nat
         /\ Len(Tail(q)) = Len(q) - 1
         /\ \A n \in 1..Len(Tail(q)) : n + 1 \in 1..Len(q) /\ Tail(q)[n] = q[n + 1]
         /\ \A n \in 2..Len(q) : n - 1 \in 1..Len(Tail(q)) /\ Tail(q)[n - 1] = q[n]
OBVIOUS

LEMMA AppendOf ==
  ASSUME NEW q \in Seq(Batch), NEW b \in Batch
  PROVE  /\ Len(q) \in Nat /\ Len(Append(q, b)) = Len(q) + 1
         /\ Append(q, b)[Len(q) + 1] = b
         /\ \A n \in 1..Len(q) : Append(q, b)[n] = q[n]
OBVIOUS

\* Queues that lose their first element, or all of them.
LEMMA ShiftUnique ==
  ASSUME Unique, NEW k \in [Stages -> 0..1],
         \A s \in Stages : \A n \in 1..Len(queue'[s]) :
           n + k[s] \in 1..Len(queue[s]) /\ queue'[s][n] = queue[s][n + k[s]]
  PROVE  \A r, s \in Stages : \A m \in 1..Len(queue'[r]), n \in 1..Len(queue'[s]) :
           Real(queue'[r][m]) /\ queue'[r][m] = queue'[s][n] => r = s /\ m = n
<1>. SUFFICES ASSUME NEW r \in Stages, NEW s \in Stages,
                     NEW m \in 1..Len(queue'[r]), NEW n \in 1..Len(queue'[s]),
                     Real(queue'[r][m]), queue'[r][m] = queue'[s][n]
     PROVE  r = s /\ m = n
  OBVIOUS
<1>1. /\ m + k[r] \in 1..Len(queue[r]) /\ queue'[r][m] = queue[r][m + k[r]]
      /\ n + k[s] \in 1..Len(queue[s]) /\ queue'[s][n] = queue[s][n + k[s]]
  OBVIOUS
<1>2. r = s /\ m + k[r] = n + k[s] BY <1>1, ZenonT(60) DEF Unique
<1>3. k[r] \in Int /\ m \in Int /\ n \in Int OBVIOUS
<1>. QED BY <1>2, <1>3

\* Places that are emptied, and a queue that loses its first element.
LEMMA ShrinkUnique ==
  ASSUME TypeOK, Unique, NEW k \in [Stages -> 0..1],
         \A t \in Producers : item'[t] = item[t] \/ item'[t] = NoItem,
         \A s \in Stages : \A n \in 1..Len(queue'[s]) :
           n + k[s] \in 1..Len(queue[s]) /\ queue'[s][n] = queue[s][n + k[s]],
         pending' \subseteq pending
  PROVE  /\ Unique'
         /\ \A b : Real(b) /\ Located(b)' => Located(b)
<1>1. \A b : Real(b) => /\ InItem(b)' => InItem(b)
                        /\ InQueue(b)' => InQueue(b)
                        /\ b \in pending' => b \in pending
  BY RealBatches DEF InItem, InQueue
<1>2. \A t, u \in Producers : Real(item'[t]) /\ item'[t] = item'[u] => t = u
  BY RealBatches DEF Unique
<1>3. \A r, s \in Stages : \A m \in 1..Len(queue'[r]), n \in 1..Len(queue'[s]) :
        Real(queue'[r][m]) /\ queue'[r][m] = queue'[s][n] => r = s /\ m = n
  BY ShiftUnique
<1>4. \A b \in Batch : Real(b) => /\ ~(InItem(b)' /\ InQueue(b)')
                                  /\ ~(InItem(b)' /\ b \in pending')
                                  /\ ~(InQueue(b)' /\ b \in pending')
  BY <1>1 DEF Unique
<1>5. Unique' BY <1>2, <1>3, <1>4 DEF Unique
<1>. QED BY <1>1, <1>5 DEF Located

\* Nothing moves.
LEMMA StillUnique ==
  ASSUME Unique, UNCHANGED <<item, queue, pending>>
  PROVE  Unique' /\ \A b : Located(b)' <=> Located(b)
BY DEF Unique, Located, InItem, InQueue

\* Producer t puts its batch at the end of queue s.
LEMMA PushUnique ==
  ASSUME TypeOK, Unique, NEW t \in Producers, NEW s \in Stages,
         item' = [item EXCEPT ![t] = NoItem],
         queue' = [queue EXCEPT ![s] = Append(@, item[t])],
         pending' = pending
  PROVE  /\ Unique'
         /\ \A b : Real(b) => (Located(b)' <=> Located(b))
<1>0. item \in [Producers -> Batch] /\ queue \in [Stages -> Seq(Batch)]
  BY DEF TypeOK
<1>. PICK c \in Batch : c = item[t] BY <1>0
<1>1. \A u \in Producers : item'[u] = IF u = t THEN NoItem ELSE item[u] BY <1>0
<1>2. /\ \A r \in Stages \ {s} : queue'[r] = queue[r]
      /\ Len(queue'[s]) = Len(queue[s]) + 1 /\ Len(queue[s]) \in Nat
      /\ queue'[s][Len(queue[s]) + 1] = c
      /\ \A n \in 1..Len(queue[s]) : queue'[s][n] = queue[s][n]
  <2>1. queue[s] \in Seq(Batch) /\ queue'[s] = Append(queue[s], c) BY <1>0
  <2>. QED BY <1>0, <2>1, AppendOf
<1>3. \A b : Real(b) => (InItem(b)' <=> InItem(b) /\ b # c)
  BY <1>0, <1>1, RealBatches DEF InItem, Unique
<1>4. \A b : InQueue(b)' <=> InQueue(b) \/ b = c
  <2>1. InQueue(c)'
    <3>1. Len(queue[s]) + 1 \in 1..Len(queue'[s]) BY <1>2
    <3>. QED BY <1>2, <3>1 DEF InQueue
  <2>2. ASSUME NEW b, InQueue(b) PROVE InQueue(b)'
    <3>0. PICK r \in Stages : \E n \in 1..Len(queue[r]) : queue[r][n] = b BY <2>2 DEF InQueue
    <3>1. PICK n \in 1..Len(queue[r]) : queue[r][n] = b BY <3>0
    <3>2. n \in 1..Len(queue'[r]) /\ queue'[r][n] = b BY <1>2, <3>1
    <3>. QED BY <3>2 DEF InQueue
  <2>3. ASSUME NEW b, InQueue(b)' PROVE InQueue(b) \/ b = c
    <3>0. PICK r \in Stages : \E n \in 1..Len(queue'[r]) : queue'[r][n] = b BY <2>3 DEF InQueue
    <3>1. PICK n \in 1..Len(queue'[r]) : queue'[r][n] = b BY <3>0
    <3>2. CASE r = s /\ n = Len(queue[s]) + 1 BY <1>2, <3>1, <3>2
    <3>3. CASE ~(r = s /\ n = Len(queue[s]) + 1)
      <4>1. n \in 1..Len(queue[r]) /\ queue[r][n] = b BY <1>2, <3>1, <3>3
      <4>. QED BY <4>1 DEF InQueue
    <3>. QED BY <3>2, <3>3
  <2>. QED BY <2>1, <2>2, <2>3
<1>5. InItem(c) BY DEF InItem
<1>6. \A u, v \in Producers : Real(item'[u]) /\ item'[u] = item'[v] => u = v
  BY <1>1, RealBatches DEF Unique
<1>7. \A r, x \in Stages : \A m \in 1..Len(queue'[r]), n \in 1..Len(queue'[x]) :
        Real(queue'[r][m]) /\ queue'[r][m] = queue'[x][n] => r = x /\ m = n
  <2>. SUFFICES ASSUME NEW r \in Stages, NEW x \in Stages,
                       NEW m \in 1..Len(queue'[r]), NEW n \in 1..Len(queue'[x]),
                       Real(queue'[r][m]), queue'[r][m] = queue'[x][n]
       PROVE  r = x /\ m = n
    OBVIOUS
  <2>1. Real(c) => ~InQueue(c) BY <1>5 DEF Unique
  <2>2. CASE m \in 1..Len(queue[r]) /\ n \in 1..Len(queue[x])
    BY <1>2, <2>2 DEF Unique
  <2>3. CASE m \notin 1..Len(queue[r]) /\ n \notin 1..Len(queue[x])
    BY <1>2, <2>3
  <2>4. CASE m \notin 1..Len(queue[r]) /\ n \in 1..Len(queue[x])
    <3>1. r = s /\ m = Len(queue[s]) + 1 BY <1>2, <2>4
    <3>2. queue[x][n] = c BY <1>2, <2>4, <3>1
    <3>. QED BY <1>2, <2>1, <2>4, <3>1, <3>2 DEF InQueue
  <2>5. CASE m \in 1..Len(queue[r]) /\ n \notin 1..Len(queue[x])
    <3>1. x = s /\ n = Len(queue[s]) + 1 BY <1>2, <2>5
    <3>2. queue[r][m] = c BY <1>2, <2>5, <3>1
    <3>. QED BY <1>2, <2>1, <2>5, <3>1, <3>2 DEF InQueue
  <2>. QED BY <2>2, <2>3, <2>4, <2>5
<1>8. \A b \in Batch : Real(b) => /\ ~(InItem(b)' /\ InQueue(b)')
                                  /\ ~(InItem(b)' /\ b \in pending')
                                  /\ ~(InQueue(b)' /\ b \in pending')
  BY <1>3, <1>4, <1>5 DEF Unique
<1>9. Unique' BY <1>6, <1>7, <1>8 DEF Unique
<1>. QED BY <1>3, <1>4, <1>5, <1>9 DEF Located

\* The first batch of queue s leaves it; where it was is nobody else's place.
LEMMA HeadLeaves ==
  ASSUME TypeOK, Unique, NEW s \in Stages, queue[s] # <<>>,
         queue' = [queue EXCEPT ![s] = Tail(@)]
  PROVE  /\ Head(queue[s]) \in Batch /\ InQueue(Head(queue[s]))
         /\ \A b : Real(b) => (InQueue(b)' <=> InQueue(b) /\ b # Head(queue[s]))
         /\ \A r, x \in Stages : \A m \in 1..Len(queue'[r]), n \in 1..Len(queue'[x]) :
              Real(queue'[r][m]) /\ queue'[r][m] = queue'[x][n] => r = x /\ m = n
         /\ \E k \in [Stages -> 0..1] : \A r \in Stages : \A n \in 1..Len(queue'[r]) :
              n + k[r] \in 1..Len(queue[r]) /\ queue'[r][n] = queue[r][n + k[r]]
<1>0. queue \in [Stages -> Seq(Batch)] BY DEF TypeOK
<1>1. /\ \A r \in Stages \ {s} : queue'[r] = queue[r]
      /\ \A r \in Stages : Len(queue[r]) \in Nat
      /\ Head(queue[s]) = queue[s][1] /\ 1 \in 1..Len(queue[s])
      /\ Len(queue'[s]) = Len(queue[s]) - 1
      /\ \A n \in 1..Len(queue'[s]) : n + 1 \in 1..Len(queue[s]) /\ queue'[s][n] = queue[s][n + 1]
      /\ \A n \in 2..Len(queue[s]) : n - 1 \in 1..Len(queue'[s]) /\ queue'[s][n - 1] = queue[s][n]
  <2>1. queue[s] \in Seq(Batch) /\ queue'[s] = Tail(queue[s]) BY <1>0
  <2>. QED BY <1>0, <2>1, TailOf
<1>2. Head(queue[s]) \in Batch BY <1>0, <1>1
<1>3. InQueue(Head(queue[s])) BY <1>1 DEF InQueue
<1>. DEFINE k == [r \in Stages |-> IF r = s THEN 1 ELSE 0]
<1>4. k \in [Stages -> 0..1] OBVIOUS
<1>5. \A r \in Stages : \A n \in 1..Len(queue'[r]) :
        n + k[r] \in 1..Len(queue[r]) /\ queue'[r][n] = queue[r][n + k[r]]
  <2>. SUFFICES ASSUME NEW r \in Stages, NEW n \in 1..Len(queue'[r])
       PROVE  n + k[r] \in 1..Len(queue[r]) /\ queue'[r][n] = queue[r][n + k[r]]
    OBVIOUS
  <2>1. CASE r = s BY <1>1, <2>1
  <2>2. CASE r # s
    <3>1. k[r] = 0 /\ queue'[r] = queue[r] BY <1>1, <2>2
    <3>. QED BY <3>1
  <2>. QED BY <2>1, <2>2
<1>6. \A r \in Stages : \A n \in 1..Len(queue[r]) :
        ~(r = s /\ n = 1) =>
           n - k[r] \in 1..Len(queue'[r]) /\ queue'[r][n - k[r]] = queue[r][n]
  <2>. SUFFICES ASSUME NEW r \in Stages, NEW n \in 1..Len(queue[r]), ~(r = s /\ n = 1)
       PROVE  n - k[r] \in 1..Len(queue'[r]) /\ queue'[r][n - k[r]] = queue[r][n]
    OBVIOUS
  <2>1. CASE r = s
    <3>1. n \in 2..Len(queue[s]) BY <1>1, <2>1
    <3>. QED BY <1>1, <2>1, <3>1
  <2>2. CASE r # s
    <3>1. k[r] = 0 /\ queue'[r] = queue[r] BY <1>1, <2>2
    <3>. QED BY <3>1
  <2>. QED BY <2>1, <2>2
<1>. HIDE DEF k
<1>7. \A b : Real(b) => (InQueue(b)' <=> InQueue(b) /\ b # Head(queue[s]))
  <2>1. ASSUME NEW b, Real(b), InQueue(b)' PROVE InQueue(b) /\ b # Head(queue[s])
    <3>0. PICK r \in Stages : \E n \in 1..Len(queue'[r]) : queue'[r][n] = b BY <2>1 DEF InQueue
    <3>1. PICK n \in 1..Len(queue'[r]) : queue'[r][n] = b BY <3>0
    <3>2. n + k[r] \in 1..Len(queue[r]) /\ queue[r][n + k[r]] = b BY <1>5, <3>1
    <3>3. ~(r = s /\ n + k[r] = 1) BY <1>1, <1>4 DEF k
    <3>4. b # queue[s][1] BY <1>1, <2>1, <3>2, <3>3 DEF Unique
    <3>. QED BY <1>1, <3>2, <3>4 DEF InQueue
  <2>2. ASSUME NEW b, InQueue(b), b # Head(queue[s]) PROVE InQueue(b)'
    <3>0. PICK r \in Stages : \E n \in 1..Len(queue[r]) : queue[r][n] = b BY <2>2 DEF InQueue
    <3>1. PICK n \in 1..Len(queue[r]) : queue[r][n] = b BY <3>0
    <3>2. ~(r = s /\ n = 1) BY <1>1, <2>2, <3>1
    <3>. QED BY <1>6, <3>1, <3>2 DEF InQueue
  <2>. QED BY <2>1, <2>2
<1>8. \A r, x \in Stages : \A m \in 1..Len(queue'[r]), n \in 1..Len(queue'[x]) :
        Real(queue'[r][m]) /\ queue'[r][m] = queue'[x][n] => r = x /\ m = n
  BY <1>4, <1>5, ShiftUnique
<1>. QED BY <1>2, <1>3, <1>4, <1>5, <1>7, <1>8

\* The first batch of queue s goes to producer t, which had none.
LEMMA PopToItem ==
  ASSUME TypeOK, Unique, NEW s \in Stages, queue[s] # <<>>, NEW t \in Producers,
         item[t] = NoItem, item' = [item EXCEPT ![t] = Head(queue[s])],
         queue' = [queue EXCEPT ![s] = Tail(@)], pending' = pending
  PROVE  Unique' /\ \A b : Real(b) => (Located(b)' <=> Located(b))
<1>. PICK c \in Batch : c = Head(queue[s]) /\ InQueue(c) BY HeadLeaves
<1>1. \A b : Real(b) => (InQueue(b)' <=> InQueue(b) /\ b # c) BY HeadLeaves
<1>2. \A u \in Producers : item'[u] = IF u = t THEN c ELSE item[u] BY DEF TypeOK
<1>3. \A b : Real(b) => (InItem(b)' <=> InItem(b) \/ b = c)
  BY <1>2, RealBatches DEF InItem
<1>4. Real(c) => ~InItem(c) BY DEF Unique
<1>5. \A u, v \in Producers : Real(item'[u]) /\ item'[u] = item'[v] => u = v
  BY <1>2, <1>4 DEF Unique, InItem
<1>6. \A r, x \in Stages : \A m \in 1..Len(queue'[r]), n \in 1..Len(queue'[x]) :
        Real(queue'[r][m]) /\ queue'[r][m] = queue'[x][n] => r = x /\ m = n
  BY HeadLeaves
<1>7. \A b \in Batch : Real(b) => /\ ~(InItem(b)' /\ InQueue(b)')
                                  /\ ~(InItem(b)' /\ b \in pending')
                                  /\ ~(InQueue(b)' /\ b \in pending')
  BY <1>1, <1>3 DEF Unique
<1>8. Unique' BY <1>5, <1>6, <1>7 DEF Unique
<1>. QED BY <1>1, <1>3, <1>8 DEF Located

\* The first batch of queue s goes to the pending map.
LEMMA PopToPending ==
  ASSUME TypeOK, Unique, NEW s \in Stages, queue[s] # <<>>, item' = item,
         queue' = [queue EXCEPT ![s] = Tail(@)], pending' = pending \cup {Head(queue[s])}
  PROVE  Unique' /\ \A b : Real(b) => (Located(b)' <=> Located(b))
<1>. PICK c \in Batch : c = Head(queue[s]) /\ InQueue(c) BY HeadLeaves
<1>1. \A b : Real(b) => (InQueue(b)' <=> InQueue(b) /\ b # c) BY HeadLeaves
<1>2. \A b : InItem(b)' <=> InItem(b) BY DEF InItem
<1>3. \A r, x \in Stages : \A m \in 1..Len(queue'[r]), n \in 1..Len(queue'[x]) :
        Real(queue'[r][m]) /\ queue'[r][m] = queue'[x][n] => r = x /\ m = n
  BY HeadLeaves
<1>4. \A b \in Batch : Real(b) => /\ ~(InItem(b)' /\ InQueue(b)')
                                  /\ ~(InItem(b)' /\ b \in pending')
                                  /\ ~(InQueue(b)' /\ b \in pending')
  BY <1>1, <1>2 DEF Unique
<1>5. Unique' BY <1>3, <1>4 DEF Unique
<1>. QED BY <1>1, <1>2, <1>5 DEF Located

\* A producer that had none takes a batch that was nowhere.
LEMMA FetchUnique ==
  ASSUME TypeOK, Unique, NEW t \in Producers, NEW c \in Batch, ~Located(c),
         item[t] = NoItem, item' = [item EXCEPT ![t] = c], UNCHANGED <<queue, pending>>
  PROVE  Unique' /\ \A b : Real(b) => (Located(b)' <=> Located(b) \/ b = c)
<1>1. \A u \in Producers : item'[u] = IF u = t THEN c ELSE item[u] BY DEF TypeOK
<1>2. \A b : Real(b) => (InItem(b)' <=> InItem(b) \/ b = c)
  BY <1>1, RealBatches DEF InItem
<1>3. \A b : InQueue(b)' <=> InQueue(b) BY DEF InQueue
<1>4. \A u, v \in Producers : Real(item'[u]) /\ item'[u] = item'[v] => u = v
  BY <1>1 DEF Unique, Located, InItem
<1>5. \A r, x \in Stages : \A m \in 1..Len(queue'[r]), n \in 1..Len(queue'[x]) :
        Real(queue'[r][m]) /\ queue'[r][m] = queue'[x][n] => r = x /\ m = n
  BY DEF Unique
<1>6. \A b \in Batch : Real(b) => /\ ~(InItem(b)' /\ InQueue(b)')
                                  /\ ~(InItem(b)' /\ b \in pending')
                                  /\ ~(InQueue(b)' /\ b \in pending')
  BY <1>2, <1>3 DEF Unique, Located
<1>7. Unique' BY <1>4, <1>5, <1>6 DEF Unique
<1>. QED BY <1>2, <1>3, <1>7 DEF Located

\* A producer drops its batch.
LEMMA ItemGone ==
  ASSUME TypeOK, Unique, NEW t \in Producers,
         item' = [item EXCEPT ![t] = NoItem], UNCHANGED <<queue, pending>>
  PROVE  /\ Unique'
         /\ \A b : Real(b) => /\ Located(b)' => Located(b)
                              /\ Located(b) => Located(b)' \/ b = item[t]
<1>1. \A u \in Producers : item'[u] = IF u = t THEN NoItem ELSE item[u] BY DEF TypeOK
<1>. DEFINE k == [s \in Stages |-> 0]
<1>2. k \in [Stages -> 0..1] OBVIOUS
<1>3. \A s \in Stages : \A n \in 1..Len(queue'[s]) :
        n + k[s] \in 1..Len(queue[s]) /\ queue'[s][n] = queue[s][n + k[s]]
  OBVIOUS
<1>. HIDE DEF k
<1>4. Unique' /\ \A b : Real(b) /\ Located(b)' => Located(b)
  BY <1>1, <1>2, <1>3, ShrinkUnique
<1>5. \A b : Located(b) => Located(b)' \/ b = item[t]
  BY <1>1 DEF Located, InItem, InQueue
<1>. QED BY <1>4, <1>5

\* The steps that neither hand out nor return a batch, nor touch the epochs.
LEMMA QuietStep ==
  ASSUME IInv, BatchInv,
         UNCHANGED <<epochVars, next_batch_to_return_>>,
         \A b : Real(b) /\ Located(b)' => Located(b),
         \A b : Real(b) /\ Located(b) /\ b.gen = generation_ /\ current_epoch_ = generation_ =>
           Located(b)' \/ stop_requested_' \/ Failing',
         stop_requested_ \/ Failing => stop_requested_' \/ Failing'
  PROVE  Fetched' /\ Covered'
<1>1. Fetched' BY DEF BatchInv, Fetched, epochVars
<1>2. Covered'
  <2>. SUFFICES ASSUME generation_ >= 1, current_epoch_ = generation_,
                       NEW i \in 0..TotalBatches - 1, i < next_batch_to_prepare[generation_]
       PROVE  \/ i < next_batch_to_return_ \/ Located([gen |-> generation_, idx |-> i])'
              \/ stop_requested_' \/ Failing'
    BY DEF Covered, epochVars
  <2>1. generation_' = generation_ BY DEF epochVars
  <2>0. [gen |-> generation_, idx |-> i] \in Batch
    <3>1. generation_ \in 0..MaxEpochs /\ i \in Nat BY DEF IInv, TypeOK
    <3>. QED BY <3>1 DEF Batch
  <2>. PICK b \in Batch : b = [gen |-> generation_, idx |-> i] BY <2>0
  <2>2. Real(b) /\ b.gen = generation_ BY DEF Real
  <2>3. i < next_batch_to_return_ \/ Located(b) \/ stop_requested_ \/ Failing
    BY DEF BatchInv, Covered
  <2>4. i < next_batch_to_return_ \/ Located(b)' \/ stop_requested_' \/ Failing'
    BY <2>2, <2>3
  <2>. QED BY <2>1, <2>4
<1>. QED BY <1>1, <1>2

\* A failure ends in a stop, which stays.
LEMMA FailStays == IInv /\ Next => (stop_requested_ \/ Failing => stop_requested_' \/ Failing')
<1>. SUFFICES ASSUME IInv, Next, NEW u \in Producers,
                     \/ stop_requested_
                     \/ pc[u] \in {"catch_failure", "catch_closed", "raise_stop"}
     PROVE  \/ stop_requested_'
            \/ pc'[u] \in {"catch_failure", "catch_closed", "raise_stop"}
  BY DEF Failing, Producers
<1>. DEFINE Still == \/ stop_requested_'
                     \/ pc'[u] \in {"catch_failure", "catch_closed", "raise_stop"}
<1>0. /\ pc \in [Threads -> Labels]
      /\ \A w \in Workers : w \in Producers /\ w \in Threads
      /\ Transfer \in Producers /\ \A t \in Producers : t \in Threads /\ t # Main
      /\ Main \in Threads
  <2>1. pc \in [Threads -> Labels] BY DEF IInv, TypeOK
  <2>. QED BY <2>1 DEF Threads, Producers
<1>. USE DEF Goto, WakeAll, Shutdown
<1>1. ASSUME NEW t \in Threads, RaiseStop(t) \/ CloseQueue(t) \/ ClosePool(t) \/ NotifyStop(t)
      PROVE  Still
  BY <1>0, <1>1 DEF RaiseStop, CloseQueue, ClosePool, NotifyStop, failVars
<1>2. ASSUME NEW t \in Producers, Acquire(t) \/ AcquireThrows(t) \/ Push(t) \/ CatchException(t)
      PROVE  Still
  BY <1>0, <1>2 DEF Acquire, AcquireThrows, Push, CatchException, failVars
<1>3. ASSUME NEW w \in Workers, WorkerStep(w) PROVE Still
  BY <1>0, <1>1, <1>2, <1>3
     DEF WorkerStep, AwaitEpoch, FallAsleep, Fetch, Decode, ValidateEpoch, failVars
<1>4. CASE TransferStep
  BY <1>0, <1>1, <1>2, <1>4
     DEF TransferStep, TransferLoop, TransferPop, TransferValidate, TransferCopy,
         TransferRevalidate, TransferDrop, failVars
<1>5. CASE CallStep
  BY <1>0, <1>1, <1>5
     DEF CallStep, ClearPending, ClearQueue, PublishEpoch, NotifyEpoch, Pop, Deliver, PopClosed,
         Join, failVars, callerVars
<1>6. CASE CallerChoice
  BY <1>0, <1>6 DEF CallerChoice, BeginReset, CallNext, Deliver, DropBatch, Destroy, failVars
<1>. QED BY <1>3, <1>4, <1>5, <1>6 DEF Next

-----------------------------------------------------------------------------
(* What producers work on, and the counters of the epochs. *)

\* A producer's batch, located, is of a published epoch.
LEMMA ItemPublished ==
  ASSUME IInv, Fetched, NEW t \in Producers
  PROVE  item[t] \in Batch /\ (item[t].gen = 0 \/ item[t].gen <= current_epoch_)
                           /\ item[t].gen <= generation_ /\ item[t].gen \in Nat
<1>1. item[t] \in Batch /\ current_epoch_ \in Nat /\ generation_ \in Nat
      /\ current_epoch_ <= generation_
  BY DEF IInv, TypeOK, EpochOrder
<1>2. item[t].gen \in Nat BY <1>1 DEF Batch
<1>3. Located(item[t]) BY DEF Located, InItem
<1>4. item[t].gen >= 1 => item[t].gen <= current_epoch_ BY <1>1, <1>3 DEF Fetched, Real
<1>. QED BY <1>1, <1>2, <1>4

LEMMA ItemsStep == IInv /\ BatchInv /\ Next => ItemsInHand'
<1>. SUFFICES ASSUME IInv, BatchInv, Next PROVE ItemsInHand' OBVIOUS
<1>0. /\ pc \in [Threads -> Labels] /\ epoch \in [Workers -> 0..MaxEpochs]
      /\ item \in [Producers -> Batch] /\ generation_ \in Nat
      /\ ItemsInHand /\ pc[Transfer] \in TransferLabels /\ \A w \in Workers : pc[w] \in WorkerLabels
  BY DEF IInv, TypeOK, BatchInv, LabelsOK
<1>1. /\ \A w \in Workers : w \in Producers /\ w \in Threads /\ w # Main /\ w # Transfer
      /\ Transfer \in Producers /\ Transfer \in Threads /\ Main \in Threads /\ Main # Transfer
  BY DEF Threads, Producers
<1>2. \A t \in Producers : item[t].gen \in Nat /\ item[t].gen <= generation_
  BY ItemPublished DEF BatchInv
<1>. USE DEF ItemsInHand, Goto, WakeAll, Shutdown, WorkerLabels, TransferLabels, ShutdownLabels
<1>3. ASSUME NEW t \in Threads, RaiseStop(t) \/ CloseQueue(t) \/ ClosePool(t) \/ NotifyStop(t)
      PROVE  ItemsInHand'
  BY <1>0, <1>1, <1>3 DEF RaiseStop, CloseQueue, ClosePool, NotifyStop, epochVars
<1>4. ASSUME NEW w \in Workers, WorkerStep(w) PROVE ItemsInHand'
  <2>1. CASE AwaitEpoch(w) \/ FallAsleep(w)
    BY <1>0, <1>1, <2>1 DEF AwaitEpoch, FallAsleep, epochVars
  <2>2. CASE Fetch(w)
    BY <1>0, <1>1, <2>2 DEF Fetch
  <2>3. CASE Decode(w) \/ ValidateEpoch(w)
    BY <1>0, <1>1, <2>3 DEF Decode, ValidateEpoch, epochVars
  <2>4. CASE Acquire(w)
    BY <1>0, <1>1, <2>4 DEF Acquire, epochVars
  <2>5. CASE AcquireThrows(w) \/ Push(w) \/ CatchException(w)
    BY <1>0, <1>1, <2>5 DEF AcquireThrows, Push, CatchException, epochVars
  <2>. QED BY <1>1, <1>3, <1>4, <2>1, <2>2, <2>3, <2>4, <2>5 DEF WorkerStep
<1>5. CASE TransferStep
  <2>1. CASE TransferLoop \/ TransferPop \/ TransferCopy \/ TransferDrop
    BY <1>0, <1>1, <2>1 DEF TransferLoop, TransferPop, TransferCopy, TransferDrop, epochVars
  <2>2. CASE TransferValidate \/ TransferRevalidate
    BY <1>0, <1>1, <1>2, <2>2 DEF TransferValidate, TransferRevalidate, epochVars
  <2>3. CASE Acquire(Transfer)
    BY <1>0, <1>1, <2>3 DEF Acquire, epochVars
  <2>4. CASE AcquireThrows(Transfer) \/ Push(Transfer) \/ CatchException(Transfer)
    BY <1>0, <1>1, <2>4 DEF AcquireThrows, Push, CatchException, epochVars
  <2>. QED BY <1>1, <1>3, <1>5, <2>1, <2>2, <2>3, <2>4 DEF TransferStep
<1>6. CASE CallStep
  BY <1>0, <1>1, <1>3, <1>6
     DEF CallStep, ClearPending, ClearQueue, PublishEpoch, NotifyEpoch, Pop, Deliver, PopClosed,
         Join, epochVars, callerVars
<1>7. CASE CallerChoice
  <2>1. /\ \A t \in Threads : t # Main => pc'[t] = pc[t]
        /\ UNCHANGED <<item, epoch>>
        /\ generation_' = generation_ \/ generation_' = generation_ + 1
    BY <1>0, <1>1, <1>7 DEF CallerChoice, BeginReset, CallNext, Deliver, DropBatch, Destroy, epochVars
  <2>2. item[Transfer].gen \in Nat BY <1>1, <1>2
  <2>. QED BY <1>0, <1>1, <2>1, <2>2
<1>. QED BY <1>4, <1>5, <1>6, <1>7 DEF Next

LEMMA QueuesStep == IInv /\ BatchInv /\ Next => QueuesFit'
<1>. SUFFICES ASSUME IInv, BatchInv, Next PROVE QueuesFit' OBVIOUS
<1>0. queue \in [Stages -> Seq(Batch)] /\ item \in [Producers -> Batch] /\ QueuesFit
      /\ QueueCapacity \in [Stages -> Nat]
  BY DEF IInv, TypeOK, BatchInv, QueueCapacity
<1>1. UNCHANGED queue => QueuesFit' BY <1>0 DEF QueuesFit
<1>2. ASSUME NEW s \in Stages, queue[s] # <<>>, queue' = [queue EXCEPT ![s] = Tail(@)]
      PROVE  QueuesFit'
  <2>1. Len(queue'[s]) = Len(queue[s]) - 1 /\ Len(queue[s]) \in Nat
    BY <1>0, <1>2, TailOf
  <2>2. QueueCapacity[s] \in Nat /\ \A r \in Stages \ {s} : queue'[r] = queue[r] BY <1>0, <1>2
  <2>. QED BY <1>0, <2>1, <2>2 DEF QueuesFit
<1>3. ASSUME NEW s \in Stages, ClearQueueOf(s) PROVE QueuesFit'
  BY <1>0, <1>3 DEF QueuesFit, ClearQueueOf
<1>4. ASSUME NEW t \in Producers, Push(t) PROVE QueuesFit'
  <2>1. CASE UNCHANGED queue BY <1>1, <2>1
  <2>2. CASE ~(UNCHANGED queue)
    <3>. PICK s \in Stages, b \in Batch : s = StageOf(t) /\ b = item[t]
      BY <1>0 DEF StageOf, Stages
    <3>1. /\ queue' = [queue EXCEPT ![s] = Append(@, b)]
          /\ Len(queue[s]) < QueueCapacity[s]
      BY <1>4, <2>2 DEF Push
    <3>2. queue[s] \in Seq(Batch) /\ queue'[s] = Append(queue[s], b)
          /\ QueueCapacity[s] \in Nat /\ \A r \in Stages \ {s} : queue'[r] = queue[r]
      BY <1>0, <3>1
    <3>3. Len(queue'[s]) = Len(queue[s]) + 1 /\ Len(queue[s]) \in Nat BY <3>2, AppendOf
    <3>. QED BY <1>0, <3>1, <3>2, <3>3 DEF QueuesFit
  <2>. QED BY <2>1, <2>2
<1>5. "host" \in Stages /\ "device" \in Stages /\ Out \in Stages /\ Transfer \in Producers
      /\ \A w \in Workers : w \in Producers
  BY DEF Stages, Out, Producers
<1>. USE DEF queueVars, Shutdown
<1>6. ASSUME NEW t \in Threads, RaiseStop(t) \/ CloseQueue(t) \/ ClosePool(t) \/ NotifyStop(t)
      PROVE  UNCHANGED queue
  BY <1>6 DEF RaiseStop, CloseQueue, ClosePool, NotifyStop
<1>7. \A t \in Producers : t \in Threads BY DEF Threads
<1>8. ASSUME NEW w \in Workers, WorkerStep(w) PROVE QueuesFit'
  BY <1>1, <1>4, <1>5, <1>6, <1>7, <1>8
     DEF WorkerStep, AwaitEpoch, FallAsleep, Fetch, Decode, ValidateEpoch, Acquire,
         AcquireThrows, CatchException
<1>9. CASE TransferStep
  BY <1>1, <1>2, <1>4, <1>5, <1>6, <1>7, <1>9
     DEF TransferStep, TransferLoop, TransferPop, TransferValidate, TransferCopy,
         TransferRevalidate, TransferDrop, Acquire, AcquireThrows, CatchException
<1>10. CASE CallStep
  <2>1. Main \in Threads BY DEF Threads
  <2>. QED BY <1>1, <1>2, <1>3, <1>5, <1>6, <1>10, <2>1
            DEF CallStep, ClearPending, ClearQueue, PublishEpoch, NotifyEpoch, Pop, PopClosed, Join
<1>11. CASE CallerChoice
  BY <1>1, <1>11 DEF CallerChoice, BeginReset, CallNext, DropBatch, Destroy
<1>. QED BY <1>8, <1>9, <1>10, <1>11 DEF Next

\* A batch of the current generation that waits is not beyond the counter.
LEMMA ReturnedFetched ==
  ASSUME IInv, BatchInv, NEW b \in Batch, Located(b), b.gen = generation_,
         b.idx = next_batch_to_return_, generation_ >= 1
  PROVE  next_batch_to_return_ + 1 <= next_batch_to_prepare[generation_]
<1>1. Real(b) BY DEF Real
<1>2. b.idx < next_batch_to_prepare[b.gen] BY <1>1 DEF BatchInv, Fetched
<1>3. next_batch_to_return_ \in Nat /\ next_batch_to_prepare[generation_] \in Nat
  BY DEF IInv, TypeOK
<1>. QED BY <1>2, <1>3

LEMMA CountersStep == IInv /\ BatchInv /\ Next => EpochCounters'
<1>. SUFFICES ASSUME IInv, BatchInv, Next PROVE EpochCounters' OBVIOUS
<1>0. /\ pc \in [Threads -> Labels] /\ epoch \in [Workers -> 0..MaxEpochs]
      /\ generation_ \in 0..MaxEpochs /\ current_epoch_ \in 0..MaxEpochs
      /\ generation_ \in Nat /\ current_epoch_ \in Nat /\ current_epoch_ <= generation_
      /\ next_batch_to_prepare \in [1..MaxEpochs -> Nat] /\ next_batch_to_return_ \in Nat
      /\ EpochCounters
  BY DEF IInv, TypeOK, BatchInv, EpochOrder
<1>1. /\ \A w \in Workers : w \in Producers /\ w \in Threads /\ w # Main /\ w # Transfer
      /\ Transfer \in Producers /\ Transfer \in Threads /\ Main \in Threads /\ Main # Transfer
      /\ \A t \in Producers : t \in Threads /\ t # Main
  BY DEF Threads, Producers
<1>. USE DEF EpochCounters, Resetting, Goto, WakeAll, Shutdown, epochVars, callerVars
<1>2. ASSUME NEW t \in Threads, RaiseStop(t) \/ CloseQueue(t) \/ ClosePool(t) \/ NotifyStop(t)
      PROVE  EpochCounters'
  BY <1>0, <1>1, <1>2 DEF RaiseStop, CloseQueue, ClosePool, NotifyStop
<1>3. ASSUME NEW t \in Producers, Acquire(t) \/ AcquireThrows(t) \/ Push(t) \/ CatchException(t)
      PROVE  EpochCounters'
  BY <1>0, <1>1, <1>3 DEF Acquire, AcquireThrows, Push, CatchException
<1>4. ASSUME NEW w \in Workers, WorkerStep(w) PROVE EpochCounters'
  <2>1. CASE Fetch(w)
    <3>1. /\ pc[w] = "fetch" /\ pc'[Main] = pc[Main]
          /\ UNCHANGED <<generation_, current_epoch_, next_batch_to_return_>>
          /\ \/ UNCHANGED next_batch_to_prepare
             \/ next_batch_to_prepare' = [next_batch_to_prepare EXCEPT
                  ![epoch[w]] = next_batch_to_prepare[epoch[w]] + 1]
      BY <1>0, <1>1, <2>1 DEF Fetch
    <3>2. epoch[w] \in 1..MaxEpochs /\ epoch[w] <= current_epoch_
      BY <1>0, <3>1 DEF IInv, EpochOrder, Preparing
    <3>3. /\ \A g \in 1..MaxEpochs : g > current_epoch_ => next_batch_to_prepare'[g] = next_batch_to_prepare[g]
          /\ \A g \in 1..MaxEpochs : next_batch_to_prepare'[g] >= next_batch_to_prepare[g]
          /\ \A g \in 1..MaxEpochs : next_batch_to_prepare'[g] \in Nat
      BY <1>0, <3>1, <3>2, SMTT(30)
    <3>. QED BY <1>0, <3>1, <3>3
  <2>2. CASE AwaitEpoch(w) \/ FallAsleep(w) \/ Decode(w) \/ ValidateEpoch(w)
    BY <1>0, <1>1, <2>2 DEF AwaitEpoch, FallAsleep, Decode, ValidateEpoch
  <2>. QED BY <1>1, <1>2, <1>3, <1>4, <2>1, <2>2 DEF WorkerStep
<1>5. CASE TransferStep
  BY <1>0, <1>1, <1>2, <1>3, <1>5
     DEF TransferStep, TransferLoop, TransferPop, TransferValidate, TransferCopy,
         TransferRevalidate, TransferDrop
<1>6. CASE CallStep
  <2>1. CASE Pop
    <3>1. /\ pc[Main] = "pop" /\ pc'[Main] \in {"pop", "idle"}
          /\ UNCHANGED <<generation_, current_epoch_, next_batch_to_prepare>>
          /\ \/ UNCHANGED next_batch_to_return_
             \/ /\ Head(queue[Out]).gen = generation_
                /\ Head(queue[Out]).idx = next_batch_to_return_
                /\ next_batch_to_return_' = next_batch_to_return_ + 1
      BY <1>0, <1>1, <2>1 DEF Pop, Deliver
    <3>2. Head(queue[Out]) \in Batch /\ Located(Head(queue[Out]))
      <4>1. queue[Out] # <<>> /\ queue[Out] \in Seq(Batch) /\ Out \in Stages
        BY <2>1 DEF Pop, IInv, TypeOK, Out, Stages
      <4>2. Head(queue[Out]) = queue[Out][1] /\ 1 \in 1..Len(queue[Out]) BY <4>1, TailOf
      <4>3. Head(queue[Out]) \in Batch BY <4>1, <4>2
      <4>. QED BY <4>1, <4>2, <4>3 DEF Located, InQueue
    <3>3. generation_ >= 1 => next_batch_to_return_' <= next_batch_to_prepare[generation_]
      BY <1>0, <3>1, <3>2, ReturnedFetched
    <3>. QED BY <1>0, <3>1, <3>3
  <2>2. CASE PublishEpoch
    BY <1>0, <1>1, <2>2 DEF PublishEpoch
  <2>3. CASE ClearPending \/ ClearQueue \/ NotifyEpoch \/ PopClosed \/ Join
    BY <1>0, <1>1, <2>3 DEF ClearPending, ClearQueue, NotifyEpoch, PopClosed, Join
  <2>. QED BY <1>1, <1>2, <1>6, <2>1, <2>2, <2>3 DEF CallStep
<1>7. CASE CallerChoice
  <2>1. CASE CallNext
    <3>1. /\ pc[Main] = "idle" /\ pc'[Main] \in {"pop", "idle"}
          /\ UNCHANGED <<generation_, current_epoch_, next_batch_to_prepare>>
          /\ \/ UNCHANGED next_batch_to_return_
             \/ /\ \E b \in pending : b.idx = next_batch_to_return_
                /\ next_batch_to_return_' = next_batch_to_return_ + 1
      BY <1>0, <1>1, <2>1 DEF CallNext, Deliver
    <3>2. \A b \in pending : b \in Batch /\ Located(b) /\ b.gen = generation_
      BY <3>1 DEF IInv, PendingCurrent, TypeOK, Located
    <3>3. generation_ >= 1 => next_batch_to_return_' <= next_batch_to_prepare[generation_]
      BY <1>0, <3>1, <3>2, ReturnedFetched
    <3>. QED BY <1>0, <3>1, <3>3
  <2>2. CASE BeginReset
    <3>1. generation_' \in 1..MaxEpochs /\ next_batch_to_return_' = 0
          /\ current_epoch_' < generation_' /\ pc'[Main] = "clear_pending"
          /\ UNCHANGED <<current_epoch_, next_batch_to_prepare>>
      BY <1>0, <1>1, <2>2 DEF BeginReset
    <3>. QED BY <1>0, <3>1
  <2>3. CASE (\E b \in held : DropBatch(b)) \/ Destroy
    BY <1>0, <1>1, <2>3 DEF DropBatch, Destroy
  <2>. QED BY <1>7, <2>1, <2>2, <2>3 DEF CallerChoice
<1>. QED BY <1>4, <1>5, <1>6, <1>7 DEF Next

-----------------------------------------------------------------------------
(* Where the batches are, action by action. *)

Placed == Fetched /\ Unique /\ Covered

\* Steps that move no batch and leave the epochs and the return counter alone.
LEMMA StillStep ==
  ASSUME IInv, BatchInv, Next,
         UNCHANGED <<epochVars, next_batch_to_return_, item, queue, pending>>
  PROVE  Placed'
<1>1. Unique' /\ \A b : Located(b)' <=> Located(b) BY StillUnique DEF BatchInv
<1>2. Fetched' /\ Covered' BY <1>1, QuietStep, FailStays
<1>. QED BY <1>1, <1>2 DEF Placed

\* A producer drops its batch, because the batch is stale or because it failed.
LEMMA DropStep ==
  ASSUME IInv, BatchInv, Next, NEW t \in Producers,
         UNCHANGED <<epochVars, next_batch_to_return_, queue, pending>>,
         item' = [item EXCEPT ![t] = NoItem],
         Real(item[t]) /\ item[t].gen = generation_ /\ current_epoch_ = generation_ =>
           stop_requested_' \/ Failing'
  PROVE  Placed'
<1>0. TypeOK /\ Unique BY DEF IInv, BatchInv
<1>1. Unique' /\ \A b : Real(b) => /\ Located(b)' => Located(b)
                                   /\ Located(b) => Located(b)' \/ b = item[t]
  BY <1>0, ItemGone
<1>2. Fetched' /\ Covered' BY <1>1, QuietStep, FailStays
<1>. QED BY <1>1, <1>2 DEF Placed

\* A batch moves from one place to another.
LEMMA MoveStep ==
  ASSUME IInv, BatchInv, Next, UNCHANGED <<epochVars, next_batch_to_return_>>, Unique',
         \A b : Real(b) => (Located(b)' <=> Located(b))
  PROVE  Placed'
<1>2. Fetched' /\ Covered' BY QuietStep, FailStays
<1>. QED BY <1>2 DEF Placed

\* Places are emptied while the epoch is reset, when nothing of it exists.
LEMMA ClearStep ==
  ASSUME IInv, BatchInv, Next, pc[Main] \in Resetting,
         UNCHANGED <<epochVars, next_batch_to_return_, item>>,
         \A s \in Stages : queue'[s] = queue[s] \/ queue'[s] = <<>>,
         pending' \subseteq pending
  PROVE  Placed'
<1>0. TypeOK /\ Unique /\ queue \in [Stages -> Seq(Batch)] BY DEF IInv, BatchInv, TypeOK
<1>. DEFINE k == [s \in Stages |-> 0]
<1>1. k \in [Stages -> 0..1] OBVIOUS
<1>2. \A s \in Stages : \A n \in 1..Len(queue'[s]) :
        n + k[s] \in 1..Len(queue[s]) /\ queue'[s][n] = queue[s][n + k[s]]
  OBVIOUS
<1>. HIDE DEF k
<1>3. Unique' /\ \A b : Real(b) /\ Located(b)' => Located(b)
  BY <1>0, <1>1, <1>2, ShrinkUnique
<1>4. current_epoch_ # generation_ BY DEF BatchInv, EpochCounters, IInv, TypeOK
<1>5. Fetched' /\ Covered' BY <1>3, <1>4, QuietStep, FailStays
<1>. QED BY <1>3, <1>5 DEF Placed

\* fetch_add hands out an index nobody has.
LEMMA FetchStep ==
  ASSUME IInv, BatchInv, Next, NEW w \in Workers, Fetch(w)
  PROVE  Placed'
<1>0. /\ TypeOK /\ Unique /\ Fetched /\ pc[w] = "fetch" /\ item[w] = NoItem /\ w \in Producers
      /\ epoch[w] \in 1..MaxEpochs /\ epoch[w] <= current_epoch_
  <2>1. pc[w] = "fetch" /\ epoch \in [Workers -> 0..MaxEpochs] /\ current_epoch_ \in Nat
    BY DEF Fetch, IInv, TypeOK
  <2>2. epoch[w] >= 1 /\ epoch[w] <= current_epoch_
    BY <2>1 DEF IInv, EpochOrder, Preparing
  <2>3. item[w] = NoItem BY <2>1 DEF BatchInv, ItemsInHand
  <2>. QED BY <2>1, <2>2, <2>3 DEF IInv, BatchInv, Producers
<1>1. /\ UNCHANGED <<generation_, current_epoch_, queue, pending, next_batch_to_return_>>
      /\ generation_ \in 0..MaxEpochs /\ current_epoch_ \in 0..MaxEpochs
      /\ next_batch_to_prepare \in [1..MaxEpochs -> Nat] /\ next_batch_to_return_ \in Nat
  BY DEF Fetch, queueVars, callerVars, IInv, TypeOK
<1>. PICK g \in 1..MaxEpochs : g = epoch[w] BY <1>0
<1>. PICK i \in Nat : i = next_batch_to_prepare[g] BY <1>1
<1>2. CASE stop_requested_
  <2>1. UNCHANGED <<next_batch_to_prepare, item>> BY <1>2 DEF Fetch
  <2>. QED BY <1>1, <2>1, StillStep DEF epochVars
<1>. SUFFICES ASSUME ~stop_requested_ PROVE Placed'
  BY <1>2
<1>3. next_batch_to_prepare' = [next_batch_to_prepare EXCEPT ![g] = i + 1]
  BY DEF Fetch
<1>4. /\ next_batch_to_prepare'[g] = i + 1 /\ i + 1 \in Nat
      /\ \A e \in 1..MaxEpochs : e # g => next_batch_to_prepare'[e] = next_batch_to_prepare[e]
  BY <1>1, <1>3
<1>. PICK c \in Batch : c = [gen |-> g, idx |-> i]
  <2>1. g \in 0..MaxEpochs OBVIOUS
  <2>. QED BY <2>1 DEF Batch
<1>5. Real(c) /\ c.gen = g /\ c.idx = i BY DEF Real
<1>6. ~Located(c) BY <1>0, <1>5 DEF Fetched
<1>7. Failing \/ stop_requested_ => Failing' \/ stop_requested_' BY FailStays
\* The handed out index is at most what was handed out, and is not returned.
<1>8. g = generation_ => i >= next_batch_to_return_
  BY <1>0, <1>1 DEF BatchInv, EpochCounters
<1>9. ASSUME Unique', \A b : Real(b) => (Located(b)' <=> Located(b) \/ (i < TotalBatches /\ b = c))
      PROVE  Placed'
  <2>1. Fetched'
    <3>. SUFFICES ASSUME NEW b \in Batch, Real(b), Located(b)'
         PROVE  /\ b.gen <= current_epoch_ /\ b.idx < next_batch_to_prepare'[b.gen]
                /\ b.gen = generation_ => b.idx >= next_batch_to_return_
      BY <1>1 DEF Fetched
    <3>0. b.gen \in 1..MaxEpochs /\ b.idx \in Nat BY DEF Real, Batch
    <3>1. CASE b = c BY <1>0, <1>1, <1>4, <1>5, <1>8, <3>1
    <3>2. CASE b # c
      <4>1. Located(b) BY <1>9, <3>2
      <4>2. /\ b.gen <= current_epoch_ /\ b.idx < next_batch_to_prepare[b.gen]
            /\ b.gen = generation_ => b.idx >= next_batch_to_return_
        BY <1>0, <4>1 DEF Fetched
      <4>3. next_batch_to_prepare[b.gen] \in Nat /\ next_batch_to_prepare'[b.gen] \in Nat
            /\ next_batch_to_prepare'[b.gen] >= next_batch_to_prepare[b.gen]
        BY <1>1, <1>4, <3>0
      <4>. QED BY <3>0, <4>2, <4>3
    <3>. QED BY <3>1, <3>2
  <2>2. Covered'
    <3>. SUFFICES ASSUME generation_ >= 1, current_epoch_ = generation_,
                         NEW j \in 0..TotalBatches - 1, j < next_batch_to_prepare'[generation_]
         PROVE  \/ j < next_batch_to_return_ \/ Located([gen |-> generation_, idx |-> j])'
                \/ stop_requested_' \/ Failing'
      BY <1>1 DEF Covered
    <3>0. j \in Nat /\ j < TotalBatches OBVIOUS
    <3>. PICK b \in Batch : b = [gen |-> generation_, idx |-> j] BY <1>1, <3>0 DEF Batch
    <3>1. Real(b) BY DEF Real
    <3>2. CASE g = generation_ /\ j = i BY <1>1, <1>9, <3>0, <3>1, <3>2
    <3>3. CASE ~(g = generation_ /\ j = i)
      <4>1. j < next_batch_to_prepare[generation_] BY <1>1, <1>4, <3>0, <3>3
      <4>2. j < next_batch_to_return_ \/ Located(b) \/ stop_requested_ \/ Failing
        BY <4>1 DEF BatchInv, Covered
      <4>. QED BY <1>1, <1>7, <1>9, <3>1, <4>2
    <3>. QED BY <3>2, <3>3
  <2>. QED BY <1>9, <2>1, <2>2 DEF Placed
<1>10. CASE i < TotalBatches
  <2>1. item' = [item EXCEPT ![w] = c] BY <1>1, <1>10 DEF Fetch
  <2>2. Unique' /\ \A b : Real(b) => (Located(b)' <=> Located(b) \/ b = c)
    BY <1>0, <1>1, <1>6, <2>1, FetchUnique
  <2>. QED BY <1>9, <1>10, <2>2
<1>11. CASE ~(i < TotalBatches)
  <2>1. item' = item BY <1>1, <1>11 DEF Fetch
  <2>2. Unique' /\ \A b : Located(b)' <=> Located(b) BY <1>0, <1>1, <2>1, StillUnique
  <2>. QED BY <1>9, <1>11, <2>2
<1>. QED BY <1>10, <1>11

\* The batch b, which was located, becomes the returned one.
LEMMA ReturnStep ==
  ASSUME IInv, BatchInv, Next, NEW b \in Batch,
         b.gen = generation_, b.idx = next_batch_to_return_,
         next_batch_to_return_' = next_batch_to_return_ + 1, UNCHANGED epochVars, Unique',
         \A x : Real(x) => (Located(x)' <=> Located(x) /\ x # b)
  PROVE  Placed'
<1>0. /\ UNCHANGED <<generation_, current_epoch_, next_batch_to_prepare>>
      /\ generation_ \in 0..MaxEpochs /\ next_batch_to_return_ \in Nat /\ Fetched
  BY DEF epochVars, IInv, TypeOK, BatchInv
<1>1. Fetched'
  <2>. SUFFICES ASSUME NEW x \in Batch, Real(x), Located(x)', x.gen = generation_
       PROVE  x.idx >= next_batch_to_return_ + 1
    BY <1>0 DEF Fetched
  <2>1. Located(x) /\ x # b OBVIOUS
  <2>2. x.idx >= next_batch_to_return_ BY <1>0, <2>1 DEF Fetched
  <2>3. x.idx # b.idx BY <2>1, RealBatches
  <2>4. x.idx \in Nat BY DEF Batch
  <2>. QED BY <1>0, <2>2, <2>3, <2>4
<1>2. Covered'
  <2>. SUFFICES ASSUME generation_ >= 1, current_epoch_ = generation_,
                       NEW j \in 0..TotalBatches - 1, j < next_batch_to_prepare[generation_]
       PROVE  \/ j < next_batch_to_return_ + 1 \/ Located([gen |-> generation_, idx |-> j])'
              \/ stop_requested_' \/ Failing'
    BY <1>0 DEF Covered
  <2>0. j \in Nat OBVIOUS
  <2>. PICK x \in Batch : x = [gen |-> generation_, idx |-> j] BY <1>0, <2>0 DEF Batch
  <2>1. Real(x) BY DEF Real
  <2>2. j < next_batch_to_return_ \/ Located(x) \/ stop_requested_ \/ Failing
    BY DEF BatchInv, Covered
  <2>3. CASE x = b BY <1>0, <2>0, <2>3
  <2>4. CASE x # b BY <1>0, <2>0, <2>1, <2>2, <2>4, FailStays
  <2>. QED BY <2>3, <2>4
<1>. QED BY <1>1, <1>2 DEF Placed

\* A batch popped from the queue the caller waits on.
LEMMA PopStep == IInv /\ BatchInv /\ Pop => Placed'
<1>. SUFFICES ASSUME IInv, BatchInv, Pop PROVE Placed' OBVIOUS
<1>0. TypeOK /\ Unique /\ Fetched /\ Next /\ Out \in Stages
  BY DEF IInv, BatchInv, Next, CallStep, Out, Stages
<1>1. /\ queue[Out] # <<>> /\ queue' = [queue EXCEPT ![Out] = Tail(@)]
      /\ UNCHANGED <<generation_, current_epoch_, next_batch_to_prepare, item>>
      /\ UNCHANGED epochVars /\ pc[Main] = "pop"
  BY DEF Pop, epochVars
<1>. PICK c \in Batch : c = Head(queue[Out]) /\ InQueue(c) BY <1>0, <1>1, HeadLeaves
<1>2. PICK k \in [Stages -> 0..1] : \A r \in Stages : \A n \in 1..Len(queue'[r]) :
        n + k[r] \in 1..Len(queue[r]) /\ queue'[r][n] = queue[r][n + k[r]]
  BY <1>0, <1>1, HeadLeaves
<1>3. \A b : Real(b) => (InQueue(b)' <=> InQueue(b) /\ b # c) BY <1>0, <1>1, HeadLeaves
<1>4. \A b : InItem(b)' <=> InItem(b) BY <1>1 DEF InItem
<1>5. pending' = pending => Unique' /\ \A b : Real(b) => (Located(b)' <=> Located(b) /\ b # c)
  <2>. SUFFICES ASSUME pending' = pending
       PROVE Unique' /\ \A b : Real(b) => (Located(b)' <=> Located(b) /\ b # c)
    OBVIOUS
  <2>1. Unique' BY <1>0, <1>1, <1>2, ShrinkUnique
  <2>2. Real(c) => ~InItem(c) /\ c \notin pending BY <1>0 DEF Unique
  <2>. QED BY <1>3, <1>4, <2>1, <2>2 DEF Located
<1>6. CASE c.gen # generation_
  <2>1. UNCHANGED callerVars BY <1>6 DEF Pop
  <2>2. Fetched' /\ Covered' BY <1>0, <1>1, <1>5, <1>6, <2>1, QuietStep, FailStays DEF callerVars
  <2>. QED BY <1>5, <2>1, <2>2 DEF callerVars, Placed
<1>7. CASE c.gen = generation_ /\ c.idx = next_batch_to_return_
  <2>1. pending' = pending /\ next_batch_to_return_' = next_batch_to_return_ + 1
    BY <1>7 DEF Pop, Deliver
  <2>. QED BY <1>0, <1>1, <1>5, <1>7, <2>1, ReturnStep
<1>8. CASE c.gen = generation_ /\ c.idx # next_batch_to_return_ /\ \E p \in pending : p.idx = c.idx
\* A second copy of a pending batch does not exist: only NoItem would do.
  <2>1. next_batch_to_return_' = next_batch_to_return_ /\ pending' = pending
    BY <1>8 DEF Pop
  <2>2. PICK p \in pending : p.idx = c.idx BY <1>8
  <2>3. p \in Batch /\ p.gen = generation_
    BY <1>1 DEF IInv, TypeOK, PendingCurrent
  <2>4. p = c BY <1>8, <2>2, <2>3, RealBatches
  <2>5. ~Real(c) BY <1>0, <2>4 DEF Unique
  <2>6. Fetched' /\ Covered' BY <1>0, <1>1, <1>5, <2>1, <2>5, QuietStep, FailStays
  <2>. QED BY <1>5, <2>1, <2>6 DEF Placed
<1>9. CASE c.gen = generation_ /\ c.idx # next_batch_to_return_ /\ ~\E p \in pending : p.idx = c.idx
  <2>1. next_batch_to_return_' = next_batch_to_return_ /\ pending' = pending \cup {c}
    BY <1>9 DEF Pop
  <2>2. Unique' /\ \A b : Real(b) => (Located(b)' <=> Located(b))
    BY <1>0, <1>1, <2>1, PopToPending
  <2>. QED BY <1>0, <1>1, <2>1, <2>2, MoveStep
<1>. QED BY <1>6, <1>7, <1>8, <1>9

\* next returns a batch that waited in the pending map, or goes to the queue.
LEMMA CallNextStep == IInv /\ BatchInv /\ CallNext => Placed'
<1>. SUFFICES ASSUME IInv, BatchInv, CallNext PROVE Placed' OBVIOUS
<1>0. TypeOK /\ Unique /\ Next BY DEF IInv, BatchInv, Next, CallerChoice
<1>1. UNCHANGED epochVars /\ UNCHANGED <<queue, item>> /\ pc[Main] = "idle"
  BY DEF CallNext, queueVars
<1>2. CASE UNCHANGED <<pending, next_batch_to_return_>>
  BY <1>0, <1>1, <1>2, StillStep
<1>3. ASSUME NEW b \in pending, b.idx = next_batch_to_return_, pending' = pending \ {b},
             next_batch_to_return_' = next_batch_to_return_ + 1
      PROVE  Placed'
  <2>1. b \in Batch /\ b.gen = generation_ BY <1>1 DEF IInv, TypeOK, PendingCurrent
  <2>. DEFINE k == [s \in Stages |-> 0]
  <2>2. k \in [Stages -> 0..1] OBVIOUS
  <2>3. \A s \in Stages : \A n \in 1..Len(queue'[s]) :
          n + k[s] \in 1..Len(queue[s]) /\ queue'[s][n] = queue[s][n + k[s]]
    BY <1>1
  <2>. HIDE DEF k
  <2>4. Unique' BY <1>0, <1>1, <1>3, <2>2, <2>3, ShrinkUnique
  <2>5. Real(b) => ~InItem(b) /\ ~InQueue(b) BY <1>0, <2>1 DEF Unique
  <2>6. \A x : /\ InItem(x)' <=> InItem(x)
               /\ InQueue(x)' <=> InQueue(x)
    BY <1>1 DEF InItem, InQueue
  <2>7. \A x : Real(x) => (Located(x)' <=> Located(x) /\ x # b)
    BY <1>3, <2>5, <2>6 DEF Located
  <2>. QED BY <1>0, <1>1, <1>3, <2>1, <2>4, <2>7, ReturnStep
<1>4. \/ UNCHANGED <<pending, next_batch_to_return_>>
      \/ \E b \in pending : /\ b.idx = next_batch_to_return_ /\ pending' = pending \ {b}
                            /\ next_batch_to_return_' = next_batch_to_return_ + 1
  BY DEF CallNext, Deliver
<1>. QED BY <1>2, <1>3, <1>4

\* A producer pushes its batch, or drops it because its queue is closed,
\* which only a stop explains.
LEMMA PushStep ==
  ASSUME IInv, BatchInv, Next, NEW t \in Producers, Push(t)
  PROVE  Placed'
<1>0. TypeOK /\ Unique /\ StageOf(t) \in Stages /\ StopExplained
  BY DEF IInv, BatchInv, StageOf, Stages
<1>1. UNCHANGED <<epochVars, next_batch_to_return_, pending, stop_requested_>>
  BY DEF Push, callerVars, failVars
<1>2. item' = [item EXCEPT ![t] = NoItem] BY DEF Push
<1>3. CASE closed[StageOf(t)]
  <2>1. queue' = queue BY <1>3 DEF Push
  <2>2. stop_requested_' BY <1>0, <1>1, <1>3 DEF StopExplained
  <2>. QED BY <1>1, <1>2, <2>1, <2>2, DropStep
<1>4. CASE ~closed[StageOf(t)]
  <2>1. queue' = [queue EXCEPT ![StageOf(t)] = Append(@, item[t])] BY <1>4 DEF Push
  <2>2. Unique' /\ \A b : Real(b) => (Located(b)' <=> Located(b))
    BY <1>0, <1>1, <1>2, <2>1, PushUnique
  <2>. QED BY <1>1, <2>2, MoveStep
<1>. QED BY <1>3, <1>4

LEMMA PlacedStep == IInv /\ BatchInv /\ Next => Placed'
<1>. SUFFICES ASSUME IInv, BatchInv, Next PROVE Placed' OBVIOUS
<1>0. /\ pc \in [Threads -> Labels] /\ Main \in Threads
      /\ \A t \in Producers : t \in Threads
      /\ Transfer \in Producers /\ \A w \in Workers : w \in Producers
  BY DEF IInv, TypeOK, Threads, Producers
<1>. DEFINE Still == UNCHANGED <<epochVars, next_batch_to_return_, item, queue, pending>>
            Rest == UNCHANGED <<epochVars, next_batch_to_return_, queue, pending>>
            Drops(t) == item' = [item EXCEPT ![t] = NoItem]
<1>1. Still => Placed' BY StillStep
<1>2. ASSUME NEW t \in Producers, Rest, Drops(t), pc'[t] \in {"catch_failure", "catch_closed"}
      PROVE  Placed'
  <2>1. Failing' BY <1>2 DEF Failing
  <2>. QED BY <1>2, <2>1, DropStep
<1>. USE DEF queueVars, callerVars
<1>3. ASSUME NEW t \in Threads, Shutdown(t) PROVE Still
  BY <1>3 DEF Shutdown, RaiseStop, CloseQueue, ClosePool, NotifyStop
<1>4. ASSUME NEW t \in Producers, Acquire(t) \/ CatchException(t) PROVE Still
  BY <1>4 DEF Acquire, CatchException
<1>5. ASSUME NEW t \in Producers, AcquireThrows(t) PROVE Placed'
  <2>1. Rest /\ Drops(t) BY <1>5 DEF AcquireThrows
  <2>2. pc'[t] \in {"catch_failure", "catch_closed"} BY <1>0, <1>5 DEF AcquireThrows, Goto
  <2>. QED BY <1>2, <2>1, <2>2
<1>6. ASSUME NEW w \in Workers, WorkerStep(w) PROVE Placed'
  <2>1. CASE AwaitEpoch(w) \/ FallAsleep(w)
    <3>1. Still BY <2>1 DEF AwaitEpoch, FallAsleep
    <3>. QED BY <1>1, <3>1
  <2>2. CASE Fetch(w) BY <2>2, FetchStep
  <2>3. CASE Decode(w)
    <3>1. CASE Still BY <1>1, <3>1
    <3>2. CASE ~Still
      <4>1. Rest /\ Drops(w) /\ Goto(w, "catch_failure") BY <2>3, <3>2 DEF Decode
      <4>2. pc'[w] = "catch_failure" BY <1>0, <4>1 DEF Goto
      <4>. QED BY <1>0, <1>2, <4>1, <4>2
    <3>. QED BY <3>1, <3>2
  <2>4. CASE ValidateEpoch(w)
    <3>1. CASE current_epoch_ = epoch[w]
      <4>1. Still BY <2>4, <3>1 DEF ValidateEpoch
      <4>. QED BY <1>1, <4>1
    <3>2. CASE current_epoch_ # epoch[w]
      <4>1. Rest /\ Drops(w) /\ pc[w] = "validate" BY <2>4, <3>2 DEF ValidateEpoch
      <4>2. item[w].gen = epoch[w] BY <4>1 DEF BatchInv, ItemsInHand
      <4>. QED BY <1>0, <3>2, <4>1, <4>2, DropStep
    <3>. QED BY <3>1, <3>2
  <2>5. CASE Push(w) BY <1>0, <2>5, PushStep
  <2>6. CASE Acquire(w) \/ CatchException(w) \/ Shutdown(w) BY <1>0, <1>1, <1>3, <1>4, <2>6
  <2>. QED BY <1>0, <1>5, <1>6, <2>1, <2>2, <2>3, <2>4, <2>5, <2>6 DEF WorkerStep
<1>7. CASE TransferStep
  <2>1. CASE TransferLoop \/ TransferValidate \/ TransferRevalidate
    <3>1. Still BY <2>1 DEF TransferLoop, TransferValidate, TransferRevalidate
    <3>. QED BY <1>1, <3>1
  <2>2. CASE TransferPop
    <3>1. CASE Still BY <1>1, <3>1
    <3>2. CASE ~Still
      <4>1. /\ queue["host"] # <<>> /\ "host" \in Stages
            /\ item' = [item EXCEPT ![Transfer] = Head(queue["host"])]
            /\ queue' = [queue EXCEPT !["host"] = Tail(@)]
            /\ UNCHANGED <<epochVars, next_batch_to_return_, pending>>
            /\ pc[Transfer] = "pop"
        BY <2>2, <3>2 DEF TransferPop, Stages
      <4>2. item[Transfer] = NoItem BY <4>1 DEF BatchInv, ItemsInHand
      <4>3. TypeOK /\ Unique BY DEF IInv, BatchInv
      <4>4. Unique' /\ \A b : Real(b) => (Located(b)' <=> Located(b))
        BY <1>0, <4>1, <4>2, <4>3, PopToItem
      <4>. QED BY <4>1, <4>4, MoveStep
    <3>. QED BY <3>1, <3>2
  <2>3. CASE TransferCopy
    <3>1. CASE Still BY <1>1, <3>1
    <3>2. CASE ~Still
      <4>1. Rest /\ Drops(Transfer) /\ Goto(Transfer, "catch_failure")
        BY <2>3, <3>2 DEF TransferCopy
      <4>2. pc'[Transfer] = "catch_failure" BY <1>0, <4>1 DEF Goto
      <4>. QED BY <1>0, <1>2, <4>1, <4>2
    <3>. QED BY <3>1, <3>2
  <2>4. CASE TransferDrop
    <3>1. Rest /\ Drops(Transfer) /\ pc[Transfer] = "drop" BY <2>4 DEF TransferDrop
    <3>2. item[Transfer] = NoItem \/ item[Transfer].gen < generation_
      BY <3>1 DEF BatchInv, ItemsInHand
    <3>3. ~(Real(item[Transfer]) /\ item[Transfer].gen = generation_)
      BY <3>2, RealBatches DEF IInv, TypeOK
    <3>. QED BY <1>0, <3>1, <3>3, DropStep
  <2>5. CASE Push(Transfer) BY <1>0, <2>5, PushStep
  <2>6. CASE Acquire(Transfer) \/ CatchException(Transfer) \/ Shutdown(Transfer)
    BY <1>0, <1>1, <1>3, <1>4, <2>6
  <2>. QED BY <1>0, <1>5, <1>7, <2>1, <2>2, <2>3, <2>4, <2>5, <2>6 DEF TransferStep
<1>8. CASE CallStep
  <2>1. CASE ClearPending
    <3>1. /\ pc[Main] \in Resetting /\ pending' \subseteq pending
          /\ UNCHANGED <<epochVars, next_batch_to_return_, item, queue>>
      BY <2>1 DEF ClearPending, Resetting
    <3>. QED BY <3>1, ClearStep
  <2>2. CASE ClearQueue
    <3>1. pc[Main] \in Resetting /\ UNCHANGED <<epochVars, next_batch_to_return_, item, pending>>
      BY <2>2 DEF ClearQueue, Resetting
    <3>2. PICK x \in Stages : queue' = [queue EXCEPT ![x] = <<>>]
      BY <2>2 DEF ClearQueue, ClearQueueOf, Stages
    <3>3. \A s \in Stages : queue'[s] = queue[s] \/ queue'[s] = <<>>
      BY <3>2 DEF IInv, TypeOK
    <3>. QED BY <3>1, <3>3, ClearStep
  <2>3. CASE PublishEpoch
    <3>0. /\ generation_ \in 0..MaxEpochs /\ current_epoch_ \in 0..MaxEpochs
          /\ Fetched /\ Unique /\ EpochCounters
      BY DEF IInv, TypeOK, BatchInv
    <3>1. /\ pc[Main] \in Resetting /\ current_epoch_' = generation_
          /\ UNCHANGED <<generation_, next_batch_to_prepare, next_batch_to_return_, item, queue, pending>>
      BY <2>3 DEF PublishEpoch, Resetting
    <3>2. current_epoch_ < generation_ /\ next_batch_to_prepare[generation_] = 0
      BY <3>0, <3>1 DEF EpochCounters
    <3>3. Unique' /\ \A b : Located(b)' <=> Located(b) BY <3>0, <3>1, StillUnique
    <3>4. Fetched'
      <4>1. \A b \in Batch : Real(b) /\ Located(b) => b.gen <= generation_
        BY <3>0, <3>2, RealBatches DEF Fetched
      <4>. QED BY <3>0, <3>1, <3>3, <4>1 DEF Fetched
    <3>5. Covered' BY <3>1, <3>2 DEF Covered
    <3>. QED BY <3>3, <3>4, <3>5 DEF Placed
  <2>4. CASE Pop BY <2>4, PopStep
  <2>5. CASE NotifyEpoch \/ PopClosed \/ Join
    <3>1. Still BY <2>5 DEF NotifyEpoch, PopClosed, Join
    <3>. QED BY <1>1, <3>1
  <2>6. CASE Shutdown(Main) BY <1>0, <1>1, <1>3, <2>6
  <2>. QED BY <1>8, <2>1, <2>2, <2>3, <2>4, <2>5, <2>6 DEF CallStep
<1>9. CASE CallerChoice
  <2>1. CASE BeginReset
    <3>0. /\ generation_ \in 0..MaxEpochs /\ current_epoch_ \in 0..MaxEpochs
          /\ current_epoch_ <= generation_ /\ Fetched /\ Unique
      BY DEF IInv, TypeOK, BatchInv, EpochOrder
    <3>1. /\ generation_' = generation_ + 1
          /\ UNCHANGED <<current_epoch_, next_batch_to_prepare, item, queue, pending>>
      BY <2>1 DEF BeginReset
    <3>2. Unique' /\ \A b : Located(b)' <=> Located(b) BY <3>0, <3>1, StillUnique
    <3>3. Fetched'
      <4>1. \A b \in Batch : Real(b) /\ Located(b) => b.gen # generation_'
        BY <3>0, <3>1, RealBatches DEF Fetched
      <4>. QED BY <3>0, <3>1, <3>2, <4>1 DEF Fetched
    <3>4. Covered' BY <3>0, <3>1 DEF Covered
    <3>. QED BY <3>2, <3>3, <3>4 DEF Placed
  <2>2. CASE CallNext BY <2>2, CallNextStep
  <2>3. CASE (\E b \in held : DropBatch(b)) \/ Destroy
    <3>1. Still BY <2>3 DEF DropBatch, Destroy
    <3>. QED BY <1>1, <3>1
  <2>. QED BY <1>9, <2>1, <2>2, <2>3 DEF CallerChoice
<1>. QED BY <1>6, <1>7, <1>8, <1>9 DEF Next

LEMMA BatchInit == Init => BatchInv
<1>. SUFFICES ASSUME Init PROVE BatchInv OBVIOUS
<1>0. /\ generation_ = 0 /\ current_epoch_ = 0 /\ pending = {} /\ next_batch_to_return_ = 0
      /\ next_batch_to_prepare = [g \in 1..MaxEpochs |-> 0]
      /\ queue = [s \in Stages |-> <<>>] /\ item = [t \in Producers |-> NoItem]
      /\ pc = [t \in Threads |-> IF t = Main THEN "construct" ELSE IF t # Transfer THEN "outer"
                                 ELSE IF UsesDevice THEN "loop" ELSE "done"]
  BY DEF Init
<1>1. \A b : Located(b) => b = NoItem BY <1>0 DEF Located, InItem, InQueue
<1>2. Fetched BY <1>1, RealBatches DEF Fetched
<1>3. Unique BY <1>0, <1>1, RealBatches DEF Unique, Located
<1>4. ItemsInHand
  <2>1. \A w \in Workers : w \in Threads /\ w # Main /\ w # Transfer /\ w \in Producers
    BY DEF Threads, Producers
  <2>2. Transfer \in Threads /\ Transfer # Main /\ Transfer \in Producers
    BY DEF Threads, Producers
  <2>. QED BY <1>0, <2>1, <2>2 DEF ItemsInHand
<1>5. EpochCounters
  <2>1. pc[Main] = "construct" BY <1>0 DEF Threads
  <2>. QED BY <1>0, <2>1 DEF EpochCounters, Resetting
<1>6. Covered BY <1>0 DEF Covered
<1>7. QueuesFit BY <1>0 DEF QueuesFit, QueueCapacity
<1>. QED BY <1>2, <1>3, <1>4, <1>5, <1>6, <1>7 DEF BatchInv

LEMMA BatchStutter == BatchInv /\ UNCHANGED vars => BatchInv'
<1>. SUFFICES ASSUME BatchInv, UNCHANGED vars PROVE BatchInv' OBVIOUS
<1>0. UNCHANGED <<generation_, current_epoch_, next_batch_to_prepare, queue,
                  next_batch_to_return_, pending, stop_requested_, pc, epoch, item>>
  BY DEF vars, epochVars, queueVars, callerVars, failVars
<1>1. Unique' /\ \A b : Located(b)' <=> Located(b) BY <1>0, StillUnique DEF BatchInv
<1>2. Fetched' BY <1>0, <1>1 DEF BatchInv, Fetched
<1>3. Failing' <=> Failing BY <1>0 DEF Failing
<1>4. Covered' BY <1>0, <1>1, <1>3 DEF BatchInv, Covered
<1>5. ItemsInHand' BY <1>0 DEF BatchInv, ItemsInHand
<1>6. EpochCounters' BY <1>0 DEF BatchInv, EpochCounters
<1>7. QueuesFit' BY <1>0 DEF BatchInv, QueuesFit
<1>. QED BY <1>1, <1>2, <1>4, <1>5, <1>6, <1>7 DEF BatchInv

\* Where the batches are: every step of every thread keeps BatchInv.
THEOREM BatchesPlaced == Spec => []BatchInv
<1>1. IInv /\ BatchInv /\ [Next]_vars => BatchInv'
  BY BatchStutter, ItemsStep, QueuesStep, CountersStep, PlacedStep DEF BatchInv, Placed
<1>. QED BY Invariant, BatchInit, <1>1, PTL DEF Spec

\* A set of at most one element.
LEMMA AtMostOne ==
  ASSUME NEW S, \A x, y \in S : x = y
  PROVE  Cardinality(S) = IF S = {} THEN 0 ELSE 1
<1>1. CASE S = {} BY <1>1, FS_EmptySet
<1>2. CASE S # {}
  <2>. PICK x : x \in S BY <1>2
  <2>1. S = {x} OBVIOUS
  <2>. QED BY <1>2, <2>1, FS_Singleton
<1>. QED BY <1>1, <1>2

\* However many workers race, in the order they race, and whatever resets
\* leave behind, an index of the published epoch is in one place or returned,
\* once; only a failure or a stop loses it.
THEOREM EachBatchOnce == Spec => []NothingLostOrDuplicated
<1>1. IInv /\ BatchInv => NothingLostOrDuplicated
  <2>. SUFFICES ASSUME IInv, BatchInv, generation_ > 0, current_epoch_ = generation_,
                       NEW i \in 0..TotalBatches - 1
       PROVE  IF i >= next_batch_to_prepare[generation_] THEN Copies(i) = 0
              ELSE /\ Copies(i) <= 1
                   /\ Copies(i) = 0 => stop_requested_ \/ Failing
    BY DEF NothingLostOrDuplicated
  <2>0. /\ generation_ \in 1..MaxEpochs /\ next_batch_to_return_ \in Nat /\ i \in Nat
        /\ next_batch_to_prepare[generation_] \in Nat /\ queue \in [Stages -> Seq(Batch)]
        /\ Fetched /\ Unique /\ EpochCounters /\ Covered /\ QueuesFit
    BY DEF IInv, TypeOK, BatchInv
  <2>. PICK b \in Batch : b = [gen |-> generation_, idx |-> i]
    <3>1. generation_ \in 0..MaxEpochs BY <2>0
    <3>. QED BY <2>0, <3>1 DEF Batch
  <2>1. Real(b) /\ b.gen = generation_ /\ b.idx = i BY <2>0 DEF Real
  <2>. DEFINE Hands == {t \in Producers : item[t] = b}
              Slots == {x \in Stages \X (1..HostPrefetch + DevicePrefetch) :
                          x[2] <= Len(queue[x[1]]) /\ queue[x[1]][x[2]] = b}
  <2>2. Copies(i) = Cardinality(Hands) + Cardinality(Slots)
          + (IF b \in pending THEN 1 ELSE 0) + (IF i < next_batch_to_return_ THEN 1 ELSE 0)
    BY DEF Copies
  <2>3. Cardinality(Hands) = IF InItem(b) THEN 1 ELSE 0
    <3>1. \A t, u \in Hands : t = u BY <2>0, <2>1 DEF Unique
    <3>2. Cardinality(Hands) = IF Hands = {} THEN 0 ELSE 1 BY <3>1, AtMostOne
    <3>3. Hands = {} <=> ~InItem(b) BY DEF InItem
    <3>. QED BY <3>2, <3>3
  <2>4. Cardinality(Slots) = IF InQueue(b) THEN 1 ELSE 0
    <3>1. \A x, y \in Slots : x = y
      <4>. SUFFICES ASSUME NEW x \in Slots, NEW y \in Slots PROVE x = y OBVIOUS
      <4>1. /\ x[1] \in Stages /\ y[1] \in Stages /\ x = <<x[1], x[2]>> /\ y = <<y[1], y[2]>>
            /\ x[2] \in Nat \ {0} /\ y[2] \in Nat \ {0}
        OBVIOUS
      <4>2. Len(queue[x[1]]) \in Nat /\ Len(queue[y[1]]) \in Nat BY <2>0, <4>1
      <4>3. x[2] \in 1..Len(queue[x[1]]) /\ y[2] \in 1..Len(queue[y[1]]) BY <4>1, <4>2
      <4>4. queue[x[1]][x[2]] = b /\ queue[y[1]][y[2]] = b OBVIOUS
      <4>. PICK r \in Stages, s \in Stages : r = x[1] /\ s = y[1] BY <4>1
      <4>. PICK m \in Nat, n \in Nat : m = x[2] /\ n = y[2] BY <4>1
      <4>5. m \in 1..Len(queue[r]) /\ n \in 1..Len(queue[s]) /\ queue[r][m] = b /\ queue[s][n] = b
        BY <4>3, <4>4
      <4>6. r = s /\ m = n BY <2>0, <2>1, <4>5, SMTT(30) DEF Unique
      <4>. QED BY <4>1, <4>6
    <3>2. Cardinality(Slots) = IF Slots = {} THEN 0 ELSE 1 BY <3>1, AtMostOne
    <3>3. Slots # {} => InQueue(b)
      <4>. SUFFICES ASSUME NEW x \in Slots PROVE InQueue(b) OBVIOUS
      <4>1. x[1] \in Stages /\ x[2] \in Nat \ {0} /\ queue[x[1]][x[2]] = b OBVIOUS
      <4>2. x[2] \in 1..Len(queue[x[1]]) BY <2>0, <4>1
      <4>. QED BY <4>1, <4>2 DEF InQueue
    <3>4. InQueue(b) => Slots # {}
      <4>. SUFFICES ASSUME InQueue(b) PROVE Slots # {} OBVIOUS
      <4>1. PICK s \in Stages : \E n \in 1..Len(queue[s]) : queue[s][n] = b BY DEF InQueue
      <4>2. PICK n \in 1..Len(queue[s]) : queue[s][n] = b BY <4>1
      <4>3. Len(queue[s]) \in Nat /\ Len(queue[s]) <= QueueCapacity[s] BY <2>0 DEF QueuesFit
      <4>4. QueueCapacity[s] \in Nat /\ QueueCapacity[s] <= HostPrefetch + DevicePrefetch
        BY DEF QueueCapacity
      <4>5. n \in 1..HostPrefetch + DevicePrefetch /\ n <= Len(queue[s]) BY <4>3, <4>4
      <4>6. <<s, n>> \in Slots BY <4>2, <4>5
      <4>. QED BY <4>6
    <3>. QED BY <3>2, <3>3, <3>4
  <2>. HIDE DEF Hands, Slots
  <2>5. /\ ~(InItem(b) /\ InQueue(b)) /\ ~(InItem(b) /\ b \in pending)
        /\ ~(InQueue(b) /\ b \in pending)
    BY <2>0, <2>1 DEF Unique
  <2>6. Located(b) => i < next_batch_to_prepare[generation_] /\ i >= next_batch_to_return_
    BY <2>0, <2>1 DEF Fetched
  <2>7. next_batch_to_return_ <= next_batch_to_prepare[generation_] BY <2>0 DEF EpochCounters
  <2>8. i < next_batch_to_prepare[generation_] =>
          i < next_batch_to_return_ \/ Located(b) \/ stop_requested_ \/ Failing
    BY <2>0 DEF Covered
  <2>9. Copies(i) = (IF Located(b) THEN 1 ELSE 0) + (IF i < next_batch_to_return_ THEN 1 ELSE 0)
    BY <2>2, <2>3, <2>4, <2>5 DEF Located
  <2>. QED BY <2>0, <2>6, <2>7, <2>8, <2>9
<1>. QED BY Invariant, BatchesPlaced, <1>1, PTL

-----------------------------------------------------------------------------
(* The storages of the pools. *)

\* The caller's batches stay those that were returned.
LEMMA HeldStep == IInv /\ HeldOld /\ Next => HeldOld'
<1>. SUFFICES ASSUME IInv, HeldOld, Next PROVE HeldOld' OBVIOUS
<1>0. /\ held \subseteq Batch /\ pending \subseteq Batch /\ queue \in [Stages -> Seq(Batch)]
      /\ Out \in Stages /\ generation_ \in Nat /\ next_batch_to_return_ \in Nat
  BY DEF IInv, TypeOK, Out, Stages
<1>1. \A b \in Batch : b.gen \in Nat /\ b.idx \in Nat BY DEF Batch
<1>2. ASSUME UNCHANGED <<generation_, next_batch_to_return_>>, held' \subseteq held PROVE HeldOld'
  <2>1. IsFiniteSet(held') BY <1>2, FS_Subset DEF HeldOld
  <2>. QED BY <1>2, <2>1 DEF HeldOld
<1>3. ASSUME NEW b \in Batch, Deliver(b), generation_' = generation_,
             b.gen = generation_, b.idx = next_batch_to_return_
      PROVE  HeldOld'
  <2>1. IsFiniteSet(held') BY <1>3, FS_AddElement DEF Deliver, HeldOld
  <2>2. \A x \in held : x.idx \in Nat BY <1>0, <1>1
  <2>. QED BY <1>0, <1>1, <1>3, <2>1, <2>2 DEF Deliver, HeldOld
<1>. USE DEF epochVars, callerVars
<1>4. CASE CallNext
  <2>1. /\ UNCHANGED generation_ /\ pc[Main] = "idle"
        /\ \/ UNCHANGED <<held, next_batch_to_return_>>
           \/ \E b \in pending : b.idx = next_batch_to_return_ /\ Deliver(b)
    BY <1>4 DEF CallNext
  <2>2. \A b \in pending : b.gen = generation_ BY <2>1 DEF IInv, PendingCurrent
  <2>. QED BY <1>0, <1>2, <1>3, <2>1, <2>2
<1>5. CASE Pop
  <2>1. /\ UNCHANGED generation_ /\ queue[Out] # <<>>
        /\ \/ UNCHANGED <<held, next_batch_to_return_>>
           \/ /\ Head(queue[Out]).gen = generation_ /\ Head(queue[Out]).idx = next_batch_to_return_
              /\ Deliver(Head(queue[Out]))
    BY <1>5 DEF Pop
  <2>2. Head(queue[Out]) \in Batch
    <3>1. queue[Out] \in Seq(Batch) BY <1>0
    <3>. QED BY <2>1, <3>1
  <2>. QED BY <1>2, <1>3, <2>1, <2>2
<1>6. CASE BeginReset
  <2>1. generation_' = generation_ + 1 /\ next_batch_to_return_' = 0 /\ held' = held
    BY <1>6 DEF BeginReset
  <2>2. \A b \in held : b.gen \in Nat /\ b.idx \in Nat BY <1>0, <1>1
  <2>. QED BY <1>0, <2>1, <2>2 DEF HeldOld
<1>7. CASE ~(CallNext \/ Pop \/ BeginReset)
  <2>. USE DEF Shutdown, RaiseStop, CloseQueue, ClosePool, NotifyStop, Acquire,
          AcquireThrows, Push, CatchException
  <2>1. ASSUME NEW w \in Workers, WorkerStep(w) PROVE HeldOld'
    BY <1>2, <2>1 DEF WorkerStep, AwaitEpoch, FallAsleep, Fetch, Decode, ValidateEpoch
  <2>2. CASE TransferStep
    BY <1>2, <2>2 DEF TransferStep, TransferLoop, TransferPop, TransferValidate, TransferCopy,
         TransferRevalidate, TransferDrop
  <2>3. CASE CallStep
    BY <1>2, <1>7, <2>3 DEF CallStep, ClearPending, ClearQueue, PublishEpoch, NotifyEpoch,
         PopClosed, Join
  <2>4. CASE CallerChoice
    BY <1>2, <1>7, <2>4 DEF CallerChoice, DropBatch, Destroy
  <2>. QED BY <2>1, <2>2, <2>3, <2>4 DEF Next
<1>. QED BY <1>4, <1>5, <1>6, <1>7

\* The producers that own a storage of stage s.
Owners(s) == {t \in Producers : Owned(t)[s] = 1}

\* What the queue, the pending map and the caller own of stage s.
Stored(s) == Len(queue[s]) + (IF s = Out THEN Cardinality(pending) + Cardinality(held) ELSE 0)

LEMMA OwnedOf ==
  /\ \A t \in Producers : \A s \in Stages : Owned(t)[s] \in 0..1
  /\ \A w \in Workers :
       /\ Owned(w)["host"] = IF pc[w] \in {"decode", "validate", "push"} THEN 1 ELSE 0
       /\ Owned(w)["device"] = 0
  /\ Owned(Transfer)["host"] =
       IF pc[Transfer] \in {"validate", "acquire", "copy", "revalidate", "push", "drop"} THEN 1 ELSE 0
  /\ Owned(Transfer)["device"] =
       IF pc[Transfer] \in {"copy", "revalidate", "push"} THEN 1 ELSE 0
BY DEF Owned, Stages, Producers

LEMMA OwnersFinite == \A s \in Stages : IsFiniteSet(Owners(s)) /\ Cardinality(Owners(s)) \in Nat
<1>1. IsFiniteSet(Producers) BY FS_AddElement DEF Producers
<1>2. \A s \in Stages : Owners(s) \subseteq Producers BY DEF Owners
<1>. QED BY <1>1, <1>2, FS_Subset, FS_CardinalityType

\* One producer moves: the owners change by what it takes or gives back.
LEMMA OwnersMove ==
  ASSUME NEW t \in Producers, NEW s \in Stages,
         \A u \in Producers \ {t} : Owned(u)'[s] = Owned(u)[s]
  PROVE  Cardinality(Owners(s)') = Cardinality(Owners(s)) - Owned(t)[s] + Owned(t)'[s]
<1>0. Owned(t)[s] \in 0..1 /\ Owned(t)'[s] \in 0..1
  <2>1. \A u \in Producers : \A x \in Stages : Owned(u)'[x] \in 0..1 BY DEF Owned, Stages, Producers
  <2>. QED BY <2>1, OwnedOf
<1>1. IsFiniteSet(Owners(s)) /\ Cardinality(Owners(s)) \in Nat BY OwnersFinite
<1>2. Owned(t)'[s] = 1 => Owners(s)' = Owners(s) \cup {t} BY DEF Owners
<1>3. Owned(t)'[s] = 0 => Owners(s)' = Owners(s) \ {t} BY DEF Owners
<1>4. t \in Owners(s) <=> Owned(t)[s] = 1 BY DEF Owners
<1>5. /\ Cardinality(Owners(s) \cup {t}) =
           IF t \in Owners(s) THEN Cardinality(Owners(s)) ELSE Cardinality(Owners(s)) + 1
      /\ Cardinality(Owners(s) \ {t}) =
           IF t \in Owners(s) THEN Cardinality(Owners(s)) - 1 ELSE Cardinality(Owners(s))
  BY <1>1, FS_AddElement, FS_RemoveElement
<1>. PICK n \in Nat : n = Cardinality(Owners(s)) BY <1>1
<1>. PICK o \in 0..1, p \in 0..1 : o = Owned(t)[s] /\ p = Owned(t)'[s] BY <1>0
<1>6. Cardinality(Owners(s) \cup {t}) = n - o + 1 /\ Cardinality(Owners(s) \ {t}) = n - o
  BY <1>4, <1>5
<1>7. Cardinality(Owners(s)') = n - o + p
  <2>1. CASE p = 1 BY <1>2, <1>6, <2>1
  <2>2. CASE p = 0
    <3>1. Owners(s)' = Owners(s) \ {t} BY <1>3, <2>2
    <3>2. Cardinality(Owners(s)') = n - o BY <1>6, <3>1
    <3>. QED BY <2>2, <3>2
  <2>. QED BY <2>1, <2>2
<1>. QED BY <1>7

Accounts == \A s \in Stages : /\ allocated_count_[s] = available_[s] + InUse(s)
                              /\ allocated_count_[s] <= PoolCapacity[s]

\* What is in use is a natural number, made of two parts.
UseIsNat == \A s \in Stages : /\ InUse(s) \in Nat /\ Stored(s) \in Nat
                              /\ Cardinality(Owners(s)) \in Nat
                              /\ InUse(s) = Cardinality(Owners(s)) + Stored(s)

LEMMA UseType == IInv /\ HeldOld => UseIsNat
<1>. SUFFICES ASSUME IInv, HeldOld, NEW s \in Stages
     PROVE  /\ InUse(s) \in Nat /\ Stored(s) \in Nat /\ Cardinality(Owners(s)) \in Nat
            /\ InUse(s) = Cardinality(Owners(s)) + Stored(s)
  BY DEF UseIsNat
<1>1. Cardinality(pending) \in Nat /\ Cardinality(held) \in Nat
  BY FS_CardinalityType DEF IInv, PendingCurrent, HeldOld
<1>2. Len(queue[s]) \in Nat BY DEF IInv, TypeOK
<1>3. Cardinality(Owners(s)) \in Nat BY OwnersFinite
<1>4. Stored(s) \in Nat BY <1>1, <1>2 DEF Stored
<1>5. InUse(s) = Cardinality(Owners(s)) + Stored(s)
  <2>1. CASE s = Out BY <1>1, <1>2, <1>3, <2>1 DEF InUse, Stored, Owners
  <2>2. CASE s # Out BY <1>1, <1>2, <1>3, <2>2 DEF InUse, Stored, Owners
  <2>. QED BY <2>1, <2>2
<1>. QED BY <1>3, <1>4, <1>5

\* The pool takes back what nobody owns any more.
LEMMA ReleaseAccounts ==
  ASSUME TypeOK, Accounts, UseIsNat, UseIsNat', NEW n \in [Stages -> Nat], Release(n),
         \A s \in Stages : InUse(s)' = InUse(s) - n[s]
  PROVE  Accounts'
<1>. SUFFICES ASSUME NEW s \in Stages
     PROVE  /\ allocated_count_'[s] = available_'[s] + InUse(s)'
            /\ allocated_count_'[s] <= PoolCapacity[s]
  BY DEF Accounts
<1>. PICK a \in Int, f \in Nat : a = allocated_count_[s] /\ f = available_[s] BY DEF TypeOK
<1>. PICK u \in Nat, v \in Nat : u = InUse(s) /\ v = InUse(s)' BY DEF UseIsNat
<1>. PICK k \in Nat : k = n[s] OBVIOUS
<1>1. a = f + u /\ a <= PoolCapacity[s] /\ v = u - k BY DEF Accounts
<1>2. PoolCapacity[s] \in Int
  <2>1. Cardinality(Workers) \in Nat BY FS_CardinalityType
  <2>. QED BY <2>1 DEF PoolCapacity
<1>3. /\ allocated_count_'[s] = IF ~poolClosed[s] THEN a ELSE IF a >= k THEN a - k ELSE 0
      /\ available_'[s] = IF poolClosed[s] THEN f ELSE f + k
  BY DEF Release
<1>4. a >= k BY <1>1
<1>5. CASE poolClosed[s]
  <2>1. allocated_count_'[s] = a - k /\ available_'[s] = f BY <1>3, <1>4, <1>5
  <2>2. a - k = f + v /\ a - k <= PoolCapacity[s] BY <1>1, <1>2
  <2>. QED BY <2>1, <2>2
<1>6. CASE ~poolClosed[s]
  <2>1. allocated_count_'[s] = a /\ available_'[s] = f + k BY <1>3, <1>6
  <2>2. a = f + k + v BY <1>1
  <2>. QED BY <1>1, <2>1, <2>2
<1>. QED BY <1>5, <1>6

\* Producer t does something with the storages n goes back to the pools.
LEMMA ProducerReleases ==
  ASSUME TypeOK, Accounts, UseIsNat, UseIsNat', NEW t \in Producers,
         \A u \in Producers \ {t} : \A s \in Stages : Owned(u)'[s] = Owned(u)[s],
         NEW n \in [Stages -> Nat], Release(n),
         \A s \in Stages : Owned(t)'[s] + Stored(s)' = Owned(t)[s] + Stored(s) - n[s]
  PROVE  Accounts'
<1>1. ASSUME NEW s \in Stages PROVE InUse(s)' = InUse(s) - n[s]
  <2>1. Cardinality(Owners(s)') = Cardinality(Owners(s)) - Owned(t)[s] + Owned(t)'[s]
    BY OwnersMove
  <2>2. Owned(t)[s] \in Nat /\ Owned(t)'[s] \in Nat BY DEF Owned, Stages, Producers
  <2>3. InUse(s)' = Cardinality(Owners(s)') + Stored(s)' /\ InUse(s) = Cardinality(Owners(s)) + Stored(s)
    BY DEF UseIsNat
  <2>. PICK o \in Nat, p \in Nat : o = Owned(t)[s] /\ p = Owned(t)'[s] BY <2>2
  <2>. PICK c \in Nat, x \in Nat, y \in Nat, k \in Nat :
         c = Cardinality(Owners(s)) /\ x = Stored(s) /\ y = Stored(s)' /\ k = n[s]
    BY DEF UseIsNat
  <2>4. p + y = o + x - k OBVIOUS
  <2>. QED BY <2>1, <2>3, <2>4
<1>. QED BY <1>1, ReleaseAccounts

\* The same when no storage goes back.
LEMMA ProducerKeeps ==
  ASSUME TypeOK, Accounts, UseIsNat, UseIsNat', NEW t \in Producers,
         \A u \in Producers \ {t} : \A s \in Stages : Owned(u)'[s] = Owned(u)[s],
         UNCHANGED poolVars,
         \A s \in Stages : Owned(t)'[s] + Stored(s)' = Owned(t)[s] + Stored(s)
  PROVE  Accounts'
<1>1. ASSUME NEW s \in Stages PROVE InUse(s)' = InUse(s)
  <2>1. Cardinality(Owners(s)') = Cardinality(Owners(s)) - Owned(t)[s] + Owned(t)'[s]
    BY OwnersMove
  <2>2. Owned(t)[s] \in Nat /\ Owned(t)'[s] \in Nat BY DEF Owned, Stages, Producers
  <2>3. InUse(s)' = Cardinality(Owners(s)') + Stored(s)' /\ InUse(s) = Cardinality(Owners(s)) + Stored(s)
    BY DEF UseIsNat
  <2>. PICK o \in Nat, p \in Nat : o = Owned(t)[s] /\ p = Owned(t)'[s] BY <2>2
  <2>. PICK c \in Nat, x \in Nat, y \in Nat :
         c = Cardinality(Owners(s)) /\ x = Stored(s) /\ y = Stored(s)'
    BY DEF UseIsNat
  <2>4. p + y = o + x OBVIOUS
  <2>. QED BY <2>1, <2>3, <2>4
<1>. QED BY <1>1 DEF Accounts, poolVars

\* What the caller does: the producers own what they owned.
LEMMA CallerReleases ==
  ASSUME TypeOK, Accounts, UseIsNat, UseIsNat',
         \A u \in Producers : \A s \in Stages : Owned(u)'[s] = Owned(u)[s],
         NEW n \in [Stages -> Nat], Release(n),
         \A s \in Stages : Stored(s)' = Stored(s) - n[s]
  PROVE  Accounts'
<1>1. \A s \in Stages : Owned(Transfer)'[s] \in Nat /\ Owned(Transfer)[s] \in Nat
  BY DEF Owned, Stages, Producers
<1>2. Transfer \in Producers BY DEF Producers
<1>3. ASSUME NEW s \in Stages
      PROVE  Owned(Transfer)'[s] + Stored(s)' = Owned(Transfer)[s] + Stored(s) - n[s]
  <2>1. Owned(Transfer)'[s] = Owned(Transfer)[s] BY <1>2
  <2>. PICK o \in Nat, x \in Nat, k \in Nat : o = Owned(Transfer)[s] /\ x = Stored(s) /\ k = n[s]
    BY <1>1 DEF UseIsNat
  <2>2. o + (x - k) = o + x - k OBVIOUS
  <2>. QED BY <2>1, <2>2
<1>. QED BY <1>2, <1>3, ProducerReleases

LEMMA CallerKeeps ==
  ASSUME TypeOK, Accounts, UseIsNat, UseIsNat',
         \A u \in Producers : \A s \in Stages : Owned(u)'[s] = Owned(u)[s],
         UNCHANGED poolVars, \A s \in Stages : Stored(s)' = Stored(s)
  PROVE  Accounts'
<1>1. Transfer \in Producers BY DEF Producers
<1>. QED BY <1>1, ProducerKeeps


\* A producer whose label does not change owns what it owned; what the
\* caller does to its own collections alone changes what is stored.
LEMMA SameLabel == \A u \in Producers : pc'[u] = pc[u] => \A s \in Stages : Owned(u)'[s] = Owned(u)[s]
BY DEF Owned, Stages

LEMMA SameStored == UNCHANGED <<queue, pending, held>> => \A s \in Stages : Stored(s)' = Stored(s)
BY DEF Stored

\* The labels at which a producer owns nothing.
Idle == Labels \ {"validate", "acquire", "copy", "revalidate", "push", "drop", "decode"}

LEMMA IdleOwns ==
  /\ \A u \in Producers : pc[u] \in Idle => \A s \in Stages : Owned(u)[s] = 0
  /\ \A u \in Producers : pc'[u] \in Idle => \A s \in Stages : Owned(u)'[s] = 0
BY DEF Owned, Stages, Idle

\* The assumptions of the step lemmas.
Before == IInv /\ HeldOld /\ Accounts /\ UseIsNat /\ UseIsNat' /\ pc' \in [Threads -> Labels]

\* The steps of a producer that touch neither the pools nor what is stored.
LEMMA QuietProducer ==
  ASSUME Before, NEW t \in Producers,
         \A u \in Producers \ {t} : pc'[u] = pc[u] \/ (pc[u] \in Idle /\ pc'[u] \in Idle),
         \A s \in Stages : Owned(t)'[s] = Owned(t)[s],
         UNCHANGED poolVars, UNCHANGED <<queue, pending, held>>
  PROVE  Accounts'
<1>1. \A u \in Producers \ {t} : \A s \in Stages : Owned(u)'[s] = Owned(u)[s]
  BY SameLabel, IdleOwns
<1>2. \A s \in Stages : Owned(t)'[s] + Stored(s)' = Owned(t)[s] + Stored(s)
  BY SameStored
<1>. QED BY <1>1, <1>2, ProducerKeeps DEF Before, IInv

\* acquire: one storage more is in use, from the free ones or a new one.
LEMMA AcquireAccounts ==
  ASSUME Before, NEW t \in Producers, Acquire(t)
  PROVE  Accounts'
<1>. PICK r \in Stages : r = StageOf(t) BY DEF StageOf, Stages
<1>1. /\ pc[t] = "acquire" /\ UNCHANGED <<queue, pending, held>>
      /\ pc' = [pc EXCEPT ![t] = IF t = Transfer THEN "copy" ELSE "decode"]
  BY DEF Acquire, Goto, queueVars, callerVars
<1>2. t \in Threads /\ pc \in [Threads -> Labels] BY DEF Threads, Before, IInv, TypeOK
<1>3. /\ \A u \in Producers \ {t} : \A s \in Stages : Owned(u)'[s] = Owned(u)[s]
      /\ pc'[t] = IF t = Transfer THEN "copy" ELSE "decode"
  BY <1>1, <1>2, SameLabel DEF Threads
<1>4. \A s \in Stages : Owned(t)'[s] = Owned(t)[s] + (IF s = r THEN 1 ELSE 0) /\ Owned(t)[s] \in Nat
  BY <1>1, <1>3 DEF Owned, Stages, StageOf
<1>5. \A s \in Stages : Cardinality(Owners(s)') = Cardinality(Owners(s)) - Owned(t)[s] + Owned(t)'[s]
  BY <1>3, OwnersMove
<1>6. ASSUME NEW s \in Stages PROVE InUse(s)' = InUse(s) + (IF s = r THEN 1 ELSE 0)
  <2>1. Stored(s)' = Stored(s) BY <1>1, SameStored
  <2>2. InUse(s)' = Cardinality(Owners(s)') + Stored(s)' /\ InUse(s) = Cardinality(Owners(s)) + Stored(s)
    BY DEF Before, UseIsNat
  <2>. PICK c \in Nat, x \in Nat, o \in Nat :
         c = Cardinality(Owners(s)) /\ x = Stored(s) /\ o = Owned(t)[s]
    BY <1>4 DEF Before, UseIsNat
  <2>3. Cardinality(Owners(s)') = c + (IF s = r THEN 1 ELSE 0) BY <1>4, <1>5
  <2>. QED BY <2>1, <2>2, <2>3
<1>7. /\ allocated_count_ \in [Stages -> Int] /\ available_ \in [Stages -> Nat]
      /\ PoolCapacity[r] \in Int
  <2>1. Cardinality(Workers) \in Nat BY FS_CardinalityType
  <2>. QED BY <2>1 DEF Before, IInv, TypeOK, PoolCapacity
<1>8. \/ /\ available_' = [available_ EXCEPT ![r] = @ - 1] /\ allocated_count_' = allocated_count_
      \/ /\ allocated_count_' = [allocated_count_ EXCEPT ![r] = @ + 1] /\ available_' = available_
         /\ allocated_count_[r] < PoolCapacity[r]
  BY DEF Acquire
<1>. SUFFICES ASSUME NEW s \in Stages
     PROVE  /\ allocated_count_'[s] = available_'[s] + InUse(s)'
            /\ allocated_count_'[s] <= PoolCapacity[s]
  BY DEF Accounts
<1>9. allocated_count_[s] = available_[s] + InUse(s) /\ allocated_count_[s] <= PoolCapacity[s]
      /\ InUse(s) \in Nat
  BY DEF Before, Accounts, UseIsNat
<1>10. CASE s = r BY <1>6, <1>7, <1>8, <1>9, <1>10
<1>11. CASE s # r BY <1>6, <1>7, <1>8, <1>9, <1>11
<1>. QED BY <1>10, <1>11

\* close frees what is available.
LEMMA CloseAccounts ==
  ASSUME Before, NEW t \in Threads, ClosePool(t)
  PROVE  Accounts'
<1>1. pc \in [Threads -> Labels] /\ \A u \in Producers : u \in Threads
  BY DEF Threads, Before, IInv, TypeOK
<1>2. \A u \in Producers : \A s \in Stages : Owned(u)'[s] = Owned(u)[s]
  <2>1. \A u \in Producers : pc'[u] = pc[u] \/ (pc[u] \in Idle /\ pc'[u] \in Idle)
    BY <1>1 DEF ClosePool, Goto, Idle, Labels
  <2>. QED BY <2>1, SameLabel, IdleOwns
<1>3. \A s \in Stages : Stored(s)' = Stored(s)
  BY SameStored DEF ClosePool, queueVars, callerVars
<1>4. ASSUME NEW s \in Stages PROVE InUse(s)' = InUse(s)
  <2>1. Owners(s)' = Owners(s) BY <1>2 DEF Owners
  <2>. QED BY <1>3, <2>1 DEF Before, UseIsNat
<1>5. PICK r \in Stages : ClosePoolOf(r) BY DEF ClosePool, Stages
<1>6. /\ allocated_count_ \in [Stages -> Int] /\ available_ \in [Stages -> Nat]
      /\ \A s \in Stages : PoolCapacity[s] \in Int
  <2>1. Cardinality(Workers) \in Nat BY FS_CardinalityType
  <2>. QED BY <2>1 DEF Before, IInv, TypeOK, PoolCapacity
<1>7. \/ UNCHANGED <<allocated_count_, available_>>
      \/ /\ allocated_count_' = [allocated_count_ EXCEPT ![r] = @ - available_[r]]
         /\ available_' = [available_ EXCEPT ![r] = 0]
  BY <1>5 DEF ClosePoolOf
<1>. SUFFICES ASSUME NEW s \in Stages
     PROVE  /\ allocated_count_'[s] = available_'[s] + InUse(s)'
            /\ allocated_count_'[s] <= PoolCapacity[s]
  BY DEF Accounts
<1>8. allocated_count_[s] = available_[s] + InUse(s) /\ allocated_count_[s] <= PoolCapacity[s]
      /\ InUse(s) \in Nat
  BY DEF Before, Accounts, UseIsNat
<1>9. CASE s = r BY <1>4, <1>6, <1>7, <1>8, <1>9
<1>10. CASE s # r BY <1>4, <1>6, <1>7, <1>8, <1>10
<1>. QED BY <1>9, <1>10

\* The other steps of a shutdown own and store nothing.
LEMMA ShutdownAccounts ==
  ASSUME Before, NEW t \in Threads, Shutdown(t)
  PROVE  Accounts'
<1>1. CASE ClosePool(t) BY <1>1, CloseAccounts
<1>2. CASE RaiseStop(t) \/ CloseQueue(t) \/ NotifyStop(t)
  <2>0. pc \in [Threads -> Labels] /\ \A u \in Producers : u \in Threads
    BY DEF Threads, Before, IInv, TypeOK
  <2>1. \A u \in Producers : pc'[u] = pc[u] \/ (pc[u] \in Idle /\ pc'[u] \in Idle)
    BY <1>2, <2>0 DEF RaiseStop, CloseQueue, NotifyStop, Goto, WakeAll, Idle, Labels
  <2>2. \A u \in Producers : \A s \in Stages : Owned(u)'[s] = Owned(u)[s]
    BY <2>1, SameLabel, IdleOwns
  <2>3. UNCHANGED poolVars /\ UNCHANGED <<queue, pending, held>>
    BY <1>2 DEF RaiseStop, CloseQueue, NotifyStop, queueVars, callerVars
  <2>. QED BY <2>2, <2>3, SameStored, CallerKeeps DEF Before, IInv
<1>. QED BY <1>1, <1>2 DEF Shutdown


\* Producer t goes to label, the others stay, and n goes back to the pools.
LEMMA GoReleasing ==
  ASSUME Before, NEW t \in Producers, NEW label \in Labels, Goto(t, label),
         UNCHANGED <<queue, pending, held>>, NEW n \in [Stages -> Nat], Release(n),
         \A s \in Stages : Owned(t)[s] = Owned(t)'[s] + n[s]
  PROVE  Accounts'
<1>1. \A u \in Producers \ {t} : pc'[u] = pc[u]
  BY DEF Before, IInv, TypeOK, Threads, Goto
<1>2. \A u \in Producers \ {t} : \A s \in Stages : Owned(u)'[s] = Owned(u)[s] BY <1>1, SameLabel
<1>3. ASSUME NEW s \in Stages
      PROVE  Owned(t)'[s] + Stored(s)' = Owned(t)[s] + Stored(s) - n[s]
  <2>1. Stored(s)' = Stored(s) /\ Stored(s) \in Nat BY SameStored DEF Before, UseIsNat
  <2>2. Owned(t)'[s] \in Nat BY DEF Owned, Stages, Producers
  <2>. PICK x \in Nat, p \in Nat, k \in Nat : x = Stored(s) /\ p = Owned(t)'[s] /\ k = n[s]
    BY <2>1, <2>2
  <2>3. Owned(t)[s] = p + k OBVIOUS
  <2>. QED BY <2>1, <2>3
<1>. QED BY <1>2, <1>3, ProducerReleases DEF Before, IInv

LEMMA GoQuietly ==
  ASSUME Before, NEW t \in Producers, NEW label \in Labels, Goto(t, label),
         UNCHANGED <<queue, pending, held>>, UNCHANGED poolVars,
         \A s \in Stages : Owned(t)'[s] = Owned(t)[s]
  PROVE  Accounts'
<1>1. \A u \in Producers \ {t} : pc'[u] = pc[u]
  BY DEF Before, IInv, TypeOK, Threads, Goto
<1>. QED BY <1>1, QuietProducer

LEMMA Regroup == \A l, e \in Nat : (l + 1) + e = (l + e) + 1 /\ l + e = (l + e) + 0
OBVIOUS

\* A queue that grows or shrinks by one.
LEMMA QueueGrows ==
  ASSUME queue \in [Stages -> Seq(Batch)], NEW r \in Stages, NEW c \in Batch,
         queue' = [queue EXCEPT ![r] = Append(@, c)],
         UNCHANGED <<pending, held>>, HeldOld, PendingCurrent
  PROVE  \A s \in Stages : Stored(s)' = Stored(s) + (IF s = r THEN 1 ELSE 0)
<1>. SUFFICES ASSUME NEW s \in Stages PROVE Stored(s)' = Stored(s) + (IF s = r THEN 1 ELSE 0)
  OBVIOUS
<1>. PICK p \in Nat, h \in Nat : p = Cardinality(pending) /\ h = Cardinality(held)
  BY FS_CardinalityType DEF HeldOld, PendingCurrent
<1>. PICK q \in Seq(Batch) : q = queue[s] OBVIOUS
<1>. PICK l \in Nat : l = Len(q) OBVIOUS
<1>1. Len(queue'[s]) = IF s = r THEN l + 1 ELSE l
  <2>1. CASE s = r
    <3>1. queue'[s] = Append(q, c) BY <2>1
    <3>. QED BY <2>1, <3>1, AppendOf
  <2>2. CASE s # r
    <3>1. queue'[s] = q BY <2>2
    <3>. QED BY <2>2, <3>1
  <2>. QED BY <2>1, <2>2
<1>. PICK e \in Nat : e = IF s = Out THEN p + h ELSE 0 OBVIOUS
<1>2. Stored(s) = l + e BY DEF Stored
<1>3. Stored(s)' = Len(queue'[s]) + e BY DEF Stored
<1>4. CASE s = r
  <2>1. Stored(s)' = (l + 1) + e BY <1>1, <1>3, <1>4
  <2>2. (l + 1) + e = (l + e) + 1 BY Regroup, ZenonT(60)
  <2>. QED BY <1>2, <1>4, <2>1, <2>2
<1>5. CASE s # r
  <2>1. Stored(s)' = l + e BY <1>1, <1>3, <1>5
  <2>2. l + e = (l + e) + 0 BY Regroup, ZenonT(60)
  <2>. QED BY <1>2, <1>5, <2>1, <2>2
<1>. QED BY <1>4, <1>5

LEMMA TailShorter ==
  ASSUME queue \in [Stages -> Seq(Batch)], NEW r \in Stages, queue[r] # <<>>,
         queue' = [queue EXCEPT ![r] = Tail(@)], NEW s \in Stages
  PROVE  Len(queue'[s]) \in Nat /\ Len(queue[s]) = IF s = r THEN Len(queue'[s]) + 1 ELSE Len(queue'[s])
<1>. PICK q \in Seq(Batch) : q = queue[s] OBVIOUS
<1>1. CASE s = r
  <2>1. queue'[s] = Tail(q) /\ q # <<>> BY <1>1
  <2>2. Tail(q) \in Seq(Batch) BY <2>1
  <2>3. Len(Tail(q)) \in Nat /\ Len(q) \in Nat /\ Len(Tail(q)) = Len(q) - 1
    BY <2>1, <2>2, TailOf
  <2>. QED BY <1>1, <2>1, <2>3
<1>2. CASE s # r
  <2>1. queue'[s] = q BY <1>2
  <2>. QED BY <1>2, <2>1
<1>. QED BY <1>1, <1>2

LEMMA QueueShrinks ==
  ASSUME queue \in [Stages -> Seq(Batch)], NEW r \in Stages, queue[r] # <<>>,
         queue' = [queue EXCEPT ![r] = Tail(@)],
         UNCHANGED <<pending, held>>, HeldOld, PendingCurrent
  PROVE  \A s \in Stages : Stored(s) = Stored(s)' + (IF s = r THEN 1 ELSE 0)
<1>. SUFFICES ASSUME NEW s \in Stages PROVE Stored(s) = Stored(s)' + (IF s = r THEN 1 ELSE 0)
  OBVIOUS
<1>. PICK p \in Nat, h \in Nat : p = Cardinality(pending) /\ h = Cardinality(held)
  BY FS_CardinalityType DEF HeldOld, PendingCurrent
<1>1. Len(queue'[s]) \in Nat /\ Len(queue[s]) = IF s = r THEN Len(queue'[s]) + 1 ELSE Len(queue'[s])
  BY TailShorter
<1>. PICK l \in Nat : l = Len(queue'[s]) BY <1>1
<1>. PICK e \in Nat : e = IF s = Out THEN p + h ELSE 0 OBVIOUS
<1>2. Stored(s) = Len(queue[s]) + e BY DEF Stored
<1>3. Stored(s)' = l + e BY DEF Stored
<1>4. CASE s = r
  <2>0. Len(queue[s]) = l + 1 BY <1>1, <1>4
  <2>1. Stored(s) = (l + 1) + e BY <1>2, <2>0, Zenon
  <2>2. (l + 1) + e = (l + e) + 1 BY Regroup, ZenonT(60)
  <2>. QED BY <1>3, <1>4, <2>1, <2>2
<1>5. CASE s # r
  <2>0. Len(queue[s]) = l BY <1>1, <1>5
  <2>1. Stored(s) = l + e BY <1>2, <2>0, Zenon
  <2>2. l + e = (l + e) + 0 BY Regroup, ZenonT(60)
  <2>. QED BY <1>3, <1>5, <2>1, <2>2
<1>. QED BY <1>4, <1>5

\* push: the storage goes to the queue, or back to the pool once it is closed.
LEMMA PushAccounts ==
  ASSUME Before, NEW t \in Producers, Push(t)
  PROVE  Accounts'
<1>0. /\ pc \in [Threads -> Labels] /\ t \in Threads /\ queue \in [Stages -> Seq(Batch)]
      /\ item[t] \in Batch /\ StageOf(t) \in Stages
  BY DEF Before, IInv, TypeOK, Threads, StageOf, Stages
<1>1. pc[t] = "push" /\ UNCHANGED <<pending, held>> BY DEF Push, callerVars
<1>2. CASE closed[StageOf(t)]
  <2>1. Goto(t, "done") /\ Release(Owned(t)) /\ UNCHANGED queue BY <1>2 DEF Push
  <2>2. pc'[t] = "done" /\ "done" \in Labels /\ "done" \in Idle BY <1>0, <2>1 DEF Goto, Labels, Idle
  <2>3. \A s \in Stages : Owned(t)'[s] = 0 BY <2>2, IdleOwns
  <2>4. Owned(t) \in [Stages -> Nat] BY CountTypes
  <2>5. \A s \in Stages : Owned(t)[s] = Owned(t)'[s] + Owned(t)[s] BY <2>3, <2>4
  <2>. QED BY <1>1, <2>1, <2>2, <2>4, <2>5, GoReleasing
<1>3. CASE ~closed[StageOf(t)]
  <2>. PICK r \in Stages, c \in Batch : r = StageOf(t) /\ c = item[t] BY <1>0
  <2>1. /\ queue' = [queue EXCEPT ![r] = Append(@, c)] /\ UNCHANGED poolVars
        /\ Goto(t, IF t = Transfer THEN "drop" ELSE "fetch")
    BY <1>3 DEF Push
  <2>2. /\ \A u \in Producers \ {t} : pc'[u] = pc[u]
        /\ pc'[t] = IF t = Transfer THEN "drop" ELSE "fetch"
    BY <1>0, <2>1 DEF Goto, Threads
  <2>3. \A u \in Producers \ {t} : \A s \in Stages : Owned(u)'[s] = Owned(u)[s]
    BY <2>2, SameLabel
  <2>4. \A s \in Stages : Owned(t)[s] = Owned(t)'[s] + (IF s = r THEN 1 ELSE 0) /\ Owned(t)'[s] \in Nat
    BY <1>1, <2>2 DEF Owned, Stages, StageOf
  <2>5. ASSUME NEW s \in Stages PROVE Stored(s)' = Stored(s) + (IF s = r THEN 1 ELSE 0)
    <3>1. UNCHANGED <<pending, held>> /\ HeldOld /\ PendingCurrent BY <1>1 DEF Before, IInv
    <3>. QED BY <1>0, <2>1, <3>1, QueueGrows
  <2>6. ASSUME NEW s \in Stages
        PROVE  Owned(t)'[s] + Stored(s)' = Owned(t)[s] + Stored(s)
    <3>. PICK x \in Nat, p \in Nat : x = Stored(s) /\ p = Owned(t)'[s]
      BY <2>4 DEF Before, UseIsNat
    <3>. QED BY <2>4, <2>5
  <2>. QED BY <2>1, <2>3, <2>6, ProducerKeeps DEF Before, IInv
<1>. QED BY <1>2, <1>3

LEMMA WorkerAccounts ==
  ASSUME Before, NEW w \in Workers, WorkerStep(w)
  PROVE  Accounts'
<1>0. /\ pc \in [Threads -> Labels] /\ w \in Threads /\ w \in Producers /\ w # Transfer
      /\ \A s \in Stages : OneOf(s) \in [Stages -> Nat]
      /\ "host" \in Stages /\ LabelsOK
  BY CountTypes DEF Before, IInv, TypeOK, Threads, Producers, Stages
<1>. USE DEF queueVars, callerVars
<1>1. CASE AwaitEpoch(w) \/ FallAsleep(w) \/ Fetch(w) \/ CatchException(w)
  <2>. PICK label \in {"outer", "fetch", "checked", "asleep", "acquire", "done", "raise_stop"} :
         Goto(w, label)
    BY <1>1 DEF AwaitEpoch, FallAsleep, Fetch, CatchException
  <2>1. pc'[w] = label /\ label \in Labels BY <1>0 DEF Goto, Labels
  <2>2. \A s \in Stages : Owned(w)[s] = 0 /\ Owned(w)'[s] = 0
    BY <1>0, <1>1, <2>1 DEF AwaitEpoch, FallAsleep, Fetch, CatchException, Owned, Stages
  <2>3. UNCHANGED poolVars /\ UNCHANGED <<queue, pending, held>>
    BY <1>1 DEF AwaitEpoch, FallAsleep, Fetch, CatchException
  <2>. QED BY <1>0, <2>1, <2>2, <2>3, GoQuietly
<1>2. CASE Decode(w) \/ ValidateEpoch(w)
  <2>1. /\ pc[w] \in {"decode", "validate"} /\ UNCHANGED <<queue, pending, held>>
        /\ \/ UNCHANGED poolVars /\ (Goto(w, "validate") \/ Goto(w, "push"))
           \/ Release(OneOf("host")) /\ (Goto(w, "catch_failure") \/ Goto(w, "outer"))
    BY <1>2 DEF Decode, ValidateEpoch
  <2>2. CASE UNCHANGED poolVars /\ (Goto(w, "validate") \/ Goto(w, "push"))
    <3>. PICK label \in {"validate", "push"} : Goto(w, label) BY <2>2
    <3>1. label \in Labels /\ pc'[w] = label BY <1>0 DEF Goto, Labels
    <3>2. \A s \in Stages : Owned(w)[s] = Owned(w)'[s] BY <1>0, <2>1, <3>1 DEF Owned, Stages
    <3>. QED BY <1>0, <2>1, <2>2, <3>1, <3>2, GoQuietly
  <2>3. CASE Release(OneOf("host")) /\ (Goto(w, "catch_failure") \/ Goto(w, "outer"))
    <3>. PICK label \in {"catch_failure", "outer"} : Goto(w, label) BY <2>3
    <3>1. label \in Labels /\ pc'[w] = label BY <1>0 DEF Goto, Labels
    <3>2. \A s \in Stages : Owned(w)[s] = Owned(w)'[s] + OneOf("host")[s]
      BY <1>0, <2>1, <3>1 DEF Owned, Stages, OneOf
    <3>. QED BY <1>0, <2>1, <2>3, <3>1, <3>2, GoReleasing
  <2>. QED BY <2>1, <2>2, <2>3
<1>3. CASE AcquireThrows(w)
  <2>1. /\ pc[w] = "acquire" /\ UNCHANGED <<queue, pending, held>>
        /\ Release(Owned(w)) /\ (Goto(w, "catch_failure") \/ Goto(w, "catch_closed"))
    BY <1>3 DEF AcquireThrows
  <2>. PICK label \in {"catch_failure", "catch_closed"} : Goto(w, label) BY <2>1
  <2>2. label \in Labels /\ label \in Idle /\ pc'[w] = label BY <1>0 DEF Goto, Labels, Idle
  <2>3. Owned(w) \in [Stages -> Nat] BY <1>0, CountTypes
  <2>4. \A s \in Stages : Owned(w)'[s] = 0 BY <1>0, <2>2, IdleOwns
  <2>5. \A s \in Stages : Owned(w)[s] = Owned(w)'[s] + Owned(w)[s] BY <2>3, <2>4
  <2>. QED BY <1>0, <2>1, <2>2, <2>3, <2>5, GoReleasing
<1>. QED BY <1>0, <1>1, <1>2, <1>3, AcquireAccounts, PushAccounts, ShutdownAccounts DEF WorkerStep

LEMMA TransferAccounts ==
  ASSUME Before, TransferStep
  PROVE  Accounts'
<1>. DEFINE t == Transfer
<1>0. /\ pc \in [Threads -> Labels] /\ t \in Threads /\ t \in Producers
      /\ \A s \in Stages : OneOf(s) \in [Stages -> Nat]
      /\ Both \in [Stages -> Nat]
      /\ "host" \in Stages /\ "device" \in Stages /\ LabelsOK
  BY CountTypes DEF Before, IInv, TypeOK, Threads, Producers, Stages
<1>. USE DEF queueVars, callerVars
<1>1. CASE TransferLoop \/ CatchException(t)
  <2>. PICK label \in {"done", "pop", "raise_stop"} : Goto(t, label)
    BY <1>1 DEF TransferLoop, CatchException
  <2>1. pc'[t] = label /\ label \in Labels BY <1>0 DEF Goto, Labels
  <2>2. \A s \in Stages : Owned(t)[s] = 0 /\ Owned(t)'[s] = 0
    BY <1>0, <1>1, <2>1 DEF TransferLoop, CatchException, Owned, Stages
  <2>3. UNCHANGED poolVars /\ UNCHANGED <<queue, pending, held>>
    BY <1>1 DEF TransferLoop, CatchException
  <2>. QED BY <1>0, <2>1, <2>2, <2>3, GoQuietly
<1>2. CASE TransferValidate
  <2>1. /\ pc[t] = "validate" /\ UNCHANGED <<queue, pending, held>> /\ UNCHANGED poolVars
        /\ Goto(t, "acquire") \/ Goto(t, "drop")
    BY <1>2 DEF TransferValidate
  <2>. PICK label \in {"acquire", "drop"} : Goto(t, label) BY <2>1
  <2>2. label \in Labels /\ pc'[t] = label BY <1>0 DEF Goto, Labels
  <2>3. \A s \in Stages : Owned(t)[s] = Owned(t)'[s] BY <2>1, <2>2 DEF Owned, Stages
  <2>. QED BY <1>0, <2>1, <2>2, <2>3, GoQuietly
<1>3. CASE TransferCopy
  <2>1. pc[t] = "copy" /\ UNCHANGED <<queue, pending, held>> BY <1>3 DEF TransferCopy
  <2>2. CASE UNCHANGED poolVars /\ Goto(t, "revalidate")
    <3>1. "revalidate" \in Labels /\ pc'[t] = "revalidate" BY <1>0, <2>2 DEF Goto, Labels
    <3>2. \A s \in Stages : Owned(t)[s] = Owned(t)'[s] BY <2>1, <3>1 DEF Owned, Stages
    <3>. QED BY <1>0, <2>1, <2>2, <3>1, <3>2, GoQuietly
  <2>3. CASE Release(Both) /\ Goto(t, "catch_failure")
    <3>1. "catch_failure" \in Labels /\ pc'[t] = "catch_failure" BY <1>0, <2>3 DEF Goto, Labels
    <3>2. \A s \in Stages : Owned(t)[s] = Owned(t)'[s] + Both[s]
      BY <2>1, <3>1 DEF Owned, Stages, Both
    <3>. QED BY <1>0, <2>1, <2>3, <3>1, <3>2, GoReleasing
  <2>. QED BY <1>3, <2>2, <2>3 DEF TransferCopy
<1>4. CASE TransferRevalidate
  <2>1. pc[t] = "revalidate" /\ UNCHANGED <<queue, pending, held>> BY <1>4 DEF TransferRevalidate
  <2>2. CASE UNCHANGED poolVars /\ Goto(t, "push")
    <3>1. "push" \in Labels /\ pc'[t] = "push" BY <1>0, <2>2 DEF Goto, Labels
    <3>2. \A s \in Stages : Owned(t)[s] = Owned(t)'[s] BY <2>1, <3>1 DEF Owned, Stages
    <3>. QED BY <1>0, <2>1, <2>2, <3>1, <3>2, GoQuietly
  <2>3. CASE Release(OneOf("device")) /\ Goto(t, "drop")
    <3>1. "drop" \in Labels /\ pc'[t] = "drop" BY <1>0, <2>3 DEF Goto, Labels
    <3>2. \A s \in Stages : Owned(t)[s] = Owned(t)'[s] + OneOf("device")[s]
      BY <2>1, <3>1 DEF Owned, Stages, OneOf
    <3>. QED BY <1>0, <2>1, <2>3, <3>1, <3>2, GoReleasing
  <2>. QED BY <1>4, <2>2, <2>3 DEF TransferRevalidate
<1>5. CASE TransferDrop
  <2>1. /\ pc[t] = "drop" /\ UNCHANGED <<queue, pending, held>>
        /\ Release(OneOf("host")) /\ Goto(t, "loop")
    BY <1>5 DEF TransferDrop
  <2>2. "loop" \in Labels /\ pc'[t] = "loop" BY <1>0, <2>1 DEF Goto, Labels
  <2>3. \A s \in Stages : Owned(t)[s] = Owned(t)'[s] + OneOf("host")[s]
    BY <2>1, <2>2 DEF Owned, Stages, OneOf
  <2>. QED BY <1>0, <2>1, <2>2, <2>3, GoReleasing
<1>6. CASE AcquireThrows(t)
  <2>1. /\ pc[t] = "acquire" /\ UNCHANGED <<queue, pending, held>>
        /\ Release(Owned(t)) /\ (Goto(t, "catch_failure") \/ Goto(t, "catch_closed"))
    BY <1>6 DEF AcquireThrows
  <2>. PICK label \in {"catch_failure", "catch_closed"} : Goto(t, label) BY <2>1
  <2>2. label \in Labels /\ label \in Idle /\ pc'[t] = label BY <1>0 DEF Goto, Labels, Idle
  <2>3. Owned(t) \in [Stages -> Nat] BY <1>0, CountTypes
  <2>4. \A s \in Stages : Owned(t)'[s] = 0 BY <1>0, <2>2, IdleOwns
  <2>5. \A s \in Stages : Owned(t)[s] = Owned(t)'[s] + Owned(t)[s] BY <2>3, <2>4
  <2>. QED BY <1>0, <2>1, <2>2, <2>3, <2>5, GoReleasing
\* The storage of a popped host batch is the transfer worker's.
<1>7. CASE TransferPop
  <2>0. pc[t] = "pop" /\ UNCHANGED <<pending, held>> /\ UNCHANGED poolVars BY <1>7 DEF TransferPop
  <2>1. CASE UNCHANGED queue /\ Goto(t, "done")
    <3>1. "done" \in Labels /\ pc'[t] = "done" BY <1>0, <2>1 DEF Goto, Labels
    <3>2. \A s \in Stages : Owned(t)[s] = Owned(t)'[s] BY <2>0, <3>1 DEF Owned, Stages
    <3>. QED BY <1>0, <2>0, <2>1, <3>1, <3>2, GoQuietly
  <2>2. CASE queue["host"] # <<>> /\ queue' = [queue EXCEPT !["host"] = Tail(@)] /\ Goto(t, "validate")
    <3>0. queue \in [Stages -> Seq(Batch)] BY DEF Before, IInv, TypeOK
    <3>1. pc'[t] = "validate" /\ \A u \in Producers \ {t} : pc'[u] = pc[u]
      BY <1>0, <2>2 DEF Goto, Threads
    <3>2. \A u \in Producers \ {t} : \A s \in Stages : Owned(u)'[s] = Owned(u)[s]
      BY <3>1, SameLabel
    <3>3. \A s \in Stages : Owned(t)[s] = 0 /\ Owned(t)'[s] = IF s = "host" THEN 1 ELSE 0
      BY <2>0, <3>1 DEF Owned, Stages
    <3>4. ASSUME NEW s \in Stages PROVE Stored(s) = Stored(s)' + (IF s = "host" THEN 1 ELSE 0)
      <4>1. UNCHANGED <<pending, held>> /\ HeldOld /\ PendingCurrent BY <2>0 DEF Before, IInv
      <4>. QED BY <1>0, <2>2, <3>0, <4>1, QueueShrinks
    <3>5. ASSUME NEW s \in Stages PROVE Owned(t)'[s] + Stored(s)' = Owned(t)[s] + Stored(s)
      <4>. PICK x \in Nat : x = Stored(s)' BY DEF Before, UseIsNat
      <4>. QED BY <3>3, <3>4
    <3>. QED BY <1>0, <2>0, <3>2, <3>5, ProducerKeeps DEF Before, IInv
  <2>. QED BY <1>7, <2>1, <2>2 DEF TransferPop
<1>. QED BY <1>0, <1>1, <1>2, <1>3, <1>4, <1>5, <1>6, <1>7, AcquireAccounts, PushAccounts,
            ShutdownAccounts DEF TransferStep


\* The steps of the caller move no producer but those it wakes.
LEMMA CallerMoves ==
  ASSUME Before, CallStep \/ CallerChoice, ~Shutdown(Main)
  PROVE  \A u \in Producers : \A s \in Stages : Owned(u)'[s] = Owned(u)[s]
<1>0. pc \in [Threads -> Labels] /\ \A u \in Producers : u \in Threads /\ u # Main
  BY DEF Threads, Producers, Before, IInv, TypeOK
<1>1. \A u \in Producers : pc'[u] = pc[u] \/ (pc[u] \in Idle /\ pc'[u] \in Idle)
  <2>. USE DEF Goto, WakeAll, Deliver, Idle, Labels, callerVars
  <2>1. CASE ClearPending \/ ClearQueue \/ PublishEpoch \/ NotifyEpoch
    BY <1>0, <2>1 DEF ClearPending, ClearQueue, PublishEpoch, NotifyEpoch
  <2>2. CASE Pop \/ PopClosed \/ Join
    BY <1>0, <2>2 DEF Pop, PopClosed, Join
  <2>3. CASE CallerChoice
    BY <1>0, <2>3 DEF CallerChoice, BeginReset, CallNext, DropBatch, Destroy
  <2>. QED BY <2>1, <2>2, <2>3 DEF CallStep
<1>. QED BY <1>1, SameLabel, IdleOwns

\* reset_epoch gives back the storages of the pending map and of the queues.
LEMMA ClearAccounts ==
  ASSUME Before, ClearPending \/ ClearQueue
  PROVE  Accounts'
<1>0. /\ \A u \in Producers : \A s \in Stages : Owned(u)'[s] = Owned(u)[s]
      /\ TypeOK /\ Accounts /\ UseIsNat /\ UseIsNat' /\ Out \in Stages
  <2>1. ~Shutdown(Main)
    BY DEF ClearPending, ClearQueue, Shutdown, RaiseStop, CloseQueue, ClosePool, NotifyStop
  <2>. QED BY <2>1, CallerMoves DEF Before, IInv, CallStep, Out, Stages
<1>. PICK p \in Nat, h \in Nat : p = Cardinality(pending) /\ h = Cardinality(held)
  BY FS_CardinalityType DEF Before, IInv, PendingCurrent, HeldOld
<1>1. \A s \in Stages : Len(queue[s]) \in Nat BY <1>0 DEF TypeOK
<1>2. CASE ClearPending
  <2>1. pending' = {} /\ UNCHANGED <<queue, held>> /\ Release(Some(Out, p))
    BY <1>2 DEF ClearPending, queueVars
  <2>2. Cardinality(pending') = 0 BY <2>1, FS_EmptySet
  <2>3. Some(Out, p) \in [Stages -> Nat] BY <1>0, CountTypes
  <2>4. ASSUME NEW s \in Stages PROVE Stored(s)' = Stored(s) - Some(Out, p)[s]
    <3>1. CASE s = Out BY <1>1, <2>1, <2>2, <3>1 DEF Stored, Some
    <3>2. CASE s # Out BY <1>1, <2>1, <3>2 DEF Stored, Some
    <3>. QED BY <3>1, <3>2
  <2>. QED BY <1>0, <2>1, <2>3, <2>4, CallerReleases
<1>3. CASE ClearQueue
  <2>. PICK r \in Stages : ClearQueueOf(r) BY <1>3 DEF ClearQueue, Stages
  <2>. PICK l \in Nat : l = Len(queue[r]) BY <1>1
  <2>1. queue' = [queue EXCEPT ![r] = <<>>] /\ UNCHANGED <<pending, held>> /\ Release(Some(r, l))
    BY <1>3 DEF ClearQueue, ClearQueueOf, callerVars
  <2>2. Some(r, l) \in [Stages -> Nat] BY CountTypes
  <2>3. ASSUME NEW s \in Stages PROVE Stored(s)' = Stored(s) - Some(r, l)[s]
    <3>1. queue'[s] = IF s = r THEN <<>> ELSE queue[s] BY <1>0, <2>1 DEF TypeOK
    <3>2. CASE s = r BY <1>1, <2>1, <3>1, <3>2 DEF Stored, Some
    <3>3. CASE s # r BY <1>1, <2>1, <3>1, <3>3 DEF Stored, Some
    <3>. QED BY <3>2, <3>3
  <2>. QED BY <1>0, <2>1, <2>2, <2>3, CallerReleases
<1>. QED BY <1>2, <1>3

\* The batch that next returns was not the caller's before.
LEMMA Delivered ==
  ASSUME HeldOld, NEW b, b.gen = generation_, b.idx = next_batch_to_return_,
         generation_ \in Nat, next_batch_to_return_ \in Nat, held' = held \cup {b}
  PROVE  IsFiniteSet(held) /\ Cardinality(held') = Cardinality(held) + 1
<1>1. b \notin held BY DEF HeldOld
<1>. QED BY <1>1, FS_AddElement DEF HeldOld

\* next_from_queue: the batch goes to the caller, waits, or gives its
\* storage back.
LEMMA PopAccounts ==
  ASSUME Before, Pop
  PROVE  Accounts'
<1>0. /\ \A u \in Producers : \A s \in Stages : Owned(u)'[s] = Owned(u)[s]
      /\ TypeOK /\ Accounts /\ UseIsNat /\ UseIsNat' /\ Out \in Stages
      /\ \A s \in Stages : OneOf(s) \in [Stages -> Nat]
  <2>1. ~Shutdown(Main)
    BY DEF Pop, Shutdown, RaiseStop, CloseQueue, ClosePool, NotifyStop
  <2>. QED BY <2>1, CallerMoves, CountTypes DEF Before, IInv, CallStep, Out, Stages
<1>1. /\ queue[Out] # <<>> /\ queue' = [queue EXCEPT ![Out] = Tail(@)]
      /\ queue \in [Stages -> Seq(Batch)] /\ generation_ \in Nat /\ next_batch_to_return_ \in Nat
  BY <1>0 DEF Pop, TypeOK
<1>. PICK c : c = Head(queue[Out]) OBVIOUS
<1>2. IsFiniteSet(pending) /\ IsFiniteSet(held) BY DEF Before, IInv, PendingCurrent, HeldOld
<1>3. Cardinality(pending) \in Nat /\ Cardinality(held) \in Nat BY <1>2, FS_CardinalityType
<1>4. ASSUME UNCHANGED <<pending, held>>, Release(OneOf(Out)) PROVE Accounts'
  <2>1. \A s \in Stages : Stored(s) = Stored(s)' + (IF s = Out THEN 1 ELSE 0)
    BY <1>0, <1>1, <1>4, QueueShrinks DEF Before, IInv
  <2>2. \A s \in Stages : Stored(s)' = Stored(s) - OneOf(Out)[s]
    BY <1>0, <2>1 DEF OneOf, UseIsNat
  <2>. QED BY <1>0, <1>4, <2>2, CallerReleases
<1>5. ASSUME Cardinality(pending') + Cardinality(held') = Cardinality(pending) + Cardinality(held) + 1,
             Cardinality(pending') \in Nat, Cardinality(held') \in Nat,
             UNCHANGED poolVars
      PROVE  Accounts'
  <2>1. ASSUME NEW s \in Stages PROVE Stored(s)' = Stored(s)
    <3>1. Len(queue'[s]) \in Nat /\ Len(queue[s]) = IF s = Out THEN Len(queue'[s]) + 1 ELSE Len(queue'[s])
      BY <1>0, <1>1, TailShorter
    <3>2. CASE s = Out BY <1>3, <1>5, <3>1, <3>2 DEF Stored
    <3>3. CASE s # Out BY <3>1, <3>3 DEF Stored
    <3>. QED BY <3>2, <3>3
  <2>. QED BY <1>0, <1>5, <2>1, CallerKeeps
<1>6. CASE c.gen # generation_
  BY <1>4, <1>6 DEF Pop, callerVars
<1>7. CASE c.gen = generation_ /\ c.idx = next_batch_to_return_
  <2>1. held' = held \cup {c} /\ UNCHANGED pending /\ UNCHANGED poolVars BY <1>7 DEF Pop, Deliver
  <2>2. Cardinality(held') = Cardinality(held) + 1
    BY <1>1, <1>7, <2>1, Delivered DEF Before
  <2>. QED BY <1>3, <1>5, <2>1, <2>2
<1>8. CASE c.gen = generation_ /\ c.idx # next_batch_to_return_ /\ \E p \in pending : p.idx = c.idx
  BY <1>4, <1>8 DEF Pop
<1>9. CASE c.gen = generation_ /\ c.idx # next_batch_to_return_ /\ ~\E p \in pending : p.idx = c.idx
  <2>1. pending' = pending \cup {c} /\ UNCHANGED held /\ UNCHANGED poolVars BY <1>9 DEF Pop
  <2>2. c \notin pending BY <1>9
  <2>3. Cardinality(pending') = Cardinality(pending) + 1 BY <1>2, <2>1, <2>2, FS_AddElement
  <2>. QED BY <1>3, <1>5, <2>1, <2>3
<1>. QED BY <1>6, <1>7, <1>8, <1>9

LEMMA CallerAccounts ==
  ASSUME Before, CallStep \/ CallerChoice, pc'[Main] # "destroyed", pc[Main] # "destroyed"
  PROVE  Accounts'
<1>0. /\ TypeOK /\ Accounts /\ UseIsNat /\ UseIsNat' /\ Out \in Stages /\ Main \in Threads
      /\ pc \in [Threads -> Labels]
      /\ \A s \in Stages : OneOf(s) \in [Stages -> Nat]
  BY CountTypes DEF Before, IInv, TypeOK, Out, Stages, Threads
<1>1. CASE Shutdown(Main) BY <1>0, <1>1, ShutdownAccounts
<1>. SUFFICES ASSUME ~Shutdown(Main) PROVE Accounts'
  BY <1>1
<1>2. \A u \in Producers : \A s \in Stages : Owned(u)'[s] = Owned(u)[s] BY CallerMoves
<1>3. ASSUME UNCHANGED poolVars, UNCHANGED <<queue, pending, held>> PROVE Accounts'
  BY <1>0, <1>2, <1>3, SameStored, CallerKeeps
<1>. USE DEF queueVars, callerVars
<1>4. CASE CallStep
  <2>1. CASE PublishEpoch \/ NotifyEpoch \/ PopClosed
    BY <1>3, <2>1 DEF PublishEpoch, NotifyEpoch, PopClosed
  <2>2. CASE Join
    <3>1. pc'[Main] = "destroyed" BY <1>0, <2>2 DEF Join, Goto
    <3>. QED BY <3>1
  <2>. QED BY <1>4, <2>1, <2>2, ClearAccounts, PopAccounts DEF CallStep
<1>5. IsFiniteSet(pending) /\ IsFiniteSet(held) BY DEF Before, IInv, PendingCurrent, HeldOld
<1>6. Cardinality(pending) \in Nat /\ Cardinality(held) \in Nat BY <1>5, FS_CardinalityType
<1>7. \A s \in Stages : Len(queue[s]) \in Nat BY <1>0 DEF TypeOK
<1>8. CASE CallerChoice
  <2>1. CASE BeginReset \/ Destroy BY <1>3, <2>1 DEF BeginReset, Destroy
  <2>2. CASE CallNext
    <3>1. CASE UNCHANGED <<pending, held>> BY <1>3, <2>2, <3>1 DEF CallNext
    <3>2. ASSUME NEW b \in pending, b.idx = next_batch_to_return_, pending' = pending \ {b},
                 held' = held \cup {b}
          PROVE  Accounts'
      <4>1. /\ pc[Main] = "idle" /\ UNCHANGED queue /\ UNCHANGED poolVars
            /\ generation_ \in Nat /\ next_batch_to_return_ \in Nat
        BY <1>0, <2>2 DEF CallNext, TypeOK
      <4>2. b.gen = generation_ BY <4>1 DEF Before, IInv, PendingCurrent
      <4>3. Cardinality(held') = Cardinality(held) + 1
        BY <3>2, <4>1, <4>2, Delivered DEF Before
      <4>4. Cardinality(pending') = Cardinality(pending) - 1 BY <1>5, <3>2, FS_RemoveElement
      <4>5. ASSUME NEW s \in Stages PROVE Stored(s)' = Stored(s)
        <5>1. Len(queue[s]) \in Nat BY <1>7
        <5>2. CASE s = Out BY <1>6, <4>1, <4>3, <4>4, <5>1, <5>2 DEF Stored
        <5>3. CASE s # Out BY <4>1, <5>3 DEF Stored
        <5>. QED BY <5>2, <5>3
      <4>. QED BY <1>0, <1>2, <4>1, <4>5, CallerKeeps
    <3>. QED BY <2>2, <3>1, <3>2 DEF CallNext, Deliver
  <2>3. ASSUME NEW b \in held, DropBatch(b) PROVE Accounts'
    <3>1. /\ held' = held \ {b} /\ UNCHANGED <<queue, pending>> /\ Release(OneOf(Out))
      BY <2>3 DEF DropBatch
    <3>2. Cardinality(held') = Cardinality(held) - 1 BY <1>5, <3>1, FS_RemoveElement
    <3>3. ASSUME NEW s \in Stages PROVE Stored(s)' = Stored(s) - OneOf(Out)[s]
      <4>1. Len(queue[s]) \in Nat BY <1>7
      <4>2. CASE s = Out BY <1>6, <3>1, <3>2, <4>1, <4>2 DEF Stored, OneOf
      <4>3. CASE s # Out BY <3>1, <4>1, <4>3 DEF Stored, OneOf
      <4>. QED BY <4>2, <4>3
    <3>. QED BY <1>0, <1>2, <3>1, <3>3, CallerReleases
  <2>. QED BY <1>8, <2>1, <2>2, <2>3 DEF CallerChoice
<1>. QED BY <1>4, <1>8


LEMMA AccountsStep ==
  ASSUME IInv, HeldOld, PoolAccounting, UseIsNat', Next, pc' \in [Threads -> Labels]
  PROVE  PoolAccounting'
<1>. SUFFICES ASSUME pc'[Main] # "destroyed" PROVE Accounts'
  BY DEF PoolAccounting, Accounts
<1>0. pc \in [Threads -> Labels] /\ Main \in Threads /\ \A t \in Producers : t \in Threads /\ t # Main
  BY DEF IInv, TypeOK, Threads, Producers
\* After the destructor nothing leads back.
<1>1. pc[Main] # "destroyed"
  <2>. SUFFICES ASSUME pc[Main] = "destroyed" PROVE pc'[Main] = "destroyed"
    OBVIOUS
  <2>. USE DEF Goto, WakeAll, Shutdown, RaiseStop, CloseQueue, ClosePool, NotifyStop, Acquire,
         AcquireThrows, Push, CatchException
  <2>1. ASSUME NEW w \in Workers, WorkerStep(w) PROVE pc'[Main] = "destroyed"
    <3>1. w \in Threads /\ w # Main BY DEF Threads, Producers
    <3>. QED BY <1>0, <2>1, <3>1 DEF WorkerStep, AwaitEpoch, FallAsleep, Fetch, Decode, ValidateEpoch
  <2>2. CASE TransferStep
    BY <1>0, <2>2 DEF TransferStep, TransferLoop, TransferPop, TransferValidate, TransferCopy,
         TransferRevalidate, TransferDrop
  <2>3. ~CallStep
    BY DEF CallStep, ClearPending, ClearQueue, PublishEpoch, NotifyEpoch, Pop, PopClosed, Join
  <2>4. CASE CallerChoice
    BY <2>4 DEF CallerChoice, BeginReset, CallNext, DropBatch, Destroy
  <2>. QED BY <2>1, <2>2, <2>3, <2>4 DEF Next
<1>2. Before BY <1>1, UseType DEF Before, PoolAccounting, Accounts
<1>. QED BY <1>1, <1>2, WorkerAccounts, TransferAccounts, CallerAccounts DEF Next

LEMMA AccountsInit == Init => HeldOld /\ PoolAccounting
<1>. SUFFICES ASSUME Init PROVE HeldOld /\ PoolAccounting OBVIOUS
<1>0. /\ queue = [s \in Stages |-> <<>>] /\ pending = {} /\ held = {}
      /\ allocated_count_ = [s \in Stages |-> 0] /\ available_ = [s \in Stages |-> 0]
      /\ pc = [t \in Threads |-> IF t = Main THEN "construct" ELSE IF t # Transfer THEN "outer"
                                 ELSE IF UsesDevice THEN "loop" ELSE "done"]
  BY DEF Init
<1>1. HeldOld BY <1>0, FS_EmptySet DEF HeldOld
<1>2. ASSUME NEW s \in Stages PROVE InUse(s) = 0
  <2>1. \A t \in Producers : pc[t] \in {"outer", "loop", "done"} BY <1>0 DEF Threads, Producers
  <2>2. Owners(s) = {} BY <2>1, IdleOwns DEF Owners, Idle, Labels
  <2>3. Stored(s) = 0 BY <1>0, FS_EmptySet DEF Stored
  <2>4. UseIsNat BY InitIInv, UseType, <1>1
  <2>5. InUse(s) = Cardinality(Owners(s)) + Stored(s) BY <2>4 DEF UseIsNat
  <2>6. Cardinality(Owners(s)) = 0 BY <2>2, FS_EmptySet
  <2>. QED BY <2>3, <2>5, <2>6
<1>3. \A s \in Stages : PoolCapacity[s] \in Nat
  <2>1. Cardinality(Workers) \in Nat BY FS_CardinalityType
  <2>. QED BY <2>1 DEF PoolCapacity
<1>. QED BY <1>0, <1>1, <1>2, <1>3 DEF PoolAccounting

LEMMA AccountsStutter == HeldOld /\ PoolAccounting /\ UNCHANGED vars => HeldOld' /\ PoolAccounting'
BY DEF HeldOld, PoolAccounting, InUse, Owned, vars, epochVars, queueVars, poolVars, callerVars, failVars

\* A pool's allocated_count_ is what is free and what someone holds, through
\* every acquisition, release, reset and close, and it stays within the
\* capacity the memory budget paid for.
THEOREM StoragesAccounted == Spec => []PoolAccounting
<1>1. IInv /\ IInv' /\ HeldOld /\ PoolAccounting /\ [Next]_vars => HeldOld' /\ PoolAccounting'
  <2>. SUFFICES ASSUME IInv, IInv', HeldOld, PoolAccounting, [Next]_vars
       PROVE  HeldOld' /\ PoolAccounting'
    OBVIOUS
  <2>1. CASE UNCHANGED vars BY <2>1, AccountsStutter
  <2>2. CASE Next
    <3>1. HeldOld' BY <2>2, HeldStep
    <3>2. (IInv /\ HeldOld => UseIsNat)' BY UseType, PTL
    <3>3. pc' \in [Threads -> Labels] BY <2>2, PcTypeStep
    <3>. QED BY <2>2, <3>1, <3>2, <3>3, AccountsStep
  <2>. QED BY <2>1, <2>2
<1>. QED BY Invariant, AccountsInit, <1>1, PTL DEF Spec

=============================================================================
