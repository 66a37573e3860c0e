------------------------ MODULE CpuThreadPool_proofs ------------------------
(***************************************************************************)
(* For any workers, callers and ranges: the chunks of cpu_parallel_for     *)
(* partition its range, the pool's variables keep their types, no task     *)
(* outlives the call that enqueued it, no wakeup is lost, and each index   *)
(* of a range is run once.                                                 *)
(***************************************************************************)
EXTENDS CpuThreadPool, Counting

USE PoolAssumption

Labels == {"loop", "waiting", "run", "finish", "done", "idle", "enqueue",
           "notify", "wait", "running", "join", "destroyed"}

\* Each thread is in the code of its role.
RolesOK ==
  /\ \A w \in Workers : pc[w] \in {"loop", "waiting", "run", "finish", "done"}
  /\ \A c \in Callers : pc[c] \in {"idle", "enqueue", "notify", "wait", "waiting"}
  /\ pc[Owner] \in {"running", "notify", "join", "destroyed"}

\* active_tasks_ counts the workers that have taken a task and not yet
\* accounted for its end: what makes wait's predicate mean idleness.
Running == {w \in Workers : pc[w] \in {"run", "finish"}}
ActiveCounted == active_tasks_ = Cardinality(Running)

\* Only a call with something to do enqueues.
CallsOpen == \A c \in Callers : pc[c] # "idle" => call[c][1] < call[c][2]

IInv == TypeOK /\ RolesOK /\ ActiveCounted /\ CallsOpen /\ NoTaskOutlivesCall

-----------------------------------------------------------------------------
(* Arithmetic of the chunks. *)

LEMMA WorkersCounted == Cardinality(Workers) \in Nat /\ Cardinality(Workers) > 0
  BY FS_CardinalityType, FS_EmptySet

LEMMA CountPositive ==
  ASSUME NEW r \in Nat \X Nat, r[1] < r[2]
  PROVE  WorkerCount(r) \in Nat \ {0} /\ WorkerCount(r) <= r[2] - r[1]
  BY WorkersCounted DEF WorkerCount, Least

\* Rounding up: as many chunks as workers reach the end, and a chunk is not
\* empty.
LEMMA ChunkSizeReaches ==
  ASSUME NEW n \in Nat \ {0}, NEW k \in Nat \ {0}
  PROVE  /\ ChunkSize(n, k) \in Nat \ {0}
         /\ n <= k * ChunkSize(n, k)
<1> DEFINE s == ChunkSize(n, k)
<1>1. s \in Int /\ k * s <= n + k - 1 /\ n + k - 1 < k * s + k
  BY Z3 DEF ChunkSize
<1>2. n <= k * s
  BY <1>1
<1>3. s > 0
  <2> SUFFICES ASSUME s <= 0 PROVE FALSE
    BY <1>1
  <2>1. k * s <= 0
    BY <1>1, Z3
  <2>2. k * s \in Int
    BY <1>1
  <2> HIDE DEF s
  <2> QED
    BY <2>1, <2>2, <1>2
<1> QED
  BY <1>1, <1>2, <1>3

LEMMA Quotient ==
  ASSUME NEW x \in Nat, NEW s \in Nat \ {0}
  PROVE  \E k \in Nat : k * s <= x /\ x < k * s + s
<1>1. x \div s \in Nat /\ (x \div s) * s <= x /\ x < (x \div s) * s + s
  BY Z3
<1> QED
  BY <1>1

\* Intervals of equal length s: x is in the k-th and in no other.
LEMMA OneInterval ==
  ASSUME NEW x \in Nat, NEW s \in Nat \ {0}, NEW k \in Nat, k * s <= x, x < k * s + s,
         NEW j \in Nat
  PROVE  /\ (j * s <= x /\ x < j * s + s) <=> j = k
         /\ j <= k => j * s <= x
<1>1. j * s \in Nat /\ k * s \in Nat
  OBVIOUS
<1>2. j < k => j * s + s <= k * s
  BY Z3
<1>3. k < j => k * s + s <= j * s
  BY Z3
<1>4. j = k => j * s = k * s
  OBVIOUS
<1> QED
  BY <1>1, <1>2, <1>3, <1>4

\* The chunks of a range partition it: each index is in exactly one, and the
\* loop of cpu_parallel_for reaches that one, as it and those before it are
\* not empty.
THEOREM ChunksPartition ==
  ASSUME NEW r \in Nat \X Nat, r[1] < r[2], NEW i \in r[1]..(r[2] - 1)
  PROVE  \E k \in 0..(WorkerCount(r) - 1) :
           /\ \A j \in Nat : (ChunkBegin(r, j) <= i /\ i < ChunkEnd(r, j)) <=> j = k
           /\ \A j \in 0..k : ChunkBegin(r, j) < ChunkEnd(r, j)
<1> DEFINE b == r[1]
           e == r[2]
           s == ChunkSize(r[2] - r[1], WorkerCount(r))
           count == WorkerCount(r)
<1>1. b \in Nat /\ e \in Nat /\ i \in Nat /\ b <= i /\ i < e
  OBVIOUS
<1>2. count \in Nat \ {0}
  BY CountPositive
<1>3. s \in Nat \ {0} /\ e - b <= count * s
  <2>1. r[2] - r[1] \in Nat \ {0}
    BY <1>1
  <2>2. /\ ChunkSize(r[2] - r[1], WorkerCount(r)) \in Nat \ {0}
        /\ r[2] - r[1] <= WorkerCount(r) * ChunkSize(r[2] - r[1], WorkerCount(r))
    <3> HIDE DEF b, e, count, s
    <3> QED
      BY <2>1, <1>2, ChunkSizeReaches DEF count
  <2> QED
    BY <2>2
<1>4. \A j \in Nat : ChunkBegin(r, j) = b + j * s /\ ChunkEnd(r, j) = Least(e, b + j * s + s)
  BY DEF ChunkBegin, ChunkEnd
<1> HIDE DEF b, e, s, count
<1>5. PICK k \in Nat : k * s <= i - b /\ i - b < k * s + s
  <2>1. i - b \in Nat
    BY <1>1
  <2> QED
    BY <2>1, <1>3, Quotient
<1>6. k < count
  <2> SUFFICES ASSUME count <= k PROVE FALSE
    BY <1>2
  <2>1. count * s <= k * s
    BY <1>2, <1>3, Z3
  <2>2. count * s \in Nat /\ k * s \in Nat
    BY <1>2, <1>3
  <2> QED
    BY <2>1, <2>2, <1>1, <1>3, <1>5
<1>7. ASSUME NEW j \in Nat
      PROVE  /\ (ChunkBegin(r, j) <= i /\ i < ChunkEnd(r, j)) <=> j = k
             /\ j <= k => ChunkBegin(r, j) < ChunkEnd(r, j)
  <2>1. i - b \in Nat
    BY <1>1
  <2>2. /\ (j * s <= i - b /\ i - b < j * s + s) <=> j = k
        /\ j <= k => j * s <= i - b
    BY <2>1, <1>3, <1>5, OneInterval
  <2>3. PICK m \in Nat : m = j * s
    BY <1>3
  <2>4. ChunkBegin(r, j) = b + m /\ ChunkEnd(r, j) = IF e <= b + m + s THEN e ELSE b + m + s
    BY <2>3, <1>4 DEF Least
  <2>5. ChunkBegin(r, j) <= i <=> m <= i - b
    BY <2>4, <1>1
  <2>6. i < ChunkEnd(r, j) <=> i - b < m + s
    BY <2>4, <1>1, <1>3
  <2>7. j <= k => ChunkBegin(r, j) < ChunkEnd(r, j)
    BY <2>2, <2>3, <2>4, <1>1, <1>3
  <2> QED
    BY <2>2, <2>3, <2>5, <2>6, <2>7
<1> QED
  BY <1>2, <1>6, <1>7 DEF count

-----------------------------------------------------------------------------
(* Moving threads and counting workers. *)

LEMMA ThreadsDistinct ==
  /\ \A w \in Workers : w \in Threads /\ w \notin Callers /\ w # Owner
  /\ \A c \in Callers : c \in Threads /\ c \notin Workers /\ c # Owner
  /\ Owner \in Threads
  BY DEF Threads

\* A step of t moves t and whom it wakes: nobody who works or calls changes
\* sides, and nobody else leaves the label it is at unless it was waiting.
LEMMA Moves ==
  ASSUME IInv, NEW t \in Threads, NEW label \in Labels,
         NEW woken \in SUBSET (Waiting \cup WaitingDone), t \notin woken,
         GotoWaking(t, label, woken)
  PROVE  /\ pc' \in [Threads -> Labels]
         /\ pc'[t] = label
         /\ \A u \in Workers : u # t => pc'[u] = pc[u] \/ (pc[u] = "waiting" /\ pc'[u] = "loop")
         /\ \A u \in Callers : u # t => pc'[u] = pc[u] \/ (pc[u] = "waiting" /\ pc'[u] = "wait")
         /\ t # Owner => pc'[Owner] = pc[Owner]
<1>1. pc \in [Threads -> Labels]
  BY DEF IInv, TypeOK, Labels
<1>2. \A u \in woken : pc[u] = "waiting" /\ u \in Workers \cup Callers
  BY DEF Waiting, WaitingDone
<1>4. \A u \in Threads : pc'[u] = IF u = t THEN label
                                  ELSE IF u \notin woken THEN pc[u]
                                  ELSE IF u \in Workers THEN "loop" ELSE "wait"
  BY DEF GotoWaking
<1>5. pc' \in [Threads -> Labels]
  BY <1>1 DEF GotoWaking, Labels
<1>6. \A u \in Workers : u # t => pc'[u] = pc[u] \/ (pc[u] = "waiting" /\ pc'[u] = "loop")
  BY <1>2, <1>4, ThreadsDistinct
<1>7. \A u \in Callers : u # t => pc'[u] = pc[u] \/ (pc[u] = "waiting" /\ pc'[u] = "wait")
  BY <1>2, <1>4, ThreadsDistinct
<1>8. t # Owner => pc'[Owner] = pc[Owner]
  <2>1. Owner \notin woken /\ Owner \in Threads
    BY <1>2, ThreadsDistinct
  <2>2. t # Owner => pc'[Owner] = IF Owner \notin woken THEN pc[Owner]
                                  ELSE IF Owner \in Workers THEN "loop" ELSE "wait"
    BY <2>1, <1>4
  <2> QED
    BY <2>1, <2>2
<1>9. pc'[t] = label
  BY <1>4
<1> QED
  BY <1>5, <1>6, <1>7, <1>8, <1>9

\* The ways the actions move threads.
LEMMA GotoMoves ==
  ASSUME IInv, NEW t \in Threads, NEW label \in Labels, Goto(t, label)
  PROVE  /\ pc' \in [Threads -> Labels]
         /\ pc'[t] = label
         /\ \A u \in Threads : u # t => pc'[u] = pc[u]
<1>1. pc \in [Threads -> Labels]
  BY DEF IInv, TypeOK, Labels
<1>2. pc' = [u \in Threads |-> IF u = t THEN label ELSE pc[u]]
  BY DEF Goto, GotoWaking
<1> QED
  BY <1>1, <1>2

LEMMA OneWoken ==
  ASSUME NEW S, NEW woken \in One(S)
  PROVE  woken \subseteq S
  BY DEF One

\* Workers that neither take nor finish a task leave the set unchanged.
LEMMA RunningKept ==
  ASSUME IInv,
         \A w \in Workers : pc'[w] \in {"run", "finish"} <=> pc[w] \in {"run", "finish"}
  PROVE  Running' = Running
  BY DEF Running

LEMMA RunningFinite == IsFiniteSet(Running) /\ IsFiniteSet(Running')
  BY FS_Subset DEF Running

LEMMA RunningGrows ==
  ASSUME IInv, NEW w \in Workers, pc[w] = "loop", pc'[w] = "run",
         \A u \in Workers : u # w => pc'[u] = pc[u]
  PROVE  Cardinality(Running') = Cardinality(Running) + 1
<1>1. Running' = Running \cup {w} /\ w \notin Running
  BY DEF Running
<1> QED
  BY <1>1, RunningFinite, FS_AddElement

LEMMA RunningShrinks ==
  ASSUME IInv, NEW w \in Workers, pc[w] = "finish", pc'[w] = "loop",
         \A u \in Workers : u # w => (pc'[u] \in {"run", "finish"} <=> pc[u] \in {"run", "finish"})
  PROVE  Cardinality(Running') = Cardinality(Running) - 1
<1>1. Running' = Running \ {w} /\ w \in Running
  BY DEF Running
<1> QED
  BY <1>1, RunningFinite, FS_RemoveElement

LEMMA NobodyRuns ==
  ASSUME IInv, active_tasks_ = 0
  PROVE  \A w \in Workers : pc[w] \notin {"run", "finish"}
<1>1. Running = {}
  BY RunningFinite, FS_EmptySet DEF IInv, ActiveCounted
<1> QED
  BY <1>1 DEF Running

-----------------------------------------------------------------------------
(* Steps. *)

\* Steps that touch neither the tasks nor the workers' share in them, and end
\* no call.
LEMMA QuietStep ==
  ASSUME IInv, UNCHANGED <<poolVars, task, callerVars>>,
         pc' \in [Threads -> Labels], RolesOK',
         \A w \in Workers : pc'[w] \in {"run", "finish"} <=> pc[w] \in {"run", "finish"},
         \A c \in Callers : pc'[c] # "idle" <=> pc[c] # "idle"
  PROVE  IInv'
<1>1. TypeOK'
  BY DEF IInv, TypeOK, poolVars, callerVars, Labels
<1>2. ActiveCounted'
  BY RunningKept DEF IInv, ActiveCounted, poolVars
<1>3. CallsOpen' /\ NoTaskOutlivesCall'
  BY DEF IInv, CallsOpen, NoTaskOutlivesCall, poolVars, callerVars
<1> QED
  BY <1>1, <1>2, <1>3 DEF IInv

LEMMA NotifyTaskStep == ASSUME IInv, NEW c \in Callers, NotifyTask(c) PROVE IInv'
<1>1. PICK woken \in One(Waiting) : GotoWaking(c, "enqueue", woken)
  BY DEF NotifyTask
<1>2. woken \in SUBSET (Waiting \cup WaitingDone) /\ c \notin woken /\ pc[c] = "notify"
  BY OneWoken, <1>1, ThreadsDistinct DEF Waiting, NotifyTask
<1>3. /\ pc' \in [Threads -> Labels]
      /\ pc'[c] = "enqueue"
      /\ \A u \in Workers : u # c => pc'[u] = pc[u] \/ (pc[u] = "waiting" /\ pc'[u] = "loop")
      /\ \A u \in Callers : u # c => pc'[u] = pc[u] \/ (pc[u] = "waiting" /\ pc'[u] = "wait")
      /\ pc'[Owner] = pc[Owner]
  BY <1>1, <1>2, Moves, ThreadsDistinct DEF Labels
<1>4. RolesOK'
  BY <1>3 DEF IInv, RolesOK
<1> QED
  BY <1>2, <1>3, <1>4, QuietStep, ThreadsDistinct DEF NotifyTask

LEMMA NotifyStopStep == ASSUME IInv, NotifyStop PROVE IInv'
<1>1. GotoWaking(Owner, "join", Waiting) /\ Owner \notin Waiting
  BY ThreadsDistinct DEF NotifyStop, Waiting
<1>2. /\ pc' \in [Threads -> Labels]
      /\ pc'[Owner] = "join"
      /\ \A u \in Workers : u # Owner => pc'[u] = pc[u] \/ (pc[u] = "waiting" /\ pc'[u] = "loop")
      /\ \A u \in Callers : u # Owner => pc'[u] = pc[u] \/ (pc[u] = "waiting" /\ pc'[u] = "wait")
  BY <1>1, Moves, ThreadsDistinct DEF Labels
<1>3. RolesOK'
  BY <1>2, ThreadsDistinct DEF IInv, RolesOK
<1> QED
  BY <1>2, <1>3, QuietStep, ThreadsDistinct DEF NotifyStop

LEMMA JoinStep == ASSUME IInv, Join PROVE IInv'
<1>1. /\ pc' \in [Threads -> Labels] /\ pc'[Owner] = "destroyed"
      /\ \A u \in Threads : u # Owner => pc'[u] = pc[u]
  BY GotoMoves, ThreadsDistinct DEF Join, Labels
<1>2. RolesOK'
  BY <1>1, ThreadsDistinct DEF IInv, RolesOK
<1> QED
  BY <1>1, <1>2, QuietStep, ThreadsDistinct DEF Join

LEMMA SpuriousStep == ASSUME IInv, NEW t \in Workers \cup Callers, SpuriousWakeup(t) PROVE IInv'
<1> DEFINE label == IF t \in Workers THEN "loop" ELSE "wait"
<1>1. /\ pc' \in [Threads -> Labels] /\ pc'[t] = label
      /\ \A u \in Threads : u # t => pc'[u] = pc[u]
  BY GotoMoves, ThreadsDistinct DEF SpuriousWakeup, Goto, Labels
<1>2. RolesOK'
  BY <1>1, ThreadsDistinct DEF IInv, RolesOK
<1> QED
  BY <1>1, <1>2, QuietStep, ThreadsDistinct DEF SpuriousWakeup

LEMMA StopStep == ASSUME IInv, Stop PROVE IInv'
<1>1. /\ pc' \in [Threads -> Labels] /\ pc'[Owner] = "notify"
      /\ \A u \in Threads : u # Owner => pc'[u] = pc[u]
  BY GotoMoves, ThreadsDistinct DEF Stop, Labels
<1>2. RolesOK' /\ Running' = Running
  BY <1>1, ThreadsDistinct DEF IInv, RolesOK, Running
<1>3. TypeOK'
  BY <1>1 DEF IInv, TypeOK, Stop, callerVars, Labels
<1>4. CallsOpen' /\ NoTaskOutlivesCall' /\ ActiveCounted'
  BY <1>1, <1>2, ThreadsDistinct DEF IInv, CallsOpen, NoTaskOutlivesCall, ActiveCounted, Stop, callerVars
<1> QED
  BY <1>2, <1>3, <1>4 DEF IInv

LEMMA CallBegins == ASSUME IInv, NEW c \in Callers, NEW r \in Ranges, Call(c, r) PROVE IInv'
<1>0. /\ pc \in [Threads -> Labels] /\ pc[c] = "idle"
      /\ ran \in [Callers -> [Indices -> Nat]] /\ call \in [Callers -> Nat \X Nat]
  BY DEF IInv, TypeOK, Labels, Call
<1>1. /\ pc' \in [Threads -> Labels]
      /\ \A u \in Threads : u # c => pc'[u] = pc[u]
      /\ pc'[c] \in {"idle", "enqueue"}
      /\ pc'[c] = "enqueue" => r[1] < r[2]
  <2>1. Goto(c, "enqueue") => /\ pc' \in [Threads -> Labels] /\ pc'[c] = "enqueue"
                              /\ \A u \in Threads : u # c => pc'[u] = pc[u]
    BY GotoMoves, ThreadsDistinct DEF Labels
  <2> QED
    BY <1>0, <2>1 DEF Call
<1>2. RolesOK' /\ Running' = Running
  BY <1>1, ThreadsDistinct DEF IInv, RolesOK, Running
<1>3. ran' \in [Callers -> [Indices -> Nat]]
  <2>1. \E f \in [Indices -> Nat] : ran' = [ran EXCEPT ![c] = f]
    <3>1. [i \in Indices |-> IF r[1] <= i /\ i < r[2] THEN 1 ELSE 0] \in [Indices -> Nat]
      OBVIOUS
    <3>2. [i \in Indices |-> 0] \in [Indices -> Nat]
      OBVIOUS
    <3> QED
      BY <3>1, <3>2 DEF Call
  <2> QED
    BY <1>0, <2>1
<1>4. /\ call' \in [Callers -> Nat \X Nat] /\ worker' \in [Callers -> Nat]
      /\ calls' \in [Callers -> Nat]
  <2>1. r \in Nat \X Nat
    OBVIOUS
  <2> QED
    BY <2>1 DEF Call, IInv, TypeOK
<1>5. TypeOK'
  BY <1>1, <1>3, <1>4 DEF IInv, TypeOK, Labels, Call, poolVars
<1>6. CallsOpen'
  BY <1>0, <1>1, ThreadsDistinct DEF IInv, CallsOpen, Call
<1>7. NoTaskOutlivesCall' /\ ActiveCounted'
  BY <1>0, <1>1, <1>2, ThreadsDistinct DEF IInv, NoTaskOutlivesCall, ActiveCounted, Call, poolVars
<1> QED
  BY <1>2, <1>5, <1>6, <1>7 DEF IInv

LEMMA EnqueueStep == ASSUME IInv, NEW c \in Callers, Enqueue(c) PROVE IInv'
<1> DEFINE r == call[c]
           i == worker[c]
           t == [caller |-> c, begin |-> ChunkBegin(r, i), end |-> ChunkEnd(r, i)]
<1>0. /\ pc \in [Threads -> Labels] /\ pc[c] = "enqueue"
      /\ tasks_ \in Seq(Task) /\ i \in Nat /\ r \in Nat \X Nat /\ r[1] < r[2]
  BY DEF IInv, TypeOK, Labels, Enqueue, CallsOpen
<1>1. \E label \in {"wait", "notify"} :
        /\ pc' \in [Threads -> Labels] /\ pc'[c] = label
        /\ \A u \in Threads : u # c => pc'[u] = pc[u]
  BY GotoMoves, ThreadsDistinct DEF Labels, Enqueue
<1>2. RolesOK' /\ Running' = Running
  BY <1>1, ThreadsDistinct DEF IInv, RolesOK, Running
<1>3. CASE UNCHANGED <<tasks_, worker>>
  <2>1. TypeOK'
    BY <1>1, <1>3 DEF IInv, TypeOK, Labels, Enqueue
  <2>2. CallsOpen' /\ NoTaskOutlivesCall' /\ ActiveCounted'
    BY <1>0, <1>1, <1>2, <1>3, ThreadsDistinct
       DEF IInv, CallsOpen, NoTaskOutlivesCall, ActiveCounted, Enqueue
  <2> QED
    BY <1>2, <2>1, <2>2 DEF IInv
<1>4. CASE tasks_' = Append(tasks_, t) /\ worker' = [worker EXCEPT ![c] = i + 1]
  <2>1. t \in Task
    <3> DEFINE s == ChunkSize(r[2] - r[1], WorkerCount(r))
    <3>1. WorkerCount(r) \in Nat \ {0} /\ r[2] - r[1] \in Nat \ {0}
      BY <1>0, CountPositive
    <3>2. s \in Nat
      <4> HIDE DEF r
      <4> QED
        BY <3>1, ChunkSizeReaches
    <3>3. i * s \in Nat /\ r[1] \in Nat /\ r[2] \in Nat
      BY <3>2, <1>0
    <3>4. ChunkBegin(r, i) \in Nat /\ ChunkEnd(r, i) \in Nat
      BY <3>2, <3>3 DEF ChunkBegin, ChunkEnd, Least
    <3> QED
      BY <3>4 DEF Task
  <2> HIDE DEF t
  <2>2. tasks_' \in Seq(Task)
    BY <1>0, <1>4, <2>1
  <2>3. TypeOK'
    BY <1>0, <1>1, <1>4, <2>2 DEF IInv, TypeOK, Labels, Enqueue
  <2>4. \A k \in 1..Len(tasks_)' : tasks_'[k] = t \/ (k \in 1..Len(tasks_) /\ tasks_'[k] = tasks_[k])
    BY <1>0, <1>4, <2>1
  <2>5. NoTaskOutlivesCall'
    <3>1. t.caller = c /\ pc'[c] # "idle"
      BY <1>1 DEF t
    <3>2. \A u \in Callers : pc[u] # "idle" => pc'[u] # "idle"
      BY <1>1, ThreadsDistinct
    <3>3. task' = task /\ \A w \in Workers : pc'[w] = pc[w]
      BY <1>1, ThreadsDistinct DEF Enqueue
    <3> QED
      BY <3>1, <3>2, <3>3, <2>4 DEF IInv, NoTaskOutlivesCall
  <2>6. CallsOpen' /\ ActiveCounted'
    BY <1>0, <1>1, <1>2, ThreadsDistinct DEF IInv, CallsOpen, ActiveCounted, Enqueue
  <2> QED
    BY <1>2, <2>3, <2>5, <2>6 DEF IInv
<1> QED
  BY <1>3, <1>4 DEF Enqueue

\* The call returns only to find no task of anyone's left.
LEMMA WaitStep == ASSUME IInv, NEW c \in Callers, Wait(c) PROVE IInv'
<1>0. UNCHANGED <<poolVars, task, callerVars>> /\ pc[c] = "wait"
  BY DEF Wait
<1>1. \E label \in {"idle", "waiting"} :
        /\ label = "idle" => tasks_ = <<>> /\ active_tasks_ = 0
        /\ pc' \in [Threads -> Labels] /\ pc'[c] = label
        /\ \A u \in Threads : u # c => pc'[u] = pc[u]
  BY GotoMoves, ThreadsDistinct DEF Labels, Wait
<1>2. RolesOK' /\ Running' = Running
  BY <1>1, ThreadsDistinct DEF IInv, RolesOK, Running
<1>3. TypeOK'
  BY <1>0, <1>1 DEF IInv, TypeOK, Labels, poolVars, callerVars
<1>4. CallsOpen' /\ ActiveCounted'
  BY <1>0, <1>1, <1>2, ThreadsDistinct DEF IInv, CallsOpen, ActiveCounted, poolVars, callerVars
<1>5. NoTaskOutlivesCall'
  <2>1. CASE pc'[c] = "waiting"
    BY <2>1, <1>0, <1>1, ThreadsDistinct DEF IInv, NoTaskOutlivesCall, poolVars
  <2>2. CASE pc'[c] = "idle"
    <3>1. tasks_' = <<>> /\ \A w \in Workers : pc'[w] \notin {"run", "finish"}
      BY <2>2, <1>0, <1>1, NobodyRuns, ThreadsDistinct DEF poolVars
    <3> QED
      BY <3>1 DEF NoTaskOutlivesCall
  <2> QED
    BY <1>1, <2>1, <2>2
<1> QED
  BY <1>2, <1>3, <1>4, <1>5 DEF IInv

LEMMA HeadTail ==
  ASSUME NEW S, NEW s \in Seq(S), s # <<>>
  PROVE  /\ Head(s) \in S /\ Tail(s) \in Seq(S)
         /\ Head(s) = s[1] /\ 1 \in 1..Len(s)
         /\ \A k \in 1..Len(Tail(s)) : k + 1 \in 1..Len(s) /\ Tail(s)[k] = s[k + 1]
<1>1. Len(s) \in Nat \ {0}
  OBVIOUS
<1> QED
  BY <1>1

LEMMA TakeStep == ASSUME IInv, NEW w \in Workers, Take(w) PROVE IInv'
<1>0. /\ pc \in [Threads -> Labels] /\ pc[w] = "loop"
      /\ tasks_ \in Seq(Task) /\ task \in [Workers -> Task]
  BY DEF IInv, TypeOK, Labels, Take
<1>1. \E label \in {"waiting", "done", "run"} :
        /\ pc' \in [Threads -> Labels] /\ pc'[w] = label
        /\ \A u \in Threads : u # w => pc'[u] = pc[u]
        /\ label # "run" => UNCHANGED <<poolVars, task, callerVars>>
        /\ label = "run" => /\ tasks_ # <<>> /\ task' = [task EXCEPT ![w] = Head(tasks_)]
                            /\ tasks_' = Tail(tasks_) /\ active_tasks_' = active_tasks_ + 1
                            /\ UNCHANGED <<stop_, callerVars>>
  BY GotoMoves, ThreadsDistinct DEF Labels, Take, poolVars
<1>2. RolesOK'
  BY <1>1, ThreadsDistinct DEF IInv, RolesOK
<1>3. CASE pc'[w] # "run"
  BY <1>0, <1>1, <1>2, <1>3, QuietStep, ThreadsDistinct
<1>4. CASE pc'[w] = "run"
  <2>1. /\ Head(tasks_) \in Task /\ tasks_' \in Seq(Task)
        /\ Head(tasks_) = tasks_[1] /\ 1 \in 1..Len(tasks_)
        /\ \A k \in 1..Len(tasks_)' : k + 1 \in 1..Len(tasks_) /\ tasks_'[k] = tasks_[k + 1]
    <3>1. tasks_ # <<>> /\ tasks_' = Tail(tasks_)
      BY <1>1, <1>4
    <3> QED
      BY <3>1, <1>0, HeadTail
  <2>2. TypeOK'
    <3>1. task' \in [Workers -> Task]
      BY <1>0, <1>1, <1>4, <2>1
    <3>2. active_tasks_' \in Nat
      BY <1>1, <1>4 DEF IInv, TypeOK
    <3> QED
      BY <1>1, <1>4, <2>1, <3>1, <3>2 DEF IInv, TypeOK, Labels, callerVars
  <2>3. ActiveCounted'
    BY <1>0, <1>1, <1>4, RunningGrows, ThreadsDistinct DEF IInv, ActiveCounted
  <2>4. NoTaskOutlivesCall'
    <3>1. \A c \in Callers : pc'[c] = pc[c]
      BY <1>1, ThreadsDistinct
    <3>2. task'[w] = tasks_[1] /\ \A u \in Workers : u # w => task'[u] = task[u] /\ pc'[u] = pc[u]
      BY <1>0, <1>1, <1>4, <2>1, ThreadsDistinct
    <3>3. \A k \in 1..Len(tasks_)' : tasks_'[k].caller \in Callers /\ pc'[tasks_'[k].caller] # "idle"
      <4>1. \A k \in 1..Len(tasks_) : tasks_[k].caller \in Callers /\ pc[tasks_[k].caller] # "idle"
        BY DEF IInv, NoTaskOutlivesCall
      <4> SUFFICES ASSUME NEW k \in 1..Len(tasks_)'
                   PROVE  tasks_'[k].caller \in Callers /\ pc'[tasks_'[k].caller] # "idle"
        OBVIOUS
      <4>2. k + 1 \in 1..Len(tasks_) /\ tasks_'[k] = tasks_[k + 1]
        BY <2>1
      <4> QED
        BY <3>1, <4>1, <4>2
    <3>4. \A u \in Workers : pc'[u] \in {"run", "finish"} =>
            task'[u].caller \in Callers /\ pc'[task'[u].caller] # "idle"
      BY <2>1, <3>1, <3>2 DEF IInv, NoTaskOutlivesCall
    <3> QED
      BY <3>3, <3>4 DEF NoTaskOutlivesCall
  <2>5. CallsOpen'
    BY <1>1, <1>4, ThreadsDistinct DEF IInv, CallsOpen, callerVars
  <2> QED
    BY <1>2, <2>2, <2>3, <2>4, <2>5 DEF IInv
<1> QED
  BY <1>3, <1>4

LEMMA RunStep == ASSUME IInv, NEW w \in Workers, Run(w) PROVE IInv'
<1>0. /\ pc \in [Threads -> Labels] /\ pc[w] = "run" /\ task \in [Workers -> Task]
      /\ task[w].caller \in Callers /\ ran \in [Callers -> [Indices -> Nat]]
      /\ UNCHANGED <<poolVars, task, call, worker, calls>>
  BY DEF IInv, TypeOK, Labels, Run, NoTaskOutlivesCall
<1>1. /\ pc' \in [Threads -> Labels] /\ pc'[w] = "finish"
      /\ \A u \in Threads : u # w => pc'[u] = pc[u]
  BY GotoMoves, ThreadsDistinct DEF Labels, Run
<1>2. RolesOK' /\ Running' = Running
  BY <1>0, <1>1, ThreadsDistinct DEF IInv, RolesOK, Running
<1>3. TypeOK'
  <2>1. ran' \in [Callers -> [Indices -> Nat]]
    <3> DEFINE c == task[w].caller
               f == [i \in Indices |-> IF task[w].begin <= i /\ i < task[w].end
                                       THEN ran[c][i] + 1 ELSE ran[c][i]]
    <3>1. f \in [Indices -> Nat]
      BY <1>0
    <3>2. ran' = [ran EXCEPT ![c] = f]
      BY <1>0 DEF Run, Counted
    <3> HIDE DEF f, c
    <3> QED
      BY <1>0, <3>1, <3>2
  <2> QED
    BY <1>0, <1>1, <2>1 DEF IInv, TypeOK, Labels, poolVars
<1>4. ActiveCounted' /\ CallsOpen' /\ NoTaskOutlivesCall'
  BY <1>0, <1>1, <1>2, ThreadsDistinct
     DEF IInv, ActiveCounted, CallsOpen, NoTaskOutlivesCall, poolVars
<1> QED
  BY <1>2, <1>3, <1>4 DEF IInv

LEMMA FinishStep == ASSUME IInv, NEW w \in Workers, Finish(w) PROVE IInv'
<1> DEFINE woken == IF tasks_ = <<>> /\ active_tasks_ - 1 = 0 THEN WaitingDone ELSE {}
<1>0. /\ pc \in [Threads -> Labels] /\ pc[w] = "finish" /\ task \in [Workers -> Task]
      /\ GotoWaking(w, "loop", woken) /\ active_tasks_' = active_tasks_ - 1
      /\ task' = [task EXCEPT ![w] = NoTask] /\ UNCHANGED <<tasks_, stop_, callerVars>>
  BY DEF IInv, TypeOK, Labels, Finish
<1>1. /\ pc' \in [Threads -> Labels] /\ pc'[w] = "loop"
      /\ \A u \in Workers : u # w => pc'[u] = pc[u] \/ (pc[u] = "waiting" /\ pc'[u] = "loop")
      /\ \A u \in Callers : pc'[u] = pc[u] \/ (pc[u] = "waiting" /\ pc'[u] = "wait")
      /\ pc'[Owner] = pc[Owner]
  <2>1. woken \in SUBSET (Waiting \cup WaitingDone) /\ w \notin woken
    BY <1>0 DEF WaitingDone
  <2> HIDE DEF woken
  <2> QED
    BY <1>0, <2>1, Moves, ThreadsDistinct DEF Labels
<1>2. RolesOK'
  BY <1>1, ThreadsDistinct DEF IInv, RolesOK
<1>3. /\ ActiveCounted' /\ active_tasks_' \in Nat
  <2>1. Cardinality(Running') = Cardinality(Running) - 1
    BY <1>0, <1>1, RunningShrinks
  <2>2. Cardinality(Running') \in Nat
    BY RunningFinite, FS_CardinalityType
  <2> QED
    BY <1>0, <2>1, <2>2 DEF IInv, ActiveCounted
<1>4. TypeOK'
  <2>1. NoTask \in Task
    BY DEF NoTask, Task
  <2>2. task' \in [Workers -> Task]
    BY <1>0, <2>1
  <2> QED
    BY <1>0, <1>1, <1>3, <2>2 DEF IInv, TypeOK, Labels, callerVars
<1>5. CallsOpen'
  BY <1>0, <1>1 DEF IInv, CallsOpen, callerVars
<1>6. NoTaskOutlivesCall'
  <2>1. \A u \in Workers : pc'[u] \in {"run", "finish"} =>
          u # w /\ pc[u] \in {"run", "finish"} /\ task'[u] = task[u]
    BY <1>0, <1>1
  <2>2. \A c \in Callers : pc[c] # "idle" => pc'[c] # "idle"
    BY <1>1
  <2> QED
    BY <1>0, <2>1, <2>2 DEF IInv, NoTaskOutlivesCall
<1> QED
  BY <1>2, <1>3, <1>4, <1>5, <1>6 DEF IInv

LEMMA InitIInv == Init => IInv
<1> SUFFICES ASSUME Init PROVE IInv
  OBVIOUS
<1>1. TypeOK
  <2>1. <<>> \in Seq(Task) /\ NoTask \in Task /\ <<0, 0>> \in Nat \X Nat
    BY DEF NoTask, Task
  <2>2. [i \in Indices |-> 0] \in [Indices -> Nat]
    OBVIOUS
  <2> QED
    BY <2>1, <2>2 DEF Init, TypeOK
<1>2. RolesOK
  BY ThreadsDistinct DEF Init, RolesOK
<1>3. ActiveCounted
  <2>1. Running = {}
    BY ThreadsDistinct DEF Init, Running
  <2> QED
    BY <2>1, FS_EmptySet DEF Init, ActiveCounted
<1>4. CallsOpen /\ NoTaskOutlivesCall
  BY ThreadsDistinct DEF Init, CallsOpen, NoTaskOutlivesCall
<1> QED
  BY <1>1, <1>2, <1>3, <1>4 DEF IInv

\* The inductive invariant.
THEOREM PoolInvariant == Spec => []IInv
<1>1. IInv /\ [Next]_vars => IInv'
  <2> SUFFICES ASSUME IInv, [Next]_vars PROVE IInv'
    OBVIOUS
  <2>1. ASSUME NEW w \in Workers, WorkerStep(w) PROVE IInv'
    BY <2>1, TakeStep, RunStep, FinishStep DEF WorkerStep
  <2>2. ASSUME NEW c \in Callers, CallStep(c) PROVE IInv'
    BY <2>2, EnqueueStep, NotifyTaskStep, WaitStep DEF CallStep
  <2>3. ASSUME NEW c \in Callers, NEW r \in Ranges, Call(c, r) PROVE IInv'
    BY <2>3, CallBegins
  <2>4. ASSUME Stop \/ OwnerStep PROVE IInv'
    BY <2>4, StopStep, NotifyStopStep, JoinStep DEF OwnerStep
  <2>5. ASSUME NEW t \in Workers \cup Callers, SpuriousWakeup(t) PROVE IInv'
    BY <2>5, SpuriousStep
  <2>6. CASE UNCHANGED vars
    <3>1. UNCHANGED <<poolVars, callerVars, pc, task>>
      BY <2>6 DEF vars
    <3>2. pc' \in [Threads -> Labels] /\ RolesOK'
      BY <3>1 DEF IInv, TypeOK, Labels, RolesOK
    <3> QED
      BY <3>1, <3>2, QuietStep
  <2> QED
    BY <2>1, <2>2, <2>3, <2>4, <2>5, <2>6 DEF Next
<1> QED
  BY InitIInv, <1>1, PTL DEF Spec

\* No task of cpu_parallel_for is queued or run after the call that enqueued
\* it returned, whoever else uses the pool: the reference it holds to the
\* caller's function never dangles.
THEOREM TasksStayInCall == Spec => []NoTaskOutlivesCall
<1>1. IInv => NoTaskOutlivesCall
  BY DEF IInv
<1> QED
  BY <1>1, PoolInvariant, PTL

\* Types of the pool's variables.
THEOREM PoolTypeCorrect == Spec => []TypeOK
<1>1. IInv => TypeOK
  BY DEF IInv
<1> QED
  BY <1>1, PoolInvariant, PTL

-----------------------------------------------------------------------------
(* No wakeup is lost. *)

Awake     == {w \in Workers : pc[w] = "loop"}
Notifying == {c \in Callers : pc[c] = "notify"}

\* The three parts of NoLostWakeup.
TasksCovered ==
  Waiting # {} => Len(tasks_) <= Cardinality(Awake) + Cardinality(Notifying)
StopAnnounced == Waiting # {} => (stop_ => pc[Owner] = "notify")
CallersCovered == WaitingDone # {} => tasks_ # <<>> \/ active_tasks_ > 0

\* Finitely many calls are in progress, however many threads may call.
FiniteCalls == IsFiniteSet({c \in Callers : pc[c] # "idle"})

LEMMA Parts == NoLostWakeup <=> TasksCovered /\ StopAnnounced /\ CallersCovered
  BY DEF NoLostWakeup, TasksCovered, StopAnnounced, CallersCovered, Awake, Notifying

LEMMA Counted0 ==
  ASSUME FiniteCalls
  PROVE  /\ IsFiniteSet(Awake) /\ Cardinality(Awake) \in Nat
         /\ IsFiniteSet(Notifying) /\ Cardinality(Notifying) \in Nat
<1>1. Awake \in SUBSET Workers /\ Notifying \in SUBSET {c \in Callers : pc[c] # "idle"}
  BY DEF Awake, Notifying
<1> QED
  BY <1>1, CountOrdered DEF FiniteCalls

LEMMA Counted1 ==
  ASSUME FiniteCalls'
  PROVE  /\ IsFiniteSet(Awake') /\ Cardinality(Awake') \in Nat
         /\ IsFiniteSet(Notifying') /\ Cardinality(Notifying') \in Nat
<1>1. Awake' \in SUBSET Workers /\ Notifying' \in SUBSET {c \in Callers : pc'[c] # "idle"}
  BY DEF Awake, Notifying
<1>2. IsFiniteSet({c \in Callers : pc'[c] # "idle"})
  BY DEF FiniteCalls
<1> QED
  BY <1>1, <1>2, CountOrdered

\* A step lets at most one thread into a call.
LEMMA CallsStayFinite ==
  ASSUME FiniteCalls, NEW t, \A c \in Callers : pc'[c] # "idle" => pc[c] # "idle" \/ c = t
  PROVE  FiniteCalls'
<1>1. {c \in Callers : pc'[c] # "idle"} \in SUBSET ({c \in Callers : pc[c] # "idle"} \cup {t})
  OBVIOUS
<1>2. IsFiniteSet({c \in Callers : pc[c] # "idle"} \cup {t})
  BY FS_AddElement DEF FiniteCalls
<1>3. IsFiniteSet({c \in Callers : pc'[c] # "idle"})
  BY <1>1, <1>2, CountOrdered
<1> QED
  BY <1>3 DEF FiniteCalls

\* Who is awake or about to notify stays so, and no task is added.
LEMMA CoverKept ==
  ASSUME IInv, FiniteCalls, FiniteCalls', TasksCovered, Waiting' # {} => Waiting # {},
         Awake \subseteq Awake', Notifying \subseteq Notifying', tasks_' = tasks_
  PROVE  TasksCovered'
<1>1. Cardinality(Awake) <= Cardinality(Awake') /\ Cardinality(Notifying) <= Cardinality(Notifying')
  <2>1. Awake \in SUBSET Awake' /\ Notifying \in SUBSET Notifying'
    OBVIOUS
  <2> QED
    BY <2>1, Counted1, CountOrdered
<1>2. Len(tasks_) \in Nat
  BY DEF IInv, TypeOK
<1> QED
  BY <1>1, <1>2, Counted0, Counted1 DEF TasksCovered

\* A step that takes no task, leaves nobody worse covered and announces what
\* it must.
LEMMA CoveredStep ==
  ASSUME IInv, FiniteCalls, FiniteCalls', NoLostWakeup,
         \A w \in Workers : /\ pc[w] = "loop" => pc'[w] = "loop"
                            /\ pc'[w] = "waiting" => pc[w] = "waiting",
         \A c \in Callers : pc[c] = "notify" => pc'[c] = "notify",
         tasks_' = tasks_, StopAnnounced', CallersCovered'
  PROVE  NoLostWakeup'
<1>1. /\ Waiting' # {} => Waiting # {}
      /\ Awake \subseteq Awake' /\ Notifying \subseteq Notifying'
  BY DEF Waiting, Awake, Notifying
<1>2. TasksCovered'
  BY <1>1, Parts, CoverKept
<1>3. NoLostWakeup' <=> TasksCovered' /\ StopAnnounced' /\ CallersCovered'
  BY DEF NoLostWakeup, TasksCovered, StopAnnounced, CallersCovered, Awake, Notifying
<1> QED
  BY <1>2, <1>3

LEMMA EnqueueCovers ==
  ASSUME IInv, FiniteCalls, NoLostWakeup, NEW c \in Callers, Enqueue(c)
  PROVE  FiniteCalls' /\ NoLostWakeup'
<1>0. /\ pc[c] = "enqueue" /\ tasks_ \in Seq(Task) /\ Len(tasks_) \in Nat
      /\ UNCHANGED <<active_tasks_, stop_>> /\ active_tasks_ \in Nat
      /\ TasksCovered /\ StopAnnounced /\ CallersCovered
  BY Parts DEF Enqueue, IInv, TypeOK
<1>1. PICK label \in {"wait", "notify"} :
        /\ pc'[c] = label /\ \A u \in Threads : u # c => pc'[u] = pc[u]
        /\ label = "wait" => tasks_' = tasks_
        /\ label = "notify" => \E t : tasks_' = Append(tasks_, t)
  BY GotoMoves, ThreadsDistinct DEF Labels, Enqueue
<1>2. FiniteCalls'
  BY <1>1, CallsStayFinite, ThreadsDistinct
<1>3. /\ \A w \in Workers : pc'[w] = pc[w]
      /\ Waiting' = Waiting /\ WaitingDone' = WaitingDone /\ Awake' = Awake /\ pc'[Owner] = pc[Owner]
  BY <1>0, <1>1, ThreadsDistinct DEF Waiting, WaitingDone, Awake
<1>4. StopAnnounced'
  BY <1>0, <1>3 DEF StopAnnounced
<1>5. CASE label = "wait"
  <2>1. CallersCovered'
    BY <1>0, <1>1, <1>3, <1>5 DEF CallersCovered
  <2> QED
    BY <1>0, <1>1, <1>2, <1>3, <1>4, <1>5, <2>1, CoveredStep, ThreadsDistinct
<1>6. CASE label = "notify"
  <2>1. Len(tasks_') = Len(tasks_) + 1 /\ tasks_' # <<>>
    BY <1>0, <1>1, <1>6
  <2>2. Notifying' = Notifying \cup {c} /\ c \notin Notifying
    BY <1>0, <1>1, <1>6, ThreadsDistinct DEF Notifying
  <2>3. Cardinality(Notifying') = Cardinality(Notifying) + 1
    BY <2>2, Counted0, CountWith
  <2>4. TasksCovered'
    BY <1>0, <1>3, <2>1, <2>3, Counted0 DEF TasksCovered
  <2>5. CallersCovered'
    BY <2>1 DEF CallersCovered
  <2> QED
    BY <1>2, <1>4, <2>4, <2>5 DEF NoLostWakeup, TasksCovered, StopAnnounced, CallersCovered,
                                  Awake, Notifying
<1> QED
  BY <1>1, <1>5, <1>6

\* The notifier leaves; if a worker still waits another one was woken.
LEMMA NotifyTaskCovers ==
  ASSUME IInv, FiniteCalls, NoLostWakeup, NEW c \in Callers, NotifyTask(c)
  PROVE  FiniteCalls' /\ NoLostWakeup'
<1>0. /\ pc[c] = "notify" /\ UNCHANGED <<tasks_, active_tasks_, stop_>> /\ Len(tasks_) \in Nat
      /\ TasksCovered /\ StopAnnounced /\ CallersCovered
  BY Parts DEF NotifyTask, IInv, TypeOK, poolVars
<1>1. PICK woken \in One(Waiting) : GotoWaking(c, "enqueue", woken)
  BY DEF NotifyTask
<1>2. woken \subseteq Waiting /\ c \in Threads
  BY OneWoken, ThreadsDistinct
<1>3. /\ pc'[c] = "enqueue"
      /\ \A u \in Workers : pc'[u] = IF u \in woken THEN "loop" ELSE pc[u]
      /\ \A u \in Callers : u # c => pc'[u] = pc[u]
      /\ pc'[Owner] = pc[Owner]
  <2>1. \A u \in Threads : pc'[u] = IF u = c THEN "enqueue"
                                    ELSE IF u \notin woken THEN pc[u]
                                    ELSE IF u \in Workers THEN "loop" ELSE "wait"
    BY <1>1 DEF GotoWaking
  <2>2. \A u \in woken : u \in Workers
    BY <1>2 DEF Waiting
  <2> QED
    BY <1>2, <2>1, <2>2, ThreadsDistinct
<1>4. FiniteCalls'
  BY <1>3, CallsStayFinite
<1>5. /\ Notifying' = Notifying \ {c} /\ c \in Notifying
      /\ WaitingDone' = WaitingDone /\ Waiting' = Waiting \ woken /\ Awake' = Awake \cup woken
  <2>1. \A u \in woken : pc[u] = "waiting" /\ u \in Workers
    BY <1>2 DEF Waiting
  <2> QED
    BY <1>0, <1>3, <2>1 DEF Notifying, WaitingDone, Waiting, Awake
<1>6. Cardinality(Notifying') = Cardinality(Notifying) - 1
  BY <1>5, Counted0, CountWithout
<1>7. TasksCovered'
  <2> SUFFICES ASSUME Waiting' # {} PROVE TasksCovered'
    BY DEF TasksCovered
  <2>1. Waiting # {}
    BY <1>5
  <2>2. PICK u \in Waiting : woken = {u}
    BY <1>1, <2>1 DEF One
  <2>3. u \notin Awake
    BY DEF Waiting, Awake
  <2>4. Cardinality(Awake') = Cardinality(Awake) + 1
    BY <1>5, <2>2, <2>3, Counted0, CountWith
  <2> QED
    BY <1>0, <1>6, <2>1, <2>4, Counted0 DEF TasksCovered
<1>8. StopAnnounced' /\ CallersCovered'
  BY <1>0, <1>3, <1>5 DEF StopAnnounced, CallersCovered
<1> QED
  BY <1>4, <1>7, <1>8 DEF NoLostWakeup, TasksCovered, StopAnnounced, CallersCovered,
                          Awake, Notifying

LEMMA WaitCovers ==
  ASSUME IInv, FiniteCalls, NoLostWakeup, NEW c \in Callers, Wait(c)
  PROVE  FiniteCalls' /\ NoLostWakeup'
<1>0. /\ pc[c] = "wait" /\ UNCHANGED <<tasks_, active_tasks_, stop_>> /\ active_tasks_ \in Nat
      /\ StopAnnounced /\ CallersCovered
  BY Parts DEF Wait, IInv, TypeOK, poolVars
<1>1. PICK label \in {"idle", "waiting"} :
        /\ pc'[c] = label /\ \A u \in Threads : u # c => pc'[u] = pc[u]
        /\ label = "waiting" => tasks_ # <<>> \/ active_tasks_ # 0
  BY GotoMoves, ThreadsDistinct DEF Labels, Wait
<1>2. FiniteCalls'
  BY <1>1, CallsStayFinite, ThreadsDistinct
<1>3. StopAnnounced'
  BY <1>0, <1>1, ThreadsDistinct DEF StopAnnounced, Waiting
<1>4. CallersCovered'
  <2>1. CASE label = "waiting"
    BY <1>0, <1>1, <2>1 DEF CallersCovered
  <2>2. CASE label = "idle"
    <3>1. WaitingDone' \subseteq WaitingDone
      BY <1>1, <2>2, ThreadsDistinct DEF WaitingDone
    <3> QED
      BY <1>0, <3>1 DEF CallersCovered
  <2> QED
    BY <2>1, <2>2
<1> QED
  BY <1>0, <1>1, <1>2, <1>3, <1>4, CoveredStep, ThreadsDistinct

LEMMA CallCovers ==
  ASSUME IInv, FiniteCalls, NoLostWakeup, NEW c \in Callers, NEW r \in Ranges, Call(c, r)
  PROVE  FiniteCalls' /\ NoLostWakeup'
<1>0. /\ pc[c] = "idle" /\ UNCHANGED <<tasks_, active_tasks_, stop_>>
      /\ StopAnnounced /\ CallersCovered
  BY Parts DEF Call, poolVars
<1>1. /\ \A u \in Threads : u # c => pc'[u] = pc[u]
      /\ pc'[c] \in {"idle", "enqueue"}
  BY <1>0, GotoMoves, ThreadsDistinct DEF Labels, Call
<1>2. FiniteCalls'
  BY <1>1, CallsStayFinite, ThreadsDistinct
<1>3. StopAnnounced'
  BY <1>0, <1>1, ThreadsDistinct DEF StopAnnounced, Waiting
<1>4. CallersCovered'
  <2>1. WaitingDone' \subseteq WaitingDone
    BY <1>1, ThreadsDistinct DEF WaitingDone
  <2> QED
    BY <1>0, <2>1 DEF CallersCovered
<1> QED
  BY <1>0, <1>1, <1>2, <1>3, <1>4, CoveredStep, ThreadsDistinct

\* The destructor: it sets stop_ before it notifies, and joins only workers
\* that wait no more.
LEMMA OwnerCovers ==
  ASSUME IInv, FiniteCalls, NoLostWakeup, Stop \/ NotifyStop \/ Join
  PROVE  FiniteCalls' /\ NoLostWakeup'
<1>0. /\ UNCHANGED <<tasks_, active_tasks_>>
      /\ TasksCovered /\ StopAnnounced /\ CallersCovered
  BY Parts DEF Stop, NotifyStop, Join, poolVars
<1>1. /\ \A w \in Workers : pc'[w] = pc[w] \/ (pc[w] = "waiting" /\ pc'[w] = "loop")
      /\ \A c \in Callers : pc'[c] = pc[c]
  <2>1. CASE Stop
    BY <2>1, GotoMoves, ThreadsDistinct DEF Stop, Labels
  <2>2. CASE Join
    BY <2>2, GotoMoves, ThreadsDistinct DEF Join, Labels
  <2>3. CASE NotifyStop
    <3>1. \A u \in Threads : pc'[u] = IF u = Owner THEN "join"
                                      ELSE IF u \notin Waiting THEN pc[u]
                                      ELSE IF u \in Workers THEN "loop" ELSE "wait"
      BY <2>3 DEF NotifyStop, GotoWaking
    <3> QED
      BY <3>1, ThreadsDistinct DEF Waiting
  <2> QED
    BY <2>1, <2>2, <2>3
<1>2. FiniteCalls' /\ CallersCovered'
  BY <1>0, <1>1, CallsStayFinite DEF CallersCovered, WaitingDone
<1>3. StopAnnounced'
  <2>1. CASE Stop
    BY <2>1, GotoMoves, ThreadsDistinct DEF Stop, Labels, StopAnnounced
  <2>2. CASE Join
    <3>1. Waiting' = {}
      BY <1>1, <2>2 DEF Join, Waiting
    <3> QED
      BY <3>1 DEF StopAnnounced
  <2>3. CASE NotifyStop
    <3>1. \A u \in Threads : pc'[u] = IF u = Owner THEN "join"
                                      ELSE IF u \notin Waiting THEN pc[u]
                                      ELSE IF u \in Workers THEN "loop" ELSE "wait"
      BY <2>3 DEF NotifyStop, GotoWaking
    <3>2. Waiting' = {}
      BY <3>1, ThreadsDistinct DEF Waiting
    <3> QED
      BY <3>2 DEF StopAnnounced
  <2> QED
    BY <2>1, <2>2, <2>3
<1> QED
  BY <1>0, <1>1, <1>2, <1>3, CoveredStep

LEMMA SpuriousCovers ==
  ASSUME IInv, FiniteCalls, NoLostWakeup, NEW t \in Workers \cup Callers, SpuriousWakeup(t)
  PROVE  FiniteCalls' /\ NoLostWakeup'
<1> DEFINE label == IF t \in Workers THEN "loop" ELSE "wait"
<1>0. /\ pc[t] = "waiting" /\ UNCHANGED <<tasks_, active_tasks_, stop_>>
      /\ StopAnnounced /\ CallersCovered
  BY Parts DEF SpuriousWakeup, poolVars
<1>1. /\ pc'[t] = label /\ \A u \in Threads : u # t => pc'[u] = pc[u]
  BY GotoMoves, ThreadsDistinct DEF SpuriousWakeup, Goto, Labels
<1>2. FiniteCalls'
  BY <1>1, CallsStayFinite, ThreadsDistinct
<1>3. Waiting' \subseteq Waiting /\ WaitingDone' \subseteq WaitingDone
  BY <1>1, ThreadsDistinct DEF Waiting, WaitingDone
<1>4. StopAnnounced' /\ CallersCovered'
  BY <1>0, <1>1, <1>3, ThreadsDistinct DEF StopAnnounced, CallersCovered
<1> QED
  BY <1>0, <1>1, <1>2, <1>4, CoveredStep, ThreadsDistinct

\* A worker waits or ends only when no task is left, and takes one task
\* where it was one of those awake.
LEMMA TakeCovers ==
  ASSUME IInv, FiniteCalls, NoLostWakeup, NEW w \in Workers, Take(w)
  PROVE  FiniteCalls' /\ NoLostWakeup'
<1>0. /\ pc[w] = "loop" /\ tasks_ \in Seq(Task) /\ Len(tasks_) \in Nat /\ stop_' = stop_
      /\ active_tasks_ \in Nat /\ TasksCovered /\ StopAnnounced /\ CallersCovered
  BY Parts DEF Take, IInv, TypeOK
<1>1. PICK label \in {"waiting", "done", "run"} :
        /\ pc'[w] = label /\ \A u \in Threads : u # w => pc'[u] = pc[u]
        /\ label # "run" => tasks_ = <<>> /\ UNCHANGED <<tasks_, active_tasks_>>
        /\ label = "waiting" => ~stop_
        /\ label = "run" => /\ tasks_ # <<>> /\ tasks_' = Tail(tasks_)
                            /\ active_tasks_' = active_tasks_ + 1
  BY GotoMoves, ThreadsDistinct DEF Labels, Take
<1>2. /\ \A c \in Callers : pc'[c] = pc[c]
      /\ pc'[Owner] = pc[Owner] /\ \A u \in Workers : u # w => pc'[u] = pc[u]
  BY <1>1, ThreadsDistinct
<1>3. FiniteCalls' /\ WaitingDone' = WaitingDone /\ Notifying' = Notifying
  BY <1>2, CallsStayFinite DEF WaitingDone, Notifying
<1>4. StopAnnounced'
  BY <1>0, <1>1, <1>2 DEF StopAnnounced, Waiting
<1>5. CallersCovered'
  BY <1>0, <1>1, <1>3 DEF CallersCovered
<1>6. TasksCovered'
  <2>1. CASE label # "run"
    <3>1. Len(tasks_') = 0
      BY <1>1, <2>1
    <3> QED
      BY <1>3, <3>1, Counted1 DEF TasksCovered
  <2>2. CASE label = "run"
    <3>1. Len(tasks_') = Len(tasks_) - 1
      BY <1>0, <1>1, <2>2
    <3>2. Awake' = Awake \ {w} /\ w \in Awake /\ Waiting' = Waiting
      BY <1>0, <1>1, <1>2, <2>2 DEF Awake, Waiting
    <3>3. Cardinality(Awake') = Cardinality(Awake) - 1
      BY <3>2, Counted0, CountWithout
    <3> QED
      BY <1>0, <1>3, <3>1, <3>2, <3>3, Counted0 DEF TasksCovered
  <2> QED
    BY <2>1, <2>2
<1> QED
  BY <1>3, <1>4, <1>5, <1>6 DEF NoLostWakeup, TasksCovered, StopAnnounced, CallersCovered,
                                Awake, Notifying

LEMMA RunCovers ==
  ASSUME IInv, FiniteCalls, NoLostWakeup, NEW w \in Workers, Run(w)
  PROVE  FiniteCalls' /\ NoLostWakeup'
<1>0. /\ pc[w] = "run" /\ UNCHANGED <<tasks_, active_tasks_, stop_>>
      /\ StopAnnounced /\ CallersCovered
  BY Parts DEF Run, poolVars
<1>1. /\ pc'[w] = "finish" /\ \A u \in Threads : u # w => pc'[u] = pc[u]
  BY GotoMoves, ThreadsDistinct DEF Labels, Run
<1>2. \A c \in Callers : pc'[c] = pc[c]
  BY <1>1, ThreadsDistinct
<1>3. FiniteCalls' /\ CallersCovered'
  BY <1>0, <1>2, CallsStayFinite DEF CallersCovered, WaitingDone
<1>4. StopAnnounced'
  BY <1>0, <1>1, ThreadsDistinct DEF StopAnnounced, Waiting
<1> QED
  BY <1>0, <1>1, <1>2, <1>3, <1>4, CoveredStep, ThreadsDistinct

\* Whoever ends the last task wakes all callers, so none is left waiting for
\* an idle pool.
LEMMA FinishCovers ==
  ASSUME IInv, FiniteCalls, NoLostWakeup, NEW w \in Workers, Finish(w)
  PROVE  FiniteCalls' /\ NoLostWakeup'
<1> DEFINE idle == tasks_ = <<>> /\ active_tasks_ - 1 = 0
           woken == IF idle THEN WaitingDone ELSE {}
<1>0. /\ pc[w] = "finish" /\ UNCHANGED <<tasks_, stop_>> /\ active_tasks_' = active_tasks_ - 1
      /\ GotoWaking(w, "loop", woken) /\ StopAnnounced /\ CallersCovered
  BY Parts DEF Finish
<1>1. IInv' /\ active_tasks_' \in Nat
  <2>1. IInv'
    BY FinishStep
  <2> QED
    BY <2>1 DEF IInv, TypeOK
<1>2. \A u \in Threads : pc'[u] = IF u = w THEN "loop"
                                  ELSE IF u \notin woken THEN pc[u]
                                  ELSE IF u \in Workers THEN "loop" ELSE "wait"
  <2> HIDE DEF woken
  <2> QED
    BY <1>0 DEF GotoWaking
<1>3. \A u \in woken : u \in Callers /\ pc[u] = "waiting"
  BY DEF WaitingDone
<1>4. idle => woken = WaitingDone
  OBVIOUS
<1>5. ~idle => tasks_' # <<>> \/ active_tasks_' > 0
  <2>1. active_tasks_ \in Nat
    BY DEF IInv, TypeOK
  <2> QED
    BY <1>0, <1>1, <2>1
<1> HIDE DEF woken
<1>6. /\ \A u \in Workers : pc'[u] = pc[u] \/ (u = w /\ pc'[u] = "loop")
      /\ \A c \in Callers : pc'[c] = IF c \in woken THEN "wait" ELSE pc[c]
      /\ pc'[Owner] = pc[Owner]
  BY <1>2, <1>3, ThreadsDistinct
<1>7. FiniteCalls'
  BY <1>3, <1>6, CallsStayFinite
<1>8. StopAnnounced'
  BY <1>0, <1>6 DEF StopAnnounced, Waiting
<1>9. CallersCovered'
  <2>1. CASE idle
    <3>1. WaitingDone' = {}
      BY <1>4, <1>6, <2>1 DEF WaitingDone
    <3> QED
      BY <3>1 DEF CallersCovered
  <2>2. CASE ~idle
    BY <1>5, <2>2 DEF CallersCovered
  <2> QED
    BY <2>1, <2>2
<1>10. \A u \in Workers : /\ pc[u] = "loop" => pc'[u] = "loop"
                          /\ pc'[u] = "waiting" => pc[u] = "waiting"
  BY <1>6
<1>11. \A c \in Callers : pc[c] = "notify" => pc'[c] = "notify"
  BY <1>3, <1>6
<1> QED
  BY <1>0, <1>7, <1>8, <1>9, <1>10, <1>11, CoveredStep

\* No worker waits beside a task nobody is awake or notified to take, none
\* waits after the stop was announced, and no caller waits for an idle pool.
THEOREM NoWakeupLost == Spec => []NoLostWakeup
<1>1. Init => FiniteCalls /\ NoLostWakeup
  <2> SUFFICES ASSUME Init PROVE FiniteCalls /\ NoLostWakeup
    OBVIOUS
  <2>1. {c \in Callers : pc[c] # "idle"} = {}
    BY ThreadsDistinct DEF Init
  <2>2. Waiting = {} /\ WaitingDone = {}
    BY ThreadsDistinct DEF Init, Waiting, WaitingDone
  <2> QED
    BY <2>1, <2>2, CountEmpty DEF FiniteCalls, NoLostWakeup
<1>2. IInv /\ FiniteCalls /\ NoLostWakeup /\ [Next]_vars => FiniteCalls' /\ NoLostWakeup'
  <2> SUFFICES ASSUME IInv, FiniteCalls, NoLostWakeup, [Next]_vars
               PROVE  FiniteCalls' /\ NoLostWakeup'
    OBVIOUS
  <2>1. ASSUME NEW w \in Workers, WorkerStep(w) PROVE FiniteCalls' /\ NoLostWakeup'
    BY <2>1, TakeCovers, RunCovers, FinishCovers DEF WorkerStep
  <2>2. ASSUME NEW c \in Callers, CallStep(c) PROVE FiniteCalls' /\ NoLostWakeup'
    BY <2>2, EnqueueCovers, NotifyTaskCovers, WaitCovers DEF CallStep
  <2>3. ASSUME NEW c \in Callers, NEW r \in Ranges, Call(c, r) PROVE FiniteCalls' /\ NoLostWakeup'
    BY <2>3, CallCovers
  <2>4. ASSUME Stop \/ OwnerStep PROVE FiniteCalls' /\ NoLostWakeup'
    BY <2>4, OwnerCovers DEF OwnerStep
  <2>5. ASSUME NEW t \in Workers \cup Callers, SpuriousWakeup(t)
        PROVE  FiniteCalls' /\ NoLostWakeup'
    BY <2>5, SpuriousCovers
  <2>6. CASE UNCHANGED vars
    BY <2>6 DEF vars, poolVars, FiniteCalls, NoLostWakeup, Waiting, WaitingDone
  <2> QED
    BY <2>1, <2>2, <2>3, <2>4, <2>5, <2>6 DEF Next
<1> QED
  BY <1>1, <1>2, PoolInvariant, PTL DEF Spec

-----------------------------------------------------------------------------
(* When cpu_parallel_for returns, its function was run once for each index *)
(* of the range.  ChunksPartition is the arithmetic; what is left is that   *)
(* every chunk below the loop counter is queued, taken by one worker, or    *)
(* was run.                                                                 *)

In(t, i) == t.begin <= i /\ i < t.end

Chunk(c, j) == [caller |-> c, begin |-> ChunkBegin(call[c], j), end |-> ChunkEnd(call[c], j)]

AtRun == {w \in Workers : pc[w] = "run"}

\* The tasks still to be run.
Pending == {tasks_[k] : k \in 1..Len(tasks_)} \cup {task[w] : w \in AtRun}

\* Each is a chunk that its caller's loop has passed.
PendingAreChunks ==
  \A t \in Pending : t.caller \in Callers /\ \E j \in 0..(worker[t.caller] - 1) : t = Chunk(t.caller, j)

\* No index of a call is in two tasks.
Apart(t, u) == t.caller = u.caller => \A i \in Indices : ~(In(t, i) /\ In(u, i))

PendingApart ==
  /\ \A k, l \in 1..Len(tasks_) : k # l => Apart(tasks_[k], tasks_[l])
  /\ \A k \in 1..Len(tasks_), w \in AtRun : Apart(tasks_[k], task[w])
  /\ \A w, u \in AtRun : w # u => Apart(task[w], task[u])

\* Index i of c's call is in a chunk the loop has passed, or in a task.
Begun(c, i) == \E j \in 0..(worker[c] - 1) : In(Chunk(c, j), i)
Waits(c, i) == \E t \in Pending : t.caller = c /\ In(t, i)

\* The function was run for the indices that are begun and wait no more.
RanCounted ==
  \A c \in Callers : pc[c] # "idle" =>
    \A i \in Indices : ran[c][i] = IF Begun(c, i) /\ ~Waits(c, i) THEN 1 ELSE 0

\* A caller waits when its loop has nothing more to enqueue.
LoopEnded ==
  \A c \in Callers : pc[c] \in {"wait", "waiting"} =>
    \/ worker[c] >= WorkerCount(call[c])
    \/ ChunkBegin(call[c], worker[c]) >= ChunkEnd(call[c], worker[c])

JInv == PendingAreChunks /\ PendingApart /\ RanCounted /\ LoopEnded /\ EachIndexOnce

-----------------------------------------------------------------------------
(* The chunks of a call in progress. *)

LEMMA IndicesNat == Indices \subseteq Nat
  BY DEF Indices

LEMMA CallOpen ==
  ASSUME IInv, NEW c \in Callers, pc[c] # "idle"
  PROVE  call[c] \in Nat \X Nat /\ call[c][1] < call[c][2] /\ worker[c] \in Nat
  BY DEF IInv, TypeOK, CallsOpen

LEMMA ChunkInRange ==
  ASSUME NEW r \in Nat \X Nat, r[1] < r[2], NEW j \in Nat
  PROVE  /\ ChunkBegin(r, j) \in Nat /\ ChunkEnd(r, j) \in Nat
         /\ r[1] <= ChunkBegin(r, j) /\ ChunkEnd(r, j) <= r[2]
<1> DEFINE s == ChunkSize(r[2] - r[1], WorkerCount(r))
<1>1. WorkerCount(r) \in Nat \ {0} /\ r[2] - r[1] \in Nat \ {0}
  BY CountPositive
<1>2. s \in Nat
  BY <1>1, ChunkSizeReaches
<1>3. j * s \in Nat
  BY <1>2
<1>4. PICK m \in Nat : m = j * s
  BY <1>3
<1>5. ChunkBegin(r, j) = r[1] + m /\ ChunkEnd(r, j) = Least(r[2], r[1] + m + s)
  BY <1>4 DEF ChunkBegin, ChunkEnd
<1> HIDE DEF s
<1> QED
  BY <1>2, <1>5 DEF Least

\* An index in a chunk is in the range, and in no other chunk.
LEMMA ChunksOfCall ==
  ASSUME IInv, NEW c \in Callers, pc[c] # "idle", NEW i \in Nat,
         NEW j \in Nat, In(Chunk(c, j), i)
  PROVE  /\ i \in call[c][1]..(call[c][2] - 1)
         /\ \A k \in Nat : In(Chunk(c, k), i) => k = j
<1> DEFINE r == call[c]
<1>1. r \in Nat \X Nat /\ r[1] < r[2]
  BY CallOpen
<1>2. \A k \in Nat : In(Chunk(c, k), i) <=> (ChunkBegin(r, k) <= i /\ i < ChunkEnd(r, k))
  BY DEF In, Chunk
<1> HIDE DEF r
<1>3. i \in r[1]..(r[2] - 1)
  BY <1>1, <1>2, ChunkInRange
<1>4. \A k \in Nat : In(Chunk(c, k), i) => k = j
  BY <1>1, <1>2, <1>3, ChunksPartition
<1> QED
  BY <1>3, <1>4 DEF r

\* When the loop has nothing more to enqueue, each index of the range is begun.
LEMMA LoopReachesAll ==
  ASSUME IInv, NEW c \in Callers, pc[c] # "idle", NEW i \in call[c][1]..(call[c][2] - 1),
         \/ worker[c] >= WorkerCount(call[c])
         \/ ChunkBegin(call[c], worker[c]) >= ChunkEnd(call[c], worker[c])
  PROVE  Begun(c, i)
<1> DEFINE r == call[c]
           n == worker[c]
<1>1. r \in Nat \X Nat /\ r[1] < r[2] /\ n \in Nat
  BY CallOpen
<1>2. WorkerCount(r) \in Nat
  BY <1>1, CountPositive
<1>3. \A k \in Nat : In(Chunk(c, k), i) <=> (ChunkBegin(r, k) <= i /\ i < ChunkEnd(r, k))
  BY DEF In, Chunk
<1>4. n >= WorkerCount(r) \/ ChunkBegin(r, n) >= ChunkEnd(r, n)
  OBVIOUS
<1>5. i \in r[1]..(r[2] - 1)
  OBVIOUS
<1>6. Begun(c, i) <=> \E j \in 0..(n - 1) : In(Chunk(c, j), i)
  BY DEF Begun
<1> HIDE DEF r, n
<1>7. PICK k \in 0..(WorkerCount(r) - 1) :
           /\ \A j \in Nat : (ChunkBegin(r, j) <= i /\ i < ChunkEnd(r, j)) <=> j = k
           /\ \A j \in 0..k : ChunkBegin(r, j) < ChunkEnd(r, j)
  BY <1>1, <1>5, ChunksPartition
<1>8. k \in Nat /\ In(Chunk(c, k), i)
  BY <1>2, <1>3, <1>7
<1>9. k < n
  <2> SUFFICES ASSUME n <= k PROVE FALSE
    BY <1>1, <1>8
  <2>1. n < WorkerCount(r) /\ n \in 0..k
    BY <1>1, <1>2, <1>7
  <2>2. ChunkBegin(r, n) < ChunkEnd(r, n)
    BY <1>7, <2>1
  <2>3. ChunkBegin(r, n) \in Nat /\ ChunkEnd(r, n) \in Nat
    BY <1>1, ChunkInRange
  <2> QED
    BY <1>1, <1>2, <1>4, <2>1, <2>2, <2>3
<1> QED
  BY <1>1, <1>6, <1>8, <1>9

-----------------------------------------------------------------------------
(* Steps. *)

\* Nothing is queued, taken or run.
LEMMA CountsKept ==
  ASSUME IInv, JInv, Pending' = Pending, PendingApart', UNCHANGED callerVars,
         \A c \in Callers : pc'[c] = "idle" <=> pc[c] = "idle",
         \A c \in Callers : pc'[c] \in {"wait", "waiting"} => pc[c] \in {"wait", "waiting"}
  PROVE  JInv'
<1>1. \A c \in Callers, j \in Nat : Chunk(c, j)' = Chunk(c, j)
  BY DEF Chunk, ChunkBegin, ChunkEnd, callerVars
<1>2. \A c \in Callers, i \in Indices : Begun(c, i)' = Begun(c, i) /\ Waits(c, i)' = Waits(c, i)
  BY <1>1 DEF Begun, Waits, Chunk, callerVars, In
<1>3. PendingAreChunks'
  BY <1>1 DEF JInv, PendingAreChunks, Chunk, callerVars
<1>4. RanCounted'
  BY <1>2 DEF JInv, RanCounted, callerVars
<1>5. LoopEnded' /\ EachIndexOnce'
  BY DEF JInv, LoopEnded, EachIndexOnce, callerVars
<1> QED
  BY <1>3, <1>4, <1>5 DEF JInv

LEMMA PendingKept ==
  ASSUME JInv, UNCHANGED tasks_,
         \A w \in Workers : (pc'[w] = "run") <=> (pc[w] = "run"),
         \A w \in AtRun : task'[w] = task[w]
  PROVE  Pending' = Pending /\ PendingApart'
<1>1. AtRun' = AtRun
  BY DEF AtRun
<1>2. Pending' = Pending
  BY <1>1 DEF Pending
<1>3. PendingApart'
  BY <1>1 DEF JInv, PendingApart, Apart, In
<1> QED
  BY <1>2, <1>3

\* Notifications, wakeups, waiting, stopping: nothing the counts are about.
LEMMA CountsQuiet ==
  ASSUME IInv, JInv, UNCHANGED <<tasks_, task, callerVars>>,
         \A w \in Workers : (pc'[w] = "run") <=> (pc[w] = "run"),
         \A c \in Callers : pc'[c] = "idle" <=> pc[c] = "idle",
         \A c \in Callers : pc'[c] \in {"wait", "waiting"} => pc[c] \in {"wait", "waiting"}
  PROVE  JInv'
  BY CountsKept, PendingKept

LEMMA NotifyTaskCounts == ASSUME IInv, JInv, NEW c \in Callers, NotifyTask(c) PROVE JInv'
<1>1. PICK woken \in One(Waiting) : GotoWaking(c, "enqueue", woken)
  BY DEF NotifyTask
<1>2. woken \in SUBSET (Waiting \cup WaitingDone) /\ c \notin woken /\ pc[c] = "notify"
      /\ woken \cap Callers = {}
  BY OneWoken, <1>1, ThreadsDistinct DEF Waiting, NotifyTask
<1>3. /\ pc'[c] = "enqueue"
      /\ \A u \in Workers : u # c => pc'[u] = pc[u] \/ (pc[u] = "waiting" /\ pc'[u] = "loop")
      /\ \A u \in Callers : u # c => pc'[u] = pc[u] \/ (pc[u] = "waiting" /\ pc'[u] = "wait")
  BY <1>1, <1>2, Moves, ThreadsDistinct DEF Labels
<1> QED
  BY <1>2, <1>3, CountsQuiet, ThreadsDistinct DEF NotifyTask, poolVars

LEMMA NotifyStopCounts == ASSUME IInv, JInv, NotifyStop PROVE JInv'
<1>1. GotoWaking(Owner, "join", Waiting) /\ Owner \notin Waiting
  BY ThreadsDistinct DEF NotifyStop, Waiting
<1>2. /\ \A u \in Workers : u # Owner => pc'[u] = pc[u] \/ (pc[u] = "waiting" /\ pc'[u] = "loop")
      /\ \A u \in Callers : u # Owner => pc'[u] = pc[u] \/ (pc[u] = "waiting" /\ pc'[u] = "wait")
  BY <1>1, Moves, ThreadsDistinct DEF Labels
<1> QED
  BY <1>2, CountsQuiet, ThreadsDistinct DEF NotifyStop, poolVars

LEMMA OwnerCounts == ASSUME IInv, JInv, Stop \/ Join PROVE JInv'
<1>1. \A u \in Threads : u # Owner => pc'[u] = pc[u]
  BY GotoMoves, ThreadsDistinct DEF Stop, Join, Labels
<1> QED
  BY <1>1, CountsQuiet, ThreadsDistinct DEF Stop, Join, poolVars

LEMMA SpuriousCounts ==
  ASSUME IInv, JInv, NEW t \in Workers \cup Callers, SpuriousWakeup(t) PROVE JInv'
<1> DEFINE label == IF t \in Workers THEN "loop" ELSE "wait"
<1>1. pc'[t] = label /\ \A u \in Threads : u # t => pc'[u] = pc[u]
  BY GotoMoves, ThreadsDistinct DEF SpuriousWakeup, Goto, Labels
<1> QED
  BY <1>1, CountsQuiet, ThreadsDistinct DEF SpuriousWakeup, poolVars

LEMMA FinishCounts == ASSUME IInv, JInv, NEW w \in Workers, Finish(w) PROVE JInv'
<1> DEFINE woken == IF tasks_ = <<>> /\ active_tasks_ - 1 = 0 THEN WaitingDone ELSE {}
<1>0. /\ pc[w] = "finish" /\ GotoWaking(w, "loop", woken) /\ task \in [Workers -> Task]
      /\ task' = [task EXCEPT ![w] = NoTask] /\ UNCHANGED <<tasks_, callerVars>>
  BY DEF Finish, IInv, TypeOK
<1>1. /\ pc'[w] = "loop"
      /\ \A u \in Workers : u # w => pc'[u] = pc[u] \/ (pc[u] = "waiting" /\ pc'[u] = "loop")
      /\ \A u \in Callers : pc'[u] = pc[u] \/ (pc[u] = "waiting" /\ pc'[u] = "wait")
  <2>1. woken \in SUBSET (Waiting \cup WaitingDone) /\ w \notin woken
    BY <1>0 DEF WaitingDone
  <2> HIDE DEF woken
  <2> QED
    BY <1>0, <2>1, Moves, ThreadsDistinct DEF Labels
<1>2. /\ \A u \in Workers : (pc'[u] = "run") <=> (pc[u] = "run")
      /\ \A u \in AtRun : task'[u] = task[u]
  BY <1>0, <1>1 DEF AtRun
<1>3. Pending' = Pending /\ PendingApart'
  BY <1>0, <1>2, PendingKept
<1> QED
  BY <1>0, <1>1, <1>3, CountsKept

\* The head of the queue becomes the task of w: the pending tasks are the same.
LEMMA TakeCounts == ASSUME IInv, JInv, NEW w \in Workers, Take(w) PROVE JInv'
<1>0. /\ pc[w] = "loop" /\ tasks_ \in Seq(Task) /\ task \in [Workers -> Task]
      /\ UNCHANGED callerVars
  BY DEF IInv, TypeOK, Take
<1>1. \E label \in {"waiting", "done", "run"} :
        /\ pc'[w] = label
        /\ \A u \in Threads : u # w => pc'[u] = pc[u]
        /\ label # "run" => UNCHANGED <<tasks_, task>>
        /\ label = "run" => /\ tasks_ # <<>> /\ task' = [task EXCEPT ![w] = Head(tasks_)]
                            /\ tasks_' = Tail(tasks_)
  BY GotoMoves, ThreadsDistinct DEF Labels, Take
<1>2. CASE pc'[w] # "run"
  BY <1>0, <1>1, <1>2, CountsQuiet, ThreadsDistinct
<1>3. CASE pc'[w] = "run"
  <2>1. /\ Head(tasks_) = tasks_[1] /\ 1 \in 1..Len(tasks_) /\ Len(tasks_) \in Nat
        /\ \A k \in 1..Len(tasks_)' : k + 1 \in 1..Len(tasks_) /\ tasks_'[k] = tasks_[k + 1]
        /\ Len(tasks_)' = Len(tasks_) - 1
    <3>1. tasks_ # <<>> /\ tasks_' = Tail(tasks_)
      BY <1>1, <1>3
    <3> QED
      BY <3>1, <1>0, HeadTail
  <2>2. AtRun' = AtRun \cup {w} /\ w \notin AtRun
    BY <1>0, <1>1, <1>3, ThreadsDistinct DEF AtRun
  <2>3. task'[w] = tasks_[1] /\ \A u \in AtRun : task'[u] = task[u]
    BY <1>0, <1>1, <1>3, <2>1, <2>2 DEF AtRun
  <2>4. Pending' = Pending
    <3>1. \A k \in 1..Len(tasks_) : k = 1 \/ (k - 1 \in 1..Len(tasks_)' /\ tasks_'[k - 1] = tasks_[k])
      BY <2>1
    <3> QED
      BY <2>1, <2>2, <2>3, <3>1 DEF Pending
  <2>5. PendingApart'
    <3>0. \A t, u : Apart(t, u)' = Apart(t, u)
      BY DEF Apart, In
    <3>1. /\ \A k, l \in 1..Len(tasks_) : k # l => Apart(tasks_[k], tasks_[l])
          /\ \A k \in 1..Len(tasks_), u \in AtRun : Apart(tasks_[k], task[u])
          /\ \A v, u \in AtRun : v # u => Apart(task[v], task[u])
      BY DEF JInv, PendingApart
    <3>2. ASSUME NEW k \in 1..Len(tasks_)', NEW l \in 1..Len(tasks_)', k # l
          PROVE  Apart(tasks_'[k], tasks_'[l])
      <4>1. k + 1 # l + 1
        BY <3>2
      <4> QED
        BY <4>1, <2>1, <3>1
    <3>3. ASSUME NEW k \in 1..Len(tasks_)', NEW u \in AtRun' PROVE Apart(tasks_'[k], task'[u])
      <4>1. k + 1 # 1
        OBVIOUS
      <4> QED
        BY <4>1, <2>1, <2>2, <2>3, <3>1
    <3>4. \A t, u : Apart(t, u) => Apart(u, t)
      BY DEF Apart
    <3>5. ASSUME NEW v \in AtRun', NEW u \in AtRun', v # u PROVE Apart(task'[v], task'[u])
      BY <2>1, <2>2, <2>3, <3>1, <3>4, <3>5
    <3> QED
      BY <3>2, <3>3, <3>5 DEF PendingApart, Apart, In
  <2> QED
    BY <1>0, <1>1, <2>4, <2>5, CountsKept, ThreadsDistinct
<1> QED
  BY <1>2, <1>3

\* No task of an idle caller is left.
LEMMA IdleHasNoTask ==
  ASSUME IInv, JInv, NEW c \in Callers, pc[c] = "idle"
  PROVE  \A t \in Pending : t.caller # c
  BY DEF IInv, NoTaskOutlivesCall, Pending, AtRun

LEMMA CallCounts ==
  ASSUME IInv, JInv, NEW c \in Callers, NEW r \in Ranges, Call(c, r) PROVE JInv'
<1>0. /\ pc \in [Threads -> Labels] /\ pc[c] = "idle" /\ UNCHANGED <<tasks_, task>>
      /\ ran \in [Callers -> [Indices -> Nat]]
      /\ call \in [Callers -> Nat \X Nat] /\ worker \in [Callers -> Nat]
      /\ call' = [call EXCEPT ![c] = r] /\ worker' = [worker EXCEPT ![c] = 0]
  BY DEF IInv, TypeOK, Labels, Call, poolVars
<1>1. /\ \A u \in Threads : u # c => pc'[u] = pc[u]
      /\ pc'[c] \in {"idle", "enqueue"}
  <2>1. Goto(c, "enqueue") => /\ pc'[c] = "enqueue"
                              /\ \A u \in Threads : u # c => pc'[u] = pc[u]
    BY GotoMoves, ThreadsDistinct DEF Labels
  <2> QED
    BY <1>0, <2>1 DEF Call
<1>2. /\ \A d \in Callers : d # c => ran'[d] = ran[d]
      /\ pc'[c] = "idle" => \A i \in Indices : ran'[c][i] = IF r[1] <= i /\ i < r[2] THEN 1 ELSE 0
      /\ pc'[c] = "enqueue" => \A i \in Indices : ran'[c][i] = 0
  <2>1. Goto(c, "enqueue") => pc'[c] = "enqueue"
    BY GotoMoves, ThreadsDistinct DEF Labels
  <2> QED
    BY <1>0, <2>1 DEF Call
<1>3. Pending' = Pending /\ PendingApart'
  BY <1>0, <1>1, PendingKept, ThreadsDistinct DEF AtRun
<1>4. \A d \in Callers, j \in Nat : d # c => worker'[d] = worker[d] /\ Chunk(d, j)' = Chunk(d, j)
  BY <1>0 DEF Chunk, ChunkBegin, ChunkEnd
<1>5. PendingAreChunks'
  <2> SUFFICES ASSUME NEW t \in Pending
               PROVE  /\ t.caller \in Callers
                      /\ \E j \in 0..(worker'[t.caller] - 1) : t = Chunk(t.caller, j)'
    BY <1>3 DEF PendingAreChunks, Chunk
  <2>1. t.caller \in Callers /\ t.caller # c
    BY <1>0, IdleHasNoTask DEF JInv, PendingAreChunks
  <2>2. PICK j \in 0..(worker[t.caller] - 1) : t = Chunk(t.caller, j)
    BY DEF JInv, PendingAreChunks
  <2>3. j \in Nat
    OBVIOUS
  <2> QED
    BY <2>1, <2>2, <2>3, <1>4
<1>6. RanCounted'
  <2> SUFFICES ASSUME NEW d \in Callers, pc'[d] # "idle", NEW i \in Indices
               PROVE  ran'[d][i] = IF Begun(d, i)' /\ ~Waits(d, i)' THEN 1 ELSE 0
    BY DEF RanCounted
  <2>1. CASE d = c
    <3>1. ran'[d][i] = 0 /\ worker'[d] = 0
      BY <2>1, <1>0, <1>1, <1>2
    <3> QED
      BY <3>1 DEF Begun
  <2>2. CASE d # c
    <3>1. Begun(d, i)' = Begun(d, i)
      BY <2>2, <1>4 DEF Begun, In
    <3>2. Waits(d, i)' = Waits(d, i)
      BY <1>3 DEF Waits, In
    <3>3. ran'[d][i] = ran[d][i] /\ pc[d] # "idle"
      BY <2>2, <1>1, <1>2, ThreadsDistinct
    <3> QED
      BY <3>1, <3>2, <3>3 DEF JInv, RanCounted
  <2> QED
    BY <2>1, <2>2
<1>7. LoopEnded'
  BY <1>0, <1>1, ThreadsDistinct DEF JInv, LoopEnded, ChunkBegin, ChunkEnd
<1>8. EachIndexOnce'
  BY <1>0, <1>1, <1>2, ThreadsDistinct DEF JInv, EachIndexOnce
<1> QED
  BY <1>3, <1>5, <1>6, <1>7, <1>8 DEF JInv

\* The next chunk is apart from those before it.
LEMMA EnqueueCounts == ASSUME IInv, JInv, NEW c \in Callers, Enqueue(c) PROVE JInv'
<1> DEFINE n == worker[c]
           t == [caller |-> c, begin |-> ChunkBegin(call[c], n), end |-> ChunkEnd(call[c], n)]
<1>0. /\ pc[c] = "enqueue" /\ tasks_ \in Seq(Task) /\ worker \in [Callers -> Nat]
      /\ call[c] \in Nat \X Nat /\ call[c][1] < call[c][2]
      /\ UNCHANGED <<task, call, ran>>
  BY CallOpen DEF IInv, TypeOK, Enqueue
<1>1. \E label \in {"wait", "notify"} :
        /\ pc'[c] = label
        /\ \A u \in Threads : u # c => pc'[u] = pc[u]
        /\ label = "wait" =>
             /\ UNCHANGED <<tasks_, worker>>
             /\ ~(n < WorkerCount(call[c]) /\ ChunkBegin(call[c], n) < ChunkEnd(call[c], n))
        /\ label = "notify" => tasks_' = Append(tasks_, t) /\ worker' = [worker EXCEPT ![c] = n + 1]
  BY GotoMoves, ThreadsDistinct DEF Labels, Enqueue
<1>2. \A d \in Callers, j \in Nat : Chunk(d, j)' = Chunk(d, j)
  BY <1>0 DEF Chunk, ChunkBegin, ChunkEnd
<1>3. EachIndexOnce'
  BY <1>0, <1>1, ThreadsDistinct DEF JInv, EachIndexOnce
<1>4. AtRun' = AtRun
  BY <1>1, ThreadsDistinct DEF AtRun
<1>5. \A v, u : Apart(v, u)' = Apart(v, u)
  BY DEF Apart, In
<1>6. CASE pc'[c] = "wait"
  <2>1. Pending' = Pending /\ PendingApart' /\ worker' = worker
    BY <1>0, <1>1, <1>6, PendingKept, ThreadsDistinct DEF AtRun
  <2>2. PendingAreChunks'
    BY <2>1, <1>0 DEF JInv, PendingAreChunks, Chunk, ChunkBegin, ChunkEnd
  <2>3. RanCounted'
    BY <2>1, <1>0, <1>1, ThreadsDistinct
       DEF JInv, RanCounted, Begun, Waits, In, Chunk, ChunkBegin, ChunkEnd
  <2>4. LoopEnded'
    <3>1. WorkerCount(call[c]) \in Nat /\ n \in Nat
      BY <1>0, CountPositive
    <3>2. ChunkBegin(call[c], n) \in Nat /\ ChunkEnd(call[c], n) \in Nat
      BY <1>0, ChunkInRange
    <3>3. \/ n >= WorkerCount(call[c])
          \/ ChunkBegin(call[c], n) >= ChunkEnd(call[c], n)
      BY <1>1, <1>6, <3>1, <3>2
    <3> QED
      BY <3>3, <2>1, <1>0, <1>1, ThreadsDistinct DEF JInv, LoopEnded, ChunkBegin, ChunkEnd
  <2> QED
    BY <2>1, <2>2, <2>3, <2>4, <1>3 DEF JInv
<1>7. CASE pc'[c] = "notify"
  <2>0. /\ tasks_' = Append(tasks_, t) /\ worker' = [worker EXCEPT ![c] = n + 1]
        /\ t = Chunk(c, n) /\ t.caller = c /\ n \in Nat
    BY <1>0, <1>1, <1>7 DEF Chunk
  <2> HIDE DEF t
  <2>1. /\ Len(tasks_) \in Nat /\ Len(tasks_)' = Len(tasks_) + 1
        /\ tasks_'[Len(tasks_) + 1] = t
        /\ \A k \in 1..Len(tasks_) : tasks_'[k] = tasks_[k]
    BY <1>0, <2>0
  <2>2. Pending' = Pending \cup {t}
    <3>1. \A k \in 1..Len(tasks_)' : k \in 1..Len(tasks_) \/ k = Len(tasks_) + 1
      BY <2>1
    <3>2. \A k \in 1..Len(tasks_) : k \in 1..Len(tasks_)'
      BY <2>1
    <3>3. Len(tasks_) + 1 \in 1..Len(tasks_)'
      BY <2>1
    <3> QED
      BY <3>1, <3>2, <3>3, <2>1, <1>0, <1>4 DEF Pending
  <2>3. \A i \in Indices : Begun(c, i) => ~In(t, i)
    <3> SUFFICES ASSUME NEW i \in Indices, Begun(c, i), In(t, i) PROVE FALSE
      OBVIOUS
    <3>1. PICK j \in 0..(n - 1) : In(Chunk(c, j), i)
      BY DEF Begun
    <3>2. j \in Nat /\ j # n /\ i \in Nat
      BY <2>0, IndicesNat
    <3> QED
      BY <3>1, <3>2, <2>0, <1>0, ChunksOfCall
  <2>4. \A u \in Pending : Apart(u, t) /\ Apart(t, u)
    <3> SUFFICES ASSUME NEW u \in Pending, u.caller = c, NEW i \in Indices, In(u, i), In(t, i)
                 PROVE  FALSE
      BY <2>0 DEF Apart
    <3>1. PICK j \in 0..(worker[u.caller] - 1) : u = Chunk(u.caller, j)
      BY DEF JInv, PendingAreChunks
    <3>2. Begun(c, i)
      BY <3>1 DEF Begun
    <3> QED
      BY <3>2, <2>3
  <2>5. PendingApart'
    <3>1. ASSUME NEW k \in 1..Len(tasks_)', NEW l \in 1..Len(tasks_)', k # l
          PROVE  Apart(tasks_'[k], tasks_'[l])
      <4>1. k \in 1..Len(tasks_) \/ k = Len(tasks_) + 1
        BY <2>1
      <4>2. l \in 1..Len(tasks_) \/ l = Len(tasks_) + 1
        BY <2>1
      <4>3. \A m \in 1..Len(tasks_) : tasks_[m] \in Pending
        BY DEF Pending
      <4> QED
        BY <3>1, <4>1, <4>2, <4>3, <2>1, <2>4 DEF JInv, PendingApart
    <3>2. ASSUME NEW k \in 1..Len(tasks_)', NEW u \in AtRun PROVE Apart(tasks_'[k], task[u])
      <4>1. k \in 1..Len(tasks_) \/ k = Len(tasks_) + 1
        BY <2>1
      <4>2. task[u] \in Pending
        BY DEF Pending
      <4> QED
        BY <4>1, <4>2, <2>1, <2>4 DEF JInv, PendingApart
    <3> QED
      BY <3>1, <3>2, <1>0, <1>4 DEF JInv, PendingApart, Apart, In
  <2>6. PendingAreChunks'
    <3> SUFFICES ASSUME NEW u \in Pending \cup {t}
                 PROVE  /\ u.caller \in Callers
                        /\ \E j \in 0..(worker'[u.caller] - 1) : u = Chunk(u.caller, j)'
      BY <2>2 DEF PendingAreChunks, Chunk
    <3>1. CASE u = t
      BY <3>1, <2>0, <1>0, <1>2
    <3>2. CASE u \in Pending
      <4>1. u.caller \in Callers /\ worker'[u.caller] >= worker[u.caller]
            /\ worker[u.caller] \in Nat /\ worker'[u.caller] \in Nat
        BY <3>2, <2>0, <1>0 DEF JInv, PendingAreChunks
      <4>2. PICK j \in 0..(worker[u.caller] - 1) : u = Chunk(u.caller, j)
        BY <3>2 DEF JInv, PendingAreChunks
      <4>3. j \in Nat /\ j \in 0..(worker'[u.caller] - 1)
        BY <4>1
      <4> QED
        BY <4>1, <4>2, <4>3, <1>2
    <3> QED
      BY <3>1, <3>2
  <2>7. RanCounted'
    <3> SUFFICES ASSUME NEW d \in Callers, pc'[d] # "idle", NEW i \in Indices
                 PROVE  ran'[d][i] = IF Begun(d, i)' /\ ~Waits(d, i)' THEN 1 ELSE 0
      BY DEF RanCounted
    <3>0. ran'[d][i] = IF Begun(d, i) /\ ~Waits(d, i) THEN 1 ELSE 0
      <4>1. pc[d] # "idle" /\ ran' = ran
        BY <1>0, <1>1, ThreadsDistinct
      <4> QED
        BY <4>1 DEF JInv, RanCounted
    <3>1. Waits(d, i)' <=> Waits(d, i) \/ (d = c /\ In(t, i))
      BY <2>0, <2>2 DEF Waits, In
    <3>2. Begun(d, i)' <=> Begun(d, i) \/ (d = c /\ In(t, i))
      <4>1. CASE d # c
        BY <4>1, <2>0, <1>2 DEF Begun, In
      <4>2. CASE d = c
        <5>1. \A j : j \in 0..(worker'[c] - 1) <=> j \in 0..(n - 1) \/ j = n
          BY <2>0, <1>0
        <5>2. Begun(c, i)' <=> \E j \in 0..(worker'[c] - 1) : In(Chunk(c, j), i)
          BY <1>2 DEF Begun, In
        <5> QED
          BY <4>2, <5>1, <5>2, <2>0 DEF Begun
      <4> QED
        BY <4>1, <4>2
    <3> QED
      BY <3>0, <3>1, <3>2, <2>3
  <2>8. LoopEnded'
    BY <2>0, <1>0, <1>1, <1>7, ThreadsDistinct DEF JInv, LoopEnded, ChunkBegin, ChunkEnd
  <2> QED
    BY <2>5, <2>6, <2>7, <2>8, <1>3 DEF JInv
<1> QED
  BY <1>1, <1>6, <1>7

\* w runs its task: no other task has one of its indices.
LEMMA RunCounts == ASSUME IInv, JInv, NEW w \in Workers, Run(w) PROVE JInv'
<1> DEFINE t == task[w]
           c == task[w].caller
<1>0. /\ pc[w] = "run" /\ w \in AtRun /\ t \in Pending
      /\ UNCHANGED <<tasks_, task, call, worker>>
      /\ ran \in [Callers -> [Indices -> Nat]]
      /\ c \in Callers /\ pc[c] # "idle"
      /\ \A i \in Indices : In(t, i) => Begun(c, i)
  <2>1. /\ pc[w] = "run" /\ w \in AtRun /\ t \in Pending
    BY DEF Run, AtRun, Pending
  <2>2. PICK j \in 0..(worker[c] - 1) : t = Chunk(c, j)
    BY <2>1 DEF JInv, PendingAreChunks
  <2>3. \A i \in Indices : In(t, i) => Begun(c, i)
    BY <2>2 DEF Begun
  <2> QED
    BY <2>1, <2>3 DEF Run, poolVars, IInv, TypeOK, NoTaskOutlivesCall
<1>1. pc'[w] = "finish" /\ \A u \in Threads : u # w => pc'[u] = pc[u]
  BY GotoMoves, ThreadsDistinct DEF Labels, Run
<1>2. /\ \A d \in Callers : d # c => ran'[d] = ran[d]
      /\ \A i \in Indices : ran'[c][i] = IF In(t, i) THEN ran[c][i] + 1 ELSE ran[c][i]
  <2>1. ran' = [ran EXCEPT ![c] = [i \in Indices |-> IF In(t, i) THEN ran[c][i] + 1 ELSE ran[c][i]]]
    BY <1>0 DEF Run, Counted, In
  <2> QED
    BY <2>1, <1>0
<1>3. AtRun' = AtRun \ {w}
  BY <1>1, ThreadsDistinct DEF AtRun
<1>4. Pending' \subseteq Pending /\ Pending \subseteq Pending' \cup {t}
  BY <1>0, <1>3 DEF Pending
<1>5. PendingApart'
  BY <1>0, <1>3 DEF JInv, PendingApart, Apart, In
<1>6. \A u \in Pending' : Apart(u, t)
  <2>1. ASSUME NEW k \in 1..Len(tasks_) PROVE Apart(tasks_[k], t)
    BY <1>0 DEF JInv, PendingApart
  <2>2. ASSUME NEW v \in AtRun, v # w PROVE Apart(task[v], t)
    BY <2>2, <1>0 DEF JInv, PendingApart
  <2> HIDE DEF t
  <2> QED
    BY <2>1, <2>2, <1>0, <1>3 DEF Pending
<1>7. \A d \in Callers, j \in Nat : Chunk(d, j)' = Chunk(d, j)
  BY <1>0 DEF Chunk, ChunkBegin, ChunkEnd
<1>8. PendingAreChunks'
  <2> SUFFICES ASSUME NEW u \in Pending
               PROVE  /\ u.caller \in Callers
                      /\ \E j \in 0..(worker'[u.caller] - 1) : u = Chunk(u.caller, j)'
    BY <1>4 DEF PendingAreChunks, Chunk
  <2>1. PICK j \in 0..(worker[u.caller] - 1) : u = Chunk(u.caller, j)
    BY DEF JInv, PendingAreChunks
  <2>2. j \in Nat /\ u.caller \in Callers
    BY DEF JInv, PendingAreChunks
  <2> QED
    BY <2>1, <2>2, <1>0, <1>7
<1>9. RanCounted'
  <2> SUFFICES ASSUME NEW d \in Callers, pc'[d] # "idle", NEW i \in Indices
               PROVE  ran'[d][i] = IF Begun(d, i)' /\ ~Waits(d, i)' THEN 1 ELSE 0
    BY DEF RanCounted
  <2>0. ran[d][i] = IF Begun(d, i) /\ ~Waits(d, i) THEN 1 ELSE 0
    <3>1. pc[d] # "idle"
      BY <1>1, ThreadsDistinct
    <3> QED
      BY <3>1 DEF JInv, RanCounted
  <2>1. Begun(d, i)' <=> Begun(d, i)
    BY <1>0, <1>7 DEF Begun, In
  <2>2. CASE d = c /\ In(t, i)
    <3>1. ~Waits(d, i)'
      BY <2>2, <1>6 DEF Waits, Apart, In
    <3>2. Waits(d, i) /\ Begun(d, i)
      BY <2>2, <1>0 DEF Waits
    <3> QED
      BY <3>1, <3>2, <2>0, <2>1, <2>2, <1>2
  <2>3. CASE ~(d = c /\ In(t, i))
    <3>1. Waits(d, i)' <=> Waits(d, i)
      BY <2>3, <1>4 DEF Waits, In
    <3>2. ran'[d][i] = ran[d][i]
      BY <2>3, <1>2
    <3> QED
      BY <3>1, <3>2, <2>0, <2>1
  <2> QED
    BY <2>2, <2>3
<1>10. LoopEnded'
  BY <1>0, <1>1, ThreadsDistinct DEF JInv, LoopEnded, ChunkBegin, ChunkEnd
<1>11. EachIndexOnce'
  <2>1. \A d \in Callers : pc'[d] = "idle" => pc[d] = "idle" /\ ran'[d] = ran[d]
    BY <1>0, <1>1, <1>2, ThreadsDistinct
  <2> QED
    BY <2>1, <1>0 DEF JInv, EachIndexOnce
<1> QED
  BY <1>5, <1>8, <1>9, <1>10, <1>11 DEF JInv

\* The call returns with no task left: what is begun was run, and that is the
\* whole range.
LEMMA WaitCounts == ASSUME IInv, JInv, NEW c \in Callers, Wait(c) PROVE JInv'
<1>0. UNCHANGED <<tasks_, task, callerVars>> /\ pc[c] = "wait"
  BY DEF Wait, poolVars
<1>1. \E label \in {"idle", "waiting"} :
        /\ label = "idle" => tasks_ = <<>> /\ active_tasks_ = 0
        /\ pc'[c] = label
        /\ \A u \in Threads : u # c => pc'[u] = pc[u]
  BY GotoMoves, ThreadsDistinct DEF Labels, Wait
<1>2. CASE pc'[c] = "waiting"
  BY <1>0, <1>1, <1>2, CountsQuiet, ThreadsDistinct
<1>3. CASE pc'[c] = "idle"
  <2>1. Pending' = Pending /\ PendingApart'
    BY <1>0, <1>1, PendingKept, ThreadsDistinct DEF AtRun
  <2>2. Pending = {}
    BY <1>1, <1>3, NobodyRuns DEF Pending, AtRun
  <2>3. \A i \in Indices : ran[c][i] = IF call[c][1] <= i /\ i < call[c][2] THEN 1 ELSE 0
    <3> SUFFICES ASSUME NEW i \in Indices
                 PROVE  ran[c][i] = IF call[c][1] <= i /\ i < call[c][2] THEN 1 ELSE 0
      OBVIOUS
    <3>1. ran[c][i] = IF Begun(c, i) THEN 1 ELSE 0
      BY <1>0, <2>2 DEF JInv, RanCounted, Waits
    <3>2. i \in Nat /\ call[c] \in Nat \X Nat /\ worker[c] \in Nat
      BY <1>0, CallOpen, IndicesNat
    <3>3. i \in call[c][1]..(call[c][2] - 1) <=> (call[c][1] <= i /\ i < call[c][2])
      BY <3>2
    <3>4. Begun(c, i) => i \in call[c][1]..(call[c][2] - 1)
      <4> SUFFICES ASSUME NEW j \in 0..(worker[c] - 1), In(Chunk(c, j), i)
                   PROVE  i \in call[c][1]..(call[c][2] - 1)
        BY DEF Begun
      <4>1. j \in Nat
        OBVIOUS
      <4> QED
        BY <4>1, <3>2, <1>0, ChunksOfCall
    <3>5. i \in call[c][1]..(call[c][2] - 1) => Begun(c, i)
      BY <1>0, LoopReachesAll DEF JInv, LoopEnded
    <3> QED
      BY <3>1, <3>3, <3>4, <3>5
  <2>4. EachIndexOnce'
    BY <2>3, <1>0, <1>1, ThreadsDistinct DEF JInv, EachIndexOnce, callerVars
  <2>5. PendingAreChunks'
    BY <2>1, <2>2 DEF PendingAreChunks
  <2>6. RanCounted'
    <3>1. \A d \in Callers : pc'[d] # "idle" => pc[d] # "idle"
      BY <1>0, <1>1, <1>3, ThreadsDistinct
    <3> QED
      BY <3>1, <2>1, <1>0
         DEF JInv, RanCounted, Begun, Waits, In, Chunk, ChunkBegin, ChunkEnd, callerVars
  <2>7. LoopEnded'
    BY <1>0, <1>1, <1>3, ThreadsDistinct DEF JInv, LoopEnded, ChunkBegin, ChunkEnd, callerVars
  <2> QED
    BY <2>1, <2>4, <2>5, <2>6, <2>7 DEF JInv
<1> QED
  BY <1>1, <1>2, <1>3

LEMMA InitCounts == Init => JInv
<1> SUFFICES ASSUME Init PROVE JInv
  OBVIOUS
<1>1. Pending = {} /\ AtRun = {} /\ Len(tasks_) = 0
  BY ThreadsDistinct DEF Init, Pending, AtRun
<1>2. \A c \in Callers : pc[c] = "idle" /\ call[c] = <<0, 0>> /\ \A i \in Indices : ran[c][i] = 0
  BY ThreadsDistinct DEF Init
<1>3. PendingAreChunks /\ PendingApart
  BY <1>1 DEF PendingAreChunks, PendingApart
<1>4. RanCounted /\ LoopEnded
  BY <1>2 DEF RanCounted, LoopEnded
<1>5. EachIndexOnce
  BY <1>2, IndicesNat DEF EachIndexOnce
<1> QED
  BY <1>3, <1>4, <1>5 DEF JInv

\* When cpu_parallel_for returns, its function was run once for each index of
\* its range and for no other, for any number of workers, callers and ranges.
THEOREM IndicesRunOnce == Spec => []EachIndexOnce
<1>1. IInv /\ JInv /\ [Next]_vars => JInv'
  <2> SUFFICES ASSUME IInv, JInv, [Next]_vars PROVE JInv'
    OBVIOUS
  <2>1. ASSUME NEW w \in Workers, WorkerStep(w) PROVE JInv'
    BY <2>1, TakeCounts, RunCounts, FinishCounts DEF WorkerStep
  <2>2. ASSUME NEW c \in Callers, CallStep(c) PROVE JInv'
    BY <2>2, EnqueueCounts, NotifyTaskCounts, WaitCounts DEF CallStep
  <2>3. ASSUME NEW c \in Callers, NEW r \in Ranges, Call(c, r) PROVE JInv'
    BY <2>3, CallCounts
  <2>4. ASSUME Stop \/ OwnerStep PROVE JInv'
    BY <2>4, OwnerCounts, NotifyStopCounts DEF OwnerStep
  <2>5. ASSUME NEW t \in Workers \cup Callers, SpuriousWakeup(t) PROVE JInv'
    BY <2>5, SpuriousCounts
  <2>6. CASE UNCHANGED vars
    BY <2>6, CountsQuiet DEF vars, poolVars
  <2> QED
    BY <2>1, <2>2, <2>3, <2>4, <2>5, <2>6 DEF Next
<1>2. JInv => EachIndexOnce
  BY DEF JInv
<1> QED
  BY InitCounts, <1>1, <1>2, PoolInvariant, PTL DEF Spec

=============================================================================
