--------------------------- MODULE CpuThreadPool ---------------------------
(***************************************************************************)
(* kl::CpuThreadPool and cpu_parallel_for: threads that call               *)
(* cpu_parallel_for split their range into chunks, enqueue one task a      *)
(* chunk and wait until the pool is idle; the pool's workers take tasks    *)
(* and run them; the owner destroys the pool when nobody uses it.          *)
(*                                                                         *)
(* A critical section of mutex_ is one action.  The notifications that the *)
(* code sends after the unlock are steps of their own, and a thread waiting*)
(* on a condition variable runs on when it is notified or for no reason.   *)
(* A task of cpu_parallel_for holds a reference to the caller's function,  *)
(* which is gone when the call is.                                         *)
(***************************************************************************)
EXTENDS Integers, Sequences, FiniteSets

CONSTANTS
  Workers,   \* workers_
  Callers,   \* threads that call cpu_parallel_for
  Owner,     \* the thread that runs the static pool's destructor
  Ranges,    \* BOUND: the <<begin, end>> they call it with
  MaxCalls   \* BOUND: calls of each caller

ASSUME PoolAssumption ==
  /\ IsFiniteSet(Workers) /\ Workers # {}
  /\ Workers \cap Callers = {} /\ Owner \notin Workers \cup Callers
  /\ Ranges \subseteq Nat \X Nat
  /\ MaxCalls \in Nat

VARIABLES
  tasks_, active_tasks_, stop_,
  pc,      \* where each thread is
  task,    \* the task each worker has taken
  call,    \* the range of each caller's current or last call
  worker,  \* its loop counter over the chunks
  ran,     \* how often its function was run for each index
  calls    \* how many calls it made

poolVars   == <<tasks_, active_tasks_, stop_>>
callerVars == <<call, worker, ran, calls>>
vars == <<poolVars, callerVars, pc, task>>

-----------------------------------------------------------------------------
(* The arithmetic of cpu_parallel_for. *)

Least(a, b) == IF a <= b THEN a ELSE b

WorkerCount(r) == Least(Cardinality(Workers), r[2] - r[1])

\* Mutant: the division rounds down.
ChunkSizeDown(n, count) == n \div count

ChunkSize(n, count) == (n + count - 1) \div count

\* Chunk i of range r; an empty one ends the loop.
ChunkBegin(r, i) == r[1] + i * ChunkSize(r[2] - r[1], WorkerCount(r))
ChunkEnd(r, i)   == Least(r[2], ChunkBegin(r, i) + ChunkSize(r[2] - r[1], WorkerCount(r)))

Indices == UNION {r[1]..(r[2] - 1) : r \in Ranges}

\* The function is called for the indices from b up to, but excluding, e.
Counted(c, b, e) ==
  ran' = [ran EXCEPT ![c] = [i \in Indices |-> IF b <= i /\ i < e THEN @[i] + 1 ELSE @[i]]]

NoTask == [caller |-> Owner, begin |-> 0, end |-> 0]

-----------------------------------------------------------------------------
(* Condition variables. *)

Threads     == Workers \cup Callers \cup {Owner}
Waiting     == {w \in Workers : pc[w] = "waiting"}   \* on task_cv_
WaitingDone == {c \in Callers : pc[c] = "waiting"}   \* on done_cv_

\* Thread t goes on at label and the threads in woken test their predicate.
GotoWaking(t, label, woken) ==
  pc' = [u \in Threads |-> IF u = t THEN label
                           ELSE IF u \notin woken THEN pc[u]
                           ELSE IF u \in Workers THEN "loop" ELSE "wait"]

Goto(t, label) == GotoWaking(t, label, {})

\* Whom notify_one may wake: nobody only if nobody waits.
One(S) == IF S = {} THEN {{}} ELSE {{t} : t \in S}

-----------------------------------------------------------------------------
(* cpu_parallel_for *)

\* An empty range returns at once, and a single chunk is run by the caller.
Call(c, r) ==
  /\ pc[c] = "idle" /\ pc[Owner] = "running" /\ calls[c] < MaxCalls
  /\ calls' = [calls EXCEPT ![c] = @ + 1]
  /\ call' = [call EXCEPT ![c] = r] /\ worker' = [worker EXCEPT ![c] = 0]
  /\ \/ /\ r[1] >= r[2] \/ WorkerCount(r) <= 1
        /\ ran' = [ran EXCEPT ![c] = [i \in Indices |-> IF r[1] <= i /\ i < r[2] THEN 1 ELSE 0]]
        /\ UNCHANGED pc
     \/ /\ r[1] < r[2] /\ WorkerCount(r) > 1
        /\ ran' = [ran EXCEPT ![c] = [i \in Indices |-> 0]]
        /\ Goto(c, "enqueue")
  /\ UNCHANGED <<poolVars, task>>

\* enqueue of the next chunk; the loop ends after worker_count chunks or at
\* an empty one.
Enqueue(c) ==
  LET r == call[c]
      i == worker[c]
      more == i < WorkerCount(r) /\ ChunkBegin(r, i) < ChunkEnd(r, i)
  IN
  /\ pc[c] = "enqueue"
  /\ \/ /\ ~more
        /\ Goto(c, "wait") /\ UNCHANGED <<tasks_, worker>>
     \/ /\ more /\ ~stop_
        /\ tasks_' = Append(tasks_, [caller |-> c, begin |-> ChunkBegin(r, i), end |-> ChunkEnd(r, i)])
        /\ worker' = [worker EXCEPT ![c] = i + 1]
        /\ Goto(c, "notify")
  /\ UNCHANGED <<active_tasks_, stop_, task, call, ran, calls>>

\* Mutant: a worker is woken for the first queued task only.
NotifyTaskIfFirst(c) ==
  /\ pc[c] = "notify"
  /\ \E woken \in IF Len(tasks_) = 1 THEN One(Waiting) ELSE {{}} : GotoWaking(c, "enqueue", woken)
  /\ UNCHANGED <<poolVars, task, callerVars>>

\* task_cv_.notify_one(), after the unlock.
NotifyTask(c) ==
  /\ pc[c] = "notify"
  /\ \E woken \in One(Waiting) : GotoWaking(c, "enqueue", woken)
  /\ UNCHANGED <<poolVars, task, callerVars>>

\* Mutant: the tasks that are being run are forgotten.
WaitForQueueOnly(c) ==
  /\ pc[c] = "wait"
  /\ Goto(c, IF tasks_ = <<>> THEN "idle" ELSE "waiting")
  /\ UNCHANGED <<poolVars, task, callerVars>>

\* wait: the whole pool must be idle.
Wait(c) ==
  /\ pc[c] = "wait"
  /\ Goto(c, IF tasks_ = <<>> /\ active_tasks_ = 0 THEN "idle" ELSE "waiting")
  /\ UNCHANGED <<poolVars, task, callerVars>>

-----------------------------------------------------------------------------
(* CpuThreadPool::worker_loop *)

\* The predicate under the lock: a stopped worker first drains the queue.
Take(w) ==
  /\ pc[w] = "loop"
  /\ \/ /\ ~stop_ /\ tasks_ = <<>>
        /\ Goto(w, "waiting") /\ UNCHANGED <<tasks_, active_tasks_, task>>
     \/ /\ stop_ /\ tasks_ = <<>>
        /\ Goto(w, "done") /\ UNCHANGED <<tasks_, active_tasks_, task>>
     \/ /\ tasks_ # <<>>
        /\ task' = [task EXCEPT ![w] = Head(tasks_)]
        /\ tasks_' = Tail(tasks_) /\ active_tasks_' = active_tasks_ + 1
        /\ Goto(w, "run")
  /\ UNCHANGED <<stop_, callerVars>>

\* task()
Run(w) ==
  /\ pc[w] = "run"
  /\ Counted(task[w].caller, task[w].begin, task[w].end)
  /\ Goto(w, "finish")
  /\ UNCHANGED <<poolVars, task, call, worker, calls>>

\* Mutant: one waiting caller is notified.
FinishOne(w) ==
  /\ pc[w] = "finish"
  /\ active_tasks_' = active_tasks_ - 1
  /\ \E woken \in IF tasks_ = <<>> /\ active_tasks_ - 1 = 0 THEN One(WaitingDone) ELSE {{}} :
       GotoWaking(w, "loop", woken)
  /\ task' = [task EXCEPT ![w] = NoTask]
  /\ UNCHANGED <<tasks_, stop_, callerVars>>

\* The last task to end notifies every waiting caller, under the lock.
Finish(w) ==
  /\ pc[w] = "finish"
  /\ active_tasks_' = active_tasks_ - 1
  /\ GotoWaking(w, "loop", IF tasks_ = <<>> /\ active_tasks_ - 1 = 0 THEN WaitingDone ELSE {})
  /\ task' = [task EXCEPT ![w] = NoTask]
  /\ UNCHANGED <<tasks_, stop_, callerVars>>

-----------------------------------------------------------------------------
(* CpuThreadPool::~CpuThreadPool *)

\* The pool is destroyed when the program ends and no call is in progress.
Stop ==
  /\ pc[Owner] = "running" /\ \A c \in Callers : pc[c] = "idle"
  /\ stop_' = TRUE
  /\ Goto(Owner, "notify")
  /\ UNCHANGED <<tasks_, active_tasks_, task, callerVars>>

\* Mutant: one worker is told to stop.
NotifyStopOne ==
  /\ pc[Owner] = "notify"
  /\ \E woken \in One(Waiting) : GotoWaking(Owner, "join", woken)
  /\ UNCHANGED <<poolVars, task, callerVars>>

NotifyStop ==
  /\ pc[Owner] = "notify"
  /\ GotoWaking(Owner, "join", Waiting)
  /\ UNCHANGED <<poolVars, task, callerVars>>

Join ==
  /\ pc[Owner] = "join" /\ \A w \in Workers : pc[w] = "done"
  /\ Goto(Owner, "destroyed")
  /\ UNCHANGED <<poolVars, task, callerVars>>

-----------------------------------------------------------------------------
\* A condition variable may wake a thread for no reason.
SpuriousWakeup(t) ==
  /\ pc[t] = "waiting"
  /\ GotoWaking(t, IF t \in Workers THEN "loop" ELSE "wait", {})
  /\ UNCHANGED <<poolVars, task, callerVars>>

Init ==
  /\ tasks_ = <<>> /\ active_tasks_ = 0 /\ stop_ = FALSE
  /\ pc = [t \in Threads |-> IF t \in Workers THEN "loop"
                             ELSE IF t \in Callers THEN "idle" ELSE "running"]
  /\ task = [w \in Workers |-> NoTask]
  /\ call = [c \in Callers |-> <<0, 0>>] /\ worker = [c \in Callers |-> 0]
  /\ ran = [c \in Callers |-> [i \in Indices |-> 0]]
  /\ calls = [c \in Callers |-> 0]

WorkerStep(w) == Take(w) \/ Run(w) \/ Finish(w)
CallStep(c)   == Enqueue(c) \/ NotifyTask(c) \/ Wait(c)
OwnerStep     == NotifyStop \/ Join

Next ==
  \/ \E w \in Workers : WorkerStep(w)
  \/ \E c \in Callers : CallStep(c) \/ \E r \in Ranges : Call(c, r)
  \/ Stop \/ OwnerStep
  \/ \E t \in Workers \cup Callers : SpuriousWakeup(t)

Spec == Init /\ [][Next]_vars

\* A thread that can run does; nobody has to call or to destroy the pool.
Fairness ==
  /\ \A w \in Workers : WF_vars(WorkerStep(w))
  /\ \A c \in Callers : WF_vars(CallStep(c))
  /\ WF_vars(OwnerStep)

FairSpec == Spec /\ Fairness

-----------------------------------------------------------------------------
(* Properties. *)

Task == [caller : Callers \cup {Owner}, begin : Nat, end : Nat]

\* Types of the variables.
TypeOK ==
  /\ tasks_ \in Seq(Task) /\ active_tasks_ \in Nat /\ stop_ \in BOOLEAN
  /\ pc \in [Threads -> {"loop", "waiting", "run", "finish", "done", "idle", "enqueue",
                         "notify", "wait", "running", "join", "destroyed"}]
  /\ task \in [Workers -> Task]
  /\ call \in [Callers -> Nat \X Nat] /\ worker \in [Callers -> Nat]
  /\ ran \in [Callers -> [Indices -> Nat]] /\ calls \in [Callers -> Nat]

\* No task outlives the call that enqueued it: while one is queued or being
\* run, its caller is inside cpu_parallel_for and the function it refers to
\* exists, although wait knows nothing of whose tasks it waits for.
NoTaskOutlivesCall ==
  /\ \A k \in 1..Len(tasks_) :
       tasks_[k].caller \in Callers /\ pc[tasks_[k].caller] # "idle"
  /\ \A w \in Workers : pc[w] \in {"run", "finish"} =>
       task[w].caller \in Callers /\ pc[task[w].caller] # "idle"

\* When cpu_parallel_for returns, its function was run once for each index of
\* the range and for no other, whatever the chunks and whoever ran them.
EachIndexOnce ==
  \A c \in Callers : pc[c] = "idle" =>
    \A i \in Indices : ran[c][i] = IF call[c][1] <= i /\ i < call[c][2] THEN 1 ELSE 0

\* No wakeup is lost: workers wait beside queued tasks only if as many others
\* are awake, or about to be notified, to take them; none waits after the
\* stop was announced; and no caller waits for a pool that is idle.
NoLostWakeup ==
  /\ Waiting # {} =>
       /\ Len(tasks_) <= Cardinality({w \in Workers : pc[w] = "loop"})
                         + Cardinality({c \in Callers : pc[c] = "notify"})
       /\ stop_ => pc[Owner] = "notify"
  /\ WaitingDone # {} => tasks_ # <<>> \/ active_tasks_ > 0

\* Every call of cpu_parallel_for returns, although each waits for the tasks
\* of all: the callers stop calling at some time (MaxCalls).
CallsReturn == \A c \in Callers : (pc[c] # "idle") ~> (pc[c] = "idle")

\* The destructor joins every worker.
DestructorReturns == (pc[Owner] = "notify") ~> (pc[Owner] = "destroyed")

=============================================================================
