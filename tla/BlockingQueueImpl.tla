-------------------------- MODULE BlockingQueueImpl --------------------------
(***************************************************************************)
(* kl::BlockingQueue as it is written: one mutex, two condition variables  *)
(* and predicate waits.  The mutex is held throughout a step and released  *)
(* by waiting, so a step runs from one release of the mutex to the next.   *)
(* clear and close notify after they released it, in steps of their own.   *)
(***************************************************************************)
EXTENDS Naturals, Sequences, FiniteSets

CONSTANTS Threads, Values, Capacity, Nothing

ASSUME CapacityAssumption == Capacity \in Nat \ {0}
ASSUME NothingAssumption == Nothing \notin Values

VARIABLES
  queue_, closed_,
  pc,        \* where each thread is; "on_push_cv" and "on_pop_cv" are the wait sets
  arg, result

vars == <<queue_, closed_, pc, arg, result>>

Labels == {"idle", "push", "on_push_cv", "pop", "on_pop_cv", "clear", "clear_notify",
           "close", "close_notify_push", "close_notify_pop"}

TypeOK ==
  /\ queue_ \in Seq(Values) /\ closed_ \in BOOLEAN
  /\ pc \in [Threads -> Labels]
  /\ arg \in [Threads -> Values \cup {Nothing}]
  /\ result \in [Threads -> Values \cup {Nothing, "true", "false"}]
  /\ \A t \in Threads : pc[t] \in {"push", "on_push_cv"} => arg[t] \in Values

Init ==
  /\ queue_ = <<>> /\ closed_ = FALSE
  /\ pc = [t \in Threads |-> "idle"]
  /\ arg = [t \in Threads |-> Nothing] /\ result = [t \in Threads |-> Nothing]

-----------------------------------------------------------------------------
Waiting(cv) == {t \in Threads : pc[t] = cv}

\* Thread t goes on to a label while the threads in woken leave their wait
\* set to evaluate their predicate again.
GotoWaking(t, label, woken) ==
  pc' = [u \in Threads |->
          IF u = t THEN label
          ELSE IF u \in woken /\ pc[u] = "on_push_cv" THEN "push"
          ELSE IF u \in woken /\ pc[u] = "on_pop_cv" THEN "pop"
          ELSE pc[u]]

\* The sets of threads that notify_one may wake.
OneOf(waiting) == IF waiting = {} THEN {{}} ELSE {{u} : u \in waiting}

Finish(t, r) ==
  /\ arg' = [arg EXCEPT ![t] = Nothing]
  /\ result' = [result EXCEPT ![t] = r]

Invoke(t) ==
  /\ pc[t] = "idle"
  /\ \/ \E m \in {"pop", "clear", "close"} : GotoWaking(t, m, {}) /\ UNCHANGED arg
     \/ \E v \in Values : GotoWaking(t, "push", {}) /\ arg' = [arg EXCEPT ![t] = v]
  /\ UNCHANGED <<queue_, closed_, result>>

-----------------------------------------------------------------------------
\* Mutant: the predicate allows one value more than the capacity.
PushOneTooMany(t) ==
  /\ pc[t] = "push"
  /\ \/ /\ ~closed_ /\ Len(queue_) > Capacity
        /\ GotoWaking(t, "on_push_cv", {}) /\ UNCHANGED <<queue_, arg, result>>
     \/ /\ closed_
        /\ GotoWaking(t, "idle", {}) /\ Finish(t, "false") /\ UNCHANGED queue_
     \/ /\ ~closed_ /\ Len(queue_) <= Capacity
        /\ queue_' = Append(queue_, arg[t])
        /\ \E woken \in OneOf(Waiting("on_pop_cv")) : GotoWaking(t, "idle", woken)
        /\ Finish(t, "true")
  /\ UNCHANGED closed_

\* Mutant: close does not make push return.
PushIgnoringClose(t) ==
  /\ pc[t] = "push"
  /\ \/ /\ Len(queue_) >= Capacity
        /\ GotoWaking(t, "on_push_cv", {}) /\ UNCHANGED <<queue_, arg, result>>
     \/ /\ Len(queue_) < Capacity
        /\ queue_' = Append(queue_, arg[t])
        /\ \E woken \in OneOf(Waiting("on_pop_cv")) : GotoWaking(t, "idle", woken)
        /\ Finish(t, "true")
  /\ UNCHANGED closed_

\* push: evaluates the predicate, then waits, is refused or queues the value.
Push(t) ==
  /\ pc[t] = "push"
  /\ \/ /\ ~closed_ /\ Len(queue_) >= Capacity
        /\ GotoWaking(t, "on_push_cv", {}) /\ UNCHANGED <<queue_, arg, result>>
     \/ /\ closed_
        /\ GotoWaking(t, "idle", {}) /\ Finish(t, "false") /\ UNCHANGED queue_
     \/ /\ ~closed_ /\ Len(queue_) < Capacity
        /\ queue_' = Append(queue_, arg[t])
        /\ \E woken \in OneOf(Waiting("on_pop_cv")) : GotoWaking(t, "idle", woken)
        /\ Finish(t, "true")
  /\ UNCHANGED closed_

\* pop: evaluates the predicate, then waits, returns nothing or the front.
Pop(t) ==
  /\ pc[t] = "pop"
  /\ \/ /\ ~closed_ /\ queue_ = <<>>
        /\ GotoWaking(t, "on_pop_cv", {}) /\ UNCHANGED <<queue_, arg, result>>
     \/ /\ closed_ /\ queue_ = <<>>
        /\ GotoWaking(t, "idle", {}) /\ Finish(t, Nothing) /\ UNCHANGED queue_
     \/ /\ queue_ # <<>>
        /\ queue_' = Tail(queue_)
        /\ \E woken \in OneOf(Waiting("on_push_cv")) : GotoWaking(t, "idle", woken)
        /\ Finish(t, Head(queue_))
  /\ UNCHANGED closed_

ClearLocked(t) ==
  /\ pc[t] = "clear"
  /\ queue_' = <<>>
  /\ GotoWaking(t, "clear_notify", {}) /\ Finish(t, Nothing) /\ UNCHANGED closed_

CloseLocked(t) ==
  /\ pc[t] = "close"
  /\ closed_' = TRUE
  /\ GotoWaking(t, "close_notify_push", {}) /\ Finish(t, Nothing) /\ UNCHANGED queue_

\* Mutant: clear, which may free several places, wakes one pusher only.
NotifyAllButClear(t) ==
  /\ \/ /\ pc[t] = "clear_notify"
        /\ \E woken \in OneOf(Waiting("on_push_cv")) : GotoWaking(t, "idle", woken)
     \/ pc[t] = "close_notify_push" /\ GotoWaking(t, "close_notify_pop", Waiting("on_push_cv"))
     \/ pc[t] = "close_notify_pop" /\ GotoWaking(t, "idle", Waiting("on_pop_cv"))
  /\ UNCHANGED <<queue_, closed_, arg, result>>

\* The notify_all calls that end clear and close.
NotifyAll(t) ==
  /\ \/ pc[t] = "clear_notify" /\ GotoWaking(t, "idle", Waiting("on_push_cv"))
     \/ pc[t] = "close_notify_push" /\ GotoWaking(t, "close_notify_pop", Waiting("on_push_cv"))
     \/ pc[t] = "close_notify_pop" /\ GotoWaking(t, "idle", Waiting("on_pop_cv"))
  /\ UNCHANGED <<queue_, closed_, arg, result>>

\* A condition variable may wake a thread for no reason.
SpuriousWakeup(t) ==
  /\ \/ pc[t] = "on_push_cv" /\ GotoWaking(t, "push", {})
     \/ pc[t] = "on_pop_cv" /\ GotoWaking(t, "pop", {})
  /\ UNCHANGED <<queue_, closed_, arg, result>>

Step(t) == Push(t) \/ Pop(t) \/ ClearLocked(t) \/ CloseLocked(t) \/ NotifyAll(t)

Next == \E t \in Threads : Invoke(t) \/ Step(t) \/ SpuriousWakeup(t)

Spec == Init /\ [][Next]_vars

\* A thread inside a call runs on unless it waits.
FairSpec == Spec /\ \A t \in Threads : WF_vars(Step(t))

-----------------------------------------------------------------------------
(* Properties. *)

\* A call is over for the abstract queue when its effect has taken place.
PendingCall(t) ==
  CASE pc[t] \in {"push", "on_push_cv"} -> "push"
    [] pc[t] \in {"pop", "on_pop_cv"}   -> "pop"
    [] pc[t] \in {"clear", "close"}     -> pc[t]
    [] OTHER                            -> "none"

Abstract == INSTANCE BlockingQueue WITH
  queue <- queue_, closed <- closed_, call <- [t \in Threads |-> PendingCall(t)]

\* The mutex and the condition variables implement the queue: every effect
\* of push, pop, clear and close is one of the promised ones, and the waits
\* and notifications between them are invisible.
Implements == Abstract!Spec

\* They keep its progress too: no interleaving of notify_one, barging threads,
\* clear and close leaves a thread waiting for what is there.
ImplementsProgress == Abstract!Progress

\* No wakeup is lost: threads wait for room while there is some only if at
\* least as many threads as there are free places are awake to take them, or
\* a clear or close is about to notify them; likewise for values and pop.
Free == Capacity - Len(queue_)
NoLostWakeup ==
  /\ Waiting("on_push_cv") # {} =>
       \/ Waiting("clear_notify") # {} \/ Waiting("close_notify_push") # {}
       \/ ~closed_ /\ Free <= Cardinality(Waiting("push"))
  /\ Waiting("on_pop_cv") # {} =>
       \/ Waiting("close_notify_push") # {} \/ Waiting("close_notify_pop") # {}
       \/ ~closed_ /\ Len(queue_) <= Cardinality(Waiting("pop"))

=============================================================================
