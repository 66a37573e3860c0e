---------------------------- MODULE BlockingQueue ----------------------------
(***************************************************************************)
(* What kl::BlockingQueue promises the threads that call it: push waits    *)
(* for room and is refused once the queue is closed, pop waits for a value *)
(* and returns nothing once the queue is closed and drained, clear drops   *)
(* what is queued, and every call takes effect at one instant between its  *)
(* invocation and its return.                                              *)
(***************************************************************************)
EXTENDS Naturals, Sequences

CONSTANTS
  Threads,   \* the threads that share the queue
  Values,    \* what they push
  Capacity,  \* capacity_
  Nothing    \* std::nullopt, and the result of a call that returns no value

VARIABLES
  queue, closed,
  call,      \* the method each thread has called and that has no effect yet
  arg,       \* the value each thread pushes
  result     \* what its last call returned

vars == <<queue, closed, call, arg, result>>

Methods == {"push", "pop", "clear", "close"}

TypeOK ==
  /\ queue \in Seq(Values) /\ closed \in BOOLEAN
  /\ call \in [Threads -> Methods \cup {"none"}]
  /\ arg \in [Threads -> Values \cup {Nothing}]
  /\ result \in [Threads -> Values \cup {Nothing, "true", "false"}]

Init ==
  /\ queue = <<>> /\ closed = FALSE
  /\ call = [t \in Threads |-> "none"]
  /\ arg = [t \in Threads |-> Nothing] /\ result = [t \in Threads |-> Nothing]

Call(t) ==
  /\ call[t] = "none"
  /\ \/ \E m \in Methods \ {"push"} : call' = [call EXCEPT ![t] = m] /\ UNCHANGED arg
     \/ \E v \in Values : /\ call' = [call EXCEPT ![t] = "push"]
                          /\ arg' = [arg EXCEPT ![t] = v]
  /\ UNCHANGED <<queue, closed, result>>

Return(t, r) ==
  /\ call' = [call EXCEPT ![t] = "none"]
  /\ arg' = [arg EXCEPT ![t] = Nothing]
  /\ result' = [result EXCEPT ![t] = r]

Push(t) ==
  /\ call[t] = "push" /\ ~closed /\ Len(queue) < Capacity
  /\ queue' = Append(queue, arg[t])
  /\ Return(t, "true") /\ UNCHANGED closed

Refuse(t) ==
  /\ call[t] = "push" /\ closed
  /\ Return(t, "false") /\ UNCHANGED <<queue, closed>>

Pop(t) ==
  /\ call[t] = "pop" /\ queue # <<>>
  /\ queue' = Tail(queue)
  /\ Return(t, Head(queue)) /\ UNCHANGED closed

PopNothing(t) ==
  /\ call[t] = "pop" /\ queue = <<>> /\ closed
  /\ Return(t, Nothing) /\ UNCHANGED <<queue, closed>>

Clear(t) ==
  /\ call[t] = "clear"
  /\ queue' = <<>>
  /\ Return(t, Nothing) /\ UNCHANGED closed

Close(t) ==
  /\ call[t] = "close"
  /\ closed' = TRUE
  /\ Return(t, Nothing) /\ UNCHANGED queue

Next == \E t \in Threads :
  Call(t) \/ Push(t) \/ Refuse(t) \/ Pop(t) \/ PopNothing(t) \/ Clear(t) \/ Close(t)

Spec == Init /\ [][Next]_vars

\* While there is room some push takes effect, while there is a value some
\* pop does, and a closed queue keeps no thread waiting.
Progress ==
  /\ WF_vars(\E t \in Threads : Push(t))
  /\ WF_vars(\E t \in Threads : Pop(t))
  /\ \A t \in Threads : WF_vars(Refuse(t)) /\ WF_vars(PopNothing(t))

FairSpec == Spec /\ Progress

=============================================================================
