------------------------ MODULE BlockingQueue_proofs ------------------------
(***************************************************************************)
(* The queue with its mutex and condition variables implements the        *)
(* abstract queue, for any number of threads, values and any capacity.     *)
(***************************************************************************)
EXTENDS BlockingQueueImpl, Counting

USE CapacityAssumption, NothingAssumption

Pending == [t \in Threads |-> PendingCall(t)]

LEMMA EmptyQueue == <<>> \in Seq(Values)
  OBVIOUS

\* A thread that moves leaves the pending calls of the others alone, those
\* it wakes up included.
LEMMA OthersKeepCall ==
  ASSUME NEW t \in Threads, NEW label \in Labels, NEW woken,
         TypeOK, GotoWaking(t, label, woken)
  PROVE  /\ pc' \in [Threads -> Labels]
         /\ \A u \in Threads \ {t} : PendingCall(u)' = PendingCall(u)
         /\ pc'[t] = label
<1>1. /\ pc \in [Threads -> Labels]
      /\ pc' = [u \in Threads |->
                  IF u = t THEN label
                  ELSE IF u \in woken /\ pc[u] = "on_push_cv" THEN "push"
                  ELSE IF u \in woken /\ pc[u] = "on_pop_cv" THEN "pop"
                  ELSE pc[u]]
  BY DEF TypeOK, GotoWaking
<1>2. pc' \in [Threads -> Labels] /\ pc'[t] = label
  BY <1>1 DEF Labels
<1>3. ASSUME NEW u \in Threads \ {t} PROVE PendingCall(u)' = PendingCall(u)
  BY <1>1 DEF PendingCall
<1> QED
  BY <1>2, <1>3

LEMMA CallUnchanged ==
  ASSUME NEW t \in Threads, NEW label \in Labels, NEW woken, TypeOK,
         GotoWaking(t, label, woken), PendingCall(t)' = PendingCall(t)
  PROVE  Pending' = Pending
  BY OthersKeepCall DEF Pending

LEMMA CallChanged ==
  ASSUME NEW t \in Threads, NEW label \in Labels, NEW woken, TypeOK,
         GotoWaking(t, label, woken)
  PROVE  Pending' = [Pending EXCEPT ![t] = PendingCall(t)']
  BY OthersKeepCall DEF Pending

\* A call that returns r keeps the types.
LEMMA Returned ==
  ASSUME TypeOK, NEW t \in Threads, NEW r \in Values \cup {Nothing, "true", "false"}, NEW woken,
         GotoWaking(t, "idle", woken), Finish(t, r),
         queue_' \in Seq(Values), closed_' \in BOOLEAN
  PROVE  TypeOK'
<1>1. /\ pc \in [Threads -> Labels] /\ arg \in [Threads -> Values \cup {Nothing}]
      /\ result \in [Threads -> Values \cup {Nothing, "true", "false"}]
      /\ \A u \in Threads : pc[u] \in {"push", "on_push_cv"} => arg[u] \in Values
  BY DEF TypeOK
<1>2. /\ pc' \in [Threads -> Labels]
      /\ \A u \in Threads \ {t} :
           pc'[u] \in {"push", "on_push_cv"} => pc[u] \in {"push", "on_push_cv"}
      /\ pc'[t] \notin {"push", "on_push_cv"}
  BY <1>1 DEF GotoWaking, Labels
<1>3. /\ arg' = [arg EXCEPT ![t] = Nothing]
      /\ result' = [result EXCEPT ![t] = r]
  BY DEF Finish
<1> QED
  BY <1>1, <1>2, <1>3 DEF TypeOK

\* The types, and that a pusher has a value to push.
THEOREM QueueTypeCorrect == Spec => []TypeOK
<1>1. Init => TypeOK
  <2> SUFFICES ASSUME Init PROVE TypeOK
    OBVIOUS
  <2>1. queue_ \in Seq(Values) /\ closed_ \in BOOLEAN
    BY EmptyQueue DEF Init
  <2>2. /\ pc \in [Threads -> Labels]
        /\ \A t \in Threads : pc[t] = "idle"
        /\ arg \in [Threads -> Values \cup {Nothing}]
        /\ result \in [Threads -> Values \cup {Nothing, "true", "false"}]
    BY DEF Init, Labels
  <2> QED
    BY <2>1, <2>2 DEF TypeOK
<1>2. TypeOK /\ [Next]_vars => TypeOK'
  <2> SUFFICES ASSUME TypeOK, [Next]_vars PROVE TypeOK'
    OBVIOUS
  <2>0. /\ queue_ \in Seq(Values) /\ closed_ \in BOOLEAN
        /\ pc \in [Threads -> Labels]
        /\ arg \in [Threads -> Values \cup {Nothing}]
        /\ result \in [Threads -> Values \cup {Nothing, "true", "false"}]
        /\ \A t \in Threads : pc[t] \in {"push", "on_push_cv"} => arg[t] \in Values
    BY DEF TypeOK
  <2>1. ASSUME NEW t \in Threads, Invoke(t) PROVE TypeOK'
    BY <2>0, <2>1 DEF Invoke, GotoWaking, TypeOK, Labels
  <2>2. ASSUME NEW t \in Threads, Push(t) PROVE TypeOK'
    <3>1. queue_' \in Seq(Values) /\ closed_' \in BOOLEAN
      BY <2>0, <2>2 DEF Push
    <3>2. CASE GotoWaking(t, "on_push_cv", {}) /\ UNCHANGED <<arg, result>>
      BY <2>0, <2>2, <3>1, <3>2 DEF Push, GotoWaking, TypeOK, Labels
    <3>3. CASE \E woken : GotoWaking(t, "idle", woken) /\ \E r \in {"true", "false"} : Finish(t, r)
      BY <3>1, <3>3, Returned
    <3> QED
      BY <2>2, <3>2, <3>3 DEF Push
  <2>3. ASSUME NEW t \in Threads, Pop(t) PROVE TypeOK'
    <3>1. /\ queue_' \in Seq(Values) /\ closed_' \in BOOLEAN
          /\ queue_ # <<>> => Head(queue_) \in Values
      BY <2>0, <2>3 DEF Pop
    <3>2. CASE GotoWaking(t, "on_pop_cv", {}) /\ UNCHANGED <<arg, result>>
      BY <2>0, <2>3, <3>1, <3>2 DEF Pop, GotoWaking, TypeOK, Labels
    <3>3. CASE \E woken : GotoWaking(t, "idle", woken) /\ \E r \in Values \cup {Nothing} : Finish(t, r)
      BY <3>1, <3>3, Returned
    <3> QED
      BY <2>3, <3>1, <3>2, <3>3 DEF Pop
  <2>4. ASSUME NEW t \in Threads, ClearLocked(t) \/ CloseLocked(t) PROVE TypeOK'
    <3>1. queue_' \in Seq(Values) /\ closed_' \in BOOLEAN
      BY <2>0, <2>4, EmptyQueue DEF ClearLocked, CloseLocked
    <3>2. \E label \in {"clear_notify", "close_notify_push"} : GotoWaking(t, label, {})
      BY <2>4 DEF ClearLocked, CloseLocked
    <3>3. /\ pc' \in [Threads -> Labels]
          /\ \A u \in Threads \ {t} :
               pc'[u] \in {"push", "on_push_cv"} => pc[u] \in {"push", "on_push_cv"}
          /\ pc'[t] \notin {"push", "on_push_cv"}
      BY <2>0, <3>2 DEF GotoWaking, Labels
    <3>4. /\ arg' = [arg EXCEPT ![t] = Nothing]
          /\ result' = [result EXCEPT ![t] = Nothing]
      BY <2>4 DEF ClearLocked, CloseLocked, Finish
    <3> QED
      BY <2>0, <3>1, <3>3, <3>4 DEF TypeOK
  <2>5. ASSUME NEW t \in Threads, NotifyAll(t) \/ SpuriousWakeup(t) PROVE TypeOK'
    BY <2>0, <2>5 DEF NotifyAll, SpuriousWakeup, GotoWaking, TypeOK, Labels
  <2>6. CASE UNCHANGED vars
    BY <2>6 DEF vars, TypeOK
  <2> QED
    BY <2>1, <2>2, <2>3, <2>4, <2>5, <2>6 DEF Next, Step
<1> QED
  BY <1>1, <1>2, PTL DEF Spec

LEMMA InitRefines == Init => Abstract!Init
  BY DEF Init, Abstract!Init, PendingCall

\* Every step of the implementation is a step of the abstract queue, or one
\* it does not see: waiting, waking up and notifying.
LEMMA StepRefines == TypeOK /\ Next => [Abstract!Next]_Abstract!vars
<1> SUFFICES ASSUME TypeOK, Next PROVE [Abstract!Next]_Abstract!vars
  OBVIOUS
<1>0. /\ \A t \in Threads : Pending[t] = PendingCall(t)
      /\ pc \in [Threads -> Labels]
  BY DEF Pending, TypeOK
<1> USE DEF Labels
<1>1. ASSUME NEW t \in Threads, Invoke(t) PROVE Abstract!Call(t)
  <2>1. ASSUME NEW m \in {"pop", "clear", "close"}, GotoWaking(t, m, {}),
               UNCHANGED <<arg, queue_, closed_, result>>
        PROVE  Abstract!Call(t)
    <3>1. PendingCall(t) = "none" /\ PendingCall(t)' = m /\ m \in Labels
      BY <1>0, <1>1, <2>1, OthersKeepCall DEF Invoke, PendingCall
    <3>2. Pending' = [Pending EXCEPT ![t] = m]
      BY <2>1, <3>1, CallChanged
    <3>3. m \in Abstract!Methods \ {"push"}
      BY DEF Abstract!Methods
    <3> QED
      BY <1>0, <2>1, <3>1, <3>2, <3>3 DEF Abstract!Call, Pending
  <2>2. ASSUME NEW v \in Values, GotoWaking(t, "push", {}), arg' = [arg EXCEPT ![t] = v],
               UNCHANGED <<queue_, closed_, result>>
        PROVE  Abstract!Call(t)
    BY <1>0, <1>1, <2>2, CallChanged, OthersKeepCall
       DEF Invoke, Abstract!Call, PendingCall, Pending
  <2> QED
    BY <1>1, <2>1, <2>2 DEF Invoke
<1>2. ASSUME NEW t \in Threads, Push(t)
      PROVE  Abstract!Push(t) \/ Abstract!Refuse(t) \/ UNCHANGED Abstract!vars
  BY <1>0, <1>2, CallChanged, CallUnchanged, OthersKeepCall
     DEF Push, Finish, Abstract!Push, Abstract!Refuse, Abstract!Return, Abstract!vars,
         PendingCall, Pending
<1>3. ASSUME NEW t \in Threads, Pop(t)
      PROVE  Abstract!Pop(t) \/ Abstract!PopNothing(t) \/ UNCHANGED Abstract!vars
  BY <1>0, <1>3, CallChanged, CallUnchanged, OthersKeepCall
     DEF Pop, Finish, Abstract!Pop, Abstract!PopNothing, Abstract!Return, Abstract!vars,
         PendingCall, Pending
<1>4. ASSUME NEW t \in Threads, ClearLocked(t) PROVE Abstract!Clear(t)
  BY <1>0, <1>4, CallChanged, OthersKeepCall
     DEF ClearLocked, Finish, Abstract!Clear, Abstract!Return, PendingCall, Pending
<1>5. ASSUME NEW t \in Threads, CloseLocked(t) PROVE Abstract!Close(t)
  BY <1>0, <1>5, CallChanged, OthersKeepCall
     DEF CloseLocked, Finish, Abstract!Close, Abstract!Return, PendingCall, Pending
<1>6. ASSUME NEW t \in Threads, NotifyAll(t) \/ SpuriousWakeup(t)
      PROVE  UNCHANGED Abstract!vars
  BY <1>0, <1>6, CallUnchanged, OthersKeepCall
     DEF NotifyAll, SpuriousWakeup, Abstract!vars, PendingCall, Pending
<1> QED
  BY <1>1, <1>2, <1>3, <1>4, <1>5, <1>6 DEF Next, Step, Abstract!Next

\* Every behaviour of the code's queue is one of the abstract queue.
THEOREM QueueRefinement == Spec => Implements
<1>1. TypeOK /\ UNCHANGED vars => UNCHANGED Abstract!vars
  BY DEF vars, Abstract!vars, PendingCall
<1>2. TypeOK /\ [Next]_vars => [Abstract!Next]_Abstract!vars
  BY <1>1, StepRefines
<1> QED
  BY QueueTypeCorrect, InitRefines, <1>2, PTL DEF Spec, Implements, Abstract!Spec

-----------------------------------------------------------------------------
(* No wakeup is lost. *)

\* Finitely many threads are inside a call, so that they can be counted,
\* however many threads there are.
FiniteCalls == IsFiniteSet({t \in Threads : pc[t] # "idle"})

QueueInvariant == TypeOK /\ FiniteCalls /\ NoLostWakeup

LEMMA WaitingFinite ==
  ASSUME FiniteCalls, NEW label, label # "idle"
  PROVE  IsFiniteSet(Waiting(label)) /\ Cardinality(Waiting(label)) \in Nat
<1>1. Waiting(label) \in SUBSET {t \in Threads : pc[t] # "idle"}
  BY DEF Waiting
<1> QED
  BY <1>1, CountOrdered DEF FiniteCalls

LEMMA WaitingFiniteNext ==
  ASSUME FiniteCalls', NEW label, label # "idle"
  PROVE  IsFiniteSet(Waiting(label)') /\ Cardinality(Waiting(label)') \in Nat
<1>1. Waiting(label)' \in SUBSET {t \in Threads : pc'[t] # "idle"}
  BY DEF Waiting
<1>2. IsFiniteSet({t \in Threads : pc'[t] # "idle"})
  BY DEF FiniteCalls
<1> QED
  BY <1>1, <1>2, CountOrdered

\* A step adds at most its own thread to those inside a call.
LEMMA CallsStayFinite ==
  ASSUME FiniteCalls, NEW t \in Threads, NEW label, NEW woken, GotoWaking(t, label, woken)
  PROVE  FiniteCalls'
<1>1. {u \in Threads : pc'[u] # "idle"} \in SUBSET ({u \in Threads : pc[u] # "idle"} \cup {t})
  BY DEF GotoWaking
<1>2. IsFiniteSet({u \in Threads : pc[u] # "idle"} \cup {t})
  BY FS_AddElement DEF FiniteCalls
<1>3. IsFiniteSet({u \in Threads : pc'[u] # "idle"})
  BY <1>1, <1>2, CountOrdered
<1> QED
  BY <1>3 DEF FiniteCalls

\* Whom a step of t leaves at, brings to and takes from a label other than
\* the predicates and the wait sets.
LEMMA MovesElsewhere ==
  ASSUME NEW t \in Threads, NEW label, NEW woken, GotoWaking(t, label, woken),
         NEW at, at \notin {"push", "pop", "on_push_cv", "on_pop_cv"}
  PROVE  Waiting(at)' = (Waiting(at) \ {t}) \cup (IF label = at THEN {t} ELSE {})
  BY DEF GotoWaking, Waiting

LEMMA StaysElsewhere ==
  ASSUME NEW t \in Threads, NEW label, NEW woken, GotoWaking(t, label, woken),
         NEW at, at \notin {"push", "pop", "on_push_cv", "on_pop_cv"}, pc[t] # at, label # at
  PROVE  Waiting(at)' = Waiting(at)
<1>1. t \notin Waiting(at)
  BY DEF Waiting
<1> QED
  BY <1>1, MovesElsewhere

LEMMA MovesAtPush ==
  ASSUME NEW t \in Threads, NEW label, NEW woken, GotoWaking(t, label, woken)
  PROVE  /\ Waiting("push")' = ((Waiting("push") \cup (woken \cap Waiting("on_push_cv"))) \ {t})
                               \cup (IF label = "push" THEN {t} ELSE {})
         /\ Waiting("on_push_cv")' = ((Waiting("on_push_cv") \ woken) \ {t})
                               \cup (IF label = "on_push_cv" THEN {t} ELSE {})
  BY DEF GotoWaking, Waiting

LEMMA MovesAtPop ==
  ASSUME NEW t \in Threads, NEW label, NEW woken, GotoWaking(t, label, woken)
  PROVE  /\ Waiting("pop")' = ((Waiting("pop") \cup (woken \cap Waiting("on_pop_cv"))) \ {t})
                               \cup (IF label = "pop" THEN {t} ELSE {})
         /\ Waiting("on_pop_cv")' = ((Waiting("on_pop_cv") \ woken) \ {t})
                               \cup (IF label = "on_pop_cv" THEN {t} ELSE {})
  BY DEF GotoWaking, Waiting

\* The two halves of NoLostWakeup: room and pushers, values and poppers.
RoomTaken ==
  Waiting("on_push_cv") # {} =>
    \/ Waiting("clear_notify") # {} \/ Waiting("close_notify_push") # {}
    \/ ~closed_ /\ Free <= Cardinality(Waiting("push"))
ValuesTaken ==
  Waiting("on_pop_cv") # {} =>
    \/ Waiting("close_notify_push") # {} \/ Waiting("close_notify_pop") # {}
    \/ ~closed_ /\ Len(queue_) <= Cardinality(Waiting("pop"))

\* A step at label from that wakes no pusher and takes no room keeps the
\* first half, unless it leaves the push predicate or a notification.
LEMMA RoomKept ==
  ASSUME QueueInvariant, NEW t \in Threads, NEW label \in Labels, NEW woken,
         GotoWaking(t, label, woken), woken \cap Waiting("on_push_cv") = {},
         pc[t] \notin {"push", "clear_notify", "close_notify_push"}, label # "on_push_cv",
         closed_' = closed_, Free' <= Free, queue_' \in Seq(Values)
  PROVE  RoomTaken'
<1>0. FiniteCalls /\ RoomTaken /\ FiniteCalls' /\ Free \in Int /\ Free' \in Int
  BY CallsStayFinite DEF QueueInvariant, NoLostWakeup, RoomTaken, Free, TypeOK
<1>1. /\ Waiting("clear_notify") \subseteq Waiting("clear_notify")'
      /\ Waiting("close_notify_push") \subseteq Waiting("close_notify_push")'
  <2>1. t \notin Waiting("clear_notify") /\ t \notin Waiting("close_notify_push")
    BY DEF Waiting
  <2> QED
    BY <2>1, MovesElsewhere
<1>2. /\ Waiting("push") \subseteq Waiting("push")'
      /\ Waiting("on_push_cv")' \subseteq Waiting("on_push_cv")
  <2>1. t \notin Waiting("push")
    BY DEF Waiting
  <2> QED
    BY <2>1, MovesAtPush
<1>3. /\ Cardinality(Waiting("push")) \in Nat /\ Cardinality(Waiting("push")') \in Nat
      /\ Cardinality(Waiting("push")) <= Cardinality(Waiting("push")')
  <2>1. IsFiniteSet(Waiting("push")') /\ Waiting("push") \in SUBSET Waiting("push")'
    BY <1>0, <1>2, WaitingFiniteNext
  <2> QED
    BY <2>1, CountOrdered
<1> QED
  BY <1>0, <1>1, <1>2, <1>3 DEF RoomTaken

\* The same of the second half, values and poppers.
LEMMA ValuesKept ==
  ASSUME QueueInvariant, NEW t \in Threads, NEW label \in Labels, NEW woken,
         GotoWaking(t, label, woken), woken \cap Waiting("on_pop_cv") = {},
         pc[t] \notin {"pop", "close_notify_pop"},
         pc[t] = "close_notify_push" => label = "close_notify_pop", label # "on_pop_cv",
         closed_' = closed_, Len(queue_') <= Len(queue_), queue_' \in Seq(Values)
  PROVE  ValuesTaken'
<1>0. /\ FiniteCalls /\ ValuesTaken /\ FiniteCalls'
      /\ Len(queue_) \in Nat /\ Len(queue_') \in Nat
  BY CallsStayFinite DEF QueueInvariant, NoLostWakeup, ValuesTaken, TypeOK
<1>1. Waiting("close_notify_push") # {} \/ Waiting("close_notify_pop") # {} =>
      Waiting("close_notify_push")' # {} \/ Waiting("close_notify_pop")' # {}
  <2>1. /\ Waiting("close_notify_push")' = (Waiting("close_notify_push") \ {t})
             \cup (IF label = "close_notify_push" THEN {t} ELSE {})
        /\ Waiting("close_notify_pop")' = (Waiting("close_notify_pop") \ {t})
             \cup (IF label = "close_notify_pop" THEN {t} ELSE {})
    BY MovesElsewhere
  <2>2. t \notin Waiting("close_notify_pop")
    BY DEF Waiting
  <2>3. t \in Waiting("close_notify_push") => label = "close_notify_pop"
    BY DEF Waiting
  <2> QED
    BY <2>1, <2>2, <2>3
<1>2. /\ Waiting("pop") \subseteq Waiting("pop")'
      /\ Waiting("on_pop_cv")' \subseteq Waiting("on_pop_cv")
  <2>1. t \notin Waiting("pop")
    BY DEF Waiting
  <2> QED
    BY <2>1, MovesAtPop
<1>3. /\ Cardinality(Waiting("pop")) \in Nat /\ Cardinality(Waiting("pop")') \in Nat
      /\ Cardinality(Waiting("pop")) <= Cardinality(Waiting("pop")')
  <2>1. IsFiniteSet(Waiting("pop")') /\ Waiting("pop") \in SUBSET Waiting("pop")'
    BY <1>0, <1>2, WaitingFiniteNext
  <2> QED
    BY <2>1, CountOrdered
<1> QED
  BY <1>0, <1>1, <1>2, <1>3 DEF ValuesTaken

\* notify_one: if somebody still waits, somebody was woken, and one more
\* thread is awake.
LEMMA OneWoken ==
  ASSUME FiniteCalls, NEW t \in Threads, NEW woken,
         NEW awake, NEW cv, <<awake, cv>> \in {<<"push", "on_push_cv">>, <<"pop", "on_pop_cv">>},
         woken \in OneOf(Waiting(cv)), GotoWaking(t, "idle", woken),
         pc[t] \notin {awake, cv}, Waiting(cv)' # {}
  PROVE  /\ Waiting(cv) # {}
         /\ Cardinality(Waiting(awake)') = Cardinality(Waiting(awake)) + 1
<1>1. awake # "idle" /\ cv # "idle" /\ awake # cv
  OBVIOUS
<1>2. Waiting(cv)' = (Waiting(cv) \ woken) \ {t}
  BY MovesAtPush, MovesAtPop
<1>3. Waiting(awake)' = (Waiting(awake) \cup (woken \cap Waiting(cv))) \ {t}
  BY MovesAtPush, MovesAtPop
<1>4. Waiting(cv) # {}
  BY <1>2
<1>5. PICK u \in Waiting(cv) : woken = {u}
  BY <1>4 DEF OneOf
<1>6. t \notin Waiting(awake) /\ t \notin Waiting(cv) /\ u \notin Waiting(awake)
  BY <1>1 DEF Waiting
<1>7. Waiting(awake)' = Waiting(awake) \cup {u}
  BY <1>3, <1>5, <1>6
<1>8. IsFiniteSet(Waiting(awake))
  BY <1>1, WaitingFinite
<1> QED
  BY <1>4, <1>6, <1>7, <1>8, CountWith

\* Push, if it finds room, takes one place from the waiting and itself from
\* the awake, and wakes a popper for its value.
LEMMA PushKeepsWakeups ==
  ASSUME QueueInvariant, TypeOK', NEW t \in Threads, Push(t)
  PROVE  RoomTaken' /\ ValuesTaken'
<1>0. /\ TypeOK /\ FiniteCalls /\ RoomTaken /\ ValuesTaken /\ pc[t] = "push" /\ closed_' = closed_
      /\ Len(queue_) \in Nat /\ queue_' \in Seq(Values)
  BY DEF QueueInvariant, NoLostWakeup, RoomTaken, ValuesTaken, TypeOK, Push
<1>1. CASE ~closed_ /\ Len(queue_) >= Capacity /\ GotoWaking(t, "on_push_cv", {})
           /\ UNCHANGED queue_
  <2>1. Free' <= 0
    BY <1>0, <1>1 DEF Free
  <2>2. FiniteCalls' /\ Cardinality(Waiting("push")') \in Nat
    BY <1>0, <1>1, CallsStayFinite, WaitingFiniteNext
  <2>3. RoomTaken'
    BY <1>0, <1>1, <2>1, <2>2 DEF RoomTaken, Free
  <2>4. ValuesTaken'
    BY <1>0, <1>1, ValuesKept DEF Labels
  <2> QED
    BY <2>3, <2>4
<1>2. CASE closed_ /\ GotoWaking(t, "idle", {}) /\ UNCHANGED queue_
  <2>1. RoomTaken'
    <3>1. /\ Waiting("clear_notify")' = Waiting("clear_notify")
          /\ Waiting("close_notify_push")' = Waiting("close_notify_push")
      BY <1>0, <1>2, StaysElsewhere
    <3>2. Waiting("on_push_cv")' \subseteq Waiting("on_push_cv")
      BY <1>2, MovesAtPush
    <3> QED
      BY <1>0, <1>2, <3>1, <3>2 DEF RoomTaken
  <2>2. ValuesTaken'
    BY <1>0, <1>2, ValuesKept DEF Labels
  <2> QED
    BY <2>1, <2>2
<1>3. ASSUME NEW woken \in OneOf(Waiting("on_pop_cv")), ~closed_, Len(queue_) < Capacity,
             queue_' = Append(queue_, arg[t]), GotoWaking(t, "idle", woken)
      PROVE  RoomTaken' /\ ValuesTaken'
  <2>0. Len(queue_') = Len(queue_) + 1
    BY <1>0, <1>3
  <2>1. RoomTaken'
    <3>1. /\ Waiting("clear_notify")' = Waiting("clear_notify")
          /\ Waiting("close_notify_push")' = Waiting("close_notify_push")
      BY <1>0, <1>3, StaysElsewhere
    <3>2. woken \cap Waiting("on_push_cv") = {}
      BY <1>3 DEF OneOf, Waiting
    <3>3. /\ Waiting("on_push_cv")' \subseteq Waiting("on_push_cv")
          /\ Waiting("push")' = Waiting("push") \ {t}
      BY <1>3, <3>2, MovesAtPush
    <3>4. t \in Waiting("push") /\ IsFiniteSet(Waiting("push")) /\ Cardinality(Waiting("push")) \in Nat
      BY <1>0, WaitingFinite DEF Waiting
    <3>5. Cardinality(Waiting("push")') = Cardinality(Waiting("push")) - 1
      BY <3>3, <3>4, CountWithout
    <3>6. Free' = Free - 1 /\ Free \in Int
      BY <1>0, <2>0 DEF Free
    <3> QED
      BY <1>0, <3>1, <3>3, <3>4, <3>5, <3>6 DEF RoomTaken
  <2>2. ValuesTaken'
    <3> SUFFICES ASSUME Waiting("on_pop_cv")' # {} PROVE ValuesTaken'
      BY DEF ValuesTaken
    <3>1. /\ Waiting("close_notify_push")' = Waiting("close_notify_push")
          /\ Waiting("close_notify_pop")' = Waiting("close_notify_pop")
      BY <1>0, <1>3, StaysElsewhere
    <3>2. /\ Waiting("on_pop_cv") # {}
          /\ Cardinality(Waiting("pop")') = Cardinality(Waiting("pop")) + 1
      BY <1>0, <1>3, OneWoken
    <3>3. Cardinality(Waiting("pop")) \in Nat
      BY <1>0, WaitingFinite
    <3> QED
      BY <1>0, <2>0, <3>1, <3>2, <3>3 DEF ValuesTaken
  <2> QED
    BY <2>1, <2>2
<1> QED
  BY <1>1, <1>2, <1>3 DEF Push

\* Pop frees a place and wakes a pusher for it.
LEMMA PopKeepsWakeups ==
  ASSUME QueueInvariant, TypeOK', NEW t \in Threads, Pop(t)
  PROVE  RoomTaken' /\ ValuesTaken'
<1>0. /\ TypeOK /\ FiniteCalls /\ RoomTaken /\ ValuesTaken /\ pc[t] = "pop" /\ closed_' = closed_
      /\ queue_ \in Seq(Values) /\ Len(queue_) \in Nat /\ queue_' \in Seq(Values)
  BY DEF QueueInvariant, NoLostWakeup, RoomTaken, ValuesTaken, TypeOK, Pop
<1>1. CASE ~closed_ /\ queue_ = <<>> /\ GotoWaking(t, "on_pop_cv", {}) /\ UNCHANGED queue_
  <2>1. Len(queue_') = 0
    BY <1>0, <1>1
  <2>2. FiniteCalls' /\ Cardinality(Waiting("pop")') \in Nat
    BY <1>0, <1>1, CallsStayFinite, WaitingFiniteNext
  <2>3. ValuesTaken'
    BY <1>0, <1>1, <2>1, <2>2 DEF ValuesTaken
  <2>4. RoomTaken'
    BY <1>0, <1>1, RoomKept DEF Labels, Free
  <2> QED
    BY <2>3, <2>4
<1>2. CASE closed_ /\ queue_ = <<>> /\ GotoWaking(t, "idle", {}) /\ UNCHANGED queue_
  <2>1. ValuesTaken'
    <3>1. /\ Waiting("close_notify_push")' = Waiting("close_notify_push")
          /\ Waiting("close_notify_pop")' = Waiting("close_notify_pop")
      BY <1>0, <1>2, StaysElsewhere
    <3>2. Waiting("on_pop_cv")' \subseteq Waiting("on_pop_cv")
      BY <1>2, MovesAtPop
    <3> QED
      BY <1>0, <1>2, <3>1, <3>2 DEF ValuesTaken
  <2>2. RoomTaken'
    BY <1>0, <1>2, RoomKept DEF Labels, Free
  <2> QED
    BY <2>1, <2>2
<1>3. ASSUME NEW woken \in OneOf(Waiting("on_push_cv")), queue_ # <<>>,
             queue_' = Tail(queue_), GotoWaking(t, "idle", woken)
      PROVE  RoomTaken' /\ ValuesTaken'
  <2>0. Len(queue_') = Len(queue_) - 1
    BY <1>0, <1>3
  <2>1. ValuesTaken'
    <3>1. /\ Waiting("close_notify_push")' = Waiting("close_notify_push")
          /\ Waiting("close_notify_pop")' = Waiting("close_notify_pop")
      BY <1>0, <1>3, StaysElsewhere
    <3>2. woken \cap Waiting("on_pop_cv") = {}
      BY <1>3 DEF OneOf, Waiting
    <3>3. /\ Waiting("on_pop_cv")' \subseteq Waiting("on_pop_cv")
          /\ Waiting("pop")' = Waiting("pop") \ {t}
      BY <1>3, <3>2, MovesAtPop
    <3>4. t \in Waiting("pop") /\ IsFiniteSet(Waiting("pop")) /\ Cardinality(Waiting("pop")) \in Nat
      BY <1>0, WaitingFinite DEF Waiting
    <3>5. Cardinality(Waiting("pop")') = Cardinality(Waiting("pop")) - 1
      BY <3>3, <3>4, CountWithout
    <3> QED
      BY <1>0, <2>0, <3>1, <3>3, <3>4, <3>5 DEF ValuesTaken
  <2>2. RoomTaken'
    <3> SUFFICES ASSUME Waiting("on_push_cv")' # {} PROVE RoomTaken'
      BY DEF RoomTaken
    <3>1. /\ Waiting("clear_notify")' = Waiting("clear_notify")
          /\ Waiting("close_notify_push")' = Waiting("close_notify_push")
      BY <1>0, <1>3, StaysElsewhere
    <3>2. /\ Waiting("on_push_cv") # {}
          /\ Cardinality(Waiting("push")') = Cardinality(Waiting("push")) + 1
      BY <1>0, <1>3, OneWoken
    <3>3. Cardinality(Waiting("push")) \in Nat
      BY <1>0, WaitingFinite
    <3>4. Free' = Free + 1 /\ Free \in Int
      BY <1>0, <2>0 DEF Free
    <3> QED
      BY <1>0, <3>1, <3>2, <3>3, <3>4 DEF RoomTaken
  <2> QED
    BY <2>1, <2>2
<1> QED
  BY <1>1, <1>2, <1>3 DEF Pop

\* Clear and close announce what they did before they notify.
LEMMA NotifiersKeepWakeups ==
  ASSUME QueueInvariant, TypeOK', NEW t \in Threads,
         ClearLocked(t) \/ CloseLocked(t) \/ NotifyAll(t)
  PROVE  RoomTaken' /\ ValuesTaken'
<1>0. /\ TypeOK /\ FiniteCalls /\ RoomTaken /\ ValuesTaken
      /\ Len(queue_) \in Nat /\ queue_' \in Seq(Values)
  BY DEF QueueInvariant, NoLostWakeup, RoomTaken, ValuesTaken, TypeOK
<1>1. CASE ClearLocked(t)
  <2>0. /\ pc[t] = "clear" /\ queue_' = <<>> /\ GotoWaking(t, "clear_notify", {})
        /\ closed_' = closed_
    BY <1>1 DEF ClearLocked
  <2>1. t \in Waiting("clear_notify")'
    BY <2>0, MovesElsewhere
  <2>2. RoomTaken'
    BY <2>1 DEF RoomTaken
  <2>3. ValuesTaken'
    <3>1. Len(queue_') = 0
      BY <2>0
    <3> QED
      BY <1>0, <2>0, <3>1, ValuesKept DEF Labels
  <2> QED
    BY <2>2, <2>3
<1>2. CASE CloseLocked(t)
  <2>1. t \in Waiting("close_notify_push")'
    BY <1>2, MovesElsewhere DEF CloseLocked
  <2> QED
    BY <2>1 DEF RoomTaken, ValuesTaken
<1>3. CASE NotifyAll(t)
  <2>0. queue_' = queue_ /\ closed_' = closed_ /\ Free' = Free /\ Free \in Int
    BY <1>0, <1>3 DEF NotifyAll, Free
  <2>1. ASSUME pc[t] = "clear_notify", GotoWaking(t, "idle", Waiting("on_push_cv"))
        PROVE  RoomTaken' /\ ValuesTaken'
    <3>1. Waiting("on_push_cv")' = {}
      BY <2>1, MovesAtPush
    <3>2. Waiting("on_push_cv") \cap Waiting("on_pop_cv") = {}
      BY DEF Waiting
    <3>3. ValuesTaken'
      BY <1>0, <2>0, <2>1, <3>2, ValuesKept DEF Labels
    <3> QED
      BY <3>1, <3>3 DEF RoomTaken
  <2>2. ASSUME pc[t] = "close_notify_push",
               GotoWaking(t, "close_notify_pop", Waiting("on_push_cv"))
        PROVE  RoomTaken' /\ ValuesTaken'
    <3>1. Waiting("on_push_cv")' = {}
      BY <2>2, MovesAtPush
    <3>2. t \in Waiting("close_notify_pop")'
      BY <2>2, MovesElsewhere
    <3> QED
      BY <3>1, <3>2 DEF RoomTaken, ValuesTaken
  <2>3. ASSUME pc[t] = "close_notify_pop", GotoWaking(t, "idle", Waiting("on_pop_cv"))
        PROVE  RoomTaken' /\ ValuesTaken'
    <3>1. Waiting("on_pop_cv")' = {}
      BY <2>3, MovesAtPop
    <3>2. Waiting("on_pop_cv") \cap Waiting("on_push_cv") = {}
      BY DEF Waiting
    <3>3. RoomTaken'
      BY <1>0, <2>0, <2>3, <3>2, RoomKept DEF Labels
    <3> QED
      BY <3>1, <3>3 DEF ValuesTaken
  <2> QED
    BY <1>3, <2>1, <2>2, <2>3 DEF NotifyAll
<1> QED
  BY <1>1, <1>2, <1>3

\* No interleaving of calls, notifications, barging and spurious wakeups
\* leaves a thread waiting for what nobody else is about to take.
THEOREM NoWakeupLost == Spec => []NoLostWakeup
<1>0. NoLostWakeup <=> RoomTaken /\ ValuesTaken
  BY DEF NoLostWakeup, RoomTaken, ValuesTaken
<1>1. Init => FiniteCalls /\ NoLostWakeup
  <2> SUFFICES ASSUME Init PROVE FiniteCalls /\ NoLostWakeup
    OBVIOUS
  <2>1. {t \in Threads : pc[t] # "idle"} = {}
    BY DEF Init
  <2>2. FiniteCalls
    BY <2>1, CountEmpty DEF FiniteCalls
  <2>3. Waiting("on_push_cv") = {} /\ Waiting("on_pop_cv") = {}
    BY DEF Init, Waiting
  <2> QED
    BY <2>2, <2>3 DEF NoLostWakeup
<1>2. TypeOK /\ TypeOK' /\ FiniteCalls /\ NoLostWakeup /\ [Next]_vars
        => FiniteCalls' /\ NoLostWakeup'
  <2> SUFFICES ASSUME QueueInvariant, TypeOK', [Next]_vars
               PROVE  FiniteCalls' /\ RoomTaken' /\ ValuesTaken'
    BY DEF QueueInvariant, NoLostWakeup, RoomTaken, ValuesTaken
  <2>0. /\ FiniteCalls /\ RoomTaken /\ ValuesTaken /\ queue_' \in Seq(Values)
        /\ Len(queue_) \in Nat /\ Free \in Int
    BY DEF QueueInvariant, NoLostWakeup, RoomTaken, ValuesTaken, TypeOK, Free
  <2>1. ASSUME NEW t \in Threads, Invoke(t) \/ Step(t) \/ SpuriousWakeup(t) PROVE FiniteCalls'
    <3>1. \E label, woken : GotoWaking(t, label, woken)
      BY <2>1 DEF Invoke, Step, SpuriousWakeup, Push, Pop, ClearLocked, CloseLocked, NotifyAll
    <3> QED
      BY <2>0, <3>1, CallsStayFinite
  <2>2. ASSUME NEW t \in Threads, Invoke(t) \/ SpuriousWakeup(t)
        PROVE  RoomTaken' /\ ValuesTaken'
    <3>1. queue_' = queue_ /\ closed_' = closed_ /\ Free' = Free
      BY <2>2 DEF Invoke, SpuriousWakeup, Free
    <3>2. PICK label \in {"push", "pop", "clear", "close"} : GotoWaking(t, label, {})
      BY <2>2 DEF Invoke, SpuriousWakeup
    <3>3. pc[t] \in {"idle", "on_push_cv", "on_pop_cv"} /\ label \in Labels
      BY <2>2, <3>2 DEF Invoke, SpuriousWakeup, Labels
    <3> QED
      BY <2>0, <3>1, <3>2, <3>3, RoomKept, ValuesKept
  <2>3. ASSUME NEW t \in Threads, Step(t) PROVE RoomTaken' /\ ValuesTaken'
    BY <2>3, PushKeepsWakeups, PopKeepsWakeups, NotifiersKeepWakeups DEF Step
  <2>4. CASE UNCHANGED vars
    BY <2>0, <2>4 DEF vars, FiniteCalls, RoomTaken, ValuesTaken, Waiting, Free
  <2> QED
    BY <2>1, <2>2, <2>3, <2>4 DEF Next
<1> QED
  BY <1>1, <1>2, QueueTypeCorrect, PTL DEF Spec

=============================================================================
