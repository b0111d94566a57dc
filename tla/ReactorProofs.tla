---------------------------- MODULE ReactorProofs ---------------------------
(***************************************************************************)
(* The event table and epoll agree, and the loop schedules coroutines as   *)
(* Cooperative states it, for every number of coroutines, descriptors,     *)
(* turns and events, and whatever rules of use the script breaks.  For a   *)
(* script that keeps them, no wake-up is lost and none goes to the wrong   *)
(* coroutine; and the memory of the calls, in Invocation, is accounted for *)
(* block by block.                                                         *)
(***************************************************************************)
EXTENDS Invocation, CommonLemmas, FiniteSetTheorems, SequenceTheorems, TLAPS

(* The invariant in three parts: the table and the kernel, the coroutines, *)
(* and the loop.                                                           *)
Kinds == {"closed", "sock", "file", "timer"}
Masks == {"none", "in", "out"}

TableInv ==
  /\ kind \in [Fd -> Kinds]
  /\ epoll \in [Fd -> Masks]
  /\ ev \in [Fd -> AioEvent \cup {NULL}]
  /\ WhollyUsedOrReleased
  /\ WatchedInUse

CoInv ==
  /\ pc \in [Co -> {"unborn", "run", "wait", "yielded", "done"}]
  /\ stack \in Seq(Co)

LoopInv ==
  /\ timeout_front \in [fd : Fd, persistent : BOOLEAN] \cup {NULL}
  /\ timeout_rear \in BOOLEAN
  /\ main \in {"script", "loop", "crashed"}
  /\ loop \in {"off", "wait", "dispatch", "fired"}
  /\ batch \in Seq(Report)
  /\ turn \in 0 .. MaxTurns
  /\ loop \in {"dispatch", "fired"} => turn < MaxTurns

IInv == TableInv /\ CoInv /\ LoopInv

(* A free descriptor that the kernel gives out is one.                     *)
LEMMA LowestIsFree ==
  ASSUME kind \in [Fd -> Kinds], FreeFd # {}
  PROVE  LowestFd \in Fd /\ kind[LowestFd] = "closed"
  <1>1. FreeFd \subseteq Nat  BY ReactorAssumption DEF FreeFd, Fd
  <1>2. \E fd \in FreeFd : \A g \in FreeFd : fd <= g  BY <1>1, LeastNat
  <1>3. LowestFd \in FreeFd  BY <1>2 DEF LowestFd
  <1> QED  BY <1>3 DEF FreeFd

(* The coroutine on top of the stack is one, and popping and pushing keep  *)
(* the stack a stack of coroutines.                                        *)
LEMMA StackFacts ==
  ASSUME stack \in Seq(Co)
  PROVE  /\ Running => Current \in Co /\ SubSeq(stack, 1, Len(stack) - 1) \in Seq(Co)
         /\ \A co \in Co : Append(stack, co) \in Seq(Co)
  <1>1. ASSUME Running PROVE Current \in Co /\ SubSeq(stack, 1, Len(stack) - 1) \in Seq(Co)
    <2>1. Len(stack) \in Nat \ {0}  BY <1>1, EmptySeq DEF Running
    <2>3. SubSeq(stack, 1, Len(stack) - 1) \in Seq(Co)  BY <1>1, ButLast DEF Running
    <2>4. Current \in Co  BY <2>1, ElementOfSeq DEF Current
    <2> QED  BY <2>3, <2>4
  <1>2. \A co \in Co : Append(stack, co) \in Seq(Co)  OBVIOUS
  <1> QED  BY <1>1, <1>2

(* aio_event_free leaves an event as it was when it was made.              *)
LEMMA FreedIsNew ==
  ASSUME NEW e \in AioEvent, e # NULL, Consistent(e)
  PROVE  freed_event(e) = NewEvent
  BY DEF AioEvent, freed_event, NewEvent, Consistent

LEMMA NewIsConsistent == NewEvent \in AioEvent /\ Consistent(NewEvent)
  BY DEF NewEvent, AioEvent, Consistent

(* What a store does to an event that is consistent: a released one takes  *)
(* the wait, one in use stays as it is.                                    *)
LEMMA StoreEffect ==
  ASSUME TableInv, NEW fd \in Fd, NEW w \in AioEvent
  PROVE  /\ event_of(fd).events = "none" => stored_event(fd, w) = w /\ watched(fd, w) = w.events
         /\ event_of(fd).events # "none" =>
              /\ ev[fd] # NULL
              /\ stored_event(fd, w) = ev[fd] /\ watched(fd, w) = epoll[fd]
  <1>1. event_of(fd) \in AioEvent /\ Consistent(event_of(fd))
    BY NewIsConsistent DEF TableInv, event_of, WhollyUsedOrReleased
  <1>2. CASE event_of(fd).events = "none"
    <2>1. event_of(fd).php_context = NULL  BY <1>1, <1>2 DEF Consistent
    <2>2. stored_event(fd, w) = [w EXCEPT !.events = w.events]
      BY <1>1, <1>2, <2>1 DEF stored_event, needs_add, AioEvent
    <2>3. [w EXCEPT !.events = w.events] = w  BY DEF AioEvent
    <2> QED  BY <1>2, <2>2, <2>3 DEF watched, needs_add
  <1>3. CASE event_of(fd).events # "none"
    <2>1. ev[fd] # NULL  BY <1>3 DEF event_of, NewEvent
    <2>2. event_of(fd).php_context # NULL  BY <1>1, <1>3 DEF Consistent
    <2> QED  BY <1>3, <2>1, <2>2 DEF stored_event, watched, needs_add, event_of
  <1> QED  BY <1>2, <1>3

(* A waiting call keeps the invariant: k are the descriptors after it      *)
(* opened a timer, if it did.                                              *)
LEMMA WaitOnInv ==
  ASSUME IInv, Running,
         NEW fd \in Fd, NEW w \in AioEvent, w.php_context # NULL, Consistent(w),
         NEW k \in [Fd -> Kinds], \A g \in Fd : k[g] = "closed" => kind[g] = "closed",
         WaitOn(fd, w, k)
  PROVE  IInv'
  <1>1. LoopInv'
    BY DEF IInv, LoopInv, WaitOn, timeouts, control
  <1>2. CASE Refuse(fd)
    <2>1. /\ kind' = k
          /\ ev' = [ev EXCEPT ![fd] = NULL]
          /\ epoll' = epoll /\ pc' = pc /\ stack' = stack
      BY <1>2 DEF WaitOn, Refuse
    <2>2. event_of(fd).events = "none"  BY <1>2 DEF Refuse, needs_add
    <2>3. epoll[fd] = "none"
      BY <2>2 DEF IInv, TableInv, WatchedInUse, Waited, event_of
    <2>4. WhollyUsedOrReleased'
      BY <2>1 DEF IInv, TableInv, WhollyUsedOrReleased, Consistent
    <2>5. WatchedInUse'
      BY <2>1, <2>3 DEF IInv, TableInv, WatchedInUse, Waited
    <2>6. TableInv'
      BY <2>1, <2>4, <2>5 DEF IInv, TableInv
    <2> QED  BY <1>1, <2>1, <2>6 DEF IInv, CoInv
  <1>3. CASE Store(fd, w, k)
    <2>1. /\ kind' = k
          /\ ev' = [ev EXCEPT ![fd] = stored_event(fd, w)]
          /\ epoll' = [epoll EXCEPT ![fd] = watched(fd, w)]
          /\ pc' = [pc EXCEPT ![Current] = "wait"]
          /\ stack' = SubSeq(stack, 1, Len(stack) - 1)
      BY <1>3 DEF WaitOn, Store, coro_yield
    <2>2. CoInv'
      BY <2>1, StackFacts DEF IInv, CoInv
    <2>3. CASE event_of(fd).events = "none"
      <3>1. ev' = [ev EXCEPT ![fd] = w] /\ epoll' = [epoll EXCEPT ![fd] = w.events]
        BY <2>1, <2>3, StoreEffect DEF IInv
      <3>2. w # NULL /\ w.events \in Masks  BY NullIsNoEvent DEF AioEvent, Masks
      <3>3. k[fd] # "closed"
        BY <1>3, <2>3 DEF Store, needs_add, AddRefused
      <3>4. WhollyUsedOrReleased'
        BY <3>1 DEF IInv, TableInv, WhollyUsedOrReleased, Consistent
      <3>5. WatchedInUse'
        BY <2>1, <3>1, <3>2, <3>3 DEF IInv, TableInv, WatchedInUse, Waited
      <3>6. TableInv'
        BY <2>1, <3>1, <3>2, <3>4, <3>5 DEF IInv, TableInv
      <3> QED  BY <1>1, <2>2, <3>6 DEF IInv
    <2>4. CASE event_of(fd).events # "none"
      <3>1. ev' = ev /\ epoll' = epoll
        BY <2>1, <2>4, StoreEffect DEF IInv, TableInv
      <3>2. WhollyUsedOrReleased'
        BY <3>1 DEF IInv, TableInv, WhollyUsedOrReleased, Consistent
      <3>3. WatchedInUse'
        BY <2>1, <3>1 DEF IInv, TableInv, WatchedInUse, Waited
      <3>4. TableInv'
        BY <2>1, <3>1, <3>2, <3>3 DEF IInv, TableInv
      <3> QED  BY <1>1, <2>2, <3>4 DEF IInv
    <2> QED  BY <2>3, <2>4
  <1> QED  BY <1>2, <1>3 DEF WaitOn

(* What aio_invoke does to the event it finds, and to epoll.               *)
LEMMA InvokeEffect ==
  ASSUME TableInv, NEW fd \in Fd, ev[fd] # NULL, aio_invoke(fd)
  PROVE  /\ ev[fd] \in AioEvent /\ Consistent(ev[fd])
         /\ ev' = [ev EXCEPT ![fd] = NewEvent]
         /\ epoll' = [epoll EXCEPT ![fd] = "none"]
  <1>1. ev[fd] \in AioEvent /\ Consistent(ev[fd])
    BY DEF TableInv, WhollyUsedOrReleased
  <1>2. ev' = [ev EXCEPT ![fd] = NewEvent]
    BY <1>1, FreedIsNew DEF aio_invoke
  <1>3. epoll' = [epoll EXCEPT ![fd] = "none"]
    <2>1. ev[fd].fd_type = "none" => epoll[fd] = "none"
      BY <1>1 DEF Consistent, TableInv, WatchedInUse, Waited
    <2>2. epoll' = freed_epoll(fd)  BY DEF aio_invoke
    <2> QED  BY <2>1, <2>2 DEF freed_epoll, TableInv
  <1> QED  BY <1>1, <1>2, <1>3

(* aio_invoke keeps the table and the coroutines in order.                 *)
LEMMA InvokeInv ==
  ASSUME TableInv, CoInv, NEW fd \in Fd, aio_invoke(fd)
  PROVE  TableInv' /\ CoInv'
  <1>1. CASE ev[fd] = NULL
    <2>1. UNCHANGED <<kind, epoll, ev, pc, stack>>  BY <1>1 DEF aio_invoke, kernel
    <2> QED  BY <2>1 DEF TableInv, CoInv, WhollyUsedOrReleased, Consistent, WatchedInUse, Waited
  <1>2. CASE ev[fd] # NULL
    <2>1. PICK k \in Transferred(ev[fd]) : kind' = freed_kind(fd, k)
      BY <1>2 DEF aio_invoke
    <2>2. k \in [Fd -> Kinds] /\ \A g \in Fd : k[g] = "closed" => kind[g] = "closed"
      BY LowestIsFree DEF Transferred, TableInv, Kinds
    <2>3. ev[fd] \in AioEvent /\ Consistent(ev[fd])  BY <1>2, InvokeEffect
    <2>4. ev' = [ev EXCEPT ![fd] = NewEvent]  BY <1>2, InvokeEffect
    <2>5. epoll' = [epoll EXCEPT ![fd] = "none"]  BY <1>2, InvokeEffect
    <2>6. /\ kind' \in [Fd -> Kinds]
          /\ \A g \in Fd \ {fd} : kind'[g] = k[g]
      BY <2>1, <2>2 DEF freed_kind, Kinds
    <2>7. WhollyUsedOrReleased'
      BY <2>4, NewIsConsistent DEF TableInv, WhollyUsedOrReleased, Consistent
    <2>8. WatchedInUse'
      BY <2>2, <2>4, <2>5, <2>6 DEF TableInv, WatchedInUse, Waited
    <2>9. TableInv'
      BY <2>4, <2>5, <2>6, <2>7, <2>8, NewIsConsistent DEF TableInv, Masks
    <2>10. CoInv'
      <3>1. CASE ev[fd].php_context = NULL
        BY <1>2, <3>1 DEF aio_invoke, CoInv
      <3>2. CASE ev[fd].php_context # NULL
        <4>1. ev[fd].php_context \in Co  BY <2>3, <3>2 DEF AioEvent
        <4>2. /\ pc' = [pc EXCEPT ![ev[fd].php_context] = "run"]
              /\ stack' = Append(stack, ev[fd].php_context)
          BY <1>2, <3>2 DEF aio_invoke
        <4> QED  BY <4>1, <4>2, StackFacts DEF CoInv
      <3> QED  BY <3>1, <3>2
    <2> QED  BY <2>9, <2>10
  <1> QED  BY <1>1, <1>2

(* The batch of epoll_wait is a sequence of reports.                       *)
LEMMA BatchType ==
  ASSUME TableInv, epoll_wait
  PROVE  batch' \in Seq(Report)
  <1>1. PICK S \in SUBSET {fd \in Fd : epoll[fd] # "none"} :
          \E order \in SetToSeqs(S), E \in SUBSET S :
            batch' = [i \in DOMAIN order |->
                        [fd |-> order[i],
                         events |-> IF order[i] \in E THEN "err" ELSE epoll[order[i]],
                         for |-> ev[order[i]].php_context]]
    BY DEF epoll_wait
  <1>2. PICK order \in SetToSeqs(S), E \in SUBSET S :
          batch' = [i \in DOMAIN order |->
                      [fd |-> order[i],
                       events |-> IF order[i] \in E THEN "err" ELSE epoll[order[i]],
                       for |-> ev[order[i]].php_context]]
    BY <1>1
  <1>3. IsFiniteSet(Fd)  BY ReactorAssumption, FS_Interval DEF Fd
  <1>4. IsFiniteSet(S)  BY <1>3, FS_Subset
  <1>5. Cardinality(S) \in Nat  BY <1>4, FS_CardinalityType
  <1>6. order \in [1 .. Cardinality(S) -> S]  BY <1>2 DEF SetToSeqs
  <1>7. \A fd \in S : /\ fd \in Fd /\ epoll[fd] \in {"in", "out"}
                      /\ ev[fd].php_context \in Co
    BY DEF TableInv, WatchedInUse, Waited, AioEvent, Masks
  <1>8. batch' \in [1 .. Cardinality(S) -> Report]
    BY <1>2, <1>6, <1>7 DEF Report
  <1> QED  BY <1>5, <1>8, SeqDef

LEMMA InitInv == Init => IInv
  <1> SUFFICES ASSUME Init PROVE IInv  OBVIOUS
  <1>1. TableInv
    BY DEF Init, TableInv, Kinds, Masks, WhollyUsedOrReleased, WatchedInUse
  <1>2. CoInv  BY EmptySeq DEF Init, CoInv
  <1>3. batch \in Seq(Report)  BY EmptySeq DEF Init
  <1>4. turn \in 0 .. MaxTurns  BY ReactorAssumption DEF Init
  <1>5. LoopInv  BY <1>3, <1>4 DEF Init, LoopInv
  <1> QED  BY <1>1, <1>2, <1>5 DEF IInv

(* A step that leaves the table, the coroutines or the loop alone keeps    *)
(* that part of the invariant.                                             *)
LEMMA Frames ==
  /\ TableInv /\ UNCHANGED <<kind, epoll, ev>> => TableInv'
  /\ CoInv /\ UNCHANGED <<pc, stack>> => CoInv'
  /\ LoopInv /\ UNCHANGED <<timeout_front, timeout_rear, main, loop, batch, turn>> => LoopInv'
  BY DEF TableInv, CoInv, LoopInv, WhollyUsedOrReleased, Consistent, WatchedInUse, Waited

(* The steps of the script.                                                *)
LEMMA ScriptInv == IInv /\ Script => IInv'
  <1> SUFFICES ASSUME IInv, Script PROVE IInv'  OBVIOUS
  <1> USE DEF IInv
  <1>1. ASSUME NEW fd \in Fd, NEW type \in {"accept", "normal"}, NEW mask \in {"in", "out"},
               Wait(fd, type, mask)
        PROVE  IInv'
    <2> DEFINE w == [php_context |-> Current, events |-> mask, fd_type |-> type,
                     arguments |-> TRUE, timer |-> FALSE]
    <2>1. Running /\ WaitOn(fd, w, kind)  BY <1>1 DEF Wait
    <2>2. Current \in Co /\ Current # NULL
      BY <2>1, StackFacts, ReactorAssumption DEF CoInv
    <2>3. w \in AioEvent /\ w.php_context # NULL /\ Consistent(w)
      BY <2>2 DEF AioEvent, Consistent
    <2>4. kind \in [Fd -> Kinds]  BY DEF TableInv
    <2> HIDE DEF w
    <2> QED  BY <2>1, <2>3, <2>4, WaitOnInv
  <1>2. CASE sleep
    <2> DEFINE w == [php_context |-> Current, events |-> "in", fd_type |-> "timer",
                     arguments |-> FALSE, timer |-> TRUE]
               k == [kind EXCEPT ![LowestFd] = "timer"]
    <2>1. Running /\ FreeFd # {} /\ WaitOn(LowestFd, w, k)  BY <1>2 DEF sleep
    <2>2. Current \in Co /\ Current # NULL
      BY <2>1, StackFacts, ReactorAssumption DEF CoInv
    <2>3. w \in AioEvent /\ w.php_context # NULL /\ Consistent(w)
      BY <2>2 DEF AioEvent, Consistent
    <2>4. LowestFd \in Fd  BY <2>1, LowestIsFree DEF TableInv
    <2>5. k \in [Fd -> Kinds] /\ \A g \in Fd : k[g] = "closed" => kind[g] = "closed"
      BY <2>4 DEF TableInv, Kinds
    <2> HIDE DEF w, k
    <2> QED  BY <2>1, <2>3, <2>4, <2>5, WaitOnInv
  <1>3. ASSUME NEW fd \in Fd, socket_close(fd) PROVE IInv'
    <2>1. /\ kind' = freed_kind(fd, [kind EXCEPT ![fd] = "closed"])
          /\ epoll' = [epoll EXCEPT ![fd] = "none"]
          /\ ev' = [ev EXCEPT ![fd] = freed_event(ev[fd])]
          /\ UNCHANGED <<timeout_front, timeout_rear, pc, stack, main, loop, batch, turn>>
      BY <1>3 DEF socket_close, timeouts, control
    <2>2. kind' = [kind EXCEPT ![fd] = "closed"]
      BY <2>1 DEF freed_kind, TableInv
    <2>3. ev' = [ev EXCEPT ![fd] = IF ev[fd] = NULL THEN NULL ELSE NewEvent]
      BY <2>1, FreedIsNew DEF TableInv, WhollyUsedOrReleased, freed_event
    <2>4. WhollyUsedOrReleased'
      BY <2>3, NewIsConsistent DEF TableInv, WhollyUsedOrReleased, Consistent
    <2>5. WatchedInUse'
      BY <2>1, <2>2, <2>3 DEF TableInv, WatchedInUse, Waited
    <2>6. TableInv'
      BY <2>1, <2>2, <2>3, <2>4, <2>5, NewIsConsistent DEF TableInv, Kinds, Masks
    <2> QED  BY <2>1, <2>6, Frames
  <1>4. ASSUME NEW fd \in Fd, PhpClose(fd) PROVE IInv'
    <2>1. /\ kind' = [kind EXCEPT ![fd] = "closed"]
          /\ epoll' = [epoll EXCEPT ![fd] = "none"]
          /\ UNCHANGED <<ev, timeout_front, timeout_rear, pc, stack, main, loop, batch, turn>>
      BY <1>4 DEF PhpClose, timeouts, control
    <2>2. TableInv'
      BY <2>1 DEF TableInv, Kinds, Masks, WhollyUsedOrReleased, Consistent, WatchedInUse, Waited
    <2> QED  BY <2>1, <2>2, Frames
  <1>5. ASSUME NEW k \in {"sock", "file"}, Open(k) PROVE IInv'
    <2>1. /\ FreeFd # {} /\ kind' = [kind EXCEPT ![LowestFd] = k]
          /\ UNCHANGED <<epoll, ev, timeout_front, timeout_rear, pc, stack, main, loop, batch, turn>>
      BY <1>5 DEF Open, timeouts, control
    <2>2. LowestFd \in Fd  BY <2>1, LowestIsFree DEF TableInv
    <2>3. TableInv'
      BY <2>1, <2>2 DEF TableInv, Kinds, WhollyUsedOrReleased, Consistent, WatchedInUse, Waited
    <2> QED  BY <2>1, <2>3, Frames
  <1>6. ASSUME NEW fd \in Fd, NEW persistent \in BOOLEAN, socket_set_timeout(fd, persistent)
        PROVE  IInv'
    <2>1. LoopInv'
      BY <1>6 DEF socket_set_timeout, LoopInv, control
    <2> QED  BY <1>6, <2>1, Frames DEF socket_set_timeout, kernel
  <1>7. ASSUME NEW co \in Co, Create(co) \/ Resume(co) PROVE IInv'
    <2>1. CoInv'  BY <1>7, StackFacts DEF Create, Resume, CoInv
    <2> QED  BY <1>7, <2>1, Frames DEF Create, Resume, kernel, timeouts, control
  <1>8. CASE Yield \/ Finish
    <2>1. CoInv'  BY <1>8, StackFacts DEF Yield, Finish, CoInv
    <2> QED  BY <1>8, <2>1, Frames DEF Yield, Finish, kernel, timeouts, control
  <1>9. CASE EnterLoop
    <2>1. LoopInv'  BY <1>9, ReactorAssumption DEF EnterLoop, LoopInv, timeouts
    <2> QED  BY <1>9, <2>1, Frames DEF EnterLoop, kernel
  <1> QED
    BY <1>1, <1>2, <1>3, <1>4, <1>5, <1>6, <1>7, <1>8, <1>9
    DEF Script, socket_accept, socket_read, socket_write, prepare, fetchAll

(* The steps of event_loop.                                                *)
LEMMA LoopStepInv == IInv /\ LoopStep => IInv'
  <1> SUFFICES ASSUME IInv, LoopStep PROVE IInv'  OBVIOUS
  <1> USE DEF IInv
  <1>1. CASE epoll_wait
    <2>1. LoopInv'
      BY <1>1, BatchType DEF epoll_wait, more_turns, LoopInv, timeouts
    <2> QED  BY <1>1, <2>1, Frames DEF epoll_wait, kernel
  <1>2. CASE Dispatch
    <2>1. Head(batch) \in Report /\ Tail(batch) \in Seq(Report)
      BY <1>2, HeadTailProperties DEF Dispatch, LoopInv
    <2>2. Head(batch).fd \in Fd  BY <2>1 DEF Report
    <2>3. LoopInv'
      BY <1>2, <2>1 DEF Dispatch, next_entries, LoopInv, timeouts
    <2>4. TableInv' /\ CoInv'
      BY <1>2, <2>2, InvokeInv, Frames DEF Dispatch, kernel
    <2> QED  BY <2>3, <2>4
  <1>3. CASE NoTimeout
    <2>1. LoopInv'
      BY <1>3, ReactorAssumption DEF NoTimeout, LoopInv, timeouts
    <2> QED  BY <1>3, <2>1, Frames DEF NoTimeout, kernel
  <1>4. CASE TimeoutFires
    <2>1. timeout_front.fd \in Fd  BY <1>4 DEF TimeoutFires, LoopInv
    <2>2. LoopInv'  BY <1>4 DEF TimeoutFires, LoopInv, timeouts
    <2>3. TableInv' /\ CoInv'  BY <1>4, <2>1, InvokeInv DEF TimeoutFires
    <2> QED  BY <2>2, <2>3
  <1>5. CASE TimeoutDone
    <2>1. LoopInv'
      BY <1>5, ReactorAssumption DEF TimeoutDone, LoopInv
    <2> QED  BY <1>5, <2>1, Frames DEF TimeoutDone, kernel
  <1>6. CASE LeaveLoop
    <2>1. LoopInv'  BY <1>6 DEF LeaveLoop, LoopInv, timeouts
    <2> QED  BY <1>6, <2>1, Frames DEF LeaveLoop, kernel
  <1> QED  BY <1>1, <1>2, <1>3, <1>4, <1>5, <1>6 DEF LoopStep

LEMMA StepInv == IInv /\ [Next]_vars => IInv'
  <1>1. IInv /\ UNCHANGED vars => IInv'  BY Frames DEF IInv, vars
  <1> QED  BY <1>1, ScriptInv, LoopStepInv DEF Next

LEMMA Invariance == Spec => []IInv
  BY InitInv, StepInv, PTL DEF Spec

(* The variables of the reactor keep their types: a stack of coroutines, a *)
(* batch of reports each of which names a coroutine, a turn counter that   *)
(* stops at its limit.                                                     *)
THEOREM TypeCorrect == Spec => []TypeOK
  <1>1. IInv => TypeOK
    BY DEF IInv, TableInv, CoInv, LoopInv, TypeOK, Kinds, Masks
  <1> QED  BY <1>1, Invariance, PTL

(* An event of the table is wholly in use or wholly released, for every    *)
(* script, also one that shares or closes descriptors under a waiting      *)
(* coroutine.                                                              *)
THEOREM EventsConsistent == Spec => []WhollyUsedOrReleased
  <1>1. IInv => WhollyUsedOrReleased  BY DEF IInv, TableInv
  <1> QED  BY <1>1, Invariance, PTL

(* epoll watches only descriptors on which a coroutine of the table waits. *)
THEOREM EpollConsistent == Spec => []WatchedInUse
  <1>1. IInv => WatchedInUse  BY DEF IInv, TableInv
  <1> QED  BY <1>1, Invariance, PTL
-----------------------------------------------------------------------------
(* Who runs.  The reactor is a schedule of coroutines as Cooperative says, *)
(* for every script, because of what holds of the stack, of the contexts   *)
(* in the table and of the crash.                                          *)
Depth == 1 .. Len(stack)

(* The coroutines on the stack run, and each is there once.                *)
StackRuns ==
  /\ \A i \in Depth : pc[stack[i]] = "run"
  /\ \A i, j \in Depth : stack[i] = stack[j] => i = j

(* A context in the table belongs to a coroutine that waits, and to one    *)
(* event: also when a wait was dropped because the descriptor was shared,  *)
(* or its descriptor was closed and reused.                                *)
ContextsWait ==
  /\ \A fd \in Fd : Waited(fd) => pc[ev[fd].php_context] = "wait"
  /\ \A fd, g \in Fd : Waited(fd) /\ Waited(g) /\ fd # g =>
       ev[fd].php_context # ev[g].php_context

(* The process dies in the loop, with no coroutine on the stack.           *)
CrashIsIdle == main = "crashed" => stack = << >>

ScheduleInv == IInv /\ StackRuns /\ ContextsWait /\ CrashIsIdle

(* The three kinds of step: a coroutine gets control, the running one      *)
(* gives it back, or neither.                                              *)
Enters(c) ==
  /\ c \in Co /\ pc[c] \in {"unborn", "wait", "yielded"}
  /\ pc' = [pc EXCEPT ![c] = "run"]
  /\ stack' = Append(stack, c)
  /\ main # "crashed" /\ main' = main

Leaves(x) ==
  /\ Running /\ x \in {"wait", "yielded", "done"}
  /\ pc' = [pc EXCEPT ![Current] = x]
  /\ stack' = SubSeq(stack, 1, Len(stack) - 1)
  /\ main' = main

Stays ==
  /\ UNCHANGED <<pc, stack>>
  /\ main = "crashed" => main' = "crashed"
  /\ main' = "crashed" => main = "crashed" \/ ~Running

Schedules == (\E c : Enters(c)) \/ (\E x : Leaves(x)) \/ Stays

(* Popping the running coroutine and pushing one that does not run keep    *)
(* the stack in order.                                                     *)
LEMMA PopRuns ==
  ASSUME CoInv, StackRuns, Running, NEW x,
         pc' = [pc EXCEPT ![Current] = x], stack' = SubSeq(stack, 1, Len(stack) - 1)
  PROVE  StackRuns' /\ Current \in Co /\ pc[Current] = "run"
  <1>1. Len(stack) \in Nat \ {0}  BY EmptySeq DEF CoInv, Running
  <1>2. \A i \in Depth : stack[i] \in Co  BY ElementOfSeq DEF CoInv, Depth
  <1>3. /\ Len(stack') = Len(stack) - 1
        /\ \A i \in 1 .. (Len(stack) - 1) : stack'[i] = stack[i]
    BY ButLast DEF CoInv, Running
  <1>4. \A i \in 1 .. (Len(stack) - 1) : stack[i] # Current
    BY <1>1 DEF StackRuns, Current, Depth
  <1>5. \A i \in Depth' : i \in Depth /\ stack'[i] = stack[i] /\ stack[i] # Current /\ stack[i] \in Co
    BY <1>1, <1>2, <1>3, <1>4 DEF Depth
  <1>6. Current \in Co /\ pc[Current] = "run"  BY <1>1, <1>2 DEF StackRuns, Current, Depth
  <1>7. \A i \in Depth' : pc'[stack'[i]] = "run"
    BY <1>5 DEF StackRuns, CoInv
  <1>8. \A i, j \in Depth' : stack'[i] = stack'[j] => i = j
    BY <1>5 DEF StackRuns
  <1> QED  BY <1>6, <1>7, <1>8 DEF StackRuns

LEMMA PushRuns ==
  ASSUME CoInv, StackRuns, NEW co \in Co, pc[co] # "run",
         pc' = [pc EXCEPT ![co] = "run"], stack' = Append(stack, co)
  PROVE  StackRuns'
  <1>1. Len(stack) \in Nat /\ \A i \in Depth : stack[i] \in Co
    BY ElementOfSeq, LenProperties DEF CoInv, Depth
  <1>2. /\ Len(stack') = Len(stack) + 1
        /\ stack'[Len(stack) + 1] = co
        /\ \A i \in Depth : stack'[i] = stack[i]
    BY <1>1 DEF CoInv, Depth
  <1>3. \A i \in Depth : stack[i] # co  BY DEF StackRuns
  <1>4. \A i \in Depth' : i \in Depth \/ i = Len(stack) + 1
    BY <1>1, <1>2 DEF Depth
  <1>5. \A i \in Depth' : pc'[stack'[i]] = "run"
    BY <1>1, <1>2, <1>3, <1>4 DEF StackRuns, CoInv
  <1>6. \A i, j \in Depth' : stack'[i] = stack'[j] => i = j
    BY <1>1, <1>2, <1>3, <1>4 DEF StackRuns
  <1> QED  BY <1>5, <1>6 DEF StackRuns

LEMMA StackStep ==
  ASSUME CoInv, StackRuns, CrashIsIdle, Schedules
  PROVE  StackRuns' /\ CrashIsIdle'
  <1>1. ASSUME NEW c, Enters(c) PROVE StackRuns' /\ CrashIsIdle'
    <2>1. StackRuns'  BY <1>1, PushRuns DEF Enters
    <2> QED  BY <1>1, <2>1 DEF Enters, CrashIsIdle
  <1>2. ASSUME NEW x, Leaves(x) PROVE StackRuns' /\ CrashIsIdle'
    <2>1. StackRuns'  BY <1>2, PopRuns DEF Leaves
    <2> QED  BY <1>2, <2>1 DEF Leaves, CrashIsIdle, Running
  <1>3. CASE Stays
    BY <1>3 DEF Stays, StackRuns, Depth, CrashIsIdle, Running
  <1> QED  BY <1>1, <1>2, <1>3 DEF Schedules

LEMMA ContextInCo ==
  ASSUME TableInv
  PROVE  \A g \in Fd : Waited(g) => ev[g].php_context \in Co
  BY DEF TableInv, Waited, AioEvent

(* Contexts are only taken out of the table, and their coroutines wait on. *)
LEMMA ContextsKept ==
  ASSUME ContextsWait,
         \A g \in Fd : Waited(g)' =>
           /\ Waited(g) /\ ev'[g].php_context = ev[g].php_context
           /\ pc'[ev[g].php_context] = "wait"
  PROVE  ContextsWait'
  BY DEF ContextsWait

(* A waiting call: its coroutine, which had no context in the table, may   *)
(* get one; one that waits already keeps its own.                          *)
LEMMA WaitSchedules ==
  ASSUME ScheduleInv, Running, NEW fd \in Fd, NEW w \in AioEvent, w.php_context = Current,
         NEW k, WaitOn(fd, w, k)
  PROVE  ContextsWait' /\ Schedules
  <1>0. TableInv /\ CoInv /\ StackRuns /\ ContextsWait  BY DEF ScheduleInv, IInv
  <1>t. \A g \in Fd : Waited(g) => ev[g].php_context \in Co  BY <1>0, ContextInCo
  <1>1. CASE Refuse(fd)
    <2>1. ev' = [ev EXCEPT ![fd] = NULL] /\ UNCHANGED <<pc, stack, main>>
      BY <1>1 DEF WaitOn, Refuse, control
    <2>2. \A g \in Fd : Waited(g)' => Waited(g) /\ ev'[g] = ev[g]
      BY <1>0, <2>1 DEF Waited, TableInv
    <2>3. ContextsWait'
      BY <1>0, <2>1, <2>2, ContextsKept DEF ContextsWait
    <2> QED  BY <2>1, <2>3 DEF Schedules, Stays
  <1>2. CASE Store(fd, w, k)
    <2>1. /\ ev' = [ev EXCEPT ![fd] = stored_event(fd, w)]
          /\ pc' = [pc EXCEPT ![Current] = "wait"]
          /\ stack' = SubSeq(stack, 1, Len(stack) - 1)
          /\ main' = main
      BY <1>2 DEF WaitOn, Store, coro_yield, control
    <2>2. Current \in Co /\ pc[Current] = "run"  BY <1>0, <2>1, PopRuns
    <2>3. \A g \in Fd : Waited(g) =>
            ev[g].php_context # Current /\ pc'[ev[g].php_context] = "wait"
      BY <1>0, <1>t, <2>1, <2>2 DEF ContextsWait, CoInv
    <2>4. CASE event_of(fd).events = "none"
      <3>1. ev' = [ev EXCEPT ![fd] = w]  BY <1>0, <2>1, <2>4, StoreEffect
      <3>2. ev'[fd] = w /\ \A g \in Fd \ {fd} : ev'[g] = ev[g] /\ (Waited(g)' <=> Waited(g))
        BY <1>0, <3>1 DEF TableInv, Waited
      <3>3. pc'[Current] = "wait"  BY <1>0, <2>1, <2>2 DEF CoInv
      <3>4. ContextsWait'  BY <1>0, <2>3, <3>2, <3>3 DEF ContextsWait
      <3> QED  BY <2>1, <3>4 DEF Schedules, Leaves
    <2>5. CASE event_of(fd).events # "none"
      <3>1. ev' = ev  BY <1>0, <2>1, <2>5, StoreEffect DEF TableInv
      <3>2. ContextsWait'  BY <1>0, <2>3, <3>1, ContextsKept DEF Waited
      <3> QED  BY <2>1, <3>2 DEF Schedules, Leaves
    <2> QED  BY <2>4, <2>5
  <1> QED  BY <1>1, <1>2 DEF WaitOn

(* aio_invoke resumes a coroutine that waits, or nobody.                   *)
LEMMA InvokeSchedules ==
  ASSUME ScheduleInv, NEW fd \in Fd, aio_invoke(fd), main # "crashed", main' = main
  PROVE  ContextsWait' /\ Schedules
  <1>0. TableInv /\ CoInv /\ ContextsWait  BY DEF ScheduleInv, IInv
  <1>1. CASE ev[fd] = NULL
    <2>1. UNCHANGED <<ev, pc, stack>>  BY <1>1 DEF aio_invoke
    <2>2. ContextsWait'  BY <1>0, <2>1 DEF ContextsWait, Waited
    <2> QED  BY <2>1, <2>2 DEF Schedules, Stays
  <1>2. CASE ev[fd] # NULL
    <2>1. ev' = [ev EXCEPT ![fd] = NewEvent]  BY <1>0, <1>2, InvokeEffect
    <2>2. \A g \in Fd : Waited(g)' => g # fd /\ Waited(g) /\ ev'[g] = ev[g]
      BY <1>0, <2>1 DEF Waited, NewEvent, TableInv
    <2>3. CASE ev[fd].php_context = NULL
      <3>1. UNCHANGED <<pc, stack>>  BY <1>2, <2>3 DEF aio_invoke
      <3>2. ContextsWait'  BY <1>0, <2>2, <3>1, ContextsKept DEF ContextsWait
      <3> QED  BY <3>1, <3>2 DEF Schedules, Stays
    <2>4. CASE ev[fd].php_context # NULL
      <3>1. PICK c \in Co : c = ev[fd].php_context  BY <1>0, <1>2, <2>4, ContextInCo DEF Waited
      <3>2. Waited(fd) /\ pc[c] = "wait"  BY <1>0, <1>2, <2>4, <3>1 DEF Waited, ContextsWait
      <3>3. pc' = [pc EXCEPT ![c] = "run"] /\ stack' = Append(stack, c)
        BY <1>2, <2>4, <3>1 DEF aio_invoke
      <3>4. \A g \in Fd : Waited(g)' =>
              ev[g].php_context # c /\ ev[g].php_context \in Co /\ pc[ev[g].php_context] = "wait"
        BY <1>0, <2>2, <3>1, <3>2, ContextInCo DEF ContextsWait
      <3>5. ContextsWait'
        BY <1>0, <2>2, <3>3, <3>4, ContextsKept DEF CoInv
      <3>6. Enters(c)  BY <3>2, <3>3 DEF Enters
      <3> QED  BY <3>5, <3>6 DEF Schedules
    <2> QED  BY <2>3, <2>4
  <1> QED  BY <1>1, <1>2

(* Every step of the script and of the loop is one of the three kinds.     *)
LEMMA ScheduleStep ==
  ASSUME ScheduleInv, [Next]_vars
  PROVE  ContextsWait' /\ Schedules
  <1>0. TableInv /\ CoInv /\ LoopInv /\ StackRuns /\ ContextsWait /\ CrashIsIdle
    BY DEF ScheduleInv, IInv
  <1>t. /\ \A g \in Fd : Waited(g) => ev[g].php_context \in Co
        /\ Running => Current \in Co /\ main # "crashed"
    BY <1>0, ContextInCo, StackFacts DEF CoInv, CrashIsIdle, Running
  <1>1. ASSUME NEW fd \in Fd, NEW type \in {"accept", "normal"}, NEW mask \in {"in", "out"},
               Wait(fd, type, mask)
        PROVE  ContextsWait' /\ Schedules
    <2> DEFINE w == [php_context |-> Current, events |-> mask, fd_type |-> type,
                     arguments |-> TRUE, timer |-> FALSE]
    <2>1. Running /\ WaitOn(fd, w, kind)  BY <1>1 DEF Wait
    <2>2. w \in AioEvent /\ w.php_context = Current  BY <1>t, <2>1 DEF AioEvent
    <2> HIDE DEF w
    <2> QED  BY <2>1, <2>2, WaitSchedules
  <1>2. CASE sleep
    <2> DEFINE w == [php_context |-> Current, events |-> "in", fd_type |-> "timer",
                     arguments |-> FALSE, timer |-> TRUE]
               k == [kind EXCEPT ![LowestFd] = "timer"]
    <2>1. Running /\ FreeFd # {} /\ WaitOn(LowestFd, w, k)  BY <1>2 DEF sleep
    <2>2. w \in AioEvent /\ w.php_context = Current  BY <1>t, <2>1 DEF AioEvent
    <2>3. LowestFd \in Fd  BY <1>0, <2>1, LowestIsFree DEF TableInv
    <2> HIDE DEF w, k
    <2> QED  BY <2>1, <2>2, <2>3, WaitSchedules
  <1>3. ASSUME NEW fd \in Fd, socket_close(fd) PROVE ContextsWait' /\ Schedules
    <2>1. /\ ev' = [ev EXCEPT ![fd] = freed_event(ev[fd])]
          /\ UNCHANGED <<pc, stack, main>>
      BY <1>3 DEF socket_close, control
    <2>2. ev' = [ev EXCEPT ![fd] = IF ev[fd] = NULL THEN NULL ELSE NewEvent]
      BY <1>0, <2>1, FreedIsNew DEF TableInv, WhollyUsedOrReleased, freed_event
    <2>3. \A g \in Fd : Waited(g)' => Waited(g) /\ ev'[g] = ev[g]
      BY <1>0, <2>2 DEF Waited, NewEvent, TableInv
    <2>4. ContextsWait'  BY <1>0, <2>1, <2>3, ContextsKept DEF ContextsWait
    <2> QED  BY <2>1, <2>4 DEF Schedules, Stays
  <1>4. ASSUME UNCHANGED <<ev, pc, stack, main>> PROVE ContextsWait' /\ Schedules
    BY <1>0, <1>4 DEF ContextsWait, Waited, Schedules, Stays
  <1>5. CASE \/ \E fd \in Fd : PhpClose(fd) \/ \E p \in BOOLEAN : socket_set_timeout(fd, p)
             \/ \E k \in {"sock", "file"} : Open(k)
    BY <1>4, <1>5 DEF PhpClose, Open, socket_set_timeout, control
  <1>6. ASSUME NEW c \in Co, Create(c) \/ Resume(c) PROVE ContextsWait' /\ Schedules
    <2>1. Enters(c) /\ ev' = ev
      BY <1>6, <1>t DEF Create, Resume, Scripting, control, Enters
    <2>2. \A g \in Fd : Waited(g) => ev[g].php_context # c
      BY <1>0, <2>1, <1>6 DEF ContextsWait, Create, Resume
    <2>3. ContextsWait'
      BY <1>0, <1>t, <2>1, <2>2, ContextsKept DEF ContextsWait, Waited, Enters, CoInv
    <2> QED  BY <2>1, <2>3 DEF Schedules
  <1>7. CASE Yield \/ Finish
    <2>1. PICK x : Leaves(x) /\ ev' = ev  BY <1>7 DEF Yield, Finish, control, Leaves
    <2>2. Current \in Co /\ pc[Current] = "run"  BY <1>0, <2>1, PopRuns DEF Leaves
    <2>3. ContextsWait'
      BY <1>0, <1>t, <2>1, <2>2, ContextsKept DEF ContextsWait, Waited, Leaves, CoInv
    <2> QED  BY <2>1, <2>3 DEF Schedules
  <1>8. CASE EnterLoop \/ epoll_wait \/ NoTimeout \/ LeaveLoop \/ TimeoutDone
    <2>1. UNCHANGED <<ev, pc, stack>>
      BY <1>8 DEF EnterLoop, epoll_wait, NoTimeout, LeaveLoop, TimeoutDone
    <2>2. ~Running /\ main # "crashed"
      BY <1>8 DEF EnterLoop, epoll_wait, NoTimeout, LeaveLoop, TimeoutDone, Looping
    <2>3. ContextsWait'  BY <1>0, <2>1 DEF ContextsWait, Waited
    <2> QED  BY <2>1, <2>2, <2>3 DEF Schedules, Stays
  <1>9. CASE Dispatch
    <2>1. main # "crashed" /\ main' = main  BY <1>9 DEF Dispatch, Looping
    <2>t. Head(batch) \in Report
      BY <1>0, <1>9, HeadTailProperties DEF Dispatch, LoopInv
    <2>2. PICK fd \in Fd : fd = Head(batch).fd  BY <2>t DEF Report
    <2>3. CASE acts_on(Head(batch).events)
      <3>1. aio_invoke(fd)  BY <1>9, <2>2, <2>3 DEF Dispatch
      <3> QED  BY <2>1, <3>1, InvokeSchedules
    <2>4. CASE ~acts_on(Head(batch).events)
      BY <1>4, <1>9, <2>1, <2>4 DEF Dispatch
    <2> QED  BY <2>3, <2>4
  <1>10. CASE TimeoutFires
    <2>1. PICK fd \in Fd : fd = timeout_front.fd  BY <1>0, <1>10 DEF TimeoutFires, LoopInv
    <2>2. aio_invoke(fd) /\ main # "crashed" /\ main' = main
      BY <1>10, <2>1 DEF TimeoutFires, Looping
    <2> QED  BY <2>2, InvokeSchedules
  <1>11. CASE UNCHANGED vars  BY <1>4, <1>11 DEF vars
  <1> QED
    BY <1>1, <1>2, <1>3, <1>5, <1>6, <1>7, <1>8, <1>9, <1>10, <1>11
    DEF Next, Script, LoopStep, socket_accept, socket_read, socket_write, prepare, fetchAll

LEMMA ScheduleInvariance == Spec => []ScheduleInv
  <1>1. Init => ScheduleInv
    <2> SUFFICES ASSUME Init PROVE ScheduleInv  OBVIOUS
    <2>1. Depth = {}  BY EmptySeq DEF Init, Depth
    <2>2. StackRuns /\ ContextsWait /\ CrashIsIdle
      BY <2>1 DEF Init, StackRuns, ContextsWait, CrashIsIdle, Waited
    <2> QED  BY <2>2, InitInv DEF ScheduleInv
  <1>2. ScheduleInv /\ [Next]_vars => ScheduleInv'
    <2> SUFFICES ASSUME ScheduleInv, [Next]_vars PROVE ScheduleInv'  OBVIOUS
    <2>1. IInv'  BY StepInv DEF ScheduleInv
    <2>2. ContextsWait' /\ Schedules  BY ScheduleStep
    <2>3. StackRuns' /\ CrashIsIdle'  BY <2>2, StackStep DEF ScheduleInv, IInv
    <2> QED  BY <2>1, <2>2, <2>3 DEF ScheduleInv
  <1> QED  BY <1>1, <1>2, PTL DEF Spec

(* The abstract state, read off the stack and the program counters.        *)
CallersOf(s) == [i \in DOMAIN s |-> IF i = 1 THEN NULL ELSE s[i - 1]]
InControl == IF Running THEN Current ELSE NULL
Suspended == {co \in Co : pc[co] \in {"wait", "yielded"}}
Born == {co \in Co : pc[co] # "unborn"}

LEMMA CallersSeq ==
  ASSUME NEW s \in Seq(Co)
  PROVE  /\ CallersOf(s) \in Seq(Co \cup {NULL})
         /\ Len(s) \in Nat /\ Len(CallersOf(s)) = Len(s)
         /\ \A i \in 1 .. Len(s) : CallersOf(s)[i] = IF i = 1 THEN NULL ELSE s[i - 1]
  <1>1. Len(s) \in Nat /\ DOMAIN s = 1 .. Len(s)  BY LenProperties
  <1>2. \A i \in 1 .. Len(s) : s[i] \in Co  BY ElementOfSeq
  <1>3. \A i \in 1 .. Len(s) : i # 1 => i - 1 \in 1 .. Len(s)  BY <1>1
  <1>4. CallersOf(s) \in [1 .. Len(s) -> Co \cup {NULL}]
    BY <1>1, <1>2, <1>3 DEF CallersOf
  <1>5. CallersOf(s) \in Seq(Co \cup {NULL})  BY <1>1, <1>4, SeqDef
  <1>6. /\ Len(CallersOf(s)) \in Nat /\ DOMAIN CallersOf(s) = 1 .. Len(CallersOf(s))
        /\ DOMAIN CallersOf(s) = 1 .. Len(s)
    BY <1>1, <1>4, <1>5, LenProperties
  <1>7. \A m, n \in Nat : 1 .. m = 1 .. n => m = n
    <2> SUFFICES ASSUME NEW m \in Nat, NEW n \in Nat, 1 .. m = 1 .. n, m < n PROVE FALSE
      OBVIOUS
    <2>1. n \in 1 .. n /\ n \notin 1 .. m  OBVIOUS
    <2> QED  BY <2>1
  <1>8. Len(CallersOf(s)) = Len(s)  BY <1>1, <1>6, <1>7
  <1> QED  BY <1>1, <1>5, <1>8 DEF CallersOf

LEMMA CallersPush ==
  ASSUME CoInv, NEW c \in Co, stack' = Append(stack, c)
  PROVE  CallersOf(stack') = Append(CallersOf(stack), InControl) /\ InControl' = c
  <1>0. stack \in Seq(Co)  BY DEF CoInv
  <1>1. /\ CallersOf(stack) \in Seq(Co \cup {NULL})
        /\ Len(stack) \in Nat /\ Len(CallersOf(stack)) = Len(stack)
        /\ \A i \in 1 .. Len(stack) : CallersOf(stack)[i] = IF i = 1 THEN NULL ELSE stack[i - 1]
    BY <1>0, CallersSeq
  <1>2. /\ stack' \in Seq(Co) /\ Len(stack') = Len(stack) + 1
        /\ \A i \in 1 .. Len(stack) : stack'[i] = stack[i]
        /\ stack'[Len(stack) + 1] = c
    BY <1>0, AppendProperties
  <1>3. /\ CallersOf(stack') \in Seq(Co \cup {NULL}) /\ Len(CallersOf(stack')) = Len(stack) + 1
        /\ \A i \in 1 .. (Len(stack) + 1) :
             CallersOf(stack')[i] = IF i = 1 THEN NULL ELSE stack'[i - 1]
    BY <1>2, CallersSeq
  <1>4. Running <=> Len(stack) # 0  BY <1>0, <1>1, EmptySeq DEF Running
  <1>5. InControl \in Co \cup {NULL}  BY <1>0, StackFacts DEF InControl
  <1>6. /\ Append(CallersOf(stack), InControl) \in Seq(Co \cup {NULL})
        /\ Len(Append(CallersOf(stack), InControl)) = Len(stack) + 1
        /\ \A i \in 1 .. Len(stack) : Append(CallersOf(stack), InControl)[i] = CallersOf(stack)[i]
        /\ Append(CallersOf(stack), InControl)[Len(stack) + 1] = InControl
    BY <1>1, <1>5, AppendProperties
  <1>7. ASSUME NEW i \in 1 .. (Len(stack) + 1)
        PROVE  CallersOf(stack')[i] = Append(CallersOf(stack), InControl)[i]
    <2>1. CASE i = 1 /\ Len(stack) = 0
      BY <1>3, <1>4, <1>6, <2>1 DEF InControl
    <2>2. CASE i = 1 /\ Len(stack) # 0
      <3>1. 1 \in 1 .. Len(stack)  BY <1>1, <2>2
      <3> QED  BY <1>1, <1>3, <1>6, <2>2, <3>1
    <2>3. CASE i # 1 /\ i \in 1 .. Len(stack)
      <3>1. i - 1 \in 1 .. Len(stack)  BY <1>1, <2>3
      <3> QED  BY <1>1, <1>2, <1>3, <1>6, <2>3, <3>1
    <2>4. CASE i # 1 /\ i = Len(stack) + 1
      <3>1. i - 1 = Len(stack) /\ Len(stack) \in 1 .. Len(stack)  BY <1>1, <2>4
      <3>2. CallersOf(stack')[i] = stack[Len(stack)]  BY <1>2, <1>3, <2>4, <3>1
      <3>3. InControl = stack[Len(stack)]  BY <1>1, <1>4, <3>1 DEF InControl, Current
      <3> QED  BY <1>6, <2>4, <3>2, <3>3
    <2> QED  BY <1>1, <2>1, <2>2, <2>3, <2>4
  <1>8. CallersOf(stack') = Append(CallersOf(stack), InControl)
    BY <1>3, <1>6, <1>7, SeqEqual
  <1>9. InControl' = c
    <2>1. stack' # << >>  BY <1>1, <1>2, EmptySeq
    <2> QED  BY <1>2, <2>1 DEF InControl, Running, Current
  <1> QED  BY <1>8, <1>9

LEMMA CallersPop ==
  ASSUME CoInv, Running, stack' = SubSeq(stack, 1, Len(stack) - 1)
  PROVE  /\ CallersOf(stack') = SubSeq(CallersOf(stack), 1, Len(CallersOf(stack)) - 1)
         /\ InControl' = CallersOf(stack)[Len(CallersOf(stack))]
         /\ InControl = Current /\ InControl # NULL
  <1>0. stack \in Seq(Co) /\ Current \in Co  BY StackFacts DEF CoInv
  <1>1. /\ CallersOf(stack) \in Seq(Co \cup {NULL})
        /\ Len(stack) \in Nat /\ Len(CallersOf(stack)) = Len(stack)
        /\ \A i \in 1 .. Len(stack) : CallersOf(stack)[i] = IF i = 1 THEN NULL ELSE stack[i - 1]
    BY <1>0, CallersSeq
  <1>2. Len(stack) # 0  BY <1>0, EmptySeq DEF Running
  <1>3. CallersOf(stack) # << >>  BY <1>1, <1>2, EmptySeq
  <1>4. /\ stack' \in Seq(Co) /\ Len(stack') = Len(stack) - 1
        /\ \A i \in 1 .. (Len(stack) - 1) : stack'[i] = stack[i]
    BY <1>0, ButLast DEF Running
  <1>5. /\ CallersOf(stack') \in Seq(Co \cup {NULL}) /\ Len(CallersOf(stack')) = Len(stack) - 1
        /\ \A i \in 1 .. (Len(stack) - 1) :
             CallersOf(stack')[i] = IF i = 1 THEN NULL ELSE stack'[i - 1]
    BY <1>4, CallersSeq
  <1>6. /\ SubSeq(CallersOf(stack), 1, Len(stack) - 1) \in Seq(Co \cup {NULL})
        /\ Len(SubSeq(CallersOf(stack), 1, Len(stack) - 1)) = Len(stack) - 1
        /\ \A i \in 1 .. (Len(stack) - 1) :
             SubSeq(CallersOf(stack), 1, Len(stack) - 1)[i] = CallersOf(stack)[i]
    BY <1>1, <1>3, ButLast
  <1>7. ASSUME NEW i \in 1 .. (Len(stack) - 1)
        PROVE  CallersOf(stack')[i] = SubSeq(CallersOf(stack), 1, Len(stack) - 1)[i]
    <2>1. i \in 1 .. Len(stack) /\ (i # 1 => i - 1 \in 1 .. (Len(stack) - 1))  BY <1>1
    <2>2. CallersOf(stack')[i] = CallersOf(stack)[i]  BY <1>1, <1>4, <1>5, <2>1
    <2> QED  BY <1>6, <2>2
  <1>8. CallersOf(stack') = SubSeq(CallersOf(stack), 1, Len(CallersOf(stack)) - 1)
    BY <1>1, <1>5, <1>6, <1>7, SeqEqual
  <1>9. InControl' = CallersOf(stack)[Len(stack)]
    <2>1. Len(stack) \in 1 .. Len(stack)  BY <1>1, <1>2
    <2>2. CASE Len(stack) = 1
      <3>1. stack' = << >>  BY <1>4, <2>2, EmptySeq
      <3> QED  BY <1>1, <2>1, <2>2, <3>1 DEF InControl, Running
    <2>3. CASE Len(stack) # 1
      <3>0. Len(stack) - 1 \in 1 .. (Len(stack) - 1) /\ Len(stack) - 1 # 0  BY <1>1, <1>2, <2>3
      <3>1. stack' # << >> /\ Len(stack) - 1 \in 1 .. (Len(stack) - 1)
        BY <1>4, <3>0, EmptySeq
      <3>2. InControl' = stack[Len(stack) - 1]
        BY <1>4, <3>1 DEF InControl, Running, Current
      <3> QED  BY <1>1, <2>1, <2>3, <3>2
    <2> QED  BY <2>2, <2>3
  <1>10. InControl = Current /\ InControl # NULL
    BY <1>0, ReactorAssumption DEF InControl
  <1> QED  BY <1>1, <1>8, <1>9, <1>10

(* Each kind of step is a step of Cooperative, or none.                    *)
LEMMA AbsStep == ScheduleInv /\ [Next]_vars => [Abs!Next]_(Abs!vars)
  <1> SUFFICES ASSUME ScheduleInv, [Next]_vars PROVE [Abs!Next]_(Abs!vars)  OBVIOUS
  <1>0. CoInv /\ StackRuns /\ CrashIsIdle /\ Schedules
    BY ScheduleStep DEF ScheduleInv, IInv
  <1> USE DEF CallersOf, InControl, Suspended, Born
  <1>1. ASSUME NEW c, Enters(c) PROVE \E co \in Co : Abs!Start(co) \/ Abs!Continue(co)
    <2>1. /\ c \in Co /\ pc[c] \in {"unborn", "wait", "yielded"}
          /\ pc' = [pc EXCEPT ![c] = "run"] /\ stack' = Append(stack, c)
          /\ main # "crashed" /\ main' = main
      BY <1>1 DEF Enters
    <2>2. CallersOf(stack') = Append(CallersOf(stack), InControl) /\ InControl' = c
      <3> HIDE DEF CallersOf, InControl
      <3> QED  BY <1>0, <2>1, CallersPush
    <2>3. CASE pc[c] = "unborn"
      <3>1. c \notin Born /\ Born' = Born \cup {c} /\ Suspended' = Suspended
        BY <1>0, <2>1, <2>3 DEF CoInv
      <3>2. Abs!Start(c)  BY <2>1, <2>2, <3>1 DEF Abs!Start
      <3> QED  BY <2>1, <3>2
    <2>4. CASE pc[c] # "unborn"
      <3>1. c \in Suspended /\ Born' = Born /\ Suspended' = Suspended \ {c}
        BY <1>0, <2>1, <2>4 DEF CoInv
      <3>2. Abs!Continue(c)  BY <2>1, <2>2, <3>1 DEF Abs!Continue
      <3> QED  BY <2>1, <3>2
    <2> QED  BY <2>3, <2>4
  <1>2. ASSUME NEW x, Leaves(x) PROVE Abs!Suspend \/ Abs!End
    <2>1. /\ Running /\ x \in {"wait", "yielded", "done"}
          /\ pc' = [pc EXCEPT ![Current] = x]
          /\ stack' = SubSeq(stack, 1, Len(stack) - 1)
          /\ main' = main
      BY <1>2 DEF Leaves
    <2>2. main # "crashed"  BY <1>0, <2>1 DEF CrashIsIdle, Running
    <2>3. Current \in Co /\ pc[Current] = "run"  BY <1>0, <2>1, PopRuns
    <2>4. /\ CallersOf(stack') = SubSeq(CallersOf(stack), 1, Len(CallersOf(stack)) - 1)
          /\ InControl' = CallersOf(stack)[Len(CallersOf(stack))]
          /\ InControl = Current /\ InControl # NULL
      <3> HIDE DEF CallersOf, InControl
      <3> QED  BY <1>0, <2>1, CallersPop
    <2>5. Born' = Born  BY <1>0, <2>1, <2>3 DEF CoInv
    <2>6. Abs!BackToCaller  BY <2>1, <2>2, <2>4, <2>5 DEF Abs!BackToCaller
    <2>7. CASE x = "done"
      <3>1. Suspended' = Suspended  BY <1>0, <2>1, <2>3, <2>7 DEF CoInv
      <3> QED  BY <2>6, <3>1 DEF Abs!End
    <2>8. CASE x # "done"
      <3>1. Suspended' = Suspended \cup {InControl}
        BY <1>0, <2>1, <2>3, <2>4, <2>8 DEF CoInv
      <3> QED  BY <2>6, <3>1 DEF Abs!Suspend
    <2> QED  BY <2>7, <2>8
  <1>3. CASE Stays
    <2>1. UNCHANGED <<pc, stack>>  BY <1>3 DEF Stays
    <2>2. /\ CallersOf(stack') = CallersOf(stack) /\ InControl' = InControl
          /\ Born' = Born /\ Suspended' = Suspended
      BY <2>1 DEF Running, Current
    <2>3. CASE main # "crashed" /\ main' = "crashed"
      <3>1. Abs!Stop  BY <2>2, <2>3 DEF Abs!Stop
      <3> QED  BY <3>1 DEF Abs!Next
    <2>4. CASE (main = "crashed") = (main' = "crashed")
      BY <2>2, <2>4 DEF Abs!vars
    <2> QED  BY <1>3, <2>3, <2>4 DEF Stays
  <1> QED  BY <1>0, <1>1, <1>2, <1>3 DEF Schedules, Abs!Next

(* For every script, also one that shares descriptors between coroutines   *)
(* or closes them under a waiting one: the waits, the table and the loop   *)
(* resume only suspended coroutines, one at a time, and control goes back  *)
(* to whoever had it.                                                      *)
THEOREM ReactorIsCooperative == Spec => ImplementsCooperative
  <1>1. Init => Abs!Init
    <2> SUFFICES ASSUME Init PROVE Abs!Init  OBVIOUS
    <2>1. stack \in Seq(Co) /\ Len(stack) = 0 /\ ~Running  BY EmptySeq DEF Init, Running
    <2>2. CallersOf(stack) \in Seq(Co \cup {NULL}) /\ Len(CallersOf(stack)) = 0
      BY <2>1, CallersSeq
    <2>3. CallersOf(stack) = << >>  BY <2>2, EmptySeq
    <2>4. Born = {} /\ Suspended = {} /\ main # "crashed"  BY DEF Init, Born, Suspended
    <2> QED  BY <2>1, <2>3, <2>4 DEF Abs!Init, CallersOf, Born, Suspended
  <1>2. ScheduleInv /\ [Next]_vars => [Abs!Next]_(Abs!vars)  BY AbsStep
  <1> QED
    BY <1>1, <1>2, ScheduleInvariance, PTL DEF Spec, ImplementsCooperative, Abs!Spec
-----------------------------------------------------------------------------
(* Wake-ups, for a script that keeps the rules of use.                     *)

(* A coroutine waits only on descriptors that epoll accepts.               *)
WaitedPollable == \A fd \in Fd : Waited(fd) => kind[fd] \in {"sock", "timer"}

(* A descriptor is reported once in a batch.                               *)
ReportedOnce == \A i, j \in DOMAIN batch : batch[i].fd = batch[j].fd => i = j

WaitersInv == NoLostWaiter /\ TimerOwned /\ WaitedPollable
BatchInv   == BatchStaysTrue /\ ReportedOnce

WakeupInv == IInv /\ WaitersInv /\ BatchInv /\ StackRuns

(* A step leaves g alone, or opens it.                                     *)
Grown(g) ==
  /\ ev'[g] = ev[g] /\ epoll'[g] = epoll[g]
  /\ kind'[g] = kind[g] \/ (kind[g] = "closed" /\ kind'[g] \in {"sock", "file"})

(* Nothing is done to a wait: only descriptors on which nobody waits are   *)
(* opened, closed or released.                                             *)
LEMMA WaitersKept ==
  ASSUME WaitersInv, NEW fd \in Fd, ~Waited(fd), ~Waited(fd)',
         kind'[fd] = "timer" => ev'[fd] = NULL,
         \A g \in Fd \ {fd} : Grown(g),
         \A co \in Co : pc'[co] = "wait" <=> pc[co] = "wait",
         \A g \in Fd : Waited(g) => ev[g].php_context \in Co
  PROVE  WaitersInv'
  <1>1. \A g \in Fd \ {fd} : Waited(g)' <=> Waited(g)  BY DEF Grown, Waited
  <1>2. NoLostWaiter'
    <2>1. ASSUME NEW co \in Co, pc'[co] = "wait"
          PROVE  \E g \in Fd : (Waited(g) /\ ev[g].php_context = co /\ epoll[g] = ev[g].events)'
      <3>1. PICK g \in Fd : Waited(g) /\ ev[g].php_context = co /\ epoll[g] = ev[g].events
        BY <2>1 DEF WaitersInv, NoLostWaiter
      <3>2. g \in Fd \ {fd}  BY <3>1
      <3> QED  BY <1>1, <3>1, <3>2 DEF Grown
    <2>2. \A g \in Fd : Waited(g)' => pc'[ev'[g].php_context] = "wait"
      BY <1>1 DEF Grown, WaitersInv, NoLostWaiter
    <2>3. \A g, h \in Fd : Waited(g)' /\ Waited(h)' /\ g # h =>
            ev'[g].php_context # ev'[h].php_context
      BY <1>1 DEF Grown, WaitersInv, NoLostWaiter
    <2> QED  BY <2>1, <2>2, <2>3 DEF NoLostWaiter
  <1>3. TimerOwned'  BY <1>1 DEF Grown, WaitersInv, TimerOwned
  <1>4. WaitedPollable'  BY <1>1 DEF Grown, WaitersInv, WaitedPollable
  <1> QED  BY <1>2, <1>3, <1>4 DEF WaitersInv

(* The coroutine c, which runs, begins the wait w on fd, on which nobody   *)
(* waits.                                                                  *)
LEMMA WaitersAdded ==
  ASSUME WaitersInv, CoInv, NEW fd \in Fd, ~Waited(fd), NEW c \in Co, pc[c] = "run",
         NEW w, w # NULL, w.php_context = c, ev'[fd] = w, epoll'[fd] = w.events,
         kind'[fd] \in {"sock", "timer"}, kind'[fd] = "timer" <=> w.fd_type = "timer",
         \A g \in Fd \ {fd} : Grown(g),
         pc' = [pc EXCEPT ![c] = "wait"],
         \A g \in Fd : Waited(g) => ev[g].php_context \in Co
  PROVE  WaitersInv'
  <1>0. c # NULL /\ Waited(fd)'  BY ReactorAssumption DEF Waited
  <1>1. \A g \in Fd \ {fd} : Waited(g)' <=> Waited(g)  BY DEF Grown, Waited
  <1>2. NoLostWaiter'
    <2>1. ASSUME NEW co \in Co, pc'[co] = "wait"
          PROVE  \E g \in Fd : (Waited(g) /\ ev[g].php_context = co /\ epoll[g] = ev[g].events)'
      <3>1. CASE co = c  BY <1>0, <3>1
      <3>2. CASE co # c
        <4>1. pc[co] = "wait"  BY <2>1, <3>2 DEF CoInv
        <4>2. PICK g \in Fd : Waited(g) /\ ev[g].php_context = co /\ epoll[g] = ev[g].events
          BY <4>1 DEF WaitersInv, NoLostWaiter
        <4>3. g \in Fd \ {fd}  BY <4>2
        <4> QED  BY <1>1, <4>2, <4>3 DEF Grown
      <3> QED  BY <3>1, <3>2
    <2>2. \A g \in Fd : Waited(g) => ev[g].php_context # c
      BY DEF WaitersInv, NoLostWaiter
    <2>3. \A g \in Fd : Waited(g)' => pc'[ev'[g].php_context] = "wait"
      BY <1>1, <2>2 DEF Grown, WaitersInv, NoLostWaiter, CoInv
    <2>4. \A g, h \in Fd : Waited(g)' /\ Waited(h)' /\ g # h =>
            ev'[g].php_context # ev'[h].php_context
      BY <1>1, <2>2 DEF Grown, WaitersInv, NoLostWaiter
    <2> QED  BY <2>1, <2>3, <2>4 DEF NoLostWaiter
  <1>3. TimerOwned'  BY <1>0, <1>1 DEF Grown, WaitersInv, TimerOwned
  <1>4. WaitedPollable'  BY <1>1 DEF Grown, WaitersInv, WaitedPollable
  <1> QED  BY <1>2, <1>3, <1>4 DEF WaitersInv

(* The coroutine that waits on fd is woken up.                             *)
LEMMA WaiterTaken ==
  ASSUME WaitersInv, CoInv, NEW fd \in Fd, Waited(fd), ~Waited(fd)', kind'[fd] # "timer",
         \A g \in Fd \ {fd} : Grown(g),
         pc' = [pc EXCEPT ![ev[fd].php_context] = "run"],
         \A g \in Fd : Waited(g) => ev[g].php_context \in Co
  PROVE  WaitersInv'
  <1>1. \A g \in Fd \ {fd} : Waited(g)' <=> Waited(g)  BY DEF Grown, Waited
  <1>2. NoLostWaiter'
    <2>1. ASSUME NEW co \in Co, pc'[co] = "wait"
          PROVE  \E g \in Fd : (Waited(g) /\ ev[g].php_context = co /\ epoll[g] = ev[g].events)'
      <3>1. co # ev[fd].php_context /\ pc[co] = "wait"  BY <2>1 DEF CoInv
      <3>2. PICK g \in Fd : Waited(g) /\ ev[g].php_context = co /\ epoll[g] = ev[g].events
        BY <3>1 DEF WaitersInv, NoLostWaiter
      <3>3. g \in Fd \ {fd}  BY <3>1, <3>2
      <3> QED  BY <1>1, <3>2, <3>3 DEF Grown
    <2>2. \A g \in Fd \ {fd} : Waited(g) => ev[g].php_context # ev[fd].php_context
      BY DEF WaitersInv, NoLostWaiter
    <2>3. \A g \in Fd : Waited(g)' => pc'[ev'[g].php_context] = "wait"
      BY <1>1, <2>2 DEF Grown, WaitersInv, NoLostWaiter, CoInv
    <2>4. \A g, h \in Fd : Waited(g)' /\ Waited(h)' /\ g # h =>
            ev'[g].php_context # ev'[h].php_context
      BY <1>1 DEF Grown, WaitersInv, NoLostWaiter
    <2> QED  BY <2>1, <2>3, <2>4 DEF NoLostWaiter
  <1>3. TimerOwned'  BY <1>1 DEF Grown, WaitersInv, TimerOwned
  <1>4. WaitedPollable'  BY <1>1 DEF Grown, WaitersInv, WaitedPollable
  <1> QED  BY <1>2, <1>3, <1>4 DEF WaitersInv

(* The reports that stay in the batch name no descriptor that the step     *)
(* touches.                                                                *)
LEMMA BatchKept ==
  ASSUME BatchStaysTrue, ReportedOnce, batch \in Seq(Report), batch' = batch,
         NEW fd, ~Waited(fd), \A g \in Fd \ {fd} : Grown(g)
  PROVE  BatchInv'
  <1>1. \A i \in DOMAIN batch : batch[i].fd \in Fd \ {fd}
    <2> SUFFICES ASSUME NEW i \in DOMAIN batch PROVE batch[i].fd \in Fd \ {fd}  OBVIOUS
    <2>1. batch[i] \in Report  BY ElementOfSeq
    <2> QED  BY <2>1 DEF Report, BatchStaysTrue
  <1>2. BatchStaysTrue'  BY <1>1 DEF BatchStaysTrue, Waited, Grown
  <1> QED  BY <1>2 DEF BatchInv, ReportedOnce

(* Only descriptors with a context are in use.                             *)
LEMMA TableFacts ==
  ASSUME TableInv
  PROVE  /\ \A g \in Fd : Waited(g) => ev[g].php_context \in Co
         /\ \A g \in Fd : ~Waited(g) => event_of(g).events = "none" /\ epoll[g] = "none"
         /\ \A g \in Fd : ~Waited(g) /\ ev[g] # NULL => ev[g].arguments = FALSE /\ ev[g].fd_type = "none"
  <1> SUFFICES ASSUME NEW g \in Fd
               PROVE  /\ Waited(g) => ev[g].php_context \in Co
                      /\ ~Waited(g) => event_of(g).events = "none" /\ epoll[g] = "none"
                      /\ ~Waited(g) /\ ev[g] # NULL => ev[g].arguments = FALSE /\ ev[g].fd_type = "none"
    OBVIOUS
  <1>1. ev[g] # NULL => ev[g] \in AioEvent /\ Consistent(ev[g])
    BY DEF TableInv, WhollyUsedOrReleased
  <1>2. Waited(g) => ev[g].php_context \in Co  BY <1>1 DEF Waited, AioEvent
  <1>3. ~Waited(g) => epoll[g] = "none"  BY DEF TableInv, WatchedInUse
  <1>4. ~Waited(g) => event_of(g).events = "none"
    BY <1>1 DEF Waited, event_of, NewEvent, Consistent
  <1>5. ~Waited(g) /\ ev[g] # NULL => ev[g].arguments = FALSE /\ ev[g].fd_type = "none"
    BY <1>1 DEF Waited, Consistent, AioEvent
  <1> QED  BY <1>2, <1>3, <1>4, <1>5

(* A waiting call on a descriptor on which nobody waits.                   *)
LEMMA WaitOnWakeup ==
  ASSUME WakeupInv, Running, NEW fd \in Fd, ~Waited(fd),
         NEW w \in AioEvent, w.php_context = Current,
         NEW k, \A g \in Fd \ {fd} : k[g] = kind[g],
         k[fd] = "timer" <=> w.fd_type = "timer",
         WaitOn(fd, w, k)
  PROVE  WaitersInv' /\ BatchInv' /\ StackRuns'
  <1>1. event_of(fd).events = "none" /\ epoll[fd] = "none"
    BY TableFacts DEF WakeupInv, IInv
  <1>2. \A g \in Fd : Waited(g) => ev[g].php_context \in Co
    BY TableFacts DEF WakeupInv, IInv
  <1>3. kind' = k /\ batch' = batch  BY DEF WaitOn, control
  <1>4. CASE Refuse(fd)
    <2>1. ev' = [ev EXCEPT ![fd] = NULL] /\ UNCHANGED <<epoll, pc, stack>>
      BY <1>4 DEF Refuse
    <2>2. ev'[fd] = NULL  BY <2>1 DEF WakeupInv, IInv, TableInv
    <2>3. ~Waited(fd)'  BY <2>1 DEF Waited, WakeupInv, IInv, TableInv
    <2>4. \A g \in Fd \ {fd} : Grown(g)
      BY <1>3, <2>1 DEF Grown, WakeupInv, IInv, TableInv
    <2>5. WaitersInv'
      BY <1>2, <1>3, <2>1, <2>2, <2>3, <2>4, WaitersKept DEF WakeupInv
    <2>6. BatchInv'
      BY <1>3, <2>4, BatchKept DEF WakeupInv, BatchInv, IInv, LoopInv
    <2>7. StackRuns'  BY <2>1 DEF WakeupInv, StackRuns, Depth
    <2> QED  BY <2>5, <2>6, <2>7
  <1>5. CASE Store(fd, w, k)
    <2>1. /\ ev' = [ev EXCEPT ![fd] = w]
          /\ epoll' = [epoll EXCEPT ![fd] = w.events]
          /\ pc' = [pc EXCEPT ![Current] = "wait"]
          /\ stack' = SubSeq(stack, 1, Len(stack) - 1)
      BY <1>1, <1>5, StoreEffect DEF Store, coro_yield, WakeupInv, IInv
    <2>2. StackRuns' /\ Current \in Co /\ pc[Current] = "run"
      BY <2>1, PopRuns DEF WakeupInv, IInv
    <2>3. k[fd] \in {"sock", "timer"}  BY <1>1, <1>5 DEF Store, needs_add, AddRefused
    <2>4. \A g \in Fd \ {fd} : Grown(g)
      BY <1>3, <2>1 DEF Grown, WakeupInv, IInv, TableInv
    <2>5. w # NULL  BY NullIsNoEvent
    <2>6. ev'[fd] = w /\ epoll'[fd] = w.events
      BY <2>1 DEF WakeupInv, IInv, TableInv
    <2>7. WaitersInv'
      BY <1>2, <1>3, <2>1, <2>2, <2>3, <2>4, <2>5, <2>6, WaitersAdded DEF WakeupInv, IInv
    <2>8. BatchInv'
      BY <1>3, <2>4, BatchKept DEF WakeupInv, BatchInv, IInv, LoopInv
    <2> QED  BY <2>2, <2>7, <2>8
  <1> QED  BY <1>4, <1>5 DEF WaitOn

(* aio_invoke wakes up the coroutine that waits, if any, and nobody else.  *)
LEMMA InvokeWakeup ==
  ASSUME TableInv, CoInv, WaitersInv, StackRuns, NEW fd \in Fd, aio_invoke(fd)
  PROVE  WaitersInv' /\ StackRuns' /\ \A g \in Fd \ {fd} : Grown(g)
  <1>1. CASE ev[fd] = NULL
    <2>1. UNCHANGED <<kind, epoll, ev, pc, stack>>  BY <1>1 DEF aio_invoke, kernel
    <2>2. StackRuns'  BY <2>1 DEF StackRuns, Depth
    <2>3. WaitersInv'
      BY <2>1 DEF WaitersInv, NoLostWaiter, TimerOwned, WaitedPollable, Waited
    <2> QED  BY <2>1, <2>2, <2>3 DEF Grown
  <1>2. CASE ev[fd] # NULL
    <2>1. PICK k \in Transferred(ev[fd]) : kind' = freed_kind(fd, k)
      BY <1>2 DEF aio_invoke
    <2>2. /\ ev[fd] \in AioEvent /\ Consistent(ev[fd])
          /\ ev' = [ev EXCEPT ![fd] = NewEvent]
          /\ epoll' = [epoll EXCEPT ![fd] = "none"]
      BY <1>2, InvokeEffect
    <2>3. ~Waited(fd)'  BY <2>2 DEF Waited, NewEvent, TableInv
    <2>4. \A g \in Fd : k[g] = kind[g] \/ (kind[g] = "closed" /\ k[g] = "sock")
      BY LowestIsFree DEF Transferred, TableInv
    <2>5. k \in [Fd -> Kinds]
      BY LowestIsFree DEF Transferred, TableInv, Kinds
    <2>6. \A g \in Fd \ {fd} : Grown(g)
      BY <2>1, <2>2, <2>4, <2>5 DEF Grown, freed_kind, TableInv
    <2>7. kind'[fd] # "timer"
      <3>1. ev[fd].fd_type # "timer" => kind[fd] # "timer"
        BY <1>2 DEF WaitersInv, TimerOwned
      <3> QED  BY <2>1, <2>4, <2>5, <3>1, <1>2 DEF freed_kind
    <2>8. CASE ~Waited(fd)
      <3>1. UNCHANGED <<pc, stack>>  BY <1>2, <2>8 DEF aio_invoke, Waited
      <3>2. WaitersInv'  BY <2>3, <2>6, <2>7, <2>8, <3>1, WaitersKept, TableFacts
      <3>3. StackRuns'  BY <3>1 DEF StackRuns, Depth
      <3> QED  BY <2>6, <3>2, <3>3
    <2>9. CASE Waited(fd)
      <3>1. /\ pc' = [pc EXCEPT ![ev[fd].php_context] = "run"]
            /\ stack' = Append(stack, ev[fd].php_context)
        BY <1>2, <2>9 DEF aio_invoke, Waited
      <3>2. ev[fd].php_context \in Co  BY <2>9, TableFacts
      <3>3. pc[ev[fd].php_context] # "run"  BY <2>9 DEF WaitersInv, NoLostWaiter
      <3>4. StackRuns'  BY <3>1, <3>2, <3>3, PushRuns
      <3>5. WaitersInv'  BY <2>3, <2>6, <2>7, <2>9, <3>1, WaiterTaken, TableFacts
      <3> QED  BY <2>6, <3>4, <3>5
    <2> QED  BY <2>8, <2>9
  <1> QED  BY <1>1, <1>2

(* A step that touches no descriptor and no wait.                          *)
LEMMA WaitersFrame ==
  ASSUME WaitersInv, TableInv, UNCHANGED <<kind, epoll, ev>>,
         \A co \in Co : pc'[co] = "wait" <=> pc[co] = "wait"
  PROVE  WaitersInv'
  <1>1. \A g \in Fd : Waited(g) => ev[g].php_context \in Co  BY TableFacts
  <1>2. NoLostWaiter'  BY <1>1 DEF WaitersInv, NoLostWaiter, Waited
  <1> QED  BY <1>2 DEF WaitersInv, TimerOwned, WaitedPollable, Waited

LEMMA BatchFrame ==
  ASSUME BatchInv, UNCHANGED <<kind, ev, batch>>
  PROVE  BatchInv'
  BY DEF BatchInv, BatchStaysTrue, ReportedOnce, Waited

LEMMA StackFrame ==
  ASSUME StackRuns, UNCHANGED <<pc, stack>>
  PROVE  StackRuns'
  BY DEF StackRuns, Depth

LEMMA WakeupInit == Init => WakeupInv
  <1> SUFFICES ASSUME Init PROVE WakeupInv  OBVIOUS
  <1>1. WaitersInv
    BY DEF Init, WaitersInv, NoLostWaiter, TimerOwned, WaitedPollable, Waited
  <1>2. DOMAIN batch = {}  BY EmptySeq, LenProperties DEF Init
  <1>3. BatchInv  BY <1>2 DEF BatchInv, BatchStaysTrue, ReportedOnce
  <1>4. Depth = {}  BY EmptySeq DEF Init, Depth
  <1>5. StackRuns  BY <1>4 DEF StackRuns
  <1> QED  BY <1>1, <1>3, <1>5, InitInv DEF WakeupInv

(* The steps of a script that keeps the rules of use.                      *)
LEMMA ScriptWakeup ==
  ASSUME BrokenRules = {}, WakeupInv, Script
  PROVE  WaitersInv' /\ BatchInv' /\ StackRuns'
  <1>0. TableInv /\ CoInv /\ LoopInv /\ WaitersInv /\ BatchInv /\ StackRuns
    BY DEF WakeupInv, IInv
  <1>t. /\ \A g \in Fd : Waited(g) => ev[g].php_context \in Co
        /\ batch \in Seq(Report) /\ BatchStaysTrue /\ ReportedOnce
    BY <1>0, TableFacts DEF LoopInv, BatchInv
  <1>1. ASSUME NEW fd \in Fd, NEW type \in {"accept", "normal"}, NEW mask \in {"in", "out"},
               Wait(fd, type, mask)
        PROVE  WaitersInv' /\ BatchInv' /\ StackRuns'
    <2> DEFINE w == [php_context |-> Current, events |-> mask, fd_type |-> type,
                     arguments |-> TRUE, timer |-> FALSE]
    <2>1. Running /\ ~Waited(fd) /\ kind[fd] # "timer" /\ WaitOn(fd, w, kind)  BY <1>1 DEF Wait
    <2>2. Current \in Co  BY <1>0, <2>1, StackFacts DEF CoInv
    <2>3. w \in AioEvent /\ w.php_context = Current /\ w.fd_type # "timer"
      BY <2>2 DEF AioEvent
    <2> HIDE DEF w
    <2> QED  BY <2>1, <2>3, WaitOnWakeup
  <1>2. CASE sleep
    <2> DEFINE w == [php_context |-> Current, events |-> "in", fd_type |-> "timer",
                     arguments |-> FALSE, timer |-> TRUE]
               k == [kind EXCEPT ![LowestFd] = "timer"]
    <2>1. Running /\ FreeFd # {} /\ WaitOn(LowestFd, w, k)  BY <1>2 DEF sleep
    <2>2. Current \in Co  BY <1>0, <2>1, StackFacts DEF CoInv
    <2>3. w \in AioEvent /\ w.php_context = Current /\ w.fd_type = "timer"
      BY <2>2 DEF AioEvent
    <2>4. LowestFd \in Fd /\ kind[LowestFd] = "closed"
      BY <1>0, <2>1, LowestIsFree DEF TableInv
    <2>5. ~Waited(LowestFd)  BY <1>0, <2>4 DEF WaitersInv, WaitedPollable
    <2>6. k[LowestFd] = "timer" /\ \A g \in Fd \ {LowestFd} : k[g] = kind[g]
      BY <1>0, <2>4 DEF TableInv
    <2> HIDE DEF w, k
    <2> QED  BY <2>1, <2>3, <2>4, <2>5, <2>6, WaitOnWakeup
  <1>3. ASSUME NEW fd \in Fd, socket_close(fd) PROVE WaitersInv' /\ BatchInv' /\ StackRuns'
    <2>1. /\ ~Waited(fd)
          /\ kind' = freed_kind(fd, [kind EXCEPT ![fd] = "closed"])
          /\ epoll' = [epoll EXCEPT ![fd] = "none"]
          /\ ev' = [ev EXCEPT ![fd] = freed_event(ev[fd])]
          /\ UNCHANGED <<pc, stack, batch>>
      BY <1>3 DEF socket_close, control
    <2>2. kind' = [kind EXCEPT ![fd] = "closed"]
      BY <1>0, <2>1 DEF freed_kind, TableInv
    <2>3. ev' = [ev EXCEPT ![fd] = IF ev[fd] = NULL THEN NULL ELSE NewEvent]
      BY <1>0, <2>1, FreedIsNew DEF TableInv, WhollyUsedOrReleased, freed_event
    <2>4. ~Waited(fd)' /\ kind'[fd] # "timer"
      BY <1>0, <2>2, <2>3 DEF Waited, NewEvent, TableInv
    <2>5. \A g \in Fd \ {fd} : Grown(g)
      BY <1>0, <2>1, <2>2, <2>3 DEF Grown, TableInv
    <2>6. WaitersInv'  BY <1>0, <1>t, <2>1, <2>4, <2>5, WaitersKept
    <2>7. BatchInv'  BY <1>t, <2>1, <2>5, BatchKept
    <2> QED  BY <1>0, <2>1, <2>6, <2>7, StackFrame
  <1>4. ASSUME NEW fd \in Fd, PhpClose(fd) PROVE WaitersInv' /\ BatchInv' /\ StackRuns'
    <2>1. /\ ~Waited(fd)
          /\ kind' = [kind EXCEPT ![fd] = "closed"]
          /\ epoll' = [epoll EXCEPT ![fd] = "none"]
          /\ UNCHANGED <<ev, pc, stack, batch>>
      BY <1>4 DEF PhpClose, control
    <2>2. ~Waited(fd)' /\ kind'[fd] # "timer"
      BY <1>0, <2>1 DEF Waited, TableInv
    <2>3. \A g \in Fd \ {fd} : Grown(g)  BY <1>0, <2>1 DEF Grown, TableInv
    <2>4. WaitersInv'  BY <1>0, <1>t, <2>1, <2>2, <2>3, WaitersKept
    <2>5. BatchInv'  BY <1>t, <2>1, <2>3, BatchKept
    <2> QED  BY <1>0, <2>1, <2>4, <2>5, StackFrame
  <1>5. ASSUME NEW k \in {"sock", "file"}, Open(k) PROVE WaitersInv' /\ BatchInv' /\ StackRuns'
    <2>1. /\ FreeFd # {} /\ kind' = [kind EXCEPT ![LowestFd] = k]
          /\ UNCHANGED <<epoll, ev, pc, stack, batch>>
      BY <1>5 DEF Open, control
    <2>2. LowestFd \in Fd /\ kind[LowestFd] = "closed"
      BY <1>0, <2>1, LowestIsFree DEF TableInv
    <2>3. ~Waited(LowestFd)  BY <1>0, <2>2 DEF WaitersInv, WaitedPollable
    <2>4. PICK fd \in Fd : fd = LowestFd  BY <2>2
    <2>5. ~Waited(fd) /\ ~Waited(fd)' /\ kind'[fd] # "timer"
      BY <1>0, <2>1, <2>3, <2>4 DEF Waited, TableInv
    <2>6. \A g \in Fd \ {fd} : Grown(g)  BY <1>0, <2>1, <2>4 DEF Grown, TableInv
    <2>7. WaitersInv'  BY <1>0, <1>t, <2>1, <2>5, <2>6, WaitersKept
    <2>8. BatchInv'  BY <1>t, <2>1, <2>5, <2>6, BatchKept
    <2> QED  BY <1>0, <2>1, <2>7, <2>8, StackFrame
  <1>6. ASSUME NEW fd \in Fd, NEW persistent \in BOOLEAN, socket_set_timeout(fd, persistent)
        PROVE  WaitersInv' /\ BatchInv' /\ StackRuns'
    <2>1. UNCHANGED <<kind, epoll, ev, pc, stack, batch>>
      BY <1>6 DEF socket_set_timeout, kernel, control
    <2> QED  BY <1>0, <2>1, WaitersFrame, BatchFrame, StackFrame
  <1>7. ASSUME NEW co \in Co, Create(co) \/ Resume(co) PROVE WaitersInv' /\ BatchInv' /\ StackRuns'
    <2>1. /\ pc[co] \notin {"run", "wait"}
          /\ pc' = [pc EXCEPT ![co] = "run"] /\ stack' = Append(stack, co)
          /\ UNCHANGED <<kind, epoll, ev, batch>>
      BY <1>7 DEF Create, Resume, kernel, control
    <2>2. StackRuns'  BY <1>0, <2>1, PushRuns
    <2>3. \A d \in Co : pc'[d] = "wait" <=> pc[d] = "wait"  BY <1>0, <2>1 DEF CoInv
    <2> QED  BY <1>0, <2>1, <2>2, <2>3, WaitersFrame, BatchFrame
  <1>8. CASE Yield \/ Finish
    <2>1. PICK x \in {"yielded", "done"} :
            /\ Running
            /\ pc' = [pc EXCEPT ![Current] = x] /\ stack' = SubSeq(stack, 1, Len(stack) - 1)
            /\ UNCHANGED <<kind, epoll, ev, batch>>
      BY <1>8 DEF Yield, Finish, kernel, control
    <2>2. StackRuns' /\ Current \in Co /\ pc[Current] = "run"  BY <1>0, <2>1, PopRuns
    <2>3. \A d \in Co : pc'[d] = "wait" <=> pc[d] = "wait"  BY <1>0, <2>1, <2>2 DEF CoInv
    <2> QED  BY <1>0, <2>1, <2>2, <2>3, WaitersFrame, BatchFrame
  <1>9. CASE EnterLoop
    <2>1. UNCHANGED <<kind, epoll, ev, pc, stack, batch>>  BY <1>9 DEF EnterLoop, kernel
    <2> QED  BY <1>0, <2>1, WaitersFrame, BatchFrame, StackFrame
  <1> QED
    BY <1>1, <1>2, <1>3, <1>4, <1>5, <1>6, <1>7, <1>8, <1>9
    DEF Script, socket_accept, socket_read, socket_write, prepare, fetchAll

(* What epoll_wait reports is true, and once for each descriptor.          *)
LEMMA BatchFresh ==
  ASSUME TableInv, epoll_wait
  PROVE  BatchInv'
  <1>1. PICK S \in SUBSET {fd \in Fd : epoll[fd] # "none"} :
          \E order \in SetToSeqs(S), E \in SUBSET S :
            batch' = [i \in DOMAIN order |->
                        [fd |-> order[i],
                         events |-> IF order[i] \in E THEN "err" ELSE epoll[order[i]],
                         for |-> ev[order[i]].php_context]]
    BY DEF epoll_wait
  <1>2. PICK order \in SetToSeqs(S), E \in SUBSET S :
          batch' = [i \in DOMAIN order |->
                      [fd |-> order[i],
                       events |-> IF order[i] \in E THEN "err" ELSE epoll[order[i]],
                       for |-> ev[order[i]].php_context]]
    BY <1>1
  <1>3. /\ order \in [1 .. Cardinality(S) -> S]
        /\ \A i, j \in 1 .. Cardinality(S) : i # j => order[i] # order[j]
    BY <1>2 DEF SetToSeqs
  <1>4. DOMAIN batch' = 1 .. Cardinality(S)  BY <1>2, <1>3
  <1>5. \A i \in DOMAIN batch' : /\ batch'[i].fd = order[i] /\ order[i] \in S
                                 /\ batch'[i].for = ev[order[i]].php_context
    BY <1>2, <1>3, <1>4
  <1>6. \A fd \in S : Waited(fd) /\ kind[fd] # "closed"
    BY DEF TableInv, WatchedInUse
  <1>7. UNCHANGED <<kind, ev>>  BY DEF epoll_wait, kernel
  <1>8. BatchStaysTrue'  BY <1>5, <1>6, <1>7 DEF BatchStaysTrue, Waited
  <1>9. ReportedOnce'  BY <1>3, <1>4, <1>5 DEF ReportedOnce
  <1> QED  BY <1>8, <1>9 DEF BatchInv

(* Dispatching the first report leaves the others true.                    *)
LEMMA BatchRest ==
  ASSUME BatchInv, batch \in Seq(Report), batch # << >>, batch' = Tail(batch),
         \A g \in Fd \ {Head(batch).fd} : Grown(g)
  PROVE  BatchInv'
  <1>1. Len(batch) \in Nat \ {0}  BY EmptySeq
  <1>2. DOMAIN batch = 1 .. Len(batch) /\ \A i \in DOMAIN batch : batch[i] \in Report
    BY LenProperties, ElementOfSeq
  <1>3. DOMAIN batch' = 1 .. (Len(batch) - 1) /\ \A i \in DOMAIN batch' : batch'[i] = batch[i + 1]
    <2>1. /\ Tail(batch) \in Seq(Report) /\ Len(Tail(batch)) = Len(batch) - 1
          /\ \A i \in 1 .. Len(Tail(batch)) : Tail(batch)[i] = batch[i + 1]
      BY HeadTailProperties
    <2> QED  BY <2>1, LenProperties
  <1>4. Head(batch) = batch[1]  BY <1>1
  <1>5. \A i \in DOMAIN batch' : i + 1 \in DOMAIN batch /\ i + 1 # 1  BY <1>1, <1>2, <1>3
  <1>6. 1 \in DOMAIN batch  BY <1>1, <1>2
  <1>7. \A i \in DOMAIN batch' : batch[i + 1].fd \in Fd \ {Head(batch).fd}
    BY <1>2, <1>4, <1>5, <1>6 DEF BatchInv, ReportedOnce, Report
  <1>8. \A i \in DOMAIN batch' : /\ Waited(batch[i + 1].fd)
                                 /\ ev[batch[i + 1].fd].php_context = batch[i + 1].for
                                 /\ kind[batch[i + 1].fd] # "closed"
    BY <1>5 DEF BatchInv, BatchStaysTrue
  <1>9. BatchStaysTrue'
    BY <1>3, <1>7, <1>8 DEF BatchStaysTrue, Waited, Grown
  <1>10. ReportedOnce'
    <2> SUFFICES ASSUME NEW i \in DOMAIN batch', NEW j \in DOMAIN batch',
                        batch'[i].fd = batch'[j].fd
                 PROVE  i = j
      BY DEF ReportedOnce
    <2>1. i + 1 = j + 1  BY <1>3, <1>5 DEF BatchInv, ReportedOnce
    <2> QED  BY <1>1, <1>3, <2>1
  <1> QED  BY <1>9, <1>10 DEF BatchInv

(* The steps of event_loop.                                                *)
LEMMA LoopStepWakeup ==
  ASSUME WakeupInv, LoopStep
  PROVE  WaitersInv' /\ BatchInv' /\ StackRuns'
  <1>0. TableInv /\ CoInv /\ LoopInv /\ WaitersInv /\ BatchInv /\ StackRuns
    BY DEF WakeupInv, IInv
  <1>1. CASE epoll_wait
    <2>1. UNCHANGED <<kind, epoll, ev, pc, stack>>  BY <1>1 DEF epoll_wait, kernel
    <2> QED  BY <1>0, <1>1, <2>1, WaitersFrame, BatchFresh, StackFrame
  <1>2. CASE Dispatch
    <2>1. batch \in Seq(Report) /\ batch # << >> /\ batch' = Tail(batch)
      BY <1>0, <1>2 DEF Dispatch, next_entries, LoopInv
    <2>2. Head(batch) \in Report  BY <2>1, HeadTailProperties
    <2>3. PICK fd \in Fd : fd = Head(batch).fd  BY <2>2 DEF Report
    <2>4. CASE acts_on(Head(batch).events)
      <3>1. aio_invoke(fd)  BY <1>2, <2>3, <2>4 DEF Dispatch
      <3>2. WaitersInv' /\ StackRuns' /\ \A g \in Fd \ {fd} : Grown(g)
        BY <1>0, <3>1, InvokeWakeup
      <3> QED  BY <1>0, <2>1, <2>3, <3>2, BatchRest
    <2>5. CASE ~acts_on(Head(batch).events)
      <3>1. UNCHANGED <<kind, epoll, ev, pc, stack>>  BY <1>2, <2>5 DEF Dispatch, kernel
      <3>2. \A g \in Fd : Grown(g)  BY <3>1 DEF Grown
      <3>3. BatchInv'  BY <1>0, <2>1, <3>2, BatchRest
      <3> QED  BY <1>0, <3>1, <3>3, WaitersFrame, StackFrame
    <2> QED  BY <2>4, <2>5
  <1>3. CASE TimeoutFires
    <2>1. PICK fd \in Fd : fd = timeout_front.fd  BY <1>0, <1>3 DEF TimeoutFires, LoopInv
    <2>2. WaitersInv' /\ StackRuns'
      BY <1>0, <1>3, <2>1, InvokeWakeup DEF TimeoutFires
    <2>3. batch' = << >>  BY <1>3 DEF TimeoutFires
    <2>4. DOMAIN batch' = {}  BY <2>3
    <2>5. BatchInv'  BY <2>4 DEF BatchInv, BatchStaysTrue, ReportedOnce
    <2> QED  BY <2>2, <2>5
  <1>4. CASE NoTimeout \/ TimeoutDone \/ LeaveLoop
    <2>1. UNCHANGED <<kind, epoll, ev, pc, stack, batch>>
      BY <1>4 DEF NoTimeout, TimeoutDone, LeaveLoop, kernel
    <2> QED  BY <1>0, <2>1, WaitersFrame, BatchFrame, StackFrame
  <1> QED  BY <1>1, <1>2, <1>3, <1>4 DEF LoopStep

LEMMA WakeupStep == BrokenRules = {} /\ WakeupInv /\ [Next]_vars => WakeupInv'
  <1> SUFFICES ASSUME BrokenRules = {}, WakeupInv, [Next]_vars PROVE WakeupInv'  OBVIOUS
  <1>1. IInv'  BY StepInv DEF WakeupInv
  <1>2. WaitersInv' /\ BatchInv' /\ StackRuns'
    <2>1. CASE Script  BY <2>1, ScriptWakeup
    <2>2. CASE LoopStep  BY <2>2, LoopStepWakeup
    <2>3. CASE UNCHANGED vars
      <3>1. UNCHANGED <<kind, epoll, ev, pc, stack, batch>>  BY <2>3 DEF vars
      <3> QED  BY <3>1, WaitersFrame, BatchFrame, StackFrame DEF WakeupInv, IInv
    <2> QED  BY <2>1, <2>2, <2>3 DEF Next
  <1> QED  BY <1>1, <1>2 DEF WakeupInv

LEMMA WakeupInvariance == BrokenRules = {} /\ Spec => []WakeupInv
  <1> SUFFICES ASSUME BrokenRules = {} PROVE Spec => []WakeupInv  OBVIOUS
  <1>1. WakeupInv /\ [Next]_vars => WakeupInv'  BY WakeupStep
  <1> QED  BY <1>1, WakeupInit, PTL DEF Spec

(* If no coroutine waits on a descriptor of another and none is closed     *)
(* under a waiting one, every suspended waiting call has its event, alone, *)
(* and epoll watches it: no wake-up is lost and none is given twice.       *)
THEOREM NoWakeupLost == BrokenRules = {} /\ Spec => []NoLostWaiter
  <1>1. WakeupInv => NoLostWaiter  BY DEF WakeupInv, WaitersInv
  <1> QED  BY <1>1, WakeupInvariance, PTL

(* Under the same rules the reports of a batch that event_loop has still   *)
(* to dispatch stay true, whatever the coroutines resumed meanwhile do.    *)
THEOREM BatchCorrect == BrokenRules = {} /\ Spec => []BatchStaysTrue
  <1>1. WakeupInv => BatchStaysTrue  BY DEF WakeupInv, BatchInv
  <1> QED  BY <1>1, WakeupInvariance, PTL

(* Under the same rules a sleeping coroutine has its timer descriptor open *)
(* and aio_event_free closes it when it wakes up; the open ones that       *)
(* nobody has are those that a refused co::sleep left.                     *)
THEOREM TimersOwned == BrokenRules = {} /\ Spec => []TimerOwned
  <1>1. WakeupInv => TimerOwned  BY DEF WakeupInv, WaitersInv
  <1> QED  BY <1>1, WakeupInvariance, PTL

(* Under the same rules the comment of _aio_event_store is right: a closed *)
(* descriptor is not in epoll and its event asks for nothing, so that the  *)
(* next wait on its number registers it again.                             *)
THEOREM ClosedCleared == BrokenRules = {} /\ Spec => []ClosedIsCleared
  <1>1. WakeupInv => ClosedIsCleared
    <2> SUFFICES ASSUME WakeupInv, NEW fd \in Fd, kind[fd] = "closed"
                 PROVE  epoll[fd] = "none" /\ (ev[fd] = NULL \/ ev[fd].events = "none")
      BY DEF ClosedIsCleared
    <2>1. ~Waited(fd)  BY DEF WakeupInv, WaitersInv, WaitedPollable
    <2> QED  BY <2>1, TableFacts DEF WakeupInv, IInv, event_of
  <1> QED  BY <1>1, WakeupInvariance, PTL
-----------------------------------------------------------------------------
(* The memory of the waiting calls (the module Invocation), whose script   *)
(* keeps the rules.                                                        *)
LEMMA ConvertToFd ==
  ASSUME NEW v \in Argument, ~(c_convert_to_fd(v) < 0)
  PROVE  c_convert_to_fd(v) \in Fd
  <1>1. NFd \in Nat \ {0}  BY ReactorAssumption
  <1>2. CASE v \in [type : {"stream"}, fd : Fd \cup {-1}]
    BY <1>1, <1>2 DEF c_convert_to_fd, Fd, C_ERR
  <1>3. CASE v \in [type : {"socket"}, fd : Fd]
    BY <1>1, <1>3 DEF c_convert_to_fd, Fd
  <1>4. CASE v \in [type : {"long"}, fd : -1 .. (NFd - 1)]
    BY <1>1, <1>4 DEF c_convert_to_fd, Fd, C_ERR
  <1>5. CASE v \in [type : {"other"}, fd : {-1}]
    BY <1>5 DEF c_convert_to_fd, C_ERR
  <1> QED  BY <1>2, <1>3, <1>4, <1>5 DEF Argument

(* Every step with its ledger is a step of the reactor.                    *)
LEMMA AllNextIsNext == [AllNext]_allvars => [Next]_vars
  <1> SUFFICES ASSUME [AllNext]_allvars PROVE [Next]_vars  OBVIOUS
  <1>1. ASSUME NEW fd \in Fd, Accept(fd) \/ Query(fd) \/ Close(fd) PROVE [Next]_vars
    BY <1>1 DEF Accept, Query, Close, Next, Script
  <1>2. ASSUME NEW v \in Argument, Read(v) \/ Write(v) PROVE [Next]_vars
    <2>1. CASE c_convert_to_fd(v) < 0
      BY <1>2, <2>1 DEF Read, Write, NoDescriptor
    <2>2. CASE ~(c_convert_to_fd(v) < 0)
      BY <1>2, <2>2, ConvertToFd DEF Read, Write, Next, Script
    <2> QED  BY <2>1, <2>2
  <1>3. CASE Sleep  BY <1>3 DEF Sleep, Next, Script
  <1>4. CASE DispatchEntry \/ SkipEntry \/ FireTimeout
    BY <1>4 DEF DispatchEntry, SkipEntry, FireTimeout, Next, LoopStep
  <1>5. CASE Rest  BY <1>5 DEF Rest, Next, Script, LoopStep
  <1>6. CASE UNCHANGED allvars  BY <1>6 DEF allvars
  <1> QED  BY <1>1, <1>2, <1>3, <1>4, <1>5, <1>6 DEF AllNext

(* The reactor with its memory behaves as the reactor, so that all that is *)
(* proved of the one holds of the other.                                   *)
THEOREM InvocationIsReactor == AllSpec => Spec
  <1>1. AllInit => Init  BY DEF AllInit
  <1>2. [AllNext]_allvars => [Next]_vars  BY AllNextIsNext
  <1> QED  BY <1>1, <1>2, PTL DEF AllSpec, Spec

WaitedFds == {fd \in Fd : Waited(fd)}
ArgFds    == {fd \in Fd : ev[fd] # NULL /\ ev[fd].arguments}

LEMMA CountFacts ==
  ASSUME NEW S, S \subseteq Fd
  PROVE  /\ Count(S) \in Nat
         /\ \A fd \in Fd \ S : Count(S \cup {fd}) = Count(S) + 1
         /\ \A fd \in S : Count(S \ {fd}) = Count(S) - 1
  <1>1. IsFiniteSet(Fd)  BY ReactorAssumption, FS_Interval DEF Fd
  <1>2. IsFiniteSet(S)  BY <1>1, FS_Subset
  <1>3. Cardinality(S) \in Nat  BY <1>2, FS_CardinalityType
  <1>4. \A fd \in Fd \ S : Cardinality(S \cup {fd}) = Cardinality(S) + 1
    BY <1>2, FS_AddElement
  <1>5. \A fd \in S : Cardinality(S \ {fd}) = Cardinality(S) - 1
    BY <1>2, FS_RemoveElement
  <1> QED  BY <1>3, <1>4, <1>5 DEF Count

(* The function name in an event in use says whether its wait has a result *)
(* to release.                                                             *)
NameKept == \A fd \in Fd : Waited(fd) => (function_name[fd] <=> ev[fd].fd_type # "timer")

(* What aio_invoke relies on when it reads the event again: unless the     *)
(* descriptor was closed it is still a socket (a timer was closed when its *)
(* event was released), whose event keeps the name of its last wait unless *)
(* a refused wait freed it.                                                *)
ReadBackInv ==
  inv # NULL /\ ~inv.closed =>
    /\ kind[inv.fd] = "sock" /\ inv.result
    /\ ~inv.freed => ev[inv.fd] # NULL /\ function_name[inv.fd]

LedgerTypes ==
  /\ function_name \in [Fd -> BOOLEAN]
  /\ contexts \in Int /\ args \in Int /\ lost \in Int
  /\ inv # NULL => inv \in Invocations /\ stack # << >>

LedgerInv == LedgerTypes /\ NameKept /\ ReadBackInv /\ ContextsOwned /\ ArgumentsOwned

(* A waiting call adds its descriptor to those with a context, and to      *)
(* those with arguments if it has some, or it is refused.                  *)
LEMMA WaitCounts ==
  ASSUME TableInv, Running, CoInv, NEW fd \in Fd, ~Waited(fd),
         NEW w \in AioEvent, w.php_context = Current, NEW k, WaitOn(fd, w, k)
  PROVE  /\ ev'[fd] = NULL => UNCHANGED <<WaitedFds, ArgFds, stack>>
         /\ ev'[fd] # NULL =>
              /\ Count(WaitedFds') = Count(WaitedFds) + 1
              /\ Count(ArgFds') = Count(ArgFds) + (IF w.arguments THEN 1 ELSE 0)
  <1>1. /\ event_of(fd).events = "none"
        /\ fd \notin WaitedFds /\ fd \notin ArgFds
    BY TableFacts DEF WaitedFds, ArgFds
  <1>2. Current \in Co /\ Current # NULL  BY StackFacts, ReactorAssumption DEF CoInv
  <1>3. w # NULL  BY NullIsNoEvent
  <1>4. CASE Refuse(fd)
    <2>1. ev' = [ev EXCEPT ![fd] = NULL] /\ stack' = stack  BY <1>4 DEF Refuse
    <2>2. WaitedFds' = WaitedFds  BY <1>1, <2>1 DEF WaitedFds, Waited, TableInv
    <2>3. ArgFds' = ArgFds  BY <1>1, <2>1 DEF ArgFds, TableInv
    <2>4. ev'[fd] = NULL  BY <2>1 DEF TableInv
    <2> QED  BY <2>1, <2>2, <2>3, <2>4
  <1>5. CASE Store(fd, w, k)
    <2>1. ev' = [ev EXCEPT ![fd] = w]  BY <1>1, <1>5, StoreEffect DEF Store
    <2>2. ev'[fd] # NULL  BY <1>3, <2>1 DEF TableInv
    <2>3. WaitedFds' = WaitedFds \cup {fd}
      BY <1>2, <1>3, <2>1 DEF WaitedFds, Waited, TableInv
    <2>4. ArgFds' = IF w.arguments THEN ArgFds \cup {fd} ELSE ArgFds
      BY <1>1, <1>3, <2>1 DEF ArgFds, TableInv
    <2>5. WaitedFds \subseteq Fd /\ ArgFds \subseteq Fd  BY DEF WaitedFds, ArgFds
    <2>6. Count(WaitedFds') = Count(WaitedFds) + 1  BY <1>1, <2>3, <2>5, CountFacts
    <2>7. Count(ArgFds') = Count(ArgFds) + (IF w.arguments THEN 1 ELSE 0)
      BY <1>1, <2>4, <2>5, CountFacts
    <2> QED  BY <2>2, <2>6, <2>7
  <1> QED  BY <1>4, <1>5 DEF WaitOn

(* aio_invoke takes its descriptor out of both.                            *)
LEMMA InvokeCounts ==
  ASSUME TableInv, NEW fd \in Fd, aio_invoke(fd)
  PROVE  /\ Count(WaitedFds') = Count(WaitedFds) - (IF Waited(fd) THEN 1 ELSE 0)
         /\ Count(ArgFds') = Count(ArgFds) - efree_arguments(fd)
         /\ Waited(fd) => stack' = Append(stack, ev[fd].php_context) /\ ev[fd].php_context \in Co
         /\ ~Waited(fd)'
  <1>t. WaitedFds \subseteq Fd /\ ArgFds \subseteq Fd  BY DEF WaitedFds, ArgFds
  <1>1. CASE ev[fd] = NULL
    <2>1. ev' = ev  BY <1>1 DEF aio_invoke
    <2>2. WaitedFds' = WaitedFds /\ ArgFds' = ArgFds /\ ~Waited(fd) /\ ~Waited(fd)'
      BY <1>1, <2>1 DEF WaitedFds, ArgFds, Waited
    <2> QED  BY <1>1, <1>t, <2>2, CountFacts DEF efree_arguments
  <1>2. CASE ev[fd] # NULL
    <2>1. ev' = [ev EXCEPT ![fd] = NewEvent]  BY <1>2, InvokeEffect
    <2>2. WaitedFds' = WaitedFds \ {fd} /\ ~Waited(fd)'
      BY <2>1 DEF WaitedFds, Waited, NewEvent, TableInv
    <2>3. ArgFds' = ArgFds \ {fd}
      BY <2>1 DEF ArgFds, NewEvent, TableInv
    <2>4. ASSUME NEW S, S \subseteq Fd, fd \notin S PROVE Count(S \ {fd}) = Count(S)
      <3>1. S \ {fd} = S  BY <2>4
      <3> QED  BY <3>1
    <2>5. Count(WaitedFds') = Count(WaitedFds) - (IF Waited(fd) THEN 1 ELSE 0)
      <3>1. CASE Waited(fd)
        <4>1. fd \in WaitedFds  BY <3>1 DEF WaitedFds
        <4> QED  BY <1>t, <2>2, <3>1, <4>1, CountFacts
      <3>2. CASE ~Waited(fd)
        <4>1. fd \notin WaitedFds  BY <3>2 DEF WaitedFds
        <4> QED  BY <1>t, <2>2, <2>4, <3>2, <4>1, CountFacts
      <3> QED  BY <3>1, <3>2
    <2>6. Count(ArgFds') = Count(ArgFds) - efree_arguments(fd)
      <3>1. CASE ev[fd].arguments
        <4>1. fd \in ArgFds /\ efree_arguments(fd) = 1
          BY <1>2, <3>1 DEF ArgFds, efree_arguments
        <4> QED  BY <1>t, <2>3, <4>1, CountFacts
      <3>2. CASE ~ev[fd].arguments
        <4>1. fd \notin ArgFds /\ efree_arguments(fd) = 0
          BY <1>2, <3>2 DEF ArgFds, efree_arguments
        <4> QED  BY <1>t, <2>3, <2>4, <4>1, CountFacts
      <3> QED  BY <3>1, <3>2
    <2>7. Waited(fd) => stack' = Append(stack, ev[fd].php_context) /\ ev[fd].php_context \in Co
      BY <1>2, TableFacts DEF aio_invoke, Waited
    <2> QED  BY <2>2, <2>5, <2>6, <2>7
  <1> QED  BY <1>1, <1>2

(* A socket stays a socket until it is closed.                             *)
LEMMA SocketStep ==
  ASSUME WakeupInv, [Next]_vars, NEW f \in Fd, kind[f] = "sock"
  PROVE  kind'[f] \in {"sock", "closed"}
  <1>0. TableInv /\ LoopInv  BY DEF WakeupInv, IInv
  <1>1. ASSUME NEW fd \in Fd, NEW w \in AioEvent, NEW k \in [Fd -> Kinds], k[f] = "sock",
               WaitOn(fd, w, k)
        PROVE  kind'[f] \in {"sock", "closed"}
    BY <1>1 DEF WaitOn
  <1>2. ASSUME NEW fd \in Fd, NEW type, NEW mask, Wait(fd, type, mask),
               type \in {"accept", "normal"}, mask \in {"in", "out"}
        PROVE  kind'[f] \in {"sock", "closed"}
    <2> DEFINE w == [php_context |-> Current, events |-> mask, fd_type |-> type,
                     arguments |-> TRUE, timer |-> FALSE]
    <2>1. Running /\ WaitOn(fd, w, kind)  BY <1>2 DEF Wait
    <2>2. w \in AioEvent
      BY <1>2, <2>1, StackFacts DEF AioEvent, WakeupInv, IInv, CoInv
    <2>3. kind \in [Fd -> Kinds]  BY <1>0 DEF TableInv
    <2> HIDE DEF w
    <2> QED  BY <1>1, <2>1, <2>2, <2>3
  <1>3. CASE sleep
    <2> DEFINE w == [php_context |-> Current, events |-> "in", fd_type |-> "timer",
                     arguments |-> FALSE, timer |-> TRUE]
               k == [kind EXCEPT ![LowestFd] = "timer"]
    <2>1. Running /\ FreeFd # {} /\ WaitOn(LowestFd, w, k)  BY <1>3 DEF sleep
    <2>2. w \in AioEvent
      BY <2>1, StackFacts DEF AioEvent, WakeupInv, IInv, CoInv
    <2>3. LowestFd \in Fd /\ kind[LowestFd] = "closed"
      BY <1>0, <2>1, LowestIsFree DEF TableInv
    <2>4. k \in [Fd -> Kinds] /\ k[f] = "sock"  BY <1>0, <2>3 DEF TableInv, Kinds
    <2> HIDE DEF w, k
    <2> QED  BY <1>1, <2>1, <2>2, <2>3, <2>4
  <1>4. ASSUME NEW fd \in Fd, socket_close(fd)
        PROVE  kind'[f] \in {"sock", "closed"}
    <2>1. kind' = freed_kind(fd, [kind EXCEPT ![fd] = "closed"])  BY <1>4 DEF socket_close
    <2> QED  BY <1>0, <2>1 DEF freed_kind, TableInv
  <1>5. CASE \/ \E fd \in Fd : PhpClose(fd) \/ \E p \in BOOLEAN : socket_set_timeout(fd, p)
             \/ \E c \in Co : Create(c) \/ Resume(c)
             \/ Yield \/ Finish \/ EnterLoop
             \/ epoll_wait \/ NoTimeout \/ TimeoutDone \/ LeaveLoop
    <2>1. kind' = kind \/ \E fd \in Fd : kind' = [kind EXCEPT ![fd] = "closed"]
      BY <1>5 DEF PhpClose, socket_set_timeout, Create, Resume, Yield, Finish, EnterLoop,
                  epoll_wait, NoTimeout, TimeoutDone, LeaveLoop, kernel
    <2> QED  BY <1>0, <2>1 DEF TableInv
  <1>6. ASSUME NEW k, Open(k) PROVE kind'[f] \in {"sock", "closed"}
    <2>1. LowestFd \in Fd /\ kind[LowestFd] = "closed"
      BY <1>0, <1>6, LowestIsFree DEF TableInv, Open
    <2> QED  BY <1>0, <1>6, <2>1 DEF Open, TableInv
  <1>7. ASSUME NEW fd \in Fd, aio_invoke(fd)
        PROVE  kind'[f] \in {"sock", "closed"}
    <2>1. CASE ev[fd] = NULL  BY <1>7, <2>1 DEF aio_invoke, kernel
    <2>2. CASE ev[fd] # NULL
      <3>1. PICK k \in Transferred(ev[fd]) : kind' = freed_kind(fd, k)
        BY <1>7, <2>2 DEF aio_invoke
      <3>2. k \in [Fd -> Kinds] /\ k[f] = "sock"
        BY <1>0, LowestIsFree DEF Transferred, TableInv, Kinds
      <3> QED  BY <1>0, <3>1, <3>2 DEF freed_kind, TableInv
    <2> QED  BY <2>1, <2>2
  <1>8. CASE Dispatch
    <2>1. Head(batch) \in Report
      BY <1>0, <1>8, HeadTailProperties DEF Dispatch, LoopInv
    <2>2. PICK fd \in Fd : fd = Head(batch).fd  BY <2>1 DEF Report
    <2>3. aio_invoke(fd) \/ UNCHANGED kernel  BY <1>8, <2>2 DEF Dispatch
    <2> QED  BY <1>7, <2>3 DEF kernel
  <1>9. CASE TimeoutFires
    <2>1. PICK fd \in Fd : fd = timeout_front.fd  BY <1>0, <1>9 DEF TimeoutFires, LoopInv
    <2> QED  BY <1>7, <1>9, <2>1 DEF TimeoutFires
  <1>10. CASE UNCHANGED vars  BY <1>10 DEF vars
  <1> QED
    BY <1>2, <1>3, <1>4, <1>5, <1>6, <1>8, <1>9, <1>10
    DEF Next, Script, LoopStep, socket_accept, socket_read, socket_write, prepare, fetchAll

(* The names that a step of Goes or of Invoke leaves.                      *)
LEMMA NamesStep ==
  ASSUME LedgerTypes, function_name' = [fd \in Fd |-> stored_name(fd)]
  PROVE  function_name' \in [Fd -> BOOLEAN] /\ NameKept'
  <1>1. \A fd \in Fd : stored_name(fd) \in BOOLEAN  BY DEF stored_name, LedgerTypes
  <1>2. function_name' \in [Fd -> BOOLEAN]  BY <1>1
  <1>3. NameKept'
    <2> SUFFICES ASSUME NEW fd \in Fd, Waited(fd)'
                 PROVE  function_name'[fd] <=> ev'[fd].fd_type # "timer"
      BY DEF NameKept
    <2>1. function_name'[fd] = stored_name(fd)  OBVIOUS
    <2> QED  BY <2>1 DEF stored_name, Waited
  <1> QED  BY <1>2, <1>3

(* A step in which d descriptors get a context, while an invocation goes   *)
(* on or comes back.                                                       *)
LEMMA GoesLedger ==
  ASSUME WakeupInv, WakeupInv', LedgerInv, [Next]_vars, Goes,
         NEW d \in Int, contexts' = contexts + d - efree_context,
         Count(WaitedFds') = Count(WaitedFds) + d,
         args' \in Int, lost' \in Int, args' = Count(ArgFds') + lost'
  PROVE  LedgerInv'
  <1>0. LedgerTypes /\ NameKept /\ ReadBackInv /\ ContextsOwned  BY DEF LedgerInv
  <1>1. function_name' \in [Fd -> BOOLEAN] /\ NameKept'  BY <1>0, NamesStep DEF Goes
  <1>2. ArgumentsOwned'  BY DEF ArgumentsOwned, ArgFds
  <1>3. contexts = Count(WaitedFds) + (IF inv = NULL THEN 0 ELSE 1) /\ Count(WaitedFds) \in Nat
    BY <1>0, CountFacts DEF ContextsOwned, WaitedFds
  <1>4. contexts' \in Int  BY <1>0 DEF LedgerTypes, efree_context
  <1>5. CASE inv = NULL \/ Back
    <2>1. inv' = NULL  BY <1>5 DEF Goes
    <2>2. efree_context = IF inv = NULL THEN 0 ELSE 1  BY <1>5 DEF efree_context, Back
    <2>3. contexts' = Count(WaitedFds')  BY <1>3, <2>2
    <2>4. Count(WaitedFds') \in Int  BY <1>3
    <2>5. ContextsOwned'  BY <2>1, <2>3, <2>4 DEF ContextsOwned, WaitedFds
    <2> QED  BY <1>1, <1>2, <1>4, <2>1, <2>5 DEF LedgerInv, LedgerTypes, ReadBackInv
  <1>6. CASE inv # NULL /\ ~Back
    <2>1. /\ inv \in Invocations
          /\ inv' = [inv EXCEPT !.closed = @ \/ kind'[inv.fd] = "closed",
                                !.freed  = @ \/ ev'[inv.fd] = NULL]
      BY <1>0, <1>6 DEF Goes, LedgerTypes
    <2>2. /\ inv'.fd = inv.fd /\ inv'.result = inv.result
          /\ inv'.closed = (inv.closed \/ kind'[inv.fd] = "closed")
          /\ inv'.freed = (inv.freed \/ ev'[inv.fd] = NULL)
          /\ inv' \in Invocations
      BY <2>1 DEF Invocations
    <2>3. inv' # NULL /\ stack' # << >>
      BY <1>6, <2>2, NullIsNoInvocation DEF Back
    <2>4. efree_context = 0  BY <1>6 DEF efree_context
    <2>5. contexts' = Count(WaitedFds') + 1  BY <1>3, <1>6, <2>4
    <2>6. ContextsOwned'  BY <2>3, <2>5 DEF ContextsOwned, WaitedFds
    <2>7. ReadBackInv'
      <3> SUFFICES ASSUME ~inv'.closed
                   PROVE  /\ kind'[inv.fd] = "sock" /\ inv'.result
                          /\ ~inv'.freed => ev'[inv.fd] # NULL /\ function_name'[inv.fd]
        BY <2>2 DEF ReadBackInv
      <3>1. PICK f \in Fd : f = inv.fd  BY <2>1 DEF Invocations
      <3>2. ~inv.closed /\ kind'[f] # "closed"  BY <2>2, <3>1
      <3>3. kind[f] = "sock" /\ inv.result /\ (~inv.freed => function_name[f])
        BY <1>0, <1>6, <3>1, <3>2 DEF ReadBackInv
      <3>4. kind'[f] = "sock"  BY <3>2, <3>3, SocketStep
      <3>5. function_name'[f] = stored_name(f)  BY DEF Goes
      <3>6. Waited(f)' => ev'[f].fd_type # "timer"
        BY <3>4 DEF WakeupInv, WaitersInv, TimerOwned
      <3>7. ASSUME ~inv'.freed PROVE ev'[f] # NULL /\ function_name'[f]
        <4>1. ~inv.freed /\ ev'[f] # NULL  BY <2>2, <3>1, <3>7
        <4> QED  BY <3>3, <3>5, <3>6, <4>1 DEF stored_name, Waited
      <3> QED  BY <2>2, <3>1, <3>3, <3>4, <3>7
    <2> QED  BY <1>1, <1>2, <1>4, <2>2, <2>3, <2>6, <2>7 DEF LedgerInv, LedgerTypes
  <1> QED  BY <1>5, <1>6

(* aio_invoke begins: the context it took out of the table is the one it   *)
(* will free.                                                              *)
LEMMA InvokeLedger ==
  ASSUME WakeupInv, WakeupInv', LedgerInv, Looping,
         NEW fd \in Fd, aio_invoke(fd), Invoke(fd)
  PROVE  LedgerInv'
  <1>0. /\ LedgerTypes /\ NameKept /\ ContextsOwned /\ ArgumentsOwned
        /\ TableInv /\ CoInv /\ WaitersInv /\ WaitersInv'
    BY DEF LedgerInv, WakeupInv, IInv
  <1>1. function_name' \in [Fd -> BOOLEAN] /\ NameKept'  BY <1>0, NamesStep DEF Invoke
  <1>2. inv = NULL /\ stack = << >>  BY <1>0 DEF LedgerTypes, Looping, Running
  <1>3. /\ Count(WaitedFds') = Count(WaitedFds) - (IF Waited(fd) THEN 1 ELSE 0)
        /\ Count(ArgFds') = Count(ArgFds) - efree_arguments(fd)
        /\ Waited(fd) => stack' = Append(stack, ev[fd].php_context) /\ ev[fd].php_context \in Co
        /\ ~Waited(fd)'
    BY <1>0, InvokeCounts
  <1>4. Count(WaitedFds) \in Nat /\ Count(ArgFds) \in Nat /\ efree_arguments(fd) \in Int
    BY CountFacts DEF WaitedFds, ArgFds, efree_arguments
  <1>5. contexts = Count(WaitedFds) /\ args = Count(ArgFds) + lost
    BY <1>0, <1>2, <1>4 DEF ContextsOwned, ArgumentsOwned, WaitedFds, ArgFds
  <1>6. args' = args - efree_arguments(fd) /\ contexts' = contexts /\ lost' = lost
    BY DEF Invoke
  <1>7. ArgumentsOwned'
    <2>1. args' = Count(ArgFds') + lost'  BY <1>0, <1>3, <1>4, <1>5, <1>6 DEF LedgerTypes
    <2> QED  BY <2>1 DEF ArgumentsOwned, ArgFds
  <1>8. contexts' \in Int /\ args' \in Int /\ lost' \in Int
    BY <1>0, <1>4, <1>6 DEF LedgerTypes
  <1>9. CASE ~Waited(fd)
    <2>1. inv' = NULL  BY <1>9 DEF Invoke
    <2>2. contexts' = Count(WaitedFds')  BY <1>3, <1>4, <1>5, <1>6, <1>9
    <2>3. Count(WaitedFds') \in Nat  BY <1>3, <1>4, <1>9
    <2>4. ContextsOwned'  BY <2>1, <2>2, <2>3 DEF ContextsOwned, WaitedFds
    <2> QED  BY <1>1, <1>7, <1>8, <2>1, <2>4 DEF LedgerInv, LedgerTypes, ReadBackInv
  <1>10. CASE Waited(fd)
    <2>1. inv' = [fd |-> fd, result |-> function_name[fd],
                  closed |-> kind'[fd] = "closed", freed |-> FALSE]
      BY <1>10 DEF Invoke
    <2>2. function_name[fd] \in BOOLEAN /\ (kind'[fd] = "closed") \in BOOLEAN
      BY <1>0 DEF LedgerTypes
    <2>3. /\ inv' \in Invocations /\ inv'.fd = fd /\ inv'.result = function_name[fd]
          /\ inv'.closed = (kind'[fd] = "closed") /\ inv'.freed = FALSE
      BY <2>1, <2>2 DEF Invocations
    <2>4. inv' # NULL  BY <2>3, NullIsNoInvocation
    <2>5. stack' # << >>
      <3>1. stack' = Append(stack, ev[fd].php_context) /\ ev[fd].php_context \in Co
        BY <1>3, <1>10
      <3> QED  BY <1>0, <3>1, AppendProperties DEF CoInv
    <2>6. contexts' = Count(WaitedFds') + 1  BY <1>3, <1>4, <1>5, <1>6, <1>10
    <2>7. ContextsOwned'  BY <2>4, <2>6 DEF ContextsOwned, WaitedFds
    <2>8. ReadBackInv'
      <3> SUFFICES ASSUME kind'[fd] # "closed"
                   PROVE  /\ kind'[fd] = "sock" /\ function_name[fd]
                          /\ ev'[fd] # NULL /\ function_name'[fd]
        BY <2>3 DEF ReadBackInv
      <3>1. ev[fd] # NULL /\ kind[fd] \in {"sock", "timer"}
        BY <1>0, <1>10 DEF WaitersInv, WaitedPollable, Waited
      <3>2. PICK k \in Transferred(ev[fd]) : kind' = freed_kind(fd, k)
        BY <3>1 DEF aio_invoke
      <3>3. k \in [Fd -> Kinds] /\ k[fd] = kind[fd]
        BY <1>0, <3>1, LowestIsFree DEF Transferred, TableInv, Kinds
      <3>4. ev[fd].fd_type # "timer" /\ kind' = k
        BY <3>1, <3>2, <3>3 DEF freed_kind
      <3>5. kind'[fd] = "sock"
        BY <1>0, <1>10, <3>1, <3>3, <3>4 DEF WaitersInv, TimerOwned
      <3>6. function_name[fd]  BY <1>0, <1>10, <3>4 DEF NameKept
      <3>7. ev' = [ev EXCEPT ![fd] = NewEvent] /\ NewEvent # NULL
        BY <1>0, <3>1, InvokeEffect, NewIsConsistent, NullIsNoEvent
      <3>8. ev'[fd] = NewEvent  BY <1>0, <3>7 DEF TableInv
      <3>9. function_name'[fd] = stored_name(fd)  BY DEF Invoke
      <3>10. function_name'[fd]  BY <3>6, <3>7, <3>8, <3>9 DEF stored_name, NewEvent
      <3> QED  BY <3>5, <3>6, <3>7, <3>8, <3>10
    <2> QED  BY <1>1, <1>7, <1>8, <2>3, <2>4, <2>5, <2>7, <2>8 DEF LedgerInv, LedgerTypes
  <1> QED  BY <1>9, <1>10

(* The waiting calls with arguments.                                       *)
LEMMA WaitCallLedger ==
  ASSUME WakeupInv, WakeupInv', LedgerInv, [Next]_vars, NEW fd \in Int, WaitCall(fd),
         \/ fd < 0 /\ NoDescriptor
         \/ /\ fd \in Fd /\ ~(fd < 0)
            /\ \E type \in {"accept", "normal"}, mask \in {"in", "out"} : Wait(fd, type, mask)
  PROVE  LedgerInv'
  <1>0. /\ LedgerTypes /\ ArgumentsOwned /\ TableInv /\ CoInv
    BY DEF LedgerInv, WakeupInv, IInv
  <1> DEFINE fails == fd < 0 \/ ev'[fd] = NULL
  <1>1. /\ lost' = lost + (IF fails THEN 1 ELSE 0)
        /\ args' = args + 1
        /\ contexts' = contexts + (IF fails THEN 0 ELSE 1) - efree_context
        /\ Goes
    BY DEF WaitCall
  <1>2. Count(WaitedFds) \in Nat /\ Count(ArgFds) \in Nat /\ args = Count(ArgFds) + lost
    BY <1>0, CountFacts DEF WaitedFds, ArgFds, ArgumentsOwned
  <1>3. /\ Count(WaitedFds') = Count(WaitedFds) + (IF fails THEN 0 ELSE 1)
        /\ Count(ArgFds') = Count(ArgFds) + (IF fails THEN 0 ELSE 1)
    <2>1. CASE fd < 0 /\ NoDescriptor
      <3>1. ev' = ev /\ fails  BY <2>1 DEF NoDescriptor, vars
      <3>2. WaitedFds' = WaitedFds /\ ArgFds' = ArgFds
        BY <3>1 DEF WaitedFds, ArgFds, Waited
      <3> QED  BY <1>2, <3>1, <3>2
    <2>2. ASSUME fd \in Fd, ~(fd < 0), NEW type \in {"accept", "normal"}, NEW mask \in {"in", "out"},
                 Wait(fd, type, mask)
          PROVE  /\ Count(WaitedFds') = Count(WaitedFds) + (IF fails THEN 0 ELSE 1)
                 /\ Count(ArgFds') = Count(ArgFds) + (IF fails THEN 0 ELSE 1)
      <3> DEFINE w == [php_context |-> Current, events |-> mask, fd_type |-> type,
                       arguments |-> TRUE, timer |-> FALSE]
      <3>1. Running /\ ~Waited(fd) /\ WaitOn(fd, w, kind)
        BY <2>2, InvocationAssumption DEF Wait
      <3>2. Current \in Co  BY <1>0, <3>1, StackFacts DEF CoInv
      <3>3. w \in AioEvent /\ w.php_context = Current /\ w.arguments = TRUE
        BY <2>2, <3>2 DEF AioEvent
      <3> HIDE DEF w
      <3>4. /\ ev'[fd] = NULL => UNCHANGED <<WaitedFds, ArgFds, stack>>
            /\ ev'[fd] # NULL =>
                 /\ Count(WaitedFds') = Count(WaitedFds) + 1
                 /\ Count(ArgFds') = Count(ArgFds) + (IF w.arguments THEN 1 ELSE 0)
        BY <1>0, <2>2, <3>1, <3>3, WaitCounts
      <3>5. fails <=> ev'[fd] = NULL  BY <2>2
      <3> QED  BY <1>2, <3>3, <3>4, <3>5
    <2> QED  BY <2>1, <2>2
  <1>4. PICK d \in Int : d = IF fails THEN 0 ELSE 1  OBVIOUS
  <1>5. PICK l \in Int : l = IF fails THEN 1 ELSE 0  OBVIOUS
  <1>6. d + l = 1  BY <1>4, <1>5
  <1> HIDE DEF fails
  <1>7. /\ contexts' = contexts + d - efree_context
        /\ Count(WaitedFds') = Count(WaitedFds) + d
        /\ lost' = lost + l /\ Count(ArgFds') = Count(ArgFds) + d
    BY <1>1, <1>3, <1>4, <1>5
  <1>8. args' \in Int /\ lost' \in Int /\ args' = Count(ArgFds') + lost'
    BY <1>0, <1>1, <1>2, <1>6, <1>7 DEF LedgerTypes
  <1> QED  BY <1>1, <1>7, <1>8, GoesLedger

(* Every step of the reactor with its memory keeps the ledger.             *)
LEMMA LedgerStep ==
  ASSUME WakeupInv, WakeupInv', LedgerInv, [AllNext]_allvars
  PROVE  LedgerInv'
  <1>0. /\ LedgerTypes /\ ArgumentsOwned /\ TableInv /\ CoInv /\ LoopInv /\ WaitersInv
        /\ [Next]_vars
    BY AllNextIsNext DEF LedgerInv, WakeupInv, IInv
  <1>t. Count(WaitedFds) \in Nat /\ Count(ArgFds) \in Nat /\ args = Count(ArgFds) + lost
    BY <1>0, CountFacts DEF WaitedFds, ArgFds, ArgumentsOwned
  <1>f. \A fd \in Fd : fd \in Int /\ ~(fd < 0)  BY ReactorAssumption DEF Fd
  <1>1. ASSUME NEW fd \in Fd, Accept(fd) \/ Query(fd) PROVE LedgerInv'
    <2>1. WaitCall(fd) /\ \E type \in {"accept", "normal"}, mask \in {"in", "out"} : Wait(fd, type, mask)
      BY <1>1 DEF Accept, Query, socket_accept, prepare, fetchAll
    <2> QED  BY <1>0, <1>f, <2>1, WaitCallLedger
  <1>2. ASSUME NEW v \in Argument, Read(v) \/ Write(v) PROVE LedgerInv'
    <2>1. PICK fd : fd = c_convert_to_fd(v)  OBVIOUS
    <2>2. /\ WaitCall(fd)
          /\ fd < 0 => NoDescriptor
          /\ ~(fd < 0) => socket_read(fd) \/ socket_write(fd)
      BY <1>2, <2>1 DEF Read, Write
    <2>3. ~(fd < 0) => fd \in Fd  BY <2>1, ConvertToFd
    <2>4. fd \in Int
      BY <2>1, ReactorAssumption DEF Argument, c_convert_to_fd, C_ERR, Fd
    <2>5. ~(fd < 0) => \E type \in {"accept", "normal"}, mask \in {"in", "out"} : Wait(fd, type, mask)
      BY <2>2 DEF socket_read, socket_write
    <2> QED  BY <1>0, <2>2, <2>3, <2>4, <2>5, WaitCallLedger
  <1>3. CASE Sleep
    <2> DEFINE w == [php_context |-> Current, events |-> "in", fd_type |-> "timer",
                     arguments |-> FALSE, timer |-> TRUE]
               k == [kind EXCEPT ![LowestFd] = "timer"]
    <2>1. /\ Running /\ FreeFd # {} /\ WaitOn(LowestFd, w, k)
          /\ contexts' = contexts + (IF ev'[LowestFd] = NULL THEN 0 ELSE 1) - efree_context
          /\ Goes /\ UNCHANGED <<args, lost>>
      BY <1>3 DEF Sleep, sleep
    <2>2. Current \in Co  BY <1>0, <2>1, StackFacts DEF CoInv
    <2>3. w \in AioEvent /\ w.php_context = Current /\ w.arguments = FALSE
      BY <2>2 DEF AioEvent
    <2>4. LowestFd \in Fd /\ kind[LowestFd] = "closed"
      BY <1>0, <2>1, LowestIsFree DEF TableInv
    <2>5. ~Waited(LowestFd)  BY <1>0, <2>4 DEF WaitersInv, WaitedPollable
    <2> HIDE DEF w, k
    <2>6. PICK d \in Int : d = IF ev'[LowestFd] = NULL THEN 0 ELSE 1  OBVIOUS
    <2>7. Count(WaitedFds') = Count(WaitedFds) + d /\ Count(ArgFds') = Count(ArgFds)
      <3>1. CASE ev'[LowestFd] = NULL
        <4>1. UNCHANGED <<WaitedFds, ArgFds>>
          BY <1>0, <2>1, <2>3, <2>4, <2>5, <3>1, WaitCounts
        <4> QED  BY <1>t, <2>6, <3>1, <4>1
      <3>2. CASE ev'[LowestFd] # NULL
        <4>1. /\ Count(WaitedFds') = Count(WaitedFds) + 1
              /\ Count(ArgFds') = Count(ArgFds) + (IF w.arguments THEN 1 ELSE 0)
          BY <1>0, <2>1, <2>3, <2>4, <2>5, <3>2, WaitCounts
        <4> QED  BY <1>t, <2>3, <2>6, <3>2, <4>1
      <3> QED  BY <3>1, <3>2
    <2>8. args' \in Int /\ lost' \in Int /\ args' = Count(ArgFds') + lost'
      BY <1>0, <1>t, <2>1, <2>7 DEF LedgerTypes
    <2>9. contexts' = contexts + d - efree_context  BY <2>1, <2>6
    <2> QED  BY <1>0, <2>1, <2>7, <2>8, <2>9, GoesLedger
  <1>4. ASSUME NEW fd \in Fd, Close(fd) PROVE LedgerInv'
    <2>1. /\ ~Waited(fd)
          /\ ev' = [ev EXCEPT ![fd] = freed_event(ev[fd])]
          /\ stack' = stack
          /\ args' = args - efree_arguments(fd) /\ Goes /\ UNCHANGED <<contexts, lost>>
      BY <1>4, InvocationAssumption DEF Close, socket_close
    <2>2. ev' = [ev EXCEPT ![fd] = IF ev[fd] = NULL THEN NULL ELSE NewEvent]
      BY <1>0, <2>1, FreedIsNew DEF TableInv, WhollyUsedOrReleased, freed_event
    <2>3. ~(ev[fd] # NULL /\ ev[fd].arguments)  BY <1>0, <2>1, TableFacts
    <2>4. WaitedFds' = WaitedFds  BY <1>0, <2>1, <2>2 DEF WaitedFds, Waited, NewEvent, TableInv
    <2>5. ArgFds' = ArgFds  BY <1>0, <2>2, <2>3 DEF ArgFds, NewEvent, TableInv
    <2>6. efree_arguments(fd) = 0  BY <2>3 DEF efree_arguments
    <2>7. efree_context = 0  BY <1>0, <2>1 DEF efree_context, Back, LedgerTypes
    <2>8. args' \in Int /\ lost' \in Int /\ args' = Count(ArgFds') + lost'
      BY <1>0, <1>t, <2>1, <2>5, <2>6 DEF LedgerTypes
    <2>9. contexts' = contexts + 0 - efree_context /\ Count(WaitedFds') = Count(WaitedFds) + 0
      BY <1>0, <1>t, <2>1, <2>4, <2>7 DEF LedgerTypes
    <2> QED  BY <1>0, <2>1, <2>8, <2>9, GoesLedger
  <1>5. CASE DispatchEntry
    <2>1. Dispatch /\ Invoke(Head(batch).fd) /\ acts_on(Head(batch).events)
      BY <1>5 DEF DispatchEntry
    <2>2. Head(batch) \in Report
      BY <1>0, <2>1, HeadTailProperties DEF Dispatch, LoopInv
    <2>3. PICK fd \in Fd : fd = Head(batch).fd  BY <2>2 DEF Report
    <2>4. Looping /\ aio_invoke(fd) /\ Invoke(fd)  BY <2>1, <2>3 DEF Dispatch
    <2> QED  BY <2>4, InvokeLedger
  <1>6. CASE FireTimeout
    <2>1. PICK fd \in Fd : fd = timeout_front.fd
      BY <1>0, <1>6 DEF FireTimeout, TimeoutFires, LoopInv
    <2>2. Looping /\ aio_invoke(fd) /\ Invoke(fd)
      BY <1>6, <2>1 DEF FireTimeout, TimeoutFires
    <2> QED  BY <2>2, InvokeLedger
  <1>7. CASE SkipEntry \/ UNCHANGED allvars
    <2>1. UNCHANGED <<kind, ev, stack, function_name, contexts, args, lost, inv>>
      BY <1>7 DEF SkipEntry, Dispatch, allvars, vars, ledger, kernel
    <2> QED
      BY <2>1 DEF LedgerInv, LedgerTypes, NameKept, ReadBackInv, ContextsOwned, ArgumentsOwned, Waited
  <1>8. CASE Rest
    <2>1. /\ ev' = ev /\ contexts' = contexts - efree_context /\ Goes /\ UNCHANGED <<args, lost>>
      BY <1>8 DEF Rest, PhpClose, socket_set_timeout, Open, Create, Resume, Yield, Finish, EnterLoop,
                  epoll_wait, NoTimeout, TimeoutDone, LeaveLoop
    <2>2. WaitedFds' = WaitedFds /\ ArgFds' = ArgFds
      BY <2>1 DEF WaitedFds, ArgFds, Waited
    <2>3. efree_context \in Int  BY DEF efree_context
    <2>4. contexts' = contexts + 0 - efree_context /\ Count(WaitedFds') = Count(WaitedFds) + 0
      BY <1>0, <1>t, <2>1, <2>2, <2>3 DEF LedgerTypes
    <2>5. args' \in Int /\ lost' \in Int /\ args' = Count(ArgFds') + lost'
      BY <1>0, <1>t, <2>1, <2>2 DEF LedgerTypes
    <2> QED  BY <1>0, <2>1, <2>4, <2>5, GoesLedger
  <1> QED  BY <1>1, <1>2, <1>3, <1>4, <1>5, <1>6, <1>7, <1>8 DEF AllNext

LEMMA LedgerInvariance == AllSpec => [](WakeupInv /\ LedgerInv)
  <1>1. AllInit => WakeupInv /\ LedgerInv
    <2> SUFFICES ASSUME AllInit PROVE WakeupInv /\ LedgerInv  OBVIOUS
    <2>1. WakeupInv  BY WakeupInit DEF AllInit
    <2>2. WaitedFds = {} /\ ArgFds = {}  BY DEF AllInit, Init, WaitedFds, ArgFds, Waited
    <2>3. Count({}) = 0  BY FS_EmptySet DEF Count
    <2>e. Count(WaitedFds) = 0 /\ Count(ArgFds) = 0  BY <2>2, <2>3
    <2>4. ContextsOwned /\ ArgumentsOwned
      BY <2>e DEF AllInit, ContextsOwned, ArgumentsOwned, WaitedFds, ArgFds
    <2>5. LedgerTypes /\ NameKept /\ ReadBackInv
      BY DEF AllInit, Init, LedgerTypes, NameKept, ReadBackInv, Waited
    <2> QED  BY <2>1, <2>4, <2>5 DEF LedgerInv
  <1>2. WakeupInv /\ LedgerInv /\ [AllNext]_allvars => (WakeupInv /\ LedgerInv)'
    <2> SUFFICES ASSUME WakeupInv, LedgerInv, [AllNext]_allvars PROVE WakeupInv' /\ LedgerInv'
      OBVIOUS
    <2>1. [Next]_vars  BY AllNextIsNext
    <2>2. WakeupInv'  BY <2>1, WakeupStep, InvocationAssumption
    <2> QED  BY <2>2, LedgerStep
  <1> QED  BY <1>1, <1>2, PTL DEF AllSpec

(* aio_invoke, which reads the event once more after the coroutine it      *)
(* resumed has run, finds it saying what it said before, unless in between *)
(* the descriptor was closed, or a wait on it was refused and freed the    *)
(* event.                                                                  *)
THEOREM EventsReadBack == AllSpec => []EventReadBack
  <1>1. LedgerInv => EventReadBack
    <2> SUFFICES ASSUME LedgerInv, inv # NULL, ~inv.closed, ~inv.freed
                 PROVE  inv.result = function_name[inv.fd]
      BY DEF EventReadBack
    <2>1. inv.result /\ function_name[inv.fd]  BY DEF LedgerInv, ReadBackInv
    <2>2. inv \in Invocations /\ function_name \in [Fd -> BOOLEAN]
      BY DEF LedgerInv, LedgerTypes
    <2>3. inv.result \in BOOLEAN /\ function_name[inv.fd] \in BOOLEAN
      BY <2>2 DEF Invocations
    <2> QED  BY <2>1, <2>3
  <1> QED  BY <1>1, LedgerInvariance, PTL

(* No php_context is lost or freed twice: the blocks not freed are those   *)
(* of the events in the table and the one of the aio_invoke in progress.   *)
THEOREM ContextsAccounted == AllSpec => []ContextsOwned
  <1>1. LedgerInv => ContextsOwned  BY DEF LedgerInv
  <1> QED  BY <1>1, LedgerInvariance, PTL

(* No array of arguments is freed twice, and the calls that return FALSE   *)
(* are the only ones that lose theirs.                                     *)
THEOREM ArgumentsAccounted == AllSpec => []ArgumentsOwned
  <1>1. LedgerInv => ArgumentsOwned  BY DEF LedgerInv
  <1> QED  BY <1>1, LedgerInvariance, PTL
=============================================================================
