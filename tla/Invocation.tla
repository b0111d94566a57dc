----------------------------- MODULE Invocation -----------------------------
(***************************************************************************)
(* The memory of a waiting call, added to the module Reactor: the array of *)
(* arguments and the php_context that the call allocates, until aio_invoke *)
(* or the call itself frees them; the function name in the event, which    *)
(* nothing clears; and the end of aio_invoke, which frees the context and  *)
(* reads the event again after the coroutine it resumed has run.           *)
(*                                                                         *)
(* The script keeps the rules of use of Reactor (BrokenRules is empty).    *)
(***************************************************************************)
EXTENDS Reactor

CONSTANT MaxLost         \* bound: calls that fail after they allocated

ASSUME InvocationAssumption == MaxLost \in Nat /\ BrokenRules = {}

VARIABLES
  function_name,         \* whether the event of each descriptor has one
  contexts,              \* php_context blocks of waiting calls, not freed
  args,                  \* arrays of arguments not freed
  lost,                  \* ghost: calls that returned FALSE with their array
  inv                    \* the aio_invoke whose coroutine has control

ledger == <<function_name, contexts, args, lost, inv>>
allvars == <<vars, ledger>>

(* An aio_invoke in progress: its event's descriptor, what it read there   *)
(* (whether there is a result), whether the descriptor was closed since,   *)
(* and whether the event was freed (by a wait on it that was refused).     *)
Invocations == [fd : Fd, result : BOOLEAN, closed : BOOLEAN, freed : BOOLEAN]

ASSUME NullIsNoInvocation == NULL \notin Invocations

C_ERR == -1

(* The first argument of a call: a stream (some have no descriptor), a     *)
(* socket, a number, or something else.                                    *)
Argument ==
       [type : {"stream"}, fd : Fd \cup {-1}]
  \cup [type : {"socket"}, fd : Fd]
  \cup [type : {"long"}, fd : -1 .. (NFd - 1)]
  \cup [type : {"other"}, fd : {-1}]

(* c_convert_to_fd; objects are in the module CoPdo.                       *)
c_convert_to_fd(v) ==
  CASE v.type = "stream" -> IF v.fd < 0 THEN C_ERR ELSE v.fd
    [] v.type = "socket" -> v.fd
    [] v.type = "long"   -> IF v.fd < 0 THEN C_ERR ELSE v.fd
    [] OTHER             -> C_ERR

AllInit ==
  /\ Init
  /\ function_name = [fd \in Fd |-> FALSE]
  /\ contexts = 0
  /\ args = 0
  /\ lost = 0
  /\ inv = NULL
-----------------------------------------------------------------------------
(* Mutant: aio_event_free clears the function name too.                    *)
ClearedName(fd) == ev'[fd] # NULL /\ ev'[fd].php_context # NULL /\ ev'[fd].fd_type # "timer"

(* The function name after a step: the last wait set it, a new event has   *)
(* none, and neither has one that was filled in by co::sleep.              *)
stored_name(fd) ==
  IF ev'[fd] = NULL THEN FALSE
  ELSE IF ev'[fd].php_context # NULL THEN ev'[fd].fd_type # "timer"
  ELSE function_name[fd]

(* Mutant: efree(context) is left out.                                     *)
KeepContextBlock == 0

(* When its coroutine gives control back, aio_invoke frees the context.    *)
Back == inv # NULL /\ stack' = << >>
efree_context == IF Back THEN 1 ELSE 0

(* What every step does to the invocation in progress: the descriptor may  *)
(* be closed and the event freed under it.                                 *)
Goes ==
  /\ function_name' = [fd \in Fd |-> stored_name(fd)]
  /\ inv' = IF inv = NULL \/ Back THEN NULL
            ELSE [inv EXCEPT !.closed = @ \/ kind'[inv.fd] = "closed",
                             !.freed  = @ \/ ev'[inv.fd] = NULL]

(* What a waiting call on fd allocates and keeps: when it has no           *)
(* descriptor or the wait is refused (the context is freed then) it        *)
(* returns FALSE, and the array of arguments stays.                        *)
WaitCall(fd) ==
  LET fails == fd < 0 \/ ev'[fd] = NULL
  IN /\ fails => lost < MaxLost
     /\ lost' = lost + IF fails THEN 1 ELSE 0
     /\ args' = args + 1
     /\ contexts' = contexts + (IF fails THEN 0 ELSE 1) - efree_context
     /\ Goes

(* A call whose argument is no descriptor returns at once.                 *)
NoDescriptor == Running /\ UNCHANGED vars

Read(v) ==
  LET fd == c_convert_to_fd(v)
  IN (IF fd < 0 THEN NoDescriptor ELSE socket_read(fd)) /\ WaitCall(fd)

Write(v) ==
  LET fd == c_convert_to_fd(v)
  IN (IF fd < 0 THEN NoDescriptor ELSE socket_write(fd)) /\ WaitCall(fd)

(* socket_accept does not test the descriptor: it is given a socket.       *)
Accept(fd) == socket_accept(fd) /\ WaitCall(fd)

(* Co\PDO::prepare and Co\PDOStatement::fetchAll, whose object has fd.     *)
Query(fd) == (prepare(fd) \/ fetchAll(fd)) /\ WaitCall(fd)

(* co::sleep; when it is refused it frees the context.                     *)
Sleep ==
  /\ sleep
  /\ contexts' = contexts + (IF ev'[LowestFd] = NULL THEN 0 ELSE 1) - efree_context
  /\ Goes
  /\ UNCHANGED <<args, lost>>

(* Mutant: aio_event_free keeps the array.                                 *)
KeepArguments(fd) == 0

(* aio_event_free frees the array of arguments.                            *)
efree_arguments(fd) == IF ev[fd] # NULL /\ ev[fd].arguments THEN 1 ELSE 0

Close(fd) ==
  /\ socket_close(fd)
  /\ args' = args - efree_arguments(fd)
  /\ Goes
  /\ UNCHANGED <<contexts, lost>>

(* aio_invoke up to the resumption of the coroutine, if there is one.      *)
Invoke(fd) ==
  /\ args' = args - efree_arguments(fd)
  /\ function_name' = [g \in Fd |-> stored_name(g)]
  /\ inv' = IF ~Waited(fd) THEN NULL
            ELSE [fd |-> fd, result |-> function_name[fd],
                  closed |-> kind'[fd] = "closed", freed |-> FALSE]
  /\ UNCHANGED <<contexts, lost>>

DispatchEntry == Dispatch /\ Invoke(Head(batch).fd) /\ acts_on(Head(batch).events)
SkipEntry     == Dispatch /\ ~acts_on(Head(batch).events) /\ UNCHANGED ledger
FireTimeout   == TimeoutFires /\ Invoke(timeout_front.fd)

(* The steps that allocate and free nothing.                               *)
Rest ==
  /\ \/ \E fd \in Fd :
          PhpClose(fd) \/ \E persistent \in BOOLEAN : socket_set_timeout(fd, persistent)
     \/ \E k \in {"sock", "file"} : Open(k)
     \/ \E co \in Co : Create(co) \/ Resume(co)
     \/ Yield
     \/ Finish
     \/ EnterLoop
     \/ epoll_wait
     \/ NoTimeout
     \/ TimeoutDone
     \/ LeaveLoop
  /\ contexts' = contexts - efree_context
  /\ Goes
  /\ UNCHANGED <<args, lost>>

AllNext ==
  \/ \E fd \in Fd : Accept(fd) \/ Query(fd) \/ Close(fd)
  \/ \E v \in Argument : Read(v) \/ Write(v)
  \/ Sleep
  \/ DispatchEntry
  \/ SkipEntry
  \/ FireTimeout
  \/ Rest

AllSpec == AllInit /\ [][AllNext]_allvars /\ Fairness
-----------------------------------------------------------------------------
Count(S) == Cardinality(S)

(* "must be free before resume,because the event may be used when resume"  *)
(* (aio_invoke), and yet aio_invoke reads the event again to know whether  *)
(* it has a result to release.  The event answers as it did before,        *)
(* whatever waits were stored in it meanwhile, by the coroutine that ran   *)
(* in between or by others it started, unless one of them closed the       *)
(* descriptor, or waited on it and was refused: a refusal frees the event  *)
(* under the invocation, which then reads freed memory.                    *)
EventReadBack ==
  inv # NULL /\ ~inv.closed /\ ~inv.freed => inv.result = function_name[inv.fd]

(* Every php_context that a waiting call allocated is in the event table,  *)
(* or is the one aio_invoke will free: none is lost, also by calls that    *)
(* fail, and none is freed twice, also when the coroutine waits again      *)
(* before its previous context is freed.                                   *)
ContextsOwned ==
  contexts = Count({fd \in Fd : Waited(fd)}) + (IF inv = NULL THEN 0 ELSE 1)

(* An array of arguments is in the event of the wait it was allocated for, *)
(* or was lost by a call that returned FALSE, one each: no other path      *)
(* loses one, and none is freed twice.                                     *)
ArgumentsOwned ==
  args = Count({fd \in Fd : ev[fd] # NULL /\ ev[fd].arguments}) + lost
=============================================================================
