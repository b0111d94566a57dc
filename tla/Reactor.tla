------------------------------- MODULE Reactor ------------------------------
(***************************************************************************)
(* The reactor: the waiting calls of coroutine.c (socket_accept,           *)
(* socket_read, socket_write, sleep, PDO's prepare and fetchAll), the      *)
(* event table of coroutine_event.c, co::socket_close,                     *)
(* co::socket_set_timeout and event_loop with aio_invoke.                  *)
(*                                                                         *)
(* A coroutine is what Cooperative says: the one on top of stack runs and  *)
(* goes back to the one below, or to the main script or the loop, when it  *)
(* waits or ends.  The kernel (descriptors, epoll) is modelled from how    *)
(* the code uses it; descriptors are given out lowest first.  Which of the *)
(* registered descriptors are ready is chosen when the loop asks.          *)
(*                                                                         *)
(* The code leaves two rules of use to the script; BrokenRules says which  *)
(* ones the script breaks:                                                 *)
(*   "share": a coroutine waits on a descriptor on which another waits;    *)
(*   "close": a descriptor is closed while a coroutine waits on it.        *)
(***************************************************************************)
EXTENDS Integers, Sequences, FiniteSets, SequencesExt

CONSTANTS
  Co,                    \* coroutines
  NFd,                   \* bound: number of descriptors
  MaxTurns,              \* turns of event_loop, 1000 in the code
  MaxEvent,              \* DEFAULT_MAX_EVENT: events per epoll_wait
  Timeouts,              \* whether the script uses co::socket_set_timeout
  BrokenRules,           \* rules of use the script does not keep
  NULL

ASSUME ReactorAssumption ==
  /\ NFd \in Nat \ {0}
  /\ MaxTurns \in Nat \ {0}
  /\ MaxEvent \in Nat \ {0}
  /\ Timeouts \in BOOLEAN
  /\ BrokenRules \subseteq {"share", "close"}
  /\ NULL \notin Co

VARIABLES
  kind,                  \* kernel: what each descriptor is
  epoll,                 \* kernel: the events RG.epollfd watches on each
  ev,                    \* RG.aio_event_fds
  timeout_front,         \* RG.timeout_fd_link->front: its element
  timeout_rear,          \* whether RG.timeout_fd_link->rear is set
  pc,                    \* where each coroutine is
  stack,                 \* coroutines that run, the innermost last
  main,                  \* where the main script is
  loop,                  \* where event_loop is
  batch,                 \* events[i..nfds-1] of this turn
  turn                   \* test, the turn counter of event_loop

kernel == <<kind, epoll>>
timeouts == <<timeout_front, timeout_rear>>
control == <<main, loop, batch, turn>>
vars == <<kind, epoll, ev, timeout_front, timeout_rear, pc, stack, main, loop, batch, turn>>
-----------------------------------------------------------------------------
Fd == 0 .. (NFd - 1)

(* The part of an aio_event that matters; function_name, object and        *)
(* object_name only say which PHP function does the transfer.              *)
AioEvent == [php_context : Co \cup {NULL},
             events      : {"none", "in", "out"},
             fd_type     : {"none", "accept", "timer", "normal"},
             arguments   : BOOLEAN,
             timer       : BOOLEAN]

ASSUME NullIsNoEvent == NULL \notin AioEvent

(* malloc and memset of a new aio_event.                                   *)
NewEvent == [php_context |-> NULL, events |-> "none", fd_type |-> "none",
             arguments |-> FALSE, timer |-> FALSE]

(* "for" is a ghost: whose wait the kernel reports.                        *)
Report == [fd : Fd, events : {"in", "out", "err"}, for : Co]

Running   == stack # << >>
Scripting == main = "script" \/ Running
Current   == stack[Len(stack)]
Looping   == main = "loop" /\ ~Running

FreeFd   == {fd \in Fd : kind[fd] = "closed"}
LowestFd == CHOOSE fd \in FreeFd : \A g \in FreeFd : fd <= g

Waited(fd) == ev[fd] # NULL /\ ev[fd].php_context # NULL

Init ==
  /\ kind = [fd \in Fd |-> "closed"]
  /\ epoll = [fd \in Fd |-> "none"]
  /\ ev = [fd \in Fd |-> NULL]
  /\ timeout_front = NULL
  /\ timeout_rear = FALSE
  /\ pc = [co \in Co |-> "unborn"]
  /\ stack = << >>
  /\ main = "script"
  /\ loop = "off"
  /\ batch = << >>
  /\ turn = 0
-----------------------------------------------------------------------------
(* epoll_ctl(ADD) always refuses a descriptor that is closed, cannot be    *)
(* polled or is watched already.  It may refuse any other (ENOMEM, and     *)
(* ENOSPC at the user's limit of watches).                                 *)
AddRefused(fd, k) == k[fd] \notin {"sock", "timer"} \/ epoll[fd] # "none"

(* The event of fd as _aio_event_store finds or makes it; it registers     *)
(* when the event asks epoll for nothing.                                  *)
event_of(fd) == IF ev[fd] = NULL THEN NewEvent ELSE ev[fd]
needs_add(fd) == event_of(fd).events = "none"

(* Mutant: an event that exists is taken to be registered.                 *)
AddOnlyNew(fd, w) == IF ev[fd] = NULL THEN w.events ELSE epoll[fd]

(* What epoll watches on fd after a store of the wait w.                   *)
watched(fd, w) == IF needs_add(fd) THEN w.events ELSE epoll[fd]

(* The event of fd after a store of the wait w: registered if it was not,  *)
(* filled in if nobody waits; otherwise w is dropped.                      *)
stored_event(fd, w) ==
  LET e == event_of(fd)
      r == IF needs_add(fd) THEN [e EXCEPT !.events = w.events] ELSE e
  IN IF r.php_context # NULL THEN r ELSE [w EXCEPT !.events = r.events]

(* The waiting coroutine yields to the one below it on the stack.          *)
coro_yield ==
  /\ pc' = [pc EXCEPT ![Current] = "wait"]
  /\ stack' = SubSeq(stack, 1, Len(stack) - 1)

(* The wait is refused: the event is freed and the call returns FALSE.     *)
Refuse(fd) ==
  /\ needs_add(fd)
  /\ ev' = [ev EXCEPT ![fd] = NULL]
  /\ UNCHANGED <<epoll, pc, stack>>

(* The wait is stored and the coroutine suspended.                         *)
Store(fd, w, k) ==
  /\ needs_add(fd) => ~AddRefused(fd, k)
  /\ ev' = [ev EXCEPT ![fd] = stored_event(fd, w)]
  /\ epoll' = [epoll EXCEPT ![fd] = watched(fd, w)]
  /\ coro_yield

(* A waiting call on fd (k: the descriptors as it leaves them).            *)
WaitOn(fd, w, k) ==
  /\ kind' = k
  /\ Refuse(fd) \/ Store(fd, w, k)
  /\ UNCHANGED <<timeouts, control>>

Wait(fd, type, mask) ==
  /\ Running
  /\ kind[fd] \in {"sock", "file"}
  /\ Waited(fd) => "share" \in BrokenRules
  /\ WaitOn(fd, [php_context |-> Current, events |-> mask, fd_type |-> type,
                 arguments |-> TRUE, timer |-> FALSE], kind)

socket_accept(fd) == Wait(fd, "accept", "in")
socket_read(fd)   == Wait(fd, "normal", "in")

socket_write(fd)  == Wait(fd, "normal", "out")

(* Co\PDO::prepare and Co\PDOStatement::fetchAll, on the connection's fd.  *)
prepare(fd)  == Wait(fd, "normal", "out")
fetchAll(fd) == Wait(fd, "normal", "out")

(* co::sleep of a positive time.  create_timerfd gives a new descriptor,   *)
(* which stays open, with its itimerspec, when the wait is refused.        *)
sleep ==
  /\ Running
  /\ FreeFd # {}
  /\ WaitOn(LowestFd, [php_context |-> Current, events |-> "in", fd_type |-> "timer",
                       arguments |-> FALSE, timer |-> TRUE],
            [kind EXCEPT ![LowestFd] = "timer"])
-----------------------------------------------------------------------------
(* Mutant: the php_context is kept.                                        *)
KeepContext(e) ==
  IF e = NULL THEN NULL
  ELSE [e EXCEPT !.arguments = FALSE, !.timer = FALSE, !.fd_type = "none",
                 !.events = IF e.fd_type = "none" THEN e.events ELSE "none"]

(* Mutant: ep_event->events is not reset.                                  *)
KeepEvents(e) ==
  IF e = NULL THEN NULL
  ELSE [e EXCEPT !.php_context = NULL, !.arguments = FALSE, !.timer = FALSE,
                 !.fd_type = "none"]

(* aio_event_free: the event that stays in the table.                      *)
freed_event(e) ==
  IF e = NULL THEN NULL
  ELSE [e EXCEPT !.php_context = NULL,
                 !.arguments = FALSE,
                 !.timer = IF e.fd_type = "timer" THEN FALSE ELSE e.timer,
                 !.events = IF e.fd_type = "none" THEN e.events ELSE "none",
                 !.fd_type = "none"]

(* Mutant: the timer's descriptor is not closed.                           *)
LeakTimer(fd, k) == k

(* ... and the descriptors (k before): a timer is closed.                  *)
freed_kind(fd, k) ==
  IF ev[fd] # NULL /\ ev[fd].fd_type = "timer" THEN [k EXCEPT ![fd] = "closed"] ELSE k

(* Mutant: EPOLL_CTL_DEL is left out.                                      *)
KeepWatched(fd) == epoll

(* ... and what epoll watches (EPOLL_CTL_DEL, by type).                    *)
freed_epoll(fd) ==
  IF ev[fd] # NULL /\ ev[fd].fd_type # "none" THEN [epoll EXCEPT ![fd] = "none"] ELSE epoll

(* co::socket_close: PHP's socket_close (the kernel stops watching a       *)
(* closed descriptor), then aio_event_free.                                *)
socket_close(fd) ==
  /\ Scripting
  /\ kind[fd] \in {"sock", "file"}
  /\ Waited(fd) => "close" \in BrokenRules
  /\ kind' = freed_kind(fd, [kind EXCEPT ![fd] = "closed"])
  /\ epoll' = [epoll EXCEPT ![fd] = "none"]
  /\ ev' = [ev EXCEPT ![fd] = freed_event(ev[fd])]
  /\ UNCHANGED <<timeouts, pc, stack, control>>

(* PHP's own socket_close or fclose, of which the extension knows nothing. *)
PhpClose(fd) ==
  /\ Scripting
  /\ kind[fd] \in {"sock", "file"}
  /\ Waited(fd) => "close" \in BrokenRules
  /\ kind' = [kind EXCEPT ![fd] = "closed"]
  /\ epoll' = [epoll EXCEPT ![fd] = "none"]
  /\ UNCHANGED <<ev, timeouts, pc, stack, control>>

(* The script opens a socket, or a file (which epoll refuses).             *)
Open(k) ==
  /\ Scripting
  /\ FreeFd # {}
  /\ kind' = [kind EXCEPT ![LowestFd] = k]
  /\ UNCHANGED <<epoll, ev, timeouts, pc, stack, control>>

(* co::socket_set_timeout and pushqueue: the list counts as empty only     *)
(* with both ends NULL, and a second element is linked to no other.        *)
socket_set_timeout(fd, persistent) ==
  /\ Scripting /\ Timeouts
  /\ kind[fd] = "sock"
  /\ timeout_front' = IF timeout_front = NULL /\ ~timeout_rear
                      THEN [fd |-> fd, persistent |-> persistent]
                      ELSE timeout_front
  /\ timeout_rear' = TRUE
  /\ UNCHANGED <<kernel, ev, pc, stack, control>>

(* co::create runs the new coroutine; co::yield and co::resume; a          *)
(* coroutine ends.  The module Coroutine has these in full.                *)
Create(co) ==
  /\ Scripting
  /\ pc[co] = "unborn"
  /\ pc' = [pc EXCEPT ![co] = "run"]
  /\ stack' = Append(stack, co)
  /\ UNCHANGED <<kernel, ev, timeouts, control>>

Yield ==
  /\ Running
  /\ pc' = [pc EXCEPT ![Current] = "yielded"]
  /\ stack' = SubSeq(stack, 1, Len(stack) - 1)
  /\ UNCHANGED <<kernel, ev, timeouts, control>>

Resume(co) ==
  /\ Scripting
  /\ pc[co] = "yielded"
  /\ pc' = [pc EXCEPT ![co] = "run"]
  /\ stack' = Append(stack, co)
  /\ UNCHANGED <<kernel, ev, timeouts, control>>

Finish ==
  /\ Running
  /\ pc' = [pc EXCEPT ![Current] = "done"]
  /\ stack' = SubSeq(stack, 1, Len(stack) - 1)
  /\ UNCHANGED <<kernel, ev, timeouts, control>>
-----------------------------------------------------------------------------
(* The descriptors after the transfer that aio_invoke makes for the event  *)
(* e: accept may give a new one.                                           *)
Transferred(e) ==
  {kind} \cup IF e.fd_type = "accept" /\ e.arguments /\ FreeFd # {}
              THEN {[kind EXCEPT ![LowestFd] = "sock"]} ELSE {}

(* aio_invoke on the event of fd: the transfer, then the event is released *)
(* and the coroutine it had resumed.                                       *)
aio_invoke(fd) ==
  IF ev[fd] = NULL THEN UNCHANGED <<kernel, ev, pc, stack>>
  ELSE /\ \E k \in Transferred(ev[fd]) : kind' = freed_kind(fd, k)
       /\ epoll' = freed_epoll(fd)
       /\ ev' = [ev EXCEPT ![fd] = freed_event(ev[fd])]
       /\ IF ev[fd].php_context = NULL THEN UNCHANGED <<pc, stack>>
          ELSE /\ pc' = [pc EXCEPT ![ev[fd].php_context] = "run"]
               /\ stack' = Append(stack, ev[fd].php_context)

EnterLoop ==
  /\ main = "script" /\ ~Running
  /\ main' = "loop" /\ loop' = "wait" /\ turn' = 0
  /\ UNCHANGED <<kernel, ev, timeouts, pc, stack, batch>>

(* Mutant: one turn too many.                                              *)
OneMoreTurn == turn <= MaxTurns

more_turns == turn < MaxTurns

(* epoll_wait: some of the watched descriptors, in some order, for the     *)
(* event watched or for an error alone; none on its time-out of a second.  *)
epoll_wait ==
  /\ Looping /\ loop = "wait" /\ more_turns
  /\ \E S \in SUBSET {fd \in Fd : epoll[fd] # "none"} :
       /\ Cardinality(S) <= MaxEvent
       /\ \E order \in SetToSeqs(S), E \in SUBSET S :
            batch' = [i \in DOMAIN order |->
                        [fd |-> order[i],
                         events |-> IF order[i] \in E THEN "err" ELSE epoll[order[i]],
                         for |-> ev[order[i]].php_context]]
  /\ loop' = "dispatch"
  /\ UNCHANGED <<kernel, ev, timeouts, pc, stack, main, turn>>

(* Mutant: only EPOLLIN is looked at.                                      *)
OnlyIn(events) == events = "in"

(* The loop acts on EPOLLIN and on EPOLLOUT, and on nothing else.          *)
acts_on(events) == events \in {"in", "out"}

(* Mutant: the entry is not left behind (i is not incremented).            *)
SameEntry == batch

next_entries == Tail(batch)

Dispatch ==
  /\ Looping /\ loop = "dispatch" /\ batch # << >>
  /\ batch' = next_entries
  /\ IF acts_on(Head(batch).events)
     THEN aio_invoke(Head(batch).fd)
     ELSE UNCHANGED <<kernel, ev, pc, stack>>
  /\ UNCHANGED <<timeouts, main, loop, turn>>

(* The pass over the timeout list finds nothing due.                       *)
NoTimeout ==
  /\ Looping /\ loop = "dispatch" /\ batch = << >>
  /\ loop' = "wait" /\ turn' = turn + 1
  /\ UNCHANGED <<kernel, ev, timeouts, pc, stack, main, batch>>

(* Its element is due: the event of its descriptor is invoked.             *)
TimeoutFires ==
  /\ Looping /\ loop = "dispatch" /\ batch = << >>
  /\ timeout_front # NULL
  /\ aio_invoke(timeout_front.fd)
  /\ loop' = "fired"
  /\ UNCHANGED <<timeouts, main, batch, turn>>

(* Back from it: a persistent element starts again, another is unlinked    *)
(* (front only: rear keeps pointing to it) and freed; then its next is     *)
(* read, for a freed one from freed memory: the pass ends or the process   *)
(* dies.                                                                   *)
TimeoutDone ==
  /\ Looping /\ loop = "fired"
  /\ IF timeout_front.persistent
     THEN UNCHANGED <<timeout_front, main>>
     ELSE timeout_front' = NULL /\ main' \in {"loop", "crashed"}
  /\ loop' = "wait" /\ turn' = turn + 1
  /\ UNCHANGED <<kernel, ev, timeout_rear, pc, stack, batch>>

LeaveLoop ==
  /\ Looping /\ loop = "wait" /\ ~more_turns
  /\ main' = "script" /\ loop' = "off"
  /\ UNCHANGED <<kernel, ev, timeouts, pc, stack, batch, turn>>

Script ==
  \/ \E fd \in Fd :
       \/ socket_accept(fd)
       \/ socket_read(fd)
       \/ socket_write(fd)
       \/ prepare(fd)
       \/ fetchAll(fd)
       \/ socket_close(fd)
       \/ PhpClose(fd)
       \/ \E persistent \in BOOLEAN : socket_set_timeout(fd, persistent)
  \/ sleep
  \/ \E k \in {"sock", "file"} : Open(k)
  \/ \E co \in Co : Create(co) \/ Resume(co)
  \/ Yield
  \/ Finish
  \/ EnterLoop

LoopStep ==
  \/ epoll_wait
  \/ Dispatch
  \/ NoTimeout
  \/ TimeoutFires
  \/ TimeoutDone
  \/ LeaveLoop

Next == Script \/ LoopStep

(* The loop goes on whenever it has control, and a coroutine that has      *)
(* control gives it back in the end: otherwise nothing else can run, there *)
(* is no preemption.                                                       *)
Fairness == WF_vars(LoopStep) /\ WF_vars(Finish)

Spec == Init /\ [][Next]_vars /\ Fairness
-----------------------------------------------------------------------------
(* Types: event_loop ends after MaxTurns turns, and each report names a    *)
(* coroutine.                                                              *)
TypeOK ==
  /\ kind \in [Fd -> {"closed", "sock", "file", "timer"}]
  /\ epoll \in [Fd -> {"none", "in", "out"}]
  /\ ev \in [Fd -> AioEvent \cup {NULL}]
  /\ timeout_front \in [fd : Fd, persistent : BOOLEAN] \cup {NULL}
  /\ timeout_rear \in BOOLEAN
  /\ pc \in [Co -> {"unborn", "run", "wait", "yielded", "done"}]
  /\ stack \in Seq(Co)
  /\ main \in {"script", "loop", "crashed"}
  /\ loop \in {"off", "wait", "dispatch", "fired"}
  /\ batch \in Seq(Report)
  /\ turn \in 0 .. MaxTurns

Consistent(e) ==
  /\ e.php_context # NULL <=> e.events # "none"
  /\ e.php_context # NULL <=> e.fd_type # "none"
  /\ e.timer <=> e.fd_type = "timer"
  /\ e.arguments <=> e.fd_type \in {"accept", "normal"}

(* An event of the table is either wholly in use or wholly released: it    *)
(* has a context exactly when it has a type and asks epoll for events, and *)
(* arguments or a timer only then.  _aio_event_store relies on it when it  *)
(* fills in an event it found without context, whose old arguments or      *)
(* timer it would lose.  No rule of use is needed.                         *)
WhollyUsedOrReleased == \A fd \in Fd : ev[fd] # NULL => Consistent(ev[fd])

(* Whatever epoll watches is an open descriptor on which a coroutine       *)
(* waits, for the events it waits for: epoll_wait never reports something  *)
(* the table has no coroutine for.  No rule of use is needed.              *)
WatchedInUse ==
  \A fd \in Fd : epoll[fd] # "none" =>
    kind[fd] # "closed" /\ Waited(fd) /\ ev[fd].events = epoll[fd]

(* "if fd has been close ,the events is zero and fd has been del in epoll" *)
(* (coroutine_event.c, in _aio_event_store).                               *)
ClosedIsCleared ==
  \A fd \in Fd : kind[fd] = "closed" =>
    epoll[fd] = "none" /\ (ev[fd] = NULL \/ ev[fd].events = "none")

(* Every coroutine that waits is the context of exactly one event, epoll   *)
(* watches that descriptor for what the event asks, and nobody else has a  *)
(* context in the table: no wake-up is lost and none is delivered twice or *)
(* to a coroutine that runs or has ended.                                  *)
NoLostWaiter ==
  /\ \A co \in Co : pc[co] = "wait" =>
       \E fd \in Fd : Waited(fd) /\ ev[fd].php_context = co /\ epoll[fd] = ev[fd].events
  /\ \A fd \in Fd : Waited(fd) => pc[ev[fd].php_context] = "wait"
  /\ \A fd, g \in Fd : Waited(fd) /\ Waited(g) /\ fd # g =>
       ev[fd].php_context # ev[g].php_context

(* The entries of a batch that are not dispatched yet stay true while      *)
(* coroutines resumed by earlier entries wait, sleep, close and open       *)
(* descriptors (whose numbers the kernel reuses): the coroutine that the   *)
(* entry will resume is the one whose wait epoll reported.                 *)
BatchStaysTrue ==
  \A i \in DOMAIN batch :
    /\ Waited(batch[i].fd) /\ ev[batch[i].fd].php_context = batch[i].for
    /\ kind[batch[i].fd] # "closed"

(* Every open timer descriptor belongs to one sleeping coroutine: waking   *)
(* up closes it, by the timer, by a time-out or otherwise, and nothing     *)
(* closes it before.  The one that has no coroutine is that of a co::sleep *)
(* that was refused, which leaves it open: the refusal freed its event,    *)
(* and its number is never given out again.                                *)
TimerOwned ==
  \A fd \in Fd :
    /\ Waited(fd) /\ ev[fd].fd_type = "timer" => kind[fd] = "timer"
    /\ kind[fd] = "timer" => ev[fd] = NULL \/ (Waited(fd) /\ ev[fd].fd_type = "timer")

(* A coroutine whose event epoll reported as readable or writable is       *)
(* resumed, before event_loop can end.                                     *)
ReportedIsResumed ==
  \A co \in Co :
    (\E i \in DOMAIN batch : batch[i].for = co /\ batch[i].events # "err")
      ~> (pc[co] # "wait" \/ main = "crashed")
-----------------------------------------------------------------------------
(* What this module takes for granted of coroutines is what the module     *)
(* Coroutine implements: both implement Cooperative.                       *)
Abs == INSTANCE Cooperative WITH
  Coro    <- Co,
  born    <- {co \in Co : pc[co] # "unborn"},
  current <- IF Running THEN Current ELSE NULL,
  callers <- [i \in DOMAIN stack |-> IF i = 1 THEN NULL ELSE stack[i - 1]],
  waiting <- {co \in Co : pc[co] \in {"wait", "yielded"}},
  down    <- main = "crashed"

(* The waits, the event table and the loop start and resume coroutines one *)
(* at a time, resume only suspended ones, and give control back to whoever *)
(* had it, also by reports and timeouts for descriptors that were reused.  *)
ImplementsCooperative == Abs!Spec
=============================================================================
