------------------------------ MODULE Deadline ------------------------------
(***************************************************************************)
(* Time: how long co::sleep sleeps and when a co::socket_set_timeout ends  *)
(* a wait.  Sleeps are timer descriptors set to a whole second of the      *)
(* monotonic clock; timeouts compare times of gettimeofday, which can be   *)
(* set, in a pass that event_loop makes once a turn, at most a second      *)
(* after it began to wait.                                                 *)
(*                                                                         *)
(* Descriptors and the event table are in Reactor; here each sleeping      *)
(* coroutine has its timer, and one socket has a reader and a timeout.  A  *)
(* timeout names the socket by its descriptor number, which is another's   *)
(* once the socket is closed: that of a timer, for one.                    *)
(***************************************************************************)
EXTENDS Integers, FiniteSets

CONSTANTS
  Co,                    \* coroutines
  Sec,                   \* ticks in a second
  Sleeps,                \* arguments of co::sleep, in seconds
  Limits,                \* arguments of co::socket_set_timeout, in ticks
  Steps,                 \* by how much the wall clock may be set
  MaxTurns,              \* turns of event_loop, 1000 in the code
  MaxBusy,               \* bound: ticks that coroutines spend computing
  NULL

ASSUME DeadlineAssumption ==
  /\ Sec \in Nat \ {0}
  /\ Sleeps \subseteq Nat \ {0}
  /\ Limits \subseteq Nat \ {0}
  /\ Steps \subseteq Int
  /\ MaxTurns \in Nat \ {0}
  /\ MaxBusy \in Nat
  /\ "socket" \notin Co /\ "free" \notin Co

VARIABLES
  now,                   \* CLOCK_MONOTONIC
  skew,                  \* gettimeofday, less now
  busy,                  \* ticks spent computing so far
  co,                    \* what each coroutine does, since when, until when
  number,                \* what has the number of the socket's descriptor: the
                         \* "socket", nothing ("free"), or a sleeper's timer
  ele,                   \* the element of RG.timeout_fd_link a pass can meet
  pushed,                \* the list is not empty to pushqueue
  loop,                  \* where event_loop is
  since,                 \* when it called epoll_wait
  turn,                  \* test, the turn counter
  batch                  \* coroutines reported and not resumed yet

clock == <<now, skew, busy>>
vars == <<now, skew, busy, co, number, ele, pushed, loop, since, turn, batch>>

(* get_current_time.                                                       *)
get_current_time == now + skew

(* A new element of the timeout list; made is a ghost, the time of it.      *)
Element(t, persistent) ==
  [timeout |-> t, last_time |-> get_current_time, persistent |-> persistent,
   made |-> now]

Init ==
  /\ now \in 0 .. (Sec - 1)
  /\ skew = 0
  /\ busy = 0
  /\ co = [c \in Co |-> [op |-> "run", at |-> 0, n |-> 0, deadline |-> 0]]
  /\ number = "socket"
  /\ ele = NULL
  /\ pushed = FALSE
  /\ loop = "script"
  /\ since = 0
  /\ turn = 0
  /\ batch = {}

Doing(op) == {c \in Co : co[c].op = op}
Running == Doing("run") # {}

(* The coroutines C are resumed; the timer of one that slept is closed,    *)
(* and its number is free.                                                 *)
Resumed(C) == [c \in Co |-> IF c \in C THEN [co[c] EXCEPT !.op = "run"] ELSE co[c]]
Resume(C) ==
  /\ co' = Resumed(C)
  /\ number' = IF number \in C THEN "free" ELSE number
-----------------------------------------------------------------------------
(* Mutant: the current time is not added.                                  *)
RelativeDeadline(n) == n * Sec

(* Mutant: the second is rounded up.                                       *)
RoundedUp(n) == ((now \div Sec) + n + 1) * Sec

(* create_timerfd: the current second plus n, and no nanoseconds.          *)
create_timerfd(n) == ((now \div Sec) + n) * Sec

(* co::sleep; of a time that is not positive it returns at once.  The      *)
(* timer may get the number that a closed socket had.                      *)
sleep(c, n) ==
  /\ co[c].op = "run"
  /\ number' \in IF number = "free" THEN {"free", c} ELSE {number}
  /\ co' = [co EXCEPT ![c] = [op |-> "sleep", at |-> now, n |-> n,
                              deadline |-> create_timerfd(n)]]
  /\ UNCHANGED <<clock, ele, pushed, loop, since, turn, batch>>

(* A wait on the socket, by one coroutine at a time.                       *)
socket_read(c) ==
  /\ co[c].op = "run" /\ number = "socket" /\ Doing("read") = {}
  /\ co' = [co EXCEPT ![c] = [op |-> "read", at |-> now, n |-> 0, deadline |-> 0]]
  /\ UNCHANGED <<clock, number, ele, pushed, loop, since, turn, batch>>

(* co::socket_set_timeout.  Only the first element is linked (see Link).   *)
socket_set_timeout(c, t, persistent) ==
  /\ co[c].op = "run" /\ number = "socket"
  /\ ele' = IF pushed THEN ele ELSE Element(t, persistent)
  /\ pushed' = TRUE
  /\ UNCHANGED <<clock, co, number, loop, since, turn, batch>>

(* co::socket_close, of a socket on which nobody waits; an element of the  *)
(* timeout list keeps the number.                                          *)
socket_close(c) ==
  /\ co[c].op = "run" /\ number = "socket" /\ Doing("read") = {}
  /\ number' = "free"
  /\ UNCHANGED <<clock, co, ele, pushed, loop, since, turn, batch>>

(* A new socket gets the number.                                           *)
Open(c) ==
  /\ co[c].op = "run" /\ number = "free"
  /\ number' = "socket"
  /\ UNCHANGED <<clock, co, ele, pushed, loop, since, turn, batch>>

Finish(c) ==
  /\ co[c].op = "run"
  /\ co' = [co EXCEPT ![c].op = "done"]
  /\ UNCHANGED <<clock, number, ele, pushed, loop, since, turn, batch>>

(* A coroutine computes for a tick; somebody sets the wall clock, once.    *)
Work ==
  /\ Running /\ busy < MaxBusy
  /\ now' = now + 1 /\ busy' = busy + 1
  /\ UNCHANGED <<skew, co, number, ele, pushed, loop, since, turn, batch>>

SetClock ==
  /\ skew = 0
  /\ skew' \in Steps
  /\ UNCHANGED <<now, busy, co, number, ele, pushed, loop, since, turn, batch>>
-----------------------------------------------------------------------------
EnterLoop ==
  /\ loop = "script" /\ ~Running
  /\ loop' = "wait" /\ since' = now
  /\ UNCHANGED <<clock, co, number, ele, pushed, turn, batch>>

more_turns == turn < MaxTurns

Expired == {c \in Doing("sleep") : co[c].deadline <= now}
Blocked == loop = "wait" /\ ~Running /\ more_turns

(* The kernel lets time pass in epoll_wait until a timer expires, the      *)
(* socket is readable or a second is over.                                 *)
Tick ==
  /\ Blocked /\ Expired = {} /\ now < since + Sec
  /\ now' = now + 1
  /\ UNCHANGED <<skew, busy, co, number, ele, pushed, loop, since, turn, batch>>

epoll_wait ==
  /\ Blocked
  /\ \E readable \in SUBSET Doing("read") : batch' = Expired \cup readable
  /\ batch' = {} => now = since + Sec
  /\ loop' = "dispatch"
  /\ UNCHANGED <<clock, co, number, ele, pushed, since, turn>>

Dispatch(c) ==
  /\ loop = "dispatch" /\ ~Running /\ c \in batch
  /\ batch' = batch \ {c}
  /\ Resume({c})
  /\ UNCHANGED <<clock, ele, pushed, loop, since, turn>>

due == ele # NULL /\ ele.last_time + ele.timeout <= get_current_time

NextTurn == loop' = "wait" /\ since' = now /\ turn' = turn + 1

(* Mutant: an element that is due wakes nobody.                            *)
PassWithoutWakeup ==
  /\ loop = "dispatch" /\ ~Running /\ batch = {}
  /\ IF due
     THEN loop' = "fired" /\ UNCHANGED <<co, number, since, turn>>
     ELSE NextTurn /\ UNCHANGED <<co, number>>
  /\ UNCHANGED <<clock, ele, pushed, batch>>

(* Who waits on the number that the element has: RG.aio_event_fds[fd] is   *)
(* the event of whatever has the number now.                               *)
OnTheNumber ==
  IF number = "socket" THEN Doing("read") ELSE {number} \ {"free"}

(* The pass over the timeout list: an element that is due resumes whoever  *)
(* waits on the number at that moment, if anybody: a reader of the socket, *)
(* or a coroutine that sleeps on a timer with the number the socket had.   *)
Pass ==
  /\ loop = "dispatch" /\ ~Running /\ batch = {}
  /\ IF due
     THEN Resume(OnTheNumber) /\ loop' = "fired" /\ UNCHANGED <<since, turn>>
     ELSE NextTurn /\ UNCHANGED <<co, number>>
  /\ UNCHANGED <<clock, ele, pushed, batch>>

(* Then a persistent element starts again; another is freed, and its next  *)
(* read from freed memory: the pass ends or the process dies.              *)
PassDone ==
  /\ loop = "fired" /\ ~Running
  /\ \/ ele.persistent /\ ele' = [ele EXCEPT !.last_time = get_current_time] /\ NextTurn
     \/ ~ele.persistent /\ ele' = NULL /\ NextTurn
     \/ ~ele.persistent /\ ele' = NULL /\ loop' = "crashed" /\ UNCHANGED <<since, turn>>
  /\ UNCHANGED <<clock, co, number, pushed, batch>>

LeaveLoop ==
  /\ loop = "wait" /\ ~Running /\ ~more_turns
  /\ loop' = "left"
  /\ UNCHANGED <<clock, co, number, ele, pushed, since, turn, batch>>

Next ==
  \/ \E c \in Co :
       \/ \E n \in Sleeps : sleep(c, n)
       \/ socket_read(c)
       \/ \E t \in Limits, persistent \in BOOLEAN : socket_set_timeout(c, t, persistent)
       \/ socket_close(c)
       \/ Open(c)
       \/ Finish(c)
       \/ Dispatch(c)
  \/ Work
  \/ SetClock
  \/ EnterLoop
  \/ Tick
  \/ epoll_wait
  \/ Pass
  \/ PassDone
  \/ LeaveLoop

Spec == Init /\ [][Next]_vars
-----------------------------------------------------------------------------
Slept(c) == now - co[c].at

(* co::sleep(n) returns after more than n - 1 seconds, because the start   *)
(* of the current second counts and not the moment of the call; never      *)
(* earlier, whoever sets the wall clock and whatever else is reported, but *)
(* for one case: a timeout that is due was set on a socket that is closed, *)
(* and the timer has the number that the socket had.                       *)
SleepsLongEnough ==
  [][\A c \in Co : co[c].op = "sleep" /\ co'[c].op = "run" =>
       \/ Slept(c) > (co[c].n - 1) * Sec
       \/ number = c /\ due /\ loop' = "fired"]_vars

(* ... and it never lasts longer than n seconds and the time that the      *)
(* coroutines spent computing, as long as the loop runs: the loop waits    *)
(* for no timer too long, with other sleepers and timeouts in between.     *)
SleepsNotTooLong ==
  \A c \in Doing("sleep") : Slept(c) <= co[c].n * Sec + busy

(* While a timeout of the socket is in the list, a wait lasts less than    *)
(* the timeout and a second (the turn of the loop) and what the coroutines *)
(* spent computing, from the time both are there, however often a          *)
(* persistent one fired before, if nobody sets the wall clock.             *)
TimeoutEndsWait ==
  ele # NULL /\ skew = 0 =>
    \A c \in Doing("read") :
      LET from == IF ele.made > co[c].at THEN ele.made ELSE co[c].at
      IN now - from < ele.timeout + Sec + busy
=============================================================================
