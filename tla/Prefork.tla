------------------------------- MODULE Prefork ------------------------------
(***************************************************************************)
(* A server of several processes, as in tests/co_http_server.php: one      *)
(* listening socket, opened before the fork, on which a coroutine of each  *)
(* process calls co::socket_accept in a loop that event_loop drives.  When *)
(* event_loop has used up its turns the script goes on: it may fork again  *)
(* and call event_loop again, as that test does.  (A second coroutine that *)
(* accepts in the same process finds the event taken and is never resumed, *)
(* see Reactor; it changes nothing here.)                                  *)
(*                                                                         *)
(* Here steps of different processes interleave between any two system     *)
(* calls.  What they share is in the kernel: the queue of connections and, *)
(* when the first co::create (coro_init, which makes RG.epollfd) comes     *)
(* before the fork, the epoll instance: the child has checkPoint set and   *)
(* never makes its own.  epoll knows a registration by the open file and   *)
(* the descriptor's number, which are the same in all the processes.       *)
(***************************************************************************)
EXTENDS Integers, FiniteSets

CONSTANTS
  Proc,                  \* processes
  First,                 \* the process that the script starts in
  MaxConn,               \* bound: connections that clients make
  MaxTurns,              \* turns of event_loop, 1000 in the code
  NonBlocking,           \* socket_set_nonblock was called on the socket
  NULL

ASSUME PreforkAssumption ==
  /\ First \in Proc
  /\ MaxConn \in Nat
  /\ MaxTurns \in Nat \ {0}
  /\ NonBlocking \in BOOLEAN
  /\ NULL \notin Proc

VARIABLES
  epollfd,               \* RG.epollfd: who made the instance; NULL before coro_init
  ev,                    \* RG.aio_event_fds of the socket
  main,                  \* where the main script of each process is
  co,                    \* where its accepting coroutine is
  loop,                  \* where its event_loop is
  turn,                  \* test, the turn counter of its event_loop
  watching,              \* kernel: instances with the socket registered
  backlog,               \* kernel: connections not accepted yet
  made                   \* connections made so far

process == <<epollfd, ev, main, co, loop, turn>>
clients == <<backlog, made>>
vars == <<epollfd, ev, main, co, loop, turn, watching, backlog, made>>

Init ==
  /\ epollfd = [p \in Proc |-> NULL]
  /\ ev = [p \in Proc |-> "null"]
  /\ main = [p \in Proc |-> IF p = First THEN "script" ELSE "unborn"]
  /\ co = [p \in Proc |-> "none"]
  /\ loop = [p \in Proc |-> "wait"]
  /\ turn = [p \in Proc |-> 0]
  /\ watching = {}
  /\ backlog = 0
  /\ made = 0
-----------------------------------------------------------------------------
(* A client connects; one gives up before its connection is accepted.      *)
Connect ==
  /\ made < MaxConn
  /\ made' = made + 1 /\ backlog' = backlog + 1
  /\ UNCHANGED <<process, watching>>

GiveUp ==
  /\ backlog > 0
  /\ backlog' = backlog - 1
  /\ UNCHANGED <<process, watching, made>>

(* pcntl_fork by the main script, before its first co::create, after it or *)
(* after an event_loop: the child has a copy of everything.                *)
Fork(p, q) ==
  /\ main[p] = "script" /\ co[p] # "run" /\ main[q] = "unborn"
  /\ epollfd' = [epollfd EXCEPT ![q] = epollfd[p]]
  /\ ev' = [ev EXCEPT ![q] = ev[p]]
  /\ main' = [main EXCEPT ![q] = "script"]
  /\ co' = [co EXCEPT ![q] = co[p]]
  /\ UNCHANGED <<loop, turn, watching, clients>>

(* co::create of the coroutine that accepts, in a process that has none:   *)
(* the first one makes the epoll instance and clears the table.            *)
Create(p) ==
  /\ main[p] = "script" /\ co[p] = "none"
  /\ epollfd' = [epollfd EXCEPT ![p] = IF epollfd[p] = NULL THEN p ELSE epollfd[p]]
  /\ co' = [co EXCEPT ![p] = "run"]
  /\ UNCHANGED <<ev, main, loop, turn, watching, clients>>

(* Mutant: an event that exists is taken to be registered.                 *)
AddOnlyNew(p) == ev[p] = "null"

(* _aio_event_store registers when the event asks epoll for nothing.       *)
needs_add(p) == ev[p] # "waiting"

(* EPOLL_CTL_ADD is refused when the instance has the socket already (that *)
(* it may be refused for want of memory or watches is in Reactor; here the *)
(* coroutine would only call again).                                       *)
StoreFails(p) == needs_add(p) /\ epollfd[p] \in watching

(* co::socket_accept: on a refusal the event is freed, the call returns    *)
(* FALSE and the coroutine, which has nothing, calls it again; otherwise   *)
(* it yields to co::create or to aio_invoke, whose loop goes on.           *)
socket_accept(p) ==
  /\ co[p] = "run"
  /\ IF StoreFails(p)
     THEN /\ ev' = [ev EXCEPT ![p] = "null"]
          /\ UNCHANGED <<co, loop, turn, watching>>
     ELSE /\ ev' = [ev EXCEPT ![p] = "waiting"]
          /\ watching' = IF needs_add(p) THEN watching \cup {epollfd[p]} ELSE watching
          /\ co' = [co EXCEPT ![p] = "wait"]
          /\ loop' = [loop EXCEPT ![p] = "wait"]
          /\ turn' = [turn EXCEPT ![p] = IF main[p] = "loop" THEN turn[p] + 1 ELSE turn[p]]
  /\ UNCHANGED <<epollfd, main, clients>>

EnterLoop(p) ==
  /\ main[p] = "script" /\ co[p] = "wait"
  /\ main' = [main EXCEPT ![p] = "loop"]
  /\ turn' = [turn EXCEPT ![p] = 0]
  /\ UNCHANGED <<epollfd, ev, co, loop, watching, clients>>

more_turns(p) == turn[p] < MaxTurns

Looping(p) == main[p] = "loop" /\ co[p] # "run"
Ready(p) == backlog > 0 /\ epollfd[p] \in watching

(* epoll_wait reports the socket when a connection is there (it does not   *)
(* look who else was told), or returns nothing after a second.             *)
epoll_wait(p) ==
  /\ Looping(p) /\ loop[p] = "wait" /\ more_turns(p)
  /\ IF Ready(p)
     THEN loop' = [loop EXCEPT ![p] = "report"] /\ UNCHANGED turn
     ELSE turn' = [turn EXCEPT ![p] = turn[p] + 1] /\ UNCHANGED loop
  /\ UNCHANGED <<epollfd, ev, main, co, watching, clients>>

(* aio_invoke up to the call of PHP's socket_accept (without a wait in the *)
(* table there is none): it takes a connection, fails because another      *)
(* process was faster, or blocks until there is one.                       *)
accept(p) ==
  /\ Looping(p) /\ loop[p] = "report"
  /\ \/ /\ ev[p] # "waiting"
        /\ loop' = [loop EXCEPT ![p] = "wait"]
        /\ turn' = [turn EXCEPT ![p] = turn[p] + 1]
        /\ UNCHANGED backlog
     \/ /\ ev[p] = "waiting" /\ backlog > 0
        /\ loop' = [loop EXCEPT ![p] = "took"]
        /\ backlog' = backlog - 1
        /\ UNCHANGED turn
     \/ /\ ev[p] = "waiting" /\ backlog = 0 /\ NonBlocking
        /\ loop' = [loop EXCEPT ![p] = "failed"]
        /\ UNCHANGED <<turn, backlog>>
  /\ UNCHANGED <<epollfd, ev, main, co, watching, made>>

(* Mutant: no EPOLL_CTL_DEL.                                               *)
KeepWatching(p) == watching

(* aio_event_free takes the socket out of the instance, whoever put it in. *)
freed_watching(p) == watching \ {epollfd[p]}

(* The rest of aio_invoke: the event is released, the coroutine resumed.   *)
aio_invoke(p) ==
  /\ Looping(p) /\ loop[p] \in {"took", "failed"}
  /\ watching' = freed_watching(p)
  /\ ev' = [ev EXCEPT ![p] = "idle"]
  /\ co' = [co EXCEPT ![p] = "run"]
  /\ UNCHANGED <<epollfd, main, loop, turn, clients>>

(* event_loop returns to the script.                                       *)
LeaveLoop(p) ==
  /\ Looping(p) /\ loop[p] = "wait" /\ ~more_turns(p)
  /\ main' = [main EXCEPT ![p] = "script"]
  /\ UNCHANGED <<epollfd, ev, co, loop, turn, watching, clients>>

(* What the main script decides to do.                                     *)
Script(p) ==
  \/ Create(p)
  \/ EnterLoop(p)
  \/ \E q \in Proc : Fork(p, q)

(* What the extension goes on with by itself.                              *)
Run(p) ==
  \/ socket_accept(p)
  \/ epoll_wait(p)
  \/ accept(p)
  \/ aio_invoke(p)
  \/ LeaveLoop(p)

Next ==
  \/ Connect
  \/ GiveUp
  \/ \E p \in Proc : Script(p) \/ Run(p)

(* The operating system runs every process; nothing makes clients connect  *)
(* or give up, or a script create, fork or call event_loop.                *)
Fairness == \A p \in Proc : WF_vars(Run(p))

Spec == Init /\ [][Next]_vars /\ Fairness
-----------------------------------------------------------------------------
(* p's epoll instance is its own: the script made its first co::create     *)
(* after it was forked, and forked nobody since.                           *)
Alone(p) == epollfd[p] # NULL /\ \A q \in Proc : epollfd[q] = epollfd[p] => q = p

(* "多进程支持" (multi-process support, README.md): co::socket_accept is   *)
(* not refused because of what other processes accept, release and         *)
(* register meanwhile, if the process has an instance of its own; with a   *)
(* shared one it is.                                                       *)
RefusedOnlyIfShared ==
  \A p \in Proc : co[p] = "run" /\ Alone(p) => ~StoreFails(p)

(* The coroutine that accepts is in its process's table exactly when it    *)
(* waits, and then, in an instance of its own, the socket is registered,   *)
(* whatever the other processes do.                                        *)
AcceptorRegistered ==
  \A p \in Proc :
    /\ ev[p] = "waiting" <=> co[p] = "wait"
    /\ co[p] = "wait" /\ Alone(p) => epollfd[p] \in watching

(* Also when processes share an epoll instance, and each takes the socket  *)
(* out of it on behalf of all: while a coroutine of one of them waits, the *)
(* socket is registered or a process is about to register it again, so     *)
(* that the connections that come are reported to somebody.                *)
NeverUnwatched ==
  \A p \in Proc : co[p] = "wait" =>
    \/ epollfd[p] \in watching
    \/ \E q \in Proc : co[q] = "run" /\ epollfd[q] = epollfd[p]

(* A process with an instance of its own that waits in event_loop, with a  *)
(* turn left, while a connection is there, takes a connection, unless they *)
(* are all taken by other processes or given up: its coroutine is reported *)
(* the socket again after every accept, and no report that others made     *)
(* stale costs it the connection.                                          *)
ConnectionsServed ==
  \A p \in Proc :
    /\ main[p] = "loop" /\ co[p] = "wait" /\ loop[p] = "wait" /\ more_turns(p) /\ Alone(p)
    /\ backlog > 0
    ~> backlog = 0 \/ loop[p] = "took"

(* A process whose report became stale (another process or nobody is left  *)
(* with the connection) comes back to epoll_wait: its other coroutines are *)
(* not held up.  This needs the socket to be non-blocking, which the       *)
(* extension leaves to the script, and again an instance of its own.       *)
ReportIsNoTrap ==
  \A p \in Proc : loop[p] = "report" /\ Alone(p) ~> loop[p] = "wait" \/ ~Alone(p)
=============================================================================
