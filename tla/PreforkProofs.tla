---------------------------- MODULE PreforkProofs ---------------------------
(***************************************************************************)
(* For any number of processes, connections and turns, and wherever the    *)
(* script forks (before the first co::create, after it, between two runs   *)
(* of event_loop): in a process whose epoll instance is its own, no        *)
(* co::socket_accept is refused, and the coroutine that waits to accept is *)
(* in its table and registered; and, shared instance or not, the socket is *)
(* never left unregistered while a coroutine waits.                        *)
(***************************************************************************)
EXTENDS Prefork, TLAPS

(* What makes it so: an instance is used by the process that made it, and  *)
(* the socket is in an instance used by one process exactly while that     *)
(* process's coroutine waits.                                              *)
InstanceInv(p) ==
  /\ epollfd[p] # NULL => epollfd[epollfd[p]] = epollfd[p]
  /\ co[p] # "none" => epollfd[p] # NULL
  /\ main[p] = "unborn" => epollfd[p] = NULL
  /\ main[p] = "loop" => co[p] # "none"
  /\ p \in watching => epollfd[p] = p
  /\ ev[p] = "waiting" <=> co[p] = "wait"
  /\ Alone(p) => (epollfd[p] \in watching <=> co[p] = "wait")

PInv ==
  /\ epollfd \in [Proc -> Proc \cup {NULL}]
  /\ ev \in [Proc -> {"null", "idle", "waiting"}]
  /\ main \in [Proc -> {"unborn", "script", "loop"}]
  /\ co \in [Proc -> {"none", "run", "wait"}]
  /\ watching \subseteq Proc
  /\ \A p \in Proc : InstanceInv(p)

LEMMA PInvInit == Init => PInv
BY PreforkAssumption DEF Init, PInv, InstanceInv, Alone

(* A fork ends the solitude of the parent's instance and of no other, and  *)
(* the child, which had none, is not alone in it.                          *)
LEMMA PInvFork ==
  ASSUME PInv, NEW p \in Proc, NEW q \in Proc, Fork(p, q)
  PROVE  PInv'
<1> USE PreforkAssumption DEF Fork, clients, PInv
<1>1. p # q /\ epollfd[q] = NULL /\ co[q] = "none"
  BY DEF InstanceInv
<1>2. ASSUME NEW r \in Proc, Alone(r)' PROVE Alone(r) /\ r # q
  BY <1>1, <1>2 DEF Alone
<1>3. ASSUME NEW r \in Proc PROVE InstanceInv(r)'
  <2>1. epollfd[r]' # NULL => epollfd[epollfd[r]]' = epollfd[r]'
    BY <1>1 DEF InstanceInv
  <2>2. Alone(r)' => (epollfd[r]' \in watching' <=> co[r]' = "wait")
    BY <1>1, <1>2 DEF InstanceInv
  <2> QED BY <1>1, <2>1, <2>2 DEF InstanceInv
<1> QED BY <1>3

(* The first co::create of a process makes an instance nobody uses yet.    *)
LEMMA PInvCreate ==
  ASSUME PInv, NEW p \in Proc, Create(p)
  PROVE  PInv'
<1> USE PreforkAssumption DEF Create, clients, PInv
<1>1. ASSUME NEW r \in Proc, Alone(r)', r # p PROVE Alone(r)
  BY <1>1 DEF Alone, InstanceInv
<1>2. ASSUME NEW r \in Proc PROVE InstanceInv(r)'
  <2>1. Alone(r)' => (epollfd[r]' \in watching' <=> co[r]' = "wait")
    <3>1. CASE r # p
      BY <1>1, <3>1 DEF InstanceInv
    <3>2. CASE r = p /\ epollfd[p] = NULL
      BY <3>2 DEF InstanceInv
    <3>3. CASE r = p /\ epollfd[p] # NULL
      BY <3>3 DEF InstanceInv, Alone
    <3> QED BY <3>1, <3>2, <3>3
  <2> QED BY <2>1 DEF InstanceInv
<1> QED BY <1>2

(* Every step of the system, action by action: those that change what is   *)
(* registered change it for the process's own instance.                    *)
LEMMA PInvStep ==
  ASSUME PInv, [Next]_vars
  PROVE  PInv'
<1> USE PreforkAssumption
<1>1. CASE UNCHANGED vars
  BY <1>1 DEF vars, PInv, InstanceInv, Alone
<1>2. CASE Connect \/ GiveUp
  BY <1>2 DEF Connect, GiveUp, process, PInv, InstanceInv, Alone
<1>3. ASSUME NEW p \in Proc, NEW q \in Proc, Fork(p, q) PROVE PInv'
  BY <1>3, PInvFork
<1>4. ASSUME NEW p \in Proc, Create(p) PROVE PInv'
  BY <1>4, PInvCreate
<1>5. ASSUME NEW p \in Proc, socket_accept(p) PROVE PInv'
  BY <1>5 DEF socket_accept, StoreFails, needs_add, clients, PInv, InstanceInv, Alone
<1>6. ASSUME NEW p \in Proc, EnterLoop(p) PROVE PInv'
  BY <1>6 DEF EnterLoop, clients, PInv, InstanceInv, Alone
<1>7. ASSUME NEW p \in Proc, epoll_wait(p) \/ accept(p) PROVE PInv'
  BY <1>7 DEF epoll_wait, accept, PInv, InstanceInv, Alone
<1>8. ASSUME NEW p \in Proc, aio_invoke(p) PROVE PInv'
  BY <1>8 DEF aio_invoke, freed_watching, Looping, clients, PInv, InstanceInv, Alone
<1>9. ASSUME NEW p \in Proc, LeaveLoop(p) PROVE PInv'
  BY <1>9 DEF LeaveLoop, Looping, clients, PInv, InstanceInv, Alone
<1> QED BY <1>1, <1>2, <1>3, <1>4, <1>5, <1>6, <1>7, <1>8, <1>9 DEF Next, Script, Run

LEMMA PInvAlways == Spec => []PInv
<1>1. PInv /\ [Next]_vars => PInv'  BY PInvStep
<1> QED BY <1>1, PInvInit, PTL DEF Spec

(* In a process that has an epoll instance of its own, no socket_accept is *)
(* refused because of what the other processes do.                         *)
THEOREM AcceptNeverRefused == Spec => []RefusedOnlyIfShared
<1>1. PInv => RefusedOnlyIfShared
  BY DEF PInv, InstanceInv, RefusedOnlyIfShared, StoreFails
<1> QED BY <1>1, PInvAlways, PTL

(* A coroutine waits to accept exactly when it is in its process's table,  *)
(* and with an instance of its own it is registered there.                 *)
THEOREM AcceptorAlwaysRegistered == Spec => []AcceptorRegistered
<1>1. PInv => AcceptorRegistered
  BY DEF PInv, InstanceInv, AcceptorRegistered
<1> QED BY <1>1, PInvAlways, PTL

(* Sharing an instance is where this one is hard: a release takes the      *)
(* socket out for all the processes that share it, and makes one of them   *)
(* run; that one goes back to waiting only with the socket registered      *)
(* again, because a coroutine that runs has no wait in its table.          *)
LEMMA WatchStep ==
  ASSUME PInv, NeverUnwatched, [Next]_vars
  PROVE  NeverUnwatched'
<1> USE PreforkAssumption DEF PInv, NeverUnwatched
<1>1. CASE UNCHANGED vars
  BY <1>1 DEF vars
<1>2. CASE Connect \/ GiveUp
  BY <1>2 DEF Connect, GiveUp, process
<1>3. ASSUME NEW p \in Proc, NEW q \in Proc, Fork(p, q) PROVE NeverUnwatched'
  <2>1. p # q /\ epollfd[q] = NULL /\ co[q] = "none"
    BY <1>3 DEF Fork, InstanceInv
  <2> QED BY <1>3, <2>1 DEF Fork
<1>4. ASSUME NEW p \in Proc, Create(p) PROVE NeverUnwatched'
  BY <1>4 DEF Create, InstanceInv
<1>5. ASSUME NEW p \in Proc, socket_accept(p) PROVE NeverUnwatched'
  <2>1. needs_add(p)
    BY <1>5 DEF socket_accept, needs_add, InstanceInv
  <2> QED BY <1>5, <2>1 DEF socket_accept, StoreFails
<1>6. ASSUME NEW p \in Proc, EnterLoop(p) \/ LeaveLoop(p) \/ epoll_wait(p) \/ accept(p)
      PROVE  NeverUnwatched'
  BY <1>6 DEF EnterLoop, LeaveLoop, epoll_wait, accept
<1>7. ASSUME NEW p \in Proc, aio_invoke(p) PROVE NeverUnwatched'
  BY <1>7 DEF aio_invoke, freed_watching
<1> QED BY <1>1, <1>2, <1>3, <1>4, <1>5, <1>6, <1>7 DEF Next, Script, Run

(* While a coroutine of any process waits to accept, the socket is         *)
(* registered in its epoll instance, shared or not, or a process that uses *)
(* the instance is about to register it again.                             *)
THEOREM SocketNeverUnwatched == Spec => []NeverUnwatched
<1>1. Init => NeverUnwatched
  BY DEF Init, NeverUnwatched
<1>2. PInv /\ NeverUnwatched /\ [Next]_vars => NeverUnwatched'
  BY WatchStep
<1> QED BY <1>1, <1>2, PInvAlways, PTL DEF Spec
=============================================================================
