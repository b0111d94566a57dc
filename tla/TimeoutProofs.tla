---------------------------- MODULE TimeoutProofs ---------------------------
(***************************************************************************)
(* Timers and timeouts, for every length of a second, every sleep and      *)
(* timeout, any number of coroutines and any list of timeouts.             *)
(***************************************************************************)
EXTENDS Deadline, Link, CommonLemmas, TLAPS
-----------------------------------------------------------------------------
(* The list of timeouts.  A walk from the front meets one node, or none:   *)
(* that is what the recursive function of the walk comes to, because this  *)
(* answer satisfies the recursion and no other does.                       *)
ListInv ==
  /\ node \in [Node -> Contents \cup {Null}]
  /\ stage = "invoked" => q # Null
  /\ WalkIsSafe

LEMMA WalkValue ==
  ASSUME ListInv, NEW n \in Nat
  PROVE  walk[n] = IF n = 0 THEN front ELSE Null
<1> DEFINE g == [k \in Nat |-> IF k = 0 THEN front ELSE Null]
           w == walk
<1>0. Null \notin Allocated  BY LinkAssumption DEF Allocated
<1>1. w = CHOOSE h : h = [k \in Nat |->
            IF k = 0 THEN front
            ELSE IF h[k - 1] \in Allocated THEN node[h[k - 1]].next ELSE Null]
  BY DEF walk
<1>2. g = [k \in Nat |->
            IF k = 0 THEN front
            ELSE IF g[k - 1] \in Allocated THEN node[g[k - 1]].next ELSE Null]
  <2> SUFFICES ASSUME NEW k \in Nat, k # 0
               PROVE  (IF g[k - 1] \in Allocated THEN node[g[k - 1]].next ELSE Null) = Null
    OBVIOUS
  <2>1. k - 1 \in Nat /\ g[k - 1] = IF k - 1 = 0 THEN front ELSE Null  OBVIOUS
  <2>2. front \in Allocated => node[front].next = Null
    BY <1>0 DEF ListInv, WalkIsSafe
  <2> HIDE DEF g
  <2> QED BY <1>0, <2>1, <2>2
<1> HIDE DEF g, w
<1>3. w = [k \in Nat |->
            IF k = 0 THEN front
            ELSE IF w[k - 1] \in Allocated THEN node[w[k - 1]].next ELSE Null]
  BY <1>1, <1>2
<1>4. ASSUME NEW k \in Nat, w[k] # g[k] PROVE k - 1 \in Nat /\ w[k - 1] # g[k - 1]
  <2>1. k # 0  BY <1>2, <1>3, <1>4
  <2>2. k - 1 \in Nat  BY <2>1
  <2>3. /\ w[k] = IF w[k - 1] \in Allocated THEN node[w[k - 1]].next ELSE Null
        /\ g[k] = IF g[k - 1] \in Allocated THEN node[g[k - 1]].next ELSE Null
    BY <1>2, <1>3, <2>1
  <2> QED BY <1>4, <2>2, <2>3
<1>5. w[n] = g[n]
  <2> SUFFICES ASSUME w[n] # g[n] PROVE FALSE  OBVIOUS
  <2> DEFINE S == {k \in Nat : w[k] # g[k]}
  <2>1. S \subseteq Nat /\ S # {}  OBVIOUS
  <2>2. PICK k \in S : \A l \in S : k <= l
    <3> HIDE DEF S
    <3> QED BY <2>1, LeastNat
  <2>3. k - 1 \in S  BY <1>4
  <2>4. k <= k - 1 /\ k \in Nat  BY <2>2, <2>3
  <2> QED BY <2>4
<1> QED BY <1>5 DEF g, w

(* Unlinking the front node, in delete_node and in event_loop, empties the *)
(* list as a walk sees it.                                                 *)
LEMMA UnlinkStep ==
  ASSUME ListInv, front # Null, NEW before, unlink(front, before)
  PROVE  /\ front' = Null
         /\ node' \in [Node -> Contents \cup {Null}]
<1>1. front \in Node /\ node[front].next = Null
  BY DEF ListInv, WalkIsSafe, Allocated
<1>2. front' = Null /\ node' = [node EXCEPT ![front] = Null]
  BY <1>1 DEF unlink
<1> QED BY <1>1, <1>2 DEF ListInv

(* delete_node finds its data in the front node or nowhere.                *)
LEMMA DeleteStep ==
  ASSUME ListInv, NEW data \in Data, delete_node(data)
  PROVE  ListInv'
<1>0. Null \notin Node /\ Null \notin Allocated /\ Walk \subseteq Nat
  BY LinkAssumption DEF Allocated, Walk
<1>1. PICK n \in Walk : walk[n] \in Allocated /\ unlink(walk[n], IF n = 0 THEN Null ELSE walk[n - 1])
  BY DEF delete_node
<1>2. n = 0 /\ walk[n] = front  BY <1>0, <1>1, WalkValue
<1>3. front' = Null /\ node' \in [Node -> Contents \cup {Null}]
  BY <1>0, <1>1, <1>2, UnlinkStep
<1>4. stage' = "off"  BY DEF delete_node, passvars
<1> QED BY <1>3, <1>4 DEF ListInv, WalkIsSafe

(* expire takes out the front node, and a read of its memory that finds it *)
(* as it was ends the pass.                                                *)
LEMMA ExpireStep ==
  ASSUME ListInv, expire
  PROVE  ListInv'
<1>1. q = front /\ front # Null /\ node[front].next = Null
  BY DEF expire, ListInv, WalkIsSafe
<1>2. front' = Null /\ node' \in [Node -> Contents \cup {Null}]
  BY <1>1, UnlinkStep DEF expire
<1>3. (q' = Null /\ stage' = "look") \/ stage' = "lost"
  BY <1>1 DEF expire
<1> QED BY <1>2, <1>3 DEF ListInv, WalkIsSafe

(* pushqueue leaves the first node alone, or makes it.                     *)
LEMMA PushStep ==
  ASSUME ListInv, NEW data \in Data, pushqueue(data)
  PROVE  ListInv'
<1>1. PICK que \in Node \ Allocated :
        /\ node' = [node EXCEPT ![que] = [data |-> data, next |-> Null]]
        /\ front' = IF emptyqueue THEN que ELSE front
  BY DEF pushqueue
<1>0. q' = q /\ stage' = stage /\ stage \in {"off", "invoked"}  BY DEF pushqueue, passvars
<1>2. [data |-> data, next |-> Null] \in Contents  BY DEF Contents
<1>3. node' \in [Node -> Contents \cup {Null}]  BY <1>1, <1>2 DEF ListInv
<1>4. CASE front' = que
  <2>1. node'[front'] = [data |-> data, next |-> Null]  BY <1>1, <1>4 DEF ListInv
  <2>2. stage = "off"
    <3>1. front = Null  BY <1>1, <1>4 DEF emptyqueue, ListInv, WalkIsSafe
    <3> QED BY <1>0, <3>1 DEF ListInv, WalkIsSafe
  <2> QED BY <1>0, <1>1, <1>2, <1>3, <1>4, <2>1, <2>2, LinkAssumption DEF ListInv, WalkIsSafe, Allocated
<1>5. CASE front' # que
  <2>1. front' = front  BY <1>1, <1>5
  <2>2. \A m \in Allocated : node'[m] = node[m]  BY <1>1 DEF ListInv, Allocated
  <2> QED BY <1>0, <1>3, <2>1, <2>2 DEF ListInv, WalkIsSafe, Allocated
<1> QED BY <1>4, <1>5

(* However many elements are pushed, between passes and in the middle of   *)
(* one, and however malloc reuses nodes, event_loop's pass stands on the   *)
(* front node only, which is allocated and the last of the list; the read  *)
(* after free(q) ends the pass when the memory is as it was.  So Reactor   *)
(* and Deadline may keep one element.                                      *)
THEOREM WalksAreSafe == LinkSpec => []WalkIsSafe
<1>1. LinkInit => ListInv
  BY DEF LinkInit, ListInv, WalkIsSafe
<1>2. ListInv /\ [LinkNext]_linkvars => ListInv'
  <2> SUFFICES ASSUME ListInv, [LinkNext]_linkvars PROVE ListInv'  OBVIOUS
  <2>1. ASSUME NEW data \in Data, pushqueue(data) PROVE ListInv'  BY <2>1, PushStep
  <2>2. ASSUME NEW data \in Data, delete_node(data) PROVE ListInv'  BY <2>2, DeleteStep
  <2>3. CASE BeginPass
    BY <2>3 DEF BeginPass, listvars, ListInv, WalkIsSafe, Allocated
  <2>4. CASE EndPass
    BY <2>4 DEF EndPass, listvars, ListInv, WalkIsSafe, Allocated
  <2>5. CASE Invoke
    BY <2>5 DEF Invoke, listvars, ListInv, WalkIsSafe, Allocated
  <2>6. CASE Advance
    BY <2>6 DEF Advance, listvars, ListInv, WalkIsSafe, Allocated
  <2>7. CASE expire  BY <2>7, ExpireStep
  <2>8. CASE UNCHANGED linkvars
    BY <2>8 DEF linkvars, ListInv, WalkIsSafe, Allocated
  <2> QED BY <2>1, <2>2, <2>3, <2>4, <2>5, <2>6, <2>7, <2>8 DEF LinkNext
<1>3. ListInv => WalkIsSafe  BY DEF ListInv
<1> QED BY <1>1, <1>2, <1>3, PTL DEF LinkSpec
-----------------------------------------------------------------------------
(* Clocks, sleeps and timeouts.                                            *)
Doings == [op : {"run", "sleep", "read", "done"}, at : Nat, n : Nat, deadline : Int]
Elements == [timeout : Limits, last_time : Int, persistent : BOOLEAN, made : Nat]

ClockTypes ==
  /\ now \in Nat /\ skew \in Int /\ busy \in Nat /\ since \in Nat /\ since <= now
  /\ co \in [Co -> Doings] /\ batch \subseteq Co

(* A timer expires at the start of a second, after more than n - 1 seconds *)
(* and not after more than n; it is not overdue but for computing.         *)
SleepInv ==
  \A c \in Co : co[c].op = "sleep" =>
    /\ co[c].at + (co[c].n - 1) * Sec < co[c].deadline
    /\ co[c].deadline <= co[c].at + co[c].n * Sec
    /\ now - co[c].at <= co[c].n * Sec + busy

(* Sleepers that are reported have slept.                                  *)
BatchInv ==
  \A c \in batch : \/ co[c].op = "read"
                   \/ co[c].op = "sleep" /\ co[c].deadline <= now

From(c) == IF ele.made > co[c].at THEN ele.made ELSE co[c].at

(* Outside of the loop, and after a timeout fired, time passes only while  *)
(* coroutines compute.                                                     *)
ReadInv ==
  \A c \in Co : co[c].op = "read" =>
    co[c].at <= now /\ (loop \in {"script", "fired"} => now <= co[c].at + busy)

(* The time from which a timeout counts is that of the wait but for        *)
(* computing, and the turn of the loop began before the timeout was due.   *)
TimeoutInv ==
  /\ ele = NULL \/ ele \in Elements
  /\ ele # NULL => pushed
  /\ loop = "fired" => ele # NULL
  /\ ele # NULL /\ skew = 0 =>
       /\ ele.last_time <= now /\ ele.made <= now
       /\ \A c \in Co : co[c].op = "read" =>
            /\ ele.last_time <= From(c) + busy
            /\ since < From(c) + ele.timeout + busy
            /\ now < From(c) + ele.timeout + Sec + busy

ClockInv == ClockTypes /\ SleepInv /\ BatchInv /\ ReadInv /\ TimeoutInv

LEMMA ClockInit == Init => ClockInv
BY DeadlineAssumption
DEF Init, ClockInv, ClockTypes, SleepInv, BatchInv, ReadInv, TimeoutInv, Doings

(* create_timerfd: the current second and n more, from its start.          *)
LEMMA TimerBounds ==
  ASSUME ClockTypes, NEW n \in Nat
  PROVE  /\ create_timerfd(n) \in Int
         /\ now + (n - 1) * Sec < create_timerfd(n)
         /\ create_timerfd(n) <= now + n * Sec
<1>0. Sec \in Nat \ {0} /\ now \in Nat  BY DeadlineAssumption DEF ClockTypes
<1> DEFINE s == now \div Sec
<1>1. s \in Int /\ s * Sec <= now /\ now < s * Sec + Sec  BY <1>0
<1> HIDE DEF s
<1>2. (s + n) * Sec = s * Sec + n * Sec /\ (n - 1) * Sec = n * Sec - Sec  BY <1>0, <1>1
<1>3. create_timerfd(n) = (s + n) * Sec  BY DEF create_timerfd, s
<1>4. s * Sec \in Int /\ n * Sec \in Int  BY <1>0, <1>1
<1> QED BY <1>0, <1>1, <1>2, <1>3, <1>4

LEMMA SleepStep ==
  ASSUME ClockInv, NEW c \in Co, NEW n \in Sleeps, sleep(c, n)
  PROVE  ClockInv'
<1>0. /\ ClockTypes /\ SleepInv /\ BatchInv /\ ReadInv /\ TimeoutInv
      /\ n \in Nat /\ Sec \in Nat
  BY DeadlineAssumption DEF ClockInv
<1> DEFINE new == [op |-> "sleep", at |-> now, n |-> n, deadline |-> create_timerfd(n)]
<1>1. /\ co[c].op = "run" /\ co' = [co EXCEPT ![c] = new]
      /\ UNCHANGED <<now, skew, busy, ele, pushed, loop, since, turn, batch>>
  BY DEF sleep, clock
<1>2. /\ create_timerfd(n) \in Int
      /\ now + (n - 1) * Sec < create_timerfd(n) /\ create_timerfd(n) <= now + n * Sec
  BY <1>0, TimerBounds
<1>3. new \in Doings  BY <1>0, <1>2 DEF Doings, ClockTypes
<1>4. ClockTypes'  BY <1>0, <1>1, <1>3 DEF ClockTypes
<1>5. co'[c] = new /\ \A d \in Co : d # c => co'[d] = co[d]  BY <1>0, <1>1 DEF ClockTypes
<1>6. SleepInv'
  <2>1. n * Sec \in Nat  BY <1>0
  <2>2. now - now <= n * Sec + busy  BY <1>0, <2>1 DEF ClockTypes
  <2> SUFFICES ASSUME NEW d \in Co, co'[d].op = "sleep"
               PROVE  /\ co'[d].at + (co'[d].n - 1) * Sec < co'[d].deadline
                      /\ co'[d].deadline <= co'[d].at + co'[d].n * Sec
                      /\ now' - co'[d].at <= co'[d].n * Sec + busy'
    BY DEF SleepInv
  <2>3. CASE d = c
    <3>1. co'[d].at = now /\ co'[d].n = n /\ co'[d].deadline = create_timerfd(n)  BY <1>5, <2>3
    <3> QED BY <1>1, <1>2, <2>2, <3>1
  <2>4. CASE d # c  BY <1>0, <1>1, <1>5, <2>4 DEF SleepInv
  <2> QED BY <2>3, <2>4
<1>7. BatchInv'  BY <1>0, <1>1, <1>5 DEF BatchInv, ClockTypes
<1>8. ReadInv'  BY <1>0, <1>1, <1>5 DEF ReadInv
<1>9. TimeoutInv'
  <2>1. \A d \in Co : co'[d].op = "read" => co[d].op = "read" /\ From(d)' = From(d)
    BY <1>1, <1>5 DEF From
  <2> QED BY <1>0, <1>1, <2>1 DEF TimeoutInv
<1> QED BY <1>4, <1>6, <1>7, <1>8, <1>9 DEF ClockInv

LEMMA ReadStep ==
  ASSUME ClockInv, NEW c \in Co, socket_read(c)
  PROVE  ClockInv'
<1>0. ClockTypes /\ SleepInv /\ BatchInv /\ ReadInv /\ TimeoutInv  BY DEF ClockInv
<1> DEFINE new == [op |-> "read", at |-> now, n |-> 0, deadline |-> 0]
<1>1. /\ co[c].op = "run" /\ co' = [co EXCEPT ![c] = new]
      /\ UNCHANGED <<now, skew, busy, ele, pushed, loop, since, turn, batch>>
  BY DEF socket_read, clock
<1>2. new \in Doings  BY <1>0 DEF Doings, ClockTypes
<1>3. ClockTypes'  BY <1>0, <1>1, <1>2 DEF ClockTypes
<1>4. co'[c] = new /\ \A d \in Co : d # c => co'[d] = co[d]  BY <1>0, <1>1 DEF ClockTypes
<1>5. co'[c].op = "read" /\ co'[c].at = now  BY <1>4
<1>6. SleepInv'  BY <1>0, <1>1, <1>4, <1>5 DEF SleepInv
<1>7. BatchInv'  BY <1>0, <1>1, <1>4, <1>5 DEF BatchInv, ClockTypes
<1>8. ReadInv'  BY <1>0, <1>1, <1>4, <1>5 DEF ReadInv, ClockTypes
<1>9. TimeoutInv'
  <2> SUFFICES ASSUME ele' # NULL, skew' = 0
               PROVE  /\ ele'.last_time <= now' /\ ele'.made <= now'
                      /\ \A d \in Co : co'[d].op = "read" =>
                           /\ ele'.last_time <= From(d)' + busy'
                           /\ since' < From(d)' + ele'.timeout + busy'
                           /\ now' < From(d)' + ele'.timeout + Sec + busy'
    BY <1>0, <1>1 DEF TimeoutInv
  <2>1. /\ ele \in Elements /\ ele.last_time <= now /\ ele.made <= now
        /\ ele.timeout \in Nat \ {0} /\ ele.made \in Nat /\ ele.last_time \in Int
    BY <1>0, <1>1, DeadlineAssumption DEF TimeoutInv, Elements
  <2>2. From(c)' = now  BY <1>0, <1>1, <1>5, <2>1 DEF From, ClockTypes
  <2>3. \A d \in Co : d # c => From(d)' = From(d)  BY <1>1, <1>4 DEF From
  <2>4. /\ ele.last_time <= now + busy /\ since < now + ele.timeout + busy
        /\ now < now + ele.timeout + Sec + busy
    BY <1>0, <2>1, DeadlineAssumption DEF ClockTypes
  <2> QED BY <1>0, <1>1, <1>4, <2>1, <2>2, <2>3, <2>4 DEF TimeoutInv
<1> QED BY <1>3, <1>6, <1>7, <1>8, <1>9 DEF ClockInv

(* What has the socket's number: nobody waits on a socket that is closed,  *)
(* and a timer that has the number belongs to a sleeper.                   *)
NumberInv ==
  /\ number \in {"socket", "free"} \cup Co
  /\ number \in Co => co[number].op = "sleep"
  /\ number # "socket" => \A c \in Co : co[c].op # "read"

LEMMA NumberStep == ClockTypes /\ NumberInv /\ [Next]_vars => NumberInv'
<1> SUFFICES ASSUME ClockTypes, NumberInv, [Next]_vars PROVE NumberInv'  OBVIOUS
<1>0. /\ "socket" \notin Co /\ "free" \notin Co /\ "socket" # "free"
      /\ co \in [Co -> Doings]
  BY DeadlineAssumption DEF ClockTypes
<1>1. ASSUME NEW c \in Co, NEW n \in Sleeps, sleep(c, n) PROVE NumberInv'
  <2>1. /\ co'[c].op = "sleep" /\ \A d \in Co : d # c => co'[d] = co[d]
        /\ number' = number \/ (number = "free" /\ number' = c)
    BY <1>0, <1>1 DEF sleep
  <2> QED BY <1>0, <2>1 DEF NumberInv
<1>2. ASSUME NEW c \in Co, socket_read(c) PROVE NumberInv'
  BY <1>0, <1>2 DEF socket_read, NumberInv
<1>3. ASSUME NEW c \in Co, socket_close(c) \/ Open(c) PROVE NumberInv'
  BY <1>0, <1>3 DEF socket_close, Open, NumberInv, Doing
<1>4. ASSUME NEW c \in Co, Finish(c) PROVE NumberInv'
  <2>1. /\ co[c].op = "run" /\ co'[c].op = "done" /\ number' = number
        /\ \A d \in Co : d # c => co'[d] = co[d]
    BY <1>0, <1>4 DEF Finish, Doings
  <2> QED BY <1>0, <2>1 DEF NumberInv
<1>5. ASSUME NEW C, C \subseteq Co, Resume(C) PROVE NumberInv'
  <2>1. \A d \in Co : /\ d \in C => co'[d].op = "run"
                      /\ d \notin C => co'[d] = co[d]
    BY <1>0, <1>5 DEF Resume, Resumed, Doings
  <2>2. number' = IF number \in C THEN "free" ELSE number  BY <1>5 DEF Resume
  <2>3. number' \in {"socket", "free"} \cup Co  BY <2>2 DEF NumberInv
  <2>4. ASSUME number' \in Co PROVE co'[number'].op = "sleep"
    BY <1>0, <2>1, <2>2, <2>4 DEF NumberInv
  <2>5. ASSUME number' # "socket", NEW c \in Co PROVE co'[c].op # "read"
    <3>1. number # "socket"  BY <1>0, <1>5, <2>2, <2>5
    <3> QED BY <2>1, <3>1 DEF NumberInv
  <2> QED BY <2>3, <2>4, <2>5 DEF NumberInv
<1>6. ASSUME UNCHANGED <<co, number>> PROVE NumberInv'  BY <1>6 DEF NumberInv
<1>7. ASSUME NEW c \in Co, Dispatch(c) PROVE NumberInv'
  <2> DEFINE C == {c}
  <2>1. C \subseteq Co /\ Resume(C)  BY <1>7 DEF Dispatch
  <2> HIDE DEF C
  <2> QED BY <1>5, <2>1
<1>8. CASE Pass
  <2>1. OnTheNumber \subseteq Co  BY DEF OnTheNumber, Doing, NumberInv
  <2>2. Resume(OnTheNumber) \/ UNCHANGED <<co, number>>  BY <1>8 DEF Pass
  <2> QED BY <1>5, <1>6, <2>1, <2>2
<1>9. ASSUME NEW c \in Co, NEW t \in Limits, NEW p \in BOOLEAN, socket_set_timeout(c, t, p)
      PROVE  NumberInv'
  BY <1>6, <1>9 DEF socket_set_timeout
<1>10. Work \/ SetClock \/ EnterLoop \/ Tick \/ epoll_wait \/ PassDone \/ LeaveLoop \/ UNCHANGED vars
         => UNCHANGED <<co, number>>
  BY DEF Work, SetClock, EnterLoop, Tick, epoll_wait, PassDone, LeaveLoop, vars
<1> QED BY <1>1, <1>2, <1>3, <1>4, <1>6, <1>7, <1>8, <1>9, <1>10 DEF Next

(* Coroutines are resumed or end: nothing new is promised.                 *)
LEMMA FewerWaits ==
  ASSUME ClockTypes, SleepInv, ReadInv, TimeoutInv, NEW C, C \subseteq Co,
         NEW x, x \in {"run", "done"},
         co' = [c \in Co |-> IF c \in C THEN [co[c] EXCEPT !.op = x] ELSE co[c]],
         batch' \subseteq batch, BatchInv, batch' \cap C = {},
         UNCHANGED <<now, skew, busy, ele, pushed, since>>,
         loop' = loop \/ (loop' = "fired" /\ ele # NULL /\ {c \in Co : co[c].op = "read"} \subseteq C)
  PROVE  ClockInv'
<1>1. \A c \in Co : co[c] \in Doings /\ [co[c] EXCEPT !.op = x] \in Doings
  BY DEF ClockTypes, Doings
<1>2. ClockTypes'  BY <1>1 DEF ClockTypes
<1>3. \A c \in Co : /\ c \in C => co'[c].op = x /\ co'[c].at = co[c].at
                    /\ c \notin C => co'[c] = co[c]
  BY <1>1 DEF Doings
<1>4. SleepInv'  BY <1>3 DEF SleepInv
<1>5. BatchInv'  BY <1>3 DEF BatchInv, ClockTypes
<1>6. ReadInv'
  <2>1. \A c \in Co : co'[c].op = "read" => loop' = loop /\ co'[c] = co[c]  BY <1>3
  <2> QED BY <2>1 DEF ReadInv
<1>7. TimeoutInv'
  <2>1. \A d \in Co : co'[d].op = "read" => co[d].op = "read" /\ From(d)' = From(d)
    BY <1>3 DEF From
  <2> QED BY <2>1 DEF TimeoutInv
<1> QED BY <1>2, <1>4, <1>5, <1>6, <1>7 DEF ClockInv

LEMMA SetTimeoutStep ==
  ASSUME ClockInv, NEW c \in Co, NEW t \in Limits, NEW p \in BOOLEAN,
         socket_set_timeout(c, t, p)
  PROVE  ClockInv'
<1>0. /\ ClockTypes /\ SleepInv /\ BatchInv /\ ReadInv /\ TimeoutInv
      /\ t \in Nat \ {0} /\ Sec \in Nat \ {0}
  BY DeadlineAssumption DEF ClockInv
<1>1. /\ ele' = IF pushed THEN ele ELSE Element(t, p)
      /\ pushed' = TRUE /\ UNCHANGED <<now, skew, busy, co, loop, since, turn, batch>>
  BY DEF socket_set_timeout, clock
<1>2. ClockTypes' /\ SleepInv' /\ BatchInv' /\ ReadInv'
  BY <1>0, <1>1 DEF ClockTypes, SleepInv, BatchInv, ReadInv
<1>3. TimeoutInv'
  <2>1. CASE ele' = ele
    <3>1. \A d \in Co : From(d)' = From(d)  BY <1>1, <2>1 DEF From
    <3> QED BY <1>0, <1>1, <2>1, <3>1 DEF TimeoutInv
  <2>2. CASE ele' = Element(t, p) /\ ~pushed
    <3>0. loop # "fired"  BY <1>0, <2>2 DEF TimeoutInv
    <3>1. /\ ele' \in Elements /\ ele'.timeout = t /\ ele'.last_time = now + skew /\ ele'.made = now
      BY <1>0, <2>2 DEF Element, Elements, get_current_time, ClockTypes
    <3>2. ASSUME NEW d \in Co, co'[d].op = "read" PROVE From(d)' = now
      <4>1. co[d].at \in Nat /\ co[d].at <= now  BY <1>0, <1>1, <3>2 DEF ReadInv, ClockTypes, Doings
      <4> QED BY <1>0, <1>1, <3>1, <4>1 DEF From, ClockTypes
    <3>3. skew = 0 => now + skew = now  BY <1>0 DEF ClockTypes
    <3>4. now <= now /\ now <= now + busy /\ since < now + t + busy /\ now < now + t + Sec + busy
      BY <1>0 DEF ClockTypes
    <3> QED BY <1>1, <3>0, <3>1, <3>2, <3>3, <3>4 DEF TimeoutInv
  <2> QED BY <1>1, <2>1, <2>2
<1> QED BY <1>2, <1>3 DEF ClockInv

(* A tick in which coroutines compute is one on both sides.                *)
LEMMA WorkStep ==
  ASSUME ClockInv, Work
  PROVE  ClockInv'
<1>0. /\ ClockTypes /\ SleepInv /\ BatchInv /\ ReadInv /\ TimeoutInv
      /\ Sec \in Nat \ {0} /\ now \in Nat /\ busy \in Nat /\ since \in Nat
  BY DeadlineAssumption DEF ClockInv, ClockTypes
<1>1. /\ now' = now + 1 /\ busy' = busy + 1
      /\ UNCHANGED <<skew, co, ele, pushed, loop, since, turn, batch>>
  BY DEF Work
<1>2. ClockTypes'  BY <1>0, <1>1 DEF ClockTypes
<1>3. \A c \in Co : /\ co[c].at \in Nat /\ co[c].n * Sec \in Int /\ co[c].deadline \in Int
  BY <1>0 DEF ClockTypes, Doings
<1>4. SleepInv'  BY <1>0, <1>1, <1>3 DEF SleepInv
<1>5. BatchInv'  BY <1>0, <1>1, <1>3 DEF BatchInv, ClockTypes
<1>6. ReadInv'  BY <1>0, <1>1, <1>3 DEF ReadInv
<1>7. TimeoutInv'
  <2> SUFFICES ASSUME ele # NULL, skew = 0
               PROVE  /\ ele.last_time <= now' /\ ele.made <= now'
                      /\ \A c \in Co : co[c].op = "read" =>
                           /\ ele.last_time <= From(c)' + busy'
                           /\ since < From(c)' + ele.timeout + busy'
                           /\ now' < From(c)' + ele.timeout + Sec + busy'
    BY <1>0, <1>1 DEF TimeoutInv
  <2>1. /\ ele.timeout \in Nat /\ ele.last_time \in Int /\ ele.made \in Nat
        /\ ele.last_time <= now /\ ele.made <= now
    BY <1>0, DeadlineAssumption DEF TimeoutInv, Elements
  <2>2. \A c \in Co : From(c)' = From(c) /\ From(c) \in Nat  BY <1>1, <1>3, <2>1 DEF From
  <2>3. ASSUME NEW c \in Co, co[c].op = "read"
        PROVE  /\ ele.last_time <= From(c) + busy
               /\ since < From(c) + ele.timeout + busy
               /\ now < From(c) + ele.timeout + Sec + busy
    BY <1>0, <2>3 DEF TimeoutInv
  <2> HIDE DEF From
  <2>4. ASSUME NEW c \in Co, co[c].op = "read"
        PROVE  /\ ele.last_time <= From(c) + (busy + 1)
               /\ since < From(c) + ele.timeout + (busy + 1)
               /\ now + 1 < From(c) + ele.timeout + Sec + (busy + 1)
    BY <1>0, <2>1, <2>2, <2>3, <2>4
  <2> QED BY <1>0, <1>1, <2>1, <2>2, <2>4
<1> QED BY <1>2, <1>4, <1>5, <1>6, <1>7 DEF ClockInv

LEMMA SetClockStep ==
  ASSUME ClockInv, SetClock
  PROVE  ClockInv'
<1>0. ClockTypes /\ SleepInv /\ BatchInv /\ ReadInv /\ TimeoutInv  BY DEF ClockInv
<1>1. /\ skew = 0 /\ skew' \in Int
      /\ UNCHANGED <<now, busy, co, ele, pushed, loop, since, turn, batch>>
  BY DeadlineAssumption DEF SetClock
<1>2. ClockTypes' /\ SleepInv' /\ BatchInv' /\ ReadInv'
  BY <1>0, <1>1 DEF ClockTypes, SleepInv, BatchInv, ReadInv
<1>3. \A c \in Co : From(c)' = From(c)  BY <1>1 DEF From
<1>4. TimeoutInv'  BY <1>0, <1>1, <1>3 DEF TimeoutInv
<1> QED BY <1>2, <1>4 DEF ClockInv

(* In epoll_wait time passes up to the end of the turn, and never over the *)
(* time of a timer.                                                        *)
LEMMA TickStep ==
  ASSUME ClockInv, Tick
  PROVE  ClockInv'
<1>0. /\ ClockTypes /\ SleepInv /\ BatchInv /\ ReadInv /\ TimeoutInv
      /\ Sec \in Nat \ {0} /\ now \in Nat /\ busy \in Nat /\ since \in Nat
  BY DeadlineAssumption DEF ClockInv, ClockTypes
<1>1. /\ now' = now + 1 /\ loop = "wait" /\ Expired = {} /\ now < since + Sec
      /\ UNCHANGED <<skew, busy, co, ele, pushed, loop, since, turn, batch>>
  BY DEF Tick, Blocked
<1>2. ClockTypes'  BY <1>0, <1>1 DEF ClockTypes
<1>3. \A c \in Co : /\ co[c].at \in Nat /\ co[c].n * Sec \in Int /\ co[c].deadline \in Int
  BY <1>0 DEF ClockTypes, Doings
<1>4. SleepInv'
  <2> SUFFICES ASSUME NEW c \in Co, co[c].op = "sleep"
               PROVE  now' - co[c].at <= co[c].n * Sec + busy
    BY <1>0, <1>1 DEF SleepInv
  <2>1. ~(co[c].deadline <= now)  BY <1>1 DEF Expired, Doing
  <2>2. co[c].deadline <= co[c].at + co[c].n * Sec  BY <1>0 DEF SleepInv
  <2> QED BY <1>0, <1>1, <1>3, <2>1, <2>2
<1>5. BatchInv'  BY <1>0, <1>1, <1>3 DEF BatchInv, ClockTypes
<1>6. ReadInv'  BY <1>0, <1>1, <1>3 DEF ReadInv
<1>7. TimeoutInv'
  <2> SUFFICES ASSUME ele # NULL, skew = 0
               PROVE  /\ ele.last_time <= now' /\ ele.made <= now'
                      /\ \A c \in Co : co[c].op = "read" =>
                           /\ ele.last_time <= From(c)' + busy
                           /\ since < From(c)' + ele.timeout + busy
                           /\ now' < From(c)' + ele.timeout + Sec + busy
    BY <1>0, <1>1 DEF TimeoutInv
  <2>1. /\ ele.timeout \in Nat /\ ele.last_time \in Int /\ ele.made \in Nat
        /\ ele.last_time <= now /\ ele.made <= now
    BY <1>0, DeadlineAssumption DEF TimeoutInv, Elements
  <2>2. \A c \in Co : From(c)' = From(c) /\ From(c) \in Nat  BY <1>1, <1>3, <2>1 DEF From
  <2>3. ASSUME NEW c \in Co, co[c].op = "read"
        PROVE  ele.last_time <= From(c) + busy /\ since < From(c) + ele.timeout + busy
    BY <1>0, <2>3 DEF TimeoutInv
  <2> HIDE DEF From
  <2>4. ASSUME NEW c \in Co, co[c].op = "read"
        PROVE  now + 1 < From(c) + ele.timeout + Sec + busy
    BY <1>0, <1>1, <2>1, <2>2, <2>3, <2>4
  <2> QED BY <1>0, <1>1, <2>1, <2>2, <2>3, <2>4
<1> QED BY <1>2, <1>4, <1>5, <1>6, <1>7 DEF ClockInv

(* epoll_wait reports readers and timers that expired; or the loop ends.   *)
LEMMA ReportStep ==
  ASSUME ClockInv, epoll_wait \/ LeaveLoop
  PROVE  ClockInv'
<1>0. ClockTypes /\ SleepInv /\ BatchInv /\ ReadInv /\ TimeoutInv  BY DEF ClockInv
<1>1. /\ loop' \in {"dispatch", "left"}
      /\ UNCHANGED <<now, skew, busy, co, ele, pushed, since>>
      /\ batch' = batch \/ \E readable \in SUBSET Doing("read") : batch' = Expired \cup readable
  BY DEF epoll_wait, LeaveLoop, clock
<1>2. batch' \subseteq Co  BY <1>0, <1>1 DEF Expired, Doing, ClockTypes
<1>3. ClockTypes' /\ SleepInv' /\ ReadInv'  BY <1>0, <1>1, <1>2 DEF ClockTypes, SleepInv, ReadInv
<1>4. BatchInv'  BY <1>0, <1>1 DEF BatchInv, Expired, Doing
<1>5. \A c \in Co : From(c)' = From(c)  BY <1>1 DEF From
<1>6. TimeoutInv'  BY <1>0, <1>1, <1>5 DEF TimeoutInv
<1> QED BY <1>3, <1>4, <1>6 DEF ClockInv

(* A turn of the loop begins at a moment at which no timeout was due since *)
(* the wait and the timeout were there.                                    *)
LEMMA TurnBegins ==
  ASSUME ClockInv, UNCHANGED <<now, skew, busy, co, ele, pushed, batch>>, since' = now, loop' = "wait",
         ele # NULL /\ skew = 0 =>
           \A c \in Co : co[c].op = "read" => now < From(c) + ele.timeout + busy
  PROVE  ClockInv'
<1>0. ClockTypes /\ SleepInv /\ BatchInv /\ ReadInv /\ TimeoutInv  BY DEF ClockInv
<1>1. ClockTypes' /\ SleepInv' /\ BatchInv' /\ ReadInv'
  BY <1>0 DEF ClockTypes, SleepInv, BatchInv, ReadInv
<1>2. \A c \in Co : From(c)' = From(c)  BY DEF From
<1>3. TimeoutInv'  BY <1>0, <1>2 DEF TimeoutInv
<1> QED BY <1>1, <1>3 DEF ClockInv

LEMMA EnterStep ==
  ASSUME ClockInv, EnterLoop
  PROVE  ClockInv'
<1>0. ClockTypes /\ ReadInv /\ TimeoutInv  BY DEF ClockInv
<1>1. /\ loop = "script" /\ loop' = "wait" /\ since' = now
      /\ UNCHANGED <<now, skew, busy, co, ele, pushed, batch>>
  BY DEF EnterLoop, clock
<1>2. ASSUME ele # NULL, NEW c \in Co, co[c].op = "read"
      PROVE  now < From(c) + ele.timeout + busy
  <2>1. now <= co[c].at + busy  BY <1>0, <1>1, <1>2 DEF ReadInv
  <2>2. /\ ele.timeout \in Nat \ {0} /\ ele.made \in Nat /\ co[c].at \in Nat
        /\ now \in Nat /\ busy \in Nat
    BY <1>0, <1>2, DeadlineAssumption DEF TimeoutInv, Elements, ClockTypes, Doings
  <2>3. From(c) \in Nat /\ co[c].at <= From(c)  BY <2>2 DEF From
  <2> QED BY <2>1, <2>2, <2>3
<1> QED BY <1>1, <1>2, TurnBegins

(* The pass: a timeout that is due resumes whoever waits, one that is not  *)
(* leaves the waits their time.                                            *)
LEMMA PassStep ==
  ASSUME ClockInv, NumberInv, Pass
  PROVE  ClockInv'
<1>0. ClockTypes /\ SleepInv /\ BatchInv /\ ReadInv /\ TimeoutInv  BY DEF ClockInv
<1>1. batch = {} /\ UNCHANGED <<now, skew, busy, ele, pushed, batch>>  BY DEF Pass, clock
<1>2. CASE due
  <2>1. /\ co' = Resumed(OnTheNumber) /\ loop' = "fired" /\ UNCHANGED since /\ ele # NULL
    BY <1>2 DEF Pass, due, Resume
  <2> DEFINE C == OnTheNumber
  <2>2. co' = [c \in Co |-> IF c \in C THEN [co[c] EXCEPT !.op = "run"] ELSE co[c]] /\ C \subseteq Co
    BY <2>1 DEF Resumed, OnTheNumber, Doing, NumberInv
  <2>3. batch' \cap C = {} /\ batch' \subseteq batch /\ "run" \in {"run", "done"}  BY <1>1
  <2>4. loop' = loop \/ (loop' = "fired" /\ ele # NULL /\ {c \in Co : co[c].op = "read"} \subseteq C)
    BY <2>1 DEF OnTheNumber, Doing, NumberInv
  <2> HIDE DEF C
  <2> QED BY <1>0, <1>1, <2>1, <2>2, <2>3, <2>4, FewerWaits
<1>3. CASE ~due
  <2>1. loop' = "wait" /\ since' = now /\ UNCHANGED co  BY <1>3 DEF Pass, NextTurn
  <2>2. ASSUME ele # NULL, skew = 0, NEW c \in Co, co[c].op = "read"
        PROVE  now < From(c) + ele.timeout + busy
    <3>1. /\ ele.timeout \in Nat \ {0} /\ ele.made \in Nat /\ ele.last_time \in Int
          /\ co[c].at \in Nat /\ now \in Nat /\ busy \in Nat
      BY <1>0, <2>2, DeadlineAssumption DEF TimeoutInv, Elements, ClockTypes, Doings
    <3>2. ~(ele.last_time + ele.timeout <= now + 0)
      BY <1>3, <2>2 DEF due, get_current_time
    <3>3. From(c) \in Nat  BY <3>1 DEF From
    <3>4. ele.last_time <= From(c) + busy  BY <1>0, <2>2 DEF TimeoutInv
    <3> QED BY <3>1, <3>2, <3>3, <3>4
  <2> QED BY <1>1, <2>1, <2>2, TurnBegins
<1> QED BY <1>2, <1>3

(* A persistent timeout starts again: whoever waits now began to wait      *)
(* after it fired.                                                         *)
LEMMA PassDoneStep ==
  ASSUME ClockInv, PassDone
  PROVE  ClockInv'
<1>0. /\ ClockTypes /\ SleepInv /\ BatchInv /\ ReadInv /\ TimeoutInv
      /\ Sec \in Nat \ {0} /\ now \in Nat /\ busy \in Nat /\ since \in Nat
  BY DeadlineAssumption DEF ClockInv, ClockTypes
<1>1. /\ loop = "fired" /\ UNCHANGED <<now, skew, busy, co, pushed, batch>>
      /\ loop' \in {"wait", "crashed"} /\ since' \in {now, since}
      /\ ele' = NULL \/ (ele' = [ele EXCEPT !.last_time = now + skew] /\ since' = now)
  BY DEF PassDone, NextTurn, clock, get_current_time
<1>2. ClockTypes' /\ SleepInv' /\ BatchInv'
  BY <1>0, <1>1 DEF ClockTypes, SleepInv, BatchInv
<1>3. ReadInv'  BY <1>0, <1>1 DEF ReadInv
<1>4. CASE ele' = NULL  BY <1>1, <1>2, <1>3, <1>4 DEF ClockInv, TimeoutInv
<1>5. CASE ele' # NULL
  <2>1. ele' = [ele EXCEPT !.last_time = now + skew] /\ since' = now /\ ele \in Elements
    BY <1>0, <1>1, <1>5 DEF TimeoutInv
  <2>2. ele.timeout \in Nat \ {0} /\ ele.made \in Nat  BY <2>1, DeadlineAssumption DEF Elements
  <2>3. /\ ele' \in Elements /\ ele'.timeout = ele.timeout /\ ele'.made = ele.made
        /\ ele'.last_time = now + skew
    BY <1>0, <2>1 DEF Elements, ClockTypes
  <2>4. ASSUME NEW c \in Co, co[c].op = "read"
        PROVE  /\ From(c)' \in Nat /\ now <= From(c)' + busy
    <3>1. now <= co[c].at + busy /\ co[c].at \in Nat
      BY <1>0, <1>1, <2>4 DEF ReadInv, ClockTypes, Doings
    <3>2. From(c)' = IF ele.made > co[c].at THEN ele.made ELSE co[c].at  BY <1>1, <2>3 DEF From
    <3> QED BY <1>0, <2>2, <3>1, <3>2
  <2>5. ASSUME ele' # NULL, skew = 0
        PROVE  /\ now + skew <= now /\ ele.made <= now
               /\ \A c \in Co : co[c].op = "read" =>
                    /\ now + skew <= From(c)' + busy
                    /\ now < From(c)' + ele.timeout + busy
                    /\ now < From(c)' + ele.timeout + Sec + busy
    <3>1. ele.made <= now  BY <1>0, <1>1, <2>5 DEF TimeoutInv
    <3>2. now + skew = now  BY <1>0, <2>5
    <3> HIDE DEF From
    <3>3. ASSUME NEW c \in Co, co[c].op = "read"
          PROVE  /\ now <= From(c)' + busy
                 /\ now < From(c)' + ele.timeout + busy
                 /\ now < From(c)' + ele.timeout + Sec + busy
      BY <1>0, <2>2, <2>4, <3>3
    <3> QED BY <1>0, <3>1, <3>2, <3>3
  <2>6. pushed' /\ loop' # "fired"  BY <1>0, <1>1 DEF TimeoutInv
  <2>7. TimeoutInv'  BY <1>1, <1>5, <2>1, <2>3, <2>5, <2>6 DEF TimeoutInv
  <2> QED BY <1>2, <1>3, <2>7 DEF ClockInv
<1> QED BY <1>4, <1>5

LEMMA ClockStep == ClockInv /\ NumberInv /\ [Next]_vars => ClockInv'
<1> SUFFICES ASSUME ClockInv, NumberInv, [Next]_vars PROVE ClockInv'  OBVIOUS
<1>1. ASSUME NEW c \in Co, NEW n \in Sleeps, sleep(c, n) PROVE ClockInv'  BY <1>1, SleepStep
<1>2. ASSUME NEW c \in Co, socket_read(c) PROVE ClockInv'  BY <1>2, ReadStep
<1>3. ASSUME NEW c \in Co, NEW t \in Limits, NEW p \in BOOLEAN, socket_set_timeout(c, t, p)
      PROVE  ClockInv'
  BY <1>3, SetTimeoutStep
<1>4. ASSUME NEW c \in Co, NEW x \in {"run", "done"}, batch' = batch \ {c},
             co' = [d \in Co |-> IF d \in {c} THEN [co[d] EXCEPT !.op = x] ELSE co[d]],
             UNCHANGED <<now, skew, busy, ele, pushed, loop, since>>
      PROVE  ClockInv'
  <2>1. ClockTypes /\ SleepInv /\ BatchInv /\ ReadInv /\ TimeoutInv  BY DEF ClockInv
  <2>2. {c} \subseteq Co /\ batch' \subseteq batch /\ batch' \cap {c} = {}  BY <1>4
  <2> DEFINE C == {c}
  <2>3. C \subseteq Co /\ batch' \cap C = {}  BY <2>2
  <2>4. co' = [d \in Co |-> IF d \in C THEN [co[d] EXCEPT !.op = x] ELSE co[d]]  BY <1>4
  <2>5. loop' = loop \/ (loop' = "fired" /\ ele # NULL /\ {d \in Co : co[d].op = "read"} \subseteq C)
    BY <1>4
  <2> HIDE DEF C
  <2> QED BY <1>4, <2>1, <2>2, <2>3, <2>4, <2>5, FewerWaits
<1>5. ASSUME NEW c \in Co, Finish(c) PROVE ClockInv'
  <2>1. co \in [Co -> Doings] /\ BatchInv  BY DEF ClockInv, ClockTypes
  <2>2. /\ co[c].op = "run" /\ co' = [co EXCEPT ![c].op = "done"]
        /\ UNCHANGED <<now, skew, busy, ele, pushed, loop, since, batch>>
    BY <1>5 DEF Finish, clock
  <2>3. co' = [d \in Co |-> IF d \in {c} THEN [co[d] EXCEPT !.op = "done"] ELSE co[d]]
    BY <2>1, <2>2
  <2>4. batch' = batch \ {c}  BY <2>1, <2>2 DEF BatchInv
  <2> QED BY <1>4, <2>2, <2>3, <2>4
<1>6. ASSUME NEW c \in Co, Dispatch(c) PROVE ClockInv'
  <2>1. /\ batch' = batch \ {c} /\ UNCHANGED <<now, skew, busy, ele, pushed, loop, since>>
        /\ co' = [d \in Co |-> IF d \in {c} THEN [co[d] EXCEPT !.op = "run"] ELSE co[d]]
    BY <1>6 DEF Dispatch, Resume, Resumed, clock
  <2> QED BY <1>4, <2>1
<1>7. CASE Work  BY <1>7, WorkStep
<1>8. CASE SetClock  BY <1>8, SetClockStep
<1>9. CASE EnterLoop  BY <1>9, EnterStep
<1>10. CASE Tick  BY <1>10, TickStep
<1>11. CASE epoll_wait \/ LeaveLoop  BY <1>11, ReportStep
<1>12. CASE Pass  BY <1>12, PassStep
<1>13. CASE PassDone  BY <1>13, PassDoneStep
<1>14. CASE UNCHANGED vars
  <2>1. \A c \in Co : From(c)' = From(c)  BY <1>14 DEF vars, From
  <2> QED BY <1>14, <2>1
       DEF vars, ClockInv, ClockTypes, SleepInv, BatchInv, ReadInv, TimeoutInv
<1>15. ASSUME NEW c \in Co, socket_close(c) \/ Open(c) PROVE ClockInv'
  <2>1. UNCHANGED <<now, skew, busy, co, ele, pushed, loop, since, turn, batch>>
    BY <1>15 DEF socket_close, Open, clock
  <2>2. \A d \in Co : From(d)' = From(d)  BY <2>1 DEF From
  <2> QED BY <2>1, <2>2
       DEF ClockInv, ClockTypes, SleepInv, BatchInv, ReadInv, TimeoutInv
<1> QED BY <1>1, <1>2, <1>3, <1>5, <1>6, <1>7, <1>8, <1>9, <1>10, <1>11, <1>12, <1>13, <1>14, <1>15
     DEF Next

LEMMA ClockAlways == Spec => [](ClockInv /\ NumberInv)
<1>1. Init => NumberInv  BY DeadlineAssumption DEF Init, NumberInv
<1>2. ClockInv => ClockTypes  BY DEF ClockInv
<1> QED BY <1>1, <1>2, ClockInit, ClockStep, NumberStep, PTL DEF Spec

(* co::sleep never returns before more than n - 1 seconds have passed, for *)
(* every phase of the second, whatever else the loop reports and however   *)
(* the wall clock is set: event_loop resumes only sleepers whose timer     *)
(* expired, and create_timerfd counts from the start of the second.  The   *)
(* one exception is a due timeout of a socket that was closed, when the    *)
(* timer has the number that the socket had.                               *)
THEOREM NeverWokenEarly == Spec => SleepsLongEnough
<1> DEFINE A == \A c \in Co : co[c].op = "sleep" /\ co'[c].op = "run" =>
                  \/ Slept(c) > (co[c].n - 1) * Sec
                  \/ number = c /\ due /\ loop' = "fired"
<1>1. ClockInv /\ NumberInv /\ [Next]_vars => [A]_vars
  <2> SUFFICES ASSUME ClockInv, NumberInv, Next, NEW c \in Co, co[c].op = "sleep", co'[c].op = "run",
                      ~(number = c /\ due /\ loop' = "fired")
               PROVE  Slept(c) > (co[c].n - 1) * Sec
    OBVIOUS
  <2>0. ClockTypes /\ SleepInv /\ BatchInv  BY DEF ClockInv
  <2>1. /\ co[c].at \in Nat /\ co[c].n \in Nat /\ co[c].deadline \in Int /\ now \in Nat
        /\ co \in [Co -> Doings] /\ Sec \in Nat
    BY <2>0, DeadlineAssumption DEF ClockTypes, Doings
  <2>2. co[c].deadline <= now
    <3>1. \A d \in Co : co'[d] = co[d] => d # c  OBVIOUS
    <3>2. ASSUME NEW d \in Co, NEW n \in Sleeps, sleep(d, n) PROVE FALSE
      BY <2>1, <3>2 DEF sleep
    <3>3. ASSUME NEW d \in Co, socket_read(d) PROVE FALSE  BY <2>1, <3>3 DEF socket_read
    <3>4. ASSUME NEW d \in Co, Finish(d) PROVE FALSE  BY <2>1, <3>4 DEF Finish, Doings
    <3>5. ASSUME NEW d \in Co, Dispatch(d) PROVE co[c].deadline <= now
      <4>1. c = d /\ c \in batch  BY <2>1, <3>5 DEF Dispatch, Resume, Resumed
      <4> QED BY <2>0, <4>1 DEF BatchInv
    <3>6. CASE Pass
      <4>1. co' = co \/ (due /\ loop' = "fired" /\ co' = Resumed(OnTheNumber))
        BY <3>6 DEF Pass, Resume
      <4>2. CASE due /\ loop' = "fired"
        <5>1. number # c  BY <4>2
        <5>2. c \notin OnTheNumber  BY <5>1 DEF OnTheNumber, Doing
        <5>3. co'[c] = co[c]  BY <2>1, <4>1, <5>2 DEF Resumed
        <5> QED BY <5>3
      <4>3. CASE co' = co  BY <4>3
      <4> QED BY <4>1, <4>2, <4>3
    <3>7. ASSUME UNCHANGED co PROVE FALSE  BY <3>7
    <3>8. ASSUME NEW d \in Co, NEW t \in Limits, NEW p \in BOOLEAN, socket_set_timeout(d, t, p)
          PROVE  FALSE
      BY <3>7, <3>8 DEF socket_set_timeout
    <3>9. ASSUME NEW d \in Co, socket_close(d) \/ Open(d) PROVE FALSE
      BY <3>7, <3>9 DEF socket_close, Open
    <3>10. Work \/ SetClock \/ EnterLoop \/ Tick \/ epoll_wait \/ PassDone \/ LeaveLoop => UNCHANGED co
      BY DEF Work, SetClock, EnterLoop, Tick, epoll_wait, PassDone, LeaveLoop
    <3> QED BY <3>2, <3>3, <3>4, <3>5, <3>6, <3>7, <3>8, <3>9, <3>10 DEF Next
  <2>3. co[c].at + (co[c].n - 1) * Sec < co[c].deadline  BY <2>0 DEF SleepInv
  <2>4. (co[c].n - 1) * Sec \in Int  BY <2>1
  <2> QED BY <2>1, <2>2, <2>3, <2>4 DEF Slept
<1> QED BY <1>1, ClockAlways, PTL DEF Spec, SleepsLongEnough

(* co::sleep(n) is not asleep for longer than n seconds and the time that  *)
(* coroutines computed (SleepsNotTooLong), with any number of sleepers,    *)
(* readers and timeouts beside it.                                         *)
THEOREM NeverAsleepTooLong == Spec => []SleepsNotTooLong
<1>1. ClockInv => SleepsNotTooLong  BY DEF ClockInv, SleepInv, SleepsNotTooLong, Doing, Slept
<1> QED BY <1>1, ClockAlways, PTL

(* While a timeout is in the list no wait on its socket lasts longer than  *)
(* the timeout, a second of the loop and the time coroutines computed      *)
(* (TimeoutEndsWait), however often the timeout fires and the coroutine    *)
(* waits again, as long as nobody sets the wall clock.                     *)
THEOREM TimeoutBoundsWait == Spec => []TimeoutEndsWait
<1>1. ClockInv => TimeoutEndsWait
  <2> SUFFICES ASSUME ClockInv, ele # NULL, skew = 0, NEW c \in Co, co[c].op = "read"
               PROVE  now - From(c) < ele.timeout + Sec + busy
    BY DEF TimeoutEndsWait, Doing, From
  <2>1. now < From(c) + ele.timeout + Sec + busy  BY DEF ClockInv, TimeoutInv
  <2>2. /\ ele.timeout \in Nat /\ ele.made \in Nat /\ co[c].at \in Nat
        /\ now \in Nat /\ busy \in Nat /\ Sec \in Nat
    BY DeadlineAssumption DEF ClockInv, TimeoutInv, Elements, ClockTypes, Doings
  <2>3. From(c) \in Nat  BY <2>2 DEF From
  <2> QED BY <2>1, <2>2, <2>3
<1> QED BY <1>1, ClockAlways, PTL
=============================================================================
