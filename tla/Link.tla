-------------------------------- MODULE Link --------------------------------
(***************************************************************************)
(* The linked list of src/link/link.c, in which co::socket_set_timeout     *)
(* keeps its elements, and the pass that event_loop makes over it in every *)
(* turn, step by step: coroutines run, and may push, while the pass stands *)
(* on an element that is due.  The model keeps the nodes as malloc gives   *)
(* them out: free memory is reused, and front, rear and next are addresses *)
(* that may dangle.                                                        *)
(***************************************************************************)
EXTENDS Integers, FiniteSets, Sequences

CONSTANTS
  Node,                  \* addresses of nodes
  Data,                  \* what is stored
  Null

(* struct node.                                                            *)
Contents == [data : Data, next : Node \cup {Null}]

ASSUME LinkAssumption ==
  /\ IsFiniteSet(Node) /\ Null \notin Node
  /\ Null \notin Contents

VARIABLES
  front, rear, size,     \* the Link
  node,                  \* contents of the nodes, Null when not allocated
  q, f,                  \* event_loop's pointers into the list
  stage                  \* where its pass is: "off", "look" at q, "invoked"
                         \* (in aio_invoke for q), or "lost" (see expire)

listvars == <<front, rear, size, node>>
passvars == <<q, f, stage>>
linkvars == <<front, rear, size, node, q, f, stage>>

Allocated == {n \in Node : node[n] # Null}

(* initqueue.                                                              *)
LinkInit ==
  /\ front = Null /\ rear = Null /\ size = 0
  /\ node = [n \in Node |-> Null]
  /\ q = Null /\ f = Null /\ stage = "off"

emptyqueue == front = Null /\ rear = Null

getlength == size

(* pushqueue: only rear is moved when the list is not empty, the node that *)
(* was last is not linked to the new one.  Coroutines call it (from        *)
(* co::socket_set_timeout), between two passes or resumed by one.          *)
pushqueue(data) ==
  /\ stage \in {"off", "invoked"}
  /\ UNCHANGED passvars
  /\ \E que \in Node \ Allocated :
       /\ node' = [node EXCEPT ![que] = [data |-> data, next |-> Null]]
       /\ front' = IF emptyqueue THEN que ELSE front
       /\ rear' = que
       /\ size' = size + 1

(* The n-th node of a walk from front along next.                          *)
walk[n \in Nat] ==
  IF n = 0 THEN front
  ELSE IF walk[n - 1] \in Allocated THEN node[walk[n - 1]].next ELSE Null

Walk == 0 .. Cardinality(Node)
Reachable == {walk[n] : n \in Walk} \ {Null}

(* Mutant: the node is freed and front still points to it.                 *)
FreeOnly(n, before) ==
  /\ UNCHANGED <<front, rear>>
  /\ node' = [node EXCEPT ![n] = Null]
  /\ size' = size - 1

(* Unlinking and freeing node n, which the walk came to from before: the   *)
(* same lines in delete_node and in event_loop.  (The first node is taken  *)
(* from the front only, also when it is the last one too.)                 *)
unlink(n, before) ==
  LET relinked == IF n \in {front, rear} THEN node
                  ELSE [node EXCEPT ![before].next = node[n].next]
  IN /\ front' = IF n = front THEN node[n].next ELSE front
     /\ rear' = IF n # front /\ n = rear THEN before ELSE rear
     /\ node' = [relinked EXCEPT ![n] = Null]
     /\ size' = size - 1

(* delete_node: the first node of the walk that has the data, if any.  No  *)
(* code of the repository calls it; here it is called between two passes.  *)
delete_node(data) ==
  /\ stage = "off"
  /\ size # 0
  /\ \E n \in Walk :
       /\ walk[n] \in Allocated /\ node[walk[n]].data = data
       /\ \A m \in 0 .. (n - 1) : node[walk[m]].data # data
       /\ unlink(walk[n], IF n = 0 THEN Null ELSE walk[n - 1])
  /\ UNCHANGED passvars
-----------------------------------------------------------------------------
(* event_loop's pass: it starts at the front,                              *)
BeginPass ==
  /\ stage = "off"
  /\ q' = front /\ f' = Null
  /\ stage' = "look"
  /\ UNCHANGED listvars

(* ends when there is no node left,                                        *)
EndPass ==
  /\ stage = "look" /\ q = Null
  /\ stage' = "off"
  /\ UNCHANGED <<listvars, q, f>>

(* invokes the event of an element that is due, which runs coroutines,     *)
Invoke ==
  /\ stage = "look" /\ q # Null
  /\ stage' = "invoked"
  /\ UNCHANGED <<listvars, q, f>>

(* and goes on to the next node, from an element that is not due or, after *)
(* the invocation, from one that stays because it is persistent.           *)
Advance ==
  /\ stage \in {"look", "invoked"} /\ q # Null
  /\ f' = q /\ q' = node[q].next
  /\ stage' = "look"
  /\ UNCHANGED listvars

(* An element that is not persistent is taken out after the invocation and *)
(* its node is freed; then q->next is read all the same (f=q; q=q->next),  *)
(* from memory that free may have written to.  Either it is as it was and  *)
(* the pass goes on with the node after q, or the pass goes on with what   *)
(* the allocator put there, which is no node: it is lost, and nothing is   *)
(* said of what the process does then.                                     *)
expire ==
  /\ stage = "invoked"
  /\ unlink(q, f)
  /\ f' = q
  /\ \/ q' = node[q].next /\ stage' = "look"
     \/ q' = q /\ stage' = "lost"

LinkNext ==
  \/ \E data \in Data : pushqueue(data) \/ delete_node(data)
  \/ BeginPass \/ EndPass \/ Invoke \/ Advance \/ expire

LinkSpec == LinkInit /\ [][LinkNext]_linkvars
-----------------------------------------------------------------------------
(* Wherever event_loop's pass stands, also while coroutines push elements  *)
(* in the middle of it, it stands on the front node, which is allocated    *)
(* and has no next: it looks at one element at most, the first one that    *)
(* was ever pushed, which is what Reactor and Deadline keep of the list.   *)
(* The one read of freed memory that a pass can make is the one after      *)
(* expire; when that read returns what was there, the pass ends with it,   *)
(* and no later pass and no delete_node meets a freed node, although rear  *)
(* may dangle.                                                             *)
WalkIsSafe ==
  /\ front # Null => front \in Allocated /\ node[front].next = Null
  /\ stage \in {"look", "invoked"} /\ q # Null => q = front

(* "return the length of the queue" and "put a new element in the queue"   *)
(* (comments of getlength and pushqueue): the length is the number of      *)
(* elements a walk meets.                                                  *)
LengthIsReachable == getlength = Cardinality(Reachable)
=============================================================================
