---------------------------- MODULE Cooperative -----------------------------
(***************************************************************************)
(* What the extension promises a script about its coroutines: one of them, *)
(* or the main script (NULL), runs at a time; the one that starts or       *)
(* resumes another waits for it and goes on when that one suspends itself  *)
(* or ends; only a suspended coroutine is resumed, and a coroutine starts  *)
(* once.                                                                   *)
(***************************************************************************)
EXTENDS Integers, Sequences

CONSTANTS Coro, NULL

VARIABLES
  born,                  \* coroutines asked for so far
  current,               \* who runs, NULL for the main script
  callers,               \* who waits for the one above, innermost last
  waiting,               \* suspended coroutines
  down                   \* the request has ended

vars == <<born, current, callers, waiting, down>>

Init ==
  /\ born = {}
  /\ current = NULL
  /\ callers = << >>
  /\ waiting = {}
  /\ down = FALSE

Start(c) ==
  /\ ~down /\ c \notin born
  /\ born' = born \cup {c}
  /\ current' = c
  /\ callers' = Append(callers, current)
  /\ UNCHANGED <<waiting, down>>

(* The limit on coroutines is reached: nobody runs who did not before.     *)
Refuse(c) ==
  /\ ~down /\ c \notin born
  /\ born' = born \cup {c}
  /\ UNCHANGED <<current, callers, waiting, down>>

BackToCaller ==
  /\ ~down /\ current # NULL
  /\ current' = callers[Len(callers)]
  /\ callers' = SubSeq(callers, 1, Len(callers) - 1)
  /\ UNCHANGED <<born, down>>

Suspend == BackToCaller /\ waiting' = waiting \cup {current}

End == BackToCaller /\ UNCHANGED waiting

Continue(c) ==
  /\ ~down /\ c \in waiting
  /\ waiting' = waiting \ {c}
  /\ current' = c
  /\ callers' = Append(callers, current)
  /\ UNCHANGED <<born, down>>

Stop ==
  /\ ~down
  /\ down' = TRUE
  /\ UNCHANGED <<born, current, callers, waiting>>

Next ==
  \/ \E c \in Coro : Start(c) \/ Refuse(c) \/ Continue(c)
  \/ Suspend
  \/ End
  \/ Stop

Spec == Init /\ [][Next]_vars
=============================================================================
