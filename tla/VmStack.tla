------------------------------ MODULE VmStack -------------------------------
(***************************************************************************)
(* The main script's vm stack, on which its calls and event_loop have      *)
(* their frames, of whatever sizes.  A coroutine has a stack of its own;   *)
(* when it is suspended or ends, the top of the main stack is set to what  *)
(* it was at the first co::create.  co::create and co::resume then put     *)
(* back their caller's top; aio_invoke, and so event_loop, does not.       *)
(*                                                                         *)
(* Rule of use, which every script under tests/ keeps (both calls are at   *)
(* its top level): event_loop is called by a call of the main script that  *)
(* was on the stack already at the first co::create.  A function called    *)
(* later may have its frame where the origin's top points, at whatever     *)
(* depth.                                                                  *)
(***************************************************************************)
EXTENDS Integers, Sequences

CONSTANTS
  Size,                  \* bound: places of the stack
  FrameSizes,            \* sizes of the frames of PHP functions
  CreateSize,            \* size of the frame of co::create, with its argument
  LoopSize,              \* size of the frame of event_loop, which has none
  NULL

ASSUME VmStackAssumption ==
  /\ Size \in Nat \ {0}
  /\ FrameSizes \subseteq Nat \ {0}
  /\ CreateSize \in Nat \ {0}
  /\ LoopSize \in Nat \ {0}
  /\ LoopSize <= CreateSize
  /\ NULL \notin Int

VARIABLES
  mem,                   \* which of frames was last written at each place, or 0
  top,                   \* EG(vm_stack_top): the next free place
  origin,                \* COROG.origin_vm_stack_top
  frames,                \* the calls of the main script that have not returned
  loop,                  \* where event_loop is, when it is the last of them
  first                  \* ghost: how many of them were there at the first create

vars == <<mem, top, origin, frames, loop, first>>

Place == 1 .. Size

Init ==
  /\ mem = [p \in Place |-> 0]
  /\ top = 1
  /\ origin = NULL
  /\ frames = << >>
  /\ loop = "off"
  /\ first = NULL

(* A frame of size n is written at the top.                                *)
Fits(n) == top + n <= Size
Write(n, who) ==
  mem' = [p \in Place |-> IF top <= p /\ p < top + n THEN who ELSE mem[p]]

Push(n) ==
  /\ Fits(n)
  /\ Write(n, Len(frames) + 1)
  /\ frames' = Append(frames, [at |-> top, size |-> n])
  /\ top' = top + n

(* A frame is freed by setting the top back to it.                         *)
Pop ==
  /\ top' = frames[Len(frames)].at
  /\ frames' = SubSeq(frames, 1, Len(frames) - 1)
  /\ UNCHANGED mem
-----------------------------------------------------------------------------
(* The main script calls a function and returns from it.                   *)
Call ==
  /\ loop = "off"
  /\ \E n \in FrameSizes : Push(n)
  /\ UNCHANGED <<origin, loop, first>>

Return ==
  /\ loop = "off" /\ frames # << >>
  /\ Pop
  /\ first' = IF first = Len(frames) THEN Len(frames) - 1 ELSE first
  /\ UNCHANGED <<origin, loop>>

(* Mutant: the frame of co::create itself is not below the top.            *)
TopBelowCreate == top

(* The top that coro_init finds, with the frame of co::create pushed.      *)
top_at_create == top + CreateSize

(* co::create by the main script, until the coroutine is suspended or has  *)
(* ended: coro_yield and coro_close set the origin's top, and              *)
(* c_coro_resume_parent the caller's.                                      *)
Create ==
  /\ loop = "off" /\ Fits(CreateSize)
  /\ origin' = IF origin = NULL THEN top_at_create ELSE origin
  /\ Write(CreateSize, 0)
  /\ first' = IF first = NULL THEN Len(frames) ELSE first
  /\ UNCHANGED <<top, frames, loop>>

(* co::resume by the main script, in the same way.                         *)
Resume ==
  /\ loop = "off" /\ origin # NULL
  /\ \E n \in FrameSizes : Fits(n) /\ Write(n, 0)
  /\ UNCHANGED <<top, origin, frames, loop, first>>

EnterLoop ==
  /\ loop = "off" /\ origin # NULL /\ Len(frames) = first
  /\ Push(LoopSize)
  /\ loop' = "wait"
  /\ UNCHANGED <<origin, first>>

(* aio_invoke: the PHP function that does the transfer has its frame at    *)
(* the top; then the coroutine runs until coro_yield or coro_close.        *)
Transfer ==
  /\ loop = "wait"
  /\ \E n \in FrameSizes : Fits(n) /\ Write(n, 0)
  /\ loop' = "resumed"
  /\ UNCHANGED <<top, origin, frames, first>>

Suspend ==
  /\ loop = "resumed"
  /\ top' = origin
  /\ loop' = "wait"
  /\ UNCHANGED <<mem, origin, frames, first>>

LeaveLoop ==
  /\ loop = "wait"
  /\ Pop
  /\ loop' = "off"
  /\ UNCHANGED <<origin, first>>

Next ==
  \/ Call \/ Return \/ Create \/ Resume \/ EnterLoop \/ Transfer \/ Suspend \/ LeaveLoop

Spec == Init /\ [][Next]_vars
-----------------------------------------------------------------------------
(* No call that has not returned has any place of its frame overwritten,   *)
(* neither by the transfers of event_loop, which start at the origin's top *)
(* once a coroutine was suspended, nor later by the script's own calls;    *)
(* and none reaches above the top.                                         *)
FramesIntact ==
  \A i \in DOMAIN frames :
    /\ frames[i].at + frames[i].size <= top
    /\ \A p \in frames[i].at .. ((frames[i].at + frames[i].size) - 1) : mem[p] = i
=============================================================================
