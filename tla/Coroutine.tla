----------------------------- MODULE Coroutine ------------------------------
(***************************************************************************)
(* Creation, suspension, resumption and end of coroutines: coroutine.c     *)
(* (coroutine_create, yield, resume and the resumption inside aio_invoke)  *)
(* over coroutine_util.c (c_coro_create, c_coro_save, c_coro_resume,       *)
(* c_coro_resume_parent, coro_yield, coro_close).                          *)
(*                                                                         *)
(* The extension keeps one C stack.  A coroutine runs inside the C call    *)
(* that started or resumed it; a suspension is a longjmp to the jmp_buf    *)
(* that the global checkPoint points to.  The model keeps that C stack     *)
(* (cstack), the globals that say who is running (reg, require,            *)
(* checkPoint), the heap of php_context blocks and the two places that     *)
(* remember a suspended coroutine: cid_context_map for co::yield and the   *)
(* event table for socket and timer waits (here the set parked of the      *)
(* contexts it holds; the module Reactor models the table itself).         *)
(*                                                                         *)
(* The script is any sequence of calls that keeps two rules of use which   *)
(* every script under tests/ follows and the code does not check:          *)
(*   - co::yield and the waiting calls are made inside a coroutine;        *)
(*   - co::resume is given the cid of a coroutine that is suspended in     *)
(*     co::yield, or a cid no coroutine has yielded under.                 *)
(***************************************************************************)
EXTENDS CidMap, Sequences

CONSTANTS
  MaxCoroNum,            \* COROG.max_coro_num, 3000 in the code
  MaxCreate,             \* bound: calls of co::create in a run of the script
  Ctx,                   \* addresses of php_context blocks
  NULL

ASSUME CoroutineAssumption ==
  /\ MaxCoroNum \in Nat \ {0}
  /\ MaxCreate \in Nat
  /\ NULL \notin Ctx
  /\ NULL \notin Int

VARIABLES
  created,               \* number of co::create calls made so far
  cid,                   \* coro_task.cid of each task
  function,              \* coro_task.function: whose callback it points to
  callbacks,             \* duplicated callback zvals not freed yet
  coro_num,              \* COROG.coro_num
  reg,                   \* the registers a php_context saves and restores
  require,               \* COROG.require
  checkPoint,            \* the global jmp_buf pointer
  jmpbuf,                \* contents of the jmp_buf blocks
  cstack,                \* the C calls that run a coroutine, outermost first
  heap,                  \* contents of the php_context blocks
  cid_context_map,       \* contexts of coroutines suspended by co::yield
  parked,                \* contexts the event table holds
  st,                    \* what the script did with each task (ghost)
  main                   \* where the main script is

corovars == <<created, cid, function, callbacks, coro_num, reg, require,
              checkPoint, jmpbuf, cstack, heap, cid_context_map, parked, st,
              main>>
vars == <<cidvars, corovars>>
-----------------------------------------------------------------------------
(* The n-th call of co::create makes task n (coro_task on its own vm       *)
(* stack), and its callback is called n too.                               *)
Task == 1 .. MaxCreate

(* EG(vm_stack), COROG.current_coro and COROG.allocated_return_value_ptr.  *)
(* A stack of NULL is COROG.origin_vm_stack, the one of the main script.   *)
Register == [task   : Task \cup {NULL},
             stack  : Task \cup {NULL},
             retval : Task \cup {NULL}]

(* A block that is not allocated is told from one that holds registers.    *)
ASSUME NullAssumption == NULL \notin Register

NoTask == [task |-> NULL, stack |-> NULL, retval |-> NULL]
Own(t) == [task |-> t, stack |-> t, retval |-> t]

(* jmp_buf blocks: 0 is the one of coro_init, d the one allocated by the   *)
(* create or resume call that is d-th on the C stack.  A block holds the   *)
(* position of the C call that did setjmp on it.                           *)
Buffer == 0 .. MaxCreate
Freed  == -1
Unset  == 0

Frame == [op       : {"create", "resume", "invoke"},
          task     : Task,                \* the coroutine it runs
          prev     : Buffer \cup {NULL},  \* prev_checkpoint
          ctx      : Register,            \* the caller's saved registers
          required : BOOLEAN,             \* COROG.require of the caller
          context  : Ctx \cup {NULL}]     \* the php_context it will efree

Top    == cstack[Len(cstack)]
Inside == cstack # << >>                  \* a coroutine is running

(* The script can make a call: a coroutine runs, or the main script does   *)
(* and is not in event_loop.                                               *)
Scripting == main # "down" /\ (Inside \/ main = "script")

FreeBlocks == {c \in Ctx : heap[c] = NULL}

Init ==
  /\ CidInit
  /\ created = 0
  /\ cid = [t \in Task |-> 0]
  /\ function = [t \in Task |-> NULL]
  /\ callbacks = {}
  /\ coro_num = 0
  /\ reg = NoTask
  /\ require = FALSE
  /\ checkPoint = NULL
  /\ jmpbuf = [b \in Buffer |-> Freed]
  /\ cstack = << >>
  /\ heap = [c \in Ctx |-> NULL]
  /\ cid_context_map = [k \in Cids |-> NULL]
  /\ parked = {}
  /\ st = [t \in Task |-> "unborn"]
  /\ main = "script"
-----------------------------------------------------------------------------
(* coro_save copies the registers into a context; c_coro_resume and        *)
(* c_coro_resume_parent copy them back.                                    *)
coro_save == reg

(* Mutant: the caller's current_coro is not restored.                      *)
ForgetfulResumeParent(ctx) == [ctx EXCEPT !.task = reg.task]

c_coro_resume_parent(ctx) == ctx

(* Mutant: coro_yield leaves the coroutine's own vm stack installed.       *)
YieldOnOwnStack == reg

(* The registers after coro_yield: only the vm stack goes back to the      *)
(* origin, current_coro keeps naming the coroutine that left.              *)
coro_yield == [reg EXCEPT !.stack = NULL]

(* The registers after coro_close.                                         *)
closed_registers == [reg EXCEPT !.task = NULL, !.stack = NULL]

(* Mutant: the previous checkpoint is not put back.                        *)
KeepCheckPoint(f) == checkPoint

(* coroutine_create and resume free their jmp_buf and restore the previous *)
(* one; aio_invoke reuses the current one.                                 *)
restored_checkPoint(f) == IF f.op = "invoke" THEN checkPoint ELSE f.prev

(* Mutant: aio_invoke and resume forget to free the context.               *)
LeakContext(f, h) == h

(* efree(context) of aio_invoke and resume, after coro_resume returned.    *)
efree_context(f, h) == IF f.op = "create" THEN h ELSE [h EXCEPT ![f.context] = NULL]

(* Mutant: the callback is stored also when the coroutine has ended, where *)
(* the code frees it: it is then never freed.                              *)
(* (Both give the pair <<function, callbacks>>.)                           *)
NeverFreeCallback(f, r, fn, cb) ==
  IF f.op # "create" THEN <<fn, cb>> ELSE <<[fn EXCEPT ![f.task] = f.task], cb>>

(* Mutant: the callback is always freed.                                   *)
AlwaysFreeCallback(f, r, fn, cb) ==
  IF f.op # "create" THEN <<fn, cb>> ELSE <<fn, cb \ {f.task}>>

(* What coroutine_create does with its callback when coro_create returned: *)
(* the coroutine named by current_coro gets it, or it is freed.            *)
keep_callback(f, r, fn, cb) ==
  IF f.op # "create" THEN <<fn, cb>>
  ELSE IF r.task # NULL THEN <<[fn EXCEPT ![r.task] = f.task], cb>>
  ELSE <<fn, cb \ {f.task}>>

(* Control comes back to the C call at position d of the stack, with       *)
(* registers r, contexts h, callbacks fn and cb; the call runs to its end  *)
(* and the calls above it are gone.                                        *)
Return(d, r, h, fn, cb) ==
  LET f == cstack[d] IN
  /\ reg' = IF f.op = "invoke" THEN r ELSE c_coro_resume_parent(f.ctx)
  /\ require' = IF f.op = "invoke" THEN FALSE ELSE f.required
  /\ checkPoint' = restored_checkPoint(f)
  /\ jmpbuf' = IF f.op = "invoke" THEN jmpbuf ELSE [jmpbuf EXCEPT ![checkPoint] = Freed]
  /\ heap' = efree_context(f, h)
  /\ function' = keep_callback(f, r, fn, cb)[1]
  /\ callbacks' = keep_callback(f, r, fn, cb)[2]
  /\ cstack' = SubSeq(cstack, 1, d - 1)

(* Mutant: the new jmp_buf is never given to setjmp.                       *)
SetjmpOmitted(f, b, buffers) ==
  /\ cstack' = Append(cstack, f)
  /\ checkPoint' = b
  /\ jmpbuf' = [buffers EXCEPT ![b] = Unset]
  /\ require' = TRUE

(* A C call that runs a coroutine is entered: setjmp on buffer b.          *)
Enter(f, b, buffers) ==
  /\ cstack' = Append(cstack, f)
  /\ checkPoint' = b
  /\ jmpbuf' = [buffers EXCEPT ![b] = Len(cstack) + 1]
  /\ require' = TRUE
-----------------------------------------------------------------------------
(* coroutine_create up to the call of coro_create: the first one runs      *)
(* coro_init, which allocates the base jmp_buf and clears the counters.    *)
base_checkPoint == IF checkPoint = NULL THEN 0 ELSE checkPoint
base_jmpbuf == IF checkPoint = NULL THEN [jmpbuf EXCEPT ![0] = Unset] ELSE jmpbuf

(* c_coro_create refuses: the limit is reached.  The cid k is taken from   *)
(* the map and not given back; CORO_LIMIT is positive, so coroutine_create *)
(* goes on as after a success: it hands the callback to the caller's own   *)
(* task (current_coro), or frees it when there is none.                    *)
CoroLimit(n, k) ==
  /\ coro_num >= MaxCoroNum /\ k # NoCid
  /\ st' = [st EXCEPT ![n] = "refused"]
  /\ IF reg.task # NULL
     THEN function' = [function EXCEPT ![reg.task] = n] /\ callbacks' = callbacks \cup {n}
     ELSE UNCHANGED <<function, callbacks>>
  /\ checkPoint' = base_checkPoint
  /\ jmpbuf' = base_jmpbuf
  /\ UNCHANGED <<cid, coro_num, reg, require, cstack>>

(* Mutant: the limit is compared with > instead of >=.                     *)
LateLimit(k) == ~(coro_num > MaxCoroNum /\ k # NoCid)

(* c_coro_create goes on.  Without a cid it does so even at the limit.     *)
below_limit(k) == ~(coro_num >= MaxCoroNum /\ k # NoCid)

(* c_coro_create makes the vm stack, the task and its cid, and runs the    *)
(* callback.                                                               *)
CoroStart(n, k) ==
  /\ below_limit(k)
  /\ coro_num' = coro_num + 1
  /\ cid' = [cid EXCEPT ![n] = k]
  /\ reg' = Own(n)
  /\ callbacks' = callbacks \cup {n}
  /\ st' = [st EXCEPT ![n] = "live"]
  /\ Enter([op |-> "create", task |-> n, prev |-> base_checkPoint, ctx |-> coro_save,
            required |-> require, context |-> NULL], Len(cstack) + 1, base_jmpbuf)
  /\ UNCHANGED function

(* co::create, called by the main script or by a coroutine.                *)
Create ==
  /\ Scripting
  /\ created < MaxCreate
  /\ created' = created + 1
  /\ \E k \in Cids \cup {NoCid} :
       /\ alloc_cidmap(k)
       /\ CoroLimit(created + 1, k) \/ CoroStart(created + 1, k)
  /\ UNCHANGED <<heap, cid_context_map, parked, main>>

(* Mutant: the longjmp goes to the outermost call.                         *)
OutermostLanding == 1

(* The longjmp of coro_yield lands in the C call that did setjmp on the    *)
(* current checkPoint.                                                     *)
landing == jmpbuf[checkPoint]

(* Mutant: the context is filed under the cid of the task below.           *)
YieldUnderWrongCid ==
  /\ main # "down" /\ Inside
  /\ \E c \in FreeBlocks :
       /\ cid_context_map' = [cid_context_map EXCEPT ![cid[cstack[1].task]] = c]
       /\ Return(landing, coro_yield, [heap EXCEPT ![c] = coro_save], function, callbacks)
  /\ st' = [st EXCEPT ![Top.task] = "yielded"]
  /\ UNCHANGED <<cidvars, created, cid, coro_num, parked, main>>

(* co::yield.  For a coroutine without a cid the code writes outside       *)
(* cid_context_map; the model does not follow that.                        *)
Yield ==
  /\ main # "down" /\ Inside
  /\ cid[reg.task] \in Cids
  /\ \E c \in FreeBlocks :
       /\ cid_context_map' = [cid_context_map EXCEPT ![cid[reg.task]] = c]
       /\ Return(landing, coro_yield, [heap EXCEPT ![c] = coro_save], function, callbacks)
  /\ st' = [st EXCEPT ![Top.task] = "yielded"]
  /\ UNCHANGED <<cidvars, created, cid, coro_num, parked, main>>

(* A waiting call (socket_accept, socket_read, socket_write, sleep,        *)
(* prepare, fetchAll) whose event was stored: the event table has the      *)
(* context.  When aio_event_store fails the call only returns FALSE.       *)
Park ==
  /\ main # "down" /\ Inside
  /\ \E c \in FreeBlocks :
       /\ parked' = parked \cup {c}
       /\ Return(landing, coro_yield, [heap EXCEPT ![c] = coro_save], function, callbacks)
  /\ st' = [st EXCEPT ![Top.task] = "parked"]
  /\ UNCHANGED <<cidvars, created, cid, coro_num, cid_context_map, main>>

(* The callback returns: coro_close on current_coro, then the C call that  *)
(* ran the coroutine goes on.                                              *)
Close ==
  /\ main # "down" /\ Inside
  /\ LET t  == reg.task
         cb == IF function[t] = NULL THEN callbacks ELSE callbacks \ {function[t]}
     IN /\ free_cidmap(cid[t])
        /\ Return(Len(cstack), closed_registers, heap, [function EXCEPT ![t] = NULL], cb)
  /\ coro_num' = coro_num - 1
  /\ st' = [st EXCEPT ![Top.task] = "closed"]
  /\ UNCHANGED <<created, cid, cid_context_map, parked, main>>

(* The script's rule for co::resume: the cid of a coroutine in co::yield.  *)
MayResume(k) == \E t \in Task : st[t] = "yielded" /\ cid[t] = k

(* co::resume(k) by the main script or a coroutine.  The entry of the map  *)
(* is left as it is.  For a NULL entry the call only returns FALSE.        *)
Resume(k) ==
  /\ Scripting
  /\ MayResume(k) /\ cid_context_map[k] # NULL
  /\ LET c == cid_context_map[k] IN
     /\ reg' = heap[c]
     /\ Enter([op |-> "resume", task |-> heap[c].task, prev |-> checkPoint, ctx |-> coro_save,
               required |-> require, context |-> c], Len(cstack) + 1, jmpbuf)
     /\ st' = [st EXCEPT ![heap[c].task] = "live"]
  /\ UNCHANGED <<cidvars, created, cid, function, callbacks, coro_num, heap,
                 cid_context_map, parked, main>>

(* aio_invoke, called by event_loop for an event that has a context: the   *)
(* event is released, then the coroutine runs on the current checkPoint.   *)
Invoke(c) ==
  /\ main = "loop" /\ ~Inside
  /\ c \in parked
  /\ parked' = parked \ {c}
  /\ reg' = heap[c]
  /\ Enter([op |-> "invoke", task |-> heap[c].task, prev |-> NULL, ctx |-> NoTask,
            required |-> FALSE, context |-> c], checkPoint, jmpbuf)
  /\ st' = [st EXCEPT ![heap[c].task] = "live"]
  /\ UNCHANGED <<cidvars, created, cid, function, callbacks, coro_num, heap,
                 cid_context_map, main>>

(* The main script calls event_loop, after a first co::create set up the   *)
(* epoll instance; event_loop returns after its last turn.                 *)
EnterLoop ==
  /\ main = "script" /\ ~Inside /\ checkPoint # NULL
  /\ main' = "loop"
  /\ UNCHANGED <<cidvars, created, cid, function, callbacks, coro_num, reg, require,
                 checkPoint, jmpbuf, cstack, heap, cid_context_map, parked, st>>

LeaveLoop ==
  /\ main = "loop" /\ ~Inside
  /\ main' = "script"
  /\ UNCHANGED <<cidvars, created, cid, function, callbacks, coro_num, reg, require,
                 checkPoint, jmpbuf, cstack, heap, cid_context_map, parked, st>>

(* The request ends, by exit or an uncaught exception at any point of the  *)
(* script or because it is over: PHP_RSHUTDOWN frees the checkpoint.       *)
Shutdown ==
  /\ Scripting
  /\ main' = "down"
  /\ jmpbuf' = IF checkPoint = NULL THEN jmpbuf ELSE [jmpbuf EXCEPT ![checkPoint] = Freed]
  /\ UNCHANGED <<cidvars, created, cid, function, callbacks, coro_num, reg, require,
                 checkPoint, cstack, heap, cid_context_map, parked, st>>

Next ==
  \/ Create
  \/ Yield
  \/ Park
  \/ Close
  \/ \E k \in Cids : Resume(k)
  \/ \E c \in Ctx : Invoke(c)
  \/ EnterLoop
  \/ LeaveLoop
  \/ Shutdown

Spec == Init /\ [][Next]_vars
-----------------------------------------------------------------------------
(* Types; the counters coro_num and nr_free, unsigned in the code, never   *)
(* wrap (nr_free passes the size of the map when coroutines that were      *)
(* started without a cid end).                                             *)
TypeOK ==
  /\ page \subseteq Bit
  /\ nr_free \in 0 .. (NCid + Cardinality({t \in Task : cid[t] = NoCid}))
  /\ last_cid \in Bit \cup {-1}
  /\ created \in 0 .. MaxCreate
  /\ cid \in [Task -> Cids \cup {NoCid, 0}]
  /\ function \in [Task -> Task \cup {NULL}]
  /\ callbacks \subseteq Task
  /\ coro_num \in 0 .. MaxCreate
  /\ reg \in Register
  /\ require \in BOOLEAN
  /\ checkPoint \in Buffer \cup {NULL}
  /\ jmpbuf \in [Buffer -> Buffer \cup {Freed}]
  /\ cstack \in Seq(Frame)
  /\ heap \in [Ctx -> Register \cup {NULL}]
  /\ cid_context_map \in [Cids -> Ctx \cup {NULL}]
  /\ parked \subseteq Ctx
  /\ st \in [Task -> {"unborn", "refused", "live", "yielded", "parked", "closed"}]
  /\ main \in {"script", "loop", "down"}

Depth == 1 .. Len(cstack)
Live == {t \in Task : st[t] \in {"live", "yielded", "parked"}}

(* The contexts a C call on the stack will free when it goes on.           *)
Held == {cstack[i].context : i \in Depth} \ {NULL}

(* The contexts that wait to be resumed.                                   *)
Waiting == {c \in Ctx : heap[c] # NULL} \ Held

(* However creations, yields, resumptions and endings are nested, the code *)
(* of a coroutine runs on that coroutine's own vm stack, with current_coro *)
(* naming it and its own return slot, which coro_close frees; each C call  *)
(* holds the registers of the coroutine that made it; and no coroutine's   *)
(* vm stack stays installed when control is back in the main script.       *)
RunsItsOwnContext ==
  /\ Inside => reg = Own(Top.task)
  /\ \A i \in Depth \ {1} : cstack[i].ctx = Own(cstack[i - 1].task)
  /\ ~Inside => reg.stack = NULL

(* A longjmp on checkPoint lands in the C call that runs the current       *)
(* coroutine, never in one that has returned, nor in that of a caller,     *)
(* which would drop the callers above it.                                  *)
YieldLandsInOwnCall ==
  main # "down" /\ Inside => checkPoint # NULL /\ jmpbuf[checkPoint] = Len(cstack)

(* The checkpoint block that coroutine_create, resume or the end of the    *)
(* request frees is still allocated, and the calls on the stack that put   *)
(* back a previous checkpoint put back different blocks.                   *)
CheckPointAllocated ==
  /\ main # "down" /\ checkPoint # NULL => jmpbuf[checkPoint] # Freed
  /\ main # "down" =>
       \A i \in Depth : cstack[i].op # "invoke" =>
         /\ cstack[i].prev # NULL /\ jmpbuf[cstack[i].prev] # Freed
         /\ cstack[i].prev # checkPoint
         /\ \A j \in Depth : j # i /\ cstack[j].op # "invoke" => cstack[j].prev # cstack[i].prev

(* A coroutine suspended in co::yield is found under its cid and one       *)
(* suspended in a waiting call is in the event table, each with its own    *)
(* registers; a coroutine has only one context that waits, and none when   *)
(* it runs or has ended: it cannot be resumed twice.                       *)
OneWakeup ==
  /\ \A t \in Task :
       /\ st[t] = "yielded" =>
            /\ cid_context_map[cid[t]] \in Waiting
            /\ heap[cid_context_map[cid[t]]] = Own(t)
       /\ st[t] = "parked" => \E c \in parked : heap[c] = Own(t)
  /\ parked \subseteq Waiting
  /\ \A c \in Waiting : st[heap[c].task] \in {"yielded", "parked"}
  /\ \A c, d \in Waiting : heap[c].task = heap[d].task => c = d

(* Two coroutines alive have different cids, whatever was created, ended   *)
(* and refused before, and the bitmap has every cid in use marked.         *)
UniqueCid ==
  \A t \in Live :
    cid[t] # NoCid => /\ cid[t] - 1 \in page
                      /\ \A u \in Live : cid[u] = cid[t] => u = t

(* The counter against the bitmap: nr_free is the number of zero bits plus *)
(* the number of coroutines that ended without a cid, whose release, of    *)
(* -1, clears no bit.  So the counter is never too low, and it is exact    *)
(* until the first of these ends.  (What alloc_cidmap makes of a counter   *)
(* that has drifted is AllocAnswers.)                                      *)
ClosedWithoutCid == {t \in Task : st[t] = "closed" /\ cid[t] = NoCid}

FreeCountDrift ==
  nr_free + Cardinality(page) = NCid + Cardinality(ClosedWithoutCid)

(* COROG.coro_num counts the coroutines alive, and COROG.max_coro_num is a *)
(* limit for those that have a cid (without one there is no limit).        *)
CoroNumExact ==
  /\ coro_num = Cardinality(Live)
  /\ Cardinality({t \in Live : cid[t] # NoCid}) <= MaxCoroNum

(* The callback of a coroutine that has not ended is not freed.            *)
CallbackKept == Live \subseteq callbacks

(* While the limit is not reached a duplicated callback is freed exactly   *)
(* when its coroutine ends, by coro_close or by coroutine_create.          *)
CallbackFreedAtEnd ==
  (\A t \in Task : st[t] # "refused") => callbacks = Live

(* "1 <= cid <= 32768" (coroutine_util.c, above the cid map).              *)
CidInRange == \A t \in Live : cid[t] \in Cids
-----------------------------------------------------------------------------
(* What the scheduling promises: see Cooperative.  The abstract state is   *)
(* read off the registers, the saved registers and the contexts.           *)
Abs == INSTANCE Cooperative WITH
  Coro    <- Task,
  born    <- 1 .. created,
  current <- IF Inside THEN reg.task ELSE NULL,
  callers <- [i \in Depth |-> IF i = 1 THEN NULL ELSE cstack[i].ctx.task],
  waiting <- {heap[c].task : c \in Waiting},
  down    <- main = "down"

(* The C stack, the checkpoints and the saved contexts implement coroutines *)
(* that run one at a time and always go back to whoever started them.      *)
ImplementsCooperative == Abs!Spec
=============================================================================
