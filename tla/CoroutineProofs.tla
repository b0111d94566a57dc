--------------------------- MODULE CoroutineProofs --------------------------
(***************************************************************************)
(* Coroutines for every size of the cid map, every limit, any number of    *)
(* co::create calls and any set of php_context blocks: each coroutine runs *)
(* on its own registers, its longjmp lands in its own C call, it is woken  *)
(* once, and the whole implements coroutines as Cooperative states them.   *)
(***************************************************************************)
EXTENDS Coroutine, CommonLemmas, FiniteSetTheorems, TLAPS
-----------------------------------------------------------------------------
(* The search for a free cid, for every size and content of the bitmap.    *)

(* Bits are a finite set of NCid elements.                                 *)
LEMMA BitFinite == IsFiniteSet(Bit) /\ Cardinality(Bit) = NCid
<1>1. 0 \in Int /\ NCid - 1 \in Int  BY NCidAssumption
<1>2. IsFiniteSet(0 .. (NCid - 1)) /\ Cardinality(0 .. (NCid - 1)) = IF 0 > NCid - 1 THEN 0 ELSE (NCid - 1) - 0 + 1
  BY <1>1, FS_Interval
<1> QED  BY <1>2, NCidAssumption DEF Bit

(* Every set of bits is finite, and the marked bits are counted by Nat.    *)
LEMMA PageFinite ==
  ASSUME NEW S, S \subseteq Bit
  PROVE  IsFiniteSet(S) /\ Cardinality(S) \in Nat /\ Cardinality(S) <= NCid
  BY BitFinite, FS_Subset, FS_CardinalityType

(* The walk of find_next_zero_bit tests a bit after a number of others     *)
(* that is a natural number, and mark after all others.                    *)
LEMMA DistanceNat ==
  ASSUME NEW mark \in Bit \cup {-1}, NEW b \in Bit
  PROVE  Distance(mark, b) \in Nat
  BY NCidAssumption DEF Bit, Distance

(* While a bit is zero, the search after mark stops at a zero bit.         *)
LEMMA ScanStops ==
  ASSUME NEW mark \in Bit \cup {-1}, page \subseteq Bit, page # Bit
  PROVE  \E b \in Bit : IsNextZeroBit(mark, b) /\ b \notin page
<1> DEFINE Zero == Bit \ page
           D == {Distance(mark, b) : b \in Zero}
<1>1. D \subseteq Nat /\ D # {}
  BY DistanceNat
<1>2. PICK b \in Zero : \A j \in Zero : Distance(mark, b) <= Distance(mark, j)
  <2>1. PICK d \in D : \A e \in D : d <= e
    <3> HIDE DEF D
    <3> QED  BY <1>1, LeastNat
  <2> QED  BY <2>1
<1>3. \A j \in Bit : Distance(mark, j) < Distance(mark, b) => j \in page
  BY <1>2, DistanceNat
<1> QED  BY <1>2, <1>3 DEF IsNextZeroBit

(* The bit that the walk from mark tests in its iteration n, and whether   *)
(* it ends there.                                                          *)
Tested(mark, n) == (mark + 1 + n) % NCid
EndsAt(mark, n) == Tested(mark, n) = mark \/ Tested(mark, n) \notin page \/ n = NCid

(* The loop stops in the first iteration that ends it.  The recursive      *)
(* function of the loop is the explicit one that looks that iteration up:  *)
(* this one satisfies the recursion, and no other does.                    *)
LEMMA ScanLoop ==
  ASSUME NEW mark \in Bit \cup {-1}
  PROVE  \E k \in 0 .. NCid :
           /\ find_next_zero_bit(mark) = Tested(mark, k) /\ EndsAt(mark, k)
           /\ \A j \in 0 .. (k - 1) : ~EndsAt(mark, j)
<1> DEFINE Ends(n) == EndsAt(mark, n)
           IsFirst(n, m) == m \in n .. NCid /\ Ends(m) /\ \A j \in n .. (m - 1) : ~Ends(j)
           first(n) == CHOOSE m \in n .. NCid : IsFirst(n, m)
           scan[n \in 0 .. NCid] ==
             LET bit == (mark + 1 + n) % NCid
             IN IF bit = mark \/ bit \notin page \/ n = NCid THEN bit ELSE scan[n + 1]
           g == [n \in 0 .. NCid |-> Tested(mark, first(n))]
<1>0. NCid \in Nat /\ Ends(NCid)  BY NCidAssumption DEF EndsAt
<1>1. ASSUME NEW n \in 0 .. NCid PROVE IsFirst(n, first(n))
  <2> DEFINE S == {m \in n .. NCid : Ends(m)}
  <2>1. S \subseteq Nat /\ S # {}  BY <1>0
  <2>2. PICK m \in S : \A l \in S : m <= l
    <3> HIDE DEF S
    <3> QED BY <2>1, LeastNat
  <2>3. IsFirst(n, m)
    <3>1. \A j \in n .. (m - 1) : j \in n .. NCid /\ ~(m <= j)  BY <1>0
    <3> QED BY <2>2, <3>1
  <2>4. m \in n .. NCid  OBVIOUS
  <2> HIDE DEF IsFirst
  <2> QED BY <2>3, <2>4
<1>2. ASSUME NEW n \in 0 .. NCid, NEW l, NEW m, IsFirst(n, l), IsFirst(n, m) PROVE l = m
  <2>1. l \in Int /\ m \in Int  BY <1>0, <1>2
  <2>2. ~(l < m) /\ ~(m < l)  BY <1>0, <1>2, <2>1
  <2> QED BY <2>1, <2>2
<1>3. ASSUME NEW n \in 0 .. NCid
      PROVE  /\ Ends(n) => first(n) = n
             /\ ~Ends(n) => n + 1 \in 0 .. NCid /\ first(n) = first(n + 1)
  <2>1. CASE Ends(n)
    <3>1. IsFirst(n, n)  BY <1>0, <2>1
    <3> HIDE DEF IsFirst, first
    <3> QED BY <1>1, <1>2, <2>1, <3>1
  <2>2. CASE ~Ends(n)
    <3>1. n + 1 \in 0 .. NCid  BY <1>0, <2>2
    <3>2. IsFirst(n + 1, first(n + 1))  BY <1>1, <3>1
    <3>3. IsFirst(n, first(n + 1))
      <4> HIDE DEF first
      <4>1. first(n + 1) \in n .. NCid  BY <1>0, <3>1, <3>2
      <4>2. ASSUME NEW j \in n .. (first(n + 1) - 1) PROVE ~Ends(j)
        <5>1. j = n \/ j \in (n + 1) .. (first(n + 1) - 1)  BY <1>0, <4>1
        <5> QED BY <2>2, <3>2, <5>1
      <4> QED BY <3>2, <4>1, <4>2
    <3> HIDE DEF IsFirst, first
    <3> QED BY <1>1, <1>2, <2>2, <3>1, <3>3
  <2> QED BY <2>1, <2>2
<1>4. scan = CHOOSE f : f = [n \in 0 .. NCid |->
               LET bit == (mark + 1 + n) % NCid
               IN IF bit = mark \/ bit \notin page \/ n = NCid THEN bit ELSE f[n + 1]]
  BY DEF scan
<1>5. find_next_zero_bit(mark) = scan[0]  BY DEF find_next_zero_bit, scan
<1> HIDE DEF scan, first, IsFirst
<1>6. g = [n \in 0 .. NCid |->
               LET bit == (mark + 1 + n) % NCid
               IN IF bit = mark \/ bit \notin page \/ n = NCid THEN bit ELSE g[n + 1]]
  <2> SUFFICES ASSUME NEW n \in 0 .. NCid
               PROVE  Tested(mark, first(n)) = IF Ends(n) THEN Tested(mark, n) ELSE g[n + 1]
    BY DEF EndsAt, Tested
  <2>1. CASE Ends(n)
    <3> HIDE DEF Ends
    <3> QED BY <1>3, <2>1
  <2>2. CASE ~Ends(n)
    <3> HIDE DEF Ends
    <3>1. first(n) = first(n + 1) /\ n + 1 \in 0 .. NCid  BY <1>3, <2>2
    <3>2. g[n + 1] = Tested(mark, first(n + 1))  BY <3>1
    <3> QED BY <2>2, <3>1, <3>2
  <2> QED BY <2>1, <2>2
<1> HIDE DEF g
<1>7. scan = [n \in 0 .. NCid |->
               LET bit == (mark + 1 + n) % NCid
               IN IF bit = mark \/ bit \notin page \/ n = NCid THEN bit ELSE scan[n + 1]]
  BY <1>4, <1>6
<1>8. ASSUME NEW n \in 0 .. NCid, scan[n] # g[n]
      PROVE  n + 1 \in 0 .. NCid /\ scan[n + 1] # g[n + 1]
  <2>1. /\ scan[n] = IF Ends(n) THEN Tested(mark, n) ELSE scan[n + 1]
        /\ g[n] = IF Ends(n) THEN Tested(mark, n) ELSE g[n + 1]
    BY <1>6, <1>7 DEF EndsAt, Tested
  <2>2. ~Ends(n)  BY <1>8, <2>1
  <2> QED BY <1>0, <1>3, <1>8, <2>1, <2>2
<1>9. scan[0] = g[0]
  <2> SUFFICES ASSUME scan[0] # g[0] PROVE FALSE  OBVIOUS
  <2> DEFINE S == {m \in 0 .. NCid : scan[NCid - m] # g[NCid - m]}
  <2>1. NCid \in S /\ S \subseteq Nat  BY <1>0
  <2>2. PICK m \in S : \A l \in S : m <= l
    <3> HIDE DEF S
    <3> QED BY <2>1, LeastNat
  <2>3. m \in 0 .. NCid /\ NCid - m \in 0 .. NCid  BY <1>0
  <2>4. NCid - m + 1 \in 0 .. NCid /\ scan[NCid - m + 1] # g[NCid - m + 1]  BY <1>8, <2>3
  <2>5. m - 1 \in 0 .. NCid /\ NCid - (m - 1) = NCid - m + 1 /\ ~(m <= m - 1)  BY <1>0, <2>3, <2>4
  <2>6. m - 1 \in S  BY <2>4, <2>5
  <2> QED BY <2>2, <2>5, <2>6
<1>10. 0 \in 0 .. NCid /\ g[0] = Tested(mark, first(0))  BY <1>0 DEF g
<1>11. IsFirst(0, first(0))  BY <1>1, <1>10
<1>12. first(0) \in 0 .. NCid /\ Ends(first(0)) /\ \A j \in 0 .. (first(0) - 1) : ~Ends(j)
  BY <1>11 DEF IsFirst
<1> QED BY <1>5, <1>9, <1>10, <1>12

(* The walk tests every bit once: the one it tests in iteration n is the   *)
(* one at that distance.                                                   *)
LEMMA TestedDistance ==
  ASSUME NEW mark \in Bit \cup {-1}
  PROVE  /\ \A n \in Bit : Tested(mark, n) \in Bit /\ Distance(mark, Tested(mark, n)) = n
         /\ \A b \in Bit : Distance(mark, b) \in Bit /\ Tested(mark, Distance(mark, b)) = b
<1>0. NCid \in Nat /\ NCid > 0 /\ mark \in Int  BY NCidAssumption DEF Bit
<1>1. ASSUME NEW a \in 0 .. (NCid - 1) PROVE a % NCid = a  BY <1>0
<1>2. ASSUME NEW a \in NCid .. (2 * NCid - 1) PROVE a % NCid = a - NCid  BY <1>0
<1>3. ASSUME NEW n \in Bit
      PROVE  Tested(mark, n) = IF mark + 1 + n < NCid THEN mark + 1 + n ELSE mark + 1 + n - NCid
  BY <1>0, <1>1, <1>2 DEF Bit, Tested
<1>4. ASSUME NEW n \in Bit
      PROVE  Tested(mark, n) \in Bit /\ Distance(mark, Tested(mark, n)) = n
  BY <1>0, <1>3 DEF Bit, Distance
<1>5. ASSUME NEW b \in Bit
      PROVE  Distance(mark, b) \in Bit /\ Tested(mark, Distance(mark, b)) = b
  <2>1. Distance(mark, b) \in Bit  BY <1>0 DEF Bit, Distance
  <2> QED BY <1>0, <1>3, <2>1 DEF Bit, Distance
<1> QED BY <1>4, <1>5

(* The loop, with its wrap at the end of the bitmap, returns the first     *)
(* zero bit after its mark in cyclic order, or the mark itself after a     *)
(* whole turn; and no other bit is that.                                   *)
LEMMA ScanFirst == page \subseteq Bit => ScanFindsNext
<1> SUFFICES ASSUME page \subseteq Bit, NEW mark \in Bit \cup {-1}, mark # -1 \/ page # Bit
             PROVE  /\ IsNextZeroBit(mark, find_next_zero_bit(mark))
                    /\ \A b \in Bit : IsNextZeroBit(mark, b) => b = find_next_zero_bit(mark)
  BY DEF ScanFindsNext
<1>0. NCid \in Nat /\ NCid > 0  BY NCidAssumption
<1>1. PICK k \in 0 .. NCid :
        /\ find_next_zero_bit(mark) = Tested(mark, k) /\ EndsAt(mark, k)
        /\ \A j \in 0 .. (k - 1) : ~EndsAt(mark, j)
  BY ScanLoop
<1> DEFINE found == Tested(mark, k)
<1>2. k \in Bit
  <2>1. PICK b \in Bit : b = mark \/ b \notin page  OBVIOUS
  <2>2. EndsAt(mark, Distance(mark, b)) /\ Distance(mark, b) \in Bit
    BY <2>1, TestedDistance DEF EndsAt
  <2>3. ~(Distance(mark, b) \in 0 .. (k - 1))  BY <1>1, <2>2
  <2> QED BY <1>0, <2>2, <2>3 DEF Bit
<1>3. found \in Bit /\ Distance(mark, found) = k  BY <1>2, TestedDistance
<1>4. found # mark => found \notin page  BY <1>0, <1>1, <1>2 DEF EndsAt, Bit
<1>5. ASSUME NEW j \in Bit \ {mark}, Distance(mark, j) < k PROVE j \in page
  <2>1. Distance(mark, j) \in Bit /\ Tested(mark, Distance(mark, j)) = j  BY TestedDistance
  <2>2. Distance(mark, j) \in 0 .. (k - 1)  BY <1>0, <1>2, <1>5, <2>1 DEF Bit
  <2>3. ~EndsAt(mark, Distance(mark, j))  BY <1>1, <2>2
  <2> QED BY <2>1, <2>3 DEF EndsAt
<1>6. IsNextZeroBit(mark, found)  BY <1>3, <1>4, <1>5 DEF IsNextZeroBit
<1>7. ASSUME NEW b \in Bit, IsNextZeroBit(mark, b) PROVE b = found
  <2>1. Distance(mark, b) \in Bit /\ Tested(mark, Distance(mark, b)) = b  BY TestedDistance
  <2>2. \A c \in Bit : Distance(mark, c) <= Distance(mark, mark)
    BY <1>0 DEF Bit, Distance
  <2>3. ASSUME NEW c \in Bit, NEW d \in Bit, IsNextZeroBit(mark, c), IsNextZeroBit(mark, d)
        PROVE  ~(Distance(mark, c) < Distance(mark, d))
    <3>1. Distance(mark, c) \in Nat /\ Distance(mark, d) \in Nat  BY DistanceNat
    <3>2. SUFFICES ASSUME Distance(mark, c) < Distance(mark, d) PROVE FALSE  OBVIOUS
    <3>3. c # mark
      <4> SUFFICES ASSUME c = mark PROVE FALSE  OBVIOUS
      <4>1. Distance(mark, d) <= Distance(mark, c)  BY <2>2
      <4> QED BY <3>1, <3>2, <4>1
    <3> QED BY <2>3, <3>2, <3>3 DEF IsNextZeroBit
  <2>4. Distance(mark, b) = k
    <3>1. ~(Distance(mark, b) < k) /\ ~(k < Distance(mark, b))  BY <1>3, <1>6, <1>7, <2>3
    <3> QED BY <1>0, <1>2, <2>1, <3>1 DEF Bit
  <2> QED BY <2>1, <2>4
<1> QED BY <1>1, <1>6, <1>7
-----------------------------------------------------------------------------

(* Types of all but the checkpoints and the counters, which the parts of   *)
(* the invariant below speak of.                                           *)
Types ==
  /\ created \in 0 .. MaxCreate
  /\ cid \in [Task -> Cids \cup {NoCid, 0}]
  /\ function \in [Task -> Task \cup {NULL}]
  /\ callbacks \subseteq Task
  /\ reg \in Register
  /\ require \in BOOLEAN
  /\ cstack \in Seq(Frame)
  /\ heap \in [Ctx -> Register \cup {NULL}]
  /\ cid_context_map \in [Cids -> Ctx \cup {NULL}]
  /\ parked \subseteq Ctx
  /\ st \in [Task -> {"unborn", "refused", "live", "yielded", "parked", "closed"}]
  /\ main \in {"script", "loop", "down"}

(* A task exists when its co::create was called.                           *)
BornInv == \A t \in Task : st[t] = "unborn" <=> t > created

(* The C stack runs different coroutines, all live; aio_invoke is called   *)
(* only by the main script; the outermost call keeps registers of the main *)
(* script.                                                                 *)
StackInv ==
  /\ \A i \in Depth : /\ st[cstack[i].task] = "live"
                      /\ cstack[i].op = "invoke" => i = 1
  /\ \A i, j \in Depth : cstack[i].task = cstack[j].task => i = j
  /\ Inside => cstack[1].ctx.stack = NULL
  /\ RunsItsOwnContext

(* A context belongs to one coroutine that has not ended.  The context of  *)
(* a live one is held by the C call that resumed it; that of a suspended   *)
(* one is where its wakeup will look for it.                               *)
HeldInv ==
  \A i \in Depth :
    IF cstack[i].op = "create" THEN cstack[i].context = NULL
    ELSE cstack[i].context \in Ctx /\ heap[cstack[i].context] = Own(cstack[i].task)

OwnerInv ==
  \A c \in Ctx : heap[c] # NULL =>
    /\ heap[c].task \in Task
    /\ heap[c] = Own(heap[c].task)
    /\ st[heap[c].task] \in {"live", "yielded", "parked"}
    /\ st[heap[c].task] = "live" => \E i \in Depth : cstack[i].context = c
    /\ \A d \in Ctx : heap[d] = heap[c] => d = c

YieldedInv ==
  \A t \in Task : st[t] = "yielded" =>
    /\ cid[t] \in Cids
    /\ cid_context_map[cid[t]] \in Ctx
    /\ heap[cid_context_map[cid[t]]] = Own(t)

ParkedInv ==
  /\ \A t \in Task : st[t] = "parked" => \E c \in parked : heap[c] = Own(t)
  /\ \A c \in parked : heap[c] # NULL /\ st[heap[c].task] = "parked"

ContextInv == HeldInv /\ OwnerInv /\ YieldedInv /\ ParkedInv

(* The jmp_buf of the call at position i: its own, or for aio_invoke the   *)
(* one of coro_init.  Until the end of the request each of these blocks    *)
(* was given to setjmp by its call, and every call but aio_invoke          *)
(* remembers the block of the call below.                                  *)
Buf(s, i) == IF s[i].op = "invoke" THEN 0 ELSE i

BufferInv ==
  main # "down" =>
    /\ checkPoint # NULL => jmpbuf[0] # Freed
    /\ IF Inside THEN checkPoint = Buf(cstack, Len(cstack)) ELSE checkPoint \in {NULL, 0}
    /\ checkPoint = NULL => \A t \in Task : st[t] \notin {"yielded", "parked"}
    /\ \A i \in Depth :
         /\ jmpbuf[Buf(cstack, i)] = i
         /\ cstack[i].op # "invoke" => cstack[i].prev = IF i = 1 THEN 0 ELSE Buf(cstack, i - 1)

CheckInv ==
  /\ checkPoint \in Buffer \cup {NULL}
  /\ jmpbuf \in [Buffer -> Buffer \cup {Freed}]
  /\ BufferInv

(* The cids of the coroutines alive; nr_free and the bitmap agree but for  *)
(* the coroutines that ended without a cid.                                *)
CidsInv ==
  /\ page \subseteq Bit
  /\ last_cid \in Bit \cup {-1}
  /\ nr_free \in Nat
  /\ nr_free + Cardinality(page) = NCid + Cardinality(ClosedWithoutCid)
  /\ \A t \in Live : cid[t] \in Cids \cup {NoCid}
  /\ UniqueCid

(* A bit is set only after one was handed out.                             *)
MarkInv == last_cid = -1 => page = {}

(* A task's function names its own callback or one that was refused; while *)
(* nothing is refused it is set from the first suspension on.              *)
CallbackInv ==
  /\ CallbackKept
  /\ \A t \in Task : function[t] # NULL => function[t] = t \/ st[function[t]] = "refused"
  /\ (\A t \in Task : st[t] # "refused") =>
       /\ callbacks = Live
       /\ \A t \in Task : st[t] \in {"yielded", "parked"} => function[t] = t
       /\ \A i \in Depth : cstack[i].op # "create" => function[cstack[i].task] = cstack[i].task

CoroInv ==
  /\ Types
  /\ BornInv
  /\ StackInv
  /\ ContextInv
  /\ CheckInv
  /\ CidsInv
  /\ MarkInv
  /\ CoroNumExact
  /\ CallbackInv
-----------------------------------------------------------------------------
(* Tasks are positive numbers up to MaxCreate, and NULL is not one.        *)
LEMMA TaskFacts ==
  /\ Task \subseteq Nat \ {0}
  /\ NULL \notin Task
  /\ IsFiniteSet(Task) /\ Cardinality(Task) = MaxCreate
<1>1. MaxCreate \in Nat /\ NULL \notin Int  BY CoroutineAssumption
<1>2. 1 \in Int /\ MaxCreate \in Int  BY <1>1
<1>3. IsFiniteSet(1 .. MaxCreate) /\ Cardinality(1 .. MaxCreate) = IF 1 > MaxCreate THEN 0 ELSE MaxCreate - 1 + 1
  BY <1>2, FS_Interval
<1> QED BY <1>1, <1>3 DEF Task

(* Registers of a coroutine.                                               *)
LEMMA OwnFacts ==
  ASSUME NEW t \in Task
  PROVE  /\ Own(t) \in Register
         /\ Own(t).task = t /\ Own(t).stack = t /\ Own(t).retval = t
         /\ Own(t) # NULL
BY NullAssumption DEF Own, Register

(* The C stack.                                                            *)
LEMMA StackFacts ==
  ASSUME Types
  PROVE  /\ Len(cstack) \in Nat
         /\ Inside => Len(cstack) \in Nat \ {0}
         /\ Inside <=> Len(cstack) # 0
         /\ \A i \in Depth : cstack[i] \in Frame
         /\ Inside => Len(cstack) \in Depth /\ 1 \in Depth /\ Top \in Frame
<1>1. cstack \in Seq(Frame)  BY DEF Types
<1>2. Len(cstack) \in Nat  BY <1>1, LenProperties
<1>3. Inside => Len(cstack) \in Nat \ {0}  BY <1>1, EmptySeq DEF Inside
<1>4. ~Inside => Len(cstack) = 0  BY EmptySeq DEF Inside
<1>5. \A i \in Depth : cstack[i] \in Frame  BY <1>1, ElementOfSeq DEF Depth
<1>6. Inside => Len(cstack) \in Depth /\ 1 \in Depth  BY <1>3 DEF Depth
<1> QED BY <1>2, <1>3, <1>4, <1>5, <1>6 DEF Top

(* ... when a C call is entered ...                                        *)
LEMMA PushFacts ==
  ASSUME Types, NEW f \in Frame, cstack' = Append(cstack, f)
  PROVE  /\ cstack' \in Seq(Frame)
         /\ Len(cstack') = Len(cstack) + 1
         /\ Depth' = Depth \cup {Len(cstack) + 1}
         /\ Len(cstack) + 1 \notin Depth
         /\ \A i \in Depth : cstack'[i] = cstack[i]
         /\ cstack'[Len(cstack) + 1] = f
         /\ Inside' /\ Top' = f
<1>1. cstack \in Seq(Frame) /\ Len(cstack) \in Nat  BY LenProperties DEF Types
<1>2. /\ cstack' \in Seq(Frame)
      /\ Len(cstack') = Len(cstack) + 1
      /\ \A i \in 1 .. Len(cstack) : cstack'[i] = cstack[i]
      /\ cstack'[Len(cstack) + 1] = f
  BY <1>1, AppendProperties
<1>3. cstack' # << >>  BY <1>1, <1>2, EmptySeq
<1>4. Depth' = Depth \cup {Len(cstack) + 1} /\ Len(cstack) + 1 \notin Depth
  BY <1>1, <1>2 DEF Depth
<1> QED BY <1>1, <1>2, <1>3, <1>4 DEF Depth, Inside, Top

(* ... and when the innermost one returns.                                 *)
LEMMA PopFacts ==
  ASSUME Types, Inside, cstack' = SubSeq(cstack, 1, Len(cstack) - 1)
  PROVE  /\ cstack' \in Seq(Frame)
         /\ Len(cstack') = Len(cstack) - 1
         /\ Depth' = Depth \ {Len(cstack)}
         /\ \A i \in Depth' : cstack'[i] = cstack[i]
         /\ Inside' <=> Len(cstack) # 1
<1>1. Len(cstack) \in Nat \ {0} /\ cstack \in Seq(Frame)  BY StackFacts DEF Types
<1>5. cstack' \in Seq(Frame) /\ Len(cstack') = Len(cstack) - 1
  BY <1>1, ButLast DEF Inside
<1>6. \A i \in 1 .. (Len(cstack) - 1) : cstack'[i] = cstack[i]
  BY <1>1, ButLast DEF Inside
<1>7. Depth' = Depth \ {Len(cstack)} /\ Depth' = 1 .. (Len(cstack) - 1)
  BY <1>1, <1>5 DEF Depth
<1>8. Inside' <=> Len(cstack') # 0
  <2>1. cstack' # << >> => Len(cstack') # 0  BY <1>5, EmptySeq
  <2>2. cstack' = << >> => Len(cstack') = 0  BY EmptySeq
  <2> QED BY <2>1, <2>2 DEF Inside
<1> QED BY <1>1, <1>5, <1>6, <1>7, <1>8

(* No more C calls are nested than coroutines were created: a stack of     *)
(* calls that run different tasks among the first n has at most n calls.   *)
LEMMA DepthBound ==
  ASSUME NEW s \in Seq(Frame), NEW n \in 0 .. MaxCreate,
         \A i \in 1 .. Len(s) : s[i].task \in 1 .. n,
         \A i, j \in 1 .. Len(s) : s[i].task = s[j].task => i = j
  PROVE  Len(s) \in Buffer
<1> DEFINE f == [i \in 1 .. Len(s) |-> s[i].task]
<1>1. n \in Nat /\ n <= MaxCreate /\ MaxCreate \in Nat /\ Len(s) \in Nat
  BY CoroutineAssumption, LenProperties
<1>2. f \in [1 .. Len(s) -> 1 .. n]  OBVIOUS
<1>3. ASSUME n < Len(s) PROVE FALSE
  <2>1. 1 \in Int /\ n \in Int /\ Len(s) \in Int  BY <1>1
  <2>2. IsFiniteSet(1 .. n) /\ Cardinality(1 .. n) = IF 1 > n THEN 0 ELSE n - 1 + 1
    BY <2>1, FS_Interval
  <2>3. IsFiniteSet(1 .. Len(s)) /\ Cardinality(1 .. Len(s)) = IF 1 > Len(s) THEN 0 ELSE Len(s) - 1 + 1
    BY <2>1, FS_Interval
  <2>4. Cardinality(1 .. n) < Cardinality(1 .. Len(s))  BY <1>1, <1>3, <2>2, <2>3
  <2>5. \E x, y \in 1 .. Len(s) : x # y /\ f[x] = f[y]
    <3> DEFINE S == 1 .. Len(s)
               T == 1 .. n
    <3>1. IsFiniteSet(S) /\ IsFiniteSet(T) /\ Cardinality(T) < Cardinality(S) /\ f \in [S -> T]
      BY <1>2, <2>2, <2>3, <2>4
    <3>2. \E x, y \in S : x # y /\ f[x] = f[y]
      <4> HIDE DEF f, S, T
      <4> QED BY <3>1, FS_PigeonHole
    <3> QED BY <3>2
  <2> QED BY <2>5
<1> QED BY <1>1, <1>3 DEF Buffer
-----------------------------------------------------------------------------
(* Every step of the system enters a C call that runs t, returns from the  *)
(* innermost one, or leaves the stack and the registers alone.             *)
Pushes(t, f) ==
  /\ t \in Task /\ st[t] # "live"
  /\ f \in Frame /\ f.task = t
  /\ f.op = "invoke" => ~Inside
  /\ IF Inside THEN f.ctx = reg ELSE f.ctx.stack = NULL
  /\ cstack' = Append(cstack, f)
  /\ reg' = Own(t)
  /\ st' = [st EXCEPT ![t] = "live"]

Pops(x) ==
  /\ Inside
  /\ x \in {"yielded", "parked", "closed"}
  /\ cstack' = SubSeq(cstack, 1, Len(cstack) - 1)
  /\ IF Top.op = "invoke" THEN reg' \in Register /\ reg'.stack = NULL ELSE reg' = Top.ctx
  /\ st' = [st EXCEPT ![Top.task] = x]

Stays ==
  /\ UNCHANGED <<cstack, reg>>
  /\ \/ UNCHANGED st
     \/ /\ created + 1 \in Task /\ st[created + 1] # "live"
        /\ st' = [st EXCEPT ![created + 1] = "refused"]

LEMMA PushStack ==
  ASSUME Types, StackInv, NEW t, NEW f, Pushes(t, f)
  PROVE  StackInv' /\ cstack' \in Seq(Frame) /\ reg' \in Register
<1>1. /\ t \in Task /\ f \in Frame /\ f.task = t /\ cstack' = Append(cstack, f)
      /\ reg' = Own(t) /\ st' = [st EXCEPT ![t] = "live"] /\ st[t] # "live"
  BY DEF Pushes
<1>2. /\ cstack' \in Seq(Frame) /\ Len(cstack') = Len(cstack) + 1
      /\ Depth' = Depth \cup {Len(cstack) + 1} /\ Len(cstack) + 1 \notin Depth
      /\ \A i \in Depth : cstack'[i] = cstack[i]
      /\ cstack'[Len(cstack) + 1] = f
      /\ Inside' /\ Top' = f
  BY <1>1, PushFacts
<1>3. /\ Len(cstack) \in Nat /\ \A i \in Depth : cstack[i].task \in Task
      /\ Inside => Len(cstack) \in Nat \ {0}
      /\ ~Inside => Len(cstack) = 0
  BY StackFacts DEF Frame
<1>4. \A i \in Depth : cstack[i].task # t /\ st'[cstack[i].task] = "live"
  BY <1>1, <1>3 DEF StackInv, Types
<1>5. st'[t] = "live"  BY <1>1 DEF Types
<1>6. \A i \in Depth' : st'[cstack'[i].task] = "live"
  BY <1>1, <1>2, <1>4, <1>5
<1>7. ASSUME NEW i \in Depth', cstack'[i].op = "invoke" PROVE i = 1
  <2>1. CASE i \in Depth  BY <2>1, <1>2, <1>7 DEF StackInv
  <2>2. CASE i = Len(cstack) + 1
    <3>1. ~Inside  BY <2>2, <1>2, <1>7 DEF Pushes
    <3> QED BY <3>1, <2>2, <1>3
  <2> QED BY <1>2, <2>1, <2>2
<1>8. ASSUME NEW i \in Depth', NEW j \in Depth', cstack'[i].task = cstack'[j].task PROVE i = j
  <2>1. CASE i \in Depth /\ j \in Depth  BY <2>1, <1>2, <1>8 DEF StackInv
  <2>2. CASE i \notin Depth \/ j \notin Depth
    <3>1. i \notin Depth => i = Len(cstack) + 1  BY <1>2
    <3>2. j \notin Depth => j = Len(cstack) + 1  BY <1>2
    <3> QED BY <2>2, <3>1, <3>2, <1>1, <1>2, <1>4, <1>8
  <2> QED BY <2>1, <2>2
<1>9. cstack'[1].ctx.stack = NULL
  <2>1. CASE Inside
    <3>1. 1 \in Depth  BY <1>3, <2>1 DEF Depth
    <3> QED BY <3>1, <2>1, <1>2 DEF StackInv
  <2>2. CASE ~Inside  BY <2>2, <1>2, <1>3 DEF Pushes
  <2> QED BY <2>1, <2>2
<1>10. RunsItsOwnContext'
  <2>1. Inside' => reg' = Own(Top'.task)  BY <1>1, <1>2
  <2>2. ASSUME NEW i \in Depth' \ {1} PROVE cstack'[i].ctx = Own(cstack'[i - 1].task)
    <3>1. CASE i \in Depth
      <4>1. i \in Depth \ {1} /\ i - 1 \in Depth  BY <2>2, <3>1, <1>3 DEF Depth
      <4> QED BY <4>1, <1>2 DEF StackInv, RunsItsOwnContext
    <3>2. CASE i = Len(cstack) + 1
      <4>1. Inside /\ i - 1 = Len(cstack) /\ Len(cstack) \in Depth
        BY <2>2, <3>2, <1>3 DEF Depth
      <4>2. reg = Own(cstack[Len(cstack)].task) /\ f.ctx = reg
        BY <4>1 DEF StackInv, RunsItsOwnContext, Top, Pushes
      <4> QED BY <4>1, <4>2, <3>2, <1>2
    <3> QED BY <2>2, <3>1, <3>2, <1>2
  <2> QED BY <2>1, <2>2, <1>2 DEF RunsItsOwnContext
<1>11. reg' \in Register  BY <1>1, OwnFacts
<1> QED BY <1>2, <1>6, <1>7, <1>8, <1>9, <1>10, <1>11 DEF StackInv

LEMMA PopStack ==
  ASSUME Types, StackInv, NEW x, Pops(x)
  PROVE  StackInv' /\ cstack' \in Seq(Frame) /\ reg' \in Register
<1>1. /\ Inside /\ cstack' = SubSeq(cstack, 1, Len(cstack) - 1)
      /\ st' = [st EXCEPT ![Top.task] = x]
  BY DEF Pops
<1>2. /\ cstack' \in Seq(Frame) /\ Len(cstack') = Len(cstack) - 1
      /\ Depth' = Depth \ {Len(cstack)}
      /\ \A i \in Depth' : cstack'[i] = cstack[i]
      /\ Inside' <=> Len(cstack) # 1
  BY <1>1, PopFacts
<1>3. /\ Len(cstack) \in Nat \ {0} /\ Len(cstack) \in Depth
      /\ \A i \in Depth : cstack[i] \in Frame /\ cstack[i].task \in Task /\ cstack[i].ctx \in Register
  BY <1>1, StackFacts DEF Frame
<1>4. \A i \in Depth' : cstack[i].task # Top.task /\ st'[cstack[i].task] = "live"
  BY <1>1, <1>2, <1>3 DEF StackInv, Types, Top
<1>5. \A i \in Depth' : st'[cstack'[i].task] = "live" /\ (cstack'[i].op = "invoke" => i = 1)
  BY <1>2, <1>4 DEF StackInv
<1>6. \A i, j \in Depth' : cstack'[i].task = cstack'[j].task => i = j
  BY <1>2 DEF StackInv
<1>7. Inside' => 1 \in Depth' /\ cstack'[1].ctx.stack = NULL
  BY <1>1, <1>2, <1>3 DEF StackInv, Depth
<1>8. Inside' => reg' = Own(Top'.task)
  <2> SUFFICES ASSUME Inside' PROVE reg' = Own(Top'.task)  OBVIOUS
  <2>1. Len(cstack) \in Depth \ {1} /\ Len(cstack) - 1 \in Depth'
    BY <1>2, <1>3 DEF Depth
  <2>2. Top.op # "invoke" /\ Top.ctx = Own(cstack[Len(cstack) - 1].task)
    BY <2>1 DEF StackInv, RunsItsOwnContext, Top
  <2>3. Top' = cstack[Len(cstack) - 1]  BY <2>1, <1>2 DEF Top
  <2> QED BY <2>2, <2>3 DEF Pops
<1>9. \A i \in Depth' \ {1} : cstack'[i].ctx = Own(cstack'[i - 1].task)
  <2> SUFFICES ASSUME NEW i \in Depth' \ {1}
               PROVE  cstack'[i].ctx = Own(cstack'[i - 1].task)
    OBVIOUS
  <2>1. i \in Depth \ {1} /\ i - 1 \in Depth'  BY <1>2, <1>3 DEF Depth
  <2> QED BY <2>1, <1>2 DEF StackInv, RunsItsOwnContext
<1>10. ~Inside' => reg'.stack = NULL
  <2> SUFFICES ASSUME ~Inside' PROVE reg'.stack = NULL  OBVIOUS
  <2>1. Top = cstack[1]  BY <1>2 DEF Top
  <2> QED BY <1>1, <2>1 DEF Pops, StackInv
<1>11. reg' \in Register  BY <1>3 DEF Pops, Top
<1> QED BY <1>2, <1>5, <1>6, <1>7, <1>8, <1>9, <1>10, <1>11 DEF StackInv, RunsItsOwnContext

LEMMA StayStack ==
  ASSUME Types, StackInv, Stays
  PROVE  StackInv' /\ cstack' \in Seq(Frame) /\ reg' \in Register
<1>1. cstack' = cstack /\ reg' = reg  BY DEF Stays
<1>2. \A i \in Depth : cstack[i].task \in Task  BY StackFacts DEF Frame
<1>3. \A i \in Depth : st'[cstack[i].task] = "live"
  BY <1>2 DEF Stays, StackInv, Types
<1> QED BY <1>1, <1>3 DEF StackInv, RunsItsOwnContext, Inside, Top, Depth, Types
-----------------------------------------------------------------------------
(* The calls that the actions enter.                                       *)
CreateFrame(n) ==
  [op |-> "create", task |-> n, prev |-> base_checkPoint, ctx |-> coro_save,
   required |-> require, context |-> NULL]

ResumeFrame(c) ==
  [op |-> "resume", task |-> heap[c].task, prev |-> checkPoint, ctx |-> coro_save,
   required |-> require, context |-> c]

InvokeFrame(c) ==
  [op |-> "invoke", task |-> heap[c].task, prev |-> NULL, ctx |-> NoTask,
   required |-> FALSE, context |-> c]

(* co::create that is not refused: a task that was never used starts.      *)
LEMMA StartFacts ==
  ASSUME Types, BornInv, StackInv, CheckInv,
         NEW k, created < MaxCreate, CoroStart(created + 1, k)
  PROVE  /\ created + 1 \in Task
         /\ st[created + 1] = "unborn"
         /\ Pushes(created + 1, CreateFrame(created + 1))
<1>1. created \in Nat /\ created + 1 \in Task
  BY CoroutineAssumption DEF Types, Task
<1>2. st[created + 1] = "unborn"  BY <1>1 DEF BornInv, Task
<1>3. base_checkPoint \in Buffer \cup {NULL}
  BY CoroutineAssumption DEF base_checkPoint, CheckInv, Buffer
<1>4. CreateFrame(created + 1) \in Frame
  BY <1>1, <1>3 DEF CreateFrame, Frame, Types, coro_save
<1>5. /\ CreateFrame(created + 1).task = created + 1
      /\ CreateFrame(created + 1).op = "create"
      /\ CreateFrame(created + 1).ctx = reg
  BY DEF CreateFrame, coro_save
<1>6. ~Inside => reg.stack = NULL  BY DEF StackInv, RunsItsOwnContext
<1>7. /\ cstack' = Append(cstack, CreateFrame(created + 1))
      /\ reg' = Own(created + 1)
      /\ st' = [st EXCEPT ![created + 1] = "live"]
  BY DEF CoroStart, Enter, CreateFrame
<1> QED BY <1>1, <1>2, <1>4, <1>5, <1>6, <1>7 DEF Pushes

(* co::resume runs the coroutine that yielded under k, from the context it *)
(* yielded in.                                                             *)
LEMMA ResumeFacts ==
  ASSUME Types, StackInv, ContextInv, CheckInv, NEW k \in Cids, Resume(k),
         NEW c, c = cid_context_map[k]
  PROVE  /\ c \in Ctx
         /\ heap[c].task \in Task /\ heap[c] = Own(heap[c].task)
         /\ st[heap[c].task] = "yielded" /\ cid[heap[c].task] = k
         /\ Pushes(heap[c].task, ResumeFrame(c))
<1>1. PICK t \in Task : st[t] = "yielded" /\ cid[t] = k
  BY DEF Resume, MayResume
<1>2. c \in Ctx /\ heap[c] = Own(t)  BY <1>1 DEF ContextInv, YieldedInv
<1>3. heap[c].task = t  BY <1>2, OwnFacts
<1>4. ResumeFrame(c) \in Frame
  BY <1>2, <1>3 DEF ResumeFrame, Frame, Types, CheckInv, coro_save
<1>5. ResumeFrame(c).task = t /\ ResumeFrame(c).op = "resume" /\ ResumeFrame(c).ctx = reg
  BY <1>3 DEF ResumeFrame, coro_save
<1>6. ~Inside => reg.stack = NULL  BY DEF StackInv, RunsItsOwnContext
<1>7. /\ cstack' = Append(cstack, ResumeFrame(c))
      /\ reg' = heap[c]
      /\ st' = [st EXCEPT ![t] = "live"]
  BY <1>3 DEF Resume, Enter, ResumeFrame
<1> QED BY <1>1, <1>2, <1>3, <1>4, <1>5, <1>6, <1>7 DEF Pushes

(* aio_invoke runs the coroutine whose context the event table held.       *)
LEMMA InvokeFacts ==
  ASSUME Types, StackInv, ContextInv, CheckInv, NEW c \in Ctx, Invoke(c)
  PROVE  /\ heap[c] # NULL
         /\ heap[c].task \in Task /\ heap[c] = Own(heap[c].task)
         /\ st[heap[c].task] = "parked"
         /\ Pushes(heap[c].task, InvokeFrame(c))
         /\ checkPoint = 0 /\ Len(cstack) = 0
<1> DEFINE t == heap[c].task
<1>1. c \in parked /\ main = "loop" /\ ~Inside  BY DEF Invoke
<1>2. heap[c] # NULL /\ t \in Task /\ heap[c] = Own(t) /\ st[t] = "parked"
  BY <1>1 DEF ContextInv, ParkedInv, OwnerInv, Types
<1>3. InvokeFrame(c) \in Frame
  BY <1>2 DEF InvokeFrame, Frame, Types, NoTask, Register
<1>4. InvokeFrame(c).task = t /\ InvokeFrame(c).ctx.stack = NULL
  BY DEF InvokeFrame, NoTask
<1>5. /\ cstack' = Append(cstack, InvokeFrame(c))
      /\ reg' = heap[c]
      /\ st' = [st EXCEPT ![t] = "live"]
  BY DEF Invoke, Enter, InvokeFrame
<1>6. checkPoint = 0  BY <1>1, <1>2 DEF CheckInv, BufferInv
<1>7. Len(cstack) = 0  BY <1>1, StackFacts
<1> QED BY <1>1, <1>2, <1>3, <1>4, <1>5, <1>6, <1>7 DEF Pushes

(* The running coroutine is the one of the innermost C call, and that call *)
(* is where a longjmp lands.                                               *)
LEMMA RunningFacts ==
  ASSUME Types, StackInv, CheckInv, main # "down", Inside
  PROVE  /\ Top \in Frame /\ Top.task \in Task
         /\ reg = Own(Top.task) /\ reg.task = Top.task
         /\ st[Top.task] = "live"
         /\ Len(cstack) \in Nat \ {0} /\ Len(cstack) \in Depth /\ Top = cstack[Len(cstack)]
         /\ landing = Len(cstack)
         /\ checkPoint = IF Top.op = "invoke" THEN 0 ELSE Len(cstack)
<1>1. Top \in Frame /\ Top.task \in Task /\ Len(cstack) \in Nat \ {0} /\ Len(cstack) \in Depth
  BY StackFacts DEF Frame
<1>2. st[Top.task] = "live"  BY <1>1 DEF StackInv, Top
<1>3. reg = Own(Top.task) /\ reg.task = Top.task
  BY <1>1, OwnFacts DEF StackInv, RunsItsOwnContext
<1>4. checkPoint = Buf(cstack, Len(cstack)) /\ jmpbuf[Buf(cstack, Len(cstack))] = Len(cstack)
  BY <1>1 DEF CheckInv, BufferInv
<1> QED BY <1>1, <1>2, <1>3, <1>4 DEF landing, Buf, Top

(* Control comes back to that call with the registers of a coroutine that  *)
(* left.                                                                   *)
LEMMA ReturnFacts ==
  ASSUME Types, StackInv, CheckInv, main # "down", Inside,
         NEW r, NEW h, NEW fn, NEW cb, r \in {coro_yield, closed_registers},
         Return(Len(cstack), r, h, fn, cb)
  PROVE  /\ cstack' = SubSeq(cstack, 1, Len(cstack) - 1)
         /\ IF Top.op = "invoke" THEN reg' \in Register /\ reg'.stack = NULL ELSE reg' = Top.ctx
         /\ heap' = IF Top.op = "create" THEN h ELSE [h EXCEPT ![Top.context] = NULL]
         /\ require' \in BOOLEAN
         /\ checkPoint' = IF Top.op = "invoke" THEN checkPoint ELSE Top.prev
         /\ jmpbuf' = IF Top.op = "invoke" THEN jmpbuf ELSE [jmpbuf EXCEPT ![Len(cstack)] = Freed]
<1>1. Top \in Frame /\ reg = Own(Top.task) /\ Top.task \in Task
  BY RunningFacts
<1>2. r \in Register /\ r.stack = NULL
  <2>1. CASE r = coro_yield  BY <2>1, <1>1 DEF coro_yield, Own, Register
  <2>2. CASE r = closed_registers  BY <2>2, <1>1 DEF closed_registers, Own, Register
  <2> QED BY <2>1, <2>2
<1>3. /\ cstack' = SubSeq(cstack, 1, Len(cstack) - 1)
      /\ reg' = IF Top.op = "invoke" THEN r ELSE Top.ctx
      /\ require' = IF Top.op = "invoke" THEN FALSE ELSE Top.required
      /\ checkPoint' = IF Top.op = "invoke" THEN checkPoint ELSE Top.prev
      /\ jmpbuf' = IF Top.op = "invoke" THEN jmpbuf ELSE [jmpbuf EXCEPT ![checkPoint] = Freed]
      /\ heap' = IF Top.op = "create" THEN h ELSE [h EXCEPT ![Top.context] = NULL]
  BY DEF Return, Top, c_coro_resume_parent, restored_checkPoint, efree_context
<1>4. require' \in BOOLEAN  BY <1>1, <1>3 DEF Frame
<1>5. Top.op # "invoke" => checkPoint = Len(cstack)  BY RunningFacts
<1> QED BY <1>2, <1>3, <1>4, <1>5

(* What the calls that leave a coroutine have in common: the innermost C   *)
(* call returns, with contexts h.                                          *)
Leaves(x, h) ==
  /\ main # "down"
  /\ Pops(x)
  /\ heap' = IF Top.op = "create" THEN h ELSE [h EXCEPT ![Top.context] = NULL]
  /\ require' \in BOOLEAN
  /\ checkPoint' = IF Top.op = "invoke" THEN checkPoint ELSE Top.prev
  /\ jmpbuf' = IF Top.op = "invoke" THEN jmpbuf ELSE [jmpbuf EXCEPT ![Len(cstack)] = Freed]
  /\ UNCHANGED <<created, cid, main>>

(* A coroutine suspends itself: the free block c gets its registers.       *)
Suspends(x, c) ==
  /\ c \in Ctx /\ heap[c] = NULL
  /\ x \in {"yielded", "parked"}
  /\ Leaves(x, [heap EXCEPT ![c] = Own(Top.task)])
  /\ function' = IF Top.op = "create" THEN [function EXCEPT ![Top.task] = Top.task] ELSE function
  /\ UNCHANGED <<cidvars, callbacks, coro_num>>

LEMMA SuspendFacts ==
  ASSUME Types, StackInv, CheckInv, main # "down", Inside,
         NEW x \in {"yielded", "parked"}, st' = [st EXCEPT ![Top.task] = x],
         NEW c \in FreeBlocks,
         Return(landing, coro_yield, [heap EXCEPT ![c] = coro_save], function, callbacks),
         UNCHANGED <<cidvars, created, cid, coro_num, main>>
  PROVE  Suspends(x, c)
<1>1. /\ landing = Len(cstack) /\ reg = Own(Top.task) /\ reg.task = Top.task /\ Top.task \in Task
      /\ Top = cstack[Len(cstack)]
  BY RunningFacts
<1> DEFINE h == [heap EXCEPT ![c] = Own(Top.task)]
<1>2. Return(Len(cstack), coro_yield, h, function, callbacks)  BY <1>1 DEF coro_save
<1>3. c \in Ctx /\ heap[c] = NULL  BY DEF FreeBlocks
<1>4. Pops(x) /\ Leaves(x, h)
  <2> HIDE DEF h
  <2>1. coro_yield \in {coro_yield, closed_registers}  OBVIOUS
  <2> QED BY <1>2, <2>1, ReturnFacts DEF Pops, Leaves
<1>5. coro_yield.task = Top.task  BY <1>1 DEF coro_yield, Own
<1>6. coro_yield.task # NULL  BY <1>1, <1>5, TaskFacts
<1>7. /\ function' = IF Top.op = "create" THEN [function EXCEPT ![Top.task] = Top.task] ELSE function
      /\ callbacks' = callbacks
  <2> HIDE DEF h
  <2>1. /\ function' = keep_callback(Top, coro_yield, function, callbacks)[1]
        /\ callbacks' = keep_callback(Top, coro_yield, function, callbacks)[2]
    BY <1>1, <1>2 DEF Return
  <2> QED BY <2>1, <1>5, <1>6 DEF keep_callback
<1> QED BY <1>3, <1>4, <1>7 DEF Suspends

(* co::yield files the context under the coroutine's cid, a waiting call   *)
(* puts it into the event table.                                           *)
LEMMA YieldFacts ==
  ASSUME Types, StackInv, CheckInv, Yield
  PROVE  \E c \in Ctx :
           /\ Suspends("yielded", c)
           /\ cid[Top.task] \in Cids
           /\ cid_context_map' = [cid_context_map EXCEPT ![cid[Top.task]] = c]
           /\ UNCHANGED parked
<1>1. main # "down" /\ Inside  BY DEF Yield
<1>2. PICK c \in FreeBlocks :
        /\ cid_context_map' = [cid_context_map EXCEPT ![cid[reg.task]] = c]
        /\ Return(landing, coro_yield, [heap EXCEPT ![c] = coro_save], function, callbacks)
  BY DEF Yield
<1>3. reg.task = Top.task  BY <1>1, RunningFacts
<1>4. /\ cid[reg.task] \in Cids /\ st' = [st EXCEPT ![Top.task] = "yielded"]
      /\ UNCHANGED <<cidvars, created, cid, coro_num, main>> /\ UNCHANGED parked
  BY DEF Yield
<1>5. Suspends("yielded", c)  BY <1>1, <1>2, <1>4, SuspendFacts
<1> QED BY <1>2, <1>3, <1>4, <1>5 DEF FreeBlocks

LEMMA ParkFacts ==
  ASSUME Types, StackInv, CheckInv, Park
  PROVE  \E c \in Ctx :
           /\ Suspends("parked", c)
           /\ parked' = parked \cup {c}
           /\ UNCHANGED cid_context_map
<1>1. main # "down" /\ Inside  BY DEF Park
<1>2. PICK c \in FreeBlocks :
        /\ parked' = parked \cup {c}
        /\ Return(landing, coro_yield, [heap EXCEPT ![c] = coro_save], function, callbacks)
  BY DEF Park
<1>3. /\ st' = [st EXCEPT ![Top.task] = "parked"]
      /\ UNCHANGED <<cidvars, created, cid, coro_num, main>> /\ UNCHANGED cid_context_map
  BY DEF Park
<1>4. Suspends("parked", c)  BY <1>1, <1>2, <1>3, SuspendFacts
<1> QED BY <1>2, <1>3, <1>4 DEF FreeBlocks

(* A coroutine ends: its cid is given back and its callback freed, by      *)
(* coro_close when it has one and by coroutine_create when it never        *)
(* suspended.                                                              *)
LEMMA CloseFacts ==
  ASSUME Types, StackInv, CheckInv, Close
  PROVE  /\ Leaves("closed", heap)
         /\ free_cidmap(cid[Top.task])
         /\ coro_num' = coro_num - 1
         /\ function' = [function EXCEPT ![Top.task] = NULL]
         /\ callbacks' = (callbacks \ {function[Top.task]})
                           \ (IF Top.op = "create" THEN {Top.task} ELSE {})
         /\ UNCHANGED <<cid_context_map, parked>>
<1>1. main # "down" /\ Inside  BY DEF Close
<1>2. /\ reg = Own(Top.task) /\ reg.task = Top.task /\ Top.task \in Task
      /\ Top = cstack[Len(cstack)]
  BY <1>1, RunningFacts
<1> DEFINE cb == IF function[Top.task] = NULL THEN callbacks ELSE callbacks \ {function[Top.task]}
           fn == [function EXCEPT ![Top.task] = NULL]
<1>3. Return(Len(cstack), closed_registers, heap, fn, cb)
  BY <1>2 DEF Close
<1>4. cb = callbacks \ {function[Top.task]}  BY TaskFacts DEF Types
<1> HIDE DEF cb, fn
<1>5. st' = [st EXCEPT ![Top.task] = "closed"] /\ UNCHANGED <<created, cid, main>>
  BY DEF Close
<1>6. Leaves("closed", heap)
  <2>1. closed_registers \in {coro_yield, closed_registers}  OBVIOUS
  <2> QED BY <1>1, <1>3, <1>5, <2>1, ReturnFacts DEF Pops, Leaves
<1>7. closed_registers.task = NULL  BY <1>2 DEF closed_registers, Own
<1>8. /\ function' = keep_callback(Top, closed_registers, fn, cb)[1]
      /\ callbacks' = keep_callback(Top, closed_registers, fn, cb)[2]
  BY <1>2, <1>3 DEF Return
<1>9. function' = fn /\ callbacks' = cb \ (IF Top.op = "create" THEN {Top.task} ELSE {})
  BY <1>7, <1>8 DEF keep_callback
<1>10. free_cidmap(cid[Top.task]) /\ coro_num' = coro_num - 1 /\ UNCHANGED <<cid_context_map, parked>>
  BY <1>2 DEF Close
<1> QED BY <1>4, <1>6, <1>9, <1>10 DEF fn
-----------------------------------------------------------------------------
(* The cases of a step, as the lemmas above describe them.                 *)
Starts(k) ==
  /\ Create /\ k \in Cids \cup {NoCid} /\ alloc_cidmap(k)
  /\ created < MaxCreate /\ created' = created + 1
  /\ CoroStart(created + 1, k)
  /\ UNCHANGED <<heap, cid_context_map, parked, main>>

Refuses(k) ==
  /\ Create /\ k \in Cids \cup {NoCid} /\ alloc_cidmap(k)
  /\ created < MaxCreate /\ created' = created + 1
  /\ CoroLimit(created + 1, k)
  /\ UNCHANGED <<heap, cid_context_map, parked, main>>

(* Steps that change only the main script and, at the end of the request,  *)
(* the checkpoint.                                                         *)
Idles ==
  /\ UNCHANGED <<cidvars, created, cid, function, callbacks, coro_num, reg, require,
                 checkPoint, cstack, heap, cid_context_map, parked, st>>
  /\ \/ main' # "down" /\ main # "down" /\ main' \in {"script", "loop"} /\ UNCHANGED jmpbuf
     \/ main' = "down" /\ main # "down"
        /\ jmpbuf' = IF checkPoint = NULL THEN jmpbuf ELSE [jmpbuf EXCEPT ![checkPoint] = Freed]
     \/ UNCHANGED <<main, jmpbuf>>

LEMMA StepCases ==
  ASSUME [Next]_vars
  PROVE  \/ \E k : Starts(k)
         \/ \E k : Refuses(k)
         \/ Yield \/ Park \/ Close
         \/ \E k \in Cids : Resume(k)
         \/ \E c \in Ctx : Invoke(c)
         \/ Idles
<1>1. CASE Create
  <2>1. PICK k \in Cids \cup {NoCid} :
          alloc_cidmap(k) /\ (CoroLimit(created + 1, k) \/ CoroStart(created + 1, k))
    BY <1>1 DEF Create
  <2>2. created < MaxCreate /\ created' = created + 1 /\ UNCHANGED <<heap, cid_context_map, parked, main>>
    BY <1>1 DEF Create
  <2> QED BY <1>1, <2>1, <2>2 DEF Starts, Refuses
<1>2. CASE EnterLoop \/ LeaveLoop
  BY <1>2 DEF EnterLoop, LeaveLoop, Idles
<1>3. CASE Shutdown
  BY <1>3 DEF Shutdown, Scripting, Idles
<1>4. CASE UNCHANGED vars
  BY <1>4 DEF vars, corovars, Idles
<1> QED BY <1>1, <1>2, <1>3, <1>4 DEF Next

LEMMA TypesStep ==
  ASSUME Types, BornInv, StackInv, ContextInv, CheckInv, [Next]_vars
  PROVE  Types' /\ BornInv' /\ StackInv'
<1> USE CoroutineAssumption
<1>1. ASSUME NEW k, Starts(k) PROVE Types' /\ BornInv' /\ StackInv'
  <2> DEFINE n == created + 1
  <2>1. CoroStart(n, k) /\ created < MaxCreate /\ created' = n /\ k \in Cids \cup {NoCid}
        /\ UNCHANGED <<heap, cid_context_map, parked, main>>
    BY <1>1 DEF Starts
  <2>2. n \in Task /\ Pushes(n, CreateFrame(n))  BY <2>1, StartFacts
  <2>3. StackInv' /\ cstack' \in Seq(Frame) /\ reg' \in Register  BY <2>2, PushStack
  <2>4. st' = [st EXCEPT ![n] = "live"]  BY <2>2 DEF Pushes
  <2>5. cid' = [cid EXCEPT ![n] = k] /\ callbacks' = callbacks \cup {n} /\ function' = function
        /\ require' = TRUE
    BY <2>1 DEF CoroStart, Enter
  <2>6. BornInv'  BY <2>1, <2>2, <2>4 DEF BornInv, Types, Task
  <2>7. Types'  BY <2>1, <2>2, <2>3, <2>4, <2>5 DEF Types
  <2> QED BY <2>3, <2>6, <2>7
<1>2. ASSUME NEW k, Refuses(k) PROVE Types' /\ BornInv' /\ StackInv'
  <2> DEFINE n == created + 1
  <2>1. CoroLimit(n, k) /\ created < MaxCreate /\ created' = n
        /\ UNCHANGED <<heap, cid_context_map, parked, main>>
    BY <1>2 DEF Refuses
  <2>2. n \in Task /\ st[n] = "unborn"  BY <2>1 DEF Types, Task, BornInv
  <2>3. st' = [st EXCEPT ![n] = "refused"] /\ UNCHANGED <<cid, reg, require, cstack>>
    BY <2>1 DEF CoroLimit
  <2>4. StackInv' /\ cstack' \in Seq(Frame) /\ reg' \in Register
    BY <2>2, <2>3, StayStack DEF Stays
  <2>5. function' \in [Task -> Task \cup {NULL}] /\ callbacks' \subseteq Task
    BY <2>1, <2>2 DEF CoroLimit, Types
  <2>6. BornInv'  BY <2>1, <2>2, <2>3 DEF BornInv, Types, Task
  <2>7. require' \in BOOLEAN  BY <2>3 DEF Types
  <2>8. created' \in 0 .. MaxCreate  BY <2>1 DEF Types
  <2>9. Types'  BY <2>1, <2>2, <2>3, <2>4, <2>5, <2>7, <2>8 DEF Types
  <2> QED BY <2>4, <2>6, <2>9
<1>3. ASSUME NEW x, NEW h, Leaves(x, h), h \in [Ctx -> Register \cup {NULL}],
             function' \in [Task -> Task \cup {NULL}], callbacks' \subseteq Task,
             cid_context_map' \in [Cids -> Ctx \cup {NULL}], parked' \subseteq Ctx
      PROVE  Types' /\ BornInv' /\ StackInv'
  <2>1. Pops(x) /\ UNCHANGED <<created, cid, main>> /\ require' \in BOOLEAN  BY <1>3 DEF Leaves
  <2>2. StackInv' /\ cstack' \in Seq(Frame) /\ reg' \in Register  BY <2>1, PopStack
  <2>3. Top.task \in Task /\ st[Top.task] = "live" /\ st' = [st EXCEPT ![Top.task] = x]
        /\ x \in {"yielded", "parked", "closed"}
    BY <1>3, <2>1, RunningFacts DEF Pops, Leaves
  <2>4. heap' \in [Ctx -> Register \cup {NULL}]  BY <1>3 DEF Leaves
  <2>5. BornInv'  BY <2>1, <2>3 DEF BornInv, Types
  <2>6. Types'  BY <1>3, <2>1, <2>2, <2>3, <2>4 DEF Types
  <2> QED BY <2>2, <2>5, <2>6
<1>4. ASSUME NEW x, NEW c \in Ctx, Suspends(x, c),
             cid_context_map' \in [Cids -> Ctx \cup {NULL}], parked' \subseteq Ctx
      PROVE  Types' /\ BornInv' /\ StackInv'
  <2>1. Leaves(x, [heap EXCEPT ![c] = Own(Top.task)])  BY <1>4 DEF Suspends
  <2>2. Top.task \in Task  BY <2>1, RunningFacts DEF Leaves, Pops
  <2>3. [heap EXCEPT ![c] = Own(Top.task)] \in [Ctx -> Register \cup {NULL}]
    BY <2>2, OwnFacts DEF Types
  <2>4. function' \in [Task -> Task \cup {NULL}] /\ callbacks' \subseteq Task
    BY <1>4, <2>2 DEF Suspends, Types
  <2> QED BY <1>4, <2>1, <2>3, <2>4, <1>3
<1>5. CASE Yield
  <2>1. PICK c \in Ctx : /\ Suspends("yielded", c)
                         /\ cid_context_map' = [cid_context_map EXCEPT ![cid[Top.task]] = c]
                         /\ UNCHANGED parked
    BY <1>5, YieldFacts
  <2>2. cid_context_map' \in [Cids -> Ctx \cup {NULL}] /\ parked' \subseteq Ctx  BY <2>1 DEF Types
  <2> QED BY <2>1, <2>2, <1>4
<1>6. CASE Park
  <2>1. PICK c \in Ctx : /\ Suspends("parked", c)
                         /\ parked' = parked \cup {c}
                         /\ UNCHANGED cid_context_map
    BY <1>6, ParkFacts
  <2>2. cid_context_map' \in [Cids -> Ctx \cup {NULL}] /\ parked' \subseteq Ctx  BY <2>1 DEF Types
  <2> QED BY <2>1, <2>2, <1>4
<1>7. CASE Close
  <2>1. /\ Leaves("closed", heap) /\ UNCHANGED <<cid_context_map, parked>>
        /\ function' = [function EXCEPT ![Top.task] = NULL] /\ callbacks' \subseteq callbacks
    BY <1>7, CloseFacts
  <2>2. /\ heap \in [Ctx -> Register \cup {NULL}]
        /\ function' \in [Task -> Task \cup {NULL}] /\ callbacks' \subseteq Task
        /\ cid_context_map' \in [Cids -> Ctx \cup {NULL}] /\ parked' \subseteq Ctx
    BY <2>1 DEF Types
  <2> QED BY <2>1, <2>2, <1>3
<1>8. ASSUME NEW t, NEW f, Pushes(t, f), created' = created, require' = TRUE, parked' \subseteq Ctx, st[t] # "unborn",
             UNCHANGED <<cid, function, callbacks, heap, cid_context_map, main>>
      PROVE  Types' /\ BornInv' /\ StackInv'
  <2>1. StackInv' /\ cstack' \in Seq(Frame) /\ reg' \in Register  BY <1>8, PushStack
  <2>2. t \in Task /\ st' = [st EXCEPT ![t] = "live"]  BY <1>8 DEF Pushes
  <2>3. BornInv'  BY <1>8, <2>2 DEF BornInv, Types
  <2>4. Types'  BY <1>8, <2>1, <2>2 DEF Types
  <2> QED BY <2>1, <2>3, <2>4
<1>9. ASSUME NEW k \in Cids, Resume(k) PROVE Types' /\ BornInv' /\ StackInv'
  <2>1. PICK c : c = cid_context_map[k]  OBVIOUS
  <2>2. st[heap[c].task] = "yielded" /\ Pushes(heap[c].task, ResumeFrame(c))
    BY <1>9, <2>1, ResumeFacts
  <2>3. /\ created' = created /\ require' = TRUE /\ parked' = parked
        /\ UNCHANGED <<cid, function, callbacks, heap, cid_context_map, main>>
    BY <1>9 DEF Resume, Enter
  <2>4. parked' \subseteq Ctx /\ st[heap[c].task] # "unborn"  BY <2>2, <2>3 DEF Types
  <2> QED BY <2>2, <2>3, <2>4, <1>8
<1>10. ASSUME NEW c \in Ctx, Invoke(c) PROVE Types' /\ BornInv' /\ StackInv'
  <2>1. st[heap[c].task] = "parked" /\ Pushes(heap[c].task, InvokeFrame(c))
    BY <1>10, InvokeFacts
  <2>2. /\ created' = created /\ require' = TRUE /\ parked' = parked \ {c}
        /\ UNCHANGED <<cid, function, callbacks, heap, cid_context_map, main>>
    BY <1>10 DEF Invoke, Enter
  <2>3. parked' \subseteq Ctx /\ st[heap[c].task] # "unborn"  BY <2>1, <2>2 DEF Types
  <2> QED BY <2>1, <2>2, <2>3, <1>8
<1>11. CASE Idles
  <2>1. StackInv'  BY <1>11, StayStack DEF Idles, Stays
  <2>2. Types' /\ BornInv'  BY <1>11 DEF Idles, Types, BornInv
  <2> QED BY <2>1, <2>2
<1> QED BY StepCases, <1>1, <1>2, <1>5, <1>6, <1>7, <1>9, <1>10, <1>11
-----------------------------------------------------------------------------
(* The new call of a stack that grows has a jmp_buf of its own.            *)
LEMMA PushInBuffer ==
  ASSUME Types', BornInv', StackInv', Len(cstack') = Len(cstack) + 1
  PROVE  Len(cstack) + 1 \in Buffer
<1>1. cstack' \in Seq(Frame) /\ created' \in 0 .. MaxCreate  BY DEF Types
<1>2. ASSUME NEW i \in 1 .. Len(cstack') PROVE cstack'[i].task \in 1 .. created'
  <2>1. cstack'[i] \in Frame  BY <1>1, ElementOfSeq
  <2>2. cstack'[i].task \in Task /\ st'[cstack'[i].task] = "live"
    BY <2>1 DEF StackInv, Depth, Frame
  <2>3. ~(cstack'[i].task > created')  BY <2>2 DEF BornInv
  <2> QED BY <1>1, <2>2, <2>3, CoroutineAssumption DEF Task
<1>3. \A i, j \in 1 .. Len(cstack') : cstack'[i].task = cstack'[j].task => i = j
  BY DEF StackInv, Depth
<1>4. Len(cstack') \in Buffer  BY <1>1, <1>2, <1>3, DepthBound
<1> QED BY <1>4

LEMMA BufferFacts ==
  ASSUME Types, CheckInv, main # "down"
  PROVE  /\ Inside => checkPoint # NULL /\ checkPoint = Buf(cstack, Len(cstack))
         /\ \A i \in Depth : i \in Nat \ {0} /\ i <= Len(cstack) /\ Buf(cstack, i) \in {0, i}
         /\ NULL \notin Nat
<1>1. NULL \notin Nat  BY CoroutineAssumption
<1>2. \A i \in Depth : i \in Nat \ {0} /\ i <= Len(cstack) /\ Buf(cstack, i) \in {0, i}
  BY StackFacts DEF Depth, Buf
<1>3. Inside => checkPoint = Buf(cstack, Len(cstack)) /\ Len(cstack) \in Depth
  BY StackFacts DEF CheckInv, BufferInv
<1> QED BY <1>1, <1>2, <1>3

(* co::create and co::resume: the new call has a block of its own and      *)
(* remembers the one of its caller.                                        *)
LEMMA PushCheck ==
  ASSUME Types, StackInv, CheckInv, main # "down", main' = main,
         Types', BornInv', StackInv',
         NEW t, NEW f, Pushes(t, f), f.op # "invoke",
         f.prev = IF Inside THEN checkPoint ELSE 0,
         NEW buffers \in [Buffer -> Buffer \cup {Freed}], buffers[0] # Freed,
         \A i \in Depth : buffers[Buf(cstack, i)] = jmpbuf[Buf(cstack, i)],
         checkPoint' = Len(cstack) + 1,
         jmpbuf' = [buffers EXCEPT ![Len(cstack) + 1] = Len(cstack) + 1]
  PROVE  CheckInv'
<1> DEFINE n == Len(cstack) + 1
<1>1. /\ Len(cstack') = n /\ Depth' = Depth \cup {n} /\ n \notin Depth
      /\ \A i \in Depth : cstack'[i] = cstack[i]
      /\ cstack'[n] = f /\ Inside'
  BY PushFacts DEF Pushes
<1>2. n \in Buffer  BY <1>1, PushInBuffer
<1>3. /\ Inside => checkPoint = Buf(cstack, Len(cstack))
      /\ \A i \in Depth : i \in Nat \ {0} /\ i <= Len(cstack) /\ Buf(cstack, i) \in {0, i}
      /\ NULL \notin Nat
  BY BufferFacts
<1>4. Len(cstack) \in Nat /\ n \in Nat \ {0} /\ (Inside <=> Len(cstack) # 0)
      /\ 0 \in Buffer /\ (Inside => Len(cstack) \in Depth)
  BY StackFacts, CoroutineAssumption DEF Buffer
<1>5. checkPoint' \in Buffer \cup {NULL} /\ jmpbuf' \in [Buffer -> Buffer \cup {Freed}]
  BY <1>2
<1>6. jmpbuf'[0] # Freed /\ jmpbuf'[n] = n  BY <1>2, <1>4
<1>7. checkPoint' # NULL  BY <1>3, <1>4
<1>8. Buf(cstack', n) = n  BY <1>1 DEF Buf
<1>9. \A i \in Depth : Buf(cstack', i) = Buf(cstack, i)  BY <1>1 DEF Buf
<1>10. ASSUME NEW i \in Depth'
       PROVE  /\ jmpbuf'[Buf(cstack', i)] = i
              /\ cstack'[i].op # "invoke" => cstack'[i].prev = IF i = 1 THEN 0 ELSE Buf(cstack', i - 1)
  <2>1. CASE i = n
    <3>1. i # 1 => i - 1 = Len(cstack) /\ Inside  BY <2>1, <1>4
    <3>2. i = 1 => ~Inside  BY <2>1, <1>4
    <3> QED BY <2>1, <3>1, <3>2, <1>1, <1>3, <1>4, <1>6, <1>8, <1>9
  <2>2. CASE i \in Depth
    <3>1. jmpbuf[Buf(cstack, i)] = i /\ (cstack[i].op # "invoke" => cstack[i].prev = IF i = 1 THEN 0 ELSE Buf(cstack, i - 1))
      BY <2>2 DEF CheckInv, BufferInv
    <3>2. Buf(cstack, i) # n /\ Buf(cstack, i) \in Nat  BY <2>2, <1>3, <1>4
    <3>3. jmpbuf'[Buf(cstack, i)] = i  BY <2>2, <3>1, <3>2
    <3>4. i # 1 => i - 1 \in Depth  BY <2>2, <1>3, <1>4 DEF Depth
    <3> QED BY <2>2, <3>1, <3>3, <3>4, <1>1, <1>9
  <2> QED BY <1>1, <2>1, <2>2
<1>11. BufferInv'  BY <1>1, <1>6, <1>7, <1>8, <1>10 DEF BufferInv
<1> QED BY <1>5, <1>11 DEF CheckInv

(* A call that returns frees its block and puts back its caller's.         *)
LEMMA PopCheck ==
  ASSUME Types, StackInv, CheckInv, NEW x, NEW h, Leaves(x, h)
  PROVE  CheckInv'
<1>1. /\ Pops(x) /\ Inside /\ main # "down" /\ main' = main
      /\ cstack' = SubSeq(cstack, 1, Len(cstack) - 1)
      /\ checkPoint' = IF Top.op = "invoke" THEN checkPoint ELSE Top.prev
      /\ jmpbuf' = IF Top.op = "invoke" THEN jmpbuf ELSE [jmpbuf EXCEPT ![Len(cstack)] = Freed]
  BY DEF Leaves, Pops
<1>2. /\ Len(cstack') = Len(cstack) - 1 /\ Depth' = Depth \ {Len(cstack)}
      /\ \A i \in Depth' : cstack'[i] = cstack[i]
      /\ Inside' <=> Len(cstack) # 1
  BY <1>1, PopFacts
<1>3. /\ checkPoint # NULL
      /\ \A i \in Depth : i \in Nat \ {0} /\ i <= Len(cstack) /\ Buf(cstack, i) \in {0, i}
      /\ NULL \notin Nat
  BY <1>1, BufferFacts
<1>4. /\ Len(cstack) \in Nat \ {0} /\ Len(cstack) \in Depth /\ Top = cstack[Len(cstack)]
      /\ Top \in Frame
      /\ checkPoint = IF Top.op = "invoke" THEN 0 ELSE Len(cstack)
  BY <1>1, RunningFacts
<1>5. /\ jmpbuf[0] # Freed
      /\ \A i \in Depth :
         /\ jmpbuf[Buf(cstack, i)] = i
         /\ cstack[i].op # "invoke" => cstack[i].prev = IF i = 1 THEN 0 ELSE Buf(cstack, i - 1)
  BY <1>1, <1>3 DEF CheckInv, BufferInv
<1>6. checkPoint' \in Buffer \cup {NULL} /\ jmpbuf' \in [Buffer -> Buffer \cup {Freed}]
  BY <1>1, <1>4 DEF CheckInv, Frame
<1>7. jmpbuf'[0] # Freed  BY <1>1, <1>4, <1>5, CoroutineAssumption DEF CheckInv, Buffer
<1>8. \A i \in Depth' : i \in Depth /\ Buf(cstack', i) = Buf(cstack, i)  BY <1>2 DEF Buf
<1>9. Top.op = "invoke" => Len(cstack) = 1  BY <1>4 DEF StackInv
<1>10. Inside' => Len(cstack) - 1 \in Depth' /\ Buf(cstack, Len(cstack) - 1) \in Nat
  BY <1>2, <1>3, <1>4 DEF Depth
<1>11. IF Inside' THEN checkPoint' = Buf(cstack', Len(cstack')) ELSE checkPoint' = 0
  <2>1. CASE Inside'
    <3>1. Top.op # "invoke" /\ Len(cstack) # 1  BY <2>1, <1>2, <1>9
    <3> QED BY <2>1, <3>1, <1>1, <1>4, <1>5, <1>8, <1>10
  <2>2. CASE ~Inside'  BY <2>2, <1>1, <1>2, <1>4, <1>5
  <2> QED BY <2>1, <2>2
<1>12. checkPoint' # NULL
  <2>1. CASE Inside'
    <3>1. Len(cstack') \in Depth' /\ Buf(cstack, Len(cstack')) \in Nat  BY <2>1, <1>2, <1>10
    <3> QED BY <2>1, <3>1, <1>3, <1>8, <1>11
  <2>2. CASE ~Inside'  BY <2>2, <1>3, <1>11
  <2> QED BY <2>1, <2>2
<1>13. ASSUME NEW i \in Depth'
       PROVE  /\ jmpbuf'[Buf(cstack', i)] = i
              /\ cstack'[i].op # "invoke" => cstack'[i].prev = IF i = 1 THEN 0 ELSE Buf(cstack', i - 1)
  <2>1. i \in Depth /\ i # Len(cstack) /\ Buf(cstack, i) # Len(cstack) /\ Buf(cstack', i) = Buf(cstack, i)
    BY <1>2, <1>3, <1>4, <1>8
  <2>2. jmpbuf'[Buf(cstack, i)] = jmpbuf[Buf(cstack, i)]  BY <2>1, <1>1 DEF CheckInv
  <2>3. i # 1 => i - 1 \in Depth'  BY <2>1, <1>2, <1>3, <1>4 DEF Depth
  <2> QED BY <2>1, <2>2, <2>3, <1>2, <1>5, <1>8
<1>14. BufferInv'
  BY <1>2, <1>7, <1>11, <1>12, <1>13 DEF BufferInv
<1> QED BY <1>6, <1>14 DEF CheckInv

LEMMA CheckStep ==
  ASSUME Types, BornInv, StackInv, ContextInv, CheckInv, [Next]_vars,
         Types', BornInv', StackInv'
  PROVE  CheckInv'
<1> USE CoroutineAssumption
<1>1. 0 \in Buffer /\ NULL \notin Nat /\ Unset # Freed /\ Unset \in Buffer
      /\ checkPoint \in Buffer \cup {NULL} /\ jmpbuf \in [Buffer -> Buffer \cup {Freed}]
  BY DEF Buffer, Unset, Freed, CheckInv
<1>2. base_jmpbuf \in [Buffer -> Buffer \cup {Freed}]  BY <1>1 DEF base_jmpbuf
<1>3. ASSUME main # "down"
      PROVE  /\ base_jmpbuf[0] # Freed
             /\ \A i \in Depth : base_jmpbuf[Buf(cstack, i)] = jmpbuf[Buf(cstack, i)]
             /\ base_checkPoint = IF Inside THEN checkPoint ELSE 0
  <2>1. CASE checkPoint = NULL
    <3>1. ~Inside  BY <1>3, <2>1, BufferFacts
    <3>2. Depth = {}  BY <3>1, StackFacts DEF Depth
    <3> QED BY <2>1, <3>1, <3>2, <1>1 DEF base_jmpbuf, base_checkPoint
  <2>2. CASE checkPoint # NULL
    BY <1>3, <2>2 DEF base_jmpbuf, base_checkPoint, CheckInv, BufferInv
  <2> QED BY <2>1, <2>2
<1>4. ASSUME NEW k, Starts(k) PROVE CheckInv'
  <2> DEFINE n == created + 1
             f == CreateFrame(n)
  <2>1. CoroStart(n, k) /\ created < MaxCreate /\ main' = main  BY <1>4 DEF Starts
  <2>2. main # "down"  BY <1>4 DEF Starts, Create, Scripting
  <2>3. Pushes(n, f)  BY <2>1, StartFacts
  <2>4. f.op # "invoke" /\ f.prev = base_checkPoint  BY DEF CreateFrame
  <2>5. /\ checkPoint' = Len(cstack) + 1
        /\ jmpbuf' = [base_jmpbuf EXCEPT ![Len(cstack) + 1] = Len(cstack) + 1]
    BY <2>1 DEF CoroStart, Enter
  <2> HIDE DEF n, f
  <2> QED BY <2>1, <2>2, <2>3, <2>4, <2>5, <1>2, <1>3, PushCheck
<1>5. ASSUME NEW k \in Cids, Resume(k) PROVE CheckInv'
  <2>1. PICK c : c = cid_context_map[k]  OBVIOUS
  <2> DEFINE t == heap[c].task
             f == ResumeFrame(c)
  <2>2. t \in Task /\ st[t] = "yielded" /\ Pushes(t, f)  BY <1>5, <2>1, ResumeFacts
  <2>3. main # "down" /\ main' = main  BY <1>5 DEF Resume, Scripting
  <2>4. checkPoint # NULL  BY <2>2, <2>3 DEF CheckInv, BufferInv
  <2>5. jmpbuf[0] # Freed /\ checkPoint = IF Inside THEN checkPoint ELSE 0
    BY <2>3, <2>4 DEF CheckInv, BufferInv
  <2>6. f.op # "invoke" /\ f.prev = checkPoint  BY DEF ResumeFrame
  <2>7. /\ checkPoint' = Len(cstack) + 1
        /\ jmpbuf' = [jmpbuf EXCEPT ![Len(cstack) + 1] = Len(cstack) + 1]
    BY <1>5 DEF Resume, Enter
  <2> HIDE DEF t, f
  <2> QED BY <2>2, <2>3, <2>5, <2>6, <2>7, <1>1, PushCheck
<1>6. ASSUME NEW c \in Ctx, Invoke(c) PROVE CheckInv'
  <2> DEFINE f == InvokeFrame(c)
  <2>1. Pushes(heap[c].task, f) /\ checkPoint = 0 /\ Len(cstack) = 0  BY <1>6, InvokeFacts
  <2>2. checkPoint' = 0 /\ jmpbuf' = [jmpbuf EXCEPT ![0] = 1] /\ main' = main
    BY <1>6, <2>1 DEF Invoke, Enter
  <2>3. Len(cstack') = 1 /\ Depth' = {1} /\ Inside' /\ cstack'[1] = f
    BY <2>1, PushFacts DEF Pushes, Depth
  <2>4. f.op = "invoke"  BY DEF InvokeFrame
  <2>5. 1 \in Buffer  BY <2>1, <2>3, PushInBuffer
  <2>6. jmpbuf' \in [Buffer -> Buffer \cup {Freed}] /\ jmpbuf'[0] = 1
    BY <2>2, <2>5, <1>1
  <2>7. Buf(cstack', 1) = 0  BY <2>3, <2>4 DEF Buf
  <2>8. BufferInv'
    <3>1. jmpbuf'[0] # Freed /\ checkPoint' # NULL  BY <2>2, <2>6, <1>1 DEF Freed
    <3> QED BY <3>1, <2>2, <2>3, <2>4, <2>6, <2>7 DEF BufferInv
  <2> QED BY <2>2, <2>6, <2>8, <1>1 DEF CheckInv
<1>7. CASE Yield \/ Park \/ Close
  <2>1. CASE Yield
    <3>1. PICK c \in Ctx : Suspends("yielded", c)  BY <2>1, YieldFacts
    <3> QED BY <3>1, PopCheck DEF Suspends
  <2>2. CASE Park
    <3>1. PICK c \in Ctx : Suspends("parked", c)  BY <2>2, ParkFacts
    <3> QED BY <3>1, PopCheck DEF Suspends
  <2>3. CASE Close
    <3>1. Leaves("closed", heap)  BY <2>3, CloseFacts
    <3> QED BY <3>1, PopCheck
  <2> QED BY <1>7, <2>1, <2>2, <2>3
<1>8. ASSUME NEW k, Refuses(k) PROVE CheckInv'
  <2>1. main # "down" /\ main' = main  BY <1>8 DEF Refuses, Create, Scripting
  <2>2. /\ checkPoint' = base_checkPoint /\ jmpbuf' = base_jmpbuf /\ cstack' = cstack
        /\ created < MaxCreate /\ st' = [st EXCEPT ![created + 1] = "refused"]
    BY <1>8 DEF Refuses, CoroLimit
  <2>3. checkPoint' \in Buffer \cup {NULL} /\ jmpbuf' \in [Buffer -> Buffer \cup {Freed}]
    BY <2>2, <1>1, <1>2 DEF base_checkPoint
  <2>4. checkPoint' # NULL  BY <2>2, <1>1 DEF base_checkPoint
  <2>5. BufferInv'
    <3>1. Inside' = Inside /\ Depth' = Depth  BY <2>2 DEF Inside, Depth
    <3>2. ASSUME NEW i \in Depth'
       PROVE  /\ jmpbuf'[Buf(cstack', i)] = i
              /\ cstack'[i].op # "invoke" => cstack'[i].prev = IF i = 1 THEN 0 ELSE Buf(cstack', i - 1)
      BY <3>1, <2>1, <2>2, <1>3 DEF CheckInv, BufferInv
    <3>3. IF Inside' THEN checkPoint' = Buf(cstack', Len(cstack')) ELSE checkPoint' = 0
      BY <3>1, <2>1, <2>2, <1>3 DEF CheckInv, BufferInv
    <3>4. jmpbuf'[0] # Freed  BY <2>1, <2>2, <1>3
    <3> QED BY <2>4, <3>2, <3>3, <3>4 DEF BufferInv
  <2> QED BY <2>3, <2>5 DEF CheckInv
<1>9. CASE Idles
  <2>1. checkPoint' = checkPoint /\ jmpbuf' \in [Buffer -> Buffer \cup {Freed}]
    BY <1>9, <1>1 DEF Idles
  <2>2. BufferInv'
    <3>1. CASE main' # "down"
      <4>1. main # "down" /\ UNCHANGED <<jmpbuf, cstack, checkPoint, st>>  BY <1>9, <3>1 DEF Idles
      <4> QED BY <4>1 DEF CheckInv, BufferInv, Inside, Depth, Buf
    <3>2. CASE main' = "down"  BY <3>2 DEF BufferInv
    <3> QED BY <3>1, <3>2
  <2> QED BY <2>1, <2>2, <1>1 DEF CheckInv
<1> QED BY StepCases, <1>4, <1>5, <1>6, <1>7, <1>8, <1>9
-----------------------------------------------------------------------------
(* A coroutine that runs is out of the event table and its context is held *)
(* by the call that runs it.                                               *)
LEMMA PushContext ==
  ASSUME Types, StackInv, ContextInv, NEW t, NEW f, Pushes(t, f),
         IF f.op = "create" THEN f.context = NULL /\ st[t] = "unborn"
         ELSE f.context \in Ctx /\ heap[f.context] = Own(t),
         parked' = parked \ {f.context},
         UNCHANGED <<heap, cid_context_map>>,
         \A u \in Task \ {t} : cid'[u] = cid[u]
  PROVE  ContextInv'
<1> USE CoroutineAssumption
<1>1. /\ t \in Task /\ f \in Frame /\ f.task = t /\ st[t] # "live"
      /\ st' = [st EXCEPT ![t] = "live"]
  BY DEF Pushes
<1>2. /\ Depth' = Depth \cup {Len(cstack) + 1}
      /\ \A i \in Depth : cstack'[i] = cstack[i]
      /\ cstack'[Len(cstack) + 1] = f
  BY PushFacts DEF Pushes
<1>3. st'[t] = "live" /\ \A u \in Task \ {t} : st'[u] = st[u]
  BY <1>1 DEF Types
<1>4. HeldInv'
  BY <1>1, <1>2 DEF ContextInv, HeldInv
<1>5. ASSUME NEW c \in Ctx, heap[c] # NULL, heap[c].task = t PROVE f.op # "create" /\ c = f.context
  BY <1>5 DEF ContextInv, OwnerInv
<1>6. OwnerInv'
  <2> SUFFICES ASSUME NEW c \in Ctx, heap[c] # NULL
               PROVE  /\ heap[c].task \in Task
                      /\ heap[c] = Own(heap[c].task)
                      /\ st'[heap[c].task] \in {"live", "yielded", "parked"}
                      /\ st'[heap[c].task] = "live" => \E i \in Depth' : cstack'[i].context = c
                      /\ \A d \in Ctx : heap[d] = heap[c] => d = c
    BY DEF OwnerInv
  <2>1. /\ heap[c].task \in Task
        /\ heap[c] = Own(heap[c].task)
        /\ st[heap[c].task] \in {"live", "yielded", "parked"}
        /\ st[heap[c].task] = "live" => \E i \in Depth : cstack[i].context = c
        /\ \A d \in Ctx : heap[d] = heap[c] => d = c
    BY DEF ContextInv, OwnerInv
  <2>2. CASE heap[c].task = t
    <3>1. c = f.context  BY <2>2, <1>5
    <3> QED BY <2>1, <2>2, <3>1, <1>2, <1>3
  <2>3. CASE heap[c].task # t
    BY <2>1, <2>3, <1>2, <1>3
  <2> QED BY <2>2, <2>3
<1>7. YieldedInv'
  <2> SUFFICES ASSUME NEW u \in Task, st'[u] = "yielded"
               PROVE  /\ cid'[u] \in Cids
                      /\ cid_context_map[cid'[u]] \in Ctx
                      /\ heap[cid_context_map[cid'[u]]] = Own(u)
    BY DEF YieldedInv
  <2>1. u # t /\ st[u] = "yielded" /\ cid'[u] = cid[u]  BY <1>3
  <2> QED BY <2>1 DEF ContextInv, YieldedInv
<1>8. ParkedInv'
  <2>1. ASSUME NEW u \in Task, st'[u] = "parked" PROVE \E c \in parked' : heap'[c] = Own(u)
    <3>1. u # t /\ st[u] = "parked"  BY <2>1, <1>3
    <3>2. PICK c \in parked : heap[c] = Own(u)  BY <3>1 DEF ContextInv, ParkedInv
    <3>3. c # f.context
      <4>1. CASE f.op = "create"
        <5>1. c \in Ctx  BY <3>2 DEF Types
        <5> QED BY <4>1, <5>1
      <4>2. CASE f.op # "create"
        <5>1. Own(u).task = u /\ Own(t).task = t  BY <1>1, OwnFacts
        <5> QED BY <4>2, <5>1, <3>1, <3>2
      <4> QED BY <4>1, <4>2
    <3> QED BY <3>2, <3>3
  <2>2. ASSUME NEW c \in parked' PROVE heap'[c] # NULL /\ st'[heap'[c].task] = "parked"
    <3>1. c \in Ctx /\ heap[c] # NULL /\ st[heap[c].task] = "parked" /\ c # f.context
      BY <2>2 DEF ContextInv, ParkedInv, Types
    <3>2. heap[c].task \in Task /\ heap[c].task # t
      BY <3>1, <1>5 DEF ContextInv, OwnerInv
    <3> QED BY <3>1, <3>2, <1>3
  <2> QED BY <2>1, <2>2 DEF ParkedInv
<1> QED BY <1>4, <1>6, <1>7, <1>8 DEF ContextInv

(* When a coroutine leaves, the only context it had is freed with the call *)
(* that ran it, and no other block is touched.                             *)
LEMMA LeaveBlocks ==
  ASSUME Types, StackInv, ContextInv, CheckInv, NEW x, NEW h, Leaves(x, h),
         h \in [Ctx -> Register \cup {NULL}], NEW d \in Ctx, h[d] = heap[d]
  PROVE  /\ heap'[d] # NULL => heap'[d] = heap[d] /\ heap[d].task # Top.task
         /\ heap[d] # NULL /\ heap[d].task # Top.task => heap'[d] = heap[d]
<1> USE CoroutineAssumption
<1>1. Inside /\ main # "down"  BY DEF Leaves, Pops
<1>2. /\ Top \in Frame /\ Top.task \in Task /\ st[Top.task] = "live"
      /\ Len(cstack) \in Depth /\ Top = cstack[Len(cstack)]
  BY <1>1, RunningFacts
<1>3. IF Top.op = "create" THEN Top.context = NULL
      ELSE Top.context \in Ctx /\ heap[Top.context] = Own(Top.task)
  BY <1>2 DEF ContextInv, HeldInv
<1>4. heap' = IF Top.op = "create" THEN h ELSE [h EXCEPT ![Top.context] = NULL]
  BY DEF Leaves
<1>5. heap'[d] # NULL => heap'[d] = heap[d] /\ heap[d].task # Top.task
  <2> SUFFICES ASSUME heap'[d] # NULL PROVE heap'[d] = heap[d] /\ heap[d].task # Top.task
    OBVIOUS
  <2>1. heap'[d] = heap[d] /\ (Top.op # "create" => d # Top.context)
    BY <1>3, <1>4
  <2>2. ASSUME heap[d].task = Top.task PROVE FALSE
    <3>1. heap[d] = Own(Top.task)  BY <2>1, <2>2 DEF ContextInv, OwnerInv
    <3>2. PICK i \in Depth : cstack[i].context = d
      BY <1>2, <2>1, <2>2 DEF ContextInv, OwnerInv
    <3>3. heap[d] = Own(cstack[i].task) /\ cstack[i].op # "create"
      BY <3>2 DEF ContextInv, HeldInv
    <3>4. cstack[i].task \in Task  BY StackFacts DEF Frame
    <3>5. cstack[i].task = Top.task
      <4>1. Own(cstack[i].task).task = cstack[i].task  BY <3>4, OwnFacts
      <4>2. Own(Top.task).task = Top.task  BY <1>2, OwnFacts
      <4> QED BY <3>1, <3>3, <4>1, <4>2
    <3>6. i = Len(cstack)  BY <3>5, <1>2 DEF StackInv
    <3> QED BY <3>2, <3>3, <3>6, <1>2, <2>1
  <2> QED BY <2>1, <2>2
<1>6. heap[d] # NULL /\ heap[d].task # Top.task => heap'[d] = heap[d]
  BY <1>2, <1>3, <1>4, OwnFacts
<1> QED BY <1>5, <1>6

LEMMA PopHeld ==
  ASSUME Types, StackInv, ContextInv, CheckInv, NEW x, NEW h, Leaves(x, h),
         h \in [Ctx -> Register \cup {NULL}],
         \A d \in Ctx : heap[d] # NULL => h[d] = heap[d]
  PROVE  /\ HeldInv'
         /\ \A u \in Task \ {Top.task} : st'[u] = st[u]
         /\ st'[Top.task] = x
         /\ \A d \in Ctx : /\ heap[d] # NULL /\ heap[d].task # Top.task
                           /\ st[heap[d].task] = "live"
                           => \E i \in Depth' : cstack'[i].context = d
<1>1. Inside /\ main # "down" /\ st' = [st EXCEPT ![Top.task] = x]
      /\ cstack' = SubSeq(cstack, 1, Len(cstack) - 1)
  BY DEF Leaves, Pops
<1>2. /\ Top \in Frame /\ Top.task \in Task /\ st[Top.task] = "live"
      /\ Len(cstack) \in Depth /\ Top = cstack[Len(cstack)]
  BY <1>1, RunningFacts
<1>3. /\ Depth' = Depth \ {Len(cstack)} /\ \A i \in Depth' : cstack'[i] = cstack[i]
  BY <1>1, PopFacts
<1>4. ASSUME NEW i \in Depth'
      PROVE  IF cstack'[i].op = "create" THEN cstack'[i].context = NULL
             ELSE cstack'[i].context \in Ctx /\ heap'[cstack'[i].context] = Own(cstack'[i].task)
  <2>1. i \in Depth /\ cstack'[i] = cstack[i] /\ cstack[i].task \in Task
    BY <1>3, StackFacts DEF Frame
  <2>2. cstack[i].task # Top.task  BY <1>2, <1>3, <2>1 DEF StackInv
  <2>3. CASE cstack[i].op # "create"
    <3> DEFINE d == cstack[i].context
    <3>1. d \in Ctx /\ heap[d] = Own(cstack[i].task)  BY <2>1, <2>3 DEF ContextInv, HeldInv
    <3>2. heap[d] # NULL /\ heap[d].task # Top.task  BY <2>1, <2>2, <3>1, OwnFacts
    <3>3. heap'[d] = heap[d]  BY <3>1, <3>2, LeaveBlocks
    <3> QED BY <2>1, <2>3, <3>1, <3>3
  <2>4. CASE cstack[i].op = "create"  BY <2>1, <2>4 DEF ContextInv, HeldInv
  <2> QED BY <2>3, <2>4
<1>5. HeldInv'  BY <1>4 DEF HeldInv
<1>6. (\A u \in Task \ {Top.task} : st'[u] = st[u]) /\ st'[Top.task] = x
  BY <1>1, <1>2 DEF Types
<1>7. ASSUME NEW d \in Ctx, heap[d] # NULL, heap[d].task # Top.task, st[heap[d].task] = "live"
      PROVE  \E i \in Depth' : cstack'[i].context = d
  <2>1. PICK i \in Depth : cstack[i].context = d  BY <1>7 DEF ContextInv, OwnerInv
  <2>2. i # Len(cstack)
    <3> SUFFICES ASSUME i = Len(cstack) PROVE FALSE  OBVIOUS
    <3>1. Top.op # "create" /\ heap[d] = Own(Top.task)
      BY <1>2, <2>1, CoroutineAssumption DEF ContextInv, HeldInv
    <3>2. Own(Top.task).task = Top.task  BY <1>2, OwnFacts
    <3> QED BY <3>1, <3>2, <1>7
  <2> QED BY <2>1, <2>2, <1>3
<1> QED BY <1>5, <1>6, <1>7

(* A suspension: the coroutine's registers are in the new block c alone.   *)
LEMMA SuspendContext ==
  ASSUME Types, StackInv, ContextInv, CheckInv, CidsInv, NEW x, NEW c, Suspends(x, c),
         \/ /\ x = "yielded" /\ cid[Top.task] \in Cids
            /\ cid_context_map' = [cid_context_map EXCEPT ![cid[Top.task]] = c]
            /\ UNCHANGED parked
         \/ x = "parked" /\ parked' = parked \cup {c} /\ UNCHANGED cid_context_map
  PROVE  ContextInv'
<1> DEFINE t == Top.task
           h == [heap EXCEPT ![c] = Own(t)]
<1>1. /\ c \in Ctx /\ heap[c] = NULL /\ Leaves(x, h) /\ x \in {"yielded", "parked"} /\ cid' = cid
      /\ heap' = IF Top.op = "create" THEN h ELSE [h EXCEPT ![Top.context] = NULL]
  BY DEF Suspends, Leaves
<1>2. /\ Top \in Frame /\ t \in Task /\ st[t] = "live"
      /\ Len(cstack) \in Depth /\ Top = cstack[Len(cstack)]
  BY <1>1, RunningFacts DEF Leaves, Pops
<1>3. Own(t) \in Register /\ Own(t) # NULL /\ Own(t).task = t  BY <1>2, OwnFacts
<1>4. h \in [Ctx -> Register \cup {NULL}] /\ h[c] = Own(t) /\ \A d \in Ctx \ {c} : h[d] = heap[d]
  BY <1>1, <1>3 DEF Types
<1>5. heap'[c] = Own(t)
  <2>1. Top.op # "create" => heap[Top.context] = Own(t)  BY <1>2 DEF ContextInv, HeldInv
  <2>2. Top.op # "create" => Top.context # c  BY <2>1, <1>1, <1>3
  <2> QED BY <2>2, <1>1, <1>4
<1> HIDE DEF h, t
<1>6. ASSUME NEW d \in Ctx \ {c}, heap'[d] # NULL PROVE heap'[d] = heap[d] /\ heap[d].task # t
  BY <1>1, <1>4, <1>6, LeaveBlocks DEF t
<1>7. ASSUME NEW d \in Ctx, heap[d] # NULL, heap[d].task # t PROVE heap'[d] = heap[d]
  BY <1>1, <1>4, <1>7, LeaveBlocks DEF t
<1>8. /\ HeldInv'
      /\ \A u \in Task \ {t} : st'[u] = st[u]
      /\ st'[t] = x
      /\ \A d \in Ctx : heap[d] # NULL /\ heap[d].task # t /\ st[heap[d].task] = "live"
           => \E i \in Depth' : cstack'[i].context = d
  <2>1. \A d \in Ctx : heap[d] # NULL => h[d] = heap[d]  BY <1>1, <1>4
  <2> QED BY <2>1, <1>1, <1>4, PopHeld DEF t
<1>9. OwnerInv'
  <2> SUFFICES ASSUME NEW d \in Ctx, heap'[d] # NULL
               PROVE  /\ heap'[d].task \in Task
                      /\ heap'[d] = Own(heap'[d].task)
                      /\ st'[heap'[d].task] \in {"live", "yielded", "parked"}
                      /\ st'[heap'[d].task] = "live" => \E i \in Depth' : cstack'[i].context = d
                      /\ \A e \in Ctx : heap'[e] = heap'[d] => e = d
    BY DEF OwnerInv
  <2>1. CASE d = c
    <3>1. ASSUME NEW e \in Ctx, heap'[e] = Own(t) PROVE e = c
      BY <3>1, <1>3, <1>6
    <3> QED BY <2>1, <3>1, <1>1, <1>2, <1>3, <1>5, <1>8
  <2>2. CASE d # c
    <3>1. heap'[d] = heap[d] /\ heap[d] # NULL /\ heap[d].task # t  BY <2>2, <1>6
    <3>2. /\ heap[d].task \in Task /\ heap[d] = Own(heap[d].task)
          /\ st[heap[d].task] \in {"live", "yielded", "parked"}
          /\ \A e \in Ctx : heap[e] = heap[d] => e = d
      BY <3>1 DEF ContextInv, OwnerInv
    <3>3. st'[heap[d].task] = st[heap[d].task]  BY <3>1, <3>2, <1>8
    <3>4. ASSUME NEW e \in Ctx, heap'[e] = heap[d] PROVE e = d
      <4>1. e # c  BY <3>1, <3>4, <1>3, <1>5
      <4>2. heap'[e] = heap[e]  BY <4>1, <3>1, <3>4, <1>6
      <4> QED BY <4>2, <3>2, <3>4
    <3> QED BY <3>1, <3>2, <3>3, <3>4, <1>8
  <2> QED BY <2>1, <2>2
<1>10. YieldedInv'
  <2> SUFFICES ASSUME NEW u \in Task, st'[u] = "yielded"
               PROVE  /\ cid[u] \in Cids
                      /\ cid_context_map'[cid[u]] \in Ctx
                      /\ heap'[cid_context_map'[cid[u]]] = Own(u)
    BY <1>1 DEF YieldedInv
  <2>1. CASE u = t
    BY <2>1, <1>1, <1>5, <1>8 DEF t, Types
  <2>2. CASE u # t
    <3> DEFINE d == cid_context_map[cid[u]]
    <3>1. st[u] = "yielded"  BY <2>2, <1>8
    <3>2. cid[u] \in Cids /\ d \in Ctx /\ heap[d] = Own(u)  BY <3>1 DEF ContextInv, YieldedInv
    <3>3. heap[d] # NULL /\ heap[d].task # t  BY <3>2, <2>2, OwnFacts
    <3>4. heap'[d] = Own(u)  BY <3>2, <3>3, <1>7
    <3>5. cid_context_map'[cid[u]] = d
      <4>1. CASE UNCHANGED cid_context_map  BY <4>1
      <4>2. CASE cid[t] \in Cids /\ cid_context_map' = [cid_context_map EXCEPT ![cid[t]] = c]
        <5>1. u \in Live /\ t \in Live /\ cid[t] # NoCid
          BY <3>1, <1>2, <4>2, NCidAssumption DEF Live, Cids, NoCid
        <5>2. cid[u] # cid[t]  BY <5>1, <2>2 DEF CidsInv, UniqueCid
        <5> QED BY <4>2, <5>2, <3>2 DEF Types
      <4> QED BY <4>1, <4>2 DEF t
    <3> QED BY <3>2, <3>4, <3>5
  <2> QED BY <2>1, <2>2
<1>11. ParkedInv'
  <2>1. ASSUME NEW u \in Task, st'[u] = "parked" PROVE \E d \in parked' : heap'[d] = Own(u)
    <3>1. CASE u = t
      <4>1. x = "parked"  BY <2>1, <3>1, <1>8
      <4> QED BY <3>1, <4>1, <1>5
    <3>2. CASE u # t
      <4>1. st[u] = "parked"  BY <2>1, <3>2, <1>8
      <4>2. PICK d \in parked : heap[d] = Own(u)  BY <4>1 DEF ContextInv, ParkedInv
      <4>3. d \in Ctx /\ heap[d] # NULL /\ heap[d].task # t  BY <4>2, <3>2, OwnFacts DEF Types
      <4> QED BY <4>2, <4>3, <1>7
    <3> QED BY <3>1, <3>2
  <2>2. ASSUME NEW d \in parked' PROVE heap'[d] # NULL /\ st'[heap'[d].task] = "parked"
    <3>1. CASE d = c /\ x = "parked"  BY <3>1, <1>3, <1>5, <1>8
    <3>2. CASE d \in parked
      <4>1. d \in Ctx /\ heap[d] # NULL /\ st[heap[d].task] = "parked"
        BY <3>2 DEF ContextInv, ParkedInv, Types
      <4>2. heap[d].task \in Task /\ heap[d].task # t  BY <4>1, <1>2 DEF ContextInv, OwnerInv
      <4> QED BY <4>1, <4>2, <1>7, <1>8
    <3> QED BY <2>2, <3>1, <3>2
  <2> QED BY <2>1, <2>2 DEF ParkedInv
<1> QED BY <1>8, <1>9, <1>10, <1>11 DEF ContextInv

(* An end: the coroutine has no context left.                              *)
LEMMA CloseContext ==
  ASSUME Types, StackInv, ContextInv, CheckInv, Leaves("closed", heap),
         UNCHANGED <<cid_context_map, parked>>
  PROVE  ContextInv'
<1> DEFINE t == Top.task
<1>1. cid' = cid /\ heap \in [Ctx -> Register \cup {NULL}]  BY DEF Leaves, Types
<1>2. t \in Task /\ st[t] = "live"  BY RunningFacts DEF Leaves, Pops
<1>3. ASSUME NEW d \in Ctx, heap'[d] # NULL PROVE heap'[d] = heap[d] /\ heap[d].task # t
  BY <1>1, <1>3, LeaveBlocks
<1>4. ASSUME NEW d \in Ctx, heap[d] # NULL, heap[d].task # t PROVE heap'[d] = heap[d]
  BY <1>1, <1>4, LeaveBlocks
<1>5. /\ HeldInv'
      /\ \A u \in Task \ {t} : st'[u] = st[u]
      /\ st'[t] = "closed"
      /\ \A d \in Ctx : heap[d] # NULL /\ heap[d].task # t /\ st[heap[d].task] = "live"
           => \E i \in Depth' : cstack'[i].context = d
  BY <1>1, PopHeld
<1> HIDE DEF t
<1>6. OwnerInv'
  <2> SUFFICES ASSUME NEW d \in Ctx, heap'[d] # NULL
               PROVE  /\ heap'[d].task \in Task
                      /\ heap'[d] = Own(heap'[d].task)
                      /\ st'[heap'[d].task] \in {"live", "yielded", "parked"}
                      /\ st'[heap'[d].task] = "live" => \E i \in Depth' : cstack'[i].context = d
                      /\ \A e \in Ctx : heap'[e] = heap'[d] => e = d
    BY DEF OwnerInv
  <2>1. heap'[d] = heap[d] /\ heap[d] # NULL /\ heap[d].task # t  BY <1>3
  <2>2. /\ heap[d].task \in Task /\ heap[d] = Own(heap[d].task)
        /\ st[heap[d].task] \in {"live", "yielded", "parked"}
        /\ \A e \in Ctx : heap[e] = heap[d] => e = d
    BY <2>1 DEF ContextInv, OwnerInv
  <2>3. st'[heap[d].task] = st[heap[d].task]  BY <2>1, <2>2, <1>5
  <2>4. ASSUME NEW e \in Ctx, heap'[e] = heap[d] PROVE e = d
    BY <2>1, <2>2, <2>4, <1>3
  <2> QED BY <2>1, <2>2, <2>3, <2>4, <1>5
<1>7. YieldedInv'
  <2> SUFFICES ASSUME NEW u \in Task, st'[u] = "yielded"
               PROVE  /\ cid[u] \in Cids
                      /\ cid_context_map[cid[u]] \in Ctx
                      /\ heap'[cid_context_map[cid[u]]] = Own(u)
    BY <1>1 DEF YieldedInv
  <2> DEFINE d == cid_context_map[cid[u]]
  <2>1. u # t /\ st[u] = "yielded"  BY <1>5
  <2>2. cid[u] \in Cids /\ d \in Ctx /\ heap[d] = Own(u)  BY <2>1 DEF ContextInv, YieldedInv
  <2>3. heap[d] # NULL /\ heap[d].task # t  BY <2>1, <2>2, OwnFacts
  <2> QED BY <2>2, <2>3, <1>4
<1>8. ParkedInv'
  <2>1. ASSUME NEW u \in Task, st'[u] = "parked" PROVE \E d \in parked : heap'[d] = Own(u)
    <3>1. u # t /\ st[u] = "parked"  BY <2>1, <1>5
    <3>2. PICK d \in parked : heap[d] = Own(u)  BY <3>1 DEF ContextInv, ParkedInv
    <3>3. d \in Ctx /\ heap[d] # NULL /\ heap[d].task # t  BY <3>1, <3>2, OwnFacts DEF Types
    <3> QED BY <3>2, <3>3, <1>4
  <2>2. ASSUME NEW d \in parked PROVE heap'[d] # NULL /\ st'[heap'[d].task] = "parked"
    <3>1. d \in Ctx /\ heap[d] # NULL /\ st[heap[d].task] = "parked"
      BY DEF ContextInv, ParkedInv, Types
    <3>2. heap[d].task \in Task /\ heap[d].task # t  BY <3>1, <1>2 DEF ContextInv, OwnerInv
    <3> QED BY <3>1, <3>2, <1>4, <1>5
  <2> QED BY <2>1, <2>2 DEF ParkedInv
<1> QED BY <1>5, <1>6, <1>7, <1>8 DEF ContextInv

LEMMA ContextStep ==
  ASSUME Types, BornInv, StackInv, ContextInv, CheckInv, CidsInv, [Next]_vars
  PROVE  ContextInv'
<1> USE CoroutineAssumption
<1>1. NULL \notin parked  BY DEF Types
<1>2. ASSUME NEW k, Starts(k) PROVE ContextInv'
  <2> DEFINE n == created + 1
             f == CreateFrame(n)
  <2>1. CoroStart(n, k) /\ created < MaxCreate /\ UNCHANGED <<heap, cid_context_map, parked>>
    BY <1>2 DEF Starts
  <2>2. n \in Task /\ st[n] = "unborn" /\ Pushes(n, f)  BY <2>1, StartFacts
  <2>3. f.op = "create" /\ f.context = NULL  BY DEF CreateFrame
  <2>4. cid' = [cid EXCEPT ![n] = k]  BY <2>1 DEF CoroStart
  <2>5. \A u \in Task \ {n} : cid'[u] = cid[u]  BY <2>4 DEF Types
  <2> HIDE DEF n, f
  <2>6. parked' = parked \ {f.context}  BY <2>1, <2>3, <1>1
  <2> QED BY <2>1, <2>2, <2>3, <2>5, <2>6, PushContext
<1>3. ASSUME NEW k \in Cids, Resume(k) PROVE ContextInv'
  <2>1. PICK c : c = cid_context_map[k]  OBVIOUS
  <2> DEFINE t == heap[c].task
             f == ResumeFrame(c)
  <2>2. /\ c \in Ctx /\ t \in Task /\ heap[c] = Own(t) /\ st[t] = "yielded" /\ Pushes(t, f)
    BY <1>3, <2>1, ResumeFacts
  <2>3. f.op # "create" /\ f.context = c  BY DEF ResumeFrame
  <2>4. UNCHANGED <<heap, cid_context_map, parked>> /\ cid' = cid  BY <1>3 DEF Resume
  <2>5. c \notin parked  BY <2>2 DEF ContextInv, ParkedInv
  <2> HIDE DEF t, f
  <2>6. parked' = parked \ {f.context}  BY <2>3, <2>4, <2>5
  <2> QED BY <2>2, <2>3, <2>4, <2>6, PushContext
<1>4. ASSUME NEW c \in Ctx, Invoke(c) PROVE ContextInv'
  <2> DEFINE t == heap[c].task
             f == InvokeFrame(c)
  <2>1. t \in Task /\ heap[c] = Own(t) /\ Pushes(t, f)  BY <1>4, InvokeFacts
  <2>2. f.op # "create" /\ f.context = c  BY DEF InvokeFrame
  <2>3. UNCHANGED <<heap, cid_context_map>> /\ cid' = cid /\ parked' = parked \ {c}
    BY <1>4 DEF Invoke
  <2> HIDE DEF t, f
  <2> QED BY <2>1, <2>2, <2>3, PushContext
<1>5. CASE Yield
  <2>1. PICK c \in Ctx :
           /\ Suspends("yielded", c)
           /\ cid[Top.task] \in Cids
           /\ cid_context_map' = [cid_context_map EXCEPT ![cid[Top.task]] = c]
           /\ UNCHANGED parked
    BY <1>5, YieldFacts
  <2> QED BY <2>1, SuspendContext
<1>6. CASE Park
  <2>1. PICK c \in Ctx :
           Suspends("parked", c) /\ parked' = parked \cup {c} /\ UNCHANGED cid_context_map
    BY <1>6, ParkFacts
  <2> QED BY <2>1, SuspendContext
<1>7. CASE Close
  BY <1>7, CloseFacts, CloseContext
<1>8. ASSUME NEW k, Refuses(k) PROVE ContextInv'
  <2> DEFINE n == created + 1
  <2>1. /\ created < MaxCreate /\ st' = [st EXCEPT ![n] = "refused"]
        /\ UNCHANGED <<heap, cid_context_map, parked, cid, cstack>>
    BY <1>8 DEF Refuses, CoroLimit
  <2>2. n \in Task /\ st[n] = "unborn"  BY <2>1 DEF Types, Task, BornInv
  <2>3. st'[n] = "refused" /\ \A u \in Task \ {n} : st'[u] = st[u]  BY <2>1, <2>2 DEF Types
  <2> HIDE DEF n
  <2>4. HeldInv'  BY <2>1 DEF ContextInv, HeldInv, Depth
  <2>5. OwnerInv'
    <3>1. ASSUME NEW c \in Ctx, heap[c] # NULL
          PROVE  /\ heap[c].task \in Task /\ heap[c] = Own(heap[c].task)
                 /\ st'[heap[c].task] = st[heap[c].task]
                 /\ st[heap[c].task] \in {"live", "yielded", "parked"}
                 /\ st[heap[c].task] = "live" => \E i \in Depth : cstack[i].context = c
                 /\ \A d \in Ctx : heap[d] = heap[c] => d = c
      BY <3>1, <2>2, <2>3 DEF ContextInv, OwnerInv
    <3> QED BY <3>1, <2>1 DEF OwnerInv, Depth
  <2>6. YieldedInv'  BY <2>1, <2>2, <2>3 DEF ContextInv, YieldedInv
  <2>7. ParkedInv'
    <3>1. ASSUME NEW c \in parked PROVE st'[heap[c].task] = "parked" /\ heap[c] # NULL
      BY <2>2, <2>3 DEF ContextInv, ParkedInv, OwnerInv, Types
    <3>2. \A u \in Task : st'[u] = "parked" => st[u] = "parked"  BY <2>3
    <3> QED BY <3>1, <3>2, <2>1 DEF ContextInv, ParkedInv
  <2> QED BY <2>4, <2>5, <2>6, <2>7 DEF ContextInv
<1>9. CASE Idles
  <2>1. UNCHANGED <<heap, cid_context_map, parked, cid, cstack, st>>  BY <1>9 DEF Idles
  <2> QED BY <2>1 DEF ContextInv, HeldInv, OwnerInv, YieldedInv, ParkedInv, Depth
<1> QED BY StepCases, <1>2, <1>3, <1>4, <1>5, <1>6, <1>7, <1>8, <1>9
-----------------------------------------------------------------------------
(* Who is alive: a start adds the new task, an end removes the running     *)
(* one, and nothing else changes the set, the cids or the count.           *)
LEMMA StartLive ==
  ASSUME Types, BornInv, StackInv, CheckInv, NEW k, Starts(k)
  PROVE  /\ created + 1 \in Task \ Live
         /\ Live' = Live \cup {created + 1}
         /\ ClosedWithoutCid' = ClosedWithoutCid
         /\ cid' = [cid EXCEPT ![created + 1] = k]
         /\ cid'[created + 1] = k /\ \A u \in Task \ {created + 1} : cid'[u] = cid[u]
         /\ coro_num' = coro_num + 1
<1> DEFINE n == created + 1
<1>1. CoroStart(n, k) /\ created < MaxCreate  BY DEF Starts
<1>2. n \in Task /\ st[n] = "unborn" /\ st' = [st EXCEPT ![n] = "live"]
  BY <1>1, StartFacts DEF Pushes
<1>3. cid' = [cid EXCEPT ![n] = k] /\ coro_num' = coro_num + 1  BY <1>1 DEF CoroStart
<1> HIDE DEF n
<1>4. cid'[n] = k /\ \A u \in Task \ {n} : cid'[u] = cid[u]  BY <1>2, <1>3 DEF Types
<1>5. st'[n] = "live" /\ \A u \in Task \ {n} : st'[u] = st[u]  BY <1>2 DEF Types
<1>6. n \notin Live /\ Live' = Live \cup {n}  BY <1>2, <1>5 DEF Live
<1>7. ClosedWithoutCid' = ClosedWithoutCid  BY <1>2, <1>4, <1>5 DEF ClosedWithoutCid
<1> QED BY <1>2, <1>3, <1>4, <1>6, <1>7 DEF n

LEMMA CloseLive ==
  ASSUME Types, StackInv, CheckInv, Close
  PROVE  /\ Top.task \in Live
         /\ Live' = Live \ {Top.task}
         /\ ClosedWithoutCid' = ClosedWithoutCid \cup (IF cid[Top.task] = NoCid THEN {Top.task} ELSE {})
         /\ Top.task \notin ClosedWithoutCid
         /\ cid' = cid
         /\ coro_num' = coro_num - 1
<1> DEFINE t == Top.task
<1>1. Leaves("closed", heap) /\ coro_num' = coro_num - 1  BY CloseFacts
<1>2. cid' = cid /\ st' = [st EXCEPT ![t] = "closed"] /\ Inside /\ main # "down"
  BY <1>1 DEF Leaves, Pops
<1>3. t \in Task /\ st[t] = "live"  BY <1>2, RunningFacts
<1> HIDE DEF t
<1>4. st'[t] = "closed" /\ \A u \in Task \ {t} : st'[u] = st[u]  BY <1>2, <1>3 DEF Types
<1>5. t \in Live /\ Live' = Live \ {t}  BY <1>3, <1>4 DEF Live
<1>6. /\ t \notin ClosedWithoutCid
      /\ ClosedWithoutCid' = ClosedWithoutCid \cup (IF cid[t] = NoCid THEN {t} ELSE {})
  BY <1>2, <1>3, <1>4 DEF ClosedWithoutCid
<1> QED BY <1>1, <1>2, <1>5, <1>6 DEF t

SameLive ==
  /\ Live' = Live
  /\ ClosedWithoutCid' = ClosedWithoutCid
  /\ cid' = cid
  /\ coro_num' = coro_num

(* ... and only co::create takes a cid.                                    *)
SameCids == UNCHANGED cidvars \/ \E k : Refuses(k)

LEMMA OtherLive ==
  ASSUME Types, BornInv, StackInv, ContextInv, CheckInv, [Next]_vars,
         ~ \E k : Starts(k), ~Close
  PROVE  SameLive /\ SameCids
<1>0. ASSUME NEW t \in Task, NEW x, st' = [st EXCEPT ![t] = x], cid' = cid, coro_num' = coro_num,
             \/ st[t] \in {"live", "yielded", "parked"} /\ x \in {"live", "yielded", "parked"}
             \/ st[t] = "unborn" /\ x = "refused"
      PROVE  SameLive
  <2>1. st'[t] = x /\ \A u \in Task \ {t} : st'[u] = st[u]  BY <1>0 DEF Types
  <2>2. Live' = Live  BY <1>0, <2>1 DEF Live
  <2>3. ClosedWithoutCid' = ClosedWithoutCid  BY <1>0, <2>1 DEF ClosedWithoutCid
  <2> QED BY <1>0, <2>2, <2>3 DEF SameLive
<1>1. ASSUME NEW k, Refuses(k) PROVE SameLive
  <2>1. /\ created < MaxCreate /\ st' = [st EXCEPT ![created + 1] = "refused"]
        /\ cid' = cid /\ coro_num' = coro_num
    BY <1>1 DEF Refuses, CoroLimit
  <2>2. created + 1 \in Task /\ st[created + 1] = "unborn"
    BY <2>1, CoroutineAssumption DEF Types, Task, BornInv
  <2> QED BY <2>1, <2>2, <1>0
<1>2. ASSUME NEW x, NEW c, Suspends(x, c) PROVE SameLive /\ UNCHANGED cidvars
  <2>1. /\ UNCHANGED cidvars /\ cid' = cid /\ coro_num' = coro_num /\ Inside /\ main # "down"
        /\ st' = [st EXCEPT ![Top.task] = x] /\ x \in {"yielded", "parked"}
    BY <1>2 DEF Suspends, Leaves, Pops
  <2>2. Top.task \in Task /\ st[Top.task] = "live"  BY <2>1, RunningFacts
  <2> QED BY <2>1, <2>2, <1>0
<1>3. CASE Yield \/ Park  BY <1>2, <1>3, YieldFacts, ParkFacts DEF SameCids
<1>4. ASSUME NEW k \in Cids, Resume(k) PROVE SameLive /\ UNCHANGED cidvars
  <2>1. PICK c : c = cid_context_map[k]  OBVIOUS
  <2>2. heap[c].task \in Task /\ st[heap[c].task] = "yielded" /\ Pushes(heap[c].task, ResumeFrame(c))
    BY <1>4, <2>1, ResumeFacts
  <2>3. st' = [st EXCEPT ![heap[c].task] = "live"]  BY <2>2 DEF Pushes
  <2>4. UNCHANGED cidvars /\ cid' = cid /\ coro_num' = coro_num  BY <1>4 DEF Resume
  <2> QED BY <2>2, <2>3, <2>4, <1>0
<1>5. ASSUME NEW c \in Ctx, Invoke(c) PROVE SameLive /\ UNCHANGED cidvars
  <2>1. heap[c].task \in Task /\ st[heap[c].task] = "parked" /\ Pushes(heap[c].task, InvokeFrame(c))
    BY <1>5, InvokeFacts
  <2>2. st' = [st EXCEPT ![heap[c].task] = "live"]  BY <2>1 DEF Pushes
  <2>3. UNCHANGED cidvars /\ cid' = cid /\ coro_num' = coro_num  BY <1>5 DEF Invoke
  <2> QED BY <2>1, <2>2, <2>3, <1>0
<1>6. CASE Idles
  <2>1. UNCHANGED cidvars /\ cid' = cid /\ coro_num' = coro_num /\ st' = st  BY <1>6 DEF Idles
  <2> QED BY <2>1 DEF SameLive, SameCids, Live, ClosedWithoutCid
<1> QED BY StepCases, <1>1, <1>3, <1>4, <1>5, <1>6 DEF SameCids

(* What alloc_cidmap does, whatever it returns.                            *)
LEMMA AllocFacts ==
  ASSUME NEW k, alloc_cidmap(k)
  PROVE  \/ k = NoCid /\ UNCHANGED cidvars
         \/ /\ nr_free # 0 /\ k - 1 \in Bit /\ k - 1 \notin page /\ k \in Cids
            /\ page' = page \cup {k - 1} /\ nr_free' = nr_free - 1 /\ last_cid' = k - 1
BY NCidAssumption DEF alloc_cidmap, Bit, Cids

LEMMA PageCount ==
  ASSUME page \subseteq Bit, nr_free \in Nat, nr_free # 0,
         NEW b \in Bit, b \notin page, page' = page \cup {b}, nr_free' = nr_free - 1, last_cid' = b
  PROVE  /\ page' \subseteq Bit /\ last_cid' \in Bit \cup {-1} /\ nr_free' \in Nat
         /\ nr_free' + Cardinality(page') = nr_free + Cardinality(page)
<1>1. IsFiniteSet(page) /\ Cardinality(page) \in Nat  BY PageFinite
<1>2. Cardinality(page') = Cardinality(page) + 1  BY <1>1, FS_AddElement
<1> QED BY <1>1, <1>2

LEMMA CidsStep ==
  ASSUME Types, BornInv, StackInv, ContextInv, CheckInv, CidsInv, [Next]_vars
  PROVE  CidsInv'
<1> USE NCidAssumption
<1>0. /\ page \subseteq Bit /\ last_cid \in Bit \cup {-1} /\ nr_free \in Nat
      /\ nr_free + Cardinality(page) = NCid + Cardinality(ClosedWithoutCid)
      /\ \A t \in Live : cid[t] \in Cids \cup {NoCid}
      /\ \A t \in Live : cid[t] # NoCid => cid[t] - 1 \in page
      /\ \A t, u \in Live : cid[t] # NoCid /\ cid[u] = cid[t] => u = t
  BY DEF CidsInv, UniqueCid
<1>1. ASSUME NEW k, Starts(k) PROVE CidsInv'
  <2> DEFINE n == created + 1
  <2>1. alloc_cidmap(k) /\ k \in Cids \cup {NoCid}  BY <1>1 DEF Starts
  <2>2. /\ n \in Task \ Live /\ Live' = Live \cup {n} /\ ClosedWithoutCid' = ClosedWithoutCid
        /\ cid'[n] = k /\ \A u \in Task \ {n} : cid'[u] = cid[u]
    BY <1>1, StartLive
  <2> HIDE DEF n
  <2>3. \A u \in Live : cid'[u] = cid[u]  BY <2>2 DEF Live
  <2>4. \A t \in Live' : cid'[t] \in Cids \cup {NoCid}  BY <1>0, <2>1, <2>2, <2>3
  <2>5. /\ page' \subseteq Bit /\ last_cid' \in Bit \cup {-1} /\ nr_free' \in Nat
        /\ nr_free' + Cardinality(page') = nr_free + Cardinality(page)
        /\ page \subseteq page'
        /\ k # NoCid => k - 1 \in page' /\ k - 1 \notin page
    <3>1. CASE k = NoCid /\ UNCHANGED cidvars  BY <3>1, <1>0 DEF cidvars
    <3>2. CASE /\ nr_free # 0 /\ k - 1 \in Bit /\ k - 1 \notin page
               /\ page' = page \cup {k - 1} /\ nr_free' = nr_free - 1 /\ last_cid' = k - 1
      BY <3>2, <1>0, PageCount
    <3> QED BY <2>1, <3>1, <3>2, AllocFacts
  <2>6. ASSUME NEW t \in Live', cid'[t] # NoCid
        PROVE  cid'[t] - 1 \in page' /\ \A u \in Live' : cid'[u] = cid'[t] => u = t
    <3>1. CASE t = n
      <4>1. k # NoCid /\ k - 1 \in page' /\ k - 1 \notin page  BY <2>2, <2>5, <2>6, <3>1
      <4>2. \A u \in Live : cid[u] # k  BY <4>1, <1>0
      <4> QED BY <3>1, <4>1, <4>2, <2>2, <2>3
    <3>2. CASE t # n
      <4>1. t \in Live /\ cid'[t] = cid[t] /\ cid[t] - 1 \in page  BY <3>2, <2>2, <2>3, <2>6, <1>0
      <4>2. cid'[n] # cid[t]  BY <4>1, <2>2, <2>5, <2>6
      <4> QED BY <4>1, <4>2, <2>2, <2>3, <2>5, <2>6, <1>0
    <3> QED BY <3>1, <3>2
  <2> QED BY <2>2, <2>4, <2>5, <2>6, <1>0 DEF CidsInv, UniqueCid
<1>2. CASE Close
  <2> DEFINE t == Top.task
  <2>1. /\ t \in Live /\ Live' = Live \ {t} /\ cid' = cid /\ t \notin ClosedWithoutCid
        /\ ClosedWithoutCid' = ClosedWithoutCid \cup (IF cid[t] = NoCid THEN {t} ELSE {})
    BY <1>2, CloseLive
  <2>2. nr_free' = nr_free + 1 /\ page' = page \ {cid[t] - 1} /\ last_cid' = last_cid
    BY <1>2, CloseFacts DEF free_cidmap
  <2> HIDE DEF t
  <2>3. IsFiniteSet(page) /\ Cardinality(page) \in Nat  BY <1>0, PageFinite
  <2>4. IsFiniteSet(ClosedWithoutCid) /\ Cardinality(ClosedWithoutCid) \in Nat
    <3>1. ClosedWithoutCid \in SUBSET Task  BY DEF ClosedWithoutCid
    <3> QED BY <3>1, TaskFacts, FS_Subset, FS_CardinalityType
  <2>5. nr_free' + Cardinality(page') = NCid + Cardinality(ClosedWithoutCid')
    <3>1. CASE cid[t] = NoCid
      <4>1. cid[t] - 1 \notin page  BY <3>1, <1>0 DEF NoCid, Bit
      <4>2. page' = page  BY <2>2, <4>1
      <4>3. Cardinality(ClosedWithoutCid') = Cardinality(ClosedWithoutCid) + 1
        BY <3>1, <2>1, <2>4, FS_AddElement
      <4> QED BY <4>2, <4>3, <2>2, <2>3, <2>4, <1>0
    <3>2. CASE cid[t] # NoCid
      <4>1. cid[t] - 1 \in page  BY <3>2, <2>1, <1>0
      <4>2. Cardinality(page') = Cardinality(page) - 1  BY <4>1, <2>2, <2>3, FS_RemoveElement
      <4>3. ClosedWithoutCid' = ClosedWithoutCid  BY <3>2, <2>1
      <4> QED BY <4>2, <4>3, <2>2, <2>3, <2>4, <1>0
    <3> QED BY <3>1, <3>2
  <2>6. ASSUME NEW u \in Live', cid[u] # NoCid PROVE cid[u] - 1 \in page'
    <3>1. u \in Live /\ u # t /\ cid[u] - 1 \in page /\ cid[u] # cid[t]  BY <2>1, <2>6, <1>0
    <3>2. cid[u] \in Int /\ cid[t] \in Int  BY <3>1, <2>1, <1>0 DEF Cids, NoCid
    <3> QED BY <3>1, <3>2, <2>2
  <2>7. UniqueCid'  BY <2>1, <2>6, <1>0 DEF UniqueCid
  <2> QED BY <2>1, <2>2, <2>5, <2>7, <1>0 DEF CidsInv
<1>3. CASE (~ \E k : Starts(k)) /\ ~Close
  <2>1. SameLive /\ SameCids  BY <1>3, OtherLive
  <2>2. Live' = Live /\ ClosedWithoutCid' = ClosedWithoutCid /\ cid' = cid  BY <2>1 DEF SameLive
  <2>3. /\ page' \subseteq Bit /\ last_cid' \in Bit \cup {-1} /\ nr_free' \in Nat
        /\ nr_free' + Cardinality(page') = nr_free + Cardinality(page)
        /\ page \subseteq page'
    <3>1. CASE UNCHANGED cidvars  BY <3>1, <1>0 DEF cidvars
    <3>2. ASSUME NEW k, Refuses(k)
          PROVE  /\ page' \subseteq Bit /\ last_cid' \in Bit \cup {-1} /\ nr_free' \in Nat
                 /\ nr_free' + Cardinality(page') = nr_free + Cardinality(page)
                 /\ page \subseteq page'
      <4>1. alloc_cidmap(k)  BY <3>2 DEF Refuses
      <4>2. CASE k = NoCid /\ UNCHANGED cidvars  BY <4>2, <1>0 DEF cidvars
      <4>3. CASE /\ nr_free # 0 /\ k - 1 \in Bit /\ k - 1 \notin page
                 /\ page' = page \cup {k - 1} /\ nr_free' = nr_free - 1 /\ last_cid' = k - 1
        BY <4>3, <1>0, PageCount
      <4> QED BY <4>1, <4>2, <4>3, AllocFacts
    <3> QED BY <2>1, <3>1, <3>2 DEF SameCids
  <2> QED BY <2>2, <2>3, <1>0 DEF CidsInv, UniqueCid
<1> QED BY <1>1, <1>2, <1>3

LEMMA MarkStep ==
  ASSUME Types, BornInv, StackInv, ContextInv, CheckInv, CidsInv, MarkInv, [Next]_vars
  PROVE  MarkInv'
<1>1. ASSUME NEW k, alloc_cidmap(k) PROVE MarkInv'
  BY <1>1, AllocFacts, NCidAssumption DEF MarkInv, Bit, cidvars
<1>2. CASE Close
  <2>1. page' \subseteq page /\ last_cid' = last_cid  BY <1>2, CloseFacts DEF free_cidmap
  <2> QED BY <2>1 DEF MarkInv
<1>3. CASE UNCHANGED cidvars  BY <1>3 DEF MarkInv, cidvars
<1>4. CASE \E k : Starts(k)  BY <1>4, <1>1 DEF Starts
<1>5. CASE (~ \E k : Starts(k)) /\ ~Close
  <2>1. UNCHANGED cidvars \/ \E k : Refuses(k)  BY <1>5, OtherLive DEF SameCids
  <2> QED BY <2>1, <1>1, <1>3 DEF Refuses
<1> QED BY <1>2, <1>4, <1>5
-----------------------------------------------------------------------------
LEMMA LiveFinite ==
  ASSUME NEW S, S \subseteq Task
  PROVE  IsFiniteSet(S) /\ Cardinality(S) \in Nat /\ Cardinality(S) <= MaxCreate
<1>1. S \in SUBSET Task  OBVIOUS
<1>2. IsFiniteSet(S) /\ Cardinality(S) <= Cardinality(Task)  BY <1>1, TaskFacts, FS_Subset
<1> QED BY <1>2, TaskFacts, FS_CardinalityType

LEMMA CountStep ==
  ASSUME Types, BornInv, StackInv, ContextInv, CheckInv, CidsInv, CoroNumExact, [Next]_vars
  PROVE  CoroNumExact'
<1> DEFINE WithCid == {t \in Live : cid[t] # NoCid}
<1>1. /\ IsFiniteSet(Live) /\ Cardinality(Live) \in Nat /\ coro_num = Cardinality(Live)
      /\ IsFiniteSet(WithCid) /\ Cardinality(WithCid) \in Nat
      /\ Cardinality(WithCid) <= MaxCoroNum /\ Cardinality(WithCid) <= Cardinality(Live)
  <2>1. Live \subseteq Task /\ WithCid \subseteq Task /\ WithCid \in SUBSET Live  BY DEF Live
  <2>2. IsFiniteSet(Live) /\ Cardinality(Live) \in Nat  BY <2>1, LiveFinite
  <2>3. Cardinality(WithCid) \in Nat /\ IsFiniteSet(WithCid)  BY <2>1, LiveFinite
  <2>4. Cardinality(WithCid) <= Cardinality(Live)  BY <2>1, <2>2, FS_Subset
  <2> QED BY <2>2, <2>3, <2>4 DEF CoroNumExact
<1>2. ASSUME NEW k, Starts(k) PROVE CoroNumExact'
  <2> DEFINE n == created + 1
  <2>1. /\ n \notin Live /\ Live' = Live \cup {n} /\ coro_num' = coro_num + 1 /\ n \in Task
        /\ cid'[n] = k /\ \A u \in Task \ {n} : cid'[u] = cid[u]
    BY <1>2, StartLive
  <2>2. k # NoCid => coro_num < MaxCoroNum
    BY <1>2, <1>1, CoroutineAssumption DEF Starts, CoroStart, below_limit
  <2> HIDE DEF n
  <2>3. coro_num' = Cardinality(Live')  BY <1>1, <2>1, FS_AddElement
  <2>4. WithCid' = IF k # NoCid THEN WithCid \cup {n} ELSE WithCid
    BY <2>1 DEF Live
  <2>5. Cardinality(WithCid \cup {n}) <= Cardinality(WithCid) + 1
    <3>1. Cardinality(WithCid \cup {n}) =
            IF n \in WithCid THEN Cardinality(WithCid) ELSE Cardinality(WithCid) + 1
      <4> HIDE DEF WithCid
      <4> QED BY <1>1, FS_AddElement
    <3> QED BY <3>1, <1>1
  <2>6. Cardinality(WithCid \cup {n}) \in Nat
    <3>1. WithCid \cup {n} \subseteq Task  BY <2>1 DEF Live
    <3> QED BY <3>1, LiveFinite
  <2>7. Cardinality(WithCid') <= MaxCoroNum
    <3>1. CASE k # NoCid
      <4>1. WithCid' = WithCid \cup {n} /\ coro_num < MaxCoroNum  BY <3>1, <2>2, <2>4
      <4> HIDE DEF WithCid
      <4> QED BY <4>1, <1>1, <2>5, <2>6, CoroutineAssumption
    <3>2. CASE k = NoCid
      <4>1. WithCid' = WithCid  BY <3>2, <2>4
      <4> HIDE DEF WithCid
      <4> QED BY <4>1, <1>1
    <3> QED BY <3>1, <3>2
  <2> QED BY <2>3, <2>7 DEF CoroNumExact
<1>3. CASE Close
  <2> DEFINE t == Top.task
  <2>1. t \in Live /\ Live' = Live \ {t} /\ cid' = cid /\ coro_num' = coro_num - 1
    BY <1>3, CloseLive
  <2> HIDE DEF t
  <2>2. coro_num' = Cardinality(Live')  BY <1>1, <2>1, FS_RemoveElement
  <2>3. WithCid' \in SUBSET WithCid  BY <2>1
  <2>4. Cardinality(WithCid') <= Cardinality(WithCid) /\ IsFiniteSet(WithCid')
    BY <1>1, <2>3, FS_Subset
  <2>5. Cardinality(WithCid') \in Nat  BY <2>4, FS_CardinalityType
  <2>6. Cardinality(WithCid') <= MaxCoroNum
    <3> HIDE DEF WithCid
    <3> QED BY <1>1, <2>4, <2>5, CoroutineAssumption
  <2> QED BY <2>2, <2>6 DEF CoroNumExact
<1>4. CASE (~ \E k : Starts(k)) /\ ~Close
  <2>1. SameLive  BY <1>4, OtherLive
  <2> QED BY <2>1 DEF SameLive, CoroNumExact
<1> QED BY <1>2, <1>3, <1>4

LEMMA CallbackStep ==
  ASSUME Types, BornInv, StackInv, ContextInv, CheckInv, CallbackInv, [Next]_vars
  PROVE  CallbackInv'
<1> USE CoroutineAssumption
<1>0. /\ Live \subseteq callbacks /\ callbacks \subseteq Task /\ NULL \notin Task
      /\ function \in [Task -> Task \cup {NULL}]
      /\ \A t \in Task : function[t] # NULL => function[t] = t \/ st[function[t]] = "refused"
  BY TaskFacts DEF CallbackInv, CallbackKept, Types
<1>1. ASSUME NEW k, Starts(k) PROVE CallbackInv'
  <2> DEFINE n == created + 1
  <2>1. CoroStart(n, k) /\ created < MaxCreate  BY <1>1 DEF Starts
  <2>2. /\ n \in Task /\ st[n] = "unborn" /\ Pushes(n, CreateFrame(n))
        /\ st' = [st EXCEPT ![n] = "live"] /\ Live' = Live \cup {n}
    BY <1>1, <2>1, StartFacts, StartLive DEF Pushes
  <2>3. callbacks' = callbacks \cup {n} /\ function' = function  BY <2>1 DEF CoroStart
  <2>4. /\ Depth' = Depth \cup {Len(cstack) + 1}
        /\ \A i \in Depth : cstack'[i] = cstack[i]
        /\ cstack'[Len(cstack) + 1].op = "create"
    <3>1. CreateFrame(n).op = "create"  BY DEF CreateFrame
    <3>2. CreateFrame(n) \in Frame /\ cstack' = Append(cstack, CreateFrame(n))  BY <2>2 DEF Pushes
    <3> HIDE DEF n
    <3> QED BY <3>1, <3>2, PushFacts
  <2> HIDE DEF n
  <2>5. st'[n] = "live" /\ \A u \in Task \ {n} : st'[u] = st[u]  BY <2>2 DEF Types
  <2>6. CallbackKept'  BY <1>0, <2>2, <2>3 DEF CallbackKept
  <2>7. ASSUME NEW t \in Task, function'[t] # NULL
        PROVE  function'[t] = t \/ st'[function'[t]] = "refused"
    BY <2>2, <2>3, <2>5, <2>7, <1>0
  <2>8. ASSUME \A t \in Task : st'[t] # "refused"
        PROVE  /\ callbacks' = Live'
               /\ \A t \in Task : st'[t] \in {"yielded", "parked"} => function'[t] = t
               /\ \A i \in Depth' : cstack'[i].op # "create" => function'[cstack'[i].task] = cstack'[i].task
    <3>1. \A t \in Task : st[t] # "refused"  BY <2>2, <2>5, <2>8
    <3> QED BY <3>1, <2>2, <2>3, <2>4, <2>5 DEF CallbackInv
  <2> QED BY <2>6, <2>7, <2>8 DEF CallbackInv
<1>2. ASSUME NEW k, Refuses(k) PROVE CallbackInv'
  <2> DEFINE n == created + 1
  <2>1. CoroLimit(n, k) /\ created < MaxCreate  BY <1>2 DEF Refuses
  <2>2. n \in Task /\ st[n] = "unborn"  BY <2>1 DEF Types, Task, BornInv
  <2>3. /\ st' = [st EXCEPT ![n] = "refused"]
        /\ IF reg.task # NULL
           THEN function' = [function EXCEPT ![reg.task] = n] /\ callbacks' = callbacks \cup {n}
           ELSE UNCHANGED <<function, callbacks>>
    BY <2>1 DEF CoroLimit
  <2> HIDE DEF n
  <2>4. st'[n] = "refused" /\ \A u \in Task \ {n} : st'[u] = st[u]  BY <2>2, <2>3 DEF Types
  <2>5. Live' = Live  BY <2>2, <2>4 DEF Live
  <2>6. CallbackKept'  BY <2>3, <2>5, <1>0 DEF CallbackKept
  <2>7. ASSUME NEW t \in Task, function'[t] # NULL
        PROVE  function'[t] = t \/ st'[function'[t]] = "refused"
    <3>1. function'[t] \in {n, function[t]}  BY <2>3, <1>0
    <3>2. CASE function'[t] = n  BY <3>2, <2>4
    <3>3. CASE function'[t] = function[t]  BY <3>3, <2>2, <2>4, <2>7, <1>0
    <3> QED BY <3>1, <3>2, <3>3
  <2>8. ~ \A t \in Task : st'[t] # "refused"  BY <2>2, <2>4
  <2> QED BY <2>6, <2>7, <2>8 DEF CallbackInv
<1>3. ASSUME NEW x, NEW c, Suspends(x, c) PROVE CallbackInv'
  <2> DEFINE t == Top.task
  <2>1. /\ Inside /\ main # "down" /\ st' = [st EXCEPT ![t] = x] /\ x \in {"yielded", "parked"}
        /\ function' = IF Top.op = "create" THEN [function EXCEPT ![t] = t] ELSE function
        /\ callbacks' = callbacks /\ cstack' = SubSeq(cstack, 1, Len(cstack) - 1)
    BY <1>3 DEF Suspends, Leaves, Pops
  <2>2. /\ t \in Task /\ st[t] = "live" /\ Len(cstack) \in Depth /\ Top = cstack[Len(cstack)]
    BY <2>1, RunningFacts
  <2>3. Depth' = Depth \ {Len(cstack)} /\ \A i \in Depth' : cstack'[i] = cstack[i]
    BY <2>1, PopFacts
  <2>4. \A i \in Depth' : cstack[i].task # t /\ cstack[i].task \in Task
    BY <2>2, <2>3, StackFacts DEF StackInv, Frame
  <2> HIDE DEF t
  <2>5. st'[t] = x /\ \A u \in Task \ {t} : st'[u] = st[u]  BY <2>1, <2>2 DEF Types
  <2>6. Live' = Live  BY <2>1, <2>2, <2>5 DEF Live
  <2>7. \A u \in Task \ {t} : function'[u] = function[u]  BY <2>1, <1>0
  <2>8. function'[t] \in {t, function[t]} /\ (Top.op = "create" => function'[t] = t)
        /\ (Top.op # "create" => function'[t] = function[t])
    BY <2>1, <2>2, <1>0
  <2>9. CallbackKept'  BY <2>1, <2>6, <1>0 DEF CallbackKept
  <2>10. ASSUME NEW u \in Task, function'[u] # NULL
         PROVE  function'[u] = u \/ st'[function'[u]] = "refused"
    <3>1. function'[u] = u \/ function'[u] = function[u]  BY <2>7, <2>8
    <3> QED BY <3>1, <2>2, <2>5, <2>10, <1>0
  <2>11. ASSUME \A u \in Task : st'[u] # "refused"
         PROVE  /\ callbacks' = Live'
                /\ \A u \in Task : st'[u] \in {"yielded", "parked"} => function'[u] = u
                /\ \A i \in Depth' : cstack'[i].op # "create" => function'[cstack'[i].task] = cstack'[i].task
    <3>1. \A u \in Task : st[u] # "refused"  BY <2>2, <2>5, <2>11
    <3>2. /\ callbacks = Live
          /\ \A u \in Task : st[u] \in {"yielded", "parked"} => function[u] = u
          /\ \A i \in Depth : cstack[i].op # "create" => function[cstack[i].task] = cstack[i].task
      BY <3>1 DEF CallbackInv
    <3>3. function'[t] = t  BY <2>2, <2>8, <3>2 DEF t
    <3>4. callbacks' = Live'  BY <3>2, <2>1, <2>6
    <3>5. \A u \in Task : st'[u] \in {"yielded", "parked"} => function'[u] = u
      BY <3>2, <3>3, <2>5, <2>7
    <3>6. ASSUME NEW i \in Depth', cstack'[i].op # "create"
          PROVE  function'[cstack'[i].task] = cstack'[i].task
      <4>1. i \in Depth /\ cstack'[i] = cstack[i] /\ cstack[i].task \in Task \ {t}
        BY <2>3, <2>4
      <4> QED BY <4>1, <3>2, <3>6, <2>7
    <3> QED BY <3>4, <3>5, <3>6
  <2> QED BY <2>9, <2>10, <2>11 DEF CallbackInv
<1>4. CASE Yield \/ Park  BY <1>3, <1>4, YieldFacts, ParkFacts
<1>5. CASE Close
  <2> DEFINE t == Top.task
  <2>1. /\ Leaves("closed", heap)
        /\ function' = [function EXCEPT ![t] = NULL]
        /\ callbacks' = (callbacks \ {function[t]}) \ (IF Top.op = "create" THEN {t} ELSE {})
    BY <1>5, CloseFacts
  <2>2. /\ Inside /\ main # "down" /\ st' = [st EXCEPT ![t] = "closed"]
        /\ cstack' = SubSeq(cstack, 1, Len(cstack) - 1)
    BY <2>1 DEF Leaves, Pops
  <2>3. /\ t \in Task /\ st[t] = "live" /\ Len(cstack) \in Depth /\ Top = cstack[Len(cstack)]
    BY <2>2, RunningFacts
  <2>4. Depth' = Depth \ {Len(cstack)} /\ \A i \in Depth' : cstack'[i] = cstack[i]
    BY <2>2, PopFacts
  <2>5. \A i \in Depth' : cstack[i].task # t /\ cstack[i].task \in Task
    BY <2>3, <2>4, StackFacts DEF StackInv, Frame
  <2>6. Live' = Live \ {t}  BY <1>5, CloseLive
  <2> HIDE DEF t
  <2>7. st'[t] = "closed" /\ \A u \in Task \ {t} : st'[u] = st[u]  BY <2>2, <2>3 DEF Types
  <2>8. function'[t] = NULL /\ \A u \in Task \ {t} : function'[u] = function[u]
    BY <2>1, <2>3, <1>0
  <2>9. function[t] = NULL \/ function[t] = t \/ (function[t] \in Task /\ st[function[t]] = "refused")
    BY <2>3, <1>0
  <2>10. CallbackKept'
    <3>1. ASSUME NEW u \in Live' PROVE u \in callbacks'
      <4>1. u \in Live /\ u # t /\ u \in callbacks /\ u # NULL  BY <2>6, <1>0
      <4>2. st[u] # "refused"  BY <4>1 DEF Live
      <4> QED BY <4>1, <4>2, <2>1, <2>9
    <3> QED BY <3>1 DEF CallbackKept
  <2>11. ASSUME NEW u \in Task, function'[u] # NULL
         PROVE  function'[u] = u \/ st'[function'[u]] = "refused"
    <3>1. u # t /\ function'[u] = function[u]  BY <2>8, <2>11
    <3> QED BY <3>1, <2>3, <2>7, <2>11, <1>0
  <2>12. ASSUME \A u \in Task : st'[u] # "refused"
         PROVE  /\ callbacks' = Live'
                /\ \A u \in Task : st'[u] \in {"yielded", "parked"} => function'[u] = u
                /\ \A i \in Depth' : cstack'[i].op # "create" => function'[cstack'[i].task] = cstack'[i].task
    <3>1. \A u \in Task : st[u] # "refused"  BY <2>3, <2>7, <2>12
    <3>2. /\ callbacks = Live
          /\ \A u \in Task : st[u] \in {"yielded", "parked"} => function[u] = u
          /\ \A i \in Depth : cstack[i].op # "create" => function[cstack[i].task] = cstack[i].task
      BY <3>1 DEF CallbackInv
    <3>3. function[t] \in {NULL, t} /\ (Top.op # "create" => function[t] = t)
      BY <2>3, <2>9, <3>1, <3>2 DEF t
    <3>4. callbacks' = Live'  BY <3>2, <3>3, <2>1, <2>6, <1>0
    <3> QED BY <3>2, <3>4, <2>4, <2>5, <2>7, <2>8
  <2> QED BY <2>10, <2>11, <2>12 DEF CallbackInv
<1>6. ASSUME NEW t, NEW f, Pushes(t, f), st[t] \in {"yielded", "parked"}, f.op # "create",
             UNCHANGED <<function, callbacks>>
      PROVE  CallbackInv'
  <2>1. t \in Task /\ st' = [st EXCEPT ![t] = "live"] /\ f.task = t  BY <1>6 DEF Pushes
  <2>2. /\ Depth' = Depth \cup {Len(cstack) + 1}
        /\ \A i \in Depth : cstack'[i] = cstack[i]
        /\ cstack'[Len(cstack) + 1] = f
    BY <1>6, PushFacts DEF Pushes
  <2>3. st'[t] = "live" /\ \A u \in Task \ {t} : st'[u] = st[u]  BY <2>1 DEF Types
  <2>4. Live' = Live  BY <1>6, <2>1, <2>3 DEF Live
  <2>5. CallbackKept'  BY <1>6, <2>4, <1>0 DEF CallbackKept
  <2>6. ASSUME NEW u \in Task, function'[u] # NULL
        PROVE  function'[u] = u \/ st'[function'[u]] = "refused"
    BY <1>6, <2>1, <2>3, <2>6, <1>0
  <2>7. ASSUME \A u \in Task : st'[u] # "refused"
        PROVE  /\ callbacks' = Live'
               /\ \A u \in Task : st'[u] \in {"yielded", "parked"} => function'[u] = u
               /\ \A i \in Depth' : cstack'[i].op # "create" => function'[cstack'[i].task] = cstack'[i].task
    <3>1. \A u \in Task : st[u] # "refused"  BY <1>6, <2>1, <2>3, <2>7
    <3>2. /\ callbacks = Live
          /\ \A u \in Task : st[u] \in {"yielded", "parked"} => function[u] = u
          /\ \A i \in Depth : cstack[i].op # "create" => function[cstack[i].task] = cstack[i].task
      BY <3>1 DEF CallbackInv
    <3> QED BY <3>2, <1>6, <2>1, <2>2, <2>3, <2>4
  <2> QED BY <2>5, <2>6, <2>7 DEF CallbackInv
<1>7. ASSUME NEW k \in Cids, Resume(k) PROVE CallbackInv'
  <2>1. PICK c : c = cid_context_map[k]  OBVIOUS
  <2>2. st[heap[c].task] = "yielded" /\ Pushes(heap[c].task, ResumeFrame(c))
    BY <1>7, <2>1, ResumeFacts
  <2>3. ResumeFrame(c).op # "create" /\ UNCHANGED <<function, callbacks>>
    BY <1>7 DEF Resume, ResumeFrame
  <2> QED BY <2>2, <2>3, <1>6
<1>8. ASSUME NEW c \in Ctx, Invoke(c) PROVE CallbackInv'
  <2>1. st[heap[c].task] = "parked" /\ Pushes(heap[c].task, InvokeFrame(c))
    BY <1>8, InvokeFacts
  <2>2. InvokeFrame(c).op # "create" /\ UNCHANGED <<function, callbacks>>
    BY <1>8 DEF Invoke, InvokeFrame
  <2> QED BY <2>1, <2>2, <1>6
<1>9. CASE Idles
  BY <1>9 DEF Idles, CallbackInv, CallbackKept, Live, Depth
<1> QED BY StepCases, <1>1, <1>2, <1>4, <1>5, <1>7, <1>8, <1>9
-----------------------------------------------------------------------------
LEMMA CoroInvInit == Init => CoroInv
<1> SUFFICES ASSUME Init PROVE CoroInv  OBVIOUS
<1> USE CoroutineAssumption, NCidAssumption
<1>1. cstack = << >> /\ Len(cstack) = 0 /\ ~Inside /\ Depth = {}
  BY EmptySeq DEF Init, Inside, Depth
<1>2. Live = {} /\ ClosedWithoutCid = {}  BY DEF Init, Live, ClosedWithoutCid
<1>3. Cardinality({}) = 0 /\ {t \in Live : cid[t] # NoCid} = {}  BY <1>2, FS_EmptySet
<1>4. Types
  <2>1. NoTask \in Register  BY DEF NoTask, Register
  <2>2. cstack \in Seq(Frame)  BY <1>1, EmptySeq
  <2>3. require \in BOOLEAN  BY DEF Init
  <2>4. created \in 0 .. MaxCreate /\ main \in {"script", "loop", "down"}  BY DEF Init
  <2>5. cid \in [Task -> Cids \cup {NoCid, 0}] /\ function \in [Task -> Task \cup {NULL}]
    BY DEF Init
  <2>6. /\ heap \in [Ctx -> Register \cup {NULL}] /\ cid_context_map \in [Cids -> Ctx \cup {NULL}]
        /\ st \in [Task -> {"unborn", "refused", "live", "yielded", "parked", "closed"}]
        /\ callbacks = {} /\ parked = {} /\ reg = NoTask
    BY DEF Init
  <2> QED BY <2>1, <2>2, <2>3, <2>4, <2>5, <2>6 DEF Types
<1>5. BornInv  BY DEF Init, BornInv, Task
<1>6. StackInv  BY <1>1 DEF Init, StackInv, RunsItsOwnContext, NoTask
<1>7. ContextInv  BY <1>1 DEF Init, ContextInv, HeldInv, OwnerInv, YieldedInv, ParkedInv
<1>8. CheckInv  BY <1>1 DEF Init, CheckInv, BufferInv, Freed, Buffer
<1>9. CidsInv  BY <1>2, <1>3 DEF Init, CidInit, CidsInv, UniqueCid
<1>9a. MarkInv  BY DEF Init, CidInit, MarkInv
<1>10. CoroNumExact  BY <1>2, <1>3 DEF Init, CoroNumExact
<1>11. CallbackInv  BY <1>1, <1>2 DEF Init, CallbackInv, CallbackKept
<1> QED BY <1>4, <1>5, <1>6, <1>7, <1>8, <1>9, <1>9a, <1>10, <1>11 DEF CoroInv

LEMMA CoroInvStep == CoroInv /\ [Next]_vars => CoroInv'
<1> SUFFICES ASSUME CoroInv, [Next]_vars PROVE CoroInv'  OBVIOUS
<1> USE DEF CoroInv
<1>1. Types' /\ BornInv' /\ StackInv'  BY TypesStep
<1>2. CheckInv'  BY <1>1, CheckStep
<1>3. ContextInv'  BY ContextStep
<1>4. CidsInv' /\ MarkInv'  BY CidsStep, MarkStep
<1>5. CoroNumExact'  BY CountStep
<1>6. CallbackInv'  BY CallbackStep
<1> QED BY <1>1, <1>2, <1>3, <1>4, <1>5, <1>6

LEMMA CoroInvAlways == Spec => []CoroInv
BY CoroInvInit, CoroInvStep, PTL DEF Spec
-----------------------------------------------------------------------------
(* The variables keep their types; in particular nr_free and coro_num,     *)
(* unsigned in the code, never wrap below zero.                            *)
THEOREM CoroutineTypeCorrect == Spec => []TypeOK
<1>1. CoroInv => TypeOK
  <2> SUFFICES ASSUME CoroInv PROVE TypeOK  OBVIOUS
  <2> DEFINE Without == {t \in Task : cid[t] = NoCid}
  <2>1. nr_free \in 0 .. (NCid + Cardinality(Without))
    <3>1. /\ page \subseteq Bit /\ nr_free \in Nat
          /\ nr_free + Cardinality(page) = NCid + Cardinality(ClosedWithoutCid)
      BY DEF CoroInv, CidsInv
    <3>2. Cardinality(page) \in Nat  BY <3>1, PageFinite
    <3>3. IsFiniteSet(Without) /\ Cardinality(Without) \in Nat  BY LiveFinite
    <3>4. ClosedWithoutCid \in SUBSET Without /\ ClosedWithoutCid \subseteq Task
      BY DEF ClosedWithoutCid
    <3>5. Cardinality(ClosedWithoutCid) <= Cardinality(Without)  BY <3>3, <3>4, FS_Subset
    <3>6. Cardinality(ClosedWithoutCid) \in Nat  BY <3>4, LiveFinite
    <3> HIDE DEF Without
    <3> QED BY <3>1, <3>2, <3>3, <3>5, <3>6, NCidAssumption
  <2>2. coro_num \in 0 .. MaxCreate
    <3>1. Live \subseteq Task  BY DEF Live
    <3> QED BY <3>1, LiveFinite, CoroutineAssumption DEF CoroInv, CoroNumExact
  <2> QED BY <2>1, <2>2 DEF CoroInv, Types, CidsInv, CheckInv, TypeOK
<1> QED BY <1>1, CoroInvAlways, PTL

(* However creations, yields, resumptions and endings nest, the code of a  *)
(* coroutine runs on its own vm stack, as its own current_coro.            *)
THEOREM OwnContext == Spec => []RunsItsOwnContext
<1>1. CoroInv => RunsItsOwnContext  BY DEF CoroInv, StackInv
<1> QED BY <1>1, CoroInvAlways, PTL

(* The longjmp of a suspension lands in the C call that runs the           *)
(* coroutine, which has not returned.                                      *)
THEOREM YieldLands == Spec => []YieldLandsInOwnCall
<1>1. CoroInv => YieldLandsInOwnCall
  <2> SUFFICES ASSUME CoroInv, main # "down", Inside
               PROVE  checkPoint # NULL /\ jmpbuf[checkPoint] = Len(cstack)
    BY DEF YieldLandsInOwnCall
  <2>1. landing = Len(cstack)  BY RunningFacts DEF CoroInv
  <2>2. checkPoint # NULL  BY BufferFacts DEF CoroInv
  <2> QED BY <2>1, <2>2 DEF landing
<1> QED BY <1>1, CoroInvAlways, PTL

(* No jmp_buf is freed twice: the block to free is allocated, and the      *)
(* calls on the stack put back different blocks, none of them the current  *)
(* one.                                                                    *)
THEOREM CheckPointsAllocated == Spec => []CheckPointAllocated
<1>1. CoroInv => CheckPointAllocated
  <2> SUFFICES ASSUME CoroInv, main # "down" PROVE CheckPointAllocated
    BY DEF CheckPointAllocated
  <2>1. Types /\ StackInv /\ CheckInv /\ BufferInv  BY DEF CoroInv, CheckInv
  <2>2. /\ Inside => checkPoint # NULL /\ checkPoint = Buf(cstack, Len(cstack))
        /\ \A i \in Depth : i \in Nat \ {0} /\ i <= Len(cstack) /\ Buf(cstack, i) \in {0, i}
        /\ NULL \notin Nat
    BY <2>1, BufferFacts
  <2>3. /\ Len(cstack) \in Nat /\ (Inside => Len(cstack) \in Depth) /\ (~Inside => Depth = {})
    BY <2>1, StackFacts DEF Depth
  <2>4. /\ checkPoint # NULL => jmpbuf[0] # Freed
        /\ \A i \in Depth : /\ jmpbuf[Buf(cstack, i)] = i
                            /\ cstack[i].op # "invoke" =>
                                 cstack[i].prev = IF i = 1 THEN 0 ELSE Buf(cstack, i - 1)
        /\ IF Inside THEN checkPoint = Buf(cstack, Len(cstack)) ELSE checkPoint \in {NULL, 0}
    BY <2>1 DEF BufferInv
  <2>5. checkPoint # NULL => jmpbuf[checkPoint] # Freed
    <3>1. CASE Inside  BY <3>1, <2>2, <2>3, <2>4 DEF Freed
    <3>2. CASE ~Inside  BY <3>2, <2>4
    <3> QED BY <3>1, <3>2
  <2>6. ASSUME NEW i \in Depth, cstack[i].op # "invoke"
        PROVE  /\ cstack[i].prev \in Nat /\ jmpbuf[cstack[i].prev] # Freed
               /\ cstack[i].prev = 0 => i = 1 \/ (i = 2 /\ cstack[1].op = "invoke")
               /\ cstack[i].prev # 0 => cstack[i].prev = i - 1
    <3>1. CASE i = 1
      <4>1. Inside  BY <2>3, <2>6
      <4> QED BY <3>1, <4>1, <2>2, <2>4, <2>6
    <3>2. CASE i # 1
      <4>1. i - 1 \in Depth  BY <3>2, <2>2, <2>3, <2>6 DEF Depth
      <4>2. cstack[i].prev = Buf(cstack, i - 1) /\ jmpbuf[Buf(cstack, i - 1)] = i - 1
        BY <3>2, <4>1, <2>4, <2>6
      <4>3. Buf(cstack, i - 1) \in {0, i - 1} /\ i - 1 \in Nat \ {0}  BY <4>1, <2>2
      <4>4. Buf(cstack, i - 1) = 0 => cstack[i - 1].op = "invoke" /\ i - 1 = 1
        BY <4>1, <4>3, <2>1 DEF Buf, StackInv
      <4>5. i \in Nat  BY <2>2
      <4> QED BY <4>2, <4>3, <4>4, <4>5 DEF Freed
    <3> QED BY <3>1, <3>2
  <2>7. ASSUME NEW i \in Depth, cstack[i].op # "invoke" PROVE cstack[i].prev # checkPoint
    <3>1. Inside /\ checkPoint = Buf(cstack, Len(cstack)) /\ Len(cstack) \in Depth
      BY <2>2, <2>3
    <3>2. CASE cstack[Len(cstack)].op = "invoke"
      <4>1. Len(cstack) = 1  BY <3>1, <3>2, <2>1 DEF StackInv
      <4>2. i = 1  BY <4>1 DEF Depth
      <4> QED BY <3>2, <4>1, <4>2, <2>7
    <3>3. CASE cstack[Len(cstack)].op # "invoke"
      <4>1. checkPoint = Len(cstack) /\ Len(cstack) # 0  BY <3>1, <3>3, <2>2 DEF Buf
      <4>2. cstack[i].prev \in Nat /\ (cstack[i].prev # 0 => cstack[i].prev = i - 1)  BY <2>6, <2>7
      <4> QED BY <4>1, <4>2, <2>2, <2>3
    <3> QED BY <3>2, <3>3
  <2>8. ASSUME NEW i \in Depth, cstack[i].op # "invoke", NEW j \in Depth, j # i, cstack[j].op # "invoke"
        PROVE  cstack[j].prev # cstack[i].prev
    <3>1. i \in Nat /\ j \in Nat  BY <2>2
    <3> QED BY <3>1, <2>6, <2>8
  <2> QED BY <2>2, <2>5, <2>6, <2>7, <2>8 DEF CheckPointAllocated
<1> QED BY <1>1, CoroInvAlways, PTL

(* The contexts that wait are those of the suspended coroutines.           *)
LEMMA WaitingFacts ==
  ASSUME CoroInv
  PROVE  /\ \A c \in Ctx : c \in Waiting <=> heap[c] # NULL /\ st[heap[c].task] \in {"yielded", "parked"}
         /\ {heap[c].task : c \in Waiting} = {t \in Task : st[t] \in {"yielded", "parked"}}
<1> USE DEF CoroInv
<1>1. ASSUME NEW c \in Waiting
      PROVE  c \in Ctx /\ heap[c] # NULL /\ st[heap[c].task] \in {"yielded", "parked"} /\ heap[c].task \in Task
  <2>1. c \in Ctx /\ heap[c] # NULL /\ c \notin Held  BY DEF Waiting
  <2>2. \A i \in Depth : cstack[i].context # c  BY <2>1, CoroutineAssumption DEF Held
  <2> QED BY <2>1, <2>2 DEF ContextInv, OwnerInv
<1>2. ASSUME NEW c \in Ctx, heap[c] # NULL, st[heap[c].task] \in {"yielded", "parked"}
      PROVE  c \in Waiting
  <2>1. ASSUME NEW i \in Depth, cstack[i].context = c PROVE FALSE
    <3>1. heap[c] = Own(cstack[i].task)
      BY <2>1, CoroutineAssumption DEF ContextInv, HeldInv
    <3>2. cstack[i].task \in Task  BY StackFacts DEF Frame
    <3>3. heap[c].task = cstack[i].task  BY <3>1, <3>2, OwnFacts
    <3> QED BY <3>3, <1>2 DEF StackInv
  <2> QED BY <1>2, <2>1 DEF Waiting, Held
<1>3. ASSUME NEW t \in Task, st[t] \in {"yielded", "parked"}
      PROVE  \E c \in Waiting : heap[c].task = t
  <2>1. PICK c \in Ctx : heap[c] = Own(t)
    <3>1. CASE st[t] = "yielded"  BY <3>1 DEF ContextInv, YieldedInv
    <3>2. CASE st[t] = "parked"  BY <3>2 DEF ContextInv, ParkedInv, Types
    <3> QED BY <1>3, <3>1, <3>2
  <2>2. heap[c].task = t /\ heap[c] # NULL  BY <2>1, OwnFacts
  <2> QED BY <2>2, <1>2, <1>3
<1>4. {heap[c].task : c \in Waiting} = {t \in Task : st[t] \in {"yielded", "parked"}}
  BY <1>1, <1>3
<1> QED BY <1>1, <1>2, <1>4

(* A suspended coroutine is found where its wakeup looks for it, with its  *)
(* own registers, and by one context only: nobody is resumed twice.        *)
THEOREM WokenOnce == Spec => []OneWakeup
<1>1. CoroInv => OneWakeup
  <2> SUFFICES ASSUME CoroInv PROVE OneWakeup  OBVIOUS
  <2> USE DEF CoroInv
  <2>1. \A c \in Ctx : c \in Waiting <=> heap[c] # NULL /\ st[heap[c].task] \in {"yielded", "parked"}
    BY WaitingFacts
  <2>2. ASSUME NEW t \in Task, st[t] = "yielded"
        PROVE  cid_context_map[cid[t]] \in Waiting /\ heap[cid_context_map[cid[t]]] = Own(t)
    <3> DEFINE c == cid_context_map[cid[t]]
    <3>1. c \in Ctx /\ heap[c] = Own(t)  BY <2>2 DEF ContextInv, YieldedInv
    <3>2. heap[c] # NULL /\ heap[c].task = t  BY <3>1, OwnFacts
    <3> QED BY <3>1, <3>2, <2>1, <2>2
  <2>3. ASSUME NEW t \in Task, st[t] = "parked" PROVE \E c \in parked : heap[c] = Own(t)
    BY <2>3 DEF ContextInv, ParkedInv
  <2>4. parked \subseteq Waiting  BY <2>1 DEF ContextInv, ParkedInv, Types
  <2>5. ASSUME NEW c \in Waiting PROVE c \in Ctx /\ heap[c] # NULL /\ st[heap[c].task] \in {"yielded", "parked"}
    BY <2>1 DEF Waiting
  <2>6. ASSUME NEW c \in Waiting, NEW d \in Waiting, heap[c].task = heap[d].task PROVE c = d
    <3>1. c \in Ctx /\ d \in Ctx /\ heap[c] # NULL /\ heap[d] # NULL  BY <2>5
    <3>2. heap[c] = heap[d]  BY <3>1, <2>6 DEF ContextInv, OwnerInv
    <3> QED BY <3>1, <3>2 DEF ContextInv, OwnerInv
  <2> QED BY <2>2, <2>3, <2>4, <2>5, <2>6 DEF OneWakeup
<1> QED BY <1>1, CoroInvAlways, PTL

(* Two coroutines alive never have the same cid, and a cid in use is       *)
(* marked in the bitmap, after any history of refusals and of coroutines   *)
(* that ran without a cid.                                                 *)
THEOREM CidsUnique == Spec => []UniqueCid
<1>1. CoroInv => UniqueCid  BY DEF CoroInv, CidsInv
<1> QED BY <1>1, CoroInvAlways, PTL

(* nr_free is the number of zero bits plus the number of coroutines that   *)
(* ended without a cid, in every reachable state.                          *)
THEOREM FreeCountCorrect == Spec => []FreeCountDrift
<1>1. CoroInv => FreeCountDrift  BY DEF CoroInv, CidsInv, FreeCountDrift
<1> QED BY <1>1, CoroInvAlways, PTL

(* However far the counter has drifted, alloc_cidmap hands out a cid while *)
(* a bit is zero, and its search ends when none is: for every bitmap size  *)
(* and every history of creations, refusals and ends.                      *)
THEOREM AllocAlwaysAnswers == Spec => []AllocAnswers
<1>1. CoroInv => AllocAnswers
  <2> SUFFICES ASSUME CidsInv, MarkInv PROVE AllocAnswers  BY DEF CoroInv
  <2> USE NCidAssumption
  <2>0. page \subseteq Bit /\ last_cid \in Bit \cup {-1} /\ nr_free \in Nat  BY DEF CidsInv
  <2>1. ASSUME page # Bit
        PROVE  nr_free # 0 /\ \E b \in Bit : IsNextZeroBit(last_cid, b) /\ b \notin page
    <3>1. Cardinality(page) < NCid
      <4>1. page \in SUBSET Bit /\ IsFiniteSet(Bit) /\ Cardinality(Bit) = NCid  BY <2>0, BitFinite
      <4>2. Cardinality(page) <= Cardinality(Bit) /\ (Cardinality(page) = Cardinality(Bit) => page = Bit)
        BY <4>1, FS_Subset
      <4> QED  BY <2>0, <2>1, <4>1, <4>2, PageFinite
    <3>2. Cardinality(page) \in Nat  BY <2>0, PageFinite
    <3>3. Cardinality(ClosedWithoutCid) \in Nat  BY LiveFinite DEF ClosedWithoutCid
    <3>4. nr_free # 0  BY <2>0, <3>1, <3>2, <3>3 DEF CidsInv
    <3> QED  BY <2>0, <2>1, <3>4, ScanStops
  <2>2. ASSUME page = Bit
        PROVE  \E b \in Bit : IsNextZeroBit(last_cid, b)
    <3>1. 0 \in Bit  BY DEF Bit
    <3>2. last_cid \in Bit  BY <2>0, <2>2, <3>1 DEF MarkInv
    <3>3. IsNextZeroBit(last_cid, last_cid)  BY <2>2, <3>2 DEF IsNextZeroBit
    <3> QED  BY <3>2, <3>3
  <2> QED  BY <2>1, <2>2 DEF AllocAnswers
<1> QED BY <1>1, CoroInvAlways, PTL

(* The loop of find_next_zero_bit returns the first zero bit after its     *)
(* mark in cyclic order, for every bitmap size, every content of it and    *)
(* every mark it is given: what alloc_cidmap of the model takes for it.    *)
THEOREM ScanCorrect == Spec => []ScanFindsNext
<1>1. CoroInv => ScanFindsNext  BY ScanFirst DEF CoroInv, CidsInv
<1> QED BY <1>1, CoroInvAlways, PTL

(* COROG.coro_num is the number of coroutines alive, and at most           *)
(* max_coro_num of those with a cid exist.                                 *)
THEOREM CoroNumCorrect == Spec => []CoroNumExact
<1>1. CoroInv => CoroNumExact  BY DEF CoroInv
<1> QED BY <1>1, CoroInvAlways, PTL

(* The callback of a coroutine that has not ended is not freed, whatever   *)
(* was refused.                                                            *)
THEOREM CallbacksKept == Spec => []CallbackKept
<1>1. CoroInv => CallbackKept  BY DEF CoroInv, CallbackInv
<1> QED BY <1>1, CoroInvAlways, PTL

(* Until a first refusal the callbacks not freed are those of the          *)
(* coroutines alive: none is leaked.                                       *)
THEOREM CallbacksFreed == Spec => []CallbackFreedAtEnd
<1>1. CoroInv => CallbackFreedAtEnd  BY DEF CoroInv, CallbackInv, CallbackFreedAtEnd
<1> QED BY <1>1, CoroInvAlways, PTL
-----------------------------------------------------------------------------
(* The abstract state: who waits for whom on a C stack, who runs and who   *)
(* is suspended.                                                           *)
Callers(s) == [i \in 1 .. Len(s) |-> IF i = 1 THEN NULL ELSE s[i].ctx.task]
Current == IF Inside THEN reg.task ELSE NULL
Suspended == {t \in Task : st[t] \in {"yielded", "parked"}}

LEMMA CallersSeq ==
  ASSUME NEW s \in Seq(Frame)
  PROVE  /\ Callers(s) \in Seq(Task \cup {NULL})
         /\ Len(Callers(s)) = Len(s)
         /\ \A i \in 1 .. Len(s) : Callers(s)[i] = IF i = 1 THEN NULL ELSE s[i].ctx.task
<1>1. Len(s) \in Nat  BY LenProperties
<1>2. \A i \in 1 .. Len(s) : s[i] \in Frame  BY ElementOfSeq
<1>3. Callers(s) \in [1 .. Len(s) -> Task \cup {NULL}]
  BY <1>2 DEF Callers, Frame, Register
<1>4. Callers(s) \in Seq(Task \cup {NULL})  BY <1>1, <1>3, SeqDef
<1>5. Len(Callers(s)) \in Nat /\ DOMAIN Callers(s) = 1 .. Len(Callers(s))
  BY <1>4, LenProperties
<1>6. DOMAIN Callers(s) = 1 .. Len(s)  BY DEF Callers
<1>7. Len(Callers(s)) = Len(s)
  <2>1. \A m, n \in Nat : 1 .. m = 1 .. n => m = n
    <3> SUFFICES ASSUME NEW m \in Nat, NEW n \in Nat, 1 .. m = 1 .. n, m < n PROVE FALSE
      OBVIOUS
    <3>1. n \in 1 .. n /\ n \notin 1 .. m  OBVIOUS
    <3> QED BY <3>1
  <2> QED BY <2>1, <1>1, <1>5, <1>6
<1> QED BY <1>4, <1>7 DEF Callers

LEMMA CallersPush ==
  ASSUME Types, StackInv, NEW t, NEW f, Pushes(t, f)
  PROVE  Callers(cstack') = Append(Callers(cstack), Current) /\ Current' = t
<1>1. /\ t \in Task /\ reg' = Own(t) /\ cstack' = Append(cstack, f) /\ f \in Frame
      /\ Inside => f.ctx = reg
  BY DEF Pushes
<1>2. /\ cstack' \in Seq(Frame) /\ Len(cstack') = Len(cstack) + 1
      /\ \A i \in Depth : cstack'[i] = cstack[i]
      /\ cstack'[Len(cstack) + 1] = f
      /\ Inside'
  BY <1>1, PushFacts
<1>3. cstack \in Seq(Frame) /\ Len(cstack) \in Nat /\ (Inside <=> Len(cstack) # 0)
  BY StackFacts DEF Types
<1>4. /\ Callers(cstack) \in Seq(Task \cup {NULL}) /\ Len(Callers(cstack)) = Len(cstack)
      /\ \A i \in 1 .. Len(cstack) : Callers(cstack)[i] = IF i = 1 THEN NULL ELSE cstack[i].ctx.task
  BY <1>3, CallersSeq
<1>5. /\ Callers(cstack') \in Seq(Task \cup {NULL}) /\ Len(Callers(cstack')) = Len(cstack) + 1
      /\ \A i \in 1 .. (Len(cstack) + 1) :
           Callers(cstack')[i] = IF i = 1 THEN NULL ELSE cstack'[i].ctx.task
  BY <1>2, CallersSeq
<1>6. Current \in Task \cup {NULL}  BY DEF Current, Types, Register
<1>7. /\ Append(Callers(cstack), Current) \in Seq(Task \cup {NULL})
      /\ Len(Append(Callers(cstack), Current)) = Len(cstack) + 1
      /\ \A i \in 1 .. Len(cstack) : Append(Callers(cstack), Current)[i] = Callers(cstack)[i]
      /\ Append(Callers(cstack), Current)[Len(cstack) + 1] = Current
  BY <1>4, <1>6, AppendProperties
<1>8. ASSUME NEW i \in 1 .. (Len(cstack) + 1)
      PROVE  Callers(cstack')[i] = Append(Callers(cstack), Current)[i]
  <2>1. CASE i \in 1 .. Len(cstack)
    BY <2>1, <1>2, <1>4, <1>5, <1>7 DEF Depth
  <2>2. CASE i = Len(cstack) + 1
    <3>1. Callers(cstack')[i] = IF Len(cstack) = 0 THEN NULL ELSE f.ctx.task
      BY <2>2, <1>2, <1>3, <1>5
    <3>2. Current = IF Len(cstack) = 0 THEN NULL ELSE f.ctx.task
      BY <1>1, <1>3 DEF Current
    <3> QED BY <2>2, <3>1, <3>2, <1>7
  <2>3. i \in 1 .. Len(cstack) \/ i = Len(cstack) + 1  BY <1>3
  <2> QED BY <2>1, <2>2, <2>3
<1>9. Callers(cstack') = Append(Callers(cstack), Current)
  BY <1>5, <1>7, <1>8, SeqEqual
<1>10. Current' = t  BY <1>1, <1>2, OwnFacts DEF Current
<1> QED BY <1>9, <1>10

LEMMA CallersPop ==
  ASSUME Types, StackInv, CheckInv, NEW x, main # "down", Pops(x), StackInv', Types'
  PROVE  /\ Callers(cstack') = SubSeq(Callers(cstack), 1, Len(Callers(cstack)) - 1)
         /\ Current' = Callers(cstack)[Len(Callers(cstack))]
         /\ Current = Top.task /\ Current # NULL
<1>1. /\ Inside /\ cstack' = SubSeq(cstack, 1, Len(cstack) - 1)
      /\ Top.op # "invoke" => reg' = Top.ctx
  BY DEF Pops
<1>2. /\ cstack' \in Seq(Frame) /\ Len(cstack') = Len(cstack) - 1
      /\ Depth' = Depth \ {Len(cstack)}
      /\ \A i \in Depth' : cstack'[i] = cstack[i]
      /\ Inside' <=> Len(cstack) # 1
  BY <1>1, PopFacts
<1>3. /\ cstack \in Seq(Frame) /\ Len(cstack) \in Nat \ {0} /\ Top = cstack[Len(cstack)]
      /\ Top.task \in Task /\ reg.task = Top.task /\ Len(cstack) \in Depth
  BY <1>1, RunningFacts DEF Types
<1>4. /\ Callers(cstack) \in Seq(Task \cup {NULL}) /\ Len(Callers(cstack)) = Len(cstack)
      /\ \A i \in 1 .. Len(cstack) : Callers(cstack)[i] = IF i = 1 THEN NULL ELSE cstack[i].ctx.task
  BY <1>3, CallersSeq
<1>5. /\ Callers(cstack') \in Seq(Task \cup {NULL}) /\ Len(Callers(cstack')) = Len(cstack) - 1
      /\ \A i \in 1 .. (Len(cstack) - 1) :
           Callers(cstack')[i] = IF i = 1 THEN NULL ELSE cstack'[i].ctx.task
  BY <1>2, CallersSeq
<1>6. Callers(cstack) # << >>  BY <1>3, <1>4, EmptySeq
<1>7. /\ SubSeq(Callers(cstack), 1, Len(cstack) - 1) \in Seq(Task \cup {NULL})
      /\ Len(SubSeq(Callers(cstack), 1, Len(cstack) - 1)) = Len(cstack) - 1
      /\ \A i \in 1 .. (Len(cstack) - 1) :
           SubSeq(Callers(cstack), 1, Len(cstack) - 1)[i] = Callers(cstack)[i]
  BY <1>4, <1>6, ButLast
<1>8. ASSUME NEW i \in 1 .. (Len(cstack) - 1)
      PROVE  Callers(cstack')[i] = SubSeq(Callers(cstack), 1, Len(cstack) - 1)[i]
  <2>1. i \in 1 .. Len(cstack) /\ i \in Depth'  BY <1>2, <1>3 DEF Depth
  <2>2. cstack'[i] = cstack[i]  BY <2>1, <1>2
  <2>3. Callers(cstack')[i] = Callers(cstack)[i]  BY <2>1, <2>2, <1>4, <1>5
  <2> QED BY <2>3, <1>7
<1>9. Callers(cstack') = SubSeq(Callers(cstack), 1, Len(Callers(cstack)) - 1)
  BY <1>4, <1>5, <1>7, <1>8, SeqEqual
<1>10. Current' = Callers(cstack)[Len(cstack)]
  <2>1. CASE Len(cstack) = 1  BY <2>1, <1>2, <1>4 DEF Current
  <2>2. CASE Len(cstack) # 1
    <3>1. Top.op # "invoke"  BY <2>2, <1>3 DEF StackInv
    <3>2. reg' = cstack[Len(cstack)].ctx  BY <3>1, <1>1, <1>3
    <3>3. Len(cstack) \in 1 .. Len(cstack)  BY <1>3
    <3>4. Callers(cstack)[Len(cstack)] = cstack[Len(cstack)].ctx.task  BY <2>2, <3>3, <1>4
    <3>5. Current' = reg'.task  BY <2>2, <1>2 DEF Current
    <3> QED BY <3>2, <3>4, <3>5
  <2> QED BY <2>1, <2>2
<1>11. Current = Top.task /\ Current # NULL  BY <1>1, <1>3, TaskFacts DEF Current
<1> QED BY <1>4, <1>9, <1>10, <1>11

(* What the refinement mapping reads off the contexts.                     *)
AbsWaiting == {heap[c].task : c \in Waiting}

WaitingIsSuspended == AbsWaiting = Suspended

LEMMA WaitingSuspended == CoroInv => WaitingIsSuspended
BY WaitingFacts DEF WaitingIsSuspended, AbsWaiting, Suspended

LEMMA WaitingSuspendedNext == CoroInv' => WaitingIsSuspended'
BY WaitingSuspended, PTL

(* Every step is one of Cooperative's, or leaves what it speaks of alone.  *)
LEMMA AbsStep == CoroInv /\ CoroInv' /\ [Next]_vars => [Abs!Next]_(Abs!vars)
<1> SUFFICES ASSUME CoroInv, CoroInv', [Next]_vars PROVE [Abs!Next]_(Abs!vars)  OBVIOUS
<1>0. /\ Types /\ BornInv /\ StackInv /\ ContextInv /\ CheckInv
      /\ Types' /\ BornInv' /\ StackInv' /\ ContextInv' /\ CheckInv'
  BY DEF CoroInv
<1>1. AbsWaiting = Suspended /\ AbsWaiting' = Suspended'
  BY WaitingSuspended, WaitingSuspendedNext DEF WaitingIsSuspended
<1>2. created \in Nat  BY <1>0, CoroutineAssumption DEF Types
<1> USE DEF Current, Callers, Depth, AbsWaiting
<1>3. ASSUME NEW k, Starts(k) PROVE \E t \in Task : Abs!Start(t)
  <2> DEFINE n == created + 1
  <2>1. CoroStart(n, k) /\ created < MaxCreate /\ created' = n /\ main' = main  BY <1>3 DEF Starts
  <2>2. main # "down"  BY <1>3 DEF Starts, Create, Scripting
  <2>3. n \in Task /\ st[n] = "unborn" /\ Pushes(n, CreateFrame(n))  BY <1>0, <2>1, StartFacts
  <2>4. Callers(cstack') = Append(Callers(cstack), Current) /\ Current' = n
    <3> HIDE DEF Callers, Current
    <3> QED BY <1>0, <2>3, CallersPush
  <2>5. st' = [st EXCEPT ![n] = "live"]  BY <2>3 DEF Pushes
  <2>6. Suspended' = Suspended  BY <2>3, <2>5, <1>0 DEF Types, Suspended
  <2>7. n \notin 1 .. created /\ 1 .. created' = (1 .. created) \cup {n}  BY <1>2, <2>1
  <2> QED BY <2>1, <2>2, <2>3, <2>4, <2>6, <2>7, <1>1 DEF Abs!Start
<1>4. ASSUME NEW k, Refuses(k) PROVE \E t \in Task : Abs!Refuse(t)
  <2> DEFINE n == created + 1
  <2>1. /\ created < MaxCreate /\ created' = n /\ main' = main
        /\ st' = [st EXCEPT ![n] = "refused"] /\ UNCHANGED <<reg, cstack>>
    BY <1>4 DEF Refuses, CoroLimit
  <2>2. main # "down"  BY <1>4 DEF Refuses, Create, Scripting
  <2>3. n \in Task /\ st[n] = "unborn"  BY <2>1, <1>0, CoroutineAssumption DEF Types, Task, BornInv
  <2>4. Suspended' = Suspended  BY <2>1, <2>3, <1>0 DEF Types, Suspended
  <2>5. n \notin 1 .. created /\ 1 .. created' = (1 .. created) \cup {n}  BY <1>2, <2>1
  <2>6. Current' = Current /\ Callers(cstack') = Callers(cstack)  BY <2>1 DEF Inside
  <2> QED BY <2>1, <2>2, <2>3, <2>4, <2>5, <2>6, <1>1 DEF Abs!Refuse
<1>5. ASSUME NEW x, NEW c, Suspends(x, c) PROVE Abs!Suspend
  <2>1. /\ Pops(x) /\ main # "down" /\ created' = created /\ main' = main
        /\ x \in {"yielded", "parked"} /\ st' = [st EXCEPT ![Top.task] = x]
    BY <1>5 DEF Suspends, Leaves, Pops
  <2>2. /\ Callers(cstack') = SubSeq(Callers(cstack), 1, Len(Callers(cstack)) - 1)
        /\ Current' = Callers(cstack)[Len(Callers(cstack))]
        /\ Current = Top.task /\ Current # NULL
    <3> HIDE DEF Callers, Current
    <3> QED BY <1>0, <2>1, CallersPop
  <2>3. Top.task \in Task  BY <1>0, <2>1, RunningFacts DEF Pops
  <2>4. Suspended' = Suspended \cup {Top.task}  BY <2>1, <2>3, <1>0 DEF Types, Suspended
  <2> QED BY <2>1, <2>2, <2>4, <1>1 DEF Abs!Suspend, Abs!BackToCaller
<1>6. CASE Close
  <2>1. /\ Pops("closed") /\ main # "down" /\ created' = created /\ main' = main
        /\ st' = [st EXCEPT ![Top.task] = "closed"]
    BY <1>0, <1>6, CloseFacts DEF Leaves, Pops
  <2>2. /\ Callers(cstack') = SubSeq(Callers(cstack), 1, Len(Callers(cstack)) - 1)
        /\ Current' = Callers(cstack)[Len(Callers(cstack))]
        /\ Current # NULL
    <3> HIDE DEF Callers, Current
    <3> QED BY <1>0, <2>1, CallersPop
  <2>3. Top.task \in Task /\ st[Top.task] = "live"  BY <1>0, <2>1, RunningFacts DEF Pops
  <2>4. Suspended' = Suspended  BY <2>1, <2>3, <1>0 DEF Types, Suspended
  <2>5. Abs!End  BY <2>1, <2>2, <2>4, <1>1 DEF Abs!End, Abs!BackToCaller
  <2> QED BY <2>5 DEF Abs!Next
<1>7. ASSUME NEW t, NEW f, Pushes(t, f), st[t] \in {"yielded", "parked"}, main # "down",
             UNCHANGED <<created, main>>
      PROVE  t \in Task /\ Abs!Continue(t)
  <2>1. t \in Task /\ st' = [st EXCEPT ![t] = "live"]  BY <1>7 DEF Pushes
  <2>2. Callers(cstack') = Append(Callers(cstack), Current) /\ Current' = t
    <3> HIDE DEF Callers, Current
    <3> QED BY <1>0, <1>7, CallersPush
  <2>3. t \in Suspended /\ Suspended' = Suspended \ {t}  BY <1>7, <2>1, <1>0 DEF Types, Suspended
  <2> QED BY <1>7, <2>1, <2>2, <2>3, <1>1 DEF Abs!Continue
<1>8. ASSUME NEW k \in Cids, Resume(k) PROVE \E t \in Task : Abs!Continue(t)
  <2>1. PICK c : c = cid_context_map[k]  OBVIOUS
  <2>2. st[heap[c].task] = "yielded" /\ Pushes(heap[c].task, ResumeFrame(c))
    BY <1>0, <1>8, <2>1, ResumeFacts
  <2>3. main # "down" /\ UNCHANGED <<created, main>>  BY <1>8 DEF Resume, Scripting
  <2> QED BY <2>2, <2>3, <1>7
<1>9. ASSUME NEW c \in Ctx, Invoke(c) PROVE \E t \in Task : Abs!Continue(t)
  <2>1. st[heap[c].task] = "parked" /\ Pushes(heap[c].task, InvokeFrame(c))
    BY <1>0, <1>9, InvokeFacts
  <2>2. main # "down" /\ UNCHANGED <<created, main>>  BY <1>9 DEF Invoke
  <2> QED BY <2>1, <2>2, <1>7
<1>10. CASE Idles
  <2>1. UNCHANGED <<created, reg, cstack, st>>  BY <1>10 DEF Idles
  <2>2. Current' = Current /\ Callers(cstack') = Callers(cstack) /\ Suspended' = Suspended
    BY <2>1 DEF Inside, Suspended
  <2>3. CASE main' = "down" /\ main # "down"
    <3>1. Abs!Stop  BY <2>1, <2>2, <2>3, <1>1 DEF Abs!Stop
    <3> QED BY <3>1 DEF Abs!Next
  <2>4. CASE (main' = "down") = (main = "down")
    BY <2>1, <2>2, <2>4, <1>1 DEF Abs!vars
  <2> QED BY <2>3, <2>4, <1>10 DEF Idles
<1>11. CASE Yield \/ Park
  <2>1. \E x, c : Suspends(x, c)  BY <1>0, <1>11, YieldFacts, ParkFacts
  <2> QED BY <2>1, <1>5 DEF Abs!Next
<1> QED BY StepCases, <1>3, <1>4, <1>6, <1>8, <1>9, <1>10, <1>11 DEF Abs!Next

LEMMA AbsInit == Init => Abs!Init
<1> SUFFICES ASSUME Init PROVE Abs!Init  OBVIOUS
<1>1. CoroInv  BY CoroInvInit
<1>2. AbsWaiting = Suspended  BY <1>1, WaitingSuspended DEF WaitingIsSuspended
<1>3. Suspended = {}  BY DEF Init, Suspended
<1>4. cstack = << >> /\ ~Inside  BY DEF Init, Inside
<1>5. Callers(cstack) = << >>
  <2>1. cstack \in Seq(Frame) /\ Len(cstack) = 0  BY <1>4, EmptySeq
  <2>2. Callers(cstack) \in Seq(Task \cup {NULL}) /\ Len(Callers(cstack)) = 0  BY <2>1, CallersSeq
  <2> QED BY <2>2, EmptySeq
<1>6. created = 0 /\ main = "script" /\ 1 .. created = {}  BY DEF Init
<1> QED BY <1>2, <1>3, <1>4, <1>5, <1>6 DEF Abs!Init, AbsWaiting, Callers, Depth

(* The C stack, the checkpoints and the saved contexts implement           *)
(* coroutines that run one at a time and go back to whoever started them.  *)
THEOREM CooperativeImplemented == Spec => ImplementsCooperative
<1>1. Init => Abs!Init  BY AbsInit
<1>2. CoroInv /\ CoroInv' /\ [Next]_vars => [Abs!Next]_(Abs!vars)  BY AbsStep
<1> QED BY <1>1, <1>2, CoroInvAlways, PTL DEF Spec, ImplementsCooperative, Abs!Spec
=============================================================================
