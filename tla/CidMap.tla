------------------------------- MODULE CidMap -------------------------------
(***************************************************************************)
(* The allocator of coroutine ids (coroutine_util.c, alloc_cidmap and      *)
(* free_cidmap): a bitmap of NCid bits (0x8000 in the code), a counter of  *)
(* the free ones and the bit handed out last, after which the next search  *)
(* starts.  Bit b stands for the cid b + 1.                                *)
(*                                                                         *)
(* The allocator's operations are actions with the returned cid as a       *)
(* parameter, so that their only callers, coroutine creation and the end   *)
(* of a coroutine (module Coroutine), can conjoin them.                    *)
(***************************************************************************)
EXTENDS Integers, FiniteSets

CONSTANT NCid            \* number of cids, 0x8000 in the code

ASSUME NCidAssumption == NCid \in Nat \ {0}

VARIABLES
  page,                  \* cidmap.page: the set of bits that are set
  nr_free,               \* cidmap.nr_free
  last_cid               \* last_cid, -1 until the first allocation

cidvars == <<page, nr_free, last_cid>>

Bit  == 0 .. (NCid - 1)
Cids == 1 .. NCid
NoCid == -1              \* what alloc_cidmap returns when it fails

CidInit ==
  /\ page = {}
  /\ nr_free = NCid
  /\ last_cid = -1
-----------------------------------------------------------------------------
(* How many bits find_next_zero_bit tests before b when it starts after    *)
(* mark: it walks upwards and wraps at NCid, so mark itself comes last.    *)
Distance(mark, b) == IF b > mark THEN b - mark - 1 ELSE b - mark - 1 + NCid

(* Mutant: the search does not look past the end of the bitmap.            *)
NoWrapNextZeroBit(mark, b) ==
  /\ b \in Bit
  /\ b = mark \/ (b > mark /\ b \notin page)
  /\ \A j \in Bit \ {mark} : j > mark /\ (b > mark => j < b) => j \in page

(* b is what find_next_zero_bit(page, mark) returns: the first zero bit    *)
(* after mark in cyclic order, or mark when the walk comes back to it.     *)
(* (With mark = -1 and every bit set the loop of the code has no exit; no  *)
(* b satisfies the predicate then, and alloc_cidmap never asks.)           *)
IsNextZeroBit(mark, b) ==
  /\ b \in Bit
  /\ b # mark => b \notin page
  /\ \A j \in Bit \ {mark} : Distance(mark, j) < Distance(mark, b) => j \in page

(* Mutant: the walk starts one bit too late.                               *)
SkippingScan(mark) ==
  LET scan[n \in 0 .. NCid] ==
        LET cid == (mark + 2 + n) % NCid
        IN IF cid = mark \/ cid \notin page \/ n = NCid THEN cid ELSE scan[n + 1]
  IN scan[0]

(* The loop of find_next_zero_bit itself; n counts its iterations.         *)
find_next_zero_bit(mark) ==
  LET scan[n \in 0 .. NCid] ==
        LET cid == (mark + 1 + n) % NCid
        IN IF cid = mark \/ cid \notin page \/ n = NCid THEN cid ELSE scan[n + 1]
  IN scan[0]
-----------------------------------------------------------------------------
(* Mutant: the free counter is not decremented.                            *)
UncountedAlloc(cid) ==
  \/ /\ nr_free = 0
     /\ cid = NoCid
     /\ UNCHANGED cidvars
  \/ /\ nr_free # 0
     /\ \E b \in Bit :
          /\ IsNextZeroBit(last_cid, b)
          /\ \/ /\ b \notin page
                /\ page' = page \cup {b}
                /\ last_cid' = b
                /\ cid = b + 1
                /\ UNCHANGED nr_free
             \/ /\ b \in page
                /\ cid = NoCid
                /\ UNCHANGED cidvars

(* alloc_cidmap returns cid: nothing when no bit is free; else the bit     *)
(* found is tested and set, and a bit that was set already fails the call. *)
alloc_cidmap(cid) ==
  \/ /\ nr_free = 0
     /\ cid = NoCid
     /\ UNCHANGED cidvars
  \/ /\ nr_free # 0
     /\ \E b \in Bit :
          /\ IsNextZeroBit(last_cid, b)
          /\ \/ /\ b \notin page
                /\ page' = page \cup {b}
                /\ nr_free' = nr_free - 1
                /\ last_cid' = b
                /\ cid = b + 1
             \/ /\ b \in page
                /\ cid = NoCid
                /\ UNCHANGED cidvars

(* Mutant: the cid is not turned into its bit (cid-- is missing).          *)
UnshiftedFree(cid) ==
  /\ nr_free' = nr_free + 1
  /\ page' = page \ {cid}
  /\ UNCHANGED last_cid

(* free_cidmap(cid).  For cid = -1, which coroutine creation can pass, the *)
(* counter is incremented and clear_bit falls on a bit outside the page    *)
(* (bit 30 of nr_free, which is 0 for every reachable count).              *)
free_cidmap(cid) ==
  /\ nr_free' = nr_free + 1
  /\ page' = page \ {cid - 1}
  /\ UNCHANGED last_cid
-----------------------------------------------------------------------------
(* What alloc_cidmap needs of the counter, drifted or not.  While a bit is *)
(* zero the counter lets the search start and the search ends at a zero    *)
(* bit (also at last_cid's own, after a full turn): no cid is withheld.    *)
(* And a search the counter starts always ends: with every bit set, which  *)
(* only a drifted counter lets happen, it comes back to last_cid, and the  *)
(* caller gets -1 although the counter is not zero.                        *)
AllocAnswers ==
  /\ page # Bit => nr_free # 0 /\ \E b \in Bit : IsNextZeroBit(last_cid, b) /\ b \notin page
  /\ nr_free # 0 => \E b \in Bit : IsNextZeroBit(last_cid, b)

(* The loop of find_next_zero_bit computes the first zero bit in cyclic    *)
(* order from every starting point it can be given, and the first zero bit *)
(* is unique.                                                              *)
ScanFindsNext ==
  \A mark \in Bit \cup {-1} :
    mark # -1 \/ page # Bit =>
      /\ IsNextZeroBit(mark, find_next_zero_bit(mark))
      /\ \A b \in Bit : IsNextZeroBit(mark, b) => b = find_next_zero_bit(mark)
=============================================================================
