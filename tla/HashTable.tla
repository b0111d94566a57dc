----------------------------- MODULE HashTable ------------------------------
(***************************************************************************)
(* src/hashtable/hashtable.c: a table of chains indexed by a hash of the   *)
(* key (a string, here the sequence of its chars, which may be negative).  *)
(* hash_table_rm reads the next pointer of an element it has just freed.   *)
(***************************************************************************)
EXTENDS Integers, Sequences, FiniteSets, SequencesExt

CONSTANTS
  Key,                   \* the strings used as keys
  Value,                 \* the values; each is put at most once
  TableSize,             \* TABLE_SIZE, 1024 in the code
  UIntSize,              \* how many unsigned ints there are, 2^32 in the code
  NULL

ASSUME HashTableAssumption ==
  /\ Key \subseteq Seq(-128 .. 127)
  /\ TableSize \in Nat \ {0}
  /\ UIntSize \in Nat \ {0}
  /\ NULL \notin Value \cup Nat \cup [value : Value, owned : BOOLEAN]

VARIABLES
  ht,                    \* the life of the table
  table,                 \* ht->table: the chain of each index
  used,                  \* values that were put
  freed,                 \* how often free_value was called for each
  answer                 \* the last put or get: its key and what it returned

vars == <<ht, table, used, freed, answer>>

Index == 0 .. (TableSize - 1)
kv(key, value, free_value) == [key |-> key, value |-> value, free_value |-> free_value]

(* hash_33: a char is added as the signed number it is, modulo UIntSize.   *)
hash_33(key) ==
  LET hash[n \in 0 .. Len(key)] ==
        IF n = 0 THEN 0 ELSE (hash[n - 1] * 33 + key[n]) % UIntSize
  IN hash[Len(key)]

index == [key \in Key |-> hash_33(key) % TableSize]

(* Where key is in its chain; NULL (p ran off the end) when it is not.     *)
Find(key) ==
  LET I == {i \in DOMAIN table[index[key]] : table[index[key]][i].key = key}
  IN IF I = {} THEN NULL ELSE CHOOSE i \in I : \A j \in I : i <= j

(* free_value is called for the values of the elements E.                  *)
Freed(E) ==
  [v \in Value |-> freed[v] + Cardinality({e \in E : e.value = v /\ e.free_value})]

Init ==
  /\ ht = "none"
  /\ table = [i \in Index |-> << >>]
  /\ used = {}
  /\ freed = [v \in Value |-> 0]
  /\ answer = NULL
-----------------------------------------------------------------------------
(* hash_table_new; without memory it returns NULL and leaves nothing.      *)
hash_table_new ==
  /\ ht = "none"
  /\ ht' = "open"
  /\ UNCHANGED <<table, used, freed, answer>>

hash_table_put2(key, value, free_value) ==
  LET i == index[key]
      n == Find(key)
      e == kv(key, value, free_value)
  IN /\ ht = "open" /\ value \notin used
     /\ \/ /\ n # NULL
           /\ freed' = Freed({table[i][n]})
           /\ table' = [table EXCEPT ![i][n] = e]
           /\ answer' = <<key, 0>>
        \/ /\ n = NULL
           /\ table' = [table EXCEPT ![i] = Append(@, e)]
           /\ answer' = <<key, 0>>
           /\ UNCHANGED freed
        \/ n = NULL /\ answer' = <<key, -1>> /\ UNCHANGED <<table, freed>>     \* no memory
     /\ used' = IF answer' = <<key, 0>> THEN used \cup {value} ELSE used
     /\ UNCHANGED ht

(* Mutant: the head of the chain, whatever its key.                        *)
FirstOf(key) ==
  LET c == table[index[key]] IN IF c = << >> THEN NULL ELSE c[1].value

found_value(key) ==
  IF Find(key) = NULL THEN NULL ELSE table[index[key]][Find(key)].value

hash_table_get(key) ==
  /\ ht = "open"
  /\ answer' = <<key, found_value(key)>>
  /\ UNCHANGED <<ht, table, used, freed>>

(* Mutant: the element is not unlinked.                                    *)
KeepLinked(chain, n) == {chain}

(* The chain after the element at n is freed: the head takes the whole     *)
(* chain with it; another is unlinked with its next pointer as it is found *)
(* in freed memory, unchanged or NULL.                                     *)
unlinked(chain, n) ==
  IF n = 1 THEN {<< >>} ELSE {RemoveAt(chain, n), SubSeq(chain, 1, n - 1)}

(* After it has freed an element hash_table_rm goes on from that pointer:  *)
(* where it is neither of the two the process dies.                        *)
hash_table_rm(key) ==
  LET i == index[key]
      n == Find(key)
  IN /\ ht = "open"
     /\ IF n = NULL THEN UNCHANGED <<table, freed, ht>>
        ELSE \/ /\ freed' = Freed({table[i][n]})
                /\ \E c \in unlinked(table[i], n) : table' = [table EXCEPT ![i] = c]
                /\ UNCHANGED ht
             \/ ht' = "died" /\ UNCHANGED <<table, freed>>
     /\ UNCHANGED <<used, answer>>

Elements == UNION {Range(table[i]) : i \in Index}

hash_table_delete ==
  /\ ht = "open"
  /\ freed' = Freed(Elements)
  /\ table' = [i \in Index |-> << >>]
  /\ ht' = "deleted"
  /\ UNCHANGED <<used, answer>>

Next ==
  \/ hash_table_new
  \/ \E key \in Key :
       \/ \E value \in Value, f \in BOOLEAN : hash_table_put2(key, value, f)
       \/ hash_table_get(key)
       \/ hash_table_rm(key)
  \/ hash_table_delete

Spec == Init /\ [][Next]_vars
-----------------------------------------------------------------------------
(* "free_value(if not NULL) is called automatically when the value is      *)
(* removed" (hashtable.h): never twice, and never while the value is in    *)
(* the table, through updates, removals and the deletion of the table.     *)
FreedOnce ==
  /\ \A v \in Value : freed[v] <= 1
  /\ \A e \in Elements : freed[e.value] = 0

(* The table as a store: each key's element in its chain.                  *)
SameChain == [key \in Key |-> {k \in Key : index[k] = index[key] /\ k # key}]
Released  == {v \in Value : freed[v] > 0}
Stored    ==
  [key \in Key |->
     IF Find(key) = NULL THEN NULL
     ELSE LET e == table[index[key]][Find(key)] IN [value |-> e.value, owned |-> e.free_value]]

Store == INSTANCE KeyedStore WITH
  Near <- SameChain, state <- ht, store <- Stored, released <- Released

Promised == INSTANCE KeyedStore WITH
  Near <- [key \in Key |-> {}], state <- ht, store <- Stored, released <- Released

(* "remove a value indexed by key" (hashtable.h, of hash_table_rm): that   *)
(* one and no other, so that the other keys are found as before.  The code *)
(* does not keep this: the removal of the head of a chain empties it.      *)
KeepsPromise == Promised!Spec

(* What remains of the promise.  Whatever is put, updated, removed and put *)
(* again, hash_table_get returns the value last put under that very key,   *)
(* with keys whose hashes collide, or nothing; what a removal loses,       *)
(* through the next pointer it reads in freed memory or with the head of a *)
(* chain, are keys of its own chain.                                       *)
ImplementsStore == Store!Spec
=============================================================================
