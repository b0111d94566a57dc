----------------------------- MODULE KeyedStore -----------------------------
(***************************************************************************)
(* A partial function from keys to values, with a destructor that is       *)
(* called for a value when it leaves the store.  With Near[k] empty for    *)
(* every key k it is what hashtable.h promises; otherwise it is a store    *)
(* whose removals may lose other keys, near the one removed.               *)
(***************************************************************************)
EXTENDS Integers

CONSTANTS
  Key, Value,
  Near,                  \* the keys that the removal of a key may take along
  NULL

VARIABLES
  state,                 \* "none", "open", "deleted" or "died"
  store,                 \* each key's value and whether it has a destructor
  released,              \* values whose destructor was called
  answer                 \* the last put or get: its key and what it returned

vars == <<state, store, released, answer>>

Entry == [value : Value, owned : BOOLEAN]
Owned(K) == {store[k].value : k \in {l \in K : store[l] # NULL /\ store[l].owned}}

Init ==
  /\ state = "none"
  /\ store = [k \in Key |-> NULL]
  /\ released = {}
  /\ answer = NULL

New ==
  /\ state = "none"
  /\ state' = "open"
  /\ UNCHANGED <<store, released, answer>>

Put(k, e) ==
  /\ state = "open"
  /\ store' = [store EXCEPT ![k] = e]
  /\ released' = released \cup Owned({k})
  /\ answer' = <<k, 0>>
  /\ UNCHANGED state

(* "-1 if error occurred", and then nothing has changed.                   *)
PutFails(k) ==
  /\ state = "open" /\ store[k] = NULL
  /\ answer' = <<k, -1>>
  /\ UNCHANGED <<state, store, released>>

Get(k) ==
  /\ state = "open"
  /\ answer' = <<k, IF store[k] = NULL THEN NULL ELSE store[k].value>>
  /\ UNCHANGED <<state, store, released>>

(* The removal of a key that is there may lose keys near it, without a     *)
(* call of their destructors.                                              *)
Rm(k) ==
  /\ state = "open"
  /\ \E lost \in SUBSET Near[k] :
       /\ store[k] = NULL => lost = {}
       /\ store' = [l \in Key |-> IF l = k \/ l \in lost THEN NULL ELSE store[l]]
  /\ released' = released \cup Owned({k})
  /\ UNCHANGED <<state, answer>>

Delete ==
  /\ state = "open"
  /\ state' = "deleted"
  /\ store' = [k \in Key |-> NULL]
  /\ released' = released \cup Owned(Key)
  /\ UNCHANGED answer

Die == state = "open" /\ state' = "died" /\ UNCHANGED <<store, released, answer>>

Next ==
  \/ New
  \/ \E k \in Key : Get(k) \/ Rm(k) \/ PutFails(k) \/ \E e \in Entry : Put(k, e)
  \/ Delete
  \/ Die

Spec == Init /\ [][Next]_vars
=============================================================================
