-------------------------------- MODULE CoPdo -------------------------------
(***************************************************************************)
(* The lives of Co\PDO and Co\PDOStatement objects.  Each wraps an object  *)
(* of PDO in its property "origin"; a call of prepare or fetchAll suspends *)
(* the coroutine, and meanwhile other coroutines may drop what it uses.    *)
(*                                                                         *)
(* PHP counts references: the constructor and aio_invoke never release the *)
(* reference of their local variable, which __destruct makes up for.  A    *)
(* PDOStatement keeps a reference to its PDO object (external), and the    *)
(* connection is closed with the last reference to that.                   *)
(*                                                                         *)
(* Rules of use: the script does not assign "origin" nor call __destruct   *)
(* itself, connections are not persistent ones, and two coroutines do not  *)
(* wait on one connection at the same time.                                *)
(***************************************************************************)
EXTENDS Integers, FiniteSets

CONSTANTS
  Db,                    \* Co\PDO objects, and the PDO object of each
  St,                    \* Co\PDOStatement objects, and the PDOStatement of each
  Co,                    \* coroutines
  MaxHeld,               \* bound: variables that hold one object
  NULL

ASSUME CoPdoAssumption ==
  /\ Db \cap St = {}
  /\ MaxHeld \in Nat \ {0}
  /\ NULL \notin Db \cup St \cup Co

W == Db \cup St

VARIABLES
  life,                  \* of each wrapper
  held,                  \* variables of the script that hold it
  origin,                \* what its property is: the object, or not (false)
  rc,                    \* references to the wrapped object; 0: no object
  db,                    \* the Co\PDO whose prepare made each statement
  call                   \* the wrapper whose method each coroutine waits in

vars == <<life, held, origin, rc, db, call>>

Init ==
  /\ life = [w \in W |-> "unborn"]
  /\ held = [w \in W |-> 0]
  /\ origin = [w \in W |-> FALSE]
  /\ rc = [w \in W |-> 0]
  /\ db = [s \in St |-> NULL]
  /\ call = [c \in Co |-> NULL]

(* A call holds a reference to its object (the frame's This).              *)
Refs(w) == held[w] + Cardinality({c \in Co : call[c] = w})
-----------------------------------------------------------------------------
(* Mutant: the local reference is released, as __destruct does not expect. *)
OneReference == 1

(* object_init_ex gives one reference and zend_update_property adds one.   *)
origin_refs == 2

(* Mutant: __destruct does nothing.                                        *)
DestructNothing(w) == 0

(* __destruct of both classes: zval_dtor of the property.                  *)
destruct(w) == IF origin[w] THEN 1 ELSE 0

(* References after the wrapper w is destroyed: __destruct, then PHP       *)
(* releases the property; a PDOStatement that goes releases its PDO.       *)
Destroyed(w, r) ==
  LET gone == [r EXCEPT ![w] = @ - destruct(w) - (IF origin[w] THEN 1 ELSE 0)]
  IN IF w \in St /\ r[w] > 0 /\ gone[w] = 0
     THEN [gone EXCEPT ![db[w]] = @ - 1] ELSE gone

(* A reference to w is released; r: the references before.                 *)
Release(w, r) ==
  IF Refs(w) = 1
  THEN life' = [life EXCEPT ![w] = "dead"] /\ rc' = Destroyed(w, r)
  ELSE rc' = r /\ UNCHANGED life

(* Co\PDO::__construct.  When PDO's constructor throws, the wrapper is     *)
(* destroyed without __destruct.                                           *)
construct(d) ==
  /\ life[d] = "unborn"
  /\ \/ /\ life' = [life EXCEPT ![d] = "live"]
        /\ held' = [held EXCEPT ![d] = 1]
        /\ origin' = [origin EXCEPT ![d] = TRUE]
        /\ rc' = [rc EXCEPT ![d] = origin_refs]
     \/ /\ life' = [life EXCEPT ![d] = "failed"]
        /\ rc' = [rc EXCEPT ![d] = origin_refs - 1]
        /\ UNCHANGED <<held, origin>>
  /\ UNCHANGED <<db, call>>

(* The connection whose descriptor c_convert_to_fd finds for w.            *)
connection(w) == IF w \in Db THEN w ELSE db[w]

Usable(w) ==
  /\ held[w] > 0 /\ origin[w]
  /\ \A c \in Co : call[c] # NULL => connection(call[c]) # connection(w)

(* Co\PDO::prepare and Co\PDOStatement::fetchAll, up to the suspension; of *)
(* a statement without origin fetchAll returns FALSE.                      *)
Call(c, w) ==
  /\ call[c] = NULL /\ Usable(w)
  /\ call' = [call EXCEPT ![c] = w]
  /\ UNCHANGED <<life, held, origin, rc, db>>

prepare(c, d)  == d \in Db /\ Call(c, d)
fetchAll(c, s) == s \in St /\ Call(c, s)

(* aio_invoke for prepare: PDO's prepare gives a statement, which refers   *)
(* to its PDO, or false; either becomes the origin of a new wrapper.  Then *)
(* the coroutine is resumed, which releases the frame and its This.        *)
invoke_prepare(c, s) ==
  LET d == call[c] IN
  /\ d \in Db /\ life[s] = "unborn"
  /\ \E ok \in BOOLEAN :
       LET made == IF ok THEN [rc EXCEPT ![s] = origin_refs, ![d] = @ + 1] ELSE rc
       IN /\ origin' = [origin EXCEPT ![s] = ok]
          /\ IF Refs(d) = 1
             THEN /\ life' = [life EXCEPT ![s] = "live", ![d] = "dead"]
                  /\ rc' = Destroyed(d, made)
             ELSE /\ life' = [life EXCEPT ![s] = "live"]
                  /\ rc' = made
  /\ held' = [held EXCEPT ![s] = 1]
  /\ db' = [db EXCEPT ![s] = d]
  /\ call' = [call EXCEPT ![c] = NULL]

(* ... for fetchAll, which gives rows or false.                            *)
invoke_fetchAll(c) ==
  /\ call[c] \in St
  /\ Release(call[c], rc)
  /\ call' = [call EXCEPT ![c] = NULL]
  /\ UNCHANGED <<held, origin, db>>

(* The script copies a variable or drops one.                              *)
Copy(w) ==
  /\ held[w] \in 1 .. (MaxHeld - 1)
  /\ held' = [held EXCEPT ![w] = @ + 1]
  /\ UNCHANGED <<life, origin, rc, db, call>>

Drop(w) ==
  /\ held[w] > 0
  /\ held' = [held EXCEPT ![w] = @ - 1]
  /\ Release(w, rc)
  /\ UNCHANGED <<origin, db, call>>

Next ==
  \/ \E d \in Db : construct(d)
  \/ \E c \in Co :
       \/ \E d \in Db : prepare(c, d)
       \/ \E s \in St : fetchAll(c, s) \/ invoke_prepare(c, s)
       \/ invoke_fetchAll(c)
  \/ \E w \in W : Copy(w) \/ Drop(w)

Spec == Init /\ [][Next]_vars
-----------------------------------------------------------------------------
(* As long as a wrapper lives, in a variable or under a suspended call,    *)
(* its PDO or PDOStatement object exists and its connection is open, also  *)
(* when the Co\PDO that prepared the statement was dropped meanwhile: the  *)
(* descriptor is not closed under a coroutine that waits.                  *)
OpenWhileUsed ==
  \A w \in W : life[w] = "live" /\ origin[w] =>
    rc[w] > 0 /\ rc[connection(w)] > 0

(* The wrapped objects go when nothing uses them any more, although two    *)
(* references to each are made and only one is the wrapper's: the          *)
(* connection is closed with the last of its Co\PDO and its statements.    *)
(* (A constructor that throws keeps its object, which has no connection.)  *)
ClosedWithLast ==
  \A w \in W : rc[w] > 0 =>
    life[w] \in {"live", "failed"} \/ \E s \in St : db[s] = w /\ rc[s] > 0
=============================================================================
