----------------------------- MODULE CoPdoProofs ----------------------------
(***************************************************************************)
(* The reference counts of PDO and PDOStatement objects, for any number of *)
(* connections, statements and coroutines: a connection is open as long as *)
(* something uses it, and no longer.                                       *)
(***************************************************************************)
EXTENDS CoPdo, FiniteSetTheorems, TLAPS

Called(w) == \E c \in Co : call[c] = w

(* The statements that keep a reference to the PDO object of d.            *)
Using(d) == {s \in St : db[s] = d /\ life[s] = "live" /\ origin[s]}

(* What the wrapper, or the constructor that threw, keeps.                 *)
OwnRefs(d) == IF life[d] = "live" THEN 2 ELSE IF life[d] = "failed" THEN 1 ELSE 0

Types ==
  /\ life \in [W -> {"unborn", "live", "dead", "failed"}]
  /\ held \in [W -> Nat]
  /\ origin \in [W -> BOOLEAN]
  /\ rc \in [W -> Int]
  /\ db \in [St -> Db \cup {NULL}]
  /\ call \in [Co -> W \cup {NULL}]

CalledOnce == \A c, e \in Co : call[c] # NULL /\ call[c] = call[e] => c = e

(* A wrapper lives while a variable or a suspended call refers to it.      *)
LifeInv == \A w \in W : life[w] = "live" <=> held[w] > 0 \/ Called(w)

OriginInv ==
  /\ \A d \in Db : life[d] = "live" => origin[d]
  /\ \A s \in St : life[s] # "unborn" =>
       life[s] # "failed" /\ db[s] \in Db /\ life[db[s]] # "unborn"

(* The counts of the wrapped objects, exactly.                             *)
StatementCount == \A s \in St : rc[s] = IF life[s] = "live" /\ origin[s] THEN 2 ELSE 0
PdoCount(d) == IsFiniteSet(Using(d)) /\ rc[d] = OwnRefs(d) + Cardinality(Using(d))
CountInv == StatementCount /\ \A d \in Db : PdoCount(d)

PdoInv == Types /\ CalledOnce /\ LifeInv /\ OriginInv /\ CountInv

LEMMA RefsFacts ==
  ASSUME Types, CalledOnce, NEW w \in W
  PROVE  Refs(w) = held[w] + (IF Called(w) THEN 1 ELSE 0)
<1> DEFINE S == {c \in Co : call[c] = w}
<1>0. w # NULL  BY CoPdoAssumption DEF W
<1>1. CASE Called(w)
  <2>1. PICK c \in Co : call[c] = w  BY <1>1 DEF Called
  <2>2. S = {c}  BY <1>0, <2>1 DEF CalledOnce
  <2>3. Cardinality(S) = 1  BY <2>2, FS_Singleton
  <2> QED BY <1>1, <2>3 DEF Refs
<1>2. CASE ~Called(w)
  <2>1. S = {}  BY <1>2 DEF Called
  <2>2. Cardinality(S) = 0  BY <2>1, FS_EmptySet
  <2> QED BY <1>2, <2>2 DEF Refs
<1> QED BY <1>1, <1>2

(* A step that leaves the statements of d and its own references alone.    *)
LEMMA CountKept ==
  ASSUME NEW d, PdoCount(d), Using(d)' = Using(d), OwnRefs(d)' = OwnRefs(d), rc'[d] = rc[d]
  PROVE  PdoCount(d)'
BY DEF PdoCount

(* The wrapper w is destroyed: __destruct and PHP take two references, and *)
(* a statement that had an object lets its connection go.                  *)
LEMMA DestroyCounts ==
  ASSUME Types, OriginInv, CountInv, NEW w \in W, life[w] = "live",
         life' = [life EXCEPT ![w] = "dead"], rc' = Destroyed(w, rc), UNCHANGED <<origin, db>>
  PROVE  rc' \in [W -> Int] /\ CountInv'
<1>0. Db \cap St = {} /\ W = Db \cup St /\ NULL \notin W  BY CoPdoAssumption DEF W
<1>1. CASE w \in Db
  <2>1. origin[w] /\ w \notin St  BY <1>0, <1>1 DEF OriginInv
  <2>2. rc' = [rc EXCEPT ![w] = @ - 1 - 1]
    BY <2>1 DEF Destroyed, destruct
  <2>3. StatementCount'  BY <1>0, <1>1, <2>1, <2>2 DEF Types, CountInv, StatementCount
  <2>4. ASSUME NEW d \in Db PROVE PdoCount(d)'
    <3>1. Using(d)' = Using(d)  BY <1>0, <2>1 DEF Using, Types
    <3>2. PdoCount(d) /\ Cardinality(Using(d)) \in Nat  BY FS_CardinalityType DEF CountInv, PdoCount
    <3>3. CASE d # w
      <4>1. OwnRefs(d)' = OwnRefs(d) /\ rc'[d] = rc[d]
        BY <1>0, <2>2, <3>3 DEF OwnRefs, Types
      <4> QED BY <3>1, <3>2, <4>1, CountKept
    <3>4. CASE d = w
      <4>1. OwnRefs(d) = 2 /\ OwnRefs(d)' = 0  BY <3>4 DEF OwnRefs, Types
      <4>2. rc'[d] = rc[d] - 2  BY <2>2, <3>4 DEF Types
      <4> QED BY <3>1, <3>2, <4>1, <4>2 DEF PdoCount
    <3> QED BY <3>3, <3>4
  <2> QED BY <2>2, <2>3, <2>4 DEF Types, CountInv
<1>2. CASE w \in St /\ ~origin[w]
  <2>1. rc[w] = 0  BY <1>2 DEF CountInv, StatementCount
  <2>2. rc' = [rc EXCEPT ![w] = @ - 0 - 0]
    BY <1>2, <2>1 DEF Destroyed, destruct
  <2>3. rc' = rc  BY <2>2 DEF Types
  <2>4. StatementCount'  BY <1>2, <2>3 DEF Types, CountInv, StatementCount
  <2>5. ASSUME NEW d \in Db PROVE PdoCount(d)'
    <3>1. Using(d)' = Using(d)  BY <1>2 DEF Using, Types
    <3>2. OwnRefs(d)' = OwnRefs(d)  BY <1>0, <1>2 DEF OwnRefs, Types
    <3> QED BY <2>3, <3>1, <3>2, CountKept DEF CountInv
  <2> QED BY <2>3, <2>4, <2>5 DEF Types, CountInv
<1>3. CASE w \in St /\ origin[w]
  <2>1. PICK x \in Db : x = db[w]  BY <1>3 DEF OriginInv
  <2>2. rc[w] = 2 /\ x # w  BY <1>0, <1>3, <2>1 DEF CountInv, StatementCount
  <2>3. rc' = [rc EXCEPT ![w] = 0, ![x] = @ - 1]
    <3> DEFINE gone == [rc EXCEPT ![w] = @ - destruct(w) - (IF origin[w] THEN 1 ELSE 0)]
    <3>1. gone = [rc EXCEPT ![w] = 0]  BY <1>3, <2>2 DEF destruct, Types
    <3>2. gone[w] = 0  BY <3>1 DEF Types
    <3>3. rc' = IF w \in St /\ rc[w] > 0 /\ gone[w] = 0 THEN [gone EXCEPT ![db[w]] = @ - 1] ELSE gone
      BY DEF Destroyed
    <3> HIDE DEF gone
    <3>4. rc' = [gone EXCEPT ![x] = @ - 1]  BY <1>3, <2>1, <2>2, <3>2, <3>3
    <3> QED BY <1>0, <2>1, <2>2, <3>1, <3>4 DEF Types
  <2>4. rc' \in [W -> Int]  BY <1>0, <2>1, <2>3 DEF Types
  <2>5. StatementCount'
    BY <1>0, <1>3, <2>1, <2>2, <2>3 DEF Types, CountInv, StatementCount
  <2>6. ASSUME NEW d \in Db PROVE PdoCount(d)'
    <3>1. PdoCount(d) /\ Cardinality(Using(d)) \in Nat  BY FS_CardinalityType DEF CountInv, PdoCount
    <3>2. OwnRefs(d)' = OwnRefs(d)  BY <1>0, <1>3 DEF OwnRefs, Types
    <3>3. CASE d # x
      <4>1. Using(d)' = Using(d)  BY <1>3, <2>1, <3>3 DEF Using, Types
      <4>2. rc'[d] = rc[d]  BY <1>0, <1>3, <2>3, <3>3 DEF Types
      <4> QED BY <3>1, <3>2, <4>1, <4>2, CountKept
    <3>4. CASE d = x
      <4>1. w \in Using(d) /\ Using(d)' = Using(d) \ {w}
        BY <1>3, <2>1, <3>4 DEF Using, Types
      <4>2. IsFiniteSet(Using(d)') /\ Cardinality(Using(d)') = Cardinality(Using(d)) - 1
        BY <3>1, <4>1, FS_RemoveElement DEF PdoCount
      <4>3. rc'[d] = rc[d] - 1  BY <1>0, <2>2, <2>3, <3>4 DEF Types
      <4>4. OwnRefs(d) \in Int  BY DEF OwnRefs
      <4> QED BY <3>1, <3>2, <4>2, <4>3, <4>4 DEF PdoCount
    <3> QED BY <3>3, <3>4
  <2> QED BY <2>4, <2>5, <2>6 DEF CountInv
<1> QED BY <1>0, <1>1, <1>2, <1>3

(* A reference to w is released, of which there is at least one.           *)
LEMMA ReleaseCounts ==
  ASSUME Types, CalledOnce, LifeInv, OriginInv, CountInv, NEW w \in W, life[w] = "live",
         Release(w, rc), UNCHANGED <<origin, db>>
  PROVE  /\ rc' \in [W -> Int] /\ CountInv'
         /\ life' = [life EXCEPT ![w] = IF held[w] + (IF Called(w) THEN 1 ELSE 0) = 1
                                        THEN "dead" ELSE "live"]
<1>1. Refs(w) = held[w] + (IF Called(w) THEN 1 ELSE 0)  BY RefsFacts
<1>2. CASE Refs(w) = 1
  <2>1. life' = [life EXCEPT ![w] = "dead"] /\ rc' = Destroyed(w, rc)  BY <1>2 DEF Release
  <2> QED BY <1>1, <1>2, <2>1, DestroyCounts
<1>3. CASE Refs(w) # 1
  <2>1. rc' = rc /\ life' = life  BY <1>3 DEF Release
  <2>2. life' = [life EXCEPT ![w] = "live"]  BY <2>1 DEF Types
  <2>3. CountInv'  BY <2>1 DEF CountInv, StatementCount, PdoCount, Using, OwnRefs
  <2>4. rc' \in [W -> Int]  BY <2>1 DEF Types
  <2>5. ~(held[w] + (IF Called(w) THEN 1 ELSE 0) = 1)  BY <1>1, <1>3
  <2> HIDE DEF Called
  <2> QED BY <2>2, <2>3, <2>4, <2>5
<1> QED BY <1>2, <1>3

(* A statement of an unborn connection there is not.                       *)
LEMMA UnbornUnused ==
  ASSUME Types, OriginInv, NEW d \in Db, life[d] = "unborn"
  PROVE  Using(d) = {}
BY DEF Using, OriginInv

LEMMA ConstructStep ==
  ASSUME PdoInv, NEW d \in Db, construct(d)
  PROVE  PdoInv'
<1>0. /\ Types /\ CalledOnce /\ LifeInv /\ OriginInv /\ CountInv
      /\ d \in W /\ d \notin St /\ d # NULL /\ W = Db \cup St
  BY CoPdoAssumption DEF PdoInv, W
<1>1. life[d] = "unborn" /\ held[d] = 0 /\ ~Called(d) /\ UNCHANGED <<db, call>>
  BY <1>0 DEF construct, LifeInv, Types
<1>2. Using(d) = {} /\ Cardinality(Using(d)) = 0  BY <1>0, <1>1, UnbornUnused, FS_EmptySet
<1>3. ASSUME life'[d] \in {"live", "failed"}, life'[d] = "live" => origin'[d],
             rc'[d] = IF life'[d] = "live" THEN 2 ELSE 1,
             \A w \in W : w # d => life'[w] = life[w] /\ rc'[w] = rc[w] /\ origin'[w] = origin[w]
      PROVE  CountInv' /\ OriginInv'
  <2>1. StatementCount'  BY <1>0, <1>3 DEF CountInv, StatementCount
  <2>2. ASSUME NEW e \in Db PROVE PdoCount(e)'
    <3>1. Using(e)' = Using(e)  BY <1>0, <1>1, <1>3 DEF Using
    <3>2. CASE e # d
      <4>1. OwnRefs(e)' = OwnRefs(e) /\ rc'[e] = rc[e]  BY <1>0, <1>3, <3>2 DEF OwnRefs
      <4> QED BY <1>0, <3>1, <4>1, CountKept DEF CountInv
    <3>3. CASE e = d
      <4>1. OwnRefs(e)' \in Int /\ rc'[e] = OwnRefs(e)'  BY <1>3, <3>3 DEF OwnRefs
      <4>2. IsFiniteSet(Using(e)') /\ Cardinality(Using(e)') = 0  BY <1>2, <3>1, <3>3, FS_EmptySet
      <4> QED BY <4>1, <4>2 DEF PdoCount
    <3> QED BY <3>2, <3>3
  <2>3. OriginInv'  BY <1>0, <1>1, <1>3 DEF OriginInv
  <2> QED BY <2>1, <2>2, <2>3 DEF CountInv
<1>4. CalledOnce' /\ \A w \in W : Called(w)' <=> Called(w)  BY <1>0, <1>1 DEF CalledOnce, Called
<1>5. CASE life' = [life EXCEPT ![d] = "live"]
  <2>1. /\ held' = [held EXCEPT ![d] = 1] /\ origin' = [origin EXCEPT ![d] = TRUE]
        /\ rc' = [rc EXCEPT ![d] = 2]
    BY <1>0, <1>5 DEF construct, origin_refs, Types
  <2>2. CountInv' /\ OriginInv'
    <3>1. life'[d] = "live" /\ rc'[d] = 2 /\ origin'[d]  BY <1>0, <1>5, <2>1 DEF Types
    <3>2. \A w \in W : w # d => life'[w] = life[w] /\ rc'[w] = rc[w] /\ origin'[w] = origin[w]
      BY <1>0, <1>5, <2>1 DEF Types
    <3> QED BY <1>3, <3>1, <3>2
  <2>3. LifeInv'  BY <1>0, <1>1, <1>4, <1>5, <2>1 DEF LifeInv, Types
  <2> QED BY <1>0, <1>1, <1>4, <1>5, <2>1, <2>2, <2>3 DEF PdoInv, Types
<1>6. CASE life' = [life EXCEPT ![d] = "failed"]
  <2>1. UNCHANGED <<held, origin>> /\ rc' = [rc EXCEPT ![d] = 1]
    BY <1>0, <1>6 DEF construct, origin_refs, Types
  <2>2. CountInv' /\ OriginInv'
    <3>1. life'[d] = "failed" /\ rc'[d] = 1  BY <1>0, <1>6, <2>1 DEF Types
    <3>2. \A w \in W : w # d => life'[w] = life[w] /\ rc'[w] = rc[w] /\ origin'[w] = origin[w]
      BY <1>0, <1>6, <2>1 DEF Types
    <3> QED BY <1>3, <3>1, <3>2
  <2>3. LifeInv'  BY <1>0, <1>1, <1>4, <1>6, <2>1 DEF LifeInv, Types
  <2> QED BY <1>0, <1>1, <1>4, <1>6, <2>1, <2>2, <2>3 DEF PdoInv, Types
<1> QED BY <1>5, <1>6 DEF construct

(* prepare and fetchAll up to the suspension.                              *)
LEMMA CallStep ==
  ASSUME PdoInv, NEW c \in Co, NEW w \in W, Call(c, w)
  PROVE  PdoInv'
<1>0. Types /\ CalledOnce /\ LifeInv /\ OriginInv /\ CountInv /\ w # NULL
  BY CoPdoAssumption DEF PdoInv, W
<1>1. /\ call[c] = NULL /\ held[w] > 0 /\ call' = [call EXCEPT ![c] = w]
      /\ \A e \in Co : call[e] # w
      /\ UNCHANGED <<life, held, origin, rc, db>>
  BY <1>0 DEF Call, Usable
<1>2. Types'  BY <1>0, <1>1 DEF Types
<1>3. CalledOnce'  BY <1>0, <1>1 DEF CalledOnce, Types
<1>4. LifeInv'
  <2>1. \A v \in W : v # w => (Called(v)' <=> Called(v))
    BY <1>0, <1>1, CoPdoAssumption DEF Called, Types, W
  <2> QED BY <1>0, <1>1, <2>1 DEF LifeInv
<1>5. OriginInv'  BY <1>0, <1>1 DEF OriginInv
<1>6. CountInv'  BY <1>0, <1>1 DEF CountInv, StatementCount, PdoCount, Using, OwnRefs
<1> QED BY <1>2, <1>3, <1>4, <1>5, <1>6 DEF PdoInv

(* The variables of a wrapper that is copied or dropped.                   *)
LEMMA CopyStep ==
  ASSUME PdoInv, NEW w \in W, Copy(w)
  PROVE  PdoInv'
<1>0. Types /\ CalledOnce /\ LifeInv /\ OriginInv /\ CountInv  BY DEF PdoInv
<1>1. held[w] > 0 /\ held' = [held EXCEPT ![w] = @ + 1] /\ UNCHANGED <<life, origin, rc, db, call>>
  BY CoPdoAssumption DEF Copy
<1>2. Types'  BY <1>0, <1>1 DEF Types
<1>3. CalledOnce'  BY <1>0, <1>1 DEF CalledOnce
<1>4. LifeInv'  BY <1>0, <1>1 DEF LifeInv, Called, Types
<1>5. OriginInv'  BY <1>0, <1>1 DEF OriginInv
<1>6. CountInv'  BY <1>0, <1>1 DEF CountInv, StatementCount, PdoCount, Using, OwnRefs
<1> QED BY <1>2, <1>3, <1>4, <1>5, <1>6 DEF PdoInv

LEMMA DropStep ==
  ASSUME PdoInv, NEW w \in W, Drop(w)
  PROVE  PdoInv'
<1>0. Types /\ CalledOnce /\ LifeInv /\ OriginInv /\ CountInv  BY DEF PdoInv
<1>1. /\ held[w] \in Nat /\ held[w] > 0 /\ held' = [held EXCEPT ![w] = @ - 1]
      /\ Release(w, rc) /\ UNCHANGED <<origin, db, call>>
  BY <1>0 DEF Drop, Types
<1>2. life[w] = "live"  BY <1>0, <1>1 DEF LifeInv
<1>3. /\ rc' \in [W -> Int] /\ CountInv'
      /\ life' = [life EXCEPT ![w] = IF held[w] + (IF Called(w) THEN 1 ELSE 0) = 1
                                     THEN "dead" ELSE "live"]
  BY <1>0, <1>1, <1>2, ReleaseCounts
<1>4. \A v \in W : Called(v)' <=> Called(v)  BY <1>1 DEF Called
<1>5. Types'  BY <1>0, <1>1, <1>3 DEF Types
<1>6. CalledOnce'  BY <1>0, <1>1 DEF CalledOnce
<1>7. LifeInv'
  <2> SUFFICES ASSUME NEW v \in W PROVE (life[v] = "live" <=> held[v] > 0 \/ Called(v))'
    BY DEF LifeInv
  <2>1. CASE v # w  BY <1>0, <1>1, <1>3, <1>4, <2>1 DEF LifeInv, Types
  <2>2. CASE v = w
    <3>1. held'[v] = held[w] - 1  BY <1>0, <1>1, <2>2 DEF Types
    <3>2. life'[v] = IF held[w] + (IF Called(w) THEN 1 ELSE 0) = 1 THEN "dead" ELSE "live"
      BY <1>0, <1>3, <2>2 DEF Types
    <3> QED BY <1>1, <1>4, <2>2, <3>1, <3>2
  <2> QED BY <2>1, <2>2
<1>8. OriginInv'  BY <1>0, <1>1, <1>2, <1>3 DEF OriginInv, Types, W
<1> QED BY <1>3, <1>5, <1>6, <1>7, <1>8 DEF PdoInv

(* fetchAll returns: the frame's reference to the statement goes.          *)
LEMMA FetchStep ==
  ASSUME PdoInv, NEW c \in Co, invoke_fetchAll(c)
  PROVE  PdoInv'
<1>0. Types /\ CalledOnce /\ LifeInv /\ OriginInv /\ CountInv /\ NULL \notin W
  BY CoPdoAssumption DEF PdoInv, W
<1>1. PICK w \in W : w = call[c]  BY DEF invoke_fetchAll, W
<1>2. /\ Release(w, rc) /\ call' = [call EXCEPT ![c] = NULL] /\ UNCHANGED <<held, origin, db>>
  BY <1>1 DEF invoke_fetchAll
<1>3. Called(w) /\ life[w] = "live" /\ held[w] \in Nat  BY <1>0, <1>1 DEF Called, LifeInv, Types
<1>4. /\ rc' \in [W -> Int] /\ CountInv'
      /\ life' = [life EXCEPT ![w] = IF held[w] + (IF Called(w) THEN 1 ELSE 0) = 1
                                     THEN "dead" ELSE "live"]
  BY <1>0, <1>2, <1>3, ReleaseCounts
<1>5. ~Called(w)' /\ \A v \in W : v # w => (Called(v)' <=> Called(v))
  BY <1>0, <1>1, <1>2 DEF Called, CalledOnce, Types
<1>6. Types'  BY <1>0, <1>2, <1>4 DEF Types
<1>7. CalledOnce'  BY <1>0, <1>2 DEF CalledOnce, Types
<1>8. LifeInv'
  <2> SUFFICES ASSUME NEW v \in W PROVE (life[v] = "live" <=> held[v] > 0 \/ Called(v))'
    BY DEF LifeInv
  <2>1. CASE v # w  BY <1>0, <1>2, <1>4, <1>5, <2>1 DEF LifeInv, Types
  <2>2. CASE v = w
    <3>1. life'[v] = IF held[w] + 1 = 1 THEN "dead" ELSE "live"
      BY <1>0, <1>3, <1>4, <2>2 DEF Types
    <3> QED BY <1>2, <1>3, <1>5, <2>2, <3>1
  <2> QED BY <2>1, <2>2
<1>9. OriginInv'  BY <1>0, <1>2, <1>3, <1>4 DEF OriginInv, Types, W
<1> QED BY <1>4, <1>6, <1>7, <1>8, <1>9 DEF PdoInv

(* prepare returns: a wrapper of the statement, or of false, is made and   *)
(* the frame's reference to the Co\PDO goes.  In between the count of the  *)
(* connection grows by the statement's reference.                          *)
LEMMA PrepareStep ==
  ASSUME PdoInv, NEW c \in Co, NEW s \in St, invoke_prepare(c, s)
  PROVE  PdoInv'
<1>0. /\ Types /\ CalledOnce /\ LifeInv /\ OriginInv /\ CountInv
      /\ NULL \notin W /\ W = Db \cup St /\ Db \cap St = {}
  BY CoPdoAssumption DEF PdoInv, W
<1>1. PICK d \in Db : d = call[c]  BY DEF invoke_prepare
<1> DEFINE made(ok) == IF ok THEN [rc EXCEPT ![s] = origin_refs, ![d] = @ + 1] ELSE rc
<1>2. d \in W /\ s \in W /\ d # s /\ d # NULL /\ d \notin St /\ s \notin Db  BY <1>0
<1>3. Called(d) /\ life[d] = "live" /\ held[d] \in Nat /\ origin[d]
  BY <1>0, <1>1, <1>2 DEF Called, LifeInv, OriginInv, Types
<1>4. Refs(d) = held[d] + 1  BY <1>0, <1>2, <1>3, RefsFacts
<1>5. /\ life[s] = "unborn" /\ held' = [held EXCEPT ![s] = 1] /\ db' = [db EXCEPT ![s] = d]
      /\ call' = [call EXCEPT ![c] = NULL]
  BY <1>1 DEF invoke_prepare
<1>6. PICK ok \in BOOLEAN :
        /\ origin' = [origin EXCEPT ![s] = ok]
        /\ life' = [life EXCEPT ![s] = "live", ![d] = IF held[d] = 0 THEN "dead" ELSE "live"]
        /\ rc' = [rc EXCEPT ![s] = IF ok THEN 2 ELSE 0,
                            ![d] = rc[d] + (IF ok THEN 1 ELSE 0) - (IF held[d] = 0 THEN 2 ELSE 0)]
  <2>1. PICK ok \in BOOLEAN :
          /\ origin' = [origin EXCEPT ![s] = ok]
          /\ IF Refs(d) = 1
             THEN /\ life' = [life EXCEPT ![s] = "live", ![d] = "dead"]
                  /\ rc' = Destroyed(d, made(ok))
             ELSE /\ life' = [life EXCEPT ![s] = "live"]
                  /\ rc' = made(ok)
    BY <1>1 DEF invoke_prepare
  <2>2. made(ok) = [rc EXCEPT ![s] = IF ok THEN 2 ELSE 0, ![d] = rc[d] + (IF ok THEN 1 ELSE 0)]
    <3>1. rc[s] = 0  BY <1>0, <1>5 DEF CountInv, StatementCount
    <3>2. CASE ok  BY <1>0, <1>2, <3>2 DEF Types, origin_refs
    <3>3. CASE ~ok  BY <1>0, <1>2, <3>1, <3>3 DEF Types
    <3> QED BY <3>2, <3>3
  <2> HIDE DEF made
  <2>3. CASE held[d] = 0
    <3>1. Refs(d) = 1  BY <1>3, <1>4, <2>3
    <3>2. rc' = Destroyed(d, made(ok)) /\ life' = [life EXCEPT ![s] = "live", ![d] = "dead"]
      BY <2>1, <3>1
    <3>3. rc' = [made(ok) EXCEPT ![d] = @ - 1 - 1]  BY <1>2, <1>3, <3>2 DEF Destroyed, destruct
    <3>4. rc' = [rc EXCEPT ![s] = IF ok THEN 2 ELSE 0,
                           ![d] = rc[d] + (IF ok THEN 1 ELSE 0) - 1 - 1]
      BY <1>0, <1>2, <2>2, <3>3 DEF Types
    <3>5. rc[d] + (IF ok THEN 1 ELSE 0) - 1 - 1 = rc[d] + (IF ok THEN 1 ELSE 0) - 2
      BY <1>0, <1>2 DEF Types
    <3> QED BY <2>1, <2>3, <3>2, <3>4, <3>5
  <2>4. CASE held[d] # 0
    <3>1. Refs(d) # 1  BY <1>3, <1>4, <2>4
    <3>2. rc' = made(ok) /\ life' = [life EXCEPT ![s] = "live"]  BY <2>1, <3>1
    <3>3. life' = [life EXCEPT ![s] = "live", ![d] = "live"]
      BY <1>0, <1>2, <1>3, <3>2 DEF Types
    <3>4. rc[d] + (IF ok THEN 1 ELSE 0) = rc[d] + (IF ok THEN 1 ELSE 0) - 0
      BY <1>0, <1>2 DEF Types
    <3> QED BY <2>1, <2>2, <2>4, <3>2, <3>3, <3>4
  <2> QED BY <2>3, <2>4
<1> HIDE DEF made
<1>7. Types'
  <2>1. rc[d] + (IF ok THEN 1 ELSE 0) - (IF held[d] = 0 THEN 2 ELSE 0) \in Int
    BY <1>0, <1>2 DEF Types
  <2>2. rc' \in [W -> Int]  BY <1>0, <1>2, <1>6, <2>1 DEF Types
  <2>3. life' \in [W -> {"unborn", "live", "dead", "failed"}]  BY <1>0, <1>2, <1>6 DEF Types
  <2> QED BY <1>0, <1>2, <1>5, <1>6, <2>2, <2>3 DEF Types
<1>8. CalledOnce'  BY <1>0, <1>5 DEF CalledOnce, Types
<1>9. ~Called(d)' /\ \A v \in W : v # d => (Called(v)' <=> Called(v))
  BY <1>0, <1>1, <1>2, <1>5 DEF Called, CalledOnce, Types
<1>10. LifeInv'
  <2> SUFFICES ASSUME NEW v \in W PROVE (life[v] = "live" <=> held[v] > 0 \/ Called(v))'
    BY DEF LifeInv
  <2>1. CASE v # s /\ v # d
    <3>1. life'[v] = life[v] /\ held'[v] = held[v]  BY <1>0, <1>5, <1>6, <2>1 DEF Types
    <3> QED BY <1>0, <1>9, <2>1, <3>1 DEF LifeInv
  <2>2. CASE v = s
    <3>1. life'[v] = "live" /\ held'[v] = 1  BY <1>0, <1>2, <1>5, <1>6, <2>2 DEF Types
    <3> QED BY <3>1
  <2>3. CASE v = d
    <3>1. life'[v] = (IF held[d] = 0 THEN "dead" ELSE "live") /\ held'[v] = held[d]
      BY <1>0, <1>2, <1>5, <1>6, <2>3 DEF Types
    <3> QED BY <1>3, <1>9, <2>3, <3>1
  <2> QED BY <2>1, <2>2, <2>3
<1>11. OriginInv'
  <2>1. \A v \in W : v # s /\ v # d => life'[v] = life[v]  BY <1>0, <1>6 DEF Types
  <2>2. life'[s] = "live" /\ life'[d] \in {"live", "dead"}  BY <1>0, <1>2, <1>6 DEF Types
  <2>3. \A v \in W : v # s => origin'[v] = origin[v]  BY <1>0, <1>6 DEF Types
  <2>4. db'[s] = d /\ \A v \in St : v # s => db'[v] = db[v]  BY <1>0, <1>5 DEF Types
  <2>5. \A e \in Db : life'[e] = "live" => origin'[e]
    BY <1>0, <1>2, <1>3, <2>1, <2>3 DEF OriginInv
  <2>6. ASSUME NEW v \in St, life'[v] # "unborn"
        PROVE  life'[v] # "failed" /\ db'[v] \in Db /\ life'[db'[v]] # "unborn"
    <3>1. CASE v = s  BY <2>2, <2>4, <3>1
    <3>2. CASE v # s
      <4>1. life[v] # "unborn" /\ life'[v] = life[v] /\ db'[v] = db[v]
        BY <1>0, <1>2, <2>1, <2>4, <2>6, <3>2
      <4> QED BY <1>0, <1>2, <2>1, <2>2, <4>1 DEF OriginInv
    <3> QED BY <3>1, <3>2
  <2> QED BY <2>5, <2>6 DEF OriginInv
<1>12. StatementCount'
  <2> SUFFICES ASSUME NEW v \in St
               PROVE  (rc[v] = IF life[v] = "live" /\ origin[v] THEN 2 ELSE 0)'
    BY DEF StatementCount
  <2>1. CASE v = s
    <3>1. rc'[v] = (IF ok THEN 2 ELSE 0) /\ life'[v] = "live" /\ origin'[v] = ok
      BY <1>0, <1>2, <1>6, <2>1 DEF Types
    <3> QED BY <3>1
  <2>2. CASE v # s
    <3>1. rc'[v] = rc[v] /\ life'[v] = life[v] /\ origin'[v] = origin[v]
      BY <1>0, <1>2, <1>6, <2>2 DEF Types
    <3> QED BY <1>0, <3>1 DEF CountInv, StatementCount
  <2> QED BY <2>1, <2>2
<1>13. ASSUME NEW e \in Db PROVE PdoCount(e)'
  <2>1. PdoCount(e) /\ Cardinality(Using(e)) \in Nat
    BY <1>0, FS_CardinalityType DEF CountInv, PdoCount
  <2>2. /\ \A v \in St : v # s => life'[v] = life[v] /\ origin'[v] = origin[v] /\ db'[v] = db[v]
        /\ life'[s] = "live" /\ origin'[s] = ok /\ db'[s] = d /\ s \notin Using(e)
    BY <1>0, <1>2, <1>5, <1>6 DEF Types, Using
  <2>3. CASE e # d
    <3>1. Using(e)' = Using(e)  BY <2>2, <2>3 DEF Using
    <3>2. OwnRefs(e)' = OwnRefs(e) /\ rc'[e] = rc[e]  BY <1>0, <1>2, <1>6, <2>3 DEF OwnRefs, Types
    <3> QED BY <2>1, <3>1, <3>2, CountKept
  <2>4. CASE e = d
    <3>1. Using(e)' = IF ok THEN Using(e) \cup {s} ELSE Using(e)  BY <2>2, <2>4 DEF Using
    <3>2. /\ IsFiniteSet(Using(e)')
          /\ Cardinality(Using(e)') = Cardinality(Using(e)) + (IF ok THEN 1 ELSE 0)
      <4>1. /\ IsFiniteSet(Using(e) \cup {s})
            /\ Cardinality(Using(e) \cup {s}) = Cardinality(Using(e)) + 1
        BY <2>1, <2>2, FS_AddElement DEF PdoCount
      <4>2. CASE ok  BY <3>1, <4>1, <4>2
      <4>3. CASE ~ok  BY <2>1, <3>1, <4>3 DEF PdoCount
      <4> QED BY <4>2, <4>3
    <3>3. life'[e] = IF held[d] = 0 THEN "dead" ELSE "live"  BY <1>0, <1>2, <1>6, <2>4 DEF Types
    <3>4. OwnRefs(e) = 2 /\ OwnRefs(e)' = IF held[d] = 0 THEN 0 ELSE 2
      BY <1>3, <2>4, <3>3 DEF OwnRefs
    <3>5. rc'[e] = rc[e] + (IF ok THEN 1 ELSE 0) - (IF held[d] = 0 THEN 2 ELSE 0)
      BY <1>0, <1>2, <1>6, <2>4 DEF Types
    <3>6. rc[e] = 2 + Cardinality(Using(e))  BY <2>1, <3>4 DEF PdoCount
    <3> QED BY <2>1, <3>2, <3>4, <3>5, <3>6 DEF PdoCount
  <2> QED BY <2>3, <2>4
<1> QED BY <1>7, <1>8, <1>10, <1>11, <1>12, <1>13 DEF PdoInv, CountInv
-----------------------------------------------------------------------------
LEMMA PdoInvInit == Init => PdoInv
<1> SUFFICES ASSUME Init PROVE PdoInv  OBVIOUS
<1>1. Types /\ CalledOnce /\ OriginInv  BY CoPdoAssumption DEF Init, Types, CalledOnce, OriginInv, W
<1>2. LifeInv  BY CoPdoAssumption DEF Init, LifeInv, Called, W
<1>3. StatementCount  BY DEF Init, StatementCount, W
<1>4. ASSUME NEW d \in Db PROVE PdoCount(d)
  <2>1. Using(d) = {}  BY DEF Init, Using, W
  <2>2. rc[d] = 0 /\ OwnRefs(d) = 0  BY DEF Init, OwnRefs, W
  <2> QED BY <2>1, <2>2, FS_EmptySet DEF PdoCount
<1> QED BY <1>1, <1>2, <1>3, <1>4 DEF PdoInv, CountInv

LEMMA PdoInvStep == PdoInv /\ [Next]_vars => PdoInv'
<1> SUFFICES ASSUME PdoInv, [Next]_vars PROVE PdoInv'  OBVIOUS
<1>0. Db \subseteq W /\ St \subseteq W  BY DEF W
<1>1. ASSUME NEW d \in Db, construct(d) PROVE PdoInv'  BY <1>1, ConstructStep
<1>2. ASSUME NEW c \in Co, NEW d \in Db, prepare(c, d) PROVE PdoInv'
  BY <1>0, <1>2, CallStep DEF prepare
<1>3. ASSUME NEW c \in Co, NEW s \in St, fetchAll(c, s) PROVE PdoInv'
  BY <1>0, <1>3, CallStep DEF fetchAll
<1>4. ASSUME NEW c \in Co, NEW s \in St, invoke_prepare(c, s) PROVE PdoInv'  BY <1>4, PrepareStep
<1>5. ASSUME NEW c \in Co, invoke_fetchAll(c) PROVE PdoInv'  BY <1>5, FetchStep
<1>6. ASSUME NEW w \in W, Copy(w) PROVE PdoInv'  BY <1>6, CopyStep
<1>7. ASSUME NEW w \in W, Drop(w) PROVE PdoInv'  BY <1>7, DropStep
<1>8. CASE UNCHANGED vars
  BY <1>8 DEF vars, PdoInv, Types, CalledOnce, LifeInv, Called, OriginInv, CountInv,
              StatementCount, PdoCount, Using, OwnRefs
<1> QED BY <1>1, <1>2, <1>3, <1>4, <1>5, <1>6, <1>7, <1>8 DEF Next

LEMMA PdoInvAlways == Spec => []PdoInv
BY PdoInvInit, PdoInvStep, PTL DEF Spec

(* No connection is closed under a wrapper that lives (OpenWhileUsed): a   *)
(* suspended prepare or fetchAll finds its PDO or PDOStatement object and  *)
(* the descriptor it waits for, whatever the other coroutines drop.  The   *)
(* counts are exact, so a living wrapper's two references are there, and   *)
(* a living statement is one of the set its connection counts.             *)
THEOREM ConnectionOpenWhileUsed == Spec => []OpenWhileUsed
<1>1. PdoInv => OpenWhileUsed
  <2> SUFFICES ASSUME PdoInv, NEW w \in W, life[w] = "live", origin[w]
               PROVE  rc[w] > 0 /\ rc[connection(w)] > 0
    BY DEF OpenWhileUsed
  <2>0. ASSUME NEW d \in Db
        PROVE  /\ IsFiniteSet(Using(d)) /\ Cardinality(Using(d)) \in Nat
               /\ rc[d] = OwnRefs(d) + Cardinality(Using(d)) /\ OwnRefs(d) \in Nat
    <3>1. PdoCount(d)  BY DEF PdoInv, CountInv
    <3> QED BY <3>1, FS_CardinalityType DEF PdoCount, OwnRefs
  <2>1. CASE w \in Db
    <3>1. OwnRefs(w) = 2  BY DEF OwnRefs
    <3> QED BY <2>0, <2>1, <3>1 DEF connection
  <2>2. CASE w \in St
    <3>1. rc[w] = 2  BY <2>2 DEF PdoInv, CountInv, StatementCount
    <3>2. db[w] \in Db /\ w \in Using(db[w])  BY <2>2 DEF PdoInv, OriginInv, Using
    <3>3. Cardinality(Using(db[w])) # 0  BY <2>0, <3>2, FS_EmptySet
    <3>4. connection(w) = db[w]  BY <2>2, CoPdoAssumption DEF connection
    <3> QED BY <2>0, <3>1, <3>2, <3>3, <3>4
  <2> QED BY <2>1, <2>2 DEF W
<1> QED BY <1>1, PdoInvAlways, PTL

(* No connection outlives what uses it (ClosedWithLast): the reference     *)
(* that the constructor and aio_invoke leave behind is the one __destruct  *)
(* takes, in every order in which wrappers go.                             *)
THEOREM ConnectionClosedWithLast == Spec => []ClosedWithLast
<1>1. PdoInv => ClosedWithLast
  <2> SUFFICES ASSUME PdoInv, NEW w \in W, rc[w] > 0,
                      life[w] # "live", life[w] # "failed"
               PROVE  \E s \in St : db[s] = w /\ rc[s] > 0
    BY DEF ClosedWithLast
  <2>1. w \in Db  BY DEF PdoInv, CountInv, StatementCount, W
  <2>2. OwnRefs(w) = 0 /\ PdoCount(w)  BY <2>1 DEF OwnRefs, PdoInv, CountInv
  <2>3. Cardinality(Using(w)) # 0
    <3>1. Cardinality(Using(w)) \in Nat  BY <2>2, FS_CardinalityType DEF PdoCount
    <3> QED BY <2>2, <3>1 DEF PdoCount
  <2>4. PICK s \in Using(w) : TRUE  BY <2>2, <2>3, FS_EmptySet
  <2>5. s \in St /\ db[s] = w /\ rc[s] = 2
    BY <2>4 DEF Using, PdoInv, CountInv, StatementCount
  <2> QED BY <2>5
<1> QED BY <1>1, PdoInvAlways, PTL
=============================================================================
