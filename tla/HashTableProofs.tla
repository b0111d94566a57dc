-------------------------- MODULE HashTableProofs ---------------------------
(***************************************************************************)
(* The hash table for all keys, values and table sizes: it frees no value  *)
(* twice, and it is a store in which each key has its own value.           *)
(***************************************************************************)
EXTENDS HashTable, CommonLemmas, FiniteSetTheorems, TLAPS

(* The steps of hash_33 on key, as the function that its loop computes.    *)
Steps(key, n, f) ==
  f = [i \in 0 .. n |-> IF i = 0 THEN 0 ELSE (f[i - 1] * 33 + key[i]) % UIntSize]

(* The loop computes a number after every char.                            *)
LEMMA HashIsNumber ==
  ASSUME NEW key \in Key
  PROVE  hash_33(key) \in Nat
  <1>0. key \in Seq(-128 .. 127) /\ Len(key) \in Nat /\ UIntSize \in Nat \ {0}
    BY HashTableAssumption
  <1>1. \A i \in 1 .. Len(key) : key[i] \in Int
    <2>1. \A i \in 1 .. Len(key) : key[i] \in (-128) .. 127  BY <1>0, ElementOfSeq
    <2>2. \A c \in (-128) .. 127 : c \in Int  OBVIOUS
    <2> QED  BY <2>1, <2>2
  <1> DEFINE P(n) == \E f \in [0 .. n -> Nat] : Steps(key, n, f)
             Bad == {n \in 0 .. Len(key) : ~P(n)}
  <1>2. P(0)
    <2> DEFINE f == [i \in 0 .. 0 |-> 0]
    <2>1. f \in [0 .. 0 -> Nat]  OBVIOUS
    <2>2. Steps(key, 0, f)  BY DEF Steps
    <2> QED  BY <2>1, <2>2
  <1>3. ASSUME NEW n \in 0 .. Len(key), n # 0, P(n - 1) PROVE P(n)
    <2>1. n \in 1 .. Len(key) /\ n - 1 \in 0 .. Len(key) /\ n \in Nat /\ n - 1 \in Nat  BY <1>0, <1>3
    <2>2. PICK f \in [0 .. (n - 1) -> Nat] : Steps(key, n - 1, f)  BY <1>3
    <2> DEFINE last == (f[n - 1] * 33 + key[n]) % UIntSize
               g == [i \in 0 .. n |-> IF i = n THEN last ELSE f[i]]
    <2>3. last \in Nat
      <3>1. f[n - 1] \in Nat /\ key[n] \in Int  BY <1>1, <2>1
      <3>2. f[n - 1] * 33 + key[n] \in Int  BY <3>1
      <3> QED  BY <1>0, <3>2
    <2>4. g \in [0 .. n -> Nat]
      <3> HIDE DEF last
      <3>1. \A i \in 0 .. n : i = n \/ i \in 0 .. (n - 1)  BY <2>1
      <3> QED  BY <2>3, <3>1
    <2>5. ASSUME NEW i \in 0 .. n
          PROVE  g[i] = IF i = 0 THEN 0 ELSE (g[i - 1] * 33 + key[i]) % UIntSize
      <3>1. CASE i = n
        <4>1. g[n - 1] = f[n - 1] /\ g[n] = last  BY <2>1
        <4> QED  BY <2>1, <3>1, <4>1
      <3>2. CASE i # n
        <4>1. i \in 0 .. (n - 1)  BY <2>1, <3>2
        <4>2. f[i] = IF i = 0 THEN 0 ELSE (f[i - 1] * 33 + key[i]) % UIntSize
          BY <2>2, <4>1 DEF Steps
        <4>3. g[i] = f[i] /\ (i # 0 => g[i - 1] = f[i - 1])
          <5> HIDE DEF last
          <5> QED  BY <2>1, <3>2, <4>1
        <4> HIDE DEF g
        <4> QED  BY <4>2, <4>3
      <3> QED  BY <3>1, <3>2
    <2>6. Steps(key, n, g)
      <3> DEFINE h == [i \in 0 .. n |-> IF i = 0 THEN 0 ELSE (g[i - 1] * 33 + key[i]) % UIntSize]
      <3>1. g = [i \in 0 .. n |-> g[i]]  OBVIOUS
      <3> HIDE DEF g
      <3>2. h = [i \in 0 .. n |-> g[i]]  BY <2>5
      <3> QED  BY <3>1, <3>2 DEF Steps
    <2> QED  BY <2>4, <2>6
  <1>4. P(Len(key))
    <2> SUFFICES ASSUME ~P(Len(key)) PROVE FALSE  OBVIOUS
    <2>1. Bad \subseteq Nat /\ Len(key) \in Bad
      <3> HIDE DEF P
      <3> QED  BY <1>0
    <2>2. PICK n \in Bad : \A m \in Bad : n <= m
      <3> HIDE DEF Bad
      <3> QED  BY <2>1, LeastNat
    <2> HIDE DEF P
    <2>3. n \in 0 .. Len(key) /\ n # 0  BY <1>2, <2>2
    <2>4. n - 1 \in 0 .. Len(key) /\ ~(n <= n - 1)  BY <1>0, <2>3
    <2>5. P(n - 1)  BY <2>2, <2>4
    <2> QED  BY <1>3, <2>2, <2>3, <2>5
  <1>5. PICK f \in [0 .. Len(key) -> Nat] : Steps(key, Len(key), f)  BY <1>4
  <1> DEFINE hash[n \in 0 .. Len(key)] ==
               IF n = 0 THEN 0 ELSE (hash[n - 1] * 33 + key[n]) % UIntSize
  <1>6. Steps(key, Len(key), hash)  BY <1>5 DEF Steps
  <1>7. hash_33(key) = hash[Len(key)]  BY DEF hash_33
  <1> HIDE DEF hash
  <1>8. ASSUME NEW n \in 0 .. Len(key), hash[n] # f[n]
        PROVE  n - 1 \in 0 .. Len(key) /\ hash[n - 1] # f[n - 1]
    <2>1. hash[n] = IF n = 0 THEN 0 ELSE (hash[n - 1] * 33 + key[n]) % UIntSize
      BY <1>6 DEF Steps
    <2>2. f[n] = IF n = 0 THEN 0 ELSE (f[n - 1] * 33 + key[n]) % UIntSize
      BY <1>5 DEF Steps
    <2>3. n # 0  BY <1>8, <2>1, <2>2
    <2>4. n - 1 \in 0 .. Len(key)  BY <1>0, <2>3
    <2> QED  BY <1>8, <2>1, <2>2, <2>3, <2>4
  <1>9. hash[Len(key)] = f[Len(key)]
    <2> DEFINE Differ == {n \in 0 .. Len(key) : hash[n] # f[n]}
    <2> SUFFICES ASSUME Differ # {} PROVE FALSE  BY <1>0
    <2>1. Differ \subseteq Nat  BY <1>0
    <2>2. PICK n \in Differ : \A m \in Differ : n <= m
      <3> HIDE DEF Differ
      <3> QED  BY <2>1, LeastNat
    <2>3. n - 1 \in Differ  BY <1>8
    <2>4. n \in Nat /\ n <= n - 1  BY <2>1, <2>2, <2>3
    <2> QED  BY <2>4
  <1> QED  BY <1>0, <1>5, <1>7, <1>9

(* Every key has an index of the table.                                    *)
LEMMA IndexInTable == index \in [Key -> Index]
  <1>1. ASSUME NEW n \in Nat PROVE n % TableSize \in Index
    BY HashTableAssumption DEF Index
  <1> QED  BY <1>1, HashIsNumber DEF index
-----------------------------------------------------------------------------
(* The invariant, in parts that say something of a table t.                *)
Elem   == [key : Key, value : Value, free_value : BOOLEAN]
Tables == [Index -> Seq(Elem)]

(* An element is in the chain of its key.                                  *)
Placed(t) == \A i \in Index : \A m \in DOMAIN t[i] : index[t[i][m].key] = i

(* A key is in its chain once.                                             *)
UniqueKeys(t) ==
  \A i \in Index : \A m, n \in DOMAIN t[i] : t[i][m].key = t[i][n].key => m = n

(* A value is in the table once.                                           *)
UniqueValues(t) ==
  \A i, j \in Index : \A m \in DOMAIN t[i], n \in DOMAIN t[j] :
    t[i][m].value = t[j][n].value => i = j /\ m = n

(* The values in the table were put and not freed.                         *)
Live(t, u, f) == \A i \in Index : \A m \in DOMAIN t[i] :
                   t[i][m].value \in u /\ f[t[i][m].value] = 0

TypeInv ==
  /\ ht \in {"none", "open", "deleted", "died"}
  /\ used \in SUBSET Value
  /\ freed \in [Value -> Nat]

Sound(t) == t \in Tables /\ Placed(t) /\ UniqueKeys(t) /\ UniqueValues(t)

(* A value is freed at most once, and not before it was put.               *)
FreedInv ==
  /\ Live(table, used, freed)
  /\ \A v \in Value : freed[v] <= 1 /\ (v \notin used => freed[v] = 0)

HashInv == TypeInv /\ Sound(table) /\ FreedInv

(* key is at m in its chain.                                               *)
Has(t, key, m) == m \in DOMAIN t[index[key]] /\ t[index[key]][m].key = key

(* Find in a given table.                                                  *)
FindIn(t, key) ==
  LET I == {i \in DOMAIN t[index[key]] : t[index[key]][i].key = key}
  IN IF I = {} THEN NULL ELSE CHOOSE i \in I : \A j \in I : i <= j

(* Find gives the one place where key is, and NULL when there is none.     *)
LEMMA FindPlace ==
  ASSUME NEW t \in Tables, UniqueKeys(t), NEW key \in Key
  PROVE  /\ FindIn(t, key) # NULL => Has(t, key, FindIn(t, key))
         /\ \A m : Has(t, key, m) => FindIn(t, key) = m /\ m # NULL
  <1> DEFINE c == t[index[key]]
             I == {i \in DOMAIN c : c[i].key = key}
  <1>1. index[key] \in Index /\ c \in Seq(Elem)  BY IndexInTable DEF Tables
  <1>2. DOMAIN c \subseteq Nat  BY <1>1
  <1>3. NULL \notin Nat  BY HashTableAssumption
  <1>4. \A i, j \in I : i = j  BY <1>1 DEF UniqueKeys
  <1>5. FindIn(t, key) = IF I = {} THEN NULL ELSE CHOOSE i \in I : \A j \in I : i <= j
    BY DEF FindIn
  <1>6. \A m : m \in I <=> Has(t, key, m)  BY DEF Has
  <1>7. I \subseteq Nat  BY <1>2
  <1> HIDE DEF c, I
  <1>8. ASSUME I # {} PROVE FindIn(t, key) \in I
    <2>1. \E i \in I : \A j \in I : i <= j  BY <1>7, <1>8, LeastNat
    <2> QED  BY <1>5, <1>8, <2>1
  <1>9. CASE I = {}  BY <1>5, <1>6, <1>9
  <1>10. CASE I # {}  BY <1>3, <1>4, <1>6, <1>7, <1>8, <1>10
  <1> QED  BY <1>9, <1>10

(* c is the chain d without the element at n and perhaps others.           *)
Without(c, d, n) ==
  \E f \in [DOMAIN c -> DOMAIN d \ {n}] :
    /\ \A i, j \in DOMAIN c : f[i] = f[j] => i = j
    /\ \A i \in DOMAIN c : c[i] = d[f[i]]

(* What hash_table_rm may leave of a chain.                                *)
LEMMA UnlinkedIsWithout ==
  ASSUME NEW d \in Seq(Elem), NEW n \in DOMAIN d, NEW c \in unlinked(d, n)
  PROVE  c \in Seq(Elem) /\ Without(c, d, n)
  <1>0. Len(d) \in Nat /\ n \in 1 .. Len(d) /\ DOMAIN d = 1 .. Len(d)  OBVIOUS
  <1>1. CASE c = << >>
    <2>1. c \in Seq(Elem) /\ DOMAIN c = {}  BY <1>1
    <2> DEFINE f == [i \in DOMAIN c |-> 0]
    <2>2. f \in [DOMAIN c -> DOMAIN d \ {n}]  BY <2>1
    <2> QED  BY <2>1, <2>2 DEF Without
  <1> DEFINE a == SubSeq(d, 1, n - 1)
             b == SubSeq(d, n + 1, Len(d))
  <1>2. /\ a \in Seq(Elem) /\ Len(a) = n - 1
        /\ \A i \in 1 .. (n - 1) : a[i] = d[i]
    <2>1. \A i \in 1 .. (n - 1) : d[i] \in Elem  BY <1>0, ElementOfSeq
    <2>2. 1 \in Int /\ n - 1 \in Int  BY <1>0
    <2>3. /\ a \in Seq(Elem)
          /\ Len(a) = IF 1 <= n - 1 THEN (n - 1) - 1 + 1 ELSE 0
          /\ \A i \in 1 .. ((n - 1) - 1 + 1) : a[i] = d[1 + i - 1]
      BY <2>1, <2>2, SubSeqProperties
    <2>4. Len(a) = n - 1  BY <1>0, <2>3
    <2>5. \A i \in 1 .. (n - 1) : i \in 1 .. ((n - 1) - 1 + 1) /\ 1 + i - 1 = i  BY <1>0
    <2> HIDE DEF a
    <2> QED  BY <2>3, <2>4, <2>5
  <1>3. /\ b \in Seq(Elem) /\ Len(b) = Len(d) - n
        /\ \A i \in 1 .. (Len(d) - n) : b[i] = d[n + i]
    <2>1. \A i \in (n + 1) .. Len(d) : d[i] \in Elem  BY <1>0, ElementOfSeq
    <2>2. n + 1 \in Int /\ Len(d) \in Int  BY <1>0
    <2>3. /\ b \in Seq(Elem)
          /\ Len(b) = IF n + 1 <= Len(d) THEN Len(d) - (n + 1) + 1 ELSE 0
          /\ \A i \in 1 .. (Len(d) - (n + 1) + 1) : b[i] = d[(n + 1) + i - 1]
      BY <2>1, <2>2, SubSeqProperties
    <2>4. Len(b) = Len(d) - n  BY <1>0, <2>3
    <2>5. \A i \in 1 .. (Len(d) - n) : i \in 1 .. (Len(d) - (n + 1) + 1) /\ (n + 1) + i - 1 = n + i
      BY <1>0
    <2> HIDE DEF b
    <2> QED  BY <2>3, <2>4, <2>5
  <1> HIDE DEF a, b
  <1>4. CASE c = a
    <2> DEFINE f == [i \in DOMAIN c |-> i]
    <2>1. DOMAIN c = 1 .. (n - 1)  BY <1>2, <1>4
    <2>2. \A i \in 1 .. (n - 1) : i \in DOMAIN d \ {n}  BY <1>0
    <2>3. f \in [DOMAIN c -> DOMAIN d \ {n}]  BY <2>1, <2>2
    <2>4. \A i \in DOMAIN c : f[i] = i /\ c[i] = d[f[i]]  BY <1>2, <1>4, <2>1
    <2> HIDE DEF f
    <2> QED  BY <1>2, <1>4, <2>3, <2>4 DEF Without
  <1>5. CASE c = a \o b
    <2> DEFINE f == [i \in DOMAIN c |-> IF i < n THEN i ELSE i + 1]
    <2>1. /\ c \in Seq(Elem) /\ Len(c) = Len(d) - 1
          /\ \A i \in 1 .. Len(c) : c[i] = IF i <= n - 1 THEN a[i] ELSE b[i - (n - 1)]
      <3>1. /\ c \in Seq(Elem) /\ Len(c) = Len(a) + Len(b)
            /\ \A i \in 1 .. (Len(a) + Len(b)) : c[i] = IF i <= Len(a) THEN a[i] ELSE b[i - Len(a)]
        BY <1>2, <1>3, <1>5, ConcatProperties
      <3>2. (n - 1) + (Len(d) - n) = Len(d) - 1  BY <1>0
      <3> QED  BY <1>2, <1>3, <3>1, <3>2
    <2>2. DOMAIN c = 1 .. (Len(d) - 1)  BY <2>1
    <2>3. \A i \in 1 .. (Len(d) - 1) : (IF i < n THEN i ELSE i + 1) \in DOMAIN d \ {n}  BY <1>0
    <2>4. f \in [DOMAIN c -> DOMAIN d \ {n}]  BY <2>2, <2>3
    <2>5. \A i, j \in DOMAIN c : f[i] = f[j] => i = j  BY <1>0, <2>2
    <2>6. ASSUME NEW i \in DOMAIN c PROVE c[i] = d[f[i]]
      <3>1. f[i] = IF i < n THEN i ELSE i + 1  OBVIOUS
      <3>2. i \in 1 .. (Len(d) - 1) /\ i \in 1 .. Len(c)  BY <2>1, <2>2
      <3> HIDE DEF f
      <3>3. CASE i < n
        <4>1. i \in 1 .. (n - 1) /\ i <= n - 1  BY <1>0, <3>2, <3>3
        <4> QED  BY <1>2, <2>1, <3>1, <3>2, <3>3, <4>1
      <3>4. CASE ~(i < n)
        <4>1. /\ i - (n - 1) \in 1 .. (Len(d) - n) /\ ~(i <= n - 1)
              /\ n + (i - (n - 1)) = i + 1
          BY <1>0, <3>2, <3>4
        <4>2. c[i] = b[i - (n - 1)]  BY <2>1, <3>2, <4>1
        <4>3. b[i - (n - 1)] = d[n + (i - (n - 1))]  BY <1>3, <4>1
        <4> QED  BY <3>1, <3>4, <4>1, <4>2, <4>3
      <3> QED  BY <3>3, <3>4
    <2> HIDE DEF f
    <2> QED  BY <2>1, <2>4, <2>5, <2>6 DEF Without
  <1> QED  BY <1>1, <1>4, <1>5 DEF unlinked, RemoveAt, a, b
-----------------------------------------------------------------------------
(* What a key has in the store that table t is.                            *)
EntryOf(e) == [value |-> e.value, owned |-> e.free_value]
StoreIn(t) ==
  [key \in Key |-> IF FindIn(t, key) = NULL THEN NULL
                   ELSE EntryOf(t[index[key]][FindIn(t, key)])]

(* It is the entry of the element with the key, wherever that is.          *)
LEMMA StoreIs ==
  ASSUME NEW t, Sound(t), NEW key \in Key
  PROVE  /\ \A m : Has(t, key, m) => /\ StoreIn(t)[key] = EntryOf(t[index[key]][m])
                                     /\ StoreIn(t)[key] # NULL
         /\ (\A m : ~Has(t, key, m)) => StoreIn(t)[key] = NULL
  <1>1. /\ FindIn(t, key) # NULL => Has(t, key, FindIn(t, key))
        /\ \A m : Has(t, key, m) => FindIn(t, key) = m /\ m # NULL
    BY FindPlace DEF Sound
  <1>2. ASSUME NEW m, Has(t, key, m)
        PROVE  /\ StoreIn(t)[key] = EntryOf(t[index[key]][m])
               /\ StoreIn(t)[key] # NULL
    <2>1. StoreIn(t)[key] = EntryOf(t[index[key]][m])  BY <1>1, <1>2 DEF StoreIn
    <2>2. index[key] \in Index /\ t \in [Index -> Seq(Elem)]  BY IndexInTable DEF Sound, Tables
    <2>3. t[index[key]][m] \in Elem  BY <1>2, <2>2, ElementOfSeq DEF Has
    <2>4. EntryOf(t[index[key]][m]) \in [value : Value, owned : BOOLEAN]
      BY <2>3 DEF EntryOf, Elem
    <2> QED  BY <2>1, <2>4, HashTableAssumption
  <1>3. ASSUME \A m : ~Has(t, key, m) PROVE StoreIn(t)[key] = NULL
    BY <1>1, <1>3 DEF StoreIn
  <1> QED  BY <1>2, <1>3

(* A slot of table s is a slot of table t, but not the slot n of chain i.  *)
Kept(t, s, i, n) ==
  \A j \in Index : \A m \in DOMAIN s[j] : \E p \in DOMAIN t[j] :
    (j = i => p # n) /\ s[j][m] = t[j][p]

(* A removal leaves a table as it must be.                                 *)
LEMMA RemovedSound ==
  ASSUME NEW t, Sound(t), NEW i \in Index, NEW n \in DOMAIN t[i],
         NEW c \in Seq(Elem), Without(c, t[i], n),
         NEW s, s = [t EXCEPT ![i] = c]
  PROVE  Sound(s) /\ Kept(t, s, i, n)
  <1>1. t \in [Index -> Seq(Elem)] /\ Placed(t) /\ UniqueKeys(t) /\ UniqueValues(t)
    BY DEF Sound, Tables
  <1>2. s \in Tables  BY <1>1 DEF Tables
  <1>3. PICK f \in [DOMAIN c -> DOMAIN t[i] \ {n}] :
          /\ \A m, q \in DOMAIN c : f[m] = f[q] => m = q
          /\ \A m \in DOMAIN c : c[m] = t[i][f[m]]
    BY DEF Without
  <1>4. s[i] = c /\ \A j \in Index : j # i => s[j] = t[j]  BY <1>1
  <1> DEFINE g(j, m) == IF j = i THEN f[m] ELSE m
  <1>5. ASSUME NEW j \in Index, NEW m \in DOMAIN s[j]
        PROVE  g(j, m) \in DOMAIN t[j] /\ (j = i => g(j, m) # n) /\ s[j][m] = t[j][g(j, m)]
    BY <1>3, <1>4
  <1>6. ASSUME NEW j \in Index, NEW m \in DOMAIN s[j], NEW q \in DOMAIN s[j], g(j, m) = g(j, q)
        PROVE  m = q
    BY <1>3, <1>4, <1>6
  <1> HIDE DEF g
  <1>7. Placed(s)  BY <1>1, <1>5 DEF Placed
  <1>8. UniqueKeys(s)
    <2>1. ASSUME NEW j \in Index, NEW m \in DOMAIN s[j], NEW q \in DOMAIN s[j], s[j][m].key = s[j][q].key
          PROVE  m = q
      <3>1. t[j][g(j, m)].key = t[j][g(j, q)].key  BY <1>5, <2>1
      <3>2. g(j, m) = g(j, q)  BY <1>1, <1>5, <3>1 DEF UniqueKeys
      <3> QED  BY <1>6, <3>2
    <2> QED  BY <2>1 DEF UniqueKeys
  <1>9. UniqueValues(s)
    <2>1. ASSUME NEW j \in Index, NEW k \in Index, NEW m \in DOMAIN s[j], NEW q \in DOMAIN s[k],
                 s[j][m].value = s[k][q].value
          PROVE  j = k /\ m = q
      <3>1. t[j][g(j, m)].value = t[k][g(k, q)].value  BY <1>5, <2>1
      <3>2. j = k /\ g(j, m) = g(k, q)
        <4>1. g(j, m) \in DOMAIN t[j] /\ g(k, q) \in DOMAIN t[k]  BY <1>5
        <4> QED  BY <1>1, <3>1, <4>1 DEF UniqueValues
      <3> QED  BY <1>6, <3>2
    <2> QED  BY <2>1 DEF UniqueValues
  <1>10. Sound(s)  BY <1>2, <1>7, <1>8, <1>9 DEF Sound
  <1> QED  BY <1>5, <1>10 DEF Kept

(* A slot of table s has e, or is one of t other than m of the chain of e. *)
Added(t, s, e, m) ==
  \A j \in Index : \A q \in DOMAIN s[j] :
    \/ s[j][q] = e
    \/ q \in DOMAIN t[j] /\ (j = index[e.key] => q # m) /\ s[j][q] = t[j][q]

(* The value v is not in the table.                                        *)
Fresh(t, v) == \A j \in Index : \A q \in DOMAIN t[j] : t[j][q].value # v

(* The chain c is the chain of e in t with e at m.                         *)
PutAt(t, c, e, m) ==
  /\ c \in Seq(Elem) /\ m \in DOMAIN c /\ c[m] = e
  /\ DOMAIN t[index[e.key]] \cup {m} = DOMAIN c
  /\ \A q \in DOMAIN c : q # m => c[q] = t[index[e.key]][q]
  /\ \A q : Has(t, e.key, q) => q = m
  /\ m \in DOMAIN t[index[e.key]] => Has(t, e.key, m)

(* The element e, whose value is new, at m in the chain of its key: in the *)
(* place of the one with that key, or at the end.                          *)
LEMMA PutSound ==
  ASSUME NEW t, Sound(t), NEW e \in Elem,
         Fresh(t, e.value),
         NEW c, NEW m, PutAt(t, c, e, m),
         NEW s, s = [t EXCEPT ![index[e.key]] = c]
  PROVE  /\ Sound(s)
         /\ StoreIn(s) = [StoreIn(t) EXCEPT ![e.key] = EntryOf(e)]
         /\ Added(t, s, e, m)
  <1> DEFINE i == index[e.key]
  <1>0. /\ c \in Seq(Elem) /\ m \in DOMAIN c /\ c[m] = e
        /\ DOMAIN t[index[e.key]] \cup {m} = DOMAIN c
        /\ \A q \in DOMAIN c : q # m => c[q] = t[index[e.key]][q]
        /\ \A q : Has(t, e.key, q) => q = m
        /\ m \in DOMAIN t[index[e.key]] => Has(t, e.key, m)
    BY DEF PutAt
  <1> USE <1>0 DEF Fresh
  <1>1. t \in [Index -> Seq(Elem)] /\ Placed(t) /\ UniqueKeys(t) /\ UniqueValues(t)
    BY DEF Sound, Tables
  <1>2. i \in Index /\ e.key \in Key /\ e.value \in Value  BY IndexInTable DEF Elem
  <1>3. s \in Tables  BY <1>1, <1>2 DEF Tables
  <1>4. s[i] = c /\ \A j \in Index : j # i => s[j] = t[j]  BY <1>1, <1>2
  <1>5. i = index[e.key]  OBVIOUS
  <1> HIDE DEF i
  <1>6. ASSUME NEW j \in Index, NEW q \in DOMAIN s[j]
        PROVE  \/ j = i /\ q = m /\ s[j][q] = e
               \/ ~(j = i /\ q = m) /\ q \in DOMAIN t[j] /\ s[j][q] = t[j][q]
    BY <1>4, <1>5
  <1>7. Placed(s)  BY <1>1, <1>5, <1>6 DEF Placed
  <1>8. UniqueKeys(s)
    <2>1. ASSUME NEW j \in Index, NEW q \in DOMAIN s[j], NEW r \in DOMAIN s[j], s[j][q].key = s[j][r].key
          PROVE  q = r
      <3>1. CASE ~(j = i /\ q = m) /\ ~(j = i /\ r = m)
        BY <1>1, <1>6, <2>1, <3>1 DEF UniqueKeys
      <3>2. CASE j = i /\ q = m
        <4>1. s[j][r].key = e.key  BY <1>6, <2>1, <3>2
        <4>2. r # m => Has(t, e.key, r)  BY <1>5, <1>6, <3>2, <4>1 DEF Has
        <4> QED  BY <3>2, <4>2
      <3>3. CASE j = i /\ r = m
        <4>1. s[j][q].key = e.key  BY <1>6, <2>1, <3>3
        <4>2. q # m => Has(t, e.key, q)  BY <1>5, <1>6, <3>3, <4>1 DEF Has
        <4> QED  BY <3>3, <4>2
      <3> QED  BY <3>1, <3>2, <3>3
    <2> QED  BY <2>1 DEF UniqueKeys
  <1>9. UniqueValues(s)
    <2>1. ASSUME NEW j \in Index, NEW k \in Index, NEW q \in DOMAIN s[j], NEW r \in DOMAIN s[k],
                 s[j][q].value = s[k][r].value
          PROVE  j = k /\ q = r
      <3>1. CASE ~(j = i /\ q = m) /\ ~(k = i /\ r = m)
        <4>1. q \in DOMAIN t[j] /\ r \in DOMAIN t[k] /\ t[j][q].value = t[k][r].value  BY <1>6, <2>1, <3>1
        <4> QED  BY <1>1, <4>1 DEF UniqueValues
      <3>2. CASE j = i /\ q = m  BY <1>6, <2>1, <3>2
      <3>3. CASE k = i /\ r = m  BY <1>6, <2>1, <3>3
      <3> QED  BY <3>1, <3>2, <3>3
    <2> QED  BY <2>1 DEF UniqueValues
  <1>10. Sound(s)  BY <1>3, <1>7, <1>8, <1>9 DEF Sound
  <1>11. ASSUME NEW key \in Key, key # e.key PROVE StoreIn(s)[key] = StoreIn(t)[key]
    <2>1. index[key] \in Index  BY IndexInTable
    <2>2. ASSUME NEW q PROVE Has(s, key, q) <=> Has(t, key, q)
      <3>1. ASSUME Has(s, key, q) PROVE Has(t, key, q)
        BY <1>6, <1>11, <2>1, <3>1 DEF Has
      <3>2. ASSUME Has(t, key, q) PROVE Has(s, key, q)
        <4>1. CASE index[key] # i  BY <1>4, <2>1, <3>2, <4>1 DEF Has
        <4>2. CASE index[key] = i
          <5>1. q \in DOMAIN c  BY <1>5, <3>2, <4>2 DEF Has
          <5>2. CASE q # m  BY <1>4, <1>5, <3>2, <4>2, <5>1, <5>2 DEF Has
          <5>3. CASE q = m  BY <1>5, <1>11, <3>2, <4>2, <5>3 DEF Has
          <5> QED  BY <5>2, <5>3
        <4> QED  BY <4>1, <4>2
      <3> QED  BY <3>1, <3>2
    <2>3. CASE \A q : ~Has(t, key, q)  BY <1>10, <2>2, <2>3, StoreIs
    <2>4. CASE \E q : Has(t, key, q)
      <3>1. PICK q : Has(t, key, q) /\ Has(s, key, q)  BY <2>2, <2>4
      <3>2. s[index[key]][q] = t[index[key]][q]  BY <1>6, <1>11, <2>1, <3>1 DEF Has
      <3>3. StoreIn(s)[key] = EntryOf(s[index[key]][q])  BY <1>10, <3>1, StoreIs
      <3>4. StoreIn(t)[key] = EntryOf(t[index[key]][q])  BY <3>1, StoreIs
      <3> QED  BY <3>2, <3>3, <3>4
    <2> QED  BY <2>3, <2>4
  <1>12. StoreIn(s)[e.key] = EntryOf(e)
    <2>1. Has(s, e.key, m) /\ s[index[e.key]][m] = e  BY <1>4, <1>5 DEF Has
    <2>2. StoreIn(s)[e.key] = EntryOf(s[index[e.key]][m])  BY <1>2, <1>10, <2>1, StoreIs
    <2> QED  BY <2>1, <2>2
  <1>13. StoreIn(s) = [StoreIn(t) EXCEPT ![e.key] = EntryOf(e)]
    <2>1. StoreIn(s) = [key \in Key |-> StoreIn(s)[key]] /\ StoreIn(t) = [key \in Key |-> StoreIn(t)[key]]
      BY DEF StoreIn
    <2> DEFINE a == StoreIn(s)
               b == StoreIn(t)
    <2>2. /\ a = [key \in Key |-> a[key]] /\ b = [key \in Key |-> b[key]]
          /\ \A key \in Key : a[key] = IF key = e.key THEN EntryOf(e) ELSE b[key]
      BY <1>11, <1>12, <2>1
    <2> HIDE DEF a, b
    <2>3. a = [b EXCEPT ![e.key] = EntryOf(e)]  BY <1>2, <2>2
    <2> QED  BY <2>3 DEF a, b
  <1>14. ASSUME NEW j \in Index, NEW q \in DOMAIN s[j]
         PROVE  \/ s[j][q] = e
                \/ q \in DOMAIN t[j] /\ (j = index[e.key] => q # m) /\ s[j][q] = t[j][q]
    BY <1>5, <1>6
  <1> QED  BY <1>10, <1>13, <1>14 DEF Added

(* Only keys of the chain of key are lost between t and s, and key is.     *)
LostNear(t, s, key) ==
  /\ StoreIn(s)[key] = NULL
  /\ \A l \in Key : l # key => \/ StoreIn(s)[l] = StoreIn(t)[l]
                               \/ StoreIn(s)[l] = NULL /\ index[l] = index[key]

(* A removal takes the key from the store, and of the others only keys of  *)
(* the same chain.                                                         *)
LEMMA RemovedStore ==
  ASSUME NEW t, Sound(t), NEW key \in Key, NEW n, Has(t, key, n),
         NEW c \in Seq(Elem), Without(c, t[index[key]], n),
         NEW s, s = [t EXCEPT ![index[key]] = c]
  PROVE  LostNear(t, s, key)
  <1>1. index[key] \in Index /\ t \in [Index -> Seq(Elem)] /\ UniqueKeys(t) /\ n \in DOMAIN t[index[key]]
    BY IndexInTable DEF Sound, Tables, Has
  <1>2. Sound(s) /\ Kept(t, s, index[key], n)  BY <1>1, RemovedSound
  <1>4. \A m : ~Has(s, key, m)
    <2>1. ASSUME NEW m, Has(s, key, m) PROVE FALSE
      <3>1. PICK p \in DOMAIN t[index[key]] : p # n /\ s[index[key]][m] = t[index[key]][p]
        BY <1>1, <1>2, <2>1 DEF Has, Kept
      <3>2. t[index[key]][p].key = key /\ t[index[key]][n].key = key  BY <2>1, <3>1 DEF Has
      <3> QED  BY <1>1, <3>1, <3>2 DEF UniqueKeys
    <2> QED  BY <2>1
  <1>5. ASSUME NEW l \in Key, l # key
        PROVE  \/ StoreIn(s)[l] = StoreIn(t)[l]
               \/ StoreIn(s)[l] = NULL /\ index[l] = index[key]
    <2>1. index[l] \in Index  BY IndexInTable
    <2>2. CASE \E m : Has(s, l, m)
      <3>1. PICK m : Has(s, l, m)  BY <2>2
      <3>2. PICK p \in DOMAIN t[index[l]] : s[index[l]][m] = t[index[l]][p]
        BY <1>2, <2>1, <3>1 DEF Has, Kept
      <3>3. Has(t, l, p)  BY <3>1, <3>2 DEF Has
      <3>4. StoreIn(s)[l] = EntryOf(s[index[l]][m])  BY <1>2, <3>1, StoreIs
      <3>5. StoreIn(t)[l] = EntryOf(t[index[l]][p])  BY <3>3, StoreIs
      <3> QED  BY <3>2, <3>4, <3>5
    <2>3. CASE \A m : ~Has(s, l, m)
      <3>1. StoreIn(s)[l] = NULL  BY <1>2, <2>3, StoreIs
      <3>2. CASE index[l] = index[key]  BY <3>1, <3>2
      <3>3. CASE index[l] # index[key]
        <4>1. s[index[l]] = t[index[l]]  BY <1>1, <2>1, <3>3
        <4>2. \A m : ~Has(t, l, m)  BY <2>3, <4>1 DEF Has
        <4>3. StoreIn(t)[l] = NULL  BY <4>2, StoreIs
        <4> QED  BY <3>1, <4>3
      <3> QED  BY <3>2, <3>3
    <2> QED  BY <2>2, <2>3
  <1> QED  BY <1>2, <1>4, <1>5, StoreIs DEF LostNear

(* The table without elements.                                             *)
LEMMA EmptyTable ==
  ASSUME NEW t, t = [i \in Index |-> << >>]
  PROVE  Sound(t) /\ StoreIn(t) = [key \in Key |-> NULL]
  <1>1. t \in Tables /\ \A i \in Index : t[i] = << >> /\ DOMAIN t[i] = {}  BY DEF Tables
  <1>2. Sound(t)  BY <1>1 DEF Sound, Placed, UniqueKeys, UniqueValues
  <1>3. ASSUME NEW key \in Key PROVE StoreIn(t)[key] = NULL
    <2>1. index[key] \in Index  BY IndexInTable
    <2>2. \A m : ~Has(t, key, m)  BY <1>1, <2>1 DEF Has
    <2> QED  BY <1>2, <2>2, StoreIs
  <1>4. StoreIn(t) = [key \in Key |-> StoreIn(t)[key]]  BY DEF StoreIn
  <1> QED  BY <1>2, <1>3, <1>4

(* Elements with values of their own are freed: a value of theirs that has *)
(* a destructor once more, every other value no more than before.          *)
LEMMA FreedBy ==
  ASSUME freed \in [Value -> Nat], NEW E, \A x, y \in E : x.value = y.value => x = y
  PROVE  /\ Freed(E) \in [Value -> Nat]
         /\ \A v \in Value : Freed(E)[v] = IF \E x \in E : x.value = v /\ x.free_value
                                           THEN freed[v] + 1 ELSE freed[v]
  <1> DEFINE D(v) == {x \in E : x.value = v /\ x.free_value}
  <1>1. ASSUME NEW v \in Value
        PROVE  Cardinality(D(v)) = IF \E x \in E : x.value = v /\ x.free_value THEN 1 ELSE 0
    <2>1. CASE \E x \in E : x.value = v /\ x.free_value
      <3>1. PICK x \in E : x.value = v /\ x.free_value  BY <2>1
      <3>2. D(v) = {x}  BY <3>1
      <3>3. Cardinality({x}) = 1  BY FS_Singleton
      <3> QED  BY <2>1, <3>2, <3>3
    <2>2. CASE ~\E x \in E : x.value = v /\ x.free_value
      <3>1. D(v) = {}  BY <2>2
      <3> QED  BY <2>2, <3>1, FS_EmptySet
    <2> QED  BY <2>1, <2>2
  <1>2. Freed(E) = [v \in Value |-> freed[v] + Cardinality(D(v))]  BY DEF Freed
  <1> HIDE DEF D
  <1>3. ASSUME NEW v \in Value
        PROVE  /\ Freed(E)[v] \in Nat
               /\ Freed(E)[v] = IF \E x \in E : x.value = v /\ x.free_value
                                THEN freed[v] + 1 ELSE freed[v]
    <2>1. freed[v] \in Nat /\ Freed(E)[v] = freed[v] + Cardinality(D(v))  BY <1>2
    <2>2. CASE \E x \in E : x.value = v /\ x.free_value
      <3>1. Cardinality(D(v)) = 1  BY <1>1, <2>2
      <3> QED  BY <2>1, <2>2, <3>1
    <2>3. CASE ~\E x \in E : x.value = v /\ x.free_value
      <3>1. Cardinality(D(v)) = 0  BY <1>1, <2>3
      <3> QED  BY <2>1, <2>3, <3>1
    <2> QED  BY <2>2, <2>3
  <1>4. Freed(E) \in [Value -> Nat]  BY <1>2, <1>3
  <1> QED  BY <1>3, <1>4

(* One element is freed.                                                   *)
LEMMA FreedOne ==
  ASSUME freed \in [Value -> Nat], NEW x
  PROVE  /\ Freed({x}) \in [Value -> Nat]
         /\ \A v \in Value : Freed({x})[v] = IF x.value = v /\ x.free_value
                                             THEN freed[v] + 1 ELSE freed[v]
  <1>1. \A y, z \in {x} : y.value = z.value => y = z  OBVIOUS
  <1>2. \A v : (\E y \in {x} : y.value = v /\ y.free_value) <=> (x.value = v /\ x.free_value)  OBVIOUS
  <1> QED  BY <1>1, <1>2, FreedBy

(* The elements of the table have values of their own.                     *)
LEMMA ElementsDiffer ==
  ASSUME Sound(table)
  PROVE  /\ \A x : x \in Elements <=> \E i \in Index : \E m \in DOMAIN table[i] : x = table[i][m]
         /\ \A x, y \in Elements : x.value = y.value => x = y
  <1>1. table \in [Index -> Seq(Elem)]  BY DEF Sound, Tables
  <1>2. \A x : x \in Elements <=> \E i \in Index : \E m \in DOMAIN table[i] : x = table[i][m]
    BY DEF Elements, Range
  <1> QED  BY <1>2 DEF Sound, UniqueValues
-----------------------------------------------------------------------------
(* Find, now and after a step.                                             *)
LEMMA FindIs ==
  ASSUME NEW key PROVE Find(key) = FindIn(table, key) /\ Find(key)' = FindIn(table', key)
  BY DEF Find, FindIn

(* hash_table_put2 puts the element in place of the one with its key,      *)
(* which is freed, or at the end of the chain, or fails.                   *)
LEMMA PutStep ==
  ASSUME HashInv, NEW key \in Key, NEW value \in Value, NEW f \in BOOLEAN,
         hash_table_put2(key, value, f),
         NEW e, e = kv(key, value, f)
  PROVE  \/ /\ Sound(table')
            /\ StoreIn(table') = [StoreIn(table) EXCEPT ![key] = EntryOf(e)]
            /\ \E m : /\ Added(table, table', e, m)
                      /\ \/ Has(table, key, m) /\ freed' = Freed({table[index[key]][m]})
                         \/ (\A q : ~Has(table, key, q)) /\ freed' = freed
            /\ answer' = <<key, 0>>
            /\ used' = used \cup {value}
         \/ /\ \A q : ~Has(table, key, q)
            /\ answer' = <<key, -1>>
            /\ UNCHANGED <<table, used, freed>>
  <1> DEFINE i == index[key]
             n == Find(key)
  <1>1. /\ value \notin used /\ Sound(table) /\ Live(table, used, freed)
        /\ table \in [Index -> Seq(Elem)] /\ UniqueKeys(table)
    BY DEF hash_table_put2, HashInv, FreedInv, Sound, Tables
  <1>2. /\ e \in Elem /\ e.key = key /\ e.value = value
        /\ index[key] \in Index /\ table[index[key]] \in Seq(Elem)
    BY <1>1, IndexInTable DEF kv, Elem
  <1>3. Fresh(table, e.value)  BY <1>1, <1>2 DEF Live, Fresh
  <1>4. /\ n # NULL => Has(table, key, n)
        /\ \A q : Has(table, key, q) => n = q /\ q # NULL
    <2>1. n = FindIn(table, key)  BY FindIs
    <2> HIDE DEF n
    <2> QED  BY <1>1, <2>1, FindPlace DEF Tables
  <1>5. /\ \/ /\ n # NULL
              /\ freed' = Freed({table[i][n]})
              /\ table' = [table EXCEPT ![i][n] = e]
              /\ answer' = <<key, 0>>
           \/ /\ n = NULL
              /\ table' = [table EXCEPT ![i] = Append(@, e)]
              /\ answer' = <<key, 0>>
              /\ UNCHANGED freed
           \/ n = NULL /\ answer' = <<key, -1>> /\ UNCHANGED <<table, freed>>
        /\ used' = IF answer' = <<key, 0>> THEN used \cup {value} ELSE used
    BY DEF hash_table_put2
  <1> HIDE DEF n
  <1>6. CASE /\ n # NULL
             /\ freed' = Freed({table[i][n]})
             /\ table' = [table EXCEPT ![i][n] = e]
             /\ answer' = <<key, 0>>
    <2> DEFINE d == table[i]
               c == [d EXCEPT ![n] = e]
    <2>1. Has(table, key, n) /\ n \in DOMAIN d /\ d \in Seq(Elem)  BY <1>2, <1>4, <1>6 DEF Has
    <2>2. c \in Seq(Elem) /\ DOMAIN c = DOMAIN d /\ c[n] = e /\ \A q \in DOMAIN c : q # n => c[q] = d[q]
      <3> HIDE DEF d
      <3> QED  BY <1>2, <2>1
    <2>3. table' = [table EXCEPT ![index[e.key]] = c]  BY <1>2, <1>6
    <2>4. DOMAIN d \cup {n} = DOMAIN c  BY <2>1, <2>2
    <2>5. PutAt(table, c, e, n)  BY <1>2, <1>4, <2>1, <2>2, <2>4 DEF PutAt
    <2> HIDE DEF c
    <2>6. /\ Sound(table') /\ StoreIn(table') = [StoreIn(table) EXCEPT ![e.key] = EntryOf(e)]
          /\ Added(table, table', e, n)
      BY <1>1, <1>2, <1>3, <2>3, <2>5, PutSound
    <2> QED  BY <1>2, <1>5, <1>6, <2>1, <2>6
  <1>7. CASE /\ n = NULL
             /\ table' = [table EXCEPT ![i] = Append(@, e)]
             /\ answer' = <<key, 0>>
             /\ UNCHANGED freed
    <2> DEFINE d == table[i]
               m == Len(d) + 1
               c == Append(d, e)
    <2>1. \A q : ~Has(table, key, q)  BY <1>4, <1>7
    <2>2. /\ c \in Seq(Elem) /\ DOMAIN c = DOMAIN d \cup {m} /\ m \in DOMAIN c /\ m \notin DOMAIN d
          /\ c[m] = e /\ \A q \in DOMAIN c : q # m => c[q] = d[q]
      <3>1. d \in Seq(Elem)  BY <1>2
      <3> HIDE DEF d
      <3>2. Len(d) \in Nat /\ DOMAIN d = 1 .. Len(d)  BY <3>1
      <3>3. /\ c \in Seq(Elem) /\ Len(c) = Len(d) + 1 /\ c[Len(d) + 1] = e
            /\ \A q \in 1 .. Len(d) : c[q] = d[q]
        BY <1>2, <3>1, AppendProperties
      <3>4. DOMAIN c = 1 .. (Len(d) + 1)  BY <3>3
      <3> HIDE DEF c
      <3>5. 1 .. (Len(d) + 1) = (1 .. Len(d)) \cup {Len(d) + 1} /\ Len(d) + 1 \notin 1 .. Len(d)  BY <3>2
      <3> QED  BY <3>2, <3>3, <3>4, <3>5
    <2>3. table' = [table EXCEPT ![index[e.key]] = c]  BY <1>2, <1>7
    <2>5. PutAt(table, c, e, m)  BY <1>2, <2>1, <2>2 DEF PutAt
    <2> HIDE DEF c, m
    <2>6. /\ Sound(table') /\ StoreIn(table') = [StoreIn(table) EXCEPT ![e.key] = EntryOf(e)]
          /\ Added(table, table', e, m)
      BY <1>1, <1>2, <1>3, <2>3, <2>5, PutSound
    <2> QED  BY <1>2, <1>5, <1>7, <2>1, <2>6
  <1>8. CASE n = NULL /\ answer' = <<key, -1>> /\ UNCHANGED <<table, freed>>
    <2>1. <<key, -1>> # <<key, 0>>  OBVIOUS
    <2> QED  BY <1>4, <1>5, <1>8, <2>1
  <1> QED  BY <1>5, <1>6, <1>7, <1>8

(* hash_table_rm finds nothing, or dies, or frees the element of its key   *)
(* and leaves the chain without it.                                        *)
LEMMA RmStep ==
  ASSUME HashInv, NEW key \in Key, hash_table_rm(key)
  PROVE  \/ (\A q : ~Has(table, key, q)) /\ UNCHANGED vars
         \/ ht = "open" /\ ht' = "died" /\ UNCHANGED <<table, used, freed, answer>>
         \/ /\ \E n : /\ Has(table, key, n)
                      /\ Kept(table, table', index[key], n)
                      /\ freed' = Freed({table[index[key]][n]})
            /\ Sound(table') /\ LostNear(table, table', key)
            /\ UNCHANGED <<ht, used, answer>>
  <1> DEFINE i == index[key]
             n == Find(key)
  <1>1. Sound(table) /\ table \in [Index -> Seq(Elem)] /\ UniqueKeys(table) /\ i \in Index
    BY IndexInTable DEF HashInv, Sound, Tables
  <1>2. /\ n # NULL => Has(table, key, n)
        /\ \A q : Has(table, key, q) => n = q /\ q # NULL
    <2>1. n = FindIn(table, key)  BY FindIs
    <2> HIDE DEF n
    <2> QED  BY <1>1, <2>1, FindPlace DEF Tables
  <1>3. CASE n = NULL
    <2>1. UNCHANGED vars  BY <1>3 DEF hash_table_rm, vars
    <2> QED  BY <1>2, <1>3, <2>1
  <1>4. CASE n # NULL
    <2>1. /\ ht = "open"
          /\ \/ /\ freed' = Freed({table[i][n]})
                /\ \E c \in unlinked(table[i], n) : table' = [table EXCEPT ![i] = c]
                /\ UNCHANGED ht
             \/ ht' = "died" /\ UNCHANGED <<table, freed>>
          /\ UNCHANGED <<used, answer>>
      BY <1>4 DEF hash_table_rm
    <2>2. CASE ht' = "died" /\ UNCHANGED <<table, freed>>  BY <2>1, <2>2
    <2> HIDE DEF n
    <2>3. CASE /\ freed' = Freed({table[i][n]})
               /\ \E c \in unlinked(table[i], n) : table' = [table EXCEPT ![i] = c]
               /\ UNCHANGED ht
      <3>1. PICK c \in unlinked(table[i], n) : table' = [table EXCEPT ![index[key]] = c]  BY <2>3
      <3>2. Has(table, key, n) /\ n \in DOMAIN table[i] /\ table[i] \in Seq(Elem)
        BY <1>1, <1>2, <1>4 DEF Has
      <3>3. c \in Seq(Elem) /\ Without(c, table[index[key]], n)
        BY <3>1, <3>2, UnlinkedIsWithout
      <3>4. Sound(table') /\ Kept(table, table', index[key], n)
        BY <1>1, <3>1, <3>2, <3>3, RemovedSound
      <3>5. LostNear(table, table', key)
        BY <1>1, <3>1, <3>2, <3>3, RemovedStore
      <3> QED  BY <2>1, <2>3, <3>2, <3>4, <3>5
    <2> QED  BY <2>1, <2>2, <2>3
  <1> QED  BY <1>3, <1>4

(* Initially the invariant holds.                                          *)
LEMMA HashInit == Init => HashInv
  <1> SUFFICES ASSUME Init PROVE HashInv  OBVIOUS
  <1>1. Sound(table)  BY EmptyTable DEF Init
  <1>2. \A i \in Index : DOMAIN table[i] = {}  BY DEF Init
  <1> QED  BY <1>1, <1>2 DEF Init, HashInv, TypeInv, FreedInv, Live

(* Every step keeps it.                                                    *)
LEMMA HashNext == HashInv /\ [Next]_vars => HashInv'
  <1> SUFFICES ASSUME HashInv, [Next]_vars PROVE HashInv'  OBVIOUS
  <1>1. /\ ht \in {"none", "open", "deleted", "died"} /\ used \in SUBSET Value
        /\ freed \in [Value -> Nat] /\ Sound(table) /\ Live(table, used, freed)
        /\ \A v \in Value : freed[v] <= 1 /\ (v \notin used => freed[v] = 0)
    BY DEF HashInv, TypeInv, FreedInv
  <1>2. table \in [Index -> Seq(Elem)] /\ UniqueValues(table)  BY <1>1 DEF Sound, Tables
  <1>3. ASSUME NEW i \in Index, NEW m \in DOMAIN table[i]
        PROVE  table[i][m] \in Elem /\ table[i][m].value \in Value
    <2>1. table[i][m] \in Elem  BY <1>2, ElementOfSeq
    <2> QED  BY <2>1 DEF Elem
  (* The element x at n in the chain i is freed.                           *)
  <1>4. ASSUME NEW i \in Index, NEW n \in DOMAIN table[i], freed' = Freed({table[i][n]})
        PROVE  /\ freed' \in [Value -> Nat]
               /\ \A v \in Value : freed'[v] <= 1 /\ (v \notin used => freed'[v] = 0)
               /\ \A j \in Index : \A p \in DOMAIN table[j] :
                    (j = i => p # n) => freed'[table[j][p].value] = 0
    <2> DEFINE x == table[i][n]
    <2>1. /\ freed' \in [Value -> Nat]
          /\ \A v \in Value : freed'[v] = IF x.value = v /\ x.free_value
                                          THEN freed[v] + 1 ELSE freed[v]
      BY <1>1, <1>4, FreedOne
    <2>2. x.value \in used /\ freed[x.value] = 0  BY <1>1 DEF Live
    <2>3. ASSUME NEW v \in Value PROVE freed'[v] <= 1 /\ (v \notin used => freed'[v] = 0)
      <3> HIDE DEF x
      <3>1. freed[v] \in Nat  BY <1>1
      <3>2. CASE v = x.value  BY <2>1, <2>2, <3>1, <3>2
      <3>3. CASE v # x.value
        <4>1. freed'[v] = freed[v]  BY <2>1, <3>3
        <4> QED  BY <1>1, <4>1
      <3> QED  BY <3>2, <3>3
    <2>4. ASSUME NEW j \in Index, NEW p \in DOMAIN table[j], j = i => p # n
          PROVE  freed'[table[j][p].value] = 0
      <3>1. table[j][p].value # x.value  BY <1>2, <2>4 DEF UniqueValues
      <3>2. freed'[table[j][p].value] = freed[table[j][p].value]  BY <1>3, <2>1, <3>1
      <3> QED  BY <1>1, <3>2 DEF Live
    <2> QED  BY <2>1, <2>3, <2>4
  <1>5. CASE UNCHANGED vars
    BY <1>5 DEF vars, HashInv, TypeInv, FreedInv
  <1>6. CASE hash_table_new
    BY <1>6 DEF hash_table_new, HashInv, TypeInv, FreedInv
  <1>7. ASSUME NEW key \in Key, NEW value \in Value, NEW f \in BOOLEAN, hash_table_put2(key, value, f)
        PROVE  HashInv'
    <2> DEFINE e == kv(key, value, f)
    <2>0. UNCHANGED ht /\ value \notin used /\ e.value = value /\ e.key = key
      BY <1>7 DEF hash_table_put2, kv
    <2> HIDE DEF e
    <2>1. CASE UNCHANGED <<table, used, freed>>
      BY <2>0, <2>1 DEF HashInv, TypeInv, FreedInv
    <2>2. CASE /\ Sound(table')
               /\ \E m : /\ Added(table, table', e, m)
                         /\ \/ Has(table, key, m) /\ freed' = Freed({table[index[key]][m]})
                            \/ (\A q : ~Has(table, key, q)) /\ freed' = freed
               /\ used' = used \cup {value}
      <3>1. PICK m : /\ Added(table, table', e, m)
                     /\ \/ Has(table, key, m) /\ freed' = Freed({table[index[key]][m]})
                        \/ (\A q : ~Has(table, key, q)) /\ freed' = freed
        BY <2>2
      <3>2. index[key] \in Index  BY IndexInTable
      <3>3. /\ freed' \in [Value -> Nat]
            /\ \A v \in Value : freed'[v] <= 1 /\ (v \notin used => freed'[v] = 0)
            /\ \A j \in Index : \A p \in DOMAIN table[j] :
                 (j = index[key] => p # m) => freed'[table[j][p].value] = 0
        <4>1. CASE Has(table, key, m) /\ freed' = Freed({table[index[key]][m]})
          BY <1>4, <3>2, <4>1 DEF Has
        <4>2. CASE freed' = freed  BY <1>1, <4>2 DEF Live
        <4> QED  BY <3>1, <4>1, <4>2
      <3>4. Live(table', used', freed')
        <4>1. ASSUME NEW j \in Index, NEW q \in DOMAIN table'[j]
              PROVE  table'[j][q].value \in used' /\ freed'[table'[j][q].value] = 0
          <5>1. CASE table'[j][q] = e  BY <2>0, <2>2, <3>3, <5>1
          <5>2. CASE q \in DOMAIN table[j] /\ (j = index[e.key] => q # m) /\ table'[j][q] = table[j][q]
            BY <1>1, <2>0, <2>2, <3>3, <5>2 DEF Live
          <5> QED  BY <3>1, <5>1, <5>2 DEF Added
        <4> QED  BY <4>1 DEF Live
      <3>5. used' \in SUBSET Value /\ \A v \in Value : freed'[v] <= 1 /\ (v \notin used' => freed'[v] = 0)
        BY <1>1, <2>2, <3>3
      <3> QED  BY <1>1, <2>0, <2>2, <3>3, <3>4, <3>5 DEF HashInv, TypeInv, FreedInv
    <2> QED  BY <1>7, <2>1, <2>2, PutStep DEF e
  <1>8. ASSUME NEW key \in Key, hash_table_get(key) PROVE HashInv'
    BY <1>8 DEF hash_table_get, HashInv, TypeInv, FreedInv
  <1>9. ASSUME NEW key \in Key, hash_table_rm(key) PROVE HashInv'
    <2>1. CASE UNCHANGED vars  BY <1>5, <2>1
    <2>2. CASE ht' = "died" /\ UNCHANGED <<table, used, freed, answer>>
      BY <2>2 DEF HashInv, TypeInv, FreedInv
    <2>3. CASE /\ \E n : /\ Has(table, key, n)
                         /\ Kept(table, table', index[key], n)
                         /\ freed' = Freed({table[index[key]][n]})
               /\ Sound(table')
               /\ UNCHANGED <<ht, used, answer>>
      <3>1. PICK n : /\ Has(table, key, n)
                     /\ Kept(table, table', index[key], n)
                     /\ freed' = Freed({table[index[key]][n]})
        BY <2>3
      <3>2. index[key] \in Index  BY IndexInTable
      <3>3. /\ freed' \in [Value -> Nat]
            /\ \A v \in Value : freed'[v] <= 1 /\ (v \notin used => freed'[v] = 0)
            /\ \A j \in Index : \A p \in DOMAIN table[j] :
                 (j = index[key] => p # n) => freed'[table[j][p].value] = 0
        BY <1>4, <3>1, <3>2 DEF Has
      <3>4. Live(table', used', freed')
        <4>1. ASSUME NEW j \in Index, NEW q \in DOMAIN table'[j]
              PROVE  table'[j][q].value \in used' /\ freed'[table'[j][q].value] = 0
          <5>1. PICK p \in DOMAIN table[j] : (j = index[key] => p # n) /\ table'[j][q] = table[j][p]
            BY <3>1 DEF Kept
          <5>2. table[j][p].value \in used /\ freed'[table[j][p].value] = 0
            BY <1>1, <3>3, <5>1 DEF Live
          <5>3. used' = used  BY <2>3
          <5> QED  BY <5>1, <5>2, <5>3
        <4> QED  BY <4>1 DEF Live
      <3> QED  BY <1>1, <2>3, <3>3, <3>4 DEF HashInv, TypeInv, FreedInv
    <2> QED  BY <1>9, <2>1, <2>2, <2>3, RmStep
  <1>10. CASE hash_table_delete
    <2>1. /\ table' = [i \in Index |-> << >>] /\ used' = used /\ ht' = "deleted"
          /\ freed' = Freed(Elements)
      BY <1>10 DEF hash_table_delete
    <2>2. Sound(table')  BY <2>1, EmptyTable
    <2>3. Live(table', used', freed')  BY <2>1 DEF Live
    <2>4. /\ freed' \in [Value -> Nat]
          /\ \A v \in Value : freed'[v] = IF \E x \in Elements : x.value = v /\ x.free_value
                                          THEN freed[v] + 1 ELSE freed[v]
      BY <1>1, <2>1, ElementsDiffer, FreedBy
    <2>5. \A x \in Elements : x.value \in used /\ freed[x.value] = 0
      BY <1>1, ElementsDiffer DEF Live
    <2>6. ASSUME NEW v \in Value PROVE freed'[v] <= 1 /\ (v \notin used => freed'[v] = 0)
      <3>1. freed[v] \in Nat  BY <1>1
      <3>2. CASE \E x \in Elements : x.value = v  BY <2>4, <2>5, <3>1, <3>2
      <3>3. CASE ~\E x \in Elements : x.value = v
        <4>1. freed'[v] = freed[v]  BY <2>4, <3>3
        <4> QED  BY <1>1, <4>1
      <3> QED  BY <3>2, <3>3
    <2> QED  BY <1>1, <2>1, <2>2, <2>3, <2>4, <2>6 DEF HashInv, TypeInv, FreedInv
  <1> QED  BY <1>5, <1>6, <1>7, <1>8, <1>9, <1>10 DEF Next

(* Through updates, removals that lose elements and the deletion of the    *)
(* table, free_value is called at most once for a value and never for one  *)
(* that hash_table_get may still return.                                   *)
THEOREM NoDoubleFree == Spec => []FreedOnce
  <1>1. HashInv => FreedOnce
    BY ElementsDiffer DEF HashInv, FreedInv, Live, FreedOnce
  <1> QED  BY <1>1, HashInit, HashNext, PTL DEF Spec
-----------------------------------------------------------------------------
(* The refinement mapping, now and after a step.                           *)
LEMMA StoredIs ==
  /\ Stored = StoreIn(table) /\ Stored' = StoreIn(table')
  /\ DOMAIN Stored = Key /\ DOMAIN Stored' = Key
  <1>1. Stored = StoreIn(table)  BY FindIs DEF Stored, StoreIn, EntryOf
  <1>2. Stored' = StoreIn(table')  BY FindIs DEF Stored, StoreIn, EntryOf
  <1> QED  BY <1>1, <1>2 DEF StoreIn

(* The value whose destructor a put or a removal of key calls is released, *)
(* and no other.                                                           *)
LEMMA OneReleased ==
  ASSUME HashInv, NEW key \in Key, NEW n, Has(table, key, n),
         freed' = Freed({table[index[key]][n]})
  PROVE  Released' = Released \cup Store!Owned({key})
  <1> DEFINE x == table[index[key]][n]
  <1>1. freed \in [Value -> Nat] /\ Sound(table)  BY DEF HashInv, TypeInv
  <1>2. x \in Elem /\ x.value \in Value /\ x.free_value \in BOOLEAN
    <2>1. index[key] \in Index /\ table \in [Index -> Seq(Elem)]  BY <1>1, IndexInTable DEF Sound, Tables
    <2>2. x \in Elem  BY <2>1, ElementOfSeq DEF Has
    <2> QED  BY <2>2 DEF Elem
  <1>3. \A v \in Value : freed'[v] = IF x.value = v /\ x.free_value THEN freed[v] + 1 ELSE freed[v]
    BY <1>1, FreedOne
  <1>4. Stored[key] = EntryOf(x) /\ Stored[key] # NULL  BY <1>1, StoredIs, StoreIs
  <1>5. Stored[key].value = x.value /\ Stored[key].owned = x.free_value  BY <1>4 DEF EntryOf
  <1>6. Store!Owned({key}) = IF x.free_value THEN {x.value} ELSE {}
    <2>1. Store!Owned({key}) = {Stored[k].value : k \in {l \in {key} : Stored[l] # NULL /\ Stored[l].owned}}
      BY DEF Store!Owned
    <2> HIDE DEF x
    <2>2. CASE x.free_value
      <3>1. {l \in {key} : Stored[l] # NULL /\ Stored[l].owned} = {key}  BY <1>4, <1>5, <2>2
      <3> QED  BY <1>5, <2>1, <2>2, <3>1
    <2>3. CASE ~x.free_value
      <3>1. {l \in {key} : Stored[l] # NULL /\ Stored[l].owned} = {}  BY <1>4, <1>5, <2>3
      <3> QED  BY <1>5, <2>1, <2>3, <3>1
    <2> QED  BY <2>2, <2>3
  <1> HIDE DEF x
  <1>7. Released' = {v \in Value : freed'[v] > 0}  BY DEF Released
  <1>8. ASSUME NEW v \in Value
        PROVE  freed'[v] > 0 <=> freed[v] > 0 \/ (x.value = v /\ x.free_value)
    <2>1. freed[v] \in Nat  BY <1>1
    <2>2. CASE x.value = v /\ x.free_value
      <3>1. freed'[v] = freed[v] + 1  BY <1>3, <2>2
      <3>2. freed'[v] > 0  BY <2>1, <3>1
      <3> QED  BY <2>2, <3>2
    <2>3. CASE ~(x.value = v /\ x.free_value)
      <3>1. freed'[v] = freed[v]  BY <1>3, <2>3
      <3> QED  BY <2>3, <3>1
    <2> QED  BY <2>2, <2>3
  <1> QED  BY <1>2, <1>6, <1>7, <1>8 DEF Released

(* A key that is not in the table releases nothing.                        *)
LEMMA NoneReleased ==
  ASSUME HashInv, NEW key \in Key, \A q : ~Has(table, key, q)
  PROVE  Stored[key] = NULL /\ Store!Owned({key}) = {}
  <1>1. Stored[key] = NULL  BY StoredIs, StoreIs DEF HashInv
  <1> QED  BY <1>1 DEF Store!Owned

(* The deletion of the table releases what the keys own.                   *)
LEMMA AllReleased ==
  ASSUME HashInv, freed' = Freed(Elements)
  PROVE  Released' = Released \cup Store!Owned(Key)
  <1>1. freed \in [Value -> Nat] /\ Sound(table) /\ table \in [Index -> Seq(Elem)] /\ Placed(table)
    BY DEF HashInv, TypeInv, Sound, Tables
  <1>2. \A v \in Value : freed'[v] = IF \E x \in Elements : x.value = v /\ x.free_value
                                     THEN freed[v] + 1 ELSE freed[v]
    BY <1>1, ElementsDiffer, FreedBy
  <1>3. ASSUME NEW v
        PROVE  v \in Store!Owned(Key) <=> \E x \in Elements : x.value = v /\ x.free_value
    <2>1. v \in Store!Owned(Key) <=> \E k \in Key : Stored[k] # NULL /\ Stored[k].owned /\ v = Stored[k].value
      BY DEF Store!Owned
    <2>2. ASSUME NEW k \in Key, Stored[k] # NULL, Stored[k].owned, v = Stored[k].value
          PROVE  \E x \in Elements : x.value = v /\ x.free_value
      <3>1. index[k] \in Index  BY IndexInTable
      <3>2. PICK m : Has(table, k, m)  BY <1>1, <2>2, StoredIs, StoreIs
      <3>3. Stored[k] = EntryOf(table[index[k]][m])  BY <1>1, <3>2, StoredIs, StoreIs
      <3>4. table[index[k]][m] \in Elements
        <4>1. m \in DOMAIN table[index[k]]  BY <3>2 DEF Has
        <4> QED  BY <1>1, <3>1, <4>1, ElementsDiffer
      <3> QED  BY <2>2, <3>3, <3>4 DEF EntryOf
    <2>3. ASSUME NEW x \in Elements, x.value = v, x.free_value
          PROVE  \E k \in Key : Stored[k] # NULL /\ Stored[k].owned /\ v = Stored[k].value
      <3>1. PICK i \in Index : \E m \in DOMAIN table[i] : x = table[i][m]  BY <1>1, ElementsDiffer
      <3>2. PICK m \in DOMAIN table[i] : x = table[i][m]  BY <3>1
      <3>3. x \in Elem  BY <1>1, <3>2, ElementOfSeq
      <3>4. x.key \in Key /\ index[x.key] = i  BY <1>1, <3>2, <3>3 DEF Elem, Placed
      <3>5. Has(table, x.key, m)  BY <3>2, <3>4 DEF Has
      <3>6. Stored[x.key] = EntryOf(x) /\ Stored[x.key] # NULL
        BY <1>1, <3>2, <3>4, <3>5, StoredIs, StoreIs
      <3> QED  BY <2>3, <3>4, <3>6 DEF EntryOf
    <2> QED  BY <2>1, <2>2, <2>3
  <1>4. \A x \in Elements : x.value \in Value
    <2>1. ASSUME NEW i \in Index, NEW m \in DOMAIN table[i] PROVE table[i][m].value \in Value
      <3>1. table[i][m] \in Elem  BY <1>1, ElementOfSeq
      <3> QED  BY <3>1 DEF Elem
    <2> QED  BY <1>1, <2>1, ElementsDiffer
  <1>5. Released' = {v \in Value : freed'[v] > 0}  BY DEF Released
  <1>6. ASSUME NEW v \in Value
        PROVE  freed'[v] > 0 <=> freed[v] > 0 \/ \E x \in Elements : x.value = v /\ x.free_value
    <2>1. freed[v] \in Nat  BY <1>1
    <2>2. CASE \E x \in Elements : x.value = v /\ x.free_value
      <3>1. freed'[v] = freed[v] + 1  BY <1>2, <2>2
      <3> QED  BY <2>1, <2>2, <3>1
    <2>3. CASE ~\E x \in Elements : x.value = v /\ x.free_value
      <3>1. freed'[v] = freed[v]  BY <1>2, <2>3
      <3> QED  BY <2>3, <3>1
    <2> QED  BY <2>2, <2>3
  <1> QED  BY <1>3, <1>4, <1>5, <1>6 DEF Released

(* The empty table is the empty store.                                     *)
LEMMA StoreInit == Init => Store!Init
  <1> SUFFICES ASSUME Init PROVE Store!Init  OBVIOUS
  <1>1. Stored = [k \in Key |-> NULL]  BY StoredIs, EmptyTable DEF Init
  <1>2. Released = {}
    <2>1. \A v \in Value : freed[v] = 0  BY DEF Init
    <2>2. \A v \in Value : ~(freed[v] > 0)  BY <2>1
    <2> QED  BY <2>2 DEF Released
  <1> QED  BY <1>1, <1>2 DEF Init, Store!Init

(* hash_table_put2 is a Put, or a PutFails.                                *)
LEMMA StorePut ==
  ASSUME HashInv, NEW key \in Key, NEW value \in Value, NEW f \in BOOLEAN,
         hash_table_put2(key, value, f)
  PROVE  Store!Next
  <1> DEFINE e == kv(key, value, f)
  <1>1. ht = "open" /\ ht' = ht  BY DEF hash_table_put2
  <1>2. EntryOf(e) \in Store!Entry  BY DEF EntryOf, kv, Store!Entry
  <1> HIDE DEF e
  <1>3. CASE /\ StoreIn(table') = [StoreIn(table) EXCEPT ![key] = EntryOf(e)]
             /\ \E m : /\ Added(table, table', e, m)
                       /\ \/ Has(table, key, m) /\ freed' = Freed({table[index[key]][m]})
                          \/ (\A q : ~Has(table, key, q)) /\ freed' = freed
             /\ answer' = <<key, 0>>
    <2>1. Stored' = [Stored EXCEPT ![key] = EntryOf(e)]  BY <1>3, StoredIs
    <2>2. Released' = Released \cup Store!Owned({key})
      <3>1. CASE \E m : Has(table, key, m) /\ freed' = Freed({table[index[key]][m]})
        BY <3>1, OneReleased
      <3>2. CASE (\A q : ~Has(table, key, q)) /\ freed' = freed
        <4>1. Released' = Released  BY <3>2 DEF Released
        <4>2. Store!Owned({key}) = {}  BY <3>2, NoneReleased
        <4> QED  BY <4>1, <4>2
      <3> QED  BY <1>3, <3>1, <3>2
    <2>3. Store!Put(key, EntryOf(e))  BY <1>1, <1>3, <2>1, <2>2 DEF Store!Put
    <2> QED  BY <1>2, <2>3 DEF Store!Next
  <1>4. CASE /\ \A q : ~Has(table, key, q)
             /\ answer' = <<key, -1>>
             /\ UNCHANGED <<table, used, freed>>
    <2>1. Stored[key] = NULL  BY <1>4, NoneReleased
    <2>2. Stored' = Stored /\ Released' = Released  BY <1>4, StoredIs DEF Released
    <2>3. Store!PutFails(key)  BY <1>1, <1>4, <2>1, <2>2 DEF Store!PutFails
    <2> QED  BY <2>3 DEF Store!Next
  <1> QED  BY <1>3, <1>4, PutStep DEF e

(* hash_table_rm is a Rm that loses keys of its chain, or the process dies *)
(* or nothing changes.                                                     *)
LEMMA StoreRm ==
  ASSUME HashInv, NEW key \in Key, hash_table_rm(key)
  PROVE  Store!Next \/ UNCHANGED vars
  <1>1. ht = "open"  BY DEF hash_table_rm
  <1>2. CASE ht' = "died" /\ UNCHANGED <<table, used, freed, answer>>
    <2>1. Stored' = Stored /\ Released' = Released  BY <1>2, StoredIs DEF Released
    <2>2. Store!Die  BY <1>1, <1>2, <2>1 DEF Store!Die
    <2> QED  BY <2>2 DEF Store!Next
  <1>3. CASE /\ \E n : /\ Has(table, key, n)
                       /\ Kept(table, table', index[key], n)
                       /\ freed' = Freed({table[index[key]][n]})
             /\ LostNear(table, table', key)
             /\ UNCHANGED <<ht, used, answer>>
    <2>1. PICK n : Has(table, key, n) /\ freed' = Freed({table[index[key]][n]})  BY <1>3
    <2>2. Released' = Released \cup Store!Owned({key})  BY <2>1, OneReleased
    <2>3. Stored[key] # NULL  BY <2>1, StoredIs, StoreIs DEF HashInv
    <2>4. /\ Stored'[key] = NULL
          /\ \A l \in Key : l # key => \/ Stored'[l] = Stored[l]
                                       \/ Stored'[l] = NULL /\ index[l] = index[key]
      BY <1>3, StoredIs DEF LostNear
    <2> DEFINE lost == {l \in SameChain[key] : Stored'[l] = NULL}
    <2>5. lost \in SUBSET SameChain[key]  OBVIOUS
    <2>6. Stored' = [l \in Key |-> IF l = key \/ l \in lost THEN NULL ELSE Stored[l]]
      <3>1. Stored' = [l \in Key |-> Stored'[l]]  BY StoredIs DEF StoreIn
      <3>2. \A l \in Key : Stored'[l] = IF l = key \/ l \in lost THEN NULL ELSE Stored[l]
        BY <2>4 DEF SameChain
      <3> HIDE DEF lost
      <3> QED  BY <3>1, <3>2
    <2> HIDE DEF lost
    <2>7. Store!Rm(key)  BY <1>1, <1>3, <2>2, <2>3, <2>5, <2>6 DEF Store!Rm
    <2> QED  BY <2>7 DEF Store!Next
  <1> QED  BY <1>2, <1>3, RmStep

(* Every step of the table is a step of the store, or none.                *)
LEMMA StoreNext == HashInv /\ [Next]_vars => [Store!Next]_(Store!vars)
  <1> SUFFICES ASSUME HashInv, [Next]_vars PROVE [Store!Next]_(Store!vars)  OBVIOUS
  <1>1. CASE UNCHANGED vars
    <2>1. Stored' = Stored /\ Released' = Released /\ ht' = ht /\ answer' = answer
      BY <1>1, StoredIs DEF vars, Released
    <2> QED  BY <2>1 DEF Store!vars
  <1>2. CASE hash_table_new
    <2>1. Stored' = Stored /\ Released' = Released
      BY <1>2, StoredIs DEF hash_table_new, Released
    <2>2. Store!New  BY <1>2, <2>1 DEF hash_table_new, Store!New
    <2> QED  BY <2>2 DEF Store!Next
  <1>3. ASSUME NEW key \in Key, NEW value \in Value, NEW f \in BOOLEAN, hash_table_put2(key, value, f)
        PROVE  Store!Next
    BY <1>3, StorePut
  <1>4. ASSUME NEW key \in Key, hash_table_get(key) PROVE Store!Next
    <2>1. Stored' = Stored /\ Released' = Released
      BY <1>4, StoredIs DEF hash_table_get, Released
    <2>2. found_value(key) = IF Stored[key] = NULL THEN NULL ELSE Stored[key].value
      <3>1. Sound(table)  BY DEF HashInv
      <3>2. /\ FindIn(table, key) # NULL => Has(table, key, FindIn(table, key))
            /\ \A m : Has(table, key, m) => FindIn(table, key) = m /\ m # NULL
        BY <3>1, FindPlace DEF Sound
      <3>3. CASE Find(key) = NULL
        <4>1. \A m : ~Has(table, key, m)  BY <3>2, <3>3, FindIs
        <4>2. Stored[key] = NULL  BY <3>1, <4>1, StoredIs, StoreIs
        <4> QED  BY <3>3, <4>2 DEF found_value
      <3>4. CASE Find(key) # NULL
        <4>1. Has(table, key, Find(key))  BY <3>2, <3>4, FindIs
        <4>2. Stored[key] = EntryOf(table[index[key]][Find(key)]) /\ Stored[key] # NULL
          BY <3>1, <4>1, StoredIs, StoreIs
        <4> QED  BY <3>4, <4>2 DEF found_value, EntryOf
      <3> QED  BY <3>3, <3>4
    <2>3. Store!Get(key)  BY <1>4, <2>1, <2>2 DEF hash_table_get, Store!Get
    <2> QED  BY <2>3 DEF Store!Next
  <1>5. ASSUME NEW key \in Key, hash_table_rm(key) PROVE Store!Next \/ UNCHANGED vars
    BY <1>5, StoreRm
  <1>6. CASE hash_table_delete
    <2>1. Released' = Released \cup Store!Owned(Key)
      BY <1>6, AllReleased DEF hash_table_delete
    <2>2. Stored' = [k \in Key |-> NULL]
      BY <1>6, StoredIs, EmptyTable DEF hash_table_delete
    <2>3. Store!Delete  BY <1>6, <2>1, <2>2 DEF hash_table_delete, Store!Delete
    <2> QED  BY <2>3 DEF Store!Next
  <1> QED  BY <1>1, <1>2, <1>3, <1>4, <1>5, <1>6 DEF Next

(* The chains implement the store: what hash_table_get returns under a key *)
(* was the last value put under it, whatever keys collide with it, or the  *)
(* key was removed, or lost with a key of its chain.                       *)
THEOREM StoreImplemented == Spec => ImplementsStore
  BY HashInit, HashNext, StoreInit, StoreNext, PTL DEF Spec, ImplementsStore, Store!Spec
=============================================================================
