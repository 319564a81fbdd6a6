---------------------------- MODULE PartsProofs ----------------------------
(***************************************************************************)
(* Theorems about the keeper (KeeperStorage), for any paths, values and    *)
(* replicas, and about the parts of Parts beside it: the parser of packets *)
(* (MessagesJSON), the calls over the bridge (Bridge), the upload of       *)
(* contracts (Upload), the names of the registry (Registry) and the setup  *)
(* directory (SetupInit), for any packets, calls, uploads, contracts,      *)
(* names, placements and failures.  A session of CapTP has CapTPProofs.    *)
(***************************************************************************)
EXTENDS Parts, SequenceTheorems, FiniteSetTheorems, WellFoundedInduction, TLAPS

-----------------------------------------------------------------------------
(* KeeperStorage. *)

\* A path is determined by its parent and its last segment: no two paths
\* share an entry of the key index.
LEMMA PathFromParent ==
    ASSUME NEW p \in Paths, NEW q \in Paths, Parent(p) = Parent(q), Last(p) = Last(q)
    PROVE  p = q
<1>1. /\ p \in Seq(Segments) /\ Len(p) \in Nat \ {0} /\ DOMAIN p = 1..Len(p)
      /\ q \in Seq(Segments) /\ Len(q) \in Nat \ {0} /\ DOMAIN q = 1..Len(q)
  BY PathsAssumption
<1>2. ASSUME NEW s \in Seq(Segments), Len(s) \in Nat \ {0}, Len(s) # 1
      PROVE  /\ Parent(s) \in Seq(Segments) /\ Len(Parent(s)) = Len(s) - 1
             /\ \A i \in 1..(Len(s) - 1) : Parent(s)[i] = s[i]
             /\ Parent(s) # RootPath
  <2>1. Parent(s) = SubSeq(s, 1, Len(s) - 1)
    BY <1>2 DEF Parent, Front
  <2>2. /\ SubSeq(s, 1, Len(s) - 1) \in Seq(Segments)
        /\ Len(SubSeq(s, 1, Len(s) - 1)) = Len(s) - 1
        /\ \A i \in 1..(Len(s) - 1) : SubSeq(s, 1, Len(s) - 1)[i] = s[i]
    <3> DEFINE n == Len(s) - 1
    <3>1. n \in Nat /\ \A i \in 1..n : s[i] \in Segments
      BY <1>2
    <3> HIDE DEF n
    <3>2. /\ SubSeq(s, 1, n) \in Seq(Segments) /\ Len(SubSeq(s, 1, n)) = n
          /\ \A i \in 1..n : SubSeq(s, 1, n)[i] = s[i]
      BY <3>1
    <3> QED
      BY <3>2 DEF n
  <2>3. Parent(s)[1] = s[1] /\ s[1] \in Segments
    BY <1>2, <2>1, <2>2
  <2>4. s[1] # 0
    BY <2>3, PathsAssumption
  <2>5. Parent(s) # RootPath
    BY <2>3, <2>4 DEF RootPath
  <2> QED
    BY <2>1, <2>2, <2>5
<1>3. CASE Len(p) = 1 /\ Len(q) = 1
  BY <1>1, <1>3, SeqEqual DEF Last
<1>4. CASE Len(p) = 1 /\ Len(q) # 1
  BY <1>1, <1>2, <1>4 DEF Parent
<1>5. CASE Len(p) # 1 /\ Len(q) = 1
  BY <1>1, <1>2, <1>5 DEF Parent
<1>6. CASE Len(p) # 1 /\ Len(q) # 1
  <2>1. Len(p) = Len(q)
    <3>1. Len(Parent(p)) = Len(p) - 1 /\ Len(Parent(q)) = Len(q) - 1
      BY <1>1, <1>2, <1>6
    <3>2. Len(Parent(p)) = Len(Parent(q))
      OBVIOUS
    <3>3. Len(p) \in Nat /\ Len(q) \in Nat
      BY <1>1
    <3> QED
      BY <3>1, <3>2, <3>3
  <2>2. \A i \in 1..(Len(p) - 1) : p[i] = q[i]
    BY <1>1, <1>2, <1>6, <2>1
  <2>3. p[Len(p)] = q[Len(p)]
    BY <2>1 DEF Last
  <2>4. \A i \in 1..Len(p) : p[i] = q[i]
    BY <1>1, <2>2, <2>3
  <2> QED
    BY <1>1, <2>1, <2>4, SeqEqual
<1> QED
  BY <1>3, <1>4, <1>5, <1>6

\* A list of segments lists a finite set of them.
LEMMA ListedFinite ==
    ASSUME NEW list \in Seq(Segments)
    PROVE  Listed(list) \subseteq Segments /\ IsFiniteSet(Listed(list))
<1>1. DOMAIN list = 1..Len(list) /\ Len(list) \in Nat
  OBVIOUS
<1>2. list \in Surjection(1..Len(list), Listed(list))
  BY <1>1 DEF Surjection, Listed
<1>3. IsFiniteSet(1..Len(list))
  BY <1>1, FS_Interval
<1> QED
  BY <1>1, <1>2, <1>3, FS_Surjection DEF Listed

\* What SetStorage may write as the key list of a parent: a list of exactly
\* the key map.
LEMMA KeyListLists ==
    ASSUME TypeOK, NEW r \in Replicas, NEW path \in Paths, NEW value,
           NEW list \in KeyLists(KeyMap(r, path, value))
    PROVE  list \in Seq(Segments) /\ Listed(list) = KeyMap(r, path, value)
<1> DEFINE map == KeyMap(r, path, value)
<1>1. Last(path) \in Segments
  BY PathsAssumption DEF Last
<1>2. Parent(path) \in Parents
  BY DEF Parents
<1>3. keys[r][Parent(path)] \in Seq(Segments)
  BY <1>2 DEF TypeOK
<1>4. map \subseteq Segments /\ IsFiniteSet(map)
  BY <1>1, <1>2, <1>3, ListedFinite, FS_AddElement, FS_RemoveElement DEF KeyMap, GetKeys
<1>5. Cardinality(map) \in Nat
  BY <1>4, FS_CardinalityType
<1>6. list \in [1..Cardinality(map) -> map] /\ Listed(list) = map
  BY DEF KeyLists, Enumerations
<1>7. list \in [1..Cardinality(map) -> Segments]
  BY <1>4, <1>6
<1> QED
  BY <1>5, <1>6, <1>7

\* The store keeps its types.
THEOREM TypeCorrect == Spec => []TypeOK
<1>1. Init => TypeOK
  BY DEF Init, TypeOK
<1>2. TypeOK /\ [Next]_vars => TypeOK'
  <2> SUFFICES ASSUME TypeOK, [Next]_vars PROVE TypeOK'
    OBVIOUS
  <2>1. ASSUME NEW path \in Paths, NEW value \in Values \cup {Empty}, SetStorage(path, value)
        PROVE  TypeOK'
    <3>1. PICK chosen :
            /\ \A r \in Replicas : chosen[r] \in KeyLists(KeyMap(r, path, value))
            /\ data' = [r \in Replicas |-> [data[r] EXCEPT ![path] = value]]
            /\ keys' = [r \in Replicas |-> [keys[r] EXCEPT ![Parent(path)] = chosen[r]]]
      BY <2>1 DEF SetStorage
    <3>2. \A r \in Replicas : chosen[r] \in Seq(Segments)
      BY <3>1, KeyListLists
    <3>3. data' \in [Replicas -> [Paths -> Values \cup {Empty}]]
      BY <3>1 DEF TypeOK
    <3>4. keys' \in [Replicas -> [Parents -> Seq(Segments)]]
      BY <3>1, <3>2 DEF TypeOK
    <3> QED
      BY <3>3, <3>4 DEF TypeOK
  <2>2. CASE UNCHANGED vars
    BY <2>2 DEF vars, TypeOK
  <2> QED
    BY <2>1, <2>2 DEF Next
<1> QED
  BY <1>1, <1>2, PTL DEF Spec

\* The key index of every parent lists exactly the children with a value, on
\* every replica, after any sequence of sets and deletions.
THEOREM IndexIsExact == Spec => []IndexExact
<1>1. Init => IndexExact
  <2> SUFFICES ASSUME Init, NEW r \in Replicas, NEW path \in Paths
               PROVE  data[r][path] = Empty /\ Last(path) \notin Listed(keys[r][Parent(path)])
    BY DEF IndexExact
  <2>1. Parent(path) \in Parents
    BY DEF Parents
  <2>2. keys[r][Parent(path)] = <<>>
    BY <2>1 DEF Init
  <2> QED
    BY <2>2 DEF Init, Listed
<1>2. TypeOK /\ IndexExact /\ [Next]_vars => IndexExact'
  <2> SUFFICES ASSUME TypeOK, IndexExact, [Next]_vars PROVE IndexExact'
    OBVIOUS
  <2>1. ASSUME NEW path \in Paths, NEW value \in Values \cup {Empty}, SetStorage(path, value)
        PROVE  IndexExact'
    <3>1. PICK chosen :
            /\ \A r \in Replicas : chosen[r] \in KeyLists(KeyMap(r, path, value))
            /\ data' = [r \in Replicas |-> [data[r] EXCEPT ![path] = value]]
            /\ keys' = [r \in Replicas |-> [keys[r] EXCEPT ![Parent(path)] = chosen[r]]]
      BY <2>1 DEF SetStorage
    <3> SUFFICES ASSUME NEW r \in Replicas, NEW p \in Paths
                 PROVE  data'[r][p] # Empty <=> Last(p) \in Listed(keys'[r][Parent(p)])
      BY DEF IndexExact
    <3> DEFINE old == Listed(keys[r][Parent(path)])
    <3>2. Parent(p) \in Parents /\ Parent(path) \in Parents
      BY DEF Parents
    <3>3. Listed(chosen[r]) = IF value = Empty THEN old \ {Last(path)} ELSE old \cup {Last(path)}
      BY <3>1, <3>2, KeyListLists DEF KeyMap, GetKeys
    <3>4. data[r][p] # Empty <=> Last(p) \in Listed(keys[r][Parent(p)])
      BY DEF IndexExact
    <3>5. /\ data'[r] = [data[r] EXCEPT ![path] = value] /\ data[r] \in [Paths -> Values \cup {Empty}]
          /\ keys'[r] = [keys[r] EXCEPT ![Parent(path)] = chosen[r]] /\ keys[r] \in [Parents -> Seq(Segments)]
      BY <3>1 DEF TypeOK
    <3>6. CASE p = path
      BY <3>2, <3>3, <3>5, <3>6
    <3>7. CASE p # path /\ Parent(p) = Parent(path)
      <4>1. Last(p) # Last(path)
        BY <3>7, PathFromParent
      <4> QED
        BY <3>2, <3>3, <3>4, <3>5, <3>7, <4>1
    <3>8. CASE Parent(p) # Parent(path)
      BY <3>2, <3>4, <3>5, <3>8
    <3> QED
      BY <3>6, <3>7, <3>8
  <2>2. CASE UNCHANGED vars
    BY <2>2 DEF vars, IndexExact
  <2> QED
    BY <2>1, <2>2 DEF Next
<1> QED
  BY <1>1, <1>2, TypeCorrect, PTL DEF Spec

\* A list of segments in their order, each once: what sort.Strings makes of the
\* keys of a map.
Sorted(list) == \A i, j \in DOMAIN list : i < j => list[i] < list[j]

\* Two sorted lists of the same set of n segments are the same.
LEMMA SortedOnce ==
    ASSUME NEW n \in Nat, NEW S \in SUBSET Nat,
           NEW l \in [1..n -> S], NEW m \in [1..n -> S],
           Sorted(l), Sorted(m), Listed(l) = Listed(m)
    PROVE  l = m
<1> DEFINE D == {i \in 1..n : l[i] # m[i]}
           less == OpToRel(<, Nat)
<1> SUFFICES ASSUME D # {} PROVE FALSE
  <2>1. D = {} => \A i \in 1..n : l[i] = m[i]
    OBVIOUS
  <2> QED
    BY <2>1
<1>1. PICK i \in D : \A j \in D : ~(j < i)
  <2>1. IsWellFoundedOn(less, Nat)
    BY NatLessThanWellFounded DEF less
  <2>2. D \subseteq Nat
    OBVIOUS
  <2> HIDE DEF D, less
  <2>3. PICK i \in D : \A j \in D : <<j, i>> \notin less
    BY <2>1, <2>2, WFMin
  <2> QED
    BY <2>2, <2>3 DEF OpToRel, less
<1>2. i \in 1..n /\ l[i] # m[i] /\ \A j \in 1..n : j < i => l[j] = m[j]
  BY <1>1
<1>3. \A k \in 1..n : l[k] \in Nat /\ m[k] \in Nat
  OBVIOUS
<1>4. \A k \in 1..n : \A j \in 1..n : k < j => l[k] < l[j] /\ m[k] < m[j]
  BY DEF Sorted
<1>5. PICK j \in 1..n : m[j] = l[i]
  BY <1>2 DEF Listed
<1>6. PICK k \in 1..n : l[k] = m[i]
  BY <1>2, ZenonT(30) DEF Listed
<1> HIDE DEF D
<1>7. ~(j < i) /\ j # i
  BY <1>2, <1>3, <1>4, <1>5
<1>8. ~(k < i) /\ k # i
  BY <1>2, <1>3, <1>4, <1>6
<1>9. m[i] < l[i] /\ l[i] < m[i]
  BY <1>2, <1>4, <1>5, <1>6, <1>7, <1>8
<1> QED
  BY <1>2, <1>3, <1>9

\* Every replica has the same store, its lists are sorted, and a key is listed
\* only for a path that is set.
StoreInv ==
    /\ \A r, s \in Replicas : data[r] = data[s] /\ keys[r] = keys[s]
    /\ \A r \in Replicas : \A parent \in Parents :
         /\ Sorted(keys[r][parent])
         /\ \A x \in Listed(keys[r][parent]) :
              \E path \in Paths : Parent(path) = parent /\ Last(path) = x

\* SetStorage leaves every replica the same sorted lists.
LEMMA SetStorageKeeps ==
    ASSUME TypeOK, StoreInv, NEW path \in Paths, NEW value \in Values \cup {Empty},
           SetStorage(path, value)
    PROVE  StoreInv'
<1> DEFINE p0 == Parent(path)
<1>0. p0 \in Parents
  BY DEF Parents
<1>1. PICK chosen :
        /\ \A r \in Replicas : chosen[r] \in KeyLists(KeyMap(r, path, value))
        /\ data' = [r \in Replicas |-> [data[r] EXCEPT ![path] = value]]
        /\ keys' = [r \in Replicas |-> [keys[r] EXCEPT ![p0] = chosen[r]]]
  BY DEF SetStorage
<1>2. \A r \in Replicas :
        /\ chosen[r] \in Seq(Segments) /\ Listed(chosen[r]) = KeyMap(r, path, value)
        /\ Sorted(chosen[r])
        /\ chosen[r] \in [1..Cardinality(KeyMap(r, path, value)) -> KeyMap(r, path, value)]
  <2> TAKE r \in Replicas
  <2>1. chosen[r] \in KeyLists(KeyMap(r, path, value))
    BY <1>1
  <2>2. chosen[r] \in Seq(Segments) /\ Listed(chosen[r]) = KeyMap(r, path, value)
    BY <2>1, KeyListLists
  <2>3. Sorted(chosen[r])
    BY <2>1 DEF KeyLists, Sorted
  <2>4. chosen[r] \in [1..Cardinality(KeyMap(r, path, value)) -> KeyMap(r, path, value)]
    BY <2>1 DEF KeyLists, Enumerations
  <2> QED
    BY <2>2, <2>3, <2>4
<1>3. ASSUME NEW r \in Replicas, NEW s \in Replicas
      PROVE  data'[r] = data'[s] /\ keys'[r] = keys'[s]
  <2>1. data[r] = data[s] /\ keys[r] = keys[s]
    BY DEF StoreInv
  <2> DEFINE map == KeyMap(r, path, value)
  <2>2. KeyMap(s, path, value) = map
    BY <2>1 DEF KeyMap, GetKeys
  <2>3. /\ Sorted(chosen[r]) /\ Sorted(chosen[s])
        /\ Listed(chosen[r]) = map /\ Listed(chosen[s]) = map
        /\ chosen[r] \in [1..Cardinality(map) -> map] /\ chosen[s] \in [1..Cardinality(map) -> map]
    BY <1>2, <2>2
  <2>4. map \subseteq Segments /\ IsFiniteSet(map)
    BY <1>2, <2>3, ListedFinite
  <2>5. Cardinality(map) \in Nat /\ map \in SUBSET Nat
    BY <2>4, FS_CardinalityType, PathsAssumption
  <2> HIDE DEF map
  <2>6. chosen[r] = chosen[s]
    BY <2>3, <2>5, SortedOnce
  <2> QED
    BY <1>1, <2>1, <2>6
<1>4. ASSUME NEW r \in Replicas, NEW parent \in Parents
      PROVE  /\ Sorted(keys'[r][parent])
             /\ \A x \in Listed(keys'[r][parent]) :
                  \E p \in Paths : Parent(p) = parent /\ Last(p) = x
  <2>1. /\ Sorted(keys[r][parent])
        /\ \A x \in Listed(keys[r][parent]) :
              \E p \in Paths : Parent(p) = parent /\ Last(p) = x
    BY DEF StoreInv
  <2>2. keys'[r] = [keys[r] EXCEPT ![p0] = chosen[r]] /\ keys[r] \in [Parents -> Seq(Segments)]
    BY <1>1 DEF TypeOK
  <2>3. CASE parent # p0
    <3>1. keys'[r][parent] = keys[r][parent]
      BY <2>2, <2>3
    <3> QED
      BY <2>1, <3>1
  <2>4. CASE parent = p0
    <3>1. keys'[r][parent] = chosen[r]
      BY <2>2, <2>4
    <3>2. Listed(chosen[r]) \subseteq Listed(keys[r][parent]) \cup {Last(path)}
      BY <1>0, <1>2, <2>4 DEF KeyMap, GetKeys
    <3> QED
      BY <1>2, <2>1, <2>4, <3>1, <3>2
  <2> QED
    BY <2>3, <2>4
<1> QED
  BY <1>3, <1>4 DEF StoreInv

\* A path below the root is its parent with its last segment.
LEMMA ChildIs ==
    ASSUME NEW path \in Paths, Parent(path) # RootPath
    PROVE  path = Append(Parent(path), Last(path))
<1>1. path \in Seq(Segments) /\ Len(path) \in Nat \ {0} /\ Len(path) # 1
  BY PathsAssumption DEF Parent
<1> DEFINE n == Len(path) - 1
<1>2. Parent(path) = SubSeq(path, 1, n) /\ n \in Nat /\ Last(path) = path[n + 1]
  BY <1>1 DEF Parent, Front, Last
<1>3. \A i \in 1..n : path[i] \in Segments
  BY <1>1
<1>4. /\ SubSeq(path, 1, n) \in Seq(Segments) /\ Len(SubSeq(path, 1, n)) = n
      /\ \A i \in 1..n : SubSeq(path, 1, n)[i] = path[i]
  <2> HIDE DEF n
  <2> QED
    BY <1>2, <1>3
<1>5. path[n + 1] \in Segments
  BY <1>1
<1> DEFINE q == Append(SubSeq(path, 1, n), path[n + 1])
<1>6. q \in Seq(Segments) /\ Len(q) = n + 1 /\ \A i \in 1..(n + 1) : q[i] = path[i]
  BY <1>2, <1>4, <1>5
<1>7. Len(q) = Len(path)
  BY <1>1, <1>6
<1> QED
  BY <1>1, <1>2, <1>6, <1>7, SeqEqual

\* What "entries" answers about a dotted parent: each child once.
LEMMA EntriesAnswer ==
    ASSUME TypeOK, IndexExact, StoreInv, NEW r \in Replicas,
           NEW parent \in Parents, parent # RootPath
    PROVE  LET children == {path \in Paths : Parent(path) = parent /\ Has(r, path)}
           IN /\ Listed(Entries(r, parent)) = {<<Last(path), data[r][path]>> : path \in children}
              /\ Len(Entries(r, parent)) = Cardinality(children)
<1> DEFINE children == {path \in Paths : Parent(path) = parent /\ Has(r, path)}
           list == keys[r][parent]
           n == Len(list)
           f == [i \in 1..n |-> Append(parent, list[i])]
<1>1. list \in Seq(Segments) /\ n \in Nat /\ DOMAIN list = 1..n /\ Sorted(list)
      /\ GetKeys(r, parent) = list
  BY DEF TypeOK, StoreInv, GetKeys
<1>2. ASSUME NEW i \in 1..n
      PROVE  /\ f[i] \in children /\ Last(f[i]) = list[i]
             /\ GetStorage(r, f[i]) = data[r][f[i]]
  <2>1. PICK path \in Paths : Parent(path) = parent /\ Last(path) = list[i]
    BY <1>1 DEF StoreInv, Listed
  <2>2. path = f[i]
    BY <2>1, ChildIs
  <2>3. data[r][path] # Empty
    BY <1>1, <2>1 DEF IndexExact, Listed
  <2> QED
    BY <2>1, <2>2, <2>3 DEF Has, GetStorage
<1>3. ASSUME NEW path \in children
      PROVE  \E i \in 1..n : f[i] = path
  <2>1. path \in Paths /\ Parent(path) = parent /\ data[r][path] # Empty
    BY DEF Has, GetStorage
  <2>2. Last(path) \in Listed(list)
    BY <2>1 DEF IndexExact
  <2>3. PICK i \in 1..n : list[i] = Last(path)
    BY <1>1, <2>2 DEF Listed
  <2>4. path = Append(parent, Last(path))
    BY <2>1, ChildIs
  <2> QED
    BY <2>3, <2>4
<1>4. ASSUME NEW i \in 1..n, NEW j \in 1..n, f[i] = f[j]
      PROVE  i = j
  <2>1. list[i] = list[j]
    BY <1>2, <1>4, ZenonT(30)
  <2>2. list[i] \in Nat /\ list[j] \in Nat
    <3>1. list[i] \in Segments /\ list[j] \in Segments
      BY <1>1
    <3> QED
      BY <3>1, PathsAssumption
  <2>3. ~(i < j) /\ ~(j < i)
    BY <1>1, <2>1, <2>2, SMTT(30) DEF Sorted
  <2> QED
    BY <1>1, <2>3
<1> HIDE DEF f, children
<1>5. f \in [1..n -> children]
  <2>1. f = [i \in 1..n |-> f[i]]
    BY DEF f
  <2> QED
    BY <1>2, <2>1
<1>6. f \in Bijection(1..n, children)
  BY <1>3, <1>4, <1>5 DEF Bijection, Injection, IsInjective, Surjection
<1>7. Cardinality(children) = n
  BY <1>1, <1>6, FS_CountingElements DEF ExistsBijection
<1>8. Entries(r, parent) = [i \in 1..n |-> <<list[i], GetStorage(r, Append(parent, list[i]))>>]
  BY <1>1 DEF Entries
<1>9. Entries(r, parent) = [i \in 1..n |-> <<Last(f[i]), data[r][f[i]]>>]
  <2>1. \A i \in 1..n : <<list[i], GetStorage(r, Append(parent, list[i]))>>
                          = <<Last(f[i]), data[r][f[i]]>>
    BY <1>2 DEF f
  <2> QED
    BY <1>8, <2>1
<1>10. Len(Entries(r, parent)) = n
  <2> HIDE DEF n
  <2>1. n \in Nat
    BY <1>1
  <2> QED
    BY <1>9, <2>1
<1>11. Listed(Entries(r, parent)) = {<<Last(path), data[r][path]>> : path \in children}
  <2>1. Listed(Entries(r, parent)) = {<<Last(f[i]), data[r][f[i]]>> : i \in 1..n}
    BY <1>9 DEF Listed
  <2>2. \A i \in 1..n : f[i] \in children
    BY <1>2
  <2> QED
    BY <1>3, <2>1, <2>2
<1> QED
  BY <1>7, <1>10, <1>11 DEF children

\* All replicas store the same bytes in whatever order Go enumerates its maps,
\* and "entries" answers each child that has a value once, with its value
\* (keeper.go SetStorage, storage.go Receive).
THEOREM ReplicasAgree == Spec => []ReplicasAnswerAlike
<1>1. Init => StoreInv
  <2> SUFFICES ASSUME Init PROVE StoreInv
    OBVIOUS
  <2>1. \A r \in Replicas : \A parent \in Parents : keys[r][parent] = <<>>
    BY DEF Init
  <2>2. \A r, s \in Replicas : data[r] = data[s] /\ keys[r] = keys[s]
    BY DEF Init
  <2> QED
    BY <2>1, <2>2 DEF StoreInv, Sorted, Listed
<1>2. TypeOK /\ StoreInv /\ [Next]_vars => StoreInv'
  <2> SUFFICES ASSUME TypeOK, StoreInv, [Next]_vars PROVE StoreInv'
    OBVIOUS
  <2>1. CASE UNCHANGED vars
    BY <2>1 DEF vars, StoreInv
  <2> QED
    BY <2>1, SetStorageKeeps DEF Next
<1>3. TypeOK /\ IndexExact /\ StoreInv => ReplicasAnswerAlike
  BY EntriesAnswer DEF ReplicasAnswerAlike, StoreInv
<1> QED
  BY <1>1, <1>2, <1>3, TypeCorrect, IndexIsExact, PTL DEF Spec

-----------------------------------------------------------------------------
\* A step of the whole is a step of each part or leaves it alone.
LEMMA EachPart ==
    ASSUME [PartsNext]_partsVars
    PROVE  /\ UNCHANGED packetVars \/ (part = "packets" /\ Packets!Next)
           /\ UNCHANGED bridgeVars \/ Bridge!Next
           /\ UNCHANGED uploadVars \/ Uploading!Next
           /\ UNCHANGED namingVars \/ Naming!Next
           /\ UNCHANGED directoryVars \/ Directory!Next
           /\ UNCHANGED part
BY DEF PartsNext, partsVars

-----------------------------------------------------------------------------
(* MessagesJSON. *)

\* What was built of a packet that decodes.
Parsed ==
    /\ Len(packet) >= 2 /\ Packets!Decodes(packet)
    /\ msg = [Nums |-> [i \in DOMAIN packet[1] |-> Packets!NumOf(packet[1][i])],
              Messages |-> [i \in DOMAIN packet[1] |-> packet[1][i][2]],
              Ack |-> Packets!Nat0(packet[2])]

PacketInv ==
    /\ outcome \in {"running", "parsed", "broadcast", "refused", "panic"}
    /\ part = "packets" => packet \in Packets!Packets
    /\ part # "packets" => outcome = "running"
    /\ outcome = "panic" => Len(packet) < 2
    /\ outcome \in {"parsed", "broadcast"} => Parsed
    /\ outcome = "broadcast" => Packets!Valid(msg)
    /\ outcome = "refused" => ~Packets!Decodes(packet) \/ (Parsed /\ ~Packets!Valid(msg))

\* A natural number that is a JSON number is passed as it is written.
LEMMA Nat0Is ==
    ASSUME NEW h \in Halves
    PROVE  /\ Packets!Nat0(h) \in Nat
           /\ Packets!IsNat(h) => 2 * Packets!Nat0(h) = h
<1>1. h \in Int  BY HalvesAssumption
<1>2. \A x \in Int : x % 2 = 0 => 2 * (x \div 2) = x  OBVIOUS
<1>3. \A x \in Int : x >= 0 => x \div 2 \in Nat  OBVIOUS
<1>4. CASE Packets!IsNat(h)
  <2>1. Packets!Nat0(h) = h \div 2 /\ h % 2 = 0 /\ h >= 0
    BY <1>4 DEF Packets!Nat0, Packets!IsNat
  <2>2. h \div 2 \in Nat  BY <1>1, <1>3, <2>1
  <2>3. 2 * (h \div 2) = h  BY <1>1, <1>2, <2>1
  <2> QED  BY <2>1, <2>2, <2>3
<1>5. CASE ~Packets!IsNat(h)
  <2>1. Packets!Nat0(h) = 0  BY <1>5 DEF Packets!Nat0
  <2> QED  BY <1>5, <2>1
<1> QED  BY <1>4, <1>5

\* A packet that decodes has its parts where they are expected.
LEMMA DecodedPacket ==
    ASSUME NEW p \in Packets!Packets, Len(p) >= 2, Packets!Decodes(p)
    PROVE  /\ Len(p) = 2 /\ p[2] \in Halves
           /\ \E n \in Nat : DOMAIN p[1] = 1..n
           /\ \A i \in DOMAIN p[1] : p[1][i][1] \in Halves /\ p[1][i][2] \in Bodies
<1>1. p \in Packets!Lists \X Packets!Numbers
  <2>1. \A l : Len(<<l>>) = 1  OBVIOUS
  <2> QED  BY <2>1 DEF Packets!Packets
<1>2. Len(p) = 2 /\ p[1] \in Packets!Lists /\ p[2] \in Packets!Numbers  BY <1>1
<1>3. p[2] # OtherJSON /\ p[1] # OtherJSON /\ \A i \in DOMAIN p[1] : Packets!IsPair(p[1][i])
  BY DEF Packets!Decodes
<1>4. PICK n \in 0..MaxItems : p[1] \in [1..n -> Packets!Items]
  <2>1. p[1] \in UNION {[1..n -> Packets!Items] : n \in 0..MaxItems}
    BY <1>2, <1>3 DEF Packets!Lists
  <2> QED  BY <2>1
<1>5. ASSUME NEW i \in DOMAIN p[1]
      PROVE  p[1][i][1] \in Halves /\ p[1][i][2] \in Bodies
  <2>1. p[1][i] \in Packets!Items /\ Packets!IsPair(p[1][i])  BY <1>3, <1>4
  <2> DEFINE item == p[1][i]
  <2>2. item # OtherJSON /\ item[1] # OtherJSON /\ item[2] # OtherJSON
    BY <2>1 DEF Packets!IsPair
  <2>3. item \in Packets!Numbers \X (Bodies \cup {OtherJSON})  BY <2>1, <2>2 DEF Packets!Items
  <2> QED  BY <2>2, <2>3 DEF Packets!Numbers
<1> QED  BY <1>2, <1>3, <1>4, <1>5 DEF Packets!Numbers

\* The message built of a packet has its numbers and texts in their places.
LEMMA ParsedIs ==
    ASSUME packet \in Packets!Packets, Parsed
    PROVE  /\ Len(msg.Nums) = Len(packet[1]) /\ Len(msg.Messages) = Len(packet[1])
           /\ DOMAIN msg.Nums = DOMAIN packet[1]
           /\ \A i \in DOMAIN msg.Nums :
                /\ msg.Nums[i] = Packets!Nat0(packet[1][i][1]) /\ msg.Nums[i] \in Nat
                /\ Packets!IsNat(packet[1][i][1]) => 2 * msg.Nums[i] = packet[1][i][1]
                /\ msg.Messages[i] = packet[1][i][2]
           /\ 2 * msg.Ack = packet[2] /\ msg.Ack \in Nat
<1>1. /\ Len(packet) = 2 /\ packet[2] \in Halves /\ Packets!IsNat(packet[2])
      /\ \A i \in DOMAIN packet[1] : packet[1][i][1] \in Halves /\ packet[1][i][2] \in Bodies
  BY DecodedPacket DEF Parsed, Packets!Decodes
<1>2. PICK n \in Nat : DOMAIN packet[1] = 1..n  BY DecodedPacket DEF Parsed
<1>3. /\ msg.Nums = [i \in DOMAIN packet[1] |-> Packets!NumOf(packet[1][i])]
      /\ msg.Messages = [i \in DOMAIN packet[1] |-> packet[1][i][2]]
      /\ msg.Ack = Packets!Nat0(packet[2])
  BY DEF Parsed
<1>4. Len(msg.Nums) = n /\ Len(msg.Messages) = n /\ Len(packet[1]) = n  BY <1>2, <1>3
<1>5. 2 * msg.Ack = packet[2] /\ msg.Ack \in Nat  BY <1>1, <1>3, Nat0Is
<1>6. ASSUME NEW i \in DOMAIN packet[1]
      PROVE  /\ msg.Nums[i] = Packets!Nat0(packet[1][i][1]) /\ msg.Nums[i] \in Nat
             /\ Packets!IsNat(packet[1][i][1]) => 2 * msg.Nums[i] = packet[1][i][1]
             /\ msg.Messages[i] = packet[1][i][2]
  <2>1. msg.Nums[i] = Packets!Nat0(packet[1][i][1])  BY <1>3 DEF Packets!NumOf
  <2>2. packet[1][i][1] \in Halves  BY <1>1
  <2> QED  BY <1>3, <2>1, <2>2, Nat0Is
<1> QED  BY <1>3, <1>4, <1>5, <1>6

\* Every step of the parser keeps its invariant.
LEMMA PacketStep ==
    ASSUME PacketInv, UNCHANGED part, UNCHANGED packetVars \/ (part = "packets" /\ Packets!Next)
    PROVE  PacketInv'
<1>1. CASE UNCHANGED packetVars
  BY <1>1 DEF PacketInv, Parsed, packetVars
<1>2. CASE part = "packets" /\ Packets!UnmarshalMessagesJSON
  <2>1. packet' = packet /\ outcome = "running"  BY <1>2 DEF Packets!UnmarshalMessagesJSON
  <2>2. CASE Len(packet) < 2
    <3>1. outcome' = "panic"  BY <1>2, <2>2 DEF Packets!UnmarshalMessagesJSON
    <3> QED  BY <1>2, <2>1, <2>2, <3>1 DEF PacketInv
  <2>3. CASE ~(Len(packet) < 2) /\ ~Packets!Decodes(packet)
    <3>1. outcome' = "refused"  BY <1>2, <2>3 DEF Packets!UnmarshalMessagesJSON
    <3> QED  BY <1>2, <2>1, <2>3, <3>1 DEF PacketInv
  <2>4. CASE ~(Len(packet) < 2) /\ Packets!Decodes(packet)
    <3>1. /\ outcome' = "parsed"
          /\ msg' = [Nums |-> [i \in DOMAIN packet[1] |-> Packets!NumOf(packet[1][i])],
                     Messages |-> [i \in DOMAIN packet[1] |-> packet[1][i][2]],
                     Ack |-> Packets!Nat0(packet[2])]
      BY <1>2, <2>4 DEF Packets!UnmarshalMessagesJSON
    <3>2. packet \in Packets!Packets  BY <1>2 DEF PacketInv
    <3>3. Len(packet) = 1 \/ Len(packet) = 2
      <4>1. \A l : Len(<<l>>) = 1  OBVIOUS
      <4>2. \A p \in Packets!Lists \X Packets!Numbers : Len(p) = 2  OBVIOUS
      <4> QED  BY <3>2, <4>1, <4>2 DEF Packets!Packets
    <3>4. Len(packet) >= 2  BY <2>4, <3>3
    <3>5. Parsed'  BY <2>1, <2>4, <3>1, <3>4 DEF Parsed
    <3> QED  BY <1>2, <2>1, <3>1, <3>5 DEF PacketInv
  <2> QED  BY <2>2, <2>3, <2>4
<1>3. CASE part = "packets" /\ Packets!ValidateBasic
  <2>1. /\ outcome = "parsed" /\ UNCHANGED <<packet, msg>>
        /\ outcome' = IF Packets!Valid(msg) THEN "broadcast" ELSE "refused"
    BY <1>3 DEF Packets!ValidateBasic
  <2>2. Parsed' <=> Parsed  BY <2>1 DEF Parsed
  <2>3. msg' = msg /\ packet' = packet  BY <2>1
  <2> QED  BY <1>3, <2>1, <2>2, <2>3 DEF PacketInv
<1> QED  BY <1>1, <1>2, <1>3 DEF Packets!Next

\* For any numbers and texts: a packet that deliver writes is never turned down
\* and goes on as it was written; of any other packet the texts, the natural
\* numbers and the acknowledgement do (types.go UnmarshalMessagesJSON, msgs.go
\* ValidateBasic).
THEOREM PacketsPass == PartsSpec => []PassedAsWritten
<1>1. PartsInit => PacketInv
  BY DEF PartsInit, PacketInv, Packets!Init
<1>2. PacketInv /\ [PartsNext]_partsVars => PacketInv'  BY EachPart, PacketStep
<1>3. ASSUME PacketInv  PROVE PassedAsWritten
  <2>1. outcome = "broadcast" => part = "packets" /\ packet \in Packets!Packets /\ Parsed
    BY <1>3 DEF PacketInv
  <2>2. Packets!KeepsNaturals  BY <2>1, ParsedIs DEF Packets!KeepsNaturals
  <2>3. ASSUME part = "packets"  PROVE Packets!WellFormedPasses
    <3> SUFFICES ASSUME outcome \in {"refused", "panic"}, Packets!WellFormed(packet)
                 PROVE  FALSE
      BY DEF Packets!WellFormedPasses
    <3>1. packet \in Packets!Packets  BY <1>3, <2>3 DEF PacketInv
    <3>2. Packets!Decodes(packet) /\ Len(packet) = 2
      BY DEF Packets!WellFormed, Packets!Decodes
    <3>3. Parsed /\ ~Packets!Valid(msg)  BY <1>3, <3>2 DEF PacketInv
    <3>4. \A i \in DOMAIN msg.Nums : msg.Messages[i] # NoText /\ msg.Nums[i] >= 0
      <4>1. \A i \in DOMAIN packet[1] : packet[1][i][2] # NoText  BY DEF Packets!WellFormed
      <4> QED  BY <3>1, <3>3, <4>1, ParsedIs
    <3>5. Len(msg.Messages) = Len(msg.Nums) /\ msg.Ack >= 0  BY <3>1, <3>3, ParsedIs
    <3> QED  BY <3>3, <3>4, <3>5 DEF Packets!Valid
  <2> QED  BY <2>2, <2>3 DEF PassedAsWritten
<1> QED  BY <1>1, <1>2, <1>3, PTL DEF PartsSpec

-----------------------------------------------------------------------------
(* Bridge. *)

BridgeTypes ==
    /\ lastReply \in Nat /\ lastPort \in Nat
    /\ go \in [Calls -> {"idle", "enters", "looks", "waits", "deletes", "done"}]
    /\ thread \in [Calls -> {"none", "started", "future", "looks", "sends", "ended"}]
    /\ bridgeSettled \in [Calls -> {"no", "resolved", "rejected"}]
    /\ replyPort \in [Calls -> Nat] /\ storagePort \in [Calls -> Nat]
    /\ dispatched \in Seq(Calls) /\ handling \subseteq Calls
    /\ DOMAIN returned = Calls

\* The one call that holds the mutex is the only one under way.
MutexInv ==
    /\ \A c \in Calls : go[c] \in {"enters", "looks", "waits", "deletes"} => abci = {c}
    /\ \A c \in Calls : go[c] \in {"looks", "waits"} => replyPort[c] \in replies

\* A call's thread works while its goroutine waits for it.
ThreadInv ==
    /\ \A c \in Calls : thread[c] \in {"started", "future", "looks", "sends"}
                          <=> go[c] \in {"looks", "waits"}
    /\ \A c \in Calls : thread[c] \in {"none", "started"} => bridgeSettled[c] = "no"
    /\ \A c \in Calls : go[c] \in {"idle", "enters"} => thread[c] = "none"
    /\ \A c \in Calls : c \in handling => thread[c] = "future" /\ bridgeSettled[c] = "no"
    /\ \A k \in DOMAIN dispatched :
         thread[dispatched[k]] = "future" /\ bridgeSettled[dispatched[k]] = "no"
    /\ Len(dispatched) <= 1 /\ (dispatched # <<>> => handling = {})

\* The storage handler of a delivery is there as long as JavaScript may use it,
\* and the port that JavaScript has is that of the delivery at work.
PortsInv ==
    /\ \A c \in Calls \ {AgCosmosInit} : go[c] \in {"enters", "looks", "waits", "deletes"} =>
         /\ storagePort[c] # 0 /\ storagePort[c] \in DOMAIN portToHandler
         /\ portToHandler[storagePort[c]] = c
    /\ \A c \in handling \ {AgCosmosInit} : sPort = storagePort[c]
    /\ \A s \in stored : s[2] = {s[1]}

\* A call that has not returned has no answer, and then it has its own.
ReturnedInv ==
    /\ \A c \in Calls : go[c] \in {"idle", "enters", "looks", "waits"} => returned[c] = {}
    /\ \A c \in Calls : returned[c] \subseteq {<<c, bridgeSettled[c]>>}

BridgeInv == BridgeTypes /\ MutexInv /\ ThreadInv /\ PortsInv /\ ReturnedInv

\* Calls at work are one and the same.
LEMMA OneAtWork ==
    ASSUME MutexInv, NEW c \in Calls, NEW d \in Calls,
           go[c] \in {"enters", "looks", "waits", "deletes"},
           go[d] \in {"enters", "looks", "waits", "deletes"}
    PROVE  c = d
<1>1. abci = {c} /\ abci = {d}  BY DEF MutexInv
<1> QED  BY <1>1

\* A call enters: its port is new, and no other is at work.
LEMMA CallToNodeKeeps ==
    ASSUME BridgeInv, NEW c \in Calls, Bridge!CallToNode(c)
    PROVE  BridgeInv'
<1>1. /\ go[c] = "idle" /\ abci = {} /\ abci' = {c} /\ go' = [go EXCEPT ![c] = "enters"]
      /\ UNCHANGED <<looping, handling, sPort, bridgeSettled, stored, thread, dispatched,
                     returned, lastReply, replyPort, replies>>
  BY DEF Bridge!CallToNode, Bridge!None, Bridge!nodeVars
<1>2. \A d \in Calls : go[d] \notin {"enters", "looks", "waits", "deletes"}
  BY <1>1 DEF BridgeInv, MutexInv
<1>3. c # AgCosmosInit => Bridge!RegisterPortHandler(c)
  BY DEF Bridge!CallToNode
<1>4. c = AgCosmosInit => UNCHANGED <<lastPort, storagePort, portToHandler>>
  BY DEF Bridge!CallToNode
<1>5. /\ lastPort' \in Nat /\ storagePort' \in [Calls -> Nat]
      /\ c # AgCosmosInit => /\ storagePort'[c] # 0 /\ storagePort'[c] \in DOMAIN portToHandler'
                             /\ portToHandler'[storagePort'[c]] = c
  <2>1. CASE c = AgCosmosInit  BY <1>4, <2>1 DEF BridgeInv, BridgeTypes
  <2>2. CASE c # AgCosmosInit
    <3>1. /\ lastPort' = lastPort + 1 /\ storagePort' = [storagePort EXCEPT ![c] = lastPort']
          /\ portToHandler' = [p \in DOMAIN portToHandler \cup {lastPort'} |->
                                 IF p = lastPort' THEN c ELSE portToHandler[p]]
      BY <1>3, <2>2 DEF Bridge!RegisterPortHandler
    <3>2. lastPort' \in Nat /\ lastPort' # 0  BY <3>1 DEF BridgeInv, BridgeTypes
    <3>3. storagePort'[c] = lastPort' /\ storagePort' \in [Calls -> Nat]
      BY <3>1, <3>2 DEF BridgeInv, BridgeTypes
    <3>4. lastPort' \in DOMAIN portToHandler' /\ portToHandler'[lastPort'] = c  BY <3>1
    <3> QED  BY <3>2, <3>3, <3>4
  <2> QED  BY <2>1, <2>2
<1>6. /\ go'[c] = "enters" /\ \A d \in Calls : d # c => go'[d] = go[d]
      /\ go' \in [Calls -> {"idle", "enters", "looks", "waits", "deletes", "done"}]
  BY <1>1 DEF BridgeInv, BridgeTypes
<1>7. BridgeTypes'  BY <1>1, <1>5, <1>6 DEF BridgeInv, BridgeTypes
<1>8. MutexInv'  BY <1>1, <1>2, <1>6 DEF BridgeInv, MutexInv
<1>9. handling = {}
  BY <1>2 DEF BridgeInv, BridgeTypes, ThreadInv
<1>10. ThreadInv'  BY <1>1, <1>2, <1>6 DEF BridgeInv, ThreadInv
<1>11. PortsInv'  BY <1>1, <1>2, <1>5, <1>6, <1>9 DEF BridgeInv, PortsInv
<1>12. ReturnedInv'
  <2>1. \A d \in Calls : go'[d] \in {"idle", "enters", "looks", "waits"} =>
          go[d] \in {"idle", "enters", "looks", "waits"}
    BY <1>1, <1>6
  <2> QED  BY <1>1, <2>1 DEF BridgeInv, ReturnedInv
<1> QED  BY <1>7, <1>8, <1>10, <1>11, <1>12 DEF BridgeInv

\* A call opens its channel, and its thread starts.
LEMMA EnterChannelKeeps ==
    ASSUME BridgeInv, NEW c \in Calls, Bridge!EnterChannel(c)
    PROVE  BridgeInv'
<1>1. /\ go[c] = "enters" /\ go' = [go EXCEPT ![c] = "looks"]
      /\ lastReply' = lastReply + 1 /\ replyPort' = [replyPort EXCEPT ![c] = lastReply']
      /\ replies' = replies \cup {lastReply'} /\ thread' = [thread EXCEPT ![c] = "started"]
      /\ UNCHANGED <<looping, handling, sPort, bridgeSettled, stored, dispatched, returned,
                     abci, lastPort, storagePort, portToHandler>>
  BY DEF Bridge!EnterChannel, Bridge!nodeVars
<1>2. \A d \in Calls : go[d] \in {"enters", "looks", "waits", "deletes"} => d = c
  BY <1>1, OneAtWork DEF BridgeInv
<1>3. /\ go'[c] = "looks" /\ \A d \in Calls : d # c => go'[d] = go[d]
      /\ thread'[c] = "started" /\ \A d \in Calls : d # c => thread'[d] = thread[d]
      /\ go' \in [Calls -> {"idle", "enters", "looks", "waits", "deletes", "done"}]
      /\ thread' \in [Calls -> {"none", "started", "future", "looks", "sends", "ended"}]
  BY <1>1 DEF BridgeInv, BridgeTypes
<1>4. /\ lastReply' \in Nat /\ replyPort' \in [Calls -> Nat] /\ replyPort'[c] \in replies'
      /\ \A d \in Calls : d # c => replyPort'[d] = replyPort[d]
  BY <1>1 DEF BridgeInv, BridgeTypes
<1>5. BridgeTypes'  BY <1>1, <1>3, <1>4 DEF BridgeInv, BridgeTypes
<1>6. MutexInv'  BY <1>1, <1>2, <1>3, <1>4 DEF BridgeInv, MutexInv
<1>7. thread[c] = "none" /\ bridgeSettled[c] = "no" /\ handling = {} /\ dispatched = <<>>
  <2>1. thread[c] = "none" /\ bridgeSettled[c] = "no"  BY <1>1 DEF BridgeInv, ThreadInv
  <2>2. \A d \in Calls : thread[d] # "future"  BY <1>1, <1>2 DEF BridgeInv, ThreadInv
  <2>3. handling = {}  BY <2>2 DEF BridgeInv, BridgeTypes, ThreadInv
  <2>4. ASSUME dispatched # <<>>  PROVE FALSE
    <3>1. 1 \in DOMAIN dispatched /\ dispatched[1] \in Calls
      BY <2>4 DEF BridgeInv, BridgeTypes
    <3> QED  BY <2>2, <3>1 DEF BridgeInv, ThreadInv
  <2> QED  BY <2>1, <2>3, <2>4
<1>8. ThreadInv'  BY <1>1, <1>2, <1>3, <1>7 DEF BridgeInv, ThreadInv
<1>9. PortsInv'  BY <1>1, <1>3 DEF BridgeInv, PortsInv
<1>10. ReturnedInv'  BY <1>1, <1>3 DEF BridgeInv, ReturnedInv
<1> QED  BY <1>5, <1>6, <1>8, <1>9, <1>10 DEF BridgeInv

\* A call waits for its channel.
LEMMA LookForChannelKeeps ==
    ASSUME BridgeInv, NEW c \in Calls, Bridge!LookForChannel(c)
    PROVE  BridgeInv'
<1>1. /\ go[c] = "looks" /\ go' = [go EXCEPT ![c] = "waits"]
      /\ UNCHANGED <<looping, handling, sPort, bridgeSettled, stored, thread, dispatched,
                     returned, abci, lastReply, replyPort, replies, lastPort, storagePort,
                     portToHandler>>
  BY DEF Bridge!LookForChannel, Bridge!nodeVars
<1>2. /\ go'[c] = "waits" /\ \A d \in Calls : d # c => go'[d] = go[d]
      /\ go' \in [Calls -> {"idle", "enters", "looks", "waits", "deletes", "done"}]
  BY <1>1 DEF BridgeInv, BridgeTypes
<1>3. BridgeTypes'  BY <1>1, <1>2 DEF BridgeInv, BridgeTypes
<1>4. MutexInv'  BY <1>1, <1>2 DEF BridgeInv, MutexInv
<1>5. ThreadInv'  BY <1>1, <1>2 DEF BridgeInv, ThreadInv
<1>6. PortsInv'  BY <1>1, <1>2 DEF BridgeInv, PortsInv
<1>7. ReturnedInv'  BY <1>1, <1>2 DEF BridgeInv, ReturnedInv
<1> QED  BY <1>3, <1>4, <1>5, <1>6, <1>7 DEF BridgeInv

\* The thread that wakes a call is its own.
LEMMA WakeKeeps ==
    ASSUME BridgeInv, NEW c \in Calls, NEW k \in Calls, Bridge!Wake(k, c)
    PROVE  BridgeInv'
<1>1. /\ thread[k] = "sends" /\ go[c] = "waits" /\ go' = [go EXCEPT ![c] = "deletes"]
      /\ thread' = [thread EXCEPT ![k] = "ended"]
      /\ returned' = [returned EXCEPT ![c] = {<<k, bridgeSettled[k]>>}]
      /\ UNCHANGED <<looping, handling, sPort, bridgeSettled, stored, dispatched, abci,
                     lastReply, replyPort, replies, lastPort, storagePort, portToHandler>>
  BY DEF Bridge!Wake, Bridge!nodeVars
<1>2. k = c
  <2>1. go[k] \in {"looks", "waits"}  BY <1>1 DEF BridgeInv, ThreadInv
  <2> QED  BY <1>1, <2>1, OneAtWork DEF BridgeInv
<1>3. /\ go'[c] = "deletes" /\ \A d \in Calls : d # c => go'[d] = go[d]
      /\ thread'[c] = "ended" /\ \A d \in Calls : d # c => thread'[d] = thread[d]
      /\ go' \in [Calls -> {"idle", "enters", "looks", "waits", "deletes", "done"}]
      /\ thread' \in [Calls -> {"none", "started", "future", "looks", "sends", "ended"}]
  BY <1>1, <1>2 DEF BridgeInv, BridgeTypes
<1>4. /\ returned'[c] = {<<c, bridgeSettled[c]>>}
      /\ \A d \in Calls : d # c => returned'[d] = returned[d]
      /\ DOMAIN returned' = Calls
  BY <1>1, <1>2 DEF BridgeInv, BridgeTypes
<1>5. BridgeTypes'  BY <1>1, <1>3, <1>4 DEF BridgeInv, BridgeTypes
<1>6. MutexInv'  BY <1>1, <1>3 DEF BridgeInv, MutexInv
<1>7. c \notin handling /\ \A j \in DOMAIN dispatched : dispatched[j] # c
  BY <1>1, <1>2 DEF BridgeInv, ThreadInv
<1>8. \A j \in DOMAIN dispatched : dispatched[j] \in Calls  BY DEF BridgeInv, BridgeTypes
<1>9. ThreadInv'  BY <1>1, <1>3, <1>7, <1>8 DEF BridgeInv, ThreadInv
<1>10. PortsInv'  BY <1>1, <1>3 DEF BridgeInv, PortsInv
<1>11. ReturnedInv'  BY <1>1, <1>3, <1>4 DEF BridgeInv, ReturnedInv
<1> QED  BY <1>5, <1>6, <1>9, <1>10, <1>11 DEF BridgeInv

\* A call returns: what it has entered is removed, which was all there was.
LEMMA ReturnKeeps ==
    ASSUME BridgeInv, NEW c \in Calls, Bridge!Return(c)
    PROVE  BridgeInv'
<1>1. /\ go[c] = "deletes" /\ go' = [go EXCEPT ![c] = "done"] /\ abci' = {}
      /\ UNCHANGED <<looping, handling, sPort, bridgeSettled, stored, thread, dispatched,
                     returned, lastReply, replyPort, lastPort, storagePort>>
  BY DEF Bridge!Return, Bridge!None, Bridge!nodeVars
<1>2. \A d \in Calls : go[d] \in {"enters", "looks", "waits", "deletes"} => d = c
  BY <1>1, OneAtWork DEF BridgeInv
<1>3. /\ go'[c] = "done" /\ \A d \in Calls : d # c => go'[d] = go[d]
      /\ go' \in [Calls -> {"idle", "enters", "looks", "waits", "deletes", "done"}]
  BY <1>1 DEF BridgeInv, BridgeTypes
<1>4. \A d \in Calls : go'[d] \notin {"enters", "looks", "waits", "deletes"}
  BY <1>2, <1>3
<1>5. BridgeTypes'  BY <1>1, <1>3 DEF BridgeInv, BridgeTypes
<1>6. MutexInv'  BY <1>4 DEF MutexInv
<1>7. ThreadInv'  BY <1>1, <1>3 DEF BridgeInv, ThreadInv
<1>8. handling = {}
  BY <1>1, <1>2 DEF BridgeInv, BridgeTypes, ThreadInv
<1>9. PortsInv'  BY <1>1, <1>4, <1>8 DEF BridgeInv, PortsInv
<1>10. ReturnedInv'  BY <1>1, <1>3 DEF BridgeInv, ReturnedInv
<1> QED  BY <1>5, <1>6, <1>7, <1>9, <1>10 DEF BridgeInv

\* The thread of a call carries it to the event loop, which has no other.
LEMMA DispatchKeeps ==
    ASSUME BridgeInv, NEW c \in Calls, Bridge!Dispatch(c)
    PROVE  BridgeInv'
<1>1. /\ thread[c] = "started" /\ thread' = [thread EXCEPT ![c] = "future"]
      /\ dispatched' = Append(dispatched, c)
      /\ UNCHANGED <<looping, handling, sPort, bridgeSettled, stored, returned, abci, go,
                     lastReply, replyPort, replies, lastPort, storagePort, portToHandler>>
  BY DEF Bridge!Dispatch, Bridge!nodeVars, Bridge!goVars
<1>2. /\ thread'[c] = "future" /\ \A d \in Calls : d # c => thread'[d] = thread[d]
      /\ thread' \in [Calls -> {"none", "started", "future", "looks", "sends", "ended"}]
  BY <1>1 DEF BridgeInv, BridgeTypes
<1>3. \A d \in Calls : thread[d] # "future"
  <2> SUFFICES ASSUME NEW d \in Calls, thread[d] = "future"  PROVE FALSE  OBVIOUS
  <2>1. go[c] \in {"looks", "waits"} /\ go[d] \in {"looks", "waits"}
    BY <1>1 DEF BridgeInv, ThreadInv
  <2>2. c = d  BY <2>1, OneAtWork DEF BridgeInv
  <2> QED  BY <1>1, <2>2
<1>4. handling = {}  BY <1>3 DEF BridgeInv, BridgeTypes, ThreadInv
<1>5. dispatched = <<>>
  <2> SUFFICES ASSUME dispatched # <<>>  PROVE FALSE  OBVIOUS
  <2>1. 1 \in DOMAIN dispatched /\ dispatched[1] \in Calls  BY DEF BridgeInv, BridgeTypes
  <2> QED  BY <1>3, <2>1 DEF BridgeInv, ThreadInv
<1>6. /\ dispatched' \in Seq(Calls) /\ Len(dispatched') <= 1
      /\ \A j \in DOMAIN dispatched' : dispatched'[j] = c
  <2>1. dispatched' = <<c>>  BY <1>1, <1>5
  <2> QED  BY <2>1
<1>7. BridgeTypes'  BY <1>1, <1>2, <1>6 DEF BridgeInv, BridgeTypes
<1>8. MutexInv'  BY <1>1 DEF BridgeInv, MutexInv
<1>9. ThreadInv'  BY <1>1, <1>2, <1>4, <1>6 DEF BridgeInv, ThreadInv
<1>10. PortsInv'  BY <1>1 DEF BridgeInv, PortsInv
<1>11. ReturnedInv'  BY <1>1 DEF BridgeInv, ReturnedInv
<1> QED  BY <1>7, <1>8, <1>9, <1>10, <1>11 DEF BridgeInv

\* The thread of a call goes on when its promise is settled; the channel it
\* looks for is there.
LEMMA ThreadKeeps ==
    ASSUME BridgeInv, NEW c \in Calls, Bridge!FutureReady(c) \/ Bridge!ReplyToGo(c)
    PROVE  BridgeInv'
<1>1. /\ UNCHANGED <<looping, handling, sPort, bridgeSettled, stored, dispatched, returned,
                     abci, go, lastReply, replyPort, replies, lastPort, storagePort,
                     portToHandler>>
      /\ \/ thread[c] = "future" /\ bridgeSettled[c] # "no"
         \/ thread[c] = "looks"
  BY DEF Bridge!FutureReady, Bridge!ReplyToGo, Bridge!nodeVars, Bridge!goVars
<1>2. replyPort[c] \in replies
  <2>1. go[c] \in {"looks", "waits"}  BY <1>1 DEF BridgeInv, ThreadInv
  <2> QED  BY <2>1 DEF BridgeInv, MutexInv
<1>3. thread' = [thread EXCEPT ![c] = "looks"] \/ thread' = [thread EXCEPT ![c] = "sends"]
  BY <1>2 DEF Bridge!FutureReady, Bridge!ReplyToGo
<1>4. /\ thread'[c] \in {"looks", "sends"} /\ \A d \in Calls : d # c => thread'[d] = thread[d]
      /\ thread' \in [Calls -> {"none", "started", "future", "looks", "sends", "ended"}]
  BY <1>3 DEF BridgeInv, BridgeTypes
<1>5. BridgeTypes'  BY <1>1, <1>4 DEF BridgeInv, BridgeTypes
<1>6. MutexInv'  BY <1>1 DEF BridgeInv, MutexInv
<1>7. c \notin handling /\ \A j \in DOMAIN dispatched : dispatched[j] # c
  BY <1>1 DEF BridgeInv, ThreadInv
<1>8. \A j \in DOMAIN dispatched : dispatched[j] \in Calls  BY DEF BridgeInv, BridgeTypes
<1>9. ThreadInv'  BY <1>1, <1>4, <1>7, <1>8 DEF BridgeInv, ThreadInv
<1>10. PortsInv'  BY <1>1 DEF BridgeInv, PortsInv
<1>11. ReturnedInv'  BY <1>1 DEF BridgeInv, ReturnedInv
<1> QED  BY <1>5, <1>6, <1>9, <1>10, <1>11 DEF BridgeInv

\* The event loop takes the one call there is, and JavaScript has its port.
LEMMA FromGoKeeps ==
    ASSUME BridgeInv, Bridge!FromGo
    PROVE  BridgeInv'
<1> DEFINE c == Head(dispatched)
<1>1. /\ dispatched # <<>> /\ dispatched' = Tail(dispatched)
      /\ handling' = handling \cup {c} /\ sPort' = Bridge!SetPort(c)
      /\ UNCHANGED <<abci, go, lastReply, replyPort, replies, lastPort, storagePort,
                     portToHandler, thread, looping, bridgeSettled, returned, stored>>
  BY DEF Bridge!FromGo, Bridge!goVars
<1>2. /\ c \in Calls /\ 1 \in DOMAIN dispatched /\ c = dispatched[1]
      /\ Len(dispatched) = 1 /\ handling = {} /\ dispatched' = <<>>
  <2>1. dispatched \in Seq(Calls) /\ Len(dispatched) <= 1 /\ handling = {}
    BY <1>1 DEF BridgeInv, BridgeTypes, ThreadInv
  <2>2. Len(dispatched) = 1 /\ 1 \in DOMAIN dispatched
    <3>1. Len(dispatched) \in Nat \ {0}  BY <1>1, <2>1, EmptySeq
    <3>2. Len(dispatched) = 1
      <4>1. \A n \in Nat \ {0} : n <= 1 => n = 1  OBVIOUS
      <4> QED  BY <2>1, <3>1, <4>1, Zenon
    <3>3. \A s \in Seq(Calls) : DOMAIN s = 1..Len(s)  OBVIOUS
    <3> QED  BY <2>1, <3>2, <3>3
  <2>3. c = dispatched[1] /\ c \in Calls  BY <2>1, <2>2
  <2>4. Tail(dispatched) = <<>>
    <3>1. Tail(dispatched) \in Seq(Calls) /\ Len(Tail(dispatched)) = 0  BY <1>1, <2>1, <2>2
    <3> QED  BY <3>1, EmptySeq
  <2> QED  BY <1>1, <2>1, <2>2, <2>3, <2>4
<1>3. thread[c] = "future" /\ bridgeSettled[c] = "no"  BY <1>2 DEF BridgeInv, ThreadInv
<1>4. c # AgCosmosInit => sPort' = storagePort[c]
  <2> SUFFICES ASSUME c # AgCosmosInit  PROVE sPort' = storagePort[c]  OBVIOUS
  <2>1. go[c] \in {"looks", "waits"}  BY <1>2, <1>3 DEF BridgeInv, ThreadInv
  <2>2. storagePort[c] # 0  BY <1>2, <2>1 DEF BridgeInv, PortsInv
  <2> QED  BY <1>1, <2>2 DEF Bridge!SetPort
<1>5. dispatched' \in Seq(Calls) /\ DOMAIN dispatched' = {} /\ Len(dispatched') = 0
  BY <1>2
<1>6. handling' = {c}  BY <1>1, <1>2
<1> HIDE DEF c
<1>7. BridgeTypes'  BY <1>1, <1>2, <1>5, <1>6 DEF BridgeInv, BridgeTypes
<1>8. MutexInv'  BY <1>1 DEF BridgeInv, MutexInv
<1>9. ThreadInv'
  <2>1. \A d \in Calls : d \in handling' => thread[d] = "future" /\ bridgeSettled[d] = "no"
    BY <1>3, <1>6
  <2>2. dispatched' = <<>>  BY <1>2
  <2> QED  BY <1>1, <1>5, <2>1, <2>2 DEF BridgeInv, ThreadInv
<1>10. PortsInv'  BY <1>1, <1>4, <1>6 DEF BridgeInv, PortsInv
<1>11. ReturnedInv'  BY <1>1 DEF BridgeInv, ReturnedInv
<1> QED  BY <1>7, <1>8, <1>9, <1>10, <1>11 DEF BridgeInv

\* JavaScript calls the storage with the port of the delivery at work.
LEMMA SendToGoKeeps ==
    ASSUME BridgeInv, NEW c \in Calls, Bridge!SendToGo(c)
    PROVE  BridgeInv'
<1>1. /\ c \in handling /\ c # AgCosmosInit
      /\ stored' = stored \cup {<<c, Bridge!ReceiveFromNode(sPort)>>}
      /\ UNCHANGED <<abci, go, lastReply, replyPort, replies, lastPort, storagePort,
                     portToHandler, thread, looping, dispatched, handling, sPort,
                     bridgeSettled, returned>>
  BY DEF Bridge!SendToGo, Bridge!goVars
<1>2. go[c] \in {"looks", "waits"}  BY <1>1 DEF BridgeInv, ThreadInv
<1>3. sPort \in DOMAIN portToHandler /\ portToHandler[sPort] = c
  BY <1>1, <1>2 DEF BridgeInv, PortsInv
<1>4. Bridge!ReceiveFromNode(sPort) = {c}  BY <1>3 DEF Bridge!ReceiveFromNode
<1>5. BridgeTypes'  BY <1>1 DEF BridgeInv, BridgeTypes
<1>6. MutexInv'  BY <1>1 DEF BridgeInv, MutexInv
<1>7. ThreadInv'  BY <1>1 DEF BridgeInv, ThreadInv
<1>8. PortsInv'  BY <1>1, <1>4 DEF BridgeInv, PortsInv
<1>9. ReturnedInv'  BY <1>1 DEF BridgeInv, ReturnedInv
<1> QED  BY <1>5, <1>6, <1>7, <1>8, <1>9 DEF BridgeInv

\* A handler is done: its call has not returned.
LEMMA HandledKeeps ==
    ASSUME BridgeInv, NEW c \in Calls, NEW how \in {"resolved", "rejected"},
           Bridge!Handled(c, how)
    PROVE  BridgeInv'
<1>1. /\ c \in handling /\ handling' = handling \ {c}
      /\ bridgeSettled' = [bridgeSettled EXCEPT ![c] = how]
      /\ UNCHANGED <<abci, go, lastReply, replyPort, replies, lastPort, storagePort,
                     portToHandler, thread, looping, dispatched, sPort, returned, stored>>
  BY DEF Bridge!Handled, Bridge!Settles, Bridge!goVars
<1>2. /\ bridgeSettled' \in [Calls -> {"no", "resolved", "rejected"}]
      /\ \A d \in Calls : d # c => bridgeSettled'[d] = bridgeSettled[d]
  BY <1>1 DEF BridgeInv, BridgeTypes
<1>3. thread[c] = "future" /\ dispatched = <<>>  BY <1>1 DEF BridgeInv, ThreadInv
<1>4. go[c] \in {"looks", "waits"}  BY <1>3 DEF BridgeInv, ThreadInv
<1>5. returned[c] = {}  BY <1>4 DEF BridgeInv, ReturnedInv
<1>6. BridgeTypes'  BY <1>1, <1>2 DEF BridgeInv, BridgeTypes
<1>7. MutexInv'  BY <1>1 DEF BridgeInv, MutexInv
<1>8. ThreadInv'
  <2>1. DOMAIN dispatched = {} /\ Len(dispatched) = 0  BY <1>3
  <2> QED  BY <1>1, <1>2, <1>3, <2>1 DEF BridgeInv, BridgeTypes, ThreadInv
<1>9. PortsInv'  BY <1>1 DEF BridgeInv, PortsInv
<1>10. ReturnedInv'  BY <1>1, <1>2, <1>5 DEF BridgeInv, ReturnedInv
<1> QED  BY <1>6, <1>7, <1>8, <1>9, <1>10 DEF BridgeInv

\* Every step of the bridge keeps its invariant.
LEMMA BridgeStep ==
    ASSUME BridgeInv, UNCHANGED bridgeVars \/ Bridge!Next
    PROVE  BridgeInv'
<1>1. CASE UNCHANGED bridgeVars \/ Bridge!ScriptEnds
  <2>1. UNCHANGED <<abci, go, lastReply, replyPort, replies, lastPort, storagePort,
                    portToHandler, thread, dispatched, handling, sPort, bridgeSettled,
                    returned, stored>>
    BY <1>1 DEF bridgeVars, Bridge!ScriptEnds, Bridge!goVars
  <2>2. BridgeTypes' /\ MutexInv'  BY <2>1 DEF BridgeInv, BridgeTypes, MutexInv
  <2>3. ThreadInv'  BY <2>1 DEF BridgeInv, ThreadInv
  <2>4. PortsInv' /\ ReturnedInv'  BY <2>1 DEF BridgeInv, PortsInv, ReturnedInv
  <2> QED  BY <2>2, <2>3, <2>4 DEF BridgeInv
<1>2. ASSUME NEW c \in Calls, Bridge!CallToNode(c)  PROVE BridgeInv'
  BY <1>2, CallToNodeKeeps
<1>3. ASSUME NEW c \in Calls, Bridge!GoStep(c)  PROVE BridgeInv'
  BY <1>3, EnterChannelKeeps, LookForChannelKeeps, ReturnKeeps, WakeKeeps DEF Bridge!GoStep
<1>4. ASSUME NEW c \in Calls, Bridge!ThreadStep(c)  PROVE BridgeInv'
  BY <1>4, DispatchKeeps, ThreadKeeps DEF Bridge!ThreadStep
<1>5. ASSUME NEW c \in Calls, Bridge!SendToGo(c)  PROVE BridgeInv'
  BY <1>5, SendToGoKeeps
<1>6. CASE Bridge!NodeStep
  BY <1>1, <1>6, FromGoKeeps, HandledKeeps DEF Bridge!NodeStep
<1> QED  BY <1>1, <1>2, <1>3, <1>4, <1>5, <1>6 DEF Bridge!Next

\* Initially nothing was called.
LEMMA BridgeStart ==
    ASSUME Bridge!Init
    PROVE  BridgeInv
<1>1. BridgeTypes
  <2>1. <<>> \in Seq(Calls)  OBVIOUS
  <2> QED  BY <2>1 DEF Bridge!Init, BridgeTypes
<1>2. MutexInv  BY DEF Bridge!Init, MutexInv
<1>3. ThreadInv  BY DEF Bridge!Init, ThreadInv
<1>4. PortsInv  BY DEF Bridge!Init, PortsInv
<1>5. ReturnedInv  BY DEF Bridge!Init, Bridge!None, ReturnedInv
<1> QED  BY <1>1, <1>2, <1>3, <1>4, <1>5 DEF BridgeInv

\* For any number of calls: each gets its own answer, its storage is that of its
\* own context, and of the goroutines and threads none is in the map of replies
\* while a goroutine writes it (agcosmosdaemon.go, agcosmosdaemon-node.cc).
THEOREM CallsStayApart == PartsSpec => []CallsKeptApart
<1>1. PartsInit => BridgeInv  BY BridgeStart DEF PartsInit
<1>2. BridgeInv /\ [PartsNext]_partsVars => BridgeInv'  BY EachPart, BridgeStep
<1>3. ASSUME BridgeInv  PROVE CallsKeptApart
  <2>1. ASSUME NEW w \in Bridge!WritesMap
        PROVE  Bridge!WritesMap \cup Bridge!ReadsMap = {w}
    <3>1. PICK c \in Calls : go[c] \in {"enters", "deletes"} /\ w = <<"go", c>>
      BY DEF Bridge!WritesMap
    <3>2. \A d \in Calls : go[d] \in {"enters", "looks", "waits", "deletes"} => d = c
      BY <1>3, <3>1, OneAtWork DEF BridgeInv
    <3>3. \A d \in Calls : go[d] # "looks"  BY <3>1, <3>2
    <3>4. \A d \in Calls : thread[d] # "looks"
      BY <1>3, <3>1, <3>2 DEF BridgeInv, ThreadInv
    <3>5. Bridge!ReadsMap = {}  BY <3>3, <3>4 DEF Bridge!ReadsMap
    <3>6. Bridge!WritesMap = {w}  BY <3>1, <3>2 DEF Bridge!WritesMap
    <3> QED  BY <3>5, <3>6
  <2> QED  BY <1>3, <2>1 DEF BridgeInv, PortsInv, ReturnedInv, CallsKeptApart, Bridge!CallsKeptApart
<1> QED  BY <1>1, <1>2, <1>3, PTL DEF PartsSpec

-----------------------------------------------------------------------------
(* Upload. *)

Places == {"none", "waits", "loaded", "asks", "bundles", "installs", "saves", "resolves",
           "ended", "failed"}

UploadTypes ==
    /\ at \in [Uploaders -> Places]
    /\ bundle \in [Uploaders -> SUBSET Available]
    /\ next \in [Uploaders -> Nat \ {0}]
    /\ asked \in [Uploaders -> Seq(DOMAIN Contracts)]
    /\ answered \in [Uploaders -> SUBSET DOMAIN Contracts]
    /\ installed \subseteq Uploaders \X DOMAIN Contracts
    /\ faults \in Nat /\ loaded \in BOOLEAN /\ isReady \in BOOLEAN /\ overlapped \in BOOLEAN

Among(k, s) == \E j \in DOMAIN s : s[j] = k

Asks(u, k) == Among(k, asked[u])

Saved(k) == Contracts[k].name \in DOMAIN uploads

\* What an upload has asked for and saved when it is where it is.
ProgressInv(u) ==
    /\ at[u] = "loaded" => loaded
    /\ at[u] \in {"asks", "bundles", "installs", "saves", "resolves"} => bundle[u] = Available
    /\ at[u] \in {"none", "waits", "loaded", "asks"} => asked[u] = <<>> /\ next[u] = 1
    /\ at[u] = "bundles" => \A k \in Uploading!Wanted : k < next[u] => Asks(u, k)
    /\ at[u] \in {"installs", "saves"} => \A k \in Uploading!Wanted : Asks(u, k)
    /\ at[u] = "saves" => \A k \in DOMAIN Contracts : Asks(u, k) => k \in answered[u]
    /\ at[u] = "saves" => \A j \in DOMAIN asked[u] : j < next[u] => Saved(asked[u][j])
    /\ at[u] = "resolves" => \A k \in Uploading!Wanted : Saved(k)
    /\ \A k \in DOMAIN Contracts : k \in answered[u] <=> <<u, k>> \in installed
    /\ \A k \in answered[u] : Asks(u, k)

Named ==
    /\ \A name \in DOMAIN uploads :
         /\ uploads[name] \in installed
         /\ Contracts[uploads[name][2]].name = name
    /\ isReady => \A k \in Uploading!Wanted : Saved(k)

\* An upload with --once that has asked for something is still at it, or it has
\* ended and said so; and of those that did not overlap there is one.
Began(u) == asked[u] # <<>> \/ u \in Uploading!Uploading

OnceInv ==
    faults = 0 =>
      /\ \A u \in Uploaders : at[u] # "failed"
      /\ \A u \in Once : asked[u] # <<>> => isReady \/ u \in Uploading!Uploading
      /\ ~overlapped => \A u, v \in Once : Began(u) /\ Began(v) => u = v

UploadInv ==
    UploadTypes /\ (\A u \in Uploaders : ProgressInv(u)) /\ Named /\ OnceInv

\* What is asked for is what was appended.
LEMMA AskedIs ==
    ASSUME NEW C, NEW s \in Seq(C), NEW k \in C
    PROVE  /\ Append(s, k) \in Seq(C) /\ Append(s, k) # <<>>
           /\ \A m : Among(m, Append(s, k)) <=> (m = k \/ Among(m, s))
<1>1. /\ Append(s, k) \in Seq(C) /\ Len(Append(s, k)) = Len(s) + 1 /\ Len(s) \in Nat
      /\ DOMAIN s = 1..Len(s) /\ DOMAIN Append(s, k) = 1..(Len(s) + 1)
      /\ Append(s, k)[Len(s) + 1] = k
      /\ \A j \in DOMAIN s : Append(s, k)[j] = s[j]
  OBVIOUS
<1>2. Append(s, k) # <<>>  BY <1>1
<1>3. \A j : j \in 1..(Len(s) + 1) <=> j \in 1..Len(s) \/ j = Len(s) + 1  BY <1>1
<1> QED  BY <1>1, <1>2, <1>3 DEF Among

\* An upload that moves from one place to another, and nothing else happens to it
\* or to the vat but that it gets its bundle or begins to save.
LEMMA MoveTypes ==
    ASSUME UploadTypes, NEW u \in Uploaders, NEW place \in Places, Uploading!To(u, place)
    PROVE  /\ at'[u] = place /\ \A v \in Uploaders : v # u => at'[v] = at[v]
           /\ at' \in [Uploaders -> Places]
BY DEF UploadTypes, Uploading!To

\* The invariants that a step of one upload leaves to the others.
LEMMA OthersKeep ==
    ASSUME NEW u \in Uploaders, \A v \in Uploaders : ProgressInv(v),
           \A v \in Uploaders : v # u =>
             /\ at'[v] = at[v] /\ bundle'[v] = bundle[v] /\ next'[v] = next[v]
             /\ asked'[v] = asked[v] /\ answered'[v] = answered[v]
             /\ \A k \in DOMAIN Contracts : <<v, k>> \in installed' <=> <<v, k>> \in installed,
           loaded => loaded',
           DOMAIN uploads \subseteq DOMAIN uploads',
           ProgressInv(u)'
    PROVE  \A v \in Uploaders : ProgressInv(v)'
<1> SUFFICES ASSUME NEW v \in Uploaders, v # u  PROVE ProgressInv(v)'  OBVIOUS
<1>1. /\ at'[v] = at[v] /\ bundle'[v] = bundle[v] /\ next'[v] = next[v]
      /\ asked'[v] = asked[v] /\ answered'[v] = answered[v]
      /\ \A k \in DOMAIN Contracts : <<v, k>> \in installed' <=> <<v, k>> \in installed
  OBVIOUS
<1>2. \A k : Asks(v, k)' <=> Asks(v, k)  BY <1>1 DEF Asks, Among
<1>3. \A k : Saved(k) => Saved(k)'  BY DEF Saved
<1>4. \A j \in DOMAIN asked[v] : Saved(asked[v][j]) => Contracts[asked[v][j]].name \in DOMAIN uploads'
  BY DEF Saved
<1>5. ProgressInv(v)  OBVIOUS
<1>6. at[v] = "saves" => \A j \in DOMAIN asked[v] : j < next[v] => Saved(asked[v][j])'
  BY <1>1, <1>4, <1>5 DEF ProgressInv, Saved
<1> QED  BY <1>1, <1>2, <1>3, <1>5, <1>6 DEF ProgressInv

\* Initially no upload has begun.
LEMMA UploadStart ==
    ASSUME Uploading!Init
    PROVE  UploadInv
<1>1. UploadTypes
  <2>1. <<>> \in Seq(DOMAIN Contracts)  OBVIOUS
  <2>2. asked \in [Uploaders -> Seq(DOMAIN Contracts)]  BY <2>1 DEF Uploading!Init
  <2>3. /\ at \in [Uploaders -> Places] /\ next \in [Uploaders -> Nat \ {0}]
        /\ bundle \in [Uploaders -> SUBSET Available]
        /\ answered \in [Uploaders -> SUBSET DOMAIN Contracts]
    BY DEF Uploading!Init, Places
  <2> QED  BY <2>2, <2>3 DEF Uploading!Init, UploadTypes
<1>2. \A u \in Uploaders : ProgressInv(u)
  BY DEF Uploading!Init, ProgressInv
<1>3. Named  BY DEF Uploading!Init, Named
<1>4. OnceInv
  BY OnceAssumption DEF Uploading!Init, OnceInv, Began, Uploading!Uploading
<1> QED  BY <1>1, <1>2, <1>3, <1>4 DEF UploadInv

\* The bundle comes.
LEMMA SetPresencesKeeps ==
    ASSUME UploadInv, Uploading!SetPresences
    PROVE  UploadInv'
<1>1. /\ loaded' = TRUE
      /\ UNCHANGED <<isReady, installed, uploads, at, bundle, next, asked, answered,
                     overlapped, faults>>
  BY DEF Uploading!SetPresences
<1>2. UploadTypes'  BY <1>1 DEF UploadInv, UploadTypes
<1>3. ASSUME NEW u \in Uploaders  PROVE ProgressInv(u)'
  BY <1>1 DEF UploadInv, ProgressInv, Asks, Among, Saved
<1>4. Named'  BY <1>1 DEF UploadInv, Named, Saved
<1>5. OnceInv'  BY <1>1 DEF UploadInv, OnceInv, Began, Uploading!Uploading
<1> QED  BY <1>2, <1>3, <1>4, <1>5 DEF UploadInv

\* An upload gets the bootstrap object and its targets.
LEMMA LoadKeeps ==
    ASSUME UploadInv, NEW u \in Uploaders,
           Uploading!GetBootstrap(u) \/ Uploading!Loading(u) \/ Uploading!GetTargets(u)
    PROVE  UploadInv'
<1>1. UNCHANGED <<loaded, isReady, installed, uploads, next, asked, answered, overlapped, faults>>
  BY DEF Uploading!GetBootstrap, Uploading!Loading, Uploading!GetTargets, Uploading!vat
<1>2. \/ /\ at[u] = "none" /\ ~loaded /\ bundle' = bundle /\ Uploading!To(u, "waits")
      \/ /\ at[u] \in {"none", "waits"} /\ loaded /\ bundle' = bundle /\ Uploading!To(u, "loaded")
      \/ /\ at[u] = "loaded" /\ bundle' = [bundle EXCEPT ![u] = Uploading!Exported]
         /\ Uploading!To(u, IF u \in Once THEN "asks" ELSE "bundles")
  BY DEF Uploading!GetBootstrap, Uploading!Loading, Uploading!GetTargets
<1>3. PICK place \in Places : /\ Uploading!To(u, place) /\ place \in {"waits", "loaded", "asks", "bundles"}
                              /\ place = "loaded" => loaded
                              /\ place = "bundles" => u \notin Once
                              /\ place \in {"asks", "bundles"} => at[u] = "loaded"
  BY <1>2 DEF Places
<1>4. /\ at'[u] = place /\ \A v \in Uploaders : v # u => at'[v] = at[v]
      /\ at' \in [Uploaders -> Places]
  BY <1>3, MoveTypes DEF UploadInv
<1>5. ProgressInv(u) /\ UploadTypes  BY DEF UploadInv
<1>6. at[u] \in {"none", "waits", "loaded"} /\ asked[u] = <<>> /\ next[u] = 1
  BY <1>2, <1>5 DEF ProgressInv
<1>7. /\ bundle' \in [Uploaders -> SUBSET Available]
      /\ \A v \in Uploaders : v # u => bundle'[v] = bundle[v]
      /\ place \in {"asks", "bundles"} => bundle'[u] = Available
  <2>1. CASE bundle' = bundle /\ place \in {"waits", "loaded"}
    BY <2>1 DEF UploadInv, UploadTypes
  <2>2. CASE at[u] = "loaded" /\ bundle' = [bundle EXCEPT ![u] = Uploading!Exported]
    <3>1. Uploading!Exported = Available  BY <1>5, <2>2 DEF ProgressInv, Uploading!Exported
    <3> QED  BY <2>2, <3>1 DEF UploadInv, UploadTypes
  <2>3. \/ bundle' = bundle /\ place \in {"waits", "loaded"}
        \/ at[u] = "loaded" /\ bundle' = [bundle EXCEPT ![u] = Uploading!Exported]
    <3>1. ASSUME NEW q \in Places, Uploading!To(u, q)  PROVE place = q
      BY <1>4, <3>1, MoveTypes DEF UploadInv
    <3> QED  BY <1>2, <3>1 DEF Places
  <2> QED  BY <2>1, <2>2, <2>3
<1>8. UploadTypes'  BY <1>1, <1>4, <1>5, <1>7 DEF UploadTypes
<1>9. ProgressInv(u)'
  <2>1. \A k \in Nat \ {0} : ~(k < 1)  OBVIOUS
  <2>2. \A k \in Uploading!Wanted : ~(k < 1)
    BY <2>1, ContractsAssumption DEF Uploading!Wanted
  <2>3. \A k : Asks(u, k)' <=> Asks(u, k)  BY <1>1 DEF Asks, Among
  <2> QED  BY <1>1, <1>3, <1>4, <1>5, <1>6, <1>7, <2>2, <2>3 DEF ProgressInv
<1>10. \A v \in Uploaders : ProgressInv(v)'
  BY <1>1, <1>4, <1>7, <1>9, OthersKeep DEF UploadInv
<1>11. Named'  BY <1>1 DEF UploadInv, Named, Saved
<1>12. OnceInv'
  <2>1. Uploading!Uploading' = Uploading!Uploading
    BY <1>3, <1>4, <1>6, OnceAssumption DEF Uploading!Uploading
  <2>2. \A v \in Uploaders : at'[v] = "failed" => at[v] = "failed"  BY <1>3, <1>4
  <2> QED  BY <1>1, <2>1, <2>2 DEF UploadInv, OnceInv, Began
<1> QED  BY <1>8, <1>10, <1>11, <1>12 DEF UploadInv

\* An upload with --once asks whether another has ended.
LEMMA IsReadyKeeps ==
    ASSUME UploadInv, NEW u \in Uploaders, Uploading!IsReady(u)
    PROVE  UploadInv'
<1>1. /\ at[u] = "asks"
      /\ UNCHANGED <<loaded, isReady, installed, uploads, bundle, next, asked, answered, faults>>
  BY DEF Uploading!IsReady, Uploading!vat
<1>2. ProgressInv(u) /\ UploadTypes  BY DEF UploadInv
<1>3. asked[u] = <<>> /\ next[u] = 1  BY <1>1, <1>2 DEF ProgressInv
<1>4. Named'  BY <1>1 DEF UploadInv, Named, Saved
<1>5. \A k : Asks(u, k)' <=> Asks(u, k)  BY <1>1 DEF Asks, Among
<1>6. CASE isReady
  <2>1. Uploading!To(u, "ended") /\ overlapped' = overlapped
    BY <1>6 DEF Uploading!IsReady
  <2>2. /\ at'[u] = "ended" /\ \A v \in Uploaders : v # u => at'[v] = at[v]
        /\ at' \in [Uploaders -> Places]
    BY <1>2, <2>1, MoveTypes DEF Places
  <2>3. UploadTypes'  BY <1>1, <1>2, <2>1, <2>2 DEF UploadTypes
  <2>4. ProgressInv(u)'  BY <1>1, <1>2, <1>5, <2>2 DEF ProgressInv
  <2>5. \A v \in Uploaders : ProgressInv(v)'  BY <1>1, <2>2, <2>4, OthersKeep DEF UploadInv
  <2>6. Uploading!Uploading' = Uploading!Uploading
    BY <1>1, <2>2, OnceAssumption DEF Uploading!Uploading
  <2>7. \A v \in Uploaders : at'[v] = "failed" => at[v] = "failed"  BY <2>2
  <2>8. OnceInv'  BY <1>1, <2>1, <2>6, <2>7 DEF UploadInv, OnceInv, Began
  <2> QED  BY <1>4, <2>3, <2>5, <2>8 DEF UploadInv
<1>7. CASE ~isReady
  <2>1. /\ Uploading!To(u, "bundles")
        /\ overlapped' = (overlapped \/ Uploading!Uploading # {})
    BY <1>7 DEF Uploading!IsReady
  <2>2. /\ at'[u] = "bundles" /\ \A v \in Uploaders : v # u => at'[v] = at[v]
        /\ at' \in [Uploaders -> Places]
    BY <1>2, <2>1, MoveTypes DEF Places
  <2>3. UploadTypes'
    <3>1. overlapped' \in BOOLEAN  BY <2>1
    <3> QED  BY <1>1, <1>2, <2>2, <3>1 DEF UploadTypes
  <2>4. ProgressInv(u)'
    <3>1. \A k \in Nat \ {0} : ~(k < 1)  OBVIOUS
    <3>2. \A k \in Uploading!Wanted : ~(k < 1)
      BY <3>1, ContractsAssumption DEF Uploading!Wanted
    <3> QED  BY <1>1, <1>2, <1>3, <1>5, <2>2, <3>2 DEF ProgressInv
  <2>5. \A v \in Uploaders : ProgressInv(v)'  BY <1>1, <2>2, <2>4, OthersKeep DEF UploadInv
  <2>6. OnceInv'
    <3> SUFFICES ASSUME faults = 0  PROVE OnceInv'  BY <1>1 DEF OnceInv
    <3>1. \A v \in Uploaders : at'[v] # "failed"  BY <2>2 DEF UploadInv, OnceInv
    <3>2. \A v \in Once : v \in Uploading!Uploading => v \in Uploading!Uploading'
      BY <1>1, <2>2, OnceAssumption DEF Uploading!Uploading
    <3>3. \A v \in Once : asked'[v] # <<>> => isReady' \/ v \in Uploading!Uploading'
      BY <1>1, <3>2 DEF UploadInv, OnceInv
    <3>4. ASSUME ~overlapped', NEW v \in Once, Began(v)'  PROVE v = u
      <4>1. Uploading!Uploading = {}  BY <2>1, <3>4
      <4>2. asked[v] = <<>>  BY <1>7, <4>1 DEF UploadInv, OnceInv
      <4>3. v \in Uploading!Uploading'  BY <1>1, <3>4, <4>2 DEF Began
      <4>4. v = u \/ v \in Uploading!Uploading
        BY <2>2, <4>3, OnceAssumption DEF Uploading!Uploading
      <4> QED  BY <4>1, <4>4
    <3> QED  BY <1>1, <3>1, <3>3, <3>4 DEF OnceInv
  <2> QED  BY <1>4, <2>3, <2>5, <2>6 DEF UploadInv
<1> QED  BY <1>6, <1>7

\* A path is bundled, or skipped because its target is not there.
LEMMA BundlePathKeeps ==
    ASSUME UploadInv, NEW u \in Uploaders, Uploading!BundlePath(u)
    PROVE  UploadInv'
<1> PICK n : n = next[u]  OBVIOUS
<1>1. /\ at[u] = "bundles" /\ n \in DOMAIN Contracts
      /\ next' = [next EXCEPT ![u] = n + 1]
      /\ asked' = IF Contracts[n].target \in bundle[u]
                  THEN [asked EXCEPT ![u] = Append(asked[u], n)] ELSE asked
      /\ UNCHANGED <<loaded, isReady, installed, uploads, at, bundle, answered, overlapped, faults>>
  BY DEF Uploading!BundlePath, Uploading!vat
<1>2. ProgressInv(u) /\ UploadTypes  BY DEF UploadInv
<1>3. bundle[u] = Available /\ \A k \in Uploading!Wanted : k < n => Asks(u, k)
  BY <1>1, <1>2 DEF ProgressInv
<1>4. n \in Nat \ {0} /\ asked[u] \in Seq(DOMAIN Contracts)  BY <1>2 DEF UploadTypes
<1>5. /\ asked' \in [Uploaders -> Seq(DOMAIN Contracts)]
      /\ \A v \in Uploaders : v # u => asked'[v] = asked[v]
      /\ \A k : Asks(u, k) => Asks(u, k)'
      /\ Contracts[n].target \in Available => Asks(u, n)'
  <2>1. CASE Contracts[n].target \in bundle[u]
    <3>1. asked'[u] = Append(asked[u], n) /\ \A v \in Uploaders : v # u => asked'[v] = asked[v]
      BY <1>1, <1>2, <2>1 DEF UploadTypes
    <3>2. asked' = [asked EXCEPT ![u] = Append(asked[u], n)]  BY <1>1, <2>1
    <3>3. Append(asked[u], n) \in Seq(DOMAIN Contracts)  BY <1>1, <1>4, AskedIs
    <3>4. \A k : Asks(u, k)' <=> (k = n \/ Asks(u, k))
      <4>1. \A k : Asks(u, k)' <=> Among(k, Append(asked[u], n))  BY <3>1 DEF Asks, Among
      <4> QED  BY <1>1, <1>4, <4>1, AskedIs DEF Asks
    <3>5. asked' \in [Uploaders -> Seq(DOMAIN Contracts)]
      BY <1>2, <3>2, <3>3 DEF UploadTypes
    <3> QED  BY <3>1, <3>4, <3>5, Zenon
  <2>2. CASE Contracts[n].target \notin bundle[u]
    <3>1. asked' = asked  BY <1>1, <2>2
    <3>2. \A k : Asks(u, k)' <=> Asks(u, k)  BY <3>1 DEF Asks, Among
    <3> QED  BY <1>2, <1>3, <2>2, <3>1, <3>2 DEF UploadTypes
  <2> QED  BY <2>1, <2>2
<1>6. /\ next'[u] = n + 1 /\ \A v \in Uploaders : v # u => next'[v] = next[v]
      /\ next' \in [Uploaders -> Nat \ {0}]
  <2>1. n + 1 \in Nat \ {0}  BY <1>4
  <2> QED  BY <1>1, <1>2, <2>1 DEF UploadTypes
<1>7. UploadTypes'  BY <1>1, <1>2, <1>5, <1>6 DEF UploadTypes
<1>8. ProgressInv(u)'
  <2>1. \A k \in Uploading!Wanted : k < next'[u] => Asks(u, k)'
    <3> SUFFICES ASSUME NEW k \in Uploading!Wanted, k < n + 1  PROVE Asks(u, k)'
      BY <1>6
    <3>1. k \in Nat /\ Contracts[k].target \in Available
      BY ContractsAssumption DEF Uploading!Wanted
    <3>2. k < n \/ k = n  BY <1>4, <3>1
    <3> QED  BY <1>3, <1>5, <3>1, <3>2, Zenon
  <2>2. Uploading!Wanted' = Uploading!Wanted  BY DEF Uploading!Wanted
  <2> QED  BY <1>1, <1>2, <1>3, <1>5, <2>1 DEF ProgressInv
<1>9. \A v \in Uploaders : ProgressInv(v)'
  BY <1>1, <1>5, <1>6, <1>8, OthersKeep DEF UploadInv
<1>10. Named'  BY <1>1 DEF UploadInv, Named, Saved
<1>11. OnceInv'
  <2>1. Uploading!Uploading' = Uploading!Uploading  BY <1>1 DEF Uploading!Uploading
  <2>2. u \in Once => u \in Uploading!Uploading  BY <1>1 DEF Uploading!Uploading
  <2>3. \A v \in Once : asked'[v] # <<>> => asked[v] # <<>> \/ v = u
    BY <1>5, OnceAssumption
  <2>4. \A v \in Once : Began(v)' => Began(v)  BY <2>1, <2>2, <2>3 DEF Began
  <2> QED  BY <1>1, <2>1, <2>2, <2>3, <2>4 DEF UploadInv, OnceInv
<1> QED  BY <1>7, <1>9, <1>10, <1>11 DEF UploadInv

\* Every path has been bundled.
LEMMA AllBundledKeeps ==
    ASSUME UploadInv, NEW u \in Uploaders, Uploading!AllBundled(u)
    PROVE  UploadInv'
<1>1. /\ at[u] = "bundles" /\ next[u] \notin DOMAIN Contracts /\ Uploading!To(u, "installs")
      /\ UNCHANGED <<loaded, isReady, installed, uploads, bundle, next, asked, answered,
                     overlapped, faults>>
  BY DEF Uploading!AllBundled, Uploading!vat
<1>2. ProgressInv(u) /\ UploadTypes  BY DEF UploadInv
<1>3. /\ at'[u] = "installs" /\ \A v \in Uploaders : v # u => at'[v] = at[v]
      /\ at' \in [Uploaders -> Places]
  BY <1>1, <1>2, MoveTypes DEF Places
<1>4. UploadTypes'  BY <1>1, <1>2, <1>3 DEF UploadTypes
<1>5. \A k : Asks(u, k)' <=> Asks(u, k)  BY <1>1 DEF Asks
<1>6. \A k \in Uploading!Wanted : Asks(u, k)
  <2>1. next[u] \in Nat \ {0}  BY <1>2 DEF UploadTypes
  <2>2. \A k \in DOMAIN Contracts : k < next[u]  BY <1>1, <2>1, ContractsAssumption
  <2> QED  BY <1>1, <1>2, <2>2 DEF ProgressInv, Uploading!Wanted
<1>7. ProgressInv(u)'  BY <1>1, <1>2, <1>3, <1>5, <1>6 DEF ProgressInv
<1>8. \A v \in Uploaders : ProgressInv(v)'  BY <1>1, <1>3, <1>7, OthersKeep DEF UploadInv
<1>9. Named'  BY <1>1 DEF UploadInv, Named, Saved
<1>10. OnceInv'
  <2>1. Uploading!Uploading' = Uploading!Uploading
    BY <1>1, <1>3, OnceAssumption DEF Uploading!Uploading
  <2>2. \A v \in Uploaders : at'[v] = "failed" => at[v] = "failed"  BY <1>3
  <2> QED  BY <1>1, <2>1, <2>2 DEF UploadInv, OnceInv, Began
<1> QED  BY <1>4, <1>8, <1>9, <1>10 DEF UploadInv

\* The host installs a contract, perhaps for an upload that is gone.
LEMMA InstallKeeps ==
    ASSUME UploadInv, NEW u \in Uploaders, NEW k \in DOMAIN Contracts, Uploading!Install(u, k)
    PROVE  UploadInv'
<1>1. /\ Asks(u, k) /\ installed' = installed \cup {<<u, k>>}
      /\ answered' = [answered EXCEPT ![u] = answered[u] \cup {k}]
      /\ UNCHANGED <<loaded, isReady, uploads, at, bundle, next, asked, overlapped, faults>>
  BY DEF Uploading!Install, Uploading!Range, Asks, Among
<1>2. ProgressInv(u) /\ UploadTypes  BY DEF UploadInv
<1>3. /\ answered'[u] = answered[u] \cup {k}
      /\ \A v \in Uploaders : v # u => answered'[v] = answered[v]
      /\ answered' \in [Uploaders -> SUBSET DOMAIN Contracts]
  BY <1>1, <1>2 DEF UploadTypes
<1>4. /\ installed' \subseteq Uploaders \X DOMAIN Contracts
      /\ \A v, m : <<v, m>> \in installed' <=> (<<v, m>> \in installed \/ (v = u /\ m = k))
  BY <1>1, <1>2 DEF UploadTypes
<1>5. UploadTypes'  BY <1>1, <1>2, <1>3, <1>4 DEF UploadTypes
<1>6. ProgressInv(u)'
  <2>1. \A m : Asks(u, m)' <=> Asks(u, m)  BY <1>1 DEF Asks
  <2>2. \A m \in DOMAIN Contracts : m \in answered'[u] <=> <<u, m>> \in installed'
    BY <1>2, <1>3, <1>4 DEF ProgressInv
  <2>3. \A m \in answered'[u] : Asks(u, m)  BY <1>1, <1>2, <1>3 DEF ProgressInv
  <2>4. \A m \in DOMAIN Contracts : m \in answered[u] => m \in answered'[u]  BY <1>3
  <2>5. \A m : Saved(m)' <=> Saved(m)  BY <1>1 DEF Saved
  <2>6. \A j \in DOMAIN asked[u] : Saved(asked[u][j])' <=> Saved(asked[u][j])
    BY <1>1 DEF Saved
  <2> QED  BY <1>1, <1>2, <2>1, <2>2, <2>3, <2>4, <2>5, <2>6 DEF ProgressInv
<1>7. \A v \in Uploaders : ProgressInv(v)'
  BY <1>1, <1>3, <1>4, <1>6, OthersKeep DEF UploadInv
<1>8. Named'  BY <1>1 DEF UploadInv, Named, Saved
<1>9. OnceInv'  BY <1>1 DEF UploadInv, OnceInv, Began, Uploading!Uploading
<1> QED  BY <1>5, <1>7, <1>8, <1>9 DEF UploadInv

\* All answers have come, and the upload begins to save.
LEMMA AllInstalledKeeps ==
    ASSUME UploadInv, NEW u \in Uploaders, Uploading!AllInstalled(u)
    PROVE  UploadInv'
<1>1. /\ at[u] = "installs" /\ answered[u] = Uploading!Range(asked[u])
      /\ Uploading!To(u, "saves") /\ next' = [next EXCEPT ![u] = 1]
      /\ UNCHANGED <<loaded, isReady, installed, uploads, bundle, asked, answered,
                     overlapped, faults>>
  BY DEF Uploading!AllInstalled, Uploading!vat
<1>2. ProgressInv(u) /\ UploadTypes  BY DEF UploadInv
<1>3. /\ at'[u] = "saves" /\ \A v \in Uploaders : v # u => at'[v] = at[v]
      /\ at' \in [Uploaders -> Places]
  BY <1>1, <1>2, MoveTypes DEF Places
<1>4. /\ next'[u] = 1 /\ \A v \in Uploaders : v # u => next'[v] = next[v]
      /\ next' \in [Uploaders -> Nat \ {0}]
  BY <1>1, <1>2 DEF UploadTypes
<1>5. UploadTypes'  BY <1>1, <1>2, <1>3, <1>4 DEF UploadTypes
<1>6. ProgressInv(u)'
  <2>1. \A k : Asks(u, k)' <=> Asks(u, k)  BY <1>1 DEF Asks
  <2>2. \A k \in DOMAIN Contracts : Asks(u, k) => k \in answered[u]
    BY <1>1 DEF Asks, Among, Uploading!Range
  <2>3. \A j \in DOMAIN asked[u] : ~(j < 1)  BY <1>2 DEF UploadTypes
  <2> QED  BY <1>1, <1>2, <1>3, <1>4, <2>1, <2>2, <2>3 DEF ProgressInv
<1>7. \A v \in Uploaders : ProgressInv(v)'
  BY <1>1, <1>3, <1>4, <1>6, OthersKeep DEF UploadInv
<1>8. Named'  BY <1>1 DEF UploadInv, Named, Saved
<1>9. OnceInv'
  <2>1. Uploading!Uploading' = Uploading!Uploading
    BY <1>1, <1>3, OnceAssumption DEF Uploading!Uploading
  <2>2. \A v \in Uploaders : at'[v] = "failed" => at[v] = "failed"  BY <1>3
  <2> QED  BY <1>1, <2>1, <2>2 DEF UploadInv, OnceInv, Began
<1> QED  BY <1>5, <1>7, <1>8, <1>9 DEF UploadInv

\* A contract is saved under the name of its path.
LEMMA SaveKeeps ==
    ASSUME UploadInv, NEW u \in Uploaders, Uploading!Save(u)
    PROVE  UploadInv'
<1> PICK n, k : n = next[u] /\ k = asked[u][next[u]]  OBVIOUS
<1>1. /\ at[u] = "saves" /\ n \in DOMAIN asked[u] /\ next' = [next EXCEPT ![u] = n + 1]
      /\ uploads' = Uploading!With(uploads, Contracts[k].name, <<u, k>>)
      /\ UNCHANGED <<loaded, isReady, installed, at, bundle, asked, answered, overlapped, faults>>
  BY DEF Uploading!Save
<1>2. ProgressInv(u) /\ UploadTypes  BY DEF UploadInv
<1>3. /\ k = asked[u][n] /\ k \in DOMAIN Contracts /\ n \in Nat \ {0}
      /\ DOMAIN asked[u] \subseteq Nat
  BY <1>1, <1>2 DEF UploadTypes
<1>4. Asks(u, k)  BY <1>1, <1>3 DEF Asks, Among
<1>5. <<u, k>> \in installed  BY <1>1, <1>2, <1>3, <1>4 DEF ProgressInv
<1>6. /\ next'[u] = n + 1 /\ \A v \in Uploaders : v # u => next'[v] = next[v]
      /\ next' \in [Uploaders -> Nat \ {0}]
  <2>1. n + 1 \in Nat \ {0}  BY <1>3
  <2> QED  BY <1>1, <1>2, <2>1 DEF UploadTypes
<1>7. /\ DOMAIN uploads' = DOMAIN uploads \cup {Contracts[k].name}
      /\ uploads'[Contracts[k].name] = <<u, k>>
      /\ \A name \in DOMAIN uploads : name # Contracts[k].name => uploads'[name] = uploads[name]
  BY <1>1 DEF Uploading!With
<1>8. UploadTypes'  BY <1>1, <1>2, <1>6 DEF UploadTypes
<1>9. Saved(k)' /\ \A m : Saved(m) => Saved(m)'  BY <1>7 DEF Saved
<1>10. ProgressInv(u)'
  <2>1. \A m : Asks(u, m)' <=> Asks(u, m)  BY <1>1 DEF Asks
  <2>2. ASSUME NEW j \in DOMAIN asked[u], j < n + 1
        PROVE  Contracts[asked[u][j]].name \in DOMAIN uploads'
    <3>1. j < n \/ j = n  BY <1>3, <2>2
    <3>2. CASE j < n
      <4>1. Saved(asked[u][j])  BY <1>1, <1>2, <3>2 DEF ProgressInv
      <4> QED  BY <1>7, <4>1 DEF Saved
    <3>3. CASE j = n  BY <1>3, <1>7, <3>3
    <3> QED  BY <3>1, <3>2, <3>3
  <2>3. \A j \in DOMAIN asked[u] : j < next'[u] => Saved(asked[u][j])'
    BY <1>1, <1>6, <2>2 DEF Saved
  <2> QED  BY <1>1, <1>2, <2>1, <2>3 DEF ProgressInv
<1>11. \A v \in Uploaders : ProgressInv(v)'
  BY <1>1, <1>6, <1>7, <1>10, OthersKeep DEF UploadInv
<1>12. Named'
  <2>1. ASSUME NEW name \in DOMAIN uploads'
        PROVE  uploads'[name] \in installed /\ Contracts[uploads'[name][2]].name = name
    <3>1. CASE name = Contracts[k].name
      <4>1. uploads'[name] = <<u, k>>  BY <1>7, <3>1
      <4>2. uploads'[name][2] = k  BY <4>1
      <4> QED  BY <1>5, <3>1, <4>1, <4>2
    <3>2. CASE name # Contracts[k].name
      <4>1. name \in DOMAIN uploads /\ uploads'[name] = uploads[name]
        BY <1>7, <2>1, <3>2
      <4>2. uploads[name] \in installed /\ Contracts[uploads[name][2]].name = name
        BY <4>1 DEF UploadInv, Named
      <4> QED  BY <4>1, <4>2
    <3> QED  BY <3>1, <3>2
  <2>2. isReady => \A m \in Uploading!Wanted : Saved(m)'  BY <1>9 DEF UploadInv, Named
  <2> QED  BY <1>1, <2>1, <2>2 DEF Named
<1>13. OnceInv'  BY <1>1 DEF UploadInv, OnceInv, Began, Uploading!Uploading
<1> QED  BY <1>8, <1>11, <1>12, <1>13 DEF UploadInv

\* Everything has been saved: one with --once goes on to say so.
LEMMA AllSavedKeeps ==
    ASSUME UploadInv, NEW u \in Uploaders, Uploading!AllSaved(u)
    PROVE  UploadInv'
<1> DEFINE place == IF u \in Once THEN "resolves" ELSE "ended"
<1>1. /\ at[u] = "saves" /\ next[u] \notin DOMAIN asked[u] /\ Uploading!To(u, place)
      /\ UNCHANGED <<loaded, isReady, installed, uploads, bundle, next, asked, answered,
                     overlapped, faults>>
  BY DEF Uploading!AllSaved, Uploading!vat
<1>2. ProgressInv(u) /\ UploadTypes  BY DEF UploadInv
<1>3. /\ at'[u] = place /\ \A v \in Uploaders : v # u => at'[v] = at[v]
      /\ at' \in [Uploaders -> Places]
  <2>1. place \in Places  BY DEF Places
  <2> HIDE DEF place
  <2> QED  BY <1>1, <1>2, <2>1, MoveTypes
<1>4. UploadTypes'  BY <1>1, <1>2, <1>3 DEF UploadTypes
<1>5. \A k \in Uploading!Wanted : Saved(k)
  <2>1. next[u] \in Nat \ {0} /\ asked[u] \in Seq(DOMAIN Contracts)  BY <1>2 DEF UploadTypes
  <2>2. \A j \in DOMAIN asked[u] : j < next[u]  BY <1>1, <2>1
  <2> SUFFICES ASSUME NEW k \in Uploading!Wanted  PROVE Saved(k)  OBVIOUS
  <2>3. Asks(u, k)  BY <1>1, <1>2 DEF ProgressInv
  <2>4. PICK j \in DOMAIN asked[u] : asked[u][j] = k  BY <2>3 DEF Asks, Among
  <2> QED  BY <1>1, <1>2, <2>2, <2>4 DEF ProgressInv
<1>6. ProgressInv(u)'
  <2>1. \A k : Asks(u, k)' <=> Asks(u, k)  BY <1>1 DEF Asks
  <2>2. \A k : Saved(k)' <=> Saved(k)  BY <1>1 DEF Saved
  <2>3. at'[u] \in {"resolves", "ended"}  BY <1>3
  <2> QED  BY <1>1, <1>2, <1>5, <2>1, <2>2, <2>3 DEF ProgressInv
<1>7. \A v \in Uploaders : ProgressInv(v)'  BY <1>1, <1>3, <1>6, OthersKeep DEF UploadInv
<1>8. Named'  BY <1>1 DEF UploadInv, Named, Saved
<1>9. OnceInv'
  <2>1. Uploading!Uploading' = Uploading!Uploading
    BY <1>1, <1>3, OnceAssumption DEF Uploading!Uploading
  <2>2. \A v \in Uploaders : at'[v] = "failed" => at[v] = "failed"  BY <1>3
  <2> QED  BY <1>1, <2>1, <2>2 DEF UploadInv, OnceInv, Began
<1> QED  BY <1>4, <1>7, <1>8, <1>9 DEF UploadInv

\* READY is resolved once everything is saved.
LEMMA ReadyKeeps ==
    ASSUME UploadInv, NEW u \in Uploaders, Uploading!Ready(u)
    PROVE  UploadInv'
<1>1. /\ at[u] = "resolves" /\ isReady' = TRUE /\ Uploading!To(u, "ended")
      /\ UNCHANGED <<loaded, installed, uploads, bundle, next, asked, answered,
                     overlapped, faults>>
  BY DEF Uploading!Ready
<1>2. ProgressInv(u) /\ UploadTypes  BY DEF UploadInv
<1>3. /\ at'[u] = "ended" /\ \A v \in Uploaders : v # u => at'[v] = at[v]
      /\ at' \in [Uploaders -> Places]
  BY <1>1, <1>2, MoveTypes DEF Places
<1>4. UploadTypes'  BY <1>1, <1>2, <1>3 DEF UploadTypes
<1>5. ProgressInv(u)'
  <2>1. \A k : Asks(u, k)' <=> Asks(u, k)  BY <1>1 DEF Asks
  <2> QED  BY <1>1, <1>2, <1>3, <2>1 DEF ProgressInv
<1>6. \A v \in Uploaders : ProgressInv(v)'  BY <1>1, <1>3, <1>5, OthersKeep DEF UploadInv
<1>7. Named'
  <2>1. \A k \in Uploading!Wanted : Saved(k)  BY <1>1, <1>2 DEF ProgressInv
  <2> QED  BY <1>1, <2>1 DEF UploadInv, Named, Saved
<1>8. OnceInv'
  <2>1. \A v \in Uploading!Uploading' : v \in Uploading!Uploading
    BY <1>3, OnceAssumption DEF Uploading!Uploading
  <2>2. \A v \in Uploaders : at'[v] = "failed" => at[v] = "failed"  BY <1>3
  <2>3. \A v \in Once : Began(v)' => Began(v)  BY <1>1, <2>1 DEF Began
  <2> QED  BY <1>1, <2>2, <2>3 DEF UploadInv, OnceInv
<1> QED  BY <1>4, <1>6, <1>7, <1>8 DEF UploadInv

\* An upload fails where it is.
LEMMA FailKeeps ==
    ASSUME UploadInv, NEW u \in Uploaders, Uploading!Fail(u)
    PROVE  UploadInv'
<1>1. /\ faults' = faults + 1 /\ Uploading!To(u, "failed")
      /\ UNCHANGED <<loaded, isReady, installed, uploads, bundle, next, asked, answered, overlapped>>
  BY DEF Uploading!Fail, Uploading!vat
<1>2. ProgressInv(u) /\ UploadTypes  BY DEF UploadInv
<1>3. /\ at'[u] = "failed" /\ \A v \in Uploaders : v # u => at'[v] = at[v]
      /\ at' \in [Uploaders -> Places]
  BY <1>1, <1>2, MoveTypes DEF Places
<1>4. faults' \in Nat /\ faults' # 0  BY <1>1, <1>2 DEF UploadTypes
<1>5. UploadTypes'  BY <1>1, <1>2, <1>3, <1>4 DEF UploadTypes
<1>6. ProgressInv(u)'
  <2>1. \A k : Asks(u, k)' <=> Asks(u, k)  BY <1>1 DEF Asks
  <2> QED  BY <1>1, <1>2, <1>3, <2>1 DEF ProgressInv
<1>7. \A v \in Uploaders : ProgressInv(v)'  BY <1>1, <1>3, <1>6, OthersKeep DEF UploadInv
<1>8. Named'  BY <1>1 DEF UploadInv, Named, Saved
<1>9. OnceInv'  BY <1>4 DEF OnceInv
<1> QED  BY <1>5, <1>7, <1>8, <1>9 DEF UploadInv

\* Every step of an upload keeps the invariant.
LEMMA UploadStep ==
    ASSUME UploadInv, UNCHANGED uploadVars \/ Uploading!Next
    PROVE  UploadInv'
<1>1. CASE UNCHANGED uploadVars
  <2>1. UNCHANGED <<loaded, isReady, installed, uploads, at, bundle, next, asked, answered,
                    overlapped, faults>>
    BY <1>1 DEF uploadVars
  <2>2. UploadTypes'  BY <2>1 DEF UploadInv, UploadTypes
  <2>3. \A u \in Uploaders : ProgressInv(u)'
    BY <2>1 DEF UploadInv, ProgressInv, Asks, Saved
  <2>4. Named' /\ OnceInv'
    BY <2>1 DEF UploadInv, Named, Saved, OnceInv, Began, Uploading!Uploading
  <2> QED  BY <2>2, <2>3, <2>4 DEF UploadInv
<1>2. CASE Uploading!SetPresences  BY <1>2, SetPresencesKeeps
<1>3. ASSUME NEW u \in Uploaders,
             \/ Uploading!GetBootstrap(u) \/ Uploading!Loading(u) \/ Uploading!GetTargets(u)
             \/ Uploading!IsReady(u) \/ Uploading!BundlePath(u) \/ Uploading!AllBundled(u)
             \/ Uploading!AllInstalled(u) \/ Uploading!Save(u) \/ Uploading!AllSaved(u)
             \/ Uploading!Ready(u) \/ Uploading!Fail(u)
      PROVE  UploadInv'
  BY <1>3, LoadKeeps, IsReadyKeeps, BundlePathKeeps, AllBundledKeeps, AllInstalledKeeps,
     SaveKeeps, AllSavedKeeps, ReadyKeeps, FailKeeps
<1>4. ASSUME NEW u \in Uploaders, NEW k \in DOMAIN Contracts, Uploading!Install(u, k)
      PROVE  UploadInv'
  BY <1>4, InstallKeeps
<1> QED  BY <1>1, <1>2, <1>3, <1>4 DEF Uploading!Next

\* For any uploads, contracts and failures: what is saved under a name is a
\* contract installed from the path of that name, READY says that all contracts
\* that have a target are saved, and a contract is installed a second time only
\* after a failure or by uploads that overlapped (upload-contract.js).
THEOREM UploadsGetTheirNames == PartsSpec => []UploadsAsNamed
<1>1. PartsInit => UploadInv  BY UploadStart DEF PartsInit
<1>2. UploadInv /\ [PartsNext]_partsVars => UploadInv'  BY EachPart, UploadStep
<1>3. ASSUME UploadInv  PROVE UploadsAsNamed
  <2>1. /\ \A name \in DOMAIN uploads :
             uploads[name] \in installed /\ Contracts[uploads[name][2]].name = name
        /\ isReady => \A k \in Uploading!Wanted : Contracts[k].name \in DOMAIN uploads
    BY <1>3 DEF UploadInv, Named, Saved
  <2>2. ASSUME ~overlapped, faults = 0, NEW k \in DOMAIN Contracts
        PROVE  Uploading!Cardinality({u \in Once : <<u, k>> \in installed}) <= 1
    <3> DEFINE S == {u \in Once : <<u, k>> \in installed}
    <3>1. ASSUME NEW u \in S  PROVE Began(u) /\ u \in Once
      <4>1. u \in Uploaders /\ ProgressInv(u) /\ <<u, k>> \in installed
        BY <1>3, <3>1, OnceAssumption DEF UploadInv
      <4>2. Asks(u, k)  BY <4>1 DEF ProgressInv
      <4>3. asked[u] # <<>>  BY <4>2 DEF Asks, Among
      <4> QED  BY <4>3 DEF Began
    <3>2. \A u, v \in S : u = v  BY <1>3, <2>2, <3>1 DEF UploadInv, OnceInv
    <3>3. Cardinality(S) <= 1
      <4>1. CASE S = {}
        <5>1. Cardinality(S) = 0  BY <4>1, FS_EmptySet
        <5> QED  BY <5>1
      <4>2. CASE S # {}
        <5>1. PICK u : S = {u}  BY <3>2, <4>2
        <5>2. Cardinality(S) = 1  BY <5>1, FS_Singleton
        <5> QED  BY <5>2
      <4> QED  BY <4>1, <4>2
    <3>4. Uploading!Cardinality(S) = Cardinality(S)
      BY DEF Uploading!Cardinality, Cardinality
    <3> QED  BY <3>3, <3>4
  <2> QED  BY <2>1, <2>2 DEF UploadsAsNamed, Uploading!UploadsAsNamed
<1> QED  BY <1>1, <1>2, <1>3, PTL DEF PartsSpec

-----------------------------------------------------------------------------
(* Registry. *)

\* The requests of getBalances for a name.
Reads == [assay : Assays, from : SUBSET Nat, state : {"asked", "answered", "shown"},
          aid : (Names \X Nat) \cup {<<>>}]

NamingTypes ==
    /\ count \in Nat /\ registry \in BOOLEAN
    /\ args \in [Sets -> Names \X Assays]
    /\ setting \in [Sets -> {"none", "waits", "done"}]
    /\ reads \in Seq(Reads)
    /\ DOMAIN byName \subseteq Names \X (1..count)

\* An object has a name that has the object; a call that is done has a name.
NamesInv ==
    /\ \A obj \in DOMAIN byObject :
         byObject[obj] \in DOMAIN byName /\ byName[byObject[obj]] = obj
    /\ \A s \in Sets : setting[s] = "done" =>
         \E n \in 1..count : /\ <<args[s][1], n>> \in DOMAIN byName
                             /\ byName[<<args[s][1], n>>] = args[s][2]

\* What the pledger keeps and what it shows are names of the registry.
KeptInv ==
    /\ \A a \in DOMAIN registeredAssays :
         a \in DOMAIN byObject /\ registeredAssays[a] = byObject[a]
    /\ ~registry => DOMAIN registeredAssays = {}
    /\ \A r \in DOMAIN reads : reads[r].aid # <<>> =>
         /\ registry
         /\ reads[r].assay \in DOMAIN byObject /\ reads[r].aid = byObject[reads[r].assay]
         /\ reads[r].state = "shown" => reads[r].assay \in DOMAIN registeredAssays
    /\ \A r \in DOMAIN reads : reads[r].state = "asked" => registry

\* What was shown before a request is shown to it.
ReadsInv ==
    \A r \in DOMAIN reads : \A q \in reads[r].from :
      /\ q \in DOMAIN reads /\ reads[q].state = "shown"
      /\ reads[q].assay = reads[r].assay /\ reads[q].aid # <<>> =>
           reads[r].state = "shown" /\ reads[r].aid = reads[q].aid

NamingInv == NamingTypes /\ NamesInv /\ KeptInv /\ ReadsInv
\* No name is the undefined one.
LEMMA NamesAreDefined ==
    ASSUME NamingTypes, NEW aid \in DOMAIN byName
    PROVE  aid # <<>> /\ aid \in Names \X (1..count) /\ aid \in Names \X Nat
<1>1. aid \in Names \X (1..count)  BY DEF NamingTypes
<1>2. Len(aid) = 2  BY <1>1
<1>3. aid # <<>>  BY <1>2
<1>4. \A n \in 1..count : n \in Nat  OBVIOUS
<1> QED  BY <1>1, <1>3, <1>4

\* Initially there are no names.
LEMMA NamingStart ==
    ASSUME Naming!Init
    PROVE  NamingInv
<1>1. reads = <<>> /\ DOMAIN reads = {}  BY DEF Naming!Init
<1>2. DOMAIN byName = {} /\ DOMAIN byObject = {} /\ DOMAIN registeredAssays = {}
  BY DEF Naming!Init
<1>3. NamingTypes
  <2>1. reads \in Seq(Reads)  BY <1>1
  <2> QED  BY <1>2, <2>1 DEF Naming!Init, NamingTypes, Reads
<1>4. NamesInv  BY <1>2 DEF Naming!Init, NamesInv
<1>5. KeptInv  BY <1>1, <1>2 DEF KeptInv
<1>6. ReadsInv  BY <1>1 DEF ReadsInv
<1> QED  BY <1>3, <1>4, <1>5, <1>6 DEF NamingInv

\* A call of set waits for its arguments.
LEMMA CallSetKeeps ==
    ASSUME NamingInv, NEW s \in Sets, Naming!CallSet(s)
    PROVE  NamingInv'
<1>1. /\ setting[s] = "none" /\ setting' = [setting EXCEPT ![s] = "waits"]
      /\ UNCHANGED <<args, count, byName, byObject, registry, registeredAssays, reads>>
  BY DEF Naming!CallSet
<1>2. /\ setting' \in [Sets -> {"none", "waits", "done"}]
      /\ \A t \in Sets : setting'[t] = "done" => setting[t] = "done"
  BY <1>1 DEF NamingInv, NamingTypes
<1>3. NamingTypes'  BY <1>1, <1>2 DEF NamingInv, NamingTypes
<1>4. NamesInv'  BY <1>1, <1>2 DEF NamingInv, NamesInv
<1>5. KeptInv' /\ ReadsInv'  BY <1>1 DEF NamingInv, KeptInv, ReadsInv
<1> QED  BY <1>3, <1>4, <1>5 DEF NamingInv

\* A call of set enters a name that is new; an object that has one keeps it.
LEMMA SetKeeps ==
    ASSUME NamingInv, NEW s \in Sets, Naming!Set(s)
    PROVE  NamingInv'
<1> PICK id, obj : id = <<args[s][1], count + 1>> /\ obj = args[s][2]  OBVIOUS
<1>1. /\ setting[s] = "waits" /\ setting' = [setting EXCEPT ![s] = "done"]
      /\ count' = count + 1 /\ byName' = Naming!With(byName, id, obj)
      /\ byObject' = IF obj \in DOMAIN byObject THEN byObject ELSE Naming!With(byObject, obj, id)
      /\ UNCHANGED <<args, registry, registeredAssays, reads>>
  BY DEF Naming!Set
<1>2. NamingTypes /\ NamesInv /\ KeptInv /\ ReadsInv  BY DEF NamingInv
<1>3. count \in Nat /\ args[s] \in Names \X Assays  BY <1>2 DEF NamingTypes
<1>4. id \notin DOMAIN byName
  <2> SUFFICES ASSUME id \in DOMAIN byName  PROVE FALSE  OBVIOUS
  <2>1. id \in Names \X (1..count)  BY <1>2 DEF NamingTypes
  <2>2. id[2] = count + 1 /\ id[2] \in 1..count  BY <2>1
  <2> QED  BY <1>3, <2>2
<1>5. /\ DOMAIN byName' = DOMAIN byName \cup {id} /\ byName'[id] = obj
      /\ \A n \in DOMAIN byName : byName'[n] = byName[n]
  BY <1>1, <1>4 DEF Naming!With
<1>6. /\ \A o \in DOMAIN byObject : o \in DOMAIN byObject' /\ byObject'[o] = byObject[o]
      /\ \A o \in DOMAIN byObject' : o \notin DOMAIN byObject => o = obj /\ byObject'[o] = id
  <2>1. CASE obj \in DOMAIN byObject  BY <1>1, <2>1
  <2>2. CASE obj \notin DOMAIN byObject  BY <1>1, <2>2 DEF Naming!With
  <2> QED  BY <2>1, <2>2
<1>7. /\ setting' \in [Sets -> {"none", "waits", "done"}]
      /\ \A t \in Sets : setting'[t] = "done" => t = s \/ setting[t] = "done"
  BY <1>1, <1>2 DEF NamingTypes
<1>8. NamingTypes'
  <2>1. id \in Names \X (1..(count + 1))
    <3>1. count + 1 \in 1..(count + 1)  BY <1>3
    <3> QED  BY <1>3, <3>1
  <2>2. \A n \in DOMAIN byName : n \in Names \X (1..(count + 1))
    <3>1. \A m \in 1..count : m \in 1..(count + 1)  BY <1>3
    <3>2. \A n \in DOMAIN byName : n \in Names \X (1..count)  BY <1>2 DEF NamingTypes
    <3> QED  BY <3>1, <3>2
  <2>3. DOMAIN byName' \subseteq Names \X (1..count')  BY <1>1, <1>5, <2>1, <2>2
  <2>4. count' \in Nat  BY <1>1, <1>3
  <2> QED  BY <1>1, <1>2, <1>7, <2>3, <2>4 DEF NamingTypes
<1>9. NamesInv'
  <2>1. ASSUME NEW o \in DOMAIN byObject'
        PROVE  byObject'[o] \in DOMAIN byName' /\ byName'[byObject'[o]] = o
    <3>1. CASE o \in DOMAIN byObject
      <4>1. byObject[o] \in DOMAIN byName /\ byName[byObject[o]] = o
        BY <1>2, <3>1 DEF NamesInv
      <4> QED  BY <1>5, <1>6, <3>1, <4>1
    <3>2. CASE o \notin DOMAIN byObject  BY <1>5, <1>6, <3>2
    <3> QED  BY <3>1, <3>2
  <2>2. ASSUME NEW t \in Sets, setting'[t] = "done"
        PROVE  \E n \in 1..count' : /\ <<args[t][1], n>> \in DOMAIN byName'
                                    /\ byName'[<<args[t][1], n>>] = args[t][2]
    <3>1. CASE t = s
      <4>1. count + 1 \in 1..count'  BY <1>1, <1>3
      <4>2. <<args[s][1], count + 1>> \in DOMAIN byName'
            /\ byName'[<<args[s][1], count + 1>>] = args[s][2]
        BY <1>5
      <4> QED  BY <3>1, <4>1, <4>2
    <3>2. CASE setting[t] = "done"
      <4>1. PICK n \in 1..count : /\ <<args[t][1], n>> \in DOMAIN byName
                                  /\ byName[<<args[t][1], n>>] = args[t][2]
        BY <1>2, <3>2 DEF NamesInv
      <4>2. n \in 1..count'  BY <1>1, <1>3
      <4> QED  BY <1>5, <4>1, <4>2
    <3> QED  BY <1>7, <2>2, <3>1, <3>2
  <2> QED  BY <1>1, <2>1, <2>2 DEF NamesInv
<1>10. KeptInv'  BY <1>1, <1>2, <1>6 DEF KeptInv
<1>11. ReadsInv'  BY <1>1, <1>2 DEF ReadsInv
<1> QED  BY <1>8, <1>9, <1>10, <1>11 DEF NamingInv

\* The pledger gets the registry, when it keeps no names yet.
LEMMA SetRegistryKeeps ==
    ASSUME NamingInv, Naming!SetRegistry
    PROVE  NamingInv'
<1>1. /\ ~registry /\ registry' = TRUE /\ registeredAssays' = <<>>
      /\ UNCHANGED <<args, setting, count, byName, byObject, reads>>
  BY DEF Naming!SetRegistry, Naming!registryVars
<1>2. NamingTypes'  BY <1>1 DEF NamingInv, NamingTypes
<1>3. NamesInv'  BY <1>1 DEF NamingInv, NamesInv
<1>4. KeptInv'
  <2>1. DOMAIN registeredAssays' = {}  BY <1>1
  <2>2. \A r \in DOMAIN reads : reads[r].aid = <<>>  BY <1>1 DEF NamingInv, KeptInv
  <2> QED  BY <1>1, <2>1, <2>2 DEF KeptInv
<1>5. ReadsInv'  BY <1>1 DEF NamingInv, ReadsInv
<1> QED  BY <1>2, <1>3, <1>4, <1>5 DEF NamingInv

\* A new request: what was shown before is kept, and shown at once.
LEMMA GetBalancesKeeps ==
    ASSUME NamingInv, NEW a \in Assays, Naming!GetBalances(a)
    PROVE  NamingInv'
<1> PICK e : e = [assay |-> a, from |-> {r \in DOMAIN reads : reads[r].state = "shown"},
                  state |-> IF a \in DOMAIN registeredAssays THEN "shown"
                            ELSE IF registry THEN "asked" ELSE "answered",
                  aid |-> Naming!Get(registeredAssays, a)]
  OBVIOUS
<1>1. /\ reads' = Append(reads, e)
      /\ UNCHANGED <<args, setting, count, byName, byObject, registry, registeredAssays>>
  BY DEF Naming!GetBalances, Naming!registryVars
<1>2. NamingTypes /\ NamesInv /\ KeptInv /\ ReadsInv  BY DEF NamingInv
<1>3. e.aid # <<>> => a \in DOMAIN registeredAssays
  BY DEF Naming!Get, Naming!Unregistered
<1>4. a \in DOMAIN registeredAssays =>
        /\ registry /\ e.state = "shown" /\ e.aid = registeredAssays[a]
        /\ a \in DOMAIN byObject /\ e.aid = byObject[a] /\ e.aid \in DOMAIN byName
  BY <1>2 DEF Naming!Get, KeptInv, NamesInv
<1>5. reads \in Seq(Reads)  BY <1>2 DEF NamingTypes, Reads
<1>6. e \in Reads
  <2>1. DOMAIN reads \in SUBSET Nat  BY <1>5
  <2>2. e.aid \in (Names \X Nat) \cup {<<>>}
    BY <1>2, <1>3, <1>4, NamesAreDefined
  <2>3. e.from \in SUBSET Nat  BY <2>1
  <2>4. e.state \in {"asked", "answered", "shown"} /\ e.assay \in Assays  OBVIOUS
  <2>5. e = [assay |-> e.assay, from |-> e.from, state |-> e.state, aid |-> e.aid]  OBVIOUS
  <2> QED  BY <2>2, <2>3, <2>4, <2>5 DEF Reads
<1>7. PICK n \in Nat : /\ reads' \in Seq(Reads) /\ DOMAIN reads' = DOMAIN reads \cup {n}
                       /\ n \notin DOMAIN reads /\ reads'[n] = e
                       /\ \A r \in DOMAIN reads : reads'[r] = reads[r]
  <2>1. /\ Append(reads, e) \in Seq(Reads) /\ DOMAIN Append(reads, e) = 1..(Len(reads) + 1)
        /\ DOMAIN reads = 1..Len(reads) /\ Len(reads) \in Nat
        /\ Append(reads, e)[Len(reads) + 1] = e
        /\ \A r \in DOMAIN reads : Append(reads, e)[r] = reads[r]
    BY <1>5, <1>6
  <2>2. 1..(Len(reads) + 1) = 1..Len(reads) \cup {Len(reads) + 1}  BY <2>1
  <2>3. Len(reads) + 1 \notin 1..Len(reads) /\ Len(reads) + 1 \in Nat  BY <2>1
  <2> QED  BY <1>1, <2>1, <2>2, <2>3
<1>8. NamingTypes'  BY <1>1, <1>2, <1>7 DEF NamingTypes, Reads
<1>9. NamesInv'  BY <1>1, <1>2 DEF NamesInv
<1>10. KeptInv'
  <2>1. ASSUME NEW r \in DOMAIN reads', reads'[r].aid # <<>>
        PROVE  /\ registry
               /\ reads'[r].assay \in DOMAIN byObject /\ reads'[r].aid = byObject[reads'[r].assay]
               /\ reads'[r].state = "shown" => reads'[r].assay \in DOMAIN registeredAssays
    <3>1. CASE r \in DOMAIN reads  BY <1>2, <1>7, <2>1, <3>1 DEF KeptInv
    <3>2. CASE r = n  BY <1>3, <1>4, <1>7, <2>1, <3>2
    <3> QED  BY <1>7, <3>1, <3>2
  <2>2. \A r \in DOMAIN reads' : reads'[r].state = "asked" => registry
    BY <1>2, <1>7 DEF KeptInv
  <2> QED  BY <1>1, <1>2, <2>1, <2>2 DEF KeptInv
<1>11. ReadsInv'
  <2> SUFFICES ASSUME NEW r \in DOMAIN reads', NEW q \in reads'[r].from
               PROVE  /\ q \in DOMAIN reads' /\ reads'[q].state = "shown"
                      /\ reads'[q].assay = reads'[r].assay /\ reads'[q].aid # <<>> =>
                           reads'[r].state = "shown" /\ reads'[r].aid = reads'[q].aid
    BY DEF ReadsInv
  <2>1. CASE r \in DOMAIN reads
    <3>1. q \in reads[r].from /\ q \in DOMAIN reads  BY <1>2, <1>7, <2>1 DEF ReadsInv
    <3> QED  BY <1>2, <1>7, <2>1, <3>1 DEF ReadsInv
  <2>2. CASE r = n
    <3>1. reads'[r] = e /\ q \in DOMAIN reads /\ reads[q].state = "shown" /\ reads'[q] = reads[q]
      BY <1>7, <2>2
    <3>2. reads[q].assay = a /\ reads[q].aid # <<>> =>
            /\ a \in DOMAIN registeredAssays /\ reads[q].aid = byObject[a]
      BY <1>2, <3>1 DEF KeptInv
    <3>3. e.assay = a  OBVIOUS
    <3> QED  BY <1>4, <1>7, <3>1, <3>2, <3>3
  <2> QED  BY <1>7, <2>1, <2>2
<1> QED  BY <1>8, <1>9, <1>10, <1>11 DEF NamingInv

\* A request whose state or name changes was not shown before, and what others
\* were shown stays.
LEMMA ReadChanges ==
    ASSUME NamingInv, NEW r \in DOMAIN reads, reads[r].state # "shown",
           NEW state \in {"answered", "shown"}, NEW aid \in (Names \X Nat) \cup {<<>>},
           reads' = [reads EXCEPT ![r].state = state, ![r].aid = aid]
    PROVE  /\ reads' \in Seq(Reads) /\ DOMAIN reads' = DOMAIN reads
           /\ reads'[r].state = state /\ reads'[r].aid = aid /\ reads'[r].assay = reads[r].assay
           /\ \A q \in DOMAIN reads : q # r => reads'[q] = reads[q]
           /\ ReadsInv'
<1>1. reads \in Seq(Reads)  BY DEF NamingInv, NamingTypes, Reads
<1>2. reads[r] \in Reads  BY <1>1
<1> PICK e : e = [reads[r] EXCEPT !.state = state, !.aid = aid]  OBVIOUS
<1>3. /\ e \in Reads /\ e.state = state /\ e.aid = aid
      /\ e.assay = reads[r].assay /\ e.from = reads[r].from
  BY <1>2 DEF Reads
<1>4. reads' = [reads EXCEPT ![r] = e]  OBVIOUS
<1>5. /\ reads' \in Seq(Reads) /\ DOMAIN reads' = DOMAIN reads /\ reads'[r] = e
      /\ \A q \in DOMAIN reads : q # r => reads'[q] = reads[q]
  <2>1. [reads EXCEPT ![r] = e] \in Seq(Reads)
    <3>1. e \in Reads  BY <1>3
    <3>2. \A S : \A s \in Seq(S) : \A i \in DOMAIN s : \A x \in S :
            [s EXCEPT ![i] = x] \in Seq(S)
      OBVIOUS
    <3> QED  BY <1>1, <3>1, <3>2
  <2>2. /\ DOMAIN [reads EXCEPT ![r] = e] = DOMAIN reads
        /\ [reads EXCEPT ![r] = e][r] = e
        /\ \A q \in DOMAIN reads : q # r => [reads EXCEPT ![r] = e][q] = reads[q]
    OBVIOUS
  <2> QED  BY <1>4, <2>1, <2>2
<1>6. ReadsInv'
  <2> SUFFICES ASSUME NEW p \in DOMAIN reads, NEW q \in reads'[p].from
               PROVE  /\ q \in DOMAIN reads' /\ reads'[q].state = "shown"
                      /\ reads'[q].assay = reads'[p].assay /\ reads'[q].aid # <<>> =>
                           reads'[p].state = "shown" /\ reads'[p].aid = reads'[q].aid
    BY <1>5 DEF ReadsInv
  <2>1. q \in reads[p].from  BY <1>3, <1>5
  <2>2. /\ q \in DOMAIN reads /\ reads[q].state = "shown"
        /\ reads[q].assay = reads[p].assay /\ reads[q].aid # <<>> =>
             reads[p].state = "shown" /\ reads[p].aid = reads[q].aid
    BY <2>1 DEF NamingInv, ReadsInv
  <2>3. reads'[q] = reads[q]  BY <1>5, <2>2
  <2>4. CASE p = r  BY <1>3, <1>5, <2>2, <2>3, <2>4
  <2>5. CASE p # r  BY <1>5, <2>2, <2>3, <2>5
  <2> QED  BY <2>4, <2>5
<1> QED  BY <1>3, <1>5, <1>6

\* The registry answers with the name that the object has, if it has one.
LEMMA ReverseGetKeeps ==
    ASSUME NamingInv, NEW r \in DOMAIN reads, Naming!ReverseGet(r)
    PROVE  NamingInv'
<1> PICK aid : aid = Naming!Get(byObject, reads[r].assay)  OBVIOUS
<1>1. /\ reads[r].state = "asked"
      /\ reads' = [reads EXCEPT ![r].state = "answered", ![r].aid = aid]
      /\ UNCHANGED <<args, setting, count, byName, byObject, registry, registeredAssays>>
  BY DEF Naming!ReverseGet, Naming!registryVars
<1>2. NamingTypes /\ NamesInv /\ KeptInv  BY DEF NamingInv
<1>3. aid # <<>> => reads[r].assay \in DOMAIN byObject /\ aid = byObject[reads[r].assay]
  BY DEF Naming!Get, Naming!Unregistered
<1>4. aid \in (Names \X Nat) \cup {<<>>}
  <2>1. aid # <<>> => aid \in DOMAIN byName  BY <1>2, <1>3 DEF NamesInv
  <2> QED  BY <1>2, <2>1, NamesAreDefined
<1>5. /\ reads' \in Seq(Reads) /\ DOMAIN reads' = DOMAIN reads
      /\ reads'[r].state = "answered" /\ reads'[r].aid = aid /\ reads'[r].assay = reads[r].assay
      /\ \A q \in DOMAIN reads : q # r => reads'[q] = reads[q]
      /\ ReadsInv'
  BY <1>1, <1>4, ReadChanges
<1>6. NamingTypes'  BY <1>1, <1>2, <1>5 DEF NamingTypes, Reads
<1>7. NamesInv'  BY <1>1, <1>2 DEF NamesInv
<1>8. registry  BY <1>1, <1>2 DEF KeptInv
<1>9. KeptInv'  BY <1>1, <1>2, <1>3, <1>5, <1>8 DEF KeptInv
<1> QED  BY <1>5, <1>6, <1>7, <1>9 DEF NamingInv

\* What is shown is kept: it is the name of the object, whichever answer came first.
LEMMA ShowKeeps ==
    ASSUME NamingInv, NEW r \in DOMAIN reads, Naming!Show(r)
    PROVE  NamingInv'
<1> PICK a, aid : a = reads[r].assay /\ aid = Naming!Get(registeredAssays', a)  OBVIOUS
<1>1. /\ reads[r].state = "answered"
      /\ reads' = [reads EXCEPT ![r].state = "shown", ![r].aid = aid]
      /\ registeredAssays' = IF reads[r].aid = <<>> THEN registeredAssays
                             ELSE Naming!With(registeredAssays, a, reads[r].aid)
      /\ UNCHANGED <<args, setting, count, byName, byObject, registry>>
  BY DEF Naming!Show, Naming!registryVars, Naming!Unregistered
<1>2. NamingTypes /\ NamesInv /\ KeptInv  BY DEF NamingInv
<1>3. reads[r].aid # <<>> =>
        registry /\ a \in DOMAIN byObject /\ reads[r].aid = byObject[a]
  BY <1>2 DEF KeptInv
<1>4. /\ \A b \in DOMAIN registeredAssays' :
           b \in DOMAIN byObject /\ registeredAssays'[b] = byObject[b]
      /\ \A b \in DOMAIN registeredAssays : b \in DOMAIN registeredAssays'
      /\ ~registry => DOMAIN registeredAssays' = {}
  <2>1. CASE reads[r].aid = <<>>  BY <1>1, <1>2, <2>1 DEF KeptInv
  <2>2. CASE reads[r].aid # <<>>
    <3>1. registeredAssays' = Naming!With(registeredAssays, a, reads[r].aid)  BY <1>1, <2>2
    <3>2. /\ DOMAIN registeredAssays' = DOMAIN registeredAssays \cup {a}
          /\ registeredAssays'[a] = reads[r].aid
          /\ \A b \in DOMAIN registeredAssays : b # a => registeredAssays'[b] = registeredAssays[b]
      BY <3>1 DEF Naming!With
    <3> QED  BY <1>2, <1>3, <2>2, <3>2 DEF KeptInv
  <2> QED  BY <2>1, <2>2
<1>5. aid # <<>> => a \in DOMAIN registeredAssays' /\ a \in DOMAIN byObject /\ aid = byObject[a]
  BY <1>4 DEF Naming!Get, Naming!Unregistered
<1>6. aid \in (Names \X Nat) \cup {<<>>}
  <2>1. aid # <<>> => aid \in DOMAIN byName  BY <1>2, <1>5 DEF NamesInv
  <2> QED  BY <1>2, <2>1, NamesAreDefined
<1>7. /\ reads' \in Seq(Reads) /\ DOMAIN reads' = DOMAIN reads
      /\ reads'[r].state = "shown" /\ reads'[r].aid = aid /\ reads'[r].assay = a
      /\ \A q \in DOMAIN reads : q # r => reads'[q] = reads[q]
      /\ ReadsInv'
  BY <1>1, <1>6, ReadChanges
<1>8. NamingTypes'  BY <1>1, <1>2, <1>7 DEF NamingTypes, Reads
<1>9. NamesInv'  BY <1>1, <1>2 DEF NamesInv
<1>10. KeptInv'
  <2>1. ASSUME NEW q \in DOMAIN reads, reads'[q].aid # <<>>
        PROVE  /\ registry
               /\ reads'[q].assay \in DOMAIN byObject /\ reads'[q].aid = byObject[reads'[q].assay]
               /\ reads'[q].state = "shown" => reads'[q].assay \in DOMAIN registeredAssays'
    <3>1. CASE q = r
      <4>1. registry  BY <1>4, <1>5, <1>7, <2>1, <3>1
      <4> QED  BY <1>5, <1>7, <2>1, <3>1, <4>1
    <3>2. CASE q # r  BY <1>2, <1>4, <1>7, <2>1, <3>2 DEF KeptInv
    <3> QED  BY <3>1, <3>2
  <2>2. \A q \in DOMAIN reads : reads'[q].state = "asked" => registry
    BY <1>2, <1>7 DEF KeptInv
  <2> QED  BY <1>1, <1>4, <1>7, <2>1, <2>2 DEF KeptInv
<1> QED  BY <1>7, <1>8, <1>9, <1>10 DEF NamingInv

\* Every step of the registry and the pledger keeps the invariant.
LEMMA NamingStep ==
    ASSUME NamingInv, UNCHANGED namingVars \/ Naming!Next
    PROVE  NamingInv'
<1>1. CASE UNCHANGED namingVars
  <2>1. UNCHANGED <<args, setting, count, byName, byObject, registry, registeredAssays, reads>>
    BY <1>1 DEF namingVars
  <2>2. NamingTypes'  BY <2>1 DEF NamingInv, NamingTypes
  <2>3. NamesInv' /\ KeptInv' /\ ReadsInv'
    BY <2>1 DEF NamingInv, NamesInv, KeptInv, ReadsInv
  <2> QED  BY <2>2, <2>3 DEF NamingInv
<1>2. ASSUME NEW s \in Sets, Naming!CallSet(s) \/ Naming!Set(s)  PROVE NamingInv'
  BY <1>2, CallSetKeeps, SetKeeps
<1>3. CASE Naming!SetRegistry  BY <1>3, SetRegistryKeeps
<1>4. ASSUME NEW a \in Assays, Naming!GetBalances(a)  PROVE NamingInv'
  BY <1>4, GetBalancesKeeps
<1>5. ASSUME NEW r \in DOMAIN reads, Naming!ReverseGet(r) \/ Naming!Show(r)  PROVE NamingInv'
  BY <1>5, ReverseGetKeeps, ShowKeeps
<1> QED  BY <1>1, <1>2, <1>3, <1>4, <1>5 DEF Naming!Next

\* For any names, objects and calls of set: a name shown with a balance is one by
\* which the registry knows the assay, both ways; what set was called with has a
\* name; and a name once shown is shown ever after (vat-registry.js,
\* vat-pledger.js getBalances).
THEOREM NamesAreKept == PartsSpec => []NamesStay
<1>1. PartsInit => NamingInv  BY NamingStart DEF PartsInit
<1>2. NamingInv /\ [PartsNext]_partsVars => NamingInv'  BY EachPart, NamingStep
<1>3. ASSUME NamingInv  PROVE NamesStay
  <2>1. ASSUME NEW r \in DOMAIN reads, reads[r].state = "shown", reads[r].aid # <<>>
        PROVE  byName[reads[r].aid] = reads[r].assay /\ byObject[reads[r].assay] = reads[r].aid
    BY <1>3, <2>1 DEF NamingInv, KeptInv, NamesInv
  <2>2. ASSUME NEW s \in Sets, setting[s] = "done"
        PROVE  \E n \in 1..count : Naming!Get(byName, <<args[s][1], n>>) = args[s][2]
    BY <1>3, <2>2 DEF NamingInv, NamesInv, Naming!Get
  <2>3. \A r \in DOMAIN reads : reads[r].state = "shown" => \A q \in reads[r].from :
          reads[q].assay = reads[r].assay /\ reads[q].aid # <<>> =>
            reads[r].aid = reads[q].aid
    BY <1>3 DEF NamingInv, ReadsInv
  <2> QED  BY <2>1, <2>2, <2>3 DEF NamesStay, Naming!NamesStay, Naming!Unregistered
<1> QED  BY <1>1, <1>2, <1>3, PTL DEF PartsSpec

-----------------------------------------------------------------------------
(* SetupInit. *)

\* A set of numbers that has one has a least one.
LEMMA LeastNumber ==
    ASSUME NEW S \in SUBSET Nat, S # {}
    PROVE  \E n \in S : \A k \in S : n <= k
<1> DEFINE less == OpToRel(<, Nat)
<1>1. PICK n \in S : \A k \in S : <<k, n>> \notin less
  <2> HIDE DEF less
  <2>1. IsWellFoundedOn(less, Nat)  BY NatLessThanWellFounded, Zenon DEF less
  <2> QED  BY <2>1, WFMin
<1>2. \A k \in S : ~(k < n)  BY <1>1 DEF OpToRel
<1> QED  BY <1>2

\* The last of the first n places is n.
LEMMA LastPlaceIs ==
    ASSUME NEW n \in Nat, NEW s \in SUBSET (1..n), n \in s
    PROVE  Directory!Max(s) = n
<1>1. \A x \in s : (\A y \in s : x >= y) <=> x = n  OBVIOUS
<1> QED  BY <1>1 DEF Directory!Max

\* Some of the first n places have a last one.
LEMMA GreatestPlace ==
    ASSUME NEW n \in Nat, NEW s \in SUBSET (1..n), s # {}
    PROVE  /\ Directory!Max(s) \in s
           /\ \A k \in s : k <= Directory!Max(s)
<1> DEFINE T == {x \in 0..n : n - x \in s}
<1>1. T \in SUBSET Nat  OBVIOUS
<1>2. T # {}
  <2>1. PICK y \in s : TRUE  OBVIOUS
  <2>2. n - y \in 0..n /\ n - (n - y) = y  BY <2>1
  <2>3. n - y \in T  BY <2>1, <2>2
  <2> QED  BY <2>3
<1>3. PICK x \in T : \A y \in T : x <= y
  <2> HIDE DEF T
  <2> QED  BY <1>1, <1>2, LeastNumber
<1>4. \A y \in s : n - y \in T  OBVIOUS
<1>5. n - x \in s /\ \A y \in s : n - x >= y  BY <1>3, <1>4
<1>6. PICK m \in s : \A y \in s : m >= y  BY <1>5
<1> QED  BY <1>6 DEF Directory!Max

\* What a fold over n places computes, if H is done at each.
Folds(f, n, base, H) ==
    \A s \in SUBSET (1..n) :
        f[s] = IF s = {} THEN base ELSE H[f[s \ {Directory!Max(s)}]][Directory!Max(s)]

\* A fold over any number of places exists: that over one more does its last
\* after the others.
LEMMA FoldExists ==
    ASSUME NEW A, NEW n \in Nat, NEW H \in [A -> [1..n -> A]], NEW base \in A
    PROVE  \E f \in [SUBSET (1..n) -> A] : Folds(f, n, base, H)
<1> DEFINE Can(k) == \E f \in [SUBSET (1..k) -> A] : Folds(f, k, base, H)
           Not == {k \in 0..n : ~Can(k)}
<1>1. Can(0)
  <2> DEFINE f == [s \in SUBSET (1..0) |-> base]
  <2>1. \A s \in SUBSET (1..0) : s = {}  OBVIOUS
  <2>2. f \in [SUBSET (1..0) -> A]  OBVIOUS
  <2>3. Folds(f, 0, base, H)  BY <2>1 DEF Folds
  <2> QED  BY <2>2, <2>3
<1>2. ASSUME NEW k \in 1..n, Can(k - 1)  PROVE Can(k)
  <2>1. PICK g \in [SUBSET (1..(k - 1)) -> A] : Folds(g, k - 1, base, H)  BY <1>2
  <2> DEFINE f == [s \in SUBSET (1..k) |-> IF k \in s THEN H[g[s \ {k}]][k] ELSE g[s]]
  <2>2. \A s \in SUBSET (1..k) : s \ {k} \in SUBSET (1..(k - 1))  OBVIOUS
  <2>3. ASSUME NEW s \in SUBSET (1..k)
        PROVE  /\ f[s] \in A
               /\ f[s] = IF s = {} THEN base
                         ELSE H[f[s \ {Directory!Max(s)}]][Directory!Max(s)]
    <3>1. CASE k \in s
      <4>1. Directory!Max(s) = k  BY <3>1, LastPlaceIs
      <4>2. f[s \ {k}] = g[s \ {k}] /\ g[s \ {k}] \in A  BY <2>2
      <4>3. f[s] = H[g[s \ {k}]][k]  BY <3>1
      <4>4. H[g[s \ {k}]][k] \in A  BY <4>2
      <4> HIDE DEF f
      <4> QED  BY <3>1, <4>1, <4>2, <4>3, <4>4
    <3>2. CASE k \notin s
      <4>1. s \in SUBSET (1..(k - 1))  BY <2>2, <3>2
      <4>2. \A m : s \ {m} \in SUBSET (1..(k - 1)) /\ s \ {m} \in SUBSET (1..k) /\ k \notin s \ {m}
        BY <3>2, <4>1
      <4>3. f[s] = g[s] /\ \A m : f[s \ {m}] = g[s \ {m}]  BY <3>2, <4>2
      <4>4. g[s] \in A  BY <4>1
      <4> HIDE DEF f
      <4> QED  BY <2>1, <4>1, <4>3, <4>4 DEF Folds
    <3> QED  BY <3>1, <3>2
  <2>4. f \in [SUBSET (1..k) -> A]  BY <2>3
  <2> HIDE DEF f
  <2>5. Folds(f, k, base, H)  BY <2>3 DEF Folds
  <2> QED  BY <2>4, <2>5
<1> HIDE DEF Can
<1>3. Not = {}
  <2> SUFFICES ASSUME Not # {}  PROVE FALSE  OBVIOUS
  <2>1. Not \in SUBSET Nat  OBVIOUS
  <2>2. PICK k \in Not : \A m \in Not : k <= m
    <3> HIDE DEF Not
    <3> QED  BY <2>1, LeastNumber
  <2>3. k # 0 /\ k - 1 \in 0..n /\ k \in 1..n  BY <1>1
  <2>4. Can(k - 1)  BY <2>2, <2>3
  <2> QED  BY <1>2, <2>3, <2>4
<1>4. Can(n)  BY <1>3
<1> QED  BY <1>4 DEF Can

\* The place of a fold before the k-th.
LEMMA PlacesBefore ==
    ASSUME NEW n \in Nat, NEW k \in 1..n
    PROVE  /\ 1..k \in SUBSET (1..n) /\ 1..k # {} /\ Directory!Max(1..k) = k
           /\ (1..k) \ {k} = 1..(k - 1)
<1>1. k \in 1..k /\ 1..k \in SUBSET (1..k)  OBVIOUS
<1>2. Directory!Max(1..k) = k  BY <1>1, LastPlaceIs
<1>3. \A m : m \in (1..k) \ {k} <=> m \in 1..(k - 1)  OBVIOUS
<1> QED  BY <1>1, <1>2, <1>3

\* A placement with the number of nodes in each datacenter of its provider.
AllPlacements ==
    UNION {[name : {v} \X Nat,
            nodes : [{Datacenters[v][i] : i \in DOMAIN Datacenters[v]} -> Nat]] :
             v \in DOMAIN Datacenters}

\* The nodes of a placement, a datacenter at a time (init.js l.382-392).
NodesAfter(p, g) ==
    LET dcs == Datacenters[p.name[1]]
    IN /\ g[0] = <<>>
       /\ \A k \in 1..Len(dcs) : g[k] = g[k - 1] \o [i \in 1..p.nodes[dcs[k]] |-> dcs[k]]
       /\ Directory!NodesOf(p) = g[Len(dcs)]

LEMMA NodesOfFolds ==
    ASSUME NEW p \in AllPlacements
    PROVE  \E g : NodesAfter(p, g)
<1> DEFINE dcs == Datacenters[p.name[1]]
           n == Len(dcs)
           A == Seq(STRING)
           Add(a, dc) == a \o [i \in 1..p.nodes[dc] |-> dc]
           H == [a \in A |-> [k \in 1..n |-> Add(a, dcs[k])]]
           Rec(f) == f = [s \in SUBSET DOMAIN dcs |->
                            IF s = {} THEN <<>>
                            ELSE Add(f[s \ {Directory!Max(s)}], dcs[Directory!Max(s)])]
<1>1. PICK v \in DOMAIN Datacenters :
        p \in [name : {v} \X Nat, nodes : [{Datacenters[v][i] : i \in DOMAIN Datacenters[v]} -> Nat]]
  BY DEF AllPlacements
<1>2. p.name[1] = v  BY <1>1
<1>3. dcs \in Seq(STRING) /\ n \in Nat /\ DOMAIN dcs = 1..n
  BY <1>2, DirectoryAssumption
<1>4. \A k \in 1..n : dcs[k] \in STRING /\ p.nodes[dcs[k]] \in Nat
  BY <1>1, <1>2, <1>3
<1>5. ASSUME NEW a \in A, NEW k \in 1..n  PROVE Add(a, dcs[k]) \in A
  <2>1. [i \in 1..p.nodes[dcs[k]] |-> dcs[k]] \in Seq(STRING)  BY <1>4
  <2> QED  BY <2>1
<1>6. H \in [A -> [1..n -> A]] /\ <<>> \in A  BY <1>5
<1>7. \A a \in A, k \in 1..n : H[a][k] = Add(a, dcs[k])  OBVIOUS
<1>8. PICK h \in [SUBSET (1..n) -> A] : Folds(h, n, <<>>, H)
  <2> HIDE DEF H, A, n
  <2> QED  BY <1>3, <1>6, FoldExists
<1> HIDE DEF H
<1>9. Rec(h)
  <2>1. ASSUME NEW s \in SUBSET (1..n)
        PROVE  h[s] = IF s = {} THEN <<>>
                      ELSE Add(h[s \ {Directory!Max(s)}], dcs[Directory!Max(s)])
    <3>1. CASE s = {}  BY <1>8, <3>1 DEF Folds
    <3>2. CASE s # {}
      <4>1. Directory!Max(s) \in 1..n  BY <1>3, <3>2, GreatestPlace
      <4>2. h[s \ {Directory!Max(s)}] \in A  BY <1>8
      <4> QED  BY <1>7, <1>8, <3>2, <4>1, <4>2 DEF Folds
    <3> QED  BY <3>1, <3>2
  <2> QED  BY <1>3, <1>8, <2>1
<1>10. PICK f : f = (CHOOSE it : Rec(it)) /\ Rec(f)  BY <1>9
<1>11. Directory!NodesOf(p) = f[DOMAIN dcs]
  BY <1>10 DEF Directory!NodesOf, Directory!FoldLeft, Directory!MapThenFoldSet
<1> DEFINE g == [k \in 0..n |-> f[1..k]]
<1>12. g[0] = <<>>
  <2>1. 1..0 = {} /\ {} \in SUBSET DOMAIN dcs  BY <1>3
  <2>2. f[{}] = <<>>  BY <1>10, <2>1
  <2>3. f[1..0] = <<>>  BY <2>1, <2>2, Zenon
  <2>4. g[0] = f[1..0]  BY <1>3
  <2> QED  BY <2>3, <2>4, Zenon
<1>13. ASSUME NEW k \in 1..n  PROVE g[k] = Add(g[k - 1], dcs[k])
  <2>1. f[1..k] = Add(f[(1..k) \ {Directory!Max(1..k)}], dcs[Directory!Max(1..k)])
    BY <1>3, <1>10, PlacesBefore
  <2>2. f[1..k] = Add(f[1..(k - 1)], dcs[k])  BY <1>3, <2>1, PlacesBefore
  <2>3. g[k] = f[1..k] /\ g[k - 1] = f[1..(k - 1)]  BY <1>3
  <2> QED  BY <2>2, <2>3
<1>14. Directory!NodesOf(p) = g[n]  BY <1>3, <1>11
<1> HIDE DEF g
<1> QED  BY <1>12, <1>13, <1>14 DEF NodesAfter

\* The same node m times, and after others.
Run(m, dc) == [i \in 1..m |-> dc]
HasRun(a, m, dc, t) ==
    /\ Len(a) \in Nat /\ DOMAIN a = 1..Len(a) /\ DOMAIN t = 1..(Len(a) + m)
    /\ \A x \in 1..Len(a) : t[x] = a[x]
    /\ \A x \in (Len(a) + 1)..(Len(a) + m) : t[x] = dc

LEMMA RunIs ==
    ASSUME NEW S, NEW a \in Seq(S), NEW m \in Nat, NEW dc \in S,
           NEW t, t = a \o Run(m, dc)
    PROVE  t \in Seq(S) /\ HasRun(a, m, dc, t)
<1>1. PICK b : b = Run(m, dc) /\ b = [i \in 1..m |-> dc]  BY DEF Run
<1>2. b \in Seq(S) /\ Len(b) = m /\ \A i \in 1..m : b[i] = dc  BY <1>1
<1>3. t = a \o b /\ t \in Seq(S) /\ Len(t) = Len(a) + m  BY <1>1, <1>2
<1>4. Len(a) \in Nat /\ DOMAIN a = 1..Len(a) /\ DOMAIN t = 1..(Len(a) + m)  BY <1>3
<1>5. \A x \in 1..Len(a) : t[x] = a[x]  BY <1>2, <1>3
<1>6. \A x \in (Len(a) + 1)..(Len(a) + m) : t[x] = dc
  <2>1. ASSUME NEW x \in (Len(a) + 1)..(Len(a) + m)  PROVE t[x] = dc
    <3>1. x - Len(a) \in 1..m  BY <1>4
    <3>2. t[x] = b[x - Len(a)]  BY <1>2, <1>3, <1>4
    <3> QED  BY <1>2, <3>1, <3>2
  <2> QED  BY <2>1
<1> QED  BY <1>3, <1>4, <1>5, <1>6 DEF HasRun

\* The places at which a list has a datacenter.
PlacesOf(s, dc) == {x \in DOMAIN s : s[x] = dc}

\* A placement has as many nodes in a datacenter as were allocated.
LEMMA NodesOfIs ==
    ASSUME NEW p \in AllPlacements
    PROVE  /\ Directory!NodesOf(p) \in Seq(STRING)
           /\ \A dc \in DOMAIN p.nodes :
                Cardinality(PlacesOf(Directory!NodesOf(p), dc)) = p.nodes[dc]
<1>1. PICK g : NodesAfter(p, g)  BY NodesOfFolds
<1>2. PICK v \in DOMAIN Datacenters :
        p \in [name : {v} \X Nat, nodes : [{Datacenters[v][i] : i \in DOMAIN Datacenters[v]} -> Nat]]
  BY DEF AllPlacements
<1>3. PICK dcs : dcs = Datacenters[v]  OBVIOUS
<1>4. PICK n : n = Len(dcs)  OBVIOUS
<1>0. PICK S : S = STRING  OBVIOUS
<1>5. /\ dcs \in Seq(S) /\ n \in Nat /\ DOMAIN dcs = 1..n
      /\ \A i, j \in 1..n : dcs[i] = dcs[j] => i = j
  <2>1. /\ dcs \in Seq(STRING)
        /\ \A i, j \in DOMAIN dcs : dcs[i] = dcs[j] => i = j
    BY <1>3, DirectoryAssumption
  <2>2. dcs \in Seq(S)  BY <1>0, <2>1
  <2>3. n \in Nat /\ DOMAIN dcs = 1..n  BY <1>4, <2>2
  <2> QED  BY <2>1, <2>2, <2>3
<1>6. /\ DOMAIN p.nodes = {dcs[i] : i \in 1..n}
      /\ \A k \in 1..n : dcs[k] \in S /\ p.nodes[dcs[k]] \in Nat
  <2>1. {Datacenters[v][i] : i \in DOMAIN Datacenters[v]} = {dcs[i] : i \in 1..n}
    BY <1>3, <1>5
  <2>2. p.nodes \in [{dcs[i] : i \in 1..n} -> Nat]  BY <1>2, <2>1
  <2>3. \A k \in 1..n : dcs[k] \in S  BY <1>5
  <2> QED  BY <2>2, <2>3
<1>7. /\ g[0] = <<>> /\ Directory!NodesOf(p) = g[n]
      /\ \A k \in 1..n : g[k] = g[k - 1] \o Run(p.nodes[dcs[k]], dcs[k])
  <2>1. p.name[1] = v  BY <1>2
  <2> QED  BY <1>1, <1>3, <1>4, <2>1 DEF NodesAfter, Run
<1> DEFINE Good(k) == /\ g[k] \in Seq(S)
                      /\ \A x \in DOMAIN g[k] : \E j \in 1..k : g[k][x] = dcs[j]
                      /\ \A j \in 1..k : Cardinality(PlacesOf(g[k], dcs[j])) = p.nodes[dcs[j]]
           Not == {k \in 0..n : ~Good(k)}
<1>8. Good(0)
  <2>1. g[0] \in Seq(S) /\ DOMAIN g[0] = {}  BY <1>7
  <2> QED  BY <2>1
<1>9. ASSUME NEW k \in 1..n, Good(k - 1)  PROVE Good(k)
  <2>1. PICK a : a = g[k - 1]  OBVIOUS
  <2>2. PICK m : m = p.nodes[dcs[k]]  OBVIOUS
  <2>3. PICK t : t = g[k]  OBVIOUS
  <2>4. PICK dc : dc = dcs[k]  OBVIOUS
  <2>5. a \in Seq(S) /\ m \in Nat /\ dc \in S /\ t = a \o Run(m, dc)
    BY <1>6, <1>7, <1>9, <2>1, <2>2, <2>3, <2>4
  <2>6. /\ t \in Seq(S) /\ Len(a) \in Nat /\ DOMAIN a = 1..Len(a)
        /\ DOMAIN t = 1..(Len(a) + m)
        /\ \A x \in 1..Len(a) : t[x] = a[x]
        /\ \A x \in (Len(a) + 1)..(Len(a) + m) : t[x] = dc
    <3>1. t \in Seq(S) /\ HasRun(a, m, dc, t)  BY ONLY <2>5, RunIs
    <3> QED  BY <3>1 DEF HasRun
  <2>7. PICK len : len = Len(a)  OBVIOUS
  <2>8. \A x \in 1..len : \E j \in 1..(k - 1) : t[x] = dcs[j]
    <3>1. \A x \in 1..len : x \in DOMAIN a /\ t[x] = a[x]  BY <2>6, <2>7
    <3>2. \A x \in DOMAIN a : \E j \in 1..(k - 1) : a[x] = dcs[j]  BY <1>9, <2>1
    <3> QED  BY ONLY <3>1, <3>2
  <2>9. \A j \in 1..k : j = k \/ j \in 1..(k - 1)  OBVIOUS
  <2>10. \A x \in DOMAIN t : \E j \in 1..k : t[x] = dcs[j]
    <3>1. \A x \in DOMAIN t : x \in 1..len \/ x \in (len + 1)..(len + m)  BY <2>5, <2>6, <2>7
    <3>2. \A j \in 1..(k - 1) : j \in 1..k  OBVIOUS
    <3>3. k \in 1..k  OBVIOUS
    <3> QED  BY <2>4, <2>6, <2>7, <2>8, <3>1, <3>2, <3>3
  <2>11. Cardinality(PlacesOf(t, dc)) = m
    <3>1. \A x \in 1..len : t[x] # dc
      <4>1. k \in 1..n /\ \A j \in 1..(k - 1) : j \in 1..n /\ j # k  BY <1>5
      <4> QED  BY <1>5, <2>4, <2>8, <4>1
    <3>2. PlacesOf(t, dc) = (len + 1)..(len + m)
      BY <2>5, <2>6, <2>7, <3>1 DEF PlacesOf
    <3>3. Cardinality((len + 1)..(len + m)) = m
      <4>1. len + 1 \in Int /\ len + m \in Int /\ len \in Nat /\ m \in Nat  BY <2>5, <2>6, <2>7
      <4>2. Cardinality((len + 1)..(len + m))
              = IF len + 1 > len + m THEN 0 ELSE (len + m) - (len + 1) + 1
        BY <4>1, FS_Interval
      <4> QED  BY <4>1, <4>2
    <3> QED  BY <3>2, <3>3
  <2>12. ASSUME NEW j \in 1..(k - 1)  PROVE Cardinality(PlacesOf(t, dcs[j])) = p.nodes[dcs[j]]
    <3>1. dcs[j] # dc
      <4>1. k \in 1..n /\ j \in 1..n /\ j # k  BY <1>5
      <4> QED  BY <1>5, <2>4, <4>1
    <3>2. PlacesOf(t, dcs[j]) = PlacesOf(a, dcs[j])
      BY <2>5, <2>6, <3>1 DEF PlacesOf
    <3> QED  BY <1>9, <2>1, <3>2
  <2> QED  BY <2>2, <2>3, <2>4, <2>6, <2>9, <2>10, <2>11, <2>12
<1> HIDE DEF Good
<1>10. Not = {}
  <2> SUFFICES ASSUME Not # {}  PROVE FALSE  OBVIOUS
  <2>1. Not \in SUBSET Nat  OBVIOUS
  <2>2. PICK k \in Not : \A m \in Not : k <= m
    <3> HIDE DEF Not
    <3> QED  BY <2>1, LeastNumber
  <2>3. k # 0 /\ k - 1 \in 0..n /\ k \in 1..n  BY <1>5, <1>8
  <2>4. Good(k - 1)  BY <2>2, <2>3
  <2> QED  BY <1>9, <2>3, <2>4
<1>11. Good(n)  BY <1>5, <1>10
<1>12. ASSUME NEW dc \in DOMAIN p.nodes
       PROVE  Cardinality(PlacesOf(g[n], dc)) = p.nodes[dc]
  <2>1. PICK j \in 1..n : dc = dcs[j]  BY <1>6
  <2> QED  BY <1>11, <2>1 DEF Good
<1> QED  BY <1>0, <1>7, <1>11, <1>12 DEF Good

\* What is collated from placements.
MapsTo(S) == UNION {[D -> S] : D \in SUBSET ((DOMAIN Datacenters) \X Nat)}
Collations == [instance : Nat, DATACENTERS : MapsTo(Seq(STRING)), OFFSETS : MapsTo(Nat)]

LEMMA WithMaps ==
    ASSUME NEW S, NEW f \in MapsTo(S), NEW x \in (DOMAIN Datacenters) \X Nat, NEW v \in S
    PROVE  Directory!With(f, x, v) \in MapsTo(S)
<1>1. PICK D \in SUBSET ((DOMAIN Datacenters) \X Nat) : f \in [D -> S]  BY DEF MapsTo
<1>2. Directory!With(f, x, v) \in [D \cup {x} -> S]  BY <1>1 DEF Directory!With
<1>3. D \cup {x} \in SUBSET ((DOMAIN Datacenters) \X Nat)  OBVIOUS
<1> QED  BY <1>2, <1>3 DEF MapsTo

LEMMA CollateTypes ==
    ASSUME NEW a \in Collations, NEW p \in AllPlacements
    PROVE  Directory!Collate(a, p) \in Collations
<1>1. p.name \in (DOMAIN Datacenters) \X Nat
  <2>1. PICK v \in DOMAIN Datacenters :
          p \in [name : {v} \X Nat, nodes : [{Datacenters[v][i] : i \in DOMAIN Datacenters[v]} -> Nat]]
    BY DEF AllPlacements
  <2> QED  BY <2>1
<1>2. PICK nodes : nodes = Directory!NodesOf(p)  OBVIOUS
<1>3. nodes \in Seq(STRING) /\ Len(nodes) \in Nat
  <2>1. nodes \in Seq(STRING)  BY <1>2, NodesOfIs
  <2> QED  BY <2>1
<1>4. a.instance \in Nat /\ a.DATACENTERS \in MapsTo(Seq(STRING)) /\ a.OFFSETS \in MapsTo(Nat)
  BY DEF Collations
<1>5. Directory!With(a.DATACENTERS, p.name, nodes) \in MapsTo(Seq(STRING))
  BY <1>1, <1>3, <1>4, WithMaps
<1>6. Directory!With(a.OFFSETS, p.name, a.instance) \in MapsTo(Nat)  BY <1>1, <1>4, WithMaps
<1>7. a.instance + Len(nodes) \in Nat  BY <1>3, <1>4
<1> QED  BY <1>2, <1>4, <1>5, <1>6, <1>7 DEF Directory!Collate, Collations

\* The placements are collated one after the other (init.js l.377-401).
NoneCollated == [instance |-> 0, DATACENTERS |-> <<>>, OFFSETS |-> <<>>]
CollatedAfter(g) ==
    /\ g[0] = NoneCollated
    /\ \A k \in 1..Len(PLACEMENTS) : g[k] = Directory!Collate(g[k - 1], PLACEMENTS[k])
    /\ Directory!Collated = g[Len(PLACEMENTS)]

LEMMA CollatedFolds ==
    ASSUME PLACEMENTS \in Seq(AllPlacements)
    PROVE  \E g : CollatedAfter(g) /\ \A k \in 0..Len(PLACEMENTS) : g[k] \in Collations
<1> DEFINE n == Len(PLACEMENTS)
           H == [a \in Collations |-> [k \in 1..n |-> Directory!Collate(a, PLACEMENTS[k])]]
           Rec(f) == f = [s \in SUBSET DOMAIN PLACEMENTS |->
                            IF s = {} THEN NoneCollated
                            ELSE Directory!Collate(f[s \ {Directory!Max(s)}],
                                                   PLACEMENTS[Directory!Max(s)])]
<1>1. n \in Nat /\ DOMAIN PLACEMENTS = 1..n /\ \A k \in 1..n : PLACEMENTS[k] \in AllPlacements
  OBVIOUS
<1>2. \A a \in Collations, k \in 1..n : Directory!Collate(a, PLACEMENTS[k]) \in Collations
  BY <1>1, CollateTypes
<1>3. H \in [Collations -> [1..n -> Collations]]  BY <1>2
<1>4. NoneCollated \in Collations
  <2>1. ASSUME NEW S  PROVE <<>> \in MapsTo(S)
    <3>1. <<>> \in [{} -> S]  OBVIOUS
    <3> QED  BY <3>1 DEF MapsTo
  <2> QED  BY <2>1 DEF NoneCollated, Collations
<1>5. \A a \in Collations, k \in 1..n : H[a][k] = Directory!Collate(a, PLACEMENTS[k])  OBVIOUS
<1>6. PICK h \in [SUBSET (1..n) -> Collations] : Folds(h, n, NoneCollated, H)
  <2> HIDE DEF H, n
  <2> QED  BY <1>1, <1>3, <1>4, FoldExists
<1> HIDE DEF H
<1>7. Rec(h)
  <2>1. ASSUME NEW s \in SUBSET (1..n)
        PROVE  h[s] = IF s = {} THEN NoneCollated
                      ELSE Directory!Collate(h[s \ {Directory!Max(s)}], PLACEMENTS[Directory!Max(s)])
    <3>1. CASE s = {}  BY <1>6, <3>1 DEF Folds
    <3>2. CASE s # {}
      <4>1. Directory!Max(s) \in 1..n  BY <1>1, <3>2, GreatestPlace
      <4>2. h[s \ {Directory!Max(s)}] \in Collations  BY <1>6
      <4> QED  BY <1>5, <1>6, <3>2, <4>1, <4>2 DEF Folds
    <3> QED  BY <3>1, <3>2
  <2> QED  BY <1>1, <1>6, <2>1
<1>8. PICK f : f = (CHOOSE it : Rec(it)) /\ Rec(f)  BY <1>7
<1>9. Directory!Collated = f[DOMAIN PLACEMENTS]
  BY <1>8 DEF Directory!Collated, Directory!FoldLeft, Directory!MapThenFoldSet, NoneCollated
<1> DEFINE g == [k \in 0..n |-> f[1..k]]
<1>10. g[0] = NoneCollated
  <2>1. 1..0 = {} /\ {} \in SUBSET DOMAIN PLACEMENTS  BY <1>1
  <2>2. f[{}] = NoneCollated  BY <1>8, <2>1
  <2>3. f[1..0] = NoneCollated  BY <2>1, <2>2, Zenon
  <2>4. g[0] = f[1..0]  BY <1>1
  <2> QED  BY <2>3, <2>4, Zenon
<1>11. ASSUME NEW k \in 1..n  PROVE g[k] = Directory!Collate(g[k - 1], PLACEMENTS[k])
  <2>1. f[1..k] = Directory!Collate(f[(1..k) \ {Directory!Max(1..k)}],
                                    PLACEMENTS[Directory!Max(1..k)])
    BY <1>1, <1>8, PlacesBefore
  <2>2. f[1..k] = Directory!Collate(f[1..(k - 1)], PLACEMENTS[k])  BY <1>1, <2>1, PlacesBefore
  <2>3. g[k] = f[1..k] /\ g[k - 1] = f[1..(k - 1)]  BY <1>1
  <2> QED  BY <2>2, <2>3
<1>12. Directory!Collated = g[n]  BY <1>1, <1>9
<1> HIDE DEF g
<1> DEFINE Not == {k \in 0..n : g[k] \notin Collations}
<1>13. Not = {}
  <2> SUFFICES ASSUME Not # {}  PROVE FALSE  OBVIOUS
  <2>1. Not \in SUBSET Nat  OBVIOUS
  <2>2. PICK k \in Not : \A m \in Not : k <= m
    <3> HIDE DEF Not
    <3> QED  BY <2>1, LeastNumber
  <2>3. k # 0 /\ k - 1 \in 0..n /\ k \in 1..n  BY <1>1, <1>4, <1>10
  <2>4. g[k - 1] \in Collations  BY <2>2, <2>3
  <2> QED  BY <1>2, <1>11, <2>3, <2>4
<1> QED  BY <1>10, <1>11, <1>12, <1>13 DEF CollatedAfter

\* The modules are those of the placements, of all that have their place among
\* the names.
LEMMA ModulesAre ==
    /\ \E m \in Nat : DOMAIN Directory!ModuleFiles = 1..m /\ Len(Directory!ModuleFiles) = m
    /\ Directory!ModuleFiles \in Seq({Directory!ModuleFile(PLACEMENTS[i].name) : i \in DOMAIN PLACEMENTS})
    /\ \A k \in DOMAIN Placements :
         (\E i \in DOMAIN PLACEMENTS : PLACEMENTS[i].name = Placements[k]) =>
           \E l \in DOMAIN Directory!ModuleFiles :
             Directory!ModuleFiles[l] = Directory!ModuleFile(Placements[k])
<1> DEFINE n == Len(Placements)
           M == {Directory!ModuleFile(PLACEMENTS[i].name) : i \in DOMAIN PLACEMENTS}
           A == Seq(M)
           H == [a \in A |-> [k \in 1..n |-> Directory!AddModule(a, Placements[k])]]
           Rec(f) == f = [s \in SUBSET DOMAIN Placements |->
                            IF s = {} THEN <<>>
                            ELSE Directory!AddModule(f[s \ {Directory!Max(s)}],
                                                     Placements[Directory!Max(s)])]
<1>1. n \in Nat /\ DOMAIN Placements = 1..n  BY DirectoryAssumption
<1>2. ASSUME NEW a \in A, NEW name  PROVE Directory!AddModule(a, name) \in A
  <2>1. CASE \E i \in DOMAIN PLACEMENTS : PLACEMENTS[i].name = name
    <3>1. Directory!ModuleFile(name) \in M  BY <2>1
    <3>2. PICK f : f = Directory!ModuleFile(name)  OBVIOUS
    <3>3. PICK B : B = M  OBVIOUS
    <3>4. Append(a, f) \in Seq(B)
      <4>1. a \in Seq(B) /\ f \in B  BY <3>1, <3>2, <3>3
      <4> QED  BY ONLY <4>1
    <3> QED  BY <2>1, <3>2, <3>3, <3>4 DEF Directory!AddModule
  <2>2. CASE ~ \E i \in DOMAIN PLACEMENTS : PLACEMENTS[i].name = name
    BY <2>2 DEF Directory!AddModule
  <2> QED  BY <2>1, <2>2
<1>3. <<>> \in A  OBVIOUS
<1> HIDE DEF A
<1>4. H \in [A -> [1..n -> A]]  BY <1>2
<1>5. \A a \in A, k \in 1..n : H[a][k] = Directory!AddModule(a, Placements[k])  OBVIOUS
<1>6. PICK h \in [SUBSET (1..n) -> A] : Folds(h, n, <<>>, H)
  <2> HIDE DEF H, n
  <2> QED  BY <1>1, <1>3, <1>4, FoldExists
<1> HIDE DEF H
<1>7. Rec(h)
  <2>1. ASSUME NEW s \in SUBSET (1..n)
        PROVE  h[s] = IF s = {} THEN <<>>
                      ELSE Directory!AddModule(h[s \ {Directory!Max(s)}], Placements[Directory!Max(s)])
    <3>1. CASE s = {}  BY <1>6, <3>1 DEF Folds
    <3>2. CASE s # {}
      <4>1. Directory!Max(s) \in 1..n  BY <1>1, <3>2, GreatestPlace
      <4>2. h[s \ {Directory!Max(s)}] \in A  BY <1>6
      <4> QED  BY <1>5, <1>6, <3>2, <4>1, <4>2 DEF Folds
    <3> QED  BY <3>1, <3>2
  <2> QED  BY <1>1, <1>6, <2>1
<1>8. PICK f : f = (CHOOSE it : Rec(it)) /\ Rec(f)  BY <1>7
<1>9. Directory!ModuleFiles = f[DOMAIN Placements]
  BY <1>8 DEF Directory!ModuleFiles, Directory!FoldLeft, Directory!MapThenFoldSet
<1>10. f[1..0] = <<>>
  <2>1. 1..0 = {} /\ {} \in SUBSET DOMAIN Placements  BY <1>1
  <2>2. f[{}] = <<>>  BY <1>8, <2>1
  <2> QED  BY <2>1, <2>2, Zenon
<1>11. ASSUME NEW k \in 1..n, f[1..(k - 1)] \in A  PROVE f[1..k] \in A
  <2>1. f[1..k] = Directory!AddModule(f[(1..k) \ {Directory!Max(1..k)}],
                                      Placements[Directory!Max(1..k)])
    BY <1>1, <1>8, PlacesBefore
  <2>2. f[1..k] = Directory!AddModule(f[1..(k - 1)], Placements[k])  BY <1>1, <2>1, PlacesBefore
  <2> QED  BY <1>2, <1>11, <2>2
<1> DEFINE Not == {k \in 0..n : f[1..k] \notin A}
<1>12. Not = {}
  <2> SUFFICES ASSUME Not # {}  PROVE FALSE  OBVIOUS
  <2>1. Not \in SUBSET Nat  OBVIOUS
  <2>2. PICK k \in Not : \A m \in Not : k <= m
    <3> HIDE DEF Not
    <3> QED  BY <2>1, LeastNumber
  <2>3. k # 0
    <3>1. f[1..0] \in A  BY <1>3, <1>10, Zenon
    <3> QED  BY <3>1
  <2>4. k - 1 \in 0..n /\ k \in 1..n  BY <1>1, <2>3
  <2>5. f[1..(k - 1)] \in A  BY <2>2, <2>4
  <2> QED  BY <1>11, <2>4, <2>5
<1>13. Directory!ModuleFiles \in A
  <2>1. f[1..n] \in A  BY <1>1, <1>12
  <2> QED  BY <1>1, <1>9, <2>1
<1>14. ASSUME NEW ms, ms \in A  PROVE \E m \in Nat : DOMAIN ms = 1..m /\ Len(ms) = m
  BY <1>14 DEF A
<1> DEFINE Of(k) == \E i \in DOMAIN PLACEMENTS : PLACEMENTS[i].name = Placements[k]
           In(a, k) == \E l \in DOMAIN a : a[l] = Directory!ModuleFile(Placements[k])
<1>15. ASSUME NEW k \in 1..n
       PROVE  f[1..(k - 1)] \in A /\ f[1..k] = Directory!AddModule(f[1..(k - 1)], Placements[k])
  <2>1. f[1..k] = Directory!AddModule(f[(1..k) \ {Directory!Max(1..k)}],
                                      Placements[Directory!Max(1..k)])
    BY <1>1, <1>8, PlacesBefore
  <2>2. k - 1 \in 0..n  BY <1>1
  <2> QED  BY <1>1, <1>12, <2>1, <2>2, PlacesBefore
<1>16. ASSUME NEW a, a \in A, NEW x
       PROVE  /\ \E l \in DOMAIN Append(a, x) : Append(a, x)[l] = x
              /\ \A l \in DOMAIN a : l \in DOMAIN Append(a, x) /\ Append(a, x)[l] = a[l]
  <2>1. a \in Seq(M)  BY <1>16 DEF A
  <2>2. PICK B : B = M \cup {x}  OBVIOUS
  <2>3. a \in Seq(B) /\ x \in B
    <3>1. PICK m \in Nat : DOMAIN a = 1..m /\ Len(a) = m  BY <1>14, <1>16
    <3>2. PICK C : C = M  OBVIOUS
    <3>3. a \in Seq(C) /\ C \subseteq B  BY <2>1, <2>2, <3>2
    <3>4. a \in Seq(B)  BY ONLY <3>3
    <3> QED  BY <2>2, <3>4
  <2>4. /\ Len(a) \in Nat /\ DOMAIN a = 1..Len(a)
        /\ DOMAIN Append(a, x) = 1..(Len(a) + 1) /\ Append(a, x)[Len(a) + 1] = x
        /\ \A l \in 1..Len(a) : Append(a, x)[l] = a[l]
    BY ONLY <2>3
  <2>5. Len(a) + 1 \in DOMAIN Append(a, x)  BY ONLY <2>4
  <2> QED  BY ONLY <2>4, <2>5
<1>17. ASSUME NEW a, a \in A, NEW k
       PROVE  /\ Of(k) => In(Directory!AddModule(a, Placements[k]), k)
              /\ \A j : In(a, j) => In(Directory!AddModule(a, Placements[k]), j)
  <2>1. CASE Of(k)
    <3>1. PICK x : x = Directory!ModuleFile(Placements[k])  OBVIOUS
    <3>2. Directory!AddModule(a, Placements[k]) = Append(a, x)
      BY <2>1, <3>1 DEF Directory!AddModule
    <3> QED  BY <1>16, <1>17, <3>1, <3>2
  <2>2. CASE ~Of(k)
    <3>1. Directory!AddModule(a, Placements[k]) = a  BY <2>2 DEF Directory!AddModule
    <3> QED  BY <2>2, <3>1
  <2> QED  BY <2>1, <2>2
<1> HIDE DEF Of, In
<1> DEFINE Without == {k \in 0..n : \E j \in 1..k : Of(j) /\ ~In(f[1..k], j)}
<1>18. Without = {}
  <2> SUFFICES ASSUME Without # {}  PROVE FALSE  OBVIOUS
  <2>1. Without \in SUBSET Nat  OBVIOUS
  <2>2. PICK k \in Without : \A m \in Without : k <= m
    <3> HIDE DEF Without
    <3> QED  BY <2>1, LeastNumber
  <2>3. PICK j \in 1..k : Of(j) /\ ~In(f[1..k], j)  OBVIOUS
  <2>4. k \in 1..n /\ k - 1 \in 0..n  BY <1>1, <2>3
  <2>5. j = k \/ j \in 1..(k - 1)  BY <2>4
  <2>6. j # k  BY <1>15, <1>17, <2>3, <2>4
  <2>7. In(f[1..(k - 1)], j)
    <3>1. k - 1 \notin Without  BY <2>2, <2>4
    <3> QED  BY <2>3, <2>4, <2>5, <2>6, <3>1
  <2> QED  BY <1>15, <1>17, <2>3, <2>4, <2>7
<1>19. ASSUME NEW k \in DOMAIN Placements, Of(k)  PROVE In(Directory!ModuleFiles, k)
  <2>1. n \in 0..n  BY <1>1
  <2>2. In(f[1..n], k)  BY <1>1, <1>18, <1>19, <2>1
  <2> QED  BY <1>1, <1>9, <2>2
<1> QED  BY <1>13, <1>14, <1>19 DEF A, Of, In

\* Placements have a name each.
PlacementsWell ==
    /\ PLACEMENTS \in Seq(AllPlacements)
    /\ \A i, j \in DOMAIN PLACEMENTS : PLACEMENTS[i].name = PLACEMENTS[j].name => i = j

\* Where the numbers of each placement start, and how many it has: those of the
\* next start after them.
NumberedFrom(start, len) ==
    /\ Len(PLACEMENTS) \in Nat /\ DOMAIN PLACEMENTS = 1..Len(PLACEMENTS)
    /\ start \in [0..Len(PLACEMENTS) -> Nat] /\ len \in [1..Len(PLACEMENTS) -> Nat]
    /\ start[0] = 0 /\ \A k \in 1..Len(PLACEMENTS) : start[k] = start[k - 1] + len[k]
    /\ Directory!Total = start[Len(PLACEMENTS)]

\* What is collated of each placement: its nodes, and from where they are
\* numbered if there are any.
CollatedWell(start, len) ==
    /\ DOMAIN Directory!Collated.DATACENTERS = {PLACEMENTS[i].name : i \in DOMAIN PLACEMENTS}
    /\ DOMAIN Directory!Collated.OFFSETS
         = {PLACEMENTS[i].name : i \in {j \in DOMAIN PLACEMENTS : len[j] # 0}}
    /\ \A i \in DOMAIN PLACEMENTS :
         /\ Directory!Collated.DATACENTERS[PLACEMENTS[i].name] = Directory!NodesOf(PLACEMENTS[i])
         /\ Directory!NodesOf(PLACEMENTS[i]) \in Seq(STRING)
         /\ Len(Directory!NodesOf(PLACEMENTS[i])) = len[i]
         /\ len[i] # 0 => Directory!Collated.OFFSETS[PLACEMENTS[i].name] = start[i - 1]

LEMMA CollatedIs ==
    ASSUME PlacementsWell
    PROVE  \E start, len : NumberedFrom(start, len) /\ CollatedWell(start, len)
<1>1. PICK g : CollatedAfter(g) /\ \A k \in 0..Len(PLACEMENTS) : g[k] \in Collations
  BY CollatedFolds DEF PlacementsWell
<1>2. PICK n : n = Len(PLACEMENTS)  OBVIOUS
<1>3. PICK PL : PL = PLACEMENTS  OBVIOUS
<1>4. /\ n \in Nat /\ DOMAIN PL = 1..n /\ \A k \in 1..n : PL[k] \in AllPlacements
      /\ \A i, j \in 1..n : PL[i].name = PL[j].name => i = j
  BY <1>2, <1>3 DEF PlacementsWell
<1>5. /\ g[0] = NoneCollated /\ Directory!Collated = g[n]
      /\ \A k \in 1..n : g[k] = Directory!Collate(g[k - 1], PL[k])
      /\ \A k \in 0..n : g[k] \in Collations
  BY <1>1, <1>2, <1>3 DEF CollatedAfter
<1>6. PICK nodes : nodes = [k \in 1..n |-> Directory!NodesOf(PL[k])]  OBVIOUS
<1>7. \A k \in 1..n : /\ nodes[k] = Directory!NodesOf(PL[k])
                      /\ nodes[k] \in Seq(STRING) /\ Len(nodes[k]) \in Nat
                      /\ Len(nodes[k]) = 0 <=> nodes[k] = <<>>
  <2>1. ASSUME NEW k \in 1..n  PROVE nodes[k] \in Seq(STRING)  BY <1>4, <1>6, NodesOfIs
  <2>2. ASSUME NEW s \in Seq(STRING)  PROVE Len(s) \in Nat /\ (Len(s) = 0 <=> s = <<>>)  OBVIOUS
  <2> QED  BY <1>6, <2>1, <2>2
<1>8. \A k \in 0..n : g[k].instance \in Nat  BY <1>5 DEF Collations
<1>9. ASSUME NEW k \in 1..n
      PROVE  /\ g[k].instance = g[k - 1].instance + Len(nodes[k])
             /\ g[k].DATACENTERS = Directory!With(g[k - 1].DATACENTERS, PL[k].name, nodes[k])
             /\ g[k].OFFSETS = IF nodes[k] = <<>> THEN g[k - 1].OFFSETS
                               ELSE Directory!With(g[k - 1].OFFSETS, PL[k].name, g[k - 1].instance)
  <2>1. PICK a : a = g[k - 1]  OBVIOUS
  <2>2. PICK q : q = PL[k]  OBVIOUS
  <2>3. PICK of : of = nodes[k] /\ of = Directory!NodesOf(q)  BY <1>7, <2>2
  <2>4. g[k] = Directory!Collate(a, q)  BY <1>5, <2>1, <2>2
  <2>5. Directory!Collate(a, q) =
          [instance |-> a.instance + Len(of),
           DATACENTERS |-> Directory!With(a.DATACENTERS, q.name, of),
           OFFSETS |-> IF of = <<>> THEN a.OFFSETS
                       ELSE Directory!With(a.OFFSETS, q.name, a.instance)]
    BY <2>3 DEF Directory!Collate
  <2> QED  BY <2>1, <2>2, <2>3, <2>4, <2>5
<1> DEFINE Good(k) ==
             /\ DOMAIN g[k].DATACENTERS = {PL[i].name : i \in 1..k}
             /\ DOMAIN g[k].OFFSETS = {PL[i].name : i \in {j \in 1..k : nodes[j] # <<>>}}
             /\ \A i \in 1..k : /\ g[k].DATACENTERS[PL[i].name] = nodes[i]
                                /\ nodes[i] # <<>> => g[k].OFFSETS[PL[i].name] = g[i - 1].instance
           Not == {k \in 0..n : ~Good(k)}
<1>10. Good(0)
  <2>1. g[0].DATACENTERS = <<>> /\ g[0].OFFSETS = <<>>  BY <1>5 DEF NoneCollated
  <2>2. DOMAIN <<>> = {}  OBVIOUS
  <2>3. 1..0 = {}  OBVIOUS
  <2> QED  BY <2>1, <2>2, <2>3
<1>11. ASSUME NEW k \in 1..n, Good(k - 1)  PROVE Good(k)
  <2>1. PICK d, e : d = g[k - 1].DATACENTERS /\ e = g[k - 1].OFFSETS  OBVIOUS
  <2>2. \A i \in 1..k : i = k \/ i \in 1..(k - 1)  OBVIOUS
  <2>3. k \in 1..k /\ \A i \in 1..(k - 1) : i \in 1..k /\ i # k /\ i \in 1..n  BY <1>4
  <2>4. \A i \in 1..(k - 1) : PL[i].name # PL[k].name  BY <1>4, <2>3
  <2>5. /\ DOMAIN g[k].DATACENTERS = DOMAIN d \cup {PL[k].name}
        /\ \A x \in DOMAIN d \cup {PL[k].name} :
             g[k].DATACENTERS[x] = IF x = PL[k].name THEN nodes[k] ELSE d[x]
    <3>1. PICK t, x, v : t = g[k].DATACENTERS /\ x = PL[k].name /\ v = nodes[k]  OBVIOUS
    <3>2. t = Directory!With(d, x, v)  BY <1>9, <2>1, <3>1
    <3>3. /\ DOMAIN t = DOMAIN d \cup {x}
          /\ \A y \in DOMAIN t : t[y] = IF y = x THEN v ELSE d[y]
      BY ONLY <3>2 DEF Directory!With
    <3> QED  BY <3>1, <3>3
  <2>6. DOMAIN d = {PL[i].name : i \in 1..(k - 1)}  BY <1>11, <2>1
  <2>7. DOMAIN g[k].DATACENTERS = {PL[i].name : i \in 1..k}  BY <2>2, <2>3, <2>5, <2>6
  <2>8. \A i \in 1..k : g[k].DATACENTERS[PL[i].name] = nodes[i]
    <3>1. g[k].DATACENTERS[PL[k].name] = nodes[k]  BY <2>5
    <3>2. ASSUME NEW i \in 1..(k - 1)  PROVE g[k].DATACENTERS[PL[i].name] = nodes[i]
      <4>1. d[PL[i].name] = nodes[i]  BY <1>11, <2>1
      <4> QED  BY <2>4, <2>5, <2>6, <4>1
    <3> QED  BY <2>2, <3>1, <3>2
  <2>9. CASE nodes[k] = <<>>
    <3>1. g[k].OFFSETS = e  BY <1>9, <2>1, <2>9
    <3>2. {j \in 1..k : nodes[j] # <<>>} = {j \in 1..(k - 1) : nodes[j] # <<>>}
      BY <2>2, <2>3, <2>9
    <3>3. DOMAIN g[k].OFFSETS = {PL[i].name : i \in {j \in 1..k : nodes[j] # <<>>}}
      BY <1>11, <2>1, <3>1, <3>2
    <3>4. \A i \in 1..k : nodes[i] # <<>> => g[k].OFFSETS[PL[i].name] = g[i - 1].instance
      BY <1>11, <2>1, <2>2, <2>9, <3>1
    <3> QED  BY <2>7, <2>8, <3>3, <3>4
  <2>10. CASE nodes[k] # <<>>
    <3>1. /\ DOMAIN g[k].OFFSETS = DOMAIN e \cup {PL[k].name}
          /\ \A x \in DOMAIN e \cup {PL[k].name} :
               g[k].OFFSETS[x] = IF x = PL[k].name THEN g[k - 1].instance ELSE e[x]
      <4>1. PICK t, x, v : t = g[k].OFFSETS /\ x = PL[k].name /\ v = g[k - 1].instance  OBVIOUS
      <4>2. t = Directory!With(e, x, v)  BY <1>9, <2>1, <2>10, <4>1
      <4>3. /\ DOMAIN t = DOMAIN e \cup {x}
            /\ \A y \in DOMAIN t : t[y] = IF y = x THEN v ELSE e[y]
        BY ONLY <4>2 DEF Directory!With
      <4> QED  BY <4>1, <4>3
    <3>2. DOMAIN e = {PL[i].name : i \in {j \in 1..(k - 1) : nodes[j] # <<>>}}  BY <1>11, <2>1
    <3>3. \A i \in 1..k : nodes[i] # <<>> <=> i = k \/ i \in {j \in 1..(k - 1) : nodes[j] # <<>>}
      BY <2>2, <2>3, <2>10
    <3>4. DOMAIN g[k].OFFSETS = {PL[i].name : i \in {j \in 1..k : nodes[j] # <<>>}}
      BY <2>3, <3>1, <3>2, <3>3
    <3>5. g[k].OFFSETS[PL[k].name] = g[k - 1].instance  BY <3>1
    <3>6. ASSUME NEW i \in 1..(k - 1), nodes[i] # <<>>
          PROVE  g[k].OFFSETS[PL[i].name] = g[i - 1].instance
      <4>1. e[PL[i].name] = g[i - 1].instance  BY <1>11, <2>1, <3>6
      <4> QED  BY <2>4, <3>1, <3>2, <3>6, <4>1
    <3> QED  BY <2>2, <2>7, <2>8, <3>4, <3>5, <3>6
  <2> QED  BY <2>9, <2>10
<1> HIDE DEF Good
<1>12. Not = {}
  <2> SUFFICES ASSUME Not # {}  PROVE FALSE  OBVIOUS
  <2>1. Not \in SUBSET Nat  OBVIOUS
  <2>2. PICK k \in Not : \A m \in Not : k <= m
    <3> HIDE DEF Not
    <3> QED  BY <2>1, LeastNumber
  <2>3. k # 0 /\ k - 1 \in 0..n /\ k \in 1..n  BY <1>4, <1>10
  <2>4. Good(k - 1)  BY <2>2, <2>3
  <2> QED  BY <1>11, <2>3, <2>4
<1>13. Good(n)  BY <1>4, <1>12
<1>14. PICK start : start = [k \in 0..n |-> g[k].instance]  OBVIOUS
<1>15. PICK len : len = [k \in 1..n |-> Len(nodes[k])]  OBVIOUS
<1>16. NumberedFrom(start, len)
  <2>1. start \in [0..n -> Nat] /\ len \in [1..n -> Nat]  BY <1>7, <1>8, <1>14, <1>15
  <2>2. start[0] = 0  BY <1>4, <1>5, <1>14 DEF NoneCollated
  <2>3. ASSUME NEW k \in 1..n  PROVE start[k] = start[k - 1] + len[k]
    <3>1. k \in 0..n /\ k - 1 \in 0..n  BY <1>4
    <3> QED  BY <1>9, <1>14, <1>15, <3>1
  <2>4. Directory!Total = start[n]  BY <1>4, <1>5, <1>14 DEF Directory!Total
  <2> QED  BY <1>2, <1>3, <1>4, <2>1, <2>2, <2>3, <2>4 DEF NumberedFrom
<1>17. CollatedWell(start, len)
  <2>1. \A i \in 1..n : len[i] # 0 <=> nodes[i] # <<>>  BY <1>7, <1>15
  <2>2. {j \in 1..n : len[j] # 0} = {j \in 1..n : nodes[j] # <<>>}  BY <2>1
  <2>3. /\ DOMAIN Directory!Collated.DATACENTERS = {PL[i].name : i \in 1..n}
        /\ DOMAIN Directory!Collated.OFFSETS = {PL[i].name : i \in {j \in 1..n : len[j] # 0}}
    BY <1>5, <1>13, <2>2 DEF Good
  <2>4. ASSUME NEW i \in 1..n
        PROVE  /\ Directory!Collated.DATACENTERS[PL[i].name] = Directory!NodesOf(PL[i])
               /\ Directory!NodesOf(PL[i]) \in Seq(STRING)
               /\ Len(Directory!NodesOf(PL[i])) = len[i]
               /\ len[i] # 0 => Directory!Collated.OFFSETS[PL[i].name] = start[i - 1]
    <3>1. i - 1 \in 0..n  BY <1>4
    <3> QED  BY <1>5, <1>7, <1>13, <1>14, <1>15, <2>1, <3>1 DEF Good
  <2> QED  BY <1>3, <1>4, <2>3, <2>4 DEF CollatedWell
<1> QED  BY <1>16, <1>17

\* The numbers of a placement start no sooner than those of one before.
LEMMA StartsGrow ==
    ASSUME NEW n \in Nat, NEW start \in [0..n -> Nat], NEW len \in [1..n -> Nat],
           \A k \in 1..n : start[k] = start[k - 1] + len[k]
    PROVE  \A k \in 0..n : \A i \in 0..k : start[i] <= start[k]
<1> DEFINE Not == {k \in 0..n : \E i \in 0..k : ~(start[i] <= start[k])}
<1>1. Not = {}
  <2> SUFFICES ASSUME Not # {}  PROVE FALSE  OBVIOUS
  <2>1. Not \in SUBSET Nat  OBVIOUS
  <2>2. PICK k \in Not : \A m \in Not : k <= m
    <3> HIDE DEF Not
    <3> QED  BY <2>1, LeastNumber
  <2>3. PICK i \in 0..k : ~(start[i] <= start[k])  OBVIOUS
  <2>4. k \in 0..n /\ start[k] \in Nat /\ start[i] \in Nat  BY <2>3
  <2>5. i # k  BY <2>3, <2>4
  <2>6. k \in 1..n /\ k - 1 \in 0..n /\ i \in 0..(k - 1)  BY <2>3, <2>4, <2>5
  <2>7. k - 1 \notin Not  BY <2>2, <2>6
  <2>8. start[i] <= start[k - 1]  BY <2>6, <2>7
  <2>9. start[k] = start[k - 1] + len[k] /\ len[k] \in Nat /\ start[k - 1] \in Nat  BY <2>6
  <2>10. PICK a, b, c, d : a = start[i] /\ b = start[k - 1] /\ c = start[k] /\ d = len[k]  OBVIOUS
  <2>11. ~(a <= c) /\ a <= b /\ c = b + d /\ a \in Nat /\ b \in Nat /\ c \in Nat /\ d \in Nat
    BY <2>3, <2>4, <2>8, <2>9, <2>10
  <2> QED  BY ONLY <2>11
<1> QED  BY <1>1

\* A number below the total is of exactly one placement.
LEMMA NumberIsOf ==
    ASSUME NEW n \in Nat, NEW start \in [0..n -> Nat], NEW len \in [1..n -> Nat],
           start[0] = 0, \A k \in 1..n : start[k] = start[k - 1] + len[k],
           NEW m \in 0..(start[n] - 1)
    PROVE  \E i \in 1..n :
             /\ start[i - 1] <= m /\ m < start[i - 1] + len[i]
             /\ \A k \in 1..n : start[k - 1] <= m /\ m < start[k - 1] + len[k] => k = i
<1> DEFINE above == {k \in 0..n : m < start[k]}
<1>1. m \in Nat /\ n \in above
  <2>1. n \in 0..n /\ start[n] \in Nat  OBVIOUS
  <2> QED  BY <2>1
<1>2. PICK i \in above : \A k \in above : i <= k
  <2>1. above \in SUBSET Nat  OBVIOUS
  <2>2. above # {}  BY <1>1
  <2> HIDE DEF above
  <2> QED  BY <2>1, <2>2, LeastNumber
<1>3. i \in 1..n /\ i - 1 \in 0..n  BY <1>1
<1>4. start[i - 1] \in Nat /\ len[i] \in Nat /\ start[i] = start[i - 1] + len[i]  BY <1>3
<1>5. start[i - 1] <= m
  <2>1. i - 1 \notin above  BY <1>2, <1>3
  <2> QED  BY <1>1, <1>3, <1>4, <2>1
<1>6. m < start[i - 1] + len[i]  BY <1>4
<1>7. ASSUME NEW k \in 1..n, start[k - 1] <= m, m < start[k - 1] + len[k]  PROVE k = i
  <2>1. /\ k \in 0..n /\ k - 1 \in 0..n /\ start[k] = start[k - 1] + len[k]
        /\ start[k - 1] \in Nat /\ start[k] \in Nat
    OBVIOUS
  <2>2. k \in above  BY <1>7, <2>1
  <2>3. i <= k  BY <1>2, <2>2
  <2>4. ~(i < k)
    <3>1. ASSUME i < k  PROVE FALSE
      <4>1. i \in 0..(k - 1) /\ i \in 0..n  BY <1>3, <3>1
      <4>2. start[i] <= start[k - 1]  BY <2>1, <4>1, StartsGrow
      <4>3. m < start[i] /\ start[i] \in Nat  BY <4>1
      <4> QED  BY <1>1, <1>7, <2>1, <4>2, <4>3
    <3> QED  BY <3>1
  <2> QED  BY <1>3, <2>3, <2>4
<1> QED  BY <1>3, <1>5, <1>6, <1>7

\* What is shown as nodes: those of every placement, numbered from its start.
LEMMA HostsAre ==
    ASSUME NEW start, NEW len, NumberedFrom(start, len), CollatedWell(start, len)
    PROVE  /\ \A x : x \in DOMAIN Directory!ShowHosts <=>
                 \E i \in DOMAIN PLACEMENTS : \E k \in 1..len[i] : x = <<PLACEMENTS[i].name, k>>
           /\ \A i \in DOMAIN PLACEMENTS : \A k \in 1..len[i] :
                Directory!ShowHosts[<<PLACEMENTS[i].name, k>>] = start[i - 1] + k - 1
<1>1. ASSUME NEW i \in DOMAIN PLACEMENTS
      PROVE  Directory!Numbered(PLACEMENTS[i].name) = {PLACEMENTS[i].name} \X (1..len[i])
  <2>1. ASSUME NEW s \in Seq(STRING)  PROVE DOMAIN s = 1..Len(s)  OBVIOUS
  <2>2. PICK s : s = Directory!NodesOf(PLACEMENTS[i])  OBVIOUS
  <2>3. s \in Seq(STRING) /\ Len(s) = len[i]  BY <2>2 DEF CollatedWell
  <2>4. DOMAIN Directory!Collated.DATACENTERS[PLACEMENTS[i].name] = 1..len[i]
    BY <2>1, <2>2, <2>3 DEF CollatedWell
  <2> QED  BY <2>4 DEF Directory!Numbered
<1>2. Directory!Named = {PLACEMENTS[i].name : i \in DOMAIN PLACEMENTS}
  BY DEF CollatedWell, Directory!Named
<1>3. PICK all : all = UNION {Directory!Numbered(name) : name \in Directory!Named}  OBVIOUS
<1>4. \A x : x \in all <=>
         \E i \in DOMAIN PLACEMENTS : \E k \in 1..len[i] : x = <<PLACEMENTS[i].name, k>>
  <2>1. \A x : x \in all <=> \E i \in DOMAIN PLACEMENTS : x \in Directory!Numbered(PLACEMENTS[i].name)
    BY <1>2, <1>3
  <2> QED  BY <1>1, <2>1
<1>5. Directory!ShowHosts = [x \in all |-> Directory!Collated.OFFSETS[x[1]] + x[2] - 1]
  BY <1>3 DEF Directory!ShowHosts
<1>6. ASSUME NEW i \in DOMAIN PLACEMENTS, NEW k \in 1..len[i]
      PROVE  Directory!ShowHosts[<<PLACEMENTS[i].name, k>>] = start[i - 1] + k - 1
  <2>1. len[i] # 0
    <3>1. i \in 1..Len(PLACEMENTS) /\ len[i] \in Nat  BY DEF NumberedFrom
    <3> QED  BY <3>1
  <2>2. Directory!Collated.OFFSETS[PLACEMENTS[i].name] = start[i - 1]  BY <2>1 DEF CollatedWell
  <2>3. PICK x : x = <<PLACEMENTS[i].name, k>>  OBVIOUS
  <2>4. x \in all /\ x[1] = PLACEMENTS[i].name /\ x[2] = k  BY <1>4, <2>3
  <2> QED  BY <1>5, <2>2, <2>3, <2>4
<1> QED  BY <1>4, <1>5, <1>6

\* Every number below the total is of one node (main.js show-hosts).
LEMMA NumberedOnce ==
    ASSUME PlacementsWell, NEW m \in 0..(Directory!Total - 1)
    PROVE  Cardinality(Directory!PublicIPs(m)) = 1
<1>1. PICK start, len : NumberedFrom(start, len) /\ CollatedWell(start, len)  BY CollatedIs
<1>2. PICK n : n = Len(PLACEMENTS)  OBVIOUS
<1>3. /\ n \in Nat /\ DOMAIN PLACEMENTS = 1..n
      /\ start \in [0..n -> Nat] /\ len \in [1..n -> Nat]
      /\ start[0] = 0 /\ \A k \in 1..n : start[k] = start[k - 1] + len[k]
      /\ Directory!Total = start[n]
  BY <1>1, <1>2 DEF NumberedFrom
<1>4. PICK i \in 1..n :
        /\ start[i - 1] <= m /\ m < start[i - 1] + len[i]
        /\ \A k \in 1..n : start[k - 1] <= m /\ m < start[k - 1] + len[k] => k = i
  <2>1. m \in 0..(start[n] - 1)  BY <1>3
  <2> QED  BY ONLY <1>3, <2>1, NumberIsOf
<1>5. PICK hosts : hosts = Directory!ShowHosts  OBVIOUS
<1>6. /\ \A x : x \in DOMAIN hosts <=>
           \E j \in 1..n : \E k \in 1..len[j] : x = <<PLACEMENTS[j].name, k>>
      /\ \A j \in 1..n : \A k \in 1..len[j] : hosts[<<PLACEMENTS[j].name, k>>] = start[j - 1] + k - 1
  <2>1. PICK D : D = DOMAIN PLACEMENTS  OBVIOUS
  <2>2. /\ \A x : x \in DOMAIN hosts <=>
             \E j \in D : \E k \in 1..len[j] : x = <<PLACEMENTS[j].name, k>>
        /\ \A j \in D : \A k \in 1..len[j] : hosts[<<PLACEMENTS[j].name, k>>] = start[j - 1] + k - 1
    BY <1>1, <1>5, <2>1, HostsAre
  <2>3. D = 1..n  BY <1>3, <2>1
  <2> QED  BY <2>2, <2>3
<1>7. PICK k : k = m - start[i - 1] + 1  OBVIOUS
<1>8. \A j \in 1..n : start[j - 1] \in Nat /\ len[j] \in Nat  BY <1>3
<1>9. m \in Nat
  <2>1. start[n] \in Nat  BY <1>3
  <2> QED  BY <1>3, <2>1
<1>10. k \in 1..len[i] /\ start[i - 1] + k - 1 = m  BY <1>4, <1>7, <1>8, <1>9
<1>11. ASSUME NEW x \in DOMAIN hosts  PROVE hosts[x] = m <=> x = <<PLACEMENTS[i].name, k>>
  <2>0. PICK j \in 1..n : \E l \in 1..len[j] : x = <<PLACEMENTS[j].name, l>>  BY <1>6
  <2>1. PICK l \in 1..len[j] : x = <<PLACEMENTS[j].name, l>>  BY <2>0
  <2>2. hosts[x] = start[j - 1] + l - 1 /\ l \in Nat  BY <1>6, <1>8, <2>1
  <2>3. ASSUME hosts[x] = m  PROVE x = <<PLACEMENTS[i].name, k>>
    <3>1. start[j - 1] <= m /\ m < start[j - 1] + len[j]  BY <1>8, <1>9, <2>1, <2>2, <2>3
    <3>2. j = i  BY <1>4, <3>1
    <3>3. l = k  BY <1>7, <1>8, <1>9, <2>2, <2>3, <3>2
    <3> QED  BY <2>1, <3>2, <3>3
  <2>4. x = <<PLACEMENTS[i].name, k>> => hosts[x] = m  BY <1>6, <1>10
  <2> QED  BY <2>3, <2>4
<1>12. <<PLACEMENTS[i].name, k>> \in DOMAIN hosts  BY <1>6, <1>10
<1>13. Directory!PublicIPs(m) = {<<PLACEMENTS[i].name, k>>}
  BY <1>5, <1>11, <1>12 DEF Directory!PublicIPs
<1> QED  BY <1>13, FS_Singleton

\* The names of placements are in the order of names.
NamesPlaced ==
    \A i \in DOMAIN PLACEMENTS : \E k \in DOMAIN Placements : Placements[k] = PLACEMENTS[i].name

\* The first address shown is that of node 0, if placements were entered in the
\* order of their names (main.js show-rpcaddrs).
LEMMA FirstShown ==
    ASSUME PlacementsWell, NamesPlaced, Directory!Total # 0,
           \A i, j \in DOMAIN PLACEMENTS :
             i < j => Directory!Before(PLACEMENTS[i].name, PLACEMENTS[j].name)
    PROVE  Directory!ShowHosts[Directory!ShowRpcAddrs] = 0
<1>1. PICK start, len : NumberedFrom(start, len) /\ CollatedWell(start, len)  BY CollatedIs
<1>2. PICK n : n = Len(PLACEMENTS)  OBVIOUS
<1>3. /\ n \in Nat /\ DOMAIN PLACEMENTS = 1..n
      /\ start \in [0..n -> Nat] /\ len \in [1..n -> Nat]
      /\ start[0] = 0 /\ \A k \in 1..n : start[k] = start[k - 1] + len[k]
      /\ start[n] # 0
  BY <1>1, <1>2 DEF NumberedFrom
<1> DEFINE above == {k \in 0..n : start[k] # 0}
<1>4. PICK k \in above : \A m \in above : k <= m
  <2>1. above \in SUBSET Nat  OBVIOUS
  <2>2. n \in above  BY <1>3
  <2>3. above # {}  BY <2>2
  <2> HIDE DEF above
  <2> QED  BY <2>1, <2>3, LeastNumber
<1>5. k \in 1..n /\ k - 1 \in 0..n /\ start[k] # 0 /\ len[k] \in Nat  BY <1>3, <1>4
<1>6. start[k - 1] = 0
  <2>1. k - 1 \notin above  BY <1>4, <1>5
  <2> QED  BY <1>5, <2>1
<1>7. len[k] # 0  BY <1>3, <1>5, <1>6
<1>8. \A j \in 1..n : len[j] # 0 => k <= j
  <2>1. ASSUME NEW j \in 1..n, len[j] # 0  PROVE k <= j
    <3>1. start[j] = start[j - 1] + len[j] /\ j - 1 \in 0..n  BY <1>3, <2>1
    <3>2. start[j - 1] \in Nat /\ len[j] \in Nat  BY <1>3, <2>1, <3>1
    <3>3. j \in above  BY <2>1, <3>1, <3>2
    <3> QED  BY <1>4, <3>3
  <2> QED  BY <2>1
<1>9. PICK first : first = PLACEMENTS[k].name  OBVIOUS
<1>10. Directory!WithNodes = {PLACEMENTS[i].name : i \in {j \in 1..n : len[j] # 0}}
  <2>1. Directory!Named = {PLACEMENTS[i].name : i \in 1..n}
    BY <1>1, <1>3 DEF CollatedWell, Directory!Named
  <2>2. ASSUME NEW s \in Seq(STRING)  PROVE s # <<>> <=> Len(s) # 0  OBVIOUS
  <2>3. ASSUME NEW i \in 1..n
        PROVE  Directory!Collated.DATACENTERS[PLACEMENTS[i].name] # <<>> <=> len[i] # 0
    <3>1. PICK s : s = Directory!NodesOf(PLACEMENTS[i])  OBVIOUS
    <3>2. s \in Seq(STRING) /\ Len(s) = len[i]  BY <1>1, <1>3, <3>1 DEF CollatedWell
    <3>3. Directory!Collated.DATACENTERS[PLACEMENTS[i].name] = s
      BY <1>1, <1>3, <3>1 DEF CollatedWell
    <3> QED  BY <2>2, <3>2, <3>3
  <2> QED  BY <2>1, <2>3 DEF Directory!WithNodes
<1>11. \A name \in Directory!WithNodes : Directory!Place(name) \in Nat
  <2>1. ASSUME NEW name \in Directory!WithNodes  PROVE Directory!Place(name) \in Nat
    <3>1. \E m \in DOMAIN Placements : Placements[m] = name  BY <1>3, <1>10 DEF NamesPlaced
    <3>2. Directory!Place(name) \in DOMAIN Placements  BY <3>1 DEF Directory!Place
    <3>3. DOMAIN Placements \subseteq Nat  BY DirectoryAssumption
    <3> QED  BY <3>2, <3>3
  <2> QED  BY <2>1
<1>12. first \in Directory!WithNodes
  <2>1. k \in {j \in 1..n : len[j] # 0}  BY <1>5, <1>7
  <2> QED  BY <1>9, <1>10, <2>1
<1>13. \A q \in Directory!WithNodes \ {first} : Directory!Before(first, q)
  <2>1. ASSUME NEW q \in Directory!WithNodes, q # first  PROVE Directory!Before(first, q)
    <3>1. PICK j \in 1..n : len[j] # 0 /\ q = PLACEMENTS[j].name  BY <1>10
    <3>2. j # k  BY <1>9, <2>1, <3>1
    <3>3. k < j  BY <1>5, <1>8, <3>1, <3>2
    <3> QED  BY <1>3, <1>5, <1>9, <3>1, <3>3
  <2> QED  BY <2>1
<1>14. ASSUME NEW p \in Directory!WithNodes,
              \A q \in Directory!WithNodes \ {p} : Directory!Before(p, q)
       PROVE  p = first
  <2>1. ASSUME p # first  PROVE FALSE
    <3>1. Directory!Before(p, first) /\ Directory!Before(first, p)  BY <1>12, <1>13, <1>14, <2>1
    <3>2. Directory!Place(p) \in Nat /\ Directory!Place(first) \in Nat  BY <1>11, <1>12
    <3> QED  BY <3>1, <3>2 DEF Directory!Before
  <2> QED  BY <2>1
<1>15. Directory!FirstOf(Directory!WithNodes) = first
  <2>1. PICK all : all = Directory!WithNodes  OBVIOUS
  <2>2. Directory!FirstOf(all) = CHOOSE p \in all : \A q \in all \ {p} : Directory!Before(p, q)
    BY DEF Directory!FirstOf
  <2>3. \A p \in all : (\A q \in all \ {p} : Directory!Before(p, q)) => p = first
    BY <1>14, <2>1
  <2>4. first \in all /\ \A q \in all \ {first} : Directory!Before(first, q)
    BY <1>12, <1>13, <2>1
  <2> QED  BY <2>1, <2>2, <2>3, <2>4
<1>16. Directory!ShowRpcAddrs = <<PLACEMENTS[k].name, 1>>  BY <1>9, <1>15 DEF Directory!ShowRpcAddrs
<1>17. k \in DOMAIN PLACEMENTS /\ 1 \in 1..len[k]  BY <1>3, <1>5, <1>7
<1>18. Directory!ShowHosts[<<PLACEMENTS[k].name, 1>>] = start[k - 1] + 1 - 1
  BY <1>1, <1>17, HostsAre
<1> QED  BY <1>6, <1>16, <1>18

\* Two lists after each other, place by place.
After(s, e, t) ==
    /\ Len(s) \in Nat /\ Len(e) \in Nat
    /\ Len(t) = Len(s) + Len(e) /\ DOMAIN t = 1..(Len(s) + Len(e))
    /\ \A i \in 1..Len(s) : t[i] = s[i]
    /\ \A i \in 1..Len(e) : t[Len(s) + i] = e[i]

LEMMA AfterIs ==
    ASSUME NEW S, NEW s \in Seq(S), NEW e \in Seq(S), NEW t, t = s \o e
    PROVE  t \in Seq(S) /\ After(s, e, t)
<1>1. t \in Seq(S) /\ Len(s) \in Nat /\ Len(e) \in Nat /\ Len(t) = Len(s) + Len(e)
  OBVIOUS
<1>2. DOMAIN t = 1..(Len(s) + Len(e))  BY <1>1
<1>3. \A i \in 1..Len(s) : t[i] = s[i]  BY <1>1
<1>4. \A i \in 1..Len(e) : t[Len(s) + i] = e[i]  BY <1>1
<1> QED  BY <1>1, <1>2, <1>3, <1>4 DEF After

\* The files of a directory, of which network.txt is the last.
FilesWell(all) ==
    /\ Len(all) \in Nat /\ Len(all) # 0 /\ DOMAIN all = 1..Len(all)
    /\ all \in Seq({all[i] : i \in DOMAIN all})
    /\ all[Len(all)] = Directory!NETWORK
    /\ \A i \in 1..(Len(all) - 1) : all[i] # Directory!NETWORK
    /\ \A i \in DOMAIN all :
         \/ all[i] \in Directory!Range(<<Directory!VARS>> \o Directory!Fixed)
         \/ \E j \in DOMAIN PLACEMENTS : all[i] = Directory!ModuleFile(PLACEMENTS[j].name)
    /\ \A x \in Directory!Range(<<Directory!VARS>> \o Directory!Fixed) :
         \E i \in DOMAIN all : all[i] = x
    /\ NamesPlaced => \A j \in DOMAIN PLACEMENTS :
         \E i \in DOMAIN all : all[i] = Directory!ModuleFile(PLACEMENTS[j].name)

LEMMA FilesAre == FilesWell(Directory!AllFiles)
<1>1. PICK M : M = {Directory!ModuleFile(PLACEMENTS[i].name) : i \in DOMAIN PLACEMENTS}  OBVIOUS
<1>2. PICK ms : ms = Directory!ModuleFiles  OBVIOUS
<1>3. ms \in Seq(M)  BY <1>1, <1>2, ModulesAre
<1>4. PICK V, N, a, b, c, d :
        /\ V = Directory!VARS /\ N = Directory!NETWORK
        /\ a = <<"outputs.tf">> /\ b = <<"id">> /\ c = <<"playbook">> /\ d = <<"ansible.cfg">>
  OBVIOUS
<1>5. V # N /\ a # N /\ b # N /\ c # N /\ d # N
  <2>1. V = <<"vars.tf">> /\ N = <<"network.txt">>  BY <1>4 DEF Directory!VARS, Directory!NETWORK
  <2> QED  BY <1>4, <2>1
<1>6. Directory!Fixed = <<a, b, c, d, N>>  BY <1>4 DEF Directory!Fixed
<1>7. \A m \in M : m # N
  <2>1. ASSUME NEW name  PROVE Directory!ModuleFile(name) # N
    BY <1>4 DEF Directory!ModuleFile, Directory!NETWORK
  <2> QED  BY <1>1, <2>1
<1>8. PICK S : S = M \cup {V, N, a, b, c, d}  OBVIOUS
<1>9. <<V>> \in Seq(S) /\ ms \in Seq(S) /\ <<a, b, c, d, N>> \in Seq(S)
  <2>1. V \in S /\ a \in S /\ b \in S /\ c \in S /\ d \in S /\ N \in S /\ M \subseteq S  BY <1>8
  <2> QED  BY <1>3, <2>1
<1>10. PICK all : all = <<V>> \o ms \o <<a, b, c, d, N>>  OBVIOUS
<1>11. all = Directory!AllFiles  BY <1>2, <1>4, <1>6, <1>10 DEF Directory!AllFiles
<1>12. PICK front : front = <<V>> \o ms  OBVIOUS
<1>13. /\ front \in Seq(S) /\ Len(front) = 1 + Len(ms) /\ Len(ms) \in Nat
       /\ front[1] = V /\ \A i \in 1..Len(ms) : front[1 + i] = ms[i]
  BY <1>9, <1>12
<1>14. \A i \in 1..Len(front) : front[i] # N /\ (front[i] = V \/ front[i] \in M)
  <2>1. ASSUME NEW i \in 1..Len(front)  PROVE front[i] = V \/ front[i] \in M
    <3>1. CASE i = 1  BY <1>13, <3>1
    <3>2. CASE i # 1
      <4>1. i - 1 \in 1..Len(ms) /\ 1 + (i - 1) = i  BY <1>13, <3>2
      <4>2. front[i] = ms[i - 1] /\ ms[i - 1] \in M  BY <1>3, <1>13, <4>1
      <4> QED  BY <4>2
    <3> QED  BY <3>1, <3>2
  <2> QED  BY <1>5, <1>7, <2>1
<1>15. PICK f : f = Len(front)  OBVIOUS
<1>16. /\ all \in Seq(S) /\ Len(all) = f + 5 /\ f \in Nat
       /\ \A i \in 1..f : all[i] = front[i]
       /\ all[f + 1] = a /\ all[f + 2] = b /\ all[f + 3] = c /\ all[f + 4] = d /\ all[f + 5] = N
  <2>1. all = front \o <<a, b, c, d, N>>  BY <1>10, <1>12
  <2>2. PICK e : e = <<a, b, c, d, N>>  OBVIOUS
  <2>3. /\ e \in Seq(S) /\ Len(e) = 5
        /\ e[1] = a /\ e[2] = b /\ e[3] = c /\ e[4] = d /\ e[5] = N
    BY <1>9, <2>2
  <2>4. all = front \o e  BY <2>1, <2>2
  <2>5. all \in Seq(S) /\ After(front, e, all)  BY ONLY <1>13, <2>3, <2>4, AfterIs
  <2>6. /\ Len(all) = f + 5 /\ f \in Nat
        /\ \A i \in 1..f : all[i] = front[i]
        /\ \A i \in 1..5 : all[f + i] = e[i]
    BY <1>15, <2>3, <2>5 DEF After
  <2>7. all[f + 1] = e[1] /\ all[f + 2] = e[2] /\ all[f + 3] = e[3] /\ all[f + 4] = e[4]
        /\ all[f + 5] = e[5]
    BY <2>6
  <2> QED  BY <2>3, <2>5, <2>6, <2>7
<1>17. DOMAIN all = 1..(f + 5)
  BY <1>16
<1>18. \A i \in 1..(f + 5) : i \in 1..f \/ i \in {f + 1, f + 2, f + 3, f + 4, f + 5}  BY <1>16
<1>19. all \in Seq({all[i] : i \in DOMAIN all})
  <2>1. PICK R : R = {all[i] : i \in DOMAIN all}  OBVIOUS
  <2>2. \A i \in 1..(f + 5) : all[i] \in R  BY <1>17, <2>1
  <2>3. PICK n : n = f + 5  OBVIOUS
  <2>4. n \in Nat /\ Len(all) = n /\ all = [i \in 1..n |-> all[i]]
    BY <1>16, <1>17, <2>3
  <2>5. all \in Seq(R)  BY ONLY <2>2, <2>3, <2>4
  <2> QED  BY <2>1, <2>5
<1>20. \A i \in 1..(Len(all) - 1) : all[i] # N  BY <1>5, <1>14, <1>15, <1>16, <1>18
<1>21. {V, a, b, c, d, N} \subseteq Directory!Range(<<Directory!VARS>> \o Directory!Fixed)
  <2>1. PICK w : w = <<V>> \o <<a, b, c, d, N>>  OBVIOUS
  <2>2. PICK e : e = <<a, b, c, d, N>>  OBVIOUS
  <2>3. DOMAIN w = 1..6 /\ w[1] = V /\ w[2] = a /\ w[3] = b /\ w[4] = c /\ w[5] = d /\ w[6] = N
    <3>1. <<V>> \in Seq(S) /\ Len(<<V>>) = 1 /\ <<V>>[1] = V  BY <1>9
    <3>2. /\ e \in Seq(S) /\ Len(e) = 5
          /\ e[1] = a /\ e[2] = b /\ e[3] = c /\ e[4] = d /\ e[5] = N
      BY <1>9, <2>2
    <3>3. PICK one : one = <<V>>  OBVIOUS
    <3>4. one \in Seq(S) /\ Len(one) = 1 /\ one[1] = V /\ w = one \o e  BY <2>1, <2>2, <3>1, <3>3
    <3>5. After(one, e, w)  BY ONLY <3>2, <3>4, AfterIs
    <3>6. DOMAIN w = 1..6 /\ w[1] = V /\ \A i \in 1..5 : w[1 + i] = e[i]
      <4>1. Len(one) = 1 /\ one[1] = V /\ Len(e) = 5  BY <3>2, <3>4
      <4>2. /\ DOMAIN w = 1..(Len(one) + Len(e))
            /\ \A i \in 1..Len(one) : w[i] = one[i]
            /\ \A i \in 1..Len(e) : w[Len(one) + i] = e[i]
        BY ONLY <3>5 DEF After
      <4>3. 1 + 5 = 6 /\ 1 \in 1..1  OBVIOUS
      <4> QED  BY ONLY <4>1, <4>2, <4>3
    <3>7. w[2] = e[1] /\ w[3] = e[2] /\ w[4] = e[3] /\ w[5] = e[4] /\ w[6] = e[5]  BY <3>6
    <3> QED  BY <3>2, <3>6, <3>7
  <2>4. {V, a, b, c, d, N} \subseteq {w[i] : i \in DOMAIN w}  BY <2>3
  <2>5. Directory!Range(w) = {w[i] : i \in DOMAIN w}  BY DEF Directory!Range
  <2> QED  BY <1>4, <1>6, <2>1, <2>4, <2>5
<1>22. ASSUME NEW i \in DOMAIN all
       PROVE  \/ all[i] \in Directory!Range(<<Directory!VARS>> \o Directory!Fixed)
              \/ \E j \in DOMAIN PLACEMENTS : all[i] = Directory!ModuleFile(PLACEMENTS[j].name)
  <2>1. all[i] \in {V, a, b, c, d, N} \/ all[i] \in M
    BY <1>14, <1>15, <1>16, <1>17, <1>18
  <2> QED  BY <1>1, <1>21, <2>1
<1>23. Len(all) \in Nat /\ Len(all) # 0 /\ DOMAIN all = 1..Len(all) /\ all[Len(all)] = N
  BY <1>16, <1>17
<1>24. ASSUME NEW x \in Directory!Range(<<Directory!VARS>> \o Directory!Fixed)
       PROVE  \E i \in DOMAIN all : all[i] = x
  <2>1. PICK w : w = <<V>> \o <<a, b, c, d, N>>  OBVIOUS
  <2>2. PICK e : e = <<a, b, c, d, N>>  OBVIOUS
  <2>3. PICK s : s = <<V>>  OBVIOUS
  <2>4. /\ e \in Seq(S) /\ Len(e) = 5 /\ s \in Seq(S) /\ Len(s) = 1 /\ s[1] = V
        /\ e[1] = a /\ e[2] = b /\ e[3] = c /\ e[4] = d /\ e[5] = N
    BY <1>9, <2>2, <2>3
  <2>5. w = s \o e  BY <2>1, <2>2, <2>3
  <2>6. After(s, e, w)  BY ONLY <2>4, <2>5, AfterIs
  <2>7. Directory!Range(w) = {w[i] : i \in DOMAIN w}  BY DEF Directory!Range
  <2>0. <<Directory!VARS>> \o Directory!Fixed = w  BY <1>4, <1>6, <2>1
  <2>8. \E i \in DOMAIN w : w[i] = x
    <3>1. x \in Directory!Range(w)  BY ONLY <1>24, <2>0
    <3>2. x \in {w[i] : i \in DOMAIN w}  BY ONLY <2>7, <3>1
    <3> QED  BY ONLY <3>2
  <2>12. PICK i \in DOMAIN w : w[i] = x  BY <2>8
  <2>9. x \in {V, a, b, c, d, N}
    <3>1. DOMAIN w = 1..6 /\ w[1] = V /\ \A k \in 1..5 : w[1 + k] = e[k]  BY <2>4, <2>6 DEF After
    <3>2. i = 1 \/ (i - 1 \in 1..5 /\ i = 1 + (i - 1))  BY <2>12, <3>1
    <3>3. CASE i = 1  BY <2>12, <3>1, <3>3
    <3>4. CASE i - 1 \in 1..5 /\ i = 1 + (i - 1)
      <4>1. x = e[i - 1]  BY <2>12, <3>1, <3>4
      <4>2. i - 1 \in {1, 2, 3, 4, 5}  BY <3>4
      <4> QED  BY <2>4, <4>1, <4>2
    <3> QED  BY <3>2, <3>3, <3>4
  <2>10. 1 \in 1..f /\ all[1] = V /\ 1 \in DOMAIN all
    BY <1>13, <1>15, <1>16, <1>17
  <2>11. {f + 1, f + 2, f + 3, f + 4, f + 5} \subseteq DOMAIN all  BY <1>16, <1>17
  <2> QED  BY <1>16, <2>9, <2>10, <2>11
<1>25. ASSUME NamesPlaced, NEW j \in DOMAIN PLACEMENTS
       PROVE  \E i \in DOMAIN all : all[i] = Directory!ModuleFile(PLACEMENTS[j].name)
  <2>1. PICK x : x = Directory!ModuleFile(PLACEMENTS[j].name)  OBVIOUS
  <2>2. PICK k \in DOMAIN Placements : Placements[k] = PLACEMENTS[j].name  BY <1>25 DEF NamesPlaced
  <2>3. PICK l \in DOMAIN ms : ms[l] = x
    BY <1>2, <2>1, <2>2, ModulesAre
  <2>4. DOMAIN ms = 1..Len(ms)  BY <1>3
  <2>5. 1 + l \in 1..f /\ all[1 + l] = x  BY <1>13, <1>15, <1>16, <2>3, <2>4
  <2>6. 1 + l \in DOMAIN all  BY <1>16, <1>17, <2>5
  <2> QED  BY <2>1, <2>5, <2>6
<1>26. FilesWell(all)  BY <1>4, <1>19, <1>20, <1>22, <1>23, <1>24, <1>25 DEF FilesWell
<1> QED  BY <1>11, <1>26

\* Placements are numbered per provider as they are made, and the one that is asked
\* for has been entered or is the next.
PlacementsOf(places, v) == Cardinality({i \in DOMAIN places : places[i].name[1] = v})

WellPlaced(places) ==
    /\ places \in Seq(AllPlacements) /\ Len(places) <= MaxPlacements
    /\ \A i, j \in DOMAIN places : places[i].name = places[j].name => i = j
    /\ \A i \in DOMAIN places :
         places[i].name[2] \in 1..PlacementsOf(places, places[i].name[1])

CanBeEntered(places, p) ==
    /\ p \in AllPlacements
    /\ \/ \E i \in DOMAIN places : places[i].name = p.name
       \/ /\ Len(places) < MaxPlacements
          /\ p.name[2] = PlacementsOf(places, p.name[1]) + 1

PlacementsInv ==
    /\ WellPlaced(PLACEMENTS)
    /\ asking \in {"nothing", "placement", "datacenter", "files", "done"}
    /\ asking = "datacenter" => CanBeEntered(PLACEMENTS, current)

\* A run writes its files in order, and before that it has written none.
DiskInv ==
    /\ runs \in Nat /\ \A f \in DOMAIN disk : disk[f] \in Nat /\ disk[f] <= runs
    /\ asking # "done" => Directory!NETWORK \notin DOMAIN disk
    /\ asking \in {"placement", "datacenter"} => \A f \in DOMAIN disk : disk[f] < runs

Written(all, k) ==
    /\ asking = "done" <=> k = Len(all)
    /\ files = SubSeq(all, k + 1, Len(all))
    /\ \A i \in 1..k : all[i] \in DOMAIN disk /\ disk[all[i]] = runs

WrittenInv ==
    asking \in {"files", "done"} =>
        /\ Directory!Total # 0
        /\ \A f \in DOMAIN disk : disk[f] = runs =>
             \E i \in DOMAIN Directory!AllFiles : Directory!AllFiles[i] = f
        /\ \E k \in 0..Len(Directory!AllFiles) : Written(Directory!AllFiles, k)

DirectoryInv == PlacementsInv /\ DiskInv /\ WrittenInv

LEMMA SamePlacements ==
    ASSUME UNCHANGED PLACEMENTS
    PROVE  /\ Directory!Total' = Directory!Total /\ Directory!AllFiles' = Directory!AllFiles
<1>1. Directory!Total' = Directory!Total
  BY DEF Directory!Total, Directory!Collated
<1>2. Directory!ModuleFiles' = Directory!ModuleFiles
  BY DEF Directory!ModuleFiles, Directory!FoldLeft, Directory!MapThenFoldSet, Directory!AddModule
<1>3. Directory!AllFiles' = Directory!AllFiles  BY <1>2 DEF Directory!AllFiles
<1> QED  BY <1>1, <1>3

LEMMA DirectoryStart ==
    ASSUME Directory!Init
    PROVE  DirectoryInv
<1>1. /\ PLACEMENTS = <<>> /\ asking = "nothing" /\ disk = <<>> /\ runs = 0
  BY DEF Directory!Init
<1>2. DOMAIN PLACEMENTS = {} /\ Len(PLACEMENTS) = 0 /\ PLACEMENTS \in Seq(AllPlacements)
  BY <1>1
<1>3. DOMAIN disk = {}  BY <1>1
<1>4. PlacementsInv  BY <1>1, <1>2, DirectoryAssumption DEF PlacementsInv, WellPlaced
<1>5. DiskInv /\ WrittenInv  BY <1>1, <1>3 DEF DiskInv, WrittenInv
<1> QED  BY <1>4, <1>5 DEF DirectoryInv

\* Nothing about what was written changes.
LEMMA NothingWritten ==
    ASSUME DirectoryInv, UNCHANGED <<disk, runs>>,
           asking \in {"placement", "datacenter"}, asking' \in {"placement", "datacenter"}
    PROVE  DiskInv' /\ WrittenInv'
<1>1. DiskInv'  BY DEF DirectoryInv, DiskInv
<1>2. asking' \notin {"files", "done"}  OBVIOUS
<1> QED  BY <1>1, <1>2 DEF WrittenInv

LEMMA DoInitKeeps ==
    ASSUME DirectoryInv, Directory!DoInit
    PROVE  DirectoryInv'
<1>1. /\ asking' = "placement" /\ runs' = runs + 1 /\ asking = "nothing"
      /\ UNCHANGED <<PLACEMENTS, current, files, disk>>
  BY DEF Directory!DoInit
<1>2. PlacementsInv'  BY <1>1 DEF DirectoryInv, PlacementsInv
<1>3. DiskInv'
  <2>1. \A f \in DOMAIN disk : disk[f] \in Nat /\ disk[f] <= runs /\ runs \in Nat
    BY DEF DirectoryInv, DiskInv
  <2>2. \A f \in DOMAIN disk' : disk'[f] \in Nat /\ disk'[f] <= runs' /\ disk'[f] < runs'
    BY <1>1, <2>1
  <2>3. runs' \in Nat /\ Directory!NETWORK \notin DOMAIN disk'
    BY <1>1 DEF DirectoryInv, DiskInv
  <2> QED  BY <2>2, <2>3 DEF DiskInv
<1>4. WrittenInv'  BY <1>1 DEF WrittenInv
<1> QED  BY <1>2, <1>3, <1>4 DEF DirectoryInv

LEMMA CardinalityIs ==
    ASSUME NEW S
    PROVE  Directory!Cardinality(S) = Cardinality(S)
<1> QED  BY DEF Directory!Cardinality, Cardinality

\* The number of a placement is one that its provider can have.
LEMMA NumberOfPlacements ==
    ASSUME NEW places \in Seq(AllPlacements), NEW v
    PROVE  PlacementsOf(places, v) \in Nat /\ PlacementsOf(places, v) <= Len(places)
<1>1. PICK n : n = Len(places)  OBVIOUS
<1>2. n \in Nat /\ DOMAIN places = 1..n  BY <1>1
<1>3. PICK S : S = {i \in 1..n : places[i].name[1] = v}  OBVIOUS
<1>4. IsFiniteSet(1..n) /\ Cardinality(1..n) = n
  <2>1. IsFiniteSet(1..n) /\ Cardinality(1..n) = IF 1 > n THEN 0 ELSE n - 1 + 1
    BY <1>2, FS_Interval
  <2> QED  BY <1>2, <2>1
<1>5. IsFiniteSet(S) /\ Cardinality(S) <= n /\ Cardinality(S) \in Nat
  <2>1. S \subseteq 1..n  BY <1>3
  <2>2. IsFiniteSet(S) /\ Cardinality(S) <= Cardinality(1..n)  BY <1>4, <2>1, FS_Subset
  <2>3. Cardinality(S) \in Nat  BY <2>2, FS_CardinalityType
  <2> QED  BY <1>4, <2>2, <2>3
<1>6. PlacementsOf(places, v) = Cardinality(S)
  <2>1. {i \in DOMAIN places : places[i].name[1] = v} = S  BY <1>2, <1>3
  <2> QED  BY <2>1 DEF PlacementsOf
<1> QED  BY <1>1, <1>5, <1>6

LEMMA NewPlacementKeeps ==
    ASSUME DirectoryInv, NEW v \in DOMAIN Datacenters, Directory!NewPlacement(v)
    PROVE  DirectoryInv'
<1>1. PICK n : n = PlacementsOf(PLACEMENTS, v)  OBVIOUS
<1>2. Directory!LastPlacement(v) = n
  BY <1>1, CardinalityIs DEF Directory!LastPlacement, PlacementsOf
<1>3. /\ asking = "placement" /\ Len(PLACEMENTS) < MaxPlacements /\ asking' = "datacenter"
      /\ current' = [name |-> <<v, n + 1>>,
                     nodes |-> [dc \in Directory!Range(Datacenters[v]) |-> 0]]
      /\ UNCHANGED <<PLACEMENTS, files, disk, runs>>
  BY <1>2 DEF Directory!NewPlacement
<1>4. n \in Nat
  BY <1>1, NumberOfPlacements DEF DirectoryInv, PlacementsInv, WellPlaced
<1>5. current' \in AllPlacements /\ current'.name = <<v, n + 1>>
  <2>1. Directory!Range(Datacenters[v]) = {Datacenters[v][i] : i \in DOMAIN Datacenters[v]}
    BY DEF Directory!Range
  <2>2. current' \in [name : {v} \X Nat,
                      nodes : [{Datacenters[v][i] : i \in DOMAIN Datacenters[v]} -> Nat]]
    BY <1>3, <1>4, <2>1
  <2> QED  BY <1>3, <2>2 DEF AllPlacements
<1>6. CanBeEntered(PLACEMENTS, current')
  <2>1. PICK c : c = current'  OBVIOUS
  <2>2. c.name[2] = n + 1 /\ c.name[1] = v  BY <1>5, <2>1
  <2>3. CanBeEntered(PLACEMENTS, c)  BY <1>1, <1>3, <1>5, <2>1, <2>2 DEF CanBeEntered
  <2> QED  BY <2>1, <2>3
<1>7. PlacementsInv'  BY <1>3, <1>6 DEF DirectoryInv, PlacementsInv
<1> QED  BY <1>3, <1>7, NothingWritten DEF DirectoryInv

LEMMA AskPlacementKeeps ==
    ASSUME DirectoryInv, NEW i, Directory!AskPlacement(i)
    PROVE  DirectoryInv'
<1>1. /\ asking = "placement" /\ asking' = "datacenter" /\ i \in DOMAIN PLACEMENTS
      /\ current' = PLACEMENTS[i] /\ UNCHANGED <<PLACEMENTS, files, disk, runs>>
  BY DEF Directory!AskPlacement
<1>2. WellPlaced(PLACEMENTS)  BY DEF DirectoryInv, PlacementsInv
<1>3. CanBeEntered(PLACEMENTS, PLACEMENTS[i])
  BY <1>1, <1>2 DEF WellPlaced, CanBeEntered
<1>4. PlacementsInv'  BY <1>1, <1>3 DEF DirectoryInv, PlacementsInv
<1> QED  BY <1>1, <1>4, NothingWritten DEF DirectoryInv

\* Datacenters are those of a provider.
LEMMA PlacementIs ==
    ASSUME NEW p \in AllPlacements
    PROVE  /\ p.name \in (DOMAIN Datacenters) \X Nat
           /\ p.nodes \in [{Datacenters[p.name[1]][i] : i \in DOMAIN Datacenters[p.name[1]]} -> Nat]
           /\ p = [name |-> p.name, nodes |-> p.nodes]
<1>1. PICK v \in DOMAIN Datacenters :
        p \in [name : {v} \X Nat,
               nodes : [{Datacenters[v][i] : i \in DOMAIN Datacenters[v]} -> Nat]]
  BY DEF AllPlacements
<1>2. p.name[1] = v /\ p.name \in (DOMAIN Datacenters) \X Nat  BY <1>1
<1> QED  BY <1>1, <1>2

\* Entering a placement: one takes the place of its name, or a new one the next.
LEMMA EnteredWell ==
    ASSUME WellPlaced(PLACEMENTS), NEW p, CanBeEntered(PLACEMENTS, p)
    PROVE  WellPlaced(Directory!Entered(p))
<1>1. PICK PL : PL = PLACEMENTS  OBVIOUS
<1>2. PICK n : n = Len(PL)  OBVIOUS
<1>3. PICK A : A = AllPlacements  OBVIOUS
<1>4. PICK t : t = Directory!Entered(p)  OBVIOUS
<1>5. /\ PL \in Seq(A) /\ n \in Nat /\ DOMAIN PL = 1..n /\ n <= MaxPlacements
      /\ \A i, j \in 1..n : PL[i].name = PL[j].name => i = j
      /\ \A i \in 1..n : PL[i].name[2] \in 1..PlacementsOf(PL, PL[i].name[1])
  BY <1>1, <1>2, <1>3 DEF WellPlaced
<1>6. p \in A  BY <1>3 DEF CanBeEntered
<1>7. CASE \E i \in DOMAIN PL : PL[i].name = p.name
  <2>1. t = [i \in DOMAIN PL |-> IF PL[i].name = p.name THEN p ELSE PL[i]]
    BY <1>1, <1>4, <1>7 DEF Directory!Entered
  <2>2. t \in Seq(A) /\ Len(t) = n /\ DOMAIN t = 1..n
    <3>1. \A i \in 1..n : (IF PL[i].name = p.name THEN p ELSE PL[i]) \in A  BY <1>5, <1>6
    <3>2. t \in [1..n -> A]  BY <1>5, <2>1, <3>1
    <3> QED  BY <1>5, <3>2
  <2>3. \A i \in 1..n : t[i].name = PL[i].name  BY <1>5, <2>1
  <2>4. \A v : PlacementsOf(t, v) = PlacementsOf(PL, v)
    <3>1. ASSUME NEW v
          PROVE {i \in DOMAIN t : t[i].name[1] = v} = {i \in DOMAIN PL : PL[i].name[1] = v}
      BY <1>5, <2>2, <2>3
    <3> QED  BY <3>1 DEF PlacementsOf
  <2>5. ASSUME NEW i \in 1..n  PROVE t[i].name[2] \in 1..PlacementsOf(t, t[i].name[1])
    <3>1. t[i].name = PL[i].name  BY <2>3
    <3>2. PL[i].name[2] \in 1..PlacementsOf(PL, PL[i].name[1])  BY <1>5
    <3> QED  BY <2>4, <3>1, <3>2
  <2>6. \A i, j \in 1..n : t[i].name = t[j].name => i = j  BY <1>5, <2>3
  <2>7. WellPlaced(t)  BY <1>3, <1>5, <2>2, <2>5, <2>6 DEF WellPlaced
  <2> QED  BY <1>4, <2>7
<1>8. CASE ~ \E i \in DOMAIN PL : PL[i].name = p.name
  <2>1. t = Append(PL, p)  BY <1>1, <1>4, <1>8 DEF Directory!Entered
  <2>2. n < MaxPlacements /\ p.name[2] = PlacementsOf(PL, p.name[1]) + 1
    BY <1>1, <1>2, <1>8 DEF CanBeEntered
  <2>3. /\ t \in Seq(A) /\ Len(t) = n + 1 /\ DOMAIN t = 1..(n + 1)
        /\ t[n + 1] = p /\ \A i \in 1..n : t[i] = PL[i]
    BY <1>2, <1>5, <1>6, <2>1
  <2>4. \A i \in 1..(n + 1) : i \in 1..n \/ i = n + 1  BY <1>5
  <2>5. \A i \in 1..n : PL[i].name # p.name  BY <1>5, <1>8
  <2>6. \A i, j \in 1..(n + 1) : t[i].name = t[j].name => i = j
    BY <1>5, <2>3, <2>4, <2>5
  <2>7. ASSUME NEW v
        PROVE  /\ PlacementsOf(t, v) \in Nat /\ PlacementsOf(PL, v) \in Nat
               /\ PlacementsOf(t, v) = PlacementsOf(PL, v) + (IF p.name[1] = v THEN 1 ELSE 0)
    <3>1. PICK S : S = {i \in DOMAIN PL : PL[i].name[1] = v}  OBVIOUS
    <3>2. PICK T : T = {i \in DOMAIN t : t[i].name[1] = v}  OBVIOUS
    <3>3. PlacementsOf(t, v) = Cardinality(T) /\ PlacementsOf(PL, v) = Cardinality(S)
      BY <3>1, <3>2 DEF PlacementsOf
    <3>4. S \subseteq 1..n  BY <1>5, <3>1
    <3>5. IsFiniteSet(S)
      <4>1. IsFiniteSet(1..n)  BY <1>5, FS_Interval
      <4> QED  BY <3>4, <4>1, FS_Subset
    <3>6. PlacementsOf(t, v) \in Nat /\ PlacementsOf(PL, v) \in Nat
      BY <1>3, <1>5, <2>3, NumberOfPlacements
    <3>7. CASE p.name[1] = v
      <4>1. T = S \cup {n + 1} /\ n + 1 \notin S
        BY <1>5, <2>3, <2>4, <3>1, <3>2, <3>7
      <4>2. Cardinality(T) = Cardinality(S) + 1  BY <3>5, <4>1, FS_AddElement
      <4> QED  BY <3>3, <3>6, <3>7, <4>2
    <3>8. CASE p.name[1] # v
      <4>1. T = S  BY <1>5, <2>3, <2>4, <3>1, <3>2, <3>8
      <4> QED  BY <3>3, <3>6, <3>8, <4>1
    <3> QED  BY <3>7, <3>8
  <2>8. ASSUME NEW i \in 1..(n + 1)  PROVE t[i].name[2] \in 1..PlacementsOf(t, t[i].name[1])
    <3>1. CASE i = n + 1
      <4>1. PICK m : m = PlacementsOf(PL, p.name[1])  OBVIOUS
      <4>2. m \in Nat /\ PlacementsOf(t, p.name[1]) = m + 1  BY <2>7, <4>1
      <4>3. t[i] = p /\ p.name[2] = m + 1  BY <2>2, <2>3, <3>1, <4>1
      <4> QED  BY <4>2, <4>3
    <3>2. CASE i \in 1..n
      <4>1. PICK v : v = PL[i].name[1]  OBVIOUS
      <4>2. PICK m, k : m = PlacementsOf(PL, v) /\ k = PlacementsOf(t, v)  OBVIOUS
      <4>3. m \in Nat /\ k \in Nat /\ m <= k  BY <2>7, <4>2
      <4>4. PL[i].name[2] \in 1..m  BY <1>5, <3>2, <4>1, <4>2
      <4>5. t[i] = PL[i]  BY <2>3, <3>2
      <4>6. PL[i].name[2] \in 1..k  BY <4>3, <4>4
      <4> QED  BY <4>1, <4>2, <4>5, <4>6
    <3> QED  BY <2>4, <3>1, <3>2
  <2>9. Len(t) <= MaxPlacements  BY <1>5, <2>2, <2>3, DirectoryAssumption
  <2>10. WellPlaced(t)  BY <1>3, <2>3, <2>6, <2>8, <2>9 DEF WellPlaced
  <2> QED  BY <1>4, <2>10
<1> QED  BY <1>7, <1>8

LEMMA AllocatedKeeps ==
    ASSUME DirectoryInv, NEW p, CanBeEntered(PLACEMENTS, p), asking = "datacenter",
           Directory!Allocated(p), UNCHANGED <<files, disk, runs>>
    PROVE  DirectoryInv'
<1>1. PLACEMENTS' = Directory!Entered(p) /\ asking' = "placement"  BY DEF Directory!Allocated
<1>2. WellPlaced(PLACEMENTS)  BY DEF DirectoryInv, PlacementsInv
<1>3. PICK entered : entered = Directory!Entered(p)  OBVIOUS
<1>4. WellPlaced(entered)  BY <1>2, <1>3, EnteredWell
<1>5. PlacementsInv'  BY <1>1, <1>3, <1>4 DEF PlacementsInv
<1> QED  BY <1>1, <1>5, NothingWritten DEF DirectoryInv

LEMMA AskDatacenterKeeps ==
    ASSUME DirectoryInv, NEW dc \in DOMAIN current.nodes, NEW n \in 0..MaxNodes,
           Directory!AskDatacenter(dc, n)
    PROVE  DirectoryInv'
<1>1. PICK p : p = [current EXCEPT !.nodes[dc] = n]  OBVIOUS
<1>2. /\ asking = "datacenter" /\ UNCHANGED <<files, disk, runs>>
      /\ IF p.name[1] \in Single THEN Directory!Allocated(p)
         ELSE current' = p /\ UNCHANGED <<PLACEMENTS, asking>>
  BY <1>1 DEF Directory!AskDatacenter
<1>3. CanBeEntered(PLACEMENTS, current)  BY <1>2 DEF DirectoryInv, PlacementsInv
<1>4. p \in AllPlacements /\ p.name = current.name
  <2>1. current \in AllPlacements  BY <1>3 DEF CanBeEntered
  <2>2. PICK v \in DOMAIN Datacenters :
          current \in [name : {v} \X Nat,
                       nodes : [{Datacenters[v][i] : i \in DOMAIN Datacenters[v]} -> Nat]]
    BY <2>1 DEF AllPlacements
  <2>3. PICK D : D = {Datacenters[v][i] : i \in DOMAIN Datacenters[v]}  OBVIOUS
  <2>4. n \in Nat  BY DirectoryAssumption
  <2>5. PICK c : c = current  OBVIOUS
  <2>6. c \in [name : {v} \X Nat, nodes : [D -> Nat]]  BY <2>2, <2>3, <2>5
  <2>7. p = [c EXCEPT !.nodes = [c.nodes EXCEPT ![dc] = n]]  BY <1>1, <2>5
  <2>8. p \in [name : {v} \X Nat, nodes : [D -> Nat]] /\ p.name = c.name
    BY <2>4, <2>6, <2>7
  <2>9. p \in [name : {v} \X Nat,
                nodes : [{Datacenters[v][i] : i \in DOMAIN Datacenters[v]} -> Nat]]
    BY <2>3, <2>8
  <2>10. p \in AllPlacements  BY <2>2, <2>9 DEF AllPlacements
  <2> QED  BY <2>5, <2>8, <2>10
<1>5. CanBeEntered(PLACEMENTS, p)  BY <1>3, <1>4 DEF CanBeEntered
<1>6. CASE p.name[1] \in Single  BY <1>2, <1>5, <1>6, AllocatedKeeps
<1>7. CASE p.name[1] \notin Single
  <2>1. current' = p /\ UNCHANGED <<PLACEMENTS, asking>>  BY <1>2, <1>7
  <2>2. PlacementsInv'  BY <1>5, <2>1 DEF DirectoryInv, PlacementsInv
  <2> QED  BY <1>2, <2>1, <2>2, NothingWritten DEF DirectoryInv
<1> QED  BY <1>6, <1>7

LEMMA DoneWithPlacementKeeps ==
    ASSUME DirectoryInv, Directory!DoneWithPlacement
    PROVE  DirectoryInv'
<1>1. /\ asking = "datacenter" /\ Directory!Allocated(current)
      /\ UNCHANGED <<files, disk, runs>>
  BY DEF Directory!DoneWithPlacement
<1>2. CanBeEntered(PLACEMENTS, current)  BY <1>1 DEF DirectoryInv, PlacementsInv
<1> QED  BY <1>1, <1>2, AllocatedKeeps

LEMMA NonePlaced == WellPlaced(<<>>)
<1>1. DOMAIN <<>> = {} /\ Len(<<>>) = 0 /\ <<>> \in Seq(AllPlacements)  OBVIOUS
<1> QED  BY <1>1, DirectoryAssumption DEF WellPlaced

LEMMA AbortedKeeps ==
    ASSUME DirectoryInv, asking \in {"placement", "datacenter", "files"},
           asking' = "nothing", PLACEMENTS' = <<>>, UNCHANGED <<disk, runs>>
    PROVE  DirectoryInv'
<1>1. PlacementsInv'  BY NonePlaced DEF PlacementsInv
<1>2. DiskInv'  BY DEF DirectoryInv, DiskInv
<1>3. WrittenInv'  BY DEF WrittenInv
<1> QED  BY <1>1, <1>2, <1>3 DEF DirectoryInv

LEMMA DoneWithAllocationKeeps ==
    ASSUME DirectoryInv, Directory!DoneWithAllocation
    PROVE  DirectoryInv'
<1>1. /\ asking = "placement" /\ UNCHANGED <<current, disk, runs>>
      /\ IF Directory!Total = 0
         THEN asking' = "nothing" /\ PLACEMENTS' = <<>> /\ UNCHANGED files
         ELSE asking' = "files" /\ files' = Directory!AllFiles /\ UNCHANGED PLACEMENTS
  BY DEF Directory!DoneWithAllocation
<1>2. CASE Directory!Total = 0  BY <1>1, <1>2, AbortedKeeps
<1>3. CASE Directory!Total # 0
  <2>1. PICK all : all = Directory!AllFiles  OBVIOUS
  <2>2. PICK n : n = Len(all)  OBVIOUS
  <2>3. asking' = "files" /\ files' = all /\ UNCHANGED PLACEMENTS  BY <1>1, <1>3, <2>1
  <2>4. Directory!Total' # 0 /\ Directory!AllFiles' = all
    BY <1>3, <2>1, <2>3, SamePlacements
  <2>5. PlacementsInv'  BY <2>3 DEF DirectoryInv, PlacementsInv
  <2>6. DiskInv'  BY <1>1, <2>3 DEF DirectoryInv, DiskInv
  <2>7. n \in Nat /\ n # 0 /\ all = SubSeq(all, 1, n)
    <3>1. /\ n \in Nat /\ n # 0 /\ all \in Seq({all[i] : i \in DOMAIN all})
      BY <2>1, <2>2, FilesAre DEF DirectoryInv, PlacementsInv, WellPlaced, PlacementsWell, FilesWell
    <3>2. PICK R : R = {all[i] : i \in DOMAIN all}  OBVIOUS
    <3>3. all \in Seq(R)  BY <3>1, <3>2
    <3> QED  BY <2>2, <3>1, <3>3
  <2>8. Written(all, 0)'
    <3>1. 0 + 1 = 1 /\ 1..0 = {}  OBVIOUS
    <3>2. files' = SubSeq(all, 0 + 1, n)  BY <2>3, <2>7, <3>1
    <3>3. asking' # "done" /\ 0 # n  BY <2>3, <2>7
    <3> QED  BY <2>2, <3>1, <3>2, <3>3 DEF Written
  <2>9. \A f \in DOMAIN disk : disk[f] # runs
    <3>1. \A f \in DOMAIN disk : disk[f] \in Nat /\ disk[f] < runs /\ runs \in Nat
      BY <1>1 DEF DirectoryInv, DiskInv
    <3> QED  BY <3>1
  <2>10. 0 \in 0..n  BY <2>7
  <2>11. WrittenInv'
    <3>1. \E k \in 0..Len(all) : Written(all, k)'  BY <2>2, <2>8, <2>10
    <3>2. \A f \in DOMAIN disk' : disk'[f] # runs'  BY <1>1, <2>9
    <3> QED  BY <2>4, <3>1, <3>2 DEF WrittenInv
  <2> QED  BY <2>5, <2>6, <2>11 DEF DirectoryInv
<1> QED  BY <1>2, <1>3

LEMMA CutShortKeeps ==
    ASSUME DirectoryInv, Directory!CutShort
    PROVE  DirectoryInv'
<1>1. /\ asking \in {"placement", "datacenter", "files"} /\ asking' = "nothing"
      /\ PLACEMENTS' = <<>> /\ UNCHANGED <<disk, runs>>
  BY DEF Directory!CutShort
<1> QED  BY <1>1, AbortedKeeps

LEMMA CreateFileKeeps ==
    ASSUME DirectoryInv, Directory!CreateFile
    PROVE  DirectoryInv'
<1>1. PICK all : all = Directory!AllFiles  OBVIOUS
<1>2. PICK n : n = Len(all)  OBVIOUS
<1>3. PICK N : N = Directory!NETWORK  OBVIOUS
<1>4. PlacementsWell  BY DEF DirectoryInv, PlacementsInv, WellPlaced, PlacementsWell
<1>5. /\ n \in Nat /\ DOMAIN all = 1..n /\ all[n] = N
      /\ \A i \in 1..(n - 1) : all[i] # N
  BY <1>1, <1>2, <1>3, <1>4, FilesAre DEF FilesWell
<1>6. PICK R : all \in Seq(R)  BY <1>1, <1>4, FilesAre DEF FilesWell
<1>7. asking = "files" /\ UNCHANGED <<PLACEMENTS, current, runs>>  BY DEF Directory!CreateFile
<1>8. PICK k \in 0..n : Written(all, k)
  BY <1>1, <1>2, <1>7 DEF DirectoryInv, WrittenInv
<1>9. k # n /\ files = SubSeq(all, k + 1, n)
  BY <1>2, <1>7, <1>8 DEF Written
<1>10. PICK f : f = all[k + 1]  OBVIOUS
<1>11. k + 1 \in 1..n  BY <1>5, <1>9
<1>12. Head(files) = f /\ Tail(files) = SubSeq(all, k + 2, n)
  <2>1. /\ files \in Seq(R) /\ Len(files) = n - k /\ Len(files) # 0
        /\ \A i \in 1..(n - k) : files[i] = all[k + i]
    BY <1>2, <1>5, <1>6, <1>9, <1>11
  <2>2. files[1] = f /\ files # <<>>  BY <1>5, <1>10, <1>11, <2>1
  <2>3. Head(files) = f  BY <2>1, <2>2
  <2>4. Tail(files) = SubSeq(all, k + 2, n)
    <3>1. PICK t : t = Tail(files)  OBVIOUS
    <3>2. PICK s : s = SubSeq(all, k + 2, n)  OBVIOUS
    <3>3. /\ t \in Seq(R) /\ Len(t) = n - k - 1 /\ \A i \in 1..(n - k - 1) : t[i] = files[i + 1]
      BY <1>5, <1>11, <2>1, <2>2, <3>1
    <3>4. /\ s \in Seq(R) /\ Len(s) = n - k - 1 /\ \A i \in 1..(n - k - 1) : s[i] = all[k + 1 + i]
      <4>1. PICK j : j = k + 2  OBVIOUS
      <4>2. j \in Nat /\ 2 <= j /\ j <= n + 1 /\ k = j - 2  BY <1>5, <1>11, <4>1
      <4>3. s = SubSeq(all, j, n) /\ DOMAIN all = 1..n  BY <1>5, <3>2, <4>1
      <4>4. \A i \in j..n : all[i] \in R
        <5>1. \A i \in 1..n : all[i] \in R  BY <1>2, <1>5, <1>6
        <5>2. \A i \in j..n : i \in 1..n  BY <1>5, <4>2
        <5> QED  BY <5>1, <5>2
      <4>5. /\ s \in Seq(R) /\ Len(s) = n - j + 1
            /\ \A i \in 1..(n - j + 1) : s[i] = all[j + i - 1]
        BY <1>5, <4>2, <4>3, <4>4, SubSeqProperties
      <4>6. n - j + 1 = n - k - 1 /\ \A i \in Nat : j + i - 1 = k + 1 + i
        BY <1>5, <4>2
      <4> QED  BY <4>5, <4>6
    <3>5. \A i \in 1..(n - k - 1) : t[i] = s[i]
      <4>1. ASSUME NEW i \in 1..(n - k - 1)  PROVE t[i] = s[i]
        <5>1. i + 1 \in 1..(n - k) /\ k + (i + 1) = k + 1 + i  BY <1>5, <1>11
        <5>2. files[i + 1] = all[k + (i + 1)]  BY <2>1, <5>1
        <5>3. t[i] = files[i + 1] /\ s[i] = all[k + 1 + i]  BY <3>3, <3>4
        <5> QED  BY <5>1, <5>2, <5>3
      <4> QED  BY <4>1
    <3>6. DOMAIN t = 1..(n - k - 1) /\ DOMAIN s = 1..(n - k - 1)  BY <3>3, <3>4
    <3>7. t = s
      <4>1. t = [i \in DOMAIN t |-> t[i]] /\ s = [i \in DOMAIN s |-> s[i]]  BY <3>3, <3>4
      <4> QED  BY <3>5, <3>6, <4>1
    <3> QED  BY <3>1, <3>2, <3>7
  <2> QED  BY <2>3, <2>4
<1>13. SubSeq(all, k + 2, n) = <<>> <=> k + 1 = n
  <2>1. Len(SubSeq(all, k + 2, n)) = n - k - 1 /\ SubSeq(all, k + 2, n) \in Seq(R)
    BY <1>2, <1>5, <1>6, <1>11
  <2>2. n - k - 1 = 0 <=> k + 1 = n  BY <1>5, <1>11
  <2>3. PICK s : s = SubSeq(all, k + 2, n)  OBVIOUS
  <2>4. s = <<>> <=> Len(s) = 0  BY <2>1, <2>3, EmptySeq
  <2> QED  BY <2>1, <2>2, <2>3, <2>4
<1>14. /\ files' = SubSeq(all, k + 2, n)
       /\ disk' = Directory!With(disk, f, runs)
       /\ asking' = IF k + 1 = n THEN "done" ELSE "files"
  BY <1>7, <1>12, <1>13 DEF Directory!CreateFile
<1>15. /\ DOMAIN disk' = DOMAIN disk \cup {f}
       /\ \A g \in DOMAIN disk' : disk'[g] = IF g = f THEN runs ELSE disk[g]
  BY <1>14 DEF Directory!With
<1>16. Directory!Total' = Directory!Total /\ Directory!AllFiles' = all
  BY <1>1, <1>7, SamePlacements
<1>17. PlacementsInv'  BY <1>7, <1>14 DEF DirectoryInv, PlacementsInv
<1>18. DiskInv'
  <2>1. /\ runs \in Nat /\ \A g \in DOMAIN disk : disk[g] \in Nat /\ disk[g] <= runs
        /\ N \notin DOMAIN disk
    BY <1>3, <1>7 DEF DirectoryInv, DiskInv
  <2>2. runs' \in Nat /\ \A g \in DOMAIN disk' : disk'[g] \in Nat /\ disk'[g] <= runs'
    BY <1>7, <1>15, <2>1
  <2>3. asking' # "done" => N \notin DOMAIN disk'
    <3>1. k + 1 # n => f # N  BY <1>5, <1>10, <1>11
    <3> QED  BY <1>14, <1>15, <2>1, <3>1
  <2>4. asking' \notin {"placement", "datacenter"}  BY <1>14
  <2>5. N = Directory!NETWORK'  BY <1>3 DEF Directory!NETWORK
  <2> QED  BY <2>2, <2>3, <2>4, <2>5 DEF DiskInv
<1>19. WrittenInv'
  <2>1. Directory!Total # 0 /\ \A g \in DOMAIN disk : disk[g] = runs => \E i \in DOMAIN all : all[i] = g
    BY <1>1, <1>7 DEF DirectoryInv, WrittenInv
  <2>2. \A g \in DOMAIN disk' : disk'[g] = runs' => \E i \in DOMAIN all : all[i] = g
    BY <1>5, <1>7, <1>10, <1>11, <1>15, <2>1
  <2>3. Written(all, k + 1)'
    <3>1. \A i \in 1..k : all[i] \in DOMAIN disk /\ disk[all[i]] = runs
      BY <1>8 DEF Written
    <3>2. \A i \in 1..(k + 1) : i \in 1..k \/ i = k + 1  BY <1>5, <1>11
    <3>3. \A i \in 1..(k + 1) : all[i] \in DOMAIN disk' /\ disk'[all[i]] = runs'
      BY <1>7, <1>10, <1>15, <3>1, <3>2
    <3>4. asking' = "done" <=> k + 1 = n  BY <1>14
    <3>5. files' = SubSeq(all, (k + 1) + 1, n)
      <4>1. (k + 1) + 1 = k + 2  BY <1>5, <1>11
      <4> QED  BY <1>14, <4>1
    <3> QED  BY <1>2, <3>3, <3>4, <3>5 DEF Written
  <2>4. k + 1 \in 0..n  BY <1>5, <1>11
  <2>5. \E m \in 0..Len(all) : Written(all, m)'  BY <1>2, <2>3, <2>4
  <2> QED  BY <1>16, <2>1, <2>2, <2>5 DEF WrittenInv
<1> QED  BY <1>17, <1>18, <1>19 DEF DirectoryInv

LEMMA DirectoryStep ==
    ASSUME DirectoryInv, Directory!Next \/ UNCHANGED directoryVars
    PROVE  DirectoryInv'
<1>1. CASE Directory!DoInit  BY <1>1, DoInitKeeps
<1>2. ASSUME NEW v \in DOMAIN Datacenters, Directory!NewPlacement(v)
      PROVE  DirectoryInv'
  BY <1>2, NewPlacementKeeps
<1>3. ASSUME NEW i \in 1..MaxPlacements, Directory!AskPlacement(i)
      PROVE  DirectoryInv'
  BY <1>3, AskPlacementKeeps
<1>4. ASSUME NEW dc \in DOMAIN current.nodes, NEW n \in 0..MaxNodes,
             Directory!AskDatacenter(dc, n)
      PROVE  DirectoryInv'
  BY <1>4, AskDatacenterKeeps
<1>5. CASE Directory!DoneWithPlacement  BY <1>5, DoneWithPlacementKeeps
<1>6. CASE Directory!DoneWithAllocation  BY <1>6, DoneWithAllocationKeeps
<1>7. CASE Directory!CreateFile  BY <1>7, CreateFileKeeps
<1>8. CASE Directory!CutShort  BY <1>8, CutShortKeeps
<1>9. CASE UNCHANGED directoryVars
  <2>1. UNCHANGED <<asking, PLACEMENTS, current, files, disk, runs>>
    BY <1>9 DEF directoryVars
  <2>2. Directory!Total' = Directory!Total /\ Directory!AllFiles' = Directory!AllFiles
    BY <2>1, SamePlacements
  <2>3. PlacementsInv' /\ DiskInv'
    BY <2>1 DEF DirectoryInv, PlacementsInv, DiskInv
  <2>4. WrittenInv'
    <3>1. ASSUME NEW all, NEW k, Written(all, k)  PROVE Written(all, k)'
      BY <2>1, <3>1 DEF Written
    <3> QED  BY <2>1, <2>2, <3>1 DEF DirectoryInv, WrittenInv
  <2> QED  BY <2>3, <2>4 DEF DirectoryInv
<1> QED
  BY <1>1, <1>2, <1>3, <1>4, <1>5, <1>6, <1>7, <1>8, <1>9 DEF Directory!Next

\* A directory with network.txt has the files of the last run, all of them.
LEMMA AllWritten ==
    ASSUME DirectoryInv, Directory!NETWORK \in DOMAIN disk
    PROVE  /\ Directory!Total # 0
           /\ disk[Directory!NETWORK] = runs
           /\ \A i \in DOMAIN Directory!AllFiles :
                /\ Directory!AllFiles[i] \in DOMAIN disk
                /\ disk[Directory!AllFiles[i]] = runs
           /\ \A f \in DOMAIN disk :
                \/ disk[f] < runs
                \/ f \in Directory!Range(<<Directory!VARS>> \o Directory!Fixed)
                \/ \E j \in DOMAIN PLACEMENTS : f = Directory!ModuleFile(PLACEMENTS[j].name)
<1>1. PICK all : all = Directory!AllFiles  OBVIOUS
<1>2. PICK n : n = Len(all)  OBVIOUS
<1>3. PICK N : N = Directory!NETWORK  OBVIOUS
<1>4. PlacementsWell  BY DEF DirectoryInv, PlacementsInv, WellPlaced, PlacementsWell
<1>5. /\ n \in Nat /\ n # 0 /\ DOMAIN all = 1..n /\ all[n] = N
      /\ \A i \in 1..n :
           \/ all[i] \in Directory!Range(<<Directory!VARS>> \o Directory!Fixed)
           \/ \E j \in DOMAIN PLACEMENTS : all[i] = Directory!ModuleFile(PLACEMENTS[j].name)
  BY <1>1, <1>2, <1>3, <1>4, FilesAre DEF FilesWell
<1>6. asking = "done"  BY DEF DirectoryInv, DiskInv
<1>7. /\ Directory!Total # 0
      /\ \A f \in DOMAIN disk : disk[f] = runs => \E i \in 1..n : all[i] = f
      /\ \E k \in 0..n : Written(all, k)
  BY <1>1, <1>2, <1>5, <1>6 DEF DirectoryInv, WrittenInv
<1>8. \A i \in 1..n : all[i] \in DOMAIN disk /\ disk[all[i]] = runs
  BY <1>2, <1>6, <1>7 DEF Written
<1>9. disk[N] = runs
  <2>1. n \in 1..n  BY <1>5
  <2> QED  BY <1>5, <1>8, <2>1
<1>10. \A f \in DOMAIN disk : disk[f] < runs \/ disk[f] = runs
  <2>1. runs \in Nat /\ \A f \in DOMAIN disk : disk[f] \in Nat /\ disk[f] <= runs
    BY DEF DirectoryInv, DiskInv
  <2> QED  BY <2>1
<1>11. ASSUME NEW f \in DOMAIN disk
       PROVE  \/ disk[f] < runs
              \/ f \in Directory!Range(<<Directory!VARS>> \o Directory!Fixed)
              \/ \E j \in DOMAIN PLACEMENTS : f = Directory!ModuleFile(PLACEMENTS[j].name)
  BY <1>5, <1>7, <1>10
<1> QED  BY <1>1, <1>3, <1>5, <1>7, <1>8, <1>9, <1>11

\* A placement that can be made has its place among the names.
LEMMA NamesArePlaced ==
    ASSUME PlacementsInv
    PROVE  NamesPlaced
<1>1. ASSUME NEW i \in DOMAIN PLACEMENTS
      PROVE  \E k \in DOMAIN Placements : Placements[k] = PLACEMENTS[i].name
  <2>1. PICK name : name = PLACEMENTS[i].name  OBVIOUS
  <2>2. PICK c : c = PlacementsOf(PLACEMENTS, name[1])  OBVIOUS
  <2>3. PLACEMENTS \in Seq(AllPlacements) /\ Len(PLACEMENTS) <= MaxPlacements /\ name[2] \in 1..c
    BY <2>1, <2>2 DEF PlacementsInv, WellPlaced
  <2>4. c \in Nat /\ c <= Len(PLACEMENTS) /\ Len(PLACEMENTS) \in Nat
    BY <2>2, <2>3, NumberOfPlacements
  <2>5. name[2] \in 1..MaxPlacements  BY <2>3, <2>4, DirectoryAssumption
  <2>6. PLACEMENTS[i] \in AllPlacements  BY <2>3
  <2>7. name[1] \in DOMAIN Datacenters /\ name = <<name[1], name[2]>>
    <3>1. name \in (DOMAIN Datacenters) \X Nat  BY <2>1, <2>6, PlacementIs
    <3> QED  BY <3>1
  <2>8. \E k \in DOMAIN Placements : Placements[k] = <<name[1], name[2]>>
    BY <2>5, <2>7, DirectoryAssumption
  <2> QED  BY <2>1, <2>7, <2>8
<1> QED  BY <1>1 DEF NamesPlaced

LEMMA AllNumbered ==
    ASSUME DirectoryInv
    PROVE  NumbersAllNodes
<1> SUFFICES ASSUME Directory!NETWORK \in DOMAIN disk
    PROVE  /\ \A f \in Directory!Range(Directory!AllFiles) :
                f \in DOMAIN disk /\ disk[f] = disk[Directory!NETWORK]
           /\ \A n \in 0 .. Directory!Total - 1 : Directory!Cardinality(Directory!PublicIPs(n)) = 1
           /\ \A i \in DOMAIN PLACEMENTS : \A dc \in DOMAIN PLACEMENTS[i].nodes :
                Directory!Cardinality({k \in DOMAIN Directory!Entries(i) :
                                         Directory!Entries(i)[k] = dc})
                  = PLACEMENTS[i].nodes[dc]
           /\ (\A i, j \in DOMAIN PLACEMENTS :
                 i < j => Directory!Before(PLACEMENTS[i].name, PLACEMENTS[j].name))
                => Directory!ShowHosts[Directory!ShowRpcAddrs] = 0
           /\ \A f \in DOMAIN disk :
                disk[f] # disk[Directory!NETWORK] => f \notin Directory!Applied
  BY DEF NumbersAllNodes, Directory!NumbersAllNodes
<1>1. PlacementsWell  BY DEF DirectoryInv, PlacementsInv, WellPlaced, PlacementsWell
<1>2. PICK start, len : NumberedFrom(start, len) /\ CollatedWell(start, len)  BY <1>1, CollatedIs
<1>3. ASSUME NEW f \in Directory!Range(Directory!AllFiles)
      PROVE  f \in DOMAIN disk /\ disk[f] = disk[Directory!NETWORK]
  <2>1. PICK i \in DOMAIN Directory!AllFiles : Directory!AllFiles[i] = f  BY <1>3 DEF Directory!Range
  <2> QED  BY <2>1, AllWritten
<1>4. ASSUME NEW m \in 0 .. Directory!Total - 1
      PROVE  Directory!Cardinality(Directory!PublicIPs(m)) = 1
  BY <1>1, NumberedOnce, CardinalityIs
<1>5. ASSUME NEW i \in DOMAIN PLACEMENTS
      PROVE  Directory!Entries(i) = Directory!NodesOf(PLACEMENTS[i])
  BY <1>2 DEF CollatedWell, Directory!Entries
<1>6. ASSUME NEW i \in DOMAIN PLACEMENTS, NEW dc \in DOMAIN PLACEMENTS[i].nodes
      PROVE  Directory!Cardinality({k \in DOMAIN Directory!Entries(i) :
                                      Directory!Entries(i)[k] = dc})
               = PLACEMENTS[i].nodes[dc]
  <2>1. PLACEMENTS[i] \in AllPlacements  BY <1>1 DEF PlacementsWell
  <2>2. PICK p : p = PLACEMENTS[i]  OBVIOUS
  <2>3. PICK s : s = Directory!NodesOf(p)  OBVIOUS
  <2>4. Cardinality(PlacesOf(s, dc)) = p.nodes[dc]  BY <2>1, <2>2, <2>3, NodesOfIs
  <2>5. {k \in DOMAIN Directory!Entries(i) : Directory!Entries(i)[k] = dc} = PlacesOf(s, dc)
    BY <1>5, <2>2, <2>3 DEF PlacesOf
  <2> QED  BY <2>2, <2>4, <2>5, CardinalityIs
<1>7. ASSUME \A i, j \in DOMAIN PLACEMENTS :
               i < j => Directory!Before(PLACEMENTS[i].name, PLACEMENTS[j].name)
      PROVE  Directory!ShowHosts[Directory!ShowRpcAddrs] = 0
  <2>1. NamesPlaced  BY NamesArePlaced DEF DirectoryInv
  <2>2. Directory!Total # 0  BY AllWritten
  <2> QED  BY <1>1, <1>7, <2>1, <2>2, FirstShown
<1>8. ASSUME NEW f \in Directory!Applied
      PROVE  f \in DOMAIN disk /\ disk[f] = disk[Directory!NETWORK]
  <2>1. PICK all : all = Directory!AllFiles  OBVIOUS
  <2>2. FilesWell(all) /\ NamesPlaced  BY <2>1, FilesAre, NamesArePlaced DEF DirectoryInv
  <2>3. \/ f \in Directory!Range(<<Directory!VARS>> \o Directory!Fixed)
        \/ \E j \in DOMAIN PLACEMENTS : f = Directory!ModuleFile(PLACEMENTS[j].name)
    BY <1>2, <1>8 DEF Directory!Applied, CollatedWell
  <2>4. PICK i \in DOMAIN all : all[i] = f  BY <2>2, <2>3 DEF FilesWell
  <2> QED  BY <2>1, <2>4, AllWritten
<1> QED  BY <1>3, <1>4, <1>6, <1>7, <1>8

\* Of the setup directory (init.js doInit, main.js show-hosts, show-rpcaddrs): one
\* with network.txt has all its files of one run, and what an earlier run left is
\* a module without an offset; every node has a number of its own, and the numbers
\* have no gap, whatever is allocated and wherever a run is cut short.  The first
\* address shown is that of node 0 if placements were entered in the order of their
\* names.
THEOREM DirectoryNumbersNodes == PartsSpec => []NumbersAllNodes
<1>1. PartsInit => DirectoryInv  BY DirectoryStart DEF PartsInit
<1>2. DirectoryInv /\ [PartsNext]_partsVars => DirectoryInv'  BY EachPart, DirectoryStep
<1>3. DirectoryInv => NumbersAllNodes  BY AllNumbered
<1> QED  BY <1>1, <1>2, <1>3, PTL DEF PartsSpec

=============================================================================
