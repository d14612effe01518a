-------------------------- MODULE SqliteUserDb_proof --------------------------
(***************************************************************************)
(* Theorems about the search index, for every set of directories, files,   *)
(* words and searches, every cache size, and with storage faults or        *)
(* without them.                                                           *)
(*                                                                         *)
(* The invariants of SqliteUserDb are not inductive one by one: whether a  *)
(* new root row can collide with one in memory depends on the ids not yet  *)
(* handed out, and the cache on the memory being empty between two         *)
(* processes.  IInv adds these facts.                                      *)
(***************************************************************************)
EXTENDS SqliteUserDb, TLAPS, FiniteSetTheorems, SequenceTheorems, WellFoundedInduction

\* Between two processes there is no memory.
NoMemory == ~up => rootDirs = {} /\ cache = <<>>

\* No root, in the table or in memory, has an id that is still to be given.
RootIdsFresh == up => \A r \in roots \cup rootDirs : r.id < rootsId

\* A directory is registered once.
RootDirsKeyed ==
  /\ Keyed(rootDirs)
  /\ \A r, s \in rootDirs : r.dir = s.dir => r = s

RootInv == RootIdsAgree /\ RootsInSync /\ RootIdsFresh /\ RootDirsKeyed

IInv == TypeOK /\ NoMemory /\ RootInv /\ TablesKeyed /\ References /\ FileIdsFresh /\ CacheCoherent

-----------------------------------------------------------------------------
(* The type invariant *)

LEMMA CardinalityUnknown ==
  ASSUME NEW W \in SUBSET Words
  PROVE  /\ Cardinality(Unknown(W)) \in Nat
         /\ \A w : Cardinality({v \in Unknown(W) : v < w}) \in Nat
<1>1. Unknown(W) \subseteq Words
  BY DEF Unknown
<1>2. IsFiniteSet(Unknown(W))
  BY <1>1, FS_Subset, WordAssumption
<1>3. \A w : IsFiniteSet({v \in Unknown(W) : v < w})
  BY <1>2, FS_Subset
<1> QED
  BY <1>2, <1>3, FS_CardinalityType

\* The ids of the new words are numbers, and below the counter that follows them.
LEMMA NewWordsType ==
  ASSUME TypeOK, NEW W \in SUBSET Words
  PROVE  NewWords(W) \subseteq [id : Nat, word : Words]
<1>1. ASSUME NEW w
      PROVE  WordId(W, w) \in Nat
  <2>1. Cardinality({v \in Unknown(W) : v < w}) \in Nat
    BY CardinalityUnknown
  <2> QED
    BY <2>1 DEF WordId, TypeOK
<1>2. Unknown(W) \subseteq Words
  BY DEF Unknown
<1> QED
  BY <1>1, <1>2 DEF NewWords

LEMMA RelativeType ==
  ASSUME NEW p \in Seq(Names), NEW d \in Seq(Names), IsParentOf(d, p)
  PROVE  Relative(p, d) \in Seq(Names)
<1>1. Len(d) <= Len(p)
  BY DEF IsParentOf, IsStrictPrefix, IsPrefix
<1> QED
  BY <1>1, SubSeqProperties DEF Relative

LEMMA JoinType ==
  ASSUME NEW d \in Seq(Names), NEW p \in Seq(Names)
  PROVE  Join(d, p) \in Seq(Names)
BY ConcatProperties DEF Join

LEMMA FoundType ==
  ASSUME TypeOK, NEW query
  PROVE  Found(query) \in SUBSET Seq(Names)
<1>1. ASSUME NEW rf \in Joined
      PROVE  PathOf(rf) \in Seq(Names)
  <2>1. rf[1].dir \in Seq(Names) /\ rf[2].path \in Seq(Names)
    BY PathAssumption DEF Joined, TypeOK
  <2> QED
    BY <2>1, JoinType DEF PathOf
<1> QED
  BY <1>1 DEF Found

\* Making room in the cache keeps it within its size; what is left was in it.
LEMMA InsertedProperties ==
  ASSUME TypeOK, NEW query \in Queries, NEW results \in SUBSET Seq(Names)
  PROVE  \A c \in Inserted(query, results) :
           /\ c \in Seq([query : Queries, results : SUBSET Seq(Names)])
           /\ Len(c) <= CacheSize
           /\ ToSet(c) \subseteq ToSet(cache) \cup {[query |-> query, results |-> results]}
<1> DEFINE Entry  == [query : Queries, results : SUBSET Seq(Names)]
           new    == [query |-> query, results |-> results]
           excess == IF Len(cache) >= CacheSize THEN Len(cache) - CacheSize + 1 ELSE 0
           kept   == SubSeq(cache, excess + 1, Len(cache))
<1>1. /\ cache \in Seq(Entry) /\ Len(cache) \in Nat /\ Len(cache) <= CacheSize
      /\ CacheSize \in Nat \ {0}
  BY BoundAssumption, LenProperties DEF TypeOK
<1>2. excess \in 0 .. 1 /\ excess <= Len(cache) /\ Len(cache) - excess < CacheSize
  BY <1>1
<1> HIDE DEF excess, Entry
<1>10. \A i \in (excess + 1) .. Len(cache) : cache[i] \in Entry
  <2> SUFFICES ASSUME NEW i \in (excess + 1) .. Len(cache) PROVE cache[i] \in Entry
    OBVIOUS
  <2>1. i \in 1 .. Len(cache)
    BY <1>1, <1>2
  <2> QED
    BY <1>1, <2>1, ElementOfSeq
<1>11. excess + 1 \in Int /\ Len(cache) \in Int
  BY <1>1, <1>2
<1>3. kept \in Seq(Entry) /\ Len(kept) = Len(cache) - excess
  BY <1>1, <1>2, <1>10, <1>11, SubSeqProperties
<1>4. \A i \in 1 .. Len(kept) : kept[i] = cache[excess + i]
  BY <1>1, <1>2, <1>3, <1>10, <1>11, SubSeqProperties
<1>5. Inserted(query, results) \subseteq {Append(kept, new), kept}
  BY DEF Inserted, Room, excess
<1>6. new \in Entry
  BY DEF Entry
<1>7. /\ Append(kept, new) \in Seq(Entry)
      /\ Len(Append(kept, new)) = Len(kept) + 1
      /\ \A i \in 1 .. Len(kept) : Append(kept, new)[i] = kept[i]
      /\ Append(kept, new)[Len(kept) + 1] = new
  BY <1>3, <1>6, AppendProperties
<1>8. ToSet(Append(kept, new)) \subseteq ToSet(cache) \cup {new}
  <2> SUFFICES ASSUME NEW i \in 1 .. (Len(kept) + 1)
               PROVE  Append(kept, new)[i] \in ToSet(cache) \cup {new}
    BY <1>7, LenProperties DEF ToSet
  <2>1. CASE i = Len(kept) + 1
    BY <2>1, <1>7
  <2>2. CASE i \in 1 .. Len(kept)
    <3>1. excess + i \in 1 .. Len(cache)
      BY <2>2, <1>1, <1>2, <1>3
    <3>2. Append(kept, new)[i] = cache[excess + i]
      BY <2>2, <1>4, <1>7
    <3> QED
      BY <3>1, <3>2, <1>1, LenProperties DEF ToSet
  <2> QED
    BY <2>1, <2>2, <1>1, <1>2, <1>3
<1>9. ToSet(kept) \subseteq ToSet(cache)
  <2> SUFFICES ASSUME NEW i \in 1 .. Len(kept)
               PROVE  kept[i] \in ToSet(cache)
    BY <1>3, LenProperties DEF ToSet
  <2>1. excess + i \in 1 .. Len(cache) /\ kept[i] = cache[excess + i]
    BY <1>1, <1>2, <1>3, <1>4
  <2> QED
    BY <2>1, <1>1, LenProperties DEF ToSet
<1> HIDE DEF kept, new
<1>12. ASSUME NEW c \in {Append(kept, new), kept}
       PROVE  c \in Seq(Entry) /\ Len(c) <= CacheSize /\ ToSet(c) \subseteq ToSet(cache) \cup {new}
  <2>1. CASE c = kept
    BY <2>1, <1>1, <1>2, <1>3, <1>9
  <2>2. CASE c = Append(kept, new)
    BY <2>2, <1>1, <1>2, <1>3, <1>7, <1>8
  <2> QED
    BY <2>1, <2>2
<1> QED
  BY <1>5, <1>12 DEF Entry, new


LEMMA EmptyCache ==
  /\ <<>> \in Seq([query : Queries, results : SUBSET Seq(Names)])
  /\ Len(<<>>) <= CacheSize
  /\ ToSet(<<>>) = {}
BY BoundAssumption DEF ToSet

LEMMA TypeInit == Init => TypeOK
<1> SUFFICES ASSUME Init PROVE TypeOK
  OBVIOUS
<1>1. /\ cache \in Seq([query : Queries, results : SUBSET Seq(Names)])
      /\ Len(cache) <= CacheSize
  BY EmptyCache DEF Init
<1> QED
  BY <1>1 DEF Init, TypeOK

\* update_file() keeps the types, the rejected and the rolled back ones included.
LEMMA ReindexType ==
  ASSUME TypeOK, NEW r \in rootDirs, NEW p \in Files, NEW W \in SUBSET Words,
         IsParentOf(r.dir, p), cache' = <<>>, UNCHANGED <<up, rootDirs, rootsId>>,
         Reindex(r, p, W)
  PROVE  TypeOK'
<1>1. /\ r.id \in Nat /\ Relative(p, r.dir) \in Seq(Names)
      /\ Cardinality(Unknown(W)) \in Nat
      /\ NewWords(W) \subseteq [id : Nat, word : Words]
  BY PathAssumption, RelativeType, CardinalityUnknown, NewWordsType DEF TypeOK
<1>2. /\ cache' \in Seq([query : Queries, results : SUBSET Seq(Names)])
      /\ Len(cache') <= CacheSize
  BY BoundAssumption
<1>3. ASSUME UNCHANGED tables
      PROVE  TypeOK' <=> filesId' \in Nat /\ wordsId' \in Nat
  BY <1>2, <1>3 DEF TypeOK, tables
<1>4. CASE UNCHANGED <<tables, filesId, wordsId>>
  BY <1>3, <1>4 DEF TypeOK
<1>5. ASSUME NEW x \in Clash(W), wordsId' = x.id + 1, UNCHANGED <<tables, filesId>>
      PROVE  TypeOK'
  <2>1. x.id \in Nat
    BY <1>1 DEF Clash
  <2> QED
    BY <1>3, <1>5, <2>1 DEF TypeOK
<1>6. ASSUME UNCHANGED tables, filesId' \in {filesId, filesId + 1},
             wordsId' \in wordsId .. (wordsId + Cardinality(Unknown(W)))
      PROVE  TypeOK'
  BY <1>1, <1>3, <1>6 DEF TypeOK
<1> DEFINE rel == Relative(p, r.dir)
           new == [id |-> filesId, root |-> r.id, path |-> rel]
<1>7. ASSUME files' = (files \ OldRows(r, rel)) \cup {new},
             words' = words \cup NewWords(W),
             mappings' = {m \in mappings : m.file \notin Ids(OldRows(r, rel))}
               \cup {[file |-> filesId, word |-> x.id] : x \in {y \in words' : y.word \in W}},
             filesId' = filesId + 1,
             wordsId' = wordsId + Cardinality(Unknown(W)),
             UNCHANGED roots
      PROVE  TypeOK'
  <2>1. files' \subseteq [id : Nat, root : Nat, path : Seq(Names)]
    BY <1>1, <1>7 DEF TypeOK
  <2>2. words' \subseteq [id : Nat, word : Words]
    BY <1>1, <1>7 DEF TypeOK
  <2>3. mappings' \subseteq [file : Nat, word : Nat]
    BY <1>7, <2>2 DEF TypeOK
  <2>4. filesId' \in Nat /\ wordsId' \in Nat
    BY <1>1, <1>7 DEF TypeOK
  <2> QED
    BY <1>2, <1>7, <2>1, <2>2, <2>3, <2>4 DEF TypeOK
<1> QED
  BY <1>4, <1>5, <1>6, <1>7 DEF Reindex

LEMMA TypeStep ==
  ASSUME TypeOK, [Next]_vars
  PROVE  TypeOK'
<1> USE DEF TypeOK
<1>1. ASSUME NEW D \in SUBSET Dirs, Start(D)
      PROVE  TypeOK'
  <2>1. PICK n \in 0 .. MaxRootId : \E id \in Bijection(D, 0 .. (n - 1)) :
          /\ roots' = {[id |-> id[d], dir |-> d] : d \in D}
          /\ rootsId' = n
    BY <1>1 DEF Start
  <2>. PICK id \in Bijection(D, 0 .. (n - 1)) :
          /\ roots' = {[id |-> id[d], dir |-> d] : d \in D}
          /\ rootsId' = n
    BY <2>1
  <2>2. \A d \in D : id[d] \in Nat
    BY BoundAssumption DEF Bijection, Injection
  <2>3. roots' \subseteq [id : Nat, dir : Dirs] /\ rootsId' \in Nat
    BY <2>1, <2>2
  <2> QED
    BY <1>1, <2>3 DEF Start, Delete
<1>2. CASE Stop
  BY EmptyCache, <1>2 DEF Stop, tables
<1>3. ASSUME NEW dir \in Dirs, AddRootDir(dir)
      PROVE  TypeOK'
  BY EmptyCache, <1>3 DEF AddRootDir, InsertRoot
<1>4. ASSUME NEW dir \in Dirs, RemoveRootDir(dir)
      PROVE  TypeOK'
  BY EmptyCache, <1>4 DEF RemoveRootDir, Delete
<1>5. ASSUME NEW p \in Files, NEW W \in SUBSET Words, UpdateFile(p, W)
      PROVE  TypeOK'
  <2>1. CASE UNCHANGED <<tables, filesId, wordsId>>
    BY EmptyCache, <1>5, <2>1 DEF UpdateFile, tables
  <2>2. CASE \E r \in Owners(p) : Reindex(r, p, W)
    BY <1>5, <2>2, ReindexType DEF UpdateFile, Owners
  <2> QED
    BY <1>5, <2>1, <2>2 DEF UpdateFile, Rollback
<1>6. ASSUME NEW p \in Files, RemoveFile(p)
      PROVE  TypeOK'
  BY EmptyCache, <1>6 DEF RemoveFile, Delete
<1>7. ASSUME NEW p \in Files, NEW q \in Files, MoveFile(p, q)
      PROVE  TypeOK'
  <2>1. CASE files' = files
    BY EmptyCache, <1>7, <2>1 DEF MoveFile
  <2>2. ASSUME NEW r \in Owners(p), NEW s \in Owners(q),
               files' = (files \ {f \in files : f.path = Relative(p, r.dir)})
                 \cup {[f EXCEPT !.root = s.id, !.path = Relative(q, s.dir)] :
                          f \in {g \in files : g.path = Relative(p, r.dir)}}
        PROVE  TypeOK'
    <3>1. s.id \in Nat /\ Relative(q, s.dir) \in Seq(Names)
      BY PathAssumption, RelativeType DEF Owners
    <3>2. files' \subseteq [id : Nat, root : Nat, path : Seq(Names)]
      BY <2>2, <3>1
    <3> QED
      BY EmptyCache, <1>7, <3>2 DEF MoveFile
  <2> QED
    BY <1>7, <2>1, <2>2 DEF MoveFile
<1>8. ASSUME NEW query \in Queries, Search(query)
      PROVE  TypeOK'
  BY <1>8, FoundType, InsertedProperties DEF Search, tables
<1>9. CASE UNCHANGED vars
  BY <1>9 DEF vars, tables, memory
<1> QED
  BY <1>1, <1>2, <1>3, <1>4, <1>5, <1>6, <1>7, <1>8, <1>9 DEF Next

\* The tables and the memory keep their types, and the cache its size.
THEOREM TypeCorrect == Spec => []TypeOK
BY TypeInit, TypeStep, PTL DEF Spec


-----------------------------------------------------------------------------
(* The root directories in memory and in the table *)

\* Any step that leaves both alone.
LEMMA RootsUntouched ==
  ASSUME RootInv, UNCHANGED <<roots, rootDirs, rootsId, up>>
  PROVE  RootInv'
BY DEF RootInv, RootIdsAgree, RootsInSync, RootIdsFresh, RootDirsKeyed, Keyed

LEMMA RootStep ==
  ASSUME IInv, [Next]_vars
  PROVE  RootInv' /\ NoMemory' /\ Keyed(roots)'
           /\ (\A x, y \in roots : x.dir = y.dir => x = y)'
<1> DEFINE Goal == RootInv /\ NoMemory /\ Keyed(roots)
                     /\ \A x, y \in roots : x.dir = y.dir => x = y
<1>0. TypeOK /\ RootInv /\ NoMemory /\ TablesKeyed
  BY DEF IInv
<1>1. ASSUME NEW D \in SUBSET Dirs, Start(D)
      PROVE  Goal'
  <2>1. PICK n \in 0 .. MaxRootId : \E id \in Bijection(D, 0 .. (n - 1)) :
          /\ roots' = {[id |-> id[d], dir |-> d] : d \in D}
          /\ rootsId' = n
    BY <1>1 DEF Start
  <2>2. PICK id \in Bijection(D, 0 .. (n - 1)) :
          /\ roots' = {[id |-> id[d], dir |-> d] : d \in D}
          /\ rootsId' = n
    BY <2>1
  <2>3. \A d \in D : id[d] \in Nat /\ id[d] < n
    BY BoundAssumption DEF Bijection, Injection
  <2>4. \A c, d \in D : id[c] = id[d] => c = d
    BY DEF Bijection, Injection, IsInjective
  <2>5. rootDirs' = roots' /\ up'
    BY <1>1 DEF Start
  <2>6. \A r, s \in roots' : (r.id = s.id => r = s) /\ (r.dir = s.dir => r = s)
    BY <2>2, <2>4
  <2>7. \A r \in roots' : r.id < rootsId'
    BY <2>2, <2>3
  <2> QED
    BY <2>5, <2>6, <2>7
       DEF RootInv, RootIdsAgree, RootsInSync, RootIdsFresh, RootDirsKeyed, Keyed, NoMemory
<1>2. CASE Stop
  BY <1>0, <1>2 DEF Stop, tables, RootInv, RootIdsAgree, RootsInSync, RootIdsFresh,
                    RootDirsKeyed, Keyed, NoMemory, TablesKeyed
<1>3. ASSUME NEW dir \in Dirs, AddRootDir(dir)
      PROVE  Goal'
  <2> DEFINE new == [id |-> rootsId, dir |-> dir]
  <2>1. up /\ up' /\ dir \notin {r.dir : r \in rootDirs}
    BY <1>3 DEF AddRootDir
  <2>2. CASE UNCHANGED <<roots, rootDirs, rootsId>>
    BY <1>0, <1>3, <2>1, <2>2, RootsUntouched DEF AddRootDir, NoMemory, TablesKeyed, Keyed
  <2>3. ASSUME ~RootConflict(dir), rootDirs' = rootDirs \cup {new}, rootsId' = rootsId + 1,
               roots' \in {roots, roots \cup {new}},
               ~StorageFaults => roots' = roots \cup {new}
        PROVE  Goal'
    <3>1. /\ \A r \in roots \cup rootDirs : r.id \in Nat /\ r.id < rootsId /\ r.dir # dir
          /\ rootsId \in Nat /\ new.id = rootsId /\ new.dir = dir
      BY <1>0, <2>1, <2>3 DEF RootInv, RootIdsFresh, TypeOK, RootConflict
    <3>2. RootIdsAgree' /\ RootDirsKeyed' /\ RootIdsFresh' /\ Keyed(roots)'
            /\ (\A x, y \in roots : x.dir = y.dir => x = y)'
      BY <1>0, <2>3, <3>1
         DEF RootInv, RootIdsAgree, RootIdsFresh, RootDirsKeyed, Keyed, TablesKeyed
    <3>3. RootsInSync'
      BY <1>0, <2>1, <2>3 DEF RootInv, RootsInSync
    <3> QED
      BY <2>1, <3>2, <3>3 DEF RootInv, NoMemory
  <2> QED
    BY <1>3, <2>2, <2>3 DEF AddRootDir, InsertRoot, InsertRoot
<1>4. ASSUME NEW dir \in Dirs, RemoveRootDir(dir)
      PROVE  Goal'
  <2>1. /\ up /\ up' /\ rootsId' = rootsId
        /\ roots' \subseteq roots /\ rootDirs' \subseteq rootDirs
        /\ ~StorageFaults => /\ rootDirs' = {r \in rootDirs : r.dir # dir}
                             /\ roots' = {r \in roots : r.dir # dir}
    BY <1>4 DEF RemoveRootDir, Delete
  <2> QED
    BY <1>0, <2>1 DEF RootInv, RootIdsAgree, RootsInSync, RootIdsFresh, RootDirsKeyed, Keyed,
                      TablesKeyed, NoMemory
<1>5. ASSUME UNCHANGED <<roots, rootDirs, rootsId, up>>, ~up => UNCHANGED cache
      PROVE  Goal'
  BY <1>0, <1>5, RootsUntouched DEF NoMemory, TablesKeyed, Keyed
<1>6. ASSUME NEW p \in Files, NEW W \in SUBSET Words, UpdateFile(p, W)
      PROVE  Goal'
  BY <1>5, <1>6 DEF UpdateFile, Rollback, Reindex, tables
<1>7. ASSUME NEW p \in Files, RemoveFile(p)
      PROVE  Goal'
  BY <1>5, <1>7 DEF RemoveFile
<1>8. ASSUME NEW p \in Files, NEW q \in Files, MoveFile(p, q)
      PROVE  Goal'
  BY <1>5, <1>8 DEF MoveFile
<1>9. ASSUME NEW query \in Queries, Search(query)
      PROVE  Goal'
  BY <1>5, <1>9 DEF Search, tables
<1>10. CASE UNCHANGED vars
  BY <1>5, <1>10 DEF vars, tables, memory
<1> QED
  BY <1>1, <1>2, <1>3, <1>4, <1>6, <1>7, <1>8, <1>9, <1>10 DEF Next


-----------------------------------------------------------------------------
(* The rows of the other tables *)

LEMMA NatSubsetHasMin ==
  ASSUME NEW T \in SUBSET Nat, T # {}
  PROVE  \E n \in T : \A m \in T : n <= m
<1> DEFINE R == OpToRel(<, Nat)
<1>1. IsWellFoundedOn(R, Nat)
  BY NatLessThanWellFounded
<1>2. \A m, n \in T : <<m, n>> \in R <=> m < n
  BY DEF OpToRel
<1> HIDE DEF R
<1>3. PICK n \in T : \A m \in T : ~ (<<m, n>> \in R)
  BY <1>1, WFMin
<1>4. ASSUME NEW m \in T
      PROVE  n <= m
  <2>1. m \in Nat /\ n \in Nat /\ ~ (m < n)
    BY <1>2, <1>3
  <2> QED
    BY <2>1
<1> QED
  BY <1>4

\* Without a clash every new word has a new id: the smallest of the taken ids
\* would be a clash.
LEMMA NoClash ==
  ASSUME TypeOK, NEW W \in SUBSET Words, Clash(W) = {}
  PROVE  \A x \in NewWords(W) : x.id \notin Ids(words)
<1> SUFFICES ASSUME NEW x \in NewWords(W), x.id \in Ids(words)
             PROVE  FALSE
  OBVIOUS
<1> DEFINE taken == {y.id : y \in {z \in NewWords(W) : z.id \in Ids(words)}}
<1>1. taken \subseteq Nat /\ x.id \in taken
  BY NewWordsType
<1>2. PICK n \in taken : \A m \in taken : n <= m
  BY <1>1, NatSubsetHasMin
<1>3. PICK y \in NewWords(W) : y.id = n /\ y.id \in Ids(words)
  BY <1>2
<1>4. y \in Clash(W)
  BY <1>2, <1>3 DEF Clash
<1> QED
  BY <1>4

\* Distinct new words get distinct ids: the smaller word precedes the larger one.
LEMMA NewWordsKeyed ==
  ASSUME TypeOK, NEW W \in SUBSET Words
  PROVE  \A x, y \in NewWords(W) : x.id = y.id \/ x.word = y.word => x = y
<1> DEFINE U     == Unknown(W)
           B(w)  == {v \in U : v < w}
<1>1. U \subseteq Nat /\ IsFiniteSet(U)
  BY WordAssumption, FS_Subset DEF Unknown
<1>2. ASSUME NEW v \in U, NEW w \in U, v < w
      PROVE  Cardinality(B(v)) < Cardinality(B(w))
  <2>1. IsFiniteSet(B(w)) /\ B(v) \subseteq B(w) /\ B(v) # B(w)
    BY <1>1, <1>2, FS_Subset
  <2>2. Cardinality(B(v)) \in Nat /\ Cardinality(B(w)) \in Nat
    BY CardinalityUnknown
  <2>3. /\ Cardinality(B(v)) <= Cardinality(B(w))
        /\ Cardinality(B(v)) # Cardinality(B(w))
    BY <2>1, FS_Subset
  <2> QED
    BY <2>2, <2>3
<1>3. ASSUME NEW v \in U, NEW w \in U, WordId(W, v) = WordId(W, w)
      PROVE  v = w
  <2>1. Cardinality(B(v)) \in Nat /\ Cardinality(B(w)) \in Nat
    BY CardinalityUnknown
  <2>2. Cardinality(B(v)) = Cardinality(B(w))
    BY <1>3, <2>1 DEF WordId, TypeOK
  <2> QED
    BY <1>1, <1>2, <2>1, <2>2
<1> QED
  BY <1>3 DEF NewWords

\* Foreign keys, unique words and fresh ids through update_file().
LEMMA ReindexTables ==
  ASSUME IInv, up, NEW r \in rootDirs, NEW p \in Files, NEW W \in SUBSET Words,
         IsParentOf(r.dir, p), Reindex(r, p, W), up' = up
  PROVE  /\ Keyed(files)' /\ Keyed(words)'
         /\ (\A x, y \in words : x.word = y.word => x = y)'
         /\ References' /\ FileIdsFresh'
<1> DEFINE rel == Relative(p, r.dir)
           old == OldRows(r, rel)
           new == [id |-> filesId, root |-> r.id, path |-> rel]
           Goal == /\ Keyed(files) /\ Keyed(words)
                   /\ \A x, y \in words : x.word = y.word => x = y
                   /\ References /\ FileIdsFresh
<1>0. TypeOK /\ TablesKeyed /\ References /\ FileIdsFresh
  BY DEF IInv
<1>1. ASSUME UNCHANGED tables, filesId' \in {filesId, filesId + 1}
      PROVE  Goal'
  <2>1. \A f \in files : f.id \in Nat /\ f.id < filesId
    BY <1>0 DEF FileIdsFresh, TypeOK
  <2>2. FileIdsFresh'
    BY <1>0, <1>1, <2>1 DEF FileIdsFresh, TypeOK, tables
  <2> QED
    BY <1>0, <1>1, <2>2 DEF TablesKeyed, Keyed, References, Ids, tables
<1>2. ASSUME r.id \in Ids(roots), filesId \notin Ids(files \ old), Clash(W) = {},
             files' = (files \ old) \cup {new},
             words' = words \cup NewWords(W),
             mappings' = {m \in mappings : m.file \notin Ids(old)}
               \cup {[file |-> filesId, word |-> x.id] : x \in {y \in words' : y.word \in W}},
             filesId' = filesId + 1, UNCHANGED roots
      PROVE  Goal'
  <2>1. \A f \in files : f.id \in Nat /\ f.id < filesId
    BY <1>0 DEF FileIdsFresh, TypeOK
  <2>2. Keyed(files)' /\ FileIdsFresh'
    BY <1>0, <1>2, <2>1 DEF FileIdsFresh, Keyed, TablesKeyed, TypeOK
  <2>3. \A x \in NewWords(W) : /\ x.word \in W /\ \A y \in words : y.word # x.word
                               /\ x.id = WordId(W, x.word)
    BY DEF NewWords, Unknown
  <2>4. \A x \in NewWords(W) : x.id \notin Ids(words)
    BY <1>0, <1>2, NoClash
  <2>5. \A x, y \in NewWords(W) : x.id = y.id \/ x.word = y.word => x = y
    BY <1>0, NewWordsKeyed
  <2>6. Keyed(words)' /\ (\A x, y \in words : x.word = y.word => x = y)'
    BY <1>0, <1>2, <2>3, <2>4, <2>5 DEF Keyed, TablesKeyed, Ids
  <2>7. (\A f \in files : f.root \in Ids(roots))'
    BY <1>0, <1>2 DEF References, Ids
  <2>8. ASSUME NEW m \in mappings'
        PROVE  m.file \in Ids(files)' /\ m.word \in Ids(words)'
    <3>1. CASE m \in mappings /\ m.file \notin Ids(old)
      <4>1. PICK f \in files : f.id = m.file
        BY <1>0, <3>1 DEF References, Ids
      <4>2. f \in files'
        BY <1>2, <3>1, <4>1 DEF Ids
      <4>3. PICK x \in words : x.id = m.word
        BY <1>0, <3>1 DEF References, Ids
      <4> QED
        BY <1>2, <4>1, <4>2, <4>3 DEF Ids
    <3>2. CASE \E x \in words' : m = [file |-> filesId, word |-> x.id]
      <4>1. PICK x \in words' : m.file = filesId /\ m.word = x.id
        BY <3>2
      <4>2. new \in files' /\ new.id = filesId
        BY <1>2
      <4> QED
        BY <4>1, <4>2 DEF Ids
    <3> QED
      BY <1>2, <2>8, <3>1, <3>2
  <2> QED
    BY <2>2, <2>6, <2>7, <2>8 DEF References
<1> QED
  BY <1>1, <1>2 DEF Reindex


\* DELETE FROM files with its cascade, whatever rows it hits.
LEMMA DeleteTables ==
  ASSUME TypeOK, TablesKeyed, FileIdsFresh, References,
         NEW gone \in SUBSET files, Delete(gone),
         UNCHANGED <<words, up, filesId>>,
         \A f \in files \ gone : f.root \in Ids(roots')
  PROVE  /\ Keyed(files)' /\ Keyed(words)'
         /\ (\A x, y \in words : x.word = y.word => x = y)'
         /\ References' /\ FileIdsFresh'
<1>1. files' = files \ gone /\ mappings' = {m \in mappings : m.file \notin Ids(gone)}
  BY DEF Delete
<1>2. ASSUME NEW m \in mappings'
      PROVE  m.file \in Ids(files') /\ m.word \in Ids(words')
  <2>1. PICK f \in files : f.id = m.file
    BY <1>1 DEF References, Ids
  <2>2. f \in files'
    BY <1>1, <2>1 DEF Ids
  <2> QED
    BY <1>1, <2>1, <2>2 DEF References, Ids
<1> QED
  BY <1>1, <1>2 DEF Keyed, TablesKeyed, FileIdsFresh, References, Ids

\* A step that leaves the other tables alone, and no root row out.
LEMMA OtherTablesUntouched ==
  ASSUME TablesKeyed, FileIdsFresh, References,
         UNCHANGED <<files, words, mappings, filesId>>, up' => up, roots \subseteq roots'
  PROVE  /\ Keyed(files)' /\ Keyed(words)'
         /\ (\A x, y \in words : x.word = y.word => x = y)'
         /\ References' /\ FileIdsFresh'
BY DEF TablesKeyed, Keyed, FileIdsFresh, References, Ids

LEMMA TablesStep ==
  ASSUME IInv, [Next]_vars
  PROVE  TablesKeyed' /\ References' /\ FileIdsFresh'
<1> DEFINE Goal == /\ Keyed(files) /\ Keyed(words)
                   /\ \A x, y \in words : x.word = y.word => x = y
                   /\ References /\ FileIdsFresh
<1>0. TypeOK /\ TablesKeyed /\ References /\ FileIdsFresh
  BY DEF IInv
<1>1. ASSUME NEW D \in SUBSET Dirs, Start(D)
      PROVE  Goal'
  <2>1. Orphans(roots) = files
    BY <1>0 DEF Orphans, References
  <2>2. files' = {} /\ mappings' = {}
    BY <1>0, <1>1, <2>1 DEF Start, Delete, References
  <2> QED
    BY <1>0, <1>1, <2>2 DEF Start, Keyed, TablesKeyed, References, FileIdsFresh
<1>2. ASSUME Stop
      PROVE  Goal'
  BY <1>0, <1>2 DEF Stop, tables, Keyed, TablesKeyed, References, FileIdsFresh, Ids
<1>3. ASSUME NEW dir \in Dirs, AddRootDir(dir)
      PROVE  Goal'
  BY <1>0, <1>3, OtherTablesUntouched DEF AddRootDir, InsertRoot
<1>4. ASSUME NEW dir \in Dirs, RemoveRootDir(dir)
      PROVE  Goal'
  <2>1. CASE UNCHANGED <<roots, files, mappings>>
    BY <1>0, <1>4, <2>1, OtherTablesUntouched DEF RemoveRootDir
  <2> DEFINE gone    == {r \in roots : r.dir = dir}
             orphans == Orphans(gone)
  <2>2. CASE roots' = roots \ gone /\ Delete(orphans)
    <3>1. \A f \in files \ orphans : f.root \in Ids(roots')
      BY <1>0, <2>2 DEF References, Ids, Orphans
    <3> QED
      BY <1>0, <1>4, <2>2, <3>1, DeleteTables DEF RemoveRootDir, Orphans
  <2> QED
    BY <1>4, <2>1, <2>2 DEF RemoveRootDir
<1>5. ASSUME NEW p \in Files, NEW W \in SUBSET Words, UpdateFile(p, W)
      PROVE  Goal'
  <2>1. CASE UNCHANGED <<tables, filesId, wordsId>>
    BY <1>0, <1>5, <2>1, OtherTablesUntouched DEF UpdateFile, tables
  <2>2. CASE \E r \in Owners(p) : Reindex(r, p, W)
    BY <1>5, <2>2, ReindexTables DEF UpdateFile, Owners
  <2> QED
    BY <1>5, <2>1, <2>2 DEF UpdateFile, Rollback
<1>6. ASSUME NEW p \in Files, RemoveFile(p)
      PROVE  Goal'
  <2>1. CASE UNCHANGED <<files, mappings>>
    BY <1>0, <1>6, <2>1, OtherTablesUntouched DEF RemoveFile
  <2>2. ASSUME NEW r \in Owners(p), Delete({f \in files : f.path = Relative(p, r.dir)})
        PROVE  Goal'
    BY <1>0, <1>6, <2>2, DeleteTables DEF RemoveFile, References
  <2> QED
    BY <1>6, <2>1, <2>2 DEF RemoveFile
<1>7. ASSUME NEW p \in Files, NEW q \in Files, MoveFile(p, q)
      PROVE  Goal'
  <2>1. CASE files' = files
    BY <1>0, <1>7, <2>1, OtherTablesUntouched DEF MoveFile
  <2>2. ASSUME NEW r \in Owners(p), NEW s \in Owners(q),
               LET moved(f) == [f EXCEPT !.root = s.id, !.path = Relative(q, s.dir)]
                   hit      == {f \in files : f.path = Relative(p, r.dir)}
               IN  /\ hit # {} => s.id \in Ids(roots)
                   /\ files' = (files \ hit) \cup {moved(f) : f \in hit}
        PROVE  Goal'
    <3> DEFINE moved(f) == [f EXCEPT !.root = s.id, !.path = Relative(q, s.dir)]
               hit      == {f \in files : f.path = Relative(p, r.dir)}
    <3>1. \A f \in files : f \in [id : Nat, root : Nat, path : Seq(Names)]
      BY <1>0 DEF TypeOK
    <3>2. \A f \in hit : moved(f).id = f.id /\ moved(f).root = s.id
      BY <3>1
    <3>3. \A g \in files' : \E f \in files :
            /\ g.id = f.id
            /\ g = IF f \in hit THEN moved(f) ELSE f
      BY <2>2, <3>2
    <3>4. \A f \in files : \E g \in files' : g.id = f.id
      BY <2>2, <3>2
    <3>5. \A g \in files' : g.root \in Ids(roots)
      BY <1>0, <2>2, <3>2 DEF References
    <3>6. UNCHANGED <<roots, words, mappings, up, filesId>>
      BY <1>7 DEF MoveFile
    <3> HIDE DEF moved, hit
    <3>7. Keyed(files')
      BY <1>0, <3>3 DEF Keyed, TablesKeyed
    <3>8. References'
      BY <1>0, <3>4, <3>5, <3>6 DEF References, Ids
    <3>9. FileIdsFresh'
      BY <1>0, <3>3, <3>6 DEF FileIdsFresh
    <3> QED
      BY <1>0, <3>6, <3>7, <3>8, <3>9 DEF Keyed, TablesKeyed
  <2> QED
    BY <1>7, <2>1, <2>2 DEF MoveFile
<1>8. ASSUME NEW query \in Queries, Search(query)
      PROVE  Goal'
  BY <1>0, <1>8, OtherTablesUntouched DEF Search, tables
<1>9. ASSUME UNCHANGED vars
      PROVE  Goal'
  BY <1>0, <1>9, OtherTablesUntouched DEF vars, tables, memory
<1> HIDE DEF Goal
<1>10. Goal'
  BY <1>1, <1>2, <1>3, <1>4, <1>5, <1>6, <1>7, <1>8, <1>9 DEF Next
<1> QED
  BY <1>10, RootStep DEF Goal, TablesKeyed

-----------------------------------------------------------------------------
(* The cache *)

\* Every handler that writes forgets the cache, and a search that misses adds
\* what the tables hold.
LEMMA CacheStep ==
  ASSUME IInv, [Next]_vars
  PROVE  CacheCoherent'
<1>0. TypeOK /\ NoMemory /\ CacheCoherent
  BY DEF IInv
<1>1. ASSUME cache' = <<>>
      PROVE  CacheCoherent'
  BY <1>1, EmptyCache DEF CacheCoherent
<1>2. ASSUME UNCHANGED <<tables, cache>>
      PROVE  CacheCoherent'
  BY <1>0, <1>2 DEF CacheCoherent, Found, Joined, PathOf, Matching, tables
<1>3. ASSUME NEW query \in Queries, Search(query)
      PROVE  CacheCoherent'
  <2>1. CASE UNCHANGED cache
    BY <1>2, <1>3, <2>1 DEF Search
  <2>2. CASE cache' \in Inserted(query, Found(query))
    <3>1. \A any : Found(any)' = Found(any)
      BY <1>3 DEF Search, tables, Found, Joined, PathOf, Matching
    <3>2. ToSet(cache') \subseteq ToSet(cache) \cup {[query |-> query, results |-> Found(query)]}
      BY <1>0, <2>2, FoundType, InsertedProperties
    <3> QED
      BY <1>0, <3>1, <3>2 DEF CacheCoherent
  <2> QED
    BY <1>3, <2>1, <2>2 DEF Search
<1>4. ASSUME NEW D \in SUBSET Dirs, Start(D)
      PROVE  cache' = <<>>
  BY <1>0, <1>4 DEF Start, NoMemory
<1>5. CASE UNCHANGED vars
  BY <1>2, <1>5 DEF vars, memory
<1> QED
  BY <1>1, <1>3, <1>4, <1>5
     DEF Next, Stop, AddRootDir, RemoveRootDir, UpdateFile, RemoveFile, MoveFile

-----------------------------------------------------------------------------
(* The invariants *)

LEMMA InvInit == Init => IInv
<1> SUFFICES ASSUME Init PROVE IInv
  OBVIOUS
<1>1. TypeOK
  BY TypeInit
<1>2. NoMemory /\ RootInv /\ TablesKeyed /\ References /\ FileIdsFresh
  BY DEF Init, NoMemory, RootInv, RootIdsAgree, RootsInSync, RootIdsFresh, RootDirsKeyed,
         Keyed, TablesKeyed, References, FileIdsFresh
<1>3. CacheCoherent
  BY EmptyCache DEF Init, CacheCoherent
<1> QED
  BY <1>1, <1>2, <1>3 DEF IInv

THEOREM Invariance == Spec => []IInv
<1>1. IInv /\ [Next]_vars => IInv'
  BY TypeStep, RootStep, TablesStep, CacheStep DEF IInv
<1> QED
  BY InvInit, <1>1, PTL DEF Spec

\* Whatever fails and in whatever order the handlers run, a cached answer is the
\* answer the tables would give.
THEOREM CacheNeverStale == Spec => []CacheCoherent
BY Invariance, PTL DEF IInv

\* With a storage that works, memory and table hold the same directories.
THEOREM RootsStayInSync == Spec => []RootsInSync
BY Invariance, PTL DEF IInv, RootInv

\* A directory in memory never stands for the row of another directory, and the file
\* ids the process hands out are free.
THEOREM IdsStayApart == Spec => []IdsNeverClash
<1>1. IInv => IdsNeverClash
  BY DEF IInv, RootInv, IdsNeverClash
<1> QED BY <1>1, Invariance, PTL

\* Keys are unique, so are words and directories, and no row refers to one that is gone.
THEOREM TablesStaySound == Spec => []TablesSound
<1>1. IInv => TablesSound
  BY DEF IInv, TablesSound
<1> QED BY <1>1, Invariance, PTL

-----------------------------------------------------------------------------
(***************************************************************************)
(* The four tables implement the abstract index of module UserDb, and a    *)
(* row keeps its words.                                                    *)
(*                                                                         *)
(* Beside IInv the refinement needs to know that a row is the path of a    *)
(* file the callers have named, taken apart at its root (PathsKnown), and  *)
(* that it can be taken apart in one way only: that is what the            *)
(* directories not being nested is for.                                    *)
(***************************************************************************)

-----------------------------------------------------------------------------
(* Paths *)

\* A path taken apart at a directory and put together again is the same path.
LEMMA JoinRelative ==
  ASSUME NEW d \in Seq(Names), NEW p \in Seq(Names), IsParentOf(d, p)
  PROVE  Join(d, Relative(p, d)) = p /\ Relative(p, d) # <<>>
<1>1. /\ Len(d) <= Len(p) /\ SubSeq(d, 1, Len(d)) = SubSeq(p, 1, Len(d)) /\ d # p
      /\ Len(d) \in Nat /\ Len(p) \in Nat
  BY DEF IsParentOf, IsStrictPrefix, IsPrefix
<1>2. SubSeq(d, 1, Len(d)) = d /\ SubSeq(p, 1, Len(p)) = p
  OBVIOUS
<1>3. Len(d) # Len(p)
  BY <1>1, <1>2
<1>4. Len(Relative(p, d)) = Len(p) - Len(d)
  BY <1>1 DEF Relative
<1>5. Relative(p, d) # <<>>
  BY <1>1, <1>3, <1>4
<1>6. d \o SubSeq(p, Len(d) + 1, Len(p)) = p
  <2>1. d = SubSeq(p, 1, Len(d))
    BY <1>1, <1>2
  <2>2. \A i \in 1 .. Len(d) : d[i] = p[i]
    BY <2>1, <1>1
  <2>3. Relative(p, d) \in Seq(Names)
    BY RelativeType
  <2> DEFINE t == SubSeq(p, Len(d) + 1, Len(p))
  <2>4. Len(t) = Len(p) - Len(d) /\ \A i \in 1 .. Len(t) : t[i] = p[Len(d) + i]
    BY <1>1
  <2>5. t \in Seq(Names)
    BY <2>3 DEF Relative
  <2> HIDE DEF t
  <2>6. Len(d \o t) = Len(p) /\ d \o t \in Seq(Names)
    BY <2>4, <2>5, <1>1
  <2>7. \A i \in 1 .. Len(p) : (d \o t)[i] = p[i]
    BY <2>2, <2>4, <2>5, <1>1
  <2> QED BY <2>6, <2>7, SeqEqual DEF t
<1> QED BY <1>5, <1>6 DEF Join, Relative

\* A directory and a relative path put together are taken apart again.
LEMMA RelativeJoin ==
  ASSUME NEW d \in Seq(Names), NEW rel \in Seq(Names), rel # <<>>
  PROVE  IsParentOf(d, Join(d, rel)) /\ Relative(Join(d, rel), d) = rel
<1> DEFINE p == d \o rel
<1>1. /\ p \in Seq(Names) /\ Len(p) = Len(d) + Len(rel)
      /\ \A i \in 1 .. Len(d) : p[i] = d[i]
      /\ \A i \in 1 .. Len(rel) : p[Len(d) + i] = rel[i]
  OBVIOUS
<1>2. Len(rel) \in Nat \ {0} /\ Len(d) \in Nat
  OBVIOUS
<1> HIDE DEF p
<1>3. SubSeq(d, 1, Len(d)) = SubSeq(p, 1, Len(d))
  BY <1>1, <1>2
<1>4. SubSeq(p, Len(d) + 1, Len(p)) = rel
  <2> DEFINE t == SubSeq(p, Len(d) + 1, Len(p))
  <2>1. Len(t) = Len(rel) /\ \A i \in 1 .. Len(t) : t[i] = p[Len(d) + i]
    BY <1>1, <1>2
  <2>2. t \in Seq(Names)
    BY <1>1, <1>2, SubSeqProperties, ElementOfSeq
  <2> QED BY <1>1, <2>1, <2>2, SeqEqual
<1>5. d # p
  BY <1>1, <1>2
<1> QED BY <1>1, <1>2, <1>3, <1>4, <1>5 DEF Join, Relative, p, IsParentOf, IsStrictPrefix, IsPrefix

\* Two directories that a path lies in lie in one another.
LEMMA ParentsNest ==
  ASSUME NEW d \in Seq(Names), NEW e \in Seq(Names), NEW p \in Seq(Names),
         IsParentOf(d, p), IsParentOf(e, p), Len(d) <= Len(e)
  PROVE  d = e \/ IsParentOf(d, e)
<1>1. /\ Len(d) \in Nat /\ Len(e) \in Nat /\ Len(p) \in Nat /\ Len(e) <= Len(p)
      /\ SubSeq(d, 1, Len(d)) = SubSeq(p, 1, Len(d))
      /\ SubSeq(e, 1, Len(e)) = SubSeq(p, 1, Len(e))
  BY DEF IsParentOf, IsStrictPrefix, IsPrefix
<1>2. \A i \in 1 .. Len(d) : SubSeq(d, 1, Len(d))[i] = d[i] /\ SubSeq(p, 1, Len(d))[i] = p[i]
  BY <1>1
<1>3. \A i \in 1 .. Len(e) : SubSeq(e, 1, Len(e))[i] = e[i] /\ SubSeq(p, 1, Len(e))[i] = p[i]
  BY <1>1
<1>4. \A i \in 1 .. Len(d) : d[i] = e[i]
  BY <1>1, <1>2, <1>3
<1>5. SubSeq(d, 1, Len(d)) = SubSeq(e, 1, Len(d))
  BY <1>1, <1>4
<1> QED BY <1>1, <1>5 DEF IsParentOf, IsStrictPrefix, IsPrefix

-----------------------------------------------------------------------------
(* Rows keep their words *)

\* The words of a row depend on its mappings and on the words they name.
LEMMA WordsKept ==
  ASSUME IInv, NEW f, words \subseteq words',
         \A x \in words' \ words : x.id \notin Ids(words),
         \A w : [file |-> f.id, word |-> w] \in mappings' <=> [file |-> f.id, word |-> w] \in mappings
  PROVE  WordsOf(f)' = WordsOf(f)
<1>1. \A x \in words' : [file |-> f.id, word |-> x.id] \in mappings => x \in words
  <2> SUFFICES ASSUME NEW x \in words', [file |-> f.id, word |-> x.id] \in mappings
               PROVE  x \in words
    OBVIOUS
  <2>1. x.id \in Ids(words)
    BY DEF IInv, References
  <2> QED BY <2>1
<1> QED BY <1>1 DEF WordsOf

\* What update_file() leaves in the tables when it succeeds.
Replaced(r, p, W) ==
  LET rel == Relative(p, r.dir)
      old == OldRows(r, rel)
      new == [id |-> filesId, root |-> r.id, path |-> rel]
  IN  /\ r.id \in Ids(roots)
      /\ Clash(W) = {}
      /\ files' = (files \ old) \cup {new}
      /\ words' = words \cup NewWords(W)
      /\ mappings' = {m \in mappings : m.file \notin Ids(old)}
           \cup {[file |-> filesId, word |-> x.id] : x \in {y \in words' : y.word \in W}}
      /\ UNCHANGED roots

\* update_file() does all it has to, or leaves the tables alone.
LEMMA AllOrNothing ==
  ASSUME NEW p \in Files, NEW r \in Owners(p), NEW W \in SUBSET Words, Reindex(r, p, W)
  PROVE  Replaced(r, p, W) \/ UNCHANGED tables
BY DEF Reindex, Replaced, tables

\* The rows that stay keep their words through an update.
LEMMA ReplacedKeeps ==
  ASSUME IInv, up, NEW r, NEW p, NEW W \in SUBSET Words, Replaced(r, p, W),
         NEW f \in files, f \notin OldRows(r, Relative(p, r.dir))
  PROVE  WordsOf(f)' = WordsOf(f)
<1> DEFINE old == OldRows(r, Relative(p, r.dir))
<1>1. TypeOK /\ TablesKeyed /\ References /\ FileIdsFresh
  BY DEF IInv
<1>2. f.id \notin Ids(old)
  BY <1>1 DEF Ids, OldRows, TablesKeyed, Keyed
<1>3. f.id # filesId
  BY <1>1 DEF FileIdsFresh, TypeOK
<1>4. \A x \in words' \ words : x.id \notin Ids(words)
  BY <1>1, NoClash DEF Replaced
<1>5. \A w : [file |-> f.id, word |-> w] \in mappings' <=> [file |-> f.id, word |-> w] \in mappings
  BY <1>2, <1>3 DEF Replaced
<1> QED BY <1>4, <1>5, WordsKept DEF Replaced

\* So do the rows that stay when others are deleted.
LEMMA DeleteKeeps ==
  ASSUME IInv, NEW gone \in SUBSET files, Delete(gone), UNCHANGED words, NEW f \in files \ gone
  PROVE  WordsOf(f)' = WordsOf(f)
<1>1. f.id \notin Ids(gone)
  BY DEF IInv, TablesKeyed, Keyed, Ids
<1>2. \A w : [file |-> f.id, word |-> w] \in mappings' <=> [file |-> f.id, word |-> w] \in mappings
  BY <1>1 DEF Delete
<1> QED BY <1>2, WordsKept

\* A row that is there before and after a step of a running process has the same words.
LEMMA RowsStep ==
  ASSUME IInv, [Next]_vars, up, up'
  PROVE  \A f \in files : \A g \in files' : f.id = g.id => WordsOf(f) = WordsOf(g)'
<1> SUFFICES ASSUME NEW f \in files, NEW g \in files', f.id = g.id
             PROVE  WordsOf(f) = WordsOf(g)'
  OBVIOUS
<1>0. TypeOK /\ TablesKeyed /\ References /\ FileIdsFresh
  BY DEF IInv
<1>a. \A h : h \in files /\ h.id = g.id => h = f
  BY <1>0 DEF TablesKeyed, Keyed
<1>b. WordsOf(g)' = WordsOf(f)'
  BY DEF WordsOf
<1>c. ASSUME UNCHANGED <<words, mappings>>
      PROVE  WordsOf(f) = WordsOf(g)'
  BY <1>c, <1>b, WordsKept
<1>d. ASSUME NEW gone \in SUBSET files, Delete(gone), UNCHANGED words
      PROVE  WordsOf(f) = WordsOf(g)'
  <2>1. f \in files \ gone
    BY <1>a, <1>d DEF Delete
  <2> QED BY <1>b, <1>d, <2>1, DeleteKeeps
<1>1. ASSUME NEW D \in SUBSET Dirs, Start(D)
      PROVE  FALSE
  BY <1>1 DEF Start
<1>2. CASE Stop
  BY <1>2 DEF Stop
<1>3. ASSUME NEW dir \in Dirs, AddRootDir(dir)
      PROVE  WordsOf(f) = WordsOf(g)'
  BY <1>3, <1>c DEF AddRootDir
<1>4. ASSUME NEW dir \in Dirs, RemoveRootDir(dir)
      PROVE  WordsOf(f) = WordsOf(g)'
  BY <1>4, <1>c, <1>d DEF RemoveRootDir, Orphans
<1>5. ASSUME NEW p \in Files, NEW W \in SUBSET Words, UpdateFile(p, W)
      PROVE  WordsOf(f) = WordsOf(g)'
  <2>1. CASE UNCHANGED tables
    BY <1>c, <2>1 DEF tables
  <2>2. ASSUME NEW r \in Owners(p), Replaced(r, p, W)
        PROVE  WordsOf(f) = WordsOf(g)'
    <3>1. f.id # filesId
      BY <1>0 DEF FileIdsFresh, TypeOK
    <3>2. f \notin OldRows(r, Relative(p, r.dir))
      BY <1>a, <2>2, <3>1 DEF Replaced
    <3> QED BY <1>b, <2>2, <3>2, ReplacedKeeps
  <2> QED BY <1>5, <2>1, <2>2, AllOrNothing DEF UpdateFile, Rollback, tables
<1>6. ASSUME NEW p \in Files, RemoveFile(p)
      PROVE  WordsOf(f) = WordsOf(g)'
  <2>1. CASE UNCHANGED <<files, mappings>>
    BY <1>6, <1>c, <2>1 DEF RemoveFile
  <2>2. ASSUME NEW r \in Owners(p), Delete({h \in files : h.path = Relative(p, r.dir)})
        PROVE  WordsOf(f) = WordsOf(g)'
    BY <1>6, <1>d, <2>2 DEF RemoveFile
  <2> QED BY <1>6, <2>1, <2>2 DEF RemoveFile
<1>7. ASSUME NEW p \in Files, NEW q \in Files, MoveFile(p, q)
      PROVE  WordsOf(f) = WordsOf(g)'
  BY <1>7, <1>c DEF MoveFile
<1>8. ASSUME NEW query \in Queries, Search(query)
      PROVE  WordsOf(f) = WordsOf(g)'
  BY <1>8, <1>c DEF Search, tables
<1>9. CASE UNCHANGED vars
  BY <1>9, <1>c DEF vars, tables
<1> QED BY <1>1, <1>2, <1>3, <1>4, <1>5, <1>6, <1>7, <1>8, <1>9 DEF Next

\* As long as a row is there its words are those it was made with, through updates of
\* other files, moves, cascades and failed commits, although ids of words are handed out
\* in several processes.
THEOREM WordsStayWithTheirRow == Spec => RowKeepsItsWords
<1>1. IInv /\ [Next]_vars =>
        [up /\ up' => \A f \in files, g \in files' : f.id = g.id => WordsOf(f) = WordsOf(g)']_vars
  BY RowsStep
<1> QED BY <1>1, Invariance, PTL DEF Spec, RowKeepsItsWords

-----------------------------------------------------------------------------
(* The documents the tables stand for *)

\* No directory the user may configure lies in another (normalize_root_dirs(), config.cpp,
\* keeps the outermost ones).
DirsDisjoint == \A d, e \in Dirs : ~IsParentOf(d, e)

\* Every row is a file the callers named, with its root taken off.
PathsKnown ==
  \A r \in roots, f \in files :
    r.id = f.root => f.path # <<>> /\ Join(r.dir, f.path) \in Files

Doc(r, f) == [path |-> Join(r.dir, f.path), words |-> WordsOf(f)]

LEMMA InIndex ==
  \A x : x \in Index <=> \E r \in roots, f \in files : r.id = f.root /\ x = Doc(r, f)
<1>1. \A rf \in Joined : /\ rf[1] \in roots /\ rf[2] \in files /\ rf[1].id = rf[2].root
                         /\ [path |-> PathOf(rf), words |-> WordsOf(rf[2])] = Doc(rf[1], rf[2])
  BY DEF Joined, PathOf, Doc
<1>2. ASSUME NEW r \in roots, NEW f \in files, r.id = f.root
      PROVE  Doc(r, f) \in Index
  <2>1. <<r, f>> \in Joined
    BY <1>2 DEF Joined
  <2>2. Doc(r, f) = [path |-> PathOf(<<r, f>>), words |-> WordsOf(<<r, f>>[2])]
    BY DEF Doc, PathOf
  <2> QED BY <2>1, <2>2 DEF Index
<1>3. ASSUME NEW x \in Index
      PROVE  \E r \in roots, f \in files : r.id = f.root /\ x = Doc(r, f)
  <2>1. PICK rf \in Joined : x = [path |-> PathOf(rf), words |-> WordsOf(rf[2])]
    BY DEF Index
  <2> QED BY <1>1, <2>1
<1> QED BY <1>2, <1>3

LEMMA InIndexNext ==
  (\A x : x \in Index <=> \E r \in roots, f \in files : r.id = f.root /\ x = Doc(r, f))'
BY InIndex, PTL

\* A path lies in one of the directories at most.
LEMMA OneParent ==
  ASSUME DirsDisjoint, NEW d \in Dirs, NEW e \in Dirs, NEW p \in Seq(Names),
         IsParentOf(d, p), IsParentOf(e, p)
  PROVE  d = e
<1>1. d \in Seq(Names) /\ e \in Seq(Names) /\ ~IsParentOf(d, e) /\ ~IsParentOf(e, d)
  BY PathAssumption DEF DirsDisjoint
<1>2. Len(d) \in Nat /\ Len(e) \in Nat
  BY <1>1
<1>3. CASE Len(d) <= Len(e)
  BY <1>1, <1>3, ParentsNest
<1>4. CASE Len(e) <= Len(d)
  BY <1>1, <1>4, ParentsNest
<1> QED BY <1>2, <1>3, <1>4

\* A row's path lies in the directory of its root, and in no other.
LEMMA Placed ==
  ASSUME DirsDisjoint, TypeOK, PathsKnown, NEW r \in roots, NEW f \in files, r.id = f.root
  PROVE  /\ Doc(r, f).path \in Files
         /\ IsParentOf(r.dir, Doc(r, f).path)
         /\ Relative(Doc(r, f).path, r.dir) = f.path
         /\ \A d \in Dirs : IsParentOf(d, Doc(r, f).path) => d = r.dir
<1> DEFINE p == Join(r.dir, f.path)
<1>1. /\ r.dir \in Dirs /\ r.dir \in Seq(Names)
      /\ f.path \in Seq(Names) /\ f.path # <<>> /\ p \in Files /\ p \in Seq(Names)
      /\ Doc(r, f).path = p
  BY PathAssumption DEF TypeOK, PathsKnown, Doc
<1>2. IsParentOf(r.dir, p) /\ Relative(p, r.dir) = f.path
  BY <1>1, RelativeJoin
<1> HIDE DEF p
<1>3. ASSUME NEW d \in Dirs, IsParentOf(d, p)
      PROVE  d = r.dir
  BY <1>1, <1>2, <1>3, OneParent
<1> QED BY <1>1, <1>2, <1>3

\* With or without the documents of the step, the same tables are the same index.
LEMMA SameIndex ==
  ASSUME UNCHANGED tables
  PROVE  UNCHANGED Index
BY DEF tables, Index, Joined, PathOf, WordsOf

\* Deleting the rows of some paths takes the documents at these paths out of the index,
\* and no other.
LEMMA DeleteDocs ==
  ASSUME IInv, NEW gone \in SUBSET files, Delete(gone), UNCHANGED words, roots' \subseteq roots,
         \A f \in files \ gone : f.root \in Ids(roots'),
         NEW S, \A r \in roots, f \in files : r.id = f.root => (f \in gone <=> Doc(r, f).path \in S)
  PROVE  Index' = {x \in Index : x.path \notin S}
<1>0. TablesKeyed /\ files' = files \ gone
  BY DEF IInv, Delete
<1>1. \A r, f : f \in files \ gone => Doc(r, f)' = Doc(r, f)
  BY DeleteKeeps DEF Doc
<1>2. ASSUME NEW x \in Index'
      PROVE  x \in Index /\ x.path \notin S
  <2>1. PICK r \in roots', f \in files' : r.id = f.root /\ x = Doc(r, f)'
    BY InIndexNext
  <2>2. r \in roots /\ f \in files /\ f \notin gone /\ x = Doc(r, f)
    BY <1>0, <1>1, <2>1
  <2> QED BY <2>1, <2>2, InIndex
<1>3. ASSUME NEW x \in Index, x.path \notin S
      PROVE  x \in Index'
  <2>1. PICK r \in roots, f \in files : r.id = f.root /\ x = Doc(r, f)
    BY InIndex
  <2>2. f \in files \ gone /\ x = Doc(r, f)'
    BY <1>1, <1>3, <2>1
  <2>3. r \in roots'
    BY <1>0, <2>1, <2>2 DEF Ids, TablesKeyed, Keyed
  <2> QED BY <1>0, <2>1, <2>2, <2>3, InIndexNext
<1> QED BY <1>2, <1>3

\* A root in memory whose id is in the table is the directory of that row.
LEMMA OwnRow ==
  ASSUME IInv, NEW r \in rootDirs, NEW s \in roots, s.id = r.id
  PROVE  s.dir = r.dir
BY DEF IInv, RootInv, RootIdsAgree

LEMMA OwnerType ==
  ASSUME TypeOK, NEW p \in Files, NEW r \in Owners(p)
  PROVE  /\ r \in rootDirs /\ r.dir \in Dirs /\ r.dir \in Seq(Names) /\ r.id \in Nat
         /\ p \in Seq(Names) /\ IsParentOf(r.dir, p)
BY PathAssumption DEF Owners, TypeOK

\* The index speaks of the same paths.
LEMMA SamePaths ==
  \A d, q : /\ Promise!IsParentOf(d, q) <=> IsParentOf(d, q)
            /\ Promise!Relative(q, d) = Relative(q, d)
BY DEF Promise!IsParentOf, IsParentOf, Promise!Relative, Relative, Promise!IsStrictPrefix,
       IsStrictPrefix, Promise!IsPrefix, IsPrefix

\* The rows remove_file() and move_file() hit are those of the twins of the file.
LEMMA HitsTwins ==
  ASSUME DirsDisjoint, TypeOK, PathsKnown, NEW p \in Files, NEW o \in Owners(p),
         NEW r \in roots, NEW f \in files, r.id = f.root
  PROVE  f.path = Relative(p, o.dir) <=> Doc(r, f).path \in Promise!Twins(p)
<1> DEFINE q == Doc(r, f).path
<1>1. /\ q \in Files /\ IsParentOf(r.dir, q) /\ Relative(q, r.dir) = f.path /\ r.dir \in Dirs
      /\ \A d \in Dirs : IsParentOf(d, q) => d = r.dir
  BY Placed DEF TypeOK
<1>2. o.dir \in Dirs /\ p \in Seq(Names) /\ IsParentOf(o.dir, p)
  BY OwnerType
<1>3. \A d \in Dirs : IsParentOf(d, p) => d = o.dir
  BY <1>2, OneParent
<1> HIDE DEF q
<1>4. q \in Promise!Twins(p) <=>
        \E d, e \in Dirs : IsParentOf(d, p) /\ IsParentOf(e, q) /\ Relative(p, d) = Relative(q, e)
  BY <1>1, SamePaths DEF Promise!Twins
<1> QED BY <1>1, <1>2, <1>3, <1>4 DEF q

LEMMA RemoveRootRefines ==
  ASSUME DirsDisjoint, IInv, PathsKnown, NEW dir \in Dirs, RemoveRootDir(dir)
  PROVE  PathsKnown' /\ (UNCHANGED Index \/ Promise!DropDir(dir))
<1>0. TypeOK /\ TablesKeyed /\ References
  BY DEF IInv
<1>1. CASE UNCHANGED <<roots, files, mappings>>
  BY <1>1, SameIndex DEF RemoveRootDir, tables, PathsKnown
<1> DEFINE gone == {r \in roots : r.dir = dir}
           S    == {p \in Files : IsParentOf(dir, p)}
<1>2. CASE roots' = roots \ gone /\ Delete(Orphans(gone))
  <2>1. UNCHANGED words
    BY DEF RemoveRootDir
  <2>2. \A f \in files \ Orphans(gone) : f.root \in Ids(roots')
    BY <1>0, <1>2 DEF References, Ids, Orphans
  <2>3. ASSUME NEW r \in roots, NEW f \in files, r.id = f.root
        PROVE  f \in Orphans(gone) <=> Doc(r, f).path \in S
    <3>1. f \in Orphans(gone) <=> r.dir = dir
      BY <1>0, <2>3 DEF Orphans, Ids, TablesKeyed, Keyed
    <3>2. Doc(r, f).path \in S <=> dir = r.dir
      BY <1>0, <2>3, Placed
    <3> QED BY <3>1, <3>2
  <2>4. Index' = {x \in Index : x.path \notin S}
    BY <1>2, <2>1, <2>2, <2>3, DeleteDocs DEF Orphans
  <2>5. \A x \in Index : x.path \in Files
    BY <1>0, InIndex, Placed
  <2>6. Promise!DropDir(dir)
    BY <2>4, <2>5, SamePaths DEF Promise!DropDir
  <2> QED BY <1>2, <2>6 DEF PathsKnown, Delete
<1> QED BY <1>1, <1>2 DEF RemoveRootDir

LEMMA RemoveFileRefines ==
  ASSUME DirsDisjoint, IInv, PathsKnown, NEW p \in Files, RemoveFile(p)
  PROVE  PathsKnown' /\ (UNCHANGED Index \/ Promise!Drop(p))
<1>0. TypeOK /\ References /\ UNCHANGED <<roots, words>>
  BY DEF IInv, RemoveFile
<1>1. CASE UNCHANGED <<files, mappings>>
  BY <1>0, <1>1, SameIndex DEF tables, PathsKnown
<1>2. ASSUME NEW o \in Owners(p), Delete({f \in files : f.path = Relative(p, o.dir)})
      PROVE  PathsKnown' /\ Promise!Drop(p)
  <2> DEFINE gone == {f \in files : f.path = Relative(p, o.dir)}
  <2>1. \A r \in roots, f \in files : r.id = f.root => (f \in gone <=> Doc(r, f).path \in Promise!Twins(p))
    BY <1>0, HitsTwins
  <2>2. \A f \in files \ gone : f.root \in Ids(roots')
    BY <1>0 DEF References
  <2>3. Index' = {x \in Index : x.path \notin Promise!Twins(p)}
    BY <1>0, <1>2, <2>1, <2>2, DeleteDocs
  <2> QED BY <1>0, <1>2, <2>3 DEF Promise!Drop, PathsKnown, Delete
<1> QED BY <1>1, <1>2 DEF RemoveFile

\* The words of the row update_file() adds are those of the file.
LEMMA NewRowsWords ==
  ASSUME IInv, up, NEW r, NEW p, NEW W \in SUBSET Words, Replaced(r, p, W), NEW f, f.id = filesId
  PROVE  WordsOf(f)' = W
<1>0. TypeOK /\ References /\ FileIdsFresh /\ TablesKeyed
  BY DEF IInv
<1>1. filesId \notin Ids(files)
  BY <1>0 DEF FileIdsFresh, TypeOK, Ids
<1>2. \A m \in mappings : m.file # filesId
  BY <1>0, <1>1 DEF References
<1>3. \A x \in NewWords(W) : x.id \notin Ids(words)
  BY <1>0, NoClash DEF Replaced
<1>4. \A x, y \in words' : x.id = y.id => x = y
  BY <1>0, <1>3, NewWordsKeyed DEF Replaced, TablesKeyed, Keyed, Ids
<1>5. \A x \in words' : [file |-> f.id, word |-> x.id] \in mappings' <=> x.word \in W
  <2> TAKE x \in words'
  <2>1. [file |-> f.id, word |-> x.id] \in mappings' <=>
          \E y \in words' : y.word \in W /\ y.id = x.id
    BY <1>2 DEF Replaced
  <2> QED BY <1>4, <2>1
<1>6. ASSUME NEW w \in W
      PROVE  \E x \in words' : x.word = w
  <2>1. CASE w \in {x.word : x \in words}
    BY <2>1 DEF Replaced
  <2>2. CASE w \notin {x.word : x \in words}
    <3> DEFINE x == [id |-> WordId(W, w), word |-> w]
    <3>1. x \in NewWords(W)
      BY <2>2 DEF NewWords, Unknown
    <3> QED BY <3>1 DEF Replaced
  <2> QED BY <2>1, <2>2
<1> QED BY <1>5, <1>6 DEF WordsOf

LEMMA UpdateFileRefines ==
  ASSUME DirsDisjoint, IInv, PathsKnown, NEW p \in Files, NEW W \in SUBSET Words, UpdateFile(p, W)
  PROVE  PathsKnown' /\ (UNCHANGED Index \/ Promise!Put(p, W))
<1>0. TypeOK /\ TablesKeyed /\ FileIdsFresh /\ up
  BY DEF IInv, UpdateFile
<1>1. CASE UNCHANGED tables
  BY <1>1, SameIndex DEF PathsKnown, tables
<1>2. ASSUME NEW o \in Owners(p), Replaced(o, p, W)
      PROVE  PathsKnown' /\ Promise!Put(p, W)
  <2> DEFINE rel == Relative(p, o.dir)
             old == OldRows(o, rel)
             doc == [path |-> p, words |-> W]
  <2>a. PICK new : new = [id |-> filesId, root |-> o.id, path |-> rel]
    OBVIOUS
  <2>0. o \in rootDirs /\ IsParentOf(o.dir, p) /\ o.dir \in Dirs /\ p \in Seq(Names)
    BY <1>0, OwnerType
  <2>1. PICK s \in roots : s.id = o.id
    BY <1>2 DEF Replaced, Ids
  <2>2. s.dir = o.dir /\ \A r \in roots : r.id = o.id => r = s
    BY <1>0, <2>0, <2>1, OwnRow DEF TablesKeyed, Keyed
  <2>3. Join(o.dir, rel) = p /\ rel # <<>>
    BY <2>0, JoinRelative, PathAssumption
  <2>4. roots' = roots /\ files' = (files \ old) \cup {new}
    BY <1>2, <2>a DEF Replaced
  <2>5. Doc(s, new)' = doc
    <3>1. Doc(s, new)' = [path |-> Join(s.dir, new.path), words |-> WordsOf(new)']
      BY DEF Doc
    <3>2. WordsOf(new)' = W
      BY <1>0, <1>2, <2>a, NewRowsWords
    <3>3. new.path = rel
      BY <2>a
    <3> QED BY <2>2, <2>3, <3>1, <3>2, <3>3
  <2>6. \A r, f : f \in files \ old => Doc(r, f)' = Doc(r, f)
    BY <1>0, <1>2, ReplacedKeeps DEF Doc
  <2>7. ASSUME NEW r \in roots, NEW f \in files, r.id = f.root
        PROVE  Doc(r, f).path = p <=> f \in old
    <3>1. /\ IsParentOf(r.dir, Doc(r, f).path) /\ Relative(Doc(r, f).path, r.dir) = f.path
          /\ \A d \in Dirs : IsParentOf(d, Doc(r, f).path) => d = r.dir
      BY <1>0, <2>7, Placed
    <3>2. ASSUME Doc(r, f).path = p
          PROVE  f \in old
      <4>1. r.dir = o.dir
        BY <2>0, <3>1, <3>2
      <4>2. r = s
        BY <1>0, <2>2, <4>1 DEF TablesKeyed
      <4> QED BY <2>1, <2>7, <3>1, <3>2, <4>1, <4>2 DEF OldRows
    <3>3. ASSUME f \in old
          PROVE  Doc(r, f).path = p
      BY <2>2, <2>3, <2>7, <3>3 DEF OldRows, Doc
    <3> QED BY <3>2, <3>3
  <2> HIDE DEF rel, old, doc
  <2>8. new.root = o.id /\ new.path = rel
    BY <2>a
  <2>9. Index' = {x \in Index : x.path # p} \cup {doc}
    <3>1. ASSUME NEW x \in Index'
          PROVE  x = doc \/ (x \in Index /\ x.path # p)
      <4>1. PICK r \in roots', f \in files' : r.id = f.root /\ x = Doc(r, f)'
        BY InIndexNext
      <4>2. CASE f = new
        BY <2>2, <2>4, <2>5, <2>8, <4>1, <4>2
      <4>3. CASE f \in files \ old
        BY <2>4, <2>6, <2>7, <4>1, <4>3, InIndex
      <4> QED BY <2>4, <4>2, <4>3
    <3>2. ASSUME NEW x \in Index, x.path # p
          PROVE  x \in Index'
      <4>1. PICK r \in roots, f \in files : r.id = f.root /\ x = Doc(r, f)
        BY InIndex
      <4> QED BY <2>4, <2>6, <2>7, <3>2, <4>1, InIndexNext
    <3>3. doc \in Index'
      <4>1. s \in roots' /\ new \in files' /\ s.id = new.root
        BY <2>1, <2>4, <2>8
      <4> QED BY <2>5, <4>1, InIndexNext
    <3> QED BY <3>1, <3>2, <3>3
  <2>10. PathsKnown'
    BY <2>2, <2>3, <2>4, <2>8 DEF PathsKnown
  <2> QED BY <2>9, <2>10 DEF doc, Promise!Put
<1> QED BY <1>1, <1>2, AllOrNothing DEF UpdateFile, Rollback, tables

LEMMA MoveFileRefines ==
  ASSUME DirsDisjoint, IInv, PathsKnown, NEW p \in Files, NEW q \in Files, MoveFile(p, q)
  PROVE  PathsKnown' /\ (UNCHANGED Index \/ Promise!Move(p, q))
<1>0. TypeOK /\ TablesKeyed /\ UNCHANGED <<roots, words, mappings>>
  BY DEF IInv, MoveFile
<1>1. CASE files' = files
  BY <1>0, <1>1, SameIndex DEF PathsKnown, tables
<1>2. ASSUME NEW o \in Owners(p), NEW s \in Owners(q),
             LET moved(f) == [f EXCEPT !.root = s.id, !.path = Relative(q, s.dir)]
                 hit      == {f \in files : f.path = Relative(p, o.dir)}
             IN  /\ hit # {} => s.id \in Ids(roots)
                 /\ files' = (files \ hit) \cup {moved(f) : f \in hit}
      PROVE  PathsKnown' /\ Promise!Move(p, q)
  <2> DEFINE rel == Relative(q, s.dir)
             moved(f) == [f EXCEPT !.root = s.id, !.path = rel]
             hit      == {f \in files : f.path = Relative(p, o.dir)}
             T        == Promise!Twins(p)
  <2>0. s \in rootDirs /\ IsParentOf(s.dir, q) /\ s.dir \in Seq(Names) /\ q \in Seq(Names)
    BY <1>0, OwnerType
  <2>1. Join(s.dir, rel) = q /\ rel # <<>>
    BY <2>0, JoinRelative
  <2>2. \A f \in files : f \in [id : Nat, root : Nat, path : Seq(Names)]
    BY <1>0 DEF TypeOK
  <2>3. \A f \in hit : moved(f).id = f.id /\ moved(f).root = s.id /\ moved(f).path = rel
    BY <2>2
  <2>4. files' = (files \ hit) \cup {moved(f) : f \in hit} /\ (hit # {} => s.id \in Ids(roots))
    BY <1>2
  <2>5. \A r \in roots, f \in files : r.id = f.root => (f \in hit <=> Doc(r, f).path \in T)
    BY <1>0, HitsTwins
  <2>6. \A f : WordsOf(f)' = WordsOf(f)
    BY <1>0 DEF WordsOf
  <2>7. \A r, f : Doc(r, f)' = Doc(r, f)
    BY <2>6 DEF Doc
  <2>8. \A r \in roots : r.id = s.id => r.dir = s.dir
    BY <2>0, OwnRow
  <2>9. \A r \in roots : \A f \in hit :
          r.id = s.id => Doc(r, moved(f)) = [path |-> q, words |-> Doc(r, f).words]
    BY <2>1, <2>3, <2>8 DEF Doc, WordsOf
  <2>10. \A r, t, f : Doc(r, f).words = Doc(t, f).words
    BY DEF Doc
  <2>11. hit \subseteq files
    OBVIOUS
  <2> HIDE DEF rel, moved, hit, T
  <2>12. ASSUME NEW x \in Index'
         PROVE  \/ x \in Index /\ x.path \notin T
                \/ \E y \in Index : y.path \in T /\ x = [path |-> q, words |-> y.words]
    <3>1. PICK r \in roots, g \in files' : r.id = g.root /\ x = Doc(r, g)
      BY <1>0, <2>7, InIndexNext
    <3>2. CASE g \in files \ hit
      BY <2>5, <3>1, <3>2, InIndex
    <3>3. ASSUME NEW f \in hit, g = moved(f)
          PROVE  \E y \in Index : y.path \in T /\ x = [path |-> q, words |-> y.words]
      <4>1. PICK t \in roots : t.id = f.root
        BY <2>11 DEF IInv, References, Ids
      <4>2. Doc(t, f) \in Index /\ Doc(t, f).path \in T
        BY <2>5, <2>11, <4>1, InIndex
      <4>3. x = [path |-> q, words |-> Doc(t, f).words]
        BY <2>3, <2>9, <2>10, <3>1, <3>3
      <4> QED BY <4>2, <4>3
    <3> QED BY <2>4, <3>1, <3>2, <3>3
  <2>13. ASSUME NEW x \in Index, x.path \notin T
         PROVE  x \in Index'
    <3>1. PICK r \in roots, f \in files : r.id = f.root /\ x = Doc(r, f)
      BY InIndex
    <3> QED BY <1>0, <2>4, <2>5, <2>7, <2>13, <3>1, InIndexNext
  <2>14. ASSUME NEW y \in Index, y.path \in T
         PROVE  [path |-> q, words |-> y.words] \in Index'
    <3>1. PICK t \in roots, f \in files : t.id = f.root /\ y = Doc(t, f)
      BY InIndex
    <3>2. f \in hit
      BY <2>5, <2>14, <3>1
    <3>3. PICK r \in roots : r.id = s.id
      BY <2>4, <3>2 DEF Ids
    <3>4. moved(f) \in files' /\ moved(f).root = r.id
      BY <2>3, <2>4, <3>2, <3>3
    <3>5. Doc(r, moved(f))' = [path |-> q, words |-> y.words]
      BY <2>7, <2>9, <2>10, <3>1, <3>2, <3>3
    <3> QED BY <1>0, <3>4, <3>5, InIndexNext
  <2>15. Index' = {x \in Index : x.path \notin T}
                    \cup {[path |-> q, words |-> x.words] : x \in {y \in Index : y.path \in T}}
    BY <2>12, <2>13, <2>14
  <2>16. PathsKnown'
    <3>1. ASSUME NEW r \in roots, NEW g \in files', r.id = g.root
          PROVE  g.path # <<>> /\ Join(r.dir, g.path) \in Files
      BY <2>1, <2>3, <2>4, <2>8, <3>1 DEF PathsKnown
    <3> QED BY <1>0, <3>1 DEF PathsKnown
  <2> QED BY <2>15, <2>16 DEF T, Promise!Move
<1> QED BY <1>1, <1>2 DEF MoveFile

LEMMA AddRootRefines ==
  ASSUME IInv, PathsKnown, NEW dir \in Dirs, AddRootDir(dir)
  PROVE  PathsKnown' /\ UNCHANGED Index
<1>1. UNCHANGED <<files, words, mappings>>
  BY DEF AddRootDir
<1>2. \A f \in files : f.root \in Ids(roots)
  BY DEF IInv, References
<1>3. roots \subseteq roots' /\ \A r \in roots' \ roots : r.id \notin Ids(roots)
  BY DEF AddRootDir, InsertRoot, RootConflict
<1>4. \A r \in roots' : \A f \in files : r.id = f.root => r \in roots
  BY <1>2, <1>3
<1>5. Joined' = Joined
  BY <1>1, <1>3, <1>4 DEF Joined
<1>6. \A f : WordsOf(f)' = WordsOf(f)
  BY <1>1 DEF WordsOf
<1> QED BY <1>1, <1>4, <1>5, <1>6 DEF Index, PathOf, PathsKnown

LEMMA StartRefines ==
  ASSUME IInv, NEW D \in SUBSET Dirs, Start(D)
  PROVE  PathsKnown' /\ Promise!Reset
<1>1. files' = {}
  BY DEF IInv, References, Orphans, Start, Delete
<1>2. Index' = {}
  BY <1>1, InIndexNext
<1> QED BY <1>1, <1>2 DEF PathsKnown, Promise!Reset

-----------------------------------------------------------------------------
(* The refinement *)

LEMMA StepRefines ==
  ASSUME DirsDisjoint, IInv, PathsKnown, [Next]_vars
  PROVE  PathsKnown' /\ [Promise!Next]_Index
<1> DEFINE Goal == PathsKnown' /\ [Promise!Next]_Index
<1>1. ASSUME NEW D \in SUBSET Dirs, Start(D)
      PROVE  Goal
  BY <1>1, StartRefines DEF Promise!Next
<1>2. ASSUME UNCHANGED tables
      PROVE  Goal
  BY <1>2, SameIndex DEF PathsKnown, tables
<1>3. ASSUME NEW dir \in Dirs, AddRootDir(dir)
      PROVE  Goal
  BY <1>3, AddRootRefines
<1>4. ASSUME NEW dir \in Dirs, RemoveRootDir(dir)
      PROVE  Goal
  BY <1>4, RemoveRootRefines DEF Promise!Next
<1>5. ASSUME NEW p \in Files, NEW W \in SUBSET Words, UpdateFile(p, W)
      PROVE  Goal
  BY <1>5, UpdateFileRefines DEF Promise!Next
<1>6. ASSUME NEW p \in Files, RemoveFile(p)
      PROVE  Goal
  BY <1>6, RemoveFileRefines DEF Promise!Next
<1>7. ASSUME NEW p \in Files, NEW q \in Files, MoveFile(p, q)
      PROVE  Goal
  BY <1>7, MoveFileRefines DEF Promise!Next
<1>8. ASSUME NEW query \in Queries, Search(query)
      PROVE  Goal
  BY <1>2, <1>8 DEF Search
<1> QED BY <1>1, <1>2, <1>3, <1>4, <1>5, <1>6, <1>7, <1>8 DEF Next, Stop, vars

\* Every row is a file that scanner or watcher named, so search() returns no path
\* they did not name.
THEOREM PathsStayKnown == ASSUME DirsDisjoint PROVE Spec => []PathsKnown
<1>1. Init => PathsKnown
  BY DEF Init, PathsKnown
<1>2. IInv /\ PathsKnown /\ [Next]_vars => PathsKnown'
  BY StepRefines
<1> QED BY <1>1, <1>2, Invariance, PTL DEF Spec

\* With directories that do not lie in one another, every handler puts, drops or moves
\* whole documents, or does nothing: the four tables implement the promise of UserDb.
THEOREM TablesImplementUserDb == ASSUME DirsDisjoint PROVE Spec => ImplementsUserDb
<1>1. Init => Promise!Init
  BY InIndex DEF Init, Promise!Init
<1>2. IInv /\ PathsKnown /\ [Next]_vars => [Promise!Next]_Index
  BY StepRefines
<1> QED BY <1>1, <1>2, Invariance, PathsStayKnown, PTL DEF Spec, ImplementsUserDb, Promise!Spec

=============================================================================
