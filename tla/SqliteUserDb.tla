---------------------------- MODULE SqliteUserDb ----------------------------
(***************************************************************************)
(* The search index of core/vca/sqlite_userdb.cpp: four tables in a SQLite *)
(* file, and the in-memory state of SqliteUserDb::Impl (the registered     *)
(* root directories, the three id counters, the cache of search results).  *)
(*                                                                         *)
(* The tables survive the process, the memory does not: Stop is any end of *)
(* the daemon, Start its next start, which calls create().  A transaction  *)
(* that fails (a busy file, a full disk, a constraint) is rolled back by   *)
(* the destructor of SQLite::Transaction, while what the handler did to    *)
(* its memory before the exception stays: that is what StorageFaults lets  *)
(* happen.  All the handlers run one at a time on the daemon's main thread *)
(* (every caller goes through CommandQueue), so each is one action.        *)
(*                                                                         *)
(* Left out: the fingerprint column (written, never read) and the time of  *)
(* the last update.                                                        *)
(***************************************************************************)
EXTENDS Paths, FiniteSets

CONSTANTS
  Names,          \* the components paths are made of
  Dirs,           \* the root directories the user may configure
  Files,          \* the absolute paths of the files seen by scanner and watcher
  Words,          \* the words files contain; numbers, for they are inserted in order
  Queries,        \* the searches: sequences of words, as the user typed them
  Like,           \* Like[t]: the words that contain the search term t
  CacheSize,      \* SearchCache::m_max_size, 32 in the code
  MaxRootId,      \* bounds of the model on the three counters
  MaxFileId,
  MaxWordId,
  StorageFaults   \* TRUE if a statement or a commit may fail

ASSUME PathAssumption  == /\ Dirs \subseteq Seq(Names)
                          /\ Files \subseteq Seq(Names)
ASSUME WordAssumption  == Words \subseteq Nat /\ IsFiniteSet(Words)
ASSUME QueryAssumption == /\ Queries \subseteq Seq(DOMAIN Like)
                          /\ Like \in [DOMAIN Like -> SUBSET Words]
ASSUME BoundAssumption == /\ CacheSize \in Nat \ {0}
                          /\ MaxRootId \in Nat
                          /\ MaxFileId \in Nat
                          /\ MaxWordId \in Nat
ASSUME FaultAssumption == StorageFaults \in BOOLEAN

VARIABLES
  roots,     \* table roots: [id, dir]
  files,     \* table files: [id, root, path], the path relative to the root
  words,     \* table words: [id, word]
  mappings,  \* table mappings: [file, word], ids of a file and of a word
  up,        \* the process runs
  rootDirs,  \* Impl::root_dirs: [id, dir]
  rootsId, filesId, wordsId,   \* the next ids
  cache      \* SearchCache, oldest entry first: [query, results]

tables == <<roots, files, words, mappings>>
memory == <<rootDirs, rootsId, filesId, wordsId, cache>>
vars   == <<tables, up, memory>>

Ids(table) == {row.id : row \in table}

-----------------------------------------------------------------------------
(* Reading the tables *)

\* The files some word of which contains the search term t.
Matching(t) ==
  {f \in files : \E m \in mappings, x \in words :
                    m.file = f.id /\ m.word = x.id /\ x.word \in Like[t]}

\* files JOIN roots ON roots.id = files.roots_id
Joined == {rf \in roots \X files : rf[1].id = rf[2].root}
PathOf(rf) == Join(rf[1].dir, rf[2].path)

\* What the SELECTs of search() return: a file is a result if it matches any
\* of the terms.
Found(query) ==
  {PathOf(rf) : rf \in {j \in Joined : \E i \in DOMAIN query : j[2] \in Matching(query[i])}}

-----------------------------------------------------------------------------
(* The search cache *)

\* FileContents::operator<.  It is no strict weak order: each of <<1, 2>> and
\* <<2, 1>> is less than the other.
Less(c, d) == \/ Len(c) < Len(d)
              \/ /\ Len(c) = Len(d)
                 /\ \E i \in DOMAIN c : c[i] < d[i]

Cached(query) == {e \in ToSet(cache) : e.query = query}

\* With two such keys in its tree, std::map::find may go past the key.
MayMiss(query) ==
  LET keys == {e.query : e \in ToSet(cache)} \cup {query}
  IN  \E c, d \in keys : Less(c, d) /\ Less(d, c)

\* Mutation: > for >= in the loop that makes room.
RoomForNone ==
  LET excess == IF Len(cache) > CacheSize THEN Len(cache) - CacheSize ELSE 0
  IN  SubSeq(cache, excess + 1, Len(cache))

\* The oldest entries make room for a new one.
Room ==
  LET excess == IF Len(cache) >= CacheSize THEN Len(cache) - CacheSize + 1 ELSE 0
  IN  SubSeq(cache, excess + 1, Len(cache))

\* SearchCache::insert: the new entry is the last, unless emplace() finds the key
\* after all.
Inserted(query, results) ==
  {Append(Room, [query |-> query, results |-> results])}
    \cup (IF Cached(query) # {} THEN {Room} ELSE {})

-----------------------------------------------------------------------------
(* Deleting with ON DELETE CASCADE, which "PRAGMA foreign_keys = ON" enables *)

\* The files that go with the rows gone of the table roots.
Orphans(gone) == {f \in files : f.root \in Ids(gone)}

\* Mutation: mappings has no foreign key.
DeleteFilesOnly(gone) == files' = files \ gone /\ mappings' = mappings

\* DELETE FROM files: the mappings go with the rows.
Delete(gone) ==
  /\ files' = files \ gone
  /\ mappings' = {m \in mappings : m.file \notin Ids(gone)}

-----------------------------------------------------------------------------
(* The process *)

Init ==
  /\ roots = {} /\ files = {} /\ words = {} /\ mappings = {}
  /\ up = FALSE
  /\ rootDirs = {} /\ rootsId = 0 /\ filesId = 0 /\ wordsId = 0
  /\ cache = <<>>

\* The constructor and create(D).  The words are kept, deleting the roots takes
\* the files and the mappings with it, and the ids of the roots follow the order
\* of the std::set D.  (If create() throws, main() ends and nothing changed.)
Start(D) ==
  /\ ~up
  /\ \E n \in 0 .. MaxRootId : \E id \in Bijection(D, 0 .. (n - 1)) :
       /\ roots' = {[id |-> id[d], dir |-> d] : d \in D}
       /\ rootsId' = n
  /\ Delete(Orphans(roots))
  /\ up' = TRUE
  /\ rootDirs' = roots'
  /\ UNCHANGED <<words, filesId, wordsId, cache>>

Stop ==
  /\ up
  /\ up' = FALSE
  /\ rootDirs' = {} /\ rootsId' = 0 /\ filesId' = 0 /\ wordsId' = 0
  /\ cache' = <<>>
  /\ UNCHANGED tables

-----------------------------------------------------------------------------
(* The root directories *)

\* The INSERT violates a constraint: the id is taken, or the directory is.
RootConflict(dir) == rootsId \in Ids(roots) \/ dir \in {r.dir : r \in roots}

\* Mutation: ++roots_id is missing.
InsertRootSameId(dir) ==
  LET new == [id |-> rootsId, dir |-> dir]
  IN  /\ ~RootConflict(dir)
      /\ rootDirs' = rootDirs \cup {new}
      /\ rootsId' = rootsId
      /\ roots' = roots \cup {new} \/ (StorageFaults /\ roots' = roots)

\* Mutation: root_dirs.emplace() is missing.
InsertRootInTable(dir) ==
  /\ ~RootConflict(dir)
  /\ rootDirs' = rootDirs
  /\ rootsId' = rootsId + 1
  /\ roots' = roots \cup {[id |-> rootsId, dir |-> dir]} \/ (StorageFaults /\ roots' = roots)

\* Impl::add_root_dir, whose memory stays changed when the later commit() throws.
InsertRoot(dir) ==
  LET new == [id |-> rootsId, dir |-> dir]
  IN  /\ ~RootConflict(dir)
      /\ rootDirs' = rootDirs \cup {new}
      /\ rootsId' = rootsId + 1
      /\ roots' = roots \cup {new} \/ (StorageFaults /\ roots' = roots)

AddRootDir(dir) ==
  /\ up
  /\ dir \notin {r.dir : r \in rootDirs}
  /\ rootsId < MaxRootId
  /\ cache' = <<>>
  /\ \/ InsertRoot(dir)
     \/ /\ StorageFaults \/ RootConflict(dir)
        /\ UNCHANGED <<roots, rootDirs, rootsId>>
  /\ UNCHANGED <<files, words, mappings, up, filesId, wordsId>>

\* DELETE FROM roots, ON DELETE CASCADE.
RemoveRootDir(dir) ==
  /\ up
  /\ dir \in {r.dir : r \in rootDirs}
  /\ cache' = <<>>
  /\ LET gone == {r \in roots : r.dir = dir}
     IN  \/ /\ rootDirs' = {r \in rootDirs : r.dir # dir}
            /\ roots' = roots \ gone
            /\ Delete(Orphans(gone))
         \/ /\ StorageFaults             \* the DELETE throws, or commit() does
            /\ rootDirs' \in {rootDirs, {r \in rootDirs : r.dir # dir}}
            /\ UNCHANGED <<roots, files, mappings>>
  /\ UNCHANGED <<words, up, rootsId, filesId, wordsId>>

-----------------------------------------------------------------------------
(* The files *)

\* Impl::relative: the first parent of p in the order of the std::map, in which
\* an ancestor comes before its descendants.
Owners(p) ==
  {r \in rootDirs : /\ IsParentOf(r.dir, p)
                    /\ \A s \in rootDirs : IsParentOf(s.dir, p) => Len(r.dir) <= Len(s.dir)}

\* A handler that throws before its transaction, or whose transaction fails.
Rollback == StorageFaults /\ UNCHANGED <<tables, filesId, wordsId>>

\* The word rows update_file adds for a file with the words W: in the order of
\* the words, each unknown one gets the next id.
Unknown(W)  == W \ {x.word : x \in words}
WordId(W, w) == wordsId + Cardinality({v \in Unknown(W) : v < w})
NewWords(W) == {[id |-> WordId(W, w), word |-> w] : w \in Unknown(W)}

\* Mutation: words.id is no PRIMARY KEY.
NoClashDetected(W) == {}

\* The first of them whose id is taken, if any: its INSERT throws.
Clash(W) ==
  {x \in NewWords(W) : /\ x.id \in Ids(words)
                       /\ \A y \in NewWords(W) : y.id \in Ids(words) => x.id <= y.id}

\* Mutation: the DELETE of update_file names no root, as that of remove_file.
OldRowsOfAnyRoot(r, rel) == {f \in files : f.path = rel}

\* What DELETE FROM files WHERE path = ? AND roots_id = ? hits.
OldRows(r, rel) == {f \in files : f.path = rel /\ f.root = r.id}

\* update_file() below its first DELETE: r owns the file, W are its words.
Reindex(r, p, W) ==
  LET rel  == Relative(p, r.dir)
      old  == OldRows(r, rel)
      new  == [id |-> filesId, root |-> r.id, path |-> rel]
      rejected == r.id \notin Ids(roots) \/ filesId \in Ids(files \ old)
  IN  \/ rejected /\ UNCHANGED <<tables, filesId, wordsId>>
      \/ /\ ~rejected
         /\ \E x \in Clash(W) : wordsId' = x.id + 1
         /\ UNCHANGED <<tables, filesId>>
      \/ /\ ~rejected
         /\ Clash(W) = {}
         /\ files' = (files \ old) \cup {new}
         /\ words' = words \cup NewWords(W)
         /\ mappings' = {m \in mappings : m.file \notin Ids(old)}
              \cup {[file |-> filesId, word |-> x.id] : x \in {y \in words' : y.word \in W}}
         /\ filesId' = filesId + 1
         /\ wordsId' = wordsId + Cardinality(Unknown(W))
         /\ UNCHANGED roots
      \/ /\ StorageFaults /\ ~rejected
         /\ wordsId' \in wordsId .. (wordsId + Cardinality(Unknown(W)))
         /\ \A x \in Clash(W) : wordsId' <= x.id
         /\ \/ filesId' = filesId
            \/ /\ filesId' = filesId + 1           \* only commit() is left
               /\ Clash(W) = {} /\ wordsId' = wordsId + Cardinality(Unknown(W))
         /\ UNCHANGED tables

UpdateFile(p, W) ==
  /\ up
  /\ filesId < MaxFileId
  /\ wordsId + Cardinality(Unknown(W)) <= MaxWordId
  /\ cache' = <<>>
  /\ \/ Owners(p) = {} /\ UNCHANGED <<tables, filesId, wordsId>>
     \/ Rollback
     \/ \E r \in Owners(p) : Reindex(r, p, W)
  /\ UNCHANGED <<up, rootDirs, rootsId>>

\* Mutation: remove_file() does not clear the cache.
RemoveFileKeepsCache(p) ==
  /\ up
  /\ \E r \in Owners(p) : Delete({f \in files : f.path = Relative(p, r.dir)})
  /\ UNCHANGED <<roots, words, up, rootDirs, rootsId, filesId, wordsId, cache>>

\* The DELETE names the relative path only, whatever the root.
RemoveFile(p) ==
  /\ up
  /\ cache' = <<>>
  /\ \/ Owners(p) = {} /\ UNCHANGED <<files, mappings>>
     \/ StorageFaults /\ UNCHANGED <<files, mappings>>
     \/ \E r \in Owners(p) : Delete({f \in files : f.path = Relative(p, r.dir)})
  /\ UNCHANGED <<roots, words, up, rootDirs, rootsId, filesId, wordsId>>

\* So does the UPDATE, which fails if it gives a row a root that has no row.
MoveFile(p, q) ==
  /\ up
  /\ cache' = <<>>
  /\ \/ (Owners(p) = {} \/ Owners(q) = {}) /\ files' = files
     \/ StorageFaults /\ files' = files
     \/ \E r \in Owners(p), s \in Owners(q) :
          LET moved(f) == [f EXCEPT !.root = s.id, !.path = Relative(q, s.dir)]
              hit      == {f \in files : f.path = Relative(p, r.dir)}
          IN  files' = IF hit # {} /\ s.id \notin Ids(roots)
                         THEN files
                         ELSE (files \ hit) \cup {moved(f) : f \in hit}
  /\ UNCHANGED <<roots, words, mappings, up, rootDirs, rootsId, filesId, wordsId>>

\* A hit answers from the cache and leaves it as it is.
Search(query) ==
  /\ up
  /\ \/ Cached(query) # {} /\ UNCHANGED cache
     \/ /\ Cached(query) = {} \/ MayMiss(query)
        /\ cache' \in Inserted(query, Found(query))
  /\ UNCHANGED <<tables, up, rootDirs, rootsId, filesId, wordsId>>

Next ==
  \/ \E D \in SUBSET Dirs : Start(D)
  \/ Stop
  \/ \E dir \in Dirs : AddRootDir(dir) \/ RemoveRootDir(dir)
  \/ \E p \in Files : RemoveFile(p) \/ \E W \in SUBSET Words : UpdateFile(p, W)
  \/ \E p \in Files : \E q \in Files \ {p} : MoveFile(p, q)
  \/ \E query \in Queries : Search(query)

Spec == Init /\ [][Next]_vars

-----------------------------------------------------------------------------
(* Properties *)

\* The type of the tables and of the memory, whose cache keeps to its size.
TypeOK ==
  /\ roots \subseteq [id : Nat, dir : Dirs]
  /\ files \subseteq [id : Nat, root : Nat, path : Seq(Names)]
  /\ words \subseteq [id : Nat, word : Words]
  /\ mappings \subseteq [file : Nat, word : Nat]
  /\ up \in BOOLEAN
  /\ rootDirs \subseteq [id : Nat, dir : Dirs]
  /\ rootsId \in Nat /\ filesId \in Nat /\ wordsId \in Nat
  /\ cache \in Seq([query : Queries, results : SUBSET Seq(Names)])
  /\ Len(cache) <= CacheSize

\* What search() answers from its cache is what the tables would answer now:
\* no handler changes a table without clearing the cache, a failed transaction
\* included, and the broken order of the keys never returns another query's
\* results.
CacheCoherent == \A e \in ToSet(cache) : e.results = Found(e.query)

\* A directory in memory and a row of the table never share an id without being
\* the same directory, nor a directory with two ids, whatever commits failed:
\* no file is filed under another directory's row.
RootIdsAgree ==
  \A r \in rootDirs, s \in roots : r.id = s.id <=> r.dir = s.dir

\* As long as the storage works, the directories in memory are those of the table.
RootsInSync == up /\ ~StorageFaults => rootDirs = roots

\* The next file id is free: update_file() never hits the primary key of a file,
\* although a failed commit has advanced the counter and a restart resets it.
FileIdsFresh == up => \A f \in files : f.id < filesId

\* Both: ids in memory and ids in the tables never name different things.
IdsNeverClash == RootIdsAgree /\ FileIdsFresh

\* The rows are keyed by their ids and a word is in its table once: no search
\* result is lost to a mapping that names the other row.
Keyed(table) == \A x, y \in table : x.id = y.id => x = y
TablesKeyed ==
  /\ Keyed(roots) /\ Keyed(files) /\ Keyed(words)
  /\ \A x, y \in words : x.word = y.word => x = y
  /\ \A x, y \in roots : x.dir = y.dir => x = y

\* Foreign keys: no file outlives its root, no mapping its file or its word.
References ==
  /\ \A f \in files : f.root \in Ids(roots)
  /\ \A m \in mappings : m.file \in Ids(files) /\ m.word \in Ids(words)

\* The tables are sound: keyed, and without a reference to a row that is gone.
TablesSound == TablesKeyed /\ References

\* The words of the file in a row never change: an update makes a new row, and a
\* move, which keeps the words of the old name, leaves the mappings alone.
WordsOf(f) == {x.word : x \in {y \in words : [file |-> f.id, word |-> y.id] \in mappings}}
RowKeepsItsWords ==
  [][up /\ up' => \A f \in files, g \in files' : f.id = g.id => WordsOf(f) = WordsOf(g)']_vars

\* The tables as the callers see them.
Index == {[path |-> PathOf(rf), words |-> WordsOf(rf[2])] : rf \in Joined}
Promise == INSTANCE UserDb WITH index <- Index

\* Through ids, cascades, kept words, cache and failed transactions, the callers
\* see documents put, dropped and moved as a whole.  (The configuration keeps
\* no root inside another, config.cpp:65-87: Dirs must not either.)
ImplementsUserDb == Promise!Spec

\* The promise behind "keep the words" (sqlite_userdb.cpp:187): the words kept
\* from an earlier process are no obstacle, the id of the next word is free.
NextWordIdFree == up => wordsId \notin Ids(words)

=============================================================================
