---------------------------- MODULE Indexer_proof ----------------------------
(***************************************************************************)
(* The safety properties of module Indexer, for every set of directories   *)
(* and files and every number of writes, removals and edits.               *)
(*                                                                         *)
(* Shape says what the threads and the queue may hold; in particular what  *)
(* a thread reads, hears of and pushes lies under its own directory.       *)
(***************************************************************************)
EXTENDS Indexer, TLAPS, SequenceTheorems

\* The files of a directory, and what its threads may hear of, read and push.
Own(d)     == {p \in Files : DirOf(p) = d}
Events(d)  == [action : {"add", "modified", "delete", "moved"}, path : Own(d), old : Own(d)]
Reading(d) == {<<>>} \cup (Own(d) \X Versions)
Work(d)    == {c \in [op : {"update", "remove", "move"}, path : Own(d), to : Own(d),
                      version : 0 .. MaxVersion] :
                 c.op = "update" => c.version > 0 /\ c.to = c.path}
ReadAgain  == Command("config", <<>>, <<>>, 0)

ScannerOf(d) == [gen : 0 .. MaxGen, todo : SUBSET Own(d), held : Reading(d)]
WatcherOf(d) == [gen : 0 .. MaxGen, events : Seq(Events(d)), held : Reading(d), deaf : BOOLEAN]

\* An object that is not there holds nothing.
ScannerShape ==
  /\ scanner = [d \in Dirs |-> scanner[d]]
  /\ \A d \in Dirs : scanner[d] \in ScannerOf(d)
  /\ \A d \in Dirs : scanner[d].gen = 0 => scanner[d].todo = {} /\ scanner[d].held = <<>>
WatcherShape ==
  /\ watcher = [d \in Dirs |-> watcher[d]]
  /\ \A d \in Dirs : watcher[d] \in WatcherOf(d)
  /\ \A d \in Dirs : watcher[d].gen = 0 =>
       watcher[d].events = <<>> /\ watcher[d].held = <<>> /\ ~watcher[d].deaf
QueueShape ==
  /\ queue = [t \in Threads |-> queue[t]]
  /\ \A t \in Threads \ {<<"config">>} : queue[t] \in Seq(Work(t[2]))
  /\ queue[<<"config">>] \in Seq({ReadAgain})
  /\ Len(queue[<<"config">>]) <= edits
Shape == ScannerShape /\ WatcherShape /\ QueueShape

-----------------------------------------------------------------------------
(* Directories, threads and sequences *)

\* A directory that holds a file is the only one that does.
LEMMA ParentsNest ==
  ASSUME NEW d \in Seq(Names), NEW e \in Seq(Names), NEW p \in Seq(Names),
         IsParentOf(d, p), IsParentOf(e, p), Len(d) <= Len(e)
  PROVE  d = e \/ IsParentOf(d, e)
<1>1. /\ Len(d) \in Nat /\ Len(e) \in Nat /\ Len(p) \in Nat /\ Len(e) <= Len(p)
      /\ SubSeq(d, 1, Len(d)) = SubSeq(p, 1, Len(d))
      /\ SubSeq(e, 1, Len(e)) = SubSeq(p, 1, Len(e))
  BY DEF IsParentOf, IsStrictPrefix, IsPrefix
<1>2. \A i \in 1 .. Len(d) : SubSeq(d, 1, Len(d))[i] = d[i] /\ SubSeq(p, 1, Len(d))[i] = p[i]
  BY <1>1
<1>3. \A i \in 1 .. Len(e) : SubSeq(e, 1, Len(e))[i] = e[i] /\ SubSeq(p, 1, Len(e))[i] = p[i]
  BY <1>1
<1>4. \A i \in 1 .. Len(d) : d[i] = e[i]
  BY <1>1, <1>2, <1>3
<1>5. SubSeq(d, 1, Len(d)) = SubSeq(e, 1, Len(d))
  BY <1>1, <1>4
<1> QED BY <1>1, <1>5 DEF IsParentOf, IsStrictPrefix, IsPrefix

LEMMA OneParent ==
  ASSUME NEW p \in Files, NEW d \in Dirs, IsParentOf(d, p)
  PROVE  d = DirOf(p)
<1>1. DirOf(p) \in Dirs /\ IsParentOf(DirOf(p), p)
  BY DirsAssumption DEF DirOf
<1>2. PICK e \in Dirs : e = DirOf(p) /\ IsParentOf(e, p)
  BY <1>1
<1>3. /\ d \in Seq(Names) /\ e \in Seq(Names) /\ p \in Seq(Names)
      /\ ~IsParentOf(d, e) /\ ~IsParentOf(e, d) /\ Len(d) \in Nat /\ Len(e) \in Nat
  BY <1>2, PathAssumption, DirsAssumption
<1>4. Len(d) <= Len(e) \/ Len(e) <= Len(d)
  BY <1>3
<1> QED BY <1>2, <1>3, <1>4, ParentsNest

LEMMA OwnFiles ==
  /\ \A p \in Files : DirOf(p) \in Dirs /\ IsParentOf(DirOf(p), p) /\ p \in Own(DirOf(p))
  /\ \A d \in Dirs : In(d) = Own(d) /\ Own(d) \subseteq Files
  /\ \A d, e \in Dirs : d # e => Own(d) \cap Own(e) = {}
<1>1. \A p \in Files : DirOf(p) \in Dirs /\ IsParentOf(DirOf(p), p)
  BY DirsAssumption DEF DirOf
<1>2. \A d \in Dirs : In(d) = Own(d)
  BY <1>1, OneParent DEF In, Own
<1> QED BY <1>1, <1>2 DEF Own

LEMMA ThreadNames ==
  /\ \A d \in Dirs, g \in 1 .. MaxGen :
       /\ <<"scan", d, g>> \in Threads \ {<<"config">>}
       /\ <<"watch", d, g>> \in Threads \ {<<"config">>}
  /\ <<"config">> \in Threads
  /\ \A t \in Threads \ {<<"config">>} :
       t[1] \in Kinds /\ t[2] \in Dirs /\ t[3] \in 1 .. MaxGen /\ t = <<t[1], t[2], t[3]>>
<1>1. \A k, d, g : <<k, d, g>> # <<"config">>
  OBVIOUS
<1> QED BY <1>1 DEF Threads, Kinds

-----------------------------------------------------------------------------
(* The shape of the threads and of the queue *)

LEMMA PushShape ==
  ASSUME QueueShape, NEW t \in Threads \ {<<"config">>}, NEW c \in Work(t[2]), Push(t, c),
         edits' = edits
  PROVE  QueueShape'
<1>1. /\ queue' = [u \in Threads |-> queue'[u]]
      /\ queue'[t] = Append(queue[t], c)
      /\ \A u \in Threads \ {t} : queue'[u] = queue[u]
  BY DEF Push, QueueShape
<1>2. queue[t] \in Seq(Work(t[2]))
  BY DEF QueueShape
<1>3. Append(queue[t], c) \in Seq(Work(t[2]))
  BY <1>2
<1>4. <<"config">> \in Threads \ {t}
  BY ThreadNames
<1> QED BY <1>1, <1>3, <1>4 DEF QueueShape

\* What efsw reports of a file under a watched directory.
LEMMA NotifiedStep ==
  ASSUME WatcherShape, NEW p \in Files, NEW e \in Events(DirOf(p)), Notified(p, e)
  PROVE  /\ WatcherShape'
         /\ \A d \in Dirs : /\ watcher'[d].gen = watcher[d].gen
                            /\ watcher'[d].held = watcher[d].held
                            /\ watcher'[d].deaf = watcher[d].deaf
         /\ \A d \in Dirs \ {DirOf(p)} : watcher'[d] = watcher[d]
         /\ Watched(p) => watcher'[DirOf(p)].events = Append(watcher[DirOf(p)].events, e)
         /\ ~Watched(p) => watcher' = watcher
<1>1. PICK f \in Dirs : f = DirOf(p)
  BY OwnFiles
<1>2. CASE Watched(p)
  <2>1. watcher' = [watcher EXCEPT ![f].events = Append(@, e)]
    BY <1>1, <1>2 DEF Notified
  <2>2. watcher[f] \in WatcherOf(f) /\ watcher[f].gen > 0
    BY <1>1, <1>2 DEF WatcherShape, Watched
  <2>3. Append(watcher[f].events, e) \in Seq(Events(f))
    BY <1>1, <2>2 DEF WatcherOf
  <2>4. /\ watcher' = [d \in Dirs |-> watcher'[d]]
        /\ \A d \in Dirs \ {f} : watcher'[d] = watcher[d]
        /\ watcher'[f] = [watcher[f] EXCEPT !.events = Append(@, e)]
    BY <2>1 DEF WatcherShape
  <2>5. /\ watcher'[f] \in WatcherOf(f) /\ watcher'[f].gen = watcher[f].gen
        /\ watcher'[f].held = watcher[f].held /\ watcher'[f].deaf = watcher[f].deaf
        /\ watcher'[f].events = Append(watcher[f].events, e)
    BY <2>2, <2>3, <2>4 DEF WatcherOf
  <2>6. WatcherShape'
    <3>1. ASSUME NEW d \in Dirs
          PROVE  /\ watcher'[d] \in WatcherOf(d)
                 /\ watcher'[d].gen = 0 => /\ watcher'[d].events = <<>> /\ watcher'[d].held = <<>>
                                           /\ ~watcher'[d].deaf
      <4>1. CASE d = f
        <5>1. watcher'[d] \in WatcherOf(d) /\ watcher'[d].gen > 0
          BY <2>2, <2>5, <4>1
        <5> QED BY <5>1
      <4>2. CASE d # f
        BY <2>4, <4>2 DEF WatcherShape
      <4> QED BY <4>1, <4>2
    <3> QED BY <2>4, <3>1 DEF WatcherShape
  <2> QED BY <1>1, <1>2, <2>4, <2>5, <2>6
<1>3. CASE ~Watched(p)
  BY <1>3 DEF Notified, WatcherShape
<1> QED BY <1>2, <1>3

\* One object changes and is there.
LEMMA ScannerKept ==
  ASSUME ScannerShape, NEW d \in Dirs, scanner' = [e \in Dirs |-> scanner'[e]],
         \A e \in Dirs \ {d} : scanner'[e] = scanner[e],
         scanner'[d] \in ScannerOf(d), scanner'[d].gen # 0
  PROVE  ScannerShape'
<1>1. ASSUME NEW e \in Dirs
      PROVE  /\ scanner'[e] \in ScannerOf(e)
             /\ scanner'[e].gen = 0 => scanner'[e].todo = {} /\ scanner'[e].held = <<>>
  <2>1. CASE e = d
    BY <2>1
  <2>2. CASE e # d
    BY <2>2 DEF ScannerShape
  <2> QED BY <2>1, <2>2
<1> QED BY <1>1 DEF ScannerShape

LEMMA WatcherKept ==
  ASSUME WatcherShape, NEW d \in Dirs, watcher' = [e \in Dirs |-> watcher'[e]],
         \A e \in Dirs \ {d} : watcher'[e] = watcher[e],
         watcher'[d] \in WatcherOf(d), watcher'[d].gen # 0
  PROVE  WatcherShape'
<1>1. ASSUME NEW e \in Dirs
      PROVE  /\ watcher'[e] \in WatcherOf(e)
             /\ watcher'[e].gen = 0 => /\ watcher'[e].events = <<>> /\ watcher'[e].held = <<>>
                                       /\ ~watcher'[e].deaf
  <2>1. CASE e = d
    BY <2>1
  <2>2. CASE e # d
    BY <2>2 DEF WatcherShape
  <2> QED BY <2>1, <2>2
<1> QED BY <1>1 DEF WatcherShape

\* What one round of a scanner does to it.
LEMMA ScanNextStep ==
  ASSUME TypeOK, Shape, NEW d \in Dirs, NEW p \in Files, ScanNext(d, p)
  PROVE  /\ p \in Own(d) /\ scanner[d].gen > 0 /\ scanner[d].held = <<>>
         /\ \A e \in Dirs \ {d} : scanner'[e] = scanner[e]
         /\ scanner'[d].gen = scanner[d].gen
         /\ scanner'[d] = [gen |-> scanner[d].gen,
                           todo |-> IF IsFile(p) /\ p \in Damaged THEN {} ELSE scanner[d].todo \ {p},
                           held |-> IF Readable(p) THEN <<p, disk[p]>> ELSE <<>>]
         /\ ScannerShape'
<1>1. /\ scanner[d] \in ScannerOf(d) /\ p \in scanner[d].todo /\ scanner[d].held = <<>>
      /\ scanner[d].gen = 0 => scanner[d].todo = {}
      /\ scanner = [e \in Dirs |-> scanner[e]]
      /\ disk \in [Files -> 0 .. MaxVersion]
  BY DEF Shape, ScannerShape, ScanNext, TypeOK
<1>2. p \in Own(d) /\ scanner[d].gen \in 0 .. MaxGen /\ scanner[d].gen # 0
  BY <1>1 DEF ScannerOf
<1>3. PICK X, Y : /\ X = IF IsFile(p) /\ p \in Damaged THEN {} ELSE scanner[d].todo \ {p}
                  /\ Y = IF Readable(p) THEN <<p, disk[p]>> ELSE scanner[d].held
  OBVIOUS
<1>4. scanner' = [scanner EXCEPT ![d].todo = X, ![d].held = Y]
  BY <1>3 DEF ScanNext
<1>5. /\ scanner' = [e \in Dirs |-> scanner'[e]]
      /\ \A e \in Dirs \ {d} : scanner'[e] = scanner[e]
      /\ scanner'[d] = [gen |-> scanner[d].gen, todo |-> X, held |-> Y]
  <2>1. DOMAIN scanner = Dirs /\ DOMAIN scanner' = Dirs
    BY <1>1, <1>4
  <2>2. \A e \in Dirs \ {d} : scanner'[e] = scanner[e]
    BY <1>4, <2>1
  <2>3. scanner'[d] = [scanner[d] EXCEPT !.todo = X, !.held = Y]
    BY <1>4, <2>1
  <2> QED BY <1>1, <1>4, <2>1, <2>2, <2>3 DEF ScannerOf
<1>6. X \in SUBSET Own(d)
  BY <1>1, <1>3 DEF ScannerOf
<1>7. Y \in Reading(d)
  <2>1. Readable(p) => disk[p] \in Versions
    BY <1>1, CountAssumption DEF Readable, IsFile, Versions
  <2> QED BY <1>1, <1>2, <1>3, <2>1 DEF Reading
<1>8. scanner'[d] \in ScannerOf(d) /\ scanner'[d].gen # 0
  BY <1>2, <1>5, <1>6, <1>7 DEF ScannerOf
<1>9. ScannerShape'
  BY <1>5, <1>8, ScannerKept DEF Shape
<1>10. scanner[d].gen > 0
  BY <1>2, CountAssumption DEF MaxGen
<1>11. scanner'[d].gen = scanner[d].gen
  BY <1>5
<1> QED BY <1>1, <1>2, <1>3, <1>5, <1>9, <1>10, <1>11

LEMMA ScanPushStep ==
  ASSUME Shape, NEW d \in Dirs, ScanPush(d)
  PROVE  \E p \in Own(d), v \in Versions :
           LET t == <<"scan", d, scanner[d].gen>>
           IN  /\ scanner[d].held = <<p, v>> /\ scanner[d].gen \in 1 .. MaxGen
               /\ t \in Threads \ {<<"config">>}
               /\ \A e \in Dirs \ {d} : scanner'[e] = scanner[e]
               /\ scanner'[d].gen = scanner[d].gen
               /\ scanner'[d] = [gen |-> scanner[d].gen, held |-> <<>>,
                                 todo |-> IF IsFile(p) THEN scanner[d].todo ELSE {}]
               /\ IF IsFile(p) THEN Push(t, Command("update", p, p, v)) ELSE UNCHANGED queue
               /\ ScannerShape'
<1>1. /\ scanner[d] \in ScannerOf(d) /\ scanner[d].held # <<>>
      /\ scanner[d].gen = 0 => scanner[d].held = <<>>
      /\ scanner = [e \in Dirs |-> scanner[e]]
  BY DEF Shape, ScannerShape, ScanPush
<1>2. PICK p \in Own(d), v \in Versions : scanner[d].held = <<p, v>>
  BY <1>1 DEF ScannerOf, Reading
<1>3. PICK t : t = <<"scan", d, scanner[d].gen>>
  OBVIOUS
<1>4. scanner[d].gen \in 1 .. MaxGen
  BY <1>1, CountAssumption DEF ScannerOf, MaxGen
<1>5. t \in Threads \ {<<"config">>}
  BY <1>3, <1>4, ThreadNames
<1>6. PICK X : X = IF IsFile(p) THEN scanner[d].todo ELSE {}
  OBVIOUS
<1>7. /\ IF IsFile(p) THEN Push(t, Command("update", p, p, v)) ELSE UNCHANGED queue
      /\ \/ IsFile(p) /\ scanner' = [scanner EXCEPT ![d].held = <<>>]
         \/ ~IsFile(p) /\ scanner' = [scanner EXCEPT ![d].held = <<>>, ![d].todo = {}]
  BY <1>2, <1>3 DEF ScanPush
<1>8. /\ scanner' = [e \in Dirs |-> scanner'[e]]
      /\ \A e \in Dirs \ {d} : scanner'[e] = scanner[e]
      /\ scanner'[d] = [gen |-> scanner[d].gen, held |-> <<>>, todo |-> X]
  <2>1. CASE IsFile(p)
    BY <1>1, <1>6, <1>7, <2>1 DEF ScannerOf
  <2>2. CASE ~IsFile(p)
    <3>1. scanner' = [scanner EXCEPT ![d].held = <<>>, ![d].todo = X]
      BY <1>6, <1>7, <2>2
    <3>2. DOMAIN scanner = Dirs /\ DOMAIN scanner' = Dirs
      BY <1>1, <3>1
    <3>3. \A e \in Dirs \ {d} : scanner'[e] = scanner[e]
      BY <3>1, <3>2
    <3>4. scanner'[d] = [scanner[d] EXCEPT !.held = <<>>, !.todo = X]
      BY <3>1, <3>2
    <3> QED BY <1>1, <3>1, <3>2, <3>3, <3>4 DEF ScannerOf
  <2> QED BY <2>1, <2>2
<1>9. scanner'[d] \in ScannerOf(d) /\ scanner'[d].gen # 0
  BY <1>1, <1>4, <1>6, <1>8 DEF ScannerOf, Reading
<1>10. ScannerShape'
  BY <1>8, <1>9, ScannerKept DEF Shape
<1>11. scanner'[d].gen = scanner[d].gen
  BY <1>8
<1> QED BY <1>2, <1>3, <1>4, <1>5, <1>6, <1>7, <1>8, <1>10, <1>11

\* What an event makes a watcher push is about its own files.
LEMMA ReactionTyped ==
  ASSUME NEW d \in Dirs, NEW e \in Events(d)
  PROVE  /\ Reaction(e) \in Seq(Work(d))
         /\ \A i \in 1 .. Len(Reaction(e)) : {Reaction(e)[i].path, Reaction(e)[i].to} \subseteq {e.path, e.old}
<1>1. e.path \in Own(d) /\ e.old \in Own(d) /\ 0 \in 0 .. MaxVersion
  BY CountAssumption DEF Events
<1>2. /\ Command("remove", e.path, e.path, 0) \in Work(d)
      /\ Command("move", e.old, e.path, 0) \in Work(d)
      /\ Command("remove", e.old, e.old, 0) \in Work(d)
  BY <1>1 DEF Work, Command
<1>3. \/ Reaction(e) = <<Command("remove", e.path, e.path, 0)>>
      \/ Reaction(e) = <<Command("move", e.old, e.path, 0)>>
      \/ Reaction(e) = <<Command("remove", e.old, e.old, 0)>>
      \/ Reaction(e) = <<>>
  BY DEF Reaction
<1>4. ASSUME NEW c \in Work(d), Reaction(e) = <<c>>, {c.path, c.to} \subseteq {e.path, e.old}
      PROVE  /\ Reaction(e) \in Seq(Work(d))
             /\ \A i \in 1 .. Len(Reaction(e)) :
                  {Reaction(e)[i].path, Reaction(e)[i].to} \subseteq {e.path, e.old}
  BY <1>4
<1>5. CASE Reaction(e) = <<>>
  BY <1>5
<1>6. \A op, p, q, v : Command(op, p, q, v).path = p /\ Command(op, p, q, v).to = q
  BY DEF Command
<1>7. CASE Reaction(e) = <<Command("remove", e.path, e.path, 0)>>
  BY <1>2, <1>4, <1>6, <1>7
<1>8. CASE Reaction(e) = <<Command("move", e.old, e.path, 0)>>
  BY <1>2, <1>4, <1>6, <1>8
<1>9. CASE Reaction(e) = <<Command("remove", e.old, e.old, 0)>>
  BY <1>2, <1>4, <1>6, <1>9
<1> QED BY <1>3, <1>5, <1>7, <1>8, <1>9

LEMMA WatchNextStep ==
  ASSUME TypeOK, Shape, NEW d \in Dirs, WatchNext(d)
  PROVE  \E e \in Events(d) :
           LET t     == <<"watch", d, watcher[d].gen>>
               reads == e.action \in {"add", "modified"} /\ IsFile(e.path)
           IN  /\ watcher[d].events # <<>> /\ e = Head(watcher[d].events) /\ watcher[d].held = <<>>
               /\ watcher[d].gen \in 1 .. MaxGen /\ t \in Threads \ {<<"config">>}
               /\ terminated' = (reads /\ e.path \in Broken \cup Damaged)
               /\ \A f \in Dirs \ {d} : watcher'[f] = watcher[f]
               /\ watcher'[d].gen = watcher[d].gen
               /\ watcher'[d] = [gen |-> watcher[d].gen, events |-> Tail(watcher[d].events),
                                 held |-> IF reads THEN <<e.path, disk[e.path]>> ELSE <<>>,
                                 deaf |-> watcher[d].deaf]
               /\ queue' = [queue EXCEPT ![t] = @ \o Reaction(e)]
               /\ WatcherShape'
<1>1. /\ watcher[d] \in WatcherOf(d) /\ watcher[d].events # <<>> /\ watcher[d].held = <<>>
      /\ watcher[d].gen = 0 => watcher[d].events = <<>>
      /\ watcher = [e \in Dirs |-> watcher[e]]
      /\ disk \in [Files -> 0 .. MaxVersion]
  BY DEF Shape, WatcherShape, WatchNext, TypeOK
<1>2. PICK e : e = Head(watcher[d].events)
  OBVIOUS
<1>3. PICK t : t = <<"watch", d, watcher[d].gen>>
  OBVIOUS
<1>4. PICK reads : reads = (e.action \in {"add", "modified"} /\ IsFile(e.path))
  OBVIOUS
<1>5. PICK X, Y : /\ X = Tail(watcher[d].events)
                  /\ Y = IF reads THEN <<e.path, disk[e.path]>> ELSE <<>>
  OBVIOUS
<1>6. /\ watcher[d].events \in Seq(Events(d)) /\ watcher[d].deaf \in BOOLEAN
      /\ watcher[d].gen \in 1 .. MaxGen
  BY <1>1, CountAssumption DEF WatcherOf, MaxGen
<1>7. e \in Events(d) /\ X \in Seq(Events(d))
  BY <1>1, <1>2, <1>5, <1>6
<1>8. t \in Threads \ {<<"config">>}
  BY <1>3, <1>6, ThreadNames
<1>9. Y \in Reading(d)
  <2>1. e.path \in Own(d) /\ e.path \in Files
    BY <1>7, OwnFiles DEF Events
  <2>2. reads => IsFile(e.path)
    BY <1>4
  <2>3. IsFile(e.path) => disk[e.path] \in Versions
    BY <1>1, <2>1, CountAssumption DEF IsFile, Versions
  <2> QED BY <1>5, <2>1, <2>2, <2>3 DEF Reading
<1>10. /\ watcher' = [watcher EXCEPT ![d].events = X, ![d].held = Y]
       /\ terminated' = (reads /\ e.path \in Broken \cup Damaged)
       /\ queue' = [queue EXCEPT ![t] = @ \o Reaction(e)]
  <2>1. watcher' = [watcher EXCEPT ![d].events = Tail(@), ![d].held = IF reads THEN <<e.path, disk[e.path]>> ELSE @]
    BY <1>2, <1>4 DEF WatchNext
  <2>2. terminated' = (reads /\ e.path \in Broken \cup Damaged)
    BY <1>2, <1>4 DEF WatchNext
  <2>3. queue' = [queue EXCEPT ![t] = @ \o Reaction(e)]
    BY <1>2, <1>3 DEF WatchNext
  <2> QED BY <1>1, <1>5, <2>1, <2>2, <2>3
<1>11. /\ watcher' = [f \in Dirs |-> watcher'[f]]
       /\ \A f \in Dirs \ {d} : watcher'[f] = watcher[f]
       /\ watcher'[d] = [gen |-> watcher[d].gen, events |-> X, held |-> Y, deaf |-> watcher[d].deaf]
  <2>1. DOMAIN watcher = Dirs /\ DOMAIN watcher' = Dirs
    BY <1>1, <1>10
  <2>2. \A f \in Dirs \ {d} : watcher'[f] = watcher[f]
    BY <1>10, <2>1
  <2>3. watcher'[d] = [watcher[d] EXCEPT !.events = X, !.held = Y]
    BY <1>10, <2>1
  <2> QED BY <1>1, <1>10, <2>1, <2>2, <2>3 DEF WatcherOf
<1>12. watcher'[d] \in WatcherOf(d) /\ watcher'[d].gen # 0
  BY <1>6, <1>7, <1>9, <1>11 DEF WatcherOf
<1>13. WatcherShape'
  BY <1>11, <1>12, WatcherKept DEF Shape
<1>14. watcher'[d].gen = watcher[d].gen
  BY <1>11
<1> QED BY <1>1, <1>2, <1>3, <1>4, <1>5, <1>6, <1>7, <1>8, <1>10, <1>11, <1>13, <1>14

LEMMA WatchPushStep ==
  ASSUME Shape, NEW d \in Dirs, WatchPush(d)
  PROVE  \E p \in Own(d), v \in Versions :
           LET t == <<"watch", d, watcher[d].gen>>
           IN  /\ watcher[d].held = <<p, v>> /\ watcher[d].gen \in 1 .. MaxGen
               /\ t \in Threads \ {<<"config">>}
               /\ \A e \in Dirs \ {d} : watcher'[e] = watcher[e]
               /\ watcher'[d].gen = watcher[d].gen
               /\ watcher'[d] = [gen |-> watcher[d].gen, events |-> watcher[d].events,
                                 held |-> <<>>, deaf |-> watcher[d].deaf]
               /\ IF IsFile(p) THEN /\ Push(t, Command("update", p, p, v))
                                    /\ UNCHANGED terminated
                               ELSE terminated' = TRUE /\ UNCHANGED queue
               /\ WatcherShape'
<1>1. /\ watcher[d] \in WatcherOf(d) /\ watcher[d].held # <<>>
      /\ watcher[d].gen = 0 => watcher[d].held = <<>>
      /\ watcher = [e \in Dirs |-> watcher[e]]
  BY DEF Shape, WatcherShape, WatchPush
<1>2. PICK p \in Own(d), v \in Versions : watcher[d].held = <<p, v>>
  BY <1>1 DEF WatcherOf, Reading
<1>3. PICK t : t = <<"watch", d, watcher[d].gen>>
  OBVIOUS
<1>4. watcher[d].gen \in 1 .. MaxGen
  BY <1>1, CountAssumption DEF WatcherOf, MaxGen
<1>5. t \in Threads \ {<<"config">>}
  BY <1>3, <1>4, ThreadNames
<1>6. /\ IF IsFile(p) THEN Push(t, Command("update", p, p, v)) /\ UNCHANGED terminated
                      ELSE terminated' = TRUE /\ UNCHANGED queue
      /\ watcher' = [watcher EXCEPT ![d].held = <<>>]
  BY <1>2, <1>3 DEF WatchPush
<1>7. /\ watcher' = [e \in Dirs |-> watcher'[e]]
      /\ \A e \in Dirs \ {d} : watcher'[e] = watcher[e]
      /\ watcher'[d] = [gen |-> watcher[d].gen, events |-> watcher[d].events, held |-> <<>>,
                        deaf |-> watcher[d].deaf]
  BY <1>1, <1>6 DEF WatcherOf
<1>8. watcher'[d] \in WatcherOf(d) /\ watcher'[d].gen # 0
  BY <1>1, <1>4, <1>7 DEF WatcherOf, Reading
<1>9. WatcherShape'
  BY <1>7, <1>8, WatcherKept DEF Shape
<1>10. watcher'[d].gen = watcher[d].gen
  BY <1>7
<1> QED BY <1>2, <1>3, <1>4, <1>5, <1>6, <1>7, <1>9, <1>10

\* What an observer of the configuration finds.
Gen(kind, d) == IF kind = "scan" THEN scanner[d].gen ELSE watcher[d].gen
Trash(kind)  == {d \in Dirs : Gen(kind, d) > 0} \ configDirs
Fresh(kind)  == configDirs \ {d \in Dirs : Gen(kind, d) > 0}

LEMMA ObserveStep ==
  ASSUME NEW kind \in Kinds, Observe(kind)
  PROVE  /\ \A d \in Trash(kind) : ThreadJoined(kind, d)
         /\ registered' = (registered \ Trash(kind)) \cup Fresh(kind)
         /\ missed' = missed \cup (Fresh(kind) \cap gone)
         /\ index' = {x \in index : \A d \in Trash(kind) : ~IsParentOf(d, x.path)}
         /\ witnessed' = {p \in witnessed : DirOf(p) \notin Trash(kind)}
         /\ kind = "scan" =>
              /\ scanner' = [d \in Dirs |->
                   IF d \in Trash(kind) THEN Scanner(0, {})
                   ELSE IF d \in Fresh(kind) \ gone THEN Scanner(Generation, In(d)) ELSE scanner[d]]
              /\ watcher' = watcher
         /\ kind = "watch" =>
              /\ watcher' = [d \in Dirs |->
                   IF d \in Trash(kind) THEN Watcher(0, <<>>)
                   ELSE IF d \in Fresh(kind) \ gone THEN Watcher(Generation, <<>>) ELSE watcher[d]]
              /\ scanner' = scanner
<1>1. CASE kind = "scan"
  <2>1. /\ Trash(kind) = {d \in Dirs : scanner[d].gen > 0} \ configDirs
        /\ Fresh(kind) = configDirs \ {d \in Dirs : scanner[d].gen > 0}
    BY <1>1 DEF Trash, Fresh, Gen
  <2> HIDE DEF Trash, Fresh
  <2>2. missed' = missed \cup (Fresh(kind) \cap gone)
    BY <1>1, <2>1 DEF Observe, Starts
  <2>3. /\ \A d \in Trash(kind) : ThreadJoined(kind, d)
        /\ registered' = (registered \ Trash(kind)) \cup Fresh(kind)
        /\ index' = {x \in index : \A d \in Trash(kind) : ~IsParentOf(d, x.path)}
        /\ witnessed' = {p \in witnessed : DirOf(p) \notin Trash(kind)}
        /\ watcher' = watcher
    BY <1>1, <2>1 DEF Observe
  <2>4. scanner' = [d \in Dirs |->
                   IF d \in Trash(kind) THEN Scanner(0, {})
                   ELSE IF d \in Fresh(kind) /\ Starts(d) THEN Scanner(Generation, In(d)) ELSE scanner[d]]
    BY <1>1, <2>1 DEF Observe
  <2>5. \A d : d \in Fresh(kind) /\ Starts(d) <=> d \in Fresh(kind) \ gone
    BY DEF Starts
  <2> QED BY <1>1, <2>2, <2>3, <2>4, <2>5
<1>2. CASE kind = "watch"
  <2>1. /\ Trash(kind) = {d \in Dirs : watcher[d].gen > 0} \ configDirs
        /\ Fresh(kind) = configDirs \ {d \in Dirs : watcher[d].gen > 0}
    BY <1>2 DEF Trash, Fresh, Gen
  <2> HIDE DEF Trash, Fresh
  <2>2. missed' = missed \cup (Fresh(kind) \cap gone)
    BY <1>2, <2>1 DEF Observe, Starts
  <2>3. /\ \A d \in Trash(kind) : ThreadJoined(kind, d)
        /\ registered' = (registered \ Trash(kind)) \cup Fresh(kind)
        /\ index' = {x \in index : \A d \in Trash(kind) : ~IsParentOf(d, x.path)}
        /\ witnessed' = {p \in witnessed : DirOf(p) \notin Trash(kind)}
        /\ scanner' = scanner
    BY <1>2, <2>1 DEF Observe
  <2>4. watcher' = [d \in Dirs |->
                   IF d \in Trash(kind) THEN Watcher(0, <<>>)
                   ELSE IF d \in Fresh(kind) /\ Starts(d) THEN Watcher(Generation, <<>>) ELSE watcher[d]]
    BY <1>2, <2>1 DEF Observe
  <2>5. \A d : d \in Fresh(kind) /\ Starts(d) <=> d \in Fresh(kind) \ gone
    BY DEF Starts
  <2> QED BY <1>2, <2>2, <2>3, <2>4, <2>5
<1> QED BY <1>1, <1>2 DEF Kinds

LEMMA ObserveShape ==
  ASSUME TypeOK, Shape, NEW kind \in Kinds, Observe(kind)
  PROVE  ScannerShape' /\ WatcherShape'
<1>1. Generation \in 1 .. MaxGen
  BY CountAssumption DEF Generation, MaxGen, Shape, QueueShape, TypeOK
<1>2. CASE kind = "scan"
  <2>1. /\ \A d \in Dirs : \/ scanner'[d] = Scanner(0, {}) \/ scanner'[d] = Scanner(Generation, In(d))
                           \/ scanner'[d] = scanner[d]
        /\ scanner' = [d \in Dirs |-> scanner'[d]] /\ watcher' = watcher
    BY <1>2, ObserveStep
  <2>2. ASSUME NEW d \in Dirs
        PROVE  /\ scanner'[d] \in ScannerOf(d)
               /\ scanner'[d].gen = 0 => scanner'[d].todo = {} /\ scanner'[d].held = <<>>
    <3>1. Scanner(0, {}) \in ScannerOf(d) /\ Scanner(Generation, In(d)) \in ScannerOf(d)
      BY <1>1, OwnFiles, CountAssumption DEF Scanner, ScannerOf, Reading, MaxGen
    <3>2. CASE scanner'[d] = Scanner(0, {})
      BY <3>1, <3>2 DEF Scanner
    <3>3. CASE scanner'[d] = Scanner(Generation, In(d))
      BY <1>1, <3>1, <3>3 DEF Scanner
    <3>4. CASE scanner'[d] = scanner[d]
      BY <3>4 DEF Shape, ScannerShape
    <3> QED BY <2>1, <3>2, <3>3, <3>4
  <2>3. ScannerShape'
    BY <2>1, <2>2 DEF ScannerShape
  <2> QED BY <2>1, <2>3 DEF Shape, WatcherShape
<1>3. CASE kind = "watch"
  <2>1. /\ \A d \in Dirs : \/ watcher'[d] = Watcher(0, <<>>) \/ watcher'[d] = Watcher(Generation, <<>>)
                           \/ watcher'[d] = watcher[d]
        /\ watcher' = [d \in Dirs |-> watcher'[d]] /\ scanner' = scanner
    BY <1>3, ObserveStep
  <2>2. ASSUME NEW d \in Dirs
        PROVE  /\ watcher'[d] \in WatcherOf(d)
               /\ watcher'[d].gen = 0 => /\ watcher'[d].events = <<>> /\ watcher'[d].held = <<>>
                                         /\ ~watcher'[d].deaf
    <3>1. Watcher(0, <<>>) \in WatcherOf(d) /\ Watcher(Generation, <<>>) \in WatcherOf(d)
      BY <1>1, CountAssumption DEF Watcher, WatcherOf, Reading, MaxGen
    <3>2. CASE watcher'[d] = Watcher(0, <<>>)
      BY <3>1, <3>2 DEF Watcher
    <3>3. CASE watcher'[d] = Watcher(Generation, <<>>)
      BY <1>1, <3>1, <3>3 DEF Watcher
    <3>4. CASE watcher'[d] = watcher[d]
      BY <3>4 DEF Shape, WatcherShape
    <3> QED BY <2>1, <3>2, <3>3, <3>4
  <2>3. WatcherShape'
    BY <2>1, <2>2 DEF WatcherShape
  <2> QED BY <2>1, <2>3 DEF Shape, ScannerShape
<1> QED BY <1>2, <1>3 DEF Kinds

\* The events that the environment makes.
LEMMA EventTyped ==
  ASSUME NEW a \in {"add", "modified", "delete", "moved"}, NEW p \in Files, NEW q \in Files,
         DirOf(p) = DirOf(q)
  PROVE  Event(a, p, q) \in Events(DirOf(p))
BY OwnFiles DEF Event, Events, Own

LEMMA VanishStep ==
  ASSUME WatcherShape, NEW d \in Dirs, watcher' = [watcher EXCEPT ![d].deaf = watcher[d].gen > 0]
  PROVE  /\ WatcherShape'
         /\ \A e \in Dirs \ {d} : watcher'[e] = watcher[e]
         /\ watcher'[d] = [gen |-> watcher[d].gen, events |-> watcher[d].events,
                           held |-> watcher[d].held, deaf |-> watcher[d].gen > 0]
<1>1. /\ watcher[d] \in WatcherOf(d) /\ watcher = [e \in Dirs |-> watcher[e]]
      /\ watcher[d].gen = 0 => watcher[d].events = <<>> /\ watcher[d].held = <<>>
  BY DEF WatcherShape
<1>2. \E b \in BOOLEAN : b = (watcher[d].gen > 0)
  <2>1. CASE watcher[d].gen > 0
    <3>1. (watcher[d].gen > 0) = TRUE
      BY <2>1
    <3> QED BY <3>1
  <2>2. CASE ~(watcher[d].gen > 0)
    <3>1. (watcher[d].gen > 0) = FALSE
      BY <2>2
    <3> QED BY <3>1
  <2> QED BY <2>1, <2>2
<1>2a. PICK b \in BOOLEAN : b = (watcher[d].gen > 0)
  BY <1>2
<1>3. watcher' = [watcher EXCEPT ![d].deaf = b]
  BY <1>2a
<1>4. /\ watcher' = [e \in Dirs |-> watcher'[e]]
      /\ \A e \in Dirs \ {d} : watcher'[e] = watcher[e]
      /\ watcher'[d] = [gen |-> watcher[d].gen, events |-> watcher[d].events,
                        held |-> watcher[d].held, deaf |-> b]
  BY <1>1, <1>3 DEF WatcherOf
<1>5. watcher'[d] \in WatcherOf(d)
  BY <1>1, <1>4 DEF WatcherOf
<1>6. watcher'[d].gen = 0 => /\ watcher'[d].events = <<>> /\ watcher'[d].held = <<>>
                             /\ ~watcher'[d].deaf
  <2>1. watcher[d].gen = 0 => ~(watcher[d].gen > 0)
    OBVIOUS
  <2>2. watcher[d].gen = 0 => ~b
    BY <1>2a, <2>1, Zenon
  <2> QED BY <1>1, <1>4, <2>2
<1>7. ASSUME NEW e \in Dirs
      PROVE  /\ watcher'[e] \in WatcherOf(e)
             /\ watcher'[e].gen = 0 => /\ watcher'[e].events = <<>> /\ watcher'[e].held = <<>>
                                       /\ ~watcher'[e].deaf
  <2>1. CASE e = d
    BY <1>5, <1>6, <2>1
  <2>2. CASE e # d
    BY <1>4, <2>2 DEF WatcherShape
  <2> QED BY <2>1, <2>2
<1>8. WatcherShape'
  BY <1>4, <1>7 DEF WatcherShape
<1> QED BY <1>2a, <1>4, <1>8

\* The queue after a command has been taken.
LEMMA TakenShape ==
  ASSUME QueueShape, NEW t \in Threads, queue[t] # <<>>, queue' = [queue EXCEPT ![t] = Tail(@)],
         edits' = edits, edits \in Nat
  PROVE  /\ QueueShape'
         /\ queue'[t] = Tail(queue[t])
         /\ \A u \in Threads \ {t} : queue'[u] = queue[u]
         /\ t # <<"config">> => Head(queue[t]) \in Work(t[2])
<1>1. /\ queue' = [u \in Threads |-> queue'[u]]
      /\ queue'[t] = Tail(queue[t])
      /\ \A u \in Threads \ {t} : queue'[u] = queue[u]
  BY DEF QueueShape
<1>2. CASE t = <<"config">>
  <2>1. /\ queue[t] \in Seq({ReadAgain}) /\ Len(queue[t]) <= edits
    BY <1>2 DEF QueueShape
  <2>2. Tail(queue[t]) \in Seq({ReadAgain}) /\ Len(Tail(queue[t])) = Len(queue[t]) - 1
    BY <2>1
  <2>3. Len(queue'[t]) <= edits
    BY <1>1, <2>1, <2>2
  <2> QED BY <1>1, <1>2, <2>1, <2>2, <2>3 DEF QueueShape
<1>3. CASE t # <<"config">>
  <2>0. PICK S : S = Work(t[2])
    OBVIOUS
  <2>1. queue[t] \in Seq(S)
    BY <1>3, <2>0 DEF QueueShape
  <2>2. Tail(queue[t]) \in Seq(Work(t[2])) /\ Head(queue[t]) \in Work(t[2])
    BY <2>0, <2>1, HeadTailProperties
  <2>3. <<"config">> \in Threads \ {t}
    BY <1>3, ThreadNames
  <2>4. queue'[<<"config">>] = queue[<<"config">>]
    BY <1>1, <2>3
  <2>5. \A u \in Threads \ {<<"config">>} : queue'[u] \in Seq(Work(u[2]))
    BY <1>1, <2>2 DEF QueueShape
  <2> QED BY <1>1, <2>2, <2>4, <2>5 DEF QueueShape
<1> QED BY <1>2, <1>3

LEMMA ReactedShape ==
  ASSUME QueueShape, NEW t \in Threads \ {<<"config">>}, NEW s \in Seq(Work(t[2])),
         queue' = [queue EXCEPT ![t] = @ \o s], edits' = edits
  PROVE  /\ QueueShape'
         /\ queue'[t] = queue[t] \o s
         /\ \A u \in Threads \ {t} : queue'[u] = queue[u]
<1>1. /\ queue' = [u \in Threads |-> queue'[u]]
      /\ queue'[t] = queue[t] \o s
      /\ \A u \in Threads \ {t} : queue'[u] = queue[u]
  BY DEF QueueShape
<1>2. queue[t] \in Seq(Work(t[2]))
  BY DEF QueueShape
<1>3. queue[t] \o s \in Seq(Work(t[2]))
  BY <1>2
<1>4. <<"config">> \in Threads \ {t}
  BY ThreadNames
<1> QED BY <1>1, <1>3, <1>4 DEF QueueShape

LEMMA ShapeStep ==
  ASSUME TypeOK, Shape, [Next]_vars
  PROVE  Shape'
<1>0. ScannerShape /\ WatcherShape /\ QueueShape
  BY DEF Shape
<1>1. ASSUME NEW p \in Files, Write(p) \/ Delete(p)
      PROVE  Shape'
  <2>1. \E a \in {"add", "modified", "delete", "moved"} : Notified(p, Event(a, p, p))
    BY <1>1 DEF Write, Delete
  <2>2. UNCHANGED <<scanner, queue, edits>>
    BY <1>1 DEF Write, Delete, config
  <2>3. WatcherShape'
    BY <1>0, <2>1, EventTyped, NotifiedStep
  <2> QED BY <1>0, <2>2, <2>3 DEF Shape, ScannerShape, QueueShape
<1>2. ASSUME NEW p \in Files, NEW q \in Files, Rename(p, q)
      PROVE  Shape'
  <2>1. DirOf(p) = DirOf(q) /\ Notified(p, Event("moved", q, p))
    BY <1>2 DEF Rename
  <2>2. UNCHANGED <<scanner, queue, edits>>
    BY <1>2 DEF Rename, config
  <2>3. Event("moved", q, p) \in Events(DirOf(p))
    BY <2>1, EventTyped
  <2>4. WatcherShape'
    BY <1>0, <2>1, <2>3, NotifiedStep
  <2> QED BY <1>0, <2>2, <2>4 DEF Shape, ScannerShape, QueueShape
<1>3. ASSUME NEW d \in Dirs, Vanish(d)
      PROVE  Shape'
  <2>1. WatcherShape' /\ UNCHANGED <<scanner, queue, edits>>
    BY <1>0, <1>3, VanishStep DEF Vanish, config
  <2> QED BY <1>0, <2>1 DEF Shape, ScannerShape, QueueShape
<1>4. ASSUME NEW D \in SUBSET Dirs, EditConfig(D)
      PROVE  Shape'
  <2>1. /\ queue' = [queue EXCEPT ![<<"config">>] = Append(@, ReadAgain)] /\ edits' = edits + 1
        /\ UNCHANGED <<scanner, watcher>> /\ edits \in Nat
    BY <1>4 DEF EditConfig, Push, ReadAgain, TypeOK
  <2>2. /\ queue' = [u \in Threads |-> queue'[u]]
        /\ queue'[<<"config">>] = Append(queue[<<"config">>], ReadAgain)
        /\ \A u \in Threads \ {<<"config">>} : queue'[u] = queue[u]
    BY <1>0, <2>1, ThreadNames DEF QueueShape
  <2>3. /\ queue'[<<"config">>] \in Seq({ReadAgain})
        /\ Len(queue'[<<"config">>]) = Len(queue[<<"config">>]) + 1
        /\ Len(queue[<<"config">>]) \in Nat
    BY <1>0, <2>2 DEF QueueShape
  <2>4. Len(queue'[<<"config">>]) <= edits'
    BY <1>0, <2>1, <2>3 DEF QueueShape
  <2>5. QueueShape'
    BY <1>0, <2>2, <2>3, <2>4 DEF QueueShape
  <2> QED BY <1>0, <2>1, <2>5 DEF Shape, ScannerShape, WatcherShape
<1>5. ASSUME NEW d \in Dirs, NEW p \in Files, ScanNext(d, p)
      PROVE  Shape'
  <2>1. UNCHANGED <<queue, watcher, edits>>
    BY <1>5 DEF ScanNext, ScanRest, config
  <2>2. ScannerShape'
    BY <1>5, ScanNextStep
  <2> QED BY <1>0, <2>1, <2>2 DEF Shape, WatcherShape, QueueShape
<1>6. ASSUME NEW d \in Dirs, ScanPush(d)
      PROVE  Shape'
  <2>1. UNCHANGED <<watcher, edits>>
    BY <1>6 DEF ScanPush, ScanRest, config
  <2>2. PICK p \in Own(d), v \in Versions, t \in Threads \ {<<"config">>} :
          /\ t = <<"scan", d, scanner[d].gen>> /\ ScannerShape'
          /\ IF IsFile(p) THEN Push(t, Command("update", p, p, v)) ELSE UNCHANGED queue
    BY <1>6, ScanPushStep
  <2>3. Command("update", p, p, v) \in Work(t[2])
    BY <2>2, CountAssumption DEF Command, Work, Versions
  <2>4. QueueShape'
    <3>1. CASE IsFile(p)
      BY <1>0, <2>1, <2>2, <2>3, <3>1, PushShape
    <3>2. CASE ~IsFile(p)
      BY <1>0, <2>1, <2>2, <3>2 DEF QueueShape
    <3> QED BY <3>1, <3>2
  <2> QED BY <1>0, <2>1, <2>2, <2>4 DEF Shape, WatcherShape
<1>7. ASSUME NEW d \in Dirs, WatchNext(d)
      PROVE  Shape'
  <2>1. UNCHANGED <<scanner, edits>>
    BY <1>7 DEF WatchNext, WatchRest, config
  <2>a. PICK t : t = <<"watch", d, watcher[d].gen>>
    OBVIOUS
  <2>2. PICK e \in Events(d) :
          /\ t \in Threads \ {<<"config">>} /\ t[2] = d /\ WatcherShape'
          /\ queue' = [queue EXCEPT ![t] = @ \o Reaction(e)]
    BY <1>7, <2>a, WatchNextStep, ZenonT(60)
  <2>3. Reaction(e) \in Seq(Work(t[2]))
    BY <2>2, ReactionTyped
  <2>4. QueueShape'
    BY <1>0, <2>1, <2>2, <2>3, ReactedShape
  <2> QED BY <1>0, <2>1, <2>2, <2>4 DEF Shape, ScannerShape
<1>8. ASSUME NEW d \in Dirs, WatchPush(d)
      PROVE  Shape'
  <2>1. UNCHANGED <<scanner, edits>>
    BY <1>8 DEF WatchPush, WatchRest, config
  <2>2. PICK p \in Own(d), v \in Versions, t \in Threads \ {<<"config">>} :
          /\ t = <<"watch", d, watcher[d].gen>> /\ WatcherShape'
          /\ \/ Push(t, Command("update", p, p, v))
             \/ UNCHANGED queue
    BY <1>8, WatchPushStep
  <2>3. Command("update", p, p, v) \in Work(t[2])
    BY <2>2, CountAssumption DEF Command, Work, Versions
  <2>4. QueueShape'
    <3>1. CASE Push(t, Command("update", p, p, v))
      BY <1>0, <2>1, <2>3, <3>1, PushShape
    <3>2. CASE UNCHANGED queue
      BY <1>0, <2>1, <3>2 DEF QueueShape
    <3> QED BY <2>2, <3>1, <3>2
  <2> QED BY <1>0, <2>1, <2>2, <2>4 DEF Shape, ScannerShape
<1>9. CASE CallObserver
  <2>1. Head(calls) \in Kinds /\ Observe(Head(calls)) /\ UNCHANGED <<queue, edits>>
    BY <1>9 DEF CallObserver, config, Kinds, TypeOK
  <2>2. ScannerShape' /\ WatcherShape'
    BY <2>1, ObserveShape
  <2> QED BY <1>0, <2>1, <2>2 DEF Shape, QueueShape
<1>10. ASSUME NEW t \in Threads, Execute(t)
       PROVE  Shape'
  <2>1. /\ queue[t] # <<>> /\ queue' = [queue EXCEPT ![t] = Tail(@)]
        /\ UNCHANGED <<scanner, watcher, edits>> /\ edits \in Nat
    BY <1>10 DEF Execute, config, TypeOK
  <2>2. QueueShape'
    BY <1>0, <2>1, TakenShape
  <2> QED BY <1>0, <2>1, <2>2 DEF Shape, ScannerShape, WatcherShape
<1>11. CASE UNCHANGED vars \/ \E d \in Dirs : Return(d)
  <2>1. UNCHANGED <<scanner, watcher, queue, edits>>
    BY <1>11 DEF vars, config, Return
  <2> QED BY <1>0, <2>1 DEF Shape, ScannerShape, WatcherShape, QueueShape
<1> QED BY <1>1, <1>2, <1>3, <1>4, <1>5, <1>6, <1>7, <1>8, <1>9, <1>10, <1>11
        DEF Next, Environment, Daemon

-----------------------------------------------------------------------------
(* The type invariant *)

\* What Shape says nothing of.
RestTyped ==
  /\ disk \in [Files -> 0 .. MaxVersion]
  /\ versions \in 1 .. MaxVersion /\ removals \in 0 .. MaxRemovals /\ edits \in 0 .. MaxEdits
  /\ configFile \subseteq Dirs /\ configDirs \subseteq Dirs /\ registered \subseteq Dirs
  /\ calls \in {<<>>, <<"watch">>, <<"scan">>, <<"watch", "scan">>, <<"scan", "watch">>}
  /\ index \subseteq [path : Files, words : {{v} : v \in Versions}]
  /\ terminated \in BOOLEAN
  /\ gone \cup missed \subseteq everGone /\ everGone \subseteq Dirs
  /\ witnessed \subseteq Files
  /\ lastRun \in [Files -> {"none", "scan", "watch", "dangling", "twin", "failed"}]

LEMMA TypeSplit == RestTyped /\ Shape => TypeOK
<1> SUFFICES ASSUME RestTyped, Shape PROVE TypeOK
  OBVIOUS
<1>1. ASSUME NEW d \in Dirs
      PROVE  /\ scanner[d].gen \in 0 .. MaxGen /\ scanner[d].todo \subseteq In(d)
             /\ scanner[d].held \in Held
             /\ watcher[d].gen \in 0 .. MaxGen /\ watcher[d].held \in Held
             /\ watcher[d].deaf \in BOOLEAN
  <2>1. scanner[d] \in ScannerOf(d) /\ watcher[d] \in WatcherOf(d)
    BY DEF Shape, ScannerShape, WatcherShape
  <2>2. In(d) = Own(d) /\ Reading(d) \subseteq Held
    BY OwnFiles DEF Reading, Held
  <2> QED BY <2>1, <2>2 DEF ScannerOf, WatcherOf
<1>2. ASSUME NEW t \in Threads
      PROVE  ToSet(queue[t]) \subseteq Commands
  <2>1. CASE t = <<"config">>
    <3>1. queue[t] \in Seq({ReadAgain})
      BY <2>1 DEF Shape, QueueShape
    <3> QED BY <3>1 DEF ToSet, Commands, ReadAgain
  <2>2. CASE t # <<"config">>
    <3>1. PICK S : S = Work(t[2])
      OBVIOUS
    <3>2. queue[t] \in Seq(S)
      BY <2>2, <3>1 DEF Shape, QueueShape
    <3>3. S \subseteq Commands
      BY <3>1 DEF Work, Own, Commands
    <3> QED BY <3>2, <3>3 DEF ToSet
  <2> QED BY <2>1, <2>2
<1> QED BY <1>1, <1>2 DEF RestTyped, TypeOK

LEMMA TypeInit == Init => TypeOK /\ Shape
<1> SUFFICES ASSUME Init PROVE TypeOK /\ Shape
  OBVIOUS
<1>1. ScannerShape
  BY CountAssumption DEF Init, ScannerShape, Scanner, ScannerOf, Reading, MaxGen
<1>2. WatcherShape
  BY CountAssumption DEF Init, WatcherShape, Watcher, WatcherOf, Reading, MaxGen
<1>3. QueueShape
  BY ThreadNames DEF Init, QueueShape
<1>4. RestTyped
  <2>1. disk \in [Files -> 0 .. MaxVersion] /\ versions \in 1 .. MaxVersion
    BY CountAssumption DEF Init
  <2>2. removals \in 0 .. MaxRemovals /\ edits \in 0 .. MaxEdits
    BY CountAssumption DEF Init
  <2>3. configFile \subseteq Dirs /\ configDirs \subseteq Dirs /\ registered \subseteq Dirs
    BY DirsAssumption DEF Init
  <2> QED BY <2>1, <2>2, <2>3 DEF Init, RestTyped
<1> QED BY <1>1, <1>2, <1>3, <1>4, TypeSplit DEF Shape

\* A command that runs.
LEMMA RunTyped ==
  ASSUME TypeOK, NEW t \in Threads \ {<<"config">>}, NEW c \in Work(t[2]), Run(c, t)
  PROVE  /\ index' \subseteq [path : Files, words : {{v} : v \in Versions}]
         /\ lastRun' \in [Files -> {"none", "scan", "watch", "dangling", "twin", "failed"}]
         /\ UNCHANGED <<registered, configDirs, calls, missed>>
<1>1. /\ c.path \in Files /\ c.to \in Files /\ (c.op = "update" => c.version \in Versions)
      /\ t[1] \in {"scan", "watch"}
  BY ThreadNames, CountAssumption DEF Work, Own, Kinds, Versions
<1>2. UNCHANGED <<registered, configDirs, calls, missed>>
  BY DEF Run
<1>3. CASE HasRoot(c.path) /\ Touch(c, t) /\ c.op = "update" /\ Db!Put(c.path, {c.version})
  <2>1. index' \subseteq [path : Files, words : {{v} : v \in Versions}]
    BY <1>1, <1>3 DEF Db!Put, TypeOK
  <2> QED BY <1>1, <1>2, <1>3, <2>1 DEF Touch, TypeOK
<1>4. CASE HasRoot(c.path) /\ Touch(c, t) /\ Db!Drop(c.path)
  <2>1. index' \subseteq [path : Files, words : {{v} : v \in Versions}]
    BY <1>4 DEF Db!Drop, TypeOK
  <2> QED BY <1>1, <1>2, <1>4, <2>1 DEF Touch, TypeOK
<1>5. CASE HasRoot(c.path) /\ Touch(c, t) /\ Db!Move(c.path, c.to)
  <2>1. index' \subseteq [path : Files, words : {{v} : v \in Versions}]
    BY <1>1, <1>5 DEF Db!Move, TypeOK
  <2> QED BY <1>1, <1>2, <1>5, <2>1 DEF Touch, TypeOK
<1>6. CASE Fail(c) /\ UNCHANGED index
  BY <1>2, <1>6 DEF Fail, TypeOK
<1>7. CASE UNCHANGED <<index, lastRun>>
  BY <1>2, <1>7 DEF TypeOK
<1> QED BY <1>3, <1>4, <1>5, <1>6, <1>7 DEF Run

\* The command at the head of a thread's queue.
LEMMA ExecuteStep ==
  ASSUME TypeOK, Shape, NEW t \in Threads, Execute(t)
  PROVE  /\ calls = <<>> /\ ~terminated /\ queue[t] # <<>>
         /\ queue'[t] = Tail(queue[t])
         /\ \A u \in Threads \ {t} : queue'[u] = queue[u]
         /\ UNCHANGED <<env, config, scanner, watcher>>
         /\ t = <<"config">> => ReadConfig
         /\ t # <<"config">> => Head(queue[t]) \in Work(t[2])
         /\ t # <<"config">> => \/ Run(Head(queue[t]), t) /\ terminated' = FALSE
                                \/ terminated' = TRUE /\ UNCHANGED <<db, configDirs, calls, missed>>
<1>1. /\ queue[t] # <<>> /\ queue' = [queue EXCEPT ![t] = Tail(@)] /\ UNCHANGED edits
      /\ edits \in Nat /\ QueueShape
  BY DEF Execute, config, TypeOK, Shape
<1>2. /\ queue'[t] = Tail(queue[t])
      /\ \A u \in Threads \ {t} : queue'[u] = queue[u]
      /\ t # <<"config">> => Head(queue[t]) \in Work(t[2])
  BY <1>1, TakenShape
<1> QED BY <1>1, <1>2 DEF Execute

LEMMA NextCall ==
  ASSUME TypeOK, CallObserver
  PROVE  /\ Head(calls) \in Kinds /\ Observe(Head(calls)) /\ calls # <<>>
         /\ calls' \in {<<>>, <<"watch">>, <<"scan">>}
         /\ ToSet(calls') = ToSet(calls) \ {Head(calls)} /\ ToSet(calls) \subseteq Kinds
<1>1. calls # <<>> /\ Observe(Head(calls)) /\ calls' = Tail(calls)
  BY DEF CallObserver
<1>2. CASE calls = <<"watch">> \/ calls = <<"scan">>
  BY <1>1, <1>2 DEF Kinds, ToSet
<1>3. CASE calls = <<"watch", "scan">>
  <2>1. calls' = <<"scan">> /\ Head(calls) = "watch"
    BY <1>1, <1>3
  <2>2. ToSet(calls') = {"scan"} /\ ToSet(calls) = {"watch", "scan"}
    BY <1>3, <2>1 DEF ToSet
  <2> QED BY <1>1, <2>1, <2>2 DEF Kinds
<1>4. CASE calls = <<"scan", "watch">>
  <2>1. calls' = <<"watch">> /\ Head(calls) = "scan"
    BY <1>1, <1>4
  <2>2. ToSet(calls') = {"watch"} /\ ToSet(calls) = {"watch", "scan"}
    BY <1>4, <2>1 DEF ToSet
  <2> QED BY <1>1, <2>1, <2>2 DEF Kinds
<1> QED BY <1>1, <1>2, <1>3, <1>4 DEF TypeOK

LEMMA TypeStep ==
  ASSUME TypeOK, Shape, [Next]_vars
  PROVE  RestTyped'
<1>0. RestTyped
  BY DEF TypeOK, RestTyped
<1> USE CountAssumption DEF RestTyped
<1>1. ASSUME NEW p \in Files, Write(p)
      PROVE  RestTyped'
  BY <1>0, <1>1 DEF Write, config, db
<1>2. ASSUME NEW p \in Files, Delete(p)
      PROVE  RestTyped'
  BY <1>0, <1>2 DEF Delete, config, db
<1>3. ASSUME NEW p \in Files, NEW q \in Files, Rename(p, q)
      PROVE  RestTyped'
  BY <1>0, <1>3 DEF Rename, config, db
<1>4. ASSUME NEW d \in Dirs, Vanish(d) \/ Return(d)
      PROVE  RestTyped'
  BY <1>0, <1>4 DEF Vanish, Return, config, db
<1>5. ASSUME NEW D \in SUBSET Dirs, EditConfig(D)
      PROVE  RestTyped'
  BY <1>0, <1>5 DEF EditConfig, env, db
<1>6. CASE \/ \E d \in Dirs : ScanPush(d) \/ \E p \in Files : ScanNext(d, p)
           \/ UNCHANGED vars
  BY <1>0, <1>6 DEF ScanNext, ScanPush, ScanRest, env, config, db, vars
<1>7. ASSUME NEW d \in Dirs, WatchNext(d)
      PROVE  RestTyped'
  <2>1. terminated' \in BOOLEAN
    BY <1>7 DEF WatchNext
  <2> QED BY <1>0, <1>7, <2>1 DEF WatchNext, WatchRest, env, config, db
<1>8. ASSUME NEW d \in Dirs, WatchPush(d)
      PROVE  RestTyped'
  BY <1>0, <1>8 DEF WatchPush, WatchRest, env, config, db
<1>9. CASE CallObserver
  <2>1. /\ Head(calls) \in Kinds /\ Observe(Head(calls))
        /\ calls' \in {<<>>, <<"watch">>, <<"scan">>}
    BY <1>9, NextCall
  <2>2. PICK kind \in Kinds : Observe(kind)
    BY <2>1
  <2>3. Fresh(kind) \subseteq Dirs
    BY <1>0 DEF Fresh
  <2>4. /\ registered' \subseteq Dirs /\ missed' \subseteq everGone
        /\ index' \subseteq index /\ witnessed' \subseteq witnessed
    BY <1>0, <2>2, <2>3, ObserveStep
  <2> QED BY <1>0, <1>9, <2>1, <2>4 DEF CallObserver, config
<1>10. ASSUME NEW t \in Threads, Execute(t)
       PROVE  RestTyped'
  <2>1. CASE t = <<"config">>
    BY <1>0, <1>10, <2>1, ExecuteStep DEF ReadConfig, env, config, db
  <2>2. CASE t # <<"config">>
    <3>1. PICK c : c = Head(queue[t])
      OBVIOUS
    <3>2. /\ UNCHANGED <<env, config>> /\ c \in Work(t[2])
          /\ \/ Run(c, t) /\ terminated' = FALSE
             \/ terminated' = TRUE /\ UNCHANGED <<db, configDirs, calls, missed>>
      BY <1>10, <2>2, <3>1, ExecuteStep
    <3>3. CASE Run(c, t) /\ terminated' = FALSE
      BY <1>0, <2>2, <3>2, <3>3, RunTyped DEF env, config
    <3>4. CASE terminated' = TRUE /\ UNCHANGED <<db, configDirs, calls, missed>>
      BY <1>0, <3>2, <3>4 DEF env, config, db
    <3> QED BY <3>2, <3>3, <3>4
  <2> QED BY <2>1, <2>2
<1> QED BY <1>1, <1>2, <1>3, <1>4, <1>5, <1>6, <1>7, <1>8, <1>9, <1>10
        DEF Next, Environment, Daemon

LEMMA Typed == Spec => [](TypeOK /\ Shape)
<1>1. TypeOK /\ Shape /\ [Next]_vars => (TypeOK /\ Shape)'
  <2> SUFFICES ASSUME TypeOK, Shape, [Next]_vars PROVE (TypeOK /\ Shape)'
    OBVIOUS
  <2>1. Shape' /\ RestTyped'
    BY ShapeStep, TypeStep
  <2>2. TypeOK'
    BY <2>1, TypeSplit, PTL
  <2> QED BY <2>1, <2>2
<1> QED BY TypeInit, <1>1, PTL DEF Spec

\* Every thread reads, hears of and pushes files of its own directory only, and every
\* object that is started has a generation of its own.
THEOREM TypeCorrect == Spec => []TypeOK
BY Typed, PTL

-----------------------------------------------------------------------------
(* The index holds files of registered roots *)

LEMMA UnderRootsStep ==
  ASSUME TypeOK, Shape, IndexedUnderRoots, [Next]_vars
  PROVE  IndexedUnderRoots'
<1>1. CASE CallObserver
  <2>1. PICK kind \in Kinds : Observe(kind)
    BY <1>1, NextCall
  <2>2. ASSUME NEW x \in index'
        PROVE  DirOf(x.path) \in registered'
    <3>1. /\ x \in index /\ \A d \in Trash(kind) : ~IsParentOf(d, x.path)
          /\ x.path \in Files /\ DirOf(x.path) \in registered
      BY <2>1, ObserveStep DEF IndexedUnderRoots, TypeOK
    <3>2. DirOf(x.path) \notin Trash(kind)
      BY <3>1, OwnFiles
    <3> QED BY <2>1, <3>1, <3>2, ObserveStep
  <2> QED BY <2>2 DEF IndexedUnderRoots
<1>2. ASSUME NEW t \in Threads, Execute(t)
      PROVE  IndexedUnderRoots'
  <2>1. CASE t = <<"config">>
    BY <1>2, <2>1, ExecuteStep DEF ReadConfig, db, IndexedUnderRoots
  <2>2. CASE t # <<"config">>
    <3>1. PICK c : c = Head(queue[t])
      OBVIOUS
    <3>2. /\ c \in Work(t[2])
          /\ \/ Run(c, t)
             \/ UNCHANGED db
      BY <1>2, <2>2, <3>1, ExecuteStep
    <3>3. CASE UNCHANGED db
      BY <3>3 DEF db, IndexedUnderRoots
    <3>4. CASE Run(c, t)
      <4>1. DirOf(c.path) = DirOf(c.to) /\ registered' = registered
        BY <3>2, <3>4 DEF Run, Work, Own
      <4>2. CASE UNCHANGED index
        BY <4>1, <4>2 DEF IndexedUnderRoots
      <4>3. CASE HasRoot(c.path) /\ (Db!Put(c.path, {c.version}) \/ Db!Drop(c.path) \/ Db!Move(c.path, c.to))
        <5>1. DirOf(c.path) \in registered
          BY <4>3 DEF HasRoot
        <5>2. \A x \in index' : x \in index \/ x.path \in {c.path, c.to}
          BY <4>3 DEF Db!Put, Db!Drop, Db!Move
        <5> QED BY <4>1, <5>1, <5>2 DEF IndexedUnderRoots
      <4> QED BY <3>4, <4>2, <4>3 DEF Run
    <3> QED BY <3>2, <3>3, <3>4
  <2> QED BY <2>1, <2>2
<1>3. CASE \/ Environment \/ UNCHANGED vars
           \/ \E d \in Dirs : ScanPush(d) \/ WatchNext(d) \/ WatchPush(d)
           \/ \E d \in Dirs : \E p \in Files : ScanNext(d, p)
  <2>1. UNCHANGED <<index, registered>>
    BY <1>3 DEF Environment, Write, Delete, Rename, Vanish, Return, EditConfig, ScanPush, ScanNext,
                ScanRest, WatchNext, WatchPush, WatchRest, vars, db
  <2> QED BY <2>1 DEF IndexedUnderRoots
<1> QED BY <1>1, <1>2, <1>3 DEF Next, Daemon

\* Whatever order the commands, the observers and the edits come in, the index holds no
\* file whose root is not registered: relative() turns away the command of a root that
\* has been removed in the meantime.
THEOREM OnlyRegisteredRoots == Spec => []IndexedUnderRoots
<1>1. Init => IndexedUnderRoots
  BY DEF Init, IndexedUnderRoots
<1>2. (TypeOK /\ Shape) /\ IndexedUnderRoots /\ [Next]_vars => IndexedUnderRoots'
  BY UnderRootsStep
<1> QED BY <1>1, <1>2, Typed, PTL DEF Spec

-----------------------------------------------------------------------------
(* The configuration *)

\* The observers that are still to be called.
Coming == ToSet(calls)

\* Between the commands what runs, what is registered and what the file names agree; in
\* the middle of a call of the observers, for those that have been called.
ConfigInv ==
  /\ queue[<<"config">>] = <<>> => configFile \ missed \subseteq configDirs /\ configDirs \subseteq configFile
  /\ \A kind \in Kinds, d \in Dirs :
       /\ Gen(kind, d) > 0 /\ d \in configDirs => d \in registered
       /\ kind \notin Coming /\ Gen(kind, d) > 0 => d \in configDirs
       /\ kind \notin Coming /\ d \in configDirs \ missed => Gen(kind, d) > 0
       /\ d \in registered \ everGone => Gen(kind, d) > 0 \/ (d \in configDirs /\ kind \in Coming)

LEMMA ConfigObserved ==
  ASSUME TypeOK, Shape, ConfigInv, CallObserver
  PROVE  ConfigInv'
<1>1. PICK kind \in Kinds : kind = Head(calls) /\ Observe(kind)
  BY NextCall
<1>2. Coming' = Coming \ {kind} /\ kind \in Coming
  <2>1. calls # <<>> /\ calls \in Seq(Kinds)
    BY DEF CallObserver, TypeOK, Kinds
  <2>2. Head(calls) \in ToSet(calls)
    BY <2>1 DEF ToSet
  <2> QED BY <1>1, <2>2, NextCall DEF Coming
<1>3. /\ UNCHANGED <<queue, configFile, configDirs, gone, everGone>> /\ configDirs \subseteq Dirs
      /\ gone \subseteq everGone /\ missed \subseteq everGone
  BY DEF CallObserver, config, TypeOK
<1>4. Generation > 0 /\ \A k \in Kinds, d \in Dirs : Gen(k, d) \in Nat
  BY DEF Generation, TypeOK, Shape, QueueShape, Gen
<1>5. /\ registered' = (registered \ Trash(kind)) \cup Fresh(kind)
      /\ missed' = missed \cup (Fresh(kind) \cap gone)
  BY <1>1, ObserveStep
<1>6. \A d \in Dirs : Gen(kind, d)' = IF d \in Trash(kind) THEN 0
                                     ELSE IF d \in Fresh(kind) \ gone THEN Generation
                                     ELSE Gen(kind, d)
  BY <1>1, ObserveStep DEF Gen, Scanner, Watcher, Kinds
<1>7. \A k \in Kinds \ {kind}, d \in Dirs : Gen(k, d)' = Gen(k, d)
  BY <1>1, ObserveStep DEF Gen, Kinds
<1>8. queue'[<<"config">>] = <<>> => configFile' \ missed' \subseteq configDirs' /\ configDirs' \subseteq configFile'
  BY <1>3, <1>5 DEF ConfigInv
<1>9. ASSUME NEW k \in Kinds, NEW d \in Dirs
      PROVE  /\ Gen(k, d)' > 0 /\ d \in configDirs' => d \in registered'
             /\ k \notin Coming' /\ Gen(k, d)' > 0 => d \in configDirs'
             /\ k \notin Coming' /\ d \in configDirs' \ missed' => Gen(k, d)' > 0
             /\ d \in registered' \ everGone' => Gen(k, d)' > 0 \/ (d \in configDirs' /\ k \in Coming')
  <2>1. /\ Trash(kind) = {e \in Dirs : Gen(kind, e) > 0} \ configDirs
        /\ Fresh(kind) = configDirs \ {e \in Dirs : Gen(kind, e) > 0}
    BY DEF Trash, Fresh
  <2>2. CASE k = kind
    BY <1>2, <1>3, <1>4, <1>5, <1>6, <2>1, <2>2 DEF ConfigInv
  <2>3. CASE k # kind
    <3>1. Gen(k, d)' = Gen(k, d) /\ (k \in Coming' <=> k \in Coming)
      BY <1>2, <1>7, <2>3
    <3> QED BY <1>2, <1>3, <1>4, <1>5, <2>1, <3>1 DEF ConfigInv
  <2> QED BY <2>2, <2>3
<1> QED BY <1>8, <1>9 DEF ConfigInv

\* The generations change with the observers only.
LEMMA GensKept ==
  ASSUME TypeOK, Shape, [Next]_vars, ~CallObserver
  PROVE  \A kind \in Kinds, d \in Dirs : Gen(kind, d)' = Gen(kind, d)
<1>0. ScannerShape /\ WatcherShape
  BY DEF Shape
<1> SUFFICES \A d \in Dirs : scanner'[d].gen = scanner[d].gen /\ watcher'[d].gen = watcher[d].gen
  BY DEF Gen
<1>1. ASSUME NEW p \in Files, Write(p) \/ Delete(p)
      PROVE  \A d \in Dirs : scanner'[d].gen = scanner[d].gen /\ watcher'[d].gen = watcher[d].gen
  <2>1. \E a \in {"add", "modified", "delete", "moved"} : Notified(p, Event(a, p, p))
    BY <1>1 DEF Write, Delete
  <2>2. scanner' = scanner
    BY <1>1 DEF Write, Delete
  <2> QED BY <1>0, <2>1, <2>2, EventTyped, NotifiedStep
<1>2. ASSUME NEW p \in Files, NEW q \in Files, Rename(p, q)
      PROVE  \A d \in Dirs : scanner'[d].gen = scanner[d].gen /\ watcher'[d].gen = watcher[d].gen
  <2>1. DirOf(p) = DirOf(q) /\ Notified(p, Event("moved", q, p)) /\ scanner' = scanner
    BY <1>2 DEF Rename
  <2>2. Event("moved", q, p) \in Events(DirOf(p))
    BY <2>1, EventTyped
  <2> QED BY <1>0, <2>1, <2>2, NotifiedStep
<1>3. ASSUME NEW e \in Dirs, Vanish(e)
      PROVE  \A d \in Dirs : scanner'[d].gen = scanner[d].gen /\ watcher'[d].gen = watcher[d].gen
  <2>1. scanner' = scanner /\ watcher' = [watcher EXCEPT ![e].deaf = watcher[e].gen > 0]
    BY <1>3 DEF Vanish
  <2> QED BY <1>0, <2>1, VanishStep
<1>4. ASSUME NEW e \in Dirs, NEW p \in Files, ScanNext(e, p)
      PROVE  \A d \in Dirs : scanner'[d].gen = scanner[d].gen /\ watcher'[d].gen = watcher[d].gen
  <2>1. watcher' = watcher
    BY <1>4 DEF ScanNext, ScanRest
  <2>2. \A d \in Dirs \ {e} : scanner'[d] = scanner[d]
    BY <1>4, ScanNextStep
  <2>3. scanner'[e].gen = scanner[e].gen
    BY <1>4, ScanNextStep
  <2> QED BY <2>1, <2>2, <2>3
<1>5. ASSUME NEW e \in Dirs, ScanPush(e)
      PROVE  \A d \in Dirs : scanner'[d].gen = scanner[d].gen /\ watcher'[d].gen = watcher[d].gen
  <2>1. watcher' = watcher
    BY <1>5 DEF ScanPush, ScanRest
  <2>2. \A d \in Dirs \ {e} : scanner'[d] = scanner[d]
    BY <1>5, ScanPushStep
  <2>3. scanner'[e].gen = scanner[e].gen
    BY <1>5, ScanPushStep
  <2> QED BY <2>1, <2>2, <2>3
<1>6. ASSUME NEW e \in Dirs, WatchNext(e) \/ WatchPush(e)
      PROVE  \A d \in Dirs : scanner'[d].gen = scanner[d].gen /\ watcher'[d].gen = watcher[d].gen
  <2>1. scanner' = scanner
    BY <1>6 DEF WatchNext, WatchPush, WatchRest
  <2>2. watcher'[e].gen = watcher[e].gen /\ \A f \in Dirs \ {e} : watcher'[f] = watcher[f]
    <3>1. CASE WatchNext(e)
      <4>1. \A f \in Dirs \ {e} : watcher'[f] = watcher[f]
        BY <3>1, WatchNextStep
      <4>2. watcher'[e].gen = watcher[e].gen
        BY <3>1, WatchNextStep
      <4> QED BY <4>1, <4>2
    <3>2. CASE WatchPush(e)
      <4>1. \A f \in Dirs \ {e} : watcher'[f] = watcher[f]
        BY <3>2, WatchPushStep
      <4>2. watcher'[e].gen = watcher[e].gen
        BY <3>2, WatchPushStep
      <4> QED BY <4>1, <4>2
    <3> QED BY <1>6, <3>1, <3>2
  <2> QED BY <2>1, <2>2
<1>7. CASE \/ UNCHANGED vars
           \/ \E d \in Dirs : Return(d)
           \/ \E D \in SUBSET Dirs : EditConfig(D)
           \/ \E t \in Threads : Execute(t)
  BY <1>7 DEF vars, Return, EditConfig, Execute
<1> QED BY <1>1, <1>2, <1>3, <1>4, <1>5, <1>6, <1>7 DEF Next, Environment, Daemon

LEMMA ConfigStep ==
  ASSUME TypeOK, Shape, ConfigInv, [Next]_vars
  PROVE  ConfigInv'
<1>1. CASE CallObserver
  BY <1>1, ConfigObserved
<1>2. CASE Execute(<<"config">>)
  <2>1. /\ configDirs' = configFile \ gone /\ missed' = gone /\ calls = <<>>
        /\ calls' \in {<<"watch", "scan">>, <<"scan", "watch">>}
        /\ UNCHANGED <<registered, everGone, configFile>>
    BY <1>2, ThreadNames, ExecuteStep DEF ReadConfig, db, env, config
  <2>2. Coming = {} /\ Coming' = Kinds
    <3>1. Coming = {}
      BY <2>1 DEF Coming, ToSet
    <3>2. CASE calls' = <<"watch", "scan">>
      BY <3>1, <3>2 DEF Coming, ToSet, Kinds
    <3>3. CASE calls' = <<"scan", "watch">>
      BY <3>1, <3>3 DEF Coming, ToSet, Kinds
    <3> QED BY <2>1, <3>1, <3>2, <3>3
  <2>3. \A kind \in Kinds, d \in Dirs : Gen(kind, d)' = Gen(kind, d)
    <3>1. UNCHANGED <<scanner, watcher>>
      BY <1>2 DEF Execute
    <3> QED BY <3>1 DEF Gen
  <2> QED BY <2>1, <2>2, <2>3 DEF ConfigInv
<1>3. CASE ~CallObserver /\ ~Execute(<<"config">>)
  <2>1. \A kind \in Kinds, d \in Dirs : Gen(kind, d)' = Gen(kind, d)
    BY <1>3, GensKept
  <2>2. CASE Environment
    <3>1. /\ UNCHANGED <<configDirs, calls, missed, registered>> /\ everGone \subseteq everGone'
          /\ \/ UNCHANGED <<queue, configFile>>
             \/ queue'[<<"config">>] # <<>>
      <4>1. ASSUME NEW D \in SUBSET Dirs, EditConfig(D)
            PROVE  /\ UNCHANGED <<configDirs, calls, missed, registered, everGone>>
                   /\ queue'[<<"config">>] # <<>>
        <5>1. queue' = [queue EXCEPT ![<<"config">>] = Append(@, ReadAgain)]
          BY <4>1 DEF EditConfig, Push, ReadAgain
        <5>2. queue'[<<"config">>] = Append(queue[<<"config">>], ReadAgain) /\ queue[<<"config">>] \in Seq({ReadAgain})
          BY <5>1, ThreadNames DEF Shape, QueueShape
        <5> QED BY <4>1, <5>2 DEF EditConfig, env, db
      <4>2. CASE \/ \E p \in Files : Write(p) \/ Delete(p) \/ \E q \in Files : Rename(p, q)
                 \/ \E d \in Dirs : Vanish(d) \/ Return(d)
        BY <4>2 DEF Write, Delete, Rename, Vanish, Return, config, db
      <4> QED BY <2>2, <4>1, <4>2 DEF Environment
    <3>2. Coming' = Coming
      BY <3>1 DEF Coming
    <3> QED BY <2>1, <3>1, <3>2 DEF ConfigInv
  <2>3. CASE ~Environment
    <3>1. /\ UNCHANGED <<configDirs, calls, missed, registered, everGone, configFile>>
          /\ queue'[<<"config">>] = queue[<<"config">>]
      <4>1. ASSUME NEW t \in Threads \ {<<"config">>}, Execute(t)
            PROVE  /\ UNCHANGED <<configDirs, calls, missed, registered, everGone, configFile>>
                   /\ queue'[<<"config">>] = queue[<<"config">>]
        BY <4>1, ThreadNames, ExecuteStep, RunTyped DEF env, config, db
      <4>2. ASSUME NEW d \in Dirs, ScanPush(d)
            PROVE  queue'[<<"config">>] = queue[<<"config">>]
        BY <4>2, ThreadNames, ScanPushStep DEF Push, Shape, QueueShape
      <4>3. ASSUME NEW d \in Dirs, WatchPush(d)
            PROVE  queue'[<<"config">>] = queue[<<"config">>]
        BY <4>3, ThreadNames, WatchPushStep DEF Push, Shape, QueueShape
      <4>4. ASSUME NEW d \in Dirs, WatchNext(d)
            PROVE  queue'[<<"config">>] = queue[<<"config">>]
        BY <4>4, ThreadNames, WatchNextStep DEF Shape, QueueShape
      <4>5. ASSUME NEW d \in Dirs, NEW p \in Files, ScanNext(d, p)
            PROVE  queue'[<<"config">>] = queue[<<"config">>]
        BY <4>5 DEF ScanNext
      <4>6. CASE \E d \in Dirs : \/ ScanPush(d) \/ WatchNext(d) \/ WatchPush(d)
                                 \/ \E p \in Files : ScanNext(d, p)
        BY <4>2, <4>3, <4>4, <4>5, <4>6
           DEF ScanPush, ScanNext, ScanRest, WatchNext, WatchPush, WatchRest, env, config, db
      <4>7. CASE UNCHANGED vars
        BY <4>7 DEF vars, env, config, db
      <4> QED BY <1>3, <2>3, <4>1, <4>6, <4>7 DEF Next, Daemon
    <3>2. Coming' = Coming
      BY <3>1 DEF Coming
    <3> QED BY <2>1, <3>1, <3>2 DEF ConfigInv
  <2> QED BY <2>2, <2>3
<1> QED BY <1>1, <1>2, <1>3

LEMMA ConfigInit == Init => ConfigInv
<1> SUFFICES ASSUME Init PROVE ConfigInv
  OBVIOUS
<1>1. Coming = Kinds
  BY DEF Init, Coming, ToSet, Kinds
<1>2. \A kind \in Kinds, d \in Dirs : Gen(kind, d) = 0
  BY DEF Init, Gen, Scanner, Watcher
<1> QED BY <1>1, <1>2 DEF Init, ConfigInv

LEMMA Configured == Spec => []ConfigInv
<1>1. (TypeOK /\ Shape) /\ ConfigInv /\ [Next]_vars => ConfigInv'
  BY ConfigStep
<1> QED BY ConfigInit, <1>1, Typed, PTL DEF Spec

\* Once nothing about the configuration is left to do, whatever edits, directories that
\* vanished and commands came in between, it is the last edit that is in force.
THEOREM LastEditApplies == Spec => []ConfigurationApplied
<1>1. TypeOK /\ Shape /\ ConfigInv => ConfigurationApplied
  <2> SUFFICES ASSUME TypeOK, Shape, ConfigInv, calls = <<>>, queue[<<"config">>] = <<>>
               PROVE  /\ \A d \in configFile \ missed :
                           d \in registered /\ scanner[d].gen > 0 /\ watcher[d].gen > 0
                      /\ \A d \in Dirs : scanner[d].gen > 0 \/ watcher[d].gen > 0 =>
                           d \in configFile /\ d \in registered
                      /\ registered \ configFile \subseteq everGone
    BY DEF ConfigurationApplied
  <2>1. Coming = {} /\ configFile \subseteq Dirs /\ registered \subseteq Dirs
    BY DEF Coming, ToSet, TypeOK
  <2>2. configFile \ missed \subseteq configDirs /\ configDirs \subseteq configFile
    BY DEF ConfigInv
  <2>3. ASSUME NEW kind \in Kinds, NEW d \in Dirs
        PROVE  /\ d \in configDirs \ missed => Gen(kind, d) > 0 /\ d \in registered
               /\ Gen(kind, d) > 0 => d \in configDirs /\ d \in registered
               /\ d \in registered \ everGone => Gen(kind, d) > 0
    BY <2>1 DEF ConfigInv
  <2>4. \A d \in Dirs : Gen("scan", d) = scanner[d].gen /\ Gen("watch", d) = watcher[d].gen
    BY DEF Gen
  <2> QED BY <2>1, <2>2, <2>3, <2>4 DEF Kinds
<1> QED BY <1>1, Typed, Configured, PTL

-----------------------------------------------------------------------------
(* What comes last in a sequence *)

\* Nothing of B is in s; something of A is, with nothing of B after it.
Without(s, B) == \A i \in 1 .. Len(s) : s[i] \notin B
EndsWith(s, A, B) == \E i \in 1 .. Len(s) : s[i] \in A /\ \A j \in i + 1 .. Len(s) : s[j] \notin B

LEMMA WithoutSteps ==
  ASSUME NEW S, NEW s \in Seq(S), NEW B
  PROVE  /\ \A x \in S : x \notin B /\ Without(s, B) => Without(Append(s, x), B)
         /\ \A t \in Seq(S) : Without(s, B) /\ Without(t, B) => Without(s \o t, B)
         /\ s # <<>> /\ Without(s, B) => Without(Tail(s), B) /\ Head(s) \notin B
<1>1. ASSUME NEW x \in S, x \notin B, Without(s, B)
      PROVE  Without(Append(s, x), B)
  <2>1. /\ Len(s) \in Nat /\ Len(Append(s, x)) = Len(s) + 1
        /\ \A i \in 1 .. Len(s) : Append(s, x)[i] = s[i]
        /\ Append(s, x)[Len(s) + 1] = x
    OBVIOUS
  <2> QED BY <1>1, <2>1 DEF Without
<1>2. ASSUME NEW t \in Seq(S), Without(s, B), Without(t, B)
      PROVE  Without(s \o t, B)
  <2> DEFINE u == s \o t
  <2>1. /\ Len(s) \in Nat /\ Len(t) \in Nat /\ Len(u) = Len(s) + Len(t)
        /\ \A i \in 1 .. Len(s) : u[i] = s[i]
        /\ \A i \in 1 .. Len(t) : u[Len(s) + i] = t[i]
    OBVIOUS
  <2> HIDE DEF u
  <2>2. \A i \in Len(s) + 1 .. Len(u) : u[i] \notin B
    <3> SUFFICES ASSUME NEW i \in Len(s) + 1 .. Len(u) PROVE u[i] \notin B
      OBVIOUS
    <3>1. i - Len(s) \in 1 .. Len(t) /\ Len(s) + (i - Len(s)) = i
      BY <2>1
    <3> QED BY <1>2, <2>1, <3>1 DEF Without
  <2>3. Without(u, B)
    BY <1>2, <2>1, <2>2 DEF Without
  <2> QED BY <2>3 DEF u
<1>3. ASSUME s # <<>>, Without(s, B)
      PROVE  Without(Tail(s), B) /\ Head(s) \notin B
  <2>1. /\ Len(s) \in Nat /\ Len(Tail(s)) = Len(s) - 1 /\ Len(s) > 0 /\ Head(s) = s[1]
        /\ \A i \in 1 .. Len(Tail(s)) : Tail(s)[i] = s[i + 1]
    BY <1>3, HeadTailProperties
  <2> QED BY <1>3, <2>1 DEF Without
<1> QED BY <1>1, <1>2, <1>3

LEMMA EndsSteps ==
  ASSUME NEW S, NEW s \in Seq(S), NEW A, NEW B
  PROVE  /\ \A x \in S : x \notin B /\ EndsWith(s, A, B) => EndsWith(Append(s, x), A, B)
         /\ \A x \in S : x \in A => EndsWith(Append(s, x), A, B)
         /\ \A t \in Seq(S) : Without(t, B) /\ EndsWith(s, A, B) => EndsWith(s \o t, A, B)
         /\ s # <<>> /\ EndsWith(s, A, B) => \/ EndsWith(Tail(s), A, B)
                                           \/ (Head(s) \in A /\ Without(Tail(s), B))
         /\ EndsWith(s, A, B) => \E i \in 1 .. Len(s) : s[i] \in A
<1>1. ASSUME NEW x \in S
      PROVE  /\ x \notin B /\ EndsWith(s, A, B) => EndsWith(Append(s, x), A, B)
             /\ x \in A => EndsWith(Append(s, x), A, B)
  <2> DEFINE u == Append(s, x)
  <2>1. /\ Len(s) \in Nat /\ Len(u) = Len(s) + 1
        /\ \A i \in 1 .. Len(s) : u[i] = s[i]
        /\ u[Len(s) + 1] = x
    OBVIOUS
  <2> HIDE DEF u
  <2>2. ASSUME x \notin B, EndsWith(s, A, B)
        PROVE  EndsWith(u, A, B)
    <3>1. PICK i \in 1 .. Len(s) : s[i] \in A /\ \A j \in i + 1 .. Len(s) : s[j] \notin B
      BY <2>2 DEF EndsWith
    <3>2. i \in 1 .. Len(u) /\ u[i] \in A
      BY <2>1, <3>1
    <3>3. \A j \in i + 1 .. Len(u) : u[j] \notin B
      BY <2>1, <2>2, <3>1
    <3> QED BY <3>2, <3>3 DEF EndsWith
  <2>3. x \in A => EndsWith(u, A, B)
    BY <2>1 DEF EndsWith
  <2> QED BY <2>2, <2>3 DEF u
<1>2. ASSUME NEW t \in Seq(S), Without(t, B), EndsWith(s, A, B)
      PROVE  EndsWith(s \o t, A, B)
  <2> DEFINE u == s \o t
  <2>1. /\ Len(s) \in Nat /\ Len(t) \in Nat /\ Len(u) = Len(s) + Len(t)
        /\ \A i \in 1 .. Len(s) : u[i] = s[i]
        /\ \A i \in 1 .. Len(t) : u[Len(s) + i] = t[i]
    OBVIOUS
  <2> HIDE DEF u
  <2>2. \A i \in Len(s) + 1 .. Len(u) : u[i] \notin B
    <3> SUFFICES ASSUME NEW i \in Len(s) + 1 .. Len(u) PROVE u[i] \notin B
      OBVIOUS
    <3>1. i - Len(s) \in 1 .. Len(t) /\ Len(s) + (i - Len(s)) = i
      BY <2>1
    <3> QED BY <1>2, <2>1, <3>1 DEF Without
  <2>3. PICK i \in 1 .. Len(s) : s[i] \in A /\ \A j \in i + 1 .. Len(s) : s[j] \notin B
    BY <1>2 DEF EndsWith
  <2>4. i \in 1 .. Len(u) /\ u[i] \in A
    BY <2>1, <2>3
  <2>5. \A j \in i + 1 .. Len(u) : u[j] \notin B
    BY <2>1, <2>2, <2>3
  <2>6. EndsWith(u, A, B)
    BY <2>4, <2>5 DEF EndsWith
  <2> QED BY <2>6 DEF u
<1>3. ASSUME s # <<>>, EndsWith(s, A, B)
      PROVE  EndsWith(Tail(s), A, B) \/ (Head(s) \in A /\ Without(Tail(s), B))
  <2> DEFINE u == Tail(s)
  <2>1. /\ Len(s) \in Nat /\ Len(u) = Len(s) - 1 /\ Len(s) > 0 /\ Head(s) = s[1]
        /\ \A i \in 1 .. Len(u) : u[i] = s[i + 1]
    BY <1>3, HeadTailProperties
  <2> HIDE DEF u
  <2>2. PICK i \in 1 .. Len(s) : s[i] \in A /\ \A j \in i + 1 .. Len(s) : s[j] \notin B
    BY <1>3 DEF EndsWith
  <2>3. CASE i = 1
    <3>1. Head(s) \in A /\ Without(u, B)
      BY <2>1, <2>2, <2>3 DEF Without
    <3> QED BY <3>1 DEF u
  <2>4. CASE i # 1
    <3>1. i - 1 \in 1 .. Len(u) /\ u[i - 1] \in A
      BY <2>1, <2>2, <2>4
    <3>2. \A j \in (i - 1) + 1 .. Len(u) : u[j] \notin B
      BY <2>1, <2>2, <2>4
    <3>3. EndsWith(u, A, B)
      BY <3>1, <3>2 DEF EndsWith
    <3> QED BY <3>3 DEF u
  <2> QED BY <2>3, <2>4
<1>4. EndsWith(s, A, B) => \E i \in 1 .. Len(s) : s[i] \in A
  BY DEF EndsWith
<1> QED BY <1>1, <1>2, <1>3, <1>4

-----------------------------------------------------------------------------
(* A write on its way from the disk to the index *)

\* The events and the commands about p, and those that bring its contents.
Mentions(p) == {e \in Events(DirOf(p)) : p \in {e.path, e.old}}
Changes(p)  == {e \in Events(DirOf(p)) : e.path = p /\ e.action \in {"add", "modified"}}
Touches(p)  == {c \in Work(DirOf(p)) : p \in {c.path, c.to}}
Puts(p)     == {Command("update", p, p, disk[p])}

Heard(p)  == watcher[DirOf(p)].events
Pushed(p) == queue[<<"watch", DirOf(p), watcher[DirOf(p)].gen>>]

\* The stages of the way, in turn; nothing that concerns p comes after it.
InEvents(p) == EndsWith(Heard(p), Changes(p), Mentions(p))
InHand(p)   == /\ Without(Heard(p), Mentions(p))
               /\ watcher[DirOf(p)].held = <<p, disk[p]>>
InQueue(p)  == /\ Without(Heard(p), Mentions(p))
               /\ watcher[DirOf(p)].held \notin {p} \X Versions
               /\ EndsWith(Pushed(p), Puts(p), Touches(p))
Done(p)     == /\ Without(Heard(p), Mentions(p))
               /\ watcher[DirOf(p)].held \notin {p} \X Versions
               /\ Without(Pushed(p), Touches(p))
               /\ UpToDate(p) \/ lastRun[p] \in {"scan", "dangling", "twin", "failed"}
OnItsWay(p) == InEvents(p) \/ InHand(p) \/ InQueue(p) \/ Done(p)

WritesInv ==
  \A p \in witnessed : /\ IsFile(p) /\ watcher[DirOf(p)].gen > 0
                       /\ terminated \/ OnItsWay(p)

\* What the stages depend on.
LEMMA WayKept ==
  ASSUME NEW p, NEW d, d = DirOf(p), OnItsWay(p), disk'[p] = disk[p],
         watcher'[d].events = watcher[d].events, watcher'[d].held = watcher[d].held,
         watcher'[d].gen = watcher[d].gen,
         queue'[<<"watch", d, watcher[d].gen>>] = queue[<<"watch", d, watcher[d].gen>>],
         UpToDate(p) => UpToDate(p)' \/ lastRun'[p] = "twin",
         lastRun[p] \in {"scan", "dangling", "twin", "failed"} =>
           lastRun'[p] \in {"scan", "dangling", "twin", "failed"} \/ UpToDate(p)'
  PROVE  OnItsWay(p)'
<1>1. /\ Heard(p)' = Heard(p) /\ Pushed(p)' = Pushed(p) /\ Puts(p)' = Puts(p)
      /\ watcher'[DirOf(p)].held = watcher[DirOf(p)].held
  BY DEF Heard, Pushed, Puts
<1>2. CASE InEvents(p)
  BY <1>1, <1>2 DEF InEvents, OnItsWay
<1>3. CASE InHand(p)
  BY <1>1, <1>3 DEF InHand, OnItsWay
<1>4. CASE InQueue(p)
  BY <1>1, <1>4 DEF InQueue, OnItsWay
<1>5. CASE Done(p)
  BY <1>1, <1>5 DEF Done, OnItsWay
<1> QED BY <1>2, <1>3, <1>4, <1>5 DEF OnItsWay

\* One more event about another file.
LEMMA WayHeard ==
  ASSUME Shape, NEW p \in Files, NEW d \in Dirs, d = DirOf(p), OnItsWay(p), disk'[p] = disk[p],
         NEW e \in Events(d), p \notin {e.path, e.old},
         watcher'[d].events = Append(watcher[d].events, e), watcher'[d].held = watcher[d].held,
         watcher'[d].gen = watcher[d].gen, UNCHANGED <<queue, index>>, lastRun'[p] = lastRun[p]
  PROVE  OnItsWay(p)'
<1>1. /\ Pushed(p)' = Pushed(p) /\ Puts(p)' = Puts(p)
      /\ watcher'[DirOf(p)].held = watcher[DirOf(p)].held
      /\ Heard(p)' = Append(Heard(p), e)
  BY DEF Heard, Pushed, Puts
<1>2. UpToDate(p)' <=> UpToDate(p)
  BY DEF UpToDate
<1>3. Heard(p) \in Seq(Events(d)) /\ e \notin Mentions(p)
  BY DEF Shape, WatcherShape, WatcherOf, Heard, Mentions
<1>4. Without(Heard(p), Mentions(p)) => Without(Heard(p)', Mentions(p))
  BY <1>1, <1>3, WithoutSteps
<1>5. EndsWith(Heard(p), Changes(p), Mentions(p)) => EndsWith(Heard(p)', Changes(p), Mentions(p))
  BY <1>1, <1>3, EndsSteps
<1>6. CASE InEvents(p)
  BY <1>5, <1>6 DEF InEvents, OnItsWay
<1>7. CASE InHand(p)
  BY <1>1, <1>4, <1>7 DEF InHand, OnItsWay
<1>8. CASE InQueue(p)
  BY <1>1, <1>4, <1>8 DEF InQueue, OnItsWay
<1>9. CASE Done(p)
  BY <1>1, <1>2, <1>4, <1>9 DEF Done, OnItsWay
<1> QED BY <1>6, <1>7, <1>8, <1>9 DEF OnItsWay

\* The watcher of p takes an event.
LEMMA WayNext ==
  ASSUME TypeOK, Shape, NEW p \in Files, IsFile(p), OnItsWay(p), WatchNext(DirOf(p))
  PROVE  terminated' \/ OnItsWay(p)'
<1>1. PICK d \in Dirs : d = DirOf(p)
  BY OwnFiles
<1>2. PICK t : t = <<"watch", d, watcher[d].gen>>
  OBVIOUS
<1>3. PICK e \in Events(d), reads \in BOOLEAN :
        /\ reads <=> e.action \in {"add", "modified"} /\ IsFile(e.path)
        /\ watcher[d].events # <<>> /\ e = Head(watcher[d].events) /\ watcher[d].held = <<>>
        /\ t \in Threads \ {<<"config">>}
        /\ watcher'[d] = [gen |-> watcher[d].gen, events |-> Tail(watcher[d].events),
                          held |-> IF reads THEN <<e.path, disk[e.path]>> ELSE <<>>,
                          deaf |-> watcher[d].deaf]
        /\ queue' = [queue EXCEPT ![t] = @ \o Reaction(e)]
  <2>1. PICK e \in Events(d) :
        /\ watcher[d].events # <<>> /\ e = Head(watcher[d].events) /\ watcher[d].held = <<>>
        /\ t \in Threads \ {<<"config">>}
        /\ watcher'[d] = [gen |-> watcher[d].gen, events |-> Tail(watcher[d].events),
                          held |-> IF e.action \in {"add", "modified"} /\ IsFile(e.path)
                                     THEN <<e.path, disk[e.path]>> ELSE <<>>,
                          deaf |-> watcher[d].deaf]
        /\ queue' = [queue EXCEPT ![t] = @ \o Reaction(e)]
    BY <1>1, <1>2, WatchNextStep, ZenonT(60)
  <2>2. CASE e.action \in {"add", "modified"} /\ IsFile(e.path)
    BY <2>1, <2>2
  <2>3. CASE ~(e.action \in {"add", "modified"} /\ IsFile(e.path))
    BY <2>1, <2>3
  <2> QED BY <2>2, <2>3
<1>4. UNCHANGED <<disk, index, lastRun, edits>>
  BY DEF WatchNext, WatchRest, env, db, config
<1>5. /\ Heard(p) = watcher[d].events /\ Heard(p)' = Tail(watcher[d].events)
      /\ Pushed(p) = queue[t] /\ Pushed(p)' = queue'[t] /\ Puts(p)' = Puts(p)
      /\ UpToDate(p)' <=> UpToDate(p)
  BY <1>1, <1>2, <1>3, <1>4 DEF Heard, Pushed, Puts, UpToDate
<1>6. /\ watcher[d].events \in Seq(Events(d)) /\ queue[t] \in Seq(Work(d))
  BY <1>2, <1>3 DEF Shape, WatcherShape, WatcherOf, QueueShape
<1>7. Reaction(e) \in Seq(Work(d)) /\ queue'[t] = queue[t] \o Reaction(e)
  BY <1>3, ReactionTyped DEF Shape, QueueShape
<1>8. watcher'[d].held = IF reads THEN <<e.path, disk[e.path]>> ELSE <<>>
  BY <1>3
<1>9. Without(Heard(p), Mentions(p)) =>
        /\ Without(Heard(p)', Mentions(p))
        /\ watcher'[d].held \notin {p} \X Versions
        /\ Without(Reaction(e), Touches(p))
  <2> SUFFICES ASSUME Without(Heard(p), Mentions(p))
               PROVE  /\ Without(Heard(p)', Mentions(p))
                      /\ watcher'[d].held \notin {p} \X Versions
                      /\ Without(Reaction(e), Touches(p))
    OBVIOUS
  <2>1. Without(Heard(p)', Mentions(p)) /\ e \notin Mentions(p)
    BY <1>3, <1>5, <1>6, WithoutSteps
  <2>2. p \notin {e.path, e.old}
    BY <1>1, <2>1 DEF Mentions
  <2>3. watcher'[d].held \notin {p} \X Versions
    BY <1>8, <2>2
  <2>4. Without(Reaction(e), Touches(p))
    BY <1>3, <2>2, ReactionTyped DEF Without, Touches
  <2> QED BY <2>1, <2>3, <2>4
<1>10. CASE InEvents(p)
  <2>1. \/ EndsWith(Tail(watcher[d].events), Changes(p), Mentions(p))
        \/ (e \in Changes(p) /\ Without(Tail(watcher[d].events), Mentions(p)))
    BY <1>3, <1>5, <1>6, <1>10, EndsSteps DEF InEvents
  <2>2. CASE EndsWith(Tail(watcher[d].events), Changes(p), Mentions(p))
    BY <1>5, <2>2 DEF InEvents, OnItsWay
  <2>3. CASE e \in Changes(p) /\ Without(Tail(watcher[d].events), Mentions(p))
    <3>1. reads /\ e.path = p
      BY <1>3, <2>3 DEF Changes
    <3>2. watcher'[DirOf(p)].held = <<p, disk'[p]>>
      BY <1>1, <1>4, <1>8, <3>1
    <3> QED BY <1>5, <2>3, <3>2 DEF InHand, OnItsWay
  <2> QED BY <2>1, <2>2, <2>3
<1>11. CASE InHand(p)
  <2>1. <<p, disk[p]>> # <<>>
    OBVIOUS
  <2> QED BY <1>1, <1>3, <1>11, <2>1 DEF InHand
<1>12. CASE InQueue(p)
  <2>1. EndsWith(queue'[t], Puts(p), Touches(p))
    BY <1>5, <1>6, <1>7, <1>9, <1>12, EndsSteps DEF InQueue
  <2> QED BY <1>1, <1>5, <1>9, <1>12, <2>1 DEF InQueue, OnItsWay
<1>13. CASE Done(p)
  <2>1. Without(queue'[t], Touches(p))
    BY <1>5, <1>6, <1>7, <1>9, <1>13, WithoutSteps DEF Done
  <2> QED BY <1>1, <1>4, <1>5, <1>9, <1>13, <2>1 DEF Done, OnItsWay
<1> QED BY <1>10, <1>11, <1>12, <1>13 DEF OnItsWay

\* The watcher of p pushes what it has read.
LEMMA WayPush ==
  ASSUME TypeOK, Shape, NEW p \in Files, OnItsWay(p), WatchPush(DirOf(p))
  PROVE  terminated' \/ OnItsWay(p)'
<1>1. PICK d \in Dirs : d = DirOf(p)
  BY OwnFiles
<1>2. PICK t : t = <<"watch", d, watcher[d].gen>>
  OBVIOUS
<1>3. PICK q \in Own(d), v \in Versions :
        /\ watcher[d].held = <<q, v>> /\ t \in Threads \ {<<"config">>}
        /\ watcher'[d] = [gen |-> watcher[d].gen, events |-> watcher[d].events,
                          held |-> <<>>, deaf |-> watcher[d].deaf]
        /\ IF IsFile(q) THEN Push(t, Command("update", q, q, v)) ELSE terminated' = TRUE
  BY <1>1, <1>2, WatchPushStep
<1>4. UNCHANGED <<disk, index, lastRun, edits>>
  BY DEF WatchPush, WatchRest, env, db, config
<1>5. CASE ~IsFile(q)
  BY <1>3, <1>5
<1>6. CASE IsFile(q)
  <2>1. PICK c : c = Command("update", q, q, v)
    OBVIOUS
  <2>2. /\ Heard(p)' = Heard(p) /\ watcher'[DirOf(p)].held = <<>>
        /\ Pushed(p) = queue[t] /\ Pushed(p)' = Append(queue[t], c) /\ Puts(p)' = Puts(p)
        /\ UpToDate(p)' <=> UpToDate(p)
    <3>1. queue'[t] = Append(queue[t], c)
      BY <1>3, <1>6, <2>1 DEF Push, Shape, QueueShape
    <3>2. Heard(p)' = Heard(p) /\ watcher'[DirOf(p)].held = <<>> /\ watcher'[DirOf(p)].gen = watcher[DirOf(p)].gen
      BY <1>1, <1>3 DEF Heard
    <3>3. Pushed(p) = queue[t] /\ Pushed(p)' = Append(queue[t], c)
      BY <1>1, <1>2, <3>1, <3>2 DEF Pushed
    <3>4. UpToDate(p)' <=> UpToDate(p)
      BY <1>4 DEF UpToDate
    <3> QED BY <1>4, <3>2, <3>3, <3>4 DEF Puts
  <2>3. queue[t] \in Seq(Work(d)) /\ c \in Work(d)
    BY <1>2, <1>3, <2>1, CountAssumption DEF Shape, QueueShape, Command, Work, Versions
  <2>4. q # p => c \notin Touches(p)
    BY <2>1 DEF Touches, Command
  <2>5. watcher[d].held \notin {p} \X Versions => q # p
    BY <1>3
  <2>6. CASE InEvents(p)
    BY <2>2, <2>6 DEF InEvents, OnItsWay
  <2>7. CASE InHand(p)
    <3>1. q = p /\ v = disk[p]
      BY <1>1, <1>3, <2>7 DEF InHand
    <3>2. c \in Puts(p)
      BY <2>1, <3>1 DEF Puts
    <3>3. EndsWith(Append(queue[t], c), Puts(p), Touches(p))
      BY <2>3, <3>2, EndsSteps
    <3> QED BY <2>2, <2>7, <3>3 DEF InHand, InQueue, OnItsWay
  <2>8. CASE InQueue(p)
    <3>1. EndsWith(Append(queue[t], c), Puts(p), Touches(p))
      BY <1>1, <2>2, <2>3, <2>4, <2>5, <2>8, EndsSteps DEF InQueue
    <3> QED BY <2>2, <2>8, <3>1 DEF InQueue, OnItsWay
  <2>9. CASE Done(p)
    <3>1. Without(Append(queue[t], c), Touches(p))
      BY <1>1, <2>2, <2>3, <2>4, <2>5, <2>9, WithoutSteps DEF Done
    <3> QED BY <1>4, <2>2, <2>9, <3>1 DEF Done, OnItsWay
  <2> QED BY <2>6, <2>7, <2>8, <2>9 DEF OnItsWay
<1> QED BY <1>5, <1>6

\* What a command does to the documents of p.
LEMMA RunOn ==
  ASSUME TypeOK, NEW t \in Threads \ {<<"config">>}, NEW c \in Work(t[2]), Run(c, t), UNCHANGED disk,
         NEW p \in Files
  PROVE  /\ UpToDate(p) => UpToDate(p)' \/ lastRun'[p] = "twin" \/ p \in {c.path, c.to}
         /\ p \notin {c.path, c.to} => lastRun'[p] \in {lastRun[p], "twin"}
         /\ p \in {c.path, c.to} /\ HasRoot(c.path) =>
              \/ lastRun'[p] = IF Dangling(t) THEN "dangling" ELSE t[1]
              \/ UNCHANGED index /\ lastRun'[p] \in {lastRun[p], "failed"}
         /\ ~HasRoot(c.path) => UNCHANGED <<index, lastRun>>
         /\ c = Command("update", p, p, disk[p]) /\ HasRoot(p) =>
              UpToDate(p)' \/ lastRun'[p] = "failed"
<1>1. c.path \in Files /\ c.to \in Files /\ (c.op = "update" => c.to = c.path)
  BY ThreadNames DEF Work, Own
<1>2. CASE ~HasRoot(c.path)
  <2>1. UNCHANGED <<index, lastRun>>
    BY <1>2 DEF Run
  <2>2. UpToDate(p)' <=> UpToDate(p)
    BY <2>1 DEF UpToDate
  <2>3. c = Command("update", p, p, disk[p]) => c.path = p
    BY DEF Command
  <2> QED BY <1>2, <2>1, <2>2, <2>3
<1>3. CASE /\ HasRoot(c.path) /\ Touch(c, t)
           /\ \/ c.op = "update" /\ Db!Put(c.path, {c.version})
              \/ c.op = "remove" /\ Db!Drop(c.path)
              \/ c.op = "move" /\ Db!Move(c.path, c.to)
  <2>1. /\ Touch(c, t)
        /\ \/ c.op = "update" /\ Db!Put(c.path, {c.version})
           \/ c.op = "remove" /\ Db!Drop(c.path)
           \/ c.op = "move" /\ Db!Move(c.path, c.to)
    BY <1>3
  <2>2. lastRun'[p] = IF p \in {c.path, c.to} THEN IF Dangling(t) THEN "dangling" ELSE t[1]
                      ELSE IF c.op # "update" /\ p \in Db!Twins(c.path) THEN "twin" ELSE lastRun[p]
    BY <2>1 DEF Touch
  <2>3. ASSUME p \notin {c.path, c.to}, lastRun'[p] # "twin"
        PROVE  UpToDate(p)' <=> UpToDate(p)
    <3>1. c.op # "update" => p \notin Db!Twins(c.path)
      BY <2>2, <2>3
    <3>2. \A y : y.path = p => (y \in index' <=> y \in index)
      <4>1. CASE c.op = "update" /\ Db!Put(c.path, {c.version})
        BY <2>3, <4>1 DEF Db!Put
      <4>2. CASE c.op = "remove" /\ Db!Drop(c.path)
        BY <2>3, <3>1, <4>2 DEF Db!Drop
      <4>3. CASE c.op = "move" /\ Db!Move(c.path, c.to)
        BY <2>3, <3>1, <4>3 DEF Db!Move
      <4> QED BY <2>1, <4>1, <4>2, <4>3
    <3>3. {y \in index' : y.path = p} = {y \in index : y.path = p}
      BY <3>2
    <3> QED BY <3>3 DEF UpToDate
  <2>4. ASSUME c = Command("update", p, p, disk[p])
        PROVE  UpToDate(p)'
    <3>1. c.op = "update" /\ c.path = p /\ c.version = disk[p]
      BY <2>4 DEF Command
    <3>2. Db!Put(p, {disk[p]})
      BY <2>1, <3>1
    <3>3. {y \in index' : y.path = p} = {[path |-> p, words |-> {disk[p]}]}
      BY <3>2 DEF Db!Put
    <3>4. PICK r : r = [path |-> p, words |-> {disk[p]}]
      OBVIOUS
    <3>5. {x.words : x \in {r}} = {r.words} /\ r.words = {disk[p]}
      BY <3>4
    <3> QED BY <3>3, <3>4, <3>5 DEF UpToDate
  <2> QED BY <1>3, <2>2, <2>3, <2>4
<1>4. CASE HasRoot(c.path) /\ Fail(c) /\ UNCHANGED index
  <2>1. lastRun'[p] = IF p = c.path /\ c.op = "update" /\ c.version = disk[p]
                        THEN "failed" ELSE lastRun[p]
    BY <1>4 DEF Fail
  <2>2. UpToDate(p)' <=> UpToDate(p)
    BY <1>4 DEF UpToDate
  <2>3. c = Command("update", p, p, disk[p]) => lastRun'[p] = "failed"
    BY <2>1 DEF Command
  <2> QED BY <1>4, <2>1, <2>2, <2>3
<1> QED BY <1>2, <1>3, <1>4 DEF Run

\* A command of another thread does not carry the name of p, or makes lastRun say so.
LEMMA WayElsewhere ==
  ASSUME TypeOK, Shape, NEW p \in Files, OnItsWay(p), NEW t \in Threads \ {<<"config">>},
         t # <<"watch", DirOf(p), watcher[DirOf(p)].gen>>, NEW c \in Work(t[2]), Run(c, t),
         UNCHANGED <<disk, watcher>>, \A u \in Threads \ {t} : queue'[u] = queue[u],
         watcher[DirOf(p)].gen > 0
  PROVE  OnItsWay(p)'
<1>1. PICK d \in Dirs : d = DirOf(p)
  BY OwnFiles
<1>2. /\ t[1] \in {"scan", "watch"} /\ t = <<t[1], t[2], t[3]>> /\ t[2] \in Dirs
  BY ThreadNames DEF Kinds
<1>3. watcher[d].gen \in 1 .. MaxGen
  BY <1>1, CountAssumption DEF Shape, WatcherShape, WatcherOf, MaxGen
<1>4. queue'[<<"watch", d, watcher[d].gen>>] = queue[<<"watch", d, watcher[d].gen>>]
  BY <1>1, <1>3, ThreadNames
<1>5. p \in {c.path, c.to} => t[2] = d
  BY <1>1 DEF Work, Own
<1>6. p \in {c.path, c.to} /\ t[1] = "watch" => Dangling(t)
  BY <1>1, <1>2, <1>5 DEF Dangling
<1>7. UpToDate(p) => UpToDate(p)' \/ lastRun'[p] \in {"scan", "dangling", "twin", "failed"}
  <2>1. ~HasRoot(c.path) => (UpToDate(p)' <=> UpToDate(p))
    BY RunOn DEF UpToDate
  <2>2. p \in {c.path, c.to} /\ HasRoot(c.path) => lastRun'[p] \in {"scan", "dangling"} \/ UNCHANGED index
    BY <1>2, <1>6, RunOn
  <2>3. UpToDate(p) => UpToDate(p)' \/ lastRun'[p] = "twin" \/ p \in {c.path, c.to}
    BY RunOn
  <2>4. UNCHANGED index => (UpToDate(p)' <=> UpToDate(p))
    BY DEF UpToDate
  <2> QED BY <2>1, <2>2, <2>3, <2>4
<1>8. lastRun[p] \in {"scan", "dangling", "twin", "failed"} => lastRun'[p] \in {"scan", "dangling", "twin", "failed"}
  <2>1. ~HasRoot(c.path) => lastRun' = lastRun
    BY RunOn
  <2>2. p \in {c.path, c.to} /\ HasRoot(c.path) => lastRun'[p] \in {"scan", "dangling", lastRun[p], "failed"}
    BY <1>2, <1>6, RunOn
  <2>3. p \notin {c.path, c.to} => lastRun'[p] \in {lastRun[p], "twin"}
    BY RunOn
  <2> QED BY <2>1, <2>2, <2>3
<1>9. /\ Heard(p)' = Heard(p) /\ Pushed(p)' = Pushed(p) /\ Puts(p)' = Puts(p)
      /\ watcher'[DirOf(p)].held = watcher[DirOf(p)].held
  BY <1>1, <1>4 DEF Heard, Pushed, Puts
<1>10. CASE InEvents(p)
  BY <1>9, <1>10 DEF InEvents, OnItsWay
<1>11. CASE InHand(p)
  BY <1>9, <1>11 DEF InHand, OnItsWay
<1>12. CASE InQueue(p)
  BY <1>9, <1>12 DEF InQueue, OnItsWay
<1>13. CASE Done(p)
  BY <1>7, <1>8, <1>9, <1>13 DEF Done, OnItsWay
<1> QED BY <1>10, <1>11, <1>12, <1>13 DEF OnItsWay

\* A command of the watcher of p.
LEMMA WayHere ==
  ASSUME TypeOK, Shape, NEW p \in Files, OnItsWay(p), HasRoot(p), NEW t \in Threads \ {<<"config">>},
         t = <<"watch", DirOf(p), watcher[DirOf(p)].gen>>, NEW c, c = Head(queue[t]), queue[t] # <<>>,
         Run(c, t), UNCHANGED <<disk, watcher>>, queue'[t] = Tail(queue[t])
  PROVE  OnItsWay(p)'
<1>1. PICK d \in Dirs : d = DirOf(p)
  BY OwnFiles
<1>2. queue[t] \in Seq(Work(d)) /\ t[2] = d
  BY <1>1 DEF Shape, QueueShape
<1>3. c \in Work(d) /\ c \in Work(t[2])
  BY <1>2, HeadTailProperties
<1>4. /\ Heard(p)' = Heard(p) /\ Pushed(p) = queue[t] /\ Pushed(p)' = Tail(queue[t]) /\ Puts(p)' = Puts(p)
      /\ watcher'[DirOf(p)].held = watcher[DirOf(p)].held
  BY <1>1 DEF Heard, Pushed, Puts
<1>5. CASE InEvents(p)
  BY <1>4, <1>5 DEF InEvents, OnItsWay
<1>6. CASE InHand(p)
  BY <1>4, <1>6 DEF InHand, OnItsWay
<1>7. CASE InQueue(p)
  <2>1. \/ EndsWith(Tail(queue[t]), Puts(p), Touches(p))
        \/ (c \in Puts(p) /\ Without(Tail(queue[t]), Touches(p)))
    BY <1>2, <1>4, <1>7, EndsSteps DEF InQueue
  <2>2. CASE EndsWith(Tail(queue[t]), Puts(p), Touches(p))
    BY <1>4, <1>7, <2>2 DEF InQueue, OnItsWay
  <2>3. CASE c \in Puts(p) /\ Without(Tail(queue[t]), Touches(p))
    <3>1. UpToDate(p)' \/ lastRun'[p] = "failed"
      BY <1>3, <2>3, RunOn DEF Puts
    <3> QED BY <1>4, <1>7, <2>3, <3>1 DEF InQueue, Done, OnItsWay
  <2> QED BY <2>1, <2>2, <2>3
<1>8. CASE Done(p)
  <2>1. Without(Tail(queue[t]), Touches(p)) /\ c \notin Touches(p)
    BY <1>2, <1>4, <1>8, WithoutSteps DEF Done
  <2>2. p \notin {c.path, c.to}
    BY <1>1, <1>3, <2>1 DEF Touches
  <2>3. UpToDate(p) => UpToDate(p)' \/ lastRun'[p] = "twin"
    BY <1>3, <2>2, RunOn
  <2>4. lastRun'[p] \in {lastRun[p], "twin"}
    BY <1>3, <2>2, RunOn
  <2> QED BY <1>4, <1>8, <2>1, <2>3, <2>4 DEF Done, OnItsWay
<1> QED BY <1>5, <1>6, <1>7, <1>8 DEF OnItsWay

\* An event about other files.
LEMMA WayNotified ==
  ASSUME Shape, NEW p \in Files, OnItsWay(p), disk'[p] = disk[p], NEW q \in Files,
         NEW e \in Events(DirOf(q)), p \notin {e.path, e.old}, Notified(q, e),
         UNCHANGED <<queue, index>>, lastRun'[p] = lastRun[p]
  PROVE  OnItsWay(p)' /\ watcher'[DirOf(p)].gen = watcher[DirOf(p)].gen
<1>0. WatcherShape
  BY DEF Shape
<1>1. PICK d \in Dirs : d = DirOf(p)
  BY OwnFiles
<1>2. UpToDate(p)' <=> UpToDate(p)
  BY DEF UpToDate
<1>3. CASE DirOf(q) = d /\ Watched(q)
  <2>1. /\ watcher'[d].gen = watcher[d].gen /\ watcher'[d].held = watcher[d].held
        /\ watcher'[d].events = Append(watcher[d].events, e)
    BY <1>0, <1>3, NotifiedStep
  <2>2. e \in Events(d)
    BY <1>3
  <2>3. OnItsWay(p)'
    BY <1>1, <2>1, <2>2, WayHeard
  <2> QED BY <1>1, <2>1, <2>3
<1>4. CASE ~(DirOf(q) = d /\ Watched(q))
  <2>1. watcher'[d] = watcher[d]
    BY <1>0, <1>4, NotifiedStep
  <2>2. OnItsWay(p)'
    BY <1>1, <1>2, <2>1, WayKept
  <2> QED BY <1>1, <2>1, <2>2
<1> QED BY <1>3, <1>4

LEMMA WritesEnvironment ==
  ASSUME TypeOK, Shape, WritesInv, Environment
  PROVE  WritesInv'
<1> SUFFICES ASSUME NEW p \in witnessed'
             PROVE  /\ IsFile(p)' /\ watcher'[DirOf(p)].gen > 0
                    /\ terminated' \/ OnItsWay(p)'
  BY DEF WritesInv
<1>0. terminated' = terminated
  BY DEF Environment, Write, Delete, Rename, Vanish, Return, EditConfig
<1>1. ASSUME p \in witnessed
      PROVE  /\ p \in Files /\ DirOf(p) \in Dirs /\ IsFile(p) /\ watcher[DirOf(p)].gen > 0
             /\ terminated \/ OnItsWay(p)
  BY <1>1, OwnFiles DEF WritesInv, TypeOK
<1>2. ASSUME NEW q \in Files, Write(q)
      PROVE  /\ IsFile(p)' /\ watcher'[DirOf(p)].gen > 0 /\ (terminated' \/ OnItsWay(p)')
  <2>1. PICK a \in {"add", "modified"} : Notified(q, Event(a, q, q))
    BY <1>2 DEF Write
  <2>2. /\ UNCHANGED <<queue, index>> /\ disk' = [disk EXCEPT ![q] = versions + 1]
        /\ lastRun' = [lastRun EXCEPT ![q] = "none"]
        /\ witnessed' = IF Watched(q) THEN witnessed \cup {q} ELSE witnessed \ {q}
    BY <1>2 DEF Write
  <2>3. PICK e : e = Event(a, q, q)
    OBVIOUS
  <2>4. e \in Events(DirOf(q)) /\ Notified(q, e) /\ e.path = q /\ e.old = q /\ e.action = a
    BY <2>1, <2>3, EventTyped DEF Event
  <2>5. CASE p = q
    <3>1. PICK d \in Dirs : d = DirOf(p)
      BY <2>5, OwnFiles
    <3>2. Watched(q) /\ WatcherShape
      BY <2>2, <2>5 DEF Shape
    <3>3. watcher'[d].gen > 0 /\ watcher'[d].events = Append(watcher[d].events, e)
      BY <2>4, <2>5, <3>1, <3>2, NotifiedStep DEF Watched
    <3>4. IsFile(p)'
      BY <2>2, <2>5 DEF IsFile, TypeOK
    <3>5. watcher[d].events \in Seq(Events(d)) /\ e \in Events(d)
      BY <2>4, <2>5, <3>1 DEF Shape, WatcherShape, WatcherOf
    <3>6. e \in Changes(p)
      BY <2>4, <2>5 DEF Changes
    <3>7. EndsWith(Append(watcher[d].events, e), Changes(p), Mentions(p))
      BY <3>5, <3>6, EndsSteps
    <3>8. InEvents(p)'
      BY <3>1, <3>3, <3>7 DEF InEvents, Heard
    <3> QED BY <3>1, <3>3, <3>4, <3>8 DEF OnItsWay
  <2>6. CASE p # q
    <3>1. p \in witnessed
      BY <2>2, <2>6
    <3>2. disk'[p] = disk[p] /\ p \notin {e.path, e.old} /\ lastRun'[p] = lastRun[p]
      BY <1>1, <2>2, <2>4, <2>6, <3>1 DEF TypeOK
    <3>3. WatcherShape /\ watcher'[DirOf(p)].gen = watcher[DirOf(p)].gen
      BY <1>1, <2>4, <3>1, NotifiedStep DEF Shape
    <3>4. OnItsWay(p) => OnItsWay(p)'
      BY <1>1, <2>2, <2>4, <3>1, <3>2, WayNotified
    <3> QED BY <1>0, <1>1, <3>1, <3>2, <3>3, <3>4 DEF IsFile
  <2> QED BY <2>5, <2>6
<1>3. ASSUME NEW q \in Files, Delete(q)
      PROVE  /\ IsFile(p)' /\ watcher'[DirOf(p)].gen > 0 /\ (terminated' \/ OnItsWay(p)')
  <2>1. PICK e : e = Event("delete", q, q)
    OBVIOUS
  <2>2. /\ UNCHANGED <<queue, index, lastRun>> /\ disk' = [disk EXCEPT ![q] = 0]
        /\ witnessed' = witnessed \ {q} /\ Notified(q, e)
    BY <1>3, <2>1 DEF Delete, db
  <2>3. e \in Events(DirOf(q)) /\ e.path = q /\ e.old = q
    BY <2>1, EventTyped DEF Event
  <2>4. p \in witnessed /\ p # q
    BY <2>2
  <2>5. disk'[p] = disk[p] /\ p \notin {e.path, e.old}
    BY <1>1, <2>2, <2>3, <2>4 DEF TypeOK
  <2>6. watcher'[DirOf(p)].gen = watcher[DirOf(p)].gen
    BY <1>1, <2>2, <2>3, <2>4, NotifiedStep DEF Shape
  <2>7. OnItsWay(p) => OnItsWay(p)'
    BY <1>1, <2>2, <2>3, <2>4, <2>5, WayNotified
  <2> QED BY <1>0, <1>1, <2>4, <2>5, <2>6, <2>7 DEF IsFile
<1>4. ASSUME NEW q \in Files, NEW r \in Files, Rename(q, r)
      PROVE  /\ IsFile(p)' /\ watcher'[DirOf(p)].gen > 0 /\ (terminated' \/ OnItsWay(p)')
  <2>1. PICK e : e = Event("moved", r, q)
    OBVIOUS
  <2>2. /\ UNCHANGED <<queue, index, lastRun>> /\ disk' = [disk EXCEPT ![r] = disk[q], ![q] = 0]
        /\ witnessed' = witnessed \ {q, r} /\ Notified(q, e) /\ DirOf(q) = DirOf(r)
    BY <1>4, <2>1 DEF Rename, db
  <2>3. e \in Events(DirOf(q)) /\ e.path = r /\ e.old = q
    BY <2>1, <2>2, EventTyped DEF Event
  <2>4. p \in witnessed /\ p # q /\ p # r
    BY <2>2
  <2>5. disk'[p] = disk[p] /\ p \notin {e.path, e.old}
    BY <1>1, <2>2, <2>3, <2>4 DEF TypeOK
  <2>6. watcher'[DirOf(p)].gen = watcher[DirOf(p)].gen
    BY <1>1, <2>2, <2>3, <2>4, NotifiedStep DEF Shape
  <2>7. OnItsWay(p) => OnItsWay(p)'
    BY <1>1, <2>2, <2>3, <2>4, <2>5, WayNotified
  <2> QED BY <1>0, <1>1, <2>4, <2>5, <2>6, <2>7 DEF IsFile
<1>5. ASSUME NEW f \in Dirs, Vanish(f)
      PROVE  /\ IsFile(p)' /\ watcher'[DirOf(p)].gen > 0 /\ (terminated' \/ OnItsWay(p)')
  <2>1. /\ UNCHANGED <<queue, index, lastRun>> /\ witnessed' = witnessed \ In(f)
        /\ disk' = [q \in Files |-> IF q \in In(f) THEN 0 ELSE disk[q]]
        /\ watcher' = [watcher EXCEPT ![f].deaf = watcher[f].gen > 0]
    BY <1>5 DEF Vanish, db
  <2>2. p \in witnessed /\ p \notin In(f)
    BY <2>1
  <2>3. disk'[p] = disk[p] /\ DirOf(p) # f
    BY <1>1, <2>1, <2>2, OwnFiles
  <2>4. watcher'[DirOf(p)] = watcher[DirOf(p)]
    BY <1>1, <2>1, <2>2, <2>3, VanishStep DEF Shape
  <2>5. UpToDate(p)' <=> UpToDate(p)
    BY <2>1, <2>3 DEF UpToDate
  <2>6. OnItsWay(p) => OnItsWay(p)'
    BY <1>1, <2>1, <2>2, <2>3, <2>4, <2>5, WayKept
  <2> QED BY <1>0, <1>1, <2>2, <2>3, <2>4, <2>6 DEF IsFile
<1>6. CASE \/ \E f \in Dirs : Return(f)
           \/ \E D \in SUBSET Dirs : EditConfig(D)
  <2>1. /\ UNCHANGED <<disk, watcher, index, lastRun, witnessed>>
        /\ \A u \in Threads \ {<<"config">>} : queue'[u] = queue[u]
    BY <1>6 DEF Return, EditConfig, Push, env, db, Shape, QueueShape
  <2>2. watcher[DirOf(p)].gen \in 1 .. MaxGen
    <3>1. p \in witnessed
      BY <2>1
    <3> QED BY <1>1, <3>1, CountAssumption DEF Shape, WatcherShape, WatcherOf, MaxGen
  <2>3. UpToDate(p)' <=> UpToDate(p)
    BY <2>1 DEF UpToDate
  <2>4. p \in witnessed
    BY <2>1
  <2>5. PICK d \in Dirs : d = DirOf(p)
    BY <1>1, <2>4
  <2>6. queue'[<<"watch", d, watcher[d].gen>>] = queue[<<"watch", d, watcher[d].gen>>]
    BY <2>1, <2>2, <2>5, ThreadNames
  <2>7. OnItsWay(p) => OnItsWay(p)'
    BY <1>1, <2>1, <2>3, <2>4, <2>5, <2>6, WayKept
  <2>8. disk' = disk /\ watcher' = watcher
    BY <2>1
  <2>9. IsFile(p)' /\ watcher'[DirOf(p)].gen > 0
    BY <1>1, <2>4, <2>8 DEF IsFile
  <2>10. terminated' \/ OnItsWay(p)'
    BY <1>0, <1>1, <2>4, <2>7, Zenon
  <2> QED BY <2>9, <2>10
<1> QED BY <1>2, <1>3, <1>4, <1>5, <1>6 DEF Environment

LEMMA WritesDaemon ==
  ASSUME TypeOK, Shape, ConfigInv, WritesInv, Daemon
  PROVE  WritesInv'
<1> SUFFICES ASSUME NEW p \in witnessed'
             PROVE  /\ IsFile(p)' /\ watcher'[DirOf(p)].gen > 0
                    /\ terminated' \/ OnItsWay(p)'
  BY DEF WritesInv
<1>1. witnessed' \subseteq witnessed /\ UNCHANGED disk
  <2>1. CASE CallObserver
    <3>1. PICK kind \in Kinds : Observe(kind)
      BY <2>1, NextCall
    <3>2. witnessed' \subseteq witnessed
      BY <3>1, ObserveStep
    <3> QED BY <2>1, <3>2 DEF CallObserver
  <2>2. CASE ~CallObserver
    BY <2>2 DEF Daemon, ScanPush, ScanNext, ScanRest, WatchNext, WatchPush, WatchRest, Execute, env
  <2> QED BY <2>1, <2>2
<1>2. PICK d \in Dirs : d = DirOf(p)
  BY <1>1, OwnFiles DEF TypeOK
<1>3. /\ p \in Files /\ p \in witnessed /\ IsFile(p) /\ watcher[d].gen > 0 /\ IsFile(p)'
      /\ watcher[d].gen \in 1 .. MaxGen /\ ~terminated
  <2>1. p \in Files /\ p \in witnessed /\ IsFile(p) /\ watcher[d].gen > 0 /\ IsFile(p)'
    BY <1>1, <1>2 DEF WritesInv, TypeOK, IsFile
  <2>2. watcher[d].gen \in 1 .. MaxGen
    BY <2>1, CountAssumption DEF Shape, WatcherShape, WatcherOf, MaxGen
  <2>3. ~terminated
    BY DEF Daemon, ScanPush, ScanNext, WatchNext, WatchPush, Execute, CallObserver
  <2> QED BY <2>1, <2>2, <2>3
<1>4. OnItsWay(p)
  BY <1>3 DEF WritesInv
<1>5. PICK w : w = <<"watch", d, watcher[d].gen>>
  OBVIOUS
<1>6. w \in Threads \ {<<"config">>}
  BY <1>3, <1>5, ThreadNames
<1>7. ASSUME watcher'[d] = watcher[d], queue'[w] = queue[w], UNCHANGED <<index, lastRun>>
      PROVE  watcher'[DirOf(p)].gen > 0 /\ OnItsWay(p)'
  <2>1. UpToDate(p)' <=> UpToDate(p)
    BY <1>1, <1>7 DEF UpToDate
  <2>2. OnItsWay(p)'
    BY <1>1, <1>2, <1>4, <1>5, <1>7, <2>1, WayKept
  <2> QED BY <1>2, <1>3, <1>7, <2>2
<1>8. ASSUME NEW f \in Dirs, ScanPush(f)
      PROVE  watcher'[DirOf(p)].gen > 0 /\ OnItsWay(p)'
  <2>1. UNCHANGED <<watcher, index, lastRun>>
    BY <1>8 DEF ScanPush, ScanRest, db
  <2>2. queue'[w] = queue[w]
    <3>1. PICK t \in Threads : /\ t = <<"scan", f, scanner[f].gen>>
                               /\ (\E c : Push(t, c)) \/ UNCHANGED queue
      BY <1>8, ScanPushStep
    <3>2. t # w
      BY <1>5, <3>1
    <3> QED BY <1>6, <3>1, <3>2 DEF Push, Shape, QueueShape
  <2> QED BY <1>7, <2>1, <2>2
<1>9. ASSUME NEW f \in Dirs, NEW q \in Files, ScanNext(f, q)
      PROVE  watcher'[DirOf(p)].gen > 0 /\ OnItsWay(p)'
  BY <1>7, <1>9 DEF ScanNext, ScanRest, db
<1>10. ASSUME NEW f \in Dirs, WatchNext(f)
       PROVE  watcher'[DirOf(p)].gen > 0 /\ (terminated' \/ OnItsWay(p)')
  <2>1. UNCHANGED <<index, lastRun>>
    BY <1>10 DEF WatchNext, WatchRest, db
  <2>2. CASE f = d
    <3>1. watcher'[d].gen = watcher[d].gen
      BY <1>10, <2>2, WatchNextStep
    <3>2. terminated' \/ OnItsWay(p)'
      BY <1>2, <1>3, <1>4, <1>10, <2>2, WayNext
    <3> QED BY <1>2, <1>3, <3>1, <3>2
  <2>3. CASE f # d
    <3>1. watcher'[d] = watcher[d]
      BY <1>10, <2>3, WatchNextStep
    <3>2. PICK t : t = <<"watch", f, watcher[f].gen>>
      OBVIOUS
    <3>3. PICK e : queue' = [queue EXCEPT ![t] = @ \o Reaction(e)]
      BY <1>10, <3>2, WatchNextStep, ZenonT(60)
    <3>4. t # w
      BY <1>5, <2>3, <3>2
    <3>5. queue'[w] = queue[w]
      BY <1>6, <3>3, <3>4 DEF Shape, QueueShape
    <3> QED BY <1>7, <2>1, <3>1, <3>5
  <2> QED BY <2>2, <2>3
<1>11. ASSUME NEW f \in Dirs, WatchPush(f)
       PROVE  watcher'[DirOf(p)].gen > 0 /\ (terminated' \/ OnItsWay(p)')
  <2>1. UNCHANGED <<index, lastRun>>
    BY <1>11 DEF WatchPush, WatchRest, db
  <2>2. CASE f = d
    <3>1. watcher'[d].gen = watcher[d].gen
      BY <1>11, <2>2, WatchPushStep
    <3>2. terminated' \/ OnItsWay(p)'
      BY <1>2, <1>3, <1>4, <1>11, <2>2, WayPush
    <3> QED BY <1>2, <1>3, <3>1, <3>2
  <2>3. CASE f # d
    <3>1. watcher'[d] = watcher[d]
      BY <1>11, <2>3, WatchPushStep
    <3>2. PICK t : t = <<"watch", f, watcher[f].gen>>
      OBVIOUS
    <3>3. \/ \E c : Push(t, c)
          \/ UNCHANGED queue
      BY <1>11, <3>2, WatchPushStep
    <3>4. t # w
      BY <1>5, <2>3, <3>2
    <3>5. queue'[w] = queue[w]
      BY <1>6, <3>3, <3>4 DEF Push, Shape, QueueShape
    <3> QED BY <1>7, <2>1, <3>1, <3>5
  <2> QED BY <2>2, <2>3
<1>12. CASE CallObserver
  <2>1. PICK kind \in Kinds : Observe(kind)
    BY <1>12, NextCall
  <2>2. UNCHANGED <<lastRun, queue>>
    BY <1>12 DEF CallObserver
  <2>3. d \notin Trash(kind)
    BY <1>2, <2>1, ObserveStep
  <2>4. watcher'[d] = watcher[d]
    <3>1. CASE kind = "watch"
      <4>1. d \notin Fresh(kind)
        BY <1>3, <3>1 DEF Fresh, Gen
      <4> QED BY <2>1, <2>3, <3>1, <4>1, ObserveStep
    <3>2. CASE kind = "scan"
      BY <2>1, <3>2, ObserveStep
    <3> QED BY <3>1, <3>2 DEF Kinds
  <2>5. UpToDate(p)' <=> UpToDate(p)
    <3>1. Trash(kind) \subseteq Dirs
      BY DEF Trash
    <3>2. \A f \in Trash(kind) : ~IsParentOf(f, p)
      BY <1>2, <1>3, <2>3, <3>1, OneParent
    <3>3. {y \in index' : y.path = p} = {y \in index : y.path = p}
      BY <2>1, <3>2, ObserveStep
    <3> QED BY <1>1, <3>3 DEF UpToDate
  <2>6. OnItsWay(p)'
    BY <1>1, <1>2, <1>4, <2>2, <2>4, <2>5, WayKept
  <2> QED BY <1>2, <1>3, <2>4, <2>6
<1>13. ASSUME NEW t \in Threads, Execute(t)
       PROVE  watcher'[DirOf(p)].gen > 0 /\ (terminated' \/ OnItsWay(p)')
  <2>1. /\ UNCHANGED watcher /\ watcher'[DirOf(p)].gen > 0 /\ calls = <<>> /\ queue[t] # <<>>
        /\ queue'[t] = Tail(queue[t]) /\ \A u \in Threads \ {t} : queue'[u] = queue[u]
    BY <1>2, <1>3, <1>13, ExecuteStep
  <2>2. CASE t = <<"config">>
    <3>1. UNCHANGED <<index, lastRun>>
      BY <1>13, <2>2, ExecuteStep DEF ReadConfig, db
    <3>2. queue'[w] = queue[w]
      BY <1>6, <2>1, <2>2
    <3> QED BY <1>7, <2>1, <3>1, <3>2
  <2>3. CASE t # <<"config">>
    <3>1. PICK c : c = Head(queue[t])
      OBVIOUS
    <3>2. c \in Work(t[2]) /\ (terminated' \/ Run(c, t))
      BY <1>13, <2>3, <3>1, ExecuteStep
    <3>3. CASE Run(c, t) /\ t = w
      <4>1. HasRoot(p)
        <5>1. Coming = {} /\ Gen("watch", d) = watcher[d].gen
          BY <2>1 DEF Coming, ToSet, Gen
        <5>2. d \in configDirs /\ d \in registered
          BY <1>3, <5>1 DEF ConfigInv, Kinds
        <5> QED BY <1>2, <5>2 DEF HasRoot
      <4>2. OnItsWay(p)'
        BY <1>1, <1>2, <1>3, <1>4, <1>5, <2>1, <2>3, <3>1, <3>3, <4>1, WayHere
      <4> QED BY <2>1, <4>2
    <3>4. CASE Run(c, t) /\ t # w
      <4>1. OnItsWay(p)'
        BY <1>1, <1>2, <1>3, <1>4, <1>5, <2>1, <2>3, <3>2, <3>4, WayElsewhere
      <4> QED BY <2>1, <4>1
    <3> QED BY <2>1, <3>2, <3>3, <3>4
  <2> QED BY <2>2, <2>3
<1>14. watcher'[DirOf(p)].gen > 0 /\ (terminated' \/ OnItsWay(p)')
  BY <1>8, <1>9, <1>10, <1>11, <1>12, <1>13 DEF Daemon
<1> QED BY <1>3, <1>14

LEMMA WritesKept == Spec => []WritesInv
<1>1. Init => WritesInv
  BY DEF Init, WritesInv
<1>2. TypeOK /\ Shape /\ ConfigInv /\ WritesInv /\ [Next]_vars => WritesInv'
  <2> SUFFICES ASSUME TypeOK, Shape, ConfigInv, WritesInv, [Next]_vars PROVE WritesInv'
    OBVIOUS
  <2>1. CASE UNCHANGED vars
    <3>1. UNCHANGED <<env, watcher, queue, index, lastRun, terminated>>
      BY <2>1 DEF vars, db
    <3>2. UNCHANGED <<disk, witnessed>>
      BY <3>1 DEF env
    <3>3. \A p : /\ UpToDate(p)' <=> UpToDate(p)
                 /\ Heard(p)' = Heard(p) /\ Pushed(p)' = Pushed(p) /\ Puts(p)' = Puts(p)
                 /\ IsFile(p)' <=> IsFile(p)
      BY <3>1, <3>2 DEF UpToDate, Heard, Pushed, Puts, IsFile
    <3>4. \A p : OnItsWay(p) => OnItsWay(p)'
      BY <3>1, <3>2, <3>3 DEF OnItsWay, InEvents, InHand, InQueue, Done
    <3> QED BY <3>1, <3>2, <3>3, <3>4 DEF WritesInv
  <2>2. CASE Next
    BY <2>2, WritesEnvironment, WritesDaemon DEF Next
  <2> QED BY <2>1, <2>2
<1> QED BY <1>1, <1>2, Typed, Configured, PTL DEF Spec

\* No write is lost between the disk and the index: while the watcher of a file has been
\* told of its last write, the contents are in the index or on their way there, behind
\* everything older, unless lastRun names what came in between.
THEOREM WritesArrive == Spec => []WritesReachIndex
<1>1. TypeOK /\ Shape /\ WritesInv => WritesReachIndex
  <2> SUFFICES ASSUME TypeOK, Shape, WritesInv, NEW p \in witnessed, ~terminated
               PROVE  \/ ComingFromWatcher(p) \/ UpToDate(p)
                      \/ lastRun[p] \in {"scan", "dangling", "twin", "failed"}
    BY DEF WritesReachIndex
  <2>1. PICK d \in Dirs : d = DirOf(p)
    BY OwnFiles DEF TypeOK
  <2>2. watcher[d].gen > 0 /\ watcher[d].gen \in 1 .. MaxGen /\ OnItsWay(p)
    <3>1. watcher[DirOf(p)].gen > 0 /\ OnItsWay(p)
      BY DEF WritesInv
    <3>2. MaxGen \in Nat
      BY CountAssumption DEF MaxGen
    <3>3. watcher[d].gen \in 0 .. MaxGen
      BY DEF Shape, WatcherShape, WatcherOf
    <3> QED BY <2>1, <3>1, <3>2, <3>3
  <2>3. CASE InEvents(p)
    <3>1. watcher[d].events \in Seq(Events(d))
      BY DEF Shape, WatcherShape, WatcherOf
    <3>2. PICK i \in 1 .. Len(watcher[d].events) : watcher[d].events[i] \in Changes(p)
      BY <2>1, <2>3, <3>1, EndsSteps DEF InEvents, Heard
    <3>3. PICK e \in ToSet(watcher[d].events) : e \in Changes(p)
      BY <3>2 DEF ToSet
    <3> QED BY <2>1, <3>3 DEF Changes, ComingFromWatcher
  <2>4. CASE InHand(p)
    BY <2>4 DEF InHand, ComingFromWatcher
  <2>5. CASE InQueue(p)
    <3>1. PICK t : t = <<"watch", d, watcher[d].gen>>
      OBVIOUS
    <3>2. t \in Threads \ {<<"config">>} /\ t[2] = d
      BY <2>2, <3>1, ThreadNames
    <3>3. queue[t] \in Seq(Work(d))
      BY <3>2 DEF Shape, QueueShape
    <3>4. PICK i \in 1 .. Len(queue[t]) : queue[t][i] \in Puts(p)
      BY <2>1, <2>5, <3>1, <3>3, EndsSteps DEF InQueue, Pushed
    <3>5. Command("update", p, p, disk[p]) \in ToSet(queue[t])
      BY <3>4 DEF ToSet, Puts
    <3> QED BY <2>1, <2>2, <3>1, <3>5 DEF Queued, ComingFromWatcher
  <2>6. CASE Done(p)
    BY <2>6 DEF Done
  <2> QED BY <2>2, <2>3, <2>4, <2>5, <2>6 DEF OnItsWay
<1> QED BY <1>1, Typed, WritesKept, PTL


-----------------------------------------------------------------------------
(***************************************************************************)
(* There is no gap between the watch of a directory and its scan (property *)
(* ScanLeavesNoGap), for every set of directories and files and every      *)
(* number of writes and edits.                                             *)
(*                                                                         *)
(* A file its watcher was told nothing of has not changed since the watch  *)
(* began (Silent), so what the scanner reads of it stays current (Fits),   *)
(* and the scanner still has it or has brought it to the index (Found).    *)
(* That a new object finds nothing under its generation in the queue is    *)
(* FreshInv.                                                               *)
(***************************************************************************)

LEMMA MembersStep ==
  ASSUME NEW S, NEW s \in Seq(S)
  PROVE  /\ \A x \in S : ToSet(s) \subseteq ToSet(Append(s, x)) /\ x \in ToSet(Append(s, x))
         /\ s # <<>> => \A y \in ToSet(s) : y = Head(s) \/ y \in ToSet(Tail(s))
<1>1. ASSUME NEW x \in S
      PROVE  ToSet(s) \subseteq ToSet(Append(s, x)) /\ x \in ToSet(Append(s, x))
  <2>1. /\ Len(s) \in Nat /\ DOMAIN s = 1 .. Len(s)
        /\ DOMAIN Append(s, x) = 1 .. Len(s) + 1
        /\ \A i \in 1 .. Len(s) : Append(s, x)[i] = s[i]
        /\ Append(s, x)[Len(s) + 1] = x
    OBVIOUS
  <2>2. Len(s) + 1 \in DOMAIN Append(s, x)
    BY <2>1
  <2>3. x \in ToSet(Append(s, x))
    BY <2>1, <2>2 DEF ToSet
  <2>4. ASSUME NEW i \in 1 .. Len(s)
        PROVE  i \in DOMAIN Append(s, x) /\ Append(s, x)[i] = s[i]
    BY <2>1
  <2>5. ToSet(s) \subseteq ToSet(Append(s, x))
    BY <2>1, <2>4 DEF ToSet
  <2> QED BY <2>3, <2>5
<1>2. ASSUME s # <<>>, NEW y \in ToSet(s)
      PROVE  y = Head(s) \/ y \in ToSet(Tail(s))
  <2>1. /\ Len(s) \in Nat /\ Len(Tail(s)) = Len(s) - 1 /\ Head(s) = s[1] /\ Tail(s) \in Seq(S)
        /\ \A i \in 1 .. Len(Tail(s)) : Tail(s)[i] = s[i + 1]
    BY <1>2, HeadTailProperties
  <2>2. DOMAIN s = 1 .. Len(s) /\ DOMAIN Tail(s) = 1 .. Len(Tail(s))
    BY <2>1
  <2>3. PICK i \in 1 .. Len(s) : s[i] = y
    BY <1>2, <2>2 DEF ToSet
  <2>4. CASE i = 1
    BY <2>1, <2>3, <2>4
  <2>5. CASE i # 1
    <3>1. i - 1 \in 1 .. Len(Tail(s)) /\ Tail(s)[i - 1] = y
      BY <2>1, <2>3, <2>5
    <3> QED BY <2>2, <3>1 DEF ToSet
  <2> QED BY <2>4, <2>5
<1> QED BY <1>1, <1>2

-----------------------------------------------------------------------------
(* Generations are not used twice *)

\* The last generation that has been given to a kind.
Top(kind) == IF kind \in Coming THEN Generation - 1 ELSE Generation

FreshInv ==
  \A kind \in Kinds, d \in Dirs :
    /\ Gen(kind, d) <= Top(kind)
    /\ \A g \in 1 .. MaxGen : g > Top(kind) => queue[<<kind, d, g>>] = <<>>

\* A thread pushes under its own generation.
LEMMA QueuesGrow ==
  ASSUME TypeOK, Shape, [Next]_vars, NEW kind \in Kinds, NEW d \in Dirs, NEW g \in 1 .. MaxGen,
         queue[<<kind, d, g>>] = <<>>, g # Gen(kind, d)
  PROVE  queue'[<<kind, d, g>>] = <<>>
<1>1. PICK t \in Threads \ {<<"config">>} : t = <<kind, d, g>>
  BY ThreadNames DEF Kinds
<1>2. DOMAIN queue = Threads
  BY DEF Shape, QueueShape
<1>3. ASSUME NEW e \in Dirs, ScanPush(e)
      PROVE  queue'[t] = queue[t]
  <2>1. PICK u : u = <<"scan", e, scanner[e].gen>>
    OBVIOUS
  <2>2. (\E c : Push(u, c)) \/ UNCHANGED queue
    BY <1>3, <2>1, ScanPushStep
  <2>3. u # t
    BY <1>1, <2>1 DEF Gen
  <2> QED BY <1>2, <2>2, <2>3 DEF Push
<1>4. ASSUME NEW e \in Dirs, WatchNext(e)
      PROVE  queue'[t] = queue[t]
  <2>1. PICK u : u = <<"watch", e, watcher[e].gen>>
    OBVIOUS
  <2>2. \E x : queue' = [queue EXCEPT ![u] = @ \o Reaction(x)]
    BY <1>4, <2>1 DEF WatchNext
  <2>3. u # t
    BY <1>1, <2>1 DEF Gen
  <2> QED BY <1>2, <2>2, <2>3
<1>5. ASSUME NEW e \in Dirs, WatchPush(e)
      PROVE  queue'[t] = queue[t]
  <2>1. PICK u : u = <<"watch", e, watcher[e].gen>>
    OBVIOUS
  <2>2. (\E c : Push(u, c)) \/ UNCHANGED queue
    BY <1>5, <2>1, WatchPushStep
  <2>3. u # t
    BY <1>1, <2>1 DEF Gen
  <2> QED BY <1>2, <2>2, <2>3 DEF Push
<1>6. ASSUME NEW u \in Threads, Execute(u)
      PROVE  queue'[t] = queue[t]
  <2>1. queue[u] # <<>>
    BY <1>6 DEF Execute
  <2>2. u # t
    BY <1>1, <2>1
  <2> QED BY <1>2, <1>6, <2>2 DEF Execute
<1>7. ASSUME NEW D \in SUBSET Dirs, EditConfig(D)
      PROVE  queue'[t] = queue[t]
  BY <1>2, <1>7 DEF EditConfig, Push
<1>8. ASSUME UNCHANGED vars \/ CallObserver \/ \E e \in Dirs : Vanish(e) \/ Return(e)
      PROVE  queue'[t] = queue[t]
  BY <1>8 DEF vars, CallObserver, Vanish, Return
<1>9. ASSUME \E p \in Files : \/ Write(p) \/ Delete(p) \/ \E q \in Files : Rename(p, q)
                              \/ \E e \in Dirs : ScanNext(e, p)
      PROVE  queue'[t] = queue[t]
  BY <1>9 DEF Write, Delete, Rename, ScanNext
<1>10. ASSUME Environment
       PROVE  queue'[t] = queue[t]
  BY <1>7, <1>8, <1>9, <1>10 DEF Environment
<1>11. ASSUME Daemon
       PROVE  queue'[t] = queue[t]
  BY <1>3, <1>4, <1>5, <1>6, <1>8, <1>9, <1>11 DEF Daemon
<1>12. queue'[t] = queue[t]
  BY <1>8, <1>10, <1>11 DEF Next
<1> QED BY <1>1, <1>12

\* Only a reading of the configuration changes the generation.
LEMMA GenerationKept ==
  ASSUME TypeOK, Shape, [Next]_vars, ~Execute(<<"config">>)
  PROVE  Generation' = Generation /\ (CallObserver \/ Coming' = Coming)
<1>1. /\ edits \in Nat /\ queue[<<"config">>] \in Seq({ReadAgain}) /\ DOMAIN queue = Threads
      /\ <<"config">> \in Threads
  BY ThreadNames DEF TypeOK, Shape, QueueShape
<1>2. CASE \E D \in SUBSET Dirs : EditConfig(D)
  <2>1. /\ edits' = edits + 1 /\ calls' = calls
        /\ queue'[<<"config">>] = Append(queue[<<"config">>], ReadAgain)
    BY <1>1, <1>2 DEF EditConfig, Push, ReadAgain
  <2>2. Len(queue'[<<"config">>]) = Len(queue[<<"config">>]) + 1 /\ Len(queue[<<"config">>]) \in Nat
    BY <1>1, <2>1 DEF ReadAgain
  <2> QED BY <1>1, <2>1, <2>2 DEF Generation, Coming
<1>3. ASSUME edits' = edits, queue'[<<"config">>] = queue[<<"config">>], CallObserver \/ calls' = calls
      PROVE  Generation' = Generation /\ (CallObserver \/ Coming' = Coming)
  BY <1>3 DEF Generation, Coming
<1>4. ASSUME NEW d \in Dirs, ScanPush(d) \/ WatchNext(d) \/ WatchPush(d)
      PROVE  Generation' = Generation /\ (CallObserver \/ Coming' = Coming)
  <2>1. edits' = edits /\ calls' = calls
    BY <1>4 DEF ScanPush, WatchNext, WatchPush, ScanRest, WatchRest, config
  <2>2. queue'[<<"config">>] = queue[<<"config">>]
    BY <1>1, <1>4 DEF ScanPush, WatchNext, WatchPush, Push
  <2> QED BY <1>3, <2>1, <2>2
<1>5. ASSUME NEW t \in Threads \ {<<"config">>}, Execute(t)
      PROVE  Generation' = Generation /\ (CallObserver \/ Coming' = Coming)
  <2>1. edits' = edits /\ calls' = calls
    BY <1>5 DEF Execute, config, Run
  <2>2. queue'[<<"config">>] = queue[<<"config">>]
    BY <1>1, <1>5, ExecuteStep
  <2> QED BY <1>3, <2>1, <2>2
<1>6. CASE \/ UNCHANGED vars \/ CallObserver
           \/ \E d \in Dirs : Vanish(d) \/ Return(d)
           \/ \E d \in Dirs : \E p \in Files : ScanNext(d, p)
           \/ \E p \in Files : Write(p) \/ Delete(p) \/ \E q \in Files : Rename(p, q)
  <2>1. UNCHANGED <<edits, queue>> /\ (CallObserver \/ calls' = calls)
    BY <1>6 DEF vars, config, CallObserver, Vanish, Return, ScanNext, ScanRest, Write, Delete, Rename
  <2> QED BY <1>3, <2>1
<1> QED BY <1>2, <1>4, <1>5, <1>6 DEF Next, Environment, Daemon

LEMMA FreshStep ==
  ASSUME TypeOK, Shape, FreshInv, [Next]_vars
  PROVE  FreshInv'
<1>0. /\ Generation \in 1 .. MaxGen
      /\ \A k \in Kinds, d \in Dirs : Gen(k, d) \in Nat
  <2>1. /\ edits \in 0 .. MaxEdits /\ Len(queue[<<"config">>]) \in Nat
        /\ Len(queue[<<"config">>]) <= edits
    BY DEF TypeOK, Shape, QueueShape
  <2>2. Generation \in 1 .. MaxGen
    <3>1. PICK n \in Nat : n = Len(queue[<<"config">>]) /\ n <= edits
      BY <2>1
    <3>2. MaxEdits \in Nat /\ edits \in Int /\ n \in Int /\ edits <= MaxEdits /\ n <= edits /\ 0 <= n
      BY <2>1, <3>1, CountAssumption
    <3>3. edits + 1 - n \in 1 .. MaxEdits + 1
      BY <3>2
    <3> QED BY <3>1, <3>3 DEF Generation, MaxGen
  <2> QED BY <2>2 DEF Gen, Shape, ScannerShape, WatcherShape, ScannerOf, WatcherOf
<1> SUFFICES ASSUME NEW kind \in Kinds, NEW d \in Dirs
             PROVE  /\ Gen(kind, d)' <= Top(kind)'
                    /\ \A g \in 1 .. MaxGen : g > Top(kind)' => queue'[<<kind, d, g>>] = <<>>
  BY DEF FreshInv
<1>1. /\ Gen(kind, d) <= Top(kind) /\ Top(kind) \in Int /\ Gen(kind, d) \in Nat
      /\ \A g \in 1 .. MaxGen : g > Top(kind) => queue[<<kind, d, g>>] = <<>>
  BY <1>0 DEF FreshInv, Top
<1>2. ASSUME Gen(kind, d)' = Gen(kind, d), Top(kind)' = Top(kind)
      PROVE  /\ Gen(kind, d)' <= Top(kind)'
             /\ \A g \in 1 .. MaxGen : g > Top(kind)' => queue'[<<kind, d, g>>] = <<>>
  <2> SUFFICES ASSUME NEW g \in 1 .. MaxGen, g > Top(kind)
               PROVE  queue'[<<kind, d, g>>] = <<>>
    BY <1>1, <1>2
  <2>1. g # Gen(kind, d) /\ queue[<<kind, d, g>>] = <<>>
    BY <1>1
  <2> QED BY <2>1, QueuesGrow
<1>3. CASE Execute(<<"config">>)
  <2>1. /\ calls = <<>> /\ edits' = edits
        /\ Len(queue'[<<"config">>]) = Len(queue[<<"config">>]) - 1
        /\ Len(queue[<<"config">>]) \in Nat /\ edits \in Nat
    <3>1. queue[<<"config">>] # <<>> /\ queue'[<<"config">>] = Tail(queue[<<"config">>])
      BY <1>3, ThreadNames, ExecuteStep
    <3>2. queue[<<"config">>] \in Seq({ReadAgain})
      BY DEF Shape, QueueShape
    <3>3. Len(Tail(queue[<<"config">>])) = Len(queue[<<"config">>]) - 1
      BY <3>1, <3>2, HeadTailProperties
    <3>4. calls = <<>> /\ edits' = edits
      BY <1>3 DEF Execute, config
    <3>5. edits \in Nat /\ Len(queue[<<"config">>]) \in Nat
      BY <3>2 DEF TypeOK
    <3> QED BY <3>1, <3>3, <3>4, <3>5
  <2>2. Generation' = Generation + 1
    BY <2>1 DEF Generation
  <2>3. Coming = {}
    BY <2>1 DEF Coming, ToSet
  <2>4. Coming' = Kinds
    <3>1. calls' = <<"watch", "scan">> \/ calls' = <<"scan", "watch">>
      BY <1>3 DEF Execute, ReadConfig
    <3>2. CASE calls' = <<"watch", "scan">>
      BY <3>2 DEF Coming, Kinds, ToSet
    <3>3. CASE calls' = <<"scan", "watch">>
      BY <3>3 DEF Coming, Kinds, ToSet
    <3> QED BY <3>1, <3>2, <3>3
  <2>5. Top(kind)' = Top(kind)
    BY <1>0, <2>2, <2>3, <2>4 DEF Top
  <2>6. Gen(kind, d)' = Gen(kind, d)
    BY <1>3 DEF Execute, Gen
  <2> QED BY <1>2, <2>5, <2>6
<1>4. CASE CallObserver
  <2>0. ~Execute(<<"config">>) /\ UNCHANGED queue
    BY <1>4 DEF CallObserver, Execute
  <2>1. PICK k \in Kinds : k = Head(calls) /\ Observe(k)
    BY <1>4, NextCall
  <2>2. k \in Coming /\ Coming' = Coming \ {k} /\ Generation' = Generation
    <3>1. calls # <<>> /\ calls \in Seq(Kinds)
      BY <1>4 DEF CallObserver, TypeOK, Kinds
    <3>2. Head(calls) \in ToSet(calls)
      BY <3>1 DEF ToSet
    <3> QED BY <1>4, <2>0, <2>1, <3>2, NextCall, GenerationKept DEF Coming
  <2>3. CASE k = kind
    <3>1. Top(kind) = Generation - 1 /\ Top(kind)' = Generation
      BY <2>2, <2>3 DEF Top
    <3>2. Gen(kind, d)' \in {0, Generation, Gen(kind, d)}
      BY <2>1, <2>3, ObserveStep DEF Gen, Scanner, Watcher, Kinds
    <3> QED BY <1>0, <1>1, <2>0, <3>1, <3>2
  <2>4. CASE k # kind
    <3>1. Top(kind)' = Top(kind)
      BY <2>2, <2>4 DEF Top
    <3>2. Gen(kind, d)' = Gen(kind, d)
      BY <2>1, <2>4, ObserveStep DEF Gen, Kinds
    <3> QED BY <1>2, <3>1, <3>2
  <2> QED BY <2>3, <2>4
<1>5. CASE ~Execute(<<"config">>) /\ ~CallObserver
  <2>1. Generation' = Generation /\ Coming' = Coming
    BY <1>5, GenerationKept
  <2>2. Top(kind)' = Top(kind)
    BY <2>1 DEF Top
  <2>3. Gen(kind, d)' = Gen(kind, d)
    BY <1>5, GensKept
  <2> QED BY <1>2, <2>2, <2>3
<1> QED BY <1>3, <1>4, <1>5

LEMMA FreshKept == Spec => []FreshInv
<1>1. Init => FreshInv
  <2> SUFFICES ASSUME Init PROVE FreshInv
    OBVIOUS
  <2>1. Generation = 1 /\ Coming = {"watch", "scan"}
    BY ThreadNames DEF Init, Generation, Coming, ToSet
  <2>2. \A kind \in Kinds : Top(kind) = 0
    BY <2>1 DEF Top, Kinds
  <2>3. \A kind \in Kinds, d \in Dirs : Gen(kind, d) = 0
    BY DEF Init, Gen, Scanner, Watcher
  <2>4. \A kind \in Kinds, d \in Dirs, g \in 1 .. MaxGen : queue[<<kind, d, g>>] = <<>>
    BY DEF Init, Threads
  <2> QED BY <2>2, <2>3, <2>4 DEF FreshInv
<1>2. (TypeOK /\ Shape) /\ FreshInv /\ [Next]_vars => FreshInv'
  BY FreshStep
<1> QED BY <1>1, <1>2, Typed, PTL DEF Spec

-----------------------------------------------------------------------------
(* While nothing is removed *)

Undisturbed == WatcherFirst /\ removals = 0

Removals(d) == {e \in Events(d) : e.action \in {"delete", "moved"}}
Others(d)   == {c \in Work(d) : c.op # "update"}

\* No watch has lost its directory, and what is read, heard of and pushed is there.
Quiet(d) ==
  /\ ~watcher[d].deaf
  /\ \A q \in Own(d), v \in Versions : scanner[d].held = <<q, v>> => IsFile(q)
  /\ Without(watcher[d].events, Removals(d))

\* The watcher is called before the scanner, and in between only, one of them may be
\* without the other.
InOrder ==
  /\ calls \in {<<>>, <<"scan">>, <<"watch", "scan">>}
  /\ calls # <<"scan">> => \A d \in Dirs : scanner[d].gen > 0 <=> watcher[d].gen > 0
  /\ gone = {} /\ missed = {}

OnlyUpdates == \A t \in Threads \ {<<"config">>} : Without(queue[t], Others(t[2]))

QuietInv == InOrder /\ (\A d \in Dirs : Quiet(d)) /\ OnlyUpdates

LEMMA NothingRemoved ==
  ASSUME TypeOK, [Next]_vars, Undisturbed'
  PROVE  /\ Undisturbed
         /\ \/ \E q \in Files : Write(q)
            \/ \E d \in Dirs : Return(d)
            \/ \E D \in SUBSET Dirs : EditConfig(D)
            \/ Daemon \/ UNCHANGED vars
<1>1. removals \in Nat /\ removals' = 0 /\ WatcherFirst
  BY DEF TypeOK, Undisturbed
<1>2. ~\E q \in Files : Delete(q) \/ \E r \in Files : Rename(q, r)
  BY <1>1 DEF Delete, Rename
<1>3. ~\E d \in Dirs : Vanish(d)
  BY <1>1 DEF Vanish
<1>4. \/ \E q \in Files : Write(q)
      \/ \E d \in Dirs : Return(d)
      \/ \E D \in SUBSET Dirs : EditConfig(D)
      \/ Daemon \/ UNCHANGED vars
  BY <1>2, <1>3 DEF Next, Environment
<1>5. CASE Daemon
  <2>1. removals' = removals
    <3>1. UNCHANGED env \/ CallObserver
      BY <1>5 DEF Daemon, ScanPush, ScanNext, WatchNext, WatchPush, ScanRest, WatchRest, Execute
    <3> QED BY <3>1 DEF env, CallObserver
  <2> QED BY <1>1, <1>4, <2>1 DEF Undisturbed
<1>6. CASE ~Daemon
  <2>1. removals' = removals
    BY <1>4, <1>6 DEF Write, Return, EditConfig, env, vars
  <2> QED BY <1>1, <1>4, <2>1 DEF Undisturbed
<1> QED BY <1>5, <1>6

LEMMA InOrderStep ==
  ASSUME TypeOK, Shape, ConfigInv, InOrder, Undisturbed', [Next]_vars
  PROVE  InOrder'
<1>1. /\ calls \in {<<>>, <<"scan">>, <<"watch", "scan">>} /\ WatcherFirst
      /\ calls # <<"scan">> => \A d \in Dirs : scanner[d].gen > 0 <=> watcher[d].gen > 0
      /\ gone = {} /\ missed = {}
  BY NothingRemoved DEF InOrder, Undisturbed
<1>2. CASE CallObserver
  <2>1. PICK kind \in Kinds : kind = Head(calls) /\ Observe(kind)
    BY <1>2, NextCall
  <2>2. gone' = {} /\ missed' = {}
    <3>1. missed' = missed \cup (Fresh(kind) \cap gone) /\ gone' = gone
      BY <1>2, <2>1, ObserveStep DEF CallObserver
    <3> QED BY <1>1, <3>1
  <2>3. CASE calls = <<"watch", "scan">>
    <3>1. calls' = <<"scan">>
      BY <1>2, <2>3 DEF CallObserver
    <3> QED BY <2>2, <3>1 DEF InOrder
  <2>4. CASE calls = <<"scan">>
    <3>1. calls' = <<>>
      BY <1>2, <2>4 DEF CallObserver
    <3>2. Coming' = {} /\ ConfigInv' /\ configDirs' = configDirs /\ configDirs \subseteq Dirs
      BY <1>2, <3>1, ConfigObserved DEF Coming, ToSet, CallObserver, TypeOK
    <3>3. \A k \in Kinds, d \in Dirs : Gen(k, d)' > 0 <=> d \in configDirs
      BY <2>2, <3>2 DEF ConfigInv
    <3>4. \A d \in Dirs : scanner'[d].gen > 0 <=> watcher'[d].gen > 0
      BY <3>3 DEF Gen, Kinds
    <3> QED BY <2>2, <3>1, <3>4 DEF InOrder
  <2> QED BY <1>1, <1>2, <2>3, <2>4 DEF CallObserver
<1>3. CASE ~CallObserver
  <2>1. \A d \in Dirs : scanner'[d].gen = scanner[d].gen /\ watcher'[d].gen = watcher[d].gen
    BY <1>3, GensKept DEF Gen, Kinds
  <2>2. gone' = {}
    <3>1. UNCHANGED env \/ (\E q \in Files : Write(q)) \/ (\E d \in Dirs : Return(d))
      BY <1>3, NothingRemoved DEF Daemon, ScanPush, ScanNext, WatchNext, WatchPush, ScanRest,
           WatchRest, Execute, EditConfig, vars
    <3> QED BY <1>1, <3>1 DEF env, Write, Return
  <2>3. CASE Execute(<<"config">>)
    <3>1. calls = <<>> /\ calls' = <<"watch", "scan">> /\ missed' = gone
      BY <1>1, <2>3 DEF Execute, ReadConfig
    <3> QED BY <1>1, <2>1, <2>2, <3>1 DEF InOrder
  <2>4. CASE ~Execute(<<"config">>)
    <3>1. UNCHANGED <<calls, missed>>
      BY <1>3, <2>4, NothingRemoved DEF Daemon, ScanPush, ScanNext, WatchNext, WatchPush, ScanRest,
           WatchRest, Execute, Run, EditConfig, vars, Write, Return
    <3> QED BY <1>1, <2>1, <2>2, <3>1 DEF InOrder
  <2> QED BY <2>3, <2>4
<1> QED BY <1>2, <1>3

LEMMA QuietStep ==
  ASSUME TypeOK, Shape, InOrder, \A d \in Dirs : Quiet(d), Undisturbed', [Next]_vars
  PROVE  \A d \in Dirs : Quiet(d)'
<1> SUFFICES ASSUME NEW d \in Dirs PROVE Quiet(d)'
  OBVIOUS
<1>1. /\ Quiet(d) /\ ScannerShape /\ WatcherShape /\ watcher[d].events \in Seq(Events(d))
      /\ disk \in [Files -> 0 .. MaxVersion] /\ Own(d) \subseteq Files
  BY OwnFiles DEF Shape, WatcherShape, WatcherOf, TypeOK
<1>2. ASSUME \A q \in Files : IsFile(q) => IsFile(q)', watcher'[d].deaf = watcher[d].deaf,
             watcher'[d].events = watcher[d].events, scanner'[d].held \in {<<>>, scanner[d].held}
      PROVE  Quiet(d)'
  <2>1. \A q \in Own(d), v \in Versions : scanner'[d].held = <<q, v>> => IsFile(q)'
    <3> SUFFICES ASSUME NEW q \in Own(d), NEW v \in Versions, scanner'[d].held = <<q, v>>
                 PROVE  IsFile(q)'
      OBVIOUS
    <3>1. scanner[d].held = <<q, v>>
      BY <1>2
    <3> QED BY <1>1, <1>2, <3>1 DEF Quiet
  <2>2. ~watcher'[d].deaf /\ Without(watcher'[d].events, Removals(d))
    BY <1>1, <1>2 DEF Quiet
  <2> QED BY <2>1, <2>2 DEF Quiet
<1>3. ASSUME NEW q \in Files, Write(q)
      PROVE  Quiet(d)'
  <2>1. PICK a \in {"add", "modified"} : Notified(q, Event(a, q, q))
    BY <1>3 DEF Write
  <2>2. PICK e : e = Event(a, q, q)
    OBVIOUS
  <2>3. e \in Events(DirOf(q)) /\ e \notin Removals(d)
    BY <2>1, <2>2, EventTyped DEF Event, Removals
  <2>4. /\ watcher'[d].deaf = watcher[d].deaf
        /\ \A f \in Dirs \ {DirOf(q)} : watcher'[f] = watcher[f]
        /\ Watched(q) => watcher'[DirOf(q)].events = Append(watcher[DirOf(q)].events, e)
        /\ ~Watched(q) => watcher' = watcher
    BY <1>1, <2>1, <2>2, <2>3, NotifiedStep
  <2>5. Without(watcher'[d].events, Removals(d))
    <3>1. CASE d = DirOf(q) /\ Watched(q)
      <4>1. watcher'[d].events = Append(watcher[d].events, e) /\ e \in Events(d)
        BY <2>3, <2>4, <3>1
      <4> QED BY <1>1, <2>3, <4>1, WithoutSteps DEF Quiet
    <3>2. CASE ~(d = DirOf(q) /\ Watched(q))
      <4>1. watcher'[d] = watcher[d]
        BY <2>4, <3>2
      <4> QED BY <1>1, <4>1 DEF Quiet
    <3> QED BY <3>1, <3>2
  <2>6. \A r \in Files : IsFile(r) => IsFile(r)'
    <3>1. disk' = [disk EXCEPT ![q] = versions + 1] /\ versions + 1 > 0
      BY <1>3 DEF Write, TypeOK
    <3> QED BY <1>1, <3>1 DEF IsFile
  <2>7. scanner' = scanner
    BY <1>3 DEF Write
  <2> QED BY <1>1, <2>4, <2>5, <2>6, <2>7 DEF Quiet
<1>4. CASE \/ \E f \in Dirs : Return(f)
           \/ \E D \in SUBSET Dirs : EditConfig(D)
           \/ \E t \in Threads : Execute(t)
           \/ UNCHANGED vars
  <2>1. UNCHANGED <<disk, scanner, watcher>>
    BY <1>4 DEF Return, EditConfig, Execute, vars, env
  <2> QED BY <1>2, <2>1 DEF IsFile
<1>5. ASSUME NEW f \in Dirs, NEW q \in Files, ScanNext(f, q)
      PROVE  Quiet(d)'
  <2>1. UNCHANGED <<disk, watcher>>
    BY <1>5 DEF ScanNext, ScanRest, env
  <2>2. CASE f = d
    <3>1. scanner'[d].held = IF Readable(q) THEN <<q, disk[q]>> ELSE <<>>
      <4>1. \E X : scanner'[d] = [gen |-> scanner[d].gen, todo |-> X,
                                  held |-> IF Readable(q) THEN <<q, disk[q]>> ELSE <<>>]
        BY <1>5, <2>2, ScanNextStep
      <4> QED BY <4>1
    <3>2. \A r \in Own(d), v \in Versions : scanner'[d].held = <<r, v>> => IsFile(r)
      BY <3>1 DEF Readable
    <3> QED BY <1>1, <2>1, <3>2 DEF Quiet, IsFile
  <2>3. CASE f # d
    <3>1. scanner'[d] = scanner[d]
      BY <1>5, <2>3, ScanNextStep
    <3> QED BY <1>2, <2>1, <3>1 DEF IsFile
  <2> QED BY <2>2, <2>3
<1>6. ASSUME NEW f \in Dirs, ScanPush(f)
      PROVE  Quiet(d)'
  <2>1. UNCHANGED <<disk, watcher>>
    BY <1>6 DEF ScanPush, ScanRest, env
  <2>2. CASE f = d
    <3>1. scanner'[d].held = <<>>
      <4>1. \E X : scanner'[d] = [gen |-> scanner[d].gen, held |-> <<>>, todo |-> X]
        BY <1>6, <2>2, ScanPushStep
      <4> QED BY <4>1
    <3> QED BY <1>2, <2>1, <3>1 DEF IsFile
  <2>3. CASE f # d
    <3>1. scanner'[d] = scanner[d]
      BY <1>6, <2>3, ScanPushStep
    <3> QED BY <1>2, <2>1, <3>1 DEF IsFile
  <2> QED BY <2>2, <2>3
<1>7. ASSUME NEW f \in Dirs, WatchNext(f)
      PROVE  Quiet(d)'
  <2>1. UNCHANGED <<disk, scanner>>
    BY <1>7 DEF WatchNext, WatchRest, env
  <2>2. CASE f = d
    <3>1. /\ watcher[d].events # <<>> /\ watcher'[d].events = Tail(watcher[d].events)
          /\ watcher'[d].deaf = watcher[d].deaf
      <4>1. \E h : watcher'[d] = [gen |-> watcher[d].gen, events |-> Tail(watcher[d].events),
                                  held |-> h, deaf |-> watcher[d].deaf]
        BY <1>7, <2>2, WatchNextStep, ZenonT(60)
      <4>2. watcher[d].events # <<>>
        BY <1>7, <2>2 DEF WatchNext
      <4> QED BY <4>1, <4>2
    <3>2. Without(watcher'[d].events, Removals(d))
      BY <1>1, <3>1, WithoutSteps DEF Quiet
    <3> QED BY <1>1, <2>1, <3>1, <3>2 DEF Quiet, IsFile
  <2>3. CASE f # d
    <3>1. watcher'[d] = watcher[d]
      BY <1>7, <2>3, WatchNextStep
    <3> QED BY <1>2, <2>1, <3>1 DEF IsFile
  <2> QED BY <2>2, <2>3
<1>8. ASSUME NEW f \in Dirs, WatchPush(f)
      PROVE  Quiet(d)'
  <2>1. UNCHANGED <<disk, scanner>>
    BY <1>8 DEF WatchPush, WatchRest, env
  <2>2. CASE f = d
    <3>0. watcher'[d] = [gen |-> watcher[d].gen, events |-> watcher[d].events,
                         held |-> <<>>, deaf |-> watcher[d].deaf]
      BY <1>8, <2>2, WatchPushStep
    <3>1. watcher'[d].events = watcher[d].events /\ watcher'[d].deaf = watcher[d].deaf
      BY <3>0
    <3> QED BY <1>2, <2>1, <3>1 DEF IsFile
  <2>3. CASE f # d
    <3>1. watcher'[d] = watcher[d]
      BY <1>8, <2>3, WatchPushStep
    <3> QED BY <1>2, <2>1, <3>1 DEF IsFile
  <2> QED BY <2>2, <2>3
<1>9. CASE CallObserver
  <2>1. PICK kind \in Kinds : Observe(kind)
    BY <1>9, NextCall
  <2>2. disk' = disk
    BY <1>9 DEF CallObserver
  <2>3. CASE kind = "scan"
    <3>1. watcher' = watcher /\ scanner'[d].held \in {<<>>, scanner[d].held}
      BY <2>1, <2>3, ObserveStep DEF Scanner
    <3> QED BY <1>2, <2>2, <3>1 DEF IsFile
  <2>4. CASE kind = "watch"
    <3>1. scanner' = scanner
      BY <2>1, <2>4, ObserveStep
    <3>2. watcher'[d] = watcher[d] \/ \E g : watcher'[d] = Watcher(g, <<>>)
      BY <2>1, <2>4, ObserveStep
    <3>3. CASE watcher'[d] = watcher[d]
      BY <1>2, <2>2, <3>1, <3>3 DEF IsFile
    <3>4. CASE \E g : watcher'[d] = Watcher(g, <<>>)
      <4>1. watcher'[d].events = <<>> /\ watcher'[d].deaf = FALSE
        BY <3>4 DEF Watcher
      <4>2. Without(watcher'[d].events, Removals(d))
        BY <4>1 DEF Without
      <4> QED BY <1>1, <2>2, <3>1, <4>1, <4>2 DEF Quiet, IsFile
    <3> QED BY <3>2, <3>3, <3>4
  <2> QED BY <2>1, <2>3, <2>4 DEF Kinds
<1>10. CASE Daemon
  BY <1>4, <1>5, <1>6, <1>7, <1>8, <1>9, <1>10 DEF Daemon
<1> QED BY <1>3, <1>4, <1>10, NothingRemoved

LEMMA OnlyUpdatesStep ==
  ASSUME TypeOK, Shape, \A d \in Dirs : Quiet(d), OnlyUpdates, Undisturbed', [Next]_vars
  PROVE  OnlyUpdates'
<1> SUFFICES ASSUME NEW t \in Threads \ {<<"config">>}
             PROVE  Without(queue'[t], Others(t[2]))
  BY DEF OnlyUpdates
<1>1. /\ Without(queue[t], Others(t[2])) /\ queue[t] \in Seq(Work(t[2])) /\ DOMAIN queue = Threads
  BY DEF OnlyUpdates, Shape, QueueShape
<1>2. ASSUME NEW u \in Threads \ {<<"config">>}, NEW q, NEW v,
             Command("update", q, q, v) \in Work(u[2]),
             Push(u, Command("update", q, q, v)) \/ UNCHANGED queue
      PROVE  Without(queue'[t], Others(t[2]))
  <2>1. PICK c : c = Command("update", q, q, v)
    OBVIOUS
  <2>2. c \in Work(u[2]) /\ c \notin Others(u[2]) /\ (Push(u, c) \/ UNCHANGED queue)
    BY <1>2, <2>1 DEF Others, Command
  <2>3. CASE UNCHANGED queue
    BY <1>1, <2>3
  <2>4. CASE Push(u, c) /\ u = t
    <3>1. queue'[t] = Append(queue[t], c)
      BY <1>1, <2>4 DEF Push
    <3> QED BY <1>1, <2>2, <2>4, <3>1, WithoutSteps
  <2>5. CASE Push(u, c) /\ u # t
    <3>1. queue'[t] = queue[t]
      BY <1>1, <2>5 DEF Push
    <3> QED BY <1>1, <3>1
  <2> QED BY <2>2, <2>3, <2>4, <2>5
<1>3. ASSUME NEW d \in Dirs, ScanPush(d)
      PROVE  Without(queue'[t], Others(t[2]))
  <2>1. PICK u : u = <<"scan", d, scanner[d].gen>>
    OBVIOUS
  <2>2. PICK q \in Own(d), v \in Versions :
          /\ u \in Threads \ {<<"config">>}
          /\ Push(u, Command("update", q, q, v)) \/ UNCHANGED queue
    BY <1>3, <2>1, ScanPushStep
  <2>3. Command("update", q, q, v) \in Work(u[2])
    BY <2>1, CountAssumption DEF Command, Work, Versions
  <2> QED BY <1>2, <2>2, <2>3
<1>4. ASSUME NEW d \in Dirs, WatchPush(d)
      PROVE  Without(queue'[t], Others(t[2]))
  <2>1. PICK u : u = <<"watch", d, watcher[d].gen>>
    OBVIOUS
  <2>2. PICK q \in Own(d), v \in Versions :
          /\ u \in Threads \ {<<"config">>}
          /\ Push(u, Command("update", q, q, v)) \/ UNCHANGED queue
    BY <1>4, <2>1, WatchPushStep
  <2>3. Command("update", q, q, v) \in Work(u[2])
    BY <2>1, CountAssumption DEF Command, Work, Versions
  <2> QED BY <1>2, <2>2, <2>3
<1>5. ASSUME NEW d \in Dirs, WatchNext(d)
      PROVE  Without(queue'[t], Others(t[2]))
  <2>1. PICK u : u = <<"watch", d, watcher[d].gen>>
    OBVIOUS
  <2>2. PICK e \in Events(d) : /\ watcher[d].events # <<>> /\ e = Head(watcher[d].events)
                               /\ u \in Threads /\ queue' = [queue EXCEPT ![u] = @ \o Reaction(e)]
    BY <1>5, <2>1, WatchNextStep, ZenonT(60)
  <2>3. e \notin Removals(d)
    <3>1. watcher[d].events \in Seq(Events(d)) /\ Without(watcher[d].events, Removals(d))
      BY DEF Quiet, Shape, WatcherShape, WatcherOf
    <3> QED BY <2>2, <3>1, WithoutSteps
  <2>4. Reaction(e) = <<>>
    BY <2>3 DEF Reaction, Removals
  <2>5. queue'[t] = queue[t]
    <3>1. CASE u = t
      <4>1. queue'[t] = queue[t] \o <<>>
        BY <1>1, <2>2, <2>4, <3>1
      <4> QED BY <1>1, <4>1
    <3>2. CASE u # t
      BY <1>1, <2>2, <3>2
    <3> QED BY <3>1, <3>2
  <2> QED BY <1>1, <2>5
<1>6. ASSUME NEW u \in Threads, Execute(u)
      PROVE  Without(queue'[t], Others(t[2]))
  <2>1. CASE u = t
    <3>1. queue[t] # <<>> /\ queue'[t] = Tail(queue[t])
      BY <1>1, <1>6, <2>1 DEF Execute
    <3> QED BY <1>1, <3>1, WithoutSteps
  <2>2. CASE u # t
    <3>1. queue'[t] = queue[t]
      BY <1>1, <1>6, <2>2 DEF Execute
    <3> QED BY <1>1, <3>1
  <2> QED BY <2>1, <2>2
<1>7. CASE \/ \E q \in Files : Write(q)
           \/ \E f \in Dirs : Return(f)
           \/ \E D \in SUBSET Dirs : EditConfig(D)
           \/ \E d \in Dirs : \E q \in Files : ScanNext(d, q)
           \/ CallObserver \/ UNCHANGED vars
  <2>1. queue'[t] = queue[t]
    BY <1>1, <1>7 DEF Write, Return, EditConfig, Push, ScanNext, CallObserver, vars
  <2> QED BY <1>1, <2>1
<1>8. CASE Daemon
  BY <1>3, <1>4, <1>5, <1>6, <1>7, <1>8 DEF Daemon
<1> QED BY <1>7, <1>8, NothingRemoved

LEMMA QuietKept == Spec => [](Undisturbed => QuietInv)
<1>1. Init => QuietInv
  <2> SUFFICES ASSUME Init PROVE QuietInv
    OBVIOUS
  <2>1. InOrder
    BY DEF Init, InOrder, Scanner, Watcher
  <2>2. ASSUME NEW d \in Dirs
        PROVE  Quiet(d)
    <3>1. /\ watcher[d].deaf = FALSE /\ watcher[d].events = <<>> /\ scanner[d].held = <<>>
      BY DEF Init, Scanner, Watcher
    <3>2. Without(watcher[d].events, Removals(d))
      BY <3>1 DEF Without
    <3> QED BY <3>1, <3>2 DEF Quiet
  <2>3. OnlyUpdates
    BY DEF Init, OnlyUpdates, Without
  <2> QED BY <2>1, <2>2, <2>3 DEF QuietInv
<1>2. (TypeOK /\ Shape) /\ ConfigInv /\ (Undisturbed => QuietInv) /\ [Next]_vars
        => (Undisturbed => QuietInv)'
  <2> SUFFICES ASSUME TypeOK, Shape, ConfigInv, Undisturbed => QuietInv, [Next]_vars, Undisturbed'
               PROVE  QuietInv'
    OBVIOUS
  <2>1. QuietInv
    BY NothingRemoved
  <2> QED BY <2>1, InOrderStep, QuietStep, OnlyUpdatesStep DEF QuietInv
<1> QED BY <1>1, <1>2, Typed, Configured, PTL DEF Spec

-----------------------------------------------------------------------------
(* No gap *)

Scanned(p) == queue[<<"scan", DirOf(p), scanner[DirOf(p)].gen>>]

\* The watcher of p knows nothing of it.
Silent(p) == /\ Without(Heard(p), Mentions(p))
             /\ watcher[DirOf(p)].held \notin {p} \X Versions
             /\ Without(Pushed(p), Touches(p))

\* What the scanner has read of p is what is there.
Stale(p) == {c \in Work(DirOf(p)) : c.path = p /\ c.version # disk[p]}
Fits(p)  == /\ scanner[DirOf(p)].held \notin {p} \X (Versions \ {disk[p]})
            /\ Without(Scanned(p), Stale(p))

Found(p) == ComingFromScanner(p) \/ UpToDate(p) \/ lastRun[p] \in {"dangling", "failed"}

Expected(p) == IsFile(p) /\ p \notin Broken /\ In(DirOf(p)) \cap Damaged = {}

NoGap(p) ==
  watcher[DirOf(p)].gen > 0 =>
    /\ Silent(p)
    /\ scanner[DirOf(p)].gen > 0 => Fits(p) /\ (Expected(p) => terminated \/ Found(p))

GapInv == \A p \in Files \ witnessed : NoGap(p)

\* What NoGap depends on.
LEMMA SilentKept ==
  ASSUME NEW p, NEW d, d = DirOf(p), Silent(p), watcher'[d].events = watcher[d].events,
         watcher'[d].held \in {watcher[d].held, <<>>},
         watcher'[d].gen = watcher[d].gen,
         queue'[<<"watch", d, watcher[d].gen>>] = queue[<<"watch", d, watcher[d].gen>>]
  PROVE  Silent(p)'
<1>1. Heard(p)' = Heard(p) /\ Pushed(p)' = Pushed(p)
  BY DEF Heard, Pushed
<1>2. watcher'[DirOf(p)].held \notin {p} \X Versions
  BY DEF Silent
<1> QED BY <1>1, <1>2 DEF Silent

LEMMA FitsKept ==
  ASSUME NEW p, NEW d, d = DirOf(p), Fits(p), disk'[p] = disk[p],
         scanner'[d].held \in {scanner[d].held, <<>>, <<p, disk[p]>>},
         scanner'[d].gen = scanner[d].gen,
         queue'[<<"scan", d, scanner[d].gen>>] = queue[<<"scan", d, scanner[d].gen>>]
  PROVE  Fits(p)'
<1>1. Scanned(p)' = Scanned(p) /\ Stale(p)' = Stale(p)
  BY DEF Scanned, Stale
<1>2. scanner'[d].held \notin {p} \X (Versions \ {disk[p]})
  <2>1. scanner[d].held \notin {p} \X (Versions \ {disk[p]})
    BY DEF Fits
  <2>2. <<>> \notin {p} \X (Versions \ {disk[p]}) /\ <<p, disk[p]>> \notin {p} \X (Versions \ {disk[p]})
    OBVIOUS
  <2> QED BY <2>1, <2>2
<1>3. Without(Scanned(p)', Stale(p)')
  BY <1>1 DEF Fits
<1> QED BY <1>2, <1>3 DEF Fits

LEMMA FoundKept ==
  ASSUME NEW p, NEW d, d = DirOf(p), Found(p), disk'[p] = disk[p],
         p \in scanner[d].todo => p \in scanner'[d].todo,
         scanner'[d].held = scanner[d].held, scanner'[d].gen = scanner[d].gen,
         queue'[<<"scan", d, scanner[d].gen>>] = queue[<<"scan", d, scanner[d].gen>>],
         UpToDate(p) => UpToDate(p)', lastRun'[p] = lastRun[p]
  PROVE  Found(p)'
<1>1. Queued("scan", p) => Queued("scan", p)'
  BY DEF Queued
<1> QED BY <1>1 DEF Found, ComingFromScanner

\* No part of what is said of p is touched.
LEMMA NoGapKept ==
  ASSUME NEW p, NEW d, d = DirOf(p), NoGap(p), disk'[p] = disk[p], UNCHANGED index,
         lastRun'[p] = lastRun[p], terminated => terminated',
         watcher'[d].gen = watcher[d].gen,
         watcher[d].gen > 0 /\ Silent(p) => Silent(p)',
         scanner'[d] = scanner[d],
         scanner[d].gen > 0 =>
           queue'[<<"scan", d, scanner[d].gen>>] = queue[<<"scan", d, scanner[d].gen>>]
  PROVE  NoGap(p)'
<1>1. scanner[d].gen > 0 /\ Fits(p) => Fits(p)'
  BY FitsKept
<1>2. UpToDate(p)' <=> UpToDate(p)
  BY DEF UpToDate
<1>3. scanner[d].gen > 0 /\ Found(p) => Found(p)'
  BY <1>2, FoundKept
<1>4. Expected(p)' <=> Expected(p)
  BY DEF Expected, IsFile
<1> QED BY <1>1, <1>3, <1>4 DEF NoGap

LEMMA GapWrite ==
  ASSUME TypeOK, Shape, QuietInv, NEW p \in Files, NEW q \in Files, Write(q),
         p \notin witnessed', p \notin witnessed => NoGap(p)
  PROVE  NoGap(p)'
<1>1. PICK d \in Dirs : d = DirOf(p)
  BY OwnFiles
<1>2. PICK a \in {"add", "modified"} : Notified(q, Event(a, q, q))
  BY DEF Write
<1>3. PICK e : e = Event(a, q, q)
  OBVIOUS
<1>4. e \in Events(DirOf(q)) /\ e.path = q /\ e.old = q /\ WatcherShape
  BY <1>3, EventTyped DEF Event, Shape
<1>5. /\ \A f \in Dirs : watcher'[f].gen = watcher[f].gen /\ watcher'[f].held = watcher[f].held
      /\ \A f \in Dirs \ {DirOf(q)} : watcher'[f] = watcher[f]
      /\ Watched(q) => watcher'[DirOf(q)].events = Append(watcher[DirOf(q)].events, e)
      /\ ~Watched(q) => watcher' = watcher
  BY <1>2, <1>3, <1>4, NotifiedStep
<1>6. /\ witnessed' = IF Watched(q) THEN witnessed \cup {q} ELSE witnessed \ {q}
      /\ disk' = [disk EXCEPT ![q] = versions + 1]
      /\ lastRun' = [lastRun EXCEPT ![q] = "none"]
      /\ UNCHANGED <<scanner, queue, index, terminated>>
  BY DEF Write
<1>7. CASE q = p
  <2>1. ~Watched(p) /\ watcher[d].gen \in Nat
    BY <1>1, <1>6, <1>7 DEF Shape, WatcherShape, WatcherOf
  <2>2. ~(watcher[d].gen > 0)
    BY <1>1, <2>1 DEF Watched, QuietInv, Quiet
  <2> QED BY <1>1, <1>5, <2>2 DEF NoGap
<1>8. CASE q # p
  <2>1. NoGap(p) /\ disk'[p] = disk[p] /\ lastRun'[p] = lastRun[p]
    BY <1>6, <1>8 DEF TypeOK
  <2>2. Silent(p) => Silent(p)'
    <3> SUFFICES ASSUME Silent(p) PROVE Silent(p)'
      OBVIOUS
    <3>1. Heard(p) \in Seq(Events(d)) /\ Without(Heard(p), Mentions(p))
      BY <1>1 DEF Shape, WatcherShape, WatcherOf, Heard, Silent
    <3>2. Without(Heard(p)', Mentions(p))
      <4>1. CASE d = DirOf(q) /\ Watched(q)
        <5>1. Heard(p)' = Append(Heard(p), e) /\ e \in Events(d) /\ e \notin Mentions(p)
          BY <1>1, <1>4, <1>5, <1>8, <4>1 DEF Heard, Mentions
        <5> QED BY <3>1, <5>1, WithoutSteps
      <4>2. CASE ~(d = DirOf(q) /\ Watched(q))
        <5>1. watcher'[d] = watcher[d]
          BY <1>5, <4>2
        <5>2. Heard(p)' = Heard(p)
          BY <1>1, <5>1 DEF Heard
        <5> QED BY <3>1, <5>2
      <4> QED BY <4>1, <4>2
    <3>3. Pushed(p)' = Pushed(p) /\ watcher'[DirOf(p)].held = watcher[DirOf(p)].held
      BY <1>1, <1>5, <1>6 DEF Pushed
    <3> QED BY <3>2, <3>3 DEF Silent
  <2> QED BY <1>1, <1>5, <1>6, <2>1, <2>2, NoGapKept
<1> QED BY <1>7, <1>8

\* The scanner of p goes on.
LEMMA GapScanNext ==
  ASSUME TypeOK, Shape, NEW p \in Files, NoGap(p), NEW q \in Files, ScanNext(DirOf(p), q)
  PROVE  NoGap(p)'
<1>1. PICK d \in Dirs : d = DirOf(p)
  BY OwnFiles
<1>2. /\ UNCHANGED <<disk, watcher, queue, index, lastRun>> /\ ~terminated
      /\ q \in Own(d) /\ scanner[d].held = <<>>
  BY <1>1, ScanNextStep DEF ScanNext, ScanRest, env, db
<1>3. PICK X, Y : /\ X = IF IsFile(q) /\ q \in Damaged THEN {} ELSE scanner[d].todo \ {q}
                  /\ Y = IF Readable(q) THEN <<q, disk[q]>> ELSE <<>>
  OBVIOUS
<1>4. scanner'[d] = [gen |-> scanner[d].gen, todo |-> X, held |-> Y]
  BY <1>1, <1>3, ScanNextStep
<1>5. Silent(p)' <=> Silent(p)
  BY <1>2 DEF Silent, Heard, Pushed
<1>6. Fits(p) => Fits(p)'
  <2>1. CASE q = p
    BY <1>1, <1>2, <1>3, <1>4, <2>1, FitsKept
  <2>2. CASE q # p
    <3>1. Y \notin {p} \X (Versions \ {disk[p]})
      BY <1>3, <2>2
    <3>2. Scanned(p)' = Scanned(p) /\ Stale(p)' = Stale(p)
      BY <1>1, <1>2, <1>4 DEF Scanned, Stale
    <3>3. scanner'[DirOf(p)].held \notin {p} \X (Versions \ {disk'[p]})
      BY <1>1, <1>2, <1>4, <3>1
    <3> QED BY <3>2, <3>3 DEF Fits
  <2> QED BY <2>1, <2>2
<1>7. ASSUME Expected(p), Found(p)
      PROVE  Found(p)'
  <2>1. q \notin Damaged /\ IsFile(p) /\ p \notin Broken \cup Damaged
    BY <1>1, <1>2, <1>7, OwnFiles DEF Expected
  <2>2. CASE q = p
    <3>1. scanner'[DirOf(p)].held = <<p, disk[p]>>
      BY <1>1, <1>3, <1>4, <2>1, <2>2 DEF Readable
    <3> QED BY <1>2, <3>1 DEF Found, ComingFromScanner
  <2>3. CASE q # p
    <3>1. p \in scanner[d].todo => p \in scanner'[d].todo
      BY <1>3, <1>4, <2>1, <2>3
    <3>2. scanner[DirOf(p)].held # <<p, disk[p]>>
      BY <1>1, <1>2
    <3>3. Queued("scan", p) => Queued("scan", p)'
      BY <1>1, <1>2, <1>4 DEF Queued
    <3>4. UpToDate(p)' <=> UpToDate(p)
      BY <1>2 DEF UpToDate
    <3> QED BY <1>1, <1>2, <1>7, <3>1, <3>2, <3>3, <3>4 DEF Found, ComingFromScanner
  <2> QED BY <2>2, <2>3
<1>8. Expected(p)' <=> Expected(p)
  BY <1>2 DEF Expected, IsFile
<1>9. watcher'[DirOf(p)].gen = watcher[DirOf(p)].gen /\ scanner'[DirOf(p)].gen = scanner[DirOf(p)].gen
  BY <1>1, <1>2, <1>4
<1> QED BY <1>2, <1>5, <1>6, <1>7, <1>8, <1>9 DEF NoGap

\* The scanner of p pushes what it has read.
LEMMA GapScanPush ==
  ASSUME TypeOK, Shape, QuietInv, NEW p \in Files, NoGap(p), ScanPush(DirOf(p))
  PROVE  NoGap(p)'
<1>1. PICK d \in Dirs : d = DirOf(p)
  BY OwnFiles
<1>2. PICK t : t = <<"scan", d, scanner[d].gen>>
  OBVIOUS
<1>3. PICK q \in Own(d), v \in Versions :
        /\ scanner[d].held = <<q, v>> /\ scanner[d].gen \in 1 .. MaxGen
        /\ t \in Threads \ {<<"config">>}
        /\ scanner'[d] = [gen |-> scanner[d].gen, held |-> <<>>,
                          todo |-> IF IsFile(q) THEN scanner[d].todo ELSE {}]
        /\ IF IsFile(q) THEN Push(t, Command("update", q, q, v)) ELSE UNCHANGED queue
  BY <1>1, <1>2, ScanPushStep
<1>4. UNCHANGED <<disk, watcher, index, lastRun, terminated>>
  BY DEF ScanPush, ScanRest, env, db
<1>5. IsFile(q)
  BY <1>3 DEF QuietInv, Quiet
<1>6. PICK c : c = Command("update", q, q, v)
  OBVIOUS
<1>7. /\ queue' = [queue EXCEPT ![t] = Append(@, c)] /\ DOMAIN queue = Threads
      /\ queue[t] \in Seq(Work(d)) /\ c \in Work(d)
      /\ scanner'[d] = [gen |-> scanner[d].gen, held |-> <<>>, todo |-> scanner[d].todo]
  <2>1. Push(t, c)
    BY <1>3, <1>5, <1>6
  <2>2. scanner'[d] = [gen |-> scanner[d].gen, held |-> <<>>, todo |-> scanner[d].todo]
    BY <1>3, <1>5
  <2>3. DOMAIN queue = Threads /\ queue[t] \in Seq(Work(d))
    BY <1>2, <1>3 DEF Shape, QueueShape
  <2>4. c \in Work(d)
    BY <1>6, CountAssumption DEF Command, Work, Versions
  <2> QED BY <2>1, <2>2, <2>3, <2>4 DEF Push
<1>8. Scanned(p) = queue[t] /\ Scanned(p)' = Append(queue[t], c)
  BY <1>1, <1>2, <1>3, <1>7 DEF Scanned
<1>9. Silent(p)' <=> Silent(p)
  <2>1. t # <<"watch", d, watcher[d].gen>>
    BY <1>2
  <2>2. Pushed(p)' = Pushed(p)
    BY <1>1, <1>4, <1>7, <2>1 DEF Pushed
  <2> QED BY <1>4, <2>2 DEF Silent, Heard
<1>10. Fits(p) => Fits(p)'
  <2> SUFFICES ASSUME Fits(p) PROVE Fits(p)'
    OBVIOUS
  <2>1. Stale(p)' = Stale(p)
    BY <1>4 DEF Stale
  <2>2. <<q, v>> \notin {p} \X (Versions \ {disk[p]})
    BY <1>1, <1>3 DEF Fits
  <2>3. c \notin Stale(p)
    BY <1>3, <1>6, <2>2 DEF Stale, Command
  <2>4. Without(Append(queue[t], c), Stale(p))
    BY <1>7, <1>8, <2>3, WithoutSteps DEF Fits
  <2>5. scanner'[DirOf(p)].held = <<>>
    BY <1>1, <1>7
  <2>6. scanner'[DirOf(p)].held \notin {p} \X (Versions \ {disk'[p]})
    BY <2>5
  <2>7. Without(Scanned(p)', Stale(p)')
    BY <1>8, <2>1, <2>4
  <2> QED BY <2>6, <2>7 DEF Fits
<1>11. Found(p) => Found(p)'
  <2> SUFFICES ASSUME Found(p) PROVE Found(p)'
    OBVIOUS
  <2>1. ToSet(queue[t]) \subseteq ToSet(Append(queue[t], c)) /\ c \in ToSet(Append(queue[t], c))
    BY <1>7, MembersStep
  <2>2. /\ scanner'[d].gen = scanner[d].gen /\ scanner'[d].todo = scanner[d].todo
        /\ scanner[d].gen > 0
    BY <1>3, <1>7
  <2>3. Command("update", p, p, disk[p]) \in ToSet(Append(queue[t], c)) => Queued("scan", p)'
    BY <1>1, <1>4, <1>8, <2>2 DEF Queued, Scanned
  <2>4. Queued("scan", p) => Command("update", p, p, disk[p]) \in ToSet(queue[t])
    BY <1>1, <1>8 DEF Queued, Scanned
  <2>5. scanner[DirOf(p)].held = <<p, disk[p]>> => c = Command("update", p, p, disk[p])
    BY <1>1, <1>3, <1>6
  <2>6. UpToDate(p)' <=> UpToDate(p)
    BY <1>4 DEF UpToDate
  <2>7. p \in scanner[DirOf(p)].todo => p \in scanner'[DirOf(p)].todo
    BY <1>1, <2>2
  <2> QED BY <1>4, <2>1, <2>3, <2>4, <2>5, <2>6, <2>7 DEF Found, ComingFromScanner
<1>12. Expected(p)' <=> Expected(p)
  BY <1>4 DEF Expected, IsFile
<1>13. watcher'[DirOf(p)].gen = watcher[DirOf(p)].gen /\ scanner'[DirOf(p)].gen = scanner[DirOf(p)].gen
  BY <1>1, <1>4, <1>7
<1> QED BY <1>4, <1>9, <1>10, <1>11, <1>12, <1>13 DEF NoGap

\* The watcher of p goes on, about other files.
LEMMA GapWatchNext ==
  ASSUME TypeOK, Shape, QuietInv, NEW p \in Files, NoGap(p), WatchNext(DirOf(p))
  PROVE  NoGap(p)'
<1>1. PICK d \in Dirs : d = DirOf(p)
  BY OwnFiles
<1>2. PICK t : t = <<"watch", d, watcher[d].gen>>
  OBVIOUS
<1>3. PICK e \in Events(d), reads \in BOOLEAN :
        /\ reads <=> e.action \in {"add", "modified"} /\ IsFile(e.path)
        /\ watcher[d].events # <<>> /\ e = Head(watcher[d].events)
        /\ t \in Threads \ {<<"config">>}
        /\ watcher'[d] = [gen |-> watcher[d].gen, events |-> Tail(watcher[d].events),
                          held |-> IF reads THEN <<e.path, disk[e.path]>> ELSE <<>>,
                          deaf |-> watcher[d].deaf]
        /\ queue' = [queue EXCEPT ![t] = @ \o Reaction(e)]
  <2>1. PICK e \in Events(d) :
        /\ watcher[d].events # <<>> /\ e = Head(watcher[d].events)
        /\ t \in Threads \ {<<"config">>}
        /\ watcher'[d] = [gen |-> watcher[d].gen, events |-> Tail(watcher[d].events),
                          held |-> IF e.action \in {"add", "modified"} /\ IsFile(e.path)
                                     THEN <<e.path, disk[e.path]>> ELSE <<>>,
                          deaf |-> watcher[d].deaf]
        /\ queue' = [queue EXCEPT ![t] = @ \o Reaction(e)]
    BY <1>1, <1>2, WatchNextStep, ZenonT(60)
  <2>2. PICK reads \in BOOLEAN : reads = (e.action \in {"add", "modified"} /\ IsFile(e.path))
    OBVIOUS
  <2> QED BY <2>1, <2>2
<1>4. UNCHANGED <<disk, scanner, index, lastRun>> /\ ~terminated
  BY DEF WatchNext, WatchRest, env, db
<1>5. e \notin Removals(d) /\ watcher[d].events \in Seq(Events(d))
  <2>1. watcher[d].events \in Seq(Events(d)) /\ Without(watcher[d].events, Removals(d))
    BY DEF QuietInv, Quiet, Shape, WatcherShape, WatcherOf
  <2> QED BY <1>3, <2>1, WithoutSteps
<1>6. Reaction(e) = <<>>
  BY <1>5 DEF Reaction, Removals
<1>7. queue'[t] = queue[t] /\ \A u \in Threads \ {t} : queue'[u] = queue[u]
  <2>1. /\ queue'[t] = queue[t] \o <<>> /\ queue[t] \in Seq(Work(t[2]))
        /\ \A u \in Threads \ {t} : queue'[u] = queue[u]
    BY <1>3, <1>6 DEF Shape, QueueShape
  <2> QED BY <2>1
<1>8. Silent(p) => Silent(p)'
  <2> SUFFICES ASSUME Silent(p) PROVE Silent(p)'
    OBVIOUS
  <2>1. Without(Tail(watcher[d].events), Mentions(p)) /\ e \notin Mentions(p)
    BY <1>1, <1>3, <1>5, WithoutSteps DEF Silent, Heard
  <2>2. e.path # p
    BY <1>1, <1>3, <2>1 DEF Mentions
  <2>3. watcher'[DirOf(p)].held \notin {p} \X Versions
    <3>1. watcher'[d].held = IF reads THEN <<e.path, disk[e.path]>> ELSE <<>>
      BY <1>3
    <3> QED BY <1>1, <2>2, <3>1
  <2>4. Pushed(p)' = Pushed(p) /\ Heard(p)' = Tail(watcher[d].events)
    <3>1. watcher'[d].gen = watcher[d].gen /\ watcher'[d].events = Tail(watcher[d].events)
      BY <1>3
    <3> QED BY <1>1, <1>2, <1>7, <3>1 DEF Pushed, Heard
  <2> QED BY <2>1, <2>3, <2>4 DEF Silent
<1>9. queue' = queue
  BY <1>3, <1>7 DEF Shape, QueueShape
<1>10. watcher'[d].gen = watcher[d].gen
  BY <1>3
<1> QED BY <1>1, <1>4, <1>8, <1>9, <1>10, NoGapKept

LEMMA GapWatchPush ==
  ASSUME TypeOK, Shape, NEW p \in Files, NoGap(p), WatchPush(DirOf(p))
  PROVE  NoGap(p)'
<1>1. PICK d \in Dirs : d = DirOf(p)
  BY OwnFiles
<1>2. PICK t : t = <<"watch", d, watcher[d].gen>>
  OBVIOUS
<1>3. PICK q \in Own(d), v \in Versions :
        /\ watcher[d].held = <<q, v>> /\ t \in Threads \ {<<"config">>}
        /\ watcher'[d] = [gen |-> watcher[d].gen, events |-> watcher[d].events,
                          held |-> <<>>, deaf |-> watcher[d].deaf]
        /\ Push(t, Command("update", q, q, v)) \/ UNCHANGED queue
  BY <1>1, <1>2, WatchPushStep
<1>4. UNCHANGED <<disk, scanner, index, lastRun>> /\ ~terminated
  BY DEF WatchPush, WatchRest, env, db
<1>5. PICK c : c = Command("update", q, q, v)
  OBVIOUS
<1>6. queue[t] \in Seq(Work(d)) /\ c \in Work(d) /\ DOMAIN queue = Threads
  <2>1. queue[t] \in Seq(Work(d)) /\ DOMAIN queue = Threads
    BY <1>2, <1>3 DEF Shape, QueueShape
  <2>2. c \in Work(d)
    BY <1>5, CountAssumption DEF Command, Work, Versions
  <2> QED BY <2>1, <2>2
<1>7. Silent(p) => Silent(p)'
  <2> SUFFICES ASSUME Silent(p) PROVE Silent(p)'
    OBVIOUS
  <2>1. q # p /\ Without(queue[t], Touches(p))
    BY <1>1, <1>2, <1>3 DEF Silent, Pushed
  <2>2. c \notin Touches(p)
    BY <1>5, <2>1 DEF Touches, Command
  <2>3. Without(Append(queue[t], c), Touches(p))
    BY <1>6, <2>1, <2>2, WithoutSteps
  <2>4. queue'[t] = Append(queue[t], c) \/ queue'[t] = queue[t]
    BY <1>3, <1>5, <1>6 DEF Push
  <2>5. Heard(p)' = Heard(p) /\ Pushed(p)' = queue'[t] /\ watcher'[DirOf(p)].held = <<>>
    BY <1>1, <1>2, <1>3 DEF Heard, Pushed
  <2>6. watcher'[DirOf(p)].held \notin {p} \X Versions
    BY <2>5
  <2>7. Without(Pushed(p)', Touches(p))
    BY <2>1, <2>3, <2>4, <2>5
  <2> QED BY <2>5, <2>6, <2>7 DEF Silent
<1>8. scanner[d].gen > 0 =>
        queue'[<<"scan", d, scanner[d].gen>>] = queue[<<"scan", d, scanner[d].gen>>]
  <2> SUFFICES ASSUME scanner[d].gen > 0
               PROVE  queue'[<<"scan", d, scanner[d].gen>>] = queue[<<"scan", d, scanner[d].gen>>]
    OBVIOUS
  <2>0. scanner[d].gen \in 1 .. MaxGen
    BY CountAssumption DEF Shape, ScannerShape, ScannerOf, MaxGen
  <2>1. PICK u \in Threads : u = <<"scan", d, scanner[d].gen>>
    BY <2>0, ThreadNames
  <2>2. t # u
    BY <1>2, <2>1
  <2>3. queue'[u] = queue[u]
    <3>1. CASE queue' = [queue EXCEPT ![t] = Append(@, c)]
      BY <1>6, <2>2, <3>1
    <3>2. CASE UNCHANGED queue
      BY <3>2
    <3> QED BY <1>3, <1>5, <3>1, <3>2 DEF Push
  <2> QED BY <2>1, <2>3
<1>9. watcher'[d].gen = watcher[d].gen
  BY <1>3
<1> QED BY <1>1, <1>4, <1>7, <1>8, <1>9, NoGapKept

\* An observer starts or stops the watcher or the scanner of p, or leaves both alone.
LEMMA GapObserved ==
  ASSUME TypeOK, Shape, ConfigInv, FreshInv, QuietInv, GapInv, CallObserver,
         NEW p \in Files, p \notin witnessed'
  PROVE  NoGap(p)'
<1>1. PICK d \in Dirs : d = DirOf(p)
  BY OwnFiles
<1>2. PICK kind \in Kinds : kind = Head(calls) /\ Observe(kind)
  BY NextCall
<1>3. /\ UNCHANGED <<disk, queue, lastRun, terminated>>
      /\ calls \in {<<"scan">>, <<"watch", "scan">>}
      /\ gone = {}
  BY DEF CallObserver, QuietInv, InOrder
<1>4. /\ index' = {x \in index : \A f \in Trash(kind) : ~IsParentOf(f, x.path)}
      /\ witnessed' = {q \in witnessed : DirOf(q) \notin Trash(kind)}
      /\ Trash(kind) \subseteq Dirs
  BY <1>2, ObserveStep DEF Trash
<1>5. ASSUME d \notin Trash(kind)
      PROVE  p \notin witnessed /\ (UpToDate(p) => UpToDate(p)')
  <2>1. p \notin witnessed
    BY <1>1, <1>4, <1>5
  <2>2. \A f \in Trash(kind) : ~IsParentOf(f, p)
    BY <1>1, <1>4, <1>5, OneParent
  <2>3. {y \in index' : y.path = p} = {y \in index : y.path = p}
    BY <1>4, <2>2
  <2>4. UpToDate(p)' <=> UpToDate(p)
    BY <1>3, <2>3 DEF UpToDate
  <2> QED BY <2>1, <2>4
<1>6. Generation \in 1 .. MaxGen
  <2>1. /\ edits \in 0 .. MaxEdits /\ queue[<<"config">>] \in Seq({ReadAgain})
        /\ Len(queue[<<"config">>]) <= edits
    BY DEF TypeOK, Shape, QueueShape
  <2>2. PICK n \in Nat : n = Len(queue[<<"config">>]) /\ n <= edits
    BY <2>1
  <2>3. MaxEdits \in Nat /\ edits \in Int /\ n \in Int /\ edits <= MaxEdits /\ n <= edits /\ 0 <= n
    BY <2>1, <2>2, CountAssumption
  <2>4. edits + 1 - n \in 1 .. MaxEdits + 1
    BY <2>3
  <2> QED BY <2>2, <2>4 DEF Generation, MaxGen
<1>7. kind \in Coming
  <2>1. calls # <<>> /\ calls \in Seq(Kinds)
    BY DEF CallObserver, TypeOK, Kinds
  <2>2. Head(calls) \in ToSet(calls)
    BY <2>1 DEF ToSet
  <2> QED BY <1>2, <2>2 DEF Coming
<1>8. queue'[<<kind, d, Generation>>] = <<>>
  <2>1. Generation > Top(kind)
    BY <1>6, <1>7 DEF Top
  <2> QED BY <1>3, <1>6, <2>1 DEF FreshInv
<1>9. Without(<<>>, Touches(p)) /\ Without(<<>>, Stale(p)) /\ Without(<<>>, Mentions(p))
  BY DEF Without
<1>10. CASE kind = "watch"
  <2>1. /\ watcher'[d] = IF d \in Trash(kind) THEN Watcher(0, <<>>)
                         ELSE IF d \in Fresh(kind) \ gone THEN Watcher(Generation, <<>>) ELSE watcher[d]
        /\ scanner' = scanner
    BY <1>2, <1>10, ObserveStep
  <2>2. CASE d \in Trash(kind)
    <3>1. watcher'[d].gen = 0
      BY <2>1, <2>2 DEF Watcher
    <3> QED BY <1>1, <3>1 DEF NoGap
  <2>3. CASE d \notin Trash(kind) /\ d \in Fresh(kind)
    <3>1. watcher'[d] = Watcher(Generation, <<>>) /\ watcher[d].gen = 0
      BY <1>3, <1>10, <2>1, <2>3 DEF Fresh, Gen, Shape, WatcherShape, WatcherOf
    <3>2. calls # <<"scan">>
      BY <1>2, <1>10
    <3>3. ~(scanner'[d].gen > 0)
      BY <2>1, <3>1, <3>2 DEF QuietInv, InOrder
    <3>4. /\ watcher'[d].gen = Generation /\ watcher'[d].events = <<>>
          /\ watcher'[d].held = <<>>
      BY <3>1 DEF Watcher
    <3>5. Heard(p)' = <<>> /\ Pushed(p)' = <<>>
      BY <1>1, <1>8, <1>10, <3>4 DEF Heard, Pushed
    <3>6. watcher'[DirOf(p)].held \notin {p} \X Versions
      BY <1>1, <3>4
    <3>7. Silent(p)'
      BY <1>9, <3>5, <3>6 DEF Silent
    <3> QED BY <1>1, <3>3, <3>7 DEF NoGap
  <2>4. CASE d \notin Trash(kind) /\ d \notin Fresh(kind)
    <3>1. watcher'[d] = watcher[d] /\ NoGap(p)
      BY <1>5, <2>1, <2>4 DEF GapInv
    <3>2. Silent(p) => Silent(p)'
      BY <1>1, <1>3, <3>1, SilentKept
    <3>3. Fits(p) => Fits(p)'
      BY <1>1, <1>3, <2>1, FitsKept
    <3>4. Found(p) => Found(p)'
      BY <1>1, <1>3, <1>5, <2>1, <2>4, FoundKept
    <3>5. Expected(p)' <=> Expected(p)
      BY <1>3 DEF Expected, IsFile
    <3> QED BY <1>1, <1>3, <2>1, <3>1, <3>2, <3>3, <3>4, <3>5 DEF NoGap
  <2> QED BY <2>2, <2>3, <2>4
<1>11. CASE kind = "scan"
  <2>1. /\ scanner'[d] = IF d \in Trash(kind) THEN Scanner(0, {})
                         ELSE IF d \in Fresh(kind) \ gone THEN Scanner(Generation, In(d)) ELSE scanner[d]
        /\ watcher' = watcher
    BY <1>2, <1>11, ObserveStep
  <2> SUFFICES ASSUME watcher[d].gen > 0
               PROVE  Silent(p)' /\ (scanner'[d].gen > 0 => Fits(p)' /\ (Expected(p)' => terminated' \/ Found(p)'))
    BY <1>1, <2>1 DEF NoGap
  <2>2. d \notin Trash(kind)
    <3>1. calls = <<"scan">>
      BY <1>2, <1>3, <1>11
    <3>2. "watch" \notin Coming
      BY <3>1 DEF Coming, ToSet
    <3>3. d \in configDirs
      BY <3>2 DEF ConfigInv, Gen, Kinds
    <3> QED BY <3>3 DEF Trash
  <2>3. NoGap(p)
    BY <1>5, <2>2 DEF GapInv
  <2>4. Silent(p)'
    <3>1. Silent(p)
      BY <1>1, <2>3 DEF NoGap
    <3> QED BY <1>1, <1>3, <2>1, <3>1, SilentKept
  <2>5. CASE d \in Fresh(kind)
    <3>1. scanner'[d] = Scanner(Generation, In(d))
      BY <1>3, <2>1, <2>2, <2>5
    <3>2. /\ scanner'[d].gen = Generation /\ scanner'[d].todo = In(d)
          /\ scanner'[d].held = <<>>
      BY <3>1 DEF Scanner
    <3>3. Scanned(p)' = <<>>
      BY <1>1, <1>8, <1>11, <3>2 DEF Scanned
    <3>4. Stale(p)' = Stale(p)
      BY <1>3 DEF Stale
    <3>5. scanner'[DirOf(p)].held \notin {p} \X (Versions \ {disk'[p]})
      BY <1>1, <3>2
    <3>6. Fits(p)'
      BY <1>9, <3>3, <3>4, <3>5 DEF Fits
    <3>7. Found(p)'
      BY <1>1, <3>2, OwnFiles DEF Found, ComingFromScanner
    <3> QED BY <2>4, <3>6, <3>7
  <2>6. CASE d \notin Fresh(kind)
    <3>1. scanner'[d] = scanner[d]
      BY <2>1, <2>2, <2>6
    <3>2. Fits(p) => Fits(p)'
      BY <1>1, <1>3, <3>1, FitsKept
    <3>3. Found(p) => Found(p)'
      BY <1>1, <1>3, <1>5, <2>2, <3>1, FoundKept
    <3>4. Expected(p)' <=> Expected(p)
      BY <1>3 DEF Expected, IsFile
    <3> QED BY <1>1, <1>3, <2>3, <2>4, <3>1, <3>2, <3>3, <3>4 DEF NoGap
  <2> QED BY <2>5, <2>6
<1> QED BY <1>10, <1>11 DEF Kinds

\* An update of another file leaves the documents of p alone.
LEMMA UpdateElsewhere ==
  ASSUME NEW p \in Files, NEW t, NEW c, c.op = "update", c.to = c.path, c.path # p, Run(c, t), UNCHANGED disk,
         lastRun \in [Files -> {"none", "scan", "watch", "dangling", "twin", "failed"}]
  PROVE  (UpToDate(p)' <=> UpToDate(p)) /\ lastRun'[p] = lastRun[p]
<1>1. CASE UNCHANGED <<index, lastRun>>
  BY <1>1 DEF UpToDate
<1>3. CASE Fail(c) /\ UNCHANGED index
  BY <1>3 DEF Fail, UpToDate
<1>2. CASE HasRoot(c.path) /\ Db!Put(c.path, {c.version}) /\ Touch(c, t)
  <2>1. {y \in index' : y.path = p} = {y \in index : y.path = p}
    BY <1>2 DEF Db!Put
  <2>2. lastRun'[p] = lastRun[p]
    BY <1>2 DEF Touch
  <2> QED BY <2>1, <2>2 DEF UpToDate
<1> QED BY <1>1, <1>2, <1>3 DEF Run

\* A command runs, or ends the process.
LEMMA GapExecute ==
  ASSUME TypeOK, Shape, ConfigInv, QuietInv, NEW p \in Files, NoGap(p),
         NEW t \in Threads \ {<<"config">>}, Execute(t)
  PROVE  NoGap(p)'
<1>1. PICK d \in Dirs : d = DirOf(p)
  BY OwnFiles
<1>2. /\ calls = <<>> /\ ~terminated /\ queue[t] # <<>>
      /\ queue'[t] = Tail(queue[t]) /\ \A u \in Threads \ {t} : queue'[u] = queue[u]
      /\ UNCHANGED <<disk, scanner, watcher>>
  BY ExecuteStep DEF env
<1>3. PICK c : c = Head(queue[t])
  OBVIOUS
<1>4. /\ c \in Work(t[2])
      /\ \/ Run(c, t) /\ terminated' = FALSE
         \/ terminated' = TRUE /\ UNCHANGED <<index, lastRun>>
  BY <1>3, ExecuteStep DEF db
<1>5. /\ queue[t] \in Seq(Work(t[2])) /\ t[2] \in Dirs /\ t = <<t[1], t[2], t[3]>>
      /\ t[1] \in {"scan", "watch"}
  BY ThreadNames DEF Shape, QueueShape, Kinds
<1>6. c.op = "update" /\ c.to = c.path
  <2>1. Without(queue[t], Others(t[2]))
    BY DEF QuietInv, OnlyUpdates
  <2>2. c \notin Others(t[2])
    BY <1>2, <1>3, <1>5, <2>1, WithoutSteps
  <2> QED BY <1>4, <2>2 DEF Others, Work
<1>7. c.path = p => t[2] = d
  BY <1>1, <1>4 DEF Work, Own
<1> SUFFICES ASSUME watcher[d].gen > 0
             PROVE  Silent(p)' /\ (scanner[d].gen > 0 => Fits(p)' /\ (Expected(p)' => terminated' \/ Found(p)'))
  BY <1>1, <1>2 DEF NoGap
<1>8. Silent(p)
  BY <1>1 DEF NoGap
<1>9. HasRoot(p)
  <2>1. Coming = {}
    BY <1>2 DEF Coming, ToSet
  <2>2. d \in configDirs /\ d \in registered
    BY <2>1 DEF ConfigInv, Gen, Kinds
  <2> QED BY <1>1, <2>2 DEF HasRoot
<1>10. PICK w : w = <<"watch", d, watcher[d].gen>>
  OBVIOUS
<1>11. w \in Threads
  <2>1. watcher[d].gen \in 1 .. MaxGen
    BY CountAssumption DEF Shape, WatcherShape, WatcherOf, MaxGen
  <2> QED BY <1>10, <2>1, ThreadNames
<1>12. t = w => c.path # p
  <2> SUFFICES ASSUME t = w PROVE c.path # p
    OBVIOUS
  <2>1. Without(queue[t], Touches(p))
    BY <1>1, <1>8, <1>10 DEF Silent, Pushed
  <2>2. c \notin Touches(p)
    BY <1>2, <1>3, <1>5, <2>1, WithoutSteps
  <2>3. t[2] = d
    BY <1>10
  <2> QED BY <1>1, <1>4, <2>2, <2>3 DEF Touches
<1>13. Silent(p)'
  <2>1. Heard(p)' = Heard(p) /\ Pushed(p) = queue[w] /\ Pushed(p)' = queue'[w]
    BY <1>1, <1>2, <1>10 DEF Heard, Pushed
  <2>2. Without(queue'[w], Touches(p))
    <3>1. CASE t = w
      BY <1>2, <1>5, <1>8, <2>1, <3>1, WithoutSteps DEF Silent
    <3>2. CASE t # w
      BY <1>2, <1>8, <1>11, <2>1, <3>2 DEF Silent
    <3> QED BY <3>1, <3>2
  <2> QED BY <1>2, <1>8, <2>1, <2>2 DEF Silent
<1> SUFFICES ASSUME scanner[d].gen > 0
             PROVE  Fits(p)' /\ (Expected(p)' => terminated' \/ Found(p)')
  BY <1>13
<1>14. PICK s : s = <<"scan", d, scanner[d].gen>>
  OBVIOUS
<1>15. s \in Threads
  <2>1. scanner[d].gen \in 1 .. MaxGen
    BY CountAssumption DEF Shape, ScannerShape, ScannerOf, MaxGen
  <2> QED BY <1>14, <2>1, ThreadNames
<1>16. /\ Fits(p) /\ Scanned(p) = queue[s] /\ Scanned(p)' = queue'[s]
       /\ Stale(p)' = Stale(p)
  BY <1>1, <1>2, <1>14 DEF NoGap, Scanned, Stale
<1>17. Fits(p)'
  <2>1. Without(queue'[s], Stale(p))
    <3>1. CASE t = s
      BY <1>2, <1>5, <1>16, <3>1, WithoutSteps DEF Fits
    <3>2. CASE t # s
      BY <1>2, <1>15, <1>16, <3>2 DEF Fits
    <3> QED BY <3>1, <3>2
  <2> QED BY <1>2, <1>16, <2>1 DEF Fits
<1>18. ASSUME Expected(p)', Run(c, t)
       PROVE  Found(p)'
  <2>1. Found(p)
    BY <1>1, <1>2, <1>18 DEF NoGap, Expected, IsFile
  <2>2. CASE c.path # p
    <3>1. (UpToDate(p)' <=> UpToDate(p)) /\ lastRun'[p] = lastRun[p]
      BY <1>2, <1>6, <1>18, <2>2, UpdateElsewhere DEF TypeOK
    <3>2. Queued("scan", p) => Queued("scan", p)'
      <4> SUFFICES ASSUME Queued("scan", p) PROVE Queued("scan", p)'
        OBVIOUS
      <4>1. Command("update", p, p, disk[p]) \in ToSet(queue[s])
        BY <1>1, <1>14 DEF Queued
      <4>2. Command("update", p, p, disk[p]) \in ToSet(queue'[s])
        <5>1. CASE t = s
          <6>1. Command("update", p, p, disk[p]) # c
            BY <2>2 DEF Command
          <6> QED BY <1>2, <1>3, <1>5, <4>1, <5>1, <6>1, MembersStep
        <5>2. CASE t # s
          BY <1>2, <1>15, <4>1, <5>2
        <5> QED BY <5>1, <5>2
      <4> QED BY <1>1, <1>2, <1>14, <4>2 DEF Queued
    <3> QED BY <1>2, <2>1, <3>1, <3>2 DEF Found, ComingFromScanner
  <2>3. CASE c.path = p /\ t = s
    <3>1. Without(queue[t], Stale(p))
      BY <1>16, <2>3 DEF Fits
    <3>2. c \notin Stale(p) /\ t[2] = d
      BY <1>2, <1>3, <1>5, <1>7, <2>3, <3>1, WithoutSteps
    <3>3. c.version = disk[p]
      BY <1>1, <1>4, <2>3, <3>2 DEF Stale
    <3>4. c = Command("update", p, p, disk[p])
      BY <1>4, <1>6, <2>3, <3>3 DEF Command, Work
    <3>5. UpToDate(p)' \/ lastRun'[p] = "failed"
      BY <1>2, <1>4, <1>9, <1>18, <3>4, RunOn
    <3> QED BY <3>5 DEF Found
  <2>4. CASE c.path = p /\ t # s
    <3>1. Dangling(t)
      <4>1. t[2] = d /\ t # w
        BY <1>7, <1>12, <2>4
      <4> QED BY <1>5, <1>10, <1>14, <2>4, <4>1 DEF Dangling
    <3>2. p \in {c.path, c.to} /\ HasRoot(c.path)
      BY <1>9, <2>4
    <3>3. \/ lastRun'[p] \in {"dangling", "failed"}
          \/ UNCHANGED index /\ lastRun'[p] = lastRun[p]
      BY <1>2, <1>4, <1>18, <3>1, <3>2, RunOn
    <3>4. CASE lastRun'[p] \in {"dangling", "failed"}
      BY <3>4 DEF Found
    <3>5. CASE UNCHANGED index /\ lastRun'[p] = lastRun[p]
      <4>1. UpToDate(p)' <=> UpToDate(p)
        BY <1>2, <3>5 DEF UpToDate
      <4>2. Queued("scan", p) => Queued("scan", p)'
        <5>1. s \in Threads \ {t} => queue'[s] = queue[s]
          BY <1>2
        <5>2. queue'[s] = queue[s]
          BY <1>14, <1>15, <2>4, <5>1
        <5> QED BY <1>1, <1>2, <1>14, <5>2 DEF Queued
      <4> QED BY <1>2, <2>1, <3>5, <4>1, <4>2 DEF Found, ComingFromScanner
    <3> QED BY <3>3, <3>4, <3>5
  <2> QED BY <2>2, <2>3, <2>4
<1> QED BY <1>4, <1>17, <1>18

LEMMA GapStep ==
  ASSUME TypeOK, Shape, ConfigInv, FreshInv, QuietInv, GapInv, Undisturbed', [Next]_vars
  PROVE  GapInv'
<1> SUFFICES ASSUME NEW p \in Files, p \notin witnessed' PROVE NoGap(p)'
  BY DEF GapInv
<1>1. PICK d \in Dirs : d = DirOf(p)
  BY OwnFiles
<1>2. CASE \E q \in Files : Write(q)
  BY <1>2, GapWrite DEF GapInv
<1>3. CASE CallObserver
  BY <1>3, GapObserved
<1>4. ASSUME p \notin witnessed, terminated => terminated', UNCHANGED <<disk, index, lastRun>>,
             watcher'[d] = watcher[d], scanner'[d] = scanner[d],
             \A kind \in Kinds, g \in 1 .. MaxGen : queue'[<<kind, d, g>>] = queue[<<kind, d, g>>]
      PROVE  NoGap(p)'
  <2>1. NoGap(p)
    BY <1>4 DEF GapInv
  <2>2. /\ scanner[d].gen > 0 => scanner[d].gen \in 1 .. MaxGen
        /\ watcher[d].gen > 0 => watcher[d].gen \in 1 .. MaxGen
    BY CountAssumption DEF Shape, ScannerShape, ScannerOf, WatcherShape, WatcherOf, MaxGen
  <2>3. /\ scanner[d].gen > 0 =>
             queue'[<<"scan", d, scanner[d].gen>>] = queue[<<"scan", d, scanner[d].gen>>]
        /\ watcher[d].gen > 0 =>
             queue'[<<"watch", d, watcher[d].gen>>] = queue[<<"watch", d, watcher[d].gen>>]
    BY <1>4, <2>2 DEF Kinds
  <2>4. watcher[d].gen > 0 /\ Silent(p) => Silent(p)'
    BY <1>1, <1>4, <2>3, SilentKept
  <2> QED BY <1>1, <1>4, <2>1, <2>3, <2>4, NoGapKept
<1>5. DOMAIN queue = Threads
      /\ \A kind \in Kinds, g \in 1 .. MaxGen : <<kind, d, g>> \in Threads \ {<<"config">>}
  BY ThreadNames DEF Shape, QueueShape, Kinds
<1>6. CASE \/ \E f \in Dirs : Return(f)
           \/ \E D \in SUBSET Dirs : EditConfig(D)
           \/ Execute(<<"config">>) \/ UNCHANGED vars
  <2>1. UNCHANGED <<disk, index, lastRun, terminated, watcher, scanner, witnessed>>
    BY <1>6 DEF Return, EditConfig, Execute, ReadConfig, vars, env, db
  <2>2. \A kind \in Kinds, g \in 1 .. MaxGen : queue'[<<kind, d, g>>] = queue[<<kind, d, g>>]
    BY <1>5, <1>6 DEF Return, EditConfig, Push, Execute, vars
  <2> QED BY <1>4, <2>1, <2>2
<1>7. ASSUME NEW f \in Dirs, NEW q \in Files, ScanNext(f, q)
      PROVE  NoGap(p)'
  <2>1. UNCHANGED <<disk, index, lastRun, terminated, watcher, queue, witnessed>>
    BY <1>7 DEF ScanNext, ScanRest, env, db
  <2>2. CASE f = d
    BY <1>1, <1>7, <2>1, <2>2, GapScanNext DEF GapInv
  <2>3. CASE f # d
    <3>1. scanner'[d] = scanner[d]
      BY <1>7, <2>3, ScanNextStep
    <3> QED BY <1>4, <2>1, <3>1
  <2> QED BY <2>2, <2>3
<1>8. ASSUME NEW f \in Dirs, ScanPush(f)
      PROVE  NoGap(p)'
  <2>1. UNCHANGED <<disk, index, lastRun, terminated, watcher, witnessed>>
    BY <1>8 DEF ScanPush, ScanRest, env, db
  <2>2. CASE f = d
    BY <1>1, <1>8, <2>1, <2>2, GapScanPush DEF GapInv
  <2>3. CASE f # d
    <3>1. scanner'[d] = scanner[d]
      BY <1>8, <2>3, ScanPushStep
    <3>2. \A kind \in Kinds : \A g : <<"scan", f, scanner[f].gen>> # <<kind, d, g>>
      BY <2>3
    <3>3. \A kind \in Kinds, g \in 1 .. MaxGen : queue'[<<kind, d, g>>] = queue[<<kind, d, g>>]
      BY <1>5, <1>8, <3>2 DEF ScanPush, Push
    <3> QED BY <1>4, <2>1, <3>1, <3>3
  <2> QED BY <2>2, <2>3
<1>9. ASSUME NEW f \in Dirs, WatchNext(f)
      PROVE  NoGap(p)'
  <2>1. UNCHANGED <<disk, index, lastRun, scanner, witnessed>> /\ p \notin witnessed /\ ~terminated
    BY <1>9 DEF WatchNext, WatchRest, env, db
  <2>2. CASE f = d
    BY <1>1, <1>9, <2>1, <2>2, GapWatchNext DEF GapInv
  <2>3. CASE f # d
    <3>1. watcher'[d] = watcher[d]
      BY <1>9, <2>3, WatchNextStep
    <3>2. \A kind \in Kinds : \A g : <<"watch", f, watcher[f].gen>> # <<kind, d, g>>
      BY <2>3
    <3>3. \A kind \in Kinds, g \in 1 .. MaxGen : queue'[<<kind, d, g>>] = queue[<<kind, d, g>>]
      BY <1>5, <1>9, <3>2 DEF WatchNext
    <3> QED BY <1>4, <2>1, <3>1, <3>3
  <2> QED BY <2>2, <2>3
<1>10. ASSUME NEW f \in Dirs, WatchPush(f)
       PROVE  NoGap(p)'
  <2>1. UNCHANGED <<disk, index, lastRun, scanner, witnessed>> /\ p \notin witnessed /\ ~terminated
    BY <1>10 DEF WatchPush, WatchRest, env, db
  <2>2. CASE f = d
    BY <1>1, <1>10, <2>1, <2>2, GapWatchPush DEF GapInv
  <2>3. CASE f # d
    <3>1. watcher'[d] = watcher[d]
      BY <1>10, <2>3, WatchPushStep, ZenonT(60)
    <3>2. \A kind \in Kinds : \A g : <<"watch", f, watcher[f].gen>> # <<kind, d, g>>
      BY <2>3
    <3>3. \A kind \in Kinds, g \in 1 .. MaxGen : queue'[<<kind, d, g>>] = queue[<<kind, d, g>>]
      BY <1>5, <1>10, <3>2 DEF WatchPush, Push
    <3> QED BY <1>4, <2>1, <3>1, <3>3
  <2> QED BY <2>2, <2>3
<1>11. ASSUME NEW t \in Threads \ {<<"config">>}, Execute(t)
       PROVE  NoGap(p)'
  <2>1. NoGap(p)
    BY <1>11 DEF Execute, env, GapInv
  <2> QED BY <1>11, <2>1, GapExecute
<1>12. CASE Daemon
  BY <1>3, <1>6, <1>7, <1>8, <1>9, <1>10, <1>11, <1>12 DEF Daemon
<1> QED BY <1>2, <1>6, <1>12, NothingRemoved

LEMMA GapKept == Spec => [](Undisturbed => GapInv)
<1>1. Init => GapInv
  BY OwnFiles DEF Init, GapInv, NoGap, Watcher
<1>2. (TypeOK /\ Shape) /\ ConfigInv /\ FreshInv /\ (Undisturbed => QuietInv)
      /\ (Undisturbed => GapInv) /\ [Next]_vars
        => (Undisturbed => GapInv)'
  <2> SUFFICES ASSUME TypeOK, Shape, ConfigInv, FreshInv, Undisturbed => QuietInv,
                      Undisturbed => GapInv, [Next]_vars, Undisturbed'
               PROVE  GapInv'
    OBVIOUS
  <2>1. Undisturbed
    BY NothingRemoved
  <2> QED BY <2>1, GapStep
<1> QED BY <1>1, <1>2, Typed, Configured, FreshKept, QuietKept, PTL DEF Spec

\* A file that was there before its directory was watched is not lost between the
\* watch and the scan, if the observer of the watcher is called first.
THEOREM WatchThenScan == Spec => []ScanLeavesNoGap
<1>1. (TypeOK /\ Shape) /\ (Undisturbed => GapInv) => ScanLeavesNoGap
  <2> SUFFICES ASSUME WatcherFirst, removals = 0, GapInv, NEW p \in Files \ (witnessed \cup Broken),
                      IsFile(p), In(DirOf(p)) \cap Damaged = {}, watcher[DirOf(p)].gen > 0,
                      scanner[DirOf(p)].gen > 0
               PROVE  \/ terminated \/ ComingFromScanner(p) \/ UpToDate(p)
                      \/ lastRun[p] \in {"dangling", "failed"}
    BY DEF ScanLeavesNoGap, Undisturbed
  <2>1. NoGap(p) /\ Expected(p)
    BY DEF GapInv, Expected
  <2> QED BY <2>1 DEF NoGap, Found
<1> QED BY <1>1, Typed, GapKept, PTL

=============================================================================
