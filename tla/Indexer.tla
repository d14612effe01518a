------------------------------ MODULE Indexer ------------------------------
(***************************************************************************)
(* How the daemon keeps the index in step with the disk: the scanner and   *)
(* the watcher of every root directory, each a thread of its own, read     *)
(* files and push commands; the main thread runs the commands one at a     *)
(* time against the database (module UserDb) and, when the configuration   *)
(* file changes, starts and stops scanners and watchers.                   *)
(*                                                                         *)
(* daemon/src/file_scanner.cpp, daemon/src/file_watcher.cpp,               *)
(* core/vca/command_queue.{h,cpp} and the start of daemon/src/daemon.cpp.  *)
(*                                                                         *)
(* The contents of a file are its version: every write gives it the next   *)
(* number.  External, modelled from their use: the disk, efsw (one thread  *)
(* and one ordered stream of events for each Watcher) and the moodycamel   *)
(* queue (first in first out for each pushing thread, no order between     *)
(* threads).                                                               *)
(***************************************************************************)
EXTENDS Paths, FiniteSets

CONSTANTS
  Names,         \* the components paths are made of
  Dirs,          \* the root directories the user may configure, none inside another
  Files,         \* the files that may exist in them
  Broken,        \* those of them that make FileProcessor::process() throw a std::exception
  Damaged,       \* those that make it throw something else (a PoDoFo::PdfError is none)
  FirstDirs,     \* what the configuration file holds at the start
  FirstFiles,    \* the files that exist at the start
  MaxVersion,    \* bound on the writes
  MaxRemovals,   \* bound on the deletions and renamings, of directories too
  MaxEdits,      \* bound on the edits of the configuration
  WatcherFirst   \* TRUE if the watcher is notified of the configuration first

Kinds == {"scan", "watch"}

ASSUME PathAssumption ==
  Dirs \subseteq Seq(Names) /\ Files \subseteq Seq(Names)
ASSUME DirsAssumption ==
  /\ \A d, e \in Dirs : ~IsParentOf(d, e)
  /\ \A p \in Files : \E d \in Dirs : IsParentOf(d, p)
  /\ FirstDirs \subseteq Dirs /\ FirstFiles \subseteq Files
ASSUME CountAssumption ==
  /\ MaxVersion \in Nat \ {0} /\ MaxRemovals \in Nat /\ MaxEdits \in Nat
  /\ WatcherFirst \in BOOLEAN

VARIABLES
  disk,        \* the version of each file, 0 if there is none
  versions,    \* the number of versions written so far
  removals,    \* the number of deletions and renamings so far
  gone,        \* the root directories that do not exist at the moment
  configFile,  \* the directories in user.json
  edits,       \* the number of its edits so far
  configDirs,  \* UserConfig::Impl::root_dirs
  calls,       \* the observers the main thread has still to call
  registered,  \* the root directories of the database
  index,       \* its documents (module UserDb): a version is the only word of a file
  scanner,     \* for each directory, its Scanner: [gen, todo, held]
  watcher,     \* for each directory, its Watcher: [gen, events, held, deaf]
  queue,       \* for each thread that pushes, its commands: [op, path, to, version]
  terminated,  \* an exception left a watcher thread
  everGone,    \* history: the root directories that have vanished at least once
  missed,      \* history: those that were not there for the last read() and its observers
  witnessed,   \* history: the files whose last write their watcher was told of
  lastRun      \* history: for each file, what last befell its document since its last write

env    == <<disk, versions, removals, gone, everGone, witnessed>>
config == <<configFile, edits>>
db     == <<registered, index, lastRun>>
vars   == <<env, config, configDirs, calls, missed, db, scanner, watcher, queue, terminated>>

Db == INSTANCE UserDb WITH Words <- 1 .. MaxVersion

\* The threads that push: a restarted scanner or watcher is a new object (a new
\* generation, 0 if there is none), and what the old one pushed keeps a pointer to it.
MaxGen  == MaxEdits + 1
Threads == (Kinds \X Dirs \X (1 .. MaxGen)) \cup {<<"config">>}

\* The generation of what is started now: 1, and one more for each time that the
\* configuration has been read again.
Generation == edits + 1 - Len(queue[<<"config">>])

\* todo: what the directory iterator has still to reach; events: what efsw has
\* still to report; held: the path and the version of the file just read; deaf: the
\* directory has vanished since it is watched (one of its name that comes later is not).
Scanner(gen, todo)   == [gen |-> gen, todo |-> todo, held |-> <<>>]
Watcher(gen, events) == [gen |-> gen, events |-> events, held |-> <<>>, deaf |-> FALSE]

In(d)      == {p \in Files : IsParentOf(d, p)}
DirOf(p)   == CHOOSE d \in Dirs : IsParentOf(d, p)
IsFile(p)  == disk[p] > 0
Command(op, p, to, version) == [op |-> op, path |-> p, to |-> to, version |-> version]

\* Mutation: the newest command of a thread comes first.
PushFirst(thread, command) == queue' = [queue EXCEPT ![thread] = <<command>> \o @]

Push(thread, command) == queue' = [queue EXCEPT ![thread] = Append(@, command)]

\* The object a command points to has been destroyed.
Dangling(thread) ==
  \/ thread[1] = "scan"  /\ scanner[thread[2]].gen # thread[3]
  \/ thread[1] = "watch" /\ watcher[thread[2]].gen # thread[3]

Init ==
  /\ disk = [p \in Files |-> IF p \in FirstFiles THEN 1 ELSE 0]
  /\ versions = 1 /\ removals = 0 /\ witnessed = {}
  /\ gone = {} /\ everGone = {} /\ missed = {}
  /\ configFile = FirstDirs /\ edits = 0
  /\ configDirs = FirstDirs
  /\ calls = <<"watch", "scan">>      \* the constructors of FileWatcher and FileScanner
  /\ registered = FirstDirs           \* user_db.create(user_config.root_dirs())
  /\ index = {}
  /\ lastRun = [p \in Files |-> "none"]
  /\ scanner = [d \in Dirs |-> Scanner(0, {})]
  /\ watcher = [d \in Dirs |-> Watcher(0, <<>>)]
  /\ queue = [t \in Threads |-> <<>>]
  /\ terminated = FALSE

-----------------------------------------------------------------------------
(* The disk, and the events efsw makes of it *)

Watched(p) == watcher[DirOf(p)].gen > 0 /\ ~watcher[DirOf(p)].deaf
Event(action, p, old) == [action |-> action, path |-> p, old |-> old]

\* The watch of p's directory, if there is one, has one more event.
Notified(p, event) ==
  watcher' = IF Watched(p)
               THEN [watcher EXCEPT ![DirOf(p)].events = Append(@, event)]
               ELSE watcher

Write(p) ==
  /\ versions < MaxVersion
  /\ DirOf(p) \notin gone
  /\ versions' = versions + 1
  /\ disk' = [disk EXCEPT ![p] = versions + 1]
  /\ witnessed' = IF Watched(p) THEN witnessed \cup {p} ELSE witnessed \ {p}
  /\ Notified(p, Event(IF IsFile(p) THEN "modified" ELSE "add", p, p))
  /\ lastRun' = [lastRun EXCEPT ![p] = "none"]
  /\ UNCHANGED <<removals, gone, everGone, config, configDirs, calls, missed, registered, index,
                 scanner, queue, terminated>>

Delete(p) ==
  /\ IsFile(p)
  /\ removals < MaxRemovals
  /\ removals' = removals + 1
  /\ disk' = [disk EXCEPT ![p] = 0]
  /\ witnessed' = witnessed \ {p}
  /\ Notified(p, Event("delete", p, p))
  /\ UNCHANGED <<versions, gone, everGone, config, configDirs, calls, missed, db, scanner, queue,
                 terminated>>

Rename(p, q) ==
  /\ IsFile(p)
  /\ p # q /\ DirOf(p) = DirOf(q)
  /\ removals < MaxRemovals
  /\ removals' = removals + 1
  /\ disk' = [disk EXCEPT ![q] = disk[p], ![p] = 0]
  /\ witnessed' = witnessed \ {p, q}
  /\ Notified(p, Event("moved", q, p))
  /\ UNCHANGED <<versions, gone, everGone, config, configDirs, calls, missed, db, scanner, queue,
                 terminated>>

\* A root directory is moved away with all it holds: no event names its files.
Vanish(d) ==
  /\ d \notin gone
  /\ removals < MaxRemovals
  /\ removals' = removals + 1
  /\ gone' = gone \cup {d} /\ everGone' = everGone \cup {d}
  /\ disk' = [p \in Files |-> IF p \in In(d) THEN 0 ELSE disk[p]]
  /\ witnessed' = witnessed \ In(d)
  /\ watcher' = [watcher EXCEPT ![d].deaf = watcher[d].gen > 0]
  /\ UNCHANGED <<versions, config, configDirs, calls, missed, db, scanner, queue, terminated>>

\* A new, empty directory takes its name.
Return(d) ==
  /\ d \in gone
  /\ gone' = gone \ {d}
  /\ UNCHANGED <<disk, versions, removals, everGone, witnessed, config, configDirs, calls, missed,
                 db, scanner, watcher, queue, terminated>>

\* The user, the desktop or the HTTP server rewrites user.json; the watch of
\* UserConfig pushes the command that reads it.
EditConfig(D) ==
  /\ edits < MaxEdits
  /\ edits' = edits + 1
  /\ configFile' = D
  /\ Push(<<"config">>, Command("config", <<>>, <<>>, 0))
  /\ UNCHANGED <<env, configDirs, calls, missed, db, scanner, watcher, terminated>>

-----------------------------------------------------------------------------
(* The thread of a Scanner *)

ScanRest == UNCHANGED <<env, config, configDirs, calls, missed, db, watcher, terminated>>

\* Mutation: the scanner does not ask whether p is a file.
Unbroken(p) == p \notin Broken

Readable(p) == IsFile(p) /\ p \notin Broken \cup Damaged

\* The iterator reaches p.  A file is read, unless process() throws: "skip file", or
\* the end of the scan if the exception is not one the loop catches.
\* (In no order: a file that appears behind the iterator is not seen.)
ScanNext(d, p) ==
  /\ ~terminated
  /\ p \in scanner[d].todo /\ scanner[d].held = <<>>
  /\ scanner' = [scanner EXCEPT
       ![d].todo = IF IsFile(p) /\ p \in Damaged THEN {} ELSE @ \ {p},
       ![d].held = IF Readable(p) THEN <<p, disk[p]>> ELSE @]
  /\ UNCHANGED queue /\ ScanRest

\* compute_fingerprint() and push().  The first throws if the file is gone by
\* now, out of the loop: the scan is over.
ScanPush(d) ==
  /\ ~terminated
  /\ scanner[d].held # <<>>
  /\ LET p == scanner[d].held[1]
         v == scanner[d].held[2]
     IN  \/ /\ IsFile(p)
            /\ Push(<<"scan", d, scanner[d].gen>>, Command("update", p, p, v))
            /\ scanner' = [scanner EXCEPT ![d].held = <<>>]
         \/ /\ ~IsFile(p)
            /\ scanner' = [scanner EXCEPT ![d].held = <<>>, ![d].todo = {}]
            /\ UNCHANGED queue
  /\ ScanRest

-----------------------------------------------------------------------------
(* The thread of a Watcher: handleFileAction *)

WatchRest == UNCHANGED <<env, config, configDirs, calls, missed, db, scanner>>

\* The commands an event leads to at once.
Reaction(e) ==
  CASE e.action = "delete" /\ IsFile(e.path)
         -> <<Command("remove", e.path, e.path, 0)>>
    [] e.action = "moved" /\ IsFile(e.old) /\ IsFile(e.path)
         -> <<Command("move", e.old, e.path, 0)>>
    [] e.action = "moved" /\ ~IsFile(e.old)
         -> <<Command("remove", e.old, e.old, 0)>>
    [] OTHER -> <<>>

\* The next event.  Nothing catches what process() throws: the exception leaves
\* the thread and ends the daemon.
WatchNext(d) ==
  /\ ~terminated
  /\ watcher[d].events # <<>> /\ watcher[d].held = <<>>
  /\ LET e     == Head(watcher[d].events)
         t     == <<"watch", d, watcher[d].gen>>
         reads == e.action \in {"add", "modified"} /\ IsFile(e.path)
     IN  /\ terminated' = (reads /\ e.path \in Broken \cup Damaged)
         /\ watcher' = [watcher EXCEPT
              ![d].events = Tail(@),
              ![d].held = IF reads THEN <<e.path, disk[e.path]>> ELSE @]
         /\ queue' = [queue EXCEPT ![t] = @ \o Reaction(e)]
  /\ WatchRest

\* compute_fingerprint(), which nothing guards either, and push().
WatchPush(d) ==
  /\ ~terminated
  /\ watcher[d].held # <<>>
  /\ LET p == watcher[d].held[1]
         v == watcher[d].held[2]
     IN  \/ /\ IsFile(p)
            /\ Push(<<"watch", d, watcher[d].gen>>, Command("update", p, p, v))
            /\ UNCHANGED terminated
         \/ /\ ~IsFile(p)
            /\ terminated' = TRUE
            /\ UNCHANGED queue
  /\ watcher' = [watcher EXCEPT ![d].held = <<>>]
  /\ WatchRest

-----------------------------------------------------------------------------
(* The main thread *)

\* Mutation: no command is to point to a destroyed object, so the main thread waits
\* until those of the object have run.
JoinedAndDrained(kind, d) ==
  LET o == IF kind = "scan" THEN scanner[d] ELSE watcher[d]
  IN  o.held = <<>> /\ queue[<<kind, d, o.gen>>] = <<>>

\* The destructor of a Scanner or a Watcher waits for the thread.
ThreadJoined(kind, d) == (IF kind = "scan" THEN scanner[d] ELSE watcher[d]).held = <<>>

\* The constructor of a Scanner or a Watcher throws if its directory has vanished since
\* read() looked at it; the exception is swallowed, after add_root_dir() has run.
Starts(d) == d \notin gone

\* Impl::user_config_changed of FileScanner and of FileWatcher, the same code but
\* for what it starts.
Observe(kind) ==
  LET current == IF kind = "scan" THEN scanner ELSE watcher
      running == {d \in Dirs : current[d].gen > 0}
      trash   == running \ configDirs
      new     == configDirs \ running
  IN  /\ \A d \in trash : ThreadJoined(kind, d)
      /\ registered' = (registered \ trash) \cup new
      /\ missed' = missed \cup {d \in new : ~Starts(d)}
      /\ index' = {x \in index : \A d \in trash : ~IsParentOf(d, x.path)}
      /\ witnessed' = {p \in witnessed : DirOf(p) \notin trash}
      /\ IF kind = "scan"
           THEN /\ scanner' = [d \in Dirs |->
                     IF d \in trash THEN Scanner(0, {})
                     ELSE IF d \in new /\ Starts(d) THEN Scanner(Generation, In(d))
                     ELSE scanner[d]]
                /\ UNCHANGED watcher
           ELSE /\ watcher' = [d \in Dirs |->
                     IF d \in trash THEN Watcher(0, <<>>)
                     ELSE IF d \in new /\ Starts(d) THEN Watcher(Generation, <<>>)
                     ELSE watcher[d]]
                /\ UNCHANGED scanner

CallObserver ==
  /\ ~terminated
  /\ calls # <<>>
  /\ Observe(Head(calls))
  /\ calls' = Tail(calls)
  /\ UNCHANGED <<disk, versions, removals, gone, everGone, config, configDirs, lastRun, queue,
                 terminated>>

\* Mutation: the scanner is told before the watcher.
ReadConfigScanFirst ==
  /\ configDirs' = configFile \ gone
  /\ missed' = gone
  /\ calls' = <<"scan", "watch">>
  /\ UNCHANGED <<db, terminated>>

\* Mutation: the observer of the scanner is not registered.
ReadConfigOneObserver ==
  /\ configDirs' = configFile \ gone
  /\ missed' = gone
  /\ calls' = <<"watch">>
  /\ UNCHANGED <<db, terminated>>

\* Impl::read, which leaves out what does not exist (valid_root_dir), and the observers
\* in the order of their addresses.
ReadConfig ==
  /\ configDirs' = configFile \ gone
  /\ missed' = gone
  /\ calls' = IF WatcherFirst THEN <<"watch", "scan">> ELSE <<"scan", "watch">>
  /\ UNCHANGED <<db, terminated>>

\* History: the command c of thread t has touched the documents of its files,
\* and of their twins if it names no root.
Touch(c, t) ==
  LET who == IF Dangling(t) THEN "dangling" ELSE t[1]
  IN  lastRun' = [p \in Files |->
                    IF p \in {c.path, c.to} THEN who
                    ELSE IF c.op # "update" /\ p \in Db!Twins(c.path) THEN "twin"
                    ELSE lastRun[p]]

\* History: the command c has failed.  What an update that fails leaves out is missing
\* only if the file still holds it.
Fail(c) ==
  lastRun' = [p \in Files |-> IF p = c.path /\ c.op = "update" /\ c.version = disk[p]
                                THEN "failed"
                                ELSE lastRun[p]]

\* Mutation: relative() lets any path pass.
AnyRoot(p) == TRUE

\* relative() finds the root of p.
HasRoot(p) == DirOf(p) \in registered

\* A command runs in full or not at all: relative() finds no root, or something fails
\* on the way (the id of a new word is taken, fingerprint() finds the file gone, a
\* statement or the commit fails) and the transaction is rolled back.  The exception is
\* kept by the future nobody reads, and nobody tries again.
Run(c, t) ==
  /\ \/ /\ HasRoot(c.path)
        /\ \/ c.op = "update" /\ Db!Put(c.path, {c.version})
           \/ c.op = "remove" /\ Db!Drop(c.path)
           \/ c.op = "move" /\ Db!Move(c.path, c.to)
        /\ Touch(c, t)
     \/ /\ HasRoot(c.path)
        /\ Fail(c)
        /\ UNCHANGED index
     \/ /\ ~HasRoot(c.path)
        /\ UNCHANGED <<index, lastRun>>
  /\ UNCHANGED <<registered, configDirs, calls, missed>>

\* CommandQueue::sync takes the next command of any thread.  One that points to
\* a destroyed object does what it would have done, or ends the process.
Execute(t) ==
  /\ ~terminated
  /\ calls = <<>>
  /\ queue[t] # <<>>
  /\ queue' = [queue EXCEPT ![t] = Tail(@)]
  /\ \/ t = <<"config">> /\ ReadConfig
     \/ t # <<"config">> /\ Run(Head(queue[t]), t) /\ terminated' = FALSE
     \/ /\ t # <<"config">> /\ Dangling(t)
        /\ terminated' = TRUE
        /\ UNCHANGED <<db, configDirs, calls, missed>>
  /\ UNCHANGED <<env, config, scanner, watcher>>

-----------------------------------------------------------------------------

Environment ==
  \/ \E p \in Files : Write(p) \/ Delete(p) \/ \E q \in Files : Rename(p, q)
  \/ \E d \in Dirs : Vanish(d) \/ Return(d)
  \/ \E D \in SUBSET Dirs : EditConfig(D)

Daemon ==
  \/ \E d \in Dirs : ScanPush(d) \/ WatchNext(d) \/ WatchPush(d)
  \/ \E d \in Dirs : \E p \in Files : ScanNext(d, p)
  \/ CallObserver
  \/ \E t \in Threads : Execute(t)

Next == Environment \/ Daemon

\* Each thread of the daemon goes on while it has something to do; so does the
\* main loop, which comes back to the queue every 16.6 ms.
Fairness ==
  /\ \A d \in Dirs : /\ WF_vars(\E p \in Files : ScanNext(d, p)) /\ WF_vars(ScanPush(d))
                     /\ WF_vars(WatchNext(d)) /\ WF_vars(WatchPush(d))
  /\ WF_vars(CallObserver)
  /\ \A t \in Threads : WF_vars(Execute(t))

Spec     == Init /\ [][Next]_vars
FairSpec == Spec /\ Fairness

-----------------------------------------------------------------------------
(* Properties *)

Versions == 1 .. MaxVersion
Commands == [op : {"update", "remove", "move"}, path : Files, to : Files, version : 0 .. MaxVersion]
              \cup {Command("config", <<>>, <<>>, 0)}
Held     == {<<>>} \cup (Files \X Versions)

\* The type of the variables.
TypeOK ==
  /\ disk \in [Files -> 0 .. MaxVersion]
  /\ versions \in 1 .. MaxVersion /\ removals \in 0 .. MaxRemovals /\ edits \in 0 .. MaxEdits
  /\ {configFile, configDirs, registered} \subseteq SUBSET Dirs
  /\ calls \in {<<>>, <<"watch">>, <<"scan">>, <<"watch", "scan">>, <<"scan", "watch">>}
  /\ index \subseteq [path : Files, words : {{v} : v \in Versions}]
  /\ \A d \in Dirs : /\ scanner[d].gen \in 0 .. MaxGen /\ scanner[d].todo \subseteq In(d)
                     /\ scanner[d].held \in Held
                     /\ watcher[d].gen \in 0 .. MaxGen /\ watcher[d].held \in Held
                     /\ watcher[d].deaf \in BOOLEAN
  /\ \A t \in Threads : ToSet(queue[t]) \subseteq Commands
  /\ terminated \in BOOLEAN
  /\ gone \cup missed \subseteq everGone /\ everGone \subseteq Dirs
  /\ witnessed \subseteq Files
  /\ lastRun \in [Files -> {"none", "scan", "watch", "dangling", "twin", "failed"}]

\* A command that puts the current version of p waits for the main thread.
Queued(kind, p) ==
  LET d == DirOf(p)
      o == IF kind = "scan" THEN scanner[d] ELSE watcher[d]
  IN  o.gen > 0 /\ Command("update", p, p, disk[p]) \in ToSet(queue[<<kind, d, o.gen>>])

ComingFromWatcher(p) ==
  \/ \E e \in ToSet(watcher[DirOf(p)].events) : e.path = p /\ e.action \in {"add", "modified"}
  \/ watcher[DirOf(p)].held = <<p, disk[p]>>
  \/ Queued("watch", p)

ComingFromScanner(p) ==
  \/ p \in scanner[DirOf(p)].todo
  \/ scanner[DirOf(p)].held = <<p, disk[p]>>
  \/ Queued("scan", p)

\* The index holds p with its current contents and nothing else.
UpToDate(p) == {x.words : x \in {y \in index : y.path = p}} = {{disk[p]}}

\* No write is lost on its way from the disk to the index, through three threads
\* and a queue without an order: what a watcher was told of is in the index, or
\* will be, but for four things that may happen after the write.  A scanner that had
\* read the file before the write puts its older contents last; a destroyed object's
\* command comes late; a file of the same relative path is removed elsewhere; or the
\* update with these very contents fails in the database, and nobody tries again.
WritesReachIndex ==
  \A p \in witnessed : \/ terminated
                      \/ ComingFromWatcher(p) \/ UpToDate(p)
                      \/ lastRun[p] \in {"scan", "dangling", "twin", "failed"}

\* A file that was there before its directory was watched is in the index, or will
\* be: the watch begins before the scan, so there is no gap between them.  (As
\* long as nothing vanishes or is damaged, which ends a scan, process() does not
\* throw for the file, and its update does not fail in the database.)
ScanLeavesNoGap ==
  WatcherFirst /\ removals = 0 =>
    \A p \in Files \ (witnessed \cup Broken) :
      IsFile(p) /\ In(DirOf(p)) \cap Damaged = {} /\ watcher[DirOf(p)].gen > 0 /\ scanner[DirOf(p)].gen > 0 =>
        \/ terminated
        \/ ComingFromScanner(p) \/ UpToDate(p)
        \/ lastRun[p] \in {"dangling", "failed"}

\* Only files under a registered root are in the index: a command that was pushed
\* before its root was removed changes nothing.
IndexedUnderRoots == \A x \in index : DirOf(x.path) \in registered

\* Once the commands about the configuration have run, the database, the scanners
\* and the watchers are those of the file, whatever edits came in between.  Only a
\* directory that was not there when the file was read, or when its scanner or watcher
\* was to start, may be without them until the next edit; and a root that has vanished
\* may stay in the database after the file has dropped it.
ConfigurationApplied ==
  calls = <<>> /\ queue[<<"config">>] = <<>> =>
    /\ \A d \in configFile \ missed :
         d \in registered /\ scanner[d].gen > 0 /\ watcher[d].gen > 0
    /\ \A d \in Dirs : scanner[d].gen > 0 \/ watcher[d].gen > 0 =>
         d \in configFile /\ d \in registered
    /\ registered \ configFile \subseteq everGone

\* Nothing is left to do.
Idle ==
  /\ calls = <<>>
  /\ \A t \in Threads : queue[t] = <<>>
  /\ \A d \in Dirs : /\ scanner[d].todo = {} /\ scanner[d].held = <<>>
                     /\ watcher[d].events = <<>> /\ watcher[d].held = <<>>

\* When the disk comes to rest, so does the daemon (or an exception has ended it):
\* no thread waits for another for ever, not even the main thread that destroys a
\* scanner.
Settles == []<>(Idle \/ terminated)

\* What "skip file" (file_scanner.cpp:71) says of a file that cannot be processed:
\* it is left out, and no other is.  Whatever leaves a scanner's list is read, or
\* is not there.
ScanSkipsOnlyTheFile ==
  [][\A d \in Dirs : \A p \in scanner[d].todo \ scanner'[d].todo :
       scanner'[d].gen = scanner[d].gen =>
         \/ ~IsFile(p) \/ p \in Broken
         \/ scanner'[d].held = <<p, disk[p]>>]_vars

=============================================================================
