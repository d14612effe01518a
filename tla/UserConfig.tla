----------------------------- MODULE UserConfig -----------------------------
(***************************************************************************)
(* The configuration file user.json and those who share it                 *)
(* (core/vca/config.cpp, daemon/src/http_server.cpp, the directory list of *)
(* desktop/src/view/View.cpp): the daemon's main thread, which reads it    *)
(* when the watcher of its directory says that it changed, and writes it   *)
(* anew when it is gone; the threads of the HTTP server, which overwrite   *)
(* it in place; the desktops, which read the list of directories, change   *)
(* it and post it back; and the user with an editor.                       *)
(*                                                                         *)
(* The contents of the file are a kind and a set of directories; see Kinds.*)
(* A stream truncates the file when it is opened and writes all it has     *)
(* when it is closed, so somebody else may see the file empty, or write    *)
(* into it in between.  The queue holds what the watcher has reported and  *)
(* the main thread has not handled: both are first in, first out.  (What   *)
(* the observers then do is in module Indexer.)                            *)
(***************************************************************************)
EXTENDS Paths, FiniteSets

CONSTANTS
  Dirs,        \* the directories a configuration may name
  Valid,       \* those of them that exist and are absolute
  Documents,   \* the user's directory of documents (or his home)
  Clients,     \* the desktops
  Written,     \* the sets of directories an editor may write
  MaxEdits,    \* bound on what the user and the desktops do
  MaxCrashes   \* bound on the crashes of the daemon

ASSUME ConfigAssumption ==
  /\ Dirs \subseteq Seq(STRING) /\ Valid \subseteq Dirs /\ Documents \in Valid
  /\ Written \subseteq SUBSET Dirs
  /\ "main" \notin Clients
  /\ MaxEdits \in Nat /\ MaxCrashes \in Nat

VARIABLES
  file,      \* user.json
  stream,    \* for each writer, what its open stream is going to write
  linked,    \* the writers whose stream is open on the present file
  daemon,    \* "down", "starting" (it has read the file and does not watch it yet), "up"
  rootDirs,  \* UserConfig::Impl::root_dirs
  applied,   \* what the observers were last told
  queue,     \* events of the watcher not handled yet
  client,    \* for each desktop, "idle", "fetched" or "posting"
  request,   \* for each desktop, the body of its next POST
  edits, crashes,
  missed,    \* history: the last change of the file was not reported
  wanted,    \* history: what the file should hold if operations had not overlapped
  clashed    \* history: operations overlapped, or the file was deleted or moved away

fs      == <<file, stream, linked>>
server  == <<daemon, rootDirs, applied>>
desktop == <<client, request>>
bounds  == <<edits, crashes>>
vars    == <<fs, server, queue, desktop, bounds, missed, wanted, clashed>>

Writers == Clients \cup {"main"}

\* "json": a list of directories; "odd": JSON in which something that is no string
\* follows the directories; "empty", "garbled": no JSON.
Kinds == {"json", "odd", "empty", "garbled", "missing"}

Contents(kind, dirs) == [kind |-> kind, dirs |-> dirs]
Json(dirs) == Contents("json", dirs)
Missing    == Contents("missing", {})
Empty      == Contents("empty", {})
Garbled    == Contents("garbled", {})
Closed     == Contents("closed", {})

Parses == file.kind \in {"json", "odd"}
Open(w) == stream[w] # Closed
Busy    == (\E w \in Writers : Open(w)) \/ (\E c \in Clients : client[c] # "idle")

\* normalize_root_dirs(): no directory inside another one.
Normalize(S) == {d \in S : \A e \in S : ~IsParentOf(e, d)}

\* What read() makes of a list of directories.
Roots(dirs) == Normalize(dirs \cap Valid)

Init ==
  /\ file \in {Missing} \cup {Json(S) : S \in Written}
  /\ stream = [w \in Writers |-> Closed] /\ linked = {}
  /\ daemon = "down" /\ rootDirs = {} /\ applied = {}
  /\ queue = <<>>
  /\ client = [c \in Clients |-> "idle"]
  /\ request = [c \in Clients |-> Closed]
  /\ edits = 0 /\ crashes = 0
  /\ missed = FALSE /\ wanted = file /\ clashed = FALSE

-----------------------------------------------------------------------------
(* Streams, and the watcher of the directory *)

\* One more event follows the pending ones.
Reported(pending, event) ==
  /\ queue' = IF daemon = "up" THEN Append(pending, event) ELSE pending
  /\ missed' = (missed /\ daemon # "up")

\* std::ofstream: the file is created, or truncated.
OpenStream(w, contents, pending) ==
  /\ stream' = [stream EXCEPT ![w] = contents]
  /\ linked' = linked \cup {w}
  /\ file' = Empty
  /\ Reported(pending, "modified")

\* What is written replaces the first bytes of what others wrote since the truncation;
\* it is lost if the file has been deleted or replaced.
CloseStream(w) ==
  /\ Open(w)
  /\ stream' = [stream EXCEPT ![w] = Closed]
  /\ linked' = linked \ {w}
  /\ \/ /\ w \in linked
        /\ file' \in {stream[w]} \cup (IF file = Empty THEN {} ELSE {Garbled})
        /\ Reported(queue, "modified")
     \/ w \notin linked /\ UNCHANGED <<file, queue, missed>>

-----------------------------------------------------------------------------
(* The daemon's main thread *)

\* populate() and write(), as far as the opened stream.
Populate(dirs, pending) ==
  /\ rootDirs' = dirs \cup {Documents}
  /\ OpenStream("main", Json(dirs \cup {Documents}), pending)

\* The constructor of UserConfig: if read() throws the daemon ends.
Start ==
  /\ daemon = "down"
  /\ daemon' = "starting"
  /\ \/ /\ file.kind = "missing"
        /\ Populate({}, queue)
        /\ wanted' = Json({Documents})
     \/ /\ file.kind = "json"
        /\ rootDirs' = Roots(file.dirs)
        /\ UNCHANGED <<fs, queue, missed, wanted>>
  /\ UNCHANGED <<applied, desktop, bounds, clashed>>

\* addWatch(), then the constructors of the database, the watcher and the scanner.
AddWatch ==
  /\ daemon = "starting" /\ ~Open("main")
  /\ daemon' = "up"
  /\ applied' = rootDirs
  /\ UNCHANGED <<fs, rootDirs, queue, desktop, bounds, missed, wanted, clashed>>

\* The stream of write() is closed.
Wrote ==
  /\ CloseStream("main")
  /\ UNCHANGED <<server, desktop, bounds, wanted, clashed>>

\* Mutation: the observers are called before read().
ReadLate ==
  \/ /\ file.kind = "json"
     /\ rootDirs' = Roots(file.dirs)
     /\ applied' = rootDirs
  \/ file.kind # "json" /\ UNCHANGED <<rootDirs, applied>>

\* Mutation: read() does not normalize.
ReadPlain ==
  \/ /\ file.kind = "json"
     /\ rootDirs' = file.dirs \cap Valid
     /\ applied' = file.dirs \cap Valid
  \/ file.kind # "json" /\ UNCHANGED <<rootDirs, applied>>

\* Mutation: read() takes every directory of the list.
ReadAll ==
  \/ /\ file.kind = "json"
     /\ rootDirs' = Normalize(file.dirs)
     /\ applied' = Normalize(file.dirs)
  \/ file.kind # "json" /\ UNCHANGED <<rootDirs, applied>>

\* read(), and the observers unless it throws: before it touches root_dirs if the
\* file does not parse, and in the middle of the list if the file is odd.
Read ==
  \/ /\ file.kind = "json"
     /\ rootDirs' = Roots(file.dirs)
     /\ applied' = Roots(file.dirs)
  \/ /\ file.kind = "odd"
     /\ rootDirs' = file.dirs \cap Valid
     /\ UNCHANGED applied
  \/ ~Parses /\ UNCHANGED <<rootDirs, applied>>

\* Mutation: a command that throws stays in the queue.
HandleAndRetry ==
  /\ daemon = "up" /\ ~Open("main") /\ queue # <<>>
  /\ \/ /\ Head(queue) = "modified"
        /\ queue' = IF file.kind = "json" THEN Tail(queue) ELSE queue
        /\ Read
        /\ UNCHANGED <<fs, missed>>
     \/ /\ Head(queue) = "deleted"
        /\ Populate(rootDirs, Tail(queue))
        /\ UNCHANGED applied
  /\ UNCHANGED <<daemon, desktop, bounds, wanted, clashed>>

\* Mutation: a file that does not parse is written anew, like one that is gone.
HandleAndRepair ==
  /\ daemon = "up" /\ ~Open("main") /\ queue # <<>>
  /\ \/ /\ Head(queue) = "modified" /\ file.kind = "json"
        /\ queue' = Tail(queue)
        /\ Read
        /\ UNCHANGED <<fs, missed>>
     \/ /\ Head(queue) = "deleted" \/ file.kind # "json"
        /\ Populate(rootDirs, Tail(queue))
        /\ UNCHANGED applied
  /\ UNCHANGED <<daemon, desktop, bounds, wanted, clashed>>

\* sync() runs a command of handleFileAction().
Handle ==
  /\ daemon = "up" /\ ~Open("main") /\ queue # <<>>
  /\ \/ /\ Head(queue) = "modified"
        /\ queue' = Tail(queue)
        /\ Read
        /\ UNCHANGED <<fs, missed>>
     \/ /\ Head(queue) = "deleted"
        /\ Populate(rootDirs, Tail(queue))
        /\ UNCHANGED applied
  /\ UNCHANGED <<daemon, desktop, bounds, wanted, clashed>>

Crash ==
  /\ daemon # "down" /\ crashes < MaxCrashes
  /\ crashes' = crashes + 1
  /\ daemon' = "down" /\ rootDirs' = {} /\ applied' = {}
  /\ queue' = <<>> /\ missed' = FALSE
  /\ stream' = [w \in Writers |-> Closed] /\ linked' = {}
  /\ client' = [c \in Clients |-> IF client[c] = "posting" THEN "idle" ELSE client[c]]
  /\ clashed' = (clashed \/ \E w \in Writers : Open(w))
  /\ UNCHANGED <<file, request, edits, wanted>>

-----------------------------------------------------------------------------
(* The desktops, and the threads of the HTTP server that serve them *)

\* What a desktop posts, given what it fetched: nothing if the GET failed.  An odd
\* list gets the new directory at its end; a list may hold a directory twice, and
\* only the first is erased.
Added(list, d) == IF list.kind = "odd" THEN list ELSE Json(list.dirs \cup {d})
Removed(list, d, twice) ==
  Contents(IF list.kind = "odd" THEN "odd" ELSE "json", IF twice THEN list.dirs ELSE list.dirs \ {d})

\* addHostDirectory() and removeHostDirectory(), as far as the answer to GET /c.
Fetch(c) ==
  /\ client[c] = "idle" /\ edits < MaxEdits
  /\ edits' = edits + 1
  /\ client' = [client EXCEPT ![c] = "fetched"]
  /\ LET answer == IF daemon = "up" /\ Parses THEN file ELSE Empty IN
     \E d \in Dirs :
       \/ /\ d \in Valid
          /\ request' = [request EXCEPT ![c] = Added(answer, d)]
          /\ wanted' = Added(wanted, d)
       \/ \E twice \in BOOLEAN :
            /\ request' = [request EXCEPT ![c] = Removed(answer, d, twice)]
            /\ wanted' = Removed(wanted, d, twice)
  /\ clashed' = (clashed \/ Busy \/ daemon # "up")
  /\ UNCHANGED <<fs, server, queue, crashes, missed>>

\* POST /c: set_json() checks that the body is JSON and opens the file.
Post(c) ==
  /\ client[c] = "fetched" /\ daemon = "up"
  /\ client' = [client EXCEPT ![c] = "posting"]
  /\ OpenStream(c, request[c], queue)
  /\ UNCHANGED <<server, request, bounds, wanted, clashed>>

\* The file is written and the desktop has its answer.
Answer(c) ==
  /\ client[c] = "posting"
  /\ client' = [client EXCEPT ![c] = "idle"]
  /\ CloseStream(c)
  /\ UNCHANGED <<server, request, bounds, wanted, clashed>>

\* Nobody answers the POST.
GiveUp(c) ==
  /\ client[c] = "fetched" /\ daemon # "up"
  /\ client' = [client EXCEPT ![c] = "idle"]
  /\ clashed' = TRUE
  /\ UNCHANGED <<fs, server, queue, request, bounds, missed, wanted>>

-----------------------------------------------------------------------------
(* The user *)

Edited ==
  {Json(S) : S \in Written} \cup {Contents("odd", S) : S \in Written} \cup {Garbled}

\* An editor that writes the file in place; nobody is told while the daemon starts.
Save(contents) ==
  /\ edits < MaxEdits
  /\ edits' = edits + 1
  /\ file' = contents
  /\ queue' = IF daemon = "up" THEN Append(queue, "modified") ELSE queue
  /\ missed' = (daemon = "starting")
  /\ wanted' = contents /\ clashed' = (clashed \/ Busy)
  /\ UNCHANGED <<stream, linked, server, desktop, crashes>>

\* An editor that renames a new file to user.json: handleFileAction() looks at the
\* old name only.
SaveByRename(contents) ==
  /\ edits < MaxEdits
  /\ edits' = edits + 1
  /\ file' = contents /\ linked' = {}
  /\ missed' = (daemon # "down")
  /\ wanted' = contents /\ clashed' = (clashed \/ Busy)
  /\ UNCHANGED <<stream, queue, server, desktop, crashes>>

\* The file is deleted, or moved away: the daemon does the same for both.
TakeAway ==
  /\ edits < MaxEdits /\ file.kind # "missing"
  /\ edits' = edits + 1
  /\ file' = Missing /\ linked' = {}
  /\ queue' = IF daemon = "up" THEN Append(queue, "deleted") ELSE queue
  /\ missed' = (daemon = "starting")
  /\ clashed' = TRUE
  /\ UNCHANGED <<stream, server, desktop, crashes, wanted>>

User == TakeAway \/ \E contents \in Edited : Save(contents) \/ SaveByRename(contents)

Next ==
  \/ Start \/ AddWatch \/ Wrote \/ Handle \/ Crash
  \/ \E c \in Clients : Fetch(c) \/ Post(c) \/ Answer(c) \/ GiveUp(c)
  \/ User

\* The main thread and the threads of the HTTP server go on; nobody has to start the
\* daemon, to edit or to post.
Fairness ==
  /\ WF_vars(AddWatch) /\ WF_vars(Wrote) /\ WF_vars(Handle)
  /\ \A c \in Clients : WF_vars(Answer(c))

Spec     == Init /\ [][Next]_vars
FairSpec == Spec /\ Fairness

-----------------------------------------------------------------------------
(* Properties *)

Bodies == [kind : {"json", "odd"}, dirs : SUBSET Dirs] \cup {Closed}

\* The type of the variables; only valid directories get into the program.
TypeOK ==
  /\ file \in [kind : Kinds, dirs : SUBSET Dirs]
  /\ stream \in [Writers -> Bodies]
  /\ linked \subseteq {w \in Writers : Open(w)}
  /\ daemon \in {"down", "starting", "up"}
  /\ rootDirs \subseteq Valid /\ applied \subseteq Valid
  /\ queue \in Seq({"modified", "deleted"})
  /\ client \in [Clients -> {"idle", "fetched", "posting"}]
  /\ request \in [Clients -> Bodies]
  /\ \A c \in Clients : client[c] # "idle" => request[c] # Closed
  /\ edits \in 0 .. MaxEdits /\ crashes \in 0 .. MaxCrashes
  /\ missed \in BOOLEAN /\ clashed \in BOOLEAN
  /\ wanted \in [kind : Kinds, dirs : SUBSET Dirs]

Disjoint(S) == \A d, e \in S : ~IsParentOf(d, e)

\* Whatever is written into the file, and whenever it is read, the database, the
\* scanner and the watcher are never given a directory inside another one.
RootsDisjoint == Disjoint(applied)

\* Once the events are handled, the daemon works with the directories of the file,
\* however reads, writes and truncations have met; the exceptions are a file that does
\* not parse or is odd, and a change nobody reported: the rename of another file to
\* user.json, and a change before the watch began.
Converged ==
  daemon = "up" /\ queue = <<>> /\ ~missed /\ file.kind = "json" =>
    rootDirs = Roots(file.dirs) /\ applied = Roots(file.dirs)

\* Edits one after the other add up: the daemon does not touch what the user or a
\* desktop wrote, as long as the file is not removed and operations do not overlap.
EditsStand == ~clashed /\ ~Busy => file = wanted

\* The daemon comes to rest: it does not go on reacting to what it writes itself.
ComesToRest == <>[](daemon = "up" => queue = <<>> /\ ~Open("main"))

=============================================================================
