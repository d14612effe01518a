------------------------------ MODULE Desktop ------------------------------
(***************************************************************************)
(* The desktop program: the outputs of the view, the handlers of the model *)
(* (module Model) for searches and for the state of the daemon, and the    *)
(* way the program starts and ends.                                        *)
(*                                                                         *)
(* desktop/src/desktop.cpp, desktop/src/engine/ and qtc/Output.cpp.        *)
(*                                                                         *)
(* Two threads touch the model: the main thread, which runs the view and   *)
(* blocks while it searches, and the worker of StatusHandler, which asks   *)
(* the daemon for its state once a second and sets two nodes.  Their data  *)
(* races on a set of listeners may end the process (crashed).  External:   *)
(* the daemon, the QML engine and the order in which std::map destroys the *)
(* handlers.                                                               *)
(***************************************************************************)
EXTENDS Model

CONSTANTS
  Texts,        \* what the user may type
  Replies,      \* what the daemon may answer: sequences of files
  Outputs,      \* the nodes that an Output of the view shows
  Unset,        \* what an Output shows before it is completed
  Budgets,      \* bounds, one set for each behaviour: [typed, changed, turns, restarts]
  DaemonFirst   \* TRUE if the map of handlers destroys "/daemon" first (libc++)

Results == {"result_count", "result_dirs", "result_files", "result_exts"}
Status  == {"connected", "indexing"}

ASSUME DesktopAssumption ==
  /\ Results \cup Status \cup {"input", "daemon_count"} \subseteq Nodes
  /\ (Results \cup Status \cup {"input", "daemon_count"}) \cap (Actionable \cup Persistent) = {}
  /\ Outputs \subseteq Nodes /\ Unset \notin Nodes
  /\ "" \notin Texts /\ DaemonFirst \in BOOLEAN

\* The types and the defaults of these nodes: Node<...> in the constructors of the handlers.
ASSUME ValuesAssumption ==
  /\ Texts \cup {""} \subseteq Values["input"] /\ Default["input"] = ""
  /\ 1 \in Values["daemon_count"]
  /\ \A n \in Status : Values[n] = BOOLEAN
  /\ \A n \in Results \ {"result_count"} : Replies \subseteq Values[n] /\ Default[n] = <<>>
  /\ \A reply \in Replies : Len(reply) \in Values["result_count"]
  /\ Default["result_count"] = 0

VARIABLES
  phase,      \* of the main thread: "load", "run", "close", "leave", "join" or "ended"
  shown,      \* Output::mValue
  listening,  \* the outputs whose listener is registered
  halfway,    \* the output whose listener has been called and is not yet registered
  searching,  \* the main thread waits for the answer to a search
  worker,     \* the thread of StatusHandler: [pc, node, got], got being its locals
  done,       \* StatusHandler::m_done
  daemonGone, \* DaemonHandler has been destroyed
  crashed,    \* a data race or a use after free has ended the process
  daemon,     \* the daemon: [up, indexing]
  budget,     \* what is left of the bounds
  answer,     \* history: the results that belong on the screen
  stale       \* history: outputs that missed a change while they were registered

viewVars    == <<shown, listening, halfway>>
workerVars  == <<worker, done, daemonGone>>
outside     == <<daemon, budget>>
desktopVars == <<phase, viewVars, searching, workerVars, crashed, outside, answer, stale>>
vars        == <<modelVars, desktopVars>>

Worker(pc, node, connected, indexing) ==
  [pc |-> pc, node |-> node, got |-> [connected |-> connected, indexing |-> indexing]]
Looping == Worker("loop", "connected", FALSE, FALSE)

\* The values after the constructors: DaemonHandler's has set its nodes.
Constructed == [Default EXCEPT !["daemon_count"] = 1]

Init ==
  /\ ModelInit(Constructed)
  /\ phase = "load"
  /\ shown = [o \in Outputs |-> Unset] /\ listening = {} /\ halfway = Unset
  /\ searching = FALSE
  /\ worker = Looping
  /\ done = FALSE /\ daemonGone = FALSE
  /\ crashed = FALSE
  /\ daemon = [up |-> TRUE, indexing |-> FALSE]
  /\ budget \in Budgets
  /\ answer = <<>> /\ stale = {}

Spend(what) ==
  /\ budget[what] > 0
  /\ budget' = [budget EXCEPT ![what] = @ - 1]

-----------------------------------------------------------------------------
(* The view: Outputs come, in any order, and go *)

Telling(n) == worker.pc = "tell" /\ worker.node = n

\* The main thread changes the listeners of a node whose listeners the worker is about
\* to call or calls: that may end the process.
Race(n) == crashed' \in {FALSE, Telling(n)}

ViewRest == UNCHANGED <<modelVars, searching, workerVars, outside, answer>>

\* Mutation: addListenerUnsafe does not call the listener.
CompleteOutputSilently(o) ==
  /\ phase = "load" /\ ~crashed
  /\ halfway = Unset /\ o \notin listening
  /\ halfway' = o
  /\ UNCHANGED <<phase, shown, listening, crashed, stale>> /\ ViewRest

\* Output::componentComplete: addListenerUnsafe calls the listener ...
CompleteOutput(o) ==
  /\ phase = "load" /\ ~crashed
  /\ halfway = Unset /\ o \notin listening
  /\ shown' = [shown EXCEPT ![o] = value[o]]
  /\ halfway' = o
  /\ UNCHANGED <<phase, listening, crashed, stale>> /\ ViewRest

\* ... and then adds it to the set.  A change in between is not shown.
Register ==
  /\ ~crashed
  /\ halfway # Unset
  /\ listening' = listening \cup {halfway}
  /\ stale' = IF shown[halfway] # value[halfway] /\ ~Telling(halfway)
                THEN stale \cup {halfway} ELSE stale
  /\ halfway' = Unset
  /\ Race(halfway)
  /\ UNCHANGED <<phase, shown>> /\ ViewRest

\* engine.load() returns and the event loop begins.
Loaded ==
  /\ phase = "load" /\ ~crashed
  /\ listening = Outputs
  /\ phase' = "run"
  /\ UNCHANGED <<viewVars, crashed, stale>> /\ ViewRest

\* The window is closed while the event loop waits: the engine and its Outputs go ...
Quit ==
  /\ phase = "run" /\ call = NoCall /\ ~crashed
  /\ phase' = "close"
  /\ UNCHANGED <<viewVars, crashed, stale>> /\ ViewRest

\* Output::~Output
DestroyOutput(o) ==
  /\ phase = "close" /\ ~crashed
  /\ o \in listening
  /\ listening' = listening \ {o}
  /\ stale' = stale \ {o}
  /\ Race(o)
  /\ UNCHANGED <<phase, shown, halfway>> /\ ViewRest

-----------------------------------------------------------------------------
(* The end of the process: ~Model, which destroys the handlers *)

EndRest == UNCHANGED <<modelVars, viewVars, searching, crashed, outside, answer, stale>>

\* ... then the model, with "/daemon" or with "/status" first.
Leave ==
  /\ phase = "close" /\ ~crashed
  /\ listening = {}
  /\ phase' = "leave"
  /\ daemonGone' = DaemonFirst
  /\ UNCHANGED <<worker, done>> /\ EndRest

\* Mutation: the destructor joins without telling the worker to end.
JoinOnly ==
  /\ phase = "leave" /\ ~crashed
  /\ phase' = "join"
  /\ UNCHANGED <<worker, done, daemonGone>> /\ EndRest

\* ~StatusHandler tells the worker to end and waits for it.
StopWorker ==
  /\ phase = "leave" /\ ~crashed
  /\ phase' = "join"
  /\ done' = TRUE
  /\ UNCHANGED <<worker, daemonGone>> /\ EndRest

Join ==
  /\ phase = "join" /\ ~crashed
  /\ worker.pc = "end"
  /\ phase' = "ended"
  /\ UNCHANGED workerVars /\ EndRest

StartAgain ==
  /\ phase = "ended"
  /\ Spend("restarts")
  /\ Restart(Constructed)
  /\ phase' = "load"
  /\ shown' = [o \in Outputs |-> Unset] /\ UNCHANGED <<listening, halfway, searching>>
  /\ worker' = Looping
  /\ done' = FALSE /\ daemonGone' = FALSE
  /\ answer' = <<>> /\ UNCHANGED stale
  /\ UNCHANGED <<crashed, daemon>>

-----------------------------------------------------------------------------
(* The user *)

UserRest == UNCHANGED <<phase, viewVars, searching, workerVars, crashed, daemon, answer, stale>>

\* Main.qml sets the node "input" to the text after each key.
Type(t) ==
  /\ phase = "run" /\ ~crashed
  /\ Spend("typed")
  /\ SetValue("input", t)
  /\ UserRest

\* The other calls that a view may make of the model.
CallModel ==
  /\ phase = "run" /\ ~crashed
  /\ Spend("changed")
  /\ \/ \E n \in Actionable \cup Persistent : \E v \in Values[n] : v # value[n] /\ SetValue(n, v)
     \/ Initialize \/ StartAction \/ EndAction \/ Undo \/ Redo
  /\ UserRest

-----------------------------------------------------------------------------
(* The main thread in a call of the model *)

MainRest == UNCHANGED <<phase, listening, halfway, workerVars, crashed, outside, stale>>

Cleared == <<Set("result_count", 0), Set("result_dirs", <<>>), Set("result_files", <<>>),
             Set("result_exts", <<>>)>>
Found(reply) == <<Set("result_dirs", reply), Set("result_files", reply),
                  Set("result_exts", reply), Set("result_count", Len(reply))>>

\* An assignment and the listeners of the node: an Output shows the value, and the
\* listener of SearchHandler clears the results or sends a search.
AssignNext ==
  /\ ~searching /\ ~crashed
  /\ todo # <<>>
  /\ LET n       == Head(todo).node
         v       == Head(todo).value
         changed == value[n] # v
         clears  == changed /\ n = "input" /\ v = ""
     IN  /\ Step(IF clears THEN Cleared \o Tail(todo) ELSE Tail(todo))
         /\ searching' = (changed /\ n = "input" /\ v # "")
         /\ shown' = IF changed /\ n \in listening THEN [shown EXCEPT ![n] = v] ELSE shown
         /\ answer' = IF clears THEN <<>> ELSE answer
  /\ MainRest

\* Mutation: an answer that is no answer empties the list of files.
AnsweredCarelessly ==
  /\ searching /\ ~crashed
  /\ searching' = FALSE
  /\ \/ /\ UNCHANGED answer
        /\ todo' = <<Set("result_files", <<>>)>> \o todo
     \/ \E reply \in Replies :
          /\ daemon.up
          /\ answer' = reply
          /\ todo' = Found(reply) \o todo
  /\ UNCHANGED <<value, settings, stacks, flags, call, straight, shown>> /\ MainRest

\* The answer to a search: the results of every daemon there is, or an error, which
\* leaves the old results where they are.
Answered ==
  /\ searching /\ ~crashed
  /\ searching' = FALSE
  /\ \/ /\ value["daemon_count"] > 0
        /\ UNCHANGED <<answer, todo>>
     \/ \E reply \in (IF value["daemon_count"] = 0 THEN {<<>>} ELSE Replies) :
          /\ daemon.up \/ value["daemon_count"] = 0
          /\ answer' = reply
          /\ todo' = Found(reply) \o todo
  /\ UNCHANGED <<value, settings, stacks, flags, call, straight, shown>> /\ MainRest

ReturnToView ==
  /\ ~searching /\ ~crashed
  /\ Return
  /\ UNCHANGED <<shown, searching, answer>> /\ MainRest

-----------------------------------------------------------------------------
(* The worker of StatusHandler *)

WorkerRest == UNCHANGED <<phase, listening, halfway, searching, done, daemonGone, outside, answer>>

\* Once round the loop: read the nodes of "/daemon", which may be gone by then.
Poll ==
  /\ ~crashed
  /\ worker.pc = "loop"
  /\ \/ /\ done
        /\ worker' = [worker EXCEPT !.pc = "end"]
        /\ UNCHANGED crashed
     \/ /\ ~done
        /\ worker' = IF value["daemon_count"] > 0 THEN [worker EXCEPT !.pc = "asking"]
                     ELSE Worker("set", "connected", FALSE, FALSE)
        /\ UNCHANGED crashed
     \/ /\ ~done /\ daemonGone
        /\ crashed' = TRUE
        /\ UNCHANGED worker
  /\ UNCHANGED <<modelVars, shown, stale>> /\ WorkerRest

\* Mutation: after an error the worker goes round again, as the search handler returns.
ReportedIfUp ==
  /\ ~crashed
  /\ worker.pc = "asking"
  /\ worker' = IF daemon.up THEN Worker("set", "connected", TRUE, daemon.indexing) ELSE Looping
  /\ UNCHANGED <<modelVars, shown, crashed, stale>> /\ WorkerRest

\* GET /t comes back; unless it failed, the loop reads the number of daemons again.
Reported ==
  /\ ~crashed
  /\ worker.pc = "asking"
  /\ \/ /\ worker' = Worker("set", "connected", daemon.up, daemon.up /\ daemon.indexing)
        /\ UNCHANGED crashed
     \/ /\ daemon.up /\ daemonGone
        /\ crashed' = TRUE
        /\ UNCHANGED worker
  /\ UNCHANGED <<modelVars, shown, stale>> /\ WorkerRest

After(n) == IF n = "connected" THEN [worker EXCEPT !.pc = "set", !.node = "indexing"]
            ELSE Looping

\* setValue() on one of the two nodes, and then its listeners.
SetStatus ==
  /\ ~crashed
  /\ worker.pc = "set"
  /\ LET n == worker.node
         v == worker.got[n]
     IN  /\ Assign(n, v)
         /\ worker' = IF value[n] # v THEN [worker EXCEPT !.pc = "tell"] ELSE After(n)
  /\ UNCHANGED <<redoStack, flags, call, todo, shown, crashed, stale>> /\ WorkerRest

TellStatus ==
  /\ ~crashed
  /\ worker.pc = "tell"
  /\ LET n == worker.node
     IN  /\ shown' = IF n \in listening THEN [shown EXCEPT ![n] = value[n]] ELSE shown
         /\ stale' = stale \ {n}
         /\ worker' = After(n)
  /\ UNCHANGED <<modelVars, crashed>> /\ WorkerRest

\* The daemon starts, ends, or begins or ends to index.
Turn ==
  /\ Spend("turns")
  /\ daemon' \in [up : BOOLEAN, indexing : BOOLEAN] \ {daemon}
  /\ UNCHANGED <<modelVars, phase, viewVars, searching, workerVars, crashed, answer, stale>>

-----------------------------------------------------------------------------

Main ==
  \/ \E o \in Outputs : CompleteOutput(o) \/ DestroyOutput(o)
  \/ Register \/ Loaded \/ Leave \/ StopWorker \/ Join
  \/ AssignNext \/ Answered \/ ReturnToView
StatusWorker == Poll \/ Reported \/ SetStatus \/ TellStatus
User         == Quit \/ StartAgain \/ CallModel \/ \E t \in Texts \cup {""} : Type(t)

Next == Main \/ StatusWorker \/ User \/ Turn

\* Both threads go on while they can, and the daemon or the network answers every request
\* if only with an error (assumed: no timeout is set).  The user need not do anything.
Fairness == WF_vars(Main) /\ WF_vars(StatusWorker)

Spec     == Init /\ [][Next]_vars
FairSpec == Spec /\ Fairness

-----------------------------------------------------------------------------
(* Properties *)

\* The type of the variables.
TypeOK ==
  /\ ModelTypeOK
  /\ phase \in {"load", "run", "close", "leave", "join", "ended"}
  /\ \A o \in Outputs : shown[o] \in Values[o] \cup {Unset}
  /\ listening \subseteq Outputs /\ halfway \in Outputs \cup {Unset}
  /\ worker \in [pc : {"loop", "asking", "set", "tell", "end"}, node : Status,
                 got : [Status -> BOOLEAN]]
  /\ {searching, done, daemonGone, crashed} \subseteq BOOLEAN
  /\ daemon \in [up : BOOLEAN, indexing : BOOLEAN]
  /\ answer \in Replies \cup {<<>>}
  /\ stale \subseteq listening

\* Whenever the event loop has the main thread, the four nodes of the results hold one
\* and the same answer, the last that came: a search that fails, or is followed by
\* another or by initialize(), never leaves the files of one with the directories or
\* the number of another.
ResultsAgree ==
  phase = "run" /\ call = NoCall =>
    /\ \A n \in Results \ {"result_count"} : value[n] = answer
    /\ value["result_count"] = Len(answer)

\* A registered Output shows what its node holds, whichever thread has set it, or is
\* about to be told.  Only an Output that missed a change while it was registered
\* shows an older value, and that can only be one of the two nodes of the worker.
ShownIsCurrent ==
  /\ \A o \in listening : shown[o] = value[o] \/ Telling(o) \/ o \in stale
  /\ stale \subseteq Status

\* While the program runs, the two nodes come to hold the state of the daemon, once
\* that stays as it is; whatever the main thread does to the model in between.
StatusReached ==
  []<>(\/ phase # "run" \/ crashed
       \/ value["daemon_count"] = 0
       \/ /\ value["connected"] = daemon.up
          /\ value["indexing"] = (daemon.up /\ daemon.indexing))

\* A program that is closed comes to its end: the main thread, which waits for the
\* worker, does not wait for ever.
Quits == phase = "close" ~> phase = "ended" \/ crashed

=============================================================================
