----------------------------- MODULE Rendezvous -----------------------------
(***************************************************************************)
(* How a command line or a desktop finds the daemon, asks it something,    *)
(* and how a daemon ends (daemon/src/daemon.cpp, daemon/src/               *)
(* http_server.cpp, core/vca/file_lock.*, AppConfig in core/vca/config.cpp,*)
(* command/src/command.cpp, desktop/src/desktop.cpp).                      *)
(*                                                                         *)
(* A daemon binds the first free port, publishes it in app.json under a    *)
(* file lock, and runs the commands of its queue until a signal arrives;   *)
(* then it removes the file, under the lock, and is destroyed.  A client   *)
(* waits for the file to exist, takes the lock and reads it once.  A       *)
(* question makes a thread of the HTTP server push a command and wait for  *)
(* its future.                                                             *)
(*                                                                         *)
(* The lock and the ports are the operating system's: both are released    *)
(* when a process dies.  Whether stop() of the HTTP library waits for its  *)
(* threads is not to be seen from the code: joins holds either.            *)
(***************************************************************************)
EXTENDS Integers, SequencesExt, FiniteSets

CONSTANTS
  Daemons, Clients,   \* processes
  FirstPort,          \* AppConfig::m_port
  Retries,            \* how many ports more are tried (the code has 99)
  Occupied,           \* the sets of ports that other programs may occupy
  MaxStarts,          \* bound on the starts of daemons
  MaxCrashes,         \* bound on their crashes
  MaxQuestions,       \* bound on the questions
  MaxSessions         \* bound on the clients started

ASSUME ProcessAssumption ==
  /\ IsFiniteSet(Daemons) /\ IsFiniteSet(Clients)
  /\ "nobody" \notin Daemons \cup Clients /\ Daemons \cap Clients = {}
ASSUME PortAssumption == Occupied \subseteq SUBSET Nat
ASSUME BoundAssumption ==
  /\ FirstPort \in Nat /\ Retries \in Nat
  /\ MaxStarts \in Nat /\ MaxCrashes \in Nat /\ MaxQuestions \in Nat /\ MaxSessions \in Nat

VARIABLES
  appFile,    \* app.json: its kind, the port it names and the daemon that wrote it
  lock,       \* the process that has locked app.json.lock
  stage,      \* for each daemon, how far main() is
  port,       \* for each daemon, the port its server is bound to, or is about to try
  config,     \* for each daemon, the port in its AppConfig
  signalled,  \* the daemons whose g_signal_status is set
  commands,   \* for each daemon, the clients whose commands are in its queue
  client,     \* for each client, how far it is
  target,     \* for each client, the port it has read
  joins,      \* stop() waits for the threads of the server
  occupied,   \* the ports that other programs occupy
  starts, crashes, questions, sessions,
  crashed     \* history: the daemons whose last run ended in a crash

file    == <<appFile, lock>>
net     == <<port, config>>
clients == <<client, target>>
fixed   == <<joins, occupied>>
bounds  == <<starts, crashes, questions, sessions>>
vars    == <<file, stage, net, signalled, commands, clients, fixed, bounds, crashed>>

Ports == FirstPort .. FirstPort + Retries

\* The stages with a server that listens.
Live == {"serving", "locked", "opened", "looping", "leaving", "removing", "removed", "closing"}
Listening(d) == stage[d] \in Live
Off == "off"

AppFile(kind, p, by) == [kind |-> kind, port |-> p, by |-> by]
NoFile == AppFile("missing", FirstPort, "nobody")

Init ==
  /\ appFile = NoFile
  /\ lock = "nobody"
  /\ stage = [d \in Daemons |-> Off]
  /\ port = [d \in Daemons |-> FirstPort] /\ config = port
  /\ signalled = {}
  /\ commands = [d \in Daemons |-> <<>>]
  /\ client = [c \in Clients |-> "waiting"] /\ target = [c \in Clients |-> FirstPort]
  /\ joins \in BOOLEAN /\ occupied \in Occupied
  /\ starts = 0 /\ crashes = 0 /\ questions = 0 /\ sessions = 0
  /\ crashed = {}

-----------------------------------------------------------------------------
(* main() of the daemon *)

Goes(d, s) == stage' = [stage EXCEPT ![d] = s]

Launch(d) ==
  /\ stage[d] = Off /\ starts < MaxStarts
  /\ starts' = starts + 1
  /\ Goes(d, "binding")
  /\ port' = [port EXCEPT ![d] = FirstPort] /\ config' = [config EXCEPT ![d] = FirstPort]
  /\ UNCHANGED <<file, signalled, commands, clients, fixed, crashes, questions, sessions, crashed>>

Bound(p) == \E d \in Daemons : Listening(d) /\ port[d] = p
Taken(p) == p \in occupied \/ Bound(p)

\* Mutation: set_port() is not called.
BindQuietly(d) ==
  /\ stage[d] = "binding"
  /\ \/ /\ ~Taken(port[d])
        /\ Goes(d, "serving")
        /\ UNCHANGED <<port, signalled>>
     \/ /\ Taken(port[d]) /\ port[d] < FirstPort + Retries
        /\ port' = [port EXCEPT ![d] = @ + 1]
        /\ UNCHANGED <<stage, signalled>>
     \/ /\ Taken(port[d]) /\ port[d] = FirstPort + Retries
        /\ Goes(d, Off)
        /\ signalled' = signalled \ {d}
        /\ UNCHANGED port
  /\ UNCHANGED <<file, config, commands, clients, fixed, bounds, crashed>>

\* Mutation: one retry too many.
BindOnceMore(d) ==
  /\ stage[d] = "binding"
  /\ \/ /\ ~Taken(port[d])
        /\ config' = [config EXCEPT ![d] = port[d]]
        /\ Goes(d, "serving")
        /\ UNCHANGED port
     \/ /\ Taken(port[d]) /\ port[d] <= FirstPort + Retries
        /\ port' = [port EXCEPT ![d] = @ + 1]
        /\ UNCHANGED <<stage, config>>
  /\ UNCHANGED <<file, signalled, commands, clients, fixed, bounds, crashed>>

\* The constructor of HttpServer; after the last port it throws and main() returns.
Bind(d) ==
  /\ stage[d] = "binding"
  /\ \/ /\ ~Taken(port[d])
        /\ config' = [config EXCEPT ![d] = port[d]]
        /\ Goes(d, "serving")
        /\ UNCHANGED <<port, signalled>>
     \/ /\ Taken(port[d]) /\ port[d] < FirstPort + Retries
        /\ port' = [port EXCEPT ![d] = @ + 1]
        /\ UNCHANGED <<stage, config, signalled>>
     \/ /\ Taken(port[d]) /\ port[d] = FirstPort + Retries
        /\ Goes(d, Off)
        /\ signalled' = signalled \ {d}
        /\ UNCHANGED <<net>>
  /\ UNCHANGED <<file, commands, clients, fixed, bounds, crashed>>

LockToWrite(d) ==
  /\ stage[d] = "serving" /\ lock = "nobody"
  /\ lock' = d
  /\ Goes(d, "locked")
  /\ UNCHANGED <<appFile, net, signalled, commands, clients, fixed, bounds, crashed>>

\* AppConfig::write() has truncated the file.
OpenFile(d) ==
  /\ stage[d] = "locked"
  /\ appFile' = AppFile("partial", FirstPort, d)
  /\ Goes(d, "opened")
  /\ UNCHANGED <<lock, net, signalled, commands, clients, fixed, bounds, crashed>>

\* Mutation: the lock is held until main() returns.
WriteAndKeepLock(d) ==
  /\ stage[d] = "opened"
  /\ appFile' = AppFile("port", config[d], d)
  /\ crashed' = crashed \ {d}
  /\ Goes(d, "looping")
  /\ UNCHANGED <<lock, net, signalled, commands, clients, fixed, bounds>>

\* The file is written, and the lock released at the end of its block.
WriteFile(d) ==
  /\ stage[d] = "opened"
  /\ appFile' = AppFile("port", config[d], d)
  /\ crashed' = crashed \ {d}
  /\ lock' = "nobody"
  /\ Goes(d, "looping")
  /\ UNCHANGED <<net, signalled, commands, clients, fixed, bounds>>

\* A command is run: the future is ready and the client has its answer.
Sync(d) ==
  /\ stage[d] = "looping" /\ d \notin signalled /\ commands[d] # <<>>
  /\ commands' = [commands EXCEPT ![d] = Tail(@)]
  /\ client' = [client EXCEPT ![Head(commands[d])] = "ready"]
  /\ UNCHANGED <<file, stage, net, signalled, target, fixed, bounds, crashed>>

Signal(d) ==
  /\ stage[d] # Off
  /\ signalled' = signalled \cup {d}
  /\ UNCHANGED <<file, stage, net, commands, clients, fixed, bounds, crashed>>

\* Mutation: the loop ends when the queue is empty.
LeaveLoopLate(d) ==
  /\ stage[d] = "looping" /\ d \in signalled /\ commands[d] = <<>>
  /\ Goes(d, "leaving")
  /\ UNCHANGED <<file, net, signalled, commands, clients, fixed, bounds, crashed>>

LeaveLoop(d) ==
  /\ stage[d] = "looping" /\ d \in signalled
  /\ Goes(d, "leaving")
  /\ UNCHANGED <<file, net, signalled, commands, clients, fixed, bounds, crashed>>

LockToRemove(d) ==
  /\ stage[d] = "leaving" /\ lock = "nobody"
  /\ lock' = d
  /\ Goes(d, "removing")
  /\ UNCHANGED <<appFile, net, signalled, commands, clients, fixed, bounds, crashed>>

RemoveFile(d) ==
  /\ stage[d] = "removing"
  /\ appFile' = NoFile
  /\ Goes(d, "removed")
  /\ UNCHANGED <<lock, net, signalled, commands, clients, fixed, bounds, crashed>>

\* main() returns: the lock is released first, the server is destroyed after it.
Return(d) ==
  /\ stage[d] = "removed"
  /\ lock' = "nobody"
  /\ Goes(d, "closing")
  /\ UNCHANGED <<appFile, net, signalled, commands, clients, fixed, bounds, crashed>>

Waiting(d) == {c \in Clients : c \in ToSet(commands[d])}

\* What a client is told whose connection breaks: no answer.
Dropped(d) == [c \in Clients |-> IF c \in Waiting(d) THEN "ready" ELSE client[c]]

\* Mutation: the queue is destroyed and the threads that wait on it are not told.
StopSilently(d) ==
  /\ stage[d] = "closing"
  /\ joins => Waiting(d) = {}
  /\ Goes(d, Off)
  /\ signalled' = signalled \ {d}
  /\ commands' = [commands EXCEPT ![d] = <<>>]
  /\ UNCHANGED <<file, net, clients, fixed, bounds, crashed>>

\* ~HttpServer(): nobody runs the commands any more that its threads wait for.
Stop(d) ==
  /\ stage[d] = "closing"
  /\ joins => Waiting(d) = {}
  /\ Goes(d, Off)
  /\ signalled' = signalled \ {d}
  /\ client' = Dropped(d)
  /\ commands' = [commands EXCEPT ![d] = <<>>]
  /\ UNCHANGED <<file, net, target, fixed, bounds, crashed>>

Crash(d) ==
  /\ stage[d] # Off /\ crashes < MaxCrashes
  /\ crashes' = crashes + 1
  /\ crashed' = crashed \cup {d}
  /\ Goes(d, Off)
  /\ lock' = IF lock = d THEN "nobody" ELSE lock
  /\ signalled' = signalled \ {d}
  /\ client' = Dropped(d)
  /\ commands' = [commands EXCEPT ![d] = <<>>]
  /\ UNCHANGED <<appFile, net, target, fixed, starts, questions, sessions>>

-----------------------------------------------------------------------------
(* main() of a client *)

Becomes(c, s) == client' = [client EXCEPT ![c] = s]

\* One turn of the loop that waits for the file.
Find(c) ==
  /\ client[c] = "waiting" /\ appFile.kind # "missing"
  /\ Becomes(c, "found")
  /\ UNCHANGED <<file, stage, net, signalled, commands, target, fixed, bounds, crashed>>

LockToRead(c) ==
  /\ client[c] = "found" /\ lock = "nobody"
  /\ lock' = c
  /\ Becomes(c, "reading")
  /\ UNCHANGED <<appFile, stage, net, signalled, commands, target, fixed, bounds, crashed>>

\* AppConfig::read(): it throws, and the client ends, if the file is gone or torn.
ReadFile(c) ==
  /\ client[c] = "reading"
  /\ \/ /\ appFile.kind = "port"
        /\ target' = [target EXCEPT ![c] = appFile.port]
        /\ Becomes(c, "ready")
     \/ /\ appFile.kind # "port"
        /\ Becomes(c, "failed")
        /\ UNCHANGED target
  /\ lock' = "nobody"
  /\ UNCHANGED <<appFile, stage, net, signalled, commands, fixed, bounds, crashed>>

\* A question: an error if nobody listens, else a command of the handler thread.
Ask(c) ==
  /\ client[c] = "ready" /\ questions < MaxQuestions
  /\ questions' = questions + 1
  /\ \/ /\ ~Bound(target[c])
        /\ UNCHANGED <<client, commands>>
     \/ \E d \in Daemons :
          /\ Listening(d) /\ port[d] = target[c]
          /\ commands' = [commands EXCEPT ![d] = Append(@, c)]
          /\ Becomes(c, "asking")
  /\ UNCHANGED <<file, stage, net, signalled, target, fixed, starts, crashes, sessions, crashed>>

\* The client ends, and is started again.
Restart(c) ==
  /\ client[c] \in {"ready", "failed"} /\ sessions < MaxSessions
  /\ sessions' = sessions + 1
  /\ Becomes(c, "waiting")
  /\ UNCHANGED <<file, stage, net, signalled, commands, target, fixed, starts, crashes, questions, crashed>>

-----------------------------------------------------------------------------

Forward(d) ==
  \/ Bind(d) \/ LockToWrite(d) \/ OpenFile(d) \/ WriteFile(d) \/ Sync(d)
  \/ LeaveLoop(d) \/ LockToRemove(d) \/ RemoveFile(d) \/ Return(d) \/ Stop(d)
ClientGoesOn(c) == Find(c) \/ LockToRead(c) \/ ReadFile(c)

Next ==
  \/ \E d \in Daemons : Launch(d) \/ Forward(d) \/ Signal(d) \/ Crash(d)
  \/ \E c \in Clients : ClientGoesOn(c) \/ Ask(c) \/ Restart(c)

\* Processes go on, and the lock is not kept from one for ever; nobody has to start or to
\* signal a daemon, to start a client or to ask.
Fairness ==
  /\ \A d \in Daemons : WF_vars(Forward(d))
  /\ \A c \in Clients : WF_vars(ClientGoesOn(c))

Spec     == Init /\ [][Next]_vars
FairSpec == Spec /\ Fairness

-----------------------------------------------------------------------------
(* Properties *)

\* The type of the variables.
TypeOK ==
  /\ appFile \in [kind : {"missing", "partial", "port"}, port : Ports, by : Daemons \cup {"nobody"}]
  /\ lock \in Daemons \cup Clients \cup {"nobody"}
  /\ stage \in [Daemons -> Live \cup {Off, "binding"}]
  /\ port \in [Daemons -> Ports] /\ config \in [Daemons -> Ports]
  /\ signalled \subseteq {d \in Daemons : stage[d] # Off}
  /\ commands \in [Daemons -> Seq(Clients)]
  /\ client \in [Clients -> {"waiting", "found", "reading", "ready", "asking", "failed"}]
  /\ target \in [Clients -> Ports]
  /\ joins \in BOOLEAN /\ occupied \in Occupied /\ crashed \subseteq Daemons

\* A port in app.json is the one its daemon listens on: it was bound before it was
\* published and is not given up before it is withdrawn, with several daemons too; only
\* a crash leaves a port behind that nobody listens on.
PublishedListens ==
  appFile.kind = "port" =>
    \/ Listening(appFile.by) /\ port[appFile.by] = appFile.port
    \/ appFile.by \in crashed

\* While the file is half written its daemon has the lock, so no client reads it; only a
\* daemon that crashed while writing leaves such a file.
PartialIsLocked ==
  appFile.kind = "partial" => lock = appFile.by \/ appFile.by \in crashed

\* Both: what a client reads in app.json is whole and true.
FileIsTrue == PublishedListens /\ PartialIsLocked

\* A client that waits gets on: it reads the file, unless the file keeps disappearing.
ClientsGetOn ==
  \A c \in Clients : <>[](appFile.kind # "missing") => (client[c] = "waiting" ~> client[c] \in {"ready", "failed"})

\* Every question ends with an answer, or an error, but for the questions of a daemon that
\* ends and whose server waits for its own threads.
QuestionsEnd ==
  \A c \in Clients :
    client[c] = "asking" ~>
      client[c] # "asking" \/ (joins /\ \E d \in Daemons : stage[d] = "closing" /\ c \in Waiting(d))

\* A signal ends the daemon, with the same exception.
SignalEnds ==
  \A d \in Daemons :
    d \in signalled ~> stage[d] = Off \/ (joins /\ stage[d] = "closing" /\ Waiting(d) # {})

=============================================================================
