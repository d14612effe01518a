----------------------------- MODULE WorkerPool -----------------------------
(***************************************************************************)
(* The two pools of worker threads, vca::Async (core/vca/async.{h,cpp})    *)
(* and qtc::ThreadPool (desktop/src/qtc/ThreadPool.{h,cpp}).  They share   *)
(* one protocol: a queue of tasks and a flag behind a mutex, a condition   *)
(* variable on which idle workers wait, and a destructor that lets the     *)
(* workers drain the queue and joins them.  They differ in two things:     *)
(* Async notifies before it releases the mutex and ThreadPool after it,    *)
(* and Async may have no worker at all, in which case push() runs the task.*)
(*                                                                         *)
(* What happens under the mutex is one step, for none of it blocks; a      *)
(* worker that waits gives up the mutex in the same step.  A task may push *)
(* other tasks.  Tasks return: what they throw is kept by their future     *)
(* (Async) or logged (ThreadPool).                                         *)
(***************************************************************************)
EXTENDS Integers, SequencesExt, FiniteSets

CONSTANTS
  Workers,   \* the threads the constructor may be told to create
  Clients,   \* the other threads: they push, and one of them is the owner
  Tasks      \* the tasks that may be pushed, each once

ASSUME ThreadAssumption ==
  /\ IsFiniteSet(Workers) /\ IsFiniteSet(Clients)
  /\ Workers \cap Clients = {}

VARIABLES
  pool,       \* which of the two classes it is
  threads,    \* the workers this pool is to have
  owner,      \* how far the owner is with the constructor or the destructor
  ready,      \* workers about to look at the queue
  waiting,    \* workers in the wait set of the condition variable
  busy,       \* workers that run a task, with their task
  exited,     \* workers whose function has returned
  queue,      \* the tasks nobody has taken
  notifying,  \* threads in push() that have still to call notify_one()
  pushed,     \* history: the tasks pushed
  ran         \* history: the tasks that have returned

params == <<pool, threads>>
vars   == <<params, owner, ready, waiting, busy, exited, queue, notifying, pushed, ran>>

Done    == owner \in {"shutdown", "joining", "closed"}
AtWork  == {b[1] : b \in busy}
Created == ready \cup waiting \cup AtWork \cup exited

Init ==
  /\ pool \in {"Async", "ThreadPool"}
  /\ threads \in SUBSET Workers
  /\ pool = "ThreadPool" => threads # {}
  /\ owner = "constructing"
  /\ ready = {} /\ waiting = {} /\ busy = {} /\ exited = {}
  /\ queue = <<>>
  /\ notifying = {} /\ pushed = {} /\ ran = {}

-----------------------------------------------------------------------------
(* The condition variable *)

\* Mutation: the thread is woken and stays in the wait set.
WakenInPlace(w) == ready' = ready \cup {w} /\ waiting' = waiting

Waken(w) == ready' = ready \cup {w} /\ waiting' = waiting \ {w}

NotifyOne ==
  \/ waiting = {} /\ UNCHANGED <<ready, waiting>>
  \/ \E w \in waiting : Waken(w)

SpuriousWake(w) ==
  /\ w \in waiting
  /\ Waken(w)
  /\ UNCHANGED <<params, owner, busy, exited, queue, notifying, pushed, ran>>

-----------------------------------------------------------------------------
(* push() *)

\* The destructor must not begin before the clients have left push().
MayPush(c) ==
  /\ c \notin notifying
  /\ (c \in Clients /\ owner = "open") \/ c \in AtWork

\* Mutation: push() notifies only if the queue was empty.
EnqueueNotifyFirst(c, t) ==
  /\ queue' = Append(queue, t)
  /\ \/ queue = <<>> /\ notifying' = notifying \cup {c}
     \/ queue # <<>> /\ UNCHANGED notifying
  /\ UNCHANGED <<ready, waiting>>

Enqueue(c, t) ==
  /\ queue' = Append(queue, t)
  /\ \/ pool = "Async" /\ NotifyOne /\ UNCHANGED notifying
     \/ pool = "ThreadPool" /\ notifying' = notifying \cup {c} /\ UNCHANGED <<ready, waiting>>

Push(c, t) ==
  /\ MayPush(c)
  /\ t \notin pushed
  /\ pushed' = pushed \cup {t}
  /\ \/ threads = {} /\ ran' = ran \cup {t} /\ UNCHANGED <<queue, notifying, ready, waiting>>
     \/ threads # {} /\ Enqueue(c, t) /\ UNCHANGED ran
  /\ UNCHANGED <<params, owner, busy, exited>>

Notify(c) ==
  /\ c \in notifying
  /\ notifying' = notifying \ {c}
  /\ NotifyOne
  /\ UNCHANGED <<params, owner, busy, exited, queue, pushed, ran>>

-----------------------------------------------------------------------------
(* worker() *)

\* Mutation: the task is copied from the front of the queue and not popped.
TakeCopy(w) ==
  /\ w \in ready /\ queue # <<>>
  /\ ready' = ready \ {w}
  /\ busy' = busy \cup {<<w, Head(queue)>>}
  /\ UNCHANGED <<params, owner, waiting, exited, queue, notifying, pushed, ran>>

Take(w) ==
  /\ w \in ready /\ queue # <<>>
  /\ ready' = ready \ {w}
  /\ busy' = busy \cup {<<w, Head(queue)>>}
  /\ queue' = Tail(queue)
  /\ UNCHANGED <<params, owner, waiting, exited, notifying, pushed, ran>>

\* Mutation: wait() without a predicate.
WaitBlindly(w) ==
  /\ w \in ready /\ ~Done
  /\ ready' = ready \ {w}
  /\ waiting' = waiting \cup {w}
  /\ UNCHANGED <<params, owner, busy, exited, queue, notifying, pushed, ran>>

Wait(w) ==
  /\ w \in ready /\ queue = <<>> /\ ~Done
  /\ ready' = ready \ {w}
  /\ waiting' = waiting \cup {w}
  /\ UNCHANGED <<params, owner, busy, exited, queue, notifying, pushed, ran>>

\* Mutation: a worker leaves as soon as it sees the flag.
ExitAtOnce(w) ==
  /\ w \in ready /\ Done
  /\ ready' = ready \ {w}
  /\ exited' = exited \cup {w}
  /\ UNCHANGED <<params, owner, waiting, busy, queue, notifying, pushed, ran>>

Exit(w) ==
  /\ w \in ready /\ queue = <<>> /\ Done
  /\ ready' = ready \ {w}
  /\ exited' = exited \cup {w}
  /\ UNCHANGED <<params, owner, waiting, busy, queue, notifying, pushed, ran>>

Finish(w) ==
  /\ w \notin notifying
  /\ \E b \in busy : /\ b[1] = w
                     /\ busy' = busy \ {b}
                     /\ ran' = ran \cup {b[2]}
  /\ ready' = ready \cup {w}
  /\ UNCHANGED <<params, owner, waiting, exited, queue, notifying, pushed>>

-----------------------------------------------------------------------------
(* The constructor and the destructor *)

Create(w) ==
  /\ owner = "constructing"
  /\ w \in threads \ Created
  /\ ready' = ready \cup {w}
  /\ UNCHANGED <<params, owner, waiting, busy, exited, queue, notifying, pushed, ran>>

Constructed ==
  /\ owner = "constructing" /\ Created = threads
  /\ owner' = "open"
  /\ UNCHANGED <<params, ready, waiting, busy, exited, queue, notifying, pushed, ran>>

\* shutdown() sets the flag: in the destructor, or in a constructor that cannot
\* create a thread, or store it.
Shutdown ==
  /\ \/ owner = "open" /\ notifying \cap Clients = {}
     \/ owner = "constructing" /\ threads # {}
  /\ owner' = "shutdown"
  /\ UNCHANGED <<params, ready, waiting, busy, exited, queue, notifying, pushed, ran>>

\* Mutation: shutdown() calls notify_one().
NotifyOneOfAll ==
  /\ owner = "shutdown"
  /\ owner' = "joining"
  /\ NotifyOne
  /\ UNCHANGED <<params, busy, exited, queue, notifying, pushed, ran>>

NotifyAll ==
  /\ owner = "shutdown"
  /\ owner' = "joining"
  /\ ready' = ready \cup waiting /\ waiting' = {}
  /\ UNCHANGED <<params, busy, exited, queue, notifying, pushed, ran>>

\* Every thread that was created is joined, the one that was not stored too.
Join ==
  /\ owner = "joining" /\ Created = exited
  /\ owner' = "closed"
  /\ UNCHANGED <<params, ready, waiting, busy, exited, queue, notifying, pushed, ran>>

Closed == owner = "closed" /\ UNCHANGED vars

-----------------------------------------------------------------------------

WorkerStep(w) == SpuriousWake(w) \/ Take(w) \/ Wait(w) \/ Exit(w) \/ Finish(w)
OwnerStep == (\E w \in Workers : Create(w)) \/ Constructed \/ Shutdown \/ NotifyAll \/ Join

Next ==
  \/ \E c \in Clients \cup Workers : Notify(c) \/ \E t \in Tasks : Push(c, t)
  \/ \E w \in Workers : WorkerStep(w)
  \/ OwnerStep
  \/ Closed

\* Every thread goes on (and every task returns); nobody has to push, or to
\* destroy the pool, and no thread has to wake up unless it is notified.
Fairness ==
  /\ \A c \in Clients \cup Workers : WF_vars(Notify(c))
  /\ \A w \in Workers : WF_vars(Take(w) \/ Wait(w) \/ Exit(w) \/ Finish(w)) /\ WF_vars(Create(w))
  /\ WF_vars(NotifyAll) /\ WF_vars(Join)

Spec     == Init /\ [][Next]_vars
FairSpec == Spec /\ Fairness

-----------------------------------------------------------------------------
(* Properties *)

\* The type of the variables: a worker is in one state, and runs one task.
TypeOK ==
  /\ pool \in {"Async", "ThreadPool"} /\ threads \subseteq Workers
  /\ owner \in {"constructing", "open", "shutdown", "joining", "closed"}
  /\ ready \subseteq Workers /\ waiting \subseteq Workers /\ exited \subseteq Workers
  /\ busy \subseteq Workers \X Tasks
  /\ \A b, c \in busy : b[1] = c[1] => b = c
  /\ ready \cap waiting = {} /\ ready \cap AtWork = {} /\ ready \cap exited = {}
  /\ waiting \cap AtWork = {} /\ waiting \cap exited = {} /\ AtWork \cap exited = {}
  /\ queue \in Seq(Tasks)
  /\ notifying \subseteq Clients \cup Workers
  /\ pushed \subseteq Tasks /\ ran \subseteq Tasks

\* No worker idles over a backlog: while one waits, each task of the queue has a
\* thread that is about to take it or to wake somebody up for it.  A single lost
\* notification would break this.
NoIdleBacklog ==
  waiting # {} => Len(queue) <= Cardinality(ready) + Cardinality(notifying)

Distinct(s) == \A i, j \in DOMAIN s : s[i] = s[j] => i = j

\* A task that was pushed is in one place: it waits in the queue, once, or one
\* worker runs it, or it has run, once.
OnePlace ==
  /\ pushed = ToSet(queue) \cup {b[2] : b \in busy} \cup ran
  /\ Distinct(queue)
  /\ \A b, c \in busy : b[2] = c[2] => b = c
  /\ ToSet(queue) \cap ran = {} /\ \A b \in busy : b[2] \notin ToSet(queue) \cup ran

\* When the destructor returns, or the constructor throws, every task pushed has
\* run, those pushed by the last tasks too, and no thread is left that could touch
\* the pool.
ClosedIsQuiet ==
  owner = "closed" => pushed = ran /\ Created = exited /\ notifying = {}

\* Every task that is pushed is run.
TasksRun == \A t \in Tasks : t \in pushed ~> t \in ran

\* The destructor returns: no worker sleeps through the shutdown.
DestructorReturns == owner = "shutdown" ~> owner = "closed"

=============================================================================
