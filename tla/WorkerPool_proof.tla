-------------------------- MODULE WorkerPool_proof --------------------------
(***************************************************************************)
(* Proofs about WorkerPool, for any numbers of workers, clients and tasks. *)
(***************************************************************************)
EXTENDS WorkerPool, TLAPS, FiniteSetTheorems, SequenceTheorems

\* What the properties rest on: workers leave only after the flag is set and over
\* an empty queue; nobody waits once notify_all() has been called; an open pool
\* has all its workers; only clients of an open pool and workers at work are
\* inside push().
Lifecycle ==
  /\ exited # {} => Done
  /\ owner \in {"joining", "closed"} => waiting = {}
  /\ Created = exited => queue = <<>>
  /\ Created \subseteq threads /\ (owner = "open" => Created = threads)
  /\ notifying \subseteq Clients \cup AtWork
  /\ owner # "open" => notifying \cap Clients = {}

IInv == TypeOK /\ NoIdleBacklog /\ OnePlace /\ ClosedIsQuiet /\ Lifecycle

-----------------------------------------------------------------------------
(* Sequences without a repetition *)

LEMMA AppendDistinct ==
  ASSUME NEW S, NEW s \in Seq(S), NEW x \in S
  PROVE  /\ Append(s, x) \in Seq(S) /\ Len(Append(s, x)) = Len(s) + 1
         /\ ToSet(Append(s, x)) = ToSet(s) \cup {x}
         /\ Distinct(s) /\ x \notin ToSet(s) => Distinct(Append(s, x))
<1>1. /\ Append(s, x) \in Seq(S) /\ Len(Append(s, x)) = Len(s) + 1
      /\ \A i \in 1 .. Len(s) : Append(s, x)[i] = s[i]
      /\ Append(s, x)[Len(s) + 1] = x
  BY AppendProperties
<1>2. Len(s) \in Nat /\ DOMAIN s = 1 .. Len(s) /\ DOMAIN Append(s, x) = 1 .. (Len(s) + 1)
  BY <1>1, LenProperties
<1>3. ToSet(Append(s, x)) \subseteq ToSet(s) \cup {x}
  BY <1>1, <1>2 DEF ToSet
<1>4. ToSet(s) \cup {x} \subseteq ToSet(Append(s, x))
  BY <1>1, <1>2 DEF ToSet
<1>5. ASSUME Distinct(s), x \notin ToSet(s)
      PROVE  Distinct(Append(s, x))
  <2> SUFFICES ASSUME NEW i \in 1 .. (Len(s) + 1), NEW j \in 1 .. (Len(s) + 1),
                      Append(s, x)[i] = Append(s, x)[j]
               PROVE  i = j
    BY <1>2 DEF Distinct
  <2>1. \A k \in 1 .. Len(s) : s[k] # x
    BY <1>2, <1>5 DEF ToSet
  <2> QED
    BY <2>1, <1>1, <1>2, <1>5 DEF Distinct
<1> QED
  BY <1>1, <1>3, <1>4, <1>5

LEMMA TailDistinct ==
  ASSUME NEW S, NEW s \in Seq(S), s # <<>>
  PROVE  /\ Head(s) \in S /\ Tail(s) \in Seq(S) /\ Len(Tail(s)) = Len(s) - 1
         /\ ToSet(s) = ToSet(Tail(s)) \cup {Head(s)}
         /\ Distinct(s) => Distinct(Tail(s)) /\ Head(s) \notin ToSet(Tail(s))
<1>1. /\ Head(s) \in S /\ Tail(s) \in Seq(S) /\ Len(Tail(s)) = Len(s) - 1
      /\ \A i \in 1 .. Len(Tail(s)) : Tail(s)[i] = s[i + 1]
  BY HeadTailProperties
<1>2. Len(s) \in Nat \ {0} /\ DOMAIN s = 1 .. Len(s) /\ DOMAIN Tail(s) = 1 .. (Len(s) - 1)
  BY <1>1, LenProperties, EmptySeq
<1>3. Head(s) = s[1]
  OBVIOUS
<1>4. ToSet(s) \subseteq ToSet(Tail(s)) \cup {Head(s)}
  <2> SUFFICES ASSUME NEW i \in 1 .. Len(s), i # 1
               PROVE  s[i] \in ToSet(Tail(s))
    BY <1>2, <1>3 DEF ToSet
  <2>1. i - 1 \in 1 .. (Len(s) - 1) /\ Tail(s)[i - 1] = s[i]
    BY <1>1, <1>2
  <2> QED
    BY <2>1, <1>2 DEF ToSet
<1>5. ToSet(Tail(s)) \cup {Head(s)} \subseteq ToSet(s)
  BY <1>1, <1>2, <1>3 DEF ToSet
<1>6. ASSUME Distinct(s)
      PROVE  Distinct(Tail(s)) /\ Head(s) \notin ToSet(Tail(s))
  <2>1. \A i \in 1 .. (Len(s) - 1) : i + 1 \in 1 .. Len(s) /\ i + 1 # 1 /\ Tail(s)[i] = s[i + 1]
    BY <1>1, <1>2
  <2>2. Distinct(Tail(s))
    BY <2>1, <1>2, <1>6 DEF Distinct
  <2>3. Head(s) \notin ToSet(Tail(s))
    BY <2>1, <1>2, <1>3, <1>6 DEF Distinct, ToSet
  <2> QED
    BY <2>2, <2>3
<1> QED
  BY <1>1, <1>4, <1>5, <1>6

LEMMA EmptyQueue == ToSet(<<>>) = {} /\ Distinct(<<>>) /\ Len(<<>>) = 0 /\ <<>> \in Seq(Tasks)
BY DEF ToSet, Distinct

-----------------------------------------------------------------------------
(* Counting the threads that take care of the queue *)

LEMMA Counts ==
  ASSUME TypeOK
  PROVE  /\ Cardinality(ready) \in Nat /\ Cardinality(notifying) \in Nat
         /\ \A w \in Workers : w \notin ready => Cardinality(ready \cup {w}) = Cardinality(ready) + 1
         /\ \A w \in ready : Cardinality(ready \ {w}) = Cardinality(ready) - 1
         /\ \A c \in Clients \cup Workers :
              c \notin notifying => Cardinality(notifying \cup {c}) = Cardinality(notifying) + 1
         /\ \A c \in notifying : Cardinality(notifying \ {c}) = Cardinality(notifying) - 1
<1>1. IsFiniteSet(ready) /\ IsFiniteSet(notifying)
  BY ThreadAssumption, FS_Union, FS_Subset DEF TypeOK
<1> QED
  BY <1>1, FS_CardinalityType, FS_AddElement, FS_RemoveElement

-----------------------------------------------------------------------------
(* The workers at work *)

\* What Take and Finish do to the set of the workers at work.
LEMMA AtWorkTake ==
  ASSUME NEW w, Take(w)
  PROVE  AtWork' = AtWork \cup {w} /\ Created' = Created
<1>1. \A B, x : {b[1] : b \in B \cup {x}} = {b[1] : b \in B} \cup {x[1]}
  OBVIOUS
<1>2. <<w, Head(queue)>>[1] = w
  OBVIOUS
<1>3. busy' = busy \cup {<<w, Head(queue)>>}
  BY DEF Take
<1>4. AtWork' = AtWork \cup {w}
  BY <1>1, <1>2, <1>3, Zenon DEF AtWork
<1> QED
  BY <1>4 DEF Take, Created

LEMMA AtWorkFinish ==
  ASSUME TypeOK, NEW w, Finish(w)
  PROVE  w \in AtWork /\ AtWork' = AtWork \ {w} /\ Created' = Created
<1>1. PICK b \in busy : b[1] = w /\ busy' = busy \ {b}
  BY DEF Finish
<1>2. w \in AtWork /\ AtWork' = AtWork \ {w}
  BY <1>1 DEF AtWork, TypeOK
<1> QED
  BY <1>2 DEF Finish, Created

-----------------------------------------------------------------------------
(* The type invariant *)

LEMMA TypeStep ==
  ASSUME TypeOK, [Next]_vars
  PROVE  TypeOK'
<1> USE DEF TypeOK, params
<1>1. ASSUME NEW w \in Workers, SpuriousWake(w)
      PROVE  TypeOK'
  BY <1>1 DEF SpuriousWake, Waken, AtWork
<1>2. ASSUME NEW c \in Clients \cup Workers, NEW t \in Tasks, Push(c, t)
      PROVE  TypeOK'
  <2>1. Append(queue, t) \in Seq(Tasks)
    BY AppendDistinct
  <2> QED
    BY <1>2, <2>1 DEF Push, Enqueue, NotifyOne, Waken, AtWork
<1>3. ASSUME NEW c \in Clients \cup Workers, Notify(c)
      PROVE  TypeOK'
  BY <1>3 DEF Notify, NotifyOne, Waken, AtWork
<1>4. ASSUME NEW w \in Workers, Take(w)
      PROVE  TypeOK'
  <2>1. Head(queue) \in Tasks /\ Tail(queue) \in Seq(Tasks)
    BY <1>4, TailDistinct DEF Take
  <2>2. busy' = busy \cup {<<w, Head(queue)>>} /\ w \notin AtWork
    BY <1>4 DEF Take
  <2>3. AtWork' = AtWork \cup {w}
    BY <1>4, AtWorkTake
  <2>4. \A b, c \in busy' : b[1] = c[1] => b = c
    BY <2>2 DEF AtWork
  <2> QED
    BY <1>4, <2>1, <2>2, <2>3, <2>4 DEF Take
<1>5. ASSUME NEW w \in Workers, Wait(w)
      PROVE  TypeOK'
  BY <1>5 DEF Wait, AtWork
<1>6. ASSUME NEW w \in Workers, Exit(w)
      PROVE  TypeOK'
  BY <1>6 DEF Exit, AtWork
<1>7. ASSUME NEW w \in Workers, Finish(w)
      PROVE  TypeOK'
  <2>1. PICK b \in busy : b[1] = w /\ busy' = busy \ {b} /\ ran' = ran \cup {b[2]}
    BY <1>7 DEF Finish
  <2>2. AtWork' = AtWork \ {w} /\ w \in AtWork /\ b[2] \in Tasks
    BY <1>7, <2>1, AtWorkFinish
  <2> QED
    BY <1>7, <2>1, <2>2 DEF Finish
<1>8. ASSUME OwnerStep
      PROVE  TypeOK'
  BY <1>8 DEF OwnerStep, Create, Constructed, Shutdown, NotifyAll, Join, AtWork, Created
<1>9. CASE Closed \/ UNCHANGED vars
  BY <1>9 DEF Closed, vars, AtWork
<1> QED
  BY <1>1, <1>2, <1>3, <1>4, <1>5, <1>6, <1>7, <1>8, <1>9 DEF Next, WorkerStep

-----------------------------------------------------------------------------
(* Notifications *)

LEMMA BacklogStep ==
  ASSUME TypeOK, NoIdleBacklog, [Next]_vars
  PROVE  NoIdleBacklog'
<1> USE DEF NoIdleBacklog, params
<1>1. /\ Cardinality(ready) \in Nat /\ Cardinality(notifying) \in Nat /\ Len(queue) \in Nat
      /\ ready \cap waiting = {} /\ waiting \subseteq Workers
  BY Counts, LenProperties DEF TypeOK
<1>2. ASSUME NEW w \in waiting
      PROVE  Cardinality(ready \cup {w}) = Cardinality(ready) + 1
  BY <1>1, <1>2, Counts
<1>3. ASSUME NotifyOne, NoIdleBacklog
      PROVE  \/ waiting' = {}
             \/ Cardinality(ready') = Cardinality(ready) + 1 /\ waiting # {}
  BY <1>2, <1>3 DEF NotifyOne, Waken
<1>4. ASSUME NEW w \in Workers, SpuriousWake(w)
      PROVE  NoIdleBacklog'
  BY <1>1, <1>2, <1>4 DEF SpuriousWake, Waken
<1>5. ASSUME NEW c \in Clients \cup Workers, NEW t \in Tasks, Push(c, t)
      PROVE  NoIdleBacklog'
  <2>1. Len(Append(queue, t)) = Len(queue) + 1
    BY AppendDistinct DEF TypeOK
  <2>2. c \notin notifying => Cardinality(notifying \cup {c}) = Cardinality(notifying) + 1
    BY Counts
  <2>3. CASE threads = {}
    BY <1>5, <2>3 DEF Push
  <2>4. CASE queue' = Append(queue, t) /\ NotifyOne /\ UNCHANGED notifying
    BY <1>1, <1>3, <2>1, <2>4
  <2>5. CASE queue' = Append(queue, t) /\ notifying' = notifying \cup {c} /\ UNCHANGED <<ready, waiting>>
    BY <1>1, <1>5, <2>1, <2>2, <2>5 DEF Push, MayPush
  <2> QED
    BY <1>5, <2>3, <2>4, <2>5 DEF Push, Enqueue
<1>6. ASSUME NEW c \in Clients \cup Workers, Notify(c)
      PROVE  NoIdleBacklog'
  <2>1. Cardinality(notifying') = Cardinality(notifying) - 1
    BY <1>6, Counts DEF Notify
  <2> QED
    BY <1>1, <1>3, <1>6, <2>1 DEF Notify
<1>7. ASSUME NEW w \in Workers, Take(w)
      PROVE  NoIdleBacklog'
  <2>1. Len(queue') = Len(queue) - 1
    BY <1>7, TailDistinct DEF Take, TypeOK
  <2>2. Cardinality(ready') = Cardinality(ready) - 1
    BY <1>7, Counts DEF Take
  <2> QED
    BY <1>1, <1>7, <2>1, <2>2 DEF Take
<1>8. ASSUME NEW w \in Workers, Wait(w)
      PROVE  NoIdleBacklog'
  <2>1. Len(queue') = 0 /\ notifying' = notifying
    BY <1>8, EmptyQueue DEF Wait
  <2>2. Cardinality(ready') \in Nat
    <3>1. IsFiniteSet(ready') /\ ready' \subseteq Workers
      BY <1>8, ThreadAssumption, FS_Subset DEF Wait, TypeOK
    <3> QED
      BY <3>1, FS_CardinalityType
  <2> QED
    BY <1>1, <2>1, <2>2
<1>9. ASSUME NEW w \in Workers, Exit(w)
      PROVE  NoIdleBacklog'
  <2>1. Len(queue') = 0 /\ notifying' = notifying
    BY <1>9, EmptyQueue DEF Exit
  <2>2. Cardinality(ready') \in Nat
    <3>1. IsFiniteSet(ready') /\ ready' \subseteq Workers
      BY <1>9, ThreadAssumption, FS_Subset DEF Exit, TypeOK
    <3> QED
      BY <3>1, FS_CardinalityType
  <2> QED
    BY <1>1, <2>1, <2>2
<1>10. ASSUME NEW w \in Workers, Finish(w)
       PROVE  NoIdleBacklog'
  <2>1. w \notin ready
    BY <1>10 DEF Finish, TypeOK, AtWork
  <2>2. Cardinality(ready') = Cardinality(ready) + 1
    BY <1>10, <2>1, Counts DEF Finish
  <2> QED
    BY <1>1, <1>10, <2>2 DEF Finish
<1>11. ASSUME NEW w \in Workers, Create(w)
       PROVE  NoIdleBacklog'
  <2>1. Cardinality(ready') = Cardinality(ready) + 1
    BY <1>11, Counts DEF Create, Created
  <2> QED
    BY <1>1, <1>11, <2>1 DEF Create
<1>12. CASE NotifyAll
  BY <1>12 DEF NotifyAll
<1>13. CASE UNCHANGED <<ready, waiting, queue, notifying>>
  BY <1>13
<1> QED
  BY <1>4, <1>5, <1>6, <1>7, <1>8, <1>9, <1>10, <1>11, <1>12, <1>13
     DEF Next, WorkerStep, OwnerStep, Constructed, Shutdown, Join, Closed, vars

-----------------------------------------------------------------------------
(* The life of the pool *)

LEMMA LifecycleStep ==
  ASSUME TypeOK, Lifecycle, [Next]_vars
  PROVE  Lifecycle'
<1> USE DEF Lifecycle, params, Done
<1>1. ASSUME NEW w \in Workers, SpuriousWake(w)
      PROVE  Lifecycle'
  BY <1>1 DEF SpuriousWake, Waken, AtWork, Created
<1>2. ASSUME NEW c \in Clients \cup Workers, NEW t \in Tasks, Push(c, t)
      PROVE  Lifecycle'
  <2>1. AtWork' = AtWork /\ Created' = Created /\ exited' = exited /\ owner' = owner
    BY <1>2 DEF Push, Enqueue, NotifyOne, Waken, AtWork, Created
  <2>2. threads # {} => Created # exited
    BY <1>2 DEF Push, MayPush, TypeOK, Created
  <2>3. threads = {} => queue' = queue
    BY <1>2 DEF Push
  <2>4. notifying' \subseteq notifying \cup {c} /\ (owner # "open" => c \in AtWork)
    BY <1>2 DEF Push, MayPush, Enqueue
  <2>5. owner # "open" => c \notin Clients
    BY <2>4, ThreadAssumption DEF TypeOK, AtWork
  <2>6. c \in Clients \cup AtWork
    BY <1>2 DEF Push, MayPush
  <2>7. waiting' \subseteq waiting
    BY <1>2 DEF Push, Enqueue, NotifyOne, Waken
  <2>8. threads' = threads
    BY <1>2 DEF Push
  <2> QED
    BY <2>1, <2>2, <2>3, <2>4, <2>5, <2>6, <2>7, <2>8
<1>3. ASSUME NEW c \in Clients \cup Workers, Notify(c)
      PROVE  Lifecycle'
  BY <1>3 DEF Notify, NotifyOne, Waken, AtWork, Created
<1>4. ASSUME NEW w \in Workers, Take(w)
      PROVE  Lifecycle'
  <2>1. AtWork' = AtWork \cup {w} /\ Created' = Created /\ Created # exited
    BY <1>4, AtWorkTake DEF Take, TypeOK, Created
  <2> QED
    BY <1>4, <2>1 DEF Take
<1>5. ASSUME NEW w \in Workers, Wait(w)
      PROVE  Lifecycle'
  BY <1>5 DEF Wait, AtWork, Created
<1>6. ASSUME NEW w \in Workers, Exit(w)
      PROVE  Lifecycle'
  BY <1>6 DEF Exit, AtWork, Created
<1>7. ASSUME NEW w \in Workers, Finish(w)
      PROVE  Lifecycle'
  <2>1. AtWork' = AtWork \ {w} /\ Created' = Created
    BY <1>7, AtWorkFinish
  <2> QED
    BY <1>7, <2>1 DEF Finish
<1>8. ASSUME OwnerStep
      PROVE  Lifecycle'
  BY <1>8 DEF OwnerStep, Create, Constructed, Shutdown, NotifyAll, Join, AtWork, Created
<1>9. CASE Closed \/ UNCHANGED vars
  BY <1>9 DEF Closed, vars, AtWork, Created
<1> QED
  BY <1>1, <1>2, <1>3, <1>4, <1>5, <1>6, <1>7, <1>8, <1>9 DEF Next, WorkerStep

-----------------------------------------------------------------------------
(* Where the tasks are *)

LEMMA OnePlaceStep ==
  ASSUME TypeOK, OnePlace, [Next]_vars
  PROVE  OnePlace'
<1> USE DEF OnePlace, params
<1>1. ASSUME NEW c \in Clients \cup Workers, NEW t \in Tasks, Push(c, t)
      PROVE  OnePlace'
  <2>1. /\ t \notin ToSet(queue) \cup ran /\ \A b \in busy : b[2] # t
        /\ pushed' = pushed \cup {t} /\ busy' = busy
    BY <1>1 DEF Push
  <2>2. /\ ToSet(Append(queue, t)) = ToSet(queue) \cup {t}
        /\ Distinct(Append(queue, t))
    BY <2>1, AppendDistinct DEF TypeOK
  <2>3. CASE queue' = queue /\ ran' = ran \cup {t}
    BY <2>1, <2>3
  <2>4. CASE queue' = Append(queue, t) /\ ran' = ran
    BY <2>1, <2>2, <2>4
  <2> QED
    BY <1>1, <2>3, <2>4 DEF Push, Enqueue
<1>2. ASSUME NEW w \in Workers, Take(w)
      PROVE  OnePlace'
  <2> DEFINE t == Head(queue)
  <2>1. /\ ToSet(queue) = ToSet(queue') \cup {t} /\ t \notin ToSet(queue')
        /\ Distinct(queue')
    BY <1>2, TailDistinct DEF Take, TypeOK
  <2>2. busy' = busy \cup {<<w, t>>} /\ pushed' = pushed /\ ran' = ran
    BY <1>2 DEF Take
  <2> HIDE DEF t
  <2>3. {b[2] : b \in busy'} = {b[2] : b \in busy} \cup {t}
    <3>1. \A B, x : {b[2] : b \in B \cup {x}} = {b[2] : b \in B} \cup {x[2]}
      OBVIOUS
    <3>2. <<w, t>>[2] = t
      OBVIOUS
    <3> QED
      BY <2>2, <3>1, <3>2, Zenon
  <2>4. t \notin ran /\ \A b \in busy : b[2] # t
    BY <2>1
  <2>5. \A b, c \in busy' : b[2] = c[2] => b = c
    BY <2>2, <2>4
  <2>6. \A b \in busy' : b[2] \notin ToSet(queue') \cup ran'
    BY <2>1, <2>2, <2>4
  <2> QED
    BY <2>1, <2>2, <2>3, <2>4, <2>5, <2>6
<1>3. ASSUME NEW w \in Workers, Finish(w)
      PROVE  OnePlace'
  <2>1. PICK b \in busy : busy' = busy \ {b} /\ ran' = ran \cup {b[2]}
    BY <1>3 DEF Finish
  <2>2. queue' = queue /\ pushed' = pushed
    BY <1>3 DEF Finish
  <2> QED
    BY <2>1, <2>2
<1>4. CASE UNCHANGED <<queue, busy, pushed, ran>>
  BY <1>4
<1> QED
  BY <1>1, <1>2, <1>3, <1>4
     DEF Next, WorkerStep, OwnerStep, SpuriousWake, Notify, Wait, Exit, Create, Constructed,
         Shutdown, NotifyAll, Join, Closed, vars

\* Once all the workers have left, nothing is left for anybody.
LEMMA ClosedStep ==
  ASSUME TypeOK, OnePlace, Lifecycle, ClosedIsQuiet, [Next]_vars
  PROVE  ClosedIsQuiet'
<1>1. ASSUME Created = exited
      PROVE  ready = {} /\ waiting = {} /\ AtWork = {} /\ busy = {} /\ queue = <<>>
  BY <1>1 DEF Created, TypeOK, Lifecycle, AtWork
<1>2. CASE Join
  <2>1. owner # "open" /\ Created = exited
    BY <1>2 DEF Join
  <2>2. pushed = ran
    BY <1>1, <2>1, EmptyQueue DEF OnePlace
  <2>3. notifying = {}
    BY <1>1, <2>1 DEF Lifecycle
  <2> QED
    BY <1>2, <2>1, <2>2, <2>3 DEF Join, ClosedIsQuiet, Created, AtWork
<1>3. CASE owner # "closed" /\ ~Join
  BY <1>3 DEF ClosedIsQuiet, Next, WorkerStep, OwnerStep, SpuriousWake, Push, Notify, Take, Wait,
              Exit, Finish, Create, Constructed, Shutdown, NotifyAll, Closed, vars, params
<1>4. CASE owner = "closed"
  <2>1. ready = {} /\ waiting = {} /\ busy = {} /\ AtWork = {} /\ queue = <<>> /\ notifying = {}
    BY <1>1, <1>4 DEF ClosedIsQuiet
  <2>2. UNCHANGED vars
    BY <1>4, <2>1 DEF Next, WorkerStep, OwnerStep, SpuriousWake, Push, MayPush, Notify, Take, Wait,
                      Exit, Finish, Create, Constructed, Shutdown, NotifyAll, Join, Closed
  <2> QED
    BY <2>2 DEF ClosedIsQuiet, vars, Created, AtWork
<1> QED
  BY <1>2, <1>3, <1>4

-----------------------------------------------------------------------------
(* The theorems *)

LEMMA InvInit == Init => IInv
<1> SUFFICES ASSUME Init PROVE IInv
  OBVIOUS
<1>1. TypeOK /\ NoIdleBacklog /\ OnePlace
  BY EmptyQueue DEF Init, TypeOK, NoIdleBacklog, OnePlace, AtWork
<1>2. ClosedIsQuiet /\ Lifecycle
  BY DEF Init, ClosedIsQuiet, Lifecycle, Created, AtWork, Done
<1> QED
  BY <1>1, <1>2 DEF IInv

LEMMA InvStep == IInv /\ [Next]_vars => IInv'
BY TypeStep, BacklogStep, OnePlaceStep, ClosedStep, LifecycleStep DEF IInv

THEOREM Invariance == Spec => []IInv
BY InvInit, InvStep, PTL DEF Spec

\* A worker is in one state and runs one task.
THEOREM TypeCorrect == Spec => []TypeOK
<1>1. IInv => TypeOK
  BY DEF IInv
<1> QED
  BY <1>1, Invariance, PTL

\* No notification is lost, however many workers wait and clients push, and
\* whichever side of the mutex notify_one() is on.
THEOREM NoNotificationLost == Spec => []NoIdleBacklog
<1>1. IInv => NoIdleBacklog
  BY DEF IInv
<1> QED
  BY <1>1, Invariance, PTL

\* No task is lost or run twice.
THEOREM TasksKept == Spec => []OnePlace
<1>1. IInv => OnePlace
  BY DEF IInv
<1> QED
  BY <1>1, Invariance, PTL

\* A closed pool has run everything and left no thread behind.
THEOREM NothingLeftBehind == Spec => []ClosedIsQuiet
<1>1. IInv => ClosedIsQuiet
  BY DEF IInv
<1> QED
  BY <1>1, Invariance, PTL

=============================================================================
