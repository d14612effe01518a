--------------------------- MODULE Desktop_proof ---------------------------
(***************************************************************************)
(* Theorems about the desktop program, for every set of nodes and values,  *)
(* every view, every limit of the stacks and every reply of the daemon.    *)
(*                                                                         *)
(* What the screen shows after a call depends on assignments the call has  *)
(* still to make: the properties hold when it is over, the invariants say  *)
(* what is on the way before.                                              *)
(***************************************************************************)
EXTENDS Desktop, TLAPS, SequenceTheorems, WellFoundedInduction

-----------------------------------------------------------------------------
(* The inductive invariant *)

\* The nodes that are assigned in a call that is not over, and to what.
Pending == ToSet(todo)

\* What is still to be assigned to n, if anything is, leaves v there.
Leads(n, v) == /\ \A s \in Pending : s.node = n => s.value = v
               /\ value[n] = v \/ \E s \in Pending : s.node = n

\* Changes that an action may consist of.
Undoables == {c \in Changes : c.node \in Actionable}

\* The model's variables, more precisely than their type says: what can be undone is
\* actionable, what is remembered persistent, and there is something to assign in a
\* call only.
ModelShape ==
  /\ value = [n \in Nodes |-> value[n]] /\ settings = [n \in Nodes |-> settings[n]]
  /\ \A n \in Nodes : value[n] \in Values[n] /\ settings[n] \in Values[n] \cup {Absent}
  /\ undoStack \in Seq(Seq(Undoables)) /\ Len(undoStack) <= Limit
  /\ redoStack \in Seq(Seq(Undoables)) /\ Len(redoStack) <= Limit
  /\ active \in Seq(Seq(Undoables)) /\ Len(active) <= 1
  /\ {ignoring, initialized, straight} \subseteq BOOLEAN
  /\ call.op \in {"none", "set", "initialize", "undo", "redo"} /\ call.action \in Seq(Undoables)
  /\ todo \in Seq(Sets)
  /\ call.op = "none" => call = NoCall
  /\ call = NoCall => todo = <<>>
  /\ call.op = "initialize" => ~initialized
  /\ \A n \in Nodes \ Persistent : settings[n] = Absent

\* initialize() has still to assign what it read, where it is not there yet.
SettingsInv ==
  /\ SettingsMirror
  /\ call.op = "initialize" => \A n \in Persistent : Leads(n, Stored(n))

\* What the last answer makes of the nodes of the results.
Expected(n) == IF n = "result_count" THEN Len(answer) ELSE answer

\* Without an assignment to "input" on the way, the nodes of the results end up with the
\* last answer.  On the way, that assignment is the only one of setValue(), or initialize()
\* has still to clear the results or find them cleared.
ResultsInv ==
  /\ (\A s \in Pending : s.node # "input") => \A n \in Results : Leads(n, Expected(n))
  /\ \A s \in Pending : s.node = "input" /\ s.value # "" =>
       todo = <<s>> /\ \A n \in Results : value[n] = Expected(n)
  /\ \A s \in Pending : s.node = "input" /\ s.value = "" =>
       \A n \in Results :
         /\ \A t \in Pending : t.node = n => t.value = Default[n]
         /\ value[n] \in {Expected(n), Default[n]} \/ \E t \in Pending : t.node = n
  /\ value["input"] = "" => answer = <<>>
  /\ searching => value["input"] # "" /\ call # NoCall /\ todo = <<>>

\* While Outputs come or go there is no call, and one of the worker's nodes only may
\* change between the listener's call and its registration.
ViewInv ==
  /\ shown = [o \in Outputs |-> shown[o]]
  /\ phase # "run" => call = NoCall
  /\ halfway # Unset =>
       /\ phase = "load" /\ halfway \notin listening
       /\ shown[halfway] = value[halfway] \/ halfway \in Status
  /\ phase \in {"leave", "join", "ended"} => listening = {}

IInv == TypeOK /\ ModelShape /\ SettingsInv /\ ResultsInv /\ ViewInv /\ ShownIsCurrent

-----------------------------------------------------------------------------
(* Sequences *)

LEMMA ToSetTail ==
  ASSUME NEW S, NEW s \in Seq(S), s # <<>>
  PROVE  /\ Head(s) \in S /\ Tail(s) \in Seq(S)
         /\ ToSet(s) = {Head(s)} \cup ToSet(Tail(s))
<1>1. /\ Head(s) = s[1] /\ Head(s) \in S /\ Tail(s) \in Seq(S)
      /\ Len(s) \in Nat \ {0} /\ Len(Tail(s)) = Len(s) - 1
      /\ \A i \in 1 .. Len(Tail(s)) : Tail(s)[i] = s[i + 1]
  OBVIOUS
<1>2. \A i \in 1 .. Len(s) : i = 1 \/ i - 1 \in 1 .. Len(Tail(s))
  BY <1>1
<1>3. DOMAIN s = 1 .. Len(s) /\ DOMAIN Tail(s) = 1 .. Len(Tail(s))
  BY <1>1, LenProperties
<1>4. ASSUME NEW i \in 1 .. Len(s)
      PROVE  s[i] \in {Head(s)} \cup ToSet(Tail(s))
  <2>1. CASE i = 1
    BY <1>1, <2>1
  <2>2. CASE i - 1 \in 1 .. Len(Tail(s))
    <3>1. s[i] = Tail(s)[i - 1]
      BY <1>1, <2>2
    <3> QED BY <1>3, <2>2, <3>1 DEF ToSet
  <2> QED BY <1>2, <2>1, <2>2
<1>5. ASSUME NEW i \in 1 .. Len(Tail(s))
      PROVE  Tail(s)[i] \in ToSet(s)
  BY <1>1, <1>3 DEF ToSet
<1> QED BY <1>1, <1>3, <1>4, <1>5 DEF ToSet

LEMMA ToSetConcat ==
  ASSUME NEW S, NEW s \in Seq(S), NEW t \in Seq(S)
  PROVE  s \o t \in Seq(S) /\ ToSet(s \o t) = ToSet(s) \cup ToSet(t)
<1>1. /\ s \o t \in Seq(S) /\ Len(s \o t) = Len(s) + Len(t)
      /\ Len(s) \in Nat /\ Len(t) \in Nat
      /\ \A i \in 1 .. Len(s) : (s \o t)[i] = s[i]
      /\ \A i \in 1 .. Len(t) : (s \o t)[Len(s) + i] = t[i]
  OBVIOUS
<1>2. /\ DOMAIN s = 1 .. Len(s) /\ DOMAIN t = 1 .. Len(t)
      /\ DOMAIN (s \o t) = 1 .. Len(s \o t)
  BY <1>1, LenProperties
<1>3. ASSUME NEW i \in 1 .. Len(s \o t)
      PROVE  (s \o t)[i] \in ToSet(s) \cup ToSet(t)
  <2>1. CASE i \in 1 .. Len(s)
    BY <1>1, <1>2, <2>1 DEF ToSet
  <2>2. CASE i - Len(s) \in 1 .. Len(t)
    <3>1. (s \o t)[i] = t[i - Len(s)]
      BY <1>1, <2>2
    <3> QED BY <1>2, <2>2, <3>1 DEF ToSet
  <2> QED BY <1>1, <2>1, <2>2
<1>4. \A i \in 1 .. Len(s) : s[i] \in ToSet(s \o t)
  BY <1>1, <1>2 DEF ToSet
<1>5. \A i \in 1 .. Len(t) : t[i] \in ToSet(s \o t)
  <2> TAKE i \in 1 .. Len(t)
  <2>1. Len(s) + i \in 1 .. Len(s \o t)
    BY <1>1
  <2> QED BY <1>1, <1>2, <2>1 DEF ToSet
<1> QED BY <1>1, <1>2, <1>3, <1>4, <1>5, ZenonT(60) DEF ToSet

LEMMA ToSetFour ==
  ASSUME NEW a, NEW b, NEW c, NEW d
  PROVE  ToSet(<<a, b, c, d>>) = {a, b, c, d}
<1>1. DOMAIN <<a, b, c, d>> = 1 .. 4
  OBVIOUS
<1> QED BY <1>1 DEF ToSet

LEMMA ToSetOne == ToSet(<<>>) = {} /\ \A x : ToSet(<<x>>) = {x}
BY DEF ToSet

LEMMA ElementsTyped == \A S : \A s \in Seq(S) : ToSet(s) \subseteq S
BY ElementOfSeq, LenProperties DEF ToSet

\* A push keeps the stack within its limit, and the elements are those it had.
LEMMA LimitedPush ==
  ASSUME NEW S, NEW s \in Seq(S), Len(s) <= Limit, NEW x \in S
  PROVE  /\ Limited(Append(s, x)) \in Seq(S)
         /\ Len(Limited(Append(s, x))) <= Limit
<1>1. Limit \in Nat \ {0} /\ Len(s) \in Nat
  BY LimitAssumption
<1>2. /\ Append(s, x) \in Seq(S) /\ Len(Append(s, x)) = Len(s) + 1
      /\ Append(s, x) # <<>>
  OBVIOUS
<1>3. /\ Tail(Append(s, x)) \in Seq(S)
      /\ Len(Tail(Append(s, x))) = Len(s)
  BY <1>1, <1>2
<1> QED BY <1>1, <1>2, <1>3 DEF Limited

LEMMA FrontLast ==
  ASSUME NEW S, NEW s \in Seq(S), s # <<>>
  PROVE  /\ Last(s) \in S /\ Front(s) \in Seq(S) /\ Len(Front(s)) = Len(s) - 1
<1>1. Len(s) \in Nat \ {0} /\ \A i \in 1 .. Len(s) : s[i] \in S
  OBVIOUS
<1>2. /\ SubSeq(s, 1, Len(s) - 1) \in Seq(S)
      /\ Len(SubSeq(s, 1, Len(s) - 1)) = Len(s) - 1
  BY <1>1, SubSeqProperties, SMTT(30)
<1> QED BY <1>1, <1>2 DEF Last, Front

-----------------------------------------------------------------------------
(* The model *)

Assignables == {s \in Sets : s.node \in Actionable}

LEMMA SetsAre ==
  /\ \A s \in Sets : s.node \in Nodes /\ s.value \in Values[s.node]
  /\ \A n \in Nodes : \A v \in Values[n] :
       Set(n, v) \in Sets /\ Set(n, v).node = n /\ Set(n, v).value = v
BY DEF Sets, Set

LEMMA UndoablesAre ==
  /\ Undoables \subseteq Changes
  /\ \A c \in Undoables : /\ c.node \in Actionable /\ c.node \in Nodes
                          /\ c.old \in Values[c.node] /\ c.new \in Values[c.node]
  /\ \A n \in Actionable : \A v, w \in Values[n] : Change(n, v, w) \in Undoables
BY NodesAssumption DEF Undoables, Changes, Change

\* Actions are played back as assignments to actionable nodes.
LEMMA PlayedBack ==
  ASSUME NEW action \in Seq(Undoables)
  PROVE  /\ Backward(action) \in Seq(Assignables)
         /\ Forward(action) \in Seq(Assignables)
<1>1. Len(action) \in Nat /\ \A i \in 1 .. Len(action) : action[i] \in Undoables
  OBVIOUS
<1>2. \A c \in Undoables : Set(c.node, c.old) \in Assignables /\ Set(c.node, c.new) \in Assignables
  BY SetsAre, UndoablesAre DEF Assignables
<1>3. \A i \in 1 .. Len(action) : Len(action) + 1 - i \in 1 .. Len(action)
  BY <1>1
<1>4. Backward(action) \in [1 .. Len(action) -> Assignables]
  BY <1>1, <1>2, <1>3 DEF Backward
<1>5. Forward(action) \in [1 .. Len(action) -> Assignables]
  BY <1>1, <1>2 DEF Forward
<1> QED BY <1>1, <1>4, <1>5, SeqDef

LEMMA SeqMono == \A S, T : S \subseteq T => Seq(S) \subseteq Seq(T)
BY SeqMonotonic

LEMMA ShapeType == ModelShape => ModelTypeOK
<1> SUFFICES ASSUME ModelShape PROVE ModelTypeOK
  OBVIOUS
<1>1. Seq(Undoables) \subseteq Seq(Changes)
  BY SeqMono, UndoablesAre
<1>2. ToSet(undoStack) \cup ToSet(redoStack) \cup ToSet(active) \subseteq Seq(Undoables)
  BY ElementsTyped DEF ModelShape
<1> QED BY <1>1, <1>2 DEF ModelShape, ModelTypeOK

\* What an assignment does to the node and to the settings.
LEMMA AssignValue ==
  ASSUME ModelShape, SettingsMirror, NEW n \in Nodes, NEW v \in Values[n], Assign(n, v)
  PROVE  /\ value' = [value EXCEPT ![n] = v]
         /\ settings' = [m \in Nodes |-> settings'[m]]
         /\ \A m \in Nodes : settings'[m] \in Values[m] \cup {Absent}
         /\ \A m \in Nodes \ {n} : settings'[m] = settings[m]
         /\ n \notin Persistent \/ ~initialized => settings' = settings
         /\ n \in Persistent /\ initialized => Stored(n)' = v
<1>0. /\ value = [m \in Nodes |-> value[m]] /\ settings = [m \in Nodes |-> settings[m]]
      /\ \A m \in Nodes : settings[m] \in Values[m] \cup {Absent}
      /\ v # Absent
  BY NodesAssumption DEF ModelShape
<1>1. CASE value[n] = v /\ UNCHANGED <<value, settings>>
  BY <1>0, <1>1 DEF SettingsMirror, Stored
<1>2. CASE value' = [value EXCEPT ![n] = v] /\ Store(n, v)
  BY <1>0, <1>2 DEF Store, Stored
<1> QED BY <1>1, <1>2 DEF Assign

\* What it does to the stacks.
LEMMA AssignStacks ==
  ASSUME ModelShape, NEW n \in Nodes, NEW v \in Values[n], Assign(n, v)
  PROVE  /\ undoStack' \in Seq(Seq(Undoables)) /\ Len(undoStack') <= Limit
         /\ active' \in Seq(Seq(Undoables)) /\ Len(active') <= 1
         /\ straight' \in BOOLEAN
<1>0. /\ undoStack \in Seq(Seq(Undoables)) /\ Len(undoStack) <= Limit
      /\ active \in Seq(Seq(Undoables)) /\ Len(active) <= 1
      /\ straight \in BOOLEAN /\ value[n] \in Values[n]
  BY DEF ModelShape
<1>1. CASE UNCHANGED <<active, undoStack, straight>>
  BY <1>0, <1>1
<1>2. CASE n \in Actionable /\ straight' = (straight /\ redoStack = <<>>)
            /\ \/ active # <<>> /\ active' = <<Append(active[1], Change(n, value[n], v))>>
                    /\ UNCHANGED undoStack
               \/ active = <<>> /\ undoStack' = Limited(Append(undoStack, <<Change(n, value[n], v)>>))
                    /\ UNCHANGED active
  <2>1. Change(n, value[n], v) \in Undoables
    BY <1>0, <1>2, UndoablesAre
  <2>2. <<Change(n, value[n], v)>> \in Seq(Undoables)
    BY <2>1
  <2>3. CASE active # <<>> /\ active' = <<Append(active[1], Change(n, value[n], v))>> /\ UNCHANGED undoStack
    <3>1. active[1] \in Seq(Undoables)
      BY <1>0, <2>3
    <3> HIDE DEF Undoables
    <3>2. Append(active[1], Change(n, value[n], v)) \in Seq(Undoables)
      BY <2>1, <3>1, AppendProperties
    <3> QED BY <1>0, <1>2, <2>3, <3>2
  <2>4. CASE active = <<>> /\ undoStack' = Limited(Append(undoStack, <<Change(n, value[n], v)>>))
              /\ UNCHANGED active
    BY <1>0, <1>2, <2>2, <2>4, LimitedPush
  <2> QED BY <1>2, <2>3, <2>4
<1> QED BY <1>1, <1>2 DEF Assign, Record

LEMMA AppendOne ==
  ASSUME NEW S, NEW s \in Seq(S), NEW t \in Seq(S), Len(t) <= 1, t # <<>>
  PROVE  t[1] \in S /\ s \o t = Append(s, t[1])
<1>1. Len(t) = 1 /\ t[1] \in S /\ Len(s) \in Nat
  <2>1. Len(t) \in Nat \ {0} /\ Len(s) \in Nat
    BY EmptySeq, LenProperties
  <2> DEFINE k == Len(t)
  <2>4. k \in Nat \ {0} /\ k <= 1
    BY <2>1
  <2> HIDE DEF k
  <2>5. k = 1
    BY <2>4
  <2>2. Len(t) = 1
    BY <2>5 DEF k
  <2>3. t[1] \in S
    BY <2>2, ElementOfSeq
  <2> QED BY <2>1, <2>2, <2>3
<1>2. s \o t \in Seq(S) /\ Append(s, t[1]) \in Seq(S)
  BY <1>1
<1>3. Len(s \o t) = Len(s) + 1 /\ Len(Append(s, t[1])) = Len(s) + 1
  BY <1>1, ConcatProperties, AppendProperties, SMTT(30)
<1>4. ASSUME NEW i \in 1 .. Len(s \o t)
      PROVE  (s \o t)[i] = Append(s, t[1])[i]
  <2>1. CASE i \in 1 .. Len(s)
    BY <1>1, <1>3, <2>1, ConcatProperties, AppendProperties
  <2>2. CASE i = Len(s) + 1
    <3>1. (s \o t)[i] = t[i - Len(s)]
      BY <1>1, <1>3, <2>2, ConcatProperties
    <3>2. Append(s, t[1])[i] = t[1]
      BY <1>1, <2>2, AppendProperties
    <3>3. i - Len(s) = 1
      BY <1>1, <2>2
    <3> QED BY <3>1, <3>2, <3>3
  <2> QED BY <1>1, <1>3, <2>1, <2>2
<1> QED BY <1>1, <1>2, <1>3, <1>4, SeqEqual

LEMMA EndedType ==
  ASSUME ModelShape
  PROVE  Ended \in Seq(Seq(Undoables)) /\ Len(Ended) <= Limit
<1>0. /\ undoStack \in Seq(Seq(Undoables)) /\ Len(undoStack) <= Limit
      /\ active \in Seq(Seq(Undoables)) /\ Len(active) <= 1
  BY DEF ModelShape
<1>1. CASE active = <<>>
  BY <1>0, <1>1 DEF Ended
<1>2. CASE active # <<>>
  <2>1. active[1] \in Seq(Undoables) /\ undoStack \o active = Append(undoStack, active[1])
    BY <1>0, <1>2, AppendOne
  <2> QED BY <1>0, <1>2, <2>1, LimitedPush DEF Ended
<1> QED BY <1>1, <1>2

-----------------------------------------------------------------------------
(* The calls of the model keep its shape *)

LEMMA LimitedFront ==
  ASSUME NEW S, NEW s \in Seq(S), Len(s) <= Limit, s # <<>>
  PROVE  Last(s) \in S /\ Front(s) \in Seq(S) /\ Len(Front(s)) <= Limit
<1>1. Len(s) \in Nat /\ Limit \in Nat
  BY LimitAssumption
<1> QED BY <1>1, FrontLast

LEMMA NoActionTyped == <<>> \in Seq(Undoables) /\ <<>> \in Seq(Sets)
OBVIOUS

LEMMA SetValueShape ==
  ASSUME ModelShape, NEW n \in Nodes, NEW v \in Values[n], SetValue(n, v)
  PROVE  ModelShape'
<1>1. <<Set(n, v)>> \in Seq(Sets)
  BY SetsAre
<1> HIDE DEF Undoables
<1> QED BY <1>1, NoActionTyped DEF ModelShape, SetValue, Begin, NoCall, stacks, flags

LEMMA InitializeShape ==
  ASSUME ModelShape, Initialize
  PROVE  /\ ModelShape' /\ call'.op = "initialize"
         /\ Pending' = {Set(n, Stored(n)) : n \in Nodes}
<1> DEFINE sets == [i \in 1 .. Len(Order) |-> Set(Order[i], Stored(Order[i]))]
<1>1. \A n \in Nodes : Set(n, Stored(n)) \in Sets
  BY NodesAssumption, SetsAre DEF ModelShape, Stored
<1>2. Order \in Seq(Nodes) /\ Len(Order) \in Nat /\ DOMAIN Order = 1 .. Len(Order)
  BY NodesAssumption, LenProperties
<1>3. sets \in [1 .. Len(Order) -> Sets]
  BY <1>1, <1>2
<1>4. sets \in Seq(Sets)
  BY <1>2, <1>3, SeqDef
<1>5. ToSet(sets) = {Set(n, Stored(n)) : n \in Nodes}
  BY <1>2, NodesAssumption DEF ToSet
<1>6. todo' = sets /\ call' = [op |-> "initialize", action |-> <<>>]
  BY DEF Initialize, Begin
<1>7. ModelShape'
  <2> HIDE DEF sets
  <2> QED BY <1>4, <1>6, NoActionTyped DEF ModelShape, Initialize, Begin, NoCall, stacks, flags
<1> QED BY <1>5, <1>6, <1>7 DEF Pending

LEMMA ActionShape ==
  ASSUME ModelShape, StartAction \/ EndAction
  PROVE  ModelShape'
<1>1. CASE StartAction
  <2>1. << <<>> >> \in Seq(Seq(Undoables)) /\ Len(<< <<>> >>) = 1
    BY NoActionTyped
  <2> QED BY <1>1, <2>1 DEF ModelShape, StartAction, flags
<1>2. CASE EndAction
  BY <1>2, EndedType DEF ModelShape, EndAction, flags
<1> QED BY <1>1, <1>2

LEMMA UndoRedoShape ==
  ASSUME ModelShape, Undo \/ Redo
  PROVE  ModelShape' /\ Pending' \subseteq Assignables /\ call'.op \in {"undo", "redo"}
<1>0. Assignables \subseteq Sets
  BY DEF Assignables
<1>1. CASE Undo
  <2>1. Last(Ended) \in Seq(Undoables) /\ Front(Ended) \in Seq(Seq(Undoables))
          /\ Len(Front(Ended)) <= Limit
    <3>1. Ended \in Seq(Seq(Undoables)) /\ Len(Ended) <= Limit /\ Ended # <<>>
      BY <1>1, EndedType DEF Undo
    <3> QED BY <3>1, LimitedFront
  <2>2. Backward(Last(Ended)) \in Seq(Assignables)
    BY <2>1, PlayedBack
  <2>3. Backward(Last(Ended)) \in Seq(Sets) /\ ToSet(Backward(Last(Ended))) \subseteq Assignables
    BY <1>0, <2>2, SeqMono, ElementsTyped
  <2> QED BY <1>1, <2>1, <2>3 DEF ModelShape, Undo, Begin, NoCall, Pending
<1>2. CASE Redo
  <2>0. redoStack \in Seq(Seq(Undoables)) /\ Len(redoStack) <= Limit
    BY DEF ModelShape
  <2>1. Last(redoStack) \in Seq(Undoables) /\ Front(redoStack) \in Seq(Seq(Undoables))
          /\ Len(Front(redoStack)) <= Limit
    BY <1>2, <2>0, LimitedFront DEF Redo
  <2>2. Forward(Last(redoStack)) \in Seq(Assignables)
    BY <2>1, PlayedBack
  <2>3. Forward(Last(redoStack)) \in Seq(Sets) /\ ToSet(Forward(Last(redoStack))) \subseteq Assignables
    BY <1>0, <2>2, SeqMono, ElementsTyped
  <2> QED BY <1>2, <2>1, <2>3 DEF ModelShape, Redo, Begin, NoCall, Pending
<1> QED BY <1>1, <1>2

\* An assignment, by the main thread in a call or by the worker.
LEMMA AssignShape ==
  ASSUME ModelShape, SettingsMirror, NEW n \in Nodes, NEW v \in Values[n], Assign(n, v),
         UNCHANGED <<redoStack, flags, call>>, todo' \in Seq(Sets), call = NoCall => todo' = todo
  PROVE  ModelShape'
<1>1. /\ value' = [value EXCEPT ![n] = v]
      /\ settings' = [m \in Nodes |-> settings'[m]]
      /\ \A m \in Nodes : settings'[m] \in Values[m] \cup {Absent}
      /\ \A m \in Nodes \ {n} : settings'[m] = settings[m]
      /\ n \notin Persistent \/ ~initialized => settings' = settings
  BY AssignValue
<1>2. /\ value' = [m \in Nodes |-> value'[m]]
      /\ \A m \in Nodes : value'[m] \in Values[m]
  BY <1>1 DEF ModelShape
<1>3. \A m \in Nodes \ Persistent : settings'[m] = Absent
  BY <1>1 DEF ModelShape
<1> QED BY <1>1, <1>2, <1>3, AssignStacks DEF ModelShape, flags

LEMMA ReturnShape ==
  ASSUME ModelShape, Return
  PROVE  ModelShape'
<1>0. /\ call.action \in Seq(Undoables)
      /\ undoStack \in Seq(Seq(Undoables)) /\ Len(undoStack) <= Limit
      /\ redoStack \in Seq(Seq(Undoables)) /\ Len(redoStack) <= Limit
  BY DEF ModelShape
<1>1. /\ Limited(Append(undoStack, call.action)) \in Seq(Seq(Undoables))
      /\ Len(Limited(Append(undoStack, call.action))) <= Limit
      /\ Limited(Append(redoStack, call.action)) \in Seq(Seq(Undoables))
      /\ Len(Limited(Append(redoStack, call.action))) <= Limit
  BY <1>0, LimitedPush
<1>2. undoStack' \in {undoStack, Limited(Append(undoStack, call.action))}
  BY DEF Return
<1>3. redoStack' \in {redoStack, Limited(Append(redoStack, call.action))}
  BY DEF Return
<1>4. ignoring' \in BOOLEAN /\ initialized' \in BOOLEAN
  BY DEF Return, ModelShape, flags
<1>5. call' = NoCall /\ todo' = <<>> /\ UNCHANGED <<value, settings, active, straight>>
  BY DEF Return
<1>6. NoCall.op = "none" /\ NoCall.action \in Seq(Undoables)
  BY NoActionTyped DEF NoCall
<1>7. /\ undoStack' \in Seq(Seq(Undoables)) /\ Len(undoStack') <= Limit
      /\ redoStack' \in Seq(Seq(Undoables)) /\ Len(redoStack') <= Limit
  BY <1>0, <1>1, <1>2, <1>3
<1> QED BY <1>4, <1>5, <1>6, <1>7, NoActionTyped DEF ModelShape

LEMMA ConstructedTyped ==
  /\ Constructed = [n \in Nodes |-> Constructed[n]]
  /\ \A n \in Nodes : Constructed[n] \in Values[n]
  /\ \A n \in Nodes \ {"daemon_count"} : Constructed[n] = Default[n]
BY NodesAssumption, DesktopAssumption, ValuesAssumption DEF Constructed

LEMMA EmptyStack == <<>> \in Seq(Seq(Undoables)) /\ Len(<<>>) = 0
OBVIOUS

LEMMA RestartShape ==
  ASSUME ModelShape, Restart(Constructed)
  PROVE  ModelShape'
<1>1. NoCall.op = "none" /\ NoCall.action \in Seq(Undoables)
  BY NoActionTyped DEF NoCall
<1>2. 0 <= Limit /\ 0 <= 1 /\ {TRUE, FALSE} \subseteq BOOLEAN
  BY LimitAssumption
<1>3. /\ value' = Constructed /\ UNCHANGED settings
      /\ active' = <<>> /\ undoStack' = <<>> /\ redoStack' = <<>> /\ todo' = <<>>
      /\ ignoring' = TRUE /\ initialized' = FALSE /\ straight' = TRUE /\ call' = NoCall
  BY DEF Restart
<1> QED BY <1>1, <1>2, <1>3, NoActionTyped, EmptyStack, ConstructedTyped DEF ModelShape

LEMMA InitShape == ModelInit(Constructed) => ModelShape
<1> SUFFICES ASSUME ModelInit(Constructed) PROVE ModelShape
  OBVIOUS
<1>1. NoCall.op = "none" /\ NoCall.action \in Seq(Undoables)
  BY NoActionTyped DEF NoCall
<1>2. 0 <= Limit /\ 0 <= 1 /\ {TRUE, FALSE} \subseteq BOOLEAN
  BY LimitAssumption
<1>3. /\ value = Constructed /\ settings = [n \in Nodes |-> Absent]
      /\ active = <<>> /\ undoStack = <<>> /\ redoStack = <<>> /\ todo = <<>>
      /\ ignoring = TRUE /\ initialized = FALSE /\ straight = TRUE /\ call = NoCall
  BY DEF ModelInit
<1> QED BY <1>1, <1>2, <1>3, NoActionTyped, EmptyStack, ConstructedTyped DEF ModelShape

-----------------------------------------------------------------------------
(* The steps that touch the model *)

LEMMA ClearedIs ==
  /\ Cleared \in Seq(Sets)
  /\ \A s \in ToSet(Cleared) : s.node \in Results /\ s.value = Default[s.node]
  /\ \A n \in Results : \E s \in ToSet(Cleared) : s.node = n
<1>1. /\ Results \subseteq Nodes
      /\ \A n \in Results \ {"result_count"} : Default[n] = <<>>
      /\ Default["result_count"] = 0 /\ \A n \in Nodes : Default[n] \in Values[n]
  BY DesktopAssumption, ValuesAssumption, NodesAssumption
<1>2. /\ Set("result_count", 0) \in Sets /\ Set("result_dirs", <<>>) \in Sets
      /\ Set("result_files", <<>>) \in Sets /\ Set("result_exts", <<>>) \in Sets
  BY <1>1, SetsAre DEF Results
<1>3. Cleared \in Seq(Sets)
  <2> HIDE DEF Set, Sets
  <2> QED BY <1>2 DEF Cleared
<1>4. ToSet(Cleared) = {Set("result_count", 0), Set("result_dirs", <<>>),
                        Set("result_files", <<>>), Set("result_exts", <<>>)}
  BY ToSetFour DEF Cleared
<1> QED BY <1>1, <1>3, <1>4 DEF Set, Results

LEMMA FoundIs ==
  ASSUME NEW reply \in Replies \cup {<<>>}
  PROVE  /\ Found(reply) \in Seq(Sets)
         /\ \A s \in ToSet(Found(reply)) :
              s.node \in Results /\ s.value = IF s.node = "result_count" THEN Len(reply) ELSE reply
         /\ \A n \in Results : \E s \in ToSet(Found(reply)) : s.node = n
<1>1. /\ Results \subseteq Nodes
      /\ \A n \in Results \ {"result_count"} : reply \in Values[n]
      /\ Len(reply) \in Values["result_count"]
  <2>1. /\ Results \subseteq Nodes
        /\ \A n \in Results \ {"result_count"} : Default[n] = <<>> /\ Default[n] \in Values[n]
        /\ 0 \in Values["result_count"]
    BY DesktopAssumption, ValuesAssumption, NodesAssumption DEF Results
  <2>2. CASE reply = <<>>
    BY <2>1, <2>2
  <2>3. CASE reply \in Replies
    BY <2>1, <2>3, ValuesAssumption
  <2> QED BY <2>1, <2>2, <2>3
<1>2. /\ Set("result_count", Len(reply)) \in Sets /\ Set("result_dirs", reply) \in Sets
      /\ Set("result_files", reply) \in Sets /\ Set("result_exts", reply) \in Sets
  BY <1>1, SetsAre DEF Results
<1>3. Found(reply) \in Seq(Sets)
  <2> HIDE DEF Set, Sets
  <2> QED BY <1>2 DEF Found
<1>4. ToSet(Found(reply)) = {Set("result_dirs", reply), Set("result_files", reply),
                             Set("result_exts", reply), Set("result_count", Len(reply))}
  BY ToSetFour DEF Found
<1> QED BY <1>1, <1>3, <1>4 DEF Set, Results

\* One step of a call takes its first assignment off, and puts the clearing of the
\* results in its place if that was "input".
LEMMA AssignNextStep ==
  ASSUME ModelShape, AssignNext
  PROVE  LET n == Head(todo).node
             v == Head(todo).value
         IN  /\ Head(todo) \in Sets /\ Head(todo) \in Pending
             /\ n \in Nodes /\ v \in Values[n] /\ Assign(n, v)
             /\ call # NoCall /\ ~searching
             /\ UNCHANGED <<redoStack, flags, call>>
             /\ todo' \in Seq(Sets)
             /\ Pending = {Head(todo)} \cup ToSet(Tail(todo))
             /\ \/ /\ n = "input" /\ v = "" /\ value[n] # v
                   /\ Pending' = ToSet(Cleared) \cup ToSet(Tail(todo))
                   /\ answer' = <<>> /\ ~searching'
                \/ /\ n # "input" \/ v # "" \/ value[n] = v
                   /\ todo' = Tail(todo)
                   /\ answer' = answer
                   /\ searching' = (value[n] # v /\ n = "input" /\ v # "")
<1> DEFINE n == Head(todo).node
           v == Head(todo).value
<1>1. todo # <<>> /\ todo \in Seq(Sets) /\ (call = NoCall => todo = <<>>)
  BY DEF AssignNext, ModelShape
<1>2. /\ Head(todo) \in Sets /\ Tail(todo) \in Seq(Sets)
      /\ Pending = {Head(todo)} \cup ToSet(Tail(todo))
  BY <1>1, ToSetTail DEF Pending
<1>3. n \in Nodes /\ v \in Values[n]
  BY <1>2, SetsAre
<1>4. Assign(n, v) /\ ~searching /\ UNCHANGED <<redoStack, flags, call>>
  BY DEF AssignNext, Step
<1>5. CASE n = "input" /\ v = "" /\ value[n] # v
  <2>1. todo' = Cleared \o Tail(todo) /\ answer' = <<>> /\ ~searching'
    BY <1>5 DEF AssignNext, Step
  <2>2. todo' \in Seq(Sets) /\ ToSet(todo') = ToSet(Cleared) \cup ToSet(Tail(todo))
    <3>1. Cleared \in Seq(Sets)
      BY ClearedIs
    <3> QED BY <1>2, <2>1, <3>1, ToSetConcat, ZenonT(60)
  <2> QED BY <1>1, <1>2, <1>3, <1>4, <1>5, <2>1, <2>2 DEF Pending
<1>6. CASE n # "input" \/ v # "" \/ value[n] = v
  <2>1. /\ todo' = Tail(todo) /\ answer' = answer
        /\ searching' = (value[n] # v /\ n = "input" /\ v # "")
    BY <1>6 DEF AssignNext, Step
  <2> QED BY <1>1, <1>2, <1>3, <1>4, <1>6, <2>1
<1> QED BY <1>5, <1>6

LEMMA AnsweredStep ==
  ASSUME ModelShape, Answered
  PROVE  /\ searching /\ ~searching' /\ todo' \in Seq(Sets)
         /\ UNCHANGED <<value, settings, stacks, flags, call, straight>>
         /\ \/ UNCHANGED <<answer, todo>>
            \/ \E reply \in Replies \cup {<<>>} :
                 /\ answer' = reply /\ Pending' = ToSet(Found(reply)) \cup Pending
<1>1. todo \in Seq(Sets)
  BY DEF ModelShape
<1>2. CASE UNCHANGED <<answer, todo>>
  BY <1>1, <1>2 DEF Answered
<1>3. ASSUME NEW reply \in Replies \cup {<<>>}, answer' = reply, todo' = Found(reply) \o todo
      PROVE  todo' \in Seq(Sets) /\ Pending' = ToSet(Found(reply)) \cup Pending
  BY <1>1, <1>3, FoundIs, ToSetConcat DEF Pending
<1>4. UNCHANGED <<answer, todo>> \/ \E reply \in Replies \cup {<<>>} : answer' = reply /\ todo' = Found(reply) \o todo
  BY DEF Answered
<1>5. searching /\ ~searching' /\ UNCHANGED <<value, settings, stacks, flags, call, straight>>
  BY DEF Answered
<1> QED BY <1>1, <1>2, <1>3, <1>4, <1>5

LEMMA SetStatusStep ==
  ASSUME TypeOK, SetStatus
  PROVE  \E n \in Status : \E v \in Values[n] :
           /\ n \in Nodes \ (Persistent \cup Actionable \cup Results \cup {"input"})
           /\ Assign(n, v) /\ UNCHANGED <<redoStack, flags, call, todo, searching, answer>>
<1>1. worker.node \in Status /\ worker.got[worker.node] \in BOOLEAN
  BY DEF TypeOK
<1>2. worker.got[worker.node] \in Values[worker.node]
  BY <1>1, ValuesAssumption
<1>3. worker.node \in Nodes \ (Persistent \cup Actionable \cup Results \cup {"input"})
  BY <1>1, DesktopAssumption DEF Status, Results
<1> QED BY <1>1, <1>2, <1>3 DEF SetStatus, WorkerRest

\* What a step may do to the model.
LEMMA ModelSteps ==
  ASSUME [Next]_vars
  PROVE  \/ UNCHANGED <<modelVars, searching, answer>>
         \/ /\ UNCHANGED <<searching, answer>>
            /\ \/ \E t \in Texts \cup {""} : SetValue("input", t)
               \/ \E n \in Actionable \cup Persistent : \E v \in Values[n] : SetValue(n, v)
               \/ Initialize \/ StartAction \/ EndAction \/ Undo \/ Redo
         \/ AssignNext \/ Answered \/ ReturnToView \/ SetStatus \/ StartAgain
<1>1. CASE Main
  BY <1>1 DEF Main, CompleteOutput, DestroyOutput, Register, Loaded, Leave, StopWorker, Join,
              ViewRest, EndRest
<1>2. CASE StatusWorker
  BY <1>2 DEF StatusWorker, Poll, Reported, TellStatus, WorkerRest
<1>3. CASE User
  BY <1>3 DEF User, Quit, CallModel, Type, UserRest, ViewRest
<1>4. CASE Turn
  BY <1>4 DEF Turn
<1>5. CASE UNCHANGED vars
  BY <1>5 DEF vars, desktopVars
<1> QED BY <1>1, <1>2, <1>3, <1>4, <1>5 DEF Next

LEMMA ShapeStep ==
  ASSUME TypeOK, ModelShape, SettingsMirror, searching => call # NoCall, [Next]_vars
  PROVE  ModelShape'
<1>1. CASE UNCHANGED <<modelVars, searching, answer>>
  BY <1>1 DEF ModelShape, modelVars, stacks, flags
<1>2. ASSUME NEW t \in Texts \cup {""}, SetValue("input", t)
      PROVE  ModelShape'
  BY <1>2, SetValueShape, ValuesAssumption, DesktopAssumption
<1>3. ASSUME NEW n \in Actionable \cup Persistent, NEW v \in Values[n], SetValue(n, v)
      PROVE  ModelShape'
  BY <1>3, SetValueShape, NodesAssumption
<1>4. CASE AssignNext
  BY <1>4, AssignNextStep, AssignShape
<1>5. CASE Answered
  <2>1. call # NoCall /\ todo' \in Seq(Sets)
    BY <1>5, AnsweredStep
  <2> QED BY <1>5, <2>1, AnsweredStep DEF ModelShape, stacks, flags
<1>6. CASE ReturnToView
  BY <1>6, ReturnShape DEF ReturnToView
<1>7. CASE SetStatus
  <2>1. todo' = todo /\ todo \in Seq(Sets)
    BY <1>7 DEF SetStatus, ModelShape
  <2> QED BY <1>7, <2>1, SetStatusStep, AssignShape
<1>8. CASE StartAgain
  BY <1>8, RestartShape DEF StartAgain
<1> QED BY <1>1, <1>2, <1>3, <1>4, <1>5, <1>6, <1>7, <1>8, ModelSteps,
           InitializeShape, ActionShape, UndoRedoShape

-----------------------------------------------------------------------------
(* The settings *)

LEMMA SettingsStep ==
  ASSUME TypeOK, ModelShape, SettingsInv, [Next]_vars
  PROVE  SettingsInv'
<1>0. /\ SettingsMirror /\ Persistent \subseteq Nodes
      /\ Persistent \cap (Results \cup Status \cup {"input"}) = {}
  BY NodesAssumption, DesktopAssumption DEF SettingsInv
\* A call other than initialize() begins, or nothing of this happens.
<1>1. ASSUME UNCHANGED <<value, settings, initialized>>, call'.op # "initialize"
      PROVE  SettingsInv'
  BY <1>1 DEF SettingsInv, SettingsMirror, Stored
<1>2. ASSUME UNCHANGED <<value, settings, initialized, call>>,
             \A s \in Pending' : s \in Pending \/ s.node \in Results, Pending \subseteq Pending'
      PROVE  SettingsInv'
  <2>1. SettingsMirror'
    BY <1>0, <1>2 DEF SettingsMirror, Stored
  <2>2. ASSUME call.op = "initialize", NEW n \in Persistent
        PROVE  Leads(n, Stored(n))'
    <3>1. Leads(n, Stored(n))
      BY <2>2 DEF SettingsInv
    <3>2. Stored(n)' = Stored(n) /\ value'[n] = value[n]
      BY <1>2 DEF Stored
    <3> QED BY <1>0, <1>2, <3>1, <3>2 DEF Leads
  <2> QED BY <1>2, <2>1, <2>2 DEF SettingsInv
<1>3. CASE UNCHANGED <<modelVars, searching, answer>>
  BY <1>2, <1>3 DEF modelVars, flags, stacks, Pending
<1>4. ASSUME NEW n, NEW v, SetValue(n, v)
      PROVE  SettingsInv'
  BY <1>1, <1>4 DEF SetValue, Begin, flags
<1>5. CASE Initialize
  <2>1. UNCHANGED <<value, settings, initialized>>
    BY <1>5 DEF Initialize, flags
  <2>2. SettingsMirror'
    BY <1>0, <2>1 DEF SettingsMirror, Stored
  <2>3. \A n : Stored(n)' = Stored(n)
    BY <2>1 DEF Stored
  <2>4. \A n \in Persistent : Leads(n, Stored(n))'
    <3> SUFFICES ASSUME NEW n \in Persistent PROVE Leads(n, Stored(n))'
      OBVIOUS
    <3>1. Pending' = {Set(m, Stored(m)) : m \in Nodes}
      BY <1>5, InitializeShape
    <3>2. \A m : Set(m, Stored(m)).node = m /\ Set(m, Stored(m)).value = Stored(m)
      BY DEF Set
    <3>3. \A s \in Pending' : s.node = n => s.value = Stored(n)
      BY <3>1, <3>2
    <3>4. \E s \in Pending' : s.node = n
      BY <1>0, <3>1, <3>2
    <3> QED BY <2>3, <3>3, <3>4 DEF Leads
  <2> QED BY <2>2, <2>4 DEF SettingsInv
<1>6. CASE StartAction \/ EndAction
  BY <1>2, <1>6 DEF StartAction, EndAction, flags, Pending
<1>7. CASE Undo \/ Redo
  BY <1>1, <1>7 DEF Undo, Redo, Begin, flags
<1>8. CASE AssignNext
  <2>0. PICK n, v : n = Head(todo).node /\ v = Head(todo).value
    OBVIOUS
  <2>1. /\ n \in Nodes /\ v \in Values[n] /\ Assign(n, v)
        /\ UNCHANGED <<flags, call>>
        /\ Pending = {Head(todo)} \cup ToSet(Tail(todo))
        /\ \A s \in ToSet(Tail(todo)) : s \in Pending'
        /\ \A s \in Pending' : s \in ToSet(Tail(todo)) \/ s.node \in Results
    BY <1>8, <2>0, AssignNextStep, ClearedIs DEF Pending
  <2>2. /\ value' = [value EXCEPT ![n] = v]
        /\ \A m \in Nodes \ {n} : settings'[m] = settings[m]
        /\ n \notin Persistent \/ ~initialized => settings' = settings
        /\ n \in Persistent /\ initialized => Stored(n)' = v
    BY <1>0, <2>1, AssignValue
  <2>3. \A m \in Nodes : value'[m] = IF m = n THEN v ELSE value[m]
    BY <2>2 DEF ModelShape
  <2>4. \A m \in Nodes \ {n} : Stored(m)' = Stored(m)
    BY <2>2 DEF Stored
  <2>5. SettingsMirror'
    BY <1>0, <2>1, <2>2, <2>3, <2>4 DEF SettingsMirror, flags
  <2>6. ASSUME call.op = "initialize", NEW m \in Persistent
        PROVE  Leads(m, Stored(m))'
    <3>1. ~initialized /\ settings' = settings
      BY <2>2, <2>6 DEF ModelShape
    <3>2. Leads(m, Stored(m)) /\ Stored(m)' = Stored(m)
      BY <2>6, <3>1 DEF SettingsInv, Stored
    <3>3. \A s \in Pending' : s.node = m => s \in Pending
      BY <1>0, <2>1
    <3>4. value'[m] = Stored(m) \/ \E s \in Pending' : s.node = m
      <4>1. CASE m = n
        <5>1. v = Stored(m)
          BY <2>0, <2>1, <3>2, <4>1 DEF Leads
        <5> QED BY <1>0, <2>3, <4>1, <5>1
      <4>2. CASE m # n
        <5>1. \A s \in Pending : s.node = m => s \in ToSet(Tail(todo))
          BY <2>0, <2>1, <4>2
        <5> QED BY <1>0, <2>1, <2>3, <3>2, <4>2, <5>1 DEF Leads
      <4> QED BY <4>1, <4>2
    <3> QED BY <3>2, <3>3, <3>4 DEF Leads
  <2> QED BY <2>1, <2>5, <2>6 DEF SettingsInv
<1>9. CASE Answered
  <2>1. \A s \in Pending' : s \in Pending \/ s.node \in Results
    BY <1>9, AnsweredStep, FoundIs DEF Pending
  <2>2. Pending \subseteq Pending'
    BY <1>9, AnsweredStep DEF Pending
  <2> QED BY <1>2, <1>9, <2>1, <2>2, AnsweredStep DEF flags
<1>10. CASE ReturnToView
  <2>0. Return
    BY <1>10 DEF ReturnToView
  <2>1. /\ call'.op = "none" /\ todo = <<>> /\ UNCHANGED <<value, settings>>
    BY <2>0 DEF Return, NoCall
  <2>2. CASE call.op = "initialize"
    <3>1. \A n \in Persistent : value[n] = Stored(n)
      BY <2>1, <2>2, ToSetOne DEF SettingsInv, Leads, Pending
    <3> QED BY <2>1, <3>1 DEF SettingsInv, SettingsMirror, Stored
  <2>3. CASE call.op # "initialize"
    <3>1. initialized' = initialized
      BY <2>0, <2>3 DEF Return, flags
    <3> QED BY <1>1, <2>1, <3>1
  <2> QED BY <2>2, <2>3
<1>11. CASE SetStatus
  <2>1. PICK n \in Status : \E v \in Values[n] :
           /\ n \in Nodes \ (Persistent \cup Actionable \cup Results \cup {"input"})
           /\ Assign(n, v) /\ UNCHANGED <<redoStack, flags, call, todo, searching, answer>>
    BY <1>11, SetStatusStep
  <2>2. PICK v \in Values[n] : Assign(n, v) /\ UNCHANGED <<flags, call, todo>>
    BY <2>1
  <2>3. value' = [value EXCEPT ![n] = v] /\ settings' = settings
    BY <1>0, <2>1, <2>2, AssignValue
  <2>4. \A m \in Persistent : value'[m] = value[m] /\ Stored(m)' = Stored(m)
    BY <2>1, <2>3 DEF Stored, ModelShape
  <2>5. SettingsMirror'
    BY <1>0, <2>2, <2>4 DEF SettingsMirror, flags
  <2>6. ASSUME call.op = "initialize", NEW m \in Persistent
        PROVE  Leads(m, Stored(m))'
    BY <2>2, <2>4, <2>6 DEF Leads, Pending, SettingsInv
  <2> QED BY <2>2, <2>5, <2>6 DEF SettingsInv
<1>12. CASE StartAgain
  <2>1. initialized' = FALSE /\ call'.op = "none"
    BY <1>12 DEF StartAgain, Restart, NoCall
  <2> QED BY <2>1 DEF SettingsInv, SettingsMirror
<1> QED BY <1>3, <1>4, <1>5, <1>6, <1>7, <1>8, <1>9, <1>10, <1>11, <1>12, ModelSteps

-----------------------------------------------------------------------------
(* The results *)

LEMMA NodesApart ==
  /\ "input" \notin Results \cup Status \cup Actionable \cup Persistent
  /\ \A n \in Results : n \in Nodes /\ n \notin Status \cup Actionable \cup Persistent
  /\ "input" \in Nodes
BY DesktopAssumption DEF Results, Status

\* Nothing of the results on the way: a call begins that does not touch them, or ends.
LEMMA ResultsQuiet ==
  ASSUME ResultsInv, UNCHANGED <<value, answer>>, ~searching',
         \A n \in Results : value[n] = Expected(n),
         \A s \in Pending' : s.node \notin Results \cup {"input"}
  PROVE  ResultsInv'
<1>1. \A n \in Results : value'[n] = Expected(n)'
  BY DEF Expected
<1>2. \A n \in Results : Leads(n, Expected(n))'
  BY <1>1 DEF Leads
<1> QED BY <1>2 DEF ResultsInv

LEMMA ResultsAssign ==
  ASSUME ModelShape, SettingsMirror, ResultsInv, AssignNext
  PROVE  ResultsInv'
<1>0. PICK h, n, v, T : h = Head(todo) /\ n = h.node /\ v = h.value /\ T = ToSet(Tail(todo))
  OBVIOUS
<1>1. /\ h \in Pending /\ Pending = {h} \cup T /\ n \in Nodes /\ v \in Values[n] /\ Assign(n, v)
      /\ call # NoCall /\ call' = call
  BY <1>0, AssignNextStep
<1>2. \A m \in Nodes : value'[m] = IF m = n THEN v ELSE value[m]
  BY <1>1, AssignValue DEF ModelShape
<1>3. ASSUME NEW s \in Pending, s.node = "input", s.value # ""
      PROVE  h = s /\ Tail(todo) = <<>> /\ T = {}
  <2>1. todo = <<s>>
    BY <1>3 DEF ResultsInv
  <2> QED BY <1>0, <2>1, ToSetOne
<1>a. ASSUME h.node = "input", v # ""
      PROVE  todo = <<h>> /\ \A m \in Results : value[m] = Expected(m)
  BY <1>0, <1>1, <1>a DEF ResultsInv
<1>b. ASSUME h.node = "input", v = "", NEW m \in Results
      PROVE  /\ \A t \in Pending : t.node = m => t.value = Default[m]
             /\ value[m] \in {Expected(m), Default[m]} \/ \E t \in Pending : t.node = m
  BY <1>0, <1>1, <1>b DEF ResultsInv
<1>4. CASE n = "input" /\ v = "" /\ value[n] # v
  <2>1. Pending' = ToSet(Cleared) \cup T /\ answer' = <<>> /\ ~searching'
    BY <1>0, <1>4, AssignNextStep
  <2>2. \A m \in Results : Expected(m)' = Default[m]
    BY <2>1, ValuesAssumption DEF Expected
  <2>3. \A m \in Results : /\ \A t \in Pending' : t.node = m => t.value = Default[m]
                           /\ \E t \in Pending' : t.node = m
    <3> TAKE m \in Results
    <3>1. \A t \in T : t.node = m => t.value = Default[m]
      BY <1>0, <1>1, <1>4, <1>b
    <3>2. \A t \in ToSet(Cleared) : t.node = m => t.value = Default[m]
      BY ClearedIs
    <3>3. \E t \in ToSet(Cleared) : t.node = m
      BY ClearedIs
    <3> QED BY <2>1, <3>1, <3>2, <3>3
  <2>4. \A m \in Results : Leads(m, Expected(m))'
    BY <2>2, <2>3 DEF Leads
  <2>5. \A s \in Pending' : s.node = "input" => s \in Pending
    BY <1>1, <2>1, ClearedIs, NodesApart
  <2>6. \A s \in Pending' : s.node = "input" => s.value = ""
    BY <1>0, <1>3, <1>4, <2>5
  <2> QED BY <2>1, <2>3, <2>4, <2>6 DEF ResultsInv
<1>5. CASE n = "input" /\ v # ""
  <2>1. todo = <<h>> /\ \A m \in Results : value[m] = Expected(m)
    BY <1>0, <1>5, <1>a
  <2>2. todo' = <<>> /\ answer' = answer
    BY <1>0, <1>3, <1>1, <1>5, AssignNextStep
  <2>3. Pending' = {}
    BY <2>2, ToSetOne DEF Pending
  <2>4. \A m \in Results : Leads(m, Expected(m))'
    <3> SUFFICES ASSUME NEW m \in Results PROVE Leads(m, Expected(m))'
      OBVIOUS
    <3>1. value'[m] = value[m]
      BY <1>2, <1>5, NodesApart
    <3>2. Expected(m)' = Expected(m)
      BY <2>2 DEF Expected
    <3> QED BY <2>1, <2>3, <3>1, <3>2 DEF Leads
  <2>5. value'["input"] # ""
    BY <1>2, <1>5, NodesApart
  <2> QED BY <1>1, <2>2, <2>3, <2>4, <2>5 DEF ResultsInv
<1>6. CASE (n = "input" /\ v = "" /\ value[n] = v) \/ n # "input"
  <2>1. todo' = Tail(todo) /\ Pending' = T /\ answer' = answer /\ ~searching'
    BY <1>0, <1>6, AssignNextStep DEF Pending
  <2>2. \A s \in T : s.node = "input" => s.value = ""
    BY <1>0, <1>1, <1>3, <1>6
  <2>3. \A m : Expected(m)' = Expected(m)
    BY <2>1 DEF Expected
  <2>4. value'["input"] = value["input"]
    BY <1>2, <1>6, NodesApart
  <2>5. ASSUME NEW s \in T, s.node = "input", NEW m \in Results
        PROVE  /\ \A t \in T : t.node = m => t.value = Default[m]
               /\ value'[m] \in {Expected(m), Default[m]} \/ \E t \in T : t.node = m
    <3>1. /\ \A t \in Pending : t.node = m => t.value = Default[m]
          /\ value[m] \in {Expected(m), Default[m]} \/ \E t \in Pending : t.node = m
      BY <1>1, <2>2, <2>5 DEF ResultsInv
    <3>2. CASE m = n
      BY <1>0, <1>1, <1>2, <3>1, <3>2
    <3>3. CASE m # n
      BY <1>0, <1>1, <1>2, <3>1, <3>3, NodesApart
    <3> QED BY <3>2, <3>3
  <2>6. ASSUME \A s \in T : s.node # "input", NEW m \in Results
        PROVE  Leads(m, Expected(m))'
    <3>1. CASE n # "input"
      <4>1. Leads(m, Expected(m))
        BY <1>0, <1>1, <2>6, <3>1 DEF ResultsInv
      <4>2. CASE m = n
        BY <1>0, <1>1, <1>2, <2>1, <2>3, <4>1, <4>2 DEF Leads
      <4>3. CASE m # n
        BY <1>0, <1>1, <1>2, <2>1, <2>3, <4>1, <4>3, NodesApart DEF Leads
      <4> QED BY <4>2, <4>3
    <3>2. CASE n = "input" /\ v = "" /\ value[n] = v
      <4>1. Expected(m) = Default[m]
        BY <3>2, ValuesAssumption DEF ResultsInv, Expected
      <4>2. /\ \A t \in T : t.node = m => t.value = Default[m]
            /\ value[m] = Default[m] \/ \E t \in T : t.node = m
        <5>1. h.node = "input" /\ v = "" /\ m # "input"
          BY <1>0, <3>2, NodesApart
        <5>2. /\ \A t \in Pending : t.node = m => t.value = Default[m]
              /\ value[m] \in {Expected(m), Default[m]} \/ \E t \in Pending : t.node = m
          BY <1>b, <5>1
        <5> QED BY <1>1, <4>1, <5>1, <5>2
      <4>3. value'[m] = value[m]
        BY <1>2, <3>2, NodesApart
      <4> QED BY <2>1, <2>3, <4>1, <4>2, <4>3 DEF Leads
    <3> QED BY <1>6, <3>1, <3>2
  <2> QED BY <2>1, <2>2, <2>3, <2>4, <2>5, <2>6 DEF ResultsInv
<1> QED BY <1>4, <1>5, <1>6

LEMMA ResultsStep ==
  ASSUME TypeOK, ModelShape, SettingsMirror, ResultsInv, ViewInv, [Next]_vars
  PROVE  ResultsInv'
<1>1. ASSUME \A n \in Results \cup {"input"} : value'[n] = value[n],
             todo' = todo, answer' = answer, searching' = searching, call' = call
      PROVE  ResultsInv'
  <2>1. \A n \in Results : Expected(n)' = Expected(n) /\ Pending' = Pending
    BY <1>1 DEF Expected, Pending
  <2>2. \A n \in Results : Leads(n, Expected(n)) => Leads(n, Expected(n))'
    BY <1>1, <2>1 DEF Leads
  <2>3. (searching => value["input"] # "" /\ call # NoCall /\ todo = <<>>)'
    BY <1>1 DEF ResultsInv
  <2>4. (value["input"] = "" => answer = <<>>)'
    BY <1>1 DEF ResultsInv
  <2>5. (\A s \in Pending : s.node = "input" /\ s.value # "" =>
           todo = <<s>> /\ \A n \in Results : value[n] = Expected(n))'
    <3> SUFFICES ASSUME NEW s \in Pending', s.node = "input", s.value # ""
                 PROVE  todo' = <<s>> /\ \A n \in Results : value'[n] = Expected(n)'
      OBVIOUS
    <3>1. s \in Pending
      BY <1>1 DEF Pending
    <3>2. todo = <<s>> /\ \A n \in Results : value[n] = Expected(n)
      BY <3>1 DEF ResultsInv
    <3>3. \A n \in Results : value'[n] = Expected(n)'
      BY <1>1, <2>1, <3>2
    <3> QED BY <1>1, <3>2, <3>3
  <2>6. (\A s \in Pending : s.node = "input" /\ s.value = "" =>
           \A n \in Results :
             /\ \A t \in Pending : t.node = n => t.value = Default[n]
             /\ value[n] \in {Expected(n), Default[n]} \/ \E t \in Pending : t.node = n)'
    BY <1>1, <2>1 DEF ResultsInv
  <2>7. ((\A s \in Pending : s.node # "input") => \A n \in Results : Leads(n, Expected(n)))'
    BY <1>1, <2>1, <2>2 DEF ResultsInv
  <2> QED BY <2>3, <2>4, <2>5, <2>6, <2>7 DEF ResultsInv
<1>2. ASSUME todo = <<>>
      PROVE  Pending = {} /\ \A n \in Results : value[n] = Expected(n)
  <2>1. Pending = {}
    BY <1>2, ToSetOne DEF Pending
  <2> QED BY <2>1 DEF ResultsInv, Leads
<1>3. ASSUME call = NoCall
      PROVE  ~searching /\ \A n \in Results : value[n] = Expected(n)
  BY <1>2, <1>3 DEF ResultsInv, ModelShape
<1>4. CASE UNCHANGED <<modelVars, searching, answer>>
  BY <1>1, <1>4 DEF modelVars
<1>5. ASSUME NEW t \in Texts \cup {""}, SetValue("input", t), UNCHANGED <<searching, answer>>
      PROVE  ResultsInv'
  <2> DEFINE s == Set("input", t)
  <2>1. todo' = <<s>> /\ UNCHANGED <<value, answer>> /\ ~searching' /\ s.node = "input"
    BY <1>3, <1>5 DEF SetValue, Begin, Set
  <2>2. Pending' = {s}
    BY <2>1, ToSetOne DEF Pending
  <2>3. \A n \in Results : value'[n] = Expected(n)'
    BY <1>3, <1>5, <2>1 DEF Expected, SetValue, Begin
  <2>4. value'["input"] = "" => answer' = <<>>
    BY <2>1 DEF ResultsInv
  <2> HIDE DEF s
  <2>5. \A n \in Results : \A r \in Pending' : r.node # n
    BY <2>1, <2>2, NodesApart
  <2>6. \A n \in Results : value'[n] \in {Expected(n)', Default[n]}
    BY <2>3
  <2>7. \A r \in Pending' : r.node = "input" /\ todo' = <<r>>
    BY <2>1, <2>2
  <2>8. \E r \in Pending' : r.node = "input"
    BY <2>1, <2>2
  <2>9. (\A r \in Pending : r.node # "input")' => (\A n \in Results : Leads(n, Expected(n)))'
    BY <2>8
  <2>10. \A r \in Pending' : r.node = "input" /\ r.value # "" =>
           todo' = <<r>> /\ \A n \in Results : value'[n] = Expected(n)'
    BY <2>3, <2>7
  <2>11. \A r \in Pending' : r.node = "input" /\ r.value = "" =>
           \A n \in Results :
             /\ \A t1 \in Pending' : t1.node = n => t1.value = Default[n]
             /\ value'[n] \in {Expected(n)', Default[n]} \/ \E t1 \in Pending' : t1.node = n
    BY <2>5, <2>6
  <2>12. ~searching'
    BY <2>1
  <2> QED BY <2>4, <2>9, <2>10, <2>11, <2>12 DEF ResultsInv
<1>6. ASSUME NEW n \in Actionable \cup Persistent, NEW v, SetValue(n, v), UNCHANGED <<searching, answer>>
      PROVE  ResultsInv'
  <2>1. todo' = <<Set(n, v)>> /\ UNCHANGED value /\ call = NoCall
    BY <1>6 DEF SetValue, Begin
  <2>2. \A s \in Pending' : s.node = n
    BY <2>1, ToSetOne DEF Pending, Set
  <2> QED BY <1>3, <1>6, <2>1, <2>2, NodesApart, ResultsQuiet
<1>7. CASE Initialize /\ UNCHANGED <<searching, answer>>
  <2>1. call = NoCall /\ UNCHANGED value
    BY <1>7 DEF Initialize, Begin
  <2>2. Pending' = {Set(n, Stored(n)) : n \in Nodes}
    BY <1>7, InitializeShape
  <2>3. \A n : Set(n, Stored(n)).node = n /\ Set(n, Stored(n)).value = Stored(n)
    BY DEF Set
  <2>4. \A n \in Results \cup {"input"} : Stored(n) = Default[n]
    BY NodesApart DEF ModelShape, Stored
  <2>5. \A s \in Pending' : s.node \in Results \cup {"input"} => s.value = Default[s.node]
    BY <2>2, <2>3, <2>4
  <2>6. \E s \in Pending' : s.node = "input"
    BY <2>2, <2>3, NodesApart
  <2>7. \A s \in Pending' : s.node = "input" => s.value = ""
    BY <2>5, ValuesAssumption
  <2>8. \A n \in Results : value'[n] = Expected(n)'
    BY <1>3, <1>7, <2>1 DEF Expected
  <2>9. \A n \in Results : value'[n] \in {Expected(n)', Default[n]}
    BY <2>8
  <2>10. value'["input"] = "" => answer' = <<>>
    BY <1>7, <2>1 DEF ResultsInv
  <2>11. \A n \in Results : \A t \in Pending' : t.node = n => t.value = Default[n]
    BY <2>5
  <2> QED BY <1>3, <1>7, <2>1, <2>6, <2>7, <2>9, <2>10, <2>11 DEF ResultsInv
<1>8. CASE (StartAction \/ EndAction) /\ UNCHANGED <<searching, answer>>
  BY <1>1, <1>8 DEF StartAction, EndAction
<1>9. CASE (Undo \/ Redo) /\ UNCHANGED <<searching, answer>>
  <2>1. call = NoCall /\ UNCHANGED value
    BY <1>9 DEF Undo, Redo, Begin
  <2>2. \A s \in Pending' : s.node \in Actionable
    BY <1>9, UndoRedoShape DEF Assignables
  <2> QED BY <1>3, <1>9, <2>1, <2>2, NodesApart, ResultsQuiet
<1>10. CASE AssignNext
  BY <1>10, ResultsAssign
<1>11. CASE Answered
  <2>1. /\ todo = <<>> /\ Pending = {} /\ value["input"] # "" /\ ~searching' /\ value' = value
        /\ \A n \in Results : value[n] = Expected(n)
    BY <1>2, <1>11, AnsweredStep DEF ResultsInv
  <2>2. CASE UNCHANGED <<answer, todo>>
    BY <2>1, <2>2, ResultsQuiet DEF Pending
  <2>3. ASSUME NEW reply \in Replies \cup {<<>>}, answer' = reply,
               Pending' = ToSet(Found(reply)) \cup Pending
        PROVE  ResultsInv'
    <3>1. \A n : Expected(n)' = IF n = "result_count" THEN Len(reply) ELSE reply
      BY <2>3 DEF Expected
    <3>2. \A n \in Results : Leads(n, Expected(n))'
      BY <2>1, <2>3, <3>1, FoundIs DEF Leads
    <3>3. \A s \in Pending' : s.node # "input"
      <4>1. \A s \in Pending' : s.node \in Results
        BY <2>1, <2>3, FoundIs
      <4> QED BY <4>1, NodesApart
    <3> QED BY <2>1, <3>2, <3>3 DEF ResultsInv
  <2> QED BY <1>11, <2>2, <2>3, AnsweredStep
<1>12. CASE ReturnToView
  <2>1. todo = <<>> /\ todo' = todo /\ UNCHANGED <<value, answer>> /\ ~searching'
    BY <1>12 DEF ReturnToView, Return
  <2> QED BY <1>2, <2>1, ResultsQuiet DEF Pending
<1>13. CASE SetStatus
  <2>1. PICK n \in Status : \E v \in Values[n] :
           /\ n \in Nodes \ (Persistent \cup Actionable \cup Results \cup {"input"})
           /\ Assign(n, v) /\ UNCHANGED <<redoStack, flags, call, todo, searching, answer>>
    BY <1>13, SetStatusStep
  <2>2. PICK v \in Values[n] : Assign(n, v) /\ UNCHANGED <<call, todo, searching, answer>>
    BY <2>1
  <2>3. \A m \in Results \cup {"input"} : value'[m] = value[m]
    BY <2>1, <2>2, AssignValue, NodesApart DEF ModelShape
  <2> QED BY <1>1, <2>2, <2>3
<1>14. CASE StartAgain
  <2>1. /\ value' = Constructed /\ todo' = <<>> /\ answer' = <<>> /\ searching' = searching
        /\ phase = "ended"
    BY <1>14 DEF StartAgain, Restart
  <2>2. ~searching' /\ Pending' = {}
    BY <1>3, <2>1, ToSetOne DEF ViewInv, Pending
  <2>3. \A n \in Results : value'[n] = Default[n] /\ Expected(n)' = Default[n]
    BY <2>1, ConstructedTyped, NodesApart, DesktopAssumption, ValuesAssumption DEF Expected, Results
  <2> QED BY <2>1, <2>2, <2>3 DEF ResultsInv, Leads
<1> QED BY <1>4, <1>5, <1>6, <1>7, <1>8, <1>9, <1>10, <1>11, <1>12, <1>13, <1>14, ModelSteps

-----------------------------------------------------------------------------
(* The view *)

\* A step in which nothing that is shown changes.
LEMMA ViewQuiet ==
  ASSUME ViewInv, ShownIsCurrent, UNCHANGED <<phase, viewVars, value, stale>>,
         phase # "run" => call' = NoCall, worker.pc # "tell" \/ UNCHANGED worker
  PROVE  ViewInv' /\ ShownIsCurrent'
<1>1. ViewInv'
  BY DEF ViewInv, viewVars
<1>2. \A o : Telling(o) => Telling(o)'
  BY DEF Telling
<1>3. ShownIsCurrent'
  BY <1>2 DEF ShownIsCurrent, viewVars
<1> QED BY <1>1, <1>3

LEMMA ViewStep ==
  ASSUME TypeOK, ModelShape, SettingsMirror, ViewInv, ShownIsCurrent, [Next]_vars
  PROVE  ViewInv' /\ ShownIsCurrent'
<1>0. /\ listening \subseteq Outputs /\ halfway \in Outputs \cup {Unset} /\ stale \subseteq listening
      /\ worker.pc \in {"loop", "asking", "set", "tell", "end"} /\ worker.node \in Status
      /\ Unset \notin Outputs /\ Outputs \subseteq Nodes
      /\ shown = [o \in Outputs |-> shown[o]] /\ value = [n \in Nodes |-> value[n]]
      /\ phase # "run" => call = NoCall /\ todo = <<>>
  BY DesktopAssumption DEF TypeOK, ViewInv, ModelShape
<1>1. ASSUME NEW o \in Outputs, CompleteOutput(o)
      PROVE  ViewInv' /\ ShownIsCurrent'
  <2>1. /\ phase = "load" /\ halfway = Unset /\ o \notin listening /\ halfway' = o
        /\ shown' = [shown EXCEPT ![o] = value[o]]
        /\ UNCHANGED <<phase, listening, stale, value, call, worker>>
    BY <1>1 DEF CompleteOutput, ViewRest, modelVars, workerVars
  <2>2. \A q \in Outputs \ {o} : shown'[q] = shown[q]
    BY <1>0, <2>1
  <2>3. shown'[o] = value[o]
    BY <1>0, <2>1
  <2>4. ShownIsCurrent'
    BY <1>0, <2>1, <2>2 DEF ShownIsCurrent, Telling
  <2> QED BY <1>0, <2>1, <2>3, <2>4 DEF ViewInv
<1>2. ASSUME NEW o \in Outputs, DestroyOutput(o)
      PROVE  ViewInv' /\ ShownIsCurrent'
  <2>1. /\ phase = "close" /\ listening' = listening \ {o} /\ stale' = stale \ {o}
        /\ UNCHANGED <<phase, shown, halfway, value, call, worker>>
    BY <1>2 DEF DestroyOutput, ViewRest, modelVars, workerVars
  <2> QED BY <2>1 DEF ViewInv, ShownIsCurrent, Telling
<1>3. CASE Register
  <2>1. /\ halfway # Unset /\ listening' = listening \cup {halfway} /\ halfway' = Unset
        /\ stale' = IF shown[halfway] # value[halfway] /\ ~Telling(halfway)
                      THEN stale \cup {halfway} ELSE stale
        /\ UNCHANGED <<phase, shown, value, call, worker>>
    BY <1>3 DEF Register, ViewRest, modelVars, workerVars
  <2>2. phase = "load" /\ (shown[halfway] = value[halfway] \/ halfway \in Status)
    BY <2>1 DEF ViewInv
  <2>3. ViewInv'
    BY <2>1, <2>2 DEF ViewInv
  <2>4. ShownIsCurrent'
    BY <2>1, <2>2 DEF ShownIsCurrent, Telling
  <2> QED BY <2>3, <2>4
<1>4. CASE Loaded
  <2>1. /\ phase = "load" /\ listening = Outputs /\ phase' = "run"
        /\ UNCHANGED <<shown, listening, halfway, stale, value, call, worker>>
    BY <1>4 DEF Loaded, ViewRest, viewVars, modelVars, workerVars
  <2>2. halfway = Unset
    BY <1>0, <2>1 DEF ViewInv
  <2> QED BY <2>1, <2>2 DEF ViewInv, ShownIsCurrent, Telling
<1>5. CASE Quit
  <2>1. /\ phase = "run" /\ phase' = "close" /\ call = NoCall
        /\ UNCHANGED <<shown, listening, halfway, stale, value, call, worker>>
    BY <1>5 DEF Quit, ViewRest, viewVars, modelVars, workerVars
  <2> QED BY <2>1 DEF ViewInv, ShownIsCurrent, Telling
<1>6. CASE Leave \/ StopWorker \/ Join
  <2>1. /\ phase # "run" /\ phase # "load" /\ phase' \in {"leave", "join", "ended"}
        /\ phase = "close" => listening = {}
        /\ phase \in {"close", "leave", "join"}
        /\ UNCHANGED <<shown, listening, halfway, stale, value, call, worker>>
    BY <1>6 DEF Leave, StopWorker, Join, EndRest, viewVars, modelVars, workerVars
  <2> QED BY <2>1 DEF ViewInv, ShownIsCurrent, Telling
<1>7. CASE AssignNext
  <2>0. PICK n, v : n = Head(todo).node /\ v = Head(todo).value
    OBVIOUS
  <2>1. n \in Nodes /\ v \in Values[n] /\ Assign(n, v) /\ call # NoCall /\ call' = call
    BY <1>7, <2>0, AssignNextStep
  <2>2. phase = "run"
    BY <1>0, <2>1
  <2>3. value' = [value EXCEPT ![n] = v]
    BY <2>1, AssignValue
  <2>4. /\ shown' = IF value[n] # v /\ n \in listening THEN [shown EXCEPT ![n] = v] ELSE shown
        /\ UNCHANGED <<phase, listening, halfway, stale, worker>>
    BY <1>7, <2>0 DEF AssignNext, MainRest, workerVars
  <2>5. ViewInv'
    BY <1>0, <2>2, <2>4 DEF ViewInv
  <2>6. ASSUME NEW o \in listening
        PROVE  shown'[o] = value'[o] \/ Telling(o)' \/ o \in stale'
    BY <1>0, <2>3, <2>4 DEF ShownIsCurrent, Telling
  <2> QED BY <2>4, <2>5, <2>6 DEF ShownIsCurrent
<1>8. CASE Answered \/ ReturnToView
  <2>1. UNCHANGED <<phase, viewVars, value, stale, worker>> /\ (call' = call \/ call' = NoCall)
    BY <1>8 DEF Answered, ReturnToView, Return, MainRest, viewVars, workerVars
  <2> QED BY <1>0, <2>1, ViewQuiet
<1>9. CASE Poll \/ Reported
  <2>1. UNCHANGED <<phase, viewVars, value, stale, call>> /\ worker.pc # "tell"
    BY <1>9 DEF Poll, Reported, WorkerRest, viewVars, modelVars
  <2> QED BY <1>0, <2>1, ViewQuiet
<1>10. CASE SetStatus
  <2>0. PICK n, v : n = worker.node /\ v = worker.got[n]
    OBVIOUS
  <2>1. /\ n \in Status /\ n \in Nodes /\ v \in Values[n] /\ Assign(n, v) /\ worker.pc = "set"
        /\ worker' = IF value[n] # v THEN [worker EXCEPT !.pc = "tell"] ELSE After(n)
        /\ UNCHANGED <<phase, shown, listening, halfway, stale, call>>
    <3>1. n \in Status /\ worker.got[n] \in BOOLEAN
      BY <2>0 DEF TypeOK
    <3>2. n \in Nodes /\ v \in Values[n]
      BY <2>0, <3>1, ValuesAssumption, DesktopAssumption
    <3>3. /\ Assign(n, v) /\ worker.pc = "set"
          /\ worker' = IF value[n] # v THEN [worker EXCEPT !.pc = "tell"] ELSE After(n)
          /\ UNCHANGED <<shown, call, stale>> /\ WorkerRest
      BY <1>10, <2>0 DEF SetStatus
    <3> QED BY <3>1, <3>2, <3>3 DEF WorkerRest
  <2>2. value' = [value EXCEPT ![n] = v]
    BY <2>1, AssignValue
  <2>3. ViewInv'
    BY <1>0, <2>1, <2>2 DEF ViewInv
  <2>4. value[n] # v => Telling(n)'
    BY <2>0, <2>1 DEF Telling, TypeOK
  <2>5. ASSUME NEW o \in listening
        PROVE  shown'[o] = value'[o] \/ Telling(o)' \/ o \in stale'
    BY <1>0, <2>1, <2>2, <2>4 DEF ShownIsCurrent, Telling
  <2> QED BY <2>1, <2>3, <2>5 DEF ShownIsCurrent
<1>11. CASE TellStatus
  <2>1. PICK n : /\ n = worker.node /\ n \in Status /\ worker.pc = "tell"
                 /\ shown' = IF n \in listening THEN [shown EXCEPT ![n] = value[n]] ELSE shown
                 /\ stale' = stale \ {n}
                 /\ UNCHANGED <<phase, listening, halfway, value, call>>
    BY <1>0, <1>11 DEF TellStatus, WorkerRest, modelVars
  <2>2. ViewInv'
    BY <1>0, <2>1 DEF ViewInv
  <2>3. ASSUME NEW o \in listening
        PROVE  shown'[o] = value'[o] \/ o \in stale'
    BY <1>0, <2>1 DEF ShownIsCurrent, Telling
  <2> QED BY <2>1, <2>2, <2>3 DEF ShownIsCurrent
<1>12. CASE StartAgain
  <2>1. /\ phase = "ended" /\ phase' = "load" /\ call' = NoCall
        /\ shown' = [o \in Outputs |-> Unset]
        /\ UNCHANGED <<listening, halfway, stale>>
    BY <1>12 DEF StartAgain, Restart
  <2>2. listening = {} /\ halfway = Unset
    BY <2>1 DEF ViewInv
  <2> QED BY <1>0, <2>1, <2>2 DEF ViewInv, ShownIsCurrent
<1>13. CASE CallModel \/ \E t \in Texts \cup {""} : Type(t)
  <2>1. /\ phase = "run" /\ UNCHANGED <<phase, viewVars, value, stale, worker>>
    BY <1>13 DEF CallModel, Type, UserRest, SetValue, Initialize, StartAction, EndAction, Undo, Redo,
                 workerVars
  <2> QED BY <2>1, ViewQuiet
<1>14. CASE Turn \/ UNCHANGED vars
  <2>1. UNCHANGED <<phase, viewVars, value, stale, worker, call>>
    BY <1>14 DEF Turn, vars, desktopVars, modelVars, workerVars
  <2> QED BY <1>0, <2>1, ViewQuiet
<1> QED BY <1>1, <1>2, <1>3, <1>4, <1>5, <1>6, <1>7, <1>8, <1>9, <1>10, <1>11, <1>12, <1>13, <1>14
        DEF Next, Main, StatusWorker, User

-----------------------------------------------------------------------------
(* The type invariant *)

LEMMA WorkerTyped ==
  ASSUME NEW pc \in {"loop", "asking", "set", "tell", "end"}, NEW n \in Status,
         NEW a \in BOOLEAN, NEW b \in BOOLEAN
  PROVE  Worker(pc, n, a, b) \in [pc : {"loop", "asking", "set", "tell", "end"}, node : Status,
                                  got : [Status -> BOOLEAN]]
<1>1. [connected |-> a, indexing |-> b] \in [Status -> BOOLEAN]
  BY DEF Status
<1> QED BY <1>1 DEF Worker

\* The type of what is not the model.
DesktopTyped ==
  /\ phase \in {"load", "run", "close", "leave", "join", "ended"}
  /\ \A o \in Outputs : shown[o] \in Values[o] \cup {Unset}
  /\ listening \subseteq Outputs /\ halfway \in Outputs \cup {Unset}
  /\ worker \in [pc : {"loop", "asking", "set", "tell", "end"}, node : Status,
                 got : [Status -> BOOLEAN]]
  /\ {searching, done, daemonGone, crashed} \subseteq BOOLEAN
  /\ daemon \in [up : BOOLEAN, indexing : BOOLEAN]
  /\ answer \in Replies \cup {<<>>}
  /\ stale \subseteq listening

LEMMA TypeStep ==
  ASSUME TypeOK, ModelShape, ViewInv, [Next]_vars
  PROVE  DesktopTyped'
<1>0. /\ DesktopTyped /\ Outputs \subseteq Nodes /\ DaemonFirst \in BOOLEAN
      /\ shown = [o \in Outputs |-> shown[o]]
      /\ \A n \in Nodes : value[n] \in Values[n]
      /\ worker.node \in Status /\ Status = {"connected", "indexing"}
  BY DesktopAssumption DEF TypeOK, DesktopTyped, ViewInv, ModelShape, Status
<1> USE DEF DesktopTyped
<1>1. ASSUME NEW o \in Outputs, CompleteOutput(o)
      PROVE  DesktopTyped'
  BY <1>0, <1>1 DEF CompleteOutput, ViewRest, workerVars, outside
<1>2. ASSUME NEW o \in Outputs, DestroyOutput(o)
      PROVE  DesktopTyped'
  BY <1>0, <1>2 DEF DestroyOutput, ViewRest, workerVars, outside, Race, Telling
<1>3. CASE Register
  BY <1>0, <1>3 DEF Register, ViewRest, workerVars, outside, Race, Telling
<1>4. CASE Loaded \/ Quit
  BY <1>0, <1>4 DEF Loaded, Quit, ViewRest, viewVars, workerVars, outside
<1>5. CASE Leave \/ StopWorker \/ Join
  BY <1>0, <1>5 DEF Leave, StopWorker, Join, EndRest, viewVars, workerVars, outside
<1>5a. Looping \in [pc : {"loop", "asking", "set", "tell", "end"}, node : Status,
                    got : [Status -> BOOLEAN]]
  BY WorkerTyped DEF Looping, Status
<1>6. CASE StartAgain
  <2>1. /\ phase' = "load" /\ shown' = [o \in Outputs |-> Unset]
        /\ UNCHANGED <<listening, halfway, searching, crashed, daemon, stale>>
        /\ worker' = Looping /\ done' = FALSE /\ daemonGone' = FALSE /\ answer' = <<>>
    BY <1>6 DEF StartAgain
  <2> QED BY <1>0, <1>5a, <2>1
<1>7. CASE AssignNext
  <2>0. PICK n, v : n = Head(todo).node /\ v = Head(todo).value
    OBVIOUS
  <2>1. n \in Nodes /\ v \in Values[n]
    BY <1>7, <2>0, AssignNextStep
  <2>1a. answer' = answer \/ answer' = <<>>
    BY <1>7, AssignNextStep
  <2>1b. searching' \in BOOLEAN
    BY <1>7 DEF AssignNext
  <2>2. /\ shown' = IF value[n] # v /\ n \in listening THEN [shown EXCEPT ![n] = v] ELSE shown
        /\ MainRest
    BY <1>7, <2>0 DEF AssignNext
  <2>3. \A o \in Outputs : shown'[o] \in Values[o] \cup {Unset}
    BY <1>0, <2>1, <2>2
  <2> QED BY <1>0, <2>1a, <2>1b, <2>2, <2>3 DEF MainRest, workerVars, outside
<1>8. CASE Answered
  BY <1>0, <1>8 DEF Answered, MainRest, workerVars, outside
<1>9. CASE ReturnToView
  BY <1>0, <1>9 DEF ReturnToView, MainRest, workerVars, outside
<1>10. CASE Poll
  <2>1. crashed' \in BOOLEAN
    BY <1>0, <1>10 DEF Poll
  <2>2. Worker("set", "connected", FALSE, FALSE)
          \in [pc : {"loop", "asking", "set", "tell", "end"}, node : Status,
              got : [Status -> BOOLEAN]]
    BY WorkerTyped DEF Status
  <2>3. worker' \in {worker, [worker EXCEPT !.pc = "end"], [worker EXCEPT !.pc = "asking"],
                     Worker("set", "connected", FALSE, FALSE)}
    BY <1>10 DEF Poll
  <2>4. worker' \in [pc : {"loop", "asking", "set", "tell", "end"}, node : Status,
                     got : [Status -> BOOLEAN]]
    BY <1>0, <2>2, <2>3
  <2> QED BY <1>0, <1>10, <2>1, <2>4 DEF Poll, WorkerRest, outside
<1>11. CASE Reported
  <2>1. crashed' \in BOOLEAN
    BY <1>0, <1>11 DEF Reported
  <2>2. Worker("set", "connected", daemon.up, daemon.up /\ daemon.indexing)
          \in [pc : {"loop", "asking", "set", "tell", "end"}, node : Status,
              got : [Status -> BOOLEAN]]
    BY <1>0, WorkerTyped
  <2>3. worker' \in {worker, Worker("set", "connected", daemon.up, daemon.up /\ daemon.indexing)}
    BY <1>11 DEF Reported
  <2>4. worker' \in [pc : {"loop", "asking", "set", "tell", "end"}, node : Status,
                     got : [Status -> BOOLEAN]]
    BY <1>0, <2>2, <2>3
  <2> QED BY <1>0, <1>11, <2>1, <2>4 DEF Reported, WorkerRest, outside
<1>12. After(worker.node) \in [pc : {"loop", "asking", "set", "tell", "end"}, node : Status,
                              got : [Status -> BOOLEAN]]
  <2>1. [worker EXCEPT !.pc = "set", !.node = "indexing"]
          \in [pc : {"loop", "asking", "set", "tell", "end"}, node : Status,
              got : [Status -> BOOLEAN]]
    BY <1>0
  <2> QED BY <1>5a, <2>1 DEF After
<1>13. CASE SetStatus
  BY <1>0, <1>12, <1>13 DEF SetStatus, WorkerRest, outside
<1>14. CASE TellStatus
  <2>1. worker.node \in Outputs => worker.node \in Nodes
    BY <1>0
  <2>2. \A o \in Outputs : shown'[o] \in Values[o] \cup {Unset}
    BY <1>0, <1>14 DEF TellStatus
  <2> QED BY <1>0, <1>12, <1>14, <2>2 DEF TellStatus, WorkerRest, outside
<1>15. CASE Turn
  BY <1>0, <1>15 DEF Turn, viewVars, workerVars
<1>16. CASE CallModel \/ \E t \in Texts \cup {""} : Type(t)
  BY <1>0, <1>16 DEF CallModel, Type, UserRest, viewVars, workerVars
<1>17. CASE UNCHANGED vars
  BY <1>0, <1>17 DEF vars, desktopVars, viewVars, workerVars, outside
<1> QED BY <1>1, <1>2, <1>3, <1>4, <1>5, <1>6, <1>7, <1>8, <1>9, <1>10, <1>11, <1>13, <1>14, <1>15,
           <1>16, <1>17 DEF Next, Main, StatusWorker, User

-----------------------------------------------------------------------------
(* The theorems *)

LEMMA InvInit == Init => IInv
<1> SUFFICES ASSUME Init PROVE IInv
  OBVIOUS
<1>1. ModelShape /\ ModelTypeOK
  BY InitShape, ShapeType DEF Init
<1>2. DesktopTyped
  BY WorkerTyped, ZenonT(60) DEF Init, DesktopTyped, Looping, Status
<1>3. TypeOK
  BY <1>1, <1>2 DEF TypeOK, DesktopTyped
<1>4. /\ value = Constructed /\ todo = <<>> /\ answer = <<>> /\ ~searching
      /\ ~initialized /\ call = NoCall /\ Pending = {}
  BY ToSetOne DEF Init, ModelInit, Pending
<1>5. SettingsInv
  BY <1>4 DEF SettingsInv, SettingsMirror, NoCall
<1>6. \A n \in Results : value[n] = Default[n] /\ Expected(n) = Default[n]
  BY <1>4, ConstructedTyped, NodesApart, DesktopAssumption, ValuesAssumption DEF Expected, Results
<1>7. ResultsInv
  BY <1>4, <1>6 DEF ResultsInv, Leads
<1>8. ViewInv /\ ShownIsCurrent
  BY <1>4 DEF Init, ViewInv, ShownIsCurrent
<1> QED BY <1>1, <1>3, <1>5, <1>7, <1>8 DEF IInv

THEOREM Invariance == Spec => []IInv
<1>1. IInv /\ [Next]_vars => IInv'
  <2> SUFFICES ASSUME IInv, [Next]_vars PROVE IInv'
    OBVIOUS
  <2>1. /\ TypeOK /\ ModelShape /\ SettingsInv /\ SettingsMirror /\ ResultsInv /\ ViewInv
        /\ ShownIsCurrent
    BY DEF IInv, SettingsInv
  <2>2. ModelShape'
    BY <2>1, ShapeStep DEF ResultsInv
  <2>3. ModelTypeOK'
    BY <2>2, ShapeType, PTL
  <2>4. TypeOK'
    BY <2>1, <2>3, TypeStep DEF TypeOK, DesktopTyped
  <2>5. SettingsInv' /\ ResultsInv' /\ ViewInv' /\ ShownIsCurrent'
    BY <2>1, SettingsStep, ResultsStep, ViewStep
  <2> QED BY <2>2, <2>4, <2>5 DEF IInv
<1> QED BY InvInit, <1>1, PTL DEF Spec

\* Every node holds a value of its type, every stack keeps to its limit.
THEOREM TypeCorrect == Spec => []TypeOK
BY Invariance, PTL DEF IInv

\* From initialize() on the settings hold what the persistent nodes hold, also in the
\* middle of a call, while undo() or redo() ignores changes and while the worker thread
\* sets its own nodes.
THEOREM SettingsStayMirrored == Spec => []SettingsMirror
BY Invariance, PTL DEF IInv, SettingsInv

\* The four nodes of the results never show two answers once a call is over, whatever
\* searches, failures and initialize() came in which order.
THEOREM ResultsStayTogether == Spec => []ResultsAgree
<1>1. IInv => ResultsAgree
  <2> SUFFICES ASSUME IInv, call = NoCall
               PROVE  /\ \A n \in Results \ {"result_count"} : value[n] = answer
                      /\ value["result_count"] = Len(answer)
    BY DEF ResultsAgree
  <2>1. Pending = {}
    BY ToSetOne DEF IInv, ModelShape, Pending
  <2>2. \A n \in Results : value[n] = Expected(n)
    BY <2>1 DEF IInv, ResultsInv, Leads
  <2>3. "result_count" \in Results
    BY DEF Results
  <2> QED BY <2>2, <2>3 DEF Expected
<1> QED BY <1>1, Invariance, PTL

\* An Output that is registered shows its node's value, or it is being told of it, or
\* it missed a change of the worker while it was registered.
THEOREM ShownStaysCurrent == Spec => []ShownIsCurrent
BY Invariance, PTL DEF IInv

-----------------------------------------------------------------------------
(* The history *)

\* Values of the nodes whose changes can be undone.
States == [Actionable -> UNION {Values[n] : n \in Nodes}]

Shows(s) == \A n \in Actionable : value[n] = s[n]

\* A change, an action and a stack of actions lead from values to values; if the stack
\* holds what was made, its last action leads to s, else its last action begins at s.
Turns(c, s, t) == /\ s[c.node] = c.old /\ t[c.node] = c.new
                  /\ \A n \in Actionable \ {c.node} : s[n] = t[n]
Passes(a, path) == /\ path \in [0 .. Len(a) -> States]
                   /\ \A i \in 1 .. Len(a) : Turns(a[i], path[i - 1], path[i])
Plays(a, s, t)  == \E path : Passes(a, path) /\ path[0] = s /\ path[Len(a)] = t
Runs(a, s, t, made) == IF made THEN Plays(a, s, t) ELSE Plays(a, t, s)
Trail(stack, s, made) ==
  \E path \in [0 .. Len(stack) -> States] :
    /\ path[Len(stack)] = s
    /\ \A k \in 1 .. Len(stack) : Runs(stack[k], path[k - 1], path[k], made)

LEMMA Least ==
  ASSUME NEW T \in SUBSET Nat, T # {}
  PROVE  \E x \in T : \A y \in T : x <= y
<1>1. \E x \in T : \A y \in T : ~ (<<y, x>> \in OpToRel(<, Nat))
  BY NatLessThanWellFounded, WFMin
<1>2. PICK x \in T : \A y \in T : ~(y < x)
  BY <1>1 DEF OpToRel
<1> QED BY <1>2

\* Where nothing changes a node it keeps its value.
LEMMA Within ==
  ASSUME NEW a \in Seq(Undoables), NEW path, Passes(a, path), NEW n \in Actionable,
         NEW i \in 0 .. Len(a), NEW j \in 0 .. Len(a), i <= j,
         \A m \in 1 .. Len(a) : i < m /\ m <= j => a[m].node # n
  PROVE  path[i][n] = path[j][n]
<1> DEFINE T == {m \in i .. j : path[m][n] # path[i][n]}
<1>0. Len(a) \in Nat
  OBVIOUS
<1> SUFFICES ASSUME path[i][n] # path[j][n] PROVE FALSE
  OBVIOUS
<1>1. T \in SUBSET Nat /\ T # {}
  BY <1>0
<1>2. PICK x \in T : \A y \in T : x <= y
  BY <1>1, Least
<1>3. x \in i .. j /\ x # i /\ path[x][n] # path[i][n]
  BY <1>2
<1>4. x \in 1 .. Len(a) /\ i < x /\ x <= j /\ x - 1 \in i .. j
  BY <1>0, <1>3
<1>5. path[x - 1][n] = path[i][n]
  BY <1>2, <1>4
<1>6. Turns(a[x], path[x - 1], path[x]) /\ a[x].node # n
  BY <1>4 DEF Passes
<1> QED BY <1>3, <1>5, <1>6 DEF Turns

LEMMA Across ==
  ASSUME NEW S \in Seq(Seq(Undoables)), NEW P,
         \A k \in 1 .. Len(S) : Plays(S[k], P[k - 1], P[k]), NEW n \in Actionable,
         NEW i \in 0 .. Len(S), NEW j \in 0 .. Len(S), i <= j,
         \A k \in 1 .. Len(S) : i < k /\ k <= j => \A m \in 1 .. Len(S[k]) : S[k][m].node # n
  PROVE  P[i][n] = P[j][n]
<1> DEFINE T == {m \in i .. j : P[m][n] # P[i][n]}
<1>0. Len(S) \in Nat
  OBVIOUS
<1> SUFFICES ASSUME P[i][n] # P[j][n] PROVE FALSE
  OBVIOUS
<1>1. T \in SUBSET Nat /\ T # {}
  <2>1. i .. j \subseteq Nat /\ j \in i .. j
    BY <1>0
  <2> QED BY <2>1
<1>2. PICK x \in T : \A y \in T : x <= y
  BY <1>1, Least
<1>3. x \in i .. j /\ x # i /\ P[x][n] # P[i][n]
  BY <1>2
<1>4. x \in 1 .. Len(S) /\ i < x /\ x <= j /\ x - 1 \in i .. j
  BY <1>0, <1>3
<1>5. P[x - 1][n] = P[i][n]
  BY <1>2, <1>4
<1>6. PICK path : /\ Passes(S[x], path) /\ path[0] = P[x - 1] /\ path[Len(S[x])] = P[x]
  BY <1>4 DEF Plays
<1>7. S[x] \in Seq(Undoables) /\ \A m \in 1 .. Len(S[x]) : S[x][m].node # n
  BY <1>4
<1>8. path[0][n] = path[Len(S[x])][n]
  <2>1. PICK a \in Seq(Undoables) : a = S[x]
    BY <1>7
  <2>2. PICK l \in Nat : l = Len(a)
    OBVIOUS
  <2>3. /\ 0 \in 0 .. Len(a) /\ l \in 0 .. Len(a) /\ 0 <= l
        /\ \A m \in 1 .. Len(a) : 0 < m /\ m <= l => a[m].node # n
    BY <1>7, <2>1, <2>2
  <2>4. Passes(a, path)
    BY <1>6, <2>1
  <2>5. path[0][n] = path[l][n]
    BY <2>3, <2>4, Within
  <2> QED BY <2>1, <2>2, <2>5
<1> QED BY <1>3, <1>5, <1>6, <1>8

-----------------------------------------------------------------------------
(* From paths to places *)

LEMMA PlacesAre ==
  ASSUME NEW S \in Seq(Seq(Undoables)), NEW p \in Places(S)
  PROVE  /\ p = <<p[1], p[2]>>
         /\ p[1] \in 1 .. Len(S) /\ S[p[1]] \in Seq(Undoables)
         /\ p[2] \in 1 .. Len(S[p[1]]) /\ At(S, p) = S[p[1]][p[2]]
         /\ At(S, p) \in Undoables /\ At(S, p).node \in Actionable
<1>1. PICK k \in DOMAIN S : p \in {k} \X DOMAIN S[k]
  BY DEF Places
<1>2. k \in 1 .. Len(S) /\ S[k] \in Seq(Undoables)
  OBVIOUS
<1>3. /\ p = <<p[1], p[2]>> /\ p[1] = k /\ p[2] \in DOMAIN S[k]
  BY <1>1
<1>4. p[2] \in 1 .. Len(S[k]) /\ S[k][p[2]] \in Undoables
  BY <1>2, <1>3
<1> HIDE DEF Undoables
<1> QED BY <1>2, <1>3, <1>4, UndoablesAre DEF At

LEMMA PlaceIn ==
  ASSUME NEW S \in Seq(Seq(Undoables)), NEW k \in 1 .. Len(S), NEW i \in 1 .. Len(S[k])
  PROVE  <<k, i>> \in Places(S) /\ At(S, <<k, i>>) = S[k][i]
<1>1. k \in DOMAIN S /\ S[k] \in Seq(Undoables)
  OBVIOUS
<1>2. i \in DOMAIN S[k]
  BY <1>1
<1>3. <<k, i>> \in {k} \X DOMAIN S[k]
  BY <1>2
<1> QED BY <1>1, <1>3 DEF Places, At

\* A list of actions that lead from values to values: changes of a node that follow one
\* another link up, the first begins where the list begins, the last ends where it ends.
LEMMA TrailLinks ==
  ASSUME NEW S \in Seq(Seq(Undoables)), NEW P,
         \A k \in 1 .. Len(S) : Plays(S[k], P[k - 1], P[k])
  PROVE  /\ Linked(S)
         /\ \A p \in Places(S) :
              (\A q \in Places(S) : Before(p, q) => ~SameNode(S, p, q)) =>
                At(S, p).new = P[Len(S)][At(S, p).node]
         /\ \A q \in Places(S) :
              (\A p \in Places(S) : Before(p, q) => ~SameNode(S, p, q)) =>
                At(S, q).old = P[0][At(S, q).node]
<1>0. Len(S) \in Nat
  OBVIOUS
\* From a change to the end of its action, and from the beginning.
<1>1. ASSUME NEW p \in Places(S), NEW n, n = At(S, p).node
      PROVE  \E path : /\ Passes(S[p[1]], path)
                       /\ path[0] = P[p[1] - 1] /\ path[Len(S[p[1]])] = P[p[1]]
                       /\ path[p[2]][n] = At(S, p).new /\ path[p[2] - 1][n] = At(S, p).old
  <2>1. PICK path : /\ Passes(S[p[1]], path)
                    /\ path[0] = P[p[1] - 1] /\ path[Len(S[p[1]])] = P[p[1]]
    BY PlacesAre DEF Plays
  <2>2. Turns(S[p[1]][p[2]], path[p[2] - 1], path[p[2]])
    BY <2>1, PlacesAre DEF Passes
  <2> QED BY <1>1, <2>1, <2>2, PlacesAre DEF Turns
<1>2. ASSUME NEW p \in Places(S), NEW n, n = At(S, p).node,
             \A i \in 1 .. Len(S[p[1]]) : p[2] < i => S[p[1]][i].node # n
      PROVE  At(S, p).new = P[p[1]][n]
  <2>1. PICK path : /\ Passes(S[p[1]], path) /\ path[Len(S[p[1]])] = P[p[1]]
                    /\ path[p[2]][n] = At(S, p).new
    BY <1>1, <1>2
  <2>2. /\ S[p[1]] \in Seq(Undoables) /\ Len(S[p[1]]) \in Nat /\ n \in Actionable
        /\ p[2] \in 0 .. Len(S[p[1]]) /\ p[2] <= Len(S[p[1]]) /\ Len(S[p[1]]) \in 0 .. Len(S[p[1]])
    <3>1. S[p[1]] \in Seq(Undoables) /\ p[2] \in 1 .. Len(S[p[1]]) /\ n \in Actionable
      BY <1>2, PlacesAre
    <3> QED BY <3>1
  <2>3. path[p[2]][n] = path[Len(S[p[1]])][n]
    BY <1>2, <2>1, <2>2, Within, ZenonT(60)
  <2> QED BY <2>1, <2>3
<1>3. ASSUME NEW q \in Places(S), NEW n, n = At(S, q).node,
             \A i \in 1 .. Len(S[q[1]]) : i < q[2] => S[q[1]][i].node # n
      PROVE  At(S, q).old = P[q[1] - 1][n]
  <2>1. PICK path : /\ Passes(S[q[1]], path) /\ path[0] = P[q[1] - 1]
                    /\ path[q[2] - 1][n] = At(S, q).old
    BY <1>1, <1>3
  <2>2. /\ S[q[1]] \in Seq(Undoables) /\ Len(S[q[1]]) \in Nat /\ n \in Actionable
        /\ q[2] \in 1 .. Len(S[q[1]])
    BY <1>3, PlacesAre
  <2>3. /\ q[2] - 1 \in 0 .. Len(S[q[1]]) /\ 0 \in 0 .. Len(S[q[1]]) /\ 0 <= q[2] - 1
        /\ \A i \in 1 .. Len(S[q[1]]) : 0 < i /\ i <= q[2] - 1 => S[q[1]][i].node # n
    BY <1>3, <2>2
  <2>4. path[0][n] = path[q[2] - 1][n]
    BY <2>1, <2>2, <2>3, Within
  <2> QED BY <2>1, <2>4
<1>4. ASSUME NEW p \in Places(S), NEW q \in Places(S), Before(p, q), SameNode(S, p, q),
             \A r \in Places(S) : Before(p, r) /\ Before(r, q) => ~SameNode(S, p, r)
      PROVE  At(S, p).new = At(S, q).old
  <2> DEFINE n == At(S, p).node
  <2>0. /\ p[1] \in 1 .. Len(S) /\ q[1] \in 1 .. Len(S)
        /\ S[p[1]] \in Seq(Undoables) /\ S[q[1]] \in Seq(Undoables)
        /\ p[2] \in 1 .. Len(S[p[1]]) /\ q[2] \in 1 .. Len(S[q[1]])
        /\ n \in Actionable /\ n = At(S, q).node
    BY <1>4, PlacesAre DEF SameNode
  <2>1. ASSUME NEW k \in 1 .. Len(S), NEW i \in 1 .. Len(S[k]),
               p[1] < k \/ (p[1] = k /\ p[2] < i), k < q[1] \/ (k = q[1] /\ i < q[2])
        PROVE  S[k][i].node # n
    <3>1. <<k, i>> \in Places(S) /\ At(S, <<k, i>>) = S[k][i]
      BY PlaceIn
    <3>2. Before(p, <<k, i>>) /\ Before(<<k, i>>, q)
      BY <2>1 DEF Before
    <3> QED BY <1>4, <3>1, <3>2 DEF SameNode
  <2>2. CASE p[1] = q[1]
    <3>1. p[2] < q[2]
      BY <1>4, <2>0, <2>2 DEF Before
    <3>2. PICK path : Passes(S[p[1]], path) /\ path[p[2]][n] = At(S, p).new
      BY <1>1
    <3>3. Turns(S[p[1]][q[2]], path[q[2] - 1], path[q[2]])
      BY <2>0, <2>2, <3>2 DEF Passes
    <3>4. path[q[2] - 1][n] = At(S, q).old
      BY <2>0, <2>2, <3>3, PlacesAre DEF Turns
    <3>6. path[p[2]][n] = path[q[2] - 1][n]
      <4>0. PICK a \in Seq(Undoables) : a = S[p[1]]
        BY <2>0
      <4>1. PICK i \in 1 .. Len(a), m \in 1 .. Len(a) : i = p[2] /\ m = q[2] /\ i < m
        BY <2>0, <2>2, <3>1, <4>0
      <4>2. PICK j : j = m - 1
        OBVIOUS
      <4>3. /\ i \in 0 .. Len(a) /\ j \in 0 .. Len(a) /\ i <= j
            /\ \A l \in 1 .. Len(a) : l <= j => l < m
        BY <4>1, <4>2
      <4>4. \A l \in 1 .. Len(a) : i < l /\ l <= j => a[l].node # n
        BY <2>0, <2>1, <2>2, <4>0, <4>1, <4>3
      <4>a. /\ i \in 0 .. Len(a) /\ j \in 0 .. Len(a) /\ i <= j /\ n \in Actionable
            /\ Passes(a, path)
        BY <2>0, <3>2, <4>0, <4>3
      <4> HIDE DEF n
      <4>5. path[i][n] = path[j][n]
        BY <4>a, <4>4, Within
      <4> QED BY <4>1, <4>2, <4>5
    <3> QED BY <3>2, <3>4, <3>6
  <2>3. CASE p[1] # q[1]
    <3>1. p[1] < q[1]
      BY <1>4, <2>0, <2>3 DEF Before
    <3>2. At(S, p).new = P[p[1]][n]
      <4>1. \A i \in 1 .. Len(S[p[1]]) : p[2] < i => S[p[1]][i].node # n
        BY <2>0, <2>1, <3>1
      <4> QED BY <1>2, <4>1
    <3>3. At(S, q).old = P[q[1] - 1][n]
      <4>1. \A i \in 1 .. Len(S[q[1]]) : i < q[2] => S[q[1]][i].node # n
        BY <2>0, <2>1, <3>1
      <4> HIDE DEF n
      <4> QED BY <1>3, <2>0, <4>1
    <3>4. P[p[1]][n] = P[q[1] - 1][n]
      <4>1. PICK i \in 1 .. Len(S), m \in 1 .. Len(S) : i = p[1] /\ m = q[1] /\ i < m
        BY <2>0, <3>1
      <4>2. PICK j : j = m - 1
        OBVIOUS
      <4>3. /\ i \in 0 .. Len(S) /\ j \in 0 .. Len(S) /\ i <= j
            /\ \A k \in 1 .. Len(S) : k <= j => k < m
        BY <1>0, <4>1, <4>2, SMTT(30)
      <4>4. \A k \in 1 .. Len(S) : i < k /\ k <= j =>
              \A l \in 1 .. Len(S[k]) : S[k][l].node # n
        BY <2>1, <4>1, <4>3
      <4>a. i \in 0 .. Len(S) /\ j \in 0 .. Len(S) /\ i <= j /\ n \in Actionable
        BY <2>0, <4>3
      <4> HIDE DEF n
      <4>5. P[i][n] = P[j][n]
        BY <4>a, <4>4, Across
      <4> QED BY <4>1, <4>2, <4>5
    <3> QED BY <3>2, <3>3, <3>4
  <2> QED BY <2>2, <2>3
<1>5. Linked(S)
  BY <1>4 DEF Linked
<1>6. ASSUME NEW p \in Places(S), \A q \in Places(S) : Before(p, q) => ~SameNode(S, p, q)
      PROVE  At(S, p).new = P[Len(S)][At(S, p).node]
  <2> DEFINE n == At(S, p).node
  <2>0. p[1] \in 1 .. Len(S) /\ n \in Actionable
    BY PlacesAre
  <2>1. ASSUME NEW k \in 1 .. Len(S), NEW i \in 1 .. Len(S[k]),
               p[1] < k \/ (p[1] = k /\ p[2] < i)
        PROVE  S[k][i].node # n
    <3>1. <<k, i>> \in Places(S) /\ At(S, <<k, i>>) = S[k][i]
      BY PlaceIn
    <3>2. Before(p, <<k, i>>)
      BY <2>1 DEF Before
    <3> QED BY <1>6, <3>1, <3>2 DEF SameNode
  <2>2. At(S, p).new = P[p[1]][n]
    BY <1>2, <2>0, <2>1
  <2>3. P[p[1]][n] = P[Len(S)][n]
    <3>1. p[1] \in 0 .. Len(S) /\ Len(S) \in 0 .. Len(S) /\ p[1] <= Len(S)
      BY <1>0, <2>0
    <3> HIDE DEF n
    <3> QED BY <2>0, <2>1, <3>1, Across, ZenonT(60)
  <2> QED BY <2>2, <2>3
<1>7. ASSUME NEW q \in Places(S), \A p \in Places(S) : Before(p, q) => ~SameNode(S, p, q)
      PROVE  At(S, q).old = P[0][At(S, q).node]
  <2> DEFINE n == At(S, q).node
  <2>0. q[1] \in 1 .. Len(S) /\ n \in Actionable
    BY PlacesAre
  <2>1. ASSUME NEW k \in 1 .. Len(S), NEW i \in 1 .. Len(S[k]),
               k < q[1] \/ (k = q[1] /\ i < q[2])
        PROVE  S[k][i].node # n
    <3>1. <<k, i>> \in Places(S) /\ At(S, <<k, i>>) = S[k][i]
      BY PlaceIn
    <3>2. Before(<<k, i>>, q)
      BY <2>1 DEF Before
    <3> QED BY <1>7, <3>1, <3>2 DEF SameNode
  <2>2. At(S, q).old = P[q[1] - 1][n]
    BY <1>3, <2>0, <2>1
  <2>3. P[0][n] = P[q[1] - 1][n]
    <3>1. /\ q[1] - 1 \in 0 .. Len(S) /\ 0 \in 0 .. Len(S) /\ 0 <= q[1] - 1
          /\ \A k \in 1 .. Len(S) : k <= q[1] - 1 => k < q[1]
      BY <1>0, <2>0
    <3>2. \A k \in 1 .. Len(S) : 0 < k /\ k <= q[1] - 1 =>
            \A m \in 1 .. Len(S[k]) : S[k][m].node # n
      BY <2>1, <3>1
    <3> HIDE DEF n
    <3> QED BY <2>0, <3>1, <3>2, Across
  <2> QED BY <2>2, <2>3
<1> QED BY <1>5, <1>6, <1>7

-----------------------------------------------------------------------------
(* Stacks of actions *)

\* One value more.
LEMMA PathPush ==
  ASSUME NEW l \in Nat, NEW path \in [0 .. l -> States], NEW t \in States
  PROVE  \E more \in [0 .. l + 1 -> States] :
           more[l + 1] = t /\ \A i \in 0 .. l : more[i] = path[i]
<1> DEFINE more == [i \in 0 .. l + 1 |-> IF i = l + 1 THEN t ELSE path[i]]
<1>1. \A i \in 0 .. l + 1 : i = l + 1 \/ i \in 0 .. l
  OBVIOUS
<1>2. more \in [0 .. l + 1 -> States]
  BY <1>1
<1>3. more[l + 1] = t /\ \A i \in 0 .. l : more[i] = path[i]
  OBVIOUS
<1> QED BY <1>2, <1>3

LEMMA PathPop ==
  ASSUME NEW l \in Nat, NEW path \in [0 .. l + 1 -> States]
  PROVE  /\ \E less \in [0 .. l -> States] : \A i \in 0 .. l : less[i] = path[i]
         /\ \E less \in [0 .. l -> States] : \A i \in 0 .. l : less[i] = path[i + 1]
<1>1. [i \in 0 .. l |-> path[i]] \in [0 .. l -> States]
  OBVIOUS
<1>2. [i \in 0 .. l |-> path[i + 1]] \in [0 .. l -> States]
  OBVIOUS
<1> QED BY <1>1, <1>2

LEMMA PlaysNothing ==
  ASSUME NEW s \in States
  PROVE  /\ Plays(<<>>, s, s)
         /\ \A t : Plays(<<>>, s, t) => t = s
<1>1. Len(<<>>) = 0
  OBVIOUS
<1>2. Passes(<<>>, [i \in 0 .. 0 |-> s])
  BY <1>1 DEF Passes
<1> QED BY <1>1, <1>2 DEF Plays

LEMMA PlaysMore ==
  ASSUME NEW a \in Seq(Undoables), NEW c \in Undoables, NEW s \in States, NEW t \in States,
         NEW u \in States, Plays(a, s, t), Turns(c, t, u)
  PROVE  Plays(Append(a, c), s, u)
<1>1. PICK path : Passes(a, path) /\ path[0] = s /\ path[Len(a)] = t
  BY DEF Plays
<1>2. PICK l \in Nat : l = Len(a)
  OBVIOUS
<1>3. path \in [0 .. l -> States]
  BY <1>1, <1>2 DEF Passes
<1>4. PICK more \in [0 .. l + 1 -> States] :
        more[l + 1] = u /\ \A i \in 0 .. l : more[i] = path[i]
  BY <1>3, PathPush, ZenonT(30)
<1>5. /\ Len(Append(a, c)) = l + 1 /\ Append(a, c)[l + 1] = c
      /\ \A i \in 1 .. l : Append(a, c)[i] = a[i]
  BY <1>2, AppendProperties
<1>6. ASSUME NEW i \in 1 .. l + 1
      PROVE  Turns(Append(a, c)[i], more[i - 1], more[i])
  <2>1. CASE i = l + 1
    <3>1. more[i - 1] = t /\ more[i] = u /\ Append(a, c)[i] = c
      BY <1>1, <1>2, <1>4, <1>5, <2>1
    <3> QED BY <3>1
  <2>2. CASE i # l + 1
    <3>1. i \in 1 .. l /\ i \in 0 .. l /\ i - 1 \in 0 .. l
      BY <1>6, <2>2
    <3>2. Turns(a[i], path[i - 1], path[i])
      BY <1>1, <1>2, <3>1 DEF Passes
    <3> QED BY <1>4, <1>5, <3>1, <3>2
  <2> QED BY <2>1, <2>2
<1>7. more[0] = s /\ more[Len(Append(a, c))] = u
  BY <1>1, <1>2, <1>4, <1>5
<1>8. Passes(Append(a, c), more)
  BY <1>4, <1>5, <1>6 DEF Passes
<1> QED BY <1>7, <1>8 DEF Plays

LEMMA PlaysBetween ==
  ASSUME NEW a \in Seq(Undoables), NEW s, NEW t, Plays(a, s, t)
  PROVE  s \in States /\ t \in States
<1>1. PICK path : Passes(a, path) /\ path[0] = s /\ path[Len(a)] = t
  BY DEF Plays
<1>2. 0 \in 0 .. Len(a) /\ Len(a) \in 0 .. Len(a)
  OBVIOUS
<1> QED BY <1>1, <1>2 DEF Passes

LEMMA TrailPush ==
  ASSUME NEW S \in Seq(Seq(Undoables)), NEW a \in Seq(Undoables), NEW made \in BOOLEAN,
         NEW s \in States, NEW t \in States, Trail(S, s, made), Runs(a, s, t, made)
  PROVE  Trail(Append(S, a), t, made)
<1>1. PICK l \in Nat : l = Len(S)
  OBVIOUS
<1>2. PICK path \in [0 .. l -> States] :
        path[l] = s /\ \A k \in 1 .. l : Runs(S[k], path[k - 1], path[k], made)
  BY <1>1 DEF Trail
<1>4. PICK more \in [0 .. l + 1 -> States] :
        more[l + 1] = t /\ \A i \in 0 .. l : more[i] = path[i]
  BY PathPush, ZenonT(30)
<1>5. /\ Len(Append(S, a)) = l + 1 /\ Append(S, a)[l + 1] = a
      /\ \A i \in 1 .. l : Append(S, a)[i] = S[i]
  BY <1>1, AppendProperties
<1>6. ASSUME NEW i \in 1 .. l + 1
      PROVE  Runs(Append(S, a)[i], more[i - 1], more[i], made)
  <2>1. CASE i = l + 1
    <3>1. more[i - 1] = s /\ more[i] = t /\ Append(S, a)[i] = a
      BY <1>2, <1>4, <1>5, <2>1
    <3> QED BY <3>1
  <2>2. CASE i # l + 1
    <3>1. i \in 1 .. l /\ i \in 0 .. l /\ i - 1 \in 0 .. l
      BY <1>6, <2>2
    <3> QED BY <1>2, <1>4, <1>5, <3>1
  <2> QED BY <2>1, <2>2
<1> QED BY <1>4, <1>5, <1>6 DEF Trail

\* The oldest action may go.
LEMMA TrailTail ==
  ASSUME NEW S \in Seq(Seq(Undoables)), S # <<>>, NEW made \in BOOLEAN, NEW s, Trail(S, s, made)
  PROVE  Trail(Tail(S), s, made)
<1>1. PICK l \in Nat : Len(S) = l + 1
  <2>1. Len(S) - 1 \in Nat /\ Len(S) = (Len(S) - 1) + 1
    OBVIOUS
  <2> QED BY <2>1
<1>2. PICK path \in [0 .. l + 1 -> States] :
        path[l + 1] = s /\ \A k \in 1 .. l + 1 : Runs(S[k], path[k - 1], path[k], made)
  BY <1>1 DEF Trail
<1>3. PICK less \in [0 .. l -> States] : \A i \in 0 .. l : less[i] = path[i + 1]
  BY PathPop, ZenonT(30)
<1>4. Len(Tail(S)) = l /\ \A i \in 1 .. l : Tail(S)[i] = S[i + 1]
  BY <1>1
<1>5. ASSUME NEW i \in 1 .. l
      PROVE  Runs(Tail(S)[i], less[i - 1], less[i], made)
  <2>1. i + 1 \in 1 .. l + 1 /\ (i + 1) - 1 = i /\ (i - 1) + 1 = i /\ i - 1 \in 0 .. l /\ i \in 0 .. l
    OBVIOUS
  <2>2. Runs(S[i + 1], path[i], path[i + 1], made)
    BY <1>2, <2>1
  <2>3. less[i - 1] = path[i] /\ less[i] = path[i + 1]
    BY <1>3, <2>1
  <2> QED BY <1>4, <2>2, <2>3
<1>6. less[l] = s
  BY <1>2, <1>3
<1> QED BY <1>3, <1>4, <1>5, <1>6 DEF Trail

LEMMA TrailLimited ==
  ASSUME NEW S \in Seq(Seq(Undoables)), NEW made \in BOOLEAN, NEW s, Trail(S, s, made)
  PROVE  Trail(Limited(S), s, made)
<1>1. Len(S) > Limit => S # <<>>
  BY LimitAssumption
<1> QED BY <1>1, TrailTail DEF Limited

LEMMA TrailPop ==
  ASSUME NEW S \in Seq(Seq(Undoables)), S # <<>>, NEW made \in BOOLEAN, NEW s, Trail(S, s, made)
  PROVE  \E r \in States : Trail(Front(S), r, made) /\ Runs(Last(S), r, s, made)
<1>1. PICK l \in Nat : Len(S) = l + 1
  <2>1. Len(S) - 1 \in Nat /\ Len(S) = (Len(S) - 1) + 1
    OBVIOUS
  <2> QED BY <2>1
<1>2. PICK path \in [0 .. l + 1 -> States] :
        path[l + 1] = s /\ \A k \in 1 .. l + 1 : Runs(S[k], path[k - 1], path[k], made)
  BY <1>1 DEF Trail
<1>3. PICK less \in [0 .. l -> States] : \A i \in 0 .. l : less[i] = path[i]
  BY PathPop, ZenonT(30)
<1>4. Front(S) = SubSeq(S, 1, l) /\ Last(S) = S[l + 1]
  BY <1>1 DEF Front, Last
<1>5. Len(Front(S)) = l /\ \A i \in 1 .. l : Front(S)[i] = S[i]
  BY <1>1, <1>4, SubSeqProperties, SMTT(30)
<1>6. ASSUME NEW i \in 1 .. l
      PROVE  Runs(Front(S)[i], less[i - 1], less[i], made)
  <2>1. i \in 1 .. l + 1 /\ i - 1 \in 0 .. l /\ i \in 0 .. l
    OBVIOUS
  <2> QED BY <1>2, <1>3, <1>5, <2>1
<1>7. less[l] \in States /\ less[l] = path[l] /\ l + 1 \in 1 .. l + 1 /\ (l + 1) - 1 = l
  BY <1>3
<1>8. Runs(Last(S), less[l], s, made)
  BY <1>2, <1>4, <1>7
<1>9. Trail(Front(S), less[l], made)
  BY <1>3, <1>5, <1>6 DEF Trail
<1> QED BY <1>7, <1>8, <1>9

\* Actions without changes lead nowhere.
LEMMA TrailNowhere ==
  ASSUME NEW S \in Seq({<<>>}), NEW s \in States, NEW made \in BOOLEAN
  PROVE  Trail(S, s, made)
<1>1. PICK path : path = [i \in 0 .. Len(S) |-> s]
  OBVIOUS
<1>2. Len(S) \in Nat /\ path \in [0 .. Len(S) -> States] /\ path[Len(S)] = s
  BY <1>1
<1>3. ASSUME NEW k \in 1 .. Len(S)
      PROVE  Runs(S[k], path[k - 1], path[k], made)
  <2>1. S[k] = <<>> /\ path[k - 1] = s /\ path[k] = s
    BY <1>1
  <2> QED BY <2>1, PlaysNothing DEF Runs
<1> QED BY <1>2, <1>3 DEF Trail

-----------------------------------------------------------------------------
(* The history through the steps *)

\* The actions made lead to s; those undone lead away from it.
Made(s)   == IF active = <<>> THEN Trail(undoStack, s, TRUE)
             ELSE \E r \in States : Trail(undoStack, r, TRUE) /\ Plays(active[1], r, s)
ToCome(s) == Trail(redoStack, s, FALSE)

Playing == call.op \in {"undo", "redo"}
Played  == IF call.op = "undo" THEN Backward(call.action) ELSE Forward(call.action)
Reached == IF call.op = "undo" THEN Len(todo) ELSE Len(call.action) - Len(todo)

\* The call has still the last assignments of its action to make, and the values are
\* those before them.
InPlay ==
  \E path : /\ Passes(call.action, path) /\ Made(path[0]) /\ ToCome(path[Len(call.action)])
            /\ Len(todo) <= Len(call.action) /\ Shows(path[Reached])
            /\ \A i \in 1 .. Len(todo) : todo[i] = Played[Len(call.action) - Len(todo) + i]

NoChange == {<<>>, << <<>> >>}

\* Before initialize() no action has a change; after it, changes are ignored in undo() and
\* redo() only.  An active action has no change while there is something to redo.
HistoryInv ==
  /\ initialized => (ignoring <=> Playing)
  /\ ~initialized => /\ undoStack \in Seq({<<>>}) /\ redoStack \in Seq({<<>>})
                     /\ active \in Seq({<<>>}) /\ call.action = <<>>
  /\ straight =>
       /\ redoStack # <<>> \/ Playing => active \in NoChange
       /\ ~Playing => \E s \in States : Shows(s) /\ Made(s) /\ ToCome(s)
       /\ Playing => InPlay /\ ~searching

\* Nothing happens to the history or to what it is about.
LEMMA HistoryQuiet ==
  ASSUME HistoryInv, UNCHANGED <<stacks, flags, straight>>,
         \A n \in Actionable : value'[n] = value[n],
         \/ UNCHANGED <<call, todo, searching>>
         \/ ~Playing /\ ~Playing' /\ call'.action \in {call.action, <<>>}
         \/ ~straight /\ call' = call
  PROVE  HistoryInv'
<1>1. \A s : /\ Shows(s)' <=> Shows(s)
             /\ Made(s)' <=> Made(s)
             /\ ToCome(s)' <=> ToCome(s)
  BY DEF Shows, Made, ToCome, stacks
<1>2. CASE UNCHANGED <<call, todo, searching>>
  <2>1. /\ Playing' <=> Playing
        /\ Reached' = Reached /\ Played' = Played
    BY <1>2 DEF Playing, Reached, Played
  <2>2. InPlay => InPlay'
    BY <1>1, <1>2, <2>1 DEF InPlay
  <2> QED BY <1>1, <1>2, <2>1, <2>2 DEF HistoryInv, stacks, flags
<1>3. CASE ~Playing /\ ~Playing' /\ call'.action \in {call.action, <<>>}
  BY <1>1, <1>3 DEF HistoryInv, stacks, flags
<1>4. CASE ~straight /\ call' = call
  BY <1>4 DEF HistoryInv, stacks, flags, Playing
<1> QED BY <1>2, <1>3, <1>4

LEMMA MadeTyped ==
  ASSUME ModelShape
  PROVE  /\ undoStack \in Seq(Seq(Undoables)) /\ redoStack \in Seq(Seq(Undoables))
         /\ call.action \in Seq(Undoables)
         /\ active # <<>> => active[1] \in Seq(Undoables) /\ active = <<active[1]>>
<1>1. /\ undoStack \in Seq(Seq(Undoables)) /\ redoStack \in Seq(Seq(Undoables))
      /\ call.action \in Seq(Undoables)
      /\ active \in Seq(Seq(Undoables)) /\ Len(active) <= 1
  BY DEF ModelShape
<1>2. ASSUME active # <<>>
      PROVE  active[1] \in Seq(Undoables) /\ active = <<active[1]>>
  <2>1. <<>> \in Seq(Seq(Undoables))
    OBVIOUS
  <2>2. active[1] \in Seq(Undoables) /\ <<>> \o active = Append(<<>>, active[1])
    BY <1>1, <1>2, <2>1, AppendOne
  <2>3. <<>> \o active = active
    BY <1>1
  <2>4. Append(<<>>, active[1]) = <<active[1]>>
    OBVIOUS
  <2> QED BY <2>2, <2>3, <2>4
<1> QED BY <1>1, <1>2

\* The undo stack with the active action on it.
LEMMA EndedTrail ==
  ASSUME ModelShape, NEW s \in States, Made(s)
  PROVE  Trail(Ended, s, TRUE) /\ Trail(undoStack \o active, s, TRUE)
<1>1. CASE active = <<>>
  <2>1. undoStack \o <<>> = undoStack
    BY MadeTyped
  <2> QED BY <1>1, <2>1 DEF Ended, Made
<1>2. CASE active # <<>>
  <2>1. PICK r \in States : Trail(undoStack, r, TRUE) /\ Plays(active[1], r, s)
    BY <1>2 DEF Made
  <2>2. undoStack \o active = Append(undoStack, active[1])
    BY <1>2, AppendOne DEF ModelShape
  <2>3. Trail(Append(undoStack, active[1]), s, TRUE)
    BY <1>2, <2>1, MadeTyped, TrailPush DEF Runs
  <2>4. Append(undoStack, active[1]) \in Seq(Seq(Undoables))
    BY <1>2, MadeTyped
  <2>5. Trail(Limited(Append(undoStack, active[1])), s, TRUE)
    BY <2>3, <2>4, TrailLimited
  <2> QED BY <1>2, <2>2, <2>3, <2>5 DEF Ended
<1> QED BY <1>1, <1>2

LEMMA EndedNothing ==
  ASSUME ModelShape, undoStack \in Seq({<<>>}), active \in Seq({<<>>})
  PROVE  Ended \in Seq({<<>>})
<1>1. CASE active = <<>>
  BY <1>1 DEF Ended
<1>2. CASE active # <<>>
  <2>1. active[1] \in {<<>>} /\ undoStack \o active = Append(undoStack, active[1])
    BY <1>2, AppendOne DEF ModelShape
  <2>2. Len(undoStack) <= Limit
    BY DEF ModelShape
  <2> QED BY <1>2, <2>1, <2>2, LimitedPush DEF Ended
<1> QED BY <1>1, <1>2

LEMMA HistoryActions ==
  ASSUME ModelShape, HistoryInv, StartAction \/ EndAction
  PROVE  HistoryInv'
<1>1. ~Playing /\ ~Playing' /\ call.action = <<>> /\ call' = call
  BY DEF StartAction, EndAction, Playing, NoCall
<1>2. \A s : (Shows(s)' <=> Shows(s)) /\ (ToCome(s)' <=> ToCome(s))
  BY DEF Shows, ToCome, StartAction, EndAction
<1>3. CASE StartAction
  <2>1. /\ active = <<>> /\ active' = << <<>> >> /\ UNCHANGED <<undoStack, redoStack, flags, straight>>
    BY <1>3 DEF StartAction
  <2>2. ASSUME NEW s \in States, Made(s)
        PROVE  Made(s)'
    <3>1. Trail(undoStack, s, TRUE) /\ Plays(<<>>, s, s) /\ active'[1] = <<>> /\ active' # <<>>
      BY <2>1, <2>2, PlaysNothing DEF Made
    <3> QED BY <2>1, <3>1 DEF Made
  <2>3. active' \in Seq({<<>>}) /\ active' \in NoChange
    BY <2>1 DEF NoChange
  <2> QED BY <1>1, <1>2, <2>1, <2>2, <2>3 DEF HistoryInv, flags
<1>4. CASE EndAction
  <2>1. /\ active # <<>> /\ active' = <<>> /\ undoStack' = Ended
        /\ UNCHANGED <<redoStack, flags, straight>>
    BY <1>4 DEF EndAction
  <2>2. ASSUME NEW s \in States, Made(s)
        PROVE  Made(s)'
    BY <2>1, <2>2, EndedTrail DEF Made
  <2>3. active' \in Seq({<<>>}) /\ active' \in NoChange
    BY <2>1 DEF NoChange
  <2>4. ~initialized => Ended \in Seq({<<>>})
    BY EndedNothing DEF HistoryInv
  <2> QED BY <1>1, <1>2, <2>1, <2>2, <2>3, <2>4 DEF HistoryInv, flags
<1> QED BY <1>3, <1>4

\* undo() begins: what it plays leads to the present values.
LEMMA HistoryUndo ==
  ASSUME ModelShape, HistoryInv, Undo, ~searching'
  PROVE  HistoryInv'
<1>0. PICK a : a = Last(Ended)
  OBVIOUS
<1>1. /\ call = NoCall /\ call'.op = "undo" /\ call'.action = a /\ todo' = Backward(a)
      /\ undoStack' = Front(Ended) /\ active' = <<>> /\ ignoring' = TRUE
      /\ UNCHANGED <<value, redoStack, initialized, straight>> /\ Ended # <<>>
  BY <1>0 DEF Undo, Begin
<1>2. ~Playing /\ Playing'
  BY <1>1 DEF Playing, NoCall
<1>3. Ended \in Seq(Seq(Undoables)) /\ a \in Seq(Undoables)
  BY <1>0, <1>1, EndedType, FrontLast
<1>4. ASSUME ~initialized
      PROVE  /\ undoStack' \in Seq({<<>>}) /\ redoStack' \in Seq({<<>>})
             /\ active' \in Seq({<<>>}) /\ call'.action = <<>>
  <2>1. Ended \in Seq({<<>>})
    BY <1>4, EndedNothing DEF HistoryInv
  <2>2. a \in {<<>>} /\ Front(Ended) \in Seq({<<>>})
    BY <1>0, <1>1, <2>1, FrontLast
  <2> QED BY <1>1, <1>4, <2>2 DEF HistoryInv
<1>5. ASSUME straight
      PROVE  InPlay'
  <2>1. PICK s \in States : Shows(s) /\ Made(s) /\ ToCome(s)
    BY <1>2, <1>5 DEF HistoryInv
  <2>2. PICK r \in States : Trail(Front(Ended), r, TRUE) /\ Plays(a, r, s)
    BY <1>0, <1>1, <1>3, <2>1, EndedTrail, TrailPop DEF Runs
  <2>3. PICK path : Passes(a, path) /\ path[0] = r /\ path[Len(a)] = s
    BY <2>2 DEF Plays
  <2>4. Made(path[0])' /\ ToCome(path[Len(a)])' /\ Shows(path[Len(a)])'
    BY <1>1, <2>1, <2>2, <2>3 DEF Made, ToCome, Shows
  <2>5. Len(todo') = Len(a) /\ Len(a) \in Nat
    BY <1>1, <1>3 DEF Backward
  <2>6. Reached' = Len(a) /\ Played' = Backward(a)
    BY <1>1, <2>5 DEF Reached, Played
  <2>7. \A i \in 1 .. Len(todo') : todo'[i] = Played'[Len(a) - Len(todo') + i]
    BY <1>1, <2>5, <2>6
  <2> QED BY <1>1, <2>3, <2>4, <2>5, <2>6, <2>7 DEF InPlay
<1> QED BY <1>1, <1>2, <1>4, <1>5 DEF HistoryInv, NoChange

\* redo() begins: what it plays leads away from the present values.
LEMMA HistoryRedo ==
  ASSUME ModelShape, HistoryInv, Redo, ~searching'
  PROVE  HistoryInv'
<1>0. PICK a : a = Last(redoStack)
  OBVIOUS
<1>1. /\ call = NoCall /\ call'.op = "redo" /\ call'.action = a /\ todo' = Forward(a)
      /\ redoStack' = Front(redoStack) /\ ignoring' = TRUE /\ redoStack # <<>>
      /\ UNCHANGED <<value, undoStack, active, initialized, straight>>
  BY <1>0 DEF Redo, Begin
<1>2. ~Playing /\ Playing'
  BY <1>1 DEF Playing, NoCall
<1>3. redoStack \in Seq(Seq(Undoables)) /\ a \in Seq(Undoables)
  BY <1>0, <1>1, MadeTyped, FrontLast
<1>4. ASSUME ~initialized
      PROVE  /\ undoStack' \in Seq({<<>>}) /\ redoStack' \in Seq({<<>>})
             /\ active' \in Seq({<<>>}) /\ call'.action = <<>>
  <2>1. redoStack \in Seq({<<>>})
    BY <1>4 DEF HistoryInv
  <2>2. a \in {<<>>} /\ Front(redoStack) \in Seq({<<>>})
    BY <1>0, <1>1, <2>1, FrontLast
  <2> QED BY <1>1, <1>4, <2>2 DEF HistoryInv
<1>5. ASSUME straight
      PROVE  InPlay'
  <2>1. PICK s \in States : Shows(s) /\ Made(s) /\ ToCome(s)
    BY <1>2, <1>5 DEF HistoryInv
  <2>2. PICK r \in States : Trail(Front(redoStack), r, FALSE) /\ Plays(a, s, r)
    BY <1>0, <1>1, <1>3, <2>1, TrailPop DEF ToCome, Runs
  <2>3. PICK path : Passes(a, path) /\ path[0] = s /\ path[Len(a)] = r
    BY <2>2 DEF Plays
  <2>4. Made(path[0])' /\ ToCome(path[Len(a)])' /\ Shows(path[0])'
    BY <1>1, <2>1, <2>2, <2>3 DEF Made, ToCome, Shows
  <2>5. Len(todo') = Len(a) /\ Len(a) \in Nat
    BY <1>1, <1>3 DEF Forward
  <2>6. Reached' = 0 /\ Played' = Forward(a)
    BY <1>1, <2>5 DEF Reached, Played
  <2>7. \A i \in 1 .. Len(todo') : todo'[i] = Played'[Len(a) - Len(todo') + i]
    BY <1>1, <2>5, <2>6
  <2> QED BY <1>1, <2>3, <2>4, <2>5, <2>6, <2>7 DEF InPlay
<1>6. straight => active \in NoChange
  BY <1>1 DEF HistoryInv
<1> QED BY <1>1, <1>2, <1>4, <1>5, <1>6 DEF HistoryInv

\* The values of the moment.
LEMMA NowShown ==
  ASSUME ModelShape'
  PROVE  \E s \in States : Shows(s)'
<1>1. \A n \in Actionable : n \in Nodes /\ value'[n] \in Values[n]
  BY NodesAssumption DEF ModelShape
<1>2. [n \in Actionable |-> value'[n]] \in States
  BY <1>1 DEF States
<1> QED BY <1>2 DEF Shows

\* Before initialize() the values may change, as there is no history.
LEMMA HistoryBefore ==
  ASSUME ModelShape', HistoryInv, ~initialized, UNCHANGED <<stacks, flags, straight, call>>, ~Playing
  PROVE  HistoryInv'
<1>1. /\ undoStack' \in Seq({<<>>}) /\ redoStack' \in Seq({<<>>}) /\ active' \in Seq({<<>>})
      /\ call'.action = <<>> /\ ~Playing' /\ ~initialized'
  BY DEF HistoryInv, stacks, flags, Playing
<1>2. PICK s \in States : Shows(s)'
  BY NowShown
<1>3. Trail(undoStack, s, TRUE)' /\ Trail(redoStack, s, FALSE)'
  BY <1>1, TrailNowhere
<1>4. active' # <<>> => active'[1] = <<>>
  <2>1. active' # <<>> => 1 \in 1 .. Len(active')
    BY <1>1
  <2> QED BY <1>1, <2>1
<1>5. Made(s)' /\ ToCome(s)'
  BY <1>3, <1>4, PlaysNothing DEF Made, ToCome
<1> QED BY <1>1, <1>2, <1>5 DEF HistoryInv, stacks, flags, Playing

\* After it, a change is recorded.
LEMMA HistoryRecord ==
  ASSUME ModelShape, HistoryInv, initialized, ~Playing, UNCHANGED <<redoStack, flags, call>>,
         NEW n \in Actionable, NEW v \in Values[n], value[n] # v, Assign(n, v)
  PROVE  HistoryInv'
<1> DEFINE c == Change(n, value[n], v)
<1>1. /\ n \in Nodes /\ value[n] \in Values[n] /\ c \in Undoables
      /\ c.node = n /\ c.old = value[n] /\ c.new = v
  BY NodesAssumption, UndoablesAre DEF ModelShape, Change
<1>2. /\ value' = [value EXCEPT ![n] = v] /\ ~ignoring
      /\ straight' = (straight /\ redoStack = <<>>)
      /\ \/ active # <<>> /\ active' = <<Append(active[1], c)>> /\ undoStack' = undoStack
         \/ active = <<>> /\ undoStack' = Limited(Append(undoStack, <<c>>)) /\ active' = active
  BY DEF Assign, Record, HistoryInv
<1>3. ~Playing' /\ initialized' /\ ~ignoring'
  BY <1>2 DEF Playing, flags
<1>4. ASSUME straight'
      PROVE  /\ redoStack' = <<>>
             /\ \E s \in States : Shows(s)' /\ Made(s)' /\ ToCome(s)'
  <2>0. straight /\ redoStack = <<>> /\ redoStack' = <<>>
    BY <1>2, <1>4
  <2>1. PICK s \in States : Shows(s) /\ Made(s)
    BY <2>0 DEF HistoryInv
  <2>2. PICK t : t = [s EXCEPT ![n] = v]
    OBVIOUS
  <2>3. t \in States
    BY <1>1, <2>2 DEF States
  <2>4. Turns(c, s, t) /\ Shows(t)'
    <3>1. /\ t[n] = v /\ \A m \in Actionable \ {n} : t[m] = s[m]
          /\ value'[n] = v /\ \A m \in Actionable \ {n} : value'[m] = value[m]
      BY <1>1, <1>2, <2>2, NodesAssumption DEF States, ModelShape
    <3> QED BY <1>1, <2>1, <3>1 DEF Turns, Shows
  <2>5. ToCome(t)'
    <3>1. <<>> \in Seq({<<>>})
      OBVIOUS
    <3>2. Trail(<<>>, t, FALSE)
      BY <2>3, <3>1, TrailNowhere
    <3> QED BY <2>0, <3>2 DEF ToCome
  <2>6. CASE active # <<>> /\ active' = <<Append(active[1], c)>> /\ undoStack' = undoStack
    <3>1. PICK r \in States : Trail(undoStack, r, TRUE) /\ Plays(active[1], r, s)
      BY <2>1, <2>6 DEF Made
    <3>2. Plays(Append(active[1], c), r, t)
      BY <1>1, <2>3, <2>4, <2>6, <3>1, MadeTyped, PlaysMore
    <3>3. active' # <<>> /\ active'[1] = Append(active[1], c)
      BY <2>6
    <3>4. Made(t)'
      BY <2>6, <3>1, <3>2, <3>3 DEF Made
    <3> QED BY <2>0, <2>3, <2>4, <2>5, <3>4
  <2>7. CASE active = <<>> /\ undoStack' = Limited(Append(undoStack, <<c>>)) /\ active' = active
    <3>1. Trail(undoStack, s, TRUE)
      BY <2>1, <2>7 DEF Made
    <3>2. <<>> \in Seq(Undoables) /\ Append(<<>>, c) = <<c>> /\ Append(<<>>, c) \in Seq(Undoables)
      BY <1>1
    <3>3. Plays(<<c>>, s, t)
      <4>1. Plays(<<>>, s, s)
        BY PlaysNothing
      <4> HIDE DEF c
      <4>2. Plays(Append(<<>>, c), s, t)
        BY <1>1, <2>3, <2>4, <3>2, <4>1, PlaysMore
      <4> QED BY <3>2, <4>2
    <3>4. Trail(Append(undoStack, <<c>>), t, TRUE)
      BY <2>3, <3>1, <3>2, <3>3, MadeTyped, TrailPush DEF Runs
    <3>5. Append(undoStack, <<c>>) \in Seq(Seq(Undoables))
      BY <3>2, MadeTyped
    <3>6. Made(t)'
      BY <2>7, <3>4, <3>5, TrailLimited DEF Made
    <3> QED BY <2>0, <2>3, <2>4, <2>5, <3>6
  <2> QED BY <1>2, <2>6, <2>7
<1> HIDE DEF c
<1> QED BY <1>3, <1>4 DEF HistoryInv

\* undo() and redo() go one change back or on, and record nothing.
LEMMA HistoryPlayed ==
  ASSUME ModelShape, SettingsMirror, HistoryInv, straight, Playing, AssignNext
  PROVE  HistoryInv'
<1>0. PICK a \in Seq(Undoables) : a = call.action
  BY MadeTyped
<1>1. PICK l \in Nat, m \in Nat : l = Len(a) /\ m = Len(todo)
  <2>1. Len(a) \in Nat
    OBVIOUS
  <2>2. todo \in Seq(Sets)
    BY DEF ModelShape
  <2>3. Len(todo) \in Nat
    BY <2>2
  <2> QED BY <2>1, <2>3
<1>2. PICK path : /\ Passes(a, path) /\ Made(path[0]) /\ ToCome(path[l]) /\ m <= l
                  /\ Shows(path[Reached])
                  /\ \A i \in 1 .. m : todo[i] = Played[l - m + i]
  BY <1>0, <1>1 DEF HistoryInv, InPlay
<1>3. m >= 1 /\ Head(todo) = todo[1]
  <2>1. todo # <<>> /\ todo \in Seq(Sets)
    BY DEF AssignNext, ModelShape
  <2> QED BY <1>1, <2>1
\* The position in the action, and the state that comes.
<1>4. PICK j \in 1 .. l, next \in 0 .. l :
        /\ Head(todo).node = a[j].node
        /\ call.op = "undo" => j = m /\ next = m - 1 /\ Head(todo).value = a[j].old
        /\ call.op # "undo" => j = l - m + 1 /\ next = j /\ Head(todo).value = a[j].new
  <2>1. Head(todo) = Played[l - m + 1] /\ l - m + 1 \in 1 .. l
    BY <1>2, <1>3
  <2>2. CASE call.op = "undo"
    <3>1. Head(todo) = Set(a[m].node, a[m].old)
      BY <1>0, <1>1, <2>1, <2>2 DEF Played, Backward
    <3>2. m \in 1 .. l /\ m - 1 \in 0 .. l
      BY <1>2, <1>3
    <3> QED BY <2>2, <3>1, <3>2 DEF Set
  <2>3. CASE call.op # "undo"
    <3>1. PICK i \in 1 .. l : i = l - m + 1
      BY <2>1
    <3>2. Head(todo) = Set(a[i].node, a[i].new)
      BY <1>0, <1>1, <2>1, <2>3, <3>1 DEF Played, Forward
    <3> QED BY <2>3, <3>1, <3>2 DEF Set
  <2> QED BY <2>2, <2>3
<1>5. PICK n, v : n = Head(todo).node /\ v = Head(todo).value
  OBVIOUS
<1>6. a[j] \in Undoables /\ n \in Actionable /\ n \in Nodes /\ v \in Values[n]
  <2>1. a[j] \in Undoables
    BY <1>1, ElementOfSeq
  <2> HIDE DEF Undoables
  <2> QED BY <1>4, <1>5, <2>1, UndoablesAre
<1>7. /\ Assign(n, v) /\ UNCHANGED <<redoStack, flags, call>> /\ n # "input"
      /\ todo' = Tail(todo) /\ ~searching'
  BY <1>5, <1>6, AssignNextStep, NodesApart
<1>8. UNCHANGED <<stacks, straight>> /\ value' = [value EXCEPT ![n] = v]
  <2>1. ~initialized \/ ignoring
    BY DEF HistoryInv
  <2>2. value' = [value EXCEPT ![n] = v]
    BY <1>6, <1>7, AssignValue
  <2> QED BY <1>7, <2>1, <2>2 DEF Assign, Record, stacks
<1>9. Len(todo') = m - 1 /\ \A i \in 1 .. m - 1 : todo'[i] = Played[l - (m - 1) + i]
  <2>1. todo # <<>> /\ todo \in Seq(Sets)
    BY DEF AssignNext, ModelShape
  <2>2. Len(todo') = m - 1 /\ \A i \in 1 .. m - 1 : todo'[i] = todo[i + 1]
    BY <1>1, <1>7, <2>1
  <2>3. ASSUME NEW i \in 1 .. m - 1
        PROVE  todo[i + 1] = Played[l - (m - 1) + i]
    <3>1. i + 1 \in 1 .. m /\ l - m + (i + 1) = l - (m - 1) + i
      BY <2>3
    <3> QED BY <1>2, <3>1
  <2> QED BY <2>2, <2>3
<1>10. Reached' = next /\ Played' = Played
  BY <1>0, <1>1, <1>4, <1>7, <1>9, SMTT(30) DEF Reached, Played, Playing
<1>11. Shows(path[next])'
  <2>1. Turns(a[j], path[j - 1], path[j])
    BY <1>1, <1>2 DEF Passes
  <2>2. path[j - 1][n] = a[j].old /\ path[j][n] = a[j].new
    BY <1>4, <1>5, <2>1 DEF Turns
  <2>3. \A k \in Actionable \ {n} : path[j - 1][k] = path[j][k]
    BY <1>4, <1>5, <2>1 DEF Turns
  <2>4. value'[n] = v /\ \A k \in Actionable \ {n} : value'[k] = value[k]
    BY <1>6, <1>8, NodesAssumption DEF ModelShape
  <2>5. CASE call.op = "undo"
    <3>1. Reached = j /\ next = j - 1 /\ v = a[j].old
      BY <1>1, <1>4, <1>5, <2>5 DEF Reached
    <3> QED BY <1>2, <2>2, <2>3, <2>4, <3>1 DEF Shows
  <2>6. CASE call.op # "undo"
    <3>1. Reached = j - 1 /\ next = j /\ v = a[j].new
      BY <1>0, <1>1, <1>4, <1>5, <2>6 DEF Reached
    <3> QED BY <1>2, <2>2, <2>3, <2>4, <3>1 DEF Shows
  <2> QED BY <2>5, <2>6
<1>12. InPlay'
  <2>1. call'.action = a /\ Len(call'.action) = l
    BY <1>0, <1>1, <1>7
  <2>2. Made(path[0])' /\ ToCome(path[l])'
    BY <1>2, <1>8 DEF Made, ToCome, stacks
  <2>3. m - 1 <= l
    BY <1>2
  <2> QED BY <1>2, <1>9, <1>10, <1>11, <2>1, <2>2, <2>3 DEF InPlay
<1>13. Playing'
  BY <1>7 DEF Playing
<1> QED BY <1>7, <1>8, <1>12, <1>13 DEF HistoryInv, stacks, flags

LEMMA HistoryAssign ==
  ASSUME TypeOK, ModelShape, SettingsMirror, HistoryInv, ModelShape', AssignNext
  PROVE  HistoryInv'
<1>1. PICK n, v : n = Head(todo).node /\ v = Head(todo).value
  OBVIOUS
<1>2. /\ n \in Nodes /\ v \in Values[n] /\ Assign(n, v) /\ UNCHANGED <<redoStack, flags, call>>
      /\ value' = [value EXCEPT ![n] = v]
  BY <1>1, AssignNextStep, AssignValue
<1>3. Playing' <=> Playing
  BY <1>2 DEF Playing
<1>4. CASE straight /\ Playing
  BY <1>4, HistoryPlayed
<1>5. CASE ~straight /\ Playing
  <2>1. UNCHANGED stacks /\ ~straight'
    BY <1>2, <1>5 DEF Assign, Record, stacks, HistoryInv
  <2> QED BY <1>2, <1>3, <1>5, <2>1 DEF HistoryInv, stacks, flags
<1>6. CASE ~Playing /\ ~initialized
  <2>1. UNCHANGED <<stacks, straight>>
    BY <1>2, <1>6 DEF Assign, Record, stacks
  <2> QED BY <1>2, <1>6, <2>1, HistoryBefore
<1>7. CASE ~Playing /\ initialized /\ n \in Actionable /\ value[n] # v
  BY <1>2, <1>7, HistoryRecord
<1>8. CASE ~Playing /\ (n \notin Actionable \/ value[n] = v)
  <2>1. UNCHANGED <<stacks, straight>>
    BY <1>2, <1>8 DEF Assign, Record, stacks
  <2>2. \A k \in Actionable : value'[k] = value[k]
    BY <1>2, <1>8, NodesAssumption DEF ModelShape
  <2> QED BY <1>2, <1>3, <1>8, <2>1, <2>2, HistoryQuiet
<1> QED BY <1>4, <1>5, <1>6, <1>7, <1>8

\* What undo() has taken back can be redone, and the other way round.
LEMMA HistoryReturn ==
  ASSUME ModelShape, HistoryInv, Return
  PROVE  HistoryInv'
<1>1. /\ call # NoCall /\ todo = <<>> /\ call' = NoCall /\ ~Playing' /\ call'.action = <<>>
      /\ UNCHANGED <<value, active, straight>>
  BY DEF Return, Playing, NoCall
<1>2. \A s : Shows(s)' <=> Shows(s)
  BY <1>1 DEF Shows
<1>3. CASE call.op \in {"set", "initialize"}
  <2>1. UNCHANGED <<undoStack, redoStack>> /\ (initialized' => ~ignoring') /\ (initialized => initialized')
    BY <1>3 DEF Return, HistoryInv, flags, Playing
  <2>2. \A s : (Made(s)' <=> Made(s)) /\ (ToCome(s)' <=> ToCome(s))
    BY <1>1, <2>1 DEF Made, ToCome
  <2>3. ~Playing
    BY <1>3 DEF Playing
  <2> QED BY <1>1, <1>2, <2>1, <2>2, <2>3 DEF HistoryInv
<1>4. CASE Playing
  <2>0. PICK a \in Seq(Undoables) : a = call.action
    BY MadeTyped
  <2>1. PICK l \in Nat : l = Len(a)
    OBVIOUS
  <2>2. /\ ~ignoring' /\ initialized' = initialized
        /\ call.op = "undo" => redoStack' = Limited(Append(redoStack, a)) /\ undoStack' = undoStack
        /\ call.op # "undo" => undoStack' = Limited(Append(undoStack, a)) /\ redoStack' = redoStack
    BY <1>4, <2>0 DEF Return, Playing
  <2>3. ASSUME ~initialized
        PROVE  undoStack' \in Seq({<<>>}) /\ redoStack' \in Seq({<<>>})
    <3>1. /\ undoStack \in Seq({<<>>}) /\ redoStack \in Seq({<<>>}) /\ a \in {<<>>}
          /\ Len(undoStack) <= Limit /\ Len(redoStack) <= Limit
      BY <2>0, <2>3 DEF HistoryInv, ModelShape
    <3>2. /\ Limited(Append(undoStack, a)) \in Seq({<<>>})
          /\ Limited(Append(redoStack, a)) \in Seq({<<>>})
      BY <3>1, LimitedPush
    <3> QED BY <2>2, <3>1, <3>2
  <2>4. ASSUME straight
        PROVE  /\ active' \in NoChange
               /\ \E s \in States : Shows(s)' /\ Made(s)' /\ ToCome(s)'
    <3>1. active \in NoChange /\ InPlay
      BY <1>4, <2>4 DEF HistoryInv
    <3>2. PICK path : /\ Passes(a, path) /\ Made(path[0]) /\ ToCome(path[l]) /\ Shows(path[Reached])
      BY <2>0, <2>1, <3>1 DEF InPlay
    <3>3. PICK s, t : s = path[0] /\ t = path[l]
      OBVIOUS
    <3>4. Plays(a, s, t) /\ s \in States /\ t \in States
      BY <2>1, <3>2, <3>3, PlaysBetween DEF Plays
    <3>5. Len(todo) = 0
      BY <1>1
    <3>6. CASE call.op = "undo"
      <4>1. Shows(s)' /\ Made(s)'
        BY <1>1, <1>2, <2>2, <3>2, <3>3, <3>5, <3>6 DEF Reached, Made
      <4>2. Trail(Append(redoStack, a), s, FALSE)
        BY <3>2, <3>3, <3>4, MadeTyped, TrailPush DEF ToCome, Runs
      <4>3. Append(redoStack, a) \in Seq(Seq(Undoables))
        BY MadeTyped
      <4>4. ToCome(s)'
        BY <2>2, <3>6, <4>2, <4>3, TrailLimited DEF ToCome
      <4> QED BY <1>1, <3>1, <3>4, <4>1, <4>4
    <3>7. CASE call.op # "undo"
      <4>0. Reached = l
        BY <2>0, <2>1, <3>5, <3>7 DEF Reached
      <4>1. Shows(t)' /\ ToCome(t)'
        <5>1. Shows(t)'
          BY <1>2, <3>2, <3>3, <4>0
        <5>2. ToCome(t)'
          BY <2>2, <3>2, <3>3, <3>7 DEF ToCome
        <5> QED BY <5>1, <5>2
      <4>2. Trail(undoStack, s, TRUE)
        <5>1. CASE active = <<>>
          BY <3>2, <3>3, <5>1 DEF Made
        <5>2. CASE active = << <<>> >>
          <6>1. PICK r \in States : Trail(undoStack, r, TRUE) /\ Plays(<<>>, r, s)
            BY <3>2, <3>3, <5>2 DEF Made
          <6> QED BY <6>1, PlaysNothing
        <5> QED BY <3>1, <5>1, <5>2 DEF NoChange
      <4>3. Trail(Append(undoStack, a), t, TRUE)
        BY <3>4, <4>2, MadeTyped, TrailPush DEF Runs
      <4>4. Append(undoStack, a) \in Seq(Seq(Undoables))
        BY MadeTyped
      <4>5. Trail(undoStack, t, TRUE)'
        BY <2>2, <3>7, <4>3, <4>4, TrailLimited
      <4>6. active' # <<>> => active'[1] = <<>>
        BY <1>1, <3>1 DEF NoChange
      <4>7. Made(t)'
        BY <3>4, <4>5, <4>6, PlaysNothing DEF Made
      <4> QED BY <1>1, <3>1, <3>4, <4>1, <4>7
    <3> QED BY <3>6, <3>7
  <2>5. ~initialized => active' \in Seq({<<>>})
    BY <1>1 DEF HistoryInv
  <2> QED BY <1>1, <2>2, <2>3, <2>4, <2>5 DEF HistoryInv
<1> QED BY <1>3, <1>4 DEF ModelShape, Playing, Return

LEMMA HistoryStart ==
  ASSUME NEW initial, Restart(initial), ModelShape'
  PROVE  HistoryInv'
<1>1. /\ undoStack' = <<>> /\ redoStack' = <<>> /\ active' = <<>> /\ ~initialized'
      /\ call'.action = <<>> /\ ~Playing'
  BY DEF Restart, NoCall, Playing
<1>2. <<>> \in Seq({<<>>})
  OBVIOUS
<1>3. PICK s \in States : Shows(s)'
  BY NowShown
<1>4. Trail(<<>>, s, TRUE) /\ Trail(<<>>, s, FALSE)
  BY <1>2, TrailNowhere
<1>5. Made(s)' /\ ToCome(s)'
  BY <1>1, <1>4 DEF Made, ToCome
<1> QED BY <1>1, <1>2, <1>3, <1>5 DEF HistoryInv

LEMMA HistoryInit == ModelInit(Constructed) => HistoryInv
<1> SUFFICES ASSUME ModelInit(Constructed) PROVE HistoryInv
  OBVIOUS
<1>1. /\ undoStack = <<>> /\ redoStack = <<>> /\ active = <<>> /\ ~initialized
      /\ call.action = <<>> /\ ~Playing /\ value = Constructed
  BY DEF ModelInit, NoCall, Playing
<1>2. <<>> \in Seq({<<>>})
  OBVIOUS
<1>3. PICK s \in States : Shows(s)
  <2>1. \A n \in Actionable : n \in Nodes /\ value[n] \in Values[n]
    BY <1>1, NodesAssumption, ConstructedTyped
  <2>2. [n \in Actionable |-> value[n]] \in States
    BY <2>1 DEF States
  <2> QED BY <2>2 DEF Shows
<1>4. Trail(<<>>, s, TRUE) /\ Trail(<<>>, s, FALSE)
  BY <1>2, TrailNowhere
<1>5. Made(s) /\ ToCome(s)
  BY <1>1, <1>4 DEF Made, ToCome
<1> QED BY <1>1, <1>2, <1>3, <1>5 DEF HistoryInv

LEMMA HistoryStep ==
  ASSUME TypeOK, ModelShape, SettingsMirror, ResultsInv, HistoryInv, ModelShape', [Next]_vars
  PROVE  HistoryInv'
<1>0. searching => call # NoCall
  BY DEF ResultsInv
\* A call begins that plays nothing, or nothing happens.
<1>1. ASSUME call = NoCall, call'.action = <<>>, call'.op \notin {"undo", "redo"},
             UNCHANGED <<value, stacks, flags, straight>>
      PROVE  HistoryInv'
  <2>1. ~Playing /\ ~Playing'
    BY <1>1 DEF Playing, NoCall
  <2> QED BY <1>1, <2>1, HistoryQuiet
<1>2. CASE UNCHANGED <<modelVars, searching, answer>>
  BY <1>2, HistoryQuiet DEF modelVars
<1>3. ASSUME NEW n, NEW v, SetValue(n, v)
      PROVE  HistoryInv'
  BY <1>1, <1>3 DEF SetValue, Begin
<1>4. CASE Initialize
  BY <1>1, <1>4 DEF Initialize, Begin
<1>5. CASE StartAction \/ EndAction
  BY <1>5, HistoryActions
<1>6. CASE (Undo \/ Redo) /\ UNCHANGED searching
  <2>1. ~searching'
    BY <1>0, <1>6 DEF Undo, Redo, Begin, TypeOK
  <2> QED BY <1>6, <2>1, HistoryUndo, HistoryRedo
<1>7. CASE AssignNext
  BY <1>7, HistoryAssign
<1>8. CASE Answered
  <2>1. searching /\ UNCHANGED <<value, stacks, flags, call, straight>>
    BY <1>8, AnsweredStep
  <2>2. straight => ~Playing
    BY <2>1 DEF HistoryInv
  <2>3. Playing' <=> Playing
    BY <2>1 DEF Playing
  <2> QED BY <2>1, <2>2, <2>3, HistoryQuiet
<1>9. CASE ReturnToView
  BY <1>9, HistoryReturn DEF ReturnToView
<1>10. CASE SetStatus
  <2>1. PICK n \in Status : \E v \in Values[n] :
           /\ n \in Nodes \ (Persistent \cup Actionable \cup Results \cup {"input"})
           /\ Assign(n, v) /\ UNCHANGED <<redoStack, flags, call, todo, searching, answer>>
    BY <1>10, SetStatusStep
  <2>2. PICK v \in Values[n] : Assign(n, v)
    BY <2>1
  <2>3. value' = [value EXCEPT ![n] = v]
    BY <2>1, <2>2, AssignValue
  <2>4. UNCHANGED <<stacks, straight>>
    BY <2>1, <2>2 DEF Assign, Record, stacks
  <2>5. \A m \in Actionable : value'[m] = value[m]
    BY <2>1, <2>3, NodesAssumption DEF ModelShape
  <2> QED BY <2>1, <2>4, <2>5, HistoryQuiet
<1>11. CASE StartAgain
  BY <1>11, HistoryStart DEF StartAgain
<1> QED BY <1>2, <1>3, <1>4, <1>5, <1>6, <1>7, <1>8, <1>9, <1>10, <1>11, ModelSteps

\* The actions to be redone, in the order in which redo() takes them.
LEMMA ToRedo ==
  ASSUME ModelShape, NEW s \in States, ToCome(s)
  PROVE  /\ Future \in Seq(Seq(Undoables))
         /\ \E P : P[0] = s /\ \A k \in 1 .. Len(Future) : Plays(Future[k], P[k - 1], P[k])
<1>1. PICK l \in Nat : l = Len(redoStack)
  BY MadeTyped
<1>2. /\ Future = [i \in 1 .. l |-> redoStack[l - i + 1]]
      /\ \A i \in 1 .. l : redoStack[i] \in Seq(Undoables)
  BY <1>1, MadeTyped DEF Future, Reverse
<1>3. Future \in [1 .. l -> Seq(Undoables)]
  <2>1. \A i \in 1 .. l : l - i + 1 \in 1 .. l
    OBVIOUS
  <2> QED BY <1>2, <2>1
<1>4. Future \in Seq(Seq(Undoables)) /\ Len(Future) = l
  BY <1>3, SeqDef, LenProperties
<1>5. PICK path \in [0 .. l -> States] :
        path[l] = s /\ \A k \in 1 .. l : Runs(redoStack[k], path[k - 1], path[k], FALSE)
  BY <1>1 DEF ToCome, Trail
<1>6. PICK P : P = [i \in 0 .. l |-> path[l - i]]
  OBVIOUS
<1>7. P[0] = s
  BY <1>5, <1>6
<1>8. ASSUME NEW k \in 1 .. l
      PROVE  Plays(Future[k], P[k - 1], P[k])
  <2>1. PICK i \in 1 .. l : i = l - k + 1
    OBVIOUS
  <2>2. Plays(redoStack[i], path[i], path[i - 1])
    BY <1>5 DEF Runs
  <2>3. k \in 0 .. l /\ k - 1 \in 0 .. l /\ l - k = i - 1 /\ l - (k - 1) = i
    BY <2>1
  <2>4. P[k] = path[i - 1] /\ P[k - 1] = path[i]
    BY <1>6, <2>3
  <2> QED BY <1>2, <2>1, <2>2, <2>4
<1> QED BY <1>4, <1>7, <1>8

LEMMA HistoryHolds == ModelShape /\ HistoryInv => HistoryLinked
<1> SUFFICES ASSUME ModelShape, HistoryInv, straight, call = NoCall
             PROVE  HistoryLinked
  BY DEF HistoryLinked
<1>1. PICK s \in States : Shows(s) /\ Made(s) /\ ToCome(s)
  BY DEF HistoryInv, Playing, NoCall
<1>2. Past \in Seq(Seq(Undoables))
  BY DEF Past, ModelShape
<1>3. PICK P : P[Len(Past)] = s /\ \A k \in 1 .. Len(Past) : Plays(Past[k], P[k - 1], P[k])
  BY <1>1, EndedTrail DEF Past, Trail, Runs
<1>4. PICK Q : Q[0] = s /\ \A k \in 1 .. Len(Future) : Plays(Future[k], Q[k - 1], Q[k])
  BY <1>1, ToRedo
<1>5. Future \in Seq(Seq(Undoables))
  BY <1>1, ToRedo
<1>6. /\ Linked(Past)
      /\ \A p \in Places(Past) :
           (\A q \in Places(Past) : Before(p, q) => ~SameNode(Past, p, q)) =>
             At(Past, p).new = s[At(Past, p).node]
  BY <1>2, <1>3, TrailLinks
<1>7. /\ Linked(Future)
      /\ \A q \in Places(Future) :
           (\A p \in Places(Future) : Before(p, q) => ~SameNode(Future, p, q)) =>
             At(Future, q).old = s[At(Future, q).node]
  BY <1>4, <1>5, TrailLinks
<1>8. /\ \A p \in Places(Past) : At(Past, p).node \in Actionable
      /\ \A q \in Places(Future) : At(Future, q).node \in Actionable
  BY <1>2, <1>5, PlacesAre
<1> QED BY <1>1, <1>6, <1>7, <1>8 DEF Shows, HistoryLinked

\* Unless something was recorded while there was something to redo, what undo() and redo()
\* would play back is one history through the present values: after every change, action,
\* undo(), redo() and fall of the oldest action off a full stack, for every limit.
THEOREM HistoryStaysLinked == Spec => []HistoryLinked
<1>1. Init => HistoryInv
  BY HistoryInit DEF Init
<1>2. IInv /\ IInv' /\ HistoryInv /\ [Next]_vars => HistoryInv'
  BY HistoryStep DEF IInv, SettingsInv
<1>3. IInv /\ HistoryInv => HistoryLinked
  BY HistoryHolds DEF IInv
<1> QED BY Invariance, <1>1, <1>2, <1>3, PTL DEF Spec

=============================================================================
