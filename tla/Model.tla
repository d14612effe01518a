------------------------------- MODULE Model -------------------------------
(***************************************************************************)
(* The model behind the desktop's view: named nodes that hold values, the  *)
(* settings file that remembers the persistent ones, and the actions that  *)
(* undo() and redo() play back.                                            *)
(*                                                                         *)
(* desktop/src/qtc/Model.{h,cpp}, NodeBase.{h,cpp}, Node.h and Action.h.   *)
(*                                                                         *)
(* A call of the model is a list of assignments to nodes, made one by one  *)
(* (listeners run in between, in module Desktop), and what the call does   *)
(* at its end.  QSettings is a mapping that outlives the process.          *)
(***************************************************************************)
EXTENDS Integers, SequencesExt

CONSTANTS
  Nodes,       \* the nodes of all handlers
  Order,       \* the nodes in the order of their paths
  Values,      \* for each node, the values of its type
  Default,     \* for each node, its default
  Actionable,  \* the nodes whose changes can be undone
  Persistent,  \* the nodes the settings remember
  Limit,       \* the number of actions a stack keeps (100 in limitActions)
  Absent       \* not a value: the settings have no such key

ASSUME NodesAssumption ==
  /\ Order \in Seq(Nodes) /\ ToSet(Order) = Nodes
  /\ Actionable \subseteq Nodes /\ Persistent \subseteq Nodes
  /\ Default = [n \in Nodes |-> Default[n]]
  /\ \A n \in Nodes : Default[n] \in Values[n] /\ Absent \notin Values[n]
ASSUME LimitAssumption == Limit \in Nat \ {0}

VARIABLES
  value,        \* NodeBase::mValue of each node
  settings,     \* mSettings: for each node, what is stored or Absent
  active,       \* mActiveAction: <<>> or <<action>>
  undoStack,    \* actions, the newest last; an action is a sequence of changes
  redoStack,
  ignoring,     \* mIgnoreChanges
  initialized,  \* mInitialized
  call,         \* the call the main thread is in: [op, action]
  todo,         \* the assignments [node, value] it has still to make
  straight      \* history: nothing was recorded while there was something to redo

stacks    == <<active, undoStack, redoStack>>
flags     == <<ignoring, initialized>>
modelVars == <<value, settings, stacks, flags, call, todo, straight>>

Set(n, v)         == [node |-> n, value |-> v]
Change(n, old, v) == [node |-> n, old |-> old, new |-> v]
NoCall            == [op |-> "none", action |-> <<>>]

\* What initialize() reads for n.
Stored(n) == IF settings[n] = Absent THEN Default[n] ELSE settings[n]

\* Mutation: the limit is one more.
LimitedLate(stack) == IF Len(stack) > Limit + 1 THEN Tail(stack) ELSE stack

\* limitActions() after a push.
Limited(stack) == IF Len(stack) > Limit THEN Tail(stack) ELSE stack

ModelInit(initial) ==
  /\ value = initial
  /\ settings = [n \in Nodes |-> Absent]
  /\ active = <<>> /\ undoStack = <<>> /\ redoStack = <<>>
  /\ ignoring = TRUE /\ initialized = FALSE
  /\ call = NoCall /\ todo = <<>>
  /\ straight = TRUE

-----------------------------------------------------------------------------
(* An assignment: NodeBase::setValueUnsafe *)

\* Mutation: nothing is stored while changes are ignored.
StoreUnlessIgnoring(n, v) ==
  settings' = IF initialized /\ n \in Persistent /\ ~ignoring
                THEN [settings EXCEPT ![n] = IF v = Default[n] THEN Absent ELSE v]
                ELSE settings

\* trackValueChange: a persistent node is stored, its default as no entry.
Store(n, v) ==
  settings' = IF initialized /\ n \in Persistent
                THEN [settings EXCEPT ![n] = IF v = Default[n] THEN Absent ELSE v]
                ELSE settings

\* trackValueChange: a change joins the active action, or is an action of its own.
Record(n, v) ==
  LET change == Change(n, value[n], v)
  IN  \/ /\ initialized /\ n \in Actionable /\ ~ignoring
         /\ straight' = (straight /\ redoStack = <<>>)
         /\ \/ /\ active # <<>>
               /\ active' = <<Append(active[1], change)>>
               /\ UNCHANGED undoStack
            \/ /\ active = <<>>
               /\ undoStack' = Limited(Append(undoStack, <<change>>))
               /\ UNCHANGED active
      \/ /\ ~initialized \/ n \notin Actionable \/ ignoring
         /\ UNCHANGED <<active, undoStack, straight>>

\* An assignment of the same value is none.
Assign(n, v) ==
  \/ /\ value[n] # v
     /\ value' = [value EXCEPT ![n] = v]
     /\ Store(n, v) /\ Record(n, v)
  \/ /\ value[n] = v
     /\ UNCHANGED <<value, settings, active, undoStack, straight>>

-----------------------------------------------------------------------------
(* The calls *)

Begin(op, action, sets) ==
  /\ call = NoCall
  /\ call' = [op |-> op, action |-> action]
  /\ todo' = sets

SetValue(n, v) ==
  /\ Begin("set", <<>>, <<Set(n, v)>>)
  /\ UNCHANGED <<value, settings, stacks, flags, straight>>

\* Once only: every node gets its setting or, if it has none, its default.
Initialize ==
  /\ ~initialized
  /\ Begin("initialize", <<>>, [i \in 1 .. Len(Order) |-> Set(Order[i], Stored(Order[i]))])
  /\ UNCHANGED <<value, settings, stacks, flags, straight>>

StartAction ==
  /\ call = NoCall
  /\ active = <<>>
  /\ active' = << <<>> >>
  /\ UNCHANGED <<value, settings, undoStack, redoStack, flags, call, todo, straight>>

\* The undo stack once the active action, if there is one, has been pushed.
Ended == IF active = <<>> THEN undoStack ELSE Limited(undoStack \o active)

EndAction ==
  /\ call = NoCall
  /\ active # <<>>
  /\ undoStack' = Ended
  /\ active' = <<>>
  /\ UNCHANGED <<value, settings, redoStack, flags, call, todo, straight>>

\* Mutation: undo() plays the changes in the order they were made in.
BackwardInOrder(action) ==
  [i \in 1 .. Len(action) |-> Set(action[i].node, action[i].old)]

Backward(action) ==
  [i \in 1 .. Len(action) |->
     LET change == action[Len(action) + 1 - i] IN Set(change.node, change.old)]

Forward(action) == [i \in 1 .. Len(action) |-> Set(action[i].node, action[i].new)]

\* undo() ends the active action first.
Undo ==
  /\ Ended # <<>>
  /\ Begin("undo", Last(Ended), Backward(Last(Ended)))
  /\ undoStack' = Front(Ended)
  /\ active' = <<>>
  /\ ignoring' = TRUE
  /\ UNCHANGED <<value, settings, redoStack, initialized, straight>>

\* redo() does not.
Redo ==
  /\ redoStack # <<>>
  /\ Begin("redo", Last(redoStack), Forward(Last(redoStack)))
  /\ redoStack' = Front(redoStack)
  /\ ignoring' = TRUE
  /\ UNCHANGED <<value, settings, active, undoStack, initialized, straight>>

\* The next assignment of the call, after which there are the rest to make: those that
\* were left, and those that a listener of the node makes before them.
Step(rest) ==
  /\ todo # <<>>
  /\ Assign(Head(todo).node, Head(todo).value)
  /\ todo' = rest
  /\ UNCHANGED <<redoStack, flags, call>>

\* The end of the call.
Return ==
  /\ call # NoCall /\ todo = <<>>
  /\ call' = NoCall
  /\ \/ call.op = "set" /\ UNCHANGED <<undoStack, redoStack, flags>>
     \/ /\ call.op = "initialize"
        /\ ignoring' = FALSE /\ initialized' = TRUE
        /\ UNCHANGED <<undoStack, redoStack>>
     \/ /\ call.op = "undo"
        /\ redoStack' = Limited(Append(redoStack, call.action))
        /\ ignoring' = FALSE
        /\ UNCHANGED <<undoStack, initialized>>
     \/ /\ call.op = "redo"
        /\ undoStack' = Limited(Append(undoStack, call.action))
        /\ ignoring' = FALSE
        /\ UNCHANGED <<redoStack, initialized>>
  /\ UNCHANGED <<value, settings, active, todo, straight>>

\* The process ends and starts again; only the settings stay.
Restart(initial) ==
  /\ value' = initial
  /\ active' = <<>> /\ undoStack' = <<>> /\ redoStack' = <<>>
  /\ ignoring' = TRUE /\ initialized' = FALSE
  /\ call' = NoCall /\ todo' = <<>>
  /\ straight' = TRUE
  /\ UNCHANGED settings

-----------------------------------------------------------------------------
(* Properties *)

Sets    == UNION {{Set(n, v) : v \in Values[n]} : n \in Nodes}
Changes == UNION {{Change(n, v, w) : v, w \in Values[n]} : n \in Nodes}

\* The type of the variables.
ModelTypeOK ==
  /\ \A n \in Nodes : value[n] \in Values[n] /\ settings[n] \in Values[n] \cup {Absent}
  /\ \A a \in ToSet(undoStack) \cup ToSet(redoStack) \cup ToSet(active) : a \in Seq(Changes)
  /\ Len(undoStack) <= Limit /\ Len(redoStack) <= Limit /\ Len(active) <= 1
  /\ {ignoring, initialized, straight} \subseteq BOOLEAN
  /\ call.op \in {"none", "set", "initialize", "undo", "redo"} /\ call.action \in Seq(Changes)
  /\ todo \in Seq(Sets)

\* From initialize() on, through changes, undo() and redo(), the settings hold what
\* the persistent nodes do: the next life of the program starts where this one is.
SettingsMirror == initialized => \A n \in Persistent : value[n] = Stored(n)

\* The places of the changes in a list of actions, and their order.
Places(actions) == UNION {{k} \X DOMAIN actions[k] : k \in DOMAIN actions}
At(actions, p)  == actions[p[1]][p[2]]
Before(p, q)    == p[1] < q[1] \/ (p[1] = q[1] /\ p[2] < q[2])

SameNode(actions, p, q) == At(actions, p).node = At(actions, q).node

\* Each change begins where the one before it on the same node ended.
Linked(actions) ==
  \A p, q \in Places(actions) :
    /\ Before(p, q) /\ SameNode(actions, p, q)
    /\ ~\E r \in Places(actions) : Before(p, r) /\ Before(r, q) /\ SameNode(actions, p, r)
    => At(actions, p).new = At(actions, q).old

Past   == undoStack \o active
Future == Reverse(redoStack)

\* The changes that can be undone and those that can be redone are one history that
\* leads through the present values.  So undo() brings back what was there and redo()
\* what it took away.  (Unless something was recorded while there was something to redo:
\* the redo stack is not cleared, and what it holds is stale.)
HistoryLinked ==
  straight /\ call = NoCall =>
    /\ Linked(Past) /\ Linked(Future)
    /\ \A p \in Places(Past) :
         (\A q \in Places(Past) : Before(p, q) => ~SameNode(Past, p, q)) =>
           At(Past, p).new = value[At(Past, p).node]
    /\ \A q \in Places(Future) :
         (\A p \in Places(Future) : Before(p, q) => ~SameNode(Future, p, q)) =>
           At(Future, q).old = value[At(Future, q).node]

=============================================================================
