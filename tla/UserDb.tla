------------------------------- MODULE UserDb -------------------------------
(***************************************************************************)
(* What the interface UserDb of core/vca/userdb.h promises its callers,    *)
(* the scanner, the watcher and the HTTP server: an index of documents, a  *)
(* document being the path of a file and the words it was indexed under.   *)
(* There are no ids, no word table, no cache and no transactions here; a   *)
(* call either takes effect as a whole or not at all.                      *)
(*                                                                         *)
(* One thing is weaker than its name suggests: removing or moving a file   *)
(* takes along the files of the same relative path under the other roots   *)
(* (its twins), since the statements of remove_file() and move_file() name *)
(* no root.                                                                *)
(***************************************************************************)
EXTENDS Paths

CONSTANTS Dirs, Files, Words

VARIABLE index      \* a set of documents [path, words]

\* The files the index cannot tell from p once a root is taken off.
Twins(p) ==
  {q \in Files : \E d, e \in Dirs : /\ IsParentOf(d, p) /\ IsParentOf(e, q)
                                    /\ Relative(p, d) = Relative(q, e)}

Init == index = {}

\* A new process: the roots are scanned again from nothing.
Reset == index' = {}

DropDir(dir) == index' = {x \in index : ~IsParentOf(dir, x.path)}

Put(p, W) ==
  index' = {x \in index : x.path # p} \cup {[path |-> p, words |-> W]}

Drop(p) == index' = {x \in index : x.path \notin Twins(p)}

\* The words stay those of the old path, and a file at q stays in the index.
Move(p, q) ==
  index' = {x \in index : x.path \notin Twins(p)}
             \cup {[path |-> q, words |-> x.words] : x \in {y \in index : y.path \in Twins(p)}}

Next ==
  \/ Reset
  \/ \E dir \in Dirs : DropDir(dir)
  \/ \E p \in Files : Drop(p) \/ \E W \in SUBSET Words : Put(p, W)
  \/ \E p, q \in Files : Move(p, q)

Spec == Init /\ [][Next]_index

=============================================================================
