------------------------------- MODULE Paths -------------------------------
(***************************************************************************)
(* Paths of core/vca/filesystem.{h,cpp}.  A path is the sequence of its    *)
(* components; the text of a component is left out, it is a member of some *)
(* small set.  (A path with a trailing separator has one more, empty,      *)
(* component: Qt and the file system watcher never produce one.)           *)
(***************************************************************************)
EXTENDS Sequences, Integers, SequencesExt

\* Path::is_parent_of: every component of dir is one of p, and p has more.
IsParentOf(dir, p) == IsStrictPrefix(dir, p)

\* vca::relative(p, dir), which the code calls only when dir is a parent of p.
Relative(p, dir) == SubSeq(p, Len(dir) + 1, Len(p))

\* Path::operator/ with a relative right-hand side.
Join(dir, rel) == dir \o rel

=============================================================================
