------------------------------ MODULE MCIndexer ------------------------------
(***************************************************************************)
(* Two directories.  The files a/x and b/x are twins: the database cannot  *)
(* tell them apart once the directory is taken off.                        *)
(***************************************************************************)
EXTENDS Indexer

MCNames  == {"a", "b", "x", "y"}
MCDirs   == {<<"a">>, <<"b">>}
MCTwins  == {<<"a", "x">>, <<"b", "x">>}
MCFiles  == MCTwins \cup {<<"a", "y">>}
MCOneDir == {<<"a">>}
MCBroken == {<<"a", "y">>}
MCDamaged == {<<"b", "x">>}
NoFile   == {}

=============================================================================
