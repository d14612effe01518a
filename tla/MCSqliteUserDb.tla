--------------------------- MODULE MCSqliteUserDb ---------------------------
(***************************************************************************)
(* Two sibling root directories that hold a file of the same name, so that *)
(* a relative path does not identify a file, and two words of which one    *)
(* contains the other.                                                     *)
(***************************************************************************)
EXTENDS SqliteUserDb

MCNames   == {"a", "b", "x", "y"}
MCDirs    == {<<"a">>, <<"b">>}
MCFiles   == {<<"a", "x">>, <<"b", "x">>}
MCMoreFiles == MCFiles \cup {<<"a", "y">>}
MCWords   == {1, 2}
MCQueries == {<<1>>, <<1, 2>>, <<2, 1>>}
NoQuery   == {}
MCLike    == <<{1, 2}, {2}>>

=============================================================================
