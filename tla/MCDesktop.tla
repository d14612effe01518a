------------------------------ MODULE MCDesktop ------------------------------
(***************************************************************************)
(* The nodes of the program; the three nodes of exclusions are two here.   *)
(* A behaviour has two texts and a daemon that changes; one of each and    *)
(* another call of the model; five other calls, enough for an action that  *)
(* is undone and redone; or two and then a second life of the program.     *)
(***************************************************************************)
EXTENDS Desktop

MCOrder == <<"daemon_count", "dir_exclusions", "file_exclusions", "input", "result_count",
             "result_dirs", "result_exts", "result_files", "connected", "indexing">>
MCNodes == ToSet(MCOrder)
MCExclusions == {"dir_exclusions", "file_exclusions"}

MCTexts   == {"a", "b"}
MCReplies == {<<"f">>, <<"f", "g">>}
MCOutputs == {"connected", "result_files"}

MCValues == [n \in MCNodes |->
  CASE n = "input" -> MCTexts \cup {""}
    [] n \in Status -> BOOLEAN
    [] n = "daemon_count" -> 0 .. 1
    [] n = "result_count" -> 0 .. 2
    [] n \in MCExclusions -> {<<>>, <<"x">>}
    [] OTHER -> MCReplies \cup {<<>>}]
MCDefault == [n \in MCNodes |->
  CASE n = "input" -> ""
    [] n \in Status -> FALSE
    [] n \in {"daemon_count", "result_count"} -> 0
    [] OTHER -> <<>>]

Budget(typed, changed, turns, restarts) ==
  [typed |-> typed, changed |-> changed, turns |-> turns, restarts |-> restarts]
MCBudgets == {Budget(2, 0, 1, 0), Budget(1, 1, 1, 0), Budget(0, 5, 0, 0), Budget(0, 2, 0, 1)}

=============================================================================
