---------------------------- MODULE MCUserConfig ----------------------------
(***************************************************************************)
(* The directory of documents, one inside it, and one that does not exist; *)
(* two desktops; an editor that writes nested directories, or the inner    *)
(* one and the one that does not exist.                                    *)
(***************************************************************************)
EXTENDS UserConfig

MCDirs      == {<<"d">>, <<"d", "b">>, <<"gone">>}
MCValid     == MCDirs \ {<<"gone">>}
MCDocuments == <<"d">>
MCClients   == {"c1", "c2"}
MCWritten   == {{<<"d">>, <<"d", "b">>}, {<<"d", "b">>, <<"gone">>}}

=============================================================================
