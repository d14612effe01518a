---------------------------- MODULE MCRendezvous ----------------------------
(***************************************************************************)
(* Two daemons, two clients, and two ports to try; another program may     *)
(* occupy the first one.                                                   *)
(***************************************************************************)
EXTENDS Rendezvous

MCDaemons == {"d1", "d2"}
MCClients == {"c1", "c2"}
MCOccupied == {{}, {1}}

=============================================================================
