---------------------------- MODULE MCWorkerPool ----------------------------
(***************************************************************************)
(* Three workers, two clients and three tasks: a backlog behind a waiting  *)
(* worker, notifications of two threads at once, and tasks that push tasks *)
(* during the shutdown.                                                    *)
(***************************************************************************)
EXTENDS WorkerPool

MCWorkers == {"w1", "w2", "w3"}
MCClients == {"c1", "c2"}
MCTasks   == {"t1", "t2", "t3"}

=============================================================================
