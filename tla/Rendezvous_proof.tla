-------------------------- MODULE Rendezvous_proof --------------------------
(***************************************************************************)
(* What holds of module Rendezvous for any number of daemons and clients,  *)
(* of ports and of crashes: the types, that a published port is listened   *)
(* on, and that a half written file is seen under the lock only.           *)
(***************************************************************************)
EXTENDS Rendezvous, TLAPS

Holding == {"locked", "opened", "removing", "removed"}

\* A daemon has the lock in the stages that need it; until it writes app.json, and from
\* the removal on, the file is not its own, but for what it left behind in a crash.
Discipline ==
  /\ \A d \in Daemons : lock = d <=> stage[d] \in Holding
  /\ \A d \in Daemons : Listening(d) => config[d] = port[d]
  /\ \A d \in Daemons : stage[d] \in {"removed", "closing"} => appFile.by # d
  /\ appFile.kind # "missing" => appFile.by \in Daemons

\* A client that reads has the lock.
ReadersLock == \A c \in Clients : client[c] = "reading" => lock = c

IInv == TypeOK /\ PublishedListens /\ PartialIsLocked /\ Discipline /\ ReadersLock

Stages  == Live \cup {Off, "binding"}
Files   == [kind : {"missing", "partial", "port"}, port : Ports, by : Daemons \cup {"nobody"}]
Clocked == {"waiting", "found", "reading", "ready", "asking", "failed"}

LEMMA FirstIsPort == FirstPort \in Ports
BY BoundAssumption DEF Ports

LEMMA Contents ==
  /\ NoFile \in Files
  /\ \A d \in Daemons, p \in Ports : AppFile("partial", p, d) \in Files /\ AppFile("port", p, d) \in Files
BY FirstIsPort DEF NoFile, AppFile, Files

THEOREM InitInvariant == Init => IInv
<1> SUFFICES ASSUME Init PROVE IInv
  OBVIOUS
<1>1. TypeOK
  <2>1. appFile \in Files
    BY Contents DEF Init
  <2>2. stage \in [Daemons -> Stages] /\ signalled = {}
    BY DEF Init, Stages, Off
  <2>3. commands \in [Daemons -> Seq(Clients)]
    BY DEF Init
  <2>4. port \in [Daemons -> Ports] /\ config \in [Daemons -> Ports] /\ target \in [Clients -> Ports]
    BY FirstIsPort DEF Init
  <2> QED BY <2>1, <2>2, <2>3, <2>4 DEF Init, TypeOK, Files, Stages
<1>2. PublishedListens /\ PartialIsLocked
  BY DEF Init, PublishedListens, PartialIsLocked, NoFile, AppFile
<1>3. Discipline
  BY ProcessAssumption DEF Init, Discipline, NoFile, AppFile, Holding, Listening, Live, Off
<1>4. ReadersLock
  BY DEF Init, ReadersLock
<1> QED BY <1>1, <1>2, <1>3, <1>4 DEF IInv

-----------------------------------------------------------------------------
(* Types *)

LEMMA Moves ==
  ASSUME TypeOK, NEW d \in Daemons, NEW s \in Stages, Goes(d, s)
  PROVE  /\ stage' \in [Daemons -> Stages]
         /\ stage'[d] = s /\ \A e \in Daemons \ {d} : stage'[e] = stage[e]
BY DEF TypeOK, Goes, Stages

LEMMA DroppedType ==
  ASSUME TypeOK, NEW d \in Daemons
  PROVE  Dropped(d) \in [Clients -> Clocked]
BY DEF TypeOK, Dropped, Clocked

THEOREM TypesKept == TypeOK /\ [Next]_vars => TypeOK'
<1> SUFFICES ASSUME TypeOK, [Next]_vars PROVE TypeOK'
  OBVIOUS
<1> USE DEF file, net, clients, fixed, bounds
<1>0. stage \in [Daemons -> Stages] /\ Off \in Stages
  BY DEF TypeOK, Stages
<1>1. ASSUME NEW d \in Daemons, Launch(d) PROVE TypeOK'
  <2>1. stage' \in [Daemons -> Stages] /\ stage'[d] # Off /\ \A e \in Daemons \ {d} : stage'[e] = stage[e]
    BY <1>1, Moves DEF Launch, Stages, Off
  <2>2. port' \in [Daemons -> Ports] /\ config' \in [Daemons -> Ports]
    BY <1>1, FirstIsPort DEF TypeOK, Launch
  <2>3. UNCHANGED <<file, signalled, commands, clients, fixed, crashed>>
    BY <1>1 DEF Launch
  <2> QED BY <2>1, <2>2, <2>3 DEF TypeOK, Stages
<1>2. ASSUME NEW d \in Daemons, Bind(d) PROVE TypeOK'
  <2>0. UNCHANGED <<file, commands, clients, fixed, bounds, crashed>>
    BY <1>2 DEF Bind
  <2>1. CASE ~Taken(port[d]) /\ config' = [config EXCEPT ![d] = port[d]] /\ Goes(d, "serving") /\ UNCHANGED <<port, signalled>>
    <3>1. stage' \in [Daemons -> Stages] /\ stage'[d] # Off /\ \A e \in Daemons \ {d} : stage'[e] = stage[e]
      BY <2>1, Moves DEF Stages, Live, Off
    <3>2. config' \in [Daemons -> Ports] /\ UNCHANGED <<port, signalled>>
      BY <2>1 DEF TypeOK
    <3>3. signalled' \subseteq {e \in Daemons : stage'[e] # Off}
      BY <3>1, <3>2 DEF TypeOK
    <3> QED BY <2>0, <3>1, <3>2, <3>3 DEF TypeOK, Stages
  <2>2. CASE port[d] < FirstPort + Retries /\ port' = [port EXCEPT ![d] = @ + 1] /\ UNCHANGED <<stage, config, signalled>>
    <3>1. port[d] + 1 \in Ports
      BY <2>2, BoundAssumption DEF TypeOK, Ports
    <3>2. port' \in [Daemons -> Ports] /\ UNCHANGED <<stage, config, signalled>>
      BY <2>2, <3>1 DEF TypeOK
    <3> QED BY <2>0, <3>2 DEF TypeOK
  <2>3. CASE Goes(d, Off) /\ signalled' = signalled \ {d} /\ UNCHANGED net
    <3>1. stage' \in [Daemons -> Stages] /\ \A e \in Daemons \ {d} : stage'[e] = stage[e]
      BY <1>0, <2>3, Moves
    <3> QED BY <1>2, <2>3, <3>1 DEF TypeOK, Bind, Stages
  <2> QED BY <1>2, <2>1, <2>2, <2>3 DEF Bind
<1>3. ASSUME NEW d \in Daemons, LockToWrite(d) PROVE TypeOK'
  <2>1. stage' \in [Daemons -> Stages] /\ stage'[d] # Off /\ \A e \in Daemons \ {d} : stage'[e] = stage[e]
    BY <1>3, Moves DEF LockToWrite, Stages, Live, Off
  <2> QED BY <1>3, <2>1 DEF TypeOK, LockToWrite, Stages
<1>4. ASSUME NEW d \in Daemons, OpenFile(d) PROVE TypeOK'
  <2>1. stage' \in [Daemons -> Stages] /\ stage'[d] # Off /\ \A e \in Daemons \ {d} : stage'[e] = stage[e]
    BY <1>4, Moves DEF OpenFile, Stages, Live, Off
  <2>2. appFile' \in Files
    BY <1>4, FirstIsPort, Contents DEF OpenFile
  <2> QED BY <1>4, <2>1, <2>2 DEF TypeOK, OpenFile, Stages, Files
<1>5. ASSUME NEW d \in Daemons, WriteFile(d) PROVE TypeOK'
  <2>1. stage' \in [Daemons -> Stages] /\ stage'[d] # Off /\ \A e \in Daemons \ {d} : stage'[e] = stage[e]
    BY <1>5, Moves DEF WriteFile, Stages, Live, Off
  <2>2. appFile' \in Files
    BY <1>5, Contents DEF WriteFile, TypeOK
  <2> QED BY <1>5, <2>1, <2>2 DEF TypeOK, WriteFile, Stages, Files
<1>6. ASSUME NEW d \in Daemons, Sync(d) PROVE TypeOK'
  <2>1. commands[d] \in Seq(Clients) /\ commands[d] # <<>>
    BY <1>6 DEF Sync, TypeOK
  <2>2. Tail(commands[d]) \in Seq(Clients) /\ Head(commands[d]) \in Clients
    BY <2>1
  <2> QED BY <1>6, <2>2 DEF TypeOK, Sync
<1>7. ASSUME NEW d \in Daemons, Signal(d) PROVE TypeOK'
  BY <1>7 DEF TypeOK, Signal
<1>8. ASSUME NEW d \in Daemons, LeaveLoop(d) PROVE TypeOK'
  <2>1. stage' \in [Daemons -> Stages] /\ stage'[d] # Off /\ \A e \in Daemons \ {d} : stage'[e] = stage[e]
    BY <1>8, Moves DEF LeaveLoop, Stages, Live, Off
  <2> QED BY <1>8, <2>1 DEF TypeOK, LeaveLoop, Stages
<1>9. ASSUME NEW d \in Daemons, LockToRemove(d) PROVE TypeOK'
  <2>1. stage' \in [Daemons -> Stages] /\ stage'[d] # Off /\ \A e \in Daemons \ {d} : stage'[e] = stage[e]
    BY <1>9, Moves DEF LockToRemove, Stages, Live, Off
  <2> QED BY <1>9, <2>1 DEF TypeOK, LockToRemove, Stages
<1>10. ASSUME NEW d \in Daemons, RemoveFile(d) PROVE TypeOK'
  <2>1. stage' \in [Daemons -> Stages] /\ stage'[d] # Off /\ \A e \in Daemons \ {d} : stage'[e] = stage[e]
    BY <1>10, Moves DEF RemoveFile, Stages, Live, Off
  <2>2. appFile' \in Files
    BY <1>10, Contents DEF RemoveFile
  <2> QED BY <1>10, <2>1, <2>2 DEF TypeOK, RemoveFile, Stages, Files
<1>11. ASSUME NEW d \in Daemons, Return(d) PROVE TypeOK'
  <2>1. stage' \in [Daemons -> Stages] /\ stage'[d] # Off /\ \A e \in Daemons \ {d} : stage'[e] = stage[e]
    BY <1>11, Moves DEF Return, Stages, Live, Off
  <2> QED BY <1>11, <2>1 DEF TypeOK, Return, Stages
<1>12. ASSUME NEW d \in Daemons, Stop(d) PROVE TypeOK'
  <2>1. stage' \in [Daemons -> Stages] /\ \A e \in Daemons \ {d} : stage'[e] = stage[e]
    BY <1>0, <1>12, Moves DEF Stop
  <2>2. commands' \in [Daemons -> Seq(Clients)]
    BY <1>12 DEF Stop, TypeOK
  <2>3. signalled' \subseteq {e \in Daemons : stage'[e] # Off}
    BY <1>12, <2>1 DEF Stop, TypeOK
  <2> QED BY <1>12, <2>1, <2>2, <2>3, DroppedType DEF TypeOK, Stop, Stages, Clocked
<1>13. ASSUME NEW d \in Daemons, Crash(d) PROVE TypeOK'
  <2>1. stage' \in [Daemons -> Stages] /\ \A e \in Daemons \ {d} : stage'[e] = stage[e]
    BY <1>0, <1>13, Moves DEF Crash
  <2>2. commands' \in [Daemons -> Seq(Clients)]
    BY <1>13 DEF Crash, TypeOK
  <2>3. signalled' \subseteq {e \in Daemons : stage'[e] # Off}
    BY <1>13, <2>1 DEF Crash, TypeOK
  <2>4. lock' \in Daemons \cup Clients \cup {"nobody"} /\ crashed' \subseteq Daemons
    BY <1>13 DEF Crash, TypeOK
  <2> QED BY <1>13, <2>1, <2>2, <2>3, <2>4, DroppedType DEF TypeOK, Crash, Stages, Clocked
<1>14. ASSUME NEW c \in Clients, Find(c) PROVE TypeOK'
  BY <1>14 DEF TypeOK, Find, Becomes
<1>15. ASSUME NEW c \in Clients, LockToRead(c) PROVE TypeOK'
  BY <1>15 DEF TypeOK, LockToRead, Becomes
<1>16. ASSUME NEW c \in Clients, ReadFile(c) PROVE TypeOK'
  <2>1. CASE target' = [target EXCEPT ![c] = appFile.port] /\ Becomes(c, "ready")
    BY <1>16, <2>1 DEF TypeOK, ReadFile, Becomes
  <2>2. CASE Becomes(c, "failed") /\ UNCHANGED target
    BY <1>16, <2>2 DEF TypeOK, ReadFile, Becomes
  <2> QED BY <1>16, <2>1, <2>2 DEF ReadFile
<1>17. ASSUME NEW c \in Clients, Ask(c) PROVE TypeOK'
  <2>1. CASE UNCHANGED <<client, commands>>
    BY <1>17, <2>1 DEF TypeOK, Ask
  <2>2. ASSUME NEW d \in Daemons, commands' = [commands EXCEPT ![d] = Append(@, c)], Becomes(c, "asking")
        PROVE  TypeOK'
    <3>1. Append(commands[d], c) \in Seq(Clients)
      BY DEF TypeOK
    <3> QED BY <1>17, <2>2, <3>1 DEF TypeOK, Ask, Becomes
  <2> QED BY <1>17, <2>1, <2>2 DEF Ask
<1>18. ASSUME NEW c \in Clients, Restart(c) PROVE TypeOK'
  BY <1>18 DEF TypeOK, Restart, Becomes
<1>19. CASE UNCHANGED vars
  BY <1>19 DEF TypeOK, vars
<1> QED BY <1>1, <1>2, <1>3, <1>4, <1>5, <1>6, <1>7, <1>8, <1>9, <1>10, <1>11, <1>12, <1>13, <1>14,
           <1>15, <1>16, <1>17, <1>18, <1>19 DEF Next, Forward, ClientGoesOn

-----------------------------------------------------------------------------
(* The file and the lock *)

Safe == PublishedListens /\ PartialIsLocked /\ Discipline

\* A step of a daemon that keeps the file and the lock, and does not touch Holding.
LEMMA QuietMove ==
  ASSUME IInv, NEW d \in Daemons, NEW s \in Stages, Goes(d, s),
         UNCHANGED <<file, crashed>>,
         Listening(d) => s \in Live,
         s \in Live => config'[d] = port'[d],
         Listening(d) => port'[d] = port[d],
         \A e \in Daemons \ {d} : port'[e] = port[e] /\ config'[e] = config[e],
         s \in Holding <=> stage[d] \in Holding,
         s \in {"removed", "closing"} => stage[d] \in {"removed", "closing"}
  PROVE  Safe'
<1>1. /\ stage'[d] = s /\ \A e \in Daemons \ {d} : stage'[e] = stage[e]
      /\ appFile' = appFile /\ lock' = lock /\ crashed' = crashed
  BY Moves DEF IInv, file
<1>2. \A e \in Daemons : Listening(e)' <=> stage'[e] \in Live
  BY DEF Listening
<1>3. \A e \in Daemons : Listening(e) => stage'[e] \in Live /\ port'[e] = port[e]
  BY <1>1 DEF Listening
<1>4. PublishedListens'
  <2> SUFFICES ASSUME appFile.kind = "port", appFile.by \notin crashed
               PROVE  stage'[appFile.by] \in Live /\ port'[appFile.by] = appFile.port
    BY <1>1 DEF PublishedListens, Listening
  <2>1. appFile.by \in Daemons
    BY DEF IInv, Discipline
  <2> QED BY <1>3, <2>1 DEF IInv, PublishedListens
<1>5. PartialIsLocked'
  BY <1>1 DEF IInv, PartialIsLocked
<1>6. Discipline'
  BY <1>1, <1>2 DEF IInv, Discipline, Listening
<1> QED BY <1>4, <1>5, <1>6 DEF Safe

\* A step that changes neither the file nor the daemons' stages and ports, and gives the
\* lock to a client or takes it from one, at most.
LEMMA ClientMove ==
  ASSUME IInv, UNCHANGED <<appFile, crashed, stage, net>>,
         lock' = lock \/ (lock \notin Daemons /\ lock' \notin Daemons)
  PROVE  Safe'
<1>1. appFile' = appFile /\ crashed' = crashed /\ stage' = stage /\ port' = port /\ config' = config
  BY DEF net
<1>2. PublishedListens'
  BY <1>1 DEF IInv, PublishedListens, Listening
<1>3. PartialIsLocked'
  BY <1>1 DEF IInv, PartialIsLocked, Discipline
<1>4. Discipline'
  BY <1>1 DEF IInv, Discipline, Listening
<1> QED BY <1>2, <1>3, <1>4 DEF Safe

THEOREM SafetyKept == IInv /\ [Next]_vars => Safe'
<1> SUFFICES ASSUME IInv, [Next]_vars PROVE Safe'
  OBVIOUS
<1>a. /\ "nobody" \notin Daemons /\ Daemons \cap Clients = {}
      /\ stage \in [Daemons -> Stages] /\ port \in [Daemons -> Ports] /\ config \in [Daemons -> Ports]
  BY ProcessAssumption DEF IInv, TypeOK, Stages
<1>1. ASSUME NEW d \in Daemons, Launch(d) PROVE Safe'
  <2>1. "binding" \in Stages /\ "binding" \notin Live /\ Off \notin Live /\ Off \notin Holding /\ "binding" \notin Holding
    BY DEF Stages, Live, Off, Holding
  <2> QED BY <1>1, <1>a, <2>1, QuietMove DEF Launch, Listening, file
<1>2. ASSUME NEW d \in Daemons, Bind(d) PROVE Safe'
  <2>0. stage[d] = "binding" /\ ~Listening(d) /\ stage[d] \notin Holding /\ UNCHANGED <<file, crashed>>
    BY <1>2 DEF Bind, Listening, Live, Holding, file
  <2>1. CASE config' = [config EXCEPT ![d] = port[d]] /\ Goes(d, "serving") /\ UNCHANGED <<port, signalled>>
    <3>1. "serving" \in Stages /\ "serving" \notin Holding
      BY DEF Stages, Live, Holding
    <3> QED BY <1>a, <2>0, <2>1, <3>1, QuietMove
  <2>2. CASE port' = [port EXCEPT ![d] = @ + 1] /\ UNCHANGED <<stage, config, signalled>>
    <3>1. Goes(d, "binding") /\ "binding" \in Stages /\ "binding" \notin Live /\ "binding" \notin Holding
      BY <1>a, <2>0, <2>2 DEF Goes, Stages, Live, Holding
    <3> QED BY <1>a, <2>0, <2>2, <3>1, QuietMove
  <2>3. CASE Goes(d, Off) /\ UNCHANGED net
    <3>1. Off \in Stages /\ Off \notin Live /\ Off \notin Holding /\ Off \notin {"removed", "closing"}
      BY DEF Stages, Live, Holding, Off
    <3> QED BY <1>a, <2>0, <2>3, <3>1, QuietMove DEF net
  <2> QED BY <1>2, <2>1, <2>2, <2>3 DEF Bind
<1>3. ASSUME NEW d \in Daemons, LockToWrite(d) PROVE Safe'
  <2>1. /\ stage'[d] = "locked" /\ (\A e \in Daemons \ {d} : stage'[e] = stage[e])
        /\ stage[d] = "serving" /\ lock = "nobody" /\ lock' = d
        /\ UNCHANGED <<appFile, port, config, crashed>>
    BY <1>3, Moves DEF LockToWrite, IInv, Stages, Live, net
  <2>2. \A e \in Daemons : Listening(e)' <=> Listening(e)
    BY <2>1 DEF Listening, Live
  <2>3. PublishedListens'
    BY <2>1, <2>2 DEF IInv, PublishedListens, Discipline
  <2>4. PartialIsLocked'
    BY <1>a, <2>1 DEF IInv, PartialIsLocked, Discipline
  <2>5. Discipline'
    BY <1>a, <2>1, <2>2 DEF IInv, Discipline, Holding
  <2> QED BY <2>3, <2>4, <2>5 DEF Safe
<1>4. ASSUME NEW d \in Daemons, OpenFile(d) PROVE Safe'
  <2>1. /\ stage'[d] = "opened" /\ (\A e \in Daemons \ {d} : stage'[e] = stage[e])
        /\ stage[d] = "locked" /\ appFile'.kind = "partial" /\ appFile'.by = d
        /\ UNCHANGED <<lock, port, config, crashed>>
    BY <1>4, Moves DEF OpenFile, IInv, Stages, Live, net, AppFile
  <2>2. \A e \in Daemons : Listening(e)' <=> Listening(e)
    BY <2>1 DEF Listening, Live
  <2>3. lock = d
    BY <2>1 DEF IInv, Discipline, Holding
  <2>4. \A e \in Daemons \ {d} : stage[e] \notin {"removed"} /\ stage[e] \notin Holding
    BY <2>3 DEF IInv, Discipline, Holding
  <2>5. PublishedListens' /\ PartialIsLocked'
    BY <2>1, <2>3 DEF PublishedListens, PartialIsLocked
  <2>6. Discipline'
    BY <1>a, <2>1, <2>2, <2>3, <2>4 DEF IInv, Discipline, Holding
  <2> QED BY <2>5, <2>6 DEF Safe
<1>5. ASSUME NEW d \in Daemons, WriteFile(d) PROVE Safe'
  <2>1. /\ stage'[d] = "looping" /\ (\A e \in Daemons \ {d} : stage'[e] = stage[e])
        /\ stage[d] = "opened" /\ appFile' = AppFile("port", config[d], d) /\ lock' = "nobody"
        /\ crashed' = crashed \ {d} /\ UNCHANGED <<port, config>>
    BY <1>5, Moves DEF WriteFile, IInv, Stages, Live, net
  <2>2. \A e \in Daemons : Listening(e)' <=> Listening(e)
    BY <2>1 DEF Listening, Live
  <2>3. lock = d /\ Listening(d) /\ config[d] = port[d]
    BY <2>1 DEF IInv, Discipline, Holding, Listening, Live
  <2>4. appFile'.kind = "port" /\ appFile'.by = d /\ appFile'.port = config[d]
    BY <2>1 DEF AppFile
  <2>5. PublishedListens' /\ PartialIsLocked'
    BY <2>1, <2>2, <2>3, <2>4 DEF PublishedListens, PartialIsLocked
  <2>6. Discipline'
    BY <1>a, <2>1, <2>2, <2>3, <2>4 DEF IInv, Discipline, Holding
  <2> QED BY <2>5, <2>6 DEF Safe
<1>6. ASSUME NEW d \in Daemons, Sync(d) PROVE Safe'
  BY <1>6, ClientMove DEF Sync, file
<1>7. ASSUME NEW d \in Daemons, Signal(d) PROVE Safe'
  BY <1>7, ClientMove DEF Signal, file
<1>8. ASSUME NEW d \in Daemons, LeaveLoop(d) PROVE Safe'
  <2>1. "leaving" \in Stages /\ "leaving" \in Live /\ {"looping", "leaving"} \cap Holding = {} /\ "looping" \in Live
    BY DEF Stages, Live, Holding
  <2>2. config[d] = port[d]
    BY <1>8, <2>1 DEF LeaveLoop, IInv, Discipline, Listening
  <2> QED BY <1>8, <2>1, <2>2, QuietMove DEF LeaveLoop, file, net
<1>9. ASSUME NEW d \in Daemons, LockToRemove(d) PROVE Safe'
  <2>1. /\ stage'[d] = "removing" /\ (\A e \in Daemons \ {d} : stage'[e] = stage[e])
        /\ stage[d] = "leaving" /\ lock = "nobody" /\ lock' = d
        /\ UNCHANGED <<appFile, port, config, crashed>>
    BY <1>9, Moves DEF LockToRemove, IInv, Stages, Live, net
  <2>2. \A e \in Daemons : Listening(e)' <=> Listening(e)
    BY <2>1 DEF Listening, Live
  <2>3. PublishedListens'
    BY <2>1, <2>2 DEF IInv, PublishedListens, Discipline
  <2>4. PartialIsLocked'
    BY <1>a, <2>1 DEF IInv, PartialIsLocked, Discipline
  <2>5. Discipline'
    BY <1>a, <2>1, <2>2 DEF IInv, Discipline, Holding
  <2> QED BY <2>3, <2>4, <2>5 DEF Safe
<1>10. ASSUME NEW d \in Daemons, RemoveFile(d) PROVE Safe'
  <2>1. /\ stage'[d] = "removed" /\ (\A e \in Daemons \ {d} : stage'[e] = stage[e])
        /\ stage[d] = "removing" /\ appFile'.kind = "missing" /\ appFile'.by = "nobody"
        /\ UNCHANGED <<lock, port, config, crashed>>
    BY <1>10, Moves DEF RemoveFile, IInv, Stages, Live, net, NoFile, AppFile
  <2>2. \A e \in Daemons : Listening(e)' <=> Listening(e)
    BY <2>1 DEF Listening, Live
  <2>3. PublishedListens' /\ PartialIsLocked'
    BY <2>1 DEF PublishedListens, PartialIsLocked
  <2>4. Discipline'
    BY <1>a, <2>1, <2>2 DEF IInv, Discipline, Holding
  <2> QED BY <2>3, <2>4 DEF Safe
<1>11. ASSUME NEW d \in Daemons, Return(d) PROVE Safe'
  <2>1. /\ stage'[d] = "closing" /\ (\A e \in Daemons \ {d} : stage'[e] = stage[e])
        /\ stage[d] = "removed" /\ lock' = "nobody"
        /\ UNCHANGED <<appFile, port, config, crashed>>
    BY <1>11, Moves DEF Return, IInv, Stages, Live, net
  <2>2. \A e \in Daemons : Listening(e)' <=> Listening(e)
    BY <2>1 DEF Listening, Live
  <2>3. lock = d /\ appFile.by # d
    BY <2>1 DEF IInv, Discipline, Holding
  <2>4. PublishedListens'
    BY <2>1, <2>2 DEF IInv, PublishedListens, Discipline
  <2>5. PartialIsLocked'
    BY <2>1, <2>3 DEF IInv, PartialIsLocked
  <2>6. Discipline'
    BY <1>a, <2>1, <2>2, <2>3 DEF IInv, Discipline, Holding
  <2> QED BY <2>4, <2>5, <2>6 DEF Safe
<1>12. ASSUME NEW d \in Daemons, Stop(d) PROVE Safe'
  <2>1. /\ stage'[d] = Off /\ (\A e \in Daemons \ {d} : stage'[e] = stage[e])
        /\ stage[d] = "closing" /\ UNCHANGED <<appFile, lock, port, config, crashed>>
    BY <1>12, Moves DEF Stop, IInv, Stages, file, net
  <2>2. appFile.by # d /\ lock # d
    BY <2>1 DEF IInv, Discipline, Holding
  <2>3. \A e \in Daemons \ {d} : Listening(e)' <=> Listening(e)
    BY <2>1 DEF Listening
  <2>4. PublishedListens' /\ PartialIsLocked'
    BY <2>1, <2>2, <2>3 DEF IInv, PublishedListens, PartialIsLocked, Discipline
  <2>5. ~Listening(d)'
    BY <2>1 DEF Listening, Live, Off
  <2>6. Discipline'
    BY <1>a, <2>1, <2>2, <2>3, <2>5 DEF IInv, Discipline, Holding, Off
  <2> QED BY <2>4, <2>6 DEF Safe
<1>13. ASSUME NEW d \in Daemons, Crash(d) PROVE Safe'
  <2>1. /\ stage'[d] = Off /\ (\A e \in Daemons \ {d} : stage'[e] = stage[e])
        /\ crashed' = crashed \cup {d} /\ lock' = (IF lock = d THEN "nobody" ELSE lock)
        /\ UNCHANGED <<appFile, port, config>>
    BY <1>13, Moves DEF Crash, IInv, Stages, net
  <2>2. \A e \in Daemons \ {d} : Listening(e)' <=> Listening(e)
    BY <2>1 DEF Listening
  <2>3. PublishedListens' /\ PartialIsLocked'
    BY <2>1, <2>2 DEF IInv, PublishedListens, PartialIsLocked, Discipline
  <2>4. ~Listening(d)'
    BY <2>1 DEF Listening, Live, Off
  <2>5. Discipline'
    BY <1>a, <2>1, <2>2, <2>4 DEF IInv, Discipline, Holding, Off
  <2> QED BY <2>3, <2>5 DEF Safe
<1>14. ASSUME NEW c \in Clients, Find(c) PROVE Safe'
  BY <1>14, ClientMove DEF Find, file
<1>15. ASSUME NEW c \in Clients, LockToRead(c) PROVE Safe'
  BY <1>15, <1>a, ClientMove DEF LockToRead
<1>16. ASSUME NEW c \in Clients, ReadFile(c) PROVE Safe'
  <2>1. lock \notin Daemons /\ lock' \notin Daemons
    BY <1>16, <1>a DEF ReadFile, IInv, ReadersLock
  <2> QED BY <1>16, <2>1, ClientMove DEF ReadFile
<1>17. ASSUME NEW c \in Clients, Ask(c) PROVE Safe'
  BY <1>17, ClientMove DEF Ask, file
<1>18. ASSUME NEW c \in Clients, Restart(c) PROVE Safe'
  BY <1>18, ClientMove DEF Restart, file
<1>19. CASE UNCHANGED vars
  BY <1>19, ClientMove DEF vars, file
<1> QED BY <1>1, <1>2, <1>3, <1>4, <1>5, <1>6, <1>7, <1>8, <1>9, <1>10, <1>11, <1>12, <1>13, <1>14,
           <1>15, <1>16, <1>17, <1>18, <1>19 DEF Next, Forward, ClientGoesOn

THEOREM ReadersKept == IInv /\ [Next]_vars => ReadersLock'
<1> SUFFICES ASSUME IInv, [Next]_vars, NEW b \in Clients, client'[b] = "reading"
             PROVE  lock' = b
  BY DEF ReadersLock
<1> USE DEF file, clients
<1>a. /\ "nobody" \notin Clients /\ \A d \in Daemons : d # b
      /\ client \in [Clients -> Clocked]
      /\ client[b] = "reading" => lock = b
      /\ \A d \in Daemons : stage[d] \in Holding => lock = d
  BY ProcessAssumption DEF IInv, TypeOK, Clocked, ReadersLock, Discipline
<1>1. ASSUME NEW d \in Daemons, Launch(d) PROVE lock' = b
  BY <1>a, <1>1 DEF Launch
<1>2. ASSUME NEW d \in Daemons, Bind(d) PROVE lock' = b
  BY <1>a, <1>2 DEF Bind
<1>3. ASSUME NEW d \in Daemons, LockToWrite(d) \/ LockToRemove(d) PROVE lock' = b
  BY <1>a, <1>3 DEF LockToWrite, LockToRemove
<1>4. ASSUME NEW d \in Daemons, OpenFile(d) \/ RemoveFile(d) \/ LeaveLoop(d) \/ Signal(d) PROVE lock' = b
  BY <1>a, <1>4 DEF OpenFile, RemoveFile, LeaveLoop, Signal
<1>5. ASSUME NEW d \in Daemons, WriteFile(d) \/ Return(d) PROVE lock' = b
  BY <1>a, <1>5 DEF WriteFile, Return, Holding
<1>6. ASSUME NEW d \in Daemons, Sync(d) PROVE lock' = b
  BY <1>a, <1>6 DEF Sync
<1>7. ASSUME NEW d \in Daemons, Stop(d) PROVE lock' = b
  BY <1>a, <1>7 DEF Stop, Dropped
<1>8. ASSUME NEW d \in Daemons, Crash(d) PROVE lock' = b
  BY <1>a, <1>8 DEF Crash, Dropped
<1>9. ASSUME NEW c \in Clients, Find(c) \/ Ask(c) \/ Restart(c) PROVE lock' = b
  BY <1>a, <1>9 DEF Find, Ask, Restart, Becomes
<1>10. ASSUME NEW c \in Clients, LockToRead(c) PROVE lock' = b
  BY <1>a, <1>10 DEF LockToRead, Becomes
<1>11. ASSUME NEW c \in Clients, ReadFile(c) PROVE lock' = b
  <2>1. lock = c
    BY <1>11 DEF ReadFile, IInv, ReadersLock
  <2>2. client'[c] # "reading" /\ \A e \in Clients \ {c} : client'[e] = client[e]
    BY <1>a, <1>11 DEF ReadFile, Becomes
  <2> QED BY <1>a, <2>1, <2>2
<1>12. CASE UNCHANGED vars
  BY <1>a, <1>12 DEF vars
<1> QED BY <1>1, <1>2, <1>3, <1>4, <1>5, <1>6, <1>7, <1>8, <1>9, <1>10, <1>11, <1>12
        DEF Next, Forward, ClientGoesOn

THEOREM Invariance == Spec => []IInv
<1>1. IInv /\ [Next]_vars => IInv'
  <2>1. IInv => TypeOK
    BY DEF IInv
  <2> QED BY <2>1, TypesKept, SafetyKept, ReadersKept DEF IInv, Safe
<1> QED BY InitInvariant, <1>1, PTL DEF Spec

-----------------------------------------------------------------------------
(* What follows *)

\* The variables keep their types; no daemon tries a port beyond the last one.
THEOREM TypeCorrect == Spec => []TypeOK
<1>1. IInv => TypeOK
  BY DEF IInv
<1> QED BY Invariance, <1>1, PTL

\* Whatever number of daemons and clients come and go, app.json tells the truth: somebody
\* listens on its port, and a client never reads half of it, unless its daemon crashed.
THEOREM AppFileIsTrue == Spec => []FileIsTrue
<1>1. IInv => FileIsTrue
  BY DEF IInv, FileIsTrue
<1> QED BY Invariance, <1>1, PTL

=============================================================================
