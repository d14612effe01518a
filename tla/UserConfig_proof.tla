-------------------------- MODULE UserConfig_proof --------------------------
(***************************************************************************)
(* What holds of module UserConfig for every set of directories, of        *)
(* desktops and of edits: the types, that the observers never get nested   *)
(* directories, and that the daemon works with the directories of the file *)
(* once it has handled the events.                                         *)
(***************************************************************************)
EXTENDS UserConfig, WellFoundedInduction, TLAPS

-----------------------------------------------------------------------------
(* normalize_root_dirs() *)

\* A directory is longer than one it is inside of, and being inside is transitive.
LEMMA ParentIsShorter ==
  ASSUME NEW d \in Seq(STRING), NEW e \in Seq(STRING), IsParentOf(d, e)
  PROVE  Len(d) < Len(e)
<1>1. Len(d) <= Len(e) /\ SubSeq(d, 1, Len(d)) = SubSeq(e, 1, Len(d)) /\ d # e
  BY DEF IsParentOf, IsStrictPrefix, IsPrefix
<1>2. Len(d) = Len(e) => SubSeq(d, 1, Len(d)) = d /\ SubSeq(e, 1, Len(e)) = e
  OBVIOUS
<1> QED BY <1>1, <1>2


LEMMA ParentOfParent ==
  ASSUME NEW d \in Seq(STRING), NEW e \in Seq(STRING), NEW f \in Seq(STRING),
         IsParentOf(d, e), IsParentOf(e, f)
  PROVE  IsParentOf(d, f)
<1>1. Len(d) < Len(e) /\ Len(e) < Len(f)
  BY ParentIsShorter
<1>2. \A i \in 1 .. Len(d) : d[i] = e[i]
  <2>1. SubSeq(d, 1, Len(d)) = SubSeq(e, 1, Len(d))
    BY DEF IsParentOf, IsStrictPrefix, IsPrefix
  <2>2. \A i \in 1 .. Len(d) : SubSeq(d, 1, Len(d))[i] = d[i] /\ SubSeq(e, 1, Len(d))[i] = e[i]
    BY <1>1
  <2> QED BY <2>1, <2>2
<1>3. \A i \in 1 .. Len(e) : e[i] = f[i]
  <2>1. SubSeq(e, 1, Len(e)) = SubSeq(f, 1, Len(e))
    BY DEF IsParentOf, IsStrictPrefix, IsPrefix
  <2>2. \A i \in 1 .. Len(e) : SubSeq(e, 1, Len(e))[i] = e[i] /\ SubSeq(f, 1, Len(e))[i] = f[i]
    BY <1>1
  <2> QED BY <2>1, <2>2
<1>4. SubSeq(d, 1, Len(d)) = SubSeq(f, 1, Len(d))
  BY <1>1, <1>2, <1>3
<1> QED BY <1>1, <1>4 DEF IsParentOf, IsStrictPrefix, IsPrefix

\* No directory that is kept is inside another.
LEMMA NormalizeDisjoint == \A S : Disjoint(Normalize(S))
BY DEF Disjoint, Normalize

\* Nothing is lost: every directory of the list is kept, or inside one that is kept (the
\* shortest of those it is inside of).
THEOREM NormalizeCovers ==
  ASSUME NEW S \in SUBSET Seq(STRING), NEW d \in S
  PROVE  \E e \in Normalize(S) : e = d \/ IsParentOf(e, d)
<1> DEFINE Above == {e \in S : e = d \/ IsParentOf(e, d)}
           Lengths == {Len(e) : e \in Above}
<1>1. Lengths \subseteq Nat /\ Lengths # {}
  <2>1. d \in Above /\ \A e \in Above : Len(e) \in Nat
    OBVIOUS
  <2> HIDE DEF Above
  <2>2. Len(d) \in Lengths
    BY <2>1
  <2> QED BY <2>1, <2>2
<1>2. \E x \in Lengths : \A y \in Lengths : ~ (<<y, x>> \in OpToRel(<, Nat))
  <2> HIDE DEF Lengths
  <2> QED BY <1>1, NatLessThanWellFounded, WFMin
<1>3. PICK e \in Above : \A f \in Above : ~(Len(f) < Len(e))
  BY <1>1, <1>2 DEF OpToRel
<1>4. \A f \in S : ~IsParentOf(f, e)
  <2> SUFFICES ASSUME NEW f \in S, IsParentOf(f, e) PROVE FALSE
    OBVIOUS
  <2>1. Len(f) < Len(e)
    BY ParentIsShorter
  <2>2. f \in Above
    BY ParentOfParent
  <2> QED BY <1>3, <2>1, <2>2
<1> QED BY <1>4 DEF Normalize

-----------------------------------------------------------------------------
(* The invariant *)

InSync == file.kind = "json" => rootDirs = Roots(file.dirs)

\* While the daemon starts nobody but its main thread writes, unless it is missed; when
\* it is up, either it works with what the file holds or an event is on its way.
Synchronized ==
  /\ daemon = "down" => ~Open("main")
  /\ daemon # "up" => \A c \in Clients : client[c] # "posting"
  /\ daemon = "starting" =>
       /\ Disjoint(rootDirs)
       /\ Open("main") => rootDirs = {Documents} /\ stream["main"] = Json({Documents})
       /\ ~missed => InSync
  /\ daemon = "up" /\ ~missed /\ (\A i \in DOMAIN queue : queue[i] # "modified") =>
       InSync /\ (file.kind = "json" => applied = rootDirs)

IInv == TypeOK /\ RootsDisjoint /\ Synchronized

LEMMA DocumentsAlone == Documents \in Dirs /\ Roots({Documents}) = {Documents} /\ Disjoint({Documents})
<1>1. Documents \in Dirs /\ Documents \in Valid /\ Documents \in Seq(STRING)
  BY ConfigAssumption
<1>2. ~IsParentOf(Documents, Documents)
  BY DEF IsParentOf, IsStrictPrefix
<1> QED BY <1>1, <1>2 DEF Roots, Normalize, Disjoint

LEMMA RootsAreValid == \A S : Roots(S) \subseteq Valid /\ Disjoint(Roots(S))
BY NormalizeDisjoint DEF Roots, Normalize

\* An event that is reported while the daemon is up is in the queue.
LEMMA AppendedIsThere ==
  ASSUME NEW Q, NEW q \in Seq(Q), NEW e \in Q
  PROVE  /\ Append(q, e) \in Seq(Q)
         /\ \E i \in DOMAIN Append(q, e) : Append(q, e)[i] = e
         /\ \A i \in DOMAIN q : i \in DOMAIN Append(q, e) /\ Append(q, e)[i] = q[i]
<1>1. Len(q) + 1 \in DOMAIN Append(q, e) /\ Append(q, e)[Len(q) + 1] = e
  OBVIOUS
<1>2. \A i \in DOMAIN q : i \in DOMAIN Append(q, e) /\ Append(q, e)[i] = q[i]
  OBVIOUS
<1> QED BY <1>1, <1>2

Files == [kind : Kinds, dirs : SUBSET Dirs]

\* The contents the actions write have the types of files and bodies.
LEMMA ContentsTypes ==
  /\ \A S \in SUBSET Dirs : Json(S) \in Files /\ Json(S) \in Bodies /\ Json(S) # Closed
  /\ \A S \in SUBSET Dirs : Contents("odd", S) \in Files /\ Contents("odd", S) \in Bodies
  /\ Missing \in Files /\ Empty \in Files /\ Garbled \in Files /\ Closed \in Bodies
  /\ \A x \in Bodies : x # Closed => x \in Files
  /\ \A x \in Files : x.dirs \in SUBSET Dirs
  /\ Closed \notin Files
BY DEF Files, Bodies, Kinds, Json, Missing, Empty, Garbled, Closed, Contents

THEOREM InitInvariant == Init => IInv
<1> SUFFICES ASSUME Init PROVE IInv
  OBVIOUS
<1> USE ConfigAssumption
<1>1. TypeOK
  <2>1. file \in Files
    BY ContentsTypes DEF Init
  <2>2. stream \in [Writers -> Bodies] /\ request \in [Clients -> Bodies]
    BY ContentsTypes DEF Init
  <2>3. linked \subseteq {w \in Writers : Open(w)}
    BY DEF Init
  <2>4. queue \in Seq({"modified", "deleted"}) /\ edits \in 0 .. MaxEdits /\ crashes \in 0 .. MaxCrashes
    BY DEF Init
  <2>5. client \in [Clients -> {"idle", "fetched", "posting"}] /\ \A c \in Clients : client[c] = "idle"
    BY DEF Init
  <2> QED BY <2>1, <2>2, <2>3, <2>4, <2>5 DEF Init, TypeOK, Files
<1>2. RootsDisjoint
  BY DEF Init, RootsDisjoint, Disjoint
<1>3. Synchronized
  BY DEF Init, Synchronized, Open, Writers
<1> QED BY <1>1, <1>2, <1>3 DEF IInv

FsType == file \in Files /\ stream \in [Writers -> Bodies] /\ linked \subseteq {w \in Writers : Open(w)}

LEMMA OpenKeepsTypes ==
  ASSUME TypeOK, NEW w \in Writers, NEW x \in Bodies, x # Closed,
         NEW q \in Seq({"modified", "deleted"}), OpenStream(w, x, q)
  PROVE  FsType' /\ queue' \in Seq({"modified", "deleted"}) /\ missed' \in BOOLEAN
<1>1. stream' \in [Writers -> Bodies] /\ stream'[w] # Closed /\ \A v \in Writers \ {w} : stream'[v] = stream[v]
  BY DEF OpenStream, TypeOK
<1>2. linked' \subseteq {v \in Writers : Open(v)'}
  BY <1>1 DEF OpenStream, TypeOK, Open
<1>3. file' \in Files
  BY ContentsTypes DEF OpenStream
<1>4. queue' \in Seq({"modified", "deleted"}) /\ missed' \in BOOLEAN
  BY DEF OpenStream, Reported, TypeOK
<1> QED BY <1>1, <1>2, <1>3, <1>4 DEF FsType

LEMMA CloseKeepsTypes ==
  ASSUME TypeOK, NEW w \in Writers, CloseStream(w)
  PROVE  FsType' /\ queue' \in Seq({"modified", "deleted"}) /\ missed' \in BOOLEAN
<1>1. stream' \in [Writers -> Bodies] /\ \A v \in Writers \ {w} : stream'[v] = stream[v]
  BY ContentsTypes DEF CloseStream, TypeOK
<1>2. linked' \subseteq {v \in Writers : Open(v)'}
  BY <1>1 DEF CloseStream, TypeOK, Open
<1>3. file' \in Files
  <2>1. stream[w] \in Files /\ file \in Files
    BY ContentsTypes DEF CloseStream, TypeOK, Open, Files
  <2> QED BY <2>1, ContentsTypes DEF CloseStream
<1>4. queue' \in Seq({"modified", "deleted"}) /\ missed' \in BOOLEAN
  <2>1. CASE Reported(queue, "modified")
    BY <2>1 DEF Reported, TypeOK
  <2>2. CASE UNCHANGED <<file, queue, missed>>
    BY <2>2 DEF TypeOK
  <2> QED BY <2>1, <2>2 DEF CloseStream
<1> QED BY <1>1, <1>2, <1>3, <1>4 DEF FsType

THEOREM TypesKept == TypeOK /\ [Next]_vars => TypeOK'
<1> SUFFICES ASSUME TypeOK, [Next]_vars PROVE TypeOK'
  OBVIOUS
<1> USE ConfigAssumption, DocumentsAlone, RootsAreValid
<1>0. FsType
  BY DEF TypeOK, FsType, Files
<1>a. "main" \in Writers /\ Clients \subseteq Writers
  BY DEF Writers
<1>1. CASE Start
  <2>1. CASE file.kind = "missing" /\ Populate({}, queue) /\ wanted' = Json({Documents})
    <3>1. Json({} \cup {Documents}) \in Bodies /\ Json({} \cup {Documents}) # Closed /\ Json({Documents}) \in Files
      BY ContentsTypes
    <3>2. FsType' /\ queue' \in Seq({"modified", "deleted"}) /\ missed' \in BOOLEAN
      BY <1>a, <2>1, <3>1, OpenKeepsTypes DEF Populate, TypeOK
    <3> QED BY <1>1, <2>1, <3>1, <3>2 DEF Start, Populate, TypeOK, FsType, Files, desktop, bounds
  <2>2. CASE rootDirs' = Roots(file.dirs) /\ UNCHANGED <<fs, queue, missed, wanted>>
    BY <1>1, <2>2 DEF TypeOK, Start, fs, desktop, bounds, Open
  <2> QED BY <1>1, <2>1, <2>2 DEF Start
<1>2. CASE AddWatch
  BY <1>2 DEF TypeOK, AddWatch, fs, desktop, bounds, Open
<1>3. CASE Wrote
  BY <1>a, <1>3, CloseKeepsTypes DEF TypeOK, Wrote, FsType, Files, server, desktop, bounds
<1>4. CASE Handle
  <2>0. Tail(queue) \in Seq({"modified", "deleted"})
    BY <1>4 DEF TypeOK, Handle
  <2>1. CASE queue' = Tail(queue) /\ Read /\ UNCHANGED <<fs, missed>>
    BY <1>4, <2>0, <2>1 DEF TypeOK, Handle, Read, Parses, fs, desktop, bounds, Open
  <2>2. CASE Populate(rootDirs, Tail(queue)) /\ UNCHANGED applied
    <3>1. Json(rootDirs \cup {Documents}) \in Bodies /\ Json(rootDirs \cup {Documents}) # Closed
      BY ContentsTypes DEF TypeOK
    <3>2. FsType' /\ queue' \in Seq({"modified", "deleted"}) /\ missed' \in BOOLEAN
      BY <1>a, <2>0, <2>2, <3>1, OpenKeepsTypes DEF Populate
    <3> QED BY <1>4, <2>2, <3>2 DEF Handle, Populate, TypeOK, FsType, Files, desktop, bounds
  <2> QED BY <1>4, <2>1, <2>2 DEF Handle
<1>5. CASE Crash
  <2>1. stream' \in [Writers -> Bodies] /\ linked' = {} /\ queue' \in Seq({"modified", "deleted"})
    BY <1>5, ContentsTypes DEF Crash
  <2>2. crashes' \in 0 .. MaxCrashes /\ edits' \in 0 .. MaxEdits
    BY <1>5 DEF TypeOK, Crash
  <2>3. /\ client' \in [Clients -> {"idle", "fetched", "posting"}] /\ request' = request
        /\ \A c \in Clients : client'[c] # "idle" => client[c] # "idle"
    BY <1>5 DEF TypeOK, Crash
  <2>4. missed' \in BOOLEAN /\ clashed' \in BOOLEAN
    BY <1>5 DEF TypeOK, Crash
  <2> QED BY <1>5, <2>1, <2>2, <2>3, <2>4 DEF TypeOK, Crash
<1>6. ASSUME NEW c \in Clients, Fetch(c) PROVE TypeOK'
  <2>1. ASSUME NEW x, x \in Files, NEW d \in Dirs, NEW twice \in BOOLEAN
        PROVE  /\ Added(x, d) \in Files /\ Added(x, d) \in Bodies
               /\ Removed(x, d, twice) \in Files /\ Removed(x, d, twice) \in Bodies
    <3>1. x.dirs \in SUBSET Dirs /\ x.dirs \cup {d} \in SUBSET Dirs /\ x.dirs \ {d} \in SUBSET Dirs
      BY <2>1, ContentsTypes
    <3>2. x.kind = "odd" => x = Contents("odd", x.dirs)
      BY <2>1 DEF Files, Contents
    <3>3. Added(x, d) \in Files /\ Added(x, d) \in Bodies
      BY <3>1, <3>2, ContentsTypes DEF Added
    <3>4. Removed(x, d, twice) = Json(IF twice THEN x.dirs ELSE x.dirs \ {d})
          \/ Removed(x, d, twice) = Contents("odd", IF twice THEN x.dirs ELSE x.dirs \ {d})
      BY DEF Removed, Json
    <3>5. (IF twice THEN x.dirs ELSE x.dirs \ {d}) \in SUBSET Dirs
      BY <3>1
    <3> QED BY <3>3, <3>4, <3>5, ContentsTypes
  <2>2. (IF daemon = "up" /\ Parses THEN file ELSE Empty) \in Files /\ wanted \in Files
    BY ContentsTypes DEF TypeOK, Files
  <2>3. \A d \in Dirs, twice \in BOOLEAN :
          LET answer == IF daemon = "up" /\ Parses THEN file ELSE Empty IN
          /\ Added(answer, d) \in Bodies \cap Files /\ Removed(answer, d, twice) \in Bodies \cap Files
          /\ Added(wanted, d) \in Files /\ Removed(wanted, d, twice) \in Files
    BY <2>1, <2>2
  <2>4. /\ request' \in [Clients -> Bodies] /\ wanted' \in Files
        /\ \A b \in Clients : client'[b] # "idle" => request'[b] # Closed
    <3>1. PICK r \in Bodies \cap Files, x \in Files : request' = [request EXCEPT ![c] = r] /\ wanted' = x
      BY <1>6, <2>3 DEF Fetch
    <3>2. client' = [client EXCEPT ![c] = "fetched"]
      BY <1>6 DEF Fetch
    <3> QED BY <3>1, <3>2, ContentsTypes DEF TypeOK
  <2> QED BY <1>6, <2>4 DEF Fetch, TypeOK, fs, server, Open, Files
<1>7. ASSUME NEW c \in Clients, Post(c) PROVE TypeOK'
  <2>1. request[c] \in Bodies /\ request[c] # Closed /\ queue \in Seq({"modified", "deleted"})
    BY <1>7 DEF TypeOK, Post
  <2>2. FsType' /\ queue' \in Seq({"modified", "deleted"}) /\ missed' \in BOOLEAN
    BY <1>a, <1>7, <2>1, OpenKeepsTypes DEF Post
  <2>3. client' \in [Clients -> {"idle", "fetched", "posting"}] /\ request' = request
        /\ \A b \in Clients : client'[b] # "idle" => client[b] # "idle"
    BY <1>7 DEF Post, TypeOK
  <2> QED BY <1>7, <2>2, <2>3 DEF Post, TypeOK, FsType, Files, server, bounds
<1>8. ASSUME NEW c \in Clients, Answer(c) PROVE TypeOK'
  BY <1>a, <1>8, CloseKeepsTypes DEF TypeOK, Answer, FsType, Files, server, bounds
<1>9. ASSUME NEW c \in Clients, GiveUp(c) PROVE TypeOK'
  BY <1>9 DEF TypeOK, GiveUp, fs, server, bounds, Open
<1>10. CASE User
  <2>1. \A x \in Edited : x \in Files
    BY ContentsTypes DEF Edited
  <2>2. CASE TakeAway
    BY <2>2, ContentsTypes DEF TypeOK, TakeAway, server, desktop, Files, Open
  <2>3. ASSUME NEW x \in Edited, Save(x) PROVE TypeOK'
    BY <2>1, <2>3 DEF TypeOK, Save, server, desktop, Files, Open
  <2>4. ASSUME NEW x \in Edited, SaveByRename(x) PROVE TypeOK'
    BY <2>1, <2>4 DEF TypeOK, SaveByRename, server, desktop, Files, Open
  <2> QED BY <1>10, <2>2, <2>3, <2>4 DEF User
<1>11. CASE UNCHANGED vars
  BY <1>11 DEF TypeOK, vars, fs, server, desktop, bounds, Open
<1> QED BY <1>1, <1>2, <1>3, <1>4, <1>5, <1>6, <1>7, <1>8, <1>9, <1>10, <1>11 DEF Next

\* An event on its way makes the claim about a daemon that is up hold by itself.
LEMMA EventOnItsWay ==
  ASSUME NEW q \in Seq({"modified", "deleted"}), daemon = "up", queue' = Append(q, "modified")
  PROVE  \E i \in DOMAIN queue' : queue'[i] = "modified"
BY AppendedIsThere

LEMMA OpenKeepsSync ==
  ASSUME NEW w \in Writers, NEW x, NEW q \in Seq({"modified", "deleted"}), OpenStream(w, x, q)
  PROVE  /\ InSync'
         /\ daemon = "up" => \E i \in DOMAIN queue' : queue'[i] = "modified"
<1>1. InSync'
  BY DEF OpenStream, InSync, Empty, Contents
<1>2. daemon = "up" => queue' = Append(q, "modified")
  BY DEF OpenStream, Reported
<1> QED BY <1>1, <1>2, EventOnItsWay

THEOREM SyncKept == IInv /\ [Next]_vars => RootsDisjoint' /\ Synchronized'
<1> SUFFICES ASSUME IInv, [Next]_vars PROVE RootsDisjoint' /\ Synchronized'
  OBVIOUS
<1> USE DEF IInv
<1>a. "main" \in Writers /\ Clients \subseteq Writers /\ "main" \notin Clients
  BY ConfigAssumption DEF Writers
<1>b. queue \in Seq({"modified", "deleted"}) /\ stream \in [Writers -> Bodies]
  BY DEF TypeOK
<1>1. CASE Start
  <2>1. CASE file.kind = "missing" /\ Populate({}, queue)
    <3>1. rootDirs' = {Documents} /\ stream'["main"] = Json({Documents}) /\ InSync'
      BY <1>a, <1>b, <2>1, OpenKeepsSync DEF Populate, OpenStream
    <3> QED BY <1>1, <3>1, DocumentsAlone DEF Start, Synchronized, RootsDisjoint, desktop
  <2>2. CASE file.kind = "json" /\ rootDirs' = Roots(file.dirs) /\ UNCHANGED <<fs, queue, missed, wanted>>
    BY <1>1, <2>2, RootsAreValid DEF Start, Synchronized, RootsDisjoint, InSync, desktop, fs, Open
  <2> QED BY <1>1, <2>1, <2>2 DEF Start
<1>2. CASE AddWatch
  BY <1>2 DEF AddWatch, Synchronized, RootsDisjoint, InSync, fs, desktop, Open
<1>3. CASE Wrote
  <2>1. ~Open("main")' /\ (\A c \in Clients : Open(c)' <=> Open(c))
    BY <1>3, <1>a, <1>b DEF Wrote, CloseStream, Open
  <2>2. daemon # "down"
    BY <1>3 DEF Wrote, CloseStream, Synchronized
  <2>3. CASE daemon = "up"
    <3>1. CASE Reported(queue, "modified")
      BY <1>3, <1>b, <2>3, <3>1, EventOnItsWay DEF Wrote, Reported, Synchronized, RootsDisjoint, server, desktop
    <3>2. CASE UNCHANGED <<file, queue, missed>>
      BY <1>3, <2>1, <2>3, <3>2 DEF Wrote, Synchronized, RootsDisjoint, InSync, server, desktop
    <3> QED BY <1>3, <3>1, <3>2 DEF Wrote, CloseStream
  <2>4. CASE daemon = "starting"
    <3>1. rootDirs = {Documents} /\ stream["main"] = Json({Documents})
      BY <1>3, <2>4 DEF Wrote, CloseStream, Synchronized
    <3>2. CASE UNCHANGED <<file, queue, missed>>
      BY <1>3, <2>1, <2>4, <3>2 DEF Wrote, Synchronized, RootsDisjoint, InSync, server, desktop
    <3>3. CASE file' \in {stream["main"], Garbled}
      <4>1. InSync'
        BY <1>3, <3>1, <3>3, DocumentsAlone DEF Wrote, InSync, Json, Garbled, Contents, server
      <4> QED BY <1>3, <2>1, <2>4, <4>1 DEF Wrote, Synchronized, RootsDisjoint, server, desktop
    <3> QED BY <1>3, <3>2, <3>3 DEF Wrote, CloseStream
  <2> QED BY <2>2, <2>3, <2>4 DEF TypeOK
<1>4. CASE Handle
  <2>1. CASE queue' = Tail(queue) /\ Read /\ UNCHANGED <<fs, missed>>
    <3>1. file.kind = "json" => rootDirs' = Roots(file.dirs) /\ applied' = Roots(file.dirs)
      BY <2>1 DEF Read, Parses
    <3>2. RootsDisjoint'
      BY <2>1, RootsAreValid DEF Read, RootsDisjoint
    <3> QED BY <1>4, <2>1, <3>1, <3>2 DEF Handle, Synchronized, InSync, fs, desktop
  <2>2. CASE Populate(rootDirs, Tail(queue)) /\ UNCHANGED applied
    <3>1. Tail(queue) \in Seq({"modified", "deleted"})
      BY <1>4, <1>b DEF Handle
    <3>2. \E i \in DOMAIN queue' : queue'[i] = "modified"
      BY <1>4, <1>a, <2>2, <3>1, OpenKeepsSync DEF Handle, Populate
    <3> QED BY <1>4, <2>2, <3>2 DEF Handle, Synchronized, RootsDisjoint, desktop
  <2> QED BY <1>4, <2>1, <2>2 DEF Handle
<1>5. CASE Crash
  BY <1>5, <1>a DEF Crash, Synchronized, RootsDisjoint, Disjoint, Open, TypeOK
<1>6. ASSUME NEW c \in Clients, Fetch(c) PROVE RootsDisjoint' /\ Synchronized'
  <2>1. \A b \in Clients : client'[b] = "posting" => client[b] = "posting"
    BY <1>6 DEF Fetch, TypeOK
  <2> QED BY <1>6, <2>1 DEF Fetch, Synchronized, RootsDisjoint, InSync, fs, server, Open
<1>7. ASSUME NEW c \in Clients, Post(c) PROVE RootsDisjoint' /\ Synchronized'
  <2>1. daemon = "up" /\ \E i \in DOMAIN queue' : queue'[i] = "modified"
    BY <1>7, <1>a, <1>b, OpenKeepsSync DEF Post
  <2> QED BY <1>7, <2>1 DEF Post, Synchronized, RootsDisjoint, server
<1>8. ASSUME NEW c \in Clients, Answer(c) PROVE RootsDisjoint' /\ Synchronized'
  <2>1. daemon = "up"
    BY <1>8 DEF Answer, Synchronized
  <2>2. CASE Reported(queue, "modified")
    BY <1>8, <1>b, <2>1, <2>2, EventOnItsWay DEF Answer, Reported, Synchronized, RootsDisjoint, server
  <2>3. CASE UNCHANGED <<file, queue, missed>>
    BY <1>8, <2>1, <2>3 DEF Answer, Synchronized, RootsDisjoint, InSync, server
  <2> QED BY <1>8, <2>2, <2>3 DEF Answer, CloseStream
<1>9. ASSUME NEW c \in Clients, GiveUp(c) PROVE RootsDisjoint' /\ Synchronized'
  <2>1. \A b \in Clients : client'[b] = "posting" => client[b] = "posting"
    BY <1>9 DEF GiveUp, TypeOK
  <2> QED BY <1>9, <2>1 DEF GiveUp, Synchronized, RootsDisjoint, InSync, fs, server, Open
<1>10. CASE User
  <2>1. CASE TakeAway
    <3>1. InSync'
      BY <2>1 DEF TakeAway, InSync, Missing, Contents
    <3>2. daemon = "up" => file'.kind # "json"
      BY <2>1 DEF TakeAway, Missing, Contents
    <3> QED BY <2>1, <3>1, <3>2 DEF TakeAway, Synchronized, RootsDisjoint, server, desktop, Open
  <2>2. ASSUME NEW x \in Edited, Save(x) PROVE RootsDisjoint' /\ Synchronized'
    <3>1. daemon = "up" => \E i \in DOMAIN queue' : queue'[i] = "modified"
      BY <1>b, <2>2, EventOnItsWay DEF Save
    <3> QED BY <2>2, <3>1 DEF Save, Synchronized, RootsDisjoint, server, desktop, Open
  <2>3. ASSUME NEW x \in Edited, SaveByRename(x) PROVE RootsDisjoint' /\ Synchronized'
    BY <2>3 DEF SaveByRename, Synchronized, RootsDisjoint, server, desktop, Open
  <2> QED BY <1>10, <2>1, <2>2, <2>3 DEF User
<1>11. CASE UNCHANGED vars
  BY <1>11 DEF vars, fs, server, desktop, Synchronized, RootsDisjoint, InSync, Open
<1> QED BY <1>1, <1>2, <1>3, <1>4, <1>5, <1>6, <1>7, <1>8, <1>9, <1>10, <1>11 DEF Next

THEOREM Invariance == Spec => []IInv
<1>1. IInv /\ [Next]_vars => IInv'
  BY TypesKept, SyncKept DEF IInv
<1> QED BY InitInvariant, <1>1, PTL DEF Spec

-----------------------------------------------------------------------------
(* What follows *)

\* The variables keep their types; directories that do not exist, or are not absolute,
\* never get past read().
THEOREM TypeCorrect == Spec => []TypeOK
<1>1. IInv => TypeOK
  BY DEF IInv
<1> QED BY Invariance, <1>1, PTL

\* Database, scanner and watcher never get a directory inside another one.
THEOREM ObserversGetDisjointRoots == Spec => []RootsDisjoint
<1>1. IInv => RootsDisjoint
  BY DEF IInv
<1> QED BY Invariance, <1>1, PTL

\* When the events are handled the daemon works with what a well-formed file holds, unless
\* the last change was one that is not reported.
THEOREM HandledMeansConverged == Spec => []Converged
<1>1. IInv => Converged
  <2> SUFFICES ASSUME IInv, daemon = "up", queue = <<>>, ~missed, file.kind = "json"
               PROVE  rootDirs = Roots(file.dirs) /\ applied = Roots(file.dirs)
    BY DEF Converged
  <2>1. \A i \in DOMAIN queue : queue[i] # "modified"
    OBVIOUS
  <2> QED BY <2>1 DEF IInv, Synchronized, InSync
<1> QED BY Invariance, <1>1, PTL

-----------------------------------------------------------------------------
(* Edits one after the other *)

\* Who is at work while nothing has overlapped: nobody; the daemon, which writes a first
\* file; a desktop that has fetched the list, or posts it.
Settled    == ~Busy /\ file = wanted /\ (file.kind = "missing" => daemon = "down")
Quiet(ws)  == /\ \A w \in Writers \ ws : ~Open(w)
              /\ \A c \in Clients \ ws : client[c] = "idle"
Writes(w)  == Open(w) /\ w \in linked /\ file = Empty /\ stream[w] = wanted /\ Quiet({w})
Fetched(c) == /\ client[c] = "fetched" /\ ~Open(c) /\ Quiet({c})
              /\ request[c] = wanted /\ file.kind # "missing"

OneAtATime ==
  /\ ~Parses => file.dirs = {}
  /\ ~clashed =>
       /\ \A i \in DOMAIN queue : queue[i] # "deleted"
       /\ \/ Settled
          \/ Writes("main")
          \/ \E c \in Clients : Fetched(c)
          \/ \E c \in Clients : Writes(c) /\ client[c] = "posting"

\* Nothing but "modified" is reported, if nothing else was.
LEMMA NoDeletion ==
  ASSUME NEW q \in Seq({"modified", "deleted"}), \A i \in DOMAIN q : q[i] # "deleted"
  PROVE  /\ \A i \in DOMAIN Append(q, "modified") : Append(q, "modified")[i] # "deleted"
         /\ q # <<>> => Head(q) # "deleted" /\ \A i \in DOMAIN Tail(q) : Tail(q)[i] # "deleted"
<1>1. \A i \in DOMAIN Append(q, "modified") : Append(q, "modified")[i] # "deleted"
  <2> SUFFICES ASSUME NEW i \in DOMAIN Append(q, "modified")
               PROVE  Append(q, "modified")[i] # "deleted"
    OBVIOUS
  <2>1. DOMAIN q = 1 .. Len(q) /\ Len(q) \in Nat /\ i \in 1 .. Len(q) + 1
    OBVIOUS
  <2>2. CASE i = Len(q) + 1
    BY <2>2
  <2>3. CASE i \in 1 .. Len(q)
    BY <2>1, <2>3
  <2> QED BY <2>1, <2>2, <2>3
<1>2. ASSUME q # <<>>
      PROVE  Head(q) # "deleted" /\ \A i \in DOMAIN Tail(q) : Tail(q)[i] # "deleted"
  <2>1. Len(q) \in Nat /\ Len(q) >= 1 /\ Head(q) = q[1] /\ DOMAIN q = 1 .. Len(q)
    BY <1>2
  <2>2. ASSUME NEW i \in DOMAIN Tail(q)
        PROVE  i + 1 \in DOMAIN q /\ Tail(q)[i] = q[i + 1]
    BY <1>2
  <2> QED BY <2>1, <2>2
<1> QED BY <1>1, <1>2

\* One operation that starts while nothing goes on, or is alone.
LEMMA PlainFileKept ==
  ASSUME TypeOK, OneAtATime, [Next]_vars
  PROVE  (~Parses => file.dirs = {})'
<1>0. ~Parses => file.dirs = {}
  BY DEF OneAtATime
<1>a. /\ Empty.dirs = {} /\ Garbled.dirs = {} /\ Missing.dirs = {}
      /\ \A S : Json(S).kind = "json" /\ Contents("odd", S).kind = "odd"
      /\ \A x \in Bodies : x # Closed => x.kind \in {"json", "odd"}
  BY DEF Empty, Garbled, Missing, Json, Contents, Bodies, Closed
<1>1. ASSUME file' = file
      PROVE  (~Parses => file.dirs = {})'
  BY <1>0, <1>1 DEF Parses
<1>2. ASSUME NEW w \in Writers, CloseStream(w)
      PROVE  (~Parses => file.dirs = {})'
  <2>1. stream[w] \in Bodies /\ stream[w] # Closed
    BY <1>2 DEF TypeOK, CloseStream, Open
  <2>2. file' \in {stream[w], Garbled, file}
    BY <1>2 DEF CloseStream
  <2> QED BY <1>0, <1>a, <2>1, <2>2 DEF Parses
<1>3. ASSUME file' \in {Empty, Missing} \cup Edited
      PROVE  (~Parses => file.dirs = {})'
  <2>1. \A x \in Edited : x = Garbled \/ x.kind \in {"json", "odd"}
    BY <1>a DEF Edited
  <2> QED BY <1>3, <1>a, <2>1 DEF Parses
<1>4. CASE Start
  BY <1>1, <1>3, <1>4 DEF Start, Populate, OpenStream, fs
<1>5. CASE Handle
  BY <1>1, <1>3, <1>5 DEF Handle, Populate, OpenStream, fs
<1>6. CASE Wrote \/ \E c \in Clients : Answer(c)
  BY <1>2, <1>6 DEF Wrote, Answer, Writers
<1>7. CASE \E c \in Clients : Post(c)
  BY <1>3, <1>7 DEF Post, OpenStream
<1>8. CASE User
  BY <1>3, <1>8 DEF User, TakeAway, Save, SaveByRename
<1>9. CASE \/ AddWatch \/ Crash \/ UNCHANGED vars
           \/ \E c \in Clients : Fetch(c) \/ GiveUp(c)
  BY <1>1, <1>9 DEF AddWatch, Crash, Fetch, GiveUp, fs, vars
<1> QED BY <1>4, <1>5, <1>6, <1>7, <1>8, <1>9 DEF Next

LEMMA OneAtATimeKept ==
  ASSUME TypeOK, OneAtATime, [Next]_vars
  PROVE  OneAtATime'
<1> SUFFICES ASSUME ~clashed'
             PROVE  /\ \A i \in DOMAIN queue' : queue'[i] # "deleted"
                    /\ \/ Settled' \/ Writes("main")'
                       \/ \E c \in Clients : Fetched(c)'
                       \/ \E c \in Clients : Writes(c)' /\ client'[c] = "posting"
  BY PlainFileKept DEF OneAtATime
<1> USE DEF Quiet
<1>0. ~clashed
  BY DEF Next, Start, AddWatch, Wrote, Handle, Crash, Fetch, Post, Answer, GiveUp, User, TakeAway,
         Save, SaveByRename, vars
<1>a. /\ \A i \in DOMAIN queue : queue[i] # "deleted"
      /\ \/ Settled
         \/ Writes("main")
         \/ \E c \in Clients : Fetched(c)
         \/ \E c \in Clients : Writes(c) /\ client[c] = "posting"
      /\ queue \in Seq({"modified", "deleted"})
  BY <1>0 DEF OneAtATime, TypeOK
<1>b. "main" \in Writers /\ "main" \notin Clients /\ Writers = Clients \cup {"main"}
  BY ConfigAssumption DEF Writers
<1>c. queue' \in {queue, <<>>, Append(queue, "modified")} => \A i \in DOMAIN queue' : queue'[i] # "deleted"
  <2>1. \A i \in DOMAIN <<>> : FALSE
    OBVIOUS
  <2>2. \A i \in DOMAIN Append(queue, "modified") : Append(queue, "modified")[i] # "deleted"
    BY <1>a, NoDeletion
  <2> QED BY <1>a, <2>1, <2>2
\* What the stages depend on.
<1>d. ASSUME UNCHANGED <<file, stream, linked, client, request, wanted>>,
             file.kind = "missing" => (daemon = "down" => daemon' = "down")
      PROVE  \/ Settled' \/ Writes("main")'
             \/ \E c \in Clients : Fetched(c)'
             \/ \E c \in Clients : Writes(c)' /\ client'[c] = "posting"
  <2>1. CASE Settled
    <3>1. Busy' <=> Busy
      BY <1>d DEF Busy, Open
    <3> QED BY <1>d, <2>1, <3>1 DEF Settled
  <2>2. \A w : Writes(w) => Writes(w)'
    BY <1>d DEF Writes, Open
  <2>3. \A c : Fetched(c) => Fetched(c)'
    BY <1>d DEF Fetched, Open
  <2> QED BY <1>a, <1>d, <2>1, <2>2, <2>3
<1>1. CASE Start
  <2>1. CASE file.kind = "missing" /\ Populate({}, queue) /\ wanted' = Json({Documents})
    <3>1. /\ rootDirs' = {Documents} /\ stream' = [stream EXCEPT !["main"] = Json({Documents})]
          /\ linked' = linked \cup {"main"} /\ file' = Empty /\ client' = client
          /\ queue' \in {queue, Append(queue, "modified")}
      BY <1>1, <2>1 DEF Start, Populate, OpenStream, Reported, desktop
    <3>2. ~Busy
      <4>1. Empty.kind # "missing"
        BY DEF Empty, Contents
      <4> QED BY <1>a, <2>1, <4>1 DEF Settled, Writes, Fetched
    <3>3. Writes("main")'
      <4>1. stream \in [Writers -> Bodies] /\ Json({Documents}) # Closed
        BY DEF TypeOK, Json, Closed, Contents
      <4> QED BY <1>b, <2>1, <3>1, <3>2, <4>1 DEF Writes, Open, Busy, TypeOK
    <3> QED BY <1>c, <3>1, <3>3
  <2>2. CASE file.kind = "json" /\ UNCHANGED <<fs, queue, missed, wanted>>
    BY <1>1, <1>c, <1>d, <2>2 DEF Start, fs, desktop
  <2> QED BY <1>1, <2>1, <2>2 DEF Start
<1>2. CASE AddWatch
  BY <1>2, <1>c, <1>d DEF AddWatch, fs, desktop
<1>3. ASSUME NEW w \in Writers, Writes(w), CloseStream(w), wanted' = wanted,
             \A c \in Clients : client'[c] = "idle"
      PROVE  /\ \A i \in DOMAIN queue' : queue'[i] # "deleted"
             /\ Settled'
  <2>1. file' = wanted /\ stream' = [stream EXCEPT ![w] = Closed] /\ queue' \in {queue, Append(queue, "modified")}
    BY <1>3 DEF CloseStream, Writes, Reported
  <2>2. \A v \in Writers : stream'[v] = Closed
    BY <1>3, <2>1 DEF Writes, Open, TypeOK
  <2>3. wanted.kind # "missing"
    <3>1. stream[w] \in Bodies
      BY DEF TypeOK
    <3> QED BY <1>3, <3>1 DEF Writes, Bodies, Closed, Contents
  <2>4. ~Busy'
    BY <1>3, <2>2 DEF Busy, Open
  <2> QED BY <1>3, <1>c, <2>1, <2>3, <2>4 DEF Settled
<1>4. CASE Wrote
  <2>1. Writes("main") /\ \A c \in Clients : client[c] = "idle"
    BY <1>4, <1>a, <1>b DEF Wrote, CloseStream, Settled, Busy, Writes, Fetched
  <2> QED BY <1>3, <1>4, <1>b, <2>1 DEF Wrote, desktop
<1>5. ASSUME NEW c \in Clients, Answer(c)
      PROVE  /\ \A i \in DOMAIN queue' : queue'[i] # "deleted"
             /\ Settled'
  <2>1. Writes(c)
    BY <1>5, <1>a, <1>b DEF Answer, Settled, Busy, Writes, Fetched
  <2>2. \A b \in Clients : client'[b] = "idle"
    BY <1>5, <2>1 DEF Answer, Writes, TypeOK
  <2> QED BY <1>3, <1>5, <1>b, <2>1, <2>2 DEF Answer
<1>6. CASE Handle
  <2>1. Head(queue) = "modified" /\ queue' = Tail(queue) /\ UNCHANGED <<fs, desktop, wanted, daemon>>
    BY <1>6, <1>a, NoDeletion DEF Handle
  <2>2. \A i \in DOMAIN queue' : queue'[i] # "deleted"
    BY <1>6, <1>a, <2>1, NoDeletion DEF Handle
  <2> QED BY <1>d, <2>1, <2>2 DEF fs, desktop
<1>7. CASE Crash
  <2>1. /\ \A w \in Writers : ~Open(w)
        /\ UNCHANGED <<file, request, wanted>> /\ daemon' = "down" /\ queue' = <<>>
        /\ stream' = [w \in Writers |-> Closed]
        /\ \A c \in Clients : client[c] = "fetched" => client'[c] = "fetched"
        /\ \A c \in Clients : client[c] = "idle" => client'[c] = "idle"
    BY <1>7 DEF Crash
  <2>2. CASE Settled
    <3>1. ~Busy'
      BY <2>1, <2>2 DEF Settled, Busy, Open
    <3> QED BY <1>c, <2>1, <2>2, <3>1 DEF Settled
  <2>3. ASSUME NEW c \in Clients, Fetched(c)
        PROVE  Fetched(c)'
    <3>1. client'[c] = "fetched" /\ (\A b \in Clients \ {c} : client'[b] = "idle")
      BY <2>1, <2>3 DEF Fetched
    <3>2. \A w \in Writers : ~Open(w)'
      BY <2>1 DEF Open
    <3> QED BY <1>b, <2>1, <2>3, <3>1, <3>2 DEF Fetched
  <2> QED BY <1>a, <1>b, <1>c, <2>1, <2>2, <2>3 DEF Writes
<1>8. ASSUME NEW c \in Clients, Fetch(c)
      PROVE  Fetched(c)' /\ queue' = queue
  <2>1. /\ ~Busy /\ daemon = "up" /\ client' = [client EXCEPT ![c] = "fetched"]
        /\ UNCHANGED <<file, stream, linked, queue>>
    BY <1>8, <1>0 DEF Fetch, fs
  <2>2. file = wanted /\ file.kind # "missing"
    BY <1>a, <1>b, <2>1 DEF Settled, Writes, Fetched, Busy
  <2>3. request'[c] = wanted'
    <3>1. PICK answer : answer = IF daemon = "up" /\ Parses THEN file ELSE Empty
      OBVIOUS
    <3>2. /\ Parses => answer = wanted
          /\ ~Parses => answer.dirs = {} /\ wanted.dirs = {} /\ answer.kind # "odd" /\ wanted.kind # "odd"
      BY <2>1, <2>2, <3>1 DEF OneAtATime, Parses, Empty, Contents
    <3>3. \A d \in Dirs, twice \in BOOLEAN : /\ Added(answer, d) = Added(wanted, d)
                                             /\ Removed(answer, d, twice) = Removed(wanted, d, twice)
      BY <3>2 DEF Added, Removed
    <3>4. \E r : request' = [request EXCEPT ![c] = r] /\ wanted' = r
      BY <1>8, <3>1, <3>3 DEF Fetch
    <3> QED BY <3>4 DEF TypeOK
  <2>4. client'[c] = "fetched" /\ \A b \in Clients \ {c} : client'[b] = "idle"
    BY <2>1 DEF Busy, TypeOK
  <2>5. \A w \in Writers : ~Open(w)'
    BY <2>1 DEF Busy, Open
  <2> QED BY <1>b, <2>1, <2>2, <2>3, <2>4, <2>5 DEF Fetched
<1>9. ASSUME NEW c \in Clients, Post(c)
      PROVE  /\ \A i \in DOMAIN queue' : queue'[i] # "deleted"
             /\ Writes(c)' /\ client'[c] = "posting"
  <2>1. Fetched(c)
    BY <1>9, <1>a, <1>b DEF Post, Settled, Busy, Writes, Fetched
  <2>2. /\ client' = [client EXCEPT ![c] = "posting"] /\ stream' = [stream EXCEPT ![c] = request[c]]
        /\ linked' = linked \cup {c} /\ file' = Empty /\ wanted' = wanted
        /\ queue' \in {queue, Append(queue, "modified")}
    BY <1>9 DEF Post, OpenStream, Reported
  <2>3. request[c] # Closed /\ c \in Writers
    BY <1>b, <1>9 DEF Post, TypeOK
  <2>4. client'[c] = "posting" /\ \A b \in Clients \ {c} : client'[b] = "idle"
    BY <2>1, <2>2 DEF Fetched, TypeOK
  <2>5. stream'[c] = wanted' /\ Open(c)' /\ \A w \in Writers \ {c} : ~Open(w)'
    BY <2>1, <2>2, <2>3 DEF Fetched, TypeOK, Open
  <2> QED BY <1>c, <2>2, <2>4, <2>5 DEF Writes
<1>10. CASE User
  <2>1. PICK x \in Edited : Save(x) \/ SaveByRename(x)
    BY <1>10 DEF User, TakeAway
  <2>2. /\ ~Busy /\ file' = x /\ wanted' = x /\ UNCHANGED <<stream, client>>
        /\ queue' \in {queue, Append(queue, "modified")}
    BY <1>0, <2>1 DEF Save, SaveByRename, desktop
  <2>3. ~Busy'
    BY <2>2 DEF Busy, Open
  <2>4. x.kind # "missing"
    BY DEF Edited, Json, Contents, Garbled
  <2> QED BY <1>c, <2>2, <2>3, <2>4 DEF Settled
<1>11. CASE UNCHANGED vars
  BY <1>11, <1>c, <1>d DEF vars, fs, desktop, server
<1>12. ~\E c \in Clients : GiveUp(c)
  BY DEF GiveUp
<1>13. CASE \E c \in Clients : Fetch(c)
  BY <1>8, <1>13, <1>c
<1> QED BY <1>1, <1>2, <1>4, <1>5, <1>6, <1>7, <1>9, <1>10, <1>11, <1>12, <1>13 DEF Next

\* The daemon does not touch what the user or a desktop wrote, and takes over what it is
\* sent, as long as operations follow one another.
THEOREM SequentialEditsStand == Spec => []EditsStand
<1>1. Init => OneAtATime
  <2> SUFFICES ASSUME Init PROVE OneAtATime
    OBVIOUS
  <2>1. ~Parses => file.dirs = {}
    BY DEF Init, Parses, Missing, Json, Contents
  <2>2. ~Busy /\ queue = <<>>
    BY DEF Init, Busy, Open
  <2> QED BY <2>1, <2>2 DEF Init, OneAtATime, Settled
<1>2. TypeOK /\ OneAtATime /\ [Next]_vars => OneAtATime'
  BY OneAtATimeKept
<1>3. OneAtATime => EditsStand
  BY DEF OneAtATime, EditsStand, Settled, Writes, Fetched, Busy, Writers
<1> QED BY <1>1, <1>2, <1>3, TypeCorrect, PTL DEF Spec

=============================================================================
