----------------------------- MODULE IndexProofs ----------------------------
(***************************************************************************)
(* The shared index, for every set of hosts and keys and every circle,     *)
(* when people take turns: an entry lies with the owner of its key         *)
(* (IndexPlacedOffHosts), whom a search names has the file (OwnersServe),  *)
(* only the user's own doing ends the first process (FirstDeathOwnDoing),  *)
(* and until then all hosts together are the index of SharedIndex          *)
(* (IndexIsShared).                                                        *)
(*                                                                         *)
(* None is inductive: a command takes effect several messages after it was *)
(* entered, and a join moves entries from one host to the next while the   *)
(* circle changes.  IndexInv adds to the Serial of the joins that one      *)
(* thing is done at a time (Turns), that what a command has been told is   *)
(* so until it acts on it (Told), and where the entries are at every step  *)
(* of a join (Placed): with the owner of their key among the hosts whose   *)
(* helper has handed them their part (Keepers), or in the FileTable of the *)
(* host that is next among them.                                           *)
(*                                                                         *)
(* A key that is the hash of a host is excepted, since help_join leaves it *)
(* with the helper.  It counts again at that host itself.                  *)
(***************************************************************************)
EXTENDS SerialProofs

\* A table that has an entry has all.
FullTables == \A x \in Node : MayBeNamed(x) => \A i \in FingerIndex : fingerTable[x][i] # NoNode

\* The walk passes hosts with tables, and helpers have one.
WalkRequestsReady == \A m \in requests :
    /\ m.type = "update" => MayBeNamed(m.to)
    /\ m.type = "updated" => MayBeNamed(m.cur) /\ MayBeNamed(m.next)
WalkHostsReady == \A n \in Node : phase[n] = "walk" => MayBeNamed(walk[n])
HelpersReady == \A n \in Node :
    /\ help[n].pc # "idle" => MayBeNamed(help[n].host)
    /\ help[n].pc \in {"files", "start", "done"} => MayBeNamed(help[n].prev)
WalksReady == WalkRequestsReady /\ WalkHostsReady /\ HelpersReady

NamesInv == Pacing # "free" /\ ReadyInv /\ ReachInv /\ AskedOnce /\ FullTables /\ WalksReady

\* One thing is done at a time.
Turns ==
    /\ \A m \in requests : m.type \in {"add", "delete"} =>
          requests = {m} /\ NoJoin /\ \A t \in Thread : lookup[t].st = "idle"
    /\ \A n \in Node : lookup[<<"ui", n>>].st # "idle" =>
          /\ requests = {} /\ NoJoin
          /\ \A t \in Thread : lookup[t].st # "idle" => t = <<"ui", n>>
          /\ lookup[<<"ui", n>>].hash = cmd[n].key /\ cmd[n].key \in Key

\* What a command has been told is so until it acts on it.
Told ==
    /\ \A n \in Node : lookup[<<"ui", n>>].st = "done" =>
          /\ lookup[<<"ui", n>>].succ \in Node
          /\ lookup[<<"ui", n>>].owner = DHT[lookup[<<"ui", n>>].succ][cmd[n].key]
    /\ \A m \in requests : m.type = "delete" => DHT[m.to][m.key] = m.src

\* The hashes of hosts.
Taken == { myHash[s] : s \in Started }

\* A key counts at x unless it is the hash of another host.
Counts(x, k) == k \notin Taken \/ k = myHash[x]

\* The hosts that keep entries of the index.
Keepers == Members \cup { n \in Newcomers : help[n].pc \in {"start", "done"} }

\* The file of an entry is there, unless the entry is about to be deleted.
Served(o, k) ==
    /\ o \in Started
    /\ localFiles[o][k] = "named" \/ \E m \in requests : m.type = "delete" /\ m.key = k

Entries == \A x \in Node, k \in Key :
    DHT[x][k] # NoNode /\ Counts(x, k) =>
        Owns(myHash, Keepers, x, k) /\ Served(DHT[x][k], k)

InTransit == \A n \in Newcomers, k \in Key :
    /\ phase[n] \in Joining /\ help[n].pc \in {"start", "done"}
    /\ help[n].files[k] # NoNode /\ Counts(n, k)
    => Owns(myHash, Keepers, n, k) /\ Served(help[n].files[k], k)

NoEntriesYet == \A n \in Node, k \in Key : phase[n] \notin {"up", "dead"} => DHT[n][k] = NoNode

Orders ==
    /\ \A m \in requests : m.type \in {"add", "delete"} => Owns(myHash, Members, m.to, m.key)
    /\ \A m \in requests : m.type = "add" =>
          m.src \in Started /\ localFiles[m.src][m.key] = "named"
    /\ \A n \in Node : lookup[<<"ui", n>>].st = "done" =>
          Owns(myHash, Members, lookup[<<"ui", n>>].succ, cmd[n].key)

Placed == Entries /\ InTransit /\ NoEntriesYet /\ Orders

IndexInv == SerialInv /\ NamesInv /\ MenuLookups /\ Turns /\ Told /\ (Intact /\ Apart => Placed)

\* A table is stored whole and only overwritten entry by entry.
LEMMA FullTablesStep ==
    ASSUME NamesInv, [Next]_vars
    PROVE  FullTables'
<1>0. TypeOK /\ FullTables /\ WalksReady /\ ReadyInv /\ Pacing # "free"
  BY DEF NamesInv, ReadyInv
<1>1. ASSUME NEW h \in Positions, InitialChord(h) PROVE FullTables'
  <2>1. \A x \in Node : \/ fingerTable'[x] = fingerTable[x]
                        \/ fingerTable'[x] = [i \in FingerIndex |-> First]
    BY <1>0, <1>1 DEF InitialChord, TypeOK
  <2> QED BY <1>0, <2>1, Constants DEF FullTables, MayBeNamed, HasHelped
<1>2. ASSUME NEW m \in requests, HandleUpdateRouteReq(m) PROVE FullTables'
  <2>1. CASE fingerTable' = [fingerTable EXCEPT ![m.to] = UpdatedTable(m.to, m.new)]
    <3>1. m.new # NoNode /\ m.to \in Node /\ MayBeNamed(m.to)
      BY <1>0, <1>2, RequestParts, Constants DEF HandleUpdateRouteReq, WalksReady, WalkRequestsReady, WalkHostsReady, HelpersReady
    <3>2. \A i \in FingerIndex : fingerTable'[m.to][i] \in {fingerTable[m.to][i], m.new}
      BY <1>0, <2>1, <3>1 DEF TypeOK, UpdatedTable
    <3>3. \A x \in Node \ {m.to} : fingerTable'[x] = fingerTable[x]
      BY <1>0, <2>1 DEF TypeOK
    <3> QED BY <1>0, <3>1, <3>2, <3>3 DEF FullTables, MayBeNamed, HasHelped
  <2>2. CASE fingerTable' = fingerTable
    BY <1>0, <2>2 DEF FullTables, MayBeNamed, HasHelped
  <2> QED BY <1>2, <2>1, <2>2 DEF HandleUpdateRouteReq, Crash, joinVars
<1>3. ASSUME NEW n \in Node, RecvRouteTable(n) PROVE FullTables'
  <2>1. \A x \in Node : fingerTable'[x] = IF x = n THEN help[n].table ELSE fingerTable[x]
    BY <1>0, <1>3 DEF RecvRouteTable, TypeOK
  <2>2. \A i \in FingerIndex : help[n].table[i] # NoNode
    BY <1>0, <1>3 DEF RecvRouteTable, HelpReady, ReadyInv
  <2> QED BY <1>0, <2>1, <2>2 DEF FullTables, MayBeNamed, HasHelped
<1>4. CASE UNCHANGED fingerTable
  BY <1>0, <1>4 DEF FullTables, MayBeNamed, HasHelped
<1> QED BY <1>1, <1>2, <1>3, <1>4, TablesGrowWriters

\* A host whose table has been stored names hosts with tables.
LEMMA EntriesHaveTables ==
    ASSUME Pacing # "free", ReadyInv, FullTables, NEW x, MayBeNamed(x), NEW i \in FingerIndex
    PROVE  MayBeNamed(fingerTable[x][i])
BY DEF ReadyInv, FullTables, TablesReady, MayBeNamed, HasHelped

\* Where the steps of a walk go.
LEMMA WalkRequestsStep ==
    ASSUME NamesInv, Grows, [Next]_vars
    PROVE  WalkRequestsReady'
<1>0. /\ TypeOK /\ FullTables /\ WalksReady /\ ReadyInv
      /\ \A x : MayBeNamed(x) => MayBeNamed(x)'
  BY DEF NamesInv, ReadyInv, Grows, MayBeNamed, HasHelped
<1> SUFFICES ASSUME NEW m \in requests', m \notin requests, m.type \in {"update", "updated"}
             PROVE  /\ m.type = "update" => MayBeNamed(m.to)
                    /\ m.type = "updated" => MayBeNamed(m.cur) /\ MayBeNamed(m.next)
  BY <1>0 DEF WalksReady, WalkRequestsReady, WalkHostsReady, HelpersReady
<1>1. ASSUME NEW n \in Node, NEW e \in Node, NEW h \in FreePositions, JoinChord(n, e, h)
      PROVE  FALSE
  BY <1>1 DEF JoinChord
<1>2. ASSUME NEW n \in Node, JoinReqReturn(n) PROVE FALSE
  BY <1>2 DEF JoinReqReturn, Crash
<1>3. ASSUME NEW n \in Node, AddReturn(n) PROVE FALSE
  BY <1>3 DEF AddReturn, Crash
<1>4. ASSUME NEW n \in Node, DeleteReturn(n) PROVE FALSE
  BY <1>4 DEF DeleteReturn, Crash
<1>5. ASSUME NEW n \in Node, WalkSend(n) PROVE m.type = "update" /\ MayBeNamed(m.to)
  <2>1. m = [type |-> "update", to |-> walk[n], new |-> n] /\ phase[n] = "walk"
    BY <1>5 DEF WalkSend, Crash
  <2> QED BY <1>0, <2>1 DEF WalksReady, WalkRequestsReady, WalkHostsReady, HelpersReady
<1>6. ASSUME NEW o \in requests, HandleUpdateRouteReq(o)
      PROVE  m.type = "updated" /\ MayBeNamed(m.cur) /\ MayBeNamed(m.next)
  <2>1. /\ m = [type |-> "updated", to |-> o.new, cur |-> o.to, next |-> UpdatedTable(o.to, o.new)[0]]
        /\ o.type = "update"
    BY <1>6 DEF HandleUpdateRouteReq, Crash
  <2>2. MayBeNamed(o.to) /\ MayBeNamed(o.new) /\ 0 \in FingerIndex
    BY <1>0, <2>1, Constants DEF WalksReady, WalkRequestsReady, WalkHostsReady, HelpersReady, NamesInv, ReadyInv, RequestsReady
  <2>3. MayBeNamed(fingerTable[o.to][0])
    BY <1>0, <2>2, EntriesHaveTables DEF NamesInv
  <2>4. UpdatedTable(o.to, o.new)[0] \in {fingerTable[o.to][0], o.new}
    BY <2>2 DEF UpdatedTable
  <2> QED BY <2>1, <2>2, <2>3, <2>4
<1> QED BY <1>1, <1>2, <1>3, <1>4, <1>5, <1>6, RequestsReadyWriters

\* A host walks to where it has been sent.
LEMMA WalkHostsStep ==
    ASSUME NamesInv, Grows, [Next]_vars
    PROVE  WalkHostsReady'
<1>0. /\ TypeOK /\ WalksReady
      /\ \A x : MayBeNamed(x) => MayBeNamed(x)'
  BY DEF NamesInv, ReadyInv, Grows, MayBeNamed, HasHelped
<1> SUFFICES ASSUME NEW n \in Node, phase'[n] = "walk" PROVE MayBeNamed(walk'[n])
  BY <1>0 DEF WalkHostsReady, MayBeNamed, HasHelped
<1>1. \/ UNCHANGED walk
      \/ \E m \in requests : WalkRecv(m)
      \/ \E x \in Node : RecvLookupNode(x)
  BY DEF Next, StartHost, UserStep, ThreadStep, LookupStep, JoinStep, FileStep, vars, joinVars,
     InitialChord, JoinChord,
     EnterCommand, UserExit, LookupCall, LookupReqHandle, AddReturn, DeleteReturn,
     SearchReturn, AddFileReqHandle, DelFileReqHandle, JoinReqHandle, HelpJoinReqHandle,
     HandleUpdateRouteReq, JoinReqReturn, HelpEntry, HelpFurthest, HelpFiles,
     HelpStart, HelpPipeBroken, RecvHelpJoin, RecvRouteTable, WalkSend,
     RecvFileTable, JoinFails, Crash
<1>2. ASSUME NEW m \in requests, WalkRecv(m) PROVE MayBeNamed(walk'[n])
  <2>1. m.type = "updated" /\ m.to \in Node /\ MayBeNamed(m.next)
    BY <1>0, <1>2, RequestParts DEF WalkRecv, WalksReady, WalkRequestsReady, WalkHostsReady, HelpersReady
  <2>2. CASE n = m.to
    BY <1>0, <1>2, <2>1, <2>2 DEF WalkRecv, TypeOK
  <2>3. CASE n # m.to
    BY <1>0, <1>2, <2>1, <2>3 DEF WalkRecv, TypeOK, WalksReady, WalkRequestsReady, WalkHostsReady, HelpersReady
  <2> QED BY <2>2, <2>3
<1>3. ASSUME NEW x \in Node, RecvLookupNode(x) PROVE MayBeNamed(walk'[n])
  <2>1. MayBeNamed(help[x].prev)
    BY <1>0, <1>3 DEF RecvLookupNode, WalksReady, WalkRequestsReady, WalkHostsReady, HelpersReady
  <2>2. CASE n = x
    BY <1>0, <1>3, <2>1, <2>2 DEF RecvLookupNode, TypeOK
  <2>3. CASE n # x
    BY <1>0, <1>3, <2>3 DEF RecvLookupNode, TypeOK, WalksReady, WalkRequestsReady, WalkHostsReady, HelpersReady
  <2> QED BY <2>2, <2>3
<1>4. CASE UNCHANGED walk
  <2>1. \/ phase[n] = "walk"
        \/ \E m \in requests : WalkRecv(m)
        \/ \E x \in Node : RecvLookupNode(x)
    <3>1. ASSUME NEW h \in Positions, InitialChord(h) PROVE phase[n] = "walk"
      BY <1>0, <3>1 DEF InitialChord, TypeOK
    <3>2. ASSUME NEW z \in Node, NEW e \in Node, NEW h \in FreePositions, JoinChord(z, e, h)
          PROVE  phase[n] = "walk"
      BY <1>0, <3>2 DEF JoinChord, TypeOK
    <3>3. ASSUME NEW z \in Node, RecvHelpJoin(z) \/ RecvRouteTable(z) \/ WalkSend(z) \/ RecvFileTable(z)
          PROVE  phase[n] = "walk"
      BY <1>0, <3>3 DEF RecvHelpJoin, RecvRouteTable, WalkSend, RecvFileTable, Crash, TypeOK
    <3>4. ASSUME UNCHANGED phase \/ \E x : phase' = [phase EXCEPT ![x] = "dead"]
          PROVE  phase[n] = "walk"
      BY <1>0, <3>4 DEF TypeOK
    <3> QED BY <3>1, <3>2, <3>3, <3>4, PhasesReadyWriters
  <2> QED BY <1>0, <1>2, <1>3, <1>4, <2>1 DEF WalksReady, WalkRequestsReady, WalkHostsReady, HelpersReady
<1> QED BY <1>1, <1>2, <1>3, <1>4

\* A helper has a table, and so has the host it sends the newcomer to.
LEMMA HelpersStep ==
    ASSUME NamesInv, Grows, [Next]_vars
    PROVE  HelpersReady'
<1>0. /\ TypeOK /\ WalksReady /\ ReadyInv
      /\ \A x : MayBeNamed(x) => MayBeNamed(x)'
  BY DEF NamesInv, ReadyInv, Grows, MayBeNamed, HasHelped
<1> SUFFICES ASSUME NEW n \in Node
             PROVE  /\ help'[n].pc # "idle" => MayBeNamed(help'[n].host)
                    /\ help'[n].pc \in {"files", "start", "done"} => MayBeNamed(help'[n].prev)
  BY <1>0 DEF HelpersReady, MayBeNamed, HasHelped
<1>1. ASSUME help'[n].host = help[n].host, help'[n].prev = help[n].prev,
             help'[n].pc # "idle" => help[n].pc # "idle",
             help'[n].pc \in {"files", "start", "done"} => help[n].pc \in {"files", "start", "done"}
      PROVE  /\ help'[n].pc # "idle" => MayBeNamed(help'[n].host)
             /\ help'[n].pc \in {"files", "start", "done"} => MayBeNamed(help'[n].prev)
  BY <1>0, <1>1 DEF WalksReady, WalkRequestsReady, WalkHostsReady, HelpersReady
<1>2. ASSUME NEW m \in requests, HelpJoinReqHandle(m), help' # help
      PROVE  /\ help'[n].pc # "idle" => MayBeNamed(help'[n].host)
             /\ help'[n].pc \in {"files", "start", "done"} => MayBeNamed(help'[n].prev)
  <2> DEFINE h == [NoHelp EXCEPT !.pc = "entry", !.host = m.to]
  <2>1. help' = [help EXCEPT ![m.new] = h] /\ MayBeNamed(m.to)
    BY <1>0, <1>2 DEF HelpJoinReqHandle, Crash, joinVars, NamesInv, ReadyInv, RequestsReady
  <2>2. h.pc = "entry" /\ h.host = m.to
    BY DEF NoHelp
  <2> HIDE DEF h
  <2>3. CASE n = m.new
    BY <1>0, <2>1, <2>2, <2>3 DEF TypeOK
  <2>4. CASE n # m.new
    BY <1>0, <2>1, <2>4 DEF TypeOK, WalksReady, WalkRequestsReady, WalkHostsReady, HelpersReady
  <2> QED BY <2>3, <2>4
<1>3. ASSUME NEW z \in Node, HelpFurthest(z)
      PROVE  /\ help'[n].pc # "idle" => MayBeNamed(help'[n].host)
             /\ help'[n].pc \in {"files", "start", "done"} => MayBeNamed(help'[n].prev)
  <2>1. MayBeNamed(lookup[<<"help", z>>].succ)
    BY <1>0, <1>3 DEF HelpFurthest, Returned, Thread, NamesInv, ReadyInv, LookupsReady, LookupReady, Early
  <2>2. help'[z].host = help[z].host /\ help'[z].prev = lookup[<<"help", z>>].succ
        /\ help[z].pc = "furthest" /\ \A x \in Node \ {z} : help'[x] = help[x]
    BY <1>0, <1>3 DEF HelpFurthest, TypeOK, HelpState
  <2> QED BY <1>0, <1>1, <2>1, <2>2 DEF WalksReady, WalkRequestsReady, WalkHostsReady, HelpersReady
<1>4. ASSUME NEW z \in Node, HelpEntry(z)
      PROVE  /\ help'[n].host = help[n].host /\ help'[n].prev = help[n].prev
             /\ help'[n].pc # "idle" => help[n].pc # "idle"
             /\ help'[n].pc \in {"files", "start", "done"} => help[n].pc \in {"files", "start", "done"}
  <2>1. CASE n = z
    BY <1>0, <1>4, <2>1 DEF HelpEntry, TypeOK, HelpState
  <2>2. CASE n # z
    BY <1>0, <1>4, <2>2 DEF HelpEntry, TypeOK
  <2> QED BY <2>1, <2>2
<1>5. ASSUME NEW z \in Node, HelpFiles(z) \/ HelpStart(z)
      PROVE  /\ help'[n].host = help[n].host /\ help'[n].prev = help[n].prev
             /\ help'[n].pc # "idle" => help[n].pc # "idle"
             /\ help'[n].pc \in {"files", "start", "done"} => help[n].pc \in {"files", "start", "done"}
  <2>1. CASE n = z
    BY <1>0, <1>5, <2>1 DEF HelpFiles, HelpStart, TypeOK, HelpState
  <2>2. CASE n # z
    BY <1>0, <1>5, <2>2 DEF HelpFiles, HelpStart, TypeOK
  <2> QED BY <2>1, <2>2
<1>6. CASE UNCHANGED help
  BY <1>1, <1>6
<1> QED BY <1>1, <1>2, <1>3, <1>4, <1>5, <1>6, HelpReadyWriters

\* At any pace but the free one.
LEMMA NamesStep ==
    ASSUME Pacing # "free", NamesInv, [Next]_vars
    PROVE  NamesInv'
<1>1. ReadyInv' /\ ReachInv' /\ AskedOnce'
  BY ReadyStep, NextReach, AskedOnceStep DEF NamesInv, ReadyInv
<1>2. Grows
  BY TablesGrowStep DEF NamesInv, ReadyInv
<1>3. WalksReady'
  BY <1>2, WalkRequestsStep, WalkHostsStep, HelpersStep DEF WalksReady
<1> QED BY <1>1, <1>3, FullTablesStep DEF NamesInv

\* Nobody is named.
LEMMA NamesInit ==
    ASSUME Pacing # "free", Init
    PROVE  NamesInv
<1>1. ReadyInv /\ ReachInv /\ AskedOnce
  BY ReadyInit, InitReach, AskedOnceInit
<1>2. FullTables
  BY DEF Init, FullTables, MayBeNamed, HasHelped, EmptyTable
<1>3. WalksReady
  BY DEF Init, WalksReady, WalkRequestsReady, WalkHostsReady, HelpersReady, NoHelp
<1> QED BY <1>1, <1>2, <1>3 DEF NamesInv

-----------------------------------------------------------------------------
(* Who ends first.                                                         *)

\* While nobody has died, whoever has a table is there.
LEMMA TablesAlive ==
    ASSUME NamesInv, Intact, NEW x, MayBeNamed(x)
    PROVE  Alive(x)
<1>1. x \in Node /\ x \in Started
  BY DEF MayBeNamed, HasHelped, NamesInv, ReachInv, TablesReach, Reaches
<1> QED BY <1>1 DEF Intact, Started, Alive

\* While nobody has died, the next hop is there.
LEMMA HopAlive ==
    ASSUME NamesInv, Intact, NEW x, MayBeNamed(x), NEW hash \in Ids
    PROVE  Alive(NextHop(x, hash))
<1>1. TypeOK /\ ReadyInv /\ FullTables /\ x \in Node /\ myHash[x] \in Ids
  BY DEF NamesInv, ReadyInv, TypeOK, MayBeNamed, HasHelped
<1>2. CASE hash = myHash[x]
  BY <1>2, TablesAlive DEF NextHop
<1>3. CASE hash # myHash[x]
  <2>1. HopIndex(myHash[x], hash) \in FingerIndex
    BY <1>1, <1>3, HopRange
  <2>2. MayBeNamed(NextHop(x, hash))
    BY <1>1, <1>3, <2>1, EntriesHaveTables DEF NextHop, NamesInv
  <2> QED BY <2>2, TablesAlive
<1> QED BY <1>2, <1>3

\* A lookup finds everybody it needs alive.
LEMMA LookupStepSurvives ==
    ASSUME NamesInv, Intact, NEW t \in Thread, LookupCall(t) \/ LookupReqHandle(t)
    PROVE  UNCHANGED phase
<1>1. TypeOK /\ ReadyInv /\ lookup[t].hash \in Ids
  BY LookupParts DEF NamesInv, ReadyInv
<1>2. CASE LookupCall(t)
  <2>1. MayBeNamed(lookup[t].src)
    BY <1>1, <1>2 DEF LookupCall, NamesInv, ReadyInv, LookupsReady, LookupReady, Early
  <2>2. Alive(NextHop(lookup[t].src, lookup[t].hash))
    BY <1>1, <2>1, HopAlive
  <2> QED BY <1>2, <2>2 DEF LookupCall
<1>3. CASE LookupReqHandle(t)
  <2>1. MayBeNamed(lookup[t].src) /\ MayBeNamed(lookup[t].at)
    BY <1>1, <1>3 DEF LookupReqHandle, NamesInv, ReadyInv, LookupsReady, LookupReady, Early
  <2>2. Alive(NextHop(lookup[t].at, lookup[t].hash)) /\ Alive(lookup[t].src)
    BY <1>1, <2>1, HopAlive, TablesAlive
  <2> QED BY <1>3, <2>2 DEF LookupReqHandle
<1> QED BY <1>2, <1>3

\* So does every step of a join.
LEMMA JoinStepSurvives ==
    ASSUME NamesInv, Intact, JoinStep, NEW n \in Node, phase'[n] = "dead"
    PROVE  FALSE
<1>0. /\ TypeOK /\ ReadyInv /\ ReachInv /\ AskedOnce
      /\ phase \in [Node -> Phase] /\ phase[n] # "dead"
  BY DEF NamesInv, ReadyInv, Intact, TypeOK
<1>1. ASSUME NEW m \in requests, JoinReqHandle(m) PROVE FALSE
  BY <1>0, <1>1 DEF JoinReqHandle
<1>2. ASSUME NEW m \in requests, HelpJoinReqHandle(m) PROVE FALSE
  <2>1. m.type = "help" /\ m.new \in Node
    BY <1>0, <1>2, RequestParts DEF HelpJoinReqHandle
  <2>2. Alive(m.new)
    BY <1>0, <2>1 DEF AskedOnce, Intact, Alive
  <2> QED BY <1>0, <1>2, <2>2 DEF HelpJoinReqHandle
<1>3. ASSUME NEW m \in requests, HandleUpdateRouteReq(m) PROVE FALSE
  <2>1. MayBeNamed(m.new)
    BY <1>0, <1>3 DEF HandleUpdateRouteReq, NamesInv, ReadyInv, RequestsReady
  <2>2. Alive(m.new)
    BY <2>1, TablesAlive
  <2> QED BY <1>0, <1>3, <2>2 DEF HandleUpdateRouteReq
<1>4. ASSUME NEW m \in requests, WalkRecv(m) PROVE FALSE
  <2>1. \A x \in Node : phase'[x] \in {phase[x], "files", "walk"}
    BY <1>0, <1>4 DEF WalkRecv
  <2> QED BY <1>0, <2>1
<1>5. ASSUME NEW x \in Node, JoinReqReturn(x) PROVE FALSE
  <2>1. MayBeNamed(lookup[<<"join", x>>].succ)
    BY <1>0, <1>5 DEF JoinReqReturn, Returned, Thread, NamesInv, ReadyInv, LookupsReady, LookupReady, Early
  <2>2. Alive(lookup[<<"join", x>>].succ)
    BY <2>1, TablesAlive
  <2> QED BY <1>0, <1>5, <2>2 DEF JoinReqReturn
<1>6. ASSUME NEW x \in Node, HelpEntry(x) \/ HelpFurthest(x) \/ HelpFiles(x) \/ HelpStart(x)
      PROVE  FALSE
  BY <1>0, <1>6 DEF HelpEntry, HelpFurthest, HelpFiles, HelpStart
<1>7. ASSUME NEW x \in Node, HelpPipeBroken(x) PROVE FALSE
  BY <1>0, <1>7 DEF HelpPipeBroken, ReachInv, HelpedStarted, Started, Intact, Alive
<1>8. ASSUME NEW x \in Node, RecvHelpJoin(x) \/ RecvRouteTable(x) \/ RecvLookupNode(x) \/ RecvFileTable(x)
      PROVE  FALSE
  <2>1. \E p \in {"table", "prev", "walk", "up"} : phase' = [phase EXCEPT ![x] = p]
    BY <1>8 DEF RecvHelpJoin, RecvRouteTable, RecvLookupNode, RecvFileTable
  <2> QED BY <1>0, <2>1
<1>9. ASSUME NEW x \in Node, WalkSend(x) PROVE FALSE
  <2>1. MayBeNamed(walk[x])
    BY <1>9 DEF WalkSend, NamesInv, WalksReady, WalkHostsReady
  <2>2. Alive(walk[x])
    BY <2>1, TablesAlive
  <2> QED BY <1>0, <1>9, <2>2 DEF WalkSend
<1>10. ASSUME NEW x \in Node, JoinFails(x) PROVE FALSE
  <2>1. MayBeNamed(help[x].host)
    BY <1>10 DEF JoinFails, NamesInv, WalksReady, HelpersReady
  <2> QED BY <1>10, <2>1, TablesAlive DEF JoinFails
<1> QED BY <1>1, <1>2, <1>3, <1>4, <1>5, <1>6, <1>7, <1>8, <1>9, <1>10 DEF JoinStep

-----------------------------------------------------------------------------
(* Taking turns.                                                           *)

\* No command is being executed, and none has a request on its way.
NoMenu ==
    /\ \A m \in requests : m.type \notin {"add", "delete"}
    /\ \A n \in Node : lookup[<<"ui", n>>].st = "idle"

\* A join is going on.
Busy ==
    \/ ~NoJoin
    \/ \E m \in requests : m.type \notin {"add", "delete"}
    \/ \E n \in Node : lookup[<<"join", n>>].st # "idle" \/ lookup[<<"help", n>>].st # "idle"

LEMMA NoMenuTurns ==
    ASSUME NoMenu
    PROVE  Turns /\ Told
BY DEF NoMenu, Turns, Told

LEMMA BusyNoMenu ==
    ASSUME Turns, Busy
    PROVE  NoMenu
<1>1. ASSUME NEW m \in requests, m.type \in {"add", "delete"} PROVE FALSE
  BY <1>1 DEF Turns, Busy, Thread
<1>2. ASSUME NEW n \in Node, lookup[<<"ui", n>>].st # "idle" PROVE FALSE
  <2>1. requests = {} /\ NoJoin /\ \A t \in Thread : lookup[t].st # "idle" => t = <<"ui", n>>
    BY <1>2 DEF Turns
  <2> QED BY <2>1 DEF Busy, Thread
<1> QED BY <1>1, <1>2 DEF NoMenu

\* Every step of a join is a step of a join, and leaves the menus alone.
LEMMA JoinStepNoMenu ==
    ASSUME TypeOK, Turns, JoinStep
    PROVE  NoMenu /\ NoMenu'
<1>1. Busy
  <2>1. ASSUME NEW m \in requests, \/ JoinReqHandle(m) \/ HelpJoinReqHandle(m)
                                   \/ HandleUpdateRouteReq(m) \/ WalkRecv(m)
        PROVE  Busy
    BY <2>1 DEF Busy, JoinReqHandle, HelpJoinReqHandle, HandleUpdateRouteReq, WalkRecv
  <2>2. ASSUME NEW n \in Node, JoinReqReturn(n) \/ HelpEntry(n) \/ HelpFurthest(n) \/ HelpFiles(n)
                               \/ HelpStart(n) \/ HelpPipeBroken(n)
        PROVE  Busy
    BY <2>2 DEF Busy, NoJoin, JoinReqReturn, HelpEntry, HelpFurthest, HelpFiles, HelpStart,
       HelpPipeBroken, Returned
  <2>3. ASSUME NEW n \in Node, RecvHelpJoin(n) \/ RecvRouteTable(n) \/ RecvLookupNode(n)
                               \/ WalkSend(n) \/ RecvFileTable(n) \/ JoinFails(n)
        PROVE  Busy
    BY <2>3 DEF Busy, NoJoin, RecvHelpJoin, RecvRouteTable, RecvLookupNode, WalkSend,
       RecvFileTable, JoinFails, Joining
  <2> QED BY <2>1, <2>2, <2>3 DEF JoinStep
<1>2. \A n \in Node : lookup'[<<"ui", n>>] = lookup[<<"ui", n>>]
  <2>1. ASSUME NEW m \in requests, \/ JoinReqHandle(m) \/ HelpJoinReqHandle(m)
                                   \/ HandleUpdateRouteReq(m) \/ WalkRecv(m)
        PROVE  \A n \in Node : lookup'[<<"ui", n>>] = lookup[<<"ui", n>>]
    BY <2>1 DEF JoinReqHandle, HelpJoinReqHandle, HandleUpdateRouteReq, WalkRecv, Crash, TypeOK,
       Thread
  <2>2. ASSUME NEW x \in Node, JoinReqReturn(x) \/ HelpEntry(x) \/ HelpFurthest(x) \/ HelpFiles(x)
                               \/ HelpStart(x) \/ HelpPipeBroken(x)
        PROVE  \A n \in Node : lookup'[<<"ui", n>>] = lookup[<<"ui", n>>]
    BY <2>2 DEF JoinReqReturn, HelpEntry, HelpFurthest, HelpFiles, HelpStart, HelpPipeBroken,
       Crash, TypeOK, Thread
  <2>3. ASSUME NEW x \in Node, RecvHelpJoin(x) \/ RecvRouteTable(x) \/ RecvLookupNode(x)
                               \/ WalkSend(x) \/ RecvFileTable(x) \/ JoinFails(x)
        PROVE  \A n \in Node : lookup'[<<"ui", n>>] = lookup[<<"ui", n>>]
    BY <2>3 DEF RecvHelpJoin, RecvRouteTable, RecvLookupNode, WalkSend, RecvFileTable, JoinFails,
       Crash
  <2> QED BY <2>1, <2>2, <2>3 DEF JoinStep
<1>3. \A m \in requests' : m \in requests \/ m.type \notin {"add", "delete"}
  <2> DEFINE Sent == \A m \in requests' : m \in requests \/ m.type \notin {"add", "delete"}
  <2>1. ASSUME NEW m \in requests, JoinReqHandle(m) \/ HelpJoinReqHandle(m) \/ WalkRecv(m)
        PROVE  Sent
    BY <2>1 DEF JoinReqHandle, HelpJoinReqHandle, WalkRecv, Crash
  <2>2. ASSUME NEW m \in requests, HandleUpdateRouteReq(m) PROVE Sent
    BY <2>2 DEF HandleUpdateRouteReq, Crash
  <2>3. ASSUME NEW n \in Node, JoinReqReturn(n) PROVE Sent
    BY <2>3 DEF JoinReqReturn, Crash
  <2>4. ASSUME NEW n \in Node, WalkSend(n) PROVE Sent
    BY <2>4 DEF WalkSend, Crash
  <2>5. ASSUME NEW n \in Node, HelpEntry(n) \/ HelpFurthest(n) \/ HelpFiles(n)
                               \/ HelpStart(n) \/ HelpPipeBroken(n)
        PROVE  Sent
    BY <2>5 DEF HelpEntry, HelpFurthest, HelpFiles, HelpStart, HelpPipeBroken, Crash
  <2>6. ASSUME NEW n \in Node, RecvHelpJoin(n) \/ RecvRouteTable(n) \/ RecvLookupNode(n)
                               \/ RecvFileTable(n) \/ JoinFails(n)
        PROVE  Sent
    BY <2>6 DEF RecvHelpJoin, RecvRouteTable, RecvLookupNode, RecvFileTable, JoinFails, Crash
  <2> QED BY <2>1, <2>2, <2>3, <2>4, <2>5, <2>6 DEF JoinStep
<1>4. NoMenu
  BY <1>1, BusyNoMenu
<1> QED BY <1>2, <1>3, <1>4 DEF NoMenu

LEMMA JoinStepTurns ==
    ASSUME TypeOK, Turns, JoinStep
    PROVE  Turns' /\ Told'
<1>1. NoMenu'
  BY JoinStepNoMenu
<1>2. (Turns /\ Told)'
  BY <1>1, NoMenuTurns, PTL
<1> QED BY <1>2
-----------------------------------------------------------------------------
(* The other steps keep turns.                                             *)

\* The end of a process.
LEMMA CrashTurns ==
    ASSUME TypeOK, Turns, Told, NEW x, Crash(x)
    PROVE  Turns' /\ Told'
<1>1. NoJoin => NoJoin'
  BY DEF NoJoin, Crash, TypeOK, Joining, joinVars
<1>2. UNCHANGED << requests, lookup, cmd, DHT >>
  BY DEF Crash, fileVars, uiVars
<1> QED BY <1>1, <1>2 DEF Turns, Told

\* A lookup on its way is all that is going on, or no command is.
LEMMA LookupStepTurns ==
    ASSUME TypeOK, ReadyInv, Turns, Told,
           NEW t \in Thread, LookupCall(t) \/ LookupReqHandle(t)
    PROVE  Turns' /\ Told'
<1>1. CASE \E x : Crash(x)
  BY <1>1, CrashTurns
<1>2. CASE /\ UNCHANGED << phase, requests, help, DHT, cmd >>
           /\ \/ \E x \in Node : lookup' = [lookup EXCEPT ![t] = Answer(lookup[t], x)]
              \/ \E x : lookup' = [lookup EXCEPT ![t].st = "fwd", ![t].at = x]
              \/ \E x : lookup' = [lookup EXCEPT ![t] = [lookup[t] EXCEPT !.at = x]]
  <2>1. lookup[t].st \in {"call", "fwd"}
    BY DEF LookupCall, LookupReqHandle
  <2>2. \A u \in Thread \ {t} : lookup'[u] = lookup[u]
    BY <1>2 DEF TypeOK
  <2>3. /\ lookup'[t].st # "idle" /\ lookup'[t].hash = lookup[t].hash
        /\ lookup'[t].st = "done" =>
              \E x \in Node : /\ lookup'[t].succ = x
                              /\ lookup'[t].owner = IF lookup[t].hash \in Key
                                                    THEN DHT[x][lookup[t].hash] ELSE NoNode
    <3>0. lookup[t] \in LookupState
      BY DEF TypeOK
    <3>1. ASSUME NEW x \in Node, lookup' = [lookup EXCEPT ![t] = Answer(lookup[t], x)]
          PROVE  /\ lookup'[t].st = "done" /\ lookup'[t].hash = lookup[t].hash
                 /\ lookup'[t].succ = x
                 /\ lookup'[t].owner = IF lookup[t].hash \in Key
                                       THEN DHT[x][lookup[t].hash] ELSE NoNode
      <4>1. lookup'[t] = Answer(lookup[t], x)
        BY <3>1 DEF TypeOK
      <4> QED BY <3>0, <4>1 DEF LookupState, Answer
    <3>2. ASSUME NEW x, lookup' = [lookup EXCEPT ![t].st = "fwd", ![t].at = x]
          PROVE  lookup'[t].st = "fwd" /\ lookup'[t].hash = lookup[t].hash
      BY <3>0, <3>2 DEF TypeOK, LookupState
    <3>3. ASSUME NEW x, lookup' = [lookup EXCEPT ![t] = [lookup[t] EXCEPT !.at = x]]
          PROVE  lookup'[t].st = lookup[t].st /\ lookup'[t].hash = lookup[t].hash
      BY <3>0, <3>3 DEF TypeOK, LookupState
    <3> QED BY <1>2, <2>1, <3>1, <3>2, <3>3
  <2>4. CASE \E n \in Node : t = <<"ui", n>>
    <3>1. PICK n \in Node : t = <<"ui", n>>
      BY <2>4
    <3>2. /\ requests = {} /\ NoJoin /\ lookup[t].hash = cmd[n].key /\ cmd[n].key \in Key
          /\ \A u \in Thread : lookup[u].st # "idle" => u = t
      BY <2>1, <3>1 DEF Turns
    <3>3. \A x \in Node : <<"ui", x>> \in Thread /\ (<<"ui", x>> = t <=> x = n)
      BY <3>1 DEF Thread
    <3>4. NoJoin'
      BY <1>2, <3>2 DEF NoJoin
    <3>5. Turns'
      BY <1>2, <2>2, <2>3, <3>1, <3>2, <3>3, <3>4 DEF Turns
    <3>6. Told'
      BY <1>2, <2>2, <2>3, <3>1, <3>2, <3>3 DEF Told
    <3> QED BY <3>5, <3>6
  <2>5. CASE \A n \in Node : t # <<"ui", n>>
    <3>1. Busy
      BY <2>1, <2>5 DEF Busy, Thread
    <3>2. NoMenu
      BY <3>1, BusyNoMenu
    <3>3. NoMenu'
      BY <1>2, <2>2, <2>5, <3>2 DEF NoMenu, Thread
    <3>4. (Turns /\ Told)'
      BY <3>3, NoMenuTurns, PTL
    <3> QED BY <3>4
  <2> QED BY <2>4, <2>5
<1>3. CASE LookupCall(t)
  BY <1>1, <1>2, <1>3 DEF LookupCall, Alive, joinVars, fileVars, uiVars
<1>4. CASE LookupReqHandle(t)
  BY <1>1, <1>2, <1>4 DEF LookupReqHandle, Alive, joinVars, fileVars, uiVars
<1> QED BY <1>3, <1>4

\* Hosts and commands are started when nothing is going on.
LEMMA StartsTurns ==
    ASSUME TypeOK, Turns, Told, Pacing = "quiet", StartHost \/ UserStep
    PROVE  Turns' /\ Told'
<1>1. ASSUME NEW h \in Positions, InitialChord(h) PROVE Turns' /\ Told'
  <2>1. NoJoin => NoJoin'
    BY <1>1 DEF InitialChord, NoJoin, TypeOK, Joining
  <2>2. UNCHANGED << requests, lookup, cmd, DHT >>
    BY <1>1 DEF InitialChord, fileVars, uiVars
  <2> QED BY <2>1, <2>2 DEF Turns, Told
<1>2. ASSUME NEW n \in Node, NEW e \in Node, NEW h \in FreePositions, JoinChord(n, e, h)
      PROVE  Turns' /\ Told'
  <2>1. Quiet
    BY <1>2 DEF JoinChord, Ready
  <2>2. NoMenu'
    BY <1>2, <2>1 DEF JoinChord, NoMenu, Quiet, Thread
  <2>3. (Turns /\ Told)'
    BY <2>2, NoMenuTurns, PTL
  <2> QED BY <2>3
<1>3. ASSUME NEW n \in Node, NEW op \in Commands, NEW k \in Key, EnterCommand(n, op, k)
      PROVE  Turns' /\ Told'
  <2>1. Quiet
    BY <1>3 DEF EnterCommand, Ready
  <2>2. /\ \A t \in Thread : lookup'[t] = IF t = <<"ui", n>> THEN Lookup(n, k) ELSE lookup[t]
        /\ cmd'[n].key = k
    BY <1>3 DEF EnterCommand, TypeOK
  <2>3. Lookup(n, k).st = "call" /\ Lookup(n, k).hash = k
    BY DEF Lookup, NoLookup
  <2>4. requests' = {} /\ NoJoin' /\ \A t \in Thread : lookup[t].st = "idle"
    BY <1>3, <2>1 DEF EnterCommand, Quiet, NoJoin, joinVars
  <2>5. \A x \in Node : <<"ui", x>> \in Thread /\ (<<"ui", x>> = <<"ui", n>> <=> x = n)
    BY DEF Thread
  <2> QED BY <2>2, <2>3, <2>4, <2>5 DEF Turns, Told
<1>4. ASSUME NEW n \in Node, UserExit(n) PROVE Turns' /\ Told'
  BY <1>4, CrashTurns DEF UserExit
<1> QED BY <1>1, <1>2, <1>3, <1>4 DEF StartHost, UserStep

\* A command acts when its lookup has returned.
LEMMA FileStepTurns ==
    ASSUME TypeOK, Turns, Told, FileStep
    PROVE  Turns' /\ Told'
<1>1. ASSUME NEW n \in Node, AddReturn(n) \/ DeleteReturn(n) \/ SearchReturn(n)
      PROVE  Turns' /\ Told'
  <2>0. <<"ui", n>> \in Thread /\ \A x \in Node : <<"ui", x>> \in Thread
    BY DEF Thread
  <2>1. lookup[<<"ui", n>>].st = "done"
    BY <1>1 DEF AddReturn, DeleteReturn, SearchReturn, CommandEnds, Returned
  <2>2. /\ requests = {} /\ NoJoin /\ \A t \in Thread : lookup[t].st # "idle" => t = <<"ui", n>>
        /\ lookup[<<"ui", n>>].owner = DHT[lookup[<<"ui", n>>].succ][cmd[n].key]
    BY <2>1 DEF Turns, Told
  <2>3. CASE \E x : Crash(x)
    BY <2>3, CrashTurns
  <2>4. CASE CommandEnds(n) /\ UNCHANGED << phase, help, DHT >>
    <3>1. \A t \in Thread : lookup'[t].st = "idle"
      BY <2>0, <2>2, <2>4 DEF CommandEnds, TypeOK, NoLookup
    <3>2. NoJoin'
      BY <2>2, <2>4 DEF NoJoin
    <3>3. \/ requests' = {}
          \/ \E m : /\ requests' = {m}
                    /\ m.type = "delete" => DHT'[m.to][m.key] = m.src
      BY <1>1, <2>2, <2>4 DEF AddReturn, DeleteReturn, SearchReturn, Crash
    <3> QED BY <2>0, <3>1, <3>2, <3>3 DEF Turns, Told
  <2> QED BY <1>1, <2>3, <2>4 DEF AddReturn, DeleteReturn, SearchReturn, joinVars, fileVars
<1>2. ASSUME NEW m \in requests, AddFileReqHandle(m) \/ DelFileReqHandle(m)
      PROVE  Turns' /\ Told'
  <2>1. requests = {m} /\ \A t \in Thread : lookup[t].st = "idle"
    BY <1>2 DEF AddFileReqHandle, DelFileReqHandle, Turns
  <2>2. CASE \E x : Crash(x)
    BY <2>2, CrashTurns
  <2>3. CASE requests' = requests \ {m} /\ UNCHANGED lookup
    <3>1. NoMenu'
      BY <2>1, <2>3 DEF NoMenu, Thread
    <3>2. (Turns /\ Told)'
      BY <3>1, NoMenuTurns, PTL
    <3> QED BY <3>2
  <2> QED BY <1>2, <2>2, <2>3 DEF AddFileReqHandle, DelFileReqHandle
<1> QED BY <1>1, <1>2 DEF FileStep

\* At a quiet pace.
LEMMA TurnsStep ==
    ASSUME NamesInv, Turns, Told, Pacing = "quiet", [Next]_vars
    PROVE  Turns' /\ Told'
<1>0. TypeOK /\ ReadyInv
  BY DEF NamesInv, ReadyInv
<1>1. CASE UNCHANGED vars
  BY <1>1 DEF vars, Turns, Told, NoJoin
<1> QED BY <1>0, <1>1, StartsTurns, LookupStepTurns, JoinStepTurns, FileStepTurns
        DEF Next, ThreadStep, LookupStep

\* A command ends a process only if it is the deletion of what nobody has.
LEMMA FileStepSurvives ==
    ASSUME NamesInv, Turns, Told, Intact, FileStep, NEW n \in Node, phase'[n] = "dead"
    PROVE  cmd[n].op = "delete" /\ Returned(<<"ui", n>>) /\ lookup[<<"ui", n>>].owner = NoNode
<1>0. TypeOK /\ ReadyInv /\ phase \in [Node -> Phase] /\ phase[n] # "dead"
  BY DEF NamesInv, ReadyInv, TypeOK, Intact
<1>1. ASSUME NEW x \in Node, Returned(<<"ui", x>>)
      PROVE  Alive(lookup[<<"ui", x>>].succ)
  BY <1>0, <1>1, TablesAlive DEF Returned, Thread, NamesInv, ReadyInv, LookupsReady, LookupReady, Early
<1>2. ASSUME NEW x \in Node, AddReturn(x) PROVE FALSE
  BY <1>0, <1>1, <1>2 DEF AddReturn
<1>3. ASSUME NEW x \in Node, SearchReturn(x) PROVE FALSE
  BY <1>0, <1>3 DEF SearchReturn
<1>4. ASSUME NEW x \in Node, DeleteReturn(x)
      PROVE  /\ cmd[n].op = "delete" /\ Returned(<<"ui", n>>)
             /\ lookup[<<"ui", n>>].owner = NoNode
  <2>1. phase' # phase
    BY <1>0
  <2>2. /\ Crash(x) /\ lookup[<<"ui", x>>].owner = NoNode /\ cmd[x].op = "delete"
        /\ Returned(<<"ui", x>>)
    BY <1>1, <1>4, <2>1 DEF DeleteReturn
  <2>3. n = x
    BY <1>0, <2>2 DEF Crash
  <2> QED BY <2>2, <2>3
<1>5. ASSUME NEW m \in requests, AddFileReqHandle(m) PROVE FALSE
  BY <1>0, <1>5 DEF AddFileReqHandle
<1>6. ASSUME NEW m \in requests, DelFileReqHandle(m) PROVE FALSE
  <2>1. DHT[m.to][m.key] # NoNode
    BY <1>0, <1>6, RequestParts, Constants DEF DelFileReqHandle, Told
  <2> QED BY <1>0, <1>6, <2>1 DEF DelFileReqHandle
<1> QED BY <1>2, <1>3, <1>4, <1>5, <1>6 DEF FileStep

\* FirstDeathOwnDoing: when people take turns, the first process to end is one
\* that its user has told to, by "Node exit" or by deleting a file nobody has
\* (the uncaught exception of delete_file).
THEOREM FirstDeathIsOwnDoing ==
    ASSUME Pacing = "quiet"
    PROVE  Spec => FirstDeathOwnDoing
<1>1. Init => NamesInv /\ Turns /\ Told
  <2>1. Init => NoMenu
    BY DEF Init, NoMenu, NoLookup, Thread
  <2> QED BY <2>1, NamesInit, NoMenuTurns
<1>2. NamesInv /\ Turns /\ Told /\ [Next]_vars => (NamesInv /\ Turns /\ Told)'
  BY NamesStep, TurnsStep
<1> DEFINE Own == Intact => \A n \in Node : phase[n] # "dead" /\ phase'[n] = "dead" =>
                      \/ UserExit(n)
                      \/ cmd[n].op = "delete" /\ Returned(<<"ui", n>>)
                         /\ lookup[<<"ui", n>>].owner = NoNode
<1>3. NamesInv /\ Turns /\ Told /\ [Next]_vars => [Own]_vars
  <2> SUFFICES ASSUME NamesInv, Turns, Told, [Next]_vars, Intact,
                      NEW n \in Node, phase'[n] = "dead"
               PROVE  \/ UserExit(n)
                      \/ cmd[n].op = "delete" /\ Returned(<<"ui", n>>)
                         /\ lookup[<<"ui", n>>].owner = NoNode
    OBVIOUS
  <2>0. TypeOK /\ phase[n] # "dead"
    BY DEF NamesInv, ReachInv, Intact
  <2>1. CASE StartHost
    BY <2>0, <2>1 DEF StartHost, InitialChord, JoinChord, TypeOK
  <2>2. ASSUME NEW x \in Node, UserExit(x) PROVE UserExit(n)
    BY <2>0, <2>2 DEF UserExit, Crash, TypeOK
  <2>3. ASSUME NEW x \in Node, NEW op \in Commands, NEW k \in Key, EnterCommand(x, op, k)
        PROVE  FALSE
    BY <2>0, <2>3 DEF EnterCommand
  <2>4. CASE LookupStep
    BY <2>0, <2>4, LookupStepSurvives DEF LookupStep
  <2>5. CASE JoinStep
    BY <2>5, JoinStepSurvives
  <2>6. CASE FileStep
    BY <2>6, FileStepSurvives
  <2>7. CASE UNCHANGED vars
    BY <2>0, <2>7 DEF vars
  <2> QED BY <2>1, <2>2, <2>3, <2>4, <2>5, <2>6, <2>7 DEF Next, UserStep, ThreadStep
<1> QED BY <1>1, <1>2, <1>3, PTL DEF Spec, FirstDeathOwnDoing

-----------------------------------------------------------------------------
(* Entries that stay where they are.                                       *)

\* A host keeps entries from the moment its helper has handed them over.
LEMMA KeepersMeans ==
    Keepers = { x \in Node : /\ phase[x] # "off"
                             /\ \/ phase[x] = "up" /\ help[x].pc = "idle"
                                \/ help[x].pc \in {"start", "done"} }
BY DEF Keepers, Newcomers, Members, Started

\* The same hosts keep entries.
SameKeepers == UNCHANGED << Keepers, Started, myHash >>

LEMMA SameKeepersWhen ==
    ASSUME UNCHANGED myHash,
           \A x \in Node :
              /\ phase'[x] = "off" <=> phase[x] = "off"
              /\ phase'[x] = "up" /\ help'[x].pc = "idle" <=> phase[x] = "up" /\ help[x].pc = "idle"
              /\ help'[x].pc \in {"start", "done"} <=> help[x].pc \in {"start", "done"}
    PROVE  SameKeepers
<1>1. Started' = Started
  BY DEF Started
<1>2. Keepers' = { x \in Node : /\ phase'[x] # "off"
                               /\ \/ phase'[x] = "up" /\ help'[x].pc = "idle"
                                  \/ help'[x].pc \in {"start", "done"} }
  BY DEF Keepers, Newcomers, Members, Started
<1>3. Keepers' = Keepers
  BY <1>2, KeepersMeans
<1> QED BY <1>1, <1>3 DEF SameKeepers

\* Files that are there stay.
ServedStays == \A o : \A k \in Key : Served(o, k) => Served(o, k)'

LEMMA EntriesStay ==
    ASSUME Entries, SameKeepers, ServedStays,
           \A x \in Node, k \in Key : DHT'[x][k] \in {DHT[x][k], NoNode}
    PROVE  Entries'
<1> SUFFICES ASSUME NEW x \in Node, NEW k \in Key, DHT'[x][k] # NoNode, Counts(x, k)'
             PROVE  Owns(myHash', Keepers', x, k) /\ Served(DHT[x][k], k)'
  BY DEF Entries
<1>1. DHT[x][k] # NoNode /\ Counts(x, k)
  BY DEF SameKeepers, Counts, Taken
<1>2. Owns(myHash, Keepers, x, k) /\ Served(DHT[x][k], k)
  BY <1>1 DEF Entries
<1> QED BY <1>2 DEF SameKeepers, ServedStays
LEMMA InTransitStays ==
    ASSUME InTransit, SameKeepers, ServedStays,
           \A n \in Node : phase'[n] \in Joining /\ help'[n].pc \in {"start", "done"} =>
              /\ phase[n] \in Joining /\ help[n].pc \in {"start", "done"}
              /\ help'[n].files = help[n].files
    PROVE  InTransit'
<1> SUFFICES ASSUME NEW n \in Newcomers', NEW k \in Key,
                    phase'[n] \in Joining, help'[n].pc \in {"start", "done"},
                    help'[n].files[k] # NoNode, Counts(n, k)'
             PROVE  Owns(myHash', Keepers', n, k) /\ Served(help[n].files[k], k)'
  BY DEF InTransit
<1>1. n \in Node
  BY DEF Newcomers, Started
<1>2. phase[n] \in Joining /\ help[n].pc \in {"start", "done"} /\ help'[n].files = help[n].files
  BY <1>1
<1>3. n \in Newcomers
  BY <1>1, <1>2 DEF Newcomers, Members, Started, Joining
<1>4. Counts(n, k)
  BY DEF SameKeepers, Counts, Taken
<1>5. Owns(myHash, Keepers, n, k) /\ Served(help[n].files[k], k)
  BY <1>2, <1>3, <1>4 DEF InTransit
<1> QED BY <1>2, <1>5 DEF SameKeepers, ServedStays

LEMMA NoEntriesStay ==
    ASSUME NoEntriesYet,
           \A x \in Node : phase'[x] \notin {"up", "dead"} =>
              phase[x] \notin {"up", "dead"} /\ DHT'[x] = DHT[x]
    PROVE  NoEntriesYet'
BY DEF NoEntriesYet

\* While no command is being executed, the files that are there are named.
LEMMA ServedWithout ==
    ASSUME NoMenu, NoMenu', \A x \in Started : x \in Started' /\ localFiles'[x] = localFiles[x]
    PROVE  ServedStays
BY DEF ServedStays, Served, NoMenu

\* A newcomer comes one step nearer, and no entry moves.
JoinGoesOn ==
    \A x \in Node :
        /\ phase'[x] = "off" <=> phase[x] = "off"
        /\ phase'[x] = "up" /\ help'[x].pc = "idle" <=> phase[x] = "up" /\ help[x].pc = "idle"
        /\ help'[x].pc \in {"start", "done"} <=> help[x].pc \in {"start", "done"}
        /\ help'[x].pc \in {"start", "done"} => help'[x].files = help[x].files
        /\ phase'[x] \in Joining <=> phase[x] \in Joining
        /\ phase'[x] \notin {"up", "dead"} => phase[x] \notin {"up", "dead"}

LEMMA JoinGoesOnPlaced ==
    ASSUME Placed, NoMenu, NoMenu', JoinGoesOn, UNCHANGED << myHash, DHT, localFiles >>
    PROVE  Placed'
<1>1. SameKeepers
  BY SameKeepersWhen DEF JoinGoesOn
<1>2. ServedStays
  BY <1>1, ServedWithout DEF SameKeepers
<1>3. Entries' /\ InTransit'
  BY <1>1, <1>2, EntriesStay, InTransitStays DEF JoinGoesOn, Placed
<1>4. NoEntriesYet'
  BY NoEntriesStay DEF JoinGoesOn, Placed
<1>5. Orders'
  BY DEF NoMenu, Orders
<1> QED BY <1>3, <1>4, <1>5 DEF Placed

\* These steps of a join are of that kind.
LEMMA JoinGoesOnWhen ==
    ASSUME TypeOK, AskedOnce, Intact, Intact',
           \/ \E m \in requests : \/ JoinReqHandle(m) \/ HelpJoinReqHandle(m)
                                  \/ HandleUpdateRouteReq(m) \/ WalkRecv(m)
           \/ \E n \in Node : \/ JoinReqReturn(n) \/ HelpEntry(n) \/ HelpFurthest(n)
                              \/ HelpStart(n) \/ HelpPipeBroken(n)
                              \/ RecvHelpJoin(n) \/ RecvRouteTable(n) \/ RecvLookupNode(n)
                              \/ WalkSend(n) \/ JoinFails(n)
    PROVE  JoinGoesOn /\ UNCHANGED << myHash, DHT, localFiles >>
<1>0. \A x \in Node : ~Crash(x)
  BY CrashEnds
<1>1. CASE UNCHANGED << phase, help, myHash, DHT, localFiles >>
  BY <1>1 DEF JoinGoesOn
<1>2. ASSUME NEW m \in requests, JoinReqHandle(m) \/ HandleUpdateRouteReq(m)
      PROVE  UNCHANGED << phase, help, myHash, DHT, localFiles >>
  BY <1>0, <1>2, RequestParts DEF JoinReqHandle, HandleUpdateRouteReq, joinVars, fileVars
<1>3. ASSUME NEW n \in Node, JoinReqReturn(n) \/ HelpPipeBroken(n) \/ JoinFails(n)
      PROVE  UNCHANGED << phase, help, myHash, DHT, localFiles >>
  BY <1>0, <1>3 DEF JoinReqReturn, HelpPipeBroken, JoinFails, Returned, Alive, joinVars, fileVars
<1>4. ASSUME NEW n \in Node, NEW p \in {"table", "prev", "walk", "wait", "files"},
             phase[n] \in Joining, phase' = [phase EXCEPT ![n] = p],
             UNCHANGED << help, myHash, DHT, localFiles >>
      PROVE  JoinGoesOn
  <2>1. \A x \in Node : phase'[x] = IF x = n THEN p ELSE phase[x]
    BY <1>4 DEF TypeOK
  <2> QED BY <1>4, <2>1 DEF JoinGoesOn, Joining
<1>5. ASSUME NEW n \in Node, RecvHelpJoin(n) \/ RecvRouteTable(n) \/ RecvLookupNode(n) \/ WalkSend(n)
      PROVE  JoinGoesOn /\ UNCHANGED << myHash, DHT, localFiles >>
  <2>1. /\ phase[n] \in Joining /\ UNCHANGED << help, myHash, DHT, localFiles >>
        /\ \E p \in {"table", "prev", "walk", "wait"} : phase' = [phase EXCEPT ![n] = p]
    BY <1>0, <1>5 DEF RecvHelpJoin, RecvRouteTable, RecvLookupNode, WalkSend, Joining, joinVars,
       fileVars
  <2> QED BY <1>4, <2>1
<1>6. ASSUME NEW m \in requests, WalkRecv(m)
      PROVE  JoinGoesOn /\ UNCHANGED << myHash, DHT, localFiles >>
  <2>1. /\ m.to \in Node /\ phase[m.to] \in Joining /\ UNCHANGED << help, myHash, DHT, localFiles >>
        /\ \E p \in {"walk", "files"} : phase' = [phase EXCEPT ![m.to] = p]
    BY <1>6, RequestParts DEF WalkRecv, Joining, fileVars
  <2> QED BY <1>4, <2>1
<1>7. ASSUME NEW n \in Node, \A x \in Node \ {n} : help'[x] = help[x],
             help[n].pc \in {"entry", "furthest"} \/ phase[n] \in Joining,
             help[n].pc \notin {"start", "done"}, help'[n].pc \in {"entry", "furthest", "files"},
             UNCHANGED << phase, myHash, DHT, localFiles >>
      PROVE  JoinGoesOn
  BY <1>7 DEF JoinGoesOn, Joining
<1>8. ASSUME NEW m \in requests, HelpJoinReqHandle(m)
      PROVE  JoinGoesOn /\ UNCHANGED << myHash, DHT, localFiles >>
  <2>1. m.new \in Node /\ m.to \in Node /\ help[m.new].pc = "idle" /\ phase[m.new] \in Joining
    BY <1>8, RequestParts DEF HelpJoinReqHandle, AskedOnce, Intact, Joining
  <2>2. /\ help' = [help EXCEPT ![m.new] = [NoHelp EXCEPT !.pc = "entry", !.host = m.to]]
        /\ UNCHANGED << phase, myHash, DHT, localFiles >>
    BY <1>0, <1>8, <2>1 DEF HelpJoinReqHandle, fileVars
  <2>3. help'[m.new].pc = "entry" /\ \A x \in Node \ {m.new} : help'[x] = help[x]
    BY <2>1, <2>2 DEF TypeOK, NoHelp
  <2> QED BY <1>7, <2>1, <2>2, <2>3
<1>9. ASSUME NEW n \in Node, HelpEntry(n) \/ HelpFurthest(n)
      PROVE  JoinGoesOn /\ UNCHANGED << myHash, DHT, localFiles >>
  <2>1. /\ help[n].pc \in {"entry", "furthest"} /\ help'[n].pc \in {"entry", "furthest", "files"}
        /\ \A x \in Node \ {n} : help'[x] = help[x]
        /\ UNCHANGED << phase, myHash, DHT, localFiles >>
    <3>1. CASE HelpEntry(n)
      <4>1. help'[n].pc \in {"entry", "furthest"} /\ help[n].pc = "entry"
        BY <3>1 DEF HelpEntry, TypeOK, HelpState
      <4>2. \A x \in Node \ {n} : help'[x] = help[x]
        BY <3>1 DEF HelpEntry, TypeOK
      <4> QED BY <3>1, <4>1, <4>2 DEF HelpEntry, fileVars
    <3>2. CASE HelpFurthest(n)
      BY <3>2 DEF HelpFurthest, TypeOK, HelpState, fileVars
    <3> QED BY <1>9, <3>1, <3>2
  <2> QED BY <1>7, <2>1
<1>10. ASSUME NEW n \in Node, HelpStart(n)
       PROVE  JoinGoesOn /\ UNCHANGED << myHash, DHT, localFiles >>
  <2>1. /\ help[n].pc = "start" /\ help'[n].pc = "done" /\ help'[n].files = help[n].files
        /\ \A x \in Node \ {n} : help'[x] = help[x]
        /\ UNCHANGED << phase, myHash, DHT, localFiles >>
    BY <1>10 DEF HelpStart, TypeOK, HelpState, fileVars
  <2> QED BY <2>1 DEF JoinGoesOn
<1> QED BY <1>1, <1>2, <1>3, <1>5, <1>6, <1>8, <1>9, <1>10
-----------------------------------------------------------------------------
(* Entries that move.                                                      *)

\* The helper hands over exactly what becomes the newcomer's own.
LEMMA HelpFilesPlaced ==
    ASSUME TypeOK, AskedOnce, Intact, Serial, Placed, NoMenu, NoMenu',
           NEW n \in Node, HelpFiles(n)
    PROVE  Placed'
<1> DEFINE r == help[n].host
           moved == Transferred(r, n)
<1>0. myHash \in [Node -> Ids] /\ Members \subseteq Node /\ Key \subseteq Ids
  BY HostSets, Constants DEF TypeOK
<1>1. /\ help[n].pc = "files" /\ phase[n] \in Joining /\ n \in Newcomers /\ n \notin Members
  BY DEF HelpFiles, AskedOnce, Intact, Newcomers, Started, Members, Joining
<1>2. /\ Follows(myHash, Members, n, r) /\ r \in Members /\ r \in Node
      /\ Distinct(myHash, Members \cup {n}) /\ \A a \in Newcomers : a = n
  BY <1>0, <1>1 DEF Serial, Helpers, Follows, OneNewcomer, Distinct
<1>3. UNCHANGED << phase, myHash, localFiles >>
  BY DEF HelpFiles
<1>4. /\ \A x \in Node \ {n} : help'[x] = help[x]
      /\ help'[n].pc = "start"
      /\ \A k \in Key : help'[n].files[k] = IF k \in moved THEN DHT[r][k] ELSE NoNode
  BY DEF HelpFiles, TypeOK, HelpState
<1>5. \A x \in Node, k \in Key :
          DHT'[x][k] = IF x = r /\ k \in moved THEN NoNode ELSE DHT[x][k]
  <2>1. DHT' = [DHT EXCEPT ![r] = [k \in Key |-> IF k \in moved THEN NoNode ELSE DHT[r][k]]]
    BY DEF HelpFiles
  <2>2. DHT \in [Node -> [Key -> Host]]
    BY DEF TypeOK
  <2> HIDE DEF moved, r
  <2> QED BY <1>2, <2>1, <2>2
<1>6. Keepers = Members /\ Keepers' = Members \cup {n} /\ Started' = Started
  <2>1. Keepers = Members
    BY <1>1, <1>2 DEF Keepers
  <2>2. Members' = Members
    BY <1>1, <1>3, <1>4 DEF Members, Joining
  <2>3. Started' = Started
    BY <1>3 DEF Started
  <2>4. Newcomers' = Newcomers
    BY <2>2, <2>3 DEF Newcomers
  <2> QED BY <1>1, <1>2, <1>4, <2>1, <2>2, <2>3, <2>4 DEF Keepers
<1>7. ServedStays
  BY <1>3, <1>6, ServedWithout
<1>8. \A x, k : Counts(x, k)' <=> Counts(x, k)
  BY <1>3, <1>6 DEF Counts, Taken
<1>9. n \in Started /\ r \in Started /\ myHash[n] \in Taken /\ myHash[r] \in Taken
  BY <1>1, <1>2, HostSets DEF Taken
<1>10. Entries'
  <2> SUFFICES ASSUME NEW x \in Node, NEW k \in Key, DHT'[x][k] # NoNode, Counts(x, k)
               PROVE  Owns(myHash, Members \cup {n}, x, k) /\ Served(DHT[x][k], k)'
    BY <1>3, <1>6, <1>8 DEF Entries
  <2>1. DHT'[x][k] = DHT[x][k] /\ DHT[x][k] # NoNode /\ (x = r => k \notin moved)
    BY <1>5
  <2>2. Owns(myHash, Members, x, k) /\ Served(DHT[x][k], k)
    BY <1>6, <2>1 DEF Placed, Entries
  <2>3. k \in Ids /\ k # myHash[n]
    <3>1. x # n
      BY <1>1, <2>2 DEF Owns
    <3>2. x \in Members /\ myHash[x] # myHash[n]
      BY <1>2, <2>2, <3>1 DEF Owns, Distinct
    <3> QED BY <1>0, <1>9, <3>2 DEF Counts
  <2>4. x = r => GetDistance(k, myHash[r]) <= GetDistance(myHash[n], myHash[r])
    <3>1. GetDistance(k, myHash[r]) \in Int /\ GetDistance(myHash[n], myHash[r]) \in Int
      BY <1>0, <1>2, <2>3, DistanceRange, PointsNat
    <3> QED BY <2>1, <3>1 DEF Transferred
  <2>5. Owns(myHash, Members \cup {n}, x, k)
    BY <1>0, <1>1, <1>2, <2>2, <2>3, <2>4, OwnsKept
  <2> QED BY <1>7, <2>1, <2>2, <2>5 DEF ServedStays
<1>11. InTransit'
  <2> SUFFICES ASSUME NEW z \in Newcomers', NEW k \in Key,
                      help'[z].pc \in {"start", "done"}, help'[z].files[k] # NoNode, Counts(z, k)
               PROVE  Owns(myHash, Members \cup {n}, z, k) /\ Served(help[z].files[k], k)'
    BY <1>3, <1>6, <1>8 DEF InTransit
  <2>1. z = n
    <3>1. z \in Keepers'
      BY DEF Keepers
    <3>2. z \notin Members'
      BY DEF Newcomers
    <3>3. Members' = Members
      BY <1>1, <1>3, <1>4 DEF Members, Joining
    <3> QED BY <1>6, <3>1, <3>2, <3>3
  <2>2. k \in moved /\ help'[z].files[k] = DHT[r][k] /\ DHT[r][k] # NoNode
    BY <1>4, <2>1
  <2>3. /\ GetDistance(k, myHash[r]) > GetDistance(myHash[n], myHash[r])
        /\ GetDistance(myHash[n], myHash[r]) \in Int
    BY <1>0, <1>2, <2>2, DistanceRange, PointsNat DEF Transferred
  <2>4. k \in Ids /\ k \notin Taken
    BY <1>0, <2>1, <2>3 DEF Counts
  <2>5. Owns(myHash, Members, r, k) /\ Served(DHT[r][k], k)
    BY <1>2, <1>6, <2>2, <2>4 DEF Placed, Entries, Counts
  <2>6. Owns(myHash, Members \cup {n}, n, k)
    BY <1>0, <1>1, <1>2, <1>9, <2>3, <2>4, <2>5, OwnsMoved
  <2> QED BY <1>7, <2>1, <2>2, <2>5, <2>6 DEF ServedStays
<1>12. NoEntriesYet'
  BY <1>3, <1>5 DEF Placed, NoEntriesYet
<1>13. Orders'
  BY DEF NoMenu, Orders
<1> QED BY <1>10, <1>11, <1>12, <1>13 DEF Placed

\* The newcomer stores what it was handed.
LEMMA RecvFileTablePlaced ==
    ASSUME TypeOK, Placed, NoMenu, NoMenu', NEW n \in Node, RecvFileTable(n)
    PROVE  Placed'
<1>1. /\ phase[n] = "files" /\ help[n].pc \in {"start", "done"} /\ n \in Newcomers
      /\ UNCHANGED << help, myHash, localFiles >>
      /\ \A x \in Node : phase'[x] = IF x = n THEN "up" ELSE phase[x]
  BY DEF RecvFileTable, TypeOK, Newcomers, Started, Members, joinVars
<1>2. SameKeepers
  BY <1>1, SameKeepersWhen
<1>3. ServedStays
  BY <1>1, <1>2, ServedWithout DEF SameKeepers
<1>4. \A x \in Node, k \in Key : DHT'[x][k] = IF x = n THEN help[n].files[k] ELSE DHT[x][k]
  <2>1. \A k \in Key : DHT[n][k] = NoNode
    BY <1>1 DEF Placed, NoEntriesYet
  <2> QED BY <2>1 DEF RecvFileTable, TypeOK
<1>5. Entries'
  <2> SUFFICES ASSUME NEW x \in Node, NEW k \in Key, DHT'[x][k] # NoNode, Counts(x, k)'
               PROVE  Owns(myHash', Keepers', x, k) /\ Served(DHT[x][k], k)'
    BY DEF Entries
  <2>1. Counts(x, k)
    BY <1>2 DEF SameKeepers, Counts, Taken
  <2>2. Owns(myHash, Keepers, x, k) /\ Served(DHT'[x][k], k)
    BY <1>1, <1>4, <2>1 DEF Placed, Entries, InTransit, Joining
  <2> QED BY <1>2, <1>3, <2>2 DEF SameKeepers, ServedStays
<1>6. InTransit'
  BY <1>1, <1>2, <1>3, InTransitStays DEF Placed, Joining
<1>7. NoEntriesYet'
  BY <1>1, <1>4 DEF Placed, NoEntriesYet
<1>8. Orders'
  BY DEF NoMenu, Orders
<1> QED BY <1>5, <1>6, <1>7, <1>8 DEF Placed

LEMMA JoinStepPlaced ==
    ASSUME TypeOK, AskedOnce, Intact, Intact', Serial, Turns, Placed, JoinStep
    PROVE  Placed'
BY JoinStepNoMenu, JoinGoesOnWhen, JoinGoesOnPlaced, HelpFilesPlaced, RecvFileTablePlaced
   DEF JoinStep

-----------------------------------------------------------------------------
(* Hosts are started, and commands act.                                    *)

\* The first host finds nothing.
LEMMA InitialChordPlaced ==
    ASSUME TypeOK, NamesInv, Intact, FirstFirst, Placed, NEW h \in Positions, InitialChord(h)
    PROVE  Placed'
<1>1. \A x \in Node : phase[x] = "off"
  BY DEF FirstFirst, InitialChord
<1>2. \A x \in Node, k \in Key : DHT'[x][k] = NoNode
  BY <1>1 DEF InitialChord, fileVars, Placed, NoEntriesYet
<1>3. \A x \in Node : phase'[x] \notin Joining
  BY <1>1 DEF InitialChord, TypeOK, Joining
<1>4. Members = {}
  BY <1>1 DEF Members
<1>5. NoMenu'
  <2>1. \A m \in requests : m.type \notin {"add", "delete"}
    BY <1>4 DEF Placed, Orders, Owns
  <2>2. ASSUME NEW n \in Node, lookup[<<"ui", n>>].st # "idle" PROVE FALSE
    <3>1. MayBeNamed(lookup[<<"ui", n>>].src)
      BY <2>2 DEF NamesInv, ReadyInv, LookupsReady, LookupReady, Early, Thread
    <3> QED BY <1>1, <3>1, TablesAlive DEF Alive
  <2> QED BY <2>1, <2>2 DEF NoMenu, InitialChord
<1>6. Entries' /\ NoEntriesYet'
  BY <1>2 DEF Entries, NoEntriesYet
<1>7. InTransit'
  BY <1>3 DEF InTransit, Newcomers, Started
<1>8. Orders'
  BY <1>5 DEF Orders, NoMenu
<1> QED BY <1>6, <1>7, <1>8 DEF Placed

\* A host is started when all is quiet; its hash takes a key off the index at most.
LEMMA JoinChordPlaced ==
    ASSUME TypeOK, AskedOnce, Intact, Placed, Quiet,
           NEW n \in Node, NEW e \in Node, NEW h \in FreePositions, JoinChord(n, e, h)
    PROVE  Placed'
<1>1. /\ phase[n] = "off" /\ help[n].pc = "idle" /\ n \notin Started
      /\ \A x \in Node : /\ phase'[x] = IF x = n THEN "helpjoin" ELSE phase[x]
                         /\ myHash'[x] = IF x = n THEN h ELSE myHash[x]
      /\ UNCHANGED << lookup, help, DHT, localFiles >>
      /\ requests' = {[type |-> "join", to |-> e, new |-> n]}
  BY DEF JoinChord, AskedOnce, Started, TypeOK, Quiet, joinVars, fileVars
<1>2. Keepers' = Keepers /\ Started' = Started \cup {n} /\ n \notin Keepers
  <2>1. Started' = Started \cup {n}
    BY <1>1 DEF Started
  <2>2. Keepers' = { x \in Node : /\ phase'[x] # "off"
                                  /\ \/ phase'[x] = "up" /\ help'[x].pc = "idle"
                                     \/ help'[x].pc \in {"start", "done"} }
    BY DEF Keepers, Newcomers, Members, Started
  <2>3. Keepers' = Keepers /\ n \notin Keepers
    BY <1>1, <2>2, KeepersMeans
  <2> QED BY <2>1, <2>3
<1>3. NoMenu /\ NoMenu'
  BY <1>1 DEF NoMenu, Quiet, Thread
<1>4. ServedStays
  BY <1>1, <1>2, <1>3, ServedWithout
<1>5. Entries'
  <2> SUFFICES ASSUME NEW x \in Node, NEW k \in Key, DHT'[x][k] # NoNode, Counts(x, k)'
               PROVE  Owns(myHash', Keepers', x, k) /\ Served(DHT[x][k], k)'
    BY DEF Entries
  <2>1. x # n /\ DHT[x][k] # NoNode
    BY <1>1 DEF Placed, NoEntriesYet
  <2>2. Counts(x, k)
    <3>1. \A z \in Started : z \in Node /\ myHash'[z] = myHash[z]
      BY <1>1 DEF Started
    <3> QED BY <1>1, <1>2, <2>1, <3>1 DEF Counts, Taken
  <2>3. Owns(myHash, Keepers, x, k) /\ Served(DHT[x][k], k)
    BY <2>1, <2>2 DEF Placed, Entries
  <2>4. Owns(myHash', Keepers', x, k)
    <3>1. \A z \in Keepers : z \in Node /\ myHash'[z] = myHash[z]
      BY <1>1, <1>2, KeepersMeans
    <3> QED BY <1>2, <2>3, <3>1 DEF Owns
  <2> QED BY <1>1, <1>4, <2>3, <2>4 DEF ServedStays
<1>6. InTransit'
  <2>1. \A x \in Node : ~(phase'[x] \in Joining /\ help'[x].pc \in {"start", "done"})
    BY <1>1 DEF Quiet, NoJoin
  <2> QED BY <2>1 DEF InTransit, Newcomers, Started
<1>7. NoEntriesYet'
  BY <1>1 DEF Placed, NoEntriesYet
<1>8. Orders'
  BY <1>3 DEF NoMenu, Orders
<1> QED BY <1>5, <1>6, <1>7, <1>8 DEF Placed

\* When no host joins and nobody moves, only the orders and the files matter.
SameCircle == UNCHANGED << phase, myHash, help >>

LEMMA SameCircleMeans ==
    ASSUME SameCircle
    PROVE  SameKeepers /\ Members' = Members /\ Newcomers' = Newcomers
BY DEF SameCircle, SameKeepers, Keepers, Newcomers, Members, Started

LEMMA FilesMovePlaced ==
    ASSUME Placed, SameCircle, UNCHANGED DHT, ServedStays, Orders'
    PROVE  Placed'
<1>1. Entries' /\ InTransit'
  BY SameCircleMeans, EntriesStay, InTransitStays DEF Placed, SameCircle
<1>2. NoEntriesYet'
  BY NoEntriesStay DEF Placed, SameCircle
<1> QED BY <1>1, <1>2 DEF Placed

\* A command is entered.
LEMMA EnterCommandPlaced ==
    ASSUME TypeOK, Placed, Quiet,
           NEW n \in Node, NEW op \in Commands, NEW k \in Key, EnterCommand(n, op, k)
    PROVE  Placed'
<1>1. SameCircle /\ UNCHANGED << DHT, requests, localFiles >> /\ requests = {}
  BY DEF EnterCommand, SameCircle, joinVars, fileVars, Quiet
<1>2. ServedStays
  BY <1>1 DEF ServedStays, Served, Started, SameCircle
<1>3. \A x \in Node : lookup'[<<"ui", x>>].st # "done"
  <2>1. \A t \in Thread : lookup'[t] \in {lookup[t], Lookup(n, k)}
    BY DEF EnterCommand, TypeOK
  <2> QED BY <2>1, LookupFields DEF Quiet, Thread
<1>4. Orders'
  BY <1>1, <1>3 DEF Orders
<1> QED BY <1>1, <1>2, <1>4, FilesMovePlaced

\* Between commands and joins, all hosts are members with right starts.
LEMMA AllMembers ==
    ASSUME TypeOK, Intact, Serial, NoJoin
    PROVE  /\ Newcomers = {} /\ Members = Up /\ Keepers = Members
           /\ \A x \in Members : StartsAfter(myHash, Members, x, localStart[x])
<1>1. Newcomers = {} /\ Members = Up
  BY NobodyNew
<1>2. Counted = Members /\ Keepers = Members
  BY <1>1 DEF Counted, Keepers
<1> QED BY <1>1, <1>2 DEF Serial, Starts

\* A command is told the owner of its key.
LEMMA LookupStepPlaced ==
    ASSUME TypeOK, ReachInv', Intact, Intact', Serial, Turns, Placed,
           NEW t \in Thread, LookupCall(t) \/ LookupReqHandle(t)
    PROVE  Placed'
<1>0. \A x \in Node : ~Crash(x)
  BY CrashEnds
<1>1. /\ SameCircle /\ UNCHANGED << DHT, requests, localFiles, cmd >>
      /\ \A u \in Thread \ {t} : lookup'[u] = lookup[u]
      /\ lookup[t].st \in {"call", "fwd"}
  <2>1. CASE LookupCall(t)
    BY <1>0, <2>1 DEF LookupCall, SameCircle, joinVars, fileVars, uiVars, Alive, TypeOK
  <2>2. CASE LookupReqHandle(t)
    BY <1>0, <2>2 DEF LookupReqHandle, SameCircle, joinVars, fileVars, uiVars, Alive, TypeOK
  <2> QED BY <2>1, <2>2
<1>2. ServedStays
  BY <1>1 DEF ServedStays, Served, Started, SameCircle
<1>3. Members' = Members /\ Started' = Started /\ UNCHANGED myHash
  BY <1>1, SameCircleMeans DEF SameKeepers
<1>4. ASSUME NEW n \in Node, lookup'[<<"ui", n>>].st = "done"
      PROVE  Owns(myHash, Members, lookup'[<<"ui", n>>].succ, cmd[n].key)
  <2>1. <<"ui", n>> \in Thread
    BY DEF Thread
  <2>2. CASE t = <<"ui", n>>
    <3>1. NoJoin /\ lookup[t].hash = cmd[n].key /\ lookup[t].hash \in Ids
      BY <1>1, <2>2, LookupParts DEF Turns
    <3>2. Answered(t) /\ [Next]_vars
      BY <1>1, <1>4, <2>2 DEF Answered, Next, ThreadStep, LookupStep
    <3>3. PICK x \in Node : /\ IsResponsibleTo(x, lookup[t].hash)
                            /\ lookup'[t] = Answer(lookup[t], x)
                            /\ UNCHANGED phase
      BY <3>2, AnsweredBy
    <3>4. lookup'[t].succ = x
      BY <3>3 DEF Answer, TypeOK, LookupState
    <3>5. x \in Members
      <4>1. x \in Started
        BY <1>3, <1>4, <2>1, <2>2, <3>4 DEF ReachInv, AnswersStarted
      <4> QED BY <3>1, <4>1, AllMembers, HostSets
    <3>6. StartsAfter(myHash, Members, x, localStart[x])
      BY <3>1, <3>5, AllMembers
    <3>7. Owns(myHash, Members, x, lookup[t].hash)
      BY <3>1, <3>3, <3>5, <3>6, HostSets, AnswerOwns
    <3> QED BY <2>2, <3>1, <3>4, <3>7
  <2>3. CASE t # <<"ui", n>>
    BY <1>1, <1>4, <2>1, <2>3 DEF Placed, Orders
  <2> QED BY <2>2, <2>3
<1>5. Orders'
  BY <1>1, <1>3, <1>4 DEF Placed, Orders
<1> QED BY <1>1, <1>2, <1>5, FilesMovePlaced
\* A command is executed: the owner of its key is told, or nobody.
LEMMA CommandPlaced ==
    ASSUME TypeOK, MenuLookups, Intact, Intact', Turns, Placed,
           NEW n \in Node, AddReturn(n) \/ DeleteReturn(n) \/ SearchReturn(n)
    PROVE  Placed'
<1> DEFINE l == lookup[<<"ui", n>>]
           k == cmd[n].key
<1>0. \A x \in Node : ~Crash(x)
  BY CrashEnds
<1>1. /\ l.st = "done" /\ n \in Started
      /\ SameCircle /\ UNCHANGED DHT
  <2>1. Returned(<<"ui", n>>)
    BY DEF AddReturn, DeleteReturn, SearchReturn, CommandEnds
  <2>2. l.st = "done" /\ n \in Started
    BY <2>1 DEF Returned, MenuLookups, Alive, Started
  <2>3. SameCircle /\ UNCHANGED DHT
    BY <1>0 DEF AddReturn, DeleteReturn, SearchReturn, SameCircle, joinVars, fileVars
  <2> QED BY <2>2, <2>3
<1>2. /\ requests = {} /\ \A t \in Thread : lookup[t].st # "idle" => t = <<"ui", n>>
      /\ k \in Key /\ Owns(myHash, Members, l.succ, k)
  BY <1>1 DEF Turns, Placed, Orders
<1>3. \A x \in Node : lookup'[<<"ui", x>>].st = "idle"
  <2>1. lookup' = [lookup EXCEPT ![<<"ui", n>>] = NoLookup]
    BY <1>0 DEF AddReturn, DeleteReturn, SearchReturn, CommandEnds
  <2>2. \A x \in Node : <<"ui", x>> \in Thread
    BY DEF Thread
  <2> QED BY <1>2, <2>1, <2>2 DEF TypeOK, NoLookup
<1>4. Members' = Members /\ Started' = Started /\ UNCHANGED myHash
  BY <1>1, SameCircleMeans DEF SameKeepers
<1>5. \A o : \A c \in Key : Served(o, c) <=> o \in Started /\ localFiles[o][c] = "named"
  BY <1>2 DEF Served
<1>6. CASE UNCHANGED << requests, localFiles >>
  <2>1. ServedStays
    BY <1>4, <1>6 DEF ServedStays, Served
  <2>2. Orders'
    BY <1>2, <1>3, <1>6 DEF Orders
  <2> QED BY <1>1, <2>1, <2>2, FilesMovePlaced
<1>7. CASE /\ localFiles' = [localFiles EXCEPT ![n][k] = "named"]
           /\ requests' = {[type |-> "add", to |-> l.succ, key |-> k, src |-> n, id |-> entered]}
  <2>1. \A o \in Node, c \in Key : localFiles[o][c] = "named" => localFiles'[o][c] = "named"
    BY <1>7 DEF TypeOK
  <2>2. localFiles'[n][k] = "named"
    BY <1>2, <1>7 DEF TypeOK
  <2>3. \A o : \A c \in Key : Served(o, c) => Served(o, c)'
    BY <1>4, <1>5, <2>1 DEF Served, Started
  <2>4. Orders'
    BY <1>1, <1>2, <1>3, <1>4, <1>7, <2>2 DEF Orders
  <2> QED BY <1>1, <2>3, <2>4, FilesMovePlaced DEF ServedStays
<1>8. CASE /\ localFiles' = [localFiles EXCEPT ![n][k] = "none"]
           /\ requests' = {[type |-> "delete", to |-> l.succ, key |-> k, src |-> n, id |-> entered]}
  <2>1. \A o \in Node, c \in Key : c # k => localFiles'[o][c] = localFiles[o][c]
    BY <1>8 DEF TypeOK
  <2>2. \A o : \A c \in Key : Served(o, c) => Served(o, c)'
    BY <1>4, <1>5, <1>8, <2>1 DEF Served, Started
  <2>3. Orders'
    BY <1>1, <1>2, <1>3, <1>4, <1>8 DEF Orders
  <2> QED BY <1>1, <2>2, <2>3, FilesMovePlaced DEF ServedStays
<1> QED BY <1>0, <1>2, <1>6, <1>7, <1>8 DEF AddReturn, DeleteReturn, SearchReturn, fileVars

\* The owner stores the entry of a key, or drops it.
LEMMA FileReqPlaced ==
    ASSUME TypeOK, Intact, Intact', Serial, Turns, Placed,
           NEW m \in requests, AddFileReqHandle(m) \/ DelFileReqHandle(m)
    PROVE  Placed'
<1>0. \A x \in Node : ~Crash(x)
  BY CrashEnds
<1>1. /\ m.type \in {"add", "delete"} /\ m.to \in Node /\ m.key \in Key /\ m.src \in Node
      /\ requests = {m} /\ requests' = {} /\ SameCircle /\ UNCHANGED lookup
      /\ NoJoin /\ \A t \in Thread : lookup[t].st = "idle"
  BY <1>0, RequestParts DEF AddFileReqHandle, DelFileReqHandle, Turns, SameCircle, joinVars, uiVars,
     Alive
<1>2. /\ Newcomers = {} /\ Newcomers' = {} /\ Keepers = Members /\ SameKeepers
      /\ Owns(myHash, Members, m.to, m.key)
  BY <1>1, AllMembers, SameCircleMeans DEF Placed, Orders
<1>3. /\ myHash \in [Node -> Ids] /\ Members \subseteq Node /\ Distinct(myHash, Members)
      /\ Key \subseteq Ids
  BY HostSets, Constants DEF TypeOK, Serial, OneNewcomer, Distinct
<1> DEFINE e == IF m.type = "delete" THEN NoNode
                ELSE IF DHT[m.to][m.key] = NoNode THEN m.src ELSE DHT[m.to][m.key]
<1>c. DHT' = [DHT EXCEPT ![m.to][m.key] = e]
  BY <1>0, <1>1 DEF AddFileReqHandle, DelFileReqHandle
<1>d. DHT \in [Node -> [Key -> Host]]
  BY DEF TypeOK
<1> HIDE DEF e
<1>4. \A x \in Node, k \in Key \ {m.key} : DHT'[x][k] = DHT[x][k]
  BY <1>1, <1>c, <1>d
<1>5. \A x \in Node \ {m.to} : DHT'[x] = DHT[x]
  BY <1>1, <1>c, <1>d
<1>e. DHT'[m.to][m.key] = e
  BY <1>1, <1>c, <1>d
<1>6. \A o \in Node, k \in Key : localFiles[o][k] = "named" => localFiles'[o][k] = "named"
  <2> DEFINE b == localFiles[m.to][m.key]
             c == IF b = "none" THEN "blank" ELSE b
  <2>1. localFiles' = localFiles \/ localFiles' = [localFiles EXCEPT ![m.to][m.key] = c]
    BY <1>0, <1>1 DEF AddFileReqHandle, DelFileReqHandle
  <2>2. localFiles \in [Node -> [Key -> {"none", "named", "blank"}]] /\ (b = "named" => c = "named")
    BY DEF TypeOK
  <2> HIDE DEF c
  <2> QED BY <1>1, <2>1, <2>2
<1>7. \A o : \A k \in Key : Served(o, k) /\ ~(m.type = "delete" /\ k = m.key) => Served(o, k)'
  BY <1>1, <1>2, <1>6 DEF Served, SameKeepers, Started
<1>8. \A x \in Node, k \in Key : Counts(x, k)' <=> Counts(x, k)
  BY <1>2 DEF SameKeepers, Counts, Taken
<1>9. ASSUME NEW x \in Node, NEW k \in Key, DHT'[x][k] # NoNode, Counts(x, k)
      PROVE  Owns(myHash, Keepers, x, k) /\ Served(DHT[x][k], k)'
  <2>1. CASE k # m.key
    <3>1. DHT'[x][k] = DHT[x][k]
      BY <1>4, <2>1
    <3>2. Owns(myHash, Keepers, x, k) /\ Served(DHT[x][k], k)
      BY <1>9, <3>1 DEF Placed, Entries
    <3> QED BY <1>7, <2>1, <3>1, <3>2
  <2>2. CASE k = m.key /\ m.type = "add"
    <3>1. CASE DHT'[x][k] = DHT[x][k]
      <4>1. Owns(myHash, Keepers, x, k) /\ Served(DHT[x][k], k)
        BY <1>9, <3>1 DEF Placed, Entries
      <4> QED BY <1>7, <2>2, <3>1, <4>1
    <3>2. CASE DHT'[x][k] # DHT[x][k]
      <4>1. x = m.to
        BY <1>5, <3>2
      <4>2. DHT'[x][k] = m.src
        BY <1>e, <2>2, <3>2, <4>1 DEF e
      <4>3. m.src \in Started /\ localFiles[m.src][k] = "named"
        BY <2>2 DEF Placed, Orders
      <4>4. Served(m.src, k)
        BY <4>3 DEF Served
      <4> QED BY <1>2, <1>7, <2>2, <4>1, <4>2, <4>4
    <3> QED BY <3>1, <3>2
  <2>3. CASE k = m.key /\ m.type = "delete"
    <3>1. DHT'[m.to][k] = NoNode
      BY <1>e, <2>3 DEF e
    <3>2. x # m.to /\ DHT[x][k] # NoNode
      BY <1>5, <1>9, <3>1
    <3>3. Owns(myHash, Members, x, k)
      BY <1>2, <1>9, <3>2 DEF Placed, Entries
    <3>4. x = m.to
      BY <1>2, <1>3, <2>3, <3>3, OwnsOne
    <3> QED BY <3>2, <3>4
  <2> QED BY <1>1, <2>1, <2>2, <2>3
<1>10. Entries'
  BY <1>2, <1>8, <1>9 DEF Entries, SameKeepers
<1>11. InTransit'
  BY <1>2 DEF InTransit
<1>12. NoEntriesYet'
  <2>1. phase[m.to] = "up"
    BY <1>2 DEF Owns, Members
  <2> QED BY <1>1, <1>5, <2>1 DEF Placed, NoEntriesYet, SameCircle
<1>13. Orders'
  <2>1. \A n \in Node : lookup'[<<"ui", n>>].st = "idle"
    BY <1>1 DEF Thread
  <2> QED BY <1>1, <2>1 DEF Orders
<1> QED BY <1>10, <1>11, <1>12, <1>13 DEF Placed

\* The whole invariant, when people take turns.
LEMMA IndexStep ==
    ASSUME Pacing = "quiet", IndexInv, [Next]_vars
    PROVE  IndexInv'
<1>1. SerialInv' /\ NamesInv' /\ MenuLookups' /\ Turns' /\ Told'
  BY SerialStep, NamesStep, MenuLookupsStep, TurnsStep DEF IndexInv, SerialInv
<1>2. ASSUME Intact', Apart' PROVE Placed'
  <2>0. /\ TypeOK /\ AskedOnce /\ FirstFirst /\ Intact /\ Apart /\ Serial /\ Placed
        /\ NamesInv /\ MenuLookups /\ Turns /\ Told /\ ReachInv'
    BY <1>1, <1>2, DeadStays, ApartBefore DEF IndexInv, SerialInv, NamesInv
  <2>1. ASSUME NEW h \in Positions, InitialChord(h) PROVE Placed'
    BY <2>0, <2>1, InitialChordPlaced
  <2>2. ASSUME NEW n \in Node, NEW e \in Node, NEW h \in FreePositions, JoinChord(n, e, h)
        PROVE  Placed'
    <3>1. Quiet
      BY <2>2 DEF JoinChord, Ready
    <3> QED BY <2>0, <2>2, <3>1, JoinChordPlaced
  <2>3. ASSUME NEW n \in Node, NEW op \in Commands, NEW k \in Key, EnterCommand(n, op, k)
        PROVE  Placed'
    <3>1. Quiet
      BY <2>3 DEF EnterCommand, Ready
    <3> QED BY <2>0, <2>3, <3>1, EnterCommandPlaced
  <2>4. ASSUME NEW n \in Node, UserExit(n) PROVE FALSE
    BY <1>2, <2>0, <2>4, CrashEnds DEF UserExit
  <2>5. CASE LookupStep
    BY <1>2, <2>0, <2>5, LookupStepPlaced DEF LookupStep
  <2>6. CASE JoinStep
    BY <1>2, <2>0, <2>6, JoinStepPlaced
  <2>7. CASE FileStep
    BY <1>2, <2>0, <2>7, CommandPlaced, FileReqPlaced DEF FileStep
  <2>8. CASE UNCHANGED vars
    <3>1. SameCircle /\ UNCHANGED << DHT, localFiles, requests, lookup, cmd >>
      BY <2>8 DEF vars, SameCircle
    <3>2. Started' = Started /\ Members' = Members /\ UNCHANGED myHash
      BY <3>1, SameCircleMeans DEF SameKeepers
    <3>3. ServedStays /\ Orders'
      BY <2>0, <3>1, <3>2 DEF ServedStays, Served, Orders, Placed
    <3> QED BY <2>0, <3>1, <3>3, FilesMovePlaced
  <2> QED BY <2>1, <2>2, <2>3, <2>4, <2>5, <2>6, <2>7, <2>8
          DEF Next, StartHost, UserStep, ThreadStep
<1> QED BY <1>1, <1>2 DEF IndexInv

\* Nothing has been stored.
LEMMA IndexInit ==
    ASSUME Pacing = "quiet"
    PROVE  Init => IndexInv
<1> SUFFICES ASSUME Init PROVE IndexInv
  OBVIOUS
<1>1. NoMenu
  BY DEF Init, NoMenu, NoLookup, Thread
<1>2. Placed
  <2>1. \A x \in Node, k \in Key : DHT[x][k] = NoNode
    BY DEF Init, NoFiles
  <2>2. \A x \in Node : phase[x] \notin Joining
    BY DEF Init, Joining
  <2>3. Entries /\ NoEntriesYet
    BY <2>1 DEF Entries, NoEntriesYet
  <2>4. InTransit
    BY <2>2 DEF InTransit, Newcomers, Started
  <2>5. Orders
    BY <1>1 DEF Orders, NoMenu
  <2> QED BY <2>3, <2>4, <2>5 DEF Placed
<1> QED BY <1>1, <1>2, SerialInit, NamesInit, AskedOnceInit, NoMenuTurns DEF IndexInv

-----------------------------------------------------------------------------
(* Between two activities.                                                 *)

\* In a quiet system an entry is at its owner, and its file is there.
LEMMA QuietEntries ==
    ASSUME IndexInv, Quiet, Intact, Apart, NEW n \in Up, NEW k \in Key, DHT[n][k] # NoNode,
           k \notin UpHashes \/ k = myHash[n]
    PROVE  n = Owner(k) /\ localFiles[DHT[n][k]][k] = "named"
<1>1. TypeOK /\ Serial /\ Placed /\ requests = {} /\ NoJoin
  BY DEF IndexInv, SerialInv, Quiet
<1>2. Keepers = Up /\ Started = Up /\ Distinct(myHash, Up)
  BY <1>1, AllMembers, HostSets DEF Serial, OneNewcomer, Distinct
<1>3. Counts(n, k)
  BY <1>2 DEF Counts, Taken, UpHashes
<1>4. Owns(myHash, Up, n, k) /\ Served(DHT[n][k], k) /\ n \in Node
  BY <1>1, <1>2, <1>3 DEF Placed, Entries, Up
<1>5. k \in Ids
  BY Constants
<1>6. n = Owner(k)
  BY <1>1, <1>2, <1>4, <1>5, OwnerOwns
<1> QED BY <1>1, <1>4, <1>6 DEF Served

\* IndexPlacedOffHosts for every set of hosts and keys: when people take turns,
\* an entry of the index is, after any sequence of joins and commands, in the DHT
\* of the host that lookups name for its key (add_file_req_handle, help_join).
THEOREM IndexIsPlaced ==
    ASSUME Pacing = "quiet"
    PROVE  Spec => []IndexPlacedOffHosts
<1>1. IndexInv /\ [Next]_vars => IndexInv'
  BY IndexStep
<1>2. IndexInv => IndexPlacedOffHosts
  BY QuietEntries, SpacedApart DEF IndexPlacedOffHosts, IndexInv, SerialInv
<1> QED BY IndexInit, <1>1, <1>2, PTL DEF Spec

\* OwnersServe for every set of hosts and keys: when people take turns, whom a
\* search names has the file under its name (add_file, delete_file,
\* del_file_req_handle).
THEOREM OwnersAlwaysServe ==
    ASSUME Pacing = "quiet"
    PROVE  Spec => []OwnersServe
<1>1. IndexInv /\ [Next]_vars => IndexInv'
  BY IndexStep
<1>2. IndexInv => OwnersServe
  <2> SUFFICES ASSUME IndexInv, Quiet, Intact, Spaced, NEW n \in Up, NEW k \in Key,
                      n = Owner(k), DHT[n][k] \in Up
               PROVE  localFiles[DHT[n][k]][k] = "named"
    BY DEF OwnersServe
  <2>1. TypeOK /\ Serial /\ NoJoin /\ Apart
    BY SpacedApart DEF IndexInv, SerialInv, Quiet
  <2>2. Distinct(myHash, Up) /\ myHash \in [Node -> Ids] /\ k \in Ids /\ Up \subseteq Node
    BY <2>1, AllMembers, Constants DEF Serial, OneNewcomer, Distinct, TypeOK, Up
  <2>3. DHT[n][k] # NoNode
    BY Constants DEF Up
  <2>4. k \notin UpHashes \/ k = myHash[n]
    <3> SUFFICES ASSUME NEW z \in Up, k = myHash[z] PROVE n = z
      BY DEF UpHashes
    <3>1. Owns(myHash, Up, n, k)
      BY <2>1, <2>2, OwnerOwns
    <3>2. Owns(myHash, Up, z, k)
      <4>1. \A y \in Up : Steps(k, myHash[y]) \in 0 .. TotalHashPoints - 1
        BY <2>2, StepsRange
      <4>2. Steps(k, k) = 0
        <5>1. k \in Int
          BY <2>2, PointsNat DEF Ids
        <5>2. Steps(k, k) = IF k >= k THEN k - k ELSE k - k + TotalHashPoints
          BY <2>2, StepsRange
        <5> QED BY <5>1, <5>2
      <4>3. \A y \in Up : 0 <= Steps(k, myHash[y])
        BY <4>1, PointsNat
      <4> QED BY <4>2, <4>3 DEF Owns
    <3> QED BY <2>2, <3>1, <3>2, OwnsOne
  <2> QED BY <2>1, <2>3, <2>4, QuietEntries
<1> QED BY IndexInit, <1>1, <1>2, PTL DEF Spec

-----------------------------------------------------------------------------
(* One index.                                                              *)

\* No key is the hash of a host.
KeysOffHosts == Key \cap Taken = {}

\* The owners that copies of an entry name.
Named(k) == Copies(k) \ {NoNode}

LEMMA EntryNamed ==
    ASSUME NEW k
    PROVE  IndexEntry(k) = IF Named(k) # {} THEN CHOOSE o \in Named(k) : TRUE ELSE NoNode
BY DEF IndexEntry, Indexed, Named

LEMMA NamedMeans ==
    ASSUME NEW k, NEW o
    PROVE  o \in Named(k) <=>
              /\ o # NoNode
              /\ \/ \E n \in Node : Alive(n) /\ DHT[n][k] = o
                 \/ \E n \in Node : /\ phase[n] \in Joining /\ help[n].pc \in {"start", "done"}
                                    /\ help[n].files[k] = o
BY DEF Named, Copies

\* The copies of an entry agree.
LEMMA NamedOnce ==
    ASSUME IndexInv, Intact, Apart, KeysOffHosts, NEW k \in Key,
           NEW o \in Named(k), NEW p \in Named(k)
    PROVE  o = p
<1> DEFINE In(n, q) == Alive(n) /\ DHT[n][k] = q
           Under(n, q) == /\ phase[n] \in Joining /\ help[n].pc \in {"start", "done"}
                          /\ help[n].files[k] = q
<1>1. /\ Serial /\ Placed /\ k \in Ids /\ myHash \in [Node -> Ids]
      /\ Keepers \subseteq Node /\ Distinct(myHash, Keepers)
  BY Constants, KeepersMeans, HostSets
     DEF IndexInv, SerialInv, TypeOK, Serial, OneNewcomer, Distinct, Keepers
<1>2. \A n \in Node : Counts(n, k)
  BY DEF KeysOffHosts, Counts
<1>3. ASSUME NEW n \in Node, NEW q, q # NoNode, In(n, q) \/ Under(n, q)
      PROVE  Owns(myHash, Keepers, n, k)
  <2>1. Under(n, q) => n \in Newcomers
    BY DEF Newcomers, Members, Started, Joining
  <2> QED BY <1>1, <1>2, <1>3, <2>1 DEF Placed, Entries, InTransit
<1>4. PICK n \in Node : In(n, o) \/ Under(n, o)
  BY NamedMeans
<1>5. PICK m \in Node : In(m, p) \/ Under(m, p)
  BY NamedMeans
<1>6. o # NoNode /\ p # NoNode
  BY DEF Named
<1>7. n = m
  <2>1. Owns(myHash, Keepers, n, k) /\ Owns(myHash, Keepers, m, k)
    BY <1>3, <1>4, <1>5, <1>6
  <2> QED BY <1>1, <2>1, OwnsOne
<1>8. Under(n, o) \/ Under(n, p) => DHT[n][k] = NoNode
  BY <1>1 DEF Placed, NoEntriesYet, Joining
<1> QED BY <1>4, <1>5, <1>6, <1>7, <1>8

\* Between joins, the owner of a key has its entry.
LEMMA EntryAtOwner ==
    ASSUME IndexInv, Intact, Apart, KeysOffHosts, NoJoin, NEW k \in Key,
           NEW x, Owns(myHash, Members, x, k)
    PROVE  IndexEntry(k) = DHT[x][k]
<1>1. /\ Serial /\ Placed /\ k \in Ids /\ myHash \in [Node -> Ids] /\ TypeOK
      /\ Keepers = Members /\ Members \subseteq Node /\ Distinct(myHash, Members)
  BY Constants, AllMembers, HostSets
     DEF IndexInv, SerialInv, TypeOK, Serial, OneNewcomer, Distinct
<1>2. x \in Node /\ Alive(x)
  BY <1>1 DEF Owns, Members, Alive
<1>3. \A n \in Node : DHT[n][k] # NoNode => n = x
  <2>1. \A n \in Node : DHT[n][k] # NoNode => Owns(myHash, Members, n, k)
    BY <1>1 DEF Placed, Entries, Counts, KeysOffHosts
  <2> QED BY <1>1, <2>1, OwnsOne
<1>4. \A o : o \in Named(k) <=> o # NoNode /\ o = DHT[x][k]
  BY <1>2, <1>3, NamedMeans DEF NoJoin
<1>5. CASE DHT[x][k] = NoNode
  <2>1. Named(k) = {}
    BY <1>4, <1>5
  <2> QED BY <1>5, <2>1, EntryNamed
<1>6. CASE DHT[x][k] # NoNode
  <2>1. Named(k) = {DHT[x][k]}
    BY <1>4, <1>6
  <2> QED BY <2>1, EntryNamed
<1> QED BY <1>5, <1>6

\* An entry is read from its copies.
LEMMA EntryStays ==
    ASSUME NEW k, \A o : o \in Named(k)' <=> o \in Named(k)
    PROVE  IndexEntry(k)' = IndexEntry(k)
<1> DEFINE Read(S) == IF S # {} THEN CHOOSE o \in S : TRUE ELSE NoNode
<1>1. Named(k)' = Named(k)
  OBVIOUS
<1>2. IndexEntry(k) = Read(Named(k)) /\ IndexEntry(k)' = Read(Named(k)')
  BY DEF IndexEntry, Indexed, Named
<1> HIDE DEF Read
<1> QED BY <1>1, <1>2

\* Fewer copies show the same entry or none.
LEMMA EntryFewer ==
    ASSUME IndexInv, Intact, Apart, KeysOffHosts, NEW k \in Key,
           \A o : o \in Named(k)' => o \in Named(k)
    PROVE  IndexEntry(k)' \in {IndexEntry(k), NoNode}
<1>1. IndexEntry(k)' = IF Named(k)' # {} THEN CHOOSE o \in Named(k)' : TRUE ELSE NoNode
  BY DEF IndexEntry, Indexed, Named
<1>2. CASE Named(k)' = {}
  BY <1>1, <1>2
<1>3. CASE Named(k)' # {}
  <2>1. IndexEntry(k)' \in Named(k)' /\ IndexEntry(k)' \in Named(k)
    BY <1>1, <1>3
  <2>2. IndexEntry(k) \in Named(k)
    BY <2>1, EntryNamed
  <2> QED BY <2>1, <2>2, NamedOnce
<1> QED BY <1>2, <1>3

-----------------------------------------------------------------------------
(* Steps that the index does not show.                                     *)

LEMMA NamedMeansThen ==
    ASSUME NEW k, NEW o
    PROVE  o \in Named(k)' <=>
              /\ o # NoNode
              /\ \/ \E n \in Node : Alive(n)' /\ DHT'[n][k] = o
                 \/ \E n \in Node : /\ phase'[n] \in Joining /\ help'[n].pc \in {"start", "done"}
                                    /\ help'[n].files[k] = o
BY DEF Named, Copies

\* The same hosts run, and the same have ended.
SameRunning == \A x \in Node : /\ phase'[x] = "off" <=> phase[x] = "off"
                               /\ phase'[x] = "dead" <=> phase[x] = "dead"

LEMMA SameRunningMeans ==
    ASSUME SameRunning
    PROVE  /\ \A x \in Node : Alive(x)' <=> Alive(x)
           /\ { x \in Node : Alive(x)' } = { x \in Node : Alive(x) }
           /\ { x \in Node : phase'[x] = "dead" } = { x \in Node : phase[x] = "dead" }
BY DEF SameRunning, Alive

LEMMA NotShown ==
    ASSUME SameRunning, UNCHANGED answer, \A k \in Key : \A o : o \in Named(k)' <=> o \in Named(k)
    PROVE  UNCHANGED Index!vars
<1>1. \A k \in Key : IndexEntry(k)' = IndexEntry(k)
  BY EntryStays
<1>2. [k \in Key |-> IndexEntry(k)]' = [k \in Key |-> IndexEntry(k)]
  BY <1>1
<1> QED BY <1>2, SameRunningMeans DEF Index!vars

\* Nothing is stored and no FileTable comes or goes.
LEMMA NothingMoves ==
    ASSUME SameRunning, UNCHANGED << DHT, answer >>,
           \A x \in Node :
              /\ phase'[x] \in Joining /\ help'[x].pc \in {"start", "done"}
                 <=> phase[x] \in Joining /\ help[x].pc \in {"start", "done"}
              /\ phase[x] \in Joining /\ help[x].pc \in {"start", "done"}
                 => help'[x].files = help[x].files
    PROVE  UNCHANGED Index!vars
<1>1. \A k \in Key : \A o : o \in Named(k)' <=> o \in Named(k)
  BY NamedMeans, NamedMeansThen, SameRunningMeans
<1> QED BY <1>1, NotShown

\* A step of a lookup, or of a command that stores nothing.
LEMMA SameCircleNotShown ==
    ASSUME SameCircle, UNCHANGED << DHT, answer >>
    PROVE  UNCHANGED Index!vars
BY NothingMoves DEF SameCircle, SameRunning

\* The FileTable is on its way.
LEMMA HelpFilesNotShown ==
    ASSUME TypeOK, AskedOnce, Intact, Serial, NEW n \in Node, HelpFiles(n)
    PROVE  UNCHANGED Index!vars
<1> DEFINE r == help[n].host
           moved == Transferred(r, n)
<1>1. /\ help[n].pc = "files" /\ phase[n] \in Joining /\ r \in Node /\ Alive(r)
      /\ UNCHANGED << phase, answer >>
  BY DEF HelpFiles, AskedOnce, Intact, uiVars, Alive
<1>2. /\ \A x \in Node \ {n} : help'[x] = help[x]
      /\ help'[n].pc = "start"
      /\ \A k \in Key : help'[n].files[k] = IF k \in moved THEN DHT[r][k] ELSE NoNode
  BY DEF HelpFiles, TypeOK, HelpState
<1>3. \A x \in Node, k \in Key :
          DHT'[x][k] = IF x = r /\ k \in moved THEN NoNode ELSE DHT[x][k]
  <2>1. DHT' = [DHT EXCEPT ![r] = [k \in Key |-> IF k \in moved THEN NoNode ELSE DHT[r][k]]]
    BY DEF HelpFiles
  <2>2. DHT \in [Node -> [Key -> Host]]
    BY DEF TypeOK
  <2> HIDE DEF moved, r
  <2> QED BY <1>1, <2>1, <2>2
<1>4. SameRunning /\ \A x : Alive(x)' <=> Alive(x)
  BY <1>1 DEF SameRunning, Alive
<1> HIDE DEF moved, r
<1>5. ASSUME NEW k \in Key, NEW o, o \in Named(k) PROVE o \in Named(k)'
  <2>1. CASE \E x \in Node : Alive(x) /\ DHT[x][k] = o
    <3>1. PICK x \in Node : Alive(x) /\ DHT[x][k] = o
      BY <2>1
    <3>2. CASE x = r /\ k \in moved
      BY <1>1, <1>2, <1>5, <3>1, <3>2, NamedMeans, NamedMeansThen
    <3>3. CASE ~(x = r /\ k \in moved)
      BY <1>3, <1>4, <1>5, <3>1, <3>3, NamedMeans, NamedMeansThen
    <3> QED BY <3>2, <3>3
  <2>2. CASE \E x \in Node : /\ phase[x] \in Joining /\ help[x].pc \in {"start", "done"}
                             /\ help[x].files[k] = o
    BY <1>1, <1>2, <1>5, <2>2, NamedMeans, NamedMeansThen
  <2> QED BY <1>5, <2>1, <2>2, NamedMeans
<1>6. ASSUME NEW k \in Key, NEW o, o \in Named(k)' PROVE o \in Named(k)
  <2>1. CASE \E x \in Node : Alive(x)' /\ DHT'[x][k] = o
    BY <1>3, <1>4, <1>6, <2>1, NamedMeans, NamedMeansThen
  <2>2. CASE \E x \in Node : /\ phase'[x] \in Joining /\ help'[x].pc \in {"start", "done"}
                             /\ help'[x].files[k] = o
    <3>1. PICK x \in Node : /\ phase'[x] \in Joining /\ help'[x].pc \in {"start", "done"}
                            /\ help'[x].files[k] = o
      BY <2>2
    <3>2. CASE x = n
      <4>1. o = DHT[r][k] /\ o # NoNode
        BY <1>2, <1>6, <3>1, <3>2, NamedMeansThen
      <4> QED BY <1>1, <4>1, NamedMeans
    <3>3. CASE x # n
      BY <1>1, <1>2, <1>6, <3>1, <3>3, NamedMeans, NamedMeansThen
    <3> QED BY <3>2, <3>3
  <2> QED BY <1>6, <2>1, <2>2, NamedMeansThen
<1> QED BY <1>1, <1>4, <1>5, <1>6, NotShown

\* The FileTable has arrived.
LEMMA RecvFileTableNotShown ==
    ASSUME TypeOK, Placed, NEW n \in Node, RecvFileTable(n)
    PROVE  UNCHANGED Index!vars
<1>1. /\ phase[n] = "files" /\ help[n].pc \in {"start", "done"}
      /\ UNCHANGED << help, answer >>
      /\ \A x \in Node : phase'[x] = IF x = n THEN "up" ELSE phase[x]
  BY DEF RecvFileTable, TypeOK, joinVars, uiVars
<1>2. \A k \in Key : DHT[n][k] = NoNode
  BY <1>1 DEF Placed, NoEntriesYet
<1>3. \A x \in Node, k \in Key : DHT'[x][k] = IF x = n THEN help[n].files[k] ELSE DHT[x][k]
  BY <1>2 DEF RecvFileTable, TypeOK
<1>4. SameRunning /\ \A x \in Node : Alive(x)' <=> Alive(x)
  BY <1>1 DEF SameRunning, Alive
<1>5. Alive(n) /\ phase[n] \in Joining /\ phase'[n] \notin Joining
      /\ \A x \in Node \ {n} : phase'[x] = phase[x]
  BY <1>1 DEF Alive, Joining
<1>6. ASSUME NEW k \in Key, NEW o, o \in Named(k) PROVE o \in Named(k)'
  <2>1. CASE \E x \in Node : Alive(x) /\ DHT[x][k] = o
    BY <1>2, <1>3, <1>4, <1>6, <2>1, NamedMeans, NamedMeansThen
  <2>2. CASE \E x \in Node : /\ phase[x] \in Joining /\ help[x].pc \in {"start", "done"}
                             /\ help[x].files[k] = o
    BY <1>1, <1>3, <1>4, <1>5, <1>6, <2>2, NamedMeans, NamedMeansThen
  <2> QED BY <1>6, <2>1, <2>2, NamedMeans
<1>7. ASSUME NEW k \in Key, NEW o, o \in Named(k)' PROVE o \in Named(k)
  <2>1. CASE \E x \in Node : Alive(x)' /\ DHT'[x][k] = o
    BY <1>1, <1>3, <1>4, <1>5, <1>7, <2>1, NamedMeans, NamedMeansThen
  <2>2. CASE \E x \in Node : /\ phase'[x] \in Joining /\ help'[x].pc \in {"start", "done"}
                             /\ help'[x].files[k] = o
    BY <1>1, <1>5, <1>7, <2>2, NamedMeans, NamedMeansThen
  <2> QED BY <1>7, <2>1, <2>2, NamedMeansThen
<1> QED BY <1>1, <1>4, <1>6, <1>7, NotShown

\* What hosts that join and their helpers do does not show.
LEMMA JoinStepNotShown ==
    ASSUME NamesInv, AskedOnce, Intact, Serial, Placed, JoinStep
    PROVE  UNCHANGED Index!vars
<1>1. TypeOK /\ TypeOK'
  BY NextType DEF NamesInv, ReadyInv, Next, ThreadStep
<1>2. Intact'
  BY JoinStepSurvives DEF Intact
<1>3. UNCHANGED answer
  BY DEF JoinStep, JoinReqHandle, HelpJoinReqHandle, HandleUpdateRouteReq, WalkRecv, JoinReqReturn,
     HelpEntry, HelpFurthest, HelpFiles, HelpStart, HelpPipeBroken, RecvHelpJoin, RecvRouteTable,
     RecvLookupNode, WalkSend, RecvFileTable, JoinFails, Crash, uiVars
<1>4. ASSUME JoinGoesOn, UNCHANGED << myHash, DHT, localFiles >> PROVE UNCHANGED Index!vars
  <2>1. SameRunning
    BY <1>2, <1>4 DEF SameRunning, JoinGoesOn, Intact
  <2> QED BY <1>3, <1>4, <2>1, NothingMoves DEF JoinGoesOn
<1> QED BY <1>1, <1>2, <1>4, JoinGoesOnWhen, HelpFilesNotShown, RecvFileTableNotShown DEF JoinStep

-----------------------------------------------------------------------------
(* Steps that the index shows.                                             *)

\* A host that is started has nothing.
LEMMA StartShown ==
    ASSUME TypeOK, AskedOnce, NoEntriesYet, NEW n \in Node, phase[n] = "off", NEW p \in Joining \cup {"up"},
           phase' = [phase EXCEPT ![n] = p], UNCHANGED << help, DHT, answer >>
    PROVE  Index!Enter(n)
<1>1. help[n].pc = "idle" /\ \A k \in Key : DHT[n][k] = NoNode
  BY DEF AskedOnce, NoEntriesYet, Joining
<1>2. phase'[n] = p /\ \A x \in Node \ {n} : phase'[x] = phase[x]
  BY DEF TypeOK
<1>3. Alive(n)' /\ ~Alive(n) /\ \A x \in Node \ {n} : Alive(x)' <=> Alive(x)
  BY <1>2 DEF Alive, Joining
<1>4. ASSUME NEW k \in Key, NEW o PROVE o \in Named(k)' <=> o \in Named(k)
  <2>1. o # NoNode => ((\E x \in Node : Alive(x)' /\ DHT'[x][k] = o)
                         <=> (\E x \in Node : Alive(x) /\ DHT[x][k] = o))
    BY <1>1, <1>3
  <2>2. (\E x \in Node : /\ phase'[x] \in Joining /\ help'[x].pc \in {"start", "done"}
                         /\ help'[x].files[k] = o)
          <=> (\E x \in Node : /\ phase[x] \in Joining /\ help[x].pc \in {"start", "done"}
                               /\ help[x].files[k] = o)
    BY <1>1, <1>2
  <2> QED BY <2>1, <2>2, NamedMeans, NamedMeansThen
<1>5. [k \in Key |-> IndexEntry(k)]' = [k \in Key |-> IndexEntry(k)]
  <2>1. \A k \in Key : IndexEntry(k)' = IndexEntry(k)
    BY <1>4, EntryStays
  <2> QED BY <2>1
<1>6. { x \in Node : Alive(x) }' = { x \in Node : Alive(x) } \cup {n}
  BY <1>3
<1>7. { x \in Node : phase[x] = "dead" }' = { x \in Node : phase[x] = "dead" }
  BY <1>2 DEF Joining
<1> QED BY <1>3, <1>5, <1>6, <1>7 DEF Index!Enter

\* A process that ends takes its entries with it.
LEMMA CrashShown ==
    ASSUME IndexInv, Intact, Apart, KeysOffHosts, NEW n, Alive(n), Crash(n)
    PROVE  Index!End(n)
<1>1. n \in Node /\ phase \in [Node -> Phase]
  BY DEF IndexInv, SerialInv, TypeOK, Alive
<1>2. /\ phase'[n] = "dead" /\ \A x \in Node \ {n} : phase'[x] = phase[x]
      /\ UNCHANGED << help, DHT, answer >>
  BY <1>1 DEF Crash, joinVars, fileVars, uiVars
<1>3. ~Alive(n)' /\ \A x \in Node \ {n} : Alive(x)' <=> Alive(x)
  BY <1>2 DEF Alive
<1>4. \A k \in Key : \A o : o \in Named(k)' => o \in Named(k)
  BY <1>2, <1>3, NamedMeans, NamedMeansThen DEF Joining
<1>5. \A k \in Key : IndexEntry(k)' \in {IndexEntry(k), NoNode}
  BY <1>4, EntryFewer
<1> DEFINE old == [k \in Key |-> IndexEntry(k)]
<1>6. old' \in { f \in [Key -> {old[k] : k \in Key} \cup {NoNode}] :
                   \A k \in Key : f[k] \in {old[k], NoNode} }
  BY <1>5
<1>7. { x \in Node : Alive(x) }' = { x \in Node : Alive(x) } \ {n}
  BY <1>3
<1>8. { x \in Node : phase[x] = "dead" }' = { x \in Node : phase[x] = "dead" } \cup {n}
  BY <1>1, <1>2
<1> QED BY <1>1, <1>2, <1>6, <1>7, <1>8 DEF Index!End, Index!Losing

\* A search prints what the index says.
LEMMA SearchShown ==
    ASSUME IndexInv, Intact, Apart, KeysOffHosts, NEW n \in Node, SearchReturn(n)
    PROVE  Index!Search(n, cmd[n].key) /\ cmd[n].key \in Key
<1> DEFINE l == lookup[<<"ui", n>>]
           k == cmd[n].key
<1>1. l.st = "done" /\ l.src = n /\ Alive(n)
  BY DEF SearchReturn, CommandEnds, Returned, IndexInv, MenuLookups
<1>2. NoJoin /\ k \in Key /\ l.owner = DHT[l.succ][k] /\ Owns(myHash, Members, l.succ, k)
  BY <1>1 DEF IndexInv, Turns, Told, Placed, Orders
<1>3. IndexEntry(k) = l.owner
  BY <1>2, EntryAtOwner
<1>4. SameCircle /\ UNCHANGED DHT
  BY DEF SearchReturn, SameCircle, joinVars, fileVars
<1>5. /\ { x \in Node : Alive(x) }' = { x \in Node : Alive(x) }
      /\ { x \in Node : phase[x] = "dead" }' = { x \in Node : phase[x] = "dead" }
  BY <1>4 DEF SameCircle, Alive
<1>6. [c \in Key |-> IndexEntry(c)]' = [c \in Key |-> IndexEntry(c)]
  <2>1. \A c \in Key : \A o : o \in Named(c)' <=> o \in Named(c)
    BY <1>4, NamedMeans, NamedMeansThen DEF SameCircle, Alive
  <2>2. \A c \in Key : IndexEntry(c)' = IndexEntry(c)
    BY <2>1, EntryStays
  <2> QED BY <2>2
<1>7. answer' = [answer EXCEPT ![n] = [key |-> k, exists |-> l.owner # NoNode]]
  BY DEF SearchReturn
<1> QED BY <1>1, <1>2, <1>3, <1>5, <1>6, <1>7 DEF Index!Search

LEMMA EntryAtOwnerAlways ==
    \A k \in Key : \A x : IndexInv /\ Intact /\ Apart /\ KeysOffHosts /\ NoJoin
                         /\ Owns(myHash, Members, x, k) => IndexEntry(k) = DHT[x][k]
BY EntryAtOwner

\* The owner of a key stores or drops its entry, and that is the index's own.
LEMMA FileReqShown ==
    ASSUME IndexInv, IndexInv', Intact, Intact', Apart, KeysOffHosts,
           NEW m \in requests, AddFileReqHandle(m) \/ DelFileReqHandle(m)
    PROVE  /\ m.src \in Node /\ m.key \in Key
           /\ Index!Upload(m.src, m.key) \/ Index!Remove(m.src, m.key) \/ UNCHANGED Index!vars
<1>0. \A x \in Node : ~Crash(x)
  BY CrashEnds DEF IndexInv, SerialInv
<1>1. /\ m.type \in {"add", "delete"} /\ m.to \in Node /\ m.key \in Key /\ m.src \in Node
      /\ SameCircle /\ UNCHANGED answer /\ NoJoin
  BY <1>0, RequestParts
     DEF AddFileReqHandle, DelFileReqHandle, IndexInv, SerialInv, Turns, SameCircle, joinVars, uiVars,
         Alive
<1>2. Owns(myHash, Members, m.to, m.key) /\ Placed
  BY <1>1 DEF IndexInv, Placed, Orders
<1>3. IndexEntry(m.key) = DHT[m.to][m.key]
  BY <1>1, <1>2, EntryAtOwner
<1>4. IndexEntry(m.key)' = DHT'[m.to][m.key]
  <2>1. NoJoin' /\ Apart' /\ KeysOffHosts' /\ Owns(myHash, Members, m.to, m.key)'
    BY <1>1, <1>2, SameCircleMeans
       DEF SameCircle, SameKeepers, NoJoin, Apart, KeysOffHosts, Taken, Owns
  <2>2. (\A k \in Key : \A x : IndexInv /\ Intact /\ Apart /\ KeysOffHosts /\ NoJoin
                              /\ Owns(myHash, Members, x, k) => IndexEntry(k) = DHT[x][k])'
    BY EntryAtOwnerAlways, PTL
  <2> QED BY <1>1, <2>1, <2>2
<1>5. /\ { x \in Node : Alive(x) }' = { x \in Node : Alive(x) }
      /\ { x \in Node : phase[x] = "dead" }' = { x \in Node : phase[x] = "dead" }
  BY <1>1 DEF SameCircle, Alive
<1> DEFINE e == IF m.type = "delete" THEN NoNode
                ELSE IF DHT[m.to][m.key] = NoNode THEN m.src ELSE DHT[m.to][m.key]
<1>6. DHT' = [DHT EXCEPT ![m.to][m.key] = e] /\ DHT \in [Node -> [Key -> Host]]
  BY <1>0, <1>1 DEF AddFileReqHandle, DelFileReqHandle, IndexInv, SerialInv, TypeOK
<1> HIDE DEF e
<1>7. \A x \in Node, k \in Key : DHT'[x][k] = IF x = m.to /\ k = m.key THEN e ELSE DHT[x][k]
  BY <1>1, <1>6
<1>8. [k \in Key |-> IndexEntry(k)]' = [[k \in Key |-> IndexEntry(k)] EXCEPT ![m.key] = e]
  <2>1. \A k \in Key \ {m.key} : \A o : o \in Named(k)' <=> o \in Named(k)
    BY <1>1, <1>7, NamedMeans, NamedMeansThen DEF SameCircle, Alive
  <2>2. \A k \in Key \ {m.key} : IndexEntry(k)' = IndexEntry(k)
    BY <2>1, EntryStays
  <2>3. IndexEntry(m.key)' = e
    BY <1>1, <1>4, <1>7
  <2> QED BY <1>1, <2>2, <2>3
<1>9. \A x \in Started : Alive(x)
  BY DEF Intact, Alive, Started
<1>10. CASE m.type = "add" /\ DHT[m.to][m.key] = NoNode
  <2>1. Alive(m.src) /\ e = m.src
    BY <1>2, <1>9, <1>10 DEF Placed, Orders, e
  <2> QED BY <1>1, <1>3, <1>5, <1>8, <1>10, <2>1 DEF Index!Upload
<1>11. CASE m.type = "add" /\ DHT[m.to][m.key] # NoNode
  <2>1. UNCHANGED DHT
    BY <1>6, <1>11 DEF e
  <2> QED BY <1>1, <2>1, SameCircleNotShown
<1>12. CASE m.type = "delete"
  <2>1. DHT[m.to][m.key] = m.src /\ e = NoNode
    BY <1>12 DEF IndexInv, Told, e
  <2>2. Alive(m.src)
    <3>1. Counts(m.to, m.key) /\ DHT[m.to][m.key] # NoNode
      BY <1>1, <2>1, Constants DEF Counts, KeysOffHosts
    <3> QED BY <1>1, <1>2, <1>9, <2>1, <3>1 DEF Placed, Entries, Served
  <2> QED BY <1>1, <1>3, <1>5, <1>8, <2>1, <2>2 DEF Index!Remove
<1> QED BY <1>1, <1>10, <1>11, <1>12

\* A command that acts on its answer changes files and sends, prints, or ends.
LEMMA CommandShown ==
    ASSUME IndexInv, Intact, Apart, KeysOffHosts, NEW n \in Node, AddReturn(n) \/ DeleteReturn(n)
    PROVE  Index!End(n) \/ UNCHANGED Index!vars
<1>1. Alive(n)
  BY DEF AddReturn, DeleteReturn, Returned, IndexInv, MenuLookups
<1>2. Crash(n) \/ (SameCircle /\ UNCHANGED << DHT, answer >>)
  BY DEF AddReturn, DeleteReturn, SameCircle, joinVars, fileVars
<1> QED BY <1>1, <1>2, CrashShown, SameCircleNotShown

\* A step of the program is a step of the index, or none.
LEMMA IndexShows ==
    ASSUME Pacing = "quiet", IndexInv, IndexInv', Intact, Apart, KeysOffHosts, [Next]_vars
    PROVE  [Index!Next]_(Index!vars)
<1>1. /\ TypeOK /\ AskedOnce /\ Serial /\ Placed /\ NoEntriesYet /\ NamesInv /\ FirstFirst
      /\ First \in Node
  BY Constants DEF IndexInv, SerialInv, Placed
<1>2. ASSUME NEW h \in Positions, InitialChord(h) PROVE Index!Enter(First)
  BY <1>1, <1>2, StartShown DEF InitialChord, fileVars, uiVars
<1>3. ASSUME NEW n \in Node, NEW e \in Node, NEW h \in FreePositions, JoinChord(n, e, h)
      PROVE  Index!Enter(n)
  BY <1>1, <1>3, StartShown DEF JoinChord, joinVars, fileVars, uiVars, Joining
<1>4. ASSUME NEW n \in Node, NEW op \in Commands, NEW k \in Key, EnterCommand(n, op, k)
      PROVE  UNCHANGED Index!vars
  BY <1>4, SameCircleNotShown DEF EnterCommand, SameCircle, joinVars, fileVars
<1>5. ASSUME NEW n \in Node, UserExit(n) PROVE Index!End(n)
  BY <1>5, CrashShown DEF UserExit, Alive
<1>6. CASE LookupStep
  <2>1. PICK t \in Thread : LookupCall(t) \/ LookupReqHandle(t)
    BY <1>6 DEF LookupStep
  <2>2. UNCHANGED phase
    BY <1>1, <2>1, LookupStepSurvives
  <2>3. UNCHANGED << myHash, help, DHT, answer >>
    BY <2>1 DEF LookupCall, LookupReqHandle, Crash, joinVars, fileVars, uiVars
  <2> QED BY <2>2, <2>3, SameCircleNotShown DEF SameCircle
<1>7. CASE JoinStep
  BY <1>1, <1>7, JoinStepNotShown
<1>8. ASSUME NEW m \in requests, AddFileReqHandle(m) \/ DelFileReqHandle(m)
      PROVE  \/ \E n \in Node, k \in Key : Index!Upload(n, k) \/ Index!Remove(n, k)
             \/ UNCHANGED Index!vars
  <2>1. Intact'
    <3>1. m.type = "delete" => DHT[m.to][m.key] # NoNode
      BY <1>1, RequestParts, Constants DEF IndexInv, Told
    <3>2. UNCHANGED phase
      BY <1>8, <3>1 DEF AddFileReqHandle, DelFileReqHandle
    <3> QED BY <3>2 DEF Intact
  <2> QED BY <1>8, <2>1, FileReqShown
<1>9. CASE UNCHANGED vars
  BY <1>9, SameCircleNotShown DEF vars, SameCircle
<1> QED
  <2>1. FileStep => [Index!Next]_(Index!vars)
    BY <1>8, CommandShown, SearchShown DEF FileStep, Index!Next
  <2>2. StartHost \/ UserStep => [Index!Next]_(Index!vars)
    BY <1>1, <1>2, <1>3, <1>4, <1>5 DEF StartHost, UserStep, Index!Next
  <2> QED BY <1>6, <1>7, <1>9, <2>1, <2>2 DEF Next, ThreadStep

\* At a quiet pace the hosts together are the one index of SharedIndex, on which
\* uploads, deletions and searches act at once, for every set of hosts and keys:
\* up to the end of the first process with that step included, and as long as no
\* host sits one point before another or on the hash of a file (add_file_req_handle,
\* del_file_req_handle, search, and help_join, which moves entries unseen).
THEOREM IndexIsShared ==
    ASSUME Pacing = "quiet"
    PROVE  Spec => /\ Index!Init
                   /\ [][Intact /\ Apart /\ KeysOffHosts => [Index!Next]_(Index!vars)]_vars
<1>1. Init => Index!Init
  <2> SUFFICES ASSUME Init PROVE Index!Init
    OBVIOUS
  <2>1. \A x \in Node : phase[x] = "off"
    BY DEF Init
  <2>2. \A k \in Key : Named(k) = {}
    BY <2>1, NamedMeans DEF Alive, Joining
  <2>3. [k \in Key |-> IndexEntry(k)] = [k \in Key |-> NoNode]
    BY <2>2, EntryNamed
  <2>4. { x \in Node : Alive(x) } = {} /\ { x \in Node : phase[x] = "dead" } = {}
    BY <2>1 DEF Alive
  <2> QED BY <2>3, <2>4 DEF Index!Init, Init, NoAnswer
<1>2. IndexInv /\ [Next]_vars => IndexInv'
  BY IndexStep
<1>3. IndexInv /\ IndexInv' /\ [Next]_vars =>
        [Intact /\ Apart /\ KeysOffHosts => [Index!Next]_(Index!vars)]_vars
  BY IndexShows
<1> QED BY <1>1, IndexInit, <1>2, <1>3, PTL DEF Spec
=============================================================================
