------------------------------ MODULE JoinProofs -----------------------------
(***************************************************************************)
(* Chord at any pace and with hosts dying, for every set of hosts and      *)
(* every size of the circle: each action keeps TypeOK; a set entry of a    *)
(* finger table never names a host short of the point it stands for        *)
(* (FingerReach), nobody is routed to who could not route on, but for a    *)
(* host that was asked for help too early (RoutedHostsReady), and no entry *)
(* of the index is lost on its way to a new host (IndexKept).              *)
(*                                                                         *)
(* FingerReach alone is not inductive: the entry a host receives comes     *)
(* from the helper's record, which comes from the answer of a lookup, and  *)
(* a distance is only kept if the two hosts have their final hash, that is *)
(* if both have been started.                                              *)
(*                                                                         *)
(* RoutedHostsReady needs that whatever names a host, a lookup, a request  *)
(* or the table a helper is building, names one with a table, or the new   *)
(* host itself, whose table is complete before it begins its walk.  At the *)
(* free pace a JoinRequest, its lookup and the request for help may be     *)
(* with a host that has none; once that host helps, it is the exception.   *)
(*                                                                         *)
(* Both that and IndexKept need that a host is helped once: a second       *)
(* help_join_req_handle for the same host would forget who helped it       *)
(* before, and the FileTable of the first.                                 *)
(***************************************************************************)
EXTENDS Chord, RingProofs

-----------------------------------------------------------------------------
(* Types.                                                                  *)

LEMMA Constants ==
    /\ First \in Node /\ NoNode \notin Node
    /\ Positions \subseteq Ids /\ Key \subseteq Ids
    /\ Commands \subseteq {"add", "delete", "search", "exit"}
    /\ MaxCommands \in Nat
    /\ 0 \in Ids /\ 0 \in FingerIndex
    /\ M - 1 \in FingerIndex
BY NodeAssumption, HashAssumption, UserAssumption, RingBits, PointsNat
   DEF Ids, FingerIndex

LEMMA NoLookupType == NoLookup \in LookupState
BY Constants DEF NoLookup, LookupState, Host

LEMMA LookupType ==
    ASSUME NEW src \in Host, NEW hash \in Ids
    PROVE  Lookup(src, hash) \in LookupState
BY NoLookupType DEF Lookup, NoLookup, LookupState, Host

LEMMA NoHelpType == NoHelp \in HelpState
BY Constants DEF NoHelp, HelpState, EmptyTable, NoFiles, Host

LEMMA InitType == Init => TypeOK
<1> SUFFICES ASSUME Init PROVE TypeOK
  OBVIOUS
<1> USE DEF Init
<1>1. phase \in [Node -> Phase]
  BY DEF Phase
<1>2. myHash \in [Node -> Ids]
  BY Constants
<1>3. fingerTable \in [Node -> [FingerIndex -> Host]]
  BY DEF EmptyTable, Host
<1>4. localStart \in [Node -> -TotalHashPoints .. TotalHashPoints - 1]
  BY PointsNat
<1>5. DHT \in [Node -> [Key -> Host]]
  BY DEF NoFiles, Host
<1>6. localFiles \in [Node -> [Key -> {"none", "named", "blank"}]]
  OBVIOUS
<1>7. requests \subseteq Request
  OBVIOUS
<1>8. lookup \in [Thread -> LookupState]
  BY NoLookupType
<1>9. help \in [Node -> HelpState]
  BY NoHelpType
<1>10. walk \in [Node -> Host]
  BY DEF Host
<1>11. cmd \in [Node -> Command \cup {NoCommand}]
  OBVIOUS
<1>12. answer \in [Node -> [key : Ids, exists : BOOLEAN]]
  BY Constants DEF NoAnswer
<1>13. entered \in 0..MaxCommands
  BY Constants
<1> QED BY <1>1, <1>2, <1>3, <1>4, <1>5, <1>6, <1>7, <1>8, <1>9, <1>10, <1>11,
           <1>12, <1>13 DEF TypeOK

\* A process that ends changes its phase only.
LEMMA CrashType ==
    ASSUME TypeOK, NEW x, Crash(x)
    PROVE  TypeOK'
BY DEF TypeOK, Crash, Phase, joinVars, fileVars, uiVars

LEMMA InitialChordType ==
    ASSUME TypeOK, NEW h \in Positions, InitialChord(h)
    PROVE  TypeOK'
<1>1. h \in Ids /\ HashValueAdd(h, 1) \in Ids
  BY Constants, AddRange, PointsNat
<1> QED BY <1>1, Constants, PointsNat
        DEF TypeOK, InitialChord, Phase, Host, Ids, fileVars, uiVars

LEMMA JoinChordType ==
    ASSUME TypeOK, NEW n \in Node, NEW e \in Node, NEW h \in FreePositions,
           JoinChord(n, e, h)
    PROVE  TypeOK'
<1>1. h \in Ids
  BY Constants DEF FreePositions
<1>2. [type |-> "join", to |-> e, new |-> n] \in Request
  BY DEF Request
<1> QED BY <1>1, <1>2 DEF TypeOK, JoinChord, Phase, Joining, joinVars, fileVars, uiVars

-----------------------------------------------------------------------------
(* lookup.cpp                                                              *)

LEMMA AnswerType ==
    ASSUME TypeOK, NEW l \in LookupState, NEW x \in Node
    PROVE  Answer(l, x) \in LookupState
<1> DEFINE o == IF l.hash \in Key THEN DHT[x][l.hash] ELSE NoNode
<1>1. o \in Host
  BY DEF TypeOK, Host
<1>2. x \in Host /\ NoNode \in Host
  BY DEF Host
<1> HIDE DEF o
<1>3. [l EXCEPT !.st = "done", !.at = NoNode, !.succ = x, !.owner = o] \in LookupState
  BY <1>1, <1>2 DEF LookupState
<1> QED BY <1>3 DEF Answer, o

\* The next hop is an entry of the finger table.
LEMMA NextHopType ==
    ASSUME TypeOK, NEW x \in Node, NEW hash \in Ids
    PROVE  NextHop(x, hash) \in Host
<1>1. myHash[x] \in Ids
  BY DEF TypeOK
<1>2. CASE hash = myHash[x]
  BY <1>2 DEF NextHop, Host
<1>3. CASE hash # myHash[x]
  <2>1. HopIndex(myHash[x], hash) \in FingerIndex
    BY <1>1, <1>3, HopRange
  <2> QED BY <2>1, <1>3 DEF NextHop, TypeOK
<1> QED BY <1>2, <1>3

LEMMA UnrollStartType ==
    ASSUME TypeOK, NEW x \in Node, UnrollStart(x)
    PROVE  localStart' \in [Node -> -TotalHashPoints .. TotalHashPoints - 1]
<1>1. Unrolled(localStart[x], myHash[x]) \in -TotalHashPoints .. TotalHashPoints - 1
  BY UnrolledRange DEF TypeOK
<1> QED BY <1>1 DEF UnrollStart, TypeOK

\* What a lookup step that stays alive leaves alone.
LEMMA LookupStepType ==
    ASSUME TypeOK, NEW x \in Node, NEW t \in Thread, NEW r \in LookupState,
           lookup' = [lookup EXCEPT ![t] = r], UnrollStart(x),
           UNCHANGED << phase, myHash, requests, joinVars, fileVars, uiVars >>
    PROVE  TypeOK'
<1>1. localStart' \in [Node -> -TotalHashPoints .. TotalHashPoints - 1]
  BY UnrollStartType
<1>2. lookup' \in [Thread -> LookupState]
  BY DEF TypeOK
<1> QED BY <1>1, <1>2 DEF TypeOK, joinVars, fileVars, uiVars

LEMMA LookupCallType ==
    ASSUME TypeOK, NEW t \in Thread, LookupCall(t)
    PROVE  TypeOK'
<1> DEFINE l   == lookup[t]
           hop == NextHop(l.src, l.hash)
<1>1. l \in LookupState /\ l.src \in Node /\ l.hash \in Ids
  BY DEF TypeOK, LookupCall, Alive, LookupState
<1>2. hop \in Host
  BY <1>1, NextHopType
<1>3. CASE /\ IsResponsibleTo(l.src, l.hash)
           /\ lookup' = [lookup EXCEPT ![t] = Answer(l, l.src)]
           /\ UnrollStart(l.src)
           /\ UNCHANGED << phase, myHash, requests, joinVars, fileVars, uiVars >>
  BY <1>1, <1>3, AnswerType, LookupStepType
<1>4. CASE /\ lookup' = [lookup EXCEPT ![t].st = "fwd", ![t].at = hop]
           /\ UnrollStart(l.src)
           /\ UNCHANGED << phase, myHash, requests, joinVars, fileVars, uiVars >>
  <2> DEFINE r == [l EXCEPT !.st = "fwd", !.at = hop]
  <2>1. r \in LookupState
    BY <1>1, <1>2 DEF LookupState
  <2>2. lookup' = [lookup EXCEPT ![t] = r]
    BY <1>4, <1>1 DEF TypeOK, LookupState
  <2> QED BY <1>1, <1>4, <2>1, <2>2, LookupStepType
<1>5. CASE Crash(l.src)
  BY <1>5, CrashType
<1> QED BY <1>3, <1>4, <1>5 DEF LookupCall

LEMMA LookupReqHandleType ==
    ASSUME TypeOK, NEW t \in Thread, LookupReqHandle(t)
    PROVE  TypeOK'
<1> DEFINE l    == lookup[t]
           mine == IsResponsibleTo(l.at, l.hash)
           dest == IF mine THEN l.src ELSE NextHop(l.at, l.hash)
           r    == IF mine THEN Answer(l, l.at) ELSE [l EXCEPT !.at = dest]
<1>1. l \in LookupState /\ l.at \in Node /\ l.hash \in Ids
  BY DEF TypeOK, LookupReqHandle, Alive, LookupState
<1>2. dest \in Host
  BY <1>1, NextHopType DEF LookupState
<1>3. r \in LookupState
  <2>1. CASE mine
    BY <2>1, <1>1, AnswerType
  <2>2. CASE ~mine
    BY <2>2, <1>1, <1>2 DEF LookupState
  <2> QED BY <2>1, <2>2
<1>4. CASE /\ lookup' = [lookup EXCEPT ![t] = r]
           /\ UnrollStart(l.at)
           /\ UNCHANGED << phase, myHash, requests, joinVars, fileVars, uiVars >>
  BY <1>1, <1>3, <1>4, LookupStepType
<1>5. CASE Crash(l.at)
  BY <1>5, CrashType
<1> QED BY <1>4, <1>5 DEF LookupReqHandle

-----------------------------------------------------------------------------
(* join.cpp                                                                *)

\* A request of each type, taken apart.
LEMMA RequestParts ==
    ASSUME TypeOK, NEW m \in requests
    PROVE  /\ m.type \in {"join", "help", "update"} => m.to \in Node /\ m.new \in Node
           /\ m.type = "updated" => m.to \in Node /\ m.cur \in Node /\ m.next \in Host
           /\ m.type \in {"add", "delete"} => m.to \in Node /\ m.key \in Key /\ m.src \in Node
<1>1. m \in Request
  BY DEF TypeOK
<1> QED BY <1>1 DEF Request

LEMMA LookupParts ==
    ASSUME TypeOK, NEW t \in Thread
    PROVE  /\ lookup[t].src \in Host /\ lookup[t].succ \in Host
           /\ lookup[t].owner \in Host /\ lookup[t].hash \in Ids
BY DEF TypeOK, LookupState

\* One record of help replaced.
LEMMA HelpExcept ==
    ASSUME TypeOK, NEW n \in Node, NEW h \in HelpState, help' = [help EXCEPT ![n] = h]
    PROVE  help' \in [Node -> HelpState]
BY DEF TypeOK

LEMMA HelpParts ==
    ASSUME TypeOK, NEW n \in Node
    PROVE  /\ help[n].host \in Host /\ help[n].prev \in Host
           /\ help[n].i \in FingerIndex
           /\ help[n].table \in [FingerIndex -> Host]
           /\ help[n].files \in [Key -> Host]
BY DEF TypeOK, HelpState

LEMMA EntryHashType ==
    ASSUME TypeOK, NEW n \in Node, NEW i \in FingerIndex
    PROVE  EntryHash(n, i) \in Ids
<1>1. myHash[n] \in Ids /\ 2^i \in -TotalHashPoints .. TotalHashPoints
  BY EntryNat, PointsNat DEF TypeOK
<1> QED BY <1>1, AddRange DEF EntryHash

LEMMA FurthestPrevType ==
    ASSUME TypeOK, NEW n \in Node
    PROVE  FurthestPrev(n) \in Ids
<1>1. myHash[n] \in Ids /\ -(2^(M - 1)) \in -TotalHashPoints .. TotalHashPoints
  BY EntryNat, PointsNat, Constants DEF TypeOK
<1> QED BY <1>1, AddRange DEF FurthestPrev

LEMMA AfterType ==
    ASSUME TypeOK, NEW n \in Node
    PROVE  HashValueAdd(myHash[n], 1) \in -TotalHashPoints .. TotalHashPoints - 1
<1>1. HashValueAdd(myHash[n], 1) \in Ids
  BY AddRange, PointsNat DEF TypeOK
<1> QED BY <1>1, PointsNat DEF Ids

LEMMA JoinReqHandleType ==
    ASSUME TypeOK, NEW m \in requests, JoinReqHandle(m)
    PROVE  TypeOK'
<1>1. m.to \in Host /\ m.new \in Node
  BY RequestParts DEF JoinReqHandle, Host
<1>2. Lookup(m.to, myHash[m.new]) \in LookupState
  BY <1>1, LookupType DEF TypeOK
<1>3. lookup' \in [Thread -> LookupState]
  BY <1>2 DEF TypeOK, JoinReqHandle
<1> QED BY <1>3 DEF TypeOK, JoinReqHandle, joinVars, fileVars, uiVars

LEMMA JoinReqReturnType ==
    ASSUME TypeOK, NEW n \in Node, JoinReqReturn(n)
    PROVE  TypeOK'
<1> DEFINE l == lookup[<<"join", n>>]
<1>1. CASE /\ Alive(l.succ)
           /\ requests' = requests \cup {[type |-> "help", to |-> l.succ, new |-> n]}
           /\ lookup' = [lookup EXCEPT ![<<"join", n>>] = NoLookup]
           /\ UNCHANGED << phase, myHash, localStart, joinVars, fileVars, uiVars >>
  <2>1. requests' \subseteq Request
    BY <1>1 DEF TypeOK, Alive, Request
  <2>2. lookup' \in [Thread -> LookupState]
    BY <1>1, NoLookupType DEF TypeOK
  <2> QED BY <1>1, <2>1, <2>2 DEF TypeOK, joinVars, fileVars, uiVars
<1>2. CASE Crash(l.src)
  BY <1>2, CrashType
<1> QED BY <1>1, <1>2 DEF JoinReqReturn

LEMMA HelpJoinReqHandleType ==
    ASSUME TypeOK, NEW m \in requests, HelpJoinReqHandle(m)
    PROVE  TypeOK'
<1>1. m.to \in Host /\ m.new \in Node
  BY RequestParts DEF HelpJoinReqHandle, Host
<1>2. CASE /\ requests' = requests \ {m}
           /\ help' = [help EXCEPT ![m.new] = [NoHelp EXCEPT !.pc = "entry", !.host = m.to]]
           /\ lookup' = [lookup EXCEPT ![<<"help", m.new>>] =
                             Lookup(m.to, EntryHash(m.new, 0))]
           /\ UNCHANGED << phase, myHash, localStart, fingerTable, walk, fileVars, uiVars >>
  <2>1. [NoHelp EXCEPT !.pc = "entry", !.host = m.to] \in HelpState
    BY <1>1, NoHelpType DEF HelpState, NoHelp
  <2>2. Lookup(m.to, EntryHash(m.new, 0)) \in LookupState
    BY <1>1, LookupType, EntryHashType, Constants
  <2>3. help' \in [Node -> HelpState] /\ lookup' \in [Thread -> LookupState]
    BY <1>2, <2>1, <2>2 DEF TypeOK
  <2> QED BY <1>2, <2>3 DEF TypeOK, fileVars, uiVars
<1>3. CASE Crash(m.to)
  BY <1>3, CrashType
<1> QED BY <1>2, <1>3 DEF HelpJoinReqHandle

LEMMA HelpEntryType ==
    ASSUME TypeOK, NEW n \in Node, HelpEntry(n)
    PROVE  TypeOK'
<1> DEFINE i    == help[n].i
           l    == lookup[<<"help", n>>]
           last == i = M - 1
           host == EntryHost(n, i, l.succ)
           hash == IF last THEN FurthestPrev(n) ELSE EntryHash(n, i + 1)
           h    == [help[n] EXCEPT !.table[i] = host,
                                   !.pc = IF last THEN "furthest" ELSE "entry",
                                   !.i = IF last THEN i ELSE i + 1]
<1>1. <<"help", n>> \in Thread /\ i \in FingerIndex /\ l.src \in Host /\ l.succ \in Host
  BY LookupParts, HelpParts DEF Thread
<1>2. ~last => i + 1 \in FingerIndex
  BY <1>1, RingBits DEF FingerIndex
<1>3. host \in Host
  BY <1>1 DEF EntryHost, Host
<1>4. hash \in Ids
  BY <1>1, <1>2, FurthestPrevType, EntryHashType
<1>5. h \in HelpState
  <2>1. [help[n].table EXCEPT ![i] = host] \in [FingerIndex -> Host]
    BY <1>3, HelpParts
  <2>2. help[n] \in HelpState
    BY DEF TypeOK
  <2> HIDE DEF host, i, last
  <2> DEFINE table == [help[n].table EXCEPT ![i] = host]
             pc    == IF last THEN "furthest" ELSE "entry"
             next  == IF last THEN i ELSE i + 1
  <2>3. next \in FingerIndex
    BY <1>1, <1>2
  <2>4. pc \in {"entry", "furthest"} /\ table \in [FingerIndex -> Host]
    BY <2>1
  <2> HIDE DEF table, pc, next
  <2>5. [help[n] EXCEPT !.table = table, !.pc = pc, !.i = next] \in HelpState
    BY <2>2, <2>3, <2>4 DEF HelpState
  <2> QED BY <2>2, <2>5 DEF table, pc, next, HelpState
<1>6. help' = [help EXCEPT ![n] = h]
  BY DEF HelpEntry, TypeOK, HelpState
<1>7. help' \in [Node -> HelpState]
  BY <1>5, <1>6, HelpExcept
<1>8. lookup' \in [Thread -> LookupState]
  <2>1. Lookup(l.src, hash) \in LookupState
    BY <1>1, <1>4, LookupType
  <2> QED BY <2>1 DEF TypeOK, HelpEntry
<1> QED BY <1>7, <1>8 DEF TypeOK, HelpEntry, fileVars, uiVars

LEMMA HelpPrevType ==
    ASSUME NEW g \in HelpState, NEW x \in Host
    PROVE  [g EXCEPT !.pc = "files", !.prev = x] \in HelpState
BY DEF HelpState

LEMMA HelpFilesFieldType ==
    ASSUME NEW g \in HelpState, NEW f \in [Key -> Host]
    PROVE  [g EXCEPT !.pc = "start", !.files = f] \in HelpState
BY DEF HelpState

LEMMA HelpDoneType ==
    ASSUME NEW g \in HelpState
    PROVE  [g EXCEPT !.pc = "done"] \in HelpState
BY DEF HelpState

LEMMA HelpFurthestType ==
    ASSUME TypeOK, NEW n \in Node, HelpFurthest(n)
    PROVE  TypeOK'
<1>1. lookup[<<"help", n>>].succ \in Host
  BY LookupParts DEF Thread
<1> DEFINE h == [help[n] EXCEPT !.pc = "files", !.prev = lookup[<<"help", n>>].succ]
<1>2. help' \in [Node -> HelpState]
  <2>1. h \in HelpState
    <3>1. help[n] \in HelpState
      BY DEF TypeOK
    <3> QED BY <1>1, <3>1, HelpPrevType
  <2>2. help' = [help EXCEPT ![n] = h]
    BY DEF HelpFurthest, TypeOK, HelpState
  <2> QED BY <2>1, <2>2, HelpExcept
<1>3. lookup' \in [Thread -> LookupState]
  BY NoLookupType DEF TypeOK, HelpFurthest
<1> QED BY <1>2, <1>3 DEF TypeOK, HelpFurthest, fileVars, uiVars

LEMMA HelpFilesType ==
    ASSUME TypeOK, NEW n \in Node, HelpFiles(n)
    PROVE  TypeOK'
<1> DEFINE r     == help[n].host
           moved == Transferred(r, n)
           files == [k \in Key |-> IF k \in moved THEN DHT[r][k] ELSE NoNode]
           rest  == [k \in Key |-> IF k \in moved THEN NoNode ELSE DHT[r][k]]
<1>1. r \in Node
  BY DEF HelpFiles, Alive
<1>2. files \in [Key -> Host] /\ rest \in [Key -> Host]
  BY <1>1 DEF TypeOK, Host
<1> HIDE DEF files, rest
<1>3. help' = [help EXCEPT ![n].pc = "start", ![n].files = files]
  BY DEF HelpFiles, files
<1>4. help' \in [Node -> HelpState]
  <2> DEFINE h == [help[n] EXCEPT !.pc = "start", !.files = files]
  <2>1. h \in HelpState
    <3>1. help[n] \in HelpState
      BY DEF TypeOK
    <3> QED BY <1>2, <3>1, HelpFilesFieldType
  <2>2. help' = [help EXCEPT ![n] = h]
    BY <1>3 DEF TypeOK, HelpState
  <2> QED BY <2>1, <2>2, HelpExcept
<1>5. DHT' = [DHT EXCEPT ![r] = rest]
  BY DEF HelpFiles, rest
<1>6. DHT' \in [Node -> [Key -> Host]]
  BY <1>2, <1>5 DEF TypeOK
<1> QED BY <1>4, <1>6 DEF TypeOK, HelpFiles, uiVars

LEMMA HelpStartType ==
    ASSUME TypeOK, NEW n \in Node, HelpStart(n)
    PROVE  TypeOK'
<1>1. help' \in [Node -> HelpState]
  <2> DEFINE h == [help[n] EXCEPT !.pc = "done"]
  <2>1. h \in HelpState
    <3>1. help[n] \in HelpState
      BY DEF TypeOK
    <3> QED BY <3>1, HelpDoneType
  <2>2. help' = [help EXCEPT ![n] = h]
    BY DEF HelpStart, TypeOK, HelpState
  <2> QED BY <2>1, <2>2, HelpExcept
<1>2. localStart' \in [Node -> -TotalHashPoints .. TotalHashPoints - 1]
  BY AfterType DEF TypeOK, HelpStart
<1> QED BY <1>1, <1>2 DEF TypeOK, HelpStart, fileVars, uiVars

LEMMA HelpPipeBrokenType ==
    ASSUME TypeOK, NEW n \in Node, HelpPipeBroken(n)
    PROVE  TypeOK'
BY CrashType DEF HelpPipeBroken

LEMMA RecvHelpJoinType ==
    ASSUME TypeOK, NEW n \in Node, RecvHelpJoin(n)
    PROVE  TypeOK'
BY DEF TypeOK, RecvHelpJoin, Phase, Joining, joinVars, fileVars, uiVars

LEMMA RecvRouteTableType ==
    ASSUME TypeOK, NEW n \in Node, RecvRouteTable(n)
    PROVE  TypeOK'
<1>1. fingerTable' \in [Node -> [FingerIndex -> Host]]
  BY HelpParts DEF TypeOK, RecvRouteTable
<1> QED BY <1>1 DEF TypeOK, RecvRouteTable, Phase, Joining, fileVars, uiVars

LEMMA RecvLookupNodeType ==
    ASSUME TypeOK, NEW n \in Node, RecvLookupNode(n)
    PROVE  TypeOK'
<1>1. walk' \in [Node -> Host]
  BY HelpParts DEF TypeOK, RecvLookupNode
<1> QED BY <1>1 DEF TypeOK, RecvLookupNode, Phase, Joining, fileVars, uiVars

LEMMA WalkSendType ==
    ASSUME TypeOK, NEW n \in Node, WalkSend(n)
    PROVE  TypeOK'
<1>1. CASE /\ Alive(walk[n])
           /\ requests' = requests \cup {[type |-> "update", to |-> walk[n], new |-> n]}
           /\ phase' = [phase EXCEPT ![n] = "wait"]
           /\ UNCHANGED << myHash, localStart, lookup, joinVars, fileVars, uiVars >>
  <2>1. requests' \subseteq Request
    BY <1>1 DEF TypeOK, Alive, Request
  <2> QED BY <1>1, <2>1 DEF TypeOK, Phase, Joining, joinVars, fileVars, uiVars
<1>2. CASE Crash(n)
  BY <1>2, CrashType
<1> QED BY <1>1, <1>2 DEF WalkSend

LEMMA UpdatedTableType ==
    ASSUME TypeOK, NEW x \in Node, NEW n \in Node
    PROVE  UpdatedTable(x, n) \in [FingerIndex -> Host]
BY DEF TypeOK, UpdatedTable, Host

LEMMA HandleUpdateRouteReqType ==
    ASSUME TypeOK, NEW m \in requests, HandleUpdateRouteReq(m)
    PROVE  TypeOK'
<1> DEFINE x     == m.to
           table == UpdatedTable(x, m.new)
<1>1. x \in Node /\ m.new \in Node
  BY RequestParts DEF HandleUpdateRouteReq
<1>2. table \in [FingerIndex -> Host] /\ table[0] \in Host
  BY <1>1, UpdatedTableType, Constants
<1>3. CASE /\ fingerTable' = [fingerTable EXCEPT ![x] = table]
           /\ requests' = (requests \ {m}) \cup
                 {[type |-> "updated", to |-> m.new, cur |-> x, next |-> table[0]]}
           /\ UNCHANGED << phase, myHash, localStart, lookup, help, walk, fileVars, uiVars >>
  <2> HIDE DEF table
  <2>1. requests' \subseteq Request
    BY <1>1, <1>2, <1>3 DEF TypeOK, Request
  <2>2. fingerTable' \in [Node -> [FingerIndex -> Host]]
    BY <1>2, <1>3 DEF TypeOK
  <2> QED BY <1>3, <2>1, <2>2 DEF TypeOK, fileVars, uiVars
<1>4. CASE Crash(x)
  BY <1>4, CrashType
<1> QED BY <1>3, <1>4 DEF HandleUpdateRouteReq

LEMMA WalkRecvType ==
    ASSUME TypeOK, NEW m \in requests, WalkRecv(m)
    PROVE  TypeOK'
<1>1. m.to \in Node /\ m.cur \in Node /\ m.next \in Host
  BY RequestParts DEF WalkRecv
<1>2. phase' \in [Node -> Phase]
  BY DEF TypeOK, WalkRecv, Phase, Joining
<1>3. localStart' \in [Node -> -TotalHashPoints .. TotalHashPoints - 1]
  BY <1>1, AfterType DEF TypeOK, WalkRecv
<1>4. walk' \in [Node -> Host]
  BY <1>1 DEF TypeOK, WalkRecv
<1> QED BY <1>2, <1>3, <1>4 DEF TypeOK, WalkRecv, fileVars, uiVars

LEMMA RecvFileTableType ==
    ASSUME TypeOK, NEW n \in Node, RecvFileTable(n)
    PROVE  TypeOK'
<1>1. DHT' \in [Node -> [Key -> Host]]
  BY HelpParts DEF TypeOK, RecvFileTable
<1> QED BY <1>1 DEF TypeOK, RecvFileTable, Phase, joinVars, uiVars

LEMMA JoinFailsType ==
    ASSUME TypeOK, NEW n \in Node, JoinFails(n)
    PROVE  TypeOK'
BY CrashType DEF JoinFails

-----------------------------------------------------------------------------
(* node.cpp                                                                *)

LEMMA EnterCommandType ==
    ASSUME TypeOK, NEW n \in Node, NEW op \in Commands, NEW k \in Key,
           EnterCommand(n, op, k)
    PROVE  TypeOK'
<1>1. op \in {"add", "delete", "search"} /\ k \in Ids
  BY Constants DEF EnterCommand
<1>2. cmd' \in [Node -> Command \cup {NoCommand}]
  BY <1>1 DEF TypeOK, EnterCommand, Command
<1>3. lookup' \in [Thread -> LookupState]
  <2>1. Lookup(n, k) \in LookupState
    BY <1>1, LookupType DEF Host
  <2> QED BY <2>1 DEF TypeOK, EnterCommand
<1>4. entered' \in 0..MaxCommands
  BY Constants DEF TypeOK, EnterCommand
<1> QED BY <1>2, <1>3, <1>4 DEF TypeOK, EnterCommand, joinVars, fileVars

LEMMA UserExitType ==
    ASSUME TypeOK, NEW n \in Node, UserExit(n)
    PROVE  TypeOK'
BY CrashType DEF UserExit

\* What every command does when its lookup has returned.
LEMMA CommandEndsType ==
    ASSUME TypeOK, NEW n \in Node, CommandEnds(n)
    PROVE  /\ cmd' \in [Node -> Command \cup {NoCommand}]
           /\ lookup' \in [Thread -> LookupState]
BY NoLookupType DEF TypeOK, CommandEnds

\* The state of a command that sends its request, m, to the responsible host.
LEMMA CommandSendsType ==
    ASSUME TypeOK, NEW n \in Node, NEW m \in Request, NEW k,
           NEW name \in {"none", "named"},
           CommandEnds(n),
           localFiles' = [localFiles EXCEPT ![n][k] = name],
           requests' = requests \cup {m},
           UNCHANGED << phase, myHash, localStart, DHT, joinVars, answer, entered >>
    PROVE  TypeOK'
<1>1. localFiles' \in [Node -> [Key -> {"none", "named", "blank"}]]
  BY DEF TypeOK
<1>2. requests' \subseteq Request
  BY DEF TypeOK
<1>3. /\ cmd' \in [Node -> Command \cup {NoCommand}]
      /\ lookup' \in [Thread -> LookupState]
  BY CommandEndsType
<1> QED BY <1>1, <1>2, <1>3 DEF TypeOK, joinVars

\* A command being executed names a key.
LEMMA CommandKey ==
    ASSUME TypeOK, NEW n \in Node, cmd[n].op \in {"add", "delete", "search"}
    PROVE  cmd[n].key \in Key
<1>1. cmd[n] \in Command \cup {NoCommand}
  BY DEF TypeOK
<1> QED BY <1>1 DEF Command, NoCommand

LEMMA AddReturnType ==
    ASSUME TypeOK, NEW n \in Node, AddReturn(n)
    PROVE  TypeOK'
<1> DEFINE l == lookup[<<"ui", n>>]
           k == cmd[n].key
           m == [type |-> "add", to |-> l.succ, key |-> k, src |-> n, id |-> entered]
<1>1. k \in Key /\ entered \in 0..MaxCommands
  BY CommandKey DEF AddReturn, TypeOK
<1>2. CASE /\ Alive(l.succ) /\ CommandEnds(n)
           /\ localFiles' = [localFiles EXCEPT ![n][k] = "named"]
           /\ requests' = requests \cup {m}
           /\ UNCHANGED << phase, myHash, localStart, DHT, joinVars, answer, entered >>
  <2>1. m \in Request
    BY <1>1, <1>2 DEF Alive, Request
  <2> HIDE DEF m, k, l
  <2> QED BY <1>2, <2>1, CommandSendsType
<1>3. CASE Crash(n)
  BY <1>3, CrashType
<1> QED BY <1>2, <1>3 DEF AddReturn

LEMMA DeleteReturnType ==
    ASSUME TypeOK, NEW n \in Node, DeleteReturn(n)
    PROVE  TypeOK'
<1> DEFINE l == lookup[<<"ui", n>>]
           k == cmd[n].key
           m == [type |-> "delete", to |-> l.succ, key |-> k, src |-> n, id |-> entered]
<1>1. k \in Key /\ entered \in 0..MaxCommands
  BY CommandKey DEF DeleteReturn, TypeOK
<1>2. CASE /\ CommandEnds(n)
           /\ UNCHANGED << phase, myHash, localStart, requests, fileVars, joinVars,
                           answer, entered >>
  <2>1. /\ cmd' \in [Node -> Command \cup {NoCommand}]
        /\ lookup' \in [Thread -> LookupState]
    BY <1>2, CommandEndsType
  <2> QED BY <1>2, <2>1 DEF TypeOK, joinVars, fileVars
<1>3. CASE /\ Alive(l.succ) /\ CommandEnds(n)
           /\ localFiles' = [localFiles EXCEPT ![n][k] = "none"]
           /\ requests' = requests \cup {m}
           /\ UNCHANGED << phase, myHash, localStart, DHT, joinVars, answer, entered >>
  <2>1. m \in Request
    BY <1>1, <1>3 DEF Alive, Request
  <2> HIDE DEF m, k, l
  <2> QED BY <1>3, <2>1, CommandSendsType
<1>4. CASE Crash(n)
  BY <1>4, CrashType
<1> QED BY <1>2, <1>3, <1>4 DEF DeleteReturn

LEMMA SearchReturnType ==
    ASSUME TypeOK, NEW n \in Node, SearchReturn(n)
    PROVE  TypeOK'
<1> DEFINE k == cmd[n].key
           found == lookup[<<"ui", n>>].owner # NoNode
<1>1. k \in Ids
  BY CommandKey, Constants DEF SearchReturn
<1>2. /\ cmd' \in [Node -> Command \cup {NoCommand}]
      /\ lookup' \in [Thread -> LookupState]
  BY CommandEndsType DEF SearchReturn
<1>3. answer' \in [Node -> [key : Ids, exists : BOOLEAN]]
  <2>1. found \in BOOLEAN
    OBVIOUS
  <2>2. answer' = [answer EXCEPT ![n] = [key |-> k, exists |-> found]]
    BY DEF SearchReturn
  <2> HIDE DEF found, k
  <2> QED BY <1>1, <2>1, <2>2 DEF TypeOK
<1> QED BY <1>2, <1>3 DEF TypeOK, SearchReturn, joinVars, fileVars

LEMMA AddFileReqHandleType ==
    ASSUME TypeOK, NEW m \in requests, AddFileReqHandle(m)
    PROVE  TypeOK'
<1>1. m.to \in Node /\ m.key \in Key /\ m.src \in Host
  BY RequestParts DEF AddFileReqHandle, Host
<1>2. DHT' \in [Node -> [Key -> Host]]
  BY <1>1 DEF TypeOK, AddFileReqHandle
<1>3. localFiles' \in [Node -> [Key -> {"none", "named", "blank"}]]
  BY <1>1 DEF TypeOK, AddFileReqHandle
<1>4. requests' \subseteq Request
  BY DEF TypeOK, AddFileReqHandle
<1> QED BY <1>2, <1>3, <1>4 DEF TypeOK, AddFileReqHandle, joinVars, uiVars

LEMMA DelFileReqHandleType ==
    ASSUME TypeOK, NEW m \in requests, DelFileReqHandle(m)
    PROVE  TypeOK'
<1>1. m.to \in Node /\ m.key \in Key
  BY RequestParts DEF DelFileReqHandle
<1>2. CASE /\ requests' = requests \ {m}
           /\ DHT' = [DHT EXCEPT ![m.to][m.key] = NoNode]
           /\ UNCHANGED << phase, myHash, localStart, localFiles, lookup, joinVars, uiVars >>
  <2>1. DHT' \in [Node -> [Key -> Host]]
    BY <1>1, <1>2 DEF TypeOK, Host
  <2>2. requests' \subseteq Request
    BY <1>2 DEF TypeOK
  <2> QED BY <1>2, <2>1, <2>2 DEF TypeOK, joinVars, uiVars
<1>3. CASE Crash(m.to)
  BY <1>3, CrashType
<1> QED BY <1>2, <1>3 DEF DelFileReqHandle

-----------------------------------------------------------------------------
LEMMA StutterType ==
    ASSUME TypeOK, UNCHANGED vars
    PROVE  TypeOK'
BY DEF TypeOK, vars

\* TypeOK is inductive: one case for each action.
LEMMA NextType ==
    ASSUME TypeOK, [Next]_vars
    PROVE  TypeOK'
<1>1. CASE StartHost
  BY <1>1, InitialChordType, JoinChordType DEF StartHost
<1>2. CASE UserStep
  BY <1>2, EnterCommandType, UserExitType DEF UserStep
<1>3. CASE LookupStep
  BY <1>3, LookupCallType, LookupReqHandleType DEF LookupStep
<1>4. CASE JoinStep
  <2>1. CASE \E m \in requests : JoinReqHandle(m) \/ HelpJoinReqHandle(m)
    BY <2>1, JoinReqHandleType, HelpJoinReqHandleType
  <2>2. CASE \E m \in requests : HandleUpdateRouteReq(m) \/ WalkRecv(m)
    BY <2>2, HandleUpdateRouteReqType, WalkRecvType
  <2>3. CASE \E n \in Node : JoinReqReturn(n) \/ HelpEntry(n) \/ HelpFurthest(n)
    BY <2>3, JoinReqReturnType, HelpEntryType, HelpFurthestType
  <2>4. CASE \E n \in Node : HelpFiles(n) \/ HelpStart(n) \/ HelpPipeBroken(n)
    BY <2>4, HelpFilesType, HelpStartType, HelpPipeBrokenType
  <2>5. CASE \E n \in Node : RecvHelpJoin(n) \/ RecvRouteTable(n) \/ RecvLookupNode(n)
    BY <2>5, RecvHelpJoinType, RecvRouteTableType, RecvLookupNodeType
  <2>6. CASE \E n \in Node : WalkSend(n) \/ RecvFileTable(n) \/ JoinFails(n)
    BY <2>6, WalkSendType, RecvFileTableType, JoinFailsType
  <2> QED BY <1>4, <2>1, <2>2, <2>3, <2>4, <2>5, <2>6 DEF JoinStep
<1>5. CASE FileStep
  BY <1>5, AddReturnType, DeleteReturnType, SearchReturnType,
     AddFileReqHandleType, DelFileReqHandleType DEF FileStep
<1>6. CASE UNCHANGED vars
  BY <1>6, StutterType
<1> QED BY <1>1, <1>2, <1>3, <1>4, <1>5, <1>6 DEF Next, ThreadStep

\* Every member of class Node keeps a value of its type, on any number of
\* hosts, on a circle of any size and at any pace: in particular no arithmetic
\* on hashes leaves the circle, and every index into a finger table is in range.
THEOREM TypeCorrect == Spec => []TypeOK
<1>1. Init => TypeOK
  BY InitType
<1>2. TypeOK /\ [Next]_vars => TypeOK'
  BY NextType
<1> QED BY <1>1, <1>2, PTL DEF Spec

-----------------------------------------------------------------------------
(* Fingers reach their points.                                             *)

\* f is a host fit for entry i of the table of n.
Reaches(n, i, f) ==
    n \in Started /\ f \in Started /\ GetDistance(myHash[n], myHash[f]) >= 2^i

TablesReach ==
    \A n \in Node, i \in FingerIndex :
        fingerTable[n][i] # NoNode => Reaches(n, i, fingerTable[n][i])

HelpReach ==
    \A n \in Node, i \in FingerIndex :
        help[n].table[i] # NoNode => Reaches(n, i, help[n].table[i])

HelpedStarted == \A n \in Node : help[n].pc # "idle" => n \in Started

AnswersStarted == \A t \in Thread : lookup[t].st = "done" => lookup[t].succ \in Started

ReachInv == TypeOK /\ TablesReach /\ HelpReach /\ HelpedStarted /\ AnswersStarted

\* What every step does to the hosts that have been started.
HostsGrow ==
    /\ Started \subseteq Started'
    /\ \A x \in Started : myHash'[x] = myHash[x]

-----------------------------------------------------------------------------
\* Nobody has been started.
LEMMA InitReach == Init => ReachInv
<1> SUFFICES ASSUME Init PROVE ReachInv
  OBVIOUS
<1>1. TypeOK
  BY InitType
<1>2. TablesReach
  BY DEF Init, TablesReach, EmptyTable
<1>3. HelpReach /\ HelpedStarted
  BY DEF Init, HelpReach, HelpedStarted, NoHelp, EmptyTable
<1>4. AnswersStarted
  BY DEF Init, AnswersStarted, NoLookup
<1> QED BY <1>1, <1>2, <1>3, <1>4 DEF ReachInv

LEMMA ReachesKept ==
    ASSUME HostsGrow, NEW n, NEW i, NEW f, Reaches(n, i, f)
    PROVE  Reaches(n, i, f)'
BY DEF HostsGrow, Reaches

LEMMA TablesKept ==
    ASSUME TablesReach, HostsGrow, UNCHANGED fingerTable
    PROVE  TablesReach'
BY ReachesKept DEF TablesReach

LEMMA HelpKept ==
    ASSUME HelpReach, HelpedStarted, HostsGrow, UNCHANGED help
    PROVE  HelpReach' /\ HelpedStarted'
BY ReachesKept DEF HelpReach, HelpedStarted, HostsGrow

\* An answer is there already or given by a host that has been started.
LEMMA AnswersKept ==
    ASSUME AnswersStarted, HostsGrow,
           \A t \in Thread : lookup'[t] = lookup[t] \/ lookup'[t].st # "done"
                               \/ lookup'[t].succ \in Started
    PROVE  AnswersStarted'
BY DEF AnswersStarted, HostsGrow

\* No host that has been started is ever "off" again or changes its hash.
LEMMA HostsGrowByPhase ==
    ASSUME TypeOK, UNCHANGED myHash,
           \A x \in Node : phase'[x] = "off" => phase[x] = "off"
    PROVE  HostsGrow
BY DEF HostsGrow, Started

\* One phase changes, to something else than "off".
LEMMA HostsGrowByOne ==
    ASSUME TypeOK, UNCHANGED myHash, NEW x \in Node, NEW p, p # "off",
           phase' = [phase EXCEPT ![x] = p]
    PROVE  HostsGrow
BY HostsGrowByPhase DEF TypeOK

LEMMA HostsGrowUnchanged ==
    ASSUME TypeOK, UNCHANGED << myHash, phase >>
    PROVE  HostsGrow
BY HostsGrowByPhase

LEMMA AliveStarted == ASSUME NEW x, Alive(x) PROVE x \in Started
BY DEF Alive, Started

\* The end of a process leaves everything but phases alone.
LEMMA CrashReach ==
    ASSUME ReachInv, NEW x \in Node, Crash(x)
    PROVE  ReachInv'
<1>1. HostsGrow
  BY HostsGrowByOne DEF Crash, ReachInv
<1>2. AnswersStarted'
  BY <1>1, AnswersKept DEF Crash, ReachInv
<1> QED BY <1>1, <1>2, TablesKept, HelpKept, CrashType DEF Crash, ReachInv, joinVars

\* A step that leaves tables and helpers alone and puts one thread in its
\* place in lookup(): most of them.
LEMMA OneLookupReach ==
    ASSUME ReachInv, TypeOK', HostsGrow, UNCHANGED << fingerTable, help >>,
           NEW t \in Thread, NEW l, l.st # "done" \/ l.succ \in Started,
           lookup' = [lookup EXCEPT ![t] = l]
    PROVE  ReachInv'
<1>1. AnswersStarted'
  BY AnswersKept DEF ReachInv, TypeOK
<1> QED BY <1>1, TablesKept, HelpKept DEF ReachInv

\* A step that leaves lookups alone, too.
LEMMA NoLookupReach ==
    ASSUME ReachInv, TypeOK', HostsGrow, UNCHANGED << fingerTable, help, lookup >>
    PROVE  ReachInv'
BY TablesKept, HelpKept, AnswersKept DEF ReachInv

-----------------------------------------------------------------------------
(* Starting hosts and users.                                               *)

LEMMA StartHostReach ==
    ASSUME ReachInv, StartHost
    PROVE  ReachInv'
<1>1. TypeOK'
  BY NextType DEF ReachInv, Next
<1>2. CASE \E h \in Positions : InitialChord(h)
  <2> PICK h \in Positions : InitialChord(h)
    BY <1>2
  <2>1. HostsGrow
    BY DEF HostsGrow, Started, InitialChord, ReachInv, TypeOK
  <2>2. ASSUME NEW n \in Node, NEW i \in FingerIndex, fingerTable'[n][i] # NoNode
        PROVE  Reaches(n, i, fingerTable[n][i])'
    <3>1. CASE n = First
      <4>1. fingerTable'[n][i] = First /\ First \in Started' /\ myHash'[First] \in Ids
        BY <1>1, <3>1, Constants DEF InitialChord, Started, ReachInv, TypeOK
      <4> QED BY <3>1, <4>1, SelfReach DEF Reaches
    <3>2. CASE n # First
      <4>1. fingerTable'[n][i] = fingerTable[n][i]
        BY <3>2 DEF InitialChord, ReachInv, TypeOK
      <4>2. Reaches(n, i, fingerTable[n][i])
        BY <2>2, <4>1 DEF ReachInv, TablesReach
      <4> QED BY <2>1, <4>1, <4>2, ReachesKept
    <3> QED BY <3>1, <3>2
  <2>3. TablesReach'
    BY <2>2 DEF TablesReach
  <2> QED BY <1>1, <2>1, <2>3, HelpKept, AnswersKept DEF InitialChord, ReachInv
<1>3. CASE \E n, e \in Node, h \in FreePositions : JoinChord(n, e, h)
  <2> PICK n \in Node, e \in Node, h \in FreePositions : JoinChord(n, e, h)
    BY <1>3
  <2>1. HostsGrow
    BY DEF HostsGrow, Started, JoinChord, ReachInv, TypeOK
  <2> QED BY <1>1, <2>1, NoLookupReach DEF JoinChord, joinVars
<1> QED BY <1>2, <1>3 DEF StartHost

LEMMA UserStepReach ==
    ASSUME ReachInv, UserStep
    PROVE  ReachInv'
<1>1. TypeOK'
  BY NextType DEF ReachInv, Next
<1> PICK n \in Node : (\E op \in Commands, k \in Key : EnterCommand(n, op, k)) \/ UserExit(n)
  BY DEF UserStep
<1>2. CASE \E op \in Commands, k \in Key : EnterCommand(n, op, k)
  <2> PICK op \in Commands, k \in Key : EnterCommand(n, op, k)
    BY <1>2
  <2>1. HostsGrow
    BY HostsGrowUnchanged DEF EnterCommand, ReachInv
  <2>2. Lookup(n, k).st # "done" /\ <<"ui", n>> \in Thread
    BY DEF Lookup, NoLookup, Thread
  <2> QED BY <1>1, <2>1, <2>2, OneLookupReach DEF EnterCommand, joinVars
<1>3. CASE UserExit(n)
  BY <1>3, CrashReach DEF UserExit
<1> QED BY <1>2, <1>3

-----------------------------------------------------------------------------
(* Lookups: only a host that runs answers.                                 *)

LEMMA LookupStepReach ==
    ASSUME ReachInv, LookupStep
    PROVE  ReachInv'
<1>1. TypeOK'
  BY NextType DEF ReachInv, Next, ThreadStep
<1> PICK t \in Thread : LookupCall(t) \/ LookupReqHandle(t)
  BY DEF LookupStep
<1> DEFINE l == lookup[t]
<1>2. ASSUME NEW x \in Node, Alive(x)
      PROVE  Answer(l, x).succ \in Started
  <2>1. Answer(l, x).succ = x
    BY DEF Answer, ReachInv, TypeOK, LookupState
  <2> QED BY <1>2, <2>1, AliveStarted
<1>3. CASE LookupCall(t)
  <2>1. l.src \in Node /\ Alive(l.src)
    BY <1>3 DEF LookupCall, Alive
  <2>2. CASE Crash(l.src)
    BY <2>1, <2>2, CrashReach
  <2>3. CASE UNCHANGED << phase, myHash, requests, joinVars, fileVars, uiVars >>
    <3>1. HostsGrow
      BY <2>3, HostsGrowUnchanged DEF ReachInv
    <3>2. CASE lookup' = [lookup EXCEPT ![t] = Answer(l, l.src)]
      BY <1>1, <1>2, <2>1, <2>3, <3>1, <3>2, OneLookupReach DEF joinVars
    <3>3. CASE \E hop : lookup' = [lookup EXCEPT ![t].st = "fwd", ![t].at = hop]
      <4> PICK hop : lookup' = [lookup EXCEPT ![t].st = "fwd", ![t].at = hop]
        BY <3>3
      <4> DEFINE f == [l EXCEPT !.st = "fwd", !.at = hop]
      <4>1. lookup' = [lookup EXCEPT ![t] = f]
        BY DEF ReachInv, TypeOK, LookupState
      <4>2. f.st # "done"
        BY DEF ReachInv, TypeOK, LookupState
      <4> HIDE DEF f
      <4> QED BY <1>1, <2>3, <3>1, <4>1, <4>2, OneLookupReach DEF joinVars
    <3> QED BY <1>3, <2>1, <2>2, <3>2, <3>3 DEF LookupCall
  <2> QED BY <1>3, <2>2, <2>3 DEF LookupCall
<1>4. CASE LookupReqHandle(t)
  <2>1. l.at \in Node /\ Alive(l.at) /\ l.st = "fwd"
    BY <1>4 DEF LookupReqHandle, Alive
  <2>2. CASE Crash(l.at)
    BY <2>1, <2>2, CrashReach
  <2>3. CASE UNCHANGED << phase, myHash, requests, joinVars, fileVars, uiVars >>
    <3>1. HostsGrow
      BY <2>3, HostsGrowUnchanged DEF ReachInv
    <3>2. CASE lookup' = [lookup EXCEPT ![t] = Answer(l, l.at)]
      BY <1>1, <1>2, <2>1, <2>3, <3>1, <3>2, OneLookupReach DEF joinVars
    <3>3. CASE \E hop : lookup' = [lookup EXCEPT ![t] = [l EXCEPT !.at = hop]]
      <4> PICK hop : lookup' = [lookup EXCEPT ![t] = [l EXCEPT !.at = hop]]
        BY <3>3
      <4>1. [l EXCEPT !.at = hop].st # "done"
        BY <2>1 DEF ReachInv, TypeOK, LookupState
      <4> QED BY <1>1, <2>3, <3>1, <4>1, OneLookupReach DEF joinVars
    <3> QED BY <1>4, <2>1, <2>2, <3>2, <3>3 DEF LookupReqHandle
  <2> QED BY <1>4, <2>2, <2>3 DEF LookupReqHandle
<1> QED BY <1>3, <1>4

-----------------------------------------------------------------------------
(* Joining: where tables are built, sent, stored and updated.              *)

LEMMA JoinReqHandleReach ==
    ASSUME ReachInv, TypeOK', NEW m \in requests, JoinReqHandle(m)
    PROVE  ReachInv'
<1>1. HostsGrow
  BY HostsGrowUnchanged DEF JoinReqHandle, ReachInv
<1>2. <<"join", m.new>> \in Thread
  BY RequestParts DEF JoinReqHandle, ReachInv, Thread
<1>3. Lookup(m.to, myHash[m.new]).st # "done"
  BY DEF Lookup, NoLookup
<1> QED BY <1>1, <1>2, <1>3, OneLookupReach DEF JoinReqHandle, joinVars

LEMMA JoinReqReturnReach ==
    ASSUME ReachInv, TypeOK', NEW n \in Node, JoinReqReturn(n)
    PROVE  ReachInv'
<1> DEFINE l == lookup[<<"join", n>>]
<1>1. CASE /\ lookup' = [lookup EXCEPT ![<<"join", n>>] = NoLookup]
           /\ UNCHANGED << phase, myHash, localStart, joinVars, fileVars, uiVars >>
  <2>1. HostsGrow
    BY <1>1, HostsGrowUnchanged DEF ReachInv
  <2>2. <<"join", n>> \in Thread /\ NoLookup.st # "done"
    BY DEF Thread, NoLookup
  <2> QED BY <1>1, <2>1, <2>2, OneLookupReach DEF joinVars
<1>2. CASE Crash(l.src)
  BY <1>2, CrashReach DEF JoinReqReturn, Returned, Alive
<1> QED BY <1>1, <1>2 DEF JoinReqReturn

\* The helper begins with an empty table; the host it helps is running.
LEMMA HelpJoinReqHandleReach ==
    ASSUME ReachInv, TypeOK', NEW m \in requests, HelpJoinReqHandle(m)
    PROVE  ReachInv'
<1>1. m.to \in Node /\ m.new \in Node
  BY RequestParts DEF HelpJoinReqHandle, ReachInv
<1> DEFINE h == [NoHelp EXCEPT !.pc = "entry", !.host = m.to]
           t == <<"help", m.new>>
           q == Lookup(m.to, EntryHash(m.new, 0))
<1>2. CASE /\ Alive(m.new)
           /\ help' = [help EXCEPT ![m.new] = h]
           /\ lookup' = [lookup EXCEPT ![t] = q]
           /\ UNCHANGED << phase, myHash, localStart, fingerTable, walk, fileVars, uiVars >>
  <2>1. HostsGrow
    BY <1>2, HostsGrowUnchanged DEF ReachInv
  <2>2. m.new \in Started'
    BY <1>2, <2>1, AliveStarted DEF HostsGrow
  <2>3. h.table = EmptyTable
    BY DEF NoHelp
  <2>4. t \in Thread /\ q.st # "done"
    BY <1>1 DEF Thread, Lookup, NoLookup
  <2> HIDE DEF h, t, q
  <2>5. \A n \in Node : help'[n] = IF n = m.new THEN h ELSE help[n]
    BY <1>2 DEF ReachInv, TypeOK
  <2>6. HelpReach'
    BY <2>1, <2>3, <2>5, ReachesKept DEF HelpReach, ReachInv, EmptyTable
  <2>7. HelpedStarted'
    BY <2>1, <2>2, <2>5 DEF HelpedStarted, ReachInv, HostsGrow
  <2>8. AnswersStarted'
    BY <1>2, <2>1, <2>4, AnswersKept DEF ReachInv, TypeOK
  <2> QED BY <1>2, <2>1, <2>6, <2>7, <2>8, TablesKept DEF ReachInv
<1>3. CASE Crash(m.to)
  BY <1>1, <1>3, CrashReach
<1> QED BY <1>2, <1>3 DEF HelpJoinReqHandle

\* The heart of it: the test of help_join_req_handle picks the new host itself
\* or a looked up host that is not nearer to it than the point of the entry.
LEMMA EntryHostReaches ==
    ASSUME ReachInv, NEW n \in Started, NEW i \in FingerIndex, NEW r \in Started
    PROVE  Reaches(n, i, EntryHost(n, i, r))
<1>1. myHash[n] \in Ids /\ myHash[r] \in Ids
  BY DEF Started, ReachInv, TypeOK
<1>2. EntryHash(n, i) \in Ids
  BY EntryHashType DEF Started, ReachInv
<1> DEFINE far == GetDistance(EntryHash(n, i), myHash[r])
                    > GetDistance(EntryHash(n, i), myHash[n])
<1>3. CASE far
  BY <1>1, <1>3, SelfReach DEF Reaches, EntryHost
<1>4. CASE ~far
  <2>1. GetDistance(EntryHash(n, i), myHash[r]) <= GetDistance(EntryHash(n, i), myHash[n])
    BY <1>1, <1>2, <1>4, DistanceRange
  <2>2. GetDistance(myHash[n], myHash[r]) >= 2^i
    BY <1>1, <2>1, EntryReach DEF EntryHash
  <2> QED BY <1>4, <2>2 DEF Reaches, EntryHost
<1> QED BY <1>3, <1>4

LEMMA HelpEntryReach ==
    ASSUME ReachInv, TypeOK', NEW n \in Node, HelpEntry(n)
    PROVE  ReachInv'
<1> DEFINE t == <<"help", n>>
           l == lookup[t]
<1>1. HostsGrow
  BY HostsGrowUnchanged DEF HelpEntry, ReachInv
<1>2. n \in Started /\ t \in Thread
  BY DEF HelpEntry, ReachInv, HelpedStarted, Thread
<1>3. l.succ \in Started
  BY <1>2 DEF HelpEntry, Returned, ReachInv, AnswersStarted
<1>4. PICK i \in FingerIndex : i = help[n].i
  BY HelpParts DEF ReachInv
<1>5. PICK host : host = EntryHost(n, i, l.succ)
  OBVIOUS
<1>6. PICK q : q = Lookup(l.src, IF i = M - 1 THEN FurthestPrev(n) ELSE EntryHash(n, i + 1))
  OBVIOUS
<1>7. Reaches(n, i, host)'
  BY <1>1, <1>2, <1>3, <1>5, EntryHostReaches, ReachesKept
<1>8. q.st # "done" /\ lookup' = [lookup EXCEPT ![t] = q]
  BY <1>4, <1>6 DEF HelpEntry, Lookup, NoLookup
<1>9. \A x \in Node \ {n} : help'[x] = help[x]
  BY DEF HelpEntry, ReachInv, TypeOK
<1>10. /\ help'[n].table = [help[n].table EXCEPT ![i] = host]
       /\ help'[n].pc # "idle"
  <2> DEFINE p == IF i = M - 1 THEN "furthest" ELSE "entry"
             j == IF i = M - 1 THEN i ELSE i + 1
  <2>1. help' = [help EXCEPT ![n].table[i] = host, ![n].pc = p, ![n].i = j]
    BY <1>4, <1>5 DEF HelpEntry
  <2>2. help[n] \in HelpState /\ help \in [Node -> HelpState] /\ p # "idle"
    BY DEF ReachInv, TypeOK
  <2> HIDE DEF p, j
  <2> QED BY <2>1, <2>2 DEF HelpState
<1>11. ASSUME NEW x \in Node, NEW j \in FingerIndex, help'[x].table[j] # NoNode
       PROVE  Reaches(x, j, help[x].table[j])'
  <2>1. CASE x = n /\ j = i
    <3>1. help'[x].table[j] = host
      BY <1>10, <2>1, HelpParts DEF ReachInv
    <3> QED BY <1>7, <2>1, <3>1 DEF Reaches
  <2>2. CASE ~(x = n /\ j = i)
    <3>1. help'[x].table[j] = help[x].table[j]
      BY <1>9, <1>10, <2>2, HelpParts DEF ReachInv
    <3>2. Reaches(x, j, help[x].table[j])
      BY <1>11, <3>1 DEF HelpReach, ReachInv
    <3> QED BY <1>1, <3>1, <3>2 DEF Reaches, HostsGrow
  <2> QED BY <2>1, <2>2
<1>12. HelpReach'
  BY <1>11 DEF HelpReach
<1>13. HelpedStarted'
  BY <1>1, <1>2, <1>9 DEF HelpedStarted, ReachInv, HostsGrow
<1>14. AnswersStarted'
  BY <1>1, <1>2, <1>8, AnswersKept DEF ReachInv, TypeOK
<1>15. TablesReach'
  BY <1>1, TablesKept DEF HelpEntry, ReachInv
<1> QED BY <1>12, <1>13, <1>14, <1>15 DEF ReachInv

\* The helper goes on without touching the table it has built.
LEMMA HelperGoesOn ==
    ASSUME ReachInv, HostsGrow, NEW n \in Node, NEW h,
           help' = [help EXCEPT ![n] = h], h.table = help[n].table,
           help[n].pc # "idle"
    PROVE  HelpReach' /\ HelpedStarted'
<1>1. \A x \in Node : help'[x] = IF x = n THEN h ELSE help[x]
  BY DEF ReachInv, TypeOK
<1>2. HelpReach'
  BY <1>1, ReachesKept DEF HelpReach, ReachInv
<1>3. HelpedStarted'
  BY <1>1 DEF HelpedStarted, ReachInv, HostsGrow
<1> QED BY <1>2, <1>3

LEMMA HelpFurthestReach ==
    ASSUME ReachInv, TypeOK', NEW n \in Node, HelpFurthest(n)
    PROVE  ReachInv'
<1>1. HostsGrow
  BY HostsGrowUnchanged DEF HelpFurthest, ReachInv
<1>2. help[n] \in HelpState /\ help[n].pc # "idle"
  BY DEF HelpFurthest, ReachInv, TypeOK
<1> PICK prev : help' = [help EXCEPT ![n].pc = "files", ![n].prev = prev]
  BY DEF HelpFurthest
<1> DEFINE h == [help[n] EXCEPT !.pc = "files", !.prev = prev]
<1>3. help' = [help EXCEPT ![n] = h] /\ h.table = help[n].table
  BY <1>2 DEF ReachInv, TypeOK, HelpState
<1> HIDE DEF h
<1>4. HelpReach' /\ HelpedStarted'
  BY <1>1, <1>2, <1>3, HelperGoesOn
<1>5. NoLookup.st # "done" /\ <<"help", n>> \in Thread
  BY DEF NoLookup, Thread
<1>6. AnswersStarted'
  BY <1>1, <1>5, AnswersKept DEF HelpFurthest, ReachInv, TypeOK
<1> QED BY <1>1, <1>4, <1>6, TablesKept DEF HelpFurthest, ReachInv

LEMMA HelpFilesReach ==
    ASSUME ReachInv, TypeOK', NEW n \in Node, HelpFiles(n)
    PROVE  ReachInv'
<1>1. HostsGrow
  BY HostsGrowUnchanged DEF HelpFiles, ReachInv
<1>2. help[n] \in HelpState /\ help[n].pc # "idle"
  BY DEF HelpFiles, ReachInv, TypeOK
<1>3. PICK files : help' = [help EXCEPT ![n].pc = "start", ![n].files = files]
  BY DEF HelpFiles
<1> DEFINE h == [help[n] EXCEPT !.pc = "start", !.files = files]
<1>4. help' = [help EXCEPT ![n] = h] /\ h.table = help[n].table
  BY <1>2, <1>3 DEF ReachInv, TypeOK, HelpState
<1> HIDE DEF h
<1>5. HelpReach' /\ HelpedStarted'
  BY <1>1, <1>2, <1>4, HelperGoesOn
<1> QED BY <1>1, <1>5, TablesKept, AnswersKept DEF HelpFiles, ReachInv

LEMMA HelpStartReach ==
    ASSUME ReachInv, TypeOK', NEW n \in Node, HelpStart(n)
    PROVE  ReachInv'
<1>1. HostsGrow
  BY HostsGrowUnchanged DEF HelpStart, ReachInv
<1>2. help[n] \in HelpState /\ help[n].pc # "idle"
  BY DEF HelpStart, ReachInv, TypeOK
<1> DEFINE h == [help[n] EXCEPT !.pc = "done"]
<1>3. help' = [help EXCEPT ![n] = h] /\ h.table = help[n].table
  BY <1>2 DEF HelpStart, ReachInv, TypeOK, HelpState
<1> HIDE DEF h
<1>4. HelpReach' /\ HelpedStarted'
  BY <1>1, <1>2, <1>3, HelperGoesOn
<1> QED BY <1>1, <1>4, TablesKept, AnswersKept DEF HelpStart, ReachInv

\* The new host stores the table as it was built.
LEMMA RecvRouteTableReach ==
    ASSUME ReachInv, TypeOK', NEW n \in Node, RecvRouteTable(n)
    PROVE  ReachInv'
<1>1. HostsGrow
  BY HostsGrowByOne DEF RecvRouteTable, ReachInv
<1>2. TablesReach'
  <2>1. \A x \in Node : fingerTable'[x] = IF x = n THEN help[n].table ELSE fingerTable[x]
    BY DEF RecvRouteTable, ReachInv, TypeOK
  <2> QED BY <1>1, <2>1, ReachesKept DEF TablesReach, HelpReach, ReachInv
<1> QED BY <1>1, <1>2, HelpKept, AnswersKept DEF RecvRouteTable, ReachInv

\* An entry is replaced by a new host that is not short of its point (d_min).
LEMMA HandleUpdateRouteReqReach ==
    ASSUME ReachInv, TypeOK', NEW m \in requests, HandleUpdateRouteReq(m)
    PROVE  ReachInv'
<1>1. m.to \in Node /\ m.new \in Node /\ m.to \in Started
  BY RequestParts, AliveStarted DEF HandleUpdateRouteReq, ReachInv
<1>2. CASE /\ Alive(m.new)
           /\ fingerTable' = [fingerTable EXCEPT ![m.to] = UpdatedTable(m.to, m.new)]
           /\ UNCHANGED << phase, myHash, localStart, lookup, help, walk, fileVars, uiVars >>
  <2>1. HostsGrow
    BY <1>2, HostsGrowUnchanged DEF ReachInv
  <2>2. m.new \in Started
    BY <1>2, AliveStarted
  <2>3. ASSUME NEW x \in Node, NEW i \in FingerIndex, fingerTable'[x][i] # NoNode
        PROVE  Reaches(x, i, fingerTable[x][i])'
    <3>1. CASE fingerTable'[x][i] = fingerTable[x][i]
      <4>1. Reaches(x, i, fingerTable[x][i])
        BY <2>3, <3>1 DEF ReachInv, TablesReach
      <4> QED BY <2>1, <3>1, <4>1 DEF Reaches, HostsGrow
    <3>2. CASE fingerTable'[x][i] # fingerTable[x][i]
      <4>1. x = m.to
        BY <1>2, <3>2 DEF ReachInv, TypeOK
      <4>2. fingerTable'[x][i] = UpdatedTable(x, m.new)[i]
        BY <1>1, <1>2, <4>1 DEF ReachInv, TypeOK
      <4>3. fingerTable'[x][i] = m.new /\ GetDistance(myHash[x], myHash[m.new]) >= 2^i
        BY <3>2, <4>2 DEF UpdatedTable
      <4> QED BY <1>1, <2>1, <2>2, <4>1, <4>3 DEF Reaches, HostsGrow
    <3> QED BY <3>1, <3>2
  <2>4. TablesReach'
    BY <2>3 DEF TablesReach
  <2> QED BY <1>2, <2>1, <2>4, HelpKept, AnswersKept DEF ReachInv
<1>3. CASE Crash(m.to)
  BY <1>1, <1>3, CrashReach
<1> QED BY <1>2, <1>3 DEF HandleUpdateRouteReq

\* The other steps of a join touch neither tables nor lookups.
LEMMA RestOfJoinReach ==
    ASSUME ReachInv, TypeOK',
           \/ \E m \in requests : WalkRecv(m)
           \/ \E n \in Node : \/ HelpPipeBroken(n) \/ RecvHelpJoin(n) \/ RecvLookupNode(n)
                              \/ WalkSend(n) \/ RecvFileTable(n) \/ JoinFails(n)
    PROVE  ReachInv'
<1>1. ASSUME NEW m \in requests, WalkRecv(m)
      PROVE  ReachInv'
  <2>1. HostsGrow
    BY <1>1, HostsGrowByPhase DEF WalkRecv, ReachInv, TypeOK
  <2> QED BY <1>1, <2>1, NoLookupReach DEF WalkRecv
<1>2. ASSUME NEW n \in Node, HelpPipeBroken(n) \/ JoinFails(n)
      PROVE  ReachInv'
  BY <1>2, CrashReach DEF HelpPipeBroken, JoinFails, Alive
<1>3. ASSUME NEW n \in Node, RecvHelpJoin(n) \/ RecvLookupNode(n) \/ RecvFileTable(n)
      PROVE  ReachInv'
  <2>1. HostsGrow
    BY <1>3, HostsGrowByOne DEF RecvHelpJoin, RecvLookupNode, RecvFileTable, ReachInv
  <2> QED BY <1>3, <2>1, NoLookupReach
          DEF RecvHelpJoin, RecvLookupNode, RecvFileTable, joinVars
<1>4. ASSUME NEW n \in Node, WalkSend(n)
      PROVE  ReachInv'
  <2>1. CASE /\ phase' = [phase EXCEPT ![n] = "wait"]
             /\ UNCHANGED << myHash, localStart, lookup, joinVars, fileVars, uiVars >>
    <3>1. HostsGrow
      BY <2>1, HostsGrowByOne DEF ReachInv
    <3> QED BY <2>1, <3>1, NoLookupReach DEF joinVars
  <2>2. CASE Crash(n)
    BY <2>2, CrashReach
  <2> QED BY <1>4, <2>1, <2>2 DEF WalkSend
<1> QED BY <1>1, <1>2, <1>3, <1>4

LEMMA JoinStepReach ==
    ASSUME ReachInv, JoinStep
    PROVE  ReachInv'
<1>1. TypeOK'
  BY NextType DEF ReachInv, Next, ThreadStep
<1>2. CASE \E m \in requests : JoinReqHandle(m) \/ HelpJoinReqHandle(m)
                                 \/ HandleUpdateRouteReq(m)
  BY <1>1, <1>2, JoinReqHandleReach, HelpJoinReqHandleReach, HandleUpdateRouteReqReach
<1>3. CASE \E n \in Node : JoinReqReturn(n) \/ HelpEntry(n) \/ HelpFurthest(n)
  BY <1>1, <1>3, JoinReqReturnReach, HelpEntryReach, HelpFurthestReach
<1>4. CASE \E n \in Node : HelpFiles(n) \/ HelpStart(n) \/ RecvRouteTable(n)
  BY <1>1, <1>4, HelpFilesReach, HelpStartReach, RecvRouteTableReach
<1> QED BY <1>1, <1>2, <1>3, <1>4, RestOfJoinReach DEF JoinStep

-----------------------------------------------------------------------------
(* The shared index does not touch the tables.                             *)

LEMMA FileStepReach ==
    ASSUME ReachInv, FileStep
    PROVE  ReachInv'
<1>1. TypeOK'
  BY NextType DEF ReachInv, Next, ThreadStep
<1>2. ASSUME NEW n \in Node, CommandEnds(n),
             UNCHANGED << phase, myHash, joinVars >>
      PROVE  ReachInv'
  <2>1. HostsGrow
    BY <1>2, HostsGrowUnchanged DEF ReachInv
  <2>2. NoLookup.st # "done" /\ <<"ui", n>> \in Thread
    BY DEF NoLookup, Thread
  <2> QED BY <1>1, <1>2, <2>1, <2>2, OneLookupReach DEF CommandEnds, joinVars
<1>3. ASSUME NEW n \in Node, AddReturn(n) \/ DeleteReturn(n) \/ SearchReturn(n)
      PROVE  ReachInv'
  BY <1>2, <1>3, CrashReach DEF AddReturn, DeleteReturn, SearchReturn
<1>4. ASSUME NEW m \in requests, AddFileReqHandle(m) \/ DelFileReqHandle(m)
      PROVE  ReachInv'
  <2>1. CASE UNCHANGED << phase, myHash, lookup, joinVars >>
    BY <1>1, <2>1, HostsGrowUnchanged, NoLookupReach DEF ReachInv, joinVars
  <2>2. CASE Crash(m.to) /\ m.to \in Node
    BY <2>2, CrashReach
  <2> QED BY <1>4, <2>1, <2>2 DEF AddFileReqHandle, DelFileReqHandle, Alive
<1> QED BY <1>3, <1>4 DEF FileStep

-----------------------------------------------------------------------------
LEMMA StutterReach ==
    ASSUME ReachInv, UNCHANGED vars
    PROVE  ReachInv'
<1>1. TypeOK'
  BY StutterType DEF ReachInv
<1> QED BY <1>1, HostsGrowUnchanged, NoLookupReach DEF ReachInv, vars

LEMMA NextReach ==
    ASSUME ReachInv, [Next]_vars
    PROVE  ReachInv'
BY StartHostReach, UserStepReach, LookupStepReach, JoinStepReach, FileStepReach,
   StutterReach DEF Next, ThreadStep

\* Entry i of a finger table, once set, names a host at least 2^i clockwise of
\* its holder (help_join_req_handle, handle_update_route_req): on any number of
\* hosts, wherever they lie, whatever joins, lookups and deaths overlap.
THEOREM FingersReach == Spec => []FingerReach
<1>1. Init => ReachInv
  BY InitReach
<1>2. ReachInv /\ [Next]_vars => ReachInv'
  BY NextReach
<1>3. ReachInv => FingerReach
  BY DEF ReachInv, TablesReach, Reaches, FingerReach
<1> QED BY <1>1, <1>2, <1>3, PTL DEF Spec

-----------------------------------------------------------------------------
(* Nobody is routed to who could not route on.                             *)


\* x has helped a host to join, at the pace at which it may have been asked too
\* early.
HasHelped(x) == Pacing = "free" /\ \E y \in Node : help[y].host = x

\* x has an entry in its finger table, or that excuse.
MayBeNamed(x) ==
    x \in Node /\ ((\E i \in FingerIndex : fingerTable[x][i] # NoNode) \/ HasHelped(x))

\* The lookup for a JoinRequest, when a host without a table may have got it.
Early(t) == Pacing = "free" /\ t[1] = "join"

TablesReady ==
    \A n \in Node, i \in FingerIndex :
        fingerTable[n][i] # NoNode => MayBeNamed(fingerTable[n][i])

\* A host has stored its table before it begins its walk.
PhasesReady ==
    \A n \in Node : phase[n] \in {"prev", "walk", "wait", "files", "up"} => MayBeNamed(n)

\* Who is asked to let a host join can route, and so can who is to be entered.
RequestsReady ==
    \A m \in requests :
        /\ m.type \in {"join", "help"} => Pacing = "free" \/ MayBeNamed(m.to)
        /\ m.type = "update" => MayBeNamed(m.new)

\* What such hosts make, forward and answer: one lookup, and all of them.
LookupReady(l) == /\ l.st # "idle" => MayBeNamed(l.src)
                  /\ l.st = "fwd" => MayBeNamed(l.at)
                  /\ l.st = "done" => MayBeNamed(l.succ)

LookupsReady == \A t \in Thread : Early(t) \/ LookupReady(lookup[t])

\* The helper enters such hosts and the new one, and leaves no entry out.
HelpReady ==
    \A n \in Node, i \in FingerIndex :
        /\ help[n].pc = "idle" => help[n].host = NoNode
        /\ help[n].table[i] \notin {n, NoNode} => MayBeNamed(help[n].table[i])
        /\ help[n].pc \notin {"idle", "entry"} => help[n].table[i] # NoNode
        /\ help[n].pc = "entry" /\ i < help[n].i => help[n].table[i] # NoNode

ReadyInv ==
    TypeOK /\ TablesReady /\ PhasesReady /\ RequestsReady /\ LookupsReady /\ HelpReady

\* A host that waits for help is asked for, or looked up, once, and is not helped
\* yet; a host that is being helped is joining, or has died of it.
AskedOnce ==
    /\ \A m \in requests : m.type \in {"join", "help"} =>
          /\ lookup[<<"join", m.new>>].st = "idle"
          /\ help[m.new].pc = "idle" /\ phase[m.new] \in {"helpjoin", "dead"}
          /\ \A o \in requests : o.type \in {"join", "help"} /\ o.new = m.new => o = m
    /\ \A n \in Node : lookup[<<"join", n>>].st # "idle" =>
          help[n].pc = "idle" /\ phase[n] \in {"helpjoin", "dead"}
    /\ \A n \in Node : help[n].pc # "idle" => phase[n] # "off"
    /\ \A n \in Node : help[n].pc \in {"entry", "furthest", "files"} =>
          phase[n] \in Joining \cup {"dead"}

\* What a menu waits for it has asked itself.
MenuLookups == \A n \in Node : lookup[<<"ui", n>>].st # "idle" => lookup[<<"ui", n>>].src = n

-----------------------------------------------------------------------------
(* Tables.                                                                 *)

\* An empty table is one without an entry.
LEMMA EmptyMeans ==
    ASSUME TypeOK, NEW x \in Node
    PROVE  fingerTable[x] # EmptyTable <=> \E i \in FingerIndex : fingerTable[x][i] # NoNode
<1>1. fingerTable[x] = [i \in FingerIndex |-> fingerTable[x][i]]
  BY DEF TypeOK
<1> QED BY <1>1 DEF EmptyTable

\* Tables are not taken away.
Grows == \A x \in Node : MayBeNamed(x) => MayBeNamed(x)'

\* The steps that matter to it.
LEMMA TablesGrowWriters ==
    ASSUME [Next]_vars
    PROVE  \/ UNCHANGED fingerTable
           \/ \E h \in Positions : InitialChord(h)
           \/ \E m \in requests : HandleUpdateRouteReq(m)
           \/ \E n \in Node : RecvRouteTable(n)
<1>1. CASE StartHost
  BY <1>1 DEF StartHost, JoinChord, Crash, CommandEnds, joinVars
<1>2. CASE UserStep \/ LookupStep \/ FileStep
  BY <1>2 DEF UserStep, LookupStep, FileStep, EnterCommand, UserExit, LookupCall,
     LookupReqHandle, AddReturn, DeleteReturn, SearchReturn, AddFileReqHandle, DelFileReqHandle,
     Crash, CommandEnds, joinVars
<1>3. CASE JoinStep
  BY <1>3 DEF JoinStep, JoinReqHandle, HelpJoinReqHandle, WalkRecv, JoinReqReturn, HelpEntry,
     HelpFurthest, HelpFiles, HelpStart, HelpPipeBroken, RecvHelpJoin, RecvLookupNode, WalkSend,
     RecvFileTable, JoinFails, Crash, CommandEnds, joinVars
<1>4. CASE UNCHANGED vars
  BY <1>4 DEF vars, joinVars, fileVars
<1> QED BY <1>1, <1>2, <1>3, <1>4 DEF Next, ThreadStep

\* Requests about a join name hosts.
LEMMA RequestHosts ==
    ASSUME TypeOK, NEW m \in requests
    PROVE  /\ m.type \in {"join", "help", "update"} => m.to \in Node /\ m.new \in Node
BY RequestParts

\* The steps that matter to it.
LEMMA HelpReadyWriters ==
    ASSUME [Next]_vars
    PROVE  \/ UNCHANGED help
           \/ \E m \in requests : HelpJoinReqHandle(m)
           \/ \E n \in Node : HelpEntry(n) \/ HelpFurthest(n) \/ HelpFiles(n) \/ HelpStart(n)
<1>1. CASE StartHost
  BY <1>1 DEF StartHost, InitialChord, JoinChord, Crash, CommandEnds, joinVars
<1>2. CASE UserStep \/ LookupStep \/ FileStep
  BY <1>2 DEF UserStep, LookupStep, FileStep, EnterCommand, UserExit, LookupCall,
     LookupReqHandle, AddReturn, DeleteReturn, SearchReturn, AddFileReqHandle, DelFileReqHandle,
     Crash, CommandEnds, joinVars
<1>3. CASE JoinStep
  BY <1>3 DEF JoinStep, JoinReqHandle, HandleUpdateRouteReq, WalkRecv, JoinReqReturn,
     HelpPipeBroken, RecvHelpJoin, RecvRouteTable, RecvLookupNode, WalkSend, RecvFileTable,
     JoinFails, Crash, CommandEnds, joinVars
<1>4. CASE UNCHANGED vars
  BY <1>4 DEF vars, joinVars, fileVars
<1> QED BY <1>1, <1>2, <1>3, <1>4 DEF Next, ThreadStep

\* A host is helped once, and it stays known by whom.
LEMMA HelperKept ==
    ASSUME TypeOK, HelpReady, AskedOnce, [Next]_vars
    PROVE  \A n \in Node : help[n].host # NoNode => help'[n].host = help[n].host
<1>1. ASSUME NEW m \in requests, HelpJoinReqHandle(m)
      PROVE  \A n \in Node : help[n].host # NoNode => help'[n].host = help[n].host
  <2>1. help[m.new].host = NoNode
    BY <1>1, RequestHosts, Constants DEF HelpJoinReqHandle, AskedOnce, HelpReady
  <2> QED BY <1>1, <2>1 DEF HelpJoinReqHandle, Crash, joinVars, TypeOK
<1>2. ASSUME NEW n \in Node, HelpEntry(n) PROVE \A x \in Node : help'[x].host = help[x].host
  <2> DEFINE table == [help[n].table EXCEPT ![help[n].i] =
                           EntryHost(n, help[n].i, lookup[<<"help", n>>].succ)]
             pc    == IF help[n].i = M - 1 THEN "furthest" ELSE "entry"
             i     == IF help[n].i = M - 1 THEN help[n].i ELSE help[n].i + 1
  <2>1. help' = [help EXCEPT ![n] = [help[n] EXCEPT !.table = table, !.pc = pc, !.i = i]]
    BY <1>2 DEF HelpEntry, TypeOK
  <2> HIDE DEF table, pc, i
  <2> QED BY <2>1 DEF TypeOK, HelpState
<1>3. ASSUME NEW n \in Node, HelpFurthest(n) PROVE \A x \in Node : help'[x].host = help[x].host
  BY <1>3 DEF HelpFurthest, TypeOK, HelpState
<1>4. ASSUME NEW n \in Node, HelpFiles(n) PROVE \A x \in Node : help'[x].host = help[x].host
  BY <1>4 DEF HelpFiles, TypeOK, HelpState
<1>5. ASSUME NEW n \in Node, HelpStart(n) PROVE \A x \in Node : help'[x].host = help[x].host
  BY <1>5 DEF HelpStart, TypeOK, HelpState
<1> QED BY <1>1, <1>2, <1>3, <1>4, <1>5, HelpReadyWriters

\* So is the excuse kept.
LEMMA HelpedGrows ==
    ASSUME TypeOK, HelpReady, AskedOnce, [Next]_vars
    PROVE  \A x \in Node : HasHelped(x) => HasHelped(x)'
<1> SUFFICES ASSUME NEW x \in Node, HasHelped(x) PROVE HasHelped(x)'
  OBVIOUS
<1>1. Pacing = "free" /\ x # NoNode
  BY Constants DEF HasHelped
<1>2. PICK y \in Node : help[y].host = x
  BY DEF HasHelped
<1>3. help'[y].host = x
  BY <1>1, <1>2, HelperKept
<1> QED BY <1>1, <1>3 DEF HasHelped

\* Who has a table keeps one.
LEMMA TablesGrowStep ==
    ASSUME TypeOK, HelpReady, AskedOnce, [Next]_vars
    PROVE  Grows
<1> USE HelpedGrows DEF Grows
<1>1. ASSUME NEW h \in Positions, InitialChord(h) PROVE Grows
  BY <1>1, Constants DEF InitialChord, MayBeNamed, TypeOK
<1>2. ASSUME NEW m \in requests, HandleUpdateRouteReq(m) PROVE Grows
  <2>1. CASE fingerTable' = [fingerTable EXCEPT ![m.to] = UpdatedTable(m.to, m.new)]
    <3>1. m.new # NoNode
      BY <1>2, RequestParts, Constants DEF HandleUpdateRouteReq
    <3>2. \A x \in Node, i \in FingerIndex : fingerTable'[x][i] \in {fingerTable[x][i], m.new}
      BY <2>1 DEF TypeOK, UpdatedTable
    <3> QED BY <3>1, <3>2 DEF MayBeNamed
  <2>2. CASE fingerTable' = fingerTable
    BY <2>2 DEF MayBeNamed
  <2> QED BY <1>2, <2>1, <2>2 DEF HandleUpdateRouteReq, Crash, joinVars
<1>3. ASSUME NEW n \in Node, RecvRouteTable(n) PROVE Grows
  <2>1. \A x \in Node : fingerTable'[x] = IF x = n THEN help[n].table ELSE fingerTable[x]
    BY <1>3 DEF RecvRouteTable, TypeOK
  <2>2. help[n].table[0] # NoNode /\ 0 \in FingerIndex
    BY <1>3, Constants DEF RecvRouteTable, HelpReady
  <2> QED BY <2>1, <2>2 DEF MayBeNamed
<1>4. CASE UNCHANGED fingerTable
  BY <1>4 DEF MayBeNamed
<1> QED BY <1>1, <1>2, <1>3, <1>4, TablesGrowWriters DEF ReadyInv

\* The end of a process moves no host about.
LEMMA CrashReady ==
    ASSUME ReadyInv, NEW x, Crash(x)
    PROVE  TablesReady' /\ PhasesReady' /\ RequestsReady' /\ LookupsReady' /\ HelpReady'
<1>1. \A y : MayBeNamed(y)' <=> MayBeNamed(y)
  BY DEF Crash, MayBeNamed, HasHelped, joinVars
<1> QED BY <1>1 DEF Crash, joinVars, ReadyInv, TypeOK, TablesReady, PhasesReady,
             RequestsReady, LookupsReady, LookupReady, HelpReady

\* The steps that matter to it.
LEMMA TablesReadyWriters ==
    ASSUME [Next]_vars
    PROVE  \/ UNCHANGED fingerTable
           \/ \E h \in Positions : InitialChord(h)
           \/ \E m \in requests : HandleUpdateRouteReq(m)
           \/ \E n \in Node : RecvRouteTable(n)
<1>1. CASE StartHost
  BY <1>1 DEF StartHost, JoinChord, Crash, CommandEnds, joinVars
<1>2. CASE UserStep \/ LookupStep \/ FileStep
  BY <1>2 DEF UserStep, LookupStep, FileStep, EnterCommand, UserExit, LookupCall,
     LookupReqHandle, AddReturn, DeleteReturn, SearchReturn, AddFileReqHandle, DelFileReqHandle,
     Crash, CommandEnds, joinVars
<1>3. CASE JoinStep
  BY <1>3 DEF JoinStep, JoinReqHandle, HelpJoinReqHandle, WalkRecv, JoinReqReturn, HelpEntry,
     HelpFurthest, HelpFiles, HelpStart, HelpPipeBroken, RecvHelpJoin, RecvLookupNode, WalkSend,
     RecvFileTable, JoinFails, Crash, CommandEnds, joinVars
<1>4. CASE UNCHANGED vars
  BY <1>4 DEF vars, joinVars, fileVars
<1> QED BY <1>1, <1>2, <1>3, <1>4 DEF Next, ThreadStep

\* Whoever is entered in a table has one.
LEMMA TablesReadyStep ==
    ASSUME ReadyInv, Grows, [Next]_vars
    PROVE  TablesReady'
<1> USE DEF ReadyInv
<1>1. ASSUME NEW h \in Positions, InitialChord(h) PROVE TablesReady'
  <2>1. \A x \in Node : fingerTable'[x] = IF x = First THEN [i \in FingerIndex |-> First] ELSE fingerTable[x]
    BY <1>1 DEF InitialChord, TypeOK
  <2>2. MayBeNamed(First)'
    BY <2>1, Constants DEF MayBeNamed
  <2>3. ASSUME NEW x \in Node, NEW i \in FingerIndex, NEW f,
               f = fingerTable'[x][i], f # NoNode
        PROVE  MayBeNamed(f)'
    <3>1. CASE x = First
      BY <3>1, <2>1, <2>2, <2>3
    <3>2. CASE x # First
      <4>1. MayBeNamed(f)
        BY <3>2, <2>1, <2>3 DEF TablesReady
      <4> QED BY <4>1 DEF Grows, MayBeNamed
    <3> QED BY <3>1, <3>2
  <2> QED BY <2>3 DEF TablesReady
<1>2. ASSUME NEW m \in requests, HandleUpdateRouteReq(m) PROVE TablesReady'
  <2>1. CASE fingerTable' = [fingerTable EXCEPT ![m.to] = UpdatedTable(m.to, m.new)]
    <3>1. MayBeNamed(m.new)
      BY <1>2 DEF HandleUpdateRouteReq, RequestsReady
    <3>2. \A x \in Node, i \in FingerIndex : fingerTable'[x][i] \in {fingerTable[x][i], m.new}
      BY <2>1 DEF TypeOK, UpdatedTable
    <3>3. \A x \in Node, i \in FingerIndex :
              fingerTable'[x][i] # NoNode => MayBeNamed(fingerTable'[x][i])
      BY <3>1, <3>2 DEF TablesReady
    <3> QED BY <3>3 DEF TablesReady, Grows, MayBeNamed
  <2>2. CASE Crash(m.to)
    BY <2>2, CrashReady
  <2> QED BY <1>2, <2>1, <2>2 DEF HandleUpdateRouteReq
<1>3. ASSUME NEW n \in Node, RecvRouteTable(n) PROVE TablesReady'
  <2>1. \A x \in Node : fingerTable'[x] = IF x = n THEN help[n].table ELSE fingerTable[x]
    BY <1>3 DEF RecvRouteTable, TypeOK
  <2>2. MayBeNamed(n)'
    <3>1. help[n].table[0] # NoNode /\ 0 \in FingerIndex
      BY <1>3, Constants DEF RecvRouteTable, HelpReady
    <3> QED BY <2>1, <3>1 DEF MayBeNamed
  <2>3. ASSUME NEW x \in Node, NEW i \in FingerIndex, NEW f,
               f = fingerTable'[x][i], f # NoNode
        PROVE  MayBeNamed(f)'
    <3>1. CASE f = n
      BY <3>1, <2>2
    <3>2. CASE f # n
      <4>1. MayBeNamed(f)
        BY <3>2, <2>1, <2>3 DEF TablesReady, HelpReady
      <4> QED BY <4>1 DEF Grows, MayBeNamed
    <3> QED BY <3>1, <3>2
  <2> QED BY <2>3 DEF TablesReady
<1>4. CASE UNCHANGED fingerTable
  BY <1>4 DEF TablesReady, Grows, MayBeNamed
<1> QED BY <1>1, <1>2, <1>3, <1>4, TablesReadyWriters DEF ReadyInv

\* The steps that matter to it.
LEMMA PhasesReadyWriters ==
    ASSUME [Next]_vars
    PROVE  \/ UNCHANGED phase \/ \E x : phase' = [phase EXCEPT ![x] = "dead"]
           \/ \E h \in Positions : InitialChord(h)
           \/ \E n, e \in Node, h \in FreePositions : JoinChord(n, e, h)
           \/ \E m \in requests : WalkRecv(m)
           \/ \E n \in Node : \/ RecvHelpJoin(n) \/ RecvRouteTable(n) \/ RecvLookupNode(n)
                              \/ WalkSend(n) \/ RecvFileTable(n)
<1>1. CASE StartHost
  BY <1>1 DEF StartHost, Crash, CommandEnds, joinVars
<1>2. CASE UserStep \/ LookupStep \/ FileStep
  BY <1>2 DEF UserStep, LookupStep, FileStep, EnterCommand, UserExit, LookupCall,
     LookupReqHandle, AddReturn, DeleteReturn, SearchReturn, AddFileReqHandle, DelFileReqHandle,
     Crash, CommandEnds, joinVars
<1>3. CASE JoinStep
  BY <1>3 DEF JoinStep, JoinReqHandle, HelpJoinReqHandle, HandleUpdateRouteReq, JoinReqReturn,
     HelpEntry, HelpFurthest, HelpFiles, HelpStart, HelpPipeBroken, JoinFails, Crash,
     CommandEnds, joinVars
<1>4. CASE UNCHANGED vars
  BY <1>4 DEF vars, joinVars, fileVars
<1> QED BY <1>1, <1>2, <1>3, <1>4 DEF Next, ThreadStep

\* A host has its table before it goes on.
LEMMA PhasesReadyStep ==
    ASSUME ReadyInv, Grows, [Next]_vars
    PROVE  PhasesReady'
<1> USE DEF ReadyInv
<1>1. ASSUME NEW h \in Positions, InitialChord(h) PROVE PhasesReady'
  <2>1. MayBeNamed(First)'
    BY <1>1, Constants DEF InitialChord, MayBeNamed, TypeOK
  <2>2. \A x \in Node : phase'[x] = phase[x] \/ x = First
    BY <1>1 DEF InitialChord, TypeOK
  <2> QED BY <2>1, <2>2 DEF PhasesReady, Grows
<1>2. ASSUME NEW n \in Node, NEW e \in Node, NEW h \in FreePositions, JoinChord(n, e, h)
      PROVE  PhasesReady'
  <2>1. \A x \in Node : phase'[x] = phase[x] \/ phase'[x] \in {"helpjoin", "table"}
    BY <1>2 DEF JoinChord, TypeOK
  <2> QED BY <2>1 DEF PhasesReady, Grows
<1>3. ASSUME NEW m \in requests, WalkRecv(m) PROVE PhasesReady'
  <2>1. \A x \in Node : \/ phase'[x] \in {phase[x], "dead"}
                        \/ phase[x] \in {"prev", "walk", "wait", "files"}
    BY <1>3 DEF WalkRecv, Crash, TypeOK
  <2> QED BY <2>1 DEF PhasesReady, Grows
<1>4. ASSUME NEW n \in Node, RecvHelpJoin(n) PROVE PhasesReady'
  <2>1. \A x \in Node : phase'[x] = phase[x] \/ phase'[x] \in {"helpjoin", "table"}
    BY <1>4 DEF RecvHelpJoin, TypeOK
  <2> QED BY <2>1 DEF PhasesReady, Grows
<1>5. ASSUME NEW n \in Node, RecvRouteTable(n) PROVE PhasesReady'
  <2>1. MayBeNamed(n)'
    <3>1. help[n].table[0] # NoNode /\ 0 \in FingerIndex
      BY <1>5, Constants DEF RecvRouteTable, HelpReady
    <3> QED BY <1>5, <3>1 DEF RecvRouteTable, MayBeNamed, TypeOK
  <2>2. \A x \in Node : phase'[x] = phase[x] \/ x = n
    BY <1>5 DEF RecvRouteTable, TypeOK
  <2> QED BY <2>1, <2>2 DEF PhasesReady, Grows
<1>6. ASSUME NEW n \in Node, RecvLookupNode(n) PROVE PhasesReady'
  <2>1. \A x \in Node : \/ phase'[x] \in {phase[x], "dead"}
                        \/ phase[x] \in {"prev", "walk", "wait", "files"}
    BY <1>6 DEF RecvLookupNode, Crash, TypeOK
  <2> QED BY <2>1 DEF PhasesReady, Grows
<1>7. ASSUME NEW n \in Node, WalkSend(n) PROVE PhasesReady'
  <2>1. \A x \in Node : \/ phase'[x] \in {phase[x], "dead"}
                        \/ phase[x] \in {"prev", "walk", "wait", "files"}
    BY <1>7 DEF WalkSend, Crash, TypeOK
  <2> QED BY <2>1 DEF PhasesReady, Grows
<1>8. ASSUME NEW n \in Node, RecvFileTable(n) PROVE PhasesReady'
  <2>1. \A x \in Node : \/ phase'[x] \in {phase[x], "dead"}
                        \/ phase[x] \in {"prev", "walk", "wait", "files"}
    BY <1>8 DEF RecvFileTable, Crash, TypeOK
  <2> QED BY <2>1 DEF PhasesReady, Grows
<1>9. CASE UNCHANGED phase \/ \E x : phase' = [phase EXCEPT ![x] = "dead"]
  <2>1. \A x \in Node : phase'[x] \in {phase[x], "dead"}
    BY <1>9 DEF TypeOK
  <2> QED BY <2>1 DEF PhasesReady, Grows
<1> QED BY <1>1, <1>2, <1>3, <1>4, <1>5, <1>6, <1>7, <1>8, <1>9, PhasesReadyWriters DEF ReadyInv

\* When nobody is joining, the contact node of a new host has joined.
LEMMA ContactJoined ==
    ASSUME TypeOK, NEW e, Alive(e), NoJoin
    PROVE  e \in Up
BY DEF Alive, NoJoin, Up, TypeOK, Phase, Joining

\* The steps that matter to it.
LEMMA RequestsReadyWriters ==
    ASSUME [Next]_vars
    PROVE  \/ requests' \subseteq requests
           \/ \E n, e \in Node, h \in FreePositions : JoinChord(n, e, h)
           \/ \E m \in requests : HandleUpdateRouteReq(m)
           \/ \E n \in Node : JoinReqReturn(n) \/ WalkSend(n) \/ AddReturn(n) \/ DeleteReturn(n)
<1>1. CASE StartHost
  BY <1>1 DEF StartHost, InitialChord, Crash, CommandEnds, joinVars, uiVars, fileVars
<1>2. CASE UserStep \/ LookupStep \/ FileStep
  BY <1>2 DEF UserStep, LookupStep, FileStep, EnterCommand, UserExit, LookupCall,
     LookupReqHandle, SearchReturn, AddFileReqHandle, DelFileReqHandle, Crash, CommandEnds,
     joinVars, uiVars, fileVars
<1>3. CASE JoinStep
  BY <1>3 DEF JoinStep, JoinReqHandle, HelpJoinReqHandle, WalkRecv, HelpEntry, HelpFurthest,
     HelpFiles, HelpStart, HelpPipeBroken, RecvHelpJoin, RecvRouteTable, RecvLookupNode,
     RecvFileTable, JoinFails, Crash, CommandEnds, joinVars, uiVars, fileVars
<1>4. CASE UNCHANGED vars
  BY <1>4 DEF vars, joinVars, fileVars
<1> QED BY <1>1, <1>2, <1>3, <1>4 DEF Next, ThreadStep

\* Requests about a join go to hosts with tables.
LEMMA RequestsReadyStep ==
    ASSUME ReadyInv, Grows, [Next]_vars
    PROVE  RequestsReady'
<1> USE DEF ReadyInv
<1>1. ASSUME NEW n \in Node, NEW e \in Node, NEW h \in FreePositions, JoinChord(n, e, h)
      PROVE  RequestsReady'
  <2>1. Alive(e) /\ (Pacing = "free" \/ NoJoin)
    BY <1>1, UserAssumption DEF JoinChord, Ready, Quiet
  <2>2. Pacing = "free" \/ MayBeNamed(e)
    BY <2>1, ContactJoined DEF Up, PhasesReady
  <2> QED BY <1>1, <2>2, RequestHosts DEF JoinChord, RequestsReady, Grows
<1>2. ASSUME NEW m \in requests, HandleUpdateRouteReq(m) PROVE RequestsReady'
  BY <1>2, CrashReady, RequestHosts DEF HandleUpdateRouteReq, RequestsReady, Grows
<1>3. ASSUME NEW n \in Node, JoinReqReturn(n) PROVE RequestsReady'
  <2>1. CASE Crash(lookup[<<"join", n>>].src)
    BY <2>1, CrashReady
  <2>2. CASE requests' = requests \cup
                 {[type |-> "help", to |-> lookup[<<"join", n>>].succ, new |-> n]}
    <3>1. Pacing = "free" \/ MayBeNamed(lookup[<<"join", n>>].succ)
      BY <1>3 DEF JoinReqReturn, Returned, LookupsReady, LookupReady, Early, Thread
    <3> QED BY <2>2, <3>1, RequestHosts DEF RequestsReady, Grows, MayBeNamed
  <2> QED BY <1>3, <2>1, <2>2 DEF JoinReqReturn
<1>4. ASSUME NEW n \in Node, WalkSend(n) PROVE RequestsReady'
  <2>1. MayBeNamed(n)
    BY <1>4 DEF WalkSend, PhasesReady
  <2> QED BY <1>4, <2>1, CrashReady, RequestHosts DEF WalkSend, RequestsReady, Grows
<1>5. ASSUME NEW n \in Node, AddReturn(n) PROVE RequestsReady'
  BY <1>5, CrashReady, RequestHosts DEF AddReturn, RequestsReady, Grows
<1>6. ASSUME NEW n \in Node, DeleteReturn(n) PROVE RequestsReady'
  BY <1>6, CrashReady, RequestHosts DEF DeleteReturn, RequestsReady, Grows
<1>7. CASE requests' \subseteq requests
  BY <1>7, RequestHosts DEF RequestsReady, Grows
<1> QED BY <1>1, <1>2, <1>3, <1>4, <1>5, <1>6, <1>7, RequestsReadyWriters DEF ReadyInv

\* One lookup goes on.
LEMMA OneLookupReady ==
    ASSUME ReadyInv, Grows, NEW t \in Thread, NEW l, Early(t) \/ LookupReady(l),
           lookup' = [lookup EXCEPT ![t] = l] \/ lookup' = lookup
    PROVE  LookupsReady'
<1>1. \A u \in Thread : (u = t /\ lookup'[u] = l) \/ lookup'[u] = lookup[u]
  BY DEF ReadyInv, TypeOK
<1>2. \A u \in Thread : Early(u) \/ LookupReady(lookup'[u])
  BY <1>1 DEF LookupReady, LookupsReady, ReadyInv
<1> QED BY <1>2 DEF LookupReady, LookupsReady, Early, Grows, MayBeNamed

\* A host that answers is one with a table.
LEMMA AnswerReady ==
    ASSUME NEW l \in LookupState, NEW x, MayBeNamed(x), MayBeNamed(l.src)
    PROVE  LookupReady(Answer(l, x))
BY DEF LookupReady, Answer, LookupState

\* So is the next on the way, if there is one.
LEMMA HopReady ==
    ASSUME ReadyInv, NEW x, MayBeNamed(x), NEW hash \in Ids, NextHop(x, hash) \in Node
    PROVE  MayBeNamed(NextHop(x, hash))
<1>1. x \in Node /\ myHash[x] \in Ids
  BY DEF MayBeNamed, ReadyInv, TypeOK
<1>2. CASE hash = myHash[x]
  BY <1>2 DEF NextHop
<1>3. CASE hash # myHash[x]
  <2>1. HopIndex(myHash[x], hash) \in FingerIndex
    BY <1>1, <1>3, HopRange
  <2> QED BY <1>1, <1>3, <2>1, Constants DEF NextHop, TablesReady, ReadyInv
<1> QED BY <1>2, <1>3

\* The steps that matter to it.
LEMMA LookupsReadyWriters ==
    ASSUME [Next]_vars
    PROVE  \/ UNCHANGED lookup
           \/ \E n \in Node, op \in Commands, c \in Key : EnterCommand(n, op, c)
           \/ \E t \in Thread : LookupCall(t) \/ LookupReqHandle(t)
           \/ \E m \in requests : JoinReqHandle(m) \/ HelpJoinReqHandle(m)
           \/ \E n \in Node : \/ JoinReqReturn(n) \/ HelpEntry(n) \/ HelpFurthest(n)
                              \/ AddReturn(n) \/ DeleteReturn(n) \/ SearchReturn(n)
<1>1. CASE StartHost
  BY <1>1 DEF StartHost, InitialChord, JoinChord, Crash, CommandEnds, joinVars, uiVars
<1>2. CASE UserStep \/ LookupStep \/ FileStep
  BY <1>2 DEF UserStep, LookupStep, FileStep, UserExit, AddFileReqHandle, DelFileReqHandle,
     Crash, CommandEnds, joinVars, uiVars
<1>3. CASE JoinStep
  BY <1>3 DEF JoinStep, HandleUpdateRouteReq, WalkRecv, HelpFiles, HelpStart, HelpPipeBroken,
     RecvHelpJoin, RecvRouteTable, RecvLookupNode, WalkSend, RecvFileTable, JoinFails, Crash,
     CommandEnds, joinVars, uiVars
<1>4. CASE UNCHANGED vars
  BY <1>4 DEF vars, joinVars, fileVars
<1> QED BY <1>1, <1>2, <1>3, <1>4 DEF Next, ThreadStep

\* Lookups are with hosts that have tables.
LEMMA LookupsReadyStep ==
    ASSUME ReadyInv, Grows, [Next]_vars
    PROVE  LookupsReady'
<1> USE DEF ReadyInv
<1>1. ASSUME NEW n \in Node, NEW op \in Commands, NEW c \in Key, EnterCommand(n, op, c)
      PROVE  LookupsReady'
  <2>1. <<"ui", n>> \in Thread /\ LookupReady(Lookup(n, c))
    BY <1>1, Constants, RequestHosts DEF EnterCommand, Thread, LookupReady, Lookup, NoLookup, Returned, LookupsReady,
       RequestsReady, PhasesReady
  <2>2. lookup' = [lookup EXCEPT ![<<"ui", n>>] = Lookup(n, c)] \/ lookup' = lookup
    BY <1>1 DEF EnterCommand, CommandEnds, Crash
  <2> QED BY <2>1, <2>2, OneLookupReady
<1>2. ASSUME NEW t \in Thread, LookupCall(t) PROVE LookupsReady'
  <2> DEFINE l == lookup[t]
             hop == NextHop(l.src, l.hash)
  <2>1. l \in LookupState /\ (Early(t) \/ MayBeNamed(l.src))
    BY <1>2 DEF LookupCall, LookupsReady, LookupReady, TypeOK
  <2>2. CASE lookup' = [lookup EXCEPT ![t] = Answer(l, l.src)]
    BY <2>1, <2>2, AnswerReady, OneLookupReady
  <2>3. CASE lookup' = [lookup EXCEPT ![t].st = "fwd", ![t].at = hop] /\ Alive(hop)
    <3>1. Early(t) \/ MayBeNamed(hop)
      BY <2>1, <2>3, HopReady DEF Alive, LookupState
    <3>2. Early(t) \/ LookupReady([l EXCEPT !.st = "fwd", !.at = hop])
      BY <2>1, <3>1 DEF LookupReady, LookupState
    <3>3. lookup' = [lookup EXCEPT ![t] = [l EXCEPT !.st = "fwd", !.at = hop]]
      BY <2>3 DEF TypeOK
    <3> QED BY <3>2, <3>3, OneLookupReady
  <2>4. CASE Crash(l.src)
    BY <2>4, CrashReady
  <2> QED BY <1>2, <2>2, <2>3, <2>4 DEF LookupCall
<1>3. ASSUME NEW t \in Thread, LookupReqHandle(t) PROVE LookupsReady'
  <2> DEFINE l == lookup[t]
             hop == NextHop(l.at, l.hash)
  <2>1. l \in LookupState /\ (Early(t) \/ (MayBeNamed(l.src) /\ MayBeNamed(l.at)))
    BY <1>3 DEF LookupReqHandle, LookupsReady, LookupReady, TypeOK
  <2>2. CASE lookup' = [lookup EXCEPT ![t] = Answer(l, l.at)]
    BY <2>1, <2>2, AnswerReady, OneLookupReady
  <2>3. CASE lookup' = [lookup EXCEPT ![t] = [l EXCEPT !.at = hop]] /\ Alive(hop) /\ l.st = "fwd"
    <3>1. Early(t) \/ MayBeNamed(hop)
      BY <2>1, <2>3, HopReady DEF Alive, LookupState
    <3>2. Early(t) \/ LookupReady([l EXCEPT !.at = hop])
      BY <2>1, <2>3, <3>1 DEF LookupReady, LookupState
    <3> QED BY <2>3, <3>2, OneLookupReady
  <2>4. CASE Crash(l.at)
    BY <2>4, CrashReady
  <2>5. CASE Alive(hop) /\ ~IsResponsibleTo(l.at, l.hash)
    BY <1>3, <2>3, <2>4, <2>5 DEF LookupReqHandle
  <2>6. CASE IsResponsibleTo(l.at, l.hash)
    BY <1>3, <2>2, <2>4, <2>6 DEF LookupReqHandle
  <2>7. CASE ~Alive(hop) /\ ~IsResponsibleTo(l.at, l.hash)
    BY <1>3, <2>4, <2>7 DEF LookupReqHandle
  <2> QED BY <2>5, <2>6, <2>7
<1>4. ASSUME NEW m \in requests, JoinReqHandle(m) PROVE LookupsReady'
  <2>1. <<"join", m.new>> \in Thread
    BY <1>4, RequestHosts DEF JoinReqHandle, Thread
  <2>2. Early(<<"join", m.new>>) \/ LookupReady(Lookup(m.to, myHash[m.new]))
    BY <1>4 DEF JoinReqHandle, Early, LookupReady, Lookup, NoLookup, RequestsReady
  <2>3. lookup' = [lookup EXCEPT ![<<"join", m.new>>] = Lookup(m.to, myHash[m.new])]
    BY <1>4 DEF JoinReqHandle
  <2> QED BY <2>1, <2>2, <2>3, OneLookupReady
<1>5. ASSUME NEW m \in requests, HelpJoinReqHandle(m) PROVE LookupsReady'
  <2>1. CASE Crash(m.to)
    BY <2>1, CrashReady
  <2>2. CASE /\ help' = [help EXCEPT ![m.new] = [NoHelp EXCEPT !.pc = "entry", !.host = m.to]]
             /\ lookup' = [lookup EXCEPT ![<<"help", m.new>>] =
                               Lookup(m.to, EntryHash(m.new, 0))]
    <3>1. m.to \in Node /\ m.new \in Node
      BY <1>5, RequestHosts DEF HelpJoinReqHandle
    <3>2. ASSUME NEW r \in Node, r = m.to PROVE MayBeNamed(r)'
      <4>1. CASE Pacing = "free"
        <5>1. help'[m.new].host = r
          BY <2>2, <3>1, <3>2 DEF TypeOK, NoHelp
        <5> QED BY <3>1, <4>1, <5>1 DEF MayBeNamed, HasHelped
      <4>2. CASE Pacing # "free"
        BY <1>5, <3>2, <4>2 DEF HelpJoinReqHandle, RequestsReady, Grows
      <4> QED BY <4>1, <4>2
    <3>3. ASSUME NEW u \in Thread, ~Early(u), lookup'[u] = lookup[u] PROVE LookupReady(lookup[u])'
      BY <3>3 DEF LookupsReady, LookupReady, Grows, MayBeNamed
    <3>4. ASSUME NEW u \in Thread, lookup'[u] = Lookup(m.to, EntryHash(m.new, 0))
          PROVE  LookupReady(lookup[u])'
      BY <3>1, <3>2, <3>4 DEF LookupReady, Lookup, NoLookup
    <3>5. \A u \in Thread : \/ lookup'[u] = lookup[u]
                            \/ lookup'[u] = Lookup(m.to, EntryHash(m.new, 0))
      BY <2>2 DEF TypeOK
    <3> QED BY <3>3, <3>4, <3>5 DEF LookupsReady, Early
  <2> QED BY <1>5, <2>1, <2>2 DEF HelpJoinReqHandle
<1>6. ASSUME NEW n \in Node, JoinReqReturn(n) PROVE LookupsReady'
  <2>1. <<"join", n>> \in Thread /\ LookupReady(NoLookup)
    BY <1>6, Constants, RequestHosts DEF JoinReqReturn, Thread, LookupReady, Lookup, NoLookup, Returned, LookupsReady,
       RequestsReady, PhasesReady
  <2>2. lookup' = [lookup EXCEPT ![<<"join", n>>] = NoLookup] \/ lookup' = lookup
    BY <1>6 DEF JoinReqReturn, CommandEnds, Crash
  <2> QED BY <2>1, <2>2, OneLookupReady
<1>7. ASSUME NEW n \in Node, HelpEntry(n) PROVE LookupsReady'
  <2> DEFINE t == <<"help", n>>
             next == IF help[n].i = M - 1 THEN FurthestPrev(n) ELSE EntryHash(n, help[n].i + 1)
  <2>1. t \in Thread /\ MayBeNamed(lookup[t].src)
    BY <1>7 DEF HelpEntry, Returned, Thread, LookupsReady, LookupReady, Early
  <2>2. LookupReady(Lookup(lookup[t].src, next))
    BY <2>1 DEF LookupReady, Lookup, NoLookup
  <2>3. lookup' = [lookup EXCEPT ![t] = Lookup(lookup[t].src, next)]
    BY <1>7 DEF HelpEntry
  <2> QED BY <2>1, <2>2, <2>3, OneLookupReady
<1>8. ASSUME NEW n \in Node, HelpFurthest(n) PROVE LookupsReady'
  <2>1. <<"help", n>> \in Thread /\ LookupReady(NoLookup)
    BY <1>8, Constants, RequestHosts DEF HelpFurthest, Thread, LookupReady, Lookup, NoLookup, Returned, LookupsReady,
       RequestsReady, PhasesReady
  <2>2. lookup' = [lookup EXCEPT ![<<"help", n>>] = NoLookup] \/ lookup' = lookup
    BY <1>8 DEF HelpFurthest, CommandEnds, Crash
  <2> QED BY <2>1, <2>2, OneLookupReady
<1>9. ASSUME NEW n \in Node, AddReturn(n) PROVE LookupsReady'
  <2>1. <<"ui", n>> \in Thread /\ LookupReady(NoLookup)
    BY <1>9, Constants, RequestHosts DEF AddReturn, Thread, LookupReady, Lookup, NoLookup, Returned, LookupsReady,
       RequestsReady, PhasesReady
  <2>2. lookup' = [lookup EXCEPT ![<<"ui", n>>] = NoLookup] \/ lookup' = lookup
    BY <1>9 DEF AddReturn, CommandEnds, Crash
  <2> QED BY <2>1, <2>2, OneLookupReady
<1>10. ASSUME NEW n \in Node, DeleteReturn(n) PROVE LookupsReady'
  <2>1. <<"ui", n>> \in Thread /\ LookupReady(NoLookup)
    BY <1>10, Constants, RequestHosts DEF DeleteReturn, Thread, LookupReady, Lookup, NoLookup, Returned, LookupsReady,
       RequestsReady, PhasesReady
  <2>2. lookup' = [lookup EXCEPT ![<<"ui", n>>] = NoLookup] \/ lookup' = lookup
    BY <1>10 DEF DeleteReturn, CommandEnds, Crash
  <2> QED BY <2>1, <2>2, OneLookupReady
<1>11. ASSUME NEW n \in Node, SearchReturn(n) PROVE LookupsReady'
  <2>1. <<"ui", n>> \in Thread /\ LookupReady(NoLookup)
    BY <1>11, Constants, RequestHosts DEF SearchReturn, Thread, LookupReady, Lookup, NoLookup, Returned, LookupsReady,
       RequestsReady, PhasesReady
  <2>2. lookup' = [lookup EXCEPT ![<<"ui", n>>] = NoLookup] \/ lookup' = lookup
    BY <1>11 DEF SearchReturn, CommandEnds, Crash
  <2> QED BY <2>1, <2>2, OneLookupReady
<1>12. CASE UNCHANGED lookup
  BY <1>12 DEF LookupsReady, LookupReady, Early, Grows, MayBeNamed
<1> QED BY <1>1, <1>2, <1>3, <1>4, <1>5, <1>6, <1>7, <1>8, <1>9, <1>10, <1>11, <1>12,
           LookupsReadyWriters DEF ReadyInv

\* The helper fills the table, entry by entry.
LEMMA HelpReadyStep ==
    ASSUME ReadyInv, Grows, [Next]_vars
    PROVE  HelpReady'
<1> USE DEF ReadyInv
<1>1. ASSUME NEW m \in requests, HelpJoinReqHandle(m) PROVE HelpReady'
  <2>1. CASE Crash(m.to)
    BY <2>1, CrashReady
  <2>2. CASE help' = [help EXCEPT ![m.new] = [NoHelp EXCEPT !.pc = "entry", !.host = m.to]]
    <3> DEFINE h == [NoHelp EXCEPT !.pc = "entry", !.host = m.to]
    <3>1. h.pc = "entry" /\ h.i = 0 /\ \A i \in FingerIndex : h.table[i] = NoNode /\ ~(i < 0)
      BY DEF NoHelp, EmptyTable, FingerIndex
    <3> HIDE DEF h
    <3>2. \A n \in Node : help'[n] = h \/ help'[n] = help[n]
      BY <2>2 DEF TypeOK, h
    <3> QED BY <3>1, <3>2 DEF HelpReady, Grows, MayBeNamed
  <2> QED BY <1>1, <2>1, <2>2 DEF HelpJoinReqHandle
<1>2. ASSUME NEW n \in Node, HelpEntry(n) PROVE HelpReady'
  <2> DEFINE j == help[n].i
             e == EntryHost(n, j, lookup[<<"help", n>>].succ)
  <2>1. MayBeNamed(lookup[<<"help", n>>].succ)
    BY <1>2 DEF HelpEntry, Returned, Thread, LookupsReady, LookupReady, Early
  <2>2. e # NoNode /\ (e = n \/ MayBeNamed(e))
    BY <2>1, Constants DEF EntryHost, MayBeNamed
  <2> HIDE DEF e
  <2>3. /\ j \in FingerIndex /\ help[n].table \in [FingerIndex -> Host]
        /\ help[n] \in HelpState /\ help[n].pc = "entry"
    BY <1>2 DEF HelpEntry, TypeOK, HelpState
  <2>4. /\ \A x \in Node \ {n} : help'[x] = help[x]
        /\ help'[n].table = [help[n].table EXCEPT ![j] = e]
        /\ help'[n].pc = IF j = M - 1 THEN "furthest" ELSE "entry"
        /\ help'[n].i = IF j = M - 1 THEN j ELSE j + 1
    BY <1>2, <2>3 DEF HelpEntry, TypeOK, HelpState, e
  <2>5. \A i \in FingerIndex : help'[n].table[i] = IF i = j THEN e ELSE help[n].table[i]
    BY <2>3, <2>4
  <2>6. ASSUME NEW i \in FingerIndex
        PROVE  /\ help'[n].pc = "idle" => help'[n].host = NoNode
               /\ help'[n].table[i] \notin {n, NoNode} => MayBeNamed(help'[n].table[i])
               /\ help'[n].pc \notin {"idle", "entry"} => help'[n].table[i] # NoNode
               /\ help'[n].pc = "entry" /\ i < help'[n].i => help'[n].table[i] # NoNode
    <3>1. i < j => help[n].table[i] # NoNode
      BY <2>3 DEF HelpReady
    <3>2. j = M - 1 => i < j \/ i = j
      BY <2>3, RingBits DEF FingerIndex
    <3>3. i < j + 1 => i < j \/ i = j
      BY <2>3 DEF FingerIndex
    <3>4. help[n].table[i] \notin {n, NoNode} => MayBeNamed(help[n].table[i])
      BY DEF HelpReady
    <3> QED BY <2>2, <2>4, <2>5, <3>1, <3>2, <3>3, <3>4
  <2>7. ASSUME NEW x \in Node \ {n}, NEW i \in FingerIndex
        PROVE  /\ help'[x].pc = "idle" => help'[x].host = NoNode
               /\ help'[x].table[i] \notin {x, NoNode} => MayBeNamed(help'[x].table[i])
               /\ help'[x].pc \notin {"idle", "entry"} => help'[x].table[i] # NoNode
               /\ help'[x].pc = "entry" /\ i < help'[x].i => help'[x].table[i] # NoNode
    BY <2>4 DEF HelpReady
  <2> QED BY <2>6, <2>7 DEF HelpReady, Grows, MayBeNamed
<1>3. ASSUME NEW n \in Node, HelpFurthest(n) PROVE HelpReady'
  <2>1. \A x \in Node : /\ help'[x].table = help[x].table
                        /\ x # n => help'[x] = help[x]
    BY <1>3 DEF HelpFurthest, TypeOK, HelpState
  <2>2. help[n].pc \notin {"idle", "entry"} /\ help'[n].pc = "files"
    BY <1>3 DEF HelpFurthest, TypeOK, HelpState
  <2> QED BY <2>1, <2>2 DEF HelpReady, Grows, MayBeNamed
<1>4. ASSUME NEW n \in Node, HelpFiles(n) PROVE HelpReady'
  <2>1. \A x \in Node : /\ help'[x].table = help[x].table
                        /\ x # n => help'[x] = help[x]
    BY <1>4 DEF HelpFiles, TypeOK, HelpState
  <2>2. help[n].pc \notin {"idle", "entry"} /\ help'[n].pc = "start"
    BY <1>4 DEF HelpFiles, TypeOK, HelpState
  <2> QED BY <2>1, <2>2 DEF HelpReady, Grows, MayBeNamed
<1>5. ASSUME NEW n \in Node, HelpStart(n) PROVE HelpReady'
  <2>1. \A x \in Node : /\ help'[x].table = help[x].table
                        /\ x # n => help'[x] = help[x]
    BY <1>5 DEF HelpStart, TypeOK, HelpState
  <2>2. help[n].pc \notin {"idle", "entry"} /\ help'[n].pc = "done"
    BY <1>5 DEF HelpStart, TypeOK, HelpState
  <2> QED BY <2>1, <2>2 DEF HelpReady, Grows, MayBeNamed
<1>6. CASE UNCHANGED help
  BY <1>6, HelpParts DEF HelpReady, Grows, MayBeNamed
<1> QED BY <1>1, <1>2, <1>3, <1>4, <1>5, <1>6, HelpReadyWriters DEF ReadyInv

\* At first nobody has anything.
LEMMA ReadyInit == Init => ReadyInv
<1> SUFFICES ASSUME Init PROVE ReadyInv
  OBVIOUS
<1>1. TypeOK
  BY InitType
<1>2. TablesReady /\ PhasesReady /\ RequestsReady
  BY DEF Init, TablesReady, PhasesReady, RequestsReady, EmptyTable
<1>3. LookupsReady
  BY DEF Init, LookupsReady, LookupReady, NoLookup
<1>4. HelpReady
  BY DEF Init, HelpReady, NoHelp, EmptyTable
<1> QED BY <1>1, <1>2, <1>3, <1>4 DEF ReadyInv

-----------------------------------------------------------------------------
(* Help comes once.                                                        *)

\* The end of a process asks nobody.
LEMMA CrashAsks ==
    ASSUME TypeOK, AskedOnce, NEW x, Crash(x)
    PROVE  AskedOnce'
<1>1. \A n \in Node : phase'[n] = phase[n] \/ phase'[n] = "dead"
  BY DEF Crash, TypeOK
<1> QED BY <1>1, RequestHosts DEF Crash, AskedOnce, joinVars

\* What matters of a request is not changed.
AsksTheSame ==
    /\ UNCHANGED << phase, help >>
    /\ \A n \in Node : lookup'[<<"join", n>>].st # "idle" => lookup[<<"join", n>>].st # "idle"
    /\ \A m \in requests' : m.type \in {"join", "help"} => m \in requests

\* Such a step disturbs nothing.
LEMMA SameAsks ==
    ASSUME TypeOK, AskedOnce, AsksTheSame
    PROVE  AskedOnce'
BY RequestHosts DEF AskedOnce, AsksTheSame

\* A host that nobody asks for goes on, or its helper does.
LEMMA MovesOn ==
    ASSUME TypeOK, AskedOnce, NEW n \in Node,
           help[n].pc # "idle" \/ phase[n] \notin {"helpjoin", "dead"},
           \A x \in Node \ {n} : phase'[x] = phase[x] /\ help'[x].pc = help[x].pc,
           phase'[n] # "off",
           help'[n].pc \in {"entry", "furthest", "files"} => phase'[n] \in Joining \cup {"dead"},
           \A x \in Node : lookup'[<<"join", x>>].st = lookup[<<"join", x>>].st,
           \A m \in requests' : m.type \in {"join", "help"} => m \in requests
    PROVE  AskedOnce'
<1>1. \A m \in requests : m.type \in {"join", "help"} => m.new # n
  BY DEF AskedOnce
<1>2. lookup[<<"join", n>>].st = "idle"
  BY DEF AskedOnce
<1> QED BY <1>1, <1>2, RequestHosts DEF AskedOnce

\* The steps that matter to it.
LEMMA AskedOnceWriters ==
    ASSUME TypeOK, [Next]_vars
    PROVE  \/ (\E x : Crash(x)) \/ AsksTheSame
           \/ \E h \in Positions : InitialChord(h)
           \/ \E n, e \in Node, h \in FreePositions : JoinChord(n, e, h)
           \/ \E m \in requests : JoinReqHandle(m) \/ HelpJoinReqHandle(m) \/ WalkRecv(m)
           \/ \E n \in Node : \/ JoinReqReturn(n) \/ HelpEntry(n) \/ HelpFurthest(n)
                              \/ HelpFiles(n) \/ HelpStart(n) \/ RecvHelpJoin(n)
                              \/ RecvRouteTable(n) \/ RecvLookupNode(n) \/ WalkSend(n)
                              \/ RecvFileTable(n)
<1>1. CASE StartHost
  BY <1>1 DEF StartHost, Crash, CommandEnds, AsksTheSame, TypeOK, Thread, joinVars
<1>2. ASSUME NEW n \in Node, UserExit(n)
      PROVE  (\E x : Crash(x)) \/ AsksTheSame
  BY <1>2 DEF UserExit
<1>3. ASSUME NEW n \in Node, NEW op \in Commands, NEW k \in Key, EnterCommand(n, op, k)
      PROVE  (\E x : Crash(x)) \/ AsksTheSame
  BY <1>3 DEF AsksTheSame, EnterCommand, TypeOK, Thread, joinVars, Lookup, NoLookup
<1>4. ASSUME NEW t \in Thread, LookupCall(t)
      PROVE  (\E x : Crash(x)) \/ AsksTheSame
  BY <1>4 DEF AsksTheSame, LookupCall, TypeOK, Thread, joinVars
<1>5. ASSUME NEW t \in Thread, LookupReqHandle(t)
      PROVE  (\E x : Crash(x)) \/ AsksTheSame
  BY <1>5 DEF AsksTheSame, LookupReqHandle, TypeOK, Thread, joinVars, Answer
<1>6. ASSUME NEW n \in Node, AddReturn(n)
      PROVE  (\E x : Crash(x)) \/ AsksTheSame
  <2>1. CASE \E x : Crash(x)
    BY <2>1
  <2>2. CASE ~\E x : Crash(x)
    <3>1. UNCHANGED << phase, help >> /\ CommandEnds(n)
      BY <1>6, <2>2 DEF AddReturn, joinVars
    <3>2. \A m \in requests' : m.type \in {"join", "help"} => m \in requests
      BY <1>6, <2>2 DEF AddReturn
    <3>3. \A x \in Node : lookup'[<<"join", x>>] = lookup[<<"join", x>>]
      BY <3>1 DEF CommandEnds, TypeOK, Thread
    <3> QED BY <3>1, <3>2, <3>3 DEF AsksTheSame
  <2> QED BY <2>1, <2>2
<1>7. ASSUME NEW n \in Node, DeleteReturn(n)
      PROVE  (\E x : Crash(x)) \/ AsksTheSame
  <2>1. CASE \E x : Crash(x)
    BY <2>1
  <2>2. CASE ~\E x : Crash(x)
    <3>1. UNCHANGED << phase, help >> /\ CommandEnds(n)
      BY <1>7, <2>2 DEF DeleteReturn, joinVars
    <3>2. \A m \in requests' : m.type \in {"join", "help"} => m \in requests
      BY <1>7, <2>2 DEF DeleteReturn
    <3>3. \A x \in Node : lookup'[<<"join", x>>] = lookup[<<"join", x>>]
      BY <3>1 DEF CommandEnds, TypeOK, Thread
    <3> QED BY <3>1, <3>2, <3>3 DEF AsksTheSame
  <2> QED BY <2>1, <2>2
<1>8. ASSUME NEW n \in Node, SearchReturn(n)
      PROVE  (\E x : Crash(x)) \/ AsksTheSame
  BY <1>8 DEF AsksTheSame, SearchReturn, TypeOK, Thread, joinVars, CommandEnds
<1>9. ASSUME NEW m \in requests, AddFileReqHandle(m)
      PROVE  (\E x : Crash(x)) \/ AsksTheSame
  BY <1>9 DEF AsksTheSame, AddFileReqHandle, TypeOK, Thread, joinVars
<1>10. ASSUME NEW m \in requests, DelFileReqHandle(m)
      PROVE  (\E x : Crash(x)) \/ AsksTheSame
  BY <1>10 DEF AsksTheSame, DelFileReqHandle, TypeOK, Thread, joinVars
<1>11. ASSUME NEW m \in requests, HandleUpdateRouteReq(m)
      PROVE  (\E x : Crash(x)) \/ AsksTheSame
  BY <1>11 DEF AsksTheSame, HandleUpdateRouteReq, TypeOK, Thread, joinVars
<1>12. ASSUME NEW n \in Node, HelpPipeBroken(n)
      PROVE  (\E x : Crash(x)) \/ AsksTheSame
  BY <1>12 DEF HelpPipeBroken
<1>13. ASSUME NEW n \in Node, JoinFails(n)
      PROVE  (\E x : Crash(x)) \/ AsksTheSame
  BY <1>13 DEF AsksTheSame, JoinFails, TypeOK, Thread, joinVars
<1>14. CASE UNCHANGED vars
  BY <1>14 DEF vars, joinVars, AsksTheSame
<1> QED
  BY <1>1, <1>2, <1>3, <1>4, <1>5, <1>6, <1>7, <1>8, <1>9, <1>10, <1>11, <1>12, <1>13, <1>14
  DEF Next, ThreadStep, UserStep, LookupStep, FileStep, JoinStep

\* Nobody asks for a host that is helped already.
LEMMA AskedOnceStep ==
    ASSUME TypeOK, AskedOnce, [Next]_vars
    PROVE  AskedOnce'
<1>1. ASSUME NEW h \in Positions, InitialChord(h) PROVE AskedOnce'
  <2>1. \A x \in Node \ {First} : phase'[x] = phase[x] /\ help'[x].pc = help[x].pc
    BY <1>1, Constants DEF InitialChord, TypeOK, HelpState, Joining, joinVars
  <2>2. /\ help[First].pc # "idle" \/ phase[First] \notin {"helpjoin", "dead"}
        /\ phase'[First] # "off"
        /\ help'[First].pc \in {"entry", "furthest", "files"} => phase'[First] \in Joining \cup {"dead"}
    BY <1>1, Constants DEF InitialChord, TypeOK, HelpState, AskedOnce, Joining, joinVars
  <2>3. \A x \in Node : lookup'[<<"join", x>>].st = lookup[<<"join", x>>].st
    BY <1>1, Constants DEF InitialChord, TypeOK, Thread
  <2>4. \A o \in requests' : o.type \in {"join", "help"} => o \in requests
    BY <1>1, Constants DEF InitialChord
  <2> QED BY <2>1, <2>2, <2>3, <2>4, Constants, MovesOn
<1>2. ASSUME NEW n \in Node, NEW e \in Node, NEW h \in FreePositions, JoinChord(n, e, h)
      PROVE  AskedOnce'
  <2>1. /\ \A x \in Node \ {n} : phase'[x] = phase[x]
        /\ phase'[n] = "helpjoin" /\ phase[n] = "off" /\ help' = help /\ lookup' = lookup
    BY <1>2 DEF JoinChord, TypeOK, joinVars
  <2>2. \A o \in requests : o.type \in {"join", "help"} => o.new # n
    BY <2>1 DEF AskedOnce
  <2>3. lookup[<<"join", n>>].st = "idle" /\ help[n].pc = "idle"
    BY <2>1 DEF AskedOnce
  <2>4. requests' = requests \cup {[type |-> "join", to |-> e, new |-> n]}
    BY <1>2 DEF JoinChord
  <2> QED BY <2>1, <2>2, <2>3, <2>4, RequestHosts DEF AskedOnce
<1>3. ASSUME NEW m \in requests, JoinReqHandle(m) PROVE AskedOnce'
  <2>1. /\ m.type = "join" /\ m.new \in Node /\ help[m.new].pc = "idle"
        /\ phase[m.new] \in {"helpjoin", "dead"}
        /\ requests' = requests \ {m} /\ phase' = phase /\ help' = help
    BY <1>3, RequestHosts DEF JoinReqHandle, AskedOnce, joinVars
  <2>2. \A x \in Node \ {m.new} : lookup'[<<"join", x>>] = lookup[<<"join", x>>]
    BY <1>3 DEF JoinReqHandle, TypeOK, Thread
  <2>3. \A o \in requests' : o.type \in {"join", "help"} => o.new # m.new
    BY <2>1 DEF AskedOnce
  <2> QED BY <2>1, <2>2, <2>3, RequestHosts DEF AskedOnce
<1>4. ASSUME NEW m \in requests, HelpJoinReqHandle(m) PROVE AskedOnce'
  <2>1. CASE Crash(m.to)
    BY <2>1, CrashAsks
  <2>2. CASE ~Crash(m.to)
    <3>1. /\ m.type = "help" /\ m.new \in Node /\ phase[m.new] = "helpjoin"
          /\ lookup[<<"join", m.new>>].st = "idle"
          /\ requests' = requests \ {m} /\ phase' = phase
      BY <1>4, <2>2, RequestHosts DEF HelpJoinReqHandle, AskedOnce, Alive
    <3>2. /\ \A x \in Node \ {m.new} : help'[x] = help[x]
          /\ help'[m.new].pc = "entry"
      <4> DEFINE h == [NoHelp EXCEPT !.pc = "entry", !.host = m.to]
      <4>1. help' = [help EXCEPT ![m.new] = h]
        BY <1>4, <2>2 DEF HelpJoinReqHandle
      <4>2. h.pc = "entry"
        BY DEF NoHelp
      <4> HIDE DEF h
      <4> QED BY <3>1, <4>1, <4>2 DEF TypeOK
    <3>3. \A x \in Node : lookup'[<<"join", x>>] = lookup[<<"join", x>>]
      BY <1>4, <2>2 DEF HelpJoinReqHandle, TypeOK, Thread
    <3>4. \A o \in requests' : o.type \in {"join", "help"} => o.new # m.new
      BY <3>1 DEF AskedOnce
    <3> QED BY <3>1, <3>2, <3>3, <3>4, RequestHosts DEF AskedOnce, Joining
  <2> QED BY <2>1, <2>2
<1>5. ASSUME NEW m \in requests, WalkRecv(m) PROVE AskedOnce'
  <2>0. m.to \in Node
    BY <1>5, RequestParts DEF WalkRecv
  <2>1. \A x \in Node \ {m.to} : phase'[x] = phase[x] /\ help'[x].pc = help[x].pc
    BY <1>5, <2>0 DEF WalkRecv, TypeOK, HelpState, Joining, joinVars
  <2>2. /\ help[m.to].pc # "idle" \/ phase[m.to] \notin {"helpjoin", "dead"}
        /\ phase'[m.to] # "off"
        /\ help'[m.to].pc \in {"entry", "furthest", "files"} => phase'[m.to] \in Joining \cup {"dead"}
    BY <1>5, <2>0 DEF WalkRecv, TypeOK, HelpState, AskedOnce, Joining, joinVars
  <2>3. \A x \in Node : lookup'[<<"join", x>>].st = lookup[<<"join", x>>].st
    BY <1>5, <2>0 DEF WalkRecv, TypeOK, Thread
  <2>4. \A o \in requests' : o.type \in {"join", "help"} => o \in requests
    BY <1>5, <2>0 DEF WalkRecv
  <2> QED BY <2>1, <2>2, <2>3, <2>4, <2>0, MovesOn
<1>6. ASSUME NEW n \in Node, JoinReqReturn(n) PROVE AskedOnce'
  <2> DEFINE l == lookup[<<"join", n>>]
  <2>1. CASE Crash(l.src)
    BY <2>1, CrashAsks
  <2>2. CASE ~Crash(l.src)
    <3>1. /\ l.st = "done" /\ phase' = phase /\ help' = help
          /\ requests' = requests \cup {[type |-> "help", to |-> l.succ, new |-> n]}
      BY <1>6, <2>2 DEF JoinReqReturn, Returned, joinVars
    <3>2. /\ \A x \in Node \ {n} : lookup'[<<"join", x>>] = lookup[<<"join", x>>]
          /\ lookup'[<<"join", n>>].st = "idle"
      BY <1>6, <2>2 DEF JoinReqReturn, TypeOK, Thread, NoLookup
    <3>3. \A o \in requests : o.type \in {"join", "help"} => o.new # n
      BY <3>1 DEF AskedOnce
    <3>4. help[n].pc = "idle" /\ phase[n] \in {"helpjoin", "dead"}
      BY <3>1 DEF AskedOnce
    <3> HIDE DEF l
    <3> QED BY <3>1, <3>2, <3>3, <3>4, RequestHosts DEF AskedOnce
  <2> QED BY <2>1, <2>2
<1>7. ASSUME NEW n \in Node, HelpEntry(n) PROVE AskedOnce'
  <2>1. \A x \in Node \ {n} : phase'[x] = phase[x] /\ help'[x].pc = help[x].pc
    BY <1>7 DEF HelpEntry, TypeOK, HelpState, Joining, joinVars
  <2>2. /\ help[n].pc # "idle" \/ phase[n] \notin {"helpjoin", "dead"}
        /\ phase'[n] # "off"
        /\ help'[n].pc \in {"entry", "furthest", "files"} => phase'[n] \in Joining \cup {"dead"}
    BY <1>7 DEF HelpEntry, TypeOK, HelpState, AskedOnce, Joining, joinVars
  <2>3. \A x \in Node : lookup'[<<"join", x>>].st = lookup[<<"join", x>>].st
    BY <1>7 DEF HelpEntry, TypeOK, Thread
  <2>4. \A o \in requests' : o.type \in {"join", "help"} => o \in requests
    BY <1>7 DEF HelpEntry
  <2> QED BY <2>1, <2>2, <2>3, <2>4, MovesOn
<1>8. ASSUME NEW n \in Node, HelpFurthest(n) PROVE AskedOnce'
  <2>1. \A x \in Node \ {n} : phase'[x] = phase[x] /\ help'[x].pc = help[x].pc
    BY <1>8 DEF HelpFurthest, TypeOK, HelpState, Joining, joinVars
  <2>2. /\ help[n].pc # "idle" \/ phase[n] \notin {"helpjoin", "dead"}
        /\ phase'[n] # "off"
        /\ help'[n].pc \in {"entry", "furthest", "files"} => phase'[n] \in Joining \cup {"dead"}
    BY <1>8 DEF HelpFurthest, TypeOK, HelpState, AskedOnce, Joining, joinVars
  <2>3. \A x \in Node : lookup'[<<"join", x>>].st = lookup[<<"join", x>>].st
    BY <1>8 DEF HelpFurthest, TypeOK, Thread
  <2>4. \A o \in requests' : o.type \in {"join", "help"} => o \in requests
    BY <1>8 DEF HelpFurthest
  <2> QED BY <2>1, <2>2, <2>3, <2>4, MovesOn
<1>9. ASSUME NEW n \in Node, HelpFiles(n) PROVE AskedOnce'
  <2>1. \A x \in Node \ {n} : phase'[x] = phase[x] /\ help'[x].pc = help[x].pc
    BY <1>9 DEF HelpFiles, TypeOK, HelpState, Joining, joinVars
  <2>2. /\ help[n].pc # "idle" \/ phase[n] \notin {"helpjoin", "dead"}
        /\ phase'[n] # "off"
        /\ help'[n].pc \in {"entry", "furthest", "files"} => phase'[n] \in Joining \cup {"dead"}
    BY <1>9 DEF HelpFiles, TypeOK, HelpState, AskedOnce, Joining, joinVars
  <2>3. \A x \in Node : lookup'[<<"join", x>>].st = lookup[<<"join", x>>].st
    BY <1>9 DEF HelpFiles, TypeOK, Thread
  <2>4. \A o \in requests' : o.type \in {"join", "help"} => o \in requests
    BY <1>9 DEF HelpFiles
  <2> QED BY <2>1, <2>2, <2>3, <2>4, MovesOn
<1>10. ASSUME NEW n \in Node, HelpStart(n) PROVE AskedOnce'
  <2>1. \A x \in Node \ {n} : phase'[x] = phase[x] /\ help'[x].pc = help[x].pc
    BY <1>10 DEF HelpStart, TypeOK, HelpState, Joining, joinVars
  <2>2. /\ help[n].pc # "idle" \/ phase[n] \notin {"helpjoin", "dead"}
        /\ phase'[n] # "off"
        /\ help'[n].pc \in {"entry", "furthest", "files"} => phase'[n] \in Joining \cup {"dead"}
    BY <1>10 DEF HelpStart, TypeOK, HelpState, AskedOnce, Joining, joinVars
  <2>3. \A x \in Node : lookup'[<<"join", x>>].st = lookup[<<"join", x>>].st
    BY <1>10 DEF HelpStart, TypeOK, Thread
  <2>4. \A o \in requests' : o.type \in {"join", "help"} => o \in requests
    BY <1>10 DEF HelpStart
  <2> QED BY <2>1, <2>2, <2>3, <2>4, MovesOn
<1>11. ASSUME NEW n \in Node, RecvHelpJoin(n) PROVE AskedOnce'
  <2>1. \A x \in Node \ {n} : phase'[x] = phase[x] /\ help'[x].pc = help[x].pc
    BY <1>11 DEF RecvHelpJoin, TypeOK, HelpState, Joining, joinVars
  <2>2. /\ help[n].pc # "idle" \/ phase[n] \notin {"helpjoin", "dead"}
        /\ phase'[n] # "off"
        /\ help'[n].pc \in {"entry", "furthest", "files"} => phase'[n] \in Joining \cup {"dead"}
    BY <1>11 DEF RecvHelpJoin, TypeOK, HelpState, AskedOnce, Joining, joinVars
  <2>3. \A x \in Node : lookup'[<<"join", x>>].st = lookup[<<"join", x>>].st
    BY <1>11 DEF RecvHelpJoin, TypeOK, Thread
  <2>4. \A o \in requests' : o.type \in {"join", "help"} => o \in requests
    BY <1>11 DEF RecvHelpJoin
  <2> QED BY <2>1, <2>2, <2>3, <2>4, MovesOn
<1>12. ASSUME NEW n \in Node, RecvRouteTable(n) PROVE AskedOnce'
  <2>1. \A x \in Node \ {n} : phase'[x] = phase[x] /\ help'[x].pc = help[x].pc
    BY <1>12 DEF RecvRouteTable, TypeOK, HelpState, Joining, joinVars
  <2>2. /\ help[n].pc # "idle" \/ phase[n] \notin {"helpjoin", "dead"}
        /\ phase'[n] # "off"
        /\ help'[n].pc \in {"entry", "furthest", "files"} => phase'[n] \in Joining \cup {"dead"}
    BY <1>12 DEF RecvRouteTable, TypeOK, HelpState, AskedOnce, Joining, joinVars
  <2>3. \A x \in Node : lookup'[<<"join", x>>].st = lookup[<<"join", x>>].st
    BY <1>12 DEF RecvRouteTable, TypeOK, Thread
  <2>4. \A o \in requests' : o.type \in {"join", "help"} => o \in requests
    BY <1>12 DEF RecvRouteTable
  <2> QED BY <2>1, <2>2, <2>3, <2>4, MovesOn
<1>13. ASSUME NEW n \in Node, RecvLookupNode(n) PROVE AskedOnce'
  <2>1. \A x \in Node \ {n} : phase'[x] = phase[x] /\ help'[x].pc = help[x].pc
    BY <1>13 DEF RecvLookupNode, TypeOK, HelpState, Joining, joinVars
  <2>2. /\ help[n].pc # "idle" \/ phase[n] \notin {"helpjoin", "dead"}
        /\ phase'[n] # "off"
        /\ help'[n].pc \in {"entry", "furthest", "files"} => phase'[n] \in Joining \cup {"dead"}
    BY <1>13 DEF RecvLookupNode, TypeOK, HelpState, AskedOnce, Joining, joinVars
  <2>3. \A x \in Node : lookup'[<<"join", x>>].st = lookup[<<"join", x>>].st
    BY <1>13 DEF RecvLookupNode, TypeOK, Thread
  <2>4. \A o \in requests' : o.type \in {"join", "help"} => o \in requests
    BY <1>13 DEF RecvLookupNode
  <2> QED BY <2>1, <2>2, <2>3, <2>4, MovesOn
<1>14. ASSUME NEW n \in Node, WalkSend(n) PROVE AskedOnce'
  <2>1. CASE Crash(n)
    BY <2>1, CrashAsks
  <2>2. CASE /\ requests' = requests \cup {[type |-> "update", to |-> walk[n], new |-> n]}
             /\ phase' = [phase EXCEPT ![n] = "wait"] /\ UNCHANGED << lookup, joinVars >>
    <3>1. /\ \A x \in Node \ {n} : phase'[x] = phase[x]
          /\ phase'[n] = "wait" /\ phase[n] = "walk"
      BY <1>14, <2>2 DEF WalkSend, TypeOK
    <3>2. \A m \in requests' : m.type \in {"join", "help"} => m \in requests
      BY <2>2
    <3> QED BY <2>2, <3>1, <3>2, MovesOn DEF joinVars, Joining
  <2> QED BY <1>14, <2>1, <2>2 DEF WalkSend
<1>15. ASSUME NEW n \in Node, RecvFileTable(n) PROVE AskedOnce'
  <2>1. \A x \in Node \ {n} : phase'[x] = phase[x] /\ help'[x].pc = help[x].pc
    BY <1>15 DEF RecvFileTable, TypeOK, HelpState, Joining, joinVars
  <2>2. /\ help[n].pc # "idle" \/ phase[n] \notin {"helpjoin", "dead"}
        /\ phase'[n] # "off"
        /\ help'[n].pc \in {"entry", "furthest", "files"} => phase'[n] \in Joining \cup {"dead"}
    BY <1>15 DEF RecvFileTable, TypeOK, HelpState, AskedOnce, Joining, joinVars
  <2>3. \A x \in Node : lookup'[<<"join", x>>].st = lookup[<<"join", x>>].st
    BY <1>15 DEF RecvFileTable, TypeOK, Thread
  <2>4. \A o \in requests' : o.type \in {"join", "help"} => o \in requests
    BY <1>15 DEF RecvFileTable
  <2> QED BY <2>1, <2>2, <2>3, <2>4, MovesOn
<1>16. CASE (\E x : Crash(x)) \/ AsksTheSame
  BY <1>16, CrashAsks, SameAsks
<1> QED BY <1>1, <1>2, <1>3, <1>4, <1>5, <1>6, <1>7, <1>8, <1>9, <1>10, <1>11, <1>12, <1>13,
           <1>14, <1>15, <1>16, AskedOnceWriters DEF ReadyInv

\* At first nobody asks.
LEMMA AskedOnceInit == Init => AskedOnce /\ MenuLookups
BY DEF Init, AskedOnce, MenuLookups, NoLookup, NoHelp, Thread

-----------------------------------------------------------------------------
(* The two together.                                                       *)

\* Every step keeps the invariant.
LEMMA ReadyStep ==
    ASSUME ReadyInv, AskedOnce, [Next]_vars
    PROVE  ReadyInv'
<1>1. TypeOK'
  BY NextType, StutterType DEF ReadyInv
<1>2. Grows
  BY TablesGrowStep DEF ReadyInv
<1> QED BY <1>1, <1>2, TablesReadyStep, PhasesReadyStep, RequestsReadyStep, LookupsReadyStep,
           HelpReadyStep DEF ReadyInv

\* RoutedHostsReady: no request is ever sent along a finger to a host that could
\* not send it on, however joins overlap and whoever dies, unless that host was
\* asked to help another to join before it had a table: a joining host is entered
\* nowhere before it has one, and tables are never taken away
\* (help_join_req_handle, join_chord).
THEOREM RoutedHostsAreReady == Spec => []RoutedHostsReady
<1>1. Init => ReadyInv /\ AskedOnce
  BY ReadyInit, AskedOnceInit
<1>2. ReadyInv /\ AskedOnce /\ [Next]_vars => (ReadyInv /\ AskedOnce)'
  BY ReadyStep, AskedOnceStep DEF ReadyInv
<1>3. ReadyInv => RoutedHostsReady
  BY EmptyMeans DEF ReadyInv, TablesReady, RoutedHostsReady, MayBeNamed, HasHelped
<1> QED BY <1>1, <1>2, <1>3, PTL DEF Spec

-----------------------------------------------------------------------------
(* The index.                                                              *)

\* Where an entry is: in a live host's DHT, or in a FileTable that is read.
Stored(n, k) == Alive(n) /\ DHT[n][k] # NoNode
UnderWay(n, k) ==
    phase[n] \in Joining /\ help[n].pc \in {"start", "done"} /\ help[n].files[k] # NoNode

\* An entry is kept if it is somewhere.
LEMMA IndexedMeans ==
    ASSUME NEW k
    PROVE  Indexed(k) <=> \E n \in Node : Stored(n, k) \/ UnderWay(n, k)
<1>1. Indexed(k) <=> \E c \in Copies(k) : c # NoNode
  BY DEF Indexed
<1> QED BY <1>1 DEF Copies, Stored, UnderWay

\* What the entry k may do in a step: stay, or be lost in one of three ways.
Kept(k) ==
    \/ \E n \in Node : (Stored(n, k) \/ UnderWay(n, k))'
    \/ \E m \in requests \ requests' : m.type = "delete" /\ m.key = k
    \/ \E n \in Node : Alive(n) /\ phase'[n] = "dead"
    \/ \E n \in Node : ~Alive(n) /\ help[n].pc = "files" /\ help'[n].pc = "start"

\* The end of a process is one of them.
LEMMA CrashKeeps ==
    ASSUME TypeOK, NEW k \in Key, NEW x \in Node, Alive(x), Crash(x)
    PROVE  Kept(k)
BY DEF Kept, Crash, TypeOK

\* Nothing that holds the entry is touched.
LEMMA SameKeeps ==
    ASSUME TypeOK, NEW k \in Key, NEW n \in Node, Stored(n, k) \/ UnderWay(n, k),
           phase[n] \in Joining \cup {"up"} => phase'[n] = phase[n] \/ phase'[n] \in Joining,
           UNCHANGED << DHT, help >>
    PROVE  Kept(k)
<1>1. phase[n] \in Joining \cup {"up"}
  BY DEF Stored, UnderWay, Alive, TypeOK, Phase
<1>2. (Stored(n, k) \/ UnderWay(n, k))'
  BY <1>1 DEF Stored, UnderWay, Alive, Joining
<1> QED BY <1>2 DEF Kept

\* The steps that matter to it.
LEMMA KeptWriters ==
    ASSUME TypeOK, MenuLookups, [Next]_vars
    PROVE  \/ UNCHANGED << DHT, help, phase >> \/ \E x \in Node : Alive(x) /\ Crash(x)
           \/ \E h \in Positions : InitialChord(h)
           \/ \E n, e \in Node, h \in FreePositions : JoinChord(n, e, h)
           \/ \E m \in requests : \/ HelpJoinReqHandle(m) \/ WalkRecv(m) \/ AddFileReqHandle(m)
                                  \/ DelFileReqHandle(m)
           \/ \E n \in Node : \/ HelpEntry(n) \/ HelpFurthest(n) \/ HelpFiles(n)
                              \/ HelpStart(n) \/ RecvHelpJoin(n) \/ RecvRouteTable(n)
                              \/ RecvLookupNode(n) \/ WalkSend(n) \/ RecvFileTable(n)
<1>1. CASE StartHost
  BY <1>1, RequestParts DEF StartHost, Crash, CommandEnds, Returned, Alive, MenuLookups,
     joinVars, fileVars, uiVars
<1>2. CASE UserStep \/ LookupStep \/ FileStep
  BY <1>2, RequestParts DEF UserStep, LookupStep, FileStep, EnterCommand, UserExit, LookupCall,
     LookupReqHandle, AddReturn, DeleteReturn, SearchReturn, Crash, CommandEnds, Returned,
     Alive, MenuLookups, joinVars, fileVars, uiVars
<1>3. CASE JoinStep
  BY <1>3, RequestParts DEF JoinStep, JoinReqHandle, HandleUpdateRouteReq, JoinReqReturn,
     HelpPipeBroken, JoinFails, Crash, CommandEnds, Returned, Alive, MenuLookups, joinVars,
     fileVars, uiVars
<1>4. CASE UNCHANGED vars
  BY <1>4 DEF vars, joinVars, fileVars
<1> QED BY <1>1, <1>2, <1>3, <1>4 DEF Next, ThreadStep

\* No step loses an entry but in those ways.
LEMMA KeptStep ==
    ASSUME TypeOK, AskedOnce, MenuLookups, [Next]_vars, NEW k \in Key,
           NEW holder \in Node, Stored(holder, k) \/ UnderWay(holder, k)
    PROVE  Kept(k)
<1>1. ASSUME NEW h \in Positions, InitialChord(h) PROVE Kept(k)
  <2>1. /\ \A y \in Node : \/ phase'[y] = phase[y]
                           \/ phase'[y] \in Joining \cup {"up"} /\ phase[y] = "off"
                           \/ phase'[y] \in Joining /\ phase[y] \in Joining
        /\ UNCHANGED << DHT, help >>
    BY <1>1 DEF InitialChord, TypeOK, Joining, joinVars, fileVars
  <2> QED BY <2>1, SameKeeps DEF Joining
<1>2. ASSUME NEW n \in Node, NEW e \in Node, NEW h \in FreePositions, JoinChord(n, e, h)
      PROVE  Kept(k)
  <2>1. /\ \A y \in Node : \/ phase'[y] = phase[y]
                           \/ phase'[y] \in Joining \cup {"up"} /\ phase[y] = "off"
                           \/ phase'[y] \in Joining /\ phase[y] \in Joining
        /\ UNCHANGED << DHT, help >>
    BY <1>2 DEF JoinChord, TypeOK, Joining, joinVars, fileVars
  <2> QED BY <2>1, SameKeeps DEF Joining
<1>3. ASSUME NEW m \in requests, HelpJoinReqHandle(m) PROVE Kept(k)
  <2>1. m.to \in Node /\ Alive(m.to) /\ m.new \in Node /\ help[m.new].pc = "idle"
    BY <1>3, RequestParts DEF HelpJoinReqHandle, AskedOnce
  <2>2. CASE Crash(m.to)
    BY <2>1, <2>2, CrashKeeps
  <2>3. CASE ~Crash(m.to)
    <3>1. /\ \A y \in Node \ {m.new} : help'[y] = help[y]
          /\ UNCHANGED << phase, DHT >>
      BY <1>3, <2>3 DEF HelpJoinReqHandle, TypeOK, fileVars
    <3> QED BY <2>1, <3>1 DEF Kept, Stored, UnderWay, Alive
  <2> QED BY <2>2, <2>3
<1>4. ASSUME NEW m \in requests, WalkRecv(m) PROVE Kept(k)
  <2>1. /\ \A y \in Node : \/ phase'[y] = phase[y]
                           \/ phase'[y] \in Joining \cup {"up"} /\ phase[y] = "off"
                           \/ phase'[y] \in Joining /\ phase[y] \in Joining
        /\ UNCHANGED << DHT, help >>
    BY <1>4 DEF WalkRecv, TypeOK, Joining, joinVars, fileVars
  <2> QED BY <2>1, SameKeeps DEF Joining
<1>5. ASSUME NEW n \in Node, HelpEntry(n) PROVE Kept(k)
  <2>1. /\ \A y \in Node : help'[y].files = help[y].files
        /\ \A y \in Node \ {n} : help'[y] = help[y]
        /\ help'[n].pc \in {"entry", "furthest", "files"} => help[n].pc \in {"entry", "furthest"}
        /\ help'[n].pc \in {"entry", "furthest", "files", "done"}
        /\ UNCHANGED << phase, DHT >>
    BY <1>5 DEF HelpEntry, TypeOK, HelpState, fileVars
  <2> QED BY <2>1 DEF Kept, Stored, UnderWay, Alive
<1>6. ASSUME NEW n \in Node, HelpFurthest(n) PROVE Kept(k)
  <2>1. /\ \A y \in Node : help'[y].files = help[y].files
        /\ \A y \in Node \ {n} : help'[y] = help[y]
        /\ help'[n].pc \in {"entry", "furthest", "files"} => help[n].pc \in {"entry", "furthest"}
        /\ help'[n].pc \in {"entry", "furthest", "files", "done"}
        /\ UNCHANGED << phase, DHT >>
    BY <1>6 DEF HelpFurthest, TypeOK, HelpState, fileVars
  <2> QED BY <2>1 DEF Kept, Stored, UnderWay, Alive
<1>7. ASSUME NEW n \in Node, HelpFiles(n) PROVE Kept(k)
  <2> DEFINE r == help[n].host
             moved == Transferred(r, n)
  <2>1. /\ r \in Node /\ help[n].pc = "files" /\ UNCHANGED phase
        /\ DHT' = [DHT EXCEPT ![r] = [c \in Key |-> IF c \in moved THEN NoNode ELSE DHT[r][c]]]
    BY <1>7 DEF HelpFiles, Alive
  <2>2. /\ \A y \in Node \ {n} : help'[y] = help[y]
        /\ help'[n].pc = "start"
        /\ help'[n].files[k] = IF k \in moved THEN DHT[r][k] ELSE NoNode
    BY <1>7 DEF HelpFiles, TypeOK, HelpState
  <2>3. k \in moved => DHT[r][k] # NoNode
    BY DEF Transferred
  <2> HIDE DEF moved, r
  <2>4. \A y \in Node : DHT'[y][k] = IF y = r /\ k \in moved THEN NoNode ELSE DHT[y][k]
    BY <2>1 DEF TypeOK
  <2>5. phase[n] \in Joining \cup {"dead"}
    BY <2>1 DEF AskedOnce
  <2>6. CASE phase[n] = "dead"
    BY <2>1, <2>2, <2>6 DEF Kept, Alive
  <2>7. CASE phase[n] \in Joining
    <3>1. CASE k \in moved
      <4>1. UnderWay(n, k)'
        BY <2>1, <2>2, <2>3, <2>7, <3>1 DEF UnderWay
      <4> QED BY <4>1 DEF Kept
    <3>2. CASE k \notin moved
      BY <2>1, <2>2, <2>4, <2>7, <3>2 DEF Kept, Stored, UnderWay, Alive
    <3> QED BY <3>1, <3>2
  <2> QED BY <2>5, <2>6, <2>7
<1>8. ASSUME NEW n \in Node, HelpStart(n) PROVE Kept(k)
  <2>1. /\ \A y \in Node : help'[y].files = help[y].files
        /\ \A y \in Node \ {n} : help'[y] = help[y]
        /\ help'[n].pc \in {"entry", "furthest", "files"} => help[n].pc \in {"entry", "furthest"}
        /\ help'[n].pc \in {"entry", "furthest", "files", "done"}
        /\ UNCHANGED << phase, DHT >>
    BY <1>8 DEF HelpStart, TypeOK, HelpState, fileVars
  <2> QED BY <2>1 DEF Kept, Stored, UnderWay, Alive
<1>9. ASSUME NEW n \in Node, RecvHelpJoin(n) PROVE Kept(k)
  <2>1. /\ \A y \in Node : \/ phase'[y] = phase[y]
                           \/ phase'[y] \in Joining \cup {"up"} /\ phase[y] = "off"
                           \/ phase'[y] \in Joining /\ phase[y] \in Joining
        /\ UNCHANGED << DHT, help >>
    BY <1>9 DEF RecvHelpJoin, TypeOK, Joining, joinVars, fileVars
  <2> QED BY <2>1, SameKeeps DEF Joining
<1>10. ASSUME NEW n \in Node, RecvRouteTable(n) PROVE Kept(k)
  <2>1. /\ \A y \in Node : \/ phase'[y] = phase[y]
                           \/ phase'[y] \in Joining \cup {"up"} /\ phase[y] = "off"
                           \/ phase'[y] \in Joining /\ phase[y] \in Joining
        /\ UNCHANGED << DHT, help >>
    BY <1>10 DEF RecvRouteTable, TypeOK, Joining, joinVars, fileVars
  <2> QED BY <2>1, SameKeeps DEF Joining
<1>11. ASSUME NEW n \in Node, RecvLookupNode(n) PROVE Kept(k)
  <2>1. /\ \A y \in Node : \/ phase'[y] = phase[y]
                           \/ phase'[y] \in Joining \cup {"up"} /\ phase[y] = "off"
                           \/ phase'[y] \in Joining /\ phase[y] \in Joining
        /\ UNCHANGED << DHT, help >>
    BY <1>11 DEF RecvLookupNode, TypeOK, Joining, joinVars, fileVars
  <2> QED BY <2>1, SameKeeps DEF Joining
<1>12. ASSUME NEW n \in Node, WalkSend(n) PROVE Kept(k)
  <2>1. CASE Crash(n)
    BY <1>12, <2>1, CrashKeeps DEF WalkSend, Alive
  <2>2. CASE ~Crash(n)
    <3>1. \A y \in Node : phase'[y] = phase[y] \/ (phase'[y] = "wait" /\ phase[y] = "walk")
      BY <1>12, <2>2 DEF WalkSend, TypeOK
    <3>2. UNCHANGED << DHT, help >>
      BY <1>12, <2>2 DEF WalkSend, joinVars, fileVars
    <3> QED BY <3>1, <3>2, SameKeeps DEF Joining
  <2> QED BY <2>1, <2>2
<1>13. ASSUME NEW n \in Node, RecvFileTable(n) PROVE Kept(k)
  <2>1. /\ phase[n] = "files" /\ help' = help
        /\ \A y \in Node : phase'[y] = IF y = n THEN "up" ELSE phase[y]
    BY <1>13 DEF RecvFileTable, TypeOK, joinVars
  <2>2. \A y \in Node : DHT'[y][k] = IF y # n \/ DHT[n][k] # NoNode THEN DHT[y][k]
                                                                   ELSE help[n].files[k]
    BY <1>13 DEF RecvFileTable, TypeOK
  <2> QED BY <2>1, <2>2 DEF Kept, Stored, UnderWay, Alive, Joining
<1>14. ASSUME NEW m \in requests, AddFileReqHandle(m) PROVE Kept(k)
  <2>1. \A y \in Node : DHT[y][k] # NoNode => DHT'[y][k] # NoNode
    BY <1>14, RequestParts, Constants DEF AddFileReqHandle, TypeOK
  <2> QED BY <1>14, <2>1 DEF AddFileReqHandle, Kept, Stored, UnderWay, Alive, joinVars
<1>15. ASSUME NEW m \in requests, DelFileReqHandle(m) PROVE Kept(k)
  <2>1. m.to \in Node /\ Alive(m.to) /\ m.key \in Key
    BY <1>15, RequestParts DEF DelFileReqHandle
  <2>2. CASE Crash(m.to)
    BY <2>1, <2>2, CrashKeeps
  <2>3. CASE ~Crash(m.to)
    <3>1. requests' = requests \ {m} /\ m.type = "delete" /\ phase' = phase /\ help' = help
          /\ DHT' = [DHT EXCEPT ![m.to][m.key] = NoNode]
      BY <1>15, <2>3 DEF DelFileReqHandle, joinVars
    <3>2. CASE m.key = k
      BY <3>1, <3>2 DEF Kept
    <3>3. CASE m.key # k
      <4>1. \A y \in Node : DHT'[y][k] = DHT[y][k]
        BY <2>1, <3>1, <3>3 DEF TypeOK
      <4> QED BY <3>1, <4>1 DEF Kept, Stored, UnderWay, Alive
    <3> QED BY <3>2, <3>3
  <2> QED BY <2>2, <2>3
<1>16. CASE UNCHANGED << DHT, help, phase >> \/ \E x \in Node : Alive(x) /\ Crash(x)
  BY <1>16, SameKeeps, CrashKeeps
<1> QED BY <1>1, <1>2, <1>3, <1>4, <1>5, <1>6, <1>7, <1>8, <1>9, <1>10, <1>11, <1>12, <1>13,
           <1>14, <1>15, <1>16, KeptWriters DEF ReadyInv

\* The steps that matter to it.
LEMMA MenuLookupsWriters ==
    ASSUME TypeOK, [Next]_vars
    PROVE  \/ \A x \in Node : lookup'[<<"ui", x>>] = lookup[<<"ui", x>>]
           \/ \E n \in Node, op \in Commands, c \in Key : EnterCommand(n, op, c)
           \/ \E t \in Thread : LookupCall(t) \/ LookupReqHandle(t)
           \/ \E n \in Node : AddReturn(n) \/ DeleteReturn(n) \/ SearchReturn(n)
<1>1. CASE StartHost
  BY <1>1 DEF StartHost, InitialChord, JoinChord, Crash, CommandEnds, TypeOK, Thread, joinVars,
     fileVars, uiVars
<1>2. CASE UserStep \/ LookupStep \/ FileStep
  BY <1>2 DEF UserStep, LookupStep, FileStep, UserExit, AddFileReqHandle, DelFileReqHandle,
     Crash, CommandEnds, TypeOK, Thread, joinVars, fileVars, uiVars
<1>3. CASE JoinStep
  BY <1>3 DEF JoinStep, JoinReqHandle, HelpJoinReqHandle, HandleUpdateRouteReq, WalkRecv,
     JoinReqReturn, HelpEntry, HelpFurthest, HelpFiles, HelpStart, HelpPipeBroken, RecvHelpJoin,
     RecvRouteTable, RecvLookupNode, WalkSend, RecvFileTable, JoinFails, Crash, CommandEnds,
     TypeOK, Thread, joinVars, fileVars, uiVars
<1>4. CASE UNCHANGED vars
  BY <1>4 DEF vars, joinVars, fileVars
<1> QED BY <1>1, <1>2, <1>3, <1>4 DEF Next, ThreadStep

\* Every menu goes on asking for itself.
LEMMA MenuLookupsStep ==
    ASSUME TypeOK, MenuLookups, [Next]_vars
    PROVE  MenuLookups'
<1>1. ASSUME NEW n \in Node, NEW op \in Commands, NEW c \in Key, EnterCommand(n, op, c)
      PROVE  MenuLookups'
  <2>1. \A x \in Node \ {n} : lookup'[<<"ui", x>>] = lookup[<<"ui", x>>]
    BY <1>1 DEF EnterCommand, CommandEnds, Crash, TypeOK, Thread
  <2>2. lookup' = lookup \/ lookup'[<<"ui", n>>] = Lookup(n, c)
    BY <1>1 DEF EnterCommand, CommandEnds, Crash, TypeOK, Thread
  <2> QED BY <2>1, <2>2 DEF MenuLookups, Lookup, NoLookup
<1>2. ASSUME NEW t \in Thread, LookupCall(t) PROVE MenuLookups'
  <2> DEFINE l == lookup[t]
  <2>1. l \in LookupState /\ l.st # "idle"
    BY <1>2 DEF LookupCall, TypeOK
  <2>2. Answer(l, l.src).src = l.src /\ [l EXCEPT !.st = "fwd", !.at = NextHop(l.src, l.hash)].src = l.src
        /\ [l EXCEPT !.at = NextHop(l.src, l.hash)].src = l.src
    BY <2>1 DEF Answer, LookupState
  <2>3. \/ lookup' = lookup \/ lookup' = [lookup EXCEPT ![t] = Answer(l, l.src)]
        \/ lookup' = [lookup EXCEPT ![t] = [l EXCEPT !.st = "fwd", !.at = NextHop(l.src, l.hash)]]
    BY <1>2 DEF LookupCall, Crash, TypeOK
  <2> HIDE DEF l
  <2>4. \A u \in Thread : lookup'[u].src = lookup[u].src
    BY <2>2, <2>3 DEF TypeOK, l
  <2>5. \A u \in Thread : u = t \/ lookup'[u] = lookup[u]
    BY <2>3 DEF TypeOK, l
  <2> QED BY <2>1, <2>4, <2>5 DEF MenuLookups, Thread, l
<1>3. ASSUME NEW t \in Thread, LookupReqHandle(t) PROVE MenuLookups'
  <2> DEFINE l == lookup[t]
  <2>1. l \in LookupState /\ l.st # "idle"
    BY <1>3 DEF LookupReqHandle, TypeOK
  <2>2. Answer(l, l.at).src = l.src /\ [l EXCEPT !.st = "fwd", !.at = NextHop(l.at, l.hash)].src = l.src
        /\ [l EXCEPT !.at = NextHop(l.at, l.hash)].src = l.src
    BY <2>1 DEF Answer, LookupState
  <2>3. \/ lookup' = lookup \/ lookup' = [lookup EXCEPT ![t] = Answer(l, l.at)]
        \/ lookup' = [lookup EXCEPT ![t] = [l EXCEPT !.at = NextHop(l.at, l.hash)]]
    BY <1>3 DEF LookupReqHandle, Crash, TypeOK
  <2> HIDE DEF l
  <2>4. \A u \in Thread : lookup'[u].src = lookup[u].src
    BY <2>2, <2>3 DEF TypeOK, l
  <2>5. \A u \in Thread : u = t \/ lookup'[u] = lookup[u]
    BY <2>3 DEF TypeOK, l
  <2> QED BY <2>1, <2>4, <2>5 DEF MenuLookups, Thread, l
<1>4. ASSUME NEW n \in Node, AddReturn(n) PROVE MenuLookups'
  <2>1. \A x \in Node \ {n} : lookup'[<<"ui", x>>] = lookup[<<"ui", x>>]
    BY <1>4 DEF AddReturn, CommandEnds, Crash, TypeOK, Thread
  <2>2. lookup' = lookup \/ lookup'[<<"ui", n>>] = NoLookup
    BY <1>4 DEF AddReturn, CommandEnds, Crash, TypeOK, Thread
  <2> QED BY <2>1, <2>2 DEF MenuLookups, Lookup, NoLookup
<1>5. ASSUME NEW n \in Node, DeleteReturn(n) PROVE MenuLookups'
  <2>1. \A x \in Node \ {n} : lookup'[<<"ui", x>>] = lookup[<<"ui", x>>]
    BY <1>5 DEF DeleteReturn, CommandEnds, Crash, TypeOK, Thread
  <2>2. lookup' = lookup \/ lookup'[<<"ui", n>>] = NoLookup
    BY <1>5 DEF DeleteReturn, CommandEnds, Crash, TypeOK, Thread
  <2> QED BY <2>1, <2>2 DEF MenuLookups, Lookup, NoLookup
<1>6. ASSUME NEW n \in Node, SearchReturn(n) PROVE MenuLookups'
  <2>1. \A x \in Node \ {n} : lookup'[<<"ui", x>>] = lookup[<<"ui", x>>]
    BY <1>6 DEF SearchReturn, CommandEnds, Crash, TypeOK, Thread
  <2>2. lookup' = lookup \/ lookup'[<<"ui", n>>] = NoLookup
    BY <1>6 DEF SearchReturn, CommandEnds, Crash, TypeOK, Thread
  <2> QED BY <2>1, <2>2 DEF MenuLookups, Lookup, NoLookup
<1>7. CASE \A x \in Node : lookup'[<<"ui", x>>] = lookup[<<"ui", x>>]
  BY <1>7 DEF MenuLookups
<1> QED BY <1>1, <1>2, <1>3, <1>4, <1>5, <1>6, <1>7, MenuLookupsWriters DEF ReadyInv

\* However joins overlap and whoever dies, an entry that is indexed stays so until
\* it is deleted, a process ends, or it is written to a host that is gone.
THEOREM IndexIsKept == Spec => IndexKept
<1> DEFINE Inv == TypeOK /\ AskedOnce /\ MenuLookups
<1>0. Init => Inv
  BY InitType, AskedOnceInit
<1>1. Inv /\ [Next]_vars => Inv'
  BY NextType, StutterType, AskedOnceStep, MenuLookupsStep
<1>2. Inv /\ [Next]_vars =>
          [\A k \in Key : Indexed(k) /\ ~Indexed(k)' =>
              \/ \E m \in requests \ requests' : m.type = "delete" /\ m.key = k
              \/ \E n \in Node : Alive(n) /\ phase'[n] = "dead"
              \/ \E n \in Node : ~Alive(n) /\ help[n].pc = "files" /\ help'[n].pc = "start"]_vars
  <2> SUFFICES ASSUME Inv, [Next]_vars, NEW k \in Key, Indexed(k), ~Indexed(k)'
               PROVE  \/ \E m \in requests \ requests' : m.type = "delete" /\ m.key = k
                      \/ \E n \in Node : Alive(n) /\ phase'[n] = "dead"
                      \/ \E n \in Node : ~Alive(n) /\ help[n].pc = "files" /\ help'[n].pc = "start"
    OBVIOUS
  <2>1. PICK holder \in Node : Stored(holder, k) \/ UnderWay(holder, k)
    BY IndexedMeans
  <2>2. Kept(k)
    BY <2>1, KeptStep
  <2>3. ~\E n \in Node : (Stored(n, k) \/ UnderWay(n, k))'
    <3>1. (Indexed(k) <=> \E n \in Node : Stored(n, k) \/ UnderWay(n, k))'
      BY IndexedMeans, PTL
    <3> QED BY <3>1
  <2> QED BY <2>2, <2>3 DEF Kept
<1> QED BY <1>0, <1>1, <1>2, PTL DEF Spec, IndexKept
=============================================================================
