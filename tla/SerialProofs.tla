---------------------------- MODULE SerialProofs ----------------------------
(***************************************************************************)
(* The ring, for every set of hosts and every circle, when hosts join one  *)
(* after another: each host starts right after its predecessor and enters  *)
(* its successor first (RingConsistent), and a lookup, however long it     *)
(* takes, names the owner of its hash when it answers (LookupAtomic).  And *)
(* the routing tables: every entry is exact when the hosts lie in one half *)
(* of the circle (TablesExactInCluster, the last part of the module).      *)
(*                                                                         *)
(* None is inductive.  In between, one host is on its way in, and three    *)
(* things change hands one after another: the walk passes the newcomer     *)
(* from member to member into their tables, its own local_start appears    *)
(* when the walk has gone round, and the helper, last, moves its own       *)
(* local_start past the newcomer.  The invariant Serial says where each of *)
(* them stands, and that whatever is under way, lookups, requests, the     *)
(* helper's record, names members only; and it says that the lookup of an  *)
(* entry 0, asked of a ring that does not know the newcomer, names the     *)
(* host after it, which is why the helper is the right one.                *)
(*                                                                         *)
(* It holds as long as nobody has died and no two hosts sit one point      *)
(* apart.  A helper that sits on the point after the newcomer is a whole   *)
(* circle away from that point by get_distance, and enters the newcomer    *)
(* into entry 0 of its own table.                                          *)
(***************************************************************************)
EXTENDS JoinProofs

\* Hosts that have joined, and the host that is joining.
Members == { x \in Node : phase[x] = "up" /\ help[x].pc \in {"idle", "done"} }
Newcomers == Started \ Members

\* No host is one point before another: all that is needed of Spaced.
Apart == \A a, b \in Started : GetDistance(myHash[a], myHash[b]) # 1

\* The first host is the first.
FirstFirst == Intact /\ phase[First] = "off" => \A n \in Node : phase[n] = "off"

\* Nobody shares a hash, and hosts join one after another.
OneNewcomer ==
    /\ Distinct(myHash, Members \cup Newcomers)
    /\ \A a, b \in Newcomers : a = b

\* The newcomer has read no more than its helper has written.
Stages == \A n \in Node :
    /\ phase[n] \in {"walk", "wait", "files"} => help[n].pc \in {"files", "start", "done"}
    /\ phase[n] = "prev" => help[n].pc \notin {"idle", "entry"}
    /\ phase[n] = "table" => help[n].pc # "idle"
    /\ phase[n] = "up" => help[n].pc \in {"idle", "start", "done"}

\* Members are asked, and the one after the newcomer is asked for help.
Asking == \A m \in requests :
    m.type \in {"join", "help"} =>
        m.to \in Members /\ (m.type = "help" => Follows(myHash, Members, m.new, m.to))

\* A lookup of a join visits members only.
Visits(l) == /\ l.st # "idle" => l.src \in Members
             /\ l.st = "fwd" => l.at \in Members
             /\ l.st = "done" => l.succ \in Members

\* The lookup for the entry host finds the one after the newcomer ...
JoinLookups == \A n \in Node :
    LET l == lookup[<<"join", n>>]
    IN  /\ Visits(l)
        /\ l.st # "idle" => l.hash = myHash[n]
        /\ l.st = "done" => Follows(myHash, Members, n, l.succ)

\* ... and so does the first of the helper's.
HelpLookups == \A n \in Node :
    LET l == lookup[<<"help", n>>]
    IN  /\ Visits(l)
        /\ l.st # "idle" => help[n].pc \in {"entry", "furthest"}
        /\ l.st # "idle" /\ help[n].pc = "entry" => l.hash = EntryHash(n, help[n].i)
        /\ l.st = "done" /\ help[n].pc = "entry" /\ help[n].i = 0 =>
              Follows(myHash, Members, n, l.succ)

\* The helper comes after the newcomer and is the first entry of its table.
Helpers == \A n \in Newcomers :
    /\ help[n].pc \in {"entry", "furthest", "files", "start"} =>
          Follows(myHash, Members, n, help[n].host)
    /\ help[n].pc # "idle" =>
          \A i \in FingerIndex : help[n].table[i] \in Members \cup {n, NoNode}
    /\ (help[n].pc = "entry" /\ help[n].i > 0) \/ help[n].pc \notin {"idle", "entry"} =>
          Follows(myHash, Members, n, help[n].table[0])
    /\ help[n].pc \in {"files", "start", "done"} => help[n].prev \in Members

\* The walk visits members, one at a time.
Walks ==
    /\ \A n \in Node : phase[n] = "walk" => walk[n] \in Members
    /\ \A m \in requests : m.type = "update" => m.to \in Members /\ phase[m.new] = "wait"
    /\ \A m \in requests : m.type = "updated" =>
          m.cur \in Members /\ phase[m.to] = "wait" /\ m.next = fingerTable[m.cur][0]
    /\ \A m, o \in requests :
          m.type \in {"update", "updated"} /\ o.type \in {"update", "updated"} => m = o

\* The newcomer is walking, or has.
Walking(n) == phase[n] \in {"walk", "wait", "files", "up"}

\* Members enter members, and from its walk on the newcomer.
Fingers ==
    /\ \A x \in Members, i \in FingerIndex :
          LET f == fingerTable[x][i]
          IN  f \in Members \cup {NoNode} \/ (f \in Newcomers /\ Walking(f))
    /\ \A n \in Newcomers, i \in FingerIndex :
          phase[n] = "prev" \/ Walking(n) => fingerTable[n][i] \in Members \cup {n, NoNode}

\* First fingers link the members, and the newcomer once its walk has ended.
Links ==
    /\ \A x \in Members :
          \/ Follows(myHash, Members, x, fingerTable[x][0])
          \/ /\ fingerTable[x][0] \in Newcomers /\ Walking(fingerTable[x][0])
             /\ Follows(myHash, Members \cup {fingerTable[x][0]}, x, fingerTable[x][0])
    /\ \A n \in Newcomers : phase[n] = "prev" \/ Walking(n) =>
          Follows(myHash, Members, n, fingerTable[n][0])
    /\ \A n \in Newcomers : phase[n] \in {"files", "up"} =>
          \A x \in Members : Follows(myHash, Members \cup {n}, x, fingerTable[x][0])

\* The hosts that are counted as predecessors: the helper counts the newcomer
\* from its last assignment on.
Counted == Members \cup { n \in Newcomers : help[n].pc = "done" }

\* Starts cut the circle at the members, and at the newcomer once counted.
Starts ==
    /\ \A x \in Members : StartsAfter(myHash, Counted, x, localStart[x])
    /\ \A n \in Newcomers : phase[n] \in {"files", "up"} =>
          StartsAfter(myHash, Members \cup {n}, n, localStart[n])

Serial == /\ OneNewcomer /\ Stages /\ Asking /\ JoinLookups /\ HelpLookups /\ Helpers
          /\ Walks /\ Fingers /\ Links /\ Starts

SerialInv == TypeOK /\ AskedOnce /\ FirstFirst /\ (Intact /\ Apart => Serial)

-----------------------------------------------------------------------------
(* What is not touched stays.                                              *)

\* The same hosts have joined, and the same host is joining.
SameHosts == UNCHANGED << Members, Newcomers, myHash >>

\* Who has joined and who is joining depends on phases and the helper's step alone.
LEMMA SameHostsWhen ==
    ASSUME \A x \in Node : /\ phase'[x] = "off" <=> phase[x] = "off"
                           /\ (phase'[x] = "up" /\ help'[x].pc \in {"idle", "done"})
                                <=> (phase[x] = "up" /\ help[x].pc \in {"idle", "done"}),
           UNCHANGED myHash
    PROVE  SameHosts
<1>1. Members' = Members
  BY DEF Members
<1>2. Started' = Started
  BY DEF Started
<1> QED BY <1>1, <1>2 DEF SameHosts, Newcomers

\* A step that leaves what a part of Serial is about leaves that part.
LEMMA OneNewcomerStays ==
    ASSUME OneNewcomer, SameHosts
    PROVE  OneNewcomer'
BY DEF OneNewcomer, SameHosts

\* ... Stages
LEMMA StagesStay ==
    ASSUME Stages, UNCHANGED << phase, help >>
    PROVE  Stages'
BY DEF Stages

\* ... Asking, when no host is asked for help or for an entry host
LEMMA AskingStays ==
    ASSUME Asking, SameHosts,
           \A m \in requests' : m.type \in {"join", "help"} => m \in requests
    PROVE  Asking'
BY DEF Asking, SameHosts

\* ... JoinLookups
LEMMA JoinLookupsStay ==
    ASSUME JoinLookups, SameHosts,
           \A n \in Node : lookup'[<<"join", n>>] = lookup[<<"join", n>>]
    PROVE  JoinLookups'
BY DEF JoinLookups, Visits, SameHosts

\* ... HelpLookups
LEMMA HelpLookupsStay ==
    ASSUME HelpLookups, SameHosts, UNCHANGED help,
           \A n \in Node : lookup'[<<"help", n>>] = lookup[<<"help", n>>]
    PROVE  HelpLookups'
BY DEF HelpLookups, Visits, SameHosts, EntryHash

\* ... Helpers
LEMMA HelpersStay ==
    ASSUME Helpers, SameHosts, UNCHANGED help
    PROVE  Helpers'
BY DEF Helpers, SameHosts

\* ... Walks, when no route update is sent
LEMMA WalksStay ==
    ASSUME Walks, SameHosts, UNCHANGED << walk, fingerTable >>,
           \A n \in Node : /\ phase'[n] = "walk" => phase[n] = "walk"
                           /\ phase[n] = "wait" => phase'[n] = "wait",
           TypeOK,
           \A m \in requests' : m.type \in {"update", "updated"} => m \in requests
    PROVE  Walks'
<1>1. \A m \in requests : /\ m.type = "update" => m.new \in Node
                          /\ m.type = "updated" => m.to \in Node
  BY RequestParts
<1> QED BY <1>1 DEF Walks, SameHosts

\* ... Fingers, when no host begins its walk or gets its entry host
LEMMA FingersStay ==
    ASSUME Fingers, SameHosts, UNCHANGED fingerTable,
           \A n \in Node : Walking(n) => Walking(n)',
           \A n \in Node : (phase[n] = "prev" \/ Walking(n))' => phase[n] = "prev" \/ Walking(n)
    PROVE  Fingers'
<1>1. Newcomers \subseteq Node
  BY DEF Newcomers, Started
<1> QED BY <1>1 DEF Fingers, SameHosts

\* ... Links, when no host begins or ends its walk
LEMMA LinksStay ==
    ASSUME Links, SameHosts, UNCHANGED fingerTable,
           \A n \in Node : Walking(n) => Walking(n)',
           \A n \in Node : (phase[n] = "prev" \/ Walking(n))' => phase[n] = "prev" \/ Walking(n),
           \A n \in Newcomers : phase'[n] \in {"files", "up"} => phase[n] \in {"files", "up"}
    PROVE  Links'
<1>1. Newcomers \subseteq Node
  BY DEF Newcomers, Started
<1>2. (\A x \in Members :
          \/ Follows(myHash, Members, x, fingerTable[x][0])
          \/ /\ fingerTable[x][0] \in Newcomers /\ Walking(fingerTable[x][0])
             /\ Follows(myHash, Members \cup {fingerTable[x][0]}, x, fingerTable[x][0]))'
  BY <1>1 DEF Links, SameHosts
<1> QED BY <1>1, <1>2 DEF Links, SameHosts

\* ... Starts, when no host ends its walk and none is counted anew
LEMMA StartsStay ==
    ASSUME Starts, SameHosts, UNCHANGED localStart,
           \A n \in Newcomers : help'[n].pc = "done" <=> help[n].pc = "done",
           \A n \in Newcomers : phase'[n] \in {"files", "up"} => phase[n] \in {"files", "up"}
    PROVE  Starts'
<1>1. Counted' = Counted
  BY DEF Counted, SameHosts
<1> QED BY <1>1 DEF Starts, SameHosts

\* The hosts in the model.
LEMMA HostSets ==
    /\ Members \subseteq Started /\ Newcomers \subseteq Started /\ Started \subseteq Node
    /\ Members \cup Newcomers = Started /\ Members \cap Newcomers = {}
BY DEF Members, Newcomers, Started

\* While nobody has died the newcomer is between two phases of its join, or its
\* helper has one assignment left.
LEMMA WhoIsNew ==
    ASSUME TypeOK, AskedOnce, Intact, Stages, NEW n \in Node
    PROVE  n \in Newcomers <=> phase[n] \in Joining \/ (phase[n] = "up" /\ help[n].pc = "start")
<1>1. phase[n] \in Phase /\ phase[n] # "dead"
  BY DEF TypeOK, Intact
<1>2. n \in Newcomers <=> phase[n] # "off" /\ ~(phase[n] = "up" /\ help[n].pc \in {"idle", "done"})
  BY DEF Newcomers, Started, Members
<1>3. phase[n] = "up" => help[n].pc \in {"idle", "start", "done"}
  BY DEF Stages
<1> QED BY <1>1, <1>2, <1>3 DEF Phase, Joining

\* Steps that touch nothing of this.
LEMMA SerialStays ==
    ASSUME TypeOK, Serial,
           UNCHANGED << phase, myHash, fingerTable, localStart, help, walk >>,
           \A n \in Node : /\ lookup'[<<"join", n>>] = lookup[<<"join", n>>]
                           /\ lookup'[<<"help", n>>] = lookup[<<"help", n>>],
           \A m \in requests' : m.type \in {"join", "help", "update", "updated"} => m \in requests
    PROVE  Serial'
<1>1. SameHosts
  BY SameHostsWhen
<1>2. \A n : Walking(n) <=> Walking(n)'
  BY DEF Walking
<1> USE <1>1 DEF Serial
<1>3. OneNewcomer' /\ Stages' /\ Asking'
  BY OneNewcomerStays, StagesStay, AskingStays
<1>4. JoinLookups' /\ HelpLookups' /\ Helpers'
  BY JoinLookupsStay, HelpLookupsStay, HelpersStay
<1>5. Walks'
  BY WalksStay
<1>6. Fingers' /\ Links' /\ Starts'
  BY <1>2, FingersStay, LinksStay, StartsStay
<1> QED BY <1>3, <1>4, <1>5, <1>6

\* Nobody comes back to life.
LEMMA DeadStays ==
    ASSUME TypeOK, [Next]_vars, Intact'
    PROVE  Intact
<1>1. \A n \in Node : phase[n] = "dead" => phase'[n] = "dead"
  <2> SUFFICES ASSUME NEW n \in Node, phase[n] = "dead" PROVE phase'[n] = "dead"
    OBVIOUS
  <2>1. \/ UNCHANGED phase \/ \E x : phase' = [phase EXCEPT ![x] = "dead"]
        \/ \E h \in Positions : InitialChord(h)
        \/ \E x, e \in Node, h \in FreePositions : JoinChord(x, e, h)
        \/ \E m \in requests : WalkRecv(m)
        \/ \E x \in Node : \/ RecvHelpJoin(x) \/ RecvRouteTable(x) \/ RecvLookupNode(x)
                           \/ WalkSend(x) \/ RecvFileTable(x)
    BY PhasesReadyWriters
  <2>2. ASSUME NEW m \in requests, WalkRecv(m) PROVE phase'[n] = "dead"
    BY <2>2, RequestParts DEF WalkRecv, TypeOK
  <2>3. ASSUME NEW x \in Node,
               \/ RecvHelpJoin(x) \/ RecvRouteTable(x) \/ RecvLookupNode(x)
               \/ WalkSend(x) \/ RecvFileTable(x)
        PROVE  phase'[n] = "dead"
    BY <2>3 DEF RecvHelpJoin, RecvRouteTable, RecvLookupNode, WalkSend, RecvFileTable,
       TypeOK, Crash
  <2>4. ASSUME NEW h \in Positions, InitialChord(h) PROVE phase'[n] = "dead"
    BY <2>4 DEF InitialChord, TypeOK
  <2>5. ASSUME NEW x \in Node, NEW e \in Node, NEW h \in FreePositions, JoinChord(x, e, h)
        PROVE  phase'[n] = "dead"
    BY <2>5 DEF JoinChord, TypeOK
  <2>6. CASE UNCHANGED phase \/ \E x : phase' = [phase EXCEPT ![x] = "dead"]
    BY <2>6 DEF TypeOK
  <2> QED BY <2>1, <2>2, <2>3, <2>4, <2>5, <2>6
<1> QED BY <1>1 DEF Intact

\* A host that ends is dead.
LEMMA CrashEnds ==
    ASSUME TypeOK, NEW x \in Node, Crash(x)
    PROVE  ~Intact'
BY DEF TypeOK, Crash, Intact

\* Started hosts remain started, with their hashes.
LEMMA StartedStays ==
    ASSUME TypeOK, [Next]_vars
    PROVE  \A n \in Started : n \in Started' /\ myHash'[n] = myHash[n]
<1>1. \/ UNCHANGED myHash
      \/ \E h \in Positions : InitialChord(h)
      \/ \E x, e \in Node, h \in FreePositions : JoinChord(x, e, h)
  BY DEF Next, StartHost, UserStep, ThreadStep, LookupStep, JoinStep, FileStep, vars,
     EnterCommand, UserExit, LookupCall, LookupReqHandle, AddReturn, DeleteReturn,
     SearchReturn, AddFileReqHandle, DelFileReqHandle, JoinReqHandle, HelpJoinReqHandle,
     HandleUpdateRouteReq, WalkRecv, JoinReqReturn, HelpEntry, HelpFurthest, HelpFiles,
     HelpStart, HelpPipeBroken, RecvHelpJoin, RecvRouteTable, RecvLookupNode, WalkSend,
     RecvFileTable, JoinFails, Crash
<1>2. \A n \in Started : myHash'[n] = myHash[n]
  <2>1. ASSUME NEW h \in Positions, InitialChord(h), NEW n \in Started
        PROVE  myHash'[n] = myHash[n]
    BY <2>1 DEF InitialChord, TypeOK, Started
  <2>2. ASSUME NEW x \in Node, NEW e \in Node, NEW h \in FreePositions, JoinChord(x, e, h),
               NEW n \in Started
        PROVE  myHash'[n] = myHash[n]
    BY <2>2 DEF JoinChord, TypeOK, Started
  <2> QED BY <1>1, <2>1, <2>2
<1>3. \A n \in Started : n \in Started'
  <2> SUFFICES ASSUME NEW n \in Started PROVE phase'[n] # "off"
    BY DEF Started
  <2>0. n \in Node /\ phase[n] # "off"
    BY DEF Started
  <2>1. \/ UNCHANGED phase \/ \E x : phase' = [phase EXCEPT ![x] = "dead"]
        \/ \E h \in Positions : InitialChord(h)
        \/ \E x, e \in Node, h \in FreePositions : JoinChord(x, e, h)
        \/ \E m \in requests : WalkRecv(m)
        \/ \E x \in Node : \/ RecvHelpJoin(x) \/ RecvRouteTable(x) \/ RecvLookupNode(x)
                           \/ WalkSend(x) \/ RecvFileTable(x)
    BY PhasesReadyWriters
  <2>2. ASSUME NEW m \in requests, WalkRecv(m) PROVE phase'[n] # "off"
    BY <2>2, <2>0, RequestParts DEF WalkRecv, TypeOK
  <2>3. ASSUME NEW x \in Node,
               \/ RecvHelpJoin(x) \/ RecvRouteTable(x) \/ RecvLookupNode(x)
               \/ WalkSend(x) \/ RecvFileTable(x)
        PROVE  phase'[n] # "off"
    BY <2>3, <2>0 DEF RecvHelpJoin, RecvRouteTable, RecvLookupNode, WalkSend, RecvFileTable,
       TypeOK, Crash
  <2>4. ASSUME NEW h \in Positions, InitialChord(h) PROVE phase'[n] # "off"
    BY <2>4, <2>0 DEF InitialChord, TypeOK
  <2>5. ASSUME NEW x \in Node, NEW e \in Node, NEW h \in FreePositions, JoinChord(x, e, h)
        PROVE  phase'[n] # "off"
    BY <2>5, <2>0 DEF JoinChord, TypeOK
  <2>6. CASE UNCHANGED phase \/ \E x : phase' = [phase EXCEPT ![x] = "dead"]
    BY <2>6, <2>0 DEF TypeOK
  <2> QED BY <2>1, <2>2, <2>3, <2>4, <2>5, <2>6
<1> QED BY <1>2, <1>3

\* So hosts that lie apart lay apart before.
LEMMA ApartBefore ==
    ASSUME TypeOK, [Next]_vars, Apart'
    PROVE  Apart
BY StartedStays DEF Apart

-----------------------------------------------------------------------------
(* Hosts are started.                                                      *)

\* Only the hashes of the hosts in question matter to who follows whom,
LEMMA FollowsSame ==
    ASSUME NEW h, NEW g, NEW S, NEW x, NEW y,
           \A z \in S \cup {x} : g[z] = h[z], Follows(h, S, x, y)
    PROVE  Follows(g, S, x, y)
BY DEF Follows

\* and to where a start cuts the circle.
LEMMA StartsAfterSame ==
    ASSUME NEW h, NEW g, NEW S, NEW x, NEW s,
           \A z \in S \cup {x} : g[z] = h[z], StartsAfter(h, S, x, s)
    PROVE  StartsAfter(g, S, x, s)
BY DEF StartsAfter, Precedes

\* initial_chord: the first host is its own successor and predecessor.
LEMMA InitialChordSerial ==
    ASSUME TypeOK, AskedOnce, FirstFirst, Intact, Serial, NEW h \in Positions, InitialChord(h),
           TypeOK'
    PROVE  Serial'
<1>1. \A n \in Node : phase[n] = "off" /\ help[n].pc = "idle"
  BY DEF InitialChord, FirstFirst, AskedOnce
<1>2. /\ \A n \in Node : phase'[n] = IF n = First THEN "up" ELSE "off"
      /\ myHash'[First] \in Ids /\ fingerTable'[First] = [i \in FingerIndex |-> First]
      /\ localStart'[First] = HashValueAdd(myHash'[First], 1)
      /\ UNCHANGED << requests, lookup, help, walk >>
  BY <1>1, Constants DEF InitialChord, TypeOK
<1>3. Members' = {First} /\ Newcomers' = {} /\ Counted' = {First}
  BY <1>1, <1>2, Constants DEF Members, Newcomers, Started, Counted
<1>4. \A m \in requests : m.type \notin {"join", "help", "update", "updated"}
  <2>1. ASSUME NEW m \in requests, m.type \in {"join", "help", "update"} PROVE FALSE
    BY <2>1, <1>1, RequestParts DEF AskedOnce, Serial, Walks
  <2>2. ASSUME NEW m \in requests, m.type = "updated" PROVE FALSE
    BY <2>2, <1>1, RequestParts DEF Serial, Walks
  <2> QED BY <2>1, <2>2
<1>5. \A n \in Node : lookup[<<"join", n>>].st = "idle" /\ lookup[<<"help", n>>].st = "idle"
  BY <1>1 DEF AskedOnce, Serial, HelpLookups
<1>6. OneNewcomer' /\ Stages' /\ Asking'
  BY <1>1, <1>2, <1>3, <1>4 DEF OneNewcomer, Stages, Asking, Distinct
<1>7. JoinLookups' /\ HelpLookups' /\ Helpers'
  BY <1>2, <1>3, <1>5 DEF JoinLookups, HelpLookups, Helpers, Visits
<1>8. Walks'
  BY <1>2, <1>3, <1>4 DEF Walks
<1>9. Fingers'
  BY <1>2, <1>3 DEF Fingers
<1>10. Links'
  <2>1. Follows(myHash', {First}, First, First)
    BY <1>2, DistanceRange, PointsNat DEF Follows
  <2> QED BY <2>1, <1>2, <1>3, Constants DEF Links
<1>11. Starts'
  <2>1. GetDistance(myHash'[First], myHash'[First]) \in Int
    BY <1>2, DistanceRange
  <2>2. StartsAfter(myHash', {First}, First, localStart'[First])
    BY <1>2, <2>1 DEF StartsAfter, Precedes
  <2> QED BY <2>2, <1>3 DEF Starts
<1> QED BY <1>6, <1>7, <1>8, <1>9, <1>10, <1>11 DEF Serial

\* When nobody is joining, everybody has joined.
LEMMA NobodyNew ==
    ASSUME TypeOK, Intact, NoJoin
    PROVE  Newcomers = {} /\ Members = Up
BY DEF TypeOK, Phase, Joining, Intact, NoJoin, Newcomers, Members, Started, Up

\* join_chord, begun when nobody else is joining: the first newcomer.
LEMMA JoinChordSerial ==
    ASSUME TypeOK, AskedOnce, Intact, Serial, NoJoin, TypeOK',
           NEW n \in Node, NEW e \in Node, NEW h \in FreePositions, JoinChord(n, e, h)
    PROVE  Serial'
<1> USE DEF Serial
<1>1. Newcomers = {} /\ Members = Up /\ Counted = Members
  BY NobodyNew DEF Counted
<1>2. /\ phase' = [phase EXCEPT ![n] = "helpjoin"] /\ myHash' = [myHash EXCEPT ![n] = h]
      /\ requests' = requests \cup {[type |-> "join", to |-> e, new |-> n]}
      /\ UNCHANGED << localStart, lookup, fingerTable, help, walk >>
      /\ phase[n] = "off" /\ e \in Up /\ help[n].pc = "idle"
  BY ContactJoined DEF JoinChord, joinVars, AskedOnce
<1>3. /\ \A x \in Node : phase'[x] = IF x = n THEN "helpjoin" ELSE phase[x]
      /\ \A x \in Node : myHash'[x] = IF x = n THEN h ELSE myHash[x]
  BY <1>2 DEF TypeOK
<1>4. Members' = Members /\ Newcomers' = {n} /\ n \notin Members /\ Members \subseteq Node
  BY <1>1, <1>2, <1>3 DEF Members, Newcomers, Started, Up
<1>5. Counted' = Members
  BY <1>2, <1>4 DEF Counted
<1>6. \A m \in requests : m.type \notin {"join", "help", "update", "updated"}
  <2>1. ASSUME NEW m \in requests, m.type \in {"join", "help", "update"} PROVE FALSE
    <3>1. m.new \in Node
      BY <2>1, RequestParts
    <3>2. phase[m.new] \in {"helpjoin", "wait", "dead"}
      BY <2>1 DEF AskedOnce, Walks
    <3> QED BY <3>1, <3>2 DEF NoJoin, Joining, Intact
  <2>2. ASSUME NEW m \in requests, m.type = "updated" PROVE FALSE
    BY <2>2, RequestParts DEF Walks, NoJoin, Joining
  <2> QED BY <2>1, <2>2
<1>7. \A x \in Node : lookup[<<"join", x>>].st = "idle" /\ lookup[<<"help", x>>].st = "idle"
  BY DEF AskedOnce, HelpLookups, NoJoin, Joining, Intact
<1>8. OneNewcomer'
  <2>1. \A x \in Members : myHash[x] # h /\ myHash'[x] = myHash[x]
    BY <1>3, <1>4, HostSets DEF FreePositions
  <2>2. myHash'[n] = h
    BY <1>3
  <2> QED BY <1>1, <1>4, <2>1, <2>2 DEF OneNewcomer, Distinct
<1>9. Stages' /\ Asking'
  <2>1. Stages'
    BY <1>2, <1>3 DEF Stages
  <2>2. e \in Members
    BY <1>1, <1>2
  <2> QED BY <1>2, <1>4, <1>6, <2>1, <2>2 DEF Asking
<1>10. JoinLookups' /\ HelpLookups' /\ Helpers'
  BY <1>2, <1>4, <1>7 DEF JoinLookups, HelpLookups, Helpers, Visits
<1>11. Walks'
  <2>1. \A x \in Node : phase'[x] # "walk"
    BY <1>3 DEF NoJoin, Joining
  <2> QED BY <2>1, <1>2, <1>6 DEF Walks
<1>12. Fingers'
  BY <1>1, <1>2, <1>3, <1>4 DEF Fingers, Walking
<1>13. \A z \in Members : myHash'[z] = myHash[z]
  BY <1>3, <1>4
<1>14. Links'
  <2>1. ASSUME NEW x \in Members PROVE Follows(myHash', Members, x, fingerTable[x][0])
    <3>1. Follows(myHash, Members, x, fingerTable[x][0])
      BY <1>1 DEF Links
    <3> QED BY <3>1, <1>13, FollowsSame
  <2>2. \A x \in Members' : Follows(myHash', Members', x, fingerTable'[x][0])
    BY <2>1, <1>2, <1>4
  <2>3. \A x \in Newcomers' : phase'[x] = "helpjoin"
    BY <1>3, <1>4
  <2> QED BY <2>2, <2>3 DEF Links, Walking
<1>15. Starts'
  <2>1. ASSUME NEW x \in Members PROVE StartsAfter(myHash', Members, x, localStart[x])
    <3>1. StartsAfter(myHash, Members, x, localStart[x])
      BY <1>1 DEF Starts
    <3> QED BY <3>1, <1>13, StartsAfterSame
  <2>2. \A x \in Members' : StartsAfter(myHash', Counted', x, localStart'[x])
    BY <2>1, <1>2, <1>4, <1>5
  <2>3. \A x \in Newcomers' : phase'[x] = "helpjoin"
    BY <1>3, <1>4
  <2> QED BY <2>2, <2>3 DEF Starts
<1> QED BY <1>8, <1>9, <1>10, <1>11, <1>12, <1>14, <1>15

(* Lookups.                                                                *)

\* A lookup for a join is made before the newcomer walks or is counted.
LEMMA NotYetEntered ==
    ASSUME TypeOK, AskedOnce, Intact, Serial, NEW n \in Node,
           lookup[<<"join", n>>].st # "idle" \/ lookup[<<"help", n>>].st # "idle"
    PROVE  /\ n \in Newcomers /\ Counted = Members
           /\ \A x \in Members, i \in FingerIndex : fingerTable[x][i] \in Members \cup {NoNode}
           /\ ~Walking(n) /\ help[n].pc # "done"
<1> USE DEF Serial
<1>1. n \in Newcomers /\ ~Walking(n) /\ help[n].pc # "done"
  <2>1. CASE lookup[<<"join", n>>].st # "idle"
    BY <2>1, WhoIsNew DEF AskedOnce, Intact, Joining, Walking
  <2>2. CASE lookup[<<"help", n>>].st # "idle"
    <3>1. help[n].pc \in {"entry", "furthest"}
      BY <2>2 DEF HelpLookups
    <3>2. phase[n] \in Joining
      BY <3>1 DEF AskedOnce, Intact
    <3> QED BY <3>1, <3>2, WhoIsNew DEF Stages, Walking, Joining
  <2> QED BY <2>1, <2>2
<1>2. Counted = Members
  BY <1>1 DEF Counted, OneNewcomer
<1>3. \A x \in Members, i \in FingerIndex : fingerTable[x][i] \in Members \cup {NoNode}
  BY <1>1 DEF Fingers, OneNewcomer
<1> QED BY <1>1, <1>2, <1>3

\* A live member answers or forwards to a live member.
LEMMA HopIsMember ==
    ASSUME TypeOK, NEW x \in Members, NEW v \in Ids, Alive(NextHop(x, v)),
           \A i \in FingerIndex : fingerTable[x][i] \in Members \cup {NoNode}
    PROVE  NextHop(x, v) \in Members
<1>1. myHash[x] \in Ids
  BY HostSets DEF TypeOK
<1>2. CASE v = myHash[x]
  BY <1>2 DEF NextHop
<1>3. CASE v # myHash[x]
  <2>1. HopIndex(myHash[x], v) \in FingerIndex
    BY <1>1, <1>3, HopRange
  <2> QED BY <2>1, <1>3, Constants DEF NextHop, Alive
<1> QED BY <1>2, <1>3

\* Reading its start may shift it by a circle.
LEMMA StartsUnrollStay ==
    ASSUME TypeOK, Starts, SameHosts, NEW x \in Node, UnrollStart(x), UNCHANGED << phase, help >>
    PROVE  Starts'
<1>1. Counted' = Counted /\ Counted \subseteq Node
  BY HostSets DEF Counted, SameHosts
<1>2. \A z \in Node : localStart'[z] = IF z = x THEN Unrolled(localStart[x], myHash[x])
                                               ELSE localStart[z]
  BY DEF UnrollStart, TypeOK
<1>3. myHash \in [Node -> Ids]
  BY DEF TypeOK
<1>4. ASSUME NEW z \in Members PROVE StartsAfter(myHash, Counted, z, localStart'[z])
  <2>1. StartsAfter(myHash, Counted, z, localStart[z]) /\ z \in Node
    BY HostSets DEF Starts
  <2> QED BY <1>1, <1>2, <1>3, <2>1, StartsUnrolled
<1>5. ASSUME NEW n \in Newcomers, phase[n] \in {"files", "up"}
      PROVE  StartsAfter(myHash, Members \cup {n}, n, localStart'[n])
  <2>1. StartsAfter(myHash, Members \cup {n}, n, localStart[n])
        /\ n \in Node /\ Members \cup {n} \subseteq Node
    BY <1>5, HostSets DEF Starts
  <2> QED BY <1>2, <1>3, <2>1, StartsUnrolled
<1>6. \A z \in Members' : StartsAfter(myHash', Counted', z, localStart'[z])
  BY <1>1, <1>4 DEF SameHosts
<1>7. \A n \in Newcomers' : phase'[n] \in {"files", "up"} =>
          StartsAfter(myHash', Members' \cup {n}, n, localStart'[n])
  BY <1>5 DEF SameHosts
<1> QED BY <1>6, <1>7 DEF Starts

\* A host that answers a lookup with a right start is who owns the hash.
LEMMA AnswerOwns ==
    ASSUME TypeOK, NEW S, S \subseteq Node, NEW x \in S,
           StartsAfter(myHash, S, x, localStart[x]), NEW v \in Ids, IsResponsibleTo(x, v)
    PROVE  Owns(myHash, S, x, v)
<1>1. myHash \in [Node -> Ids] /\ Responsible(localStart[x], myHash[x], v)
  BY DEF TypeOK, IsResponsibleTo
<1>2. myHash[x] = SuccessorIn({ myHash[z] : z \in S }, v)
  BY <1>1, AnswerIsSuccessor
<1> DEFINE H == { myHash[z] : z \in S }
<1>3. H \subseteq Ids /\ H # {}
  BY <1>1
<1> DEFINE s == SuccessorIn(H, v)
<1>4. \A y \in H : Steps(v, s) <= Steps(v, y)
  BY <1>3, SuccessorExists
<1>5. \A z \in S : myHash[z] \in H
  OBVIOUS
<1>6. myHash[x] = s
  BY <1>2
<1> HIDE DEF H, s
<1> QED BY <1>4, <1>5, <1>6 DEF Owns

\* A member that answers a lookup for the newcomer, or for the point after it,
\* comes after the newcomer.
LEMMA AnswerFollows ==
    ASSUME TypeOK, OneNewcomer, NEW n \in Newcomers, NEW x \in Members,
           StartsAfter(myHash, Members, x, localStart[x]),
           NEW v \in {myHash[n], HashValueAdd(myHash[n], 1)}, v \in Ids, IsResponsibleTo(x, v)
    PROVE  Follows(myHash, Members, n, x)
<1>1. myHash \in [Node -> Ids] /\ Members \subseteq Node /\ n \in Node /\ n \notin Members
  BY HostSets DEF TypeOK
<1>2. Distinct(myHash, Members \cup {n})
  BY DEF OneNewcomer, Distinct
<1>3. Responsible(localStart[x], myHash[x], v)
  BY DEF IsResponsibleTo
<1>4. myHash[x] = SuccessorIn({ myHash[z] : z \in Members }, v)
  BY <1>1, <1>3, AnswerIsSuccessor
<1> QED BY <1>1, <1>2, <1>4, SuccessorFollows

\* Entry 0 of a table stands for the point after the host.
LEMMA FirstEntryHash ==
    ASSUME NEW n
    PROVE  EntryHash(n, 0) = HashValueAdd(myHash[n], 1)
BY PowersOfTwo DEF EntryHash

\* A lookup l of thread t is answered or forwarded by x.
LookupGoesOn(t, x) ==
    LET l == lookup[t]
    IN  /\ UnrollStart(x)
        /\ UNCHANGED << phase, myHash, requests, fingerTable, help, walk >>
        /\ \/ IsResponsibleTo(x, l.hash) /\ lookup' = [lookup EXCEPT ![t] = Answer(l, x)]
           \/ /\ Alive(NextHop(x, l.hash))
              /\ lookup' = [lookup EXCEPT ![t] = [l EXCEPT !.st = "fwd", !.at = NextHop(x, l.hash)]]

\* A lookup of a join that takes a step: it visits members, and its answer is who follows.
LEMMA LookupGoesOnSerial ==
    ASSUME TypeOK, AskedOnce, Intact, Serial, NEW t \in Thread, NEW x \in Node,
           lookup[t].st # "idle", LookupGoesOn(t, x), t[1] # "ui" => x \in Members
    PROVE  Serial'
<1> DEFINE l == lookup[t]
           a == Answer(l, x)
           f == [l EXCEPT !.st = "fwd", !.at = NextHop(x, l.hash)]
<1> USE DEF Serial
<1>1. SameHosts
  BY SameHostsWhen DEF LookupGoesOn
<1>2. \A n : Walking(n) <=> Walking(n)'
  BY DEF LookupGoesOn, Walking
<1>3. OneNewcomer' /\ Stages' /\ Asking' /\ Helpers' /\ Walks' /\ Fingers' /\ Links' /\ Starts'
  <2>1. OneNewcomer' /\ Stages' /\ Asking' /\ Helpers'
    BY <1>1, OneNewcomerStays, StagesStay, AskingStays, HelpersStay DEF LookupGoesOn
  <2>2. Walks'
    BY <1>1, WalksStay DEF LookupGoesOn
  <2>3. Fingers' /\ Links'
    BY <1>1, <1>2, FingersStay, LinksStay DEF LookupGoesOn
  <2>4. Starts'
    BY <1>1, StartsUnrollStay DEF LookupGoesOn
  <2> QED BY <2>1, <2>2, <2>3, <2>4
<1>4. /\ l \in LookupState /\ l.hash \in Ids /\ lookup \in [Thread -> LookupState]
      /\ a.st = "done" /\ a.src = l.src /\ a.hash = l.hash /\ a.succ = x
      /\ f.st = "fwd" /\ f.src = l.src /\ f.hash = l.hash /\ f.at = NextHop(x, l.hash)
  BY DEF TypeOK, LookupState, Answer
<1>5. \/ IsResponsibleTo(x, l.hash) /\ lookup' = [lookup EXCEPT ![t] = a]
      \/ Alive(NextHop(x, l.hash)) /\ lookup' = [lookup EXCEPT ![t] = f]
  BY DEF LookupGoesOn
<1> HIDE DEF a, f
<1>6. PICK n \in Node, k \in {"ui", "join", "help"} : t = << k, n >>
  BY DEF Thread
<1>7. CASE k = "ui"
  <2>1. \A z \in Node : /\ lookup'[<<"join", z>>] = lookup[<<"join", z>>]
                        /\ lookup'[<<"help", z>>] = lookup[<<"help", z>>]
    BY <1>4, <1>5, <1>6, <1>7 DEF Thread
  <2>2. JoinLookups'
    BY <1>1, <2>1, JoinLookupsStay
  <2>3. HelpLookups'
    BY <1>1, <2>1, HelpLookupsStay DEF LookupGoesOn
  <2> QED BY <1>3, <2>2, <2>3
<1>8. CASE k = "join"
  <2>1. \A z \in Node : lookup'[<<"help", z>>] = lookup[<<"help", z>>]
    BY <1>4, <1>5, <1>6, <1>8 DEF Thread
  <2>2. \A z \in Node \ {n} : lookup'[<<"join", z>>] = lookup[<<"join", z>>]
    BY <1>4, <1>5, <1>6, <1>8 DEF Thread
  <2>3. x \in Members /\ l.src \in Members /\ l.hash = myHash[n]
    BY <1>6, <1>8 DEF JoinLookups, Visits
  <2>4. /\ n \in Newcomers /\ Counted = Members
        /\ \A i \in FingerIndex : fingerTable[x][i] \in Members \cup {NoNode}
    BY <1>6, <1>8, <2>3, NotYetEntered
  <2>5. CASE IsResponsibleTo(x, l.hash) /\ lookup' = [lookup EXCEPT ![t] = a]
    <3>1. lookup'[<<"join", n>>] = a
      BY <2>5, <1>4, <1>6, <1>8 DEF Thread
    <3>2. Follows(myHash, Members, n, x)
      BY <2>3, <2>4, <2>5, <1>4, AnswerFollows DEF Starts
    <3>3. JoinLookups'
      BY <1>1, <1>4, <2>2, <2>3, <3>1, <3>2 DEF JoinLookups, Visits, SameHosts
    <3> QED BY <1>1, <1>3, <2>1, <3>3, HelpLookupsStay DEF LookupGoesOn
  <2>6. CASE Alive(NextHop(x, l.hash)) /\ lookup' = [lookup EXCEPT ![t] = f]
    <3>1. lookup'[<<"join", n>>] = f
      BY <2>6, <1>4, <1>6, <1>8 DEF Thread
    <3>2. NextHop(x, l.hash) \in Members
      BY <2>3, <2>4, <2>6, <1>4, HopIsMember
    <3>3. JoinLookups'
      BY <1>1, <1>4, <2>2, <2>3, <3>1, <3>2 DEF JoinLookups, Visits, SameHosts
    <3> QED BY <1>1, <1>3, <2>1, <3>3, HelpLookupsStay DEF LookupGoesOn
  <2> QED BY <1>5, <2>5, <2>6
<1>9. CASE k = "help"
  <2>1. \A z \in Node : lookup'[<<"join", z>>] = lookup[<<"join", z>>]
    BY <1>4, <1>5, <1>6, <1>9 DEF Thread
  <2>2. \A z \in Node \ {n} : lookup'[<<"help", z>>] = lookup[<<"help", z>>]
    BY <1>4, <1>5, <1>6, <1>9 DEF Thread
  <2>3. /\ x \in Members /\ l.src \in Members /\ help[n].pc \in {"entry", "furthest"}
        /\ help[n].pc = "entry" => l.hash = EntryHash(n, help[n].i)
    BY <1>6, <1>9 DEF HelpLookups, Visits
  <2>4. /\ n \in Newcomers /\ Counted = Members
        /\ \A i \in FingerIndex : fingerTable[x][i] \in Members \cup {NoNode}
    BY <1>6, <1>9, <2>3, NotYetEntered
  <2>5. help' = help /\ myHash' = myHash
    BY DEF LookupGoesOn
  <2>6. CASE IsResponsibleTo(x, l.hash) /\ lookup' = [lookup EXCEPT ![t] = a]
    <3>1. lookup'[<<"help", n>>] = a
      BY <2>6, <1>4, <1>6, <1>9 DEF Thread
    <3>2. help[n].pc = "entry" /\ help[n].i = 0 => Follows(myHash, Members, n, x)
      BY <2>3, <2>4, <2>6, <1>4, AnswerFollows, FirstEntryHash DEF Starts
    <3>3. HelpLookups'
      BY <1>1, <1>4, <2>2, <2>3, <2>5, <3>1, <3>2 DEF HelpLookups, Visits, SameHosts, EntryHash
    <3> QED BY <1>1, <1>3, <2>1, <3>3, JoinLookupsStay
  <2>7. CASE Alive(NextHop(x, l.hash)) /\ lookup' = [lookup EXCEPT ![t] = f]
    <3>1. lookup'[<<"help", n>>] = f
      BY <2>7, <1>4, <1>6, <1>9 DEF Thread
    <3>2. NextHop(x, l.hash) \in Members
      BY <2>3, <2>4, <2>7, <1>4, HopIsMember
    <3>3. HelpLookups'
      BY <1>1, <1>4, <2>2, <2>3, <2>5, <3>1, <3>2 DEF HelpLookups, Visits, SameHosts, EntryHash
    <3> QED BY <1>1, <1>3, <2>1, <3>3, JoinLookupsStay
  <2> QED BY <1>5, <2>6, <2>7
<1> QED BY <1>6, <1>7, <1>8, <1>9

\* What find_successor does, at its caller's or at the next host.
LEMMA LookupStepGoesOn ==
    ASSUME TypeOK, Serial, Intact', NEW t \in Thread, LookupCall(t) \/ LookupReqHandle(t)
    PROVE  \E x \in Node : /\ lookup[t].st # "idle" /\ LookupGoesOn(t, x)
                           /\ t[1] # "ui" => x \in Members
<1> DEFINE l == lookup[t]
<1>0. l \in LookupState /\ lookup \in [Thread -> LookupState]
  BY DEF TypeOK
<1>1. CASE LookupCall(t)
  <2>1. l.src \in Node /\ l.st = "call"
    BY <1>1 DEF LookupCall, Alive
  <2>2. t[1] # "ui" => l.src \in Members
    BY <2>1 DEF Serial, JoinLookups, HelpLookups, Visits, Thread
  <2>3. ~Crash(l.src)
    BY <2>1, CrashEnds
  <2>4. [lookup EXCEPT ![t].st = "fwd", ![t].at = NextHop(l.src, l.hash)]
          = [lookup EXCEPT ![t] = [l EXCEPT !.st = "fwd", !.at = NextHop(l.src, l.hash)]]
    BY <1>0 DEF LookupState
  <2>5. LookupGoesOn(t, l.src)
    BY <1>1, <2>3, <2>4 DEF LookupCall, LookupGoesOn, joinVars
  <2> QED BY <2>1, <2>2, <2>5
<1>2. CASE LookupReqHandle(t)
  <2>1. l.at \in Node /\ l.st = "fwd"
    BY <1>2 DEF LookupReqHandle, Alive
  <2>2. t[1] # "ui" => l.at \in Members
    BY <2>1 DEF Serial, JoinLookups, HelpLookups, Visits, Thread
  <2>3. ~Crash(l.at)
    BY <2>1, CrashEnds
  <2>4. [l EXCEPT !.at = NextHop(l.at, l.hash)]
          = [l EXCEPT !.st = "fwd", !.at = NextHop(l.at, l.hash)]
    BY <1>0, <2>1 DEF LookupState
  <2>5. LookupGoesOn(t, l.at)
    BY <1>2, <2>3, <2>4 DEF LookupReqHandle, LookupGoesOn, joinVars
  <2> QED BY <2>1, <2>2, <2>5
<1> QED BY <1>1, <1>2

-----------------------------------------------------------------------------
(* The entry host and the helper.                                          *)

\* What a lookup is at first.
LEMMA LookupFields ==
    ASSUME NEW src, NEW hash
    PROVE  /\ Lookup(src, hash).st = "call" /\ Lookup(src, hash).src = src
           /\ Lookup(src, hash).hash = hash
           /\ NoLookup.st = "idle"
BY DEF Lookup, NoLookup

\* One lookup of a join replaced.
LEMMA JoinLookupReplaced ==
    ASSUME JoinLookups, SameHosts, NEW n \in Node,
           \A x \in Node \ {n} : lookup'[<<"join", x>>] = lookup[<<"join", x>>],
           \/ lookup'[<<"join", n>>].st = "idle"
           \/ /\ lookup'[<<"join", n>>].st = "call" /\ lookup'[<<"join", n>>].src \in Members
              /\ lookup'[<<"join", n>>].hash = myHash[n]
    PROVE  JoinLookups'
BY DEF JoinLookups, Visits, SameHosts

\* One lookup of a helper replaced.
LEMMA HelpLookupReplaced ==
    ASSUME HelpLookups, SameHosts, NEW n \in Node,
           \A x \in Node \ {n} : /\ lookup'[<<"help", x>>] = lookup[<<"help", x>>]
                                 /\ help'[x] = help[x],
           \/ lookup'[<<"help", n>>].st = "idle"
           \/ /\ lookup'[<<"help", n>>].st = "call" /\ lookup'[<<"help", n>>].src \in Members
              /\ help'[n].pc \in {"entry", "furthest"}
              /\ help'[n].pc = "entry" => lookup'[<<"help", n>>].hash = EntryHash(n, help'[n].i)
    PROVE  HelpLookups'
BY DEF HelpLookups, Visits, SameHosts, EntryHash

\* join_req_handle: a member looks for the one after the newcomer.
LEMMA JoinReqHandleSerial ==
    ASSUME TypeOK, AskedOnce, Intact, Serial, NEW m \in requests, JoinReqHandle(m)
    PROVE  Serial'
<1> USE DEF Serial
<1> DEFINE n == m.new
<1>1. n \in Node /\ m.to \in Members /\ requests' = requests \ {m}
  BY RequestParts DEF JoinReqHandle, Asking
<1>2. UNCHANGED << phase, myHash, fingerTable, localStart, help, walk >>
  BY DEF JoinReqHandle, joinVars
<1>3. SameHosts
  BY <1>2, SameHostsWhen
<1>4. \A x : Walking(x) <=> Walking(x)'
  BY <1>2 DEF Walking
<1>5. OneNewcomer' /\ Stages' /\ Asking' /\ Helpers' /\ Walks' /\ Fingers' /\ Links' /\ Starts'
  BY <1>1, <1>2, <1>3, <1>4, OneNewcomerStays, StagesStay, AskingStays, HelpersStay, WalksStay,
     FingersStay, LinksStay, StartsStay
<1>6. /\ \A x \in Node : lookup'[<<"help", x>>] = lookup[<<"help", x>>]
      /\ \A x \in Node \ {n} : lookup'[<<"join", x>>] = lookup[<<"join", x>>]
      /\ lookup'[<<"join", n>>] = Lookup(m.to, myHash[n])
  BY <1>1 DEF JoinReqHandle, TypeOK, Thread
<1>7. HelpLookups'
  BY <1>2, <1>3, <1>6, HelpLookupsStay
<1>8. JoinLookups'
  BY <1>1, <1>3, <1>6, LookupFields, JoinLookupReplaced
<1> QED BY <1>5, <1>7, <1>8

\* The answer: the one after the newcomer is asked to help.
LEMMA JoinReqReturnSerial ==
    ASSUME TypeOK, AskedOnce, Intact, Serial, Intact', NEW n \in Node, JoinReqReturn(n)
    PROVE  Serial'
<1> USE DEF Serial
<1> DEFINE l == lookup[<<"join", n>>]
<1>1. l.st = "done" /\ l.src \in Node
  BY DEF JoinReqReturn, Returned, Alive
<1>2. /\ requests' = requests \cup {[type |-> "help", to |-> l.succ, new |-> n]}
      /\ lookup' = [lookup EXCEPT ![<<"join", n>>] = NoLookup]
      /\ UNCHANGED << phase, myHash, fingerTable, localStart, help, walk >>
  BY <1>1, CrashEnds DEF JoinReqReturn, joinVars
<1>3. SameHosts
  BY <1>2, SameHostsWhen
<1>4. \A x : Walking(x) <=> Walking(x)'
  BY <1>2 DEF Walking
<1>5. OneNewcomer' /\ Stages' /\ Helpers' /\ Walks' /\ Fingers' /\ Links' /\ Starts'
  BY <1>2, <1>3, <1>4, OneNewcomerStays, StagesStay, HelpersStay, WalksStay,
     FingersStay, LinksStay, StartsStay
<1>6. /\ \A x \in Node : lookup'[<<"help", x>>] = lookup[<<"help", x>>]
      /\ \A x \in Node \ {n} : lookup'[<<"join", x>>] = lookup[<<"join", x>>]
      /\ lookup'[<<"join", n>>] = NoLookup
  BY <1>2 DEF TypeOK, Thread
<1>7. HelpLookups'
  BY <1>2, <1>3, <1>6, HelpLookupsStay
<1>8. JoinLookups'
  BY <1>3, <1>6, LookupFields, JoinLookupReplaced
<1>9. Asking'
  <2> DEFINE q == [type |-> "help", to |-> l.succ, new |-> n]
  <2>1. q.to = l.succ /\ q.new = n
    OBVIOUS
  <2>2. l.succ \in Members /\ Follows(myHash, Members, n, l.succ)
    BY <1>1 DEF JoinLookups, Visits
  <2> HIDE DEF q, l
  <2>3. \A m \in requests' : m \in requests \/ m = q
    BY <1>2 DEF q, l
  <2> QED BY <2>1, <2>2, <2>3, <1>3 DEF Asking, SameHosts
<1> QED BY <1>5, <1>7, <1>8, <1>9

\* help_join_req_handle: the member after the newcomer begins its table.
LEMMA HelpJoinReqHandleSerial ==
    ASSUME TypeOK, AskedOnce, Intact, Serial, Intact', NEW m \in requests, HelpJoinReqHandle(m)
    PROVE  Serial'
<1> USE DEF Serial
<1> DEFINE n == m.new
<1>1. /\ n \in Node /\ m.to \in Node /\ m.to \in Members /\ m.type = "help"
      /\ Follows(myHash, Members, n, m.to)
  BY RequestParts DEF HelpJoinReqHandle, Asking
<1>2. phase[n] = "helpjoin" /\ help[n].pc = "idle" /\ n \in Newcomers
  BY <1>1, WhoIsNew DEF AskedOnce, Intact, Joining
<1>3. /\ requests' = requests \ {m}
      /\ help' = [help EXCEPT ![n] = [NoHelp EXCEPT !.pc = "entry", !.host = m.to]]
      /\ lookup' = [lookup EXCEPT ![<<"help", n>>] = Lookup(m.to, EntryHash(n, 0))]
      /\ UNCHANGED << phase, myHash, localStart, fingerTable, walk >>
  BY <1>1, CrashEnds DEF HelpJoinReqHandle
<1>4. /\ \A x \in Node \ {n} : help'[x] = help[x]
      /\ help'[n].pc = "entry" /\ help'[n].host = m.to /\ help'[n].i = 0
      /\ help'[n].table = EmptyTable
  BY <1>1, <1>3 DEF TypeOK, NoHelp
<1>5. SameHosts
  BY <1>2, <1>3, <1>4, SameHostsWhen
<1>6. \A x : Walking(x) <=> Walking(x)'
  BY <1>3 DEF Walking
<1>7. OneNewcomer' /\ Asking' /\ Walks' /\ Fingers' /\ Links'
  BY <1>3, <1>5, <1>6, OneNewcomerStays, AskingStays, WalksStay, FingersStay, LinksStay
<1>8. Stages'
  BY <1>2, <1>3, <1>4 DEF Stages
<1>9. Starts'
  BY <1>2, <1>3, <1>4, <1>5, HostSets, StartsStay
<1>10. /\ \A x \in Node : lookup'[<<"join", x>>] = lookup[<<"join", x>>]
       /\ \A x \in Node \ {n} : lookup'[<<"help", x>>] = lookup[<<"help", x>>]
       /\ lookup'[<<"help", n>>] = Lookup(m.to, EntryHash(n, 0))
  BY <1>1, <1>3 DEF TypeOK, Thread
<1>11. JoinLookups'
  BY <1>5, <1>10, JoinLookupsStay
<1>12. HelpLookups'
  <2>1. lookup'[<<"help", n>>].st = "call" /\ lookup'[<<"help", n>>].src = m.to
        /\ lookup'[<<"help", n>>].hash = EntryHash(n, 0)
    BY <1>10, LookupFields
  <2> QED BY <2>1, <1>1, <1>4, <1>5, <1>10, HelpLookupReplaced
<1>13. Helpers'
  <2>1. \A i \in FingerIndex : help'[n].table[i] = NoNode
    BY <1>4 DEF EmptyTable
  <2> QED BY <2>1, <1>1, <1>2, <1>4, <1>5, HostSets DEF Helpers, SameHosts
<1> QED BY <1>7, <1>8, <1>9, <1>11, <1>12, <1>13

\* The host after the newcomer is nearer to the point after the newcomer than
\* the newcomer itself, unless it sits on that very point.
LEMMA FirstEntry ==
    ASSUME TypeOK, NEW n \in Node, NEW r \in Node, myHash[n] # myHash[r],
           GetDistance(myHash[n], myHash[r]) # 1
    PROVE  EntryHost(n, 0, r) = r
<1>1. \A a, b \in Ids : a # b /\ GetDistance(a, b) # 1 =>
          GetDistance(HashValueAdd(a, 1), b) <= GetDistance(HashValueAdd(a, 1), a)
  BY PointsNat DEF GetDistance, HashValueAdd, Ids
<1>2. myHash[n] \in Ids /\ myHash[r] \in Ids /\ HashValueAdd(myHash[n], 1) \in Ids
  BY AddRange, PointsNat DEF TypeOK
<1>3. GetDistance(HashValueAdd(myHash[n], 1), myHash[r])
        <= GetDistance(HashValueAdd(myHash[n], 1), myHash[n])
  BY <1>1, <1>2
<1>4. /\ GetDistance(HashValueAdd(myHash[n], 1), myHash[r]) \in Int
      /\ GetDistance(HashValueAdd(myHash[n], 1), myHash[n]) \in Int
  BY <1>2, DistanceRange, PointsNat
<1> QED BY <1>3, <1>4, FirstEntryHash DEF EntryHost

\* One more entry of the table: entry 0 is the helper.
LEMMA HelpEntrySerial ==
    ASSUME TypeOK, AskedOnce, Intact, Apart, Serial, NEW n \in Node, HelpEntry(n)
    PROVE  Serial'
<1> USE DEF Serial
<1> DEFINE i    == help[n].i
           l    == lookup[<<"help", n>>]
           last == i = M - 1
           e    == EntryHost(n, i, l.succ)
           next == IF last THEN FurthestPrev(n) ELSE EntryHash(n, i + 1)
<1>1. /\ help[n].pc = "entry" /\ l.st = "done" /\ l.succ \in Members /\ l.src \in Members
      /\ i \in FingerIndex /\ help[n] \in HelpState
      /\ i = 0 => Follows(myHash, Members, n, l.succ)
  BY HelpParts DEF HelpEntry, Returned, HelpLookups, Visits, TypeOK
<1>2. n \in Newcomers /\ ~Walking(n) /\ phase[n] \in {"helpjoin", "table"}
  <2>1. phase[n] \in Joining
    BY <1>1 DEF AskedOnce, Intact
  <2> QED BY <2>1, <1>1, WhoIsNew DEF Stages, Walking, Joining
<1>3. /\ \A x \in Node \ {n} : help'[x] = help[x]
      /\ help'[n].table = [help[n].table EXCEPT ![i] = e]
      /\ help'[n].pc = IF last THEN "furthest" ELSE "entry"
      /\ help'[n].i = IF last THEN i ELSE i + 1
      /\ help'[n].host = help[n].host
  BY <1>1 DEF HelpEntry, TypeOK, HelpState
<1>4. UNCHANGED << phase, myHash, localStart, fingerTable, walk, requests >>
  BY DEF HelpEntry
<1>5. SameHosts
  BY <1>1, <1>3, <1>4, SameHostsWhen
<1>6. \A x : Walking(x) <=> Walking(x)'
  BY <1>4 DEF Walking
<1>7. OneNewcomer' /\ Asking' /\ Walks' /\ Fingers' /\ Links'
  BY <1>4, <1>5, <1>6, OneNewcomerStays, AskingStays, WalksStay, FingersStay, LinksStay
<1>8. Stages'
  BY <1>1, <1>2, <1>3, <1>4 DEF Stages
<1>9. Starts'
  BY <1>1, <1>2, <1>3, <1>4, <1>5, HostSets, StartsStay
<1>10. /\ \A x \in Node : lookup'[<<"join", x>>] = lookup[<<"join", x>>]
       /\ \A x \in Node \ {n} : lookup'[<<"help", x>>] = lookup[<<"help", x>>]
       /\ lookup'[<<"help", n>>] = Lookup(l.src, next)
  BY DEF HelpEntry, TypeOK, Thread
<1>11. JoinLookups'
  BY <1>5, <1>10, JoinLookupsStay
<1>12. HelpLookups'
  <2>1. lookup'[<<"help", n>>].st = "call" /\ lookup'[<<"help", n>>].src = l.src
        /\ lookup'[<<"help", n>>].hash = next
    BY <1>10, LookupFields
  <2>2. help'[n].pc = "entry" => next = EntryHash(n, help'[n].i)
    BY <1>3
  <2>3. help'[n].pc \in {"entry", "furthest"}
    BY <1>3
  <2> HIDE DEF next
  <2> QED BY <2>1, <2>2, <2>3, <1>1, <1>3, <1>5, <1>10, HelpLookupReplaced
<1>13. e \in Members \cup {n}
  BY <1>1 DEF EntryHost
<1>14. i = 0 => e = l.succ
  <2>1. l.succ \in Started /\ n \in Started /\ n \in Node /\ l.succ \in Node
    BY <1>1, <1>2, HostSets
  <2>2. myHash[n] # myHash[l.succ] /\ GetDistance(myHash[n], myHash[l.succ]) # 1
    BY <2>1, <1>1, <1>2, HostSets DEF Apart, OneNewcomer, Distinct
  <2> QED BY <2>1, <2>2, FirstEntry
<1>15. /\ \A j \in FingerIndex : help[n].table[j] \in Members \cup {n, NoNode}
       /\ i > 0 => Follows(myHash, Members, n, help[n].table[0])
       /\ Follows(myHash, Members, n, help[n].host)
  BY <1>1, <1>2 DEF Helpers
<1>16. /\ \A j \in FingerIndex : help'[n].table[j] = IF j = i THEN e ELSE help[n].table[j]
  BY <1>1, <1>3, HelpParts
<1>17. Follows(myHash, Members, n, help'[n].table[0])
  <2>1. i = 0 \/ i > 0
    BY <1>1 DEF FingerIndex
  <2> QED BY <2>1, <1>1, <1>14, <1>15, <1>16, Constants
<1>18. Helpers'
  <2>1. \A j \in FingerIndex : help'[n].table[j] \in Members \cup {n, NoNode}
    BY <1>13, <1>15, <1>16
  <2>2. help'[n].pc \in {"entry", "furthest"}
    BY <1>3
  <2> HIDE DEF i, l, last, e, next
  <2> QED BY <2>1, <2>2, <1>2, <1>3, <1>5, <1>15, <1>17, HostSets DEF Helpers, SameHosts
<1> QED BY <1>7, <1>8, <1>9, <1>11, <1>12, <1>18

\* The helper goes on without a lookup.
LEMMA HelpFurthestSerial ==
    ASSUME TypeOK, AskedOnce, Intact, Serial, NEW n \in Node, HelpFurthest(n)
    PROVE  Serial'
<1> USE DEF Serial
<1> DEFINE l == lookup[<<"help", n>>]
<1>1. /\ help[n].pc = "furthest" /\ l.st = "done" /\ l.succ \in Members /\ help[n] \in HelpState
  BY DEF HelpFurthest, Returned, HelpLookups, Visits, TypeOK
<1>2. n \in Newcomers /\ ~Walking(n) /\ phase[n] \in {"helpjoin", "table", "prev"}
  <2>1. phase[n] \in Joining
    BY <1>1 DEF AskedOnce, Intact
  <2> QED BY <2>1, <1>1, WhoIsNew DEF Stages, Walking, Joining
<1>3. /\ \A x \in Node \ {n} : help'[x] = help[x]
      /\ help'[n] = [help[n] EXCEPT !.pc = "files", !.prev = l.succ]
  BY <1>1 DEF HelpFurthest, TypeOK, HelpState
<1>4. UNCHANGED << phase, myHash, localStart, fingerTable, walk, requests >>
  BY DEF HelpFurthest
<1>5. /\ help'[n].pc = "files" /\ help'[n].prev = l.succ /\ help'[n].host = help[n].host
      /\ help'[n].table = help[n].table
  BY <1>1, <1>3 DEF HelpState
<1>6. SameHosts
  BY <1>1, <1>3, <1>4, <1>5, SameHostsWhen
<1>7. \A x : Walking(x) <=> Walking(x)'
  BY <1>4 DEF Walking
<1>8. OneNewcomer' /\ Asking' /\ Walks' /\ Fingers' /\ Links'
  BY <1>4, <1>6, <1>7, OneNewcomerStays, AskingStays, WalksStay, FingersStay, LinksStay
<1>9. Stages'
  BY <1>2, <1>3, <1>4, <1>5 DEF Stages
<1>10. Starts'
  BY <1>1, <1>3, <1>4, <1>5, <1>6, HostSets, StartsStay
<1>11. /\ \A x \in Node : lookup'[<<"join", x>>] = lookup[<<"join", x>>]
       /\ \A x \in Node \ {n} : lookup'[<<"help", x>>] = lookup[<<"help", x>>]
       /\ lookup'[<<"help", n>>] = NoLookup
  BY DEF HelpFurthest, TypeOK, Thread
<1>12. JoinLookups'
  BY <1>6, <1>11, JoinLookupsStay
<1>13. HelpLookups'
  BY <1>3, <1>6, <1>11, LookupFields, HelpLookupReplaced
<1>14. Helpers'
  <2>1. /\ \A j \in FingerIndex : help[n].table[j] \in Members \cup {n, NoNode}
        /\ Follows(myHash, Members, n, help[n].table[0])
        /\ Follows(myHash, Members, n, help[n].host)
    BY <1>1, <1>2 DEF Helpers
  <2> HIDE DEF l
  <2> QED BY <2>1, <1>1, <1>2, <1>3, <1>5, <1>6, HostSets DEF Helpers, SameHosts, l
<1> QED BY <1>8, <1>9, <1>10, <1>12, <1>13, <1>14

\* The helper picks the entries it hands over and names its own predecessor.
LEMMA HelpFilesSerial ==
    ASSUME TypeOK, AskedOnce, Intact, Serial, NEW n \in Node, HelpFiles(n)
    PROVE  Serial'
<1> USE DEF Serial
<1> DEFINE f == [k \in Key |-> IF k \in Transferred(help[n].host, n)
                               THEN DHT[help[n].host][k] ELSE NoNode]
<1>1. help[n].pc = "files" /\ help[n] \in HelpState
  BY DEF HelpFiles, TypeOK
<1>2. n \in Newcomers /\ phase[n] \in Joining
  <2>1. phase[n] \in Joining
    BY <1>1 DEF AskedOnce, Intact
  <2> QED BY <2>1, WhoIsNew
<1>3. /\ \A x \in Node \ {n} : help'[x] = help[x]
      /\ help'[n].pc = "start" /\ help'[n].prev = help[n].prev /\ help'[n].host = help[n].host
      /\ help'[n].table = help[n].table
  BY <1>1 DEF HelpFiles, TypeOK, HelpState
<1>4. UNCHANGED << phase, myHash, localStart, fingerTable, walk, requests, lookup >>
  BY DEF HelpFiles
<1>5. SameHosts
  BY <1>1, <1>2, <1>3, <1>4, SameHostsWhen DEF Joining
<1>6. \A x : Walking(x) <=> Walking(x)'
  BY <1>4 DEF Walking
<1>7. OneNewcomer' /\ Asking' /\ Walks' /\ Fingers' /\ Links' /\ JoinLookups'
  BY <1>4, <1>5, <1>6, OneNewcomerStays, AskingStays, WalksStay, FingersStay, LinksStay,
     JoinLookupsStay
<1>8. Stages'
  BY <1>1, <1>2, <1>3, <1>4 DEF Stages, Joining
<1>9. Starts'
  BY <1>1, <1>3, <1>4, <1>5, HostSets, StartsStay
<1>10. HelpLookups'
  BY <1>1, <1>3, <1>4, <1>5 DEF HelpLookups, Visits, SameHosts, EntryHash
<1>11. Helpers'
  <2>1. /\ \A j \in FingerIndex : help[n].table[j] \in Members \cup {n, NoNode}
        /\ Follows(myHash, Members, n, help[n].table[0])
        /\ Follows(myHash, Members, n, help[n].host)
        /\ help[n].prev \in Members
    BY <1>1, <1>2 DEF Helpers
  <2> QED BY <2>1, <1>2, <1>3, <1>5, HostSets DEF Helpers, SameHosts
<1> QED BY <1>7, <1>8, <1>9, <1>10, <1>11

(* The end of a join.                                                      *)

\* The newcomer is a member from now on.
LEMMA JoinEnds ==
    ASSUME TypeOK, AskedOnce, Intact, Serial, NEW n \in Newcomers, phase[n] \in {"files", "up"},
           Members' = Members \cup {n}, Newcomers' = {},
           UNCHANGED << myHash, fingerTable, requests, lookup, walk >>,
           \A x \in Node : /\ phase'[x] = IF x = n THEN "up" ELSE phase[x]
                           /\ help'[x].pc = IF x = n THEN "done" ELSE help[x].pc,
           \A x \in Members \cup {n} : StartsAfter(myHash, Members \cup {n}, x, localStart'[x])
    PROVE  Serial'
<1> USE DEF Serial
<1>1. \A x \in Newcomers : x = n
  BY DEF OneNewcomer
<1>2. \A x \in Node \ {n} : phase[x] \notin Joining
  BY <1>1, WhoIsNew
<1>3. \A m \in requests : m.type \notin {"join", "help", "update", "updated"}
  <2>1. ASSUME NEW m \in requests, m.type \in {"join", "help", "update"} PROVE FALSE
    <3>1. m.new \in Node
      BY <2>1, RequestParts
    <3>2. phase[m.new] \in {"helpjoin", "wait"}
      BY <2>1, <3>1 DEF AskedOnce, Walks, Intact
    <3> QED BY <3>1, <3>2, <1>2 DEF Joining
  <2>2. ASSUME NEW m \in requests, m.type = "updated" PROVE FALSE
    BY <2>2, <1>2, RequestParts DEF Walks, Joining
  <2> QED BY <2>1, <2>2
<1>4. \A x \in Node : lookup[<<"join", x>>].st = "idle" /\ lookup[<<"help", x>>].st = "idle"
  <2> SUFFICES ASSUME NEW x \in Node,
                      lookup[<<"join", x>>].st # "idle" \/ lookup[<<"help", x>>].st # "idle"
               PROVE  FALSE
    OBVIOUS
  <2>1. x \in Newcomers /\ ~Walking(x)
    BY NotYetEntered
  <2> QED BY <2>1, <1>1 DEF Walking
<1>5. OneNewcomer'
  BY <1>1 DEF OneNewcomer
<1>6. Stages'
  BY DEF Stages
<1>7. Asking' /\ JoinLookups' /\ HelpLookups' /\ Helpers'
  BY <1>3, <1>4 DEF Asking, JoinLookups, HelpLookups, Helpers, Visits
<1>8. Walks'
  <2>1. \A x \in Node : phase'[x] # "walk"
    BY <1>2 DEF Joining
  <2> QED BY <2>1, <1>3 DEF Walks
<1>9. Fingers'
  <2>1. \A x \in Members, i \in FingerIndex : fingerTable[x][i] \in Members \cup {n, NoNode}
    BY <1>1 DEF Fingers
  <2>2. \A i \in FingerIndex : fingerTable[n][i] \in Members \cup {n, NoNode}
    BY DEF Fingers, Walking
  <2> QED BY <2>1, <2>2 DEF Fingers
<1>10. Links'
  <2>1. \A x \in Members : Follows(myHash, Members \cup {n}, x, fingerTable[x][0])
    BY DEF Links
  <2>2. Follows(myHash, Members, n, fingerTable[n][0])
    BY DEF Links, Walking
  <2>3. Follows(myHash, Members \cup {n}, n, fingerTable[n][0])
    BY <2>2, FollowsSelf, HostSets DEF TypeOK
  <2>4. \A x \in Members' : Follows(myHash', Members', x, fingerTable'[x][0])
    BY <2>1, <2>3
  <2> QED BY <2>4 DEF Links
<1>11. Starts'
  <2>1. Counted' = Members'
    BY DEF Counted
  <2>2. \A x \in Members' : StartsAfter(myHash', Counted', x, localStart'[x])
    BY <2>1
  <2> QED BY <2>2 DEF Starts
<1> QED BY <1>5, <1>6, <1>7, <1>8, <1>9, <1>10, <1>11

\* A helper that has counted the newcomer.
LEMMA HelpStartStarts ==
    ASSUME TypeOK, AskedOnce, Intact, Serial, NEW n \in Node, HelpStart(n)
    PROVE  /\ n \in Newcomers /\ Counted = Members
           /\ \A x \in Members : StartsAfter(myHash, Members \cup {n}, x, localStart'[x])
           /\ localStart'[n] = localStart[n]
<1> USE DEF Serial
<1> DEFINE r == help[n].host
<1>1. help[n].pc = "start" /\ phase[n] # "off" /\ phase[n] # "dead"
  BY DEF HelpStart, AskedOnce, Intact
<1>2. n \in Newcomers
  BY <1>1 DEF Newcomers, Started, Members
<1>3. Counted = Members
  BY <1>1, <1>2 DEF Counted, OneNewcomer
<1>4. Follows(myHash, Members, n, r) /\ r \in Members
  BY <1>1, <1>2 DEF Helpers, Follows
<1>5. /\ n \notin Members /\ Members \subseteq Node /\ myHash \in [Node -> Ids]
      /\ Distinct(myHash, Members \cup {n})
  BY <1>2, HostSets DEF TypeOK, OneNewcomer, Distinct
<1>6. \A x \in Node : localStart'[x] = IF x = r THEN HashValueAdd(myHash[n], 1) ELSE localStart[x]
  BY DEF HelpStart, TypeOK
<1>7. StartsAfter(myHash, Members \cup {n}, r, localStart'[r])
  <2>1. StartsAfter(myHash, Members \cup {n}, r, HashValueAdd(myHash[n], 1))
    BY <1>4, <1>5, StartOfHelper
  <2> QED BY <2>1, <1>4, <1>5, <1>6
<1>8. ASSUME NEW x \in Members, x # r
      PROVE  StartsAfter(myHash, Members \cup {n}, x, localStart'[x])
  <2>1. StartsAfter(myHash, Members, x, localStart[x])
    BY <1>3 DEF Starts
  <2>2. StartsAfter(myHash, Members \cup {n}, x, localStart[x])
    BY <2>1, <1>4, <1>5, <1>8, StartsGrow
  <2> QED BY <2>2, <1>5, <1>6, <1>8
<1> QED BY <1>2, <1>3, <1>4, <1>5, <1>6, <1>7, <1>8

\* The helper's last assignment: it counts the newcomer as its predecessor.
LEMMA HelpStartSerial ==
    ASSUME TypeOK, AskedOnce, Intact, Serial, NEW n \in Node, HelpStart(n)
    PROVE  Serial'
<1> USE DEF Serial
<1>1. /\ n \in Newcomers /\ Counted = Members
      /\ \A x \in Members : StartsAfter(myHash, Members \cup {n}, x, localStart'[x])
      /\ localStart'[n] = localStart[n]
  BY HelpStartStarts
<1>2. /\ help[n].pc = "start" /\ help[n] \in HelpState
      /\ \A x \in Newcomers : x = n
  BY <1>1 DEF HelpStart, TypeOK, OneNewcomer
<1>3. /\ \A x \in Node \ {n} : help'[x] = help[x]
      /\ help'[n].pc = "done" /\ help'[n].prev = help[n].prev /\ help'[n].host = help[n].host
      /\ help'[n].table = help[n].table
  BY <1>2 DEF HelpStart, TypeOK, HelpState
<1>4. UNCHANGED << phase, myHash, fingerTable, walk, requests, lookup >>
  BY DEF HelpStart
<1>5. CASE phase[n] = "up"
  <2>1. \A x \in Node : help'[x].pc = IF x = n THEN "done" ELSE help[x].pc
    BY <1>3
  <2>2. Members' = Members \cup {n}
    BY <1>3, <1>4, <1>5 DEF Members
  <2>3. Started' = Started
    BY <1>4 DEF Started
  <2>4. Newcomers' = {}
    BY <1>2, <2>2, <2>3 DEF Newcomers
  <2>5. StartsAfter(myHash, Members \cup {n}, n, localStart'[n])
    BY <1>1, <1>5 DEF Starts
  <2> QED BY <1>1, <1>4, <1>5, <2>1, <2>2, <2>4, <2>5, JoinEnds
<1>6. CASE phase[n] # "up"
  <2>1. SameHosts
    BY <1>3, <1>4, <1>6, SameHostsWhen
  <2>2. \A x : Walking(x) <=> Walking(x)'
    BY <1>4 DEF Walking
  <2>3. OneNewcomer' /\ Asking' /\ Walks' /\ Fingers' /\ Links' /\ JoinLookups'
    BY <1>4, <2>1, <2>2, OneNewcomerStays, AskingStays, WalksStay, FingersStay, LinksStay,
       JoinLookupsStay
  <2>4. Stages'
    BY <1>2, <1>3, <1>4, <1>6 DEF Stages
  <2>5. HelpLookups'
    BY <1>2, <1>3, <1>4, <2>1 DEF HelpLookups, Visits, SameHosts, EntryHash
  <2>6. Helpers'
    <3>1. /\ \A j \in FingerIndex : help[n].table[j] \in Members \cup {n, NoNode}
          /\ Follows(myHash, Members, n, help[n].table[0])
          /\ help[n].prev \in Members
      BY <1>1, <1>2 DEF Helpers
    <3> QED BY <3>1, <1>2, <1>3, <2>1, HostSets DEF Helpers, SameHosts
  <2>7. Counted' = Members \cup {n}
    BY <1>1, <1>2, <1>3, <2>1 DEF Counted, SameHosts
  <2>8. Starts'
    <3>1. \A x \in Members' : StartsAfter(myHash', Counted', x, localStart'[x])
      BY <1>1, <2>1, <2>7 DEF SameHosts
    <3>2. \A x \in Newcomers' : phase'[x] \in {"files", "up"} =>
              StartsAfter(myHash', Members' \cup {x}, x, localStart'[x])
      BY <1>1, <1>2, <1>4, <2>1 DEF Starts, SameHosts
    <3> QED BY <3>1, <3>2 DEF Starts
  <2> QED BY <2>3, <2>4, <2>5, <2>6, <2>8
<1> QED BY <1>5, <1>6

\* The newcomer has its files: all that is missing is the helper's assignment.
LEMMA RecvFileTableSerial ==
    ASSUME TypeOK, AskedOnce, Intact, Serial, NEW n \in Node, RecvFileTable(n)
    PROVE  Serial'
<1> USE DEF Serial
<1>1. /\ phase[n] = "files" /\ help[n].pc \in {"start", "done"}
      /\ phase' = [phase EXCEPT ![n] = "up"]
      /\ UNCHANGED << myHash, localStart, requests, lookup, fingerTable, help, walk >>
  BY DEF RecvFileTable, joinVars
<1>2. \A x \in Node : phase'[x] = IF x = n THEN "up" ELSE phase[x]
  BY <1>1 DEF TypeOK
<1>3. n \in Newcomers /\ \A x \in Newcomers : x = n
  BY <1>1, WhoIsNew DEF Joining, OneNewcomer
<1>4. Started' = Started
  BY <1>1, <1>2 DEF Started
<1>5. CASE help[n].pc = "done"
  <2>1. Members' = Members \cup {n}
    BY <1>1, <1>2, <1>5 DEF Members
  <2>2. Newcomers' = {}
    BY <1>3, <1>4, <2>1 DEF Newcomers
  <2>3. Counted = Members \cup {n}
    BY <1>3, <1>5 DEF Counted
  <2>4. \A x \in Members \cup {n} : StartsAfter(myHash, Members \cup {n}, x, localStart'[x])
    BY <1>1, <1>3, <2>3 DEF Starts
  <2>5. \A x \in Node : help'[x].pc = IF x = n THEN "done" ELSE help[x].pc
    BY <1>1, <1>5
  <2> QED BY <1>1, <1>2, <1>3, <2>1, <2>2, <2>4, <2>5, JoinEnds
<1>6. CASE help[n].pc = "start"
  <2>1. SameHosts
    BY <1>1, <1>2, <1>6, SameHostsWhen
  <2>2. \A x \in Node : Walking(x) <=> Walking(x)'
    BY <1>1, <1>2 DEF Walking
  <2>2a. \A x \in Node : phase[x] = "prev" <=> phase'[x] = "prev"
    BY <1>1, <1>2
  <2>3. OneNewcomer' /\ Asking' /\ JoinLookups' /\ HelpLookups' /\ Helpers'
    BY <1>1, <2>1, OneNewcomerStays, AskingStays, JoinLookupsStay, HelpLookupsStay, HelpersStay
  <2>4. Stages'
    BY <1>1, <1>2, <1>6 DEF Stages
  <2>5. Walks'
    BY <1>1, <1>2, <2>1, WalksStay
  <2>6. \A x \in Newcomers : phase'[x] \in {"files", "up"} => phase[x] \in {"files", "up"}
    BY <1>1, <1>3
  <2>7. Fingers' /\ Links' /\ Starts'
    BY <1>1, <2>1, <2>2, <2>2a, <2>6, FingersStay, LinksStay, StartsStay
  <2> QED BY <2>3, <2>4, <2>5, <2>7
<1> QED BY <1>1, <1>5, <1>6

-----------------------------------------------------------------------------
(* The newcomer reads, and walks.                                          *)

\* A newcomer goes from one phase of its join to the next.
LEMMA NewcomerMoves ==
    ASSUME TypeOK, Intact, Serial, NEW n \in Node, phase[n] \in Joining, NEW p \in Joining,
           phase' = [phase EXCEPT ![n] = p], UNCHANGED << myHash, help >>
    PROVE  /\ SameHosts /\ n \in Newcomers /\ \A x \in Newcomers : x = n
           /\ \A x \in Node : phase'[x] = IF x = n THEN p ELSE phase[x]
<1>1. \A x \in Node : phase'[x] = IF x = n THEN p ELSE phase[x]
  BY DEF TypeOK
<1>2. SameHosts
  BY <1>1, SameHostsWhen DEF Joining
<1>3. n \in Newcomers
  BY DEF Newcomers, Members, Started, Joining
<1> QED BY <1>1, <1>2, <1>3 DEF Serial, OneNewcomer

\* The newcomer is helped: it hears of its helper.
LEMMA RecvHelpJoinSerial ==
    ASSUME TypeOK, AskedOnce, Intact, Serial, NEW n \in Node, RecvHelpJoin(n)
    PROVE  Serial'
<1> USE DEF Serial
<1>1. /\ phase[n] = "helpjoin" /\ help[n].pc # "idle" /\ phase' = [phase EXCEPT ![n] = "table"]
      /\ UNCHANGED << myHash, localStart, requests, lookup, fingerTable, help, walk >>
  BY DEF RecvHelpJoin, joinVars
<1>2. /\ SameHosts /\ n \in Newcomers /\ \A x \in Newcomers : x = n
      /\ \A x \in Node : phase'[x] = IF x = n THEN "table" ELSE phase[x]
  BY <1>1, NewcomerMoves DEF Joining
<1>3. \A x \in Node : /\ Walking(x) <=> Walking(x)'
                      /\ phase[x] = "prev" <=> phase'[x] = "prev"
  BY <1>1, <1>2 DEF Walking
<1>4. OneNewcomer' /\ Asking' /\ JoinLookups' /\ HelpLookups' /\ Helpers'
  BY <1>1, <1>2, OneNewcomerStays, AskingStays, JoinLookupsStay, HelpLookupsStay, HelpersStay
<1>5. Stages'
  BY <1>1, <1>2 DEF Stages
<1>6. Walks'
  BY <1>1, <1>2, WalksStay
<1>7. Fingers' /\ Links' /\ Starts'
  BY <1>1, <1>2, <1>3, FingersStay, LinksStay, StartsStay
<1> QED BY <1>4, <1>5, <1>6, <1>7

\* The newcomer stores its table.
LEMMA RecvRouteTableSerial ==
    ASSUME TypeOK, AskedOnce, Intact, Serial, NEW n \in Node, RecvRouteTable(n)
    PROVE  Serial'
<1> USE DEF Serial
<1>1. /\ phase[n] = "table" /\ help[n].pc \notin {"idle", "entry"}
      /\ phase' = [phase EXCEPT ![n] = "prev"]
      /\ fingerTable' = [fingerTable EXCEPT ![n] = help[n].table]
      /\ UNCHANGED << myHash, localStart, requests, lookup, help, walk >>
  BY DEF RecvRouteTable
<1>2. /\ SameHosts /\ n \in Newcomers /\ \A x \in Newcomers : x = n
      /\ \A x \in Node : phase'[x] = IF x = n THEN "prev" ELSE phase[x]
  BY <1>1, NewcomerMoves DEF Joining
<1>3. \A x \in Node : Walking(x) <=> Walking(x)'
  BY <1>1, <1>2 DEF Walking
<1>4. /\ fingerTable'[n] = help[n].table
      /\ \A x \in Members : fingerTable'[x] = fingerTable[x] /\ x # n
  BY <1>1, <1>2, HostSets DEF TypeOK
<1>5. /\ \A i \in FingerIndex : help[n].table[i] \in Members \cup {n, NoNode}
      /\ Follows(myHash, Members, n, help[n].table[0])
  BY <1>1, <1>2 DEF Helpers
<1>6. OneNewcomer' /\ Asking' /\ JoinLookups' /\ HelpLookups' /\ Helpers'
  BY <1>1, <1>2, OneNewcomerStays, AskingStays, JoinLookupsStay, HelpLookupsStay, HelpersStay
<1>7. Stages'
  BY <1>1, <1>2 DEF Stages
<1>8. Walks'
  <2>1. \A m \in requests : m.type \in {"update", "updated"} => FALSE
    <3>1. ASSUME NEW m \in requests, m.type = "update" PROVE FALSE
      <4>1. m.new \in Node /\ phase[m.new] = "wait"
        BY <3>1, RequestParts DEF Walks
      <4> QED BY <4>1, <1>1, <1>2, WhoIsNew DEF Joining
    <3>2. ASSUME NEW m \in requests, m.type = "updated" PROVE FALSE
      <4>1. m.to \in Node /\ phase[m.to] = "wait"
        BY <3>2, RequestParts DEF Walks
      <4> QED BY <4>1, <1>1, <1>2, WhoIsNew DEF Joining
    <3> QED BY <3>1, <3>2
  <2>2. \A x \in Node : phase'[x] # "walk"
    BY <1>1, <1>2, WhoIsNew DEF Joining
  <2> QED BY <2>1, <2>2, <1>1 DEF Walks
<1>9. Fingers'
  <2>1. \A x \in Members, i \in FingerIndex : fingerTable[x][i] \in Members \cup {NoNode}
    BY <1>1, <1>2 DEF Fingers, Walking
  <2> QED BY <2>1, <1>2, <1>4, <1>5 DEF Fingers, SameHosts
<1>10. Links'
  <2>1. \A x \in Members : Follows(myHash, Members, x, fingerTable[x][0])
    BY <1>1, <1>2 DEF Links, Walking
  <2>2. \A x \in Members' : Follows(myHash', Members', x, fingerTable'[x][0])
    BY <2>1, <1>2, <1>4 DEF SameHosts
  <2>3. \A x \in Newcomers' : Follows(myHash', Members', x, fingerTable'[x][0])
    BY <1>2, <1>4, <1>5 DEF SameHosts
  <2>4. \A x \in Newcomers' : phase'[x] = "prev"
    BY <1>2, HostSets DEF SameHosts
  <2> QED BY <2>2, <2>3, <2>4 DEF Links
<1>11. Starts'
  <2>1. \A x \in Newcomers : phase'[x] \in {"files", "up"} => phase[x] \in {"files", "up"}
    BY <1>2
  <2> QED BY <1>1, <1>2, <2>1, StartsStay
<1> QED BY <1>6, <1>7, <1>8, <1>9, <1>10, <1>11

\* The newcomer hears who precedes it: the walk begins there.
LEMMA RecvLookupNodeSerial ==
    ASSUME TypeOK, AskedOnce, Intact, Serial, NEW n \in Node, RecvLookupNode(n)
    PROVE  Serial'
<1> USE DEF Serial
<1>1. /\ phase[n] = "prev" /\ help[n].pc \in {"files", "start", "done"}
      /\ phase' = [phase EXCEPT ![n] = "walk"] /\ walk' = [walk EXCEPT ![n] = help[n].prev]
      /\ UNCHANGED << myHash, localStart, requests, lookup, fingerTable, help >>
  BY DEF RecvLookupNode
<1>2. /\ SameHosts /\ n \in Newcomers /\ \A x \in Newcomers : x = n
      /\ \A x \in Node : phase'[x] = IF x = n THEN "walk" ELSE phase[x]
  BY <1>1, NewcomerMoves DEF Joining
<1>3. \A x \in Node : /\ Walking(x) => Walking(x)'
                      /\ (phase[x] = "prev" \/ Walking(x))' => phase[x] = "prev" \/ Walking(x)
  BY <1>1, <1>2 DEF Walking
<1>4. OneNewcomer' /\ Asking' /\ JoinLookups' /\ HelpLookups' /\ Helpers'
  BY <1>1, <1>2, OneNewcomerStays, AskingStays, JoinLookupsStay, HelpLookupsStay, HelpersStay
<1>5. Stages'
  BY <1>1, <1>2 DEF Stages
<1>6. Walks'
  <2>1. help[n].prev \in Members
    BY <1>1, <1>2 DEF Helpers
  <2>2. \A x \in Node : walk'[x] = IF x = n THEN help[n].prev ELSE walk[x]
    BY <1>1 DEF TypeOK
  <2>3. \A m \in requests : /\ m.type = "update" => m.new \in Node
                            /\ m.type = "updated" => m.to \in Node
    BY RequestParts
  <2> QED BY <1>1, <1>2, <2>1, <2>2, <2>3 DEF Walks, SameHosts
<1>7. \A x \in Newcomers : phase'[x] \in {"files", "up"} => phase[x] \in {"files", "up"}
  BY <1>2
<1>8. Fingers' /\ Links' /\ Starts'
  BY <1>1, <1>2, <1>3, <1>7, FingersStay, LinksStay, StartsStay
<1> QED BY <1>4, <1>5, <1>6, <1>8

\* The next host of the walk is asked to enter the newcomer.
LEMMA WalkSendSerial ==
    ASSUME TypeOK, AskedOnce, Intact, Serial, Intact', NEW n \in Node, WalkSend(n)
    PROVE  Serial'
<1> USE DEF Serial
<1> DEFINE q == [type |-> "update", to |-> walk[n], new |-> n]
<1>1. /\ phase[n] = "walk" /\ phase' = [phase EXCEPT ![n] = "wait"]
      /\ requests' = requests \cup {q}
      /\ UNCHANGED << myHash, localStart, lookup, fingerTable, help, walk >>
  BY CrashEnds DEF WalkSend, joinVars
<1>2. /\ SameHosts /\ n \in Newcomers /\ \A x \in Newcomers : x = n
      /\ \A x \in Node : phase'[x] = IF x = n THEN "wait" ELSE phase[x]
  BY <1>1, NewcomerMoves DEF Joining
<1>3. \A x \in Node : /\ Walking(x) <=> Walking(x)'
                      /\ phase[x] = "prev" <=> phase'[x] = "prev"
  BY <1>1, <1>2 DEF Walking
<1>4. OneNewcomer' /\ Asking' /\ JoinLookups' /\ HelpLookups' /\ Helpers'
  BY <1>1, <1>2, OneNewcomerStays, AskingStays, JoinLookupsStay, HelpLookupsStay, HelpersStay
<1>5. Stages'
  BY <1>1, <1>2 DEF Stages
<1>6. Walks'
  <2>1. \A m \in requests : m.type \in {"update", "updated"} => FALSE
    <3>1. ASSUME NEW m \in requests, m.type = "update" PROVE FALSE
      <4>1. m.new \in Node /\ phase[m.new] = "wait"
        BY <3>1, RequestParts DEF Walks
      <4> QED BY <4>1, <1>1, <1>2, WhoIsNew DEF Joining
    <3>2. ASSUME NEW m \in requests, m.type = "updated" PROVE FALSE
      <4>1. m.to \in Node /\ phase[m.to] = "wait"
        BY <3>2, RequestParts DEF Walks
      <4> QED BY <4>1, <1>1, <1>2, WhoIsNew DEF Joining
    <3> QED BY <3>1, <3>2
  <2>2. \A x \in Node : phase'[x] # "walk"
    BY <1>1, <1>2, WhoIsNew DEF Joining
  <2>3. walk[n] \in Members
    BY <1>1 DEF Walks
  <2>4. q.type = "update" /\ q.to = walk[n] /\ q.new = n
    OBVIOUS
  <2> HIDE DEF q
  <2>5. \A m \in requests' : m.type \in {"update", "updated"} => m = q
    BY <1>1, <2>1
  <2> QED BY <1>2, <2>2, <2>3, <2>4, <2>5 DEF Walks, SameHosts
<1>7. \A x \in Newcomers : phase'[x] \in {"files", "up"} => phase[x] \in {"files", "up"}
  BY <1>2
<1>8. Fingers' /\ Links' /\ Starts'
  BY <1>1, <1>2, <1>3, <1>7, FingersStay, LinksStay, StartsStay
<1> QED BY <1>4, <1>5, <1>6, <1>8

\* A newcomer that is nearer than the first finger takes its place.
LEMMA FirstFingerUpdated ==
    ASSUME TypeOK, Distinct(myHash, Started), NEW x \in Members, NEW n \in Newcomers,
           \/ Follows(myHash, Members, x, fingerTable[x][0])
           \/ fingerTable[x][0] = n /\ Follows(myHash, Members \cup {n}, x, n)
    PROVE  LET y == UpdatedTable(x, n)[0]
           IN  \/ Follows(myHash, Members, x, y)
               \/ y = n /\ Follows(myHash, Members \cup {n}, x, n)
<1> DEFINE y == UpdatedTable(x, n)[0]
           f == fingerTable[x][0]
<1>1. x \in Node /\ n \in Node /\ Members \subseteq Node
  BY HostSets
<1>2. \A z \in Node : myHash[z] \in Ids
  BY DEF TypeOK
<1>3. \A z \in Node : GetDistance(myHash[x], myHash[z]) \in Nat
  BY <1>1, <1>2, DistanceRange, PointsNat
<1>4. y = IF /\ GetDistance(myHash[x], myHash[n]) >= 2^0
             /\ GetDistance(myHash[x], myHash[n]) < GetDistance(myHash[x], StoredHash(f))
          THEN n ELSE f
  BY Constants DEF UpdatedTable
<1>5. CASE y = f
  BY <1>5
<1>6. CASE y # f
  <2>1. y = n /\ GetDistance(myHash[x], myHash[n]) < GetDistance(myHash[x], StoredHash(f))
    BY <1>4, <1>6
  <2>2. f # n
    BY <2>1, <1>6
  <2>3. Follows(myHash, Members, x, f)
    BY <2>2
  <2>4. f \in Members /\ StoredHash(f) = myHash[f]
    BY <2>3, <1>1, Constants DEF Follows, StoredHash
  <2>5. \A z \in Members \cup {n} : GetDistance(myHash[x], myHash[z]) \in Int
    BY <1>1, <1>3
  <2> QED BY <2>1, <2>3, <2>4, <2>5, FollowsNearer
<1> QED BY <1>5, <1>6

\* handle_update_route_req: a member enters the newcomer where it is nearer.
LEMMA HandleUpdateRouteReqSerial ==
    ASSUME TypeOK, AskedOnce, Intact, Serial, Intact', NEW m \in requests, HandleUpdateRouteReq(m)
    PROVE  Serial'
<1> USE DEF Serial
<1> DEFINE x == m.to
           n == m.new
           table == UpdatedTable(x, n)
           q == [type |-> "updated", to |-> n, cur |-> x, next |-> table[0]]
<1>1. /\ m.type = "update" /\ x \in Node /\ n \in Node /\ x \in Members /\ phase[n] = "wait"
      /\ n \in Newcomers /\ \A z \in Newcomers : z = n
  <2>1. m.type = "update" /\ x \in Node /\ n \in Node /\ x \in Members /\ phase[n] = "wait"
    BY RequestParts DEF HandleUpdateRouteReq, Walks
  <2> QED BY <2>1, WhoIsNew DEF Joining, OneNewcomer
<1>2. /\ fingerTable' = [fingerTable EXCEPT ![x] = table]
      /\ requests' = (requests \ {m}) \cup {q}
      /\ UNCHANGED << phase, myHash, localStart, lookup, help, walk >>
  BY <1>1, CrashEnds DEF HandleUpdateRouteReq
<1>3. SameHosts
  BY <1>2, SameHostsWhen
<1>4. \A z : Walking(z) <=> Walking(z)'
  BY <1>2 DEF Walking
<1>5. \A z \in Node : fingerTable'[z] = IF z = x THEN table ELSE fingerTable[z]
  BY <1>2 DEF TypeOK
<1>6. \A i \in FingerIndex : table[i] \in {n, fingerTable[x][i]}
  BY DEF UpdatedTable
<1>7. q.type = "updated" /\ q.to = n /\ q.cur = x /\ q.next = table[0]
  OBVIOUS
<1> HIDE DEF q, table
<1>8. OneNewcomer' /\ Stages' /\ Asking' /\ JoinLookups' /\ HelpLookups' /\ Helpers' /\ Starts'
  BY <1>2, <1>3, <1>7, OneNewcomerStays, StagesStay, AskingStays, JoinLookupsStay,
     HelpLookupsStay, HelpersStay, StartsStay
<1>9. Walks'
  <2>1. \A o \in requests' : o.type \in {"update", "updated"} => o = q
    BY <1>1, <1>2 DEF Walks
  <2>2. \A z \in Node : phase'[z] = "walk" => walk'[z] \in Members'
    BY <1>2, <1>3 DEF Walks, SameHosts
  <2>3. fingerTable'[x][0] = table[0]
    BY <1>1, <1>5
  <2> QED BY <2>1, <2>2, <2>3, <1>1, <1>2, <1>3, <1>7 DEF Walks, SameHosts
<1>10. Walking(n)
  BY <1>1 DEF Walking
<1>11. \A z \in Newcomers : fingerTable'[z] = fingerTable[z]
  BY <1>1, <1>5, HostSets
<1>12. Fingers'
  <2>1. ASSUME NEW z \in Members, NEW i \in FingerIndex
        PROVE  \/ fingerTable'[z][i] \in Members \cup {NoNode}
               \/ fingerTable'[z][i] \in Newcomers /\ Walking(fingerTable'[z][i])
    <3>1. fingerTable'[z][i] = n \/ fingerTable'[z][i] = fingerTable[z][i]
      BY <1>5, <1>6, HostSets
    <3> QED BY <3>1, <1>1, <1>10 DEF Fingers
  <2>2. \A z \in Newcomers, i \in FingerIndex : phase'[z] = "prev" \/ Walking(z)' =>
            fingerTable'[z][i] \in Members \cup {z, NoNode}
    BY <1>2, <1>4, <1>11 DEF Fingers
  <2> QED BY <2>1, <2>2, <1>3, <1>4 DEF Fingers, SameHosts
<1>13. Links'
  <2> DEFINE y == fingerTable[x][0]
  <2>1. \/ Follows(myHash, Members, x, y)
        \/ y = n /\ Follows(myHash, Members \cup {n}, x, n)
    BY <1>1 DEF Links
  <2>2. Distinct(myHash, Started)
    BY HostSets DEF OneNewcomer
  <2>3. \/ Follows(myHash, Members, x, table[0])
        \/ table[0] = n /\ Follows(myHash, Members \cup {n}, x, n)
    BY <1>1, <2>1, <2>2, FirstFingerUpdated DEF table
  <2>4. ASSUME NEW z \in Members
        PROVE  \/ Follows(myHash, Members, z, fingerTable'[z][0])
               \/ /\ fingerTable'[z][0] \in Newcomers /\ Walking(fingerTable'[z][0])
                  /\ Follows(myHash, Members \cup {fingerTable'[z][0]}, z, fingerTable'[z][0])
    <3>1. CASE z = x
      <4>1. fingerTable'[z][0] = table[0]
        BY <3>1, <1>1, <1>5
      <4> QED BY <3>1, <4>1, <2>3, <1>1, <1>10
    <3>2. CASE z # x
      <4>1. fingerTable'[z][0] = fingerTable[z][0]
        BY <3>2, <1>5, HostSets
      <4> QED BY <4>1 DEF Links
    <3> QED BY <3>1, <3>2
  <2>5. \A z \in Members' :
          \/ Follows(myHash', Members', z, fingerTable'[z][0])
          \/ /\ fingerTable'[z][0] \in Newcomers'
             /\ phase'[fingerTable'[z][0]] \in {"walk", "wait", "files", "up"}
             /\ Follows(myHash', Members' \cup {fingerTable'[z][0]}, z, fingerTable'[z][0])
    BY <2>4, <1>2, <1>3 DEF SameHosts, Walking
  <2>6. \A z \in Newcomers' : phase'[z] = "prev" \/ Walking(z)' =>
          Follows(myHash', Members', z, fingerTable'[z][0])
    BY <1>2, <1>3, <1>4, <1>11 DEF Links, SameHosts
  <2>7. \A z \in Newcomers' : phase'[z] \notin {"files", "up"}
    BY <1>1, <1>2, <1>3 DEF SameHosts
  <2> QED BY <2>5, <2>6, <2>7 DEF Links, Walking
<1> QED BY <1>8, <1>9, <1>12, <1>13

\* The walk moves on, or has gone round: then every member names who follows it.
LEMMA WalkRecvSerial ==
    ASSUME TypeOK, AskedOnce, Intact, Serial, NEW m \in requests, WalkRecv(m)
    PROVE  Serial'
<1> USE DEF Serial
<1> DEFINE n == m.to
           ends == StoredHash(m.next) = myHash[n]
<1>1. /\ m.type = "updated" /\ n \in Node /\ m.cur \in Node /\ phase[n] = "wait"
      /\ m.cur \in Members /\ m.next = fingerTable[m.cur][0]
      /\ requests' = requests \ {m}
      /\ phase' = [phase EXCEPT ![n] = IF ends THEN "files" ELSE "walk"]
      /\ UNCHANGED << myHash, lookup, fingerTable, help >>
  BY RequestParts DEF WalkRecv, Walks
<1>2. /\ SameHosts /\ n \in Newcomers /\ \A x \in Newcomers : x = n
      /\ \A x \in Node : phase'[x] = IF x = n THEN (IF ends THEN "files" ELSE "walk") ELSE phase[x]
  <2>1. (IF ends THEN "files" ELSE "walk") \in Joining
    BY DEF Joining
  <2>2. phase[n] \in Joining
    BY <1>1 DEF Joining
  <2> HIDE DEF ends
  <2> QED BY <1>1, <2>1, <2>2, NewcomerMoves
<1>3. \A x \in Node : /\ Walking(x) <=> Walking(x)'
                      /\ phase[x] = "prev" <=> phase'[x] = "prev"
  BY <1>1, <1>2 DEF Walking
<1>4. OneNewcomer' /\ Asking' /\ JoinLookups' /\ HelpLookups' /\ Helpers'
  BY <1>1, <1>2, OneNewcomerStays, AskingStays, JoinLookupsStay, HelpLookupsStay, HelpersStay
<1>5. Stages'
  BY <1>1, <1>2 DEF Stages
<1>6. Fingers'
  BY <1>1, <1>2, <1>3, FingersStay
<1>7. /\ n \notin Members /\ Members \subseteq Node /\ myHash \in [Node -> Ids]
      /\ Distinct(myHash, Members \cup {n})
  BY <1>2, HostSets DEF TypeOK, OneNewcomer, Distinct
<1>8. \/ m.next \in Members /\ Follows(myHash, Members, m.cur, m.next)
      \/ m.next = n /\ Follows(myHash, Members \cup {n}, m.cur, n)
  BY <1>1, <1>2 DEF Links, Follows
<1>9. \A o \in requests' : o.type \notin {"update", "updated"}
  BY <1>1 DEF Walks
<1>10. \A x \in Node \ {n} : phase[x] \notin Joining
  BY <1>2, WhoIsNew
<1>11. CASE ends
  <2>1. m.next = n /\ Follows(myHash, Members \cup {n}, m.cur, n)
    <3>1. ASSUME m.next \in Members PROVE FALSE
      <4>1. StoredHash(m.next) = myHash[m.next] /\ m.next # n
        BY <3>1, <1>7, Constants DEF StoredHash
      <4> QED BY <4>1, <3>1, <1>7, <1>11 DEF Distinct
    <3> QED BY <3>1, <1>8
  <2>2. localStart' = [localStart EXCEPT ![n] = HashValueAdd(myHash[m.cur], 1)] /\ walk' = walk
    BY <1>11 DEF WalkRecv
  <2>3. \A x \in Node : localStart'[x] = IF x = n THEN HashValueAdd(myHash[m.cur], 1)
                                                  ELSE localStart[x]
    BY <2>2 DEF TypeOK
  <2>4. Walks'
    <3>1. \A x \in Node : phase'[x] # "walk"
      BY <1>2, <1>10, <1>11 DEF Joining
    <3> QED BY <3>1, <1>9 DEF Walks
  <2>5. Starts'
    <3>1. StartsAfter(myHash, Members \cup {n}, n, localStart'[n])
      BY <1>1, <1>7, <2>1, <2>3, StartOfNew
    <3>2. Counted' = Counted
      BY <1>1, <1>2 DEF Counted, SameHosts
    <3>3. \A x \in Members : localStart'[x] = localStart[x]
      BY <1>7, <2>3
    <3>4. \A x \in Members' : StartsAfter(myHash', Counted', x, localStart'[x])
      BY <1>2, <3>2, <3>3 DEF Starts, SameHosts
    <3>5. \A x \in Newcomers' : StartsAfter(myHash', Members' \cup {x}, x, localStart'[x])
      BY <1>2, <3>1 DEF SameHosts
    <3> QED BY <3>4, <3>5 DEF Starts
  <2>6. Links'
    <3>1. ASSUME NEW x \in Members
          PROVE  Follows(myHash, Members \cup {n}, x, fingerTable[x][0])
      <4>1. CASE x = m.cur
        BY <4>1, <2>1, <1>1
      <4>2. CASE x # m.cur
        <5>1. \/ Follows(myHash, Members, x, fingerTable[x][0])
              \/ Follows(myHash, Members \cup {n}, x, fingerTable[x][0])
          BY <1>2 DEF Links
        <5> QED BY <5>1, <4>2, <2>1, <1>1, <1>7, FollowsStays
      <4> QED BY <4>1, <4>2
    <3>2. \A x \in Newcomers' : phase'[x] \in {"files", "up"} =>
             \A z \in Members' : Follows(myHash', Members' \cup {x}, z, fingerTable'[z][0])
      BY <3>1, <1>1, <1>2 DEF SameHosts
    <3>3. \A x \in Newcomers' : phase'[x] = "prev" \/ Walking(x)' =>
             Follows(myHash', Members', x, fingerTable'[x][0])
      BY <1>1, <1>2, <1>3, HostSets DEF Links, SameHosts
    <3>4. ASSUME NEW z \in Members
          PROVE  \/ Follows(myHash, Members, z, fingerTable[z][0])
                 \/ /\ fingerTable[z][0] \in Newcomers
                    /\ phase'[fingerTable[z][0]] \in {"walk", "wait", "files", "up"}
                    /\ Follows(myHash, Members \cup {fingerTable[z][0]}, z, fingerTable[z][0])
      BY <1>1, <1>2, <1>11, HostSets DEF Links
    <3>5. \A z \in Members' :
            \/ Follows(myHash', Members', z, fingerTable'[z][0])
            \/ /\ fingerTable'[z][0] \in Newcomers'
             /\ phase'[fingerTable'[z][0]] \in {"walk", "wait", "files", "up"}
               /\ Follows(myHash', Members' \cup {fingerTable'[z][0]}, z, fingerTable'[z][0])
      BY <3>4, <1>1, <1>2 DEF SameHosts
    <3> QED BY <3>2, <3>3, <3>5 DEF Links, Walking
  <2> QED BY <1>4, <1>5, <1>6, <2>4, <2>5, <2>6
<1>12. CASE ~ends
  <2>1. m.next \in Members
    BY <1>1, <1>7, <1>8, <1>12, Constants DEF StoredHash
  <2>2. localStart' = localStart /\ walk' = [walk EXCEPT ![n] = m.next]
    BY <1>12 DEF WalkRecv
  <2>3. Walks'
    <3>1. \A x \in Node : phase'[x] = "walk" => walk'[x] \in Members'
      BY <1>2, <1>10, <2>1, <2>2 DEF Joining, SameHosts, TypeOK
    <3> QED BY <3>1, <1>9 DEF Walks
  <2>4. \A x \in Newcomers : phase'[x] \in {"files", "up"} => phase[x] \in {"files", "up"}
    <3>1. phase'[n] = "walk"
      BY <1>2, <1>12, HostSets
    <3> QED BY <3>1, <1>2
  <2> HIDE DEF ends
  <2>5. Links'
    BY <1>1, <1>2, <1>3, <2>4, LinksStay
  <2>6. Starts'
    BY <1>1, <1>2, <2>2, <2>4, StartsStay
  <2> QED BY <1>4, <1>5, <1>6, <2>3, <2>5, <2>6
<1> QED BY <1>11, <1>12

-----------------------------------------------------------------------------
(* Every step.                                                             *)

\* The menu and the index leave joins alone.
LEMMA FileStepLeaves ==
    ASSUME TypeOK, Intact', UserStep \/ FileStep
    PROVE  /\ UNCHANGED << phase, myHash, fingerTable, localStart, help, walk >>
           /\ \A n \in Node : /\ lookup'[<<"join", n>>] = lookup[<<"join", n>>]
                              /\ lookup'[<<"help", n>>] = lookup[<<"help", n>>]
           /\ \A m \in requests' : m.type \in {"join", "help", "update", "updated"}
                                      => m \in requests
<1> DEFINE Goal == /\ UNCHANGED << phase, myHash, fingerTable, localStart, help, walk >>
                   /\ \A n \in Node : /\ lookup'[<<"join", n>>] = lookup[<<"join", n>>]
                                      /\ lookup'[<<"help", n>>] = lookup[<<"help", n>>]
                   /\ \A m \in requests' : m.type \in {"join", "help", "update", "updated"}
                                              => m \in requests
<1>1. ASSUME NEW n \in Node, NEW op \in Commands, NEW k \in Key, EnterCommand(n, op, k)
      PROVE  Goal
  BY <1>1 DEF EnterCommand, TypeOK, Thread, joinVars
<1>2. ASSUME NEW n \in Node, UserExit(n) PROVE Goal
  BY <1>2, CrashEnds DEF UserExit
<1>3. ASSUME NEW n \in Node, AddReturn(n) PROVE Goal
  BY <1>3, CrashEnds DEF AddReturn, CommandEnds, TypeOK, Thread, joinVars
<1>4. ASSUME NEW n \in Node, DeleteReturn(n) PROVE Goal
  BY <1>4, CrashEnds DEF DeleteReturn, CommandEnds, TypeOK, Thread, joinVars
<1>5. ASSUME NEW n \in Node, SearchReturn(n) PROVE Goal
  BY <1>5 DEF SearchReturn, CommandEnds, TypeOK, Thread, joinVars
<1>6. ASSUME NEW m \in requests, AddFileReqHandle(m) PROVE Goal
  BY <1>6 DEF AddFileReqHandle, joinVars
<1>7. ASSUME NEW m \in requests, DelFileReqHandle(m) PROVE Goal
  BY <1>7, RequestParts, CrashEnds DEF DelFileReqHandle, joinVars
<1> QED BY <1>1, <1>2, <1>3, <1>4, <1>5, <1>6, <1>7 DEF UserStep, FileStep

\* Serial across every step, while nobody dies.
LEMMA SerialNext ==
    ASSUME Pacing \in {"quiet", "serial"}, TypeOK, AskedOnce, FirstFirst, Intact, Apart, Serial,
           [Next]_vars, TypeOK', Intact'
    PROVE  Serial'
<1>1. CASE StartHost
  <2>1. ASSUME NEW n \in Node, NEW e \in Node, NEW h \in FreePositions, JoinChord(n, e, h)
        PROVE  NoJoin
    BY <2>1, UserAssumption DEF JoinChord, Ready, Quiet
  <2> QED BY <1>1, <2>1, InitialChordSerial, JoinChordSerial DEF StartHost
<1>2. CASE UserStep \/ FileStep
  BY <1>2, FileStepLeaves, SerialStays
<1>3. CASE LookupStep
  BY <1>3, LookupStepGoesOn, LookupGoesOnSerial DEF LookupStep
<1>4. CASE JoinStep
  <2>1. ASSUME NEW m \in requests,
               \/ JoinReqHandle(m) \/ HelpJoinReqHandle(m)
               \/ HandleUpdateRouteReq(m) \/ WalkRecv(m)
        PROVE  Serial'
    BY <2>1, JoinReqHandleSerial, HelpJoinReqHandleSerial, HandleUpdateRouteReqSerial,
       WalkRecvSerial
  <2>2. ASSUME NEW n \in Node,
               \/ JoinReqReturn(n) \/ HelpEntry(n) \/ HelpFurthest(n) \/ HelpFiles(n)
               \/ HelpStart(n)
        PROVE  Serial'
    BY <2>2, JoinReqReturnSerial, HelpEntrySerial, HelpFurthestSerial, HelpFilesSerial,
       HelpStartSerial
  <2>3. ASSUME NEW n \in Node,
               \/ RecvHelpJoin(n) \/ RecvRouteTable(n) \/ RecvLookupNode(n)
               \/ WalkSend(n) \/ RecvFileTable(n)
        PROVE  Serial'
    BY <2>3, RecvHelpJoinSerial, RecvRouteTableSerial, RecvLookupNodeSerial, WalkSendSerial,
       RecvFileTableSerial
  <2>4. ASSUME NEW n \in Node, HelpPipeBroken(n) \/ JoinFails(n) PROVE FALSE
    BY <2>4, CrashEnds DEF HelpPipeBroken, JoinFails, Alive
  <2> QED BY <1>4, <2>1, <2>2, <2>3, <2>4 DEF JoinStep
<1>5. CASE UNCHANGED vars
  BY <1>5, SerialStays DEF vars
<1> QED BY <1>1, <1>2, <1>3, <1>4, <1>5 DEF Next, ThreadStep

\* Nobody can be started before First.
LEMMA FirstFirstStep ==
    ASSUME TypeOK, AskedOnce, FirstFirst, [Next]_vars
    PROVE  FirstFirst'
<1> SUFFICES ASSUME Intact', phase'[First] = "off", NEW n \in Node PROVE phase'[n] = "off"
  BY DEF FirstFirst
<1>0. Intact
  BY DeadStays
<1>1. \A x \in Started : x \in Started'
  BY StartedStays
<1>2. \A x \in Node : phase[x] = "off"
  BY <1>0, <1>1, Constants DEF Started, FirstFirst
<1>3. \/ UNCHANGED phase \/ \E x : phase' = [phase EXCEPT ![x] = "dead"]
      \/ \E h \in Positions : InitialChord(h)
      \/ \E x, e \in Node, h \in FreePositions : JoinChord(x, e, h)
      \/ \E m \in requests : WalkRecv(m)
      \/ \E x \in Node : \/ RecvHelpJoin(x) \/ RecvRouteTable(x) \/ RecvLookupNode(x)
                         \/ WalkSend(x) \/ RecvFileTable(x)
  BY PhasesReadyWriters
<1>4. ASSUME NEW h \in Positions, InitialChord(h) PROVE FALSE
  BY <1>4, Constants DEF InitialChord, TypeOK
<1>5. ASSUME NEW x \in Node, NEW e \in Node, NEW h \in FreePositions, JoinChord(x, e, h)
      PROVE  FALSE
  BY <1>5, <1>2 DEF JoinChord, Alive
<1>6. ASSUME NEW m \in requests, WalkRecv(m) PROVE FALSE
  BY <1>6, <1>2, RequestParts DEF WalkRecv
<1>7. ASSUME NEW x \in Node, RecvHelpJoin(x) \/ RecvRouteTable(x) \/ RecvLookupNode(x)
                             \/ WalkSend(x) \/ RecvFileTable(x)
      PROVE  FALSE
  BY <1>7, <1>2 DEF RecvHelpJoin, RecvRouteTable, RecvLookupNode, WalkSend, RecvFileTable
<1>8. ASSUME NEW x, phase' = [phase EXCEPT ![x] = "dead"] PROVE UNCHANGED phase
  <2>1. x \notin Node
    BY <1>8 DEF Intact, TypeOK
  <2> QED BY <1>8, <2>1 DEF TypeOK
<1>9. UNCHANGED phase
  BY <1>3, <1>4, <1>5, <1>6, <1>7, <1>8
<1> QED BY <1>2, <1>9

\* The inductive invariant.
LEMMA SerialStep ==
    ASSUME Pacing \in {"quiet", "serial"}, SerialInv, [Next]_vars
    PROVE  SerialInv'
<1>1. TypeOK' /\ AskedOnce' /\ FirstFirst'
  BY NextType, AskedOnceStep, FirstFirstStep DEF SerialInv
<1>2. ASSUME Intact', Apart' PROVE Serial'
  BY <1>1, <1>2, DeadStays, ApartBefore, SerialNext DEF SerialInv
<1> QED BY <1>1, <1>2 DEF SerialInv

\* Nobody has been started.
LEMMA SerialInit == Init => SerialInv
<1> SUFFICES ASSUME Init PROVE SerialInv
  OBVIOUS
<1>1. TypeOK /\ AskedOnce
  BY InitType, AskedOnceInit
<1>2. /\ \A n \in Node : phase[n] = "off" /\ help[n].pc = "idle"
      /\ \A t \in Thread : lookup[t].st = "idle"
      /\ requests = {}
  BY DEF Init, NoHelp, NoLookup
<1>3. Members = {} /\ Newcomers = {} /\ Started = {}
  BY <1>2 DEF Members, Newcomers, Started
<1>4. \A n \in Node : lookup[<<"join", n>>].st = "idle" /\ lookup[<<"help", n>>].st = "idle"
  BY <1>2 DEF Thread
<1>5. OneNewcomer /\ Stages /\ Asking /\ JoinLookups /\ HelpLookups
  BY <1>2, <1>3, <1>4 DEF OneNewcomer, Stages, Asking, JoinLookups, HelpLookups, Visits, Distinct
<1>6. Helpers /\ Walks /\ Fingers /\ Links /\ Starts
  BY <1>2, <1>3 DEF Helpers, Walks, Fingers, Links, Starts
<1> QED BY <1>1, <1>2, <1>5, <1>6 DEF SerialInv, Serial, FirstFirst

-----------------------------------------------------------------------------
(* The ring.                                                               *)

\* Spaced hosts are never one point apart.
LEMMA SpacedApart ==
    ASSUME TypeOK, Spaced
    PROVE  Apart
<1> SUFFICES ASSUME NEW a \in Started, NEW b \in Started, GetDistance(myHash[a], myHash[b]) = 1
             PROVE  FALSE
  BY DEF Apart
<1>1. myHash[a] \in Ids /\ myHash[b] \in Ids
  BY DEF TypeOK, Started
<1>2. 0 \in FingerIndex /\ 2^0 = 1 /\ 1 < TotalHashPoints
  BY Constants, EntryNat, PowersOfTwo
<1>3. Steps(myHash[a], myHash[b]) # 1
  BY <1>2 DEF Spaced
<1>4. Steps(myHash[a], myHash[b]) =
          IF myHash[b] >= myHash[a] THEN myHash[b] - myHash[a]
                                    ELSE myHash[b] - myHash[a] + TotalHashPoints
  BY <1>1, StepsRange
<1> QED BY <1>1, <1>2, <1>3, <1>4, PointsNat DEF GetDistance, Ids

\* The hashes of hosts S.
HashesOf(h, S) == { h[z] : z \in S }

\* Who precedes is the predecessor the properties name,
LEMMA PrecedesIsPredecessor ==
    ASSUME NEW N, NEW h \in [N -> Ids], NEW S, S \subseteq N, NEW x \in N, NEW p,
           Precedes(h, S, p, x)
    PROVE  PredecessorIn(HashesOf(h, S), h[x]) = h[p]
<1> DEFINE H == HashesOf(h, S)
           q == PredecessorIn(H, h[x])
<1>1. p \in S /\ h[p] \in Ids /\ h[x] \in Ids /\ H \subseteq Ids /\ H # {} /\ h[p] \in H
  BY DEF Precedes, HashesOf
<1>2. q \in H /\ \A z \in H : GetDistance(q, h[x]) <= GetDistance(z, h[x])
  BY <1>1, PredecessorExists
<1>3. GetDistance(q, h[x]) <= GetDistance(h[p], h[x])
  BY <1>1, <1>2
<1>4. GetDistance(h[p], h[x]) <= GetDistance(q, h[x])
  BY <1>2 DEF Precedes, HashesOf
<1>5. q \in Ids
  BY <1>1, <1>2
<1> HIDE DEF q, H
<1>6. q = h[p]
  BY <1>1, <1>3, <1>4, <1>5, PointsNat DEF GetDistance, Ids
<1> QED BY <1>6 DEF q, H

\* and who follows is the successor.
LEMMA FollowsIsSuccessor ==
    ASSUME NEW N, NEW h \in [N -> Ids], NEW S, S \subseteq N, NEW x \in N, NEW y,
           Follows(h, S, x, y)
    PROVE  SuccessorIn(HashesOf(h, S), HashValueAdd(h[x], 1)) = h[y]
<1> DEFINE H == HashesOf(h, S)
           v == HashValueAdd(h[x], 1)
           q == SuccessorIn(H, v)
<1>1. /\ y \in S /\ h[y] \in Ids /\ h[x] \in Ids /\ H \subseteq Ids /\ H # {} /\ h[y] \in H
      /\ v \in Ids
  BY AddRange, PointsNat DEF Follows, HashesOf
<1>2. q \in H /\ \A z \in H : Steps(v, q) <= Steps(v, z)
  BY <1>1, SuccessorExists
<1>3. Steps(v, q) <= Steps(v, h[y]) /\ q \in Ids
  BY <1>1, <1>2
<1>4. GetDistance(h[x], h[y]) <= GetDistance(h[x], q)
  BY <1>2 DEF Follows, HashesOf
<1>5. Steps(v, q) = IF q >= v THEN q - v ELSE q - v + TotalHashPoints
  BY <1>1, <1>3, StepsRange
<1>6. Steps(v, h[y]) = IF h[y] >= v THEN h[y] - v ELSE h[y] - v + TotalHashPoints
  BY <1>1, StepsRange
<1> HIDE DEF q, H
<1>7. q = h[y]
  BY <1>1, <1>3, <1>4, <1>5, <1>6, PointsNat DEF GetDistance, HashValueAdd, Ids
<1> QED BY <1>7 DEF q, H

\* RingConsistent for every set of hosts, every circle, and hosts that join one
\* after another: in a quiet system where nobody died every host starts right
\* after its predecessor and enters its successor first (join_chord, help_join,
\* handle_update_route_req).
THEOREM RingIsConsistent ==
    ASSUME Pacing \in {"quiet", "serial"}
    PROVE  Spec => []RingConsistent
<1>1. Init => SerialInv
  BY SerialInit
<1>2. SerialInv /\ [Next]_vars => SerialInv'
  BY SerialStep
<1>3. SerialInv => RingConsistent
  <2> SUFFICES ASSUME SerialInv, Quiet, Intact, Spaced, NEW n \in Up
               PROVE  /\ Start(n) = HashValueAdd(Predecessor(n), 1)
                      /\ fingerTable[n][0] = Owner(HashValueAdd(myHash[n], 1))
    BY DEF RingConsistent
  <2>1. TypeOK /\ Serial /\ Newcomers = {} /\ Members = Up /\ Counted = Up
    BY SpacedApart, NobodyNew DEF SerialInv, Quiet, Counted
  <2>2. myHash \in [Node -> Ids] /\ Up \subseteq Node /\ n \in Node /\ myHash[n] \in Ids
    BY <2>1 DEF TypeOK, Up
  <2>5. UpHashes = HashesOf(myHash, Up)
    BY DEF UpHashes, HashesOf
  <2>3. Start(n) = HashValueAdd(Predecessor(n), 1)
    <3>1. StartsAfter(myHash, Up, n, localStart[n])
      BY <2>1 DEF Serial, Starts
    <3>2. PICK p \in Up : /\ Precedes(myHash, Up, p, n)
                          /\ localStart[n] \in {HashValueAdd(myHash[p], 1),
                                     Unrolled(HashValueAdd(myHash[p], 1), myHash[n])}
      BY <3>1 DEF StartsAfter
    <3>3. Predecessor(n) = myHash[p]
      <4>1. PredecessorIn(UpHashes, myHash[n]) = myHash[p]
        BY <2>2, <2>5, <3>2, PrecedesIsPredecessor
      <4> QED BY <4>1 DEF Predecessor
    <3>4. HashValueAdd(myHash[p], 1) \in Ids
      BY <2>2, AddRange, PointsNat
    <3> QED BY <2>2, <3>2, <3>3, <3>4, StartMod DEF Start
  <2>4. fingerTable[n][0] = Owner(HashValueAdd(myHash[n], 1))
    <3> DEFINE y == fingerTable[n][0]
    <3>1. Follows(myHash, Up, n, y)
      BY <2>1 DEF Serial, Links
    <3>2. SuccessorIn(UpHashes, HashValueAdd(myHash[n], 1)) = myHash[y] /\ y \in Up
      <4>1. SuccessorIn(UpHashes, HashValueAdd(myHash[n], 1)) = myHash[y]
        BY <2>2, <2>5, <3>1, FollowsIsSuccessor
      <4> QED BY <3>1, <4>1 DEF Follows
    <3>3. \A a, b \in Up : myHash[a] = myHash[b] => a = b
      BY <2>1 DEF Serial, OneNewcomer, Distinct
    <3> QED BY <3>2, <3>3 DEF Owner
  <2> QED BY <2>3, <2>4
<1> QED BY <1>1, <1>2, <1>3, PTL DEF Spec

\* Who answers.
LEMMA AnsweredBy ==
    ASSUME TypeOK, [Next]_vars, NEW t \in Thread, Answered(t)
    PROVE  \E x \in Node : /\ IsResponsibleTo(x, lookup[t].hash)
                           /\ lookup'[t] = Answer(lookup[t], x)
                           /\ UNCHANGED phase
<1>1. lookup'[t].st = "done" /\ lookup[t].st # "done"
  BY DEF Answered
<1>2. ASSUME NEW n \in Node, NEW op \in Commands, NEW c \in Key, EnterCommand(n, op, c)
      PROVE  FALSE
  <2>1. lookup'[t] = lookup[t] \/ lookup'[t] = Lookup(n, c)
    BY <1>2 DEF EnterCommand, TypeOK
  <2> QED BY <2>1, <1>1, LookupFields
<1>3. ASSUME NEW m \in requests, JoinReqHandle(m) PROVE FALSE
  <2>1. lookup'[t] = lookup[t] \/ lookup'[t] = Lookup(m.to, myHash[m.new])
    BY <1>3 DEF JoinReqHandle, TypeOK
  <2> QED BY <2>1, <1>1, LookupFields
<1>4. ASSUME NEW m \in requests, HelpJoinReqHandle(m) PROVE FALSE
  <2>1. lookup'[t] = lookup[t] \/ lookup'[t] = Lookup(m.to, EntryHash(m.new, 0))
    BY <1>4 DEF HelpJoinReqHandle, TypeOK, Crash
  <2> QED BY <2>1, <1>1, LookupFields
<1>5. ASSUME NEW n \in Node, JoinReqReturn(n) \/ HelpFurthest(n) PROVE FALSE
  <2>1. lookup'[t] = lookup[t] \/ lookup'[t] = NoLookup
    BY <1>5 DEF JoinReqReturn, HelpFurthest, TypeOK, Crash
  <2> QED BY <2>1, <1>1, LookupFields
<1>6. ASSUME NEW n \in Node, HelpEntry(n) PROVE FALSE
  <2> DEFINE src  == lookup[<<"help", n>>].src
             next == IF help[n].i = M - 1 THEN FurthestPrev(n) ELSE EntryHash(n, help[n].i + 1)
  <2>1. lookup'[t] = lookup[t] \/ lookup'[t] = Lookup(src, next)
    BY <1>6 DEF HelpEntry, TypeOK
  <2> QED BY <2>1, <1>1, LookupFields
<1>7. ASSUME NEW n \in Node, AddReturn(n) \/ DeleteReturn(n) \/ SearchReturn(n) PROVE FALSE
  <2>1. lookup'[t] = lookup[t] \/ lookup'[t] = NoLookup
    BY <1>7 DEF AddReturn, DeleteReturn, SearchReturn, CommandEnds, TypeOK, Crash
  <2> QED BY <2>1, <1>1, LookupFields
<1>8. ASSUME NEW u \in Thread, LookupCall(u)
      PROVE  \E x \in Node : /\ IsResponsibleTo(x, lookup[t].hash)
                             /\ lookup'[t] = Answer(lookup[t], x)
                             /\ UNCHANGED phase
  <2>1. u = t
    BY <1>1, <1>8 DEF LookupCall, TypeOK, Crash
  <2>2. lookup'[t].st # "fwd" /\ lookup' # lookup
    BY <1>1
  <2> QED BY <1>8, <2>1, <2>2 DEF LookupCall, TypeOK, LookupState, Crash, Alive
<1>9. ASSUME NEW u \in Thread, LookupReqHandle(u)
      PROVE  \E x \in Node : /\ IsResponsibleTo(x, lookup[t].hash)
                             /\ lookup'[t] = Answer(lookup[t], x)
                             /\ UNCHANGED phase
  <2>1. u = t
    BY <1>1, <1>9 DEF LookupReqHandle, TypeOK, Crash
  <2>2. lookup'[t].st # "fwd" /\ lookup' # lookup /\ lookup[t] \in LookupState
    BY <1>1 DEF TypeOK
  <2>3. CASE IsResponsibleTo(lookup[t].at, lookup[t].hash)
    BY <1>9, <2>1, <2>2, <2>3 DEF LookupReqHandle, TypeOK, Crash, Alive
  <2>4. CASE ~IsResponsibleTo(lookup[t].at, lookup[t].hash)
    <3>1. \E d : lookup'[t] = [lookup[t] EXCEPT !.at = d]
      BY <1>9, <2>1, <2>2, <2>4 DEF LookupReqHandle, TypeOK, Crash
    <3>2. lookup'[t].st = lookup[t].st
      BY <3>1, <2>2 DEF LookupState
    <3> QED BY <3>2, <1>1
  <2> QED BY <2>3, <2>4
<1>10. CASE UNCHANGED lookup
  BY <1>1, <1>10
<1> QED BY <1>2, <1>3, <1>4, <1>5, <1>6, <1>7, <1>8, <1>9, <1>10, LookupsReadyWriters

\* The host that answers with a right start is the owner.
LEMMA OwnerAnswers ==
    ASSUME TypeOK, NEW S, S \subseteq Node, Distinct(myHash, S), NEW x \in S,
           StartsAfter(myHash, S, x, localStart[x]), NEW v \in Ids, IsResponsibleTo(x, v)
    PROVE  x = OwnerIn(S, v)
<1>0. myHash \in [Node -> Ids] /\ Responsible(localStart[x], myHash[x], v)
  BY DEF TypeOK, IsResponsibleTo
<1>1. myHash[x] = SuccessorIn({ myHash[z] : z \in S }, v)
  BY <1>0, AnswerIsSuccessor
<1>2. \A a, b \in S : myHash[a] = myHash[b] => a = b
  BY DEF Distinct
<1> QED BY <1>1, <1>2 DEF OwnerIn

\* LookupAtomic for every set of hosts, every circle, and hosts that join one
\* after another: find_successor, however long it takes and whoever joins
\* meanwhile, answers the owner of the hash at the moment it answers, the newcomer
\* counted or not.
THEOREM LookupIsAtomic ==
    ASSUME Pacing \in {"quiet", "serial"}
    PROVE  Spec => LookupAtomic
<1>1. Init => SerialInv
  BY SerialInit
<1>2. SerialInv /\ [Next]_vars => SerialInv'
  BY SerialStep
<1>3. SerialInv /\ [Next]_vars =>
        [Intact /\ Spaced =>
          \A t \in Thread :
              Answered(t) /\ phase[lookup'[t].succ] \in {"files", "up"} => NamesOwner(t)]_vars
  <2> SUFFICES ASSUME SerialInv, [Next]_vars, Intact, Spaced, NEW t \in Thread, Answered(t),
                      phase[lookup'[t].succ] \in {"files", "up"}
               PROVE  NamesOwner(t)
    OBVIOUS
  <2>1. TypeOK /\ AskedOnce /\ Serial
    BY SpacedApart DEF SerialInv
  <2>2. PICK x \in Node : /\ IsResponsibleTo(x, lookup[t].hash)
                          /\ lookup'[t] = Answer(lookup[t], x)
                          /\ UNCHANGED phase
    BY <2>1, AnsweredBy
  <2>3. /\ lookup'[t].succ = x /\ lookup'[t].hash = lookup[t].hash /\ lookup[t].hash \in Ids
        /\ phase[x] \in {"files", "up"}
    BY <2>1, <2>2 DEF Answer, TypeOK, LookupState
  <2>4. Entering = Newcomers /\ Up \ Entering = Members
    <3>1. \A n \in Node : n \in Newcomers <=> n \in Entering
      BY <2>1, WhoIsNew DEF Entering, Serial
    <3>2. Entering = Newcomers
      BY <3>1, HostSets DEF Entering
    <3>3. Up \subseteq Members \cup Newcomers
      BY HostSets DEF Up, Started
    <3>4. Members \subseteq Up
      BY DEF Members, Up
    <3> QED BY <3>2, <3>3, <3>4, HostSets
  <2>5. /\ Distinct(myHash, Members \cup Newcomers) /\ \A a, b \in Newcomers : a = b
    BY <2>1 DEF Serial, OneNewcomer
  <2>6. \E S \in SUBSET Newcomers :
           x \in Members \cup S /\ StartsAfter(myHash, Members \cup S, x, localStart[x])
    <3>1. CASE x \in Members
      <4> DEFINE S == { n \in Newcomers : help[n].pc = "done" }
      <4>1. S \in SUBSET Newcomers /\ Counted = Members \cup S
        BY DEF Counted
      <4> QED BY <4>1, <3>1, <2>1 DEF Serial, Starts
    <3>2. CASE x \notin Members
      <4>1. x \in Newcomers
        BY <3>2, <2>3, HostSets DEF Started
      <4>2. StartsAfter(myHash, Members \cup {x}, x, localStart[x])
        BY <4>1, <2>1, <2>3 DEF Serial, Starts
      <4> QED BY <4>1, <4>2
    <3> QED BY <3>1, <3>2
  <2>7. PICK S \in SUBSET Newcomers :
           x \in Members \cup S /\ StartsAfter(myHash, Members \cup S, x, localStart[x])
    BY <2>6
  <2>8. Members \cup S \subseteq Node /\ Distinct(myHash, Members \cup S)
    BY <2>5, HostSets DEF Distinct
  <2>9. x = OwnerIn(Members \cup S, lookup[t].hash)
    BY <2>1, <2>2, <2>3, <2>7, <2>8, OwnerAnswers
  <2> QED BY <2>3, <2>4, <2>9 DEF NamesOwner
<1> QED BY <1>1, <1>2, <1>3, PTL DEF Spec, LookupAtomic

-----------------------------------------------------------------------------
(* The routing tables.                                                     *)
(*                                                                         *)
(* The newcomer's table is made of answers that name the first member from *)
(* each point, and of the newcomer.  The walk makes every member it comes  *)
(* to choose between the newcomer and the entry it had.  It begins at the  *)
(* first member from half a circle behind the newcomer and ends at the     *)
(* newcomer's predecessor; the members it never comes to lie between the   *)
(* newcomer and its beginning.  For hosts in one half of the circle those  *)
(* lie after the newcomer, and the newcomer is nobody's first host from a  *)
(* point at most half a circle on.                                         *)

\* Entry i of a table of x names the first of the hosts S from the point it stands for.
Exact(S, x, i, f) == Owns(myHash, S, f, EntryHash(x, i))

\* All hosts lie in one half of the circle.
HalfCircle == \E a \in Ids : \A b \in Started : Steps(a, myHash[b]) < 2^(M - 1)

\* The helper is told the first member from each point it asks for.
HelpAnswers == \A n \in Newcomers :
    LET l == lookup[<<"help", n>>]
    IN  /\ l.st # "idle" /\ help[n].pc = "furthest" => l.hash = FurthestPrev(n)
        /\ l.st = "done" => Owns(myHash, Members, l.succ, l.hash)

\* So what it has put into the table is exact, the newcomer counted ...
HelpTables == \A n \in Newcomers, i \in FingerIndex :
    (help[n].pc = "entry" /\ i < help[n].i) \/ help[n].pc \notin {"idle", "entry"} =>
        Exact(Members \cup {n}, n, i, help[n].table[i])

\* ... and the walk begins at the first member from half a circle back.
HelpPrevs == \A n \in Newcomers : help[n].pc \in {"files", "start", "done"} =>
    Owns(myHash, Members, help[n].prev, FurthestPrev(n))

NewTables == \A n \in Newcomers, i \in FingerIndex :
    phase[n] = "prev" \/ Walking(n) => Exact(Members \cup {n}, n, i, fingerTable[n][i])

\* A member's entry is exact, the newcomer counted or not.
MemberTables == \A x \in Members, i \in FingerIndex :
    \/ Exact(Members, x, i, fingerTable[x][i])
    \/ \E n \in Newcomers : Exact(Members \cup {n}, x, i, fingerTable[x][i])

\* x has been told of n, or need not be.
Informed(n, x) == \A i \in FingerIndex : Exact(Members \cup {n}, x, i, fingerTable[x][i])

\* The members that the walk of n has passed when it has come to w.
Passed(n, w) == { x \in Members : Steps(myHash[help[n].prev], myHash[x])
                                     < Steps(myHash[help[n].prev], myHash[w]) }

WalkInforms ==
    /\ \A n \in Newcomers : phase[n] = "walk" => \A x \in Passed(n, walk[n]) : Informed(n, x)
    /\ \A m \in requests : m.type = "update" => \A x \in Passed(m.new, m.to) : Informed(m.new, x)
    /\ \A m \in requests : m.type = "updated" =>
          \A x \in Passed(m.to, m.cur) \cup {m.cur} : Informed(m.to, x)
    /\ \A n \in Newcomers : phase[n] \in {"files", "up"} => \A x \in Members : Informed(n, x)

Tables == HelpAnswers /\ HelpTables /\ HelpPrevs /\ NewTables /\ MemberTables /\ WalkInforms

TablesInv == SerialInv /\ (Intact /\ Spaced /\ HalfCircle => Tables)

\* The helper's choice between the member it was told and the newcomer itself.
LEMMA EntryHostExact ==
    ASSUME TypeOK, NEW S, S \subseteq Node, NEW n \in Node, NEW i \in FingerIndex, NEW r,
           Owns(myHash, S, r, EntryHash(n, i)), Steps(myHash[n], myHash[r]) # 2^i
    PROVE  Owns(myHash, S \cup {n}, EntryHost(n, i, r), EntryHash(n, i))
<1> DEFINE d == 2^i
           p == EntryHash(n, i)
           g == EntryHost(n, i, r)
<1>1. d \in 1 .. TotalHashPoints - 1 /\ p = HashValueAdd(myHash[n], d)
  BY EntrySpan DEF EntryHash
<1>2. myHash[n] \in Ids /\ r \in Node /\ myHash[r] \in Ids /\ r \in S
  BY DEF Owns, TypeOK
<1> HIDE DEF d
<1>3. p \in Ids /\ p # myHash[n] /\ p # myHash[r]
  <2>1. p \in Ids /\ \A y \in Ids : Steps(p, y) = IF GetDistance(myHash[n], y) >= d
                                        THEN GetDistance(myHash[n], y) - d
                                        ELSE GetDistance(myHash[n], y) - d + TotalHashPoints
    BY <1>1, <1>2, StepsFromPoint
  <2>2. Steps(p, p) = 0
    <3>1. p \in Int
      BY <2>1, PointsNat DEF Ids
    <3>2. Steps(p, p) = IF p >= p THEN p - p ELSE p - p + TotalHashPoints
      BY <2>1, StepsRange
    <3> QED BY <3>1, <3>2
  <2>3. p # myHash[n]
    <3>1. p = IF myHash[n] + d >= TotalHashPoints THEN myHash[n] + d - TotalHashPoints
              ELSE myHash[n] + d
      BY <1>1, <1>2, PointsNat DEF HashValueAdd, Ids
    <3> QED BY <1>1, <1>2, <3>1, PointsNat DEF Ids
  <2>4. Steps(myHash[n], p) = d
    <3>1. p = IF myHash[n] + d >= TotalHashPoints THEN myHash[n] + d - TotalHashPoints
              ELSE myHash[n] + d
      BY <1>1, <1>2, PointsNat DEF HashValueAdd, Ids
    <3>2. Steps(myHash[n], p) = IF p >= myHash[n] THEN p - myHash[n]
                                ELSE p - myHash[n] + TotalHashPoints
      BY <1>2, <2>1, StepsRange
    <3> QED BY <1>1, <1>2, <3>1, <3>2, PointsNat DEF Ids
  <2> QED BY <2>1, <2>3, <2>4 DEF d
<1>4. \A y \in Ids : y # p => GetDistance(p, y) = Steps(p, y)
  <2>1. \A y \in Ids : Steps(p, y) = IF y >= p THEN y - p ELSE y - p + TotalHashPoints
    BY <1>3, StepsRange
  <2> QED BY <1>3, <2>1, PointsNat DEF GetDistance, Ids
<1>5. g = IF Steps(p, myHash[r]) > Steps(p, myHash[n]) THEN n ELSE r
  BY <1>2, <1>3, <1>4 DEF EntryHost
<1>6. \A z \in S : Steps(p, myHash[r]) <= Steps(p, myHash[z])
  BY DEF Owns
<1>7. \A z \in S \cup {n} : Steps(p, myHash[z]) \in Int
  <2>1. \A z \in S \cup {n} : Steps(p, myHash[z]) \in 0 .. TotalHashPoints - 1
    BY <1>3, StepsRange DEF TypeOK
  <2> QED BY <2>1, PointsNat
<1> HIDE DEF p, g
<1>8. g \in S \cup {n} /\ \A z \in S \cup {n} : Steps(p, myHash[g]) <= Steps(p, myHash[z])
  <2>1. CASE Steps(p, myHash[r]) > Steps(p, myHash[n])
    BY <1>2, <1>5, <1>6, <1>7, <2>1
  <2>2. CASE ~(Steps(p, myHash[r]) > Steps(p, myHash[n]))
    BY <1>2, <1>5, <1>6, <1>7, <2>2
  <2> QED BY <2>1, <2>2
<1> QED BY <1>8 DEF Owns, p, g

-----------------------------------------------------------------------------
(* What these steps do not touch stays.                                    *)

\* Who is first from a point is said by the hosts and their hashes.
LEMMA ExactSame ==
    ASSUME SameHosts
    PROVE  /\ \A n, x, i, f : /\ Exact(Members, x, i, f) <=> Exact(Members, x, i, f)'
                              /\ Exact(Members \cup {n}, x, i, f) <=> Exact(Members \cup {n}, x, i, f)'
           /\ \A n : FurthestPrev(n)' = FurthestPrev(n)
BY DEF SameHosts, Exact, EntryHash, FurthestPrev

\* ... HelpAnswers
LEMMA HelpAnswersStay ==
    ASSUME HelpAnswers, SameHosts, UNCHANGED help,
           \A n \in Node : lookup'[<<"help", n>>] = lookup[<<"help", n>>]
    PROVE  HelpAnswers'
BY HostSets DEF HelpAnswers, SameHosts, FurthestPrev

\* ... HelpTables and HelpPrevs
LEMMA HelpTablesStay ==
    ASSUME HelpTables, HelpPrevs, SameHosts, UNCHANGED help
    PROVE  HelpTables' /\ HelpPrevs'
<1>1. HelpTables'
  BY ExactSame DEF HelpTables, SameHosts
<1>2. HelpPrevs'
  BY ExactSame DEF HelpPrevs, SameHosts
<1> QED BY <1>1, <1>2

\* ... NewTables and MemberTables
LEMMA OwnTablesStay ==
    ASSUME NewTables, MemberTables, SameHosts, UNCHANGED fingerTable,
           \A n \in Node : (phase[n] = "prev" \/ Walking(n))' => phase[n] = "prev" \/ Walking(n)
    PROVE  NewTables' /\ MemberTables'
<1>1. NewTables'
  BY ExactSame, HostSets DEF NewTables, SameHosts
<1>2. MemberTables'
  BY ExactSame DEF MemberTables, SameHosts
<1> QED BY <1>1, <1>2

\* ... who is informed, and who has been passed
LEMMA InformedStays ==
    ASSUME SameHosts, UNCHANGED fingerTable, NEW n, help'[n].prev = help[n].prev
    PROVE  /\ \A x : Informed(n, x) => Informed(n, x)'
           /\ \A w : Passed(n, w)' = Passed(n, w)
<1>1. ASSUME NEW x, Informed(n, x) PROVE Informed(n, x)'
  BY <1>1, ExactSame DEF Informed
<1>2. \A w : Passed(n, w)' = Passed(n, w)
  BY DEF Passed, SameHosts
<1> QED BY <1>1, <1>2

\* ... WalkInforms, when the walk stands still
LEMMA WalkInformsStay ==
    ASSUME TypeOK, WalkInforms, SameHosts, UNCHANGED << fingerTable, walk >>,
           \A n \in Node : Walking(n) => help'[n].prev = help[n].prev,
           \A n \in Node : phase'[n] = "walk" => phase[n] = "walk",
           \A n \in Newcomers : phase'[n] \in {"files", "up"} => phase[n] \in {"files", "up"},
           Walks,
           \A m \in requests' : m.type \in {"update", "updated"} => m \in requests
    PROVE  WalkInforms'
<1>1. \A n \in Node : Walking(n) => /\ \A x : Informed(n, x) => Informed(n, x)'
                                    /\ \A w : Passed(n, w)' = Passed(n, w)
  BY InformedStays
<1>2. \A m \in requests : /\ m.type = "update" => m.new \in Node /\ Walking(m.new)
                          /\ m.type = "updated" => m.to \in Node /\ Walking(m.to)
  BY RequestParts DEF Walks, Walking
<1>3. \A n \in Newcomers' : phase'[n] = "walk" => \A x \in Passed(n, walk[n])' : Informed(n, x)'
  <2> SUFFICES ASSUME NEW n \in Newcomers', phase'[n] = "walk"
               PROVE  \A x \in Passed(n, walk[n])' : Informed(n, x)'
    OBVIOUS
  <2>1. n \in Newcomers /\ n \in Node /\ phase[n] = "walk" /\ Walking(n)
    BY HostSets DEF SameHosts, Walking
  <2>2. Passed(n, walk[n])' = Passed(n, walk[n])
    BY <1>1, <2>1 DEF Passed
  <2> QED BY <1>1, <2>1, <2>2 DEF WalkInforms
<1>4. \A m \in requests' : m.type = "update" => \A x \in Passed(m.new, m.to)' : Informed(m.new, x)'
  BY <1>1, <1>2 DEF WalkInforms
<1>5. \A m \in requests' : m.type = "updated" =>
          \A x \in Passed(m.to, m.cur)' \cup {m.cur} : Informed(m.to, x)'
  BY <1>1, <1>2 DEF WalkInforms
<1>6. \A n \in Newcomers' : phase'[n] \in {"files", "up"} => \A x \in Members' : Informed(n, x)'
  <2> SUFFICES ASSUME NEW n \in Newcomers', phase'[n] \in {"files", "up"}
               PROVE  \A x \in Members' : Informed(n, x)'
    OBVIOUS
  <2>1. n \in Newcomers /\ n \in Node /\ phase[n] \in {"files", "up"} /\ Walking(n)
    BY HostSets DEF SameHosts, Walking
  <2> QED BY <1>1, <2>1 DEF WalkInforms, SameHosts
<1> QED BY <1>3, <1>4, <1>5, <1>6 DEF WalkInforms

\* A step that leaves everything these tables depend on.
LEMMA TablesStay ==
    ASSUME TypeOK, Serial, Tables,
           UNCHANGED << phase, myHash, fingerTable, help, walk >>,
           \A n \in Node : lookup'[<<"help", n>>] = lookup[<<"help", n>>],
           \A m \in requests' : m.type \in {"update", "updated"} => m \in requests
    PROVE  Tables'
<1>1. SameHosts
  BY SameHostsWhen
<1>2. \A n : Walking(n) <=> Walking(n)'
  BY DEF Walking
<1> USE DEF Tables
<1>3. HelpAnswers' /\ HelpTables' /\ HelpPrevs'
  BY <1>1, HelpAnswersStay, HelpTablesStay
<1>4. NewTables' /\ MemberTables'
  BY <1>1, <1>2, OwnTablesStay
<1>5. WalkInforms'
  BY <1>1, WalkInformsStay DEF Serial
<1> QED BY <1>3, <1>4, <1>5

-----------------------------------------------------------------------------
(* The tables when hosts are started,                                      *)

\* Only the hashes of the hosts in question matter to whose a point is.
LEMMA OwnsSame ==
    ASSUME NEW h, NEW g, NEW S, NEW x, NEW v, \A z \in S : g[z] = h[z], Owns(h, S, x, v)
    PROVE  Owns(g, S, x, v)
BY DEF Owns

\* A circle of one: everything is its own.
LEMMA InitialChordTables ==
    ASSUME TypeOK, AskedOnce, FirstFirst, Intact, Serial, NEW h \in Positions, InitialChord(h),
           TypeOK', Serial'
    PROVE  Tables'
<1>1. \A n \in Node : phase[n] = "off" /\ help[n].pc = "idle"
  BY DEF InitialChord, FirstFirst, AskedOnce
<1>2. /\ \A n \in Node : phase'[n] = IF n = First THEN "up" ELSE "off"
      /\ myHash'[First] \in Ids /\ fingerTable'[First] = [i \in FingerIndex |-> First]
      /\ UNCHANGED << requests, help >>
  BY <1>1, Constants DEF InitialChord, TypeOK
<1>3. Members' = {First} /\ Newcomers' = {}
  BY <1>1, <1>2, Constants DEF Members, Newcomers, Started
<1>4. \A m \in requests' : m.type \notin {"update", "updated"}
  BY <1>1, <1>2, RequestParts DEF Serial, Walks
<1>5. ASSUME NEW i \in FingerIndex PROVE Exact(Members, First, i, fingerTable[First][i])'
  <2>1. myHash' \in [Node -> Ids] /\ First \in Node
    BY Constants DEF TypeOK
  <2>2. HashValueAdd(myHash'[First], 2^i) \in Ids
    BY <1>2, EntrySpan, StepsFromPoint
  <2>3. Steps(HashValueAdd(myHash'[First], 2^i), myHash'[First]) \in Int
    BY <1>2, <2>2, StepsRange, PointsNat
  <2> QED BY <1>2, <1>3, <2>3 DEF Exact, Owns, EntryHash
<1>6. MemberTables'
  BY <1>3, <1>5 DEF MemberTables
<1>7. HelpAnswers' /\ HelpTables' /\ HelpPrevs' /\ NewTables' /\ WalkInforms'
  BY <1>3, <1>4 DEF HelpAnswers, HelpTables, HelpPrevs, NewTables, WalkInforms
<1> QED BY <1>6, <1>7 DEF Tables

\* A newcomer that has no table yet and has asked for nothing.
LEMMA JoinChordTables ==
    ASSUME TypeOK, AskedOnce, Intact, Serial, Tables, NoJoin, TypeOK', Serial',
           NEW n \in Node, NEW e \in Node, NEW h \in FreePositions, JoinChord(n, e, h)
    PROVE  Tables'
<1>1. Newcomers = {} /\ Members = Up
  BY NobodyNew
<1>2. /\ requests' = requests \cup {[type |-> "join", to |-> e, new |-> n]}
      /\ UNCHANGED << lookup, fingerTable, help, walk >>
      /\ phase[n] = "off" /\ help[n].pc = "idle"
  BY DEF JoinChord, joinVars, AskedOnce
<1>3. /\ \A x \in Node : phase'[x] = IF x = n THEN "helpjoin" ELSE phase[x]
      /\ \A x \in Node : myHash'[x] = IF x = n THEN h ELSE myHash[x]
  BY DEF TypeOK, JoinChord
<1>4. Members' = Members /\ Newcomers' = {n} /\ n \notin Members /\ Members \subseteq Node
  BY <1>1, <1>2, <1>3 DEF Members, Newcomers, Started, Up
<1>5. \A m \in requests' : m.type \notin {"update", "updated"}
  BY <1>2, RequestParts DEF NoJoin, Joining, Serial, Walks
<1>6. lookup'[<<"help", n>>].st = "idle"
  BY <1>2 DEF Serial, HelpLookups
<1>7. MemberTables'
  <2>1. ASSUME NEW x \in Members, NEW i \in FingerIndex
        PROVE  Exact(Members, x, i, fingerTable[x][i])'
    <3>1. Exact(Members, x, i, fingerTable[x][i])
      BY <1>1 DEF Tables, MemberTables
    <3>2. \A z \in Members : myHash'[z] = myHash[z]
      BY <1>3, <1>4
    <3>3. Owns(myHash', Members, fingerTable[x][i], EntryHash(x, i))
      BY <3>1, <3>2, OwnsSame DEF Exact
    <3> QED BY <1>2, <1>4, <3>2, <3>3 DEF Exact, EntryHash
  <2> QED BY <1>4, <2>1 DEF MemberTables
<1>8. HelpAnswers' /\ HelpTables' /\ HelpPrevs'
  BY <1>2, <1>4, <1>6 DEF HelpAnswers, HelpTables, HelpPrevs
<1>9. phase'[n] = "helpjoin"
  BY <1>3
<1>10. NewTables' /\ WalkInforms'
  BY <1>4, <1>5, <1>9 DEF NewTables, WalkInforms, Walking
<1> QED BY <1>7, <1>8, <1>10 DEF Tables

-----------------------------------------------------------------------------
(* when the helper looks hosts up,                                         *)

\* A lookup goes on: a member that answers the helper's is who owns the hash.
LEMMA LookupGoesOnTables ==
    ASSUME TypeOK, AskedOnce, Intact, Serial, Tables, NEW t \in Thread, NEW x \in Node,
           lookup[t].st # "idle", LookupGoesOn(t, x), t[1] # "ui" => x \in Members
    PROVE  Tables'
<1> DEFINE l == lookup[t]
           a == Answer(l, x)
           f == [l EXCEPT !.st = "fwd", !.at = NextHop(x, l.hash)]
<1> USE DEF Tables
<1>1. SameHosts
  BY SameHostsWhen DEF LookupGoesOn
<1>2. \A n : Walking(n) <=> Walking(n)'
  BY DEF LookupGoesOn, Walking
<1>3. HelpTables' /\ HelpPrevs' /\ NewTables' /\ MemberTables' /\ WalkInforms'
  BY <1>1, <1>2, HelpTablesStay, OwnTablesStay, WalkInformsStay DEF LookupGoesOn, Serial
<1>4. /\ l \in LookupState /\ l.hash \in Ids /\ lookup \in [Thread -> LookupState]
      /\ a.st = "done" /\ a.hash = l.hash /\ a.succ = x
      /\ f.st = "fwd" /\ f.hash = l.hash
  BY DEF TypeOK, LookupState, Answer
<1>5. \/ IsResponsibleTo(x, l.hash) /\ lookup' = [lookup EXCEPT ![t] = a]
      \/ lookup' = [lookup EXCEPT ![t] = f]
  BY DEF LookupGoesOn
<1> HIDE DEF a, f
<1>6. help' = help
  BY DEF LookupGoesOn
<1>7. ASSUME NEW n \in Newcomers
      PROVE  LET k == lookup'[<<"help", n>>]
             IN  /\ k.st # "idle" /\ help[n].pc = "furthest" => k.hash = FurthestPrev(n)
                 /\ k.st = "done" => Owns(myHash, Members, k.succ, k.hash)
  <2>0. n \in Node /\ <<"help", n>> \in Thread
    BY HostSets DEF Thread
  <2>1. CASE t # <<"help", n>>
    <3>1. lookup'[<<"help", n>>] = lookup[<<"help", n>>]
      BY <1>4, <1>5, <2>0, <2>1
    <3> QED BY <3>1 DEF HelpAnswers
  <2>2. CASE t = <<"help", n>>
    <3>1. x \in Members /\ Counted = Members
      BY <2>0, <2>2, NotYetEntered
    <3>2. help[n].pc = "furthest" => l.hash = FurthestPrev(n)
      BY <2>2 DEF HelpAnswers
    <3>3. IsResponsibleTo(x, l.hash) => Owns(myHash, Members, x, l.hash)
      BY <1>4, <3>1, HostSets, AnswerOwns DEF Serial, Starts
    <3>4. (lookup'[<<"help", n>>] = a /\ IsResponsibleTo(x, l.hash)) \/ lookup'[<<"help", n>>] = f
      BY <1>4, <1>5, <2>0, <2>2
    <3> QED BY <1>4, <3>2, <3>3, <3>4
  <2> QED BY <2>1, <2>2
<1>8. HelpAnswers'
  BY <1>1, <1>6, <1>7 DEF HelpAnswers, SameHosts, FurthestPrev
<1> QED BY <1>3, <1>8

\* find_successor runs.
LEMMA LookupStepTables ==
    ASSUME TypeOK, AskedOnce, Intact, Serial, Tables, Intact', LookupStep
    PROVE  Tables'
BY LookupStepGoesOn, LookupGoesOnTables DEF LookupStep

\* help_join_req_handle begins: nothing has been asked for or entered yet.
LEMMA HelpJoinReqHandleTables ==
    ASSUME TypeOK, AskedOnce, Intact, Serial, Tables, Intact', NEW m \in requests,
           HelpJoinReqHandle(m)
    PROVE  Tables'
<1> USE DEF Tables
<1> DEFINE n == m.new
<1>1. n \in Node /\ m.to \in Node /\ m.type = "help"
  BY RequestParts DEF HelpJoinReqHandle
<1>2. phase[n] = "helpjoin" /\ help[n].pc = "idle"
  BY <1>1 DEF AskedOnce, Intact
<1>3. /\ requests' = requests \ {m}
      /\ help' = [help EXCEPT ![n] = [NoHelp EXCEPT !.pc = "entry", !.host = m.to]]
      /\ lookup' = [lookup EXCEPT ![<<"help", n>>] = Lookup(m.to, EntryHash(n, 0))]
      /\ UNCHANGED << phase, myHash, localStart, fingerTable, walk >>
  BY <1>1, CrashEnds DEF HelpJoinReqHandle
<1>4. /\ \A x \in Node \ {n} : help'[x] = help[x]
      /\ help'[n].pc = "entry" /\ help'[n].i = 0
  BY <1>1, <1>3 DEF TypeOK, NoHelp
<1>5. SameHosts
  BY <1>2, <1>3, <1>4, SameHostsWhen
<1>6. \A x : Walking(x) <=> Walking(x)'
  BY <1>3 DEF Walking
<1>7. NewTables' /\ MemberTables'
  BY <1>3, <1>5, <1>6, OwnTablesStay
<1>8. WalkInforms'
  <2>1. \A x \in Node : Walking(x) => help'[x].prev = help[x].prev
    BY <1>2, <1>4 DEF Walking
  <2> QED BY <1>3, <1>5, <2>1, WalkInformsStay DEF Serial
<1>9. /\ \A x \in Node \ {n} : lookup'[<<"help", x>>] = lookup[<<"help", x>>]
      /\ lookup'[<<"help", n>>].st = "call"
  BY <1>1, <1>3, LookupFields DEF TypeOK, Thread
<1>10. HelpAnswers'
  <2>1. ASSUME NEW x \in Newcomers
        PROVE  LET k == lookup'[<<"help", x>>]
               IN  /\ k.st # "idle" /\ help'[x].pc = "furthest" => k.hash = FurthestPrev(x)
                   /\ k.st = "done" => Owns(myHash, Members, k.succ, k.hash)
    <3>1. CASE x = n
      BY <1>4, <1>9, <3>1
    <3>2. CASE x # n
      BY <1>4, <1>9, <3>2, HostSets DEF HelpAnswers
    <3> QED BY <3>1, <3>2
  <2> QED BY <1>5, <2>1 DEF HelpAnswers, SameHosts, FurthestPrev
<1>11. HelpTables' /\ HelpPrevs'
  <2>1. ASSUME NEW x \in Newcomers, NEW i \in FingerIndex,
               (help'[x].pc = "entry" /\ i < help'[x].i) \/ help'[x].pc \notin {"idle", "entry"}
        PROVE  Exact(Members \cup {x}, x, i, help'[x].table[i])
    <3>1. x # n
      BY <1>4, <2>1 DEF FingerIndex
    <3> QED BY <1>4, <2>1, <3>1, HostSets DEF HelpTables
  <2>2. HelpTables'
    BY <1>5, <2>1, ExactSame DEF HelpTables, SameHosts
  <2>3. ASSUME NEW x \in Newcomers, help'[x].pc \in {"files", "start", "done"}
        PROVE  Owns(myHash, Members, help'[x].prev, FurthestPrev(x))
    <3>1. x # n
      BY <1>4, <2>3
    <3> QED BY <1>4, <2>3, <3>1, HostSets DEF HelpPrevs
  <2>4. HelpPrevs'
    BY <1>5, <2>3, ExactSame DEF HelpPrevs, SameHosts
  <2> QED BY <2>2, <2>4
<1> QED BY <1>7, <1>8, <1>10, <1>11

\* One more entry: the newcomer counted, its host is the first from the point.
LEMMA HelpEntryTables ==
    ASSUME TypeOK, AskedOnce, Intact, Serial, Spaced, Tables, NEW n \in Node, HelpEntry(n)
    PROVE  Tables'
<1> USE DEF Tables
<1> DEFINE i    == help[n].i
           l    == lookup[<<"help", n>>]
           last == i = M - 1
           e    == EntryHost(n, i, l.succ)
           next == IF last THEN FurthestPrev(n) ELSE EntryHash(n, i + 1)
<1>1. /\ help[n].pc = "entry" /\ l.st = "done" /\ l.succ \in Members
      /\ i \in FingerIndex /\ help[n] \in HelpState /\ l.hash = EntryHash(n, i)
  BY HelpParts DEF HelpEntry, Returned, Serial, HelpLookups, Visits, TypeOK
<1>2. n \in Newcomers /\ ~Walking(n)
  <2>1. phase[n] \in Joining
    BY <1>1 DEF AskedOnce, Intact
  <2> QED BY <2>1, <1>1, WhoIsNew DEF Serial, Stages, Walking, Joining
<1>3. /\ \A x \in Node \ {n} : help'[x] = help[x]
      /\ help'[n].table = [help[n].table EXCEPT ![i] = e]
      /\ help'[n].pc = IF last THEN "furthest" ELSE "entry"
      /\ help'[n].i = IF last THEN i ELSE i + 1
      /\ help'[n].prev = help[n].prev
  BY <1>1 DEF HelpEntry, TypeOK, HelpState
<1>4. UNCHANGED << phase, myHash, localStart, fingerTable, walk, requests >>
  BY DEF HelpEntry
<1>5. SameHosts
  BY <1>1, <1>3, <1>4, SameHostsWhen
<1>6. \A x : Walking(x) <=> Walking(x)'
  BY <1>4 DEF Walking
<1>7. NewTables' /\ MemberTables'
  BY <1>4, <1>5, <1>6, OwnTablesStay
<1>8. WalkInforms'
  <2>1. \A x \in Node : Walking(x) => help'[x].prev = help[x].prev
    BY <1>2, <1>3
  <2> QED BY <1>4, <1>5, <2>1, WalkInformsStay DEF Serial
<1>9. /\ \A x \in Node \ {n} : lookup'[<<"help", x>>] = lookup[<<"help", x>>]
      /\ lookup'[<<"help", n>>].st = "call" /\ lookup'[<<"help", n>>].hash = next
  BY LookupFields DEF HelpEntry, TypeOK, Thread
<1>10. HelpAnswers'
  <2>1. ASSUME NEW x \in Newcomers
        PROVE  LET k == lookup'[<<"help", x>>]
               IN  /\ k.st # "idle" /\ help'[x].pc = "furthest" => k.hash = FurthestPrev(x)
                   /\ k.st = "done" => Owns(myHash, Members, k.succ, k.hash)
    <3>1. CASE x = n
      BY <1>3, <1>9, <3>1
    <3>2. CASE x # n
      BY <1>3, <1>9, <3>2, HostSets DEF HelpAnswers
    <3> QED BY <3>1, <3>2
  <2> QED BY <1>5, <2>1 DEF HelpAnswers, SameHosts, FurthestPrev
<1>11. Exact(Members \cup {n}, n, i, e)
  <2>1. Owns(myHash, Members, l.succ, EntryHash(n, i))
    BY <1>1, <1>2 DEF HelpAnswers
  <2>2. Steps(myHash[n], myHash[l.succ]) # 2^i
    BY <1>1, <1>2, HostSets DEF Spaced
  <2> QED BY <1>1, <2>1, <2>2, HostSets, EntryHostExact DEF Exact
<1>12. \A j \in FingerIndex : help'[n].table[j] = IF j = i THEN e ELSE help[n].table[j]
  BY <1>1, <1>3, HelpParts
<1>13. ASSUME NEW x \in Newcomers, NEW j \in FingerIndex,
              (help'[x].pc = "entry" /\ j < help'[x].i) \/ help'[x].pc \notin {"idle", "entry"}
       PROVE  Exact(Members \cup {x}, x, j, help'[x].table[j])
  <2>1. CASE x # n
    BY <1>3, <1>13, <2>1, HostSets DEF HelpTables
  <2>2. CASE x = n
    <3>1. j = i \/ j < i
      BY <1>1, <1>3, <1>13, <2>2, Constants DEF FingerIndex
    <3>2. j < i => Exact(Members \cup {n}, n, j, help[n].table[j])
      BY <1>1, <1>2 DEF HelpTables
    <3> HIDE DEF i, e
    <3>3. j < i => j # i
      BY <1>1 DEF FingerIndex
    <3> QED BY <1>11, <1>12, <2>2, <3>1, <3>2, <3>3
  <2> QED BY <2>1, <2>2
<1>14. HelpTables'
  BY <1>5, <1>13, ExactSame DEF HelpTables, SameHosts
<1>15. HelpPrevs'
  <2>1. ASSUME NEW x \in Newcomers, help'[x].pc \in {"files", "start", "done"}
        PROVE  Owns(myHash, Members, help'[x].prev, FurthestPrev(x))
    <3>1. x # n
      BY <1>3, <2>1
    <3> QED BY <1>3, <2>1, <3>1, HostSets DEF HelpPrevs
  <2> QED BY <1>5, <2>1, ExactSame DEF HelpPrevs, SameHosts
<1> QED BY <1>7, <1>8, <1>10, <1>14, <1>15

\* Where the walk is to begin is known.
LEMMA HelpFurthestTables ==
    ASSUME TypeOK, AskedOnce, Intact, Serial, Tables, NEW n \in Node, HelpFurthest(n)
    PROVE  Tables'
<1> USE DEF Tables
<1> DEFINE l == lookup[<<"help", n>>]
<1>1. help[n].pc = "furthest" /\ l.st = "done" /\ help[n] \in HelpState
  BY DEF HelpFurthest, Returned, TypeOK
<1>2. n \in Newcomers /\ ~Walking(n)
  <2>1. phase[n] \in Joining
    BY <1>1 DEF AskedOnce, Intact
  <2> QED BY <2>1, <1>1, WhoIsNew DEF Serial, Stages, Walking, Joining
<1>3. /\ \A x \in Node \ {n} : help'[x] = help[x]
      /\ help'[n] = [help[n] EXCEPT !.pc = "files", !.prev = l.succ]
  BY <1>1 DEF HelpFurthest, TypeOK, HelpState
<1>4. UNCHANGED << phase, myHash, localStart, fingerTable, walk, requests >>
  BY DEF HelpFurthest
<1>5. help'[n].pc = "files" /\ help'[n].prev = l.succ /\ help'[n].table = help[n].table
  BY <1>1, <1>3 DEF HelpState
<1>6. SameHosts
  BY <1>1, <1>3, <1>4, <1>5, SameHostsWhen
<1>7. \A x : Walking(x) <=> Walking(x)'
  BY <1>4 DEF Walking
<1>8. NewTables' /\ MemberTables'
  BY <1>4, <1>6, <1>7, OwnTablesStay
<1>9. WalkInforms'
  <2>1. \A x \in Node : Walking(x) => help'[x].prev = help[x].prev
    BY <1>2, <1>3
  <2> QED BY <1>4, <1>6, <2>1, WalkInformsStay DEF Serial
<1>10. /\ \A x \in Node \ {n} : lookup'[<<"help", x>>] = lookup[<<"help", x>>]
       /\ lookup'[<<"help", n>>].st = "idle"
  BY LookupFields DEF HelpFurthest, TypeOK, Thread
<1>11. HelpAnswers'
  <2>1. ASSUME NEW x \in Newcomers
        PROVE  LET k == lookup'[<<"help", x>>]
               IN  /\ k.st # "idle" /\ help'[x].pc = "furthest" => k.hash = FurthestPrev(x)
                   /\ k.st = "done" => Owns(myHash, Members, k.succ, k.hash)
    <3>1. CASE x = n
      BY <1>10, <3>1
    <3>2. CASE x # n
      BY <1>3, <1>10, <3>2, HostSets DEF HelpAnswers
    <3> QED BY <3>1, <3>2
  <2> QED BY <1>6, <2>1 DEF HelpAnswers, SameHosts, FurthestPrev
<1>12. Owns(myHash, Members, l.succ, FurthestPrev(n))
  BY <1>1, <1>2 DEF HelpAnswers
<1> HIDE DEF l
<1>13. ASSUME NEW x \in Newcomers, NEW j \in FingerIndex,
              (help'[x].pc = "entry" /\ j < help'[x].i) \/ help'[x].pc \notin {"idle", "entry"}
       PROVE  Exact(Members \cup {x}, x, j, help'[x].table[j])
  <2>1. CASE x # n
    BY <1>3, <1>13, <2>1, HostSets DEF HelpTables
  <2>2. CASE x = n
    BY <1>1, <1>2, <1>5, <2>2 DEF HelpTables
  <2> QED BY <2>1, <2>2
<1>14. HelpTables'
  BY <1>6, <1>13, ExactSame DEF HelpTables, SameHosts
<1>15. HelpPrevs'
  <2>1. ASSUME NEW x \in Newcomers, help'[x].pc \in {"files", "start", "done"}
        PROVE  Owns(myHash, Members, help'[x].prev, FurthestPrev(x))
    <3>1. CASE x = n
      BY <1>5, <1>12, <3>1
    <3>2. CASE x # n
      BY <1>3, <2>1, <3>2, HostSets DEF HelpPrevs
    <3> QED BY <3>1, <3>2
  <2> QED BY <1>6, <2>1, ExactSame DEF HelpPrevs, SameHosts
<1> QED BY <1>8, <1>9, <1>11, <1>14, <1>15

\* The helper goes on with what it has found.
LEMMA HelpGoesOnTables ==
    ASSUME TypeOK, Serial, Tables, SameHosts,
           UNCHANGED << phase, fingerTable, walk, requests, lookup >>,
           \A x \in Node : /\ help'[x].table = help[x].table /\ help'[x].prev = help[x].prev
                           /\ help'[x] # help[x] => help[x].pc \in {"files", "start"}
                                                    /\ help'[x].pc \in {"start", "done"}
    PROVE  Tables'
<1> USE DEF Tables
<1>1. \A x : Walking(x) <=> Walking(x)'
  BY DEF Walking
<1>2. NewTables' /\ MemberTables'
  BY <1>1, OwnTablesStay
<1>3. WalkInforms'
  BY WalkInformsStay DEF Serial
<1>4. HelpAnswers'
  <2>1. \A x \in Node : help'[x].pc = "furthest" => help[x].pc = "furthest"
    OBVIOUS
  <2> QED BY <2>1, HostSets DEF HelpAnswers, SameHosts, FurthestPrev
<1>5. HelpTables'
  <2>1. ASSUME NEW x \in Newcomers, NEW i \in FingerIndex,
               (help'[x].pc = "entry" /\ i < help'[x].i) \/ help'[x].pc \notin {"idle", "entry"}
        PROVE  Exact(Members \cup {x}, x, i, help'[x].table[i])
    <3>1. (help[x].pc = "entry" /\ i < help[x].i) \/ help[x].pc \notin {"idle", "entry"}
      BY <2>1, HostSets
    <3> QED BY <3>1, HostSets DEF HelpTables
  <2> QED BY <2>1, ExactSame DEF HelpTables, SameHosts
<1>6. HelpPrevs'
  <2>1. \A x \in Newcomers : help'[x].pc \in {"files", "start", "done"} =>
            Owns(myHash, Members, help'[x].prev, FurthestPrev(x))
    BY HostSets DEF HelpPrevs
  <2> QED BY <2>1, ExactSame DEF HelpPrevs, SameHosts
<1> QED BY <1>2, <1>3, <1>4, <1>5, <1>6

\* The helper sends the files: its record says where it stands.
LEMMA HelpFilesTables ==
    ASSUME TypeOK, AskedOnce, Intact, Serial, Tables, NEW n \in Node, HelpFiles(n)
    PROVE  Tables'
<1>1. help[n].pc = "files" /\ help[n] \in HelpState
  BY DEF HelpFiles, TypeOK
<1>2. phase[n] \in Joining
  BY <1>1 DEF AskedOnce, Intact
<1>3. /\ \A x \in Node \ {n} : help'[x] = help[x]
      /\ help'[n].pc = "start" /\ help'[n].prev = help[n].prev
      /\ help'[n].table = help[n].table
  BY <1>1 DEF HelpFiles, TypeOK, HelpState
<1>4. UNCHANGED << phase, myHash, localStart, fingerTable, walk, requests, lookup >>
  BY DEF HelpFiles
<1>5. SameHosts
  BY <1>1, <1>2, <1>3, <1>4, SameHostsWhen DEF Joining
<1> QED BY <1>1, <1>3, <1>4, <1>5, HelpGoesOnTables

-----------------------------------------------------------------------------
(* when a join ends,                                                       *)

\* Everybody has been told of the newcomer, which is a member from now on.
LEMMA JoinEndsTables ==
    ASSUME TypeOK, Intact, Serial, Tables, NEW n \in Newcomers, phase[n] \in {"files", "up"},
           Members' = Members \cup {n}, Newcomers' = {},
           UNCHANGED << myHash, fingerTable, requests >>
    PROVE  Tables'
<1>1. \A x \in Newcomers : x = n
  BY DEF Serial, OneNewcomer
<1>2. \A m \in requests : m.type \notin {"update", "updated"}
  <2>1. ASSUME NEW m \in requests, NEW x \in Node, phase[x] = "wait" PROVE FALSE
    <3>1. x \in Newcomers
      BY <2>1 DEF Newcomers, Started, Members
    <3> QED BY <1>1, <2>1, <3>1
  <2> QED BY <2>1, RequestParts DEF Serial, Walks
<1>3. MemberTables'
  <2>1. ASSUME NEW x \in Members \cup {n}, NEW i \in FingerIndex
        PROVE  Exact(Members \cup {n}, x, i, fingerTable[x][i])
    <3>1. CASE x \in Members
      BY <3>1 DEF Tables, WalkInforms, Informed
    <3>2. CASE x = n
      BY <3>2 DEF Tables, NewTables, Walking
    <3> QED BY <3>1, <3>2
  <2> QED BY <2>1 DEF MemberTables, Exact, EntryHash
<1>4. HelpAnswers' /\ HelpTables' /\ HelpPrevs' /\ NewTables' /\ WalkInforms'
  BY <1>2 DEF HelpAnswers, HelpTables, HelpPrevs, NewTables, WalkInforms
<1> QED BY <1>3, <1>4 DEF Tables

\* The helper moves its local_start, last of all or before the newcomer reads.
LEMMA HelpStartTables ==
    ASSUME TypeOK, AskedOnce, Intact, Serial, Tables, NEW n \in Node, HelpStart(n)
    PROVE  Tables'
<1>1. n \in Newcomers /\ help[n].pc = "start" /\ help[n] \in HelpState
  BY HelpStartStarts DEF HelpStart, TypeOK
<1>2. \A x \in Newcomers : x = n
  BY <1>1 DEF Serial, OneNewcomer
<1>3. /\ \A x \in Node \ {n} : help'[x] = help[x]
      /\ help'[n].pc = "done" /\ help'[n].prev = help[n].prev
      /\ help'[n].table = help[n].table
  BY <1>1 DEF HelpStart, TypeOK, HelpState
<1>4. UNCHANGED << phase, myHash, fingerTable, walk, requests, lookup >>
  BY DEF HelpStart
<1>5. CASE phase[n] = "up"
  <2>1. Members' = Members \cup {n}
    BY <1>3, <1>4, <1>5 DEF Members
  <2>2. Newcomers' = {}
    BY <1>2, <1>4, <2>1 DEF Newcomers, Started
  <2> QED BY <1>1, <1>4, <1>5, <2>1, <2>2, JoinEndsTables
<1>6. CASE phase[n] # "up"
  <2>1. SameHosts
    BY <1>3, <1>4, <1>6, SameHostsWhen
  <2> QED BY <1>1, <1>3, <1>4, <2>1, HelpGoesOnTables
<1> QED BY <1>5, <1>6

\* The newcomer reads the files.
LEMMA RecvFileTableTables ==
    ASSUME TypeOK, AskedOnce, Intact, Serial, Tables, NEW n \in Node, RecvFileTable(n)
    PROVE  Tables'
<1> USE DEF Tables
<1>1. /\ phase[n] = "files" /\ help[n].pc \in {"start", "done"}
      /\ UNCHANGED << myHash, localStart, requests, lookup, fingerTable, help, walk >>
  BY DEF RecvFileTable, joinVars
<1>2. \A x \in Node : phase'[x] = IF x = n THEN "up" ELSE phase[x]
  BY DEF RecvFileTable, TypeOK
<1>3. n \in Newcomers /\ \A x \in Newcomers : x = n
  BY <1>1, WhoIsNew DEF Joining, Serial, OneNewcomer
<1>4. CASE help[n].pc = "done"
  <2>1. Members' = Members \cup {n}
    BY <1>1, <1>2, <1>4 DEF Members
  <2>2. Started' = Started
    BY <1>1, <1>2 DEF Started
  <2>3. Newcomers' = {}
    BY <1>3, <2>1, <2>2 DEF Newcomers
  <2> QED BY <1>1, <1>3, <2>1, <2>3, JoinEndsTables
<1>5. CASE help[n].pc = "start"
  <2>1. SameHosts
    BY <1>1, <1>2, <1>5, SameHostsWhen
  <2>2. \A x \in Node : /\ Walking(x) <=> Walking(x)'
                        /\ phase[x] = "prev" <=> phase'[x] = "prev"
    BY <1>1, <1>2 DEF Walking
  <2>3. HelpAnswers' /\ HelpTables' /\ HelpPrevs'
    BY <1>1, <2>1, HelpAnswersStay, HelpTablesStay
  <2>4. NewTables' /\ MemberTables'
    BY <1>1, <2>1, <2>2, OwnTablesStay
  <2>5. WalkInforms'
    <3>1. \A x \in Newcomers : phase'[x] \in {"files", "up"} => phase[x] \in {"files", "up"}
      BY <1>1, <1>3
    <3>2. \A x \in Node : phase'[x] = "walk" => phase[x] = "walk"
      BY <1>2
    <3> QED BY <1>1, <2>1, <3>1, <3>2, WalkInformsStay DEF Serial
  <2> QED BY <2>3, <2>4, <2>5
<1> QED BY <1>1, <1>4, <1>5

-----------------------------------------------------------------------------
(* when the newcomer reads, and sets out,                                  *)

\* The newcomer reads the first answer and has no table yet.
LEMMA RecvHelpJoinTables ==
    ASSUME TypeOK, AskedOnce, Intact, Serial, Tables, NEW n \in Node, RecvHelpJoin(n)
    PROVE  Tables'
<1> USE DEF Tables
<1>1. /\ phase[n] = "helpjoin" /\ phase' = [phase EXCEPT ![n] = "table"]
      /\ UNCHANGED << myHash, localStart, requests, lookup, fingerTable, help, walk >>
  BY DEF RecvHelpJoin, joinVars
<1>2. SameHosts /\ \A x \in Node : phase'[x] = IF x = n THEN "table" ELSE phase[x]
  BY <1>1, NewcomerMoves DEF Joining
<1>3. \A x \in Node : (phase[x] = "prev" \/ Walking(x))' => phase[x] = "prev" \/ Walking(x)
  BY <1>2 DEF Walking
<1>4. HelpAnswers' /\ HelpTables' /\ HelpPrevs' /\ NewTables' /\ MemberTables'
  BY <1>1, <1>2, <1>3, HelpAnswersStay, HelpTablesStay, OwnTablesStay
<1>5. WalkInforms'
  BY <1>1, <1>2, HostSets, WalkInformsStay DEF Serial
<1> QED BY <1>4, <1>5

\* The newcomer's table is the one that was made for it.
LEMMA RecvRouteTableTables ==
    ASSUME TypeOK, AskedOnce, Intact, Serial, Tables, NEW n \in Node, RecvRouteTable(n)
    PROVE  Tables'
<1> USE DEF Tables
<1>1. /\ phase[n] = "table" /\ help[n].pc \notin {"idle", "entry"}
      /\ phase' = [phase EXCEPT ![n] = "prev"]
      /\ fingerTable' = [fingerTable EXCEPT ![n] = help[n].table]
      /\ UNCHANGED << myHash, localStart, requests, lookup, help, walk >>
  BY DEF RecvRouteTable
<1>2. /\ SameHosts /\ n \in Newcomers /\ \A x \in Newcomers : x = n
      /\ \A x \in Node : phase'[x] = IF x = n THEN "prev" ELSE phase[x]
  BY <1>1, NewcomerMoves DEF Joining
<1>3. /\ fingerTable'[n] = help[n].table
      /\ \A x \in Members : fingerTable'[x] = fingerTable[x] /\ x # n
  BY <1>1, <1>2, HostSets DEF TypeOK
<1>4. HelpAnswers' /\ HelpTables' /\ HelpPrevs'
  BY <1>1, <1>2, HelpAnswersStay, HelpTablesStay
<1>5. NewTables'
  <2>1. \A i \in FingerIndex : Exact(Members \cup {n}, n, i, fingerTable'[n][i])
    BY <1>1, <1>2, <1>3 DEF HelpTables
  <2> QED BY <1>2, <2>1, ExactSame DEF NewTables, SameHosts
<1>6. MemberTables'
  <2>1. \A x \in Members, i \in FingerIndex :
            \/ Exact(Members, x, i, fingerTable'[x][i])
            \/ \E z \in Newcomers : Exact(Members \cup {z}, x, i, fingerTable'[x][i])
    BY <1>3 DEF MemberTables
  <2> QED BY <1>2, <2>1, ExactSame DEF MemberTables, SameHosts
<1>7. WalkInforms'
  <2>1. ASSUME NEW m \in requests, NEW x \in Node, phase[x] = "wait" PROVE FALSE
    BY <1>1, <1>2, <2>1, WhoIsNew DEF Serial, Joining
  <2>2. \A m \in requests' : m.type \notin {"update", "updated"}
    BY <1>1, <2>1, RequestParts DEF Serial, Walks
  <2>3. \A x \in Newcomers' : phase'[x] = "prev"
    BY <1>2, HostSets DEF SameHosts
  <2> QED BY <2>2, <2>3 DEF WalkInforms
<1> QED BY <1>4, <1>5, <1>6, <1>7

\* Nobody has been passed when the walk begins.
LEMMA RecvLookupNodeTables ==
    ASSUME TypeOK, AskedOnce, Intact, Serial, Tables, NEW n \in Node, RecvLookupNode(n)
    PROVE  Tables'
<1> USE DEF Tables
<1>1. /\ phase[n] = "prev" /\ help[n].pc \in {"files", "start", "done"}
      /\ phase' = [phase EXCEPT ![n] = "walk"] /\ walk' = [walk EXCEPT ![n] = help[n].prev]
      /\ UNCHANGED << myHash, localStart, requests, lookup, fingerTable, help >>
  BY DEF RecvLookupNode
<1>2. /\ SameHosts /\ n \in Newcomers /\ \A x \in Newcomers : x = n
      /\ \A x \in Node : phase'[x] = IF x = n THEN "walk" ELSE phase[x]
  BY <1>1, NewcomerMoves DEF Joining
<1>3. \A x \in Node : (phase[x] = "prev" \/ Walking(x))' => phase[x] = "prev" \/ Walking(x)
  BY <1>1, <1>2 DEF Walking
<1>4. HelpAnswers' /\ HelpTables' /\ HelpPrevs' /\ NewTables' /\ MemberTables'
  BY <1>1, <1>2, <1>3, HelpAnswersStay, HelpTablesStay, OwnTablesStay
<1>5. Passed(n, help[n].prev) = {}
  <2>1. help[n].prev \in Members /\ myHash \in [Node -> Ids]
    BY <1>1, <1>2 DEF Serial, Helpers, TypeOK
  <2>2. myHash[help[n].prev] \in Ids
    BY <2>1, HostSets
  <2>3. Steps(myHash[help[n].prev], myHash[help[n].prev]) = 0
    <3> DEFINE a == myHash[help[n].prev]
    <3>1. a \in Ids /\ a \in Int
      BY <2>2, PointsNat DEF Ids
    <3>2. Steps(a, a) = IF a >= a THEN a - a ELSE a - a + TotalHashPoints
      BY <3>1, StepsRange
    <3> HIDE DEF a
    <3>3. Steps(a, a) = 0
      BY <3>1, <3>2
    <3> QED BY <3>3 DEF a
  <2>4. ASSUME NEW x \in Members
        PROVE  Steps(myHash[help[n].prev], myHash[x]) \in Nat
    <3>1. myHash[x] \in Ids
      BY <2>1, HostSets
    <3> QED BY <2>2, <3>1, StepsRange, PointsNat
  <2>5. ASSUME NEW x \in Members
        PROVE  ~(Steps(myHash[help[n].prev], myHash[x]) < 0)
    BY <2>4
  <2> QED BY <2>3, <2>5 DEF Passed
<1>6. WalkInforms'
  <2>1. ASSUME NEW m \in requests, NEW x \in Node, phase[x] = "wait" PROVE FALSE
    BY <1>1, <1>2, <2>1, WhoIsNew DEF Serial, Joining
  <2>2. \A m \in requests' : m.type \notin {"update", "updated"}
    BY <1>1, <2>1, RequestParts DEF Serial, Walks
  <2>3. \A x \in Newcomers' : x = n
    BY <1>2 DEF SameHosts
  <2>4. phase'[n] = "walk" /\ walk'[n] = help[n].prev
    BY <1>1, <1>2 DEF TypeOK
  <2>5. Passed(n, walk[n])' = {}
    BY <1>1, <1>2, <1>5, <2>4 DEF Passed, SameHosts
  <2> QED BY <2>2, <2>3, <2>4, <2>5 DEF WalkInforms
<1> QED BY <1>4, <1>6

\* The walk stands still while its request is on the way.
LEMMA WalkSendTables ==
    ASSUME TypeOK, AskedOnce, Intact, Serial, Tables, Intact', NEW n \in Node, WalkSend(n)
    PROVE  Tables'
<1> USE DEF Tables
<1> DEFINE q == [type |-> "update", to |-> walk[n], new |-> n]
<1>1. /\ phase[n] = "walk" /\ phase' = [phase EXCEPT ![n] = "wait"]
      /\ requests' = requests \cup {q}
      /\ UNCHANGED << myHash, localStart, lookup, fingerTable, help, walk >>
  BY CrashEnds DEF WalkSend, joinVars
<1>2. /\ SameHosts /\ n \in Newcomers /\ \A x \in Newcomers : x = n
      /\ \A x \in Node : phase'[x] = IF x = n THEN "wait" ELSE phase[x]
  BY <1>1, NewcomerMoves DEF Joining
<1>3. \A x \in Node : (phase[x] = "prev" \/ Walking(x))' => phase[x] = "prev" \/ Walking(x)
  BY <1>1, <1>2 DEF Walking
<1>4. HelpAnswers' /\ HelpTables' /\ HelpPrevs' /\ NewTables' /\ MemberTables'
  BY <1>1, <1>2, <1>3, HelpAnswersStay, HelpTablesStay, OwnTablesStay
<1>5. WalkInforms'
  <2>1. ASSUME NEW m \in requests, NEW x \in Node, phase[x] = "wait" PROVE FALSE
    BY <1>1, <1>2, <2>1, WhoIsNew DEF Serial, Joining
  <2>2. \A m \in requests : m.type \notin {"update", "updated"}
    BY <2>1, RequestParts DEF Serial, Walks
  <2>3. q.type = "update" /\ q.to = walk[n] /\ q.new = n
    OBVIOUS
  <2> HIDE DEF q
  <2>4. \A m \in requests' : m.type \in {"update", "updated"} => m = q
    BY <1>1, <2>2
  <2>5. \A x \in Newcomers' : phase'[x] = "wait"
    BY <1>2, HostSets DEF SameHosts
  <2>6. \A x \in Passed(n, walk[n])' : Informed(n, x)'
    <3>1. \A x \in Passed(n, walk[n]) : Informed(n, x)
      BY <1>1, <1>2 DEF WalkInforms
    <3>2. Passed(n, walk[n])' = Passed(n, walk[n])
      BY <1>1, <1>2 DEF Passed, SameHosts
    <3> QED BY <1>1, <1>2, <3>1, <3>2, InformedStays
  <2>7. ASSUME NEW m \in requests', m.type \in {"update", "updated"}
        PROVE  m.type = "update" /\ \A x \in Passed(m.new, m.to)' : Informed(m.new, x)'
    <3>1. m.type = "update" /\ m.to = walk'[n] /\ m.new = n
      BY <1>1, <2>3, <2>4, <2>7
    <3>2. Passed(m.new, m.to)' = Passed(n, walk[n])'
      BY <3>1 DEF Passed
    <3> QED BY <2>6, <3>1, <3>2
  <2> QED BY <2>5, <2>7 DEF WalkInforms
<1> QED BY <1>4, <1>5

\* What an update makes of a member's table: it is informed.
LEMMA UpdateInforms ==
    ASSUME TypeOK, Serial, Tables, NEW n \in Newcomers, NEW x \in Members, NEW i \in FingerIndex
    PROVE  Exact(Members \cup {n}, x, i, UpdatedTable(x, n)[i])
<1> DEFINE f == fingerTable[x][i]
<1>1. /\ x \in Node /\ n \in Node /\ Members \subseteq Node /\ myHash \in [Node -> Ids]
      /\ \A z \in Newcomers : z = n
  BY HostSets DEF TypeOK, Serial, OneNewcomer
<1>2. Exact(Members, x, i, f) \/ Exact(Members \cup {n}, x, i, f)
  BY <1>1 DEF Tables, MemberTables
<1>3. f \in Node /\ StoredHash(f) = myHash[f]
  BY <1>1, <1>2, Constants DEF Exact, Owns, StoredHash
<1>4. UpdatedTable(x, n)[i] =
        IF 2^i <= GetDistance(myHash[x], myHash[n])
           /\ GetDistance(myHash[x], myHash[n]) < GetDistance(myHash[x], myHash[f])
        THEN n ELSE f
  <2>1. 2^i \in Int /\ GetDistance(myHash[x], myHash[n]) \in Int
    BY <1>1, EntrySpan, DistanceRange
  <2>2. GetDistance(myHash[x], myHash[n]) >= 2^i <=> 2^i <= GetDistance(myHash[x], myHash[n])
    BY <2>1
  <2> QED BY <1>3, <2>2 DEF UpdatedTable
<1> HIDE DEF f
<1> QED BY <1>1, <1>2, <1>4, UpdateExact DEF Exact, EntryHash

\* handle_update_route_req: the member the walk has come to is informed.
LEMMA HandleUpdateRouteReqTables ==
    ASSUME TypeOK, AskedOnce, Intact, Serial, Tables, Intact', NEW m \in requests,
           HandleUpdateRouteReq(m)
    PROVE  Tables'
<1> USE DEF Tables
<1> DEFINE x == m.to
           n == m.new
           table == UpdatedTable(x, n)
           q == [type |-> "updated", to |-> n, cur |-> x, next |-> table[0]]
<1>1. /\ m.type = "update" /\ x \in Node /\ n \in Node /\ x \in Members /\ phase[n] = "wait"
      /\ n \in Newcomers /\ \A z \in Newcomers : z = n
  <2>1. m.type = "update" /\ x \in Node /\ n \in Node /\ x \in Members /\ phase[n] = "wait"
    BY RequestParts DEF HandleUpdateRouteReq, Serial, Walks
  <2> QED BY <2>1, WhoIsNew DEF Joining, Serial, OneNewcomer
<1>2. /\ fingerTable' = [fingerTable EXCEPT ![x] = table]
      /\ requests' = (requests \ {m}) \cup {q}
      /\ UNCHANGED << phase, myHash, localStart, lookup, help, walk >>
  BY <1>1, CrashEnds DEF HandleUpdateRouteReq
<1>3. SameHosts
  BY <1>2, SameHostsWhen
<1>4. \A z : Walking(z) <=> Walking(z)'
  BY <1>2 DEF Walking
<1>5. \A z \in Node : fingerTable'[z] = IF z = x THEN table ELSE fingerTable[z]
  BY <1>2 DEF TypeOK
<1>6. \A i \in FingerIndex : Exact(Members \cup {n}, x, i, table[i])
  BY <1>1, UpdateInforms DEF Serial
<1>7. q.type = "updated" /\ q.to = n /\ q.cur = x
  OBVIOUS
<1> HIDE DEF q, table
<1>8. HelpAnswers' /\ HelpTables' /\ HelpPrevs'
  BY <1>2, <1>3, HelpAnswersStay, HelpTablesStay
<1>9. NewTables'
  <2>1. \A z \in Newcomers : fingerTable'[z] = fingerTable[z]
    BY <1>1, <1>5, HostSets
  <2> QED BY <1>2, <1>3, <1>4, <2>1, ExactSame DEF NewTables, SameHosts
<1>10. MemberTables'
  <2>1. ASSUME NEW z \in Members, NEW i \in FingerIndex
        PROVE  \/ Exact(Members, z, i, fingerTable'[z][i])
               \/ \E y \in Newcomers : Exact(Members \cup {y}, z, i, fingerTable'[z][i])
    <3>1. CASE z = x
      BY <1>1, <1>5, <1>6, <3>1
    <3>2. CASE z # x
      BY <1>5, <3>2, HostSets DEF MemberTables
    <3> QED BY <3>1, <3>2
  <2> QED BY <1>3, <2>1, ExactSame DEF MemberTables, SameHosts
<1>11. \A z \in Passed(n, x) \cup {x} : Informed(n, z)'
  <2> SUFFICES ASSUME NEW z \in Passed(n, x) \cup {x}, NEW i \in FingerIndex
               PROVE  Exact(Members \cup {n}, z, i, fingerTable'[z][i])
    BY <1>3, ExactSame DEF Informed
  <2>1. CASE z = x
    BY <1>1, <1>5, <1>6, <2>1
  <2>2. CASE z # x
    <3>1. Informed(n, z) /\ z \in Node
      BY <1>1, <2>2, HostSets DEF WalkInforms, Passed
    <3> QED BY <1>5, <2>2, <3>1 DEF Informed
  <2> QED BY <2>1, <2>2
<1>12. WalkInforms'
  <2>1. \A o \in requests' : o.type \in {"update", "updated"} => o = q
    BY <1>1, <1>2 DEF Serial, Walks
  <2>2. \A z \in Newcomers' : phase'[z] = "wait"
    BY <1>1, <1>2, <1>3 DEF SameHosts
  <2>3. ASSUME NEW o \in requests', o.type \in {"update", "updated"}
        PROVE  /\ o.type = "updated"
               /\ \A z \in Passed(o.to, o.cur)' \cup {o.cur} : Informed(o.to, z)'
    <3>1. o.type = "updated" /\ o.to = n /\ o.cur = x
      BY <1>7, <2>1, <2>3
    <3>2. Passed(o.to, o.cur)' = Passed(n, x)
      BY <1>2, <1>3, <3>1 DEF Passed, SameHosts
    <3> QED BY <1>11, <3>1, <3>2
  <2> QED BY <2>2, <2>3 DEF WalkInforms
<1> QED BY <1>8, <1>9, <1>10, <1>12

-----------------------------------------------------------------------------
(* when the walk goes round,                                               *)

\* The host the walk has come to names the next: none is passed over.
LEMMA NextPassed ==
    ASSUME TypeOK, Serial, Tables, NEW n \in Newcomers, NEW cur \in Members,
           help[n].prev \in Members, Informed(n, cur), fingerTable[cur][0] \in Members
    PROVE  Passed(n, fingerTable[cur][0]) \subseteq Passed(n, cur) \cup {cur}
<1> DEFINE y == fingerTable[cur][0]
           a == myHash[help[n].prev]
<1>1. /\ Members \cup {n} \subseteq Node /\ myHash \in [Node -> Ids] /\ cur \in Node
      /\ help[n].prev \in Node /\ a \in Ids
  BY HostSets DEF TypeOK
<1>2. Owns(myHash, Members \cup {n}, y, HashValueAdd(myHash[cur], 1))
  <2>1. Exact(Members \cup {n}, cur, 0, y)
    BY Constants DEF Informed
  <2> QED BY <2>1, FirstEntryHash DEF Exact
<1> SUFFICES ASSUME NEW x \in Passed(n, y), x # cur
             PROVE  x \in Passed(n, cur)
  OBVIOUS
<1>3. x \in Members /\ Steps(a, myHash[x]) < Steps(a, myHash[y])
  BY DEF Passed
<1>4. Steps(a, myHash[x]) <= Steps(a, myHash[cur])
  <2> HIDE DEF a, y
  <2> QED BY <1>1, <1>2, <1>3, PassedOn
<1>5. myHash[x] # myHash[cur] /\ myHash[x] \in Ids /\ myHash[cur] \in Ids
  BY <1>1, <1>3 DEF Serial, OneNewcomer, Distinct
<1>6. Steps(a, myHash[x]) # Steps(a, myHash[cur])
  BY <1>1, <1>5, StepsApart
<1>7. Steps(a, myHash[x]) \in Int /\ Steps(a, myHash[cur]) \in Int
  BY <1>1, <1>5, StepsRange, PointsNat
<1>8. Steps(a, myHash[x]) < Steps(a, myHash[cur])
  BY <1>4, <1>6, <1>7
<1> QED BY <1>3, <1>8 DEF Passed

\* The walk ends at the newcomer's predecessor: whoever it has not passed has
\* nothing to enter.
LEMMA AllInformed ==
    ASSUME TypeOK, Serial, Tables, HalfCircle, NEW n \in Newcomers, NEW cur \in Members,
           help[n].pc \in {"files", "start", "done"},
           fingerTable[cur][0] = n, \A x \in Passed(n, cur) \cup {cur} : Informed(n, x),
           NEW x \in Members
    PROVE  Informed(n, x)
<1> DEFINE p == help[n].prev
<1>1. /\ Members \cup {n} \subseteq Node /\ Members \subseteq Node /\ n \notin Members
      /\ myHash \in [Node -> Ids] /\ n \in Node /\ cur \in Node /\ x \in Node
      /\ Distinct(myHash, Members \cup {n}) /\ \A z \in Newcomers : z = n
  BY HostSets DEF TypeOK, Serial, OneNewcomer, Distinct
<1>2. Owns(myHash, Members, p, HashValueAdd(myHash[n], -(2^(M - 1)))) /\ p \in Members
  BY DEF Tables, HelpPrevs, FurthestPrev, Owns
<1>3. PICK a \in Ids : \A b \in Members \cup {n} : Steps(a, myHash[b]) < 2^(M - 1)
  BY HostSets DEF HalfCircle
<1>4. Owns(myHash, Members \cup {n}, n, HashValueAdd(myHash[cur], 1))
  <2>1. Exact(Members \cup {n}, cur, 0, n)
    BY Constants DEF Informed
  <2> QED BY <2>1, FirstEntryHash DEF Exact
<1>5. CASE x \in Passed(n, cur) \cup {cur}
  BY <1>5
<1>6. CASE x \notin Passed(n, cur) \cup {cur}
  <2>1. /\ myHash[p] \in Ids /\ myHash[x] \in Ids /\ myHash[cur] \in Ids
        /\ myHash[x] # myHash[cur]
    BY <1>1, <1>2, <1>6 DEF Distinct
  <2>2. ~(Steps(myHash[p], myHash[x]) < Steps(myHash[p], myHash[cur]))
    BY <1>6 DEF Passed
  <2>3. Steps(myHash[p], myHash[x]) # Steps(myHash[p], myHash[cur])
    BY <2>1, StepsApart
  <2>4. Steps(myHash[p], myHash[x]) \in Int /\ Steps(myHash[p], myHash[cur]) \in Int
    BY <2>1, StepsRange, PointsNat
  <2>5. ~(Steps(myHash[p], myHash[x]) <= Steps(myHash[p], myHash[cur]))
    BY <2>2, <2>3, <2>4
  <2> HIDE DEF p
  <2>6. ASSUME NEW i \in FingerIndex PROVE Exact(Members \cup {n}, x, i, fingerTable[x][i])
    <3>1. CASE Exact(Members \cup {n}, x, i, fingerTable[x][i])
      BY <3>1
    <3>2. CASE Exact(Members, x, i, fingerTable[x][i])
      <4>1. Owns(myHash, Members, fingerTable[x][i], HashValueAdd(myHash[x], 2^i))
        BY <3>2 DEF Exact, EntryHash
      <4>2. Owns(myHash, Members \cup {n}, fingerTable[x][i], HashValueAdd(myHash[x], 2^i))
        BY <1>1, <1>2, <1>3, <1>4, <2>5, <4>1, RestExact
      <4> QED BY <4>2 DEF Exact, EntryHash
    <3> QED BY <1>1, <3>1, <3>2 DEF Tables, MemberTables
  <2> QED BY <2>6 DEF Informed
<1> QED BY <1>5, <1>6

\* The walk moves on, or has gone round: then everybody is informed.
LEMMA WalkRecvTables ==
    ASSUME TypeOK, AskedOnce, Intact, Serial, HalfCircle, Tables, NEW m \in requests, WalkRecv(m)
    PROVE  Tables'
<1> USE DEF Tables
<1> DEFINE n == m.to
           ends == StoredHash(m.next) = myHash[n]
<1>1. /\ m.type = "updated" /\ n \in Node /\ phase[n] = "wait"
      /\ m.cur \in Members /\ m.next = fingerTable[m.cur][0]
      /\ requests' = requests \ {m}
      /\ phase' = [phase EXCEPT ![n] = IF ends THEN "files" ELSE "walk"]
      /\ UNCHANGED << myHash, lookup, fingerTable, help >>
  BY RequestParts DEF WalkRecv, Serial, Walks
<1>2. /\ SameHosts /\ n \in Newcomers /\ \A x \in Newcomers : x = n
      /\ \A x \in Node : phase'[x] = IF x = n THEN (IF ends THEN "files" ELSE "walk") ELSE phase[x]
  <2>1. (IF ends THEN "files" ELSE "walk") \in Joining
    BY DEF Joining
  <2>2. phase[n] \in Joining
    BY <1>1 DEF Joining
  <2> HIDE DEF ends
  <2> QED BY <1>1, <2>1, <2>2, NewcomerMoves
<1>3. \A x \in Node : (phase[x] = "prev" \/ Walking(x))' => phase[x] = "prev" \/ Walking(x)
  BY <1>1, <1>2 DEF Walking
<1>4. HelpAnswers' /\ HelpTables' /\ HelpPrevs' /\ NewTables' /\ MemberTables'
  BY <1>1, <1>2, <1>3, HelpAnswersStay, HelpTablesStay, OwnTablesStay
<1>5. \A x \in Passed(n, m.cur) \cup {m.cur} : Informed(n, x)
  BY <1>1 DEF WalkInforms
<1>6. help[n].pc \in {"files", "start", "done"} /\ help[n].prev \in Members
  BY <1>1, <1>2 DEF Serial, Stages, Helpers
<1>7. \A o \in requests' : o.type \notin {"update", "updated"}
  BY <1>1 DEF Serial, Walks
<1>8. m.next \in Members \/ m.next = n
  BY <1>1, <1>2 DEF Serial, Links, Follows
<1>9. \A x : Informed(n, x) => Informed(n, x)'
  BY <1>1, <1>2, InformedStays
<1>10. \A x \in Newcomers' : x = n
  BY <1>2 DEF SameHosts
<1>11. CASE m.next = n
  <2>1. \A x \in Members : Informed(n, x)
    BY <1>1, <1>2, <1>5, <1>6, <1>11, AllInformed
  <2>2. \A x \in Members' : Informed(n, x)'
    BY <1>2, <1>9, <2>1 DEF SameHosts
  <2>3. phase'[n] = "files"
    BY <1>1, <1>2, <1>11, Constants DEF StoredHash
  <2>4. WalkInforms'
    BY <1>7, <1>10, <2>2, <2>3 DEF WalkInforms
  <2> QED BY <1>4, <2>4
<1>12. CASE m.next # n
  <2>1. m.next \in Members /\ Passed(n, m.next) \subseteq Passed(n, m.cur) \cup {m.cur}
    BY <1>1, <1>2, <1>5, <1>6, <1>8, <1>12, NextPassed
  <2>2. ~ends
    <3>1. m.next # NoNode /\ myHash[m.next] # myHash[n]
      BY <1>2, <1>12, <2>1, HostSets, Constants DEF Serial, OneNewcomer, Distinct
    <3> QED BY <3>1 DEF StoredHash
  <2>3. phase'[n] = "walk" /\ walk'[n] = m.next
    BY <1>1, <1>2, <2>2 DEF WalkRecv, TypeOK
  <2>4. Passed(n, walk[n])' = Passed(n, m.next)
    BY <1>1, <1>2, <2>3 DEF Passed, SameHosts
  <2>5. \A x \in Passed(n, walk[n])' : Informed(n, x)'
    BY <1>5, <1>9, <2>1, <2>4
  <2>6. WalkInforms'
    BY <1>7, <1>10, <2>3, <2>5 DEF WalkInforms
  <2> QED BY <1>4, <2>6
<1> QED BY <1>11, <1>12

-----------------------------------------------------------------------------
(* and across every step.                                                  *)

\* Between the entry host and the helper no table is at stake.
LEMMA JoinReqTables ==
    ASSUME TypeOK, Intact, Serial, Tables, Intact',
           \/ \E m \in requests : JoinReqHandle(m)
           \/ \E n \in Node : JoinReqReturn(n)
    PROVE  Tables'
<1>1. ASSUME NEW m \in requests, JoinReqHandle(m) PROVE Tables'
  <2>1. m.new \in Node
    BY <1>1, RequestParts DEF JoinReqHandle
  <2>2. \A n \in Node : lookup'[<<"help", n>>] = lookup[<<"help", n>>]
    BY <1>1, <2>1 DEF JoinReqHandle, TypeOK, Thread
  <2> QED BY <1>1, <2>2, TablesStay DEF JoinReqHandle, joinVars
<1>2. ASSUME NEW n \in Node, JoinReqReturn(n) PROVE Tables'
  <2> DEFINE l == lookup[<<"join", n>>]
             q == [type |-> "help", to |-> l.succ, new |-> n]
  <2>1. l.src \in Node
    BY <1>2 DEF JoinReqReturn, Returned, Alive
  <2>2. /\ requests' = requests \cup {q}
        /\ lookup' = [lookup EXCEPT ![<<"join", n>>] = NoLookup]
        /\ UNCHANGED << phase, myHash, fingerTable, localStart, help, walk >>
    BY <1>2, <2>1, CrashEnds DEF JoinReqReturn, joinVars
  <2>3. q.type = "help"
    OBVIOUS
  <2>4. \A x \in Node : lookup'[<<"help", x>>] = lookup[<<"help", x>>]
    BY <2>2 DEF TypeOK, Thread
  <2> HIDE DEF q, l
  <2> QED BY <2>2, <2>3, <2>4, TablesStay
<1> QED BY <1>1, <1>2

\* ... also after a step.
LEMMA SpacedThen == TypeOK' /\ Spaced' => Apart'
<1>1. TypeOK /\ Spaced => Apart
  BY SpacedApart
<1> QED BY <1>1, PTL

\* Tables across every step, while nobody dies.
LEMMA TablesNext ==
    ASSUME Pacing \in {"quiet", "serial"}, TypeOK, AskedOnce, FirstFirst, Intact, Spaced, HalfCircle, Serial,
           Tables, [Next]_vars, TypeOK', Intact', Serial'
    PROVE  Tables'
<1>1. CASE StartHost
  <2>1. ASSUME NEW n \in Node, NEW e \in Node, NEW h \in FreePositions, JoinChord(n, e, h)
        PROVE  NoJoin
    BY <2>1, UserAssumption DEF JoinChord, Ready, Quiet
  <2> QED BY <1>1, <2>1, InitialChordTables, JoinChordTables DEF StartHost
<1>2. CASE UserStep \/ FileStep
  BY <1>2, FileStepLeaves, TablesStay
<1>3. CASE LookupStep
  BY <1>3, LookupStepTables
<1>4. CASE JoinStep
  <2>1. ASSUME NEW m \in requests,
               HelpJoinReqHandle(m) \/ HandleUpdateRouteReq(m) \/ WalkRecv(m)
        PROVE  Tables'
    BY <2>1, HelpJoinReqHandleTables, HandleUpdateRouteReqTables, WalkRecvTables
  <2>2. ASSUME NEW n \in Node, HelpEntry(n) \/ HelpFurthest(n) \/ HelpFiles(n) \/ HelpStart(n)
        PROVE  Tables'
    BY <2>2, HelpEntryTables, HelpFurthestTables, HelpFilesTables, HelpStartTables
  <2>3. ASSUME NEW n \in Node,
               \/ RecvHelpJoin(n) \/ RecvRouteTable(n) \/ RecvLookupNode(n)
               \/ WalkSend(n) \/ RecvFileTable(n)
        PROVE  Tables'
    BY <2>3, RecvHelpJoinTables, RecvRouteTableTables, RecvLookupNodeTables, WalkSendTables,
       RecvFileTableTables
  <2>4. ASSUME NEW n \in Node, HelpPipeBroken(n) \/ JoinFails(n) PROVE FALSE
    BY <2>4, CrashEnds DEF HelpPipeBroken, JoinFails, Alive
  <2> QED BY <1>4, <2>1, <2>2, <2>3, <2>4, JoinReqTables DEF JoinStep
<1>5. CASE UNCHANGED vars
  BY <1>5, TablesStay DEF vars
<1> QED BY <1>1, <1>2, <1>3, <1>4, <1>5 DEF Next, ThreadStep

\* Hosts that lie as they should lay so before.
LEMMA PlacesBefore ==
    ASSUME TypeOK, [Next]_vars, Spaced', HalfCircle'
    PROVE  Spaced /\ HalfCircle
<1>1. Spaced
  BY StartedStays DEF Spaced
<1>2. HalfCircle
  BY StartedStays DEF HalfCircle
<1> QED BY <1>1, <1>2

\* The inductive invariant.
LEMMA TablesStep ==
    ASSUME Pacing \in {"quiet", "serial"}, TablesInv, [Next]_vars
    PROVE  TablesInv'
<1>1. SerialInv /\ SerialInv' /\ TypeOK /\ TypeOK' /\ AskedOnce /\ FirstFirst
  BY SerialStep DEF TablesInv, SerialInv
<1>2. ASSUME Intact', Spaced', HalfCircle' PROVE Tables'
  <2>1. Intact /\ Spaced /\ HalfCircle /\ Tables
    BY <1>1, <1>2, DeadStays, PlacesBefore DEF TablesInv
  <2>2. Serial
    BY <1>1, <2>1, SpacedApart DEF SerialInv
  <2>3. Apart'
    BY <1>1, <1>2, SpacedThen
  <2>4. Serial'
    BY <1>1, <1>2, <2>3 DEF SerialInv
  <2> QED BY <1>1, <1>2, <2>1, <2>2, <2>4, TablesNext
<1> QED BY <1>1, <1>2 DEF TablesInv

\* Nobody has been started.
LEMMA TablesInit == Init => TablesInv
<1> SUFFICES ASSUME Init PROVE TablesInv
  OBVIOUS
<1>1. /\ \A n \in Node : phase[n] = "off"
      /\ requests = {}
  BY DEF Init
<1>2. Members = {} /\ Newcomers = {}
  BY <1>1 DEF Members, Newcomers, Started
<1>3. Tables
  BY <1>1, <1>2 DEF Tables, HelpAnswers, HelpTables, HelpPrevs, NewTables, MemberTables, WalkInforms
<1> QED BY <1>3, SerialInit DEF TablesInv

\* The owner is the one the properties name.
LEMMA OwnerOwns ==
    ASSUME TypeOK, Distinct(myHash, Up), NEW v \in Ids, NEW x \in Up
    PROVE  Owns(myHash, Up, x, v) <=> x = Owner(v)
<1>0. myHash \in [Node -> Ids] /\ Up \subseteq Node
  BY DEF TypeOK, Up
<1>1. UpHashes \subseteq Ids /\ UpHashes # {} /\ \A z \in Up : myHash[z] \in UpHashes
  BY <1>0 DEF UpHashes
<1>2. /\ SuccessorIn(UpHashes, v) \in UpHashes
      /\ \A y \in UpHashes : Steps(v, SuccessorIn(UpHashes, v)) <= Steps(v, y)
  BY <1>1, SuccessorExists
<1>3. PICK o \in Up : myHash[o] = SuccessorIn(UpHashes, v)
  BY <1>2 DEF UpHashes
<1>4. Owner(v) = o
  BY <1>3 DEF Owner, Distinct
<1>5. Owns(myHash, Up, o, v)
  BY <1>1, <1>2, <1>3 DEF Owns
<1>6. ASSUME Owns(myHash, Up, x, v) PROVE x = o
  BY <1>0, <1>5, <1>6, OwnsOne
<1> QED BY <1>4, <1>5, <1>6

\* TablesExactInCluster for every set of hosts and every circle, when hosts join
\* one after another: in a quiet system of spaced hosts that lie in one half of
\* the circle every entry of every table names the owner of the point it stands
\* for (help_join_req_handle fills the newcomer's table; handle_update_route_req,
\* one member after another on the walk of join_chord, mends the others).
THEOREM TablesAreExact ==
    ASSUME Pacing \in {"quiet", "serial"}
    PROVE  Spec => []TablesExactInCluster
<1>1. Init => TablesInv
  BY TablesInit
<1>2. TablesInv /\ [Next]_vars => TablesInv'
  BY TablesStep
<1>3. TablesInv => TablesExactInCluster
  <2> SUFFICES ASSUME TablesInv, Quiet, Intact, Spaced, Clustered,
                      NEW n \in Up, NEW i \in FingerIndex
               PROVE  fingerTable[n][i] = Owner(EntryHash(n, i))
    BY DEF TablesExactInCluster, FingersExact
  <2>1. /\ TypeOK /\ Serial /\ Newcomers = {} /\ Members = Up /\ Started = Up
        /\ myHash \in [Node -> Ids] /\ Up \subseteq Node
    BY SpacedApart, NobodyNew, HostSets DEF TablesInv, SerialInv, Quiet, TypeOK
  <2>2. HalfCircle
    BY <2>1 DEF Clustered, HalfCircle
  <2>3. Owns(myHash, Up, fingerTable[n][i], EntryHash(n, i))
    BY <2>1, <2>2 DEF TablesInv, Tables, MemberTables, Exact
  <2>4. EntryHash(n, i) \in Ids
    BY <2>1, EntryHashType
  <2>5. Distinct(myHash, Up)
    BY <2>1 DEF Serial, OneNewcomer, Distinct
  <2>6. fingerTable[n][i] \in Up
    BY <2>3 DEF Owns
  <2> QED BY <2>1, <2>3, <2>4, <2>5, <2>6, OwnerOwns
<1> QED BY <1>1, <1>2, <1>3, PTL DEF Spec
=============================================================================
