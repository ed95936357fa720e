------------------------------ MODULE ChordJoin ------------------------------
(***************************************************************************)
(* join.cpp: a host joins the circle.                                      *)
(*                                                                         *)
(*   new host n     JoinRequest -> entry host e                            *)
(*   e, detached    lookup(hash of n) -> r; HelpJoinRequest -> r           *)
(*   r, detached    opens ONE connection to n and writes to it             *)
(*                  HelpJoinResponse, RouteTableInit, LookupNodeResponse,  *)
(*                  FileTable, with M + 1 lookups in between               *)
(*   n              reads them in that order; between the third and the    *)
(*                  fourth it walks the circle with RouteUpdateRequests    *)
(*                                                                         *)
(* help[n].pc tells how far the helper is, hence what the connection has   *)
(* carried: n's next read succeeds once pc has passed the matching write.  *)
(***************************************************************************)
EXTENDS ChordLookup

\* initial_chord: the first host makes a circle of itself.
InitialChord(hash) ==
    /\ phase[First] = "off"
    /\ phase' = [phase EXCEPT ![First] = "up"]
    /\ myHash' = [myHash EXCEPT ![First] = hash]
    /\ fingerTable' = [fingerTable EXCEPT ![First] = [i \in FingerIndex |-> First]]
    /\ localStart' = [localStart EXCEPT ![First] = HashValueAdd(hash, 1)]
    /\ UNCHANGED << requests, lookup, help, walk, fileVars, uiVars >>

\* main() of a host started with contact node e, up to the sent JoinRequest.  Its
\* listen thread runs from here on: any request may reach it before it has joined,
\* the JoinRequest of another host, too, so e need only run.  If it does not, the
\* program stops ("Wrong entryNode info!") and nobody has heard of it.
JoinChord(n, e, hash) ==
    /\ phase[n] = "off" /\ n # First /\ Alive(e) /\ Ready("start")
    /\ phase' = [phase EXCEPT ![n] = "helpjoin"]
    /\ myHash' = [myHash EXCEPT ![n] = hash]
    /\ requests' = requests \cup {[type |-> "join", to |-> e, new |-> n]}
    /\ UNCHANGED << localStart, lookup, joinVars, fileVars, uiVars >>

-----------------------------------------------------------------------------
\* join_req_handle at the entry host, up to its call of lookup_successor.
JoinReqHandle(m) ==
    /\ m.type = "join" /\ Alive(m.to)
    /\ requests' = requests \ {m}
    /\ lookup' = [lookup EXCEPT ![<<"join", m.new>>] = Lookup(m.to, myHash[m.new])]
    /\ UNCHANGED << phase, myHash, localStart, joinVars, fileVars, uiVars >>

\* The rest of join_req_handle: the responsible host is asked to help.
JoinReqReturn(n) ==
    LET l == lookup[<<"join", n>>]
    IN  /\ Returned(<<"join", n>>)
        /\ \/ /\ Alive(l.succ)
              /\ requests' = requests \cup {[type |-> "help", to |-> l.succ, new |-> n]}
              /\ lookup' = [lookup EXCEPT ![<<"join", n>>] = NoLookup]
              /\ UNCHANGED << phase, myHash, localStart, joinVars, fileVars, uiVars >>
           \/ /\ ~Alive(l.succ)
              /\ Crash(l.src)

-----------------------------------------------------------------------------
\* Entry i of n's table stands for the point i bits clockwise of n.
EntryHash(n, i) == HashValueAdd(myHash[n], 2^i)

\* FAULT: only half of that.
FurthestPrevNear(n) == HashValueAdd(myHash[n], -(2^(M - 2)))

\* The last lookup of the helper: half a circle before n.
FurthestPrev(n) == HashValueAdd(myHash[n], -(2^(M - 1)))

\* The host of an entry: the looked up one, or the new host if that is nearer.
EntryHost(n, i, res) ==
    IF GetDistance(EntryHash(n, i), myHash[res]) > GetDistance(EntryHash(n, i), myHash[n])
    THEN n ELSE res

\* help_join_req_handle: connect to the new host, send HelpJoinResponse and
\* look up the first entry of its table.
HelpJoinReqHandle(m) ==
    /\ m.type = "help" /\ Alive(m.to)
    /\ \/ /\ Alive(m.new)
          /\ requests' = requests \ {m}
          /\ help' = [help EXCEPT ![m.new] = [NoHelp EXCEPT !.pc = "entry", !.host = m.to]]
          /\ lookup' = [lookup EXCEPT ![<<"help", m.new>>] =
                            Lookup(m.to, EntryHash(m.new, 0))]
          /\ UNCHANGED << phase, myHash, localStart, fingerTable, walk, fileVars, uiVars >>
       \/ /\ ~Alive(m.new)
          /\ Crash(m.to)

\* One iteration of the loop over the entries; the last one sends RouteTableInit.
HelpEntry(n) ==
    LET i    == help[n].i
        l    == lookup[<<"help", n>>]
        last == i = M - 1
    IN  /\ help[n].pc = "entry" /\ Returned(<<"help", n>>)
        /\ help' = [help EXCEPT ![n].table[i] = EntryHost(n, i, l.succ),
                                ![n].pc = IF last THEN "furthest" ELSE "entry",
                                ![n].i = IF last THEN i ELSE i + 1]
        /\ lookup' = [lookup EXCEPT ![<<"help", n>>] =
              Lookup(l.src, IF last THEN FurthestPrev(n) ELSE EntryHash(n, i + 1))]
        /\ UNCHANGED << phase, myHash, localStart, fingerTable, walk, requests,
                        fileVars, uiVars >>

\* The furthest previous host is known: LookupNodeResponse.
HelpFurthest(n) ==
    /\ help[n].pc = "furthest" /\ Returned(<<"help", n>>)
    /\ help' = [help EXCEPT ![n].pc = "files", ![n].prev = lookup[<<"help", n>>].succ]
    /\ lookup' = [lookup EXCEPT ![<<"help", n>>] = NoLookup]
    /\ UNCHANGED << phase, myHash, localStart, fingerTable, walk, requests,
                    fileVars, uiVars >>

\* FAULT: distances measured the wrong way round.
TransferredReversed(r, n) ==
    { k \in Key : /\ DHT[r][k] # NoNode
                  /\ GetDistance(myHash[r], k) > GetDistance(myHash[r], myHash[n]) }

\* The keys the helper r hands over to n.
Transferred(r, n) ==
    { k \in Key : /\ DHT[r][k] # NoNode
                  /\ GetDistance(k, myHash[r]) > GetDistance(myHash[n], myHash[r]) }

\* They leave the helper's DHT for the FileTable message.
HelpFiles(n) ==
    LET r     == help[n].host
        moved == Transferred(r, n)
    IN  /\ help[n].pc = "files" /\ Alive(r)
        /\ help' = [help EXCEPT ![n].pc = "start",
                ![n].files = [k \in Key |-> IF k \in moved THEN DHT[r][k] ELSE NoNode]]
        /\ DHT' = [DHT EXCEPT ![r] = [k \in Key |->
                                         IF k \in moved THEN NoNode ELSE DHT[r][k]]]
        /\ UNCHANGED << phase, myHash, localStart, fingerTable, walk, requests, lookup,
                        localFiles, uiVars >>

\* Only then does the helper give up the range: the new host is its predecessor.
HelpStart(n) ==
    /\ help[n].pc = "start" /\ Alive(help[n].host)
    /\ localStart' = [localStart EXCEPT ![help[n].host] = HashValueAdd(myHash[n], 1)]
    /\ help' = [help EXCEPT ![n].pc = "done"]
    /\ UNCHANGED << phase, myHash, requests, lookup, fingerTable, walk, fileVars, uiVars >>

\* A write to the connection of a host that has died: SIGPIPE.
HelpPipeBroken(n) ==
    /\ help[n].pc \in {"entry", "furthest", "files"}
    /\ Alive(help[n].host) /\ ~Alive(n)
    /\ Crash(help[n].host)

-----------------------------------------------------------------------------
\* join_chord of host n, read by read.  HelpJoinResponse:
RecvHelpJoin(n) ==
    /\ phase[n] = "helpjoin" /\ help[n].pc # "idle"
    /\ phase' = [phase EXCEPT ![n] = "table"]
    /\ UNCHANGED << myHash, localStart, requests, lookup, joinVars, fileVars, uiVars >>

\* FAULT: the received table is not stored.
RecvRouteTableDropped(n) ==
    /\ phase[n] = "table" /\ help[n].pc \notin {"idle", "entry"}
    /\ phase' = [phase EXCEPT ![n] = "prev"]
    /\ UNCHANGED << myHash, localStart, requests, lookup, joinVars, fileVars, uiVars >>

\* RouteTableInit: the finger table is set as received.
RecvRouteTable(n) ==
    /\ phase[n] = "table" /\ help[n].pc \notin {"idle", "entry"}
    /\ phase' = [phase EXCEPT ![n] = "prev"]
    /\ fingerTable' = [fingerTable EXCEPT ![n] = help[n].table]
    /\ UNCHANGED << myHash, localStart, requests, lookup, help, walk, fileVars, uiVars >>

\* LookupNodeResponse: where the walk begins.
RecvLookupNode(n) ==
    /\ phase[n] = "prev" /\ help[n].pc \in {"files", "start", "done"}
    /\ phase' = [phase EXCEPT ![n] = "walk"]
    /\ walk' = [walk EXCEPT ![n] = help[n].prev]
    /\ UNCHANGED << myHash, localStart, requests, lookup, fingerTable, help, fileVars, uiVars >>

\* The loop: RouteUpdateRequest to the host the walk has reached ...
WalkSend(n) ==
    /\ phase[n] = "walk"
    /\ \/ /\ Alive(walk[n])
          /\ requests' = requests \cup {[type |-> "update", to |-> walk[n], new |-> n]}
          /\ phase' = [phase EXCEPT ![n] = "wait"]
          /\ UNCHANGED << myHash, localStart, lookup, joinVars, fileVars, uiVars >>
       \/ /\ ~Alive(walk[n])
          /\ Crash(n)

\* The hash stored in an entry: zero in the empty finger table.
StoredHash(x) == IF x = NoNode THEN 0 ELSE myHash[x]

\* FAULT: d_min not compared.
UpdatedTableNoMin(x, n) ==
    [i \in FingerIndex |->
        IF GetDistance(myHash[x], myHash[n])
              < GetDistance(myHash[x], StoredHash(fingerTable[x][i]))
        THEN n ELSE fingerTable[x][i]]

\* FAULT: the present entry not compared.
UpdatedTableNoMax(x, n) ==
    [i \in FingerIndex |->
        IF GetDistance(myHash[x], myHash[n]) >= 2^i THEN n ELSE fingerTable[x][i]]

\* FAULT: the loop begins at entry 1.
UpdatedTableFromOne(x, n) ==
    LET toNew == GetDistance(myHash[x], myHash[n])
    IN  [i \in FingerIndex |->
            IF /\ i > 0
               /\ toNew >= 2^i
               /\ toNew < GetDistance(myHash[x], StoredHash(fingerTable[x][i]))
            THEN n ELSE fingerTable[x][i]]

\* The finger table of x after handle_update_route_req for the new host n.
UpdatedTable(x, n) ==
    LET toNew == GetDistance(myHash[x], myHash[n])
    IN  [i \in FingerIndex |->
            IF /\ toNew >= 2^i
               /\ toNew < GetDistance(myHash[x], StoredHash(fingerTable[x][i]))
            THEN n ELSE fingerTable[x][i]]

\* ... which updates its table and names the host after it ...
HandleUpdateRouteReq(m) ==
    LET x     == m.to
        table == UpdatedTable(x, m.new)
    IN  /\ m.type = "update" /\ Alive(x)
        /\ \/ /\ Alive(m.new)
              /\ fingerTable' = [fingerTable EXCEPT ![x] = table]
              /\ requests' = (requests \ {m}) \cup
                    {[type |-> "updated", to |-> m.new, cur |-> x, next |-> table[0]]}
              /\ UNCHANGED << phase, myHash, localStart, lookup, help, walk, fileVars, uiVars >>
           \/ /\ ~Alive(m.new)
              /\ Crash(x)

\* ... until that is the new host itself: its predecessor has been found.
WalkRecv(m) ==
    LET n    == m.to
        ends == StoredHash(m.next) = myHash[n]
    IN  /\ m.type = "updated" /\ phase[n] = "wait"
        /\ requests' = requests \ {m}
        /\ phase' = [phase EXCEPT ![n] = IF ends THEN "files" ELSE "walk"]
        /\ IF ends
           THEN /\ localStart' = [localStart EXCEPT ![n] = HashValueAdd(myHash[m.cur], 1)]
                /\ walk' = walk
           ELSE /\ localStart' = localStart
                /\ walk' = [walk EXCEPT ![n] = m.next]
        /\ UNCHANGED << myHash, lookup, fingerTable, help, fileVars, uiVars >>

\* FAULT: the DHT is replaced by the received table.
RecvFileTableReplaces(n) ==
    /\ phase[n] = "files" /\ help[n].pc \in {"start", "done"}
    /\ phase' = [phase EXCEPT ![n] = "up"]
    /\ DHT' = [DHT EXCEPT ![n] = help[n].files]
    /\ UNCHANGED << myHash, localStart, requests, lookup, joinVars, localFiles, uiVars >>

\* FileTable: inserted without replacing; the host has joined.
RecvFileTable(n) ==
    /\ phase[n] = "files" /\ help[n].pc \in {"start", "done"}
    /\ phase' = [phase EXCEPT ![n] = "up"]
    /\ DHT' = [DHT EXCEPT ![n] = [k \in Key |->
                    IF DHT[n][k] # NoNode THEN DHT[n][k] ELSE help[n].files[k]]]
    /\ UNCHANGED << myHash, localStart, requests, lookup, joinVars, localFiles, uiVars >>

\* The helper died before a message it owes: the read fails, the type found in
\* the response is the previous one, and join_chord exits.
JoinFails(n) ==
    /\ \/ phase[n] = "table" /\ help[n].pc = "entry"
       \/ phase[n] = "prev"  /\ help[n].pc = "furthest"
       \/ phase[n] = "files" /\ help[n].pc = "files"
    /\ ~Alive(help[n].host)
    /\ Crash(n)

FreePositions == Positions \ { myHash[x] : x \in Started }

\* A host is started by its operator ...
StartHost ==
    \/ \E h \in Positions : InitialChord(h)
    \/ \E n, e \in Node, h \in FreePositions : JoinChord(n, e, h)

\* ... and everything else in a join is a thread of the program.
JoinStep ==
    \/ \E m \in requests :
          \/ JoinReqHandle(m) \/ HelpJoinReqHandle(m)
          \/ HandleUpdateRouteReq(m) \/ WalkRecv(m)
    \/ \E n \in Node :
          \/ JoinReqReturn(n)
          \/ HelpEntry(n) \/ HelpFurthest(n) \/ HelpFiles(n) \/ HelpStart(n)
          \/ HelpPipeBroken(n)
          \/ RecvHelpJoin(n) \/ RecvRouteTable(n) \/ RecvLookupNode(n)
          \/ WalkSend(n) \/ RecvFileTable(n) \/ JoinFails(n)
=============================================================================
