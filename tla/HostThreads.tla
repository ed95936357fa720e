----------------------------- MODULE HostThreads -----------------------------
(***************************************************************************)
(* The detached threads of ONE host that is up, access by access.          *)
(* run_server gives every request a thread of its own, and the members of  *)
(* Node have no lock: between two accesses of one thread any other may     *)
(* run.  Module Chord has handlers that are atomic between two messages;   *)
(* this one looks inside them.  What they send is left out.                *)
(*                                                                         *)
(* The program is built without optimisation (Makefile), so every mention  *)
(* of local_start or of a hash in the table is a load or a store of its    *)
(* own.  A call of a member of a map or of a string is one access; two     *)
(* conflicting ones at once are a data race, which may end the process or  *)
(* leave a string that is the mixture of two.                              *)
(*                                                                         *)
(* A host is named by its hash.                                            *)
(***************************************************************************)
EXTENDS Ring, FiniteSets

CONSTANTS
    Me,        \* my_hash
    Others,    \* the hosts that may be in the table already (BOUND)
    New,       \* hosts that are joining (BOUND)
    Key,       \* hashes of files (BOUND)
    Elsewhere, \* further hashes that are looked up (BOUND)
    Thread,    \* handler threads (BOUND: each handles one request)
    Absent,    \* no entry in the DHT
    Nameless,  \* the contactInfo_t of two empty strings
    Mixed      \* a string that two threads have written at once

Host == Others \cup New \cup {Me}
Owner == Others \cup {Me}

ASSUME HostsAssumption ==
    /\ Me \notin Others \cup New
    /\ Host \subseteq Ids /\ Key \subseteq Ids /\ Elsewhere \subseteq Ids
ASSUME MarksAssumption ==
    /\ {Absent, Nameless, Mixed} \cap Ids = {}
    /\ Absent # Nameless

VARIABLES
    localStart,  \* local_start
    DHT,         \* DHT: key -> owner
    localFiles,  \* localFiles: the keys it has, for ITS OWN part empty names
    fingerTable, \* fingerTable: index -> contact and hash
    fileTable,   \* what the helper has put into the FileTable
    ended,       \* the process has ended
    req,         \* thread -> the request it handles
    pc,          \* thread -> its next access
    loaded,      \* thread -> local_start as loaded for "local_start -= ..."
    at           \* thread -> where its loop has got to: an index of the table,
                 \* or for the helper the key it has copied

\* History, read by properties only.
VARIABLES
    lastStart,   \* what local_start was last set to
    handed,      \* the helper has set it
    seen,        \* thread -> handed when it was started
    overlapped,  \* local_start was stored to while another thread subtracted
    removed      \* keys removed while a thread that had found them used them

shared == << localStart, DHT, localFiles, fingerTable, fileTable >>
threadVars == << req, loaded >>
history == << lastStart, handed, seen, overlapped, removed >>
vars == << shared, ended, threadVars, pc, at, history >>

Request ==
    [op : {"lookup"}, hash : Key \cup Elsewhere, from : {Me}]
      \cup [op : {"add"}, hash : Key, from : Owner]
      \cup [op : {"delete"}, hash : Key, from : {Me}]
      \cup [op : {"help", "update"}, hash : New, from : {Me}]

NoRequest == [op |-> "none", hash |-> Me, from |-> Me]

\* A table that joins may have left: no entry falls short of its point
\* (theorem FingersReach of module JoinProofs).
Tables == [FingerIndex -> [host : Owner, hash : Owner]]
Reaches(i, h) == GetDistance(Me, h) >= 2^i

Init ==
    /\ \E p \in Owner : localStart = HashValueAdd(p, 1)
    /\ DHT \in { d \in [Key -> {Absent} \cup Owner] : \A k \in Key :
                    d[k] # Absent => Responsible(localStart, Me, k) }
    /\ localFiles = {}
    /\ fingerTable \in { f \in Tables : \A i \in FingerIndex :
                           f[i].host = f[i].hash /\ Reaches(i, f[i].host) }
    /\ fileTable = [k \in Key |-> Absent]
    /\ ended = FALSE
    /\ req = [t \in Thread |-> NoRequest]
    /\ pc = [t \in Thread |-> "new"]
    /\ loaded = [t \in Thread |-> 0]
    /\ at = [t \in Thread |-> 0]
    /\ lastStart = localStart /\ handed = FALSE
    /\ seen = [t \in Thread |-> FALSE]
    /\ overlapped = FALSE /\ removed = {}

Goto(t, l) == pc' = [pc EXCEPT ![t] = l]
At(t, op, l) == req[t].op = op /\ pc[t] = l /\ ~ended

\* run_server spawns a handler.  One host is helped (BOUND), one that belongs
\* between the predecessor this host was last told of and itself.
First == [lookup |-> "test", add |-> "name", delete |-> "count",
          help |-> "scan", update |-> "near"]

Spawn(t, r) ==
    /\ pc[t] = "new" /\ ~ended
    /\ r.op = "help" => /\ Responsible(lastStart, Me, r.hash)
                        /\ \A u \in Thread : req[u].op # "help"
    /\ req' = [req EXCEPT ![t] = r]
    /\ Goto(t, First[r.op])
    /\ seen' = [seen EXCEPT ![t] = handed]
    /\ UNCHANGED << shared, ended, loaded, at, lastStart, handed, overlapped, removed >>

-----------------------------------------------------------------------------
(***************************************************************************)
(* lookup and lookup_req_handle: is_responsible_to, then the DHT or the    *)
(* finger table.                                                           *)
(***************************************************************************)

\* Threads between the load and the store of "local_start -= ...".
Subtracting(t) == pc[t] \in {"load", "store"}
OthersSubtract(t) == \E u \in Thread \ {t} : Subtracting(u)

\* FAULT: >= for >.
TestAtSelf(t) ==
    /\ At(t, "lookup", "test")
    /\ Goto(t, IF localStart >= Me THEN "load" ELSE "compare")
    /\ overlapped' = (overlapped \/ (localStart >= Me /\ OthersSubtract(t)))
    /\ UNCHANGED << shared, ended, threadVars, at, lastStart, handed, seen, removed >>

\* "if (local_start > my_hash)": the condition ...
Test(t) ==
    /\ At(t, "lookup", "test")
    /\ Goto(t, IF localStart > Me THEN "load" ELSE "compare")
    /\ overlapped' = (overlapped \/ (localStart > Me /\ OthersSubtract(t)))
    /\ UNCHANGED << shared, ended, threadVars, at, lastStart, handed, seen, removed >>

\* ... the load, and the store of the difference.
Load(t) ==
    /\ At(t, "lookup", "load")
    /\ loaded' = [loaded EXCEPT ![t] = localStart]
    /\ Goto(t, "store")
    /\ UNCHANGED << shared, ended, req, at, history >>

Store(t) ==
    /\ At(t, "lookup", "store")
    /\ localStart' = loaded[t] - TotalHashPoints
    /\ Goto(t, "compare")
    /\ UNCHANGED << DHT, localFiles, fingerTable, fileTable, ended, threadVars, at, history >>

\* FAULT: > for >=.
ClaimsAbove(t) == Unrolled(req[t].hash, Me) > localStart

\* "file_hash >= local_start"; the hash is not above my_hash any more.
Claims(t) == Unrolled(req[t].hash, Me) >= localStart

Compare(t) ==
    /\ At(t, "lookup", "compare")
    /\ Goto(t, IF Claims(t) THEN "find" ELSE "route")
    /\ UNCHANGED << shared, ended, threadVars, at, history >>

Entry(k) == IF k \in Key THEN DHT[k] ELSE Absent

\* FAULT: the entry is not looked for first.
FindAnyway(t) ==
    /\ At(t, "lookup", "find")
    /\ Goto(t, "first")
    /\ UNCHANGED << shared, ended, threadVars, at, history >>

\* "DHT.find(hash) == DHT.end()".
Find(t) ==
    /\ At(t, "lookup", "find")
    /\ Goto(t, IF Entry(req[t].hash) = Absent THEN "done" ELSE "first")
    /\ UNCHANGED << shared, ended, threadVars, at, history >>

\* "DHT[hash].first" and "DHT[hash].second": each inserts what is not there.
Subscript(t) ==
    /\ At(t, "lookup", "first") \/ At(t, "lookup", "second")
    /\ DHT' = [k \in Key |-> IF k = req[t].hash /\ DHT[k] = Absent
                             THEN Nameless ELSE DHT[k]]
    /\ Goto(t, IF pc[t] = "first" THEN "second" ELSE "done")
    /\ UNCHANGED << localStart, localFiles, fingerTable, fileTable, ended, threadVars, at,
                    history >>

\* get_next_hop_info copies a contact; no host has a name that is a mixture,
\* and a connection that cannot be made ends the process.
Route(t) ==
    /\ At(t, "lookup", "route")
    /\ ended' = (req[t].hash # Me /\ fingerTable[HopIndex(Me, req[t].hash)].host = Mixed)
    /\ Goto(t, "done")
    /\ UNCHANGED << shared, threadVars, at, history >>

LookupStep(t) ==
    Test(t) \/ Load(t) \/ Store(t) \/ Compare(t) \/ Find(t) \/ Subscript(t) \/ Route(t)

-----------------------------------------------------------------------------
(***************************************************************************)
(* add_file_req_handle and del_file_req_handle.                            *)
(***************************************************************************)

\* "file_exist(localFiles[hash])" inserts an empty name and finds the directory.
Name(t) ==
    /\ At(t, "add", "name")
    /\ localFiles' = localFiles \cup {req[t].hash}
    /\ Goto(t, "count")
    /\ UNCHANGED << localStart, DHT, fingerTable, fileTable, ended, threadVars, at, history >>

\* "DHT.count(hash)": a file that is there stays; one that is not ends the
\* process of who should delete it.
Count(t) ==
    LET there == DHT[req[t].hash] # Absent
    IN  \/ /\ At(t, "add", "count")
           /\ Goto(t, IF there THEN "done" ELSE "put")
           /\ UNCHANGED << shared, ended, threadVars, at, history >>
        \/ /\ At(t, "delete", "count")
           /\ Goto(t, IF there THEN "erase" ELSE "done")
           /\ ended' = ~there
           /\ UNCHANGED << shared, threadVars, at, history >>

Put(t) ==
    /\ At(t, "add", "put")
    /\ DHT' = [DHT EXCEPT ![req[t].hash] = req[t].from]
    /\ Goto(t, "done")
    /\ UNCHANGED << localStart, localFiles, fingerTable, fileTable, ended, threadVars, at,
                    history >>

\* Threads that have found k in the DHT and go on to use its entry.
Using(k) == { u \in Thread : req[u].hash = k /\ pc[u] \in {"first", "second"} }

Erase(t) ==
    LET k == req[t].hash
    IN  /\ At(t, "delete", "erase")
        /\ DHT' = [DHT EXCEPT ![k] = Absent]
        /\ removed' = IF Using(k) # {} THEN removed \cup {k} ELSE removed
        /\ Goto(t, "done")
        /\ UNCHANGED << localStart, localFiles, fingerTable, fileTable, ended, threadVars, at,
                        lastStart, handed, seen, overlapped >>

IndexStep(t) == Name(t) \/ Count(t) \/ Put(t) \/ Erase(t)

-----------------------------------------------------------------------------
(***************************************************************************)
(* The end of help_join_req_handle: the FileTable and local_start.         *)
(***************************************************************************)

\* Farther from this host than the new one is.
HandsOver(t, k) == GetDistance(k, Me) > GetDistance(req[t].hash, Me)

\* An iteration of the loop over the DHT copies an entry ...
Copy(t) ==
    /\ At(t, "help", "scan")
    /\ \E k \in Key :
          /\ DHT[k] # Absent /\ HandsOver(t, k)
          /\ fileTable' = [fileTable EXCEPT ![k] = DHT[k]]
          /\ at' = [at EXCEPT ![t] = k]
    /\ Goto(t, "drop")
    /\ UNCHANGED << localStart, DHT, localFiles, fingerTable, ended, threadVars, history >>

\* ... and removes it.
Drop(t) ==
    LET k == at[t]
    IN  /\ At(t, "help", "drop")
        /\ DHT' = [DHT EXCEPT ![k] = Absent]
        /\ removed' = IF Using(k) # {} THEN removed \cup {k} ELSE removed
        /\ Goto(t, "scan")
        /\ UNCHANGED << localStart, localFiles, fingerTable, fileTable, ended, threadVars, at,
                        lastStart, handed, seen, overlapped >>

\* The loop ends when the iterator has: entries put behind it are not seen.
Scanned(t) ==
    /\ At(t, "help", "scan")
    /\ \A k \in Key : DHT[k] # Absent /\ HandsOver(t, k) => fileTable[k] # Absent
    /\ Goto(t, "start")
    /\ UNCHANGED << shared, ended, threadVars, at, history >>

SetStart(t) ==
    /\ At(t, "help", "start")
    /\ localStart' = HashValueAdd(req[t].hash, 1)
    /\ lastStart' = HashValueAdd(req[t].hash, 1) /\ handed' = TRUE
    /\ overlapped' = (overlapped \/ OthersSubtract(t))
    /\ Goto(t, "done")
    /\ UNCHANGED << DHT, localFiles, fingerTable, fileTable, ended, threadVars, at, seen,
                    removed >>

HelpStep(t) == Copy(t) \/ Drop(t) \/ Scanned(t) \/ SetStart(t)

-----------------------------------------------------------------------------
(***************************************************************************)
(* handle_update_route_req: a loop over the table.                         *)
(***************************************************************************)

\* FAULT: not compared with the distance the entry stands for.
NearAnywhere(t) ==
    GetDistance(Me, req[t].hash) < GetDistance(Me, fingerTable[at[t]].hash)

Nearer(t) ==
    LET toNew == GetDistance(Me, req[t].hash)
    IN  toNew >= 2^at[t] /\ toNew < GetDistance(Me, fingerTable[at[t]].hash)

\* The next iteration, or the end of the loop and the response.
NextEntry(t) ==
    IF at[t] = M - 1 THEN Goto(t, "done") /\ UNCHANGED at
    ELSE Goto(t, "near") /\ at' = [at EXCEPT ![t] = @ + 1]

Near(t) ==
    /\ At(t, "update", "near")
    /\ IF Nearer(t) THEN Goto(t, "host") /\ UNCHANGED at ELSE NextEntry(t)
    /\ UNCHANGED << shared, ended, threadVars, history >>

\* A thread writes the name of entry i, or reads it.
WritesHost(u, i) == req[u].op = "update" /\ pc[u] = "host" /\ at[u] = i
ReadsHost(u, i) == /\ req[u].op = "lookup" /\ pc[u] = "route" /\ req[u].hash # Me
                   /\ HopIndex(Me, req[u].hash) = i

\* The name is assigned; two threads that do so at once leave either or a mixture.
SetHost(t) ==
    LET i == at[t]
    IN  /\ At(t, "update", "host")
        /\ \/ fingerTable' = [fingerTable EXCEPT ![i].host = req[t].hash]
           \/ /\ \E u \in Thread \ {t} : WritesHost(u, i)
              /\ fingerTable' = [fingerTable EXCEPT ![i].host = Mixed]
        /\ Goto(t, "hash")
        /\ UNCHANGED << localStart, DHT, localFiles, fileTable, ended, threadVars, at, history >>

SetHash(t) ==
    /\ At(t, "update", "hash")
    /\ fingerTable' = [fingerTable EXCEPT ![at[t]].hash = req[t].hash]
    /\ NextEntry(t)
    /\ UNCHANGED << localStart, DHT, localFiles, fileTable, ended, threadVars, history >>

UpdateStep(t) == Near(t) \/ SetHost(t) \/ SetHash(t)

-----------------------------------------------------------------------------
\* The next access of a thread to the DHT, and whether it may change the map.
WritesDHT(t) ==
    \/ req[t].op = "lookup" /\ pc[t] \in {"first", "second"}
    \/ pc[t] \in {"put", "erase", "drop"}
ReadsDHT(t) == pc[t] \in {"find", "count", "scan"}

\* Two accesses to one object at once, one of which writes.
DataRace ==
    \E t \in Thread : \E u \in Thread \ {t} :
        \/ WritesDHT(t) /\ (WritesDHT(u) \/ ReadsDHT(u))
        \/ pc[t] = "name" /\ pc[u] = "name"
        \/ \E i \in FingerIndex : WritesHost(t, i) /\ (WritesHost(u, i) \/ ReadsHost(u, i))

\* The least that may come of it.
RaceEnds ==
    /\ DataRace /\ ~ended
    /\ ended' = TRUE
    /\ UNCHANGED << shared, threadVars, pc, at, history >>

Next ==
    \/ \E t \in Thread :
          \/ \E r \in Request : Spawn(t, r)
          \/ LookupStep(t) \/ IndexStep(t) \/ HelpStep(t) \/ UpdateStep(t)
    \/ RaceEnds

Spec == Init /\ [][Next]_vars

-----------------------------------------------------------------------------
Label == {"new", "test", "load", "store", "compare", "find", "first", "second", "route",
          "name", "count", "put", "erase", "scan", "drop", "start", "near", "host", "hash",
          "done"}

\* Every variable holds a value of its type; local_start is below the circle's
\* size and, because every lookup may subtract once, has no lower bound.
TypeOK ==
    /\ localStart \in Int /\ localStart < TotalHashPoints /\ lastStart \in Ids
    /\ DHT \in [Key -> Owner \cup {Absent, Nameless}]
    /\ localFiles \in SUBSET Key
    /\ fingerTable \in [FingerIndex -> [host : Owner \cup New \cup {Mixed}, hash : Host]]
    /\ fileTable \in [Key -> Owner \cup {Absent, Nameless}]
    /\ ended \in BOOLEAN /\ handed \in BOOLEAN /\ overlapped \in BOOLEAN
    /\ req \in [Thread -> Request \cup {NoRequest}] /\ pc \in [Thread -> Label]
    /\ loaded \in [Thread -> Int] /\ at \in [Thread -> FingerIndex \cup Key]
    /\ seen \in [Thread -> BOOLEAN] /\ removed \in SUBSET Key

\* Whatever the other threads do between two accesses of is_responsible_to, it
\* refuses no hash that is this host's: local_start is only ever too small
\* ("local_start -= pow(...)", lookup.cpp:23-24).  A lookup that the end of a
\* handover cuts in two is excepted: it may answer for either moment.
RefusesNoneOfItsOwn ==
    [][\A t \in Thread :
          pc[t] = "compare" /\ pc'[t] = "route" /\ seen[t] = handed =>
              ~Responsible(lastStart, Me, req[t].hash)]_vars

\* Nor does it claim a hash that is not, unless two threads have been between
\* the test of local_start and the store of the difference at once, or one
\* while a handover set it: then the circle is subtracted twice, or from the
\* value before the handover, and the host answers for others until it next
\* helps a host to join.
ClaimsNoneOfOthers ==
    [][\A t \in Thread :
          pc[t] = "compare" /\ pc'[t] = "find" /\ seen[t] = handed /\ ~overlapped =>
              Responsible(lastStart, Me, req[t].hash)]_vars

\* The only way to an entry without a host's name, the one that operator[]
\* inserts, is a removal between another thread's find and its [].
GhostNeedsRemoval == \A k \in Key : DHT[k] = Nameless => k \in removed

\* Two threads that update the table at once may leave an entry whose name is
\* one host's and whose hash another's, but never one short of the point the
\* entry stands for: a lookup that follows it still does not turn back.
TornFingersReach ==
    \A i \in FingerIndex :
        /\ Reaches(i, fingerTable[i].hash)
        /\ fingerTable[i].host # Mixed => Reaches(i, fingerTable[i].host)
=============================================================================
