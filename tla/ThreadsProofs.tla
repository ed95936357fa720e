----------------------------- MODULE ThreadsProofs -----------------------------
(***************************************************************************)
(* What the races inside one host cannot do, for any number of threads and *)
(* any circle: the invariants of HostThreads.                              *)
(*                                                                         *)
(* About local_start the argument is that it only ever moves down: Lowest, *)
(* the start of the host's range on the unrolled circle, bounds it from    *)
(* above once a thread has tested it, and a thread that is about to store  *)
(* stores something below that too, even if a handover has set local_start *)
(* since it loaded.  It is exactly Lowest as long as subtractions do not   *)
(* overlap.                                                                *)
(***************************************************************************)
EXTENDS HostThreads, RingProofs

-----------------------------------------------------------------------------
(* Types.                                                                  *)

\* Every request has its own place in its handler's code.
Places ==
    \A t \in Thread :
        /\ pc[t] = "new" => at[t] = 0
        /\ req[t].op = "update" => at[t] \in FingerIndex
        /\ req[t].op = "update" => req[t].hash \in New
        /\ req[t].op = "add" => req[t].hash \in Key /\ req[t].from \in Owner
        /\ req[t].op = "help" => req[t].hash \in New
        /\ req[t].op = "help" /\ pc[t] = "drop" => at[t] \in Key
        /\ loaded[t] < TotalHashPoints
        /\ req[t].hash \in Ids

\* The next iteration of the loop over the table is one of the table.
LEMMA NextIndex ==
    ASSUME NEW i \in FingerIndex, i # M - 1
    PROVE  i + 1 \in FingerIndex
BY RingBits DEF FingerIndex

\* A request that is spawned, and the first access of its handler.
LEMMA Spawned ==
    ASSUME TypeOK, NEW t \in Thread, NEW r \in Request, Spawn(t, r)
    PROVE  /\ pc'[t] \in {"test", "name", "count", "scan", "near"}
           /\ req'[t] = r
           /\ \A u \in Thread \ {t} : pc'[u] = pc[u] /\ req'[u] = req[u]
           /\ r.hash \in Ids
           /\ r.op \in {"lookup", "add", "delete", "help", "update"}
           /\ r.op \in {"help", "update"} => r.hash \in New /\ r.op # "add"
           /\ r.op = "add" => r.hash \in Key /\ r.from \in Owner
<1>1. /\ pc'[t] = First[r.op] /\ req'[t] = r
      /\ \A u \in Thread \ {t} : pc'[u] = pc[u] /\ req'[u] = req[u]
  BY DEF Spawn, Goto, TypeOK
<1>2. /\ r.op \in {"lookup", "add", "delete", "help", "update"}
      /\ r.hash \in Key \cup Elsewhere \cup New
      /\ r.op \in {"help", "update"} => r.hash \in New
      /\ r.op = "add" => r.hash \in Key /\ r.from \in Owner
  BY DEF Request
<1>3. First[r.op] \in {"test", "name", "count", "scan", "near"}
  BY <1>2 DEF First
<1> QED BY <1>1, <1>2, <1>3, HostsAssumption DEF Host

\* Types are kept.
LEMMA TypeStep ==
    ASSUME TypeOK, Places, [Next]_vars
    PROVE  TypeOK'
<1> USE DEF At, Goto, shared, threadVars, history,
            TypeOK, Places, Label, Request, NoRequest, Host, Owner, First
<1>1. ASSUME NEW t \in Thread, NEW r \in Request, Spawn(t, r) PROVE TypeOK'
  BY HostsAssumption, PointsNat, <1>1 DEF Spawn
<1>2. ASSUME NEW t \in Thread, Test(t) PROVE TypeOK'
  BY HostsAssumption, <1>2 DEF Test
<1>3. ASSUME NEW t \in Thread, Load(t) PROVE TypeOK'
  BY HostsAssumption, <1>3 DEF Load
<1>4. ASSUME NEW t \in Thread, Store(t) PROVE TypeOK'
  BY HostsAssumption, PointsNat, <1>4 DEF Store
<1>5. ASSUME NEW t \in Thread, Compare(t) PROVE TypeOK'
  BY HostsAssumption, <1>5 DEF Compare
<1>6. ASSUME NEW t \in Thread, Find(t) PROVE TypeOK'
  BY HostsAssumption, <1>6 DEF Find, Entry
<1>7. ASSUME NEW t \in Thread, Subscript(t) PROVE TypeOK'
  BY HostsAssumption, <1>7 DEF Subscript
<1>8. ASSUME NEW t \in Thread, Route(t) PROVE TypeOK'
  BY HostsAssumption, <1>8 DEF Route
<1>9. ASSUME NEW t \in Thread, Name(t) PROVE TypeOK'
  BY HostsAssumption, <1>9 DEF Name
<1>10. ASSUME NEW t \in Thread, Count(t) PROVE TypeOK'
  BY HostsAssumption, <1>10 DEF Count
<1>11. ASSUME NEW t \in Thread, Put(t) PROVE TypeOK'
  BY HostsAssumption, <1>11 DEF Put
<1>12. ASSUME NEW t \in Thread, Erase(t) PROVE TypeOK'
  BY HostsAssumption, <1>12 DEF Erase
<1>13. ASSUME NEW t \in Thread, Copy(t) PROVE TypeOK'
  BY HostsAssumption, <1>13 DEF Copy
<1>14. ASSUME NEW t \in Thread, Drop(t) PROVE TypeOK'
  BY HostsAssumption, <1>14 DEF Drop
<1>15. ASSUME NEW t \in Thread, Scanned(t) PROVE TypeOK'
  BY HostsAssumption, <1>15 DEF Scanned, HandsOver
<1>16. ASSUME NEW t \in Thread, SetStart(t) PROVE TypeOK'
  <2>1. req[t].hash \in Ids
    BY <1>16 DEF SetStart
  <2>2. localStart' \in Ids
    BY <2>1, <1>16, AddRange, PointsNat DEF SetStart
  <2>3. localStart' \in Int /\ localStart' < TotalHashPoints /\ lastStart' \in Ids
    BY <2>1, <2>2, PointsNat, <1>16 DEF SetStart, Ids
  <2> QED BY <2>3, <1>16 DEF SetStart
<1>17. ASSUME NEW t \in Thread, Near(t) PROVE TypeOK'
  <2>1. at[t] \in FingerIndex /\ req[t].hash \in New
    BY <1>17 DEF Near
  <2>2. at' \in [Thread -> FingerIndex \cup Key] /\ pc' \in [Thread -> Label]
    BY <2>1, NextIndex, <1>17 DEF Near, NextEntry
  <2>3. fingerTable' \in [FingerIndex -> [host : Owner \cup New \cup {Mixed}, hash : Host]]
    BY <2>1, <1>17 DEF Near
  <2> QED BY <2>2, <2>3, <1>17 DEF Near
<1>18. ASSUME NEW t \in Thread, SetHost(t) PROVE TypeOK'
  BY HostsAssumption, <1>18 DEF SetHost
<1>19. ASSUME NEW t \in Thread, SetHash(t) PROVE TypeOK'
  <2>1. at[t] \in FingerIndex /\ req[t].hash \in New
    BY <1>19 DEF SetHash
  <2>2. at' \in [Thread -> FingerIndex \cup Key] /\ pc' \in [Thread -> Label]
    BY <2>1, NextIndex, <1>19 DEF SetHash, NextEntry
  <2>3. fingerTable' \in [FingerIndex -> [host : Owner \cup New \cup {Mixed}, hash : Host]]
    BY <2>1, <1>19 DEF SetHash
  <2> QED BY <2>2, <2>3, <1>19 DEF SetHash
<1>20. CASE RaceEnds
  BY HostsAssumption, <1>20 DEF RaceEnds
<1>21. CASE UNCHANGED vars
  BY HostsAssumption, <1>21 DEF vars
<1>22. QED BY <1>1, <1>2, <1>3, <1>4, <1>5, <1>6, <1>7, <1>8, <1>9, <1>10, <1>11,
            <1>12, <1>13, <1>14, <1>15, <1>16, <1>17, <1>18, <1>19, <1>20, <1>21
         DEF Next, LookupStep, IndexStep, HelpStep, UpdateStep

\* ... and so are the places.
LEMMA PlacesStep ==
    ASSUME TypeOK, Places, [Next]_vars
    PROVE  Places'
<1> USE DEF At, Goto, shared, threadVars, history,
            TypeOK, Places, Label, Request, NoRequest, Host, Owner, First
<1>1. ASSUME NEW t \in Thread, NEW r \in Request, Spawn(t, r) PROVE Places'
  <2>1. at'[t] = 0 /\ 0 \in FingerIndex
    BY <1>1, RingBits DEF Spawn, FingerIndex
  <2>2. /\ \A u \in Thread \ {t} : pc'[u] = pc[u] /\ req'[u] = req[u]
        /\ pc'[t] \notin {"new", "drop"} /\ at' = at /\ loaded' = loaded
    BY <1>1, Spawned DEF Spawn
  <2> QED BY <2>1, <2>2, <1>1, Spawned
<1>2. ASSUME NEW t \in Thread, Test(t) PROVE Places'
  BY HostsAssumption, <1>2 DEF Test
<1>3. ASSUME NEW t \in Thread, Load(t) PROVE Places'
  BY HostsAssumption, <1>3 DEF Load
<1>4. ASSUME NEW t \in Thread, Store(t) PROVE Places'
  BY HostsAssumption, <1>4 DEF Store
<1>5. ASSUME NEW t \in Thread, Compare(t) PROVE Places'
  BY HostsAssumption, <1>5 DEF Compare
<1>6. ASSUME NEW t \in Thread, Find(t) PROVE Places'
  BY HostsAssumption, <1>6 DEF Find
<1>7. ASSUME NEW t \in Thread, Subscript(t) PROVE Places'
  BY HostsAssumption, <1>7 DEF Subscript
<1>8. ASSUME NEW t \in Thread, Route(t) PROVE Places'
  BY HostsAssumption, <1>8 DEF Route
<1>9. ASSUME NEW t \in Thread, Name(t) PROVE Places'
  BY HostsAssumption, <1>9 DEF Name
<1>10. ASSUME NEW t \in Thread, Count(t) PROVE Places'
  BY HostsAssumption, <1>10 DEF Count
<1>11. ASSUME NEW t \in Thread, Put(t) PROVE Places'
  BY HostsAssumption, <1>11 DEF Put
<1>12. ASSUME NEW t \in Thread, Erase(t) PROVE Places'
  BY HostsAssumption, <1>12 DEF Erase
<1>13. ASSUME NEW t \in Thread, Copy(t) PROVE Places'
  BY HostsAssumption, <1>13 DEF Copy
<1>14. ASSUME NEW t \in Thread, Drop(t) PROVE Places'
  BY HostsAssumption, <1>14 DEF Drop
<1>15. ASSUME NEW t \in Thread, Scanned(t) PROVE Places'
  BY HostsAssumption, <1>15 DEF Scanned
<1>16. ASSUME NEW t \in Thread, SetStart(t) PROVE Places'
  BY HostsAssumption, <1>16 DEF SetStart
<1>17. ASSUME NEW t \in Thread, Near(t) PROVE Places'
  <2>1. at[t] \in FingerIndex /\ req[t].op = "update"
    BY <1>17 DEF Near
  <2>2. at'[t] \in FingerIndex /\ pc'[t] # "new" /\ pc'[t] # "drop"
    BY <2>1, NextIndex, <1>17 DEF Near, NextEntry
  <2>3. \A u \in Thread \ {t} : at'[u] = at[u] /\ pc'[u] = pc[u]
    BY <2>1, <1>17 DEF Near, NextEntry
  <2> QED BY <2>1, <2>2, <2>3, <1>17 DEF Near
<1>18. ASSUME NEW t \in Thread, SetHost(t) PROVE Places'
  BY HostsAssumption, <1>18 DEF SetHost
<1>19. ASSUME NEW t \in Thread, SetHash(t) PROVE Places'
  <2>1. at[t] \in FingerIndex /\ req[t].op = "update"
    BY <1>19 DEF SetHash
  <2>2. at'[t] \in FingerIndex /\ pc'[t] # "new" /\ pc'[t] # "drop"
    BY <2>1, NextIndex, <1>19 DEF SetHash, NextEntry
  <2>3. \A u \in Thread \ {t} : at'[u] = at[u] /\ pc'[u] = pc[u]
    BY <2>1, <1>19 DEF SetHash, NextEntry
  <2> QED BY <2>1, <2>2, <2>3, <1>19 DEF SetHash
<1>20. CASE RaceEnds
  BY HostsAssumption, <1>20 DEF RaceEnds
<1>21. CASE UNCHANGED vars
  BY HostsAssumption, <1>21 DEF vars
<1>22. QED BY <1>1, <1>2, <1>3, <1>4, <1>5, <1>6, <1>7, <1>8, <1>9, <1>10, <1>11,
            <1>12, <1>13, <1>14, <1>15, <1>16, <1>17, <1>18, <1>19, <1>20, <1>21
         DEF Next, LookupStep, IndexStep, HelpStep, UpdateStep

\* Init gives every variable its type.
LEMMA TypeInit == Init => TypeOK /\ Places
<1> SUFFICES ASSUME Init PROVE TypeOK /\ Places
  OBVIOUS
<1> USE DEF Init, Host, Owner
<1>1. PICK p \in Owner : localStart = HashValueAdd(p, 1)
  OBVIOUS
<1>2. localStart \in Ids
  BY <1>1, HostsAssumption, AddRange, PointsNat
<1>3. localStart \in Int /\ localStart < TotalHashPoints /\ lastStart \in Ids
  BY <1>2, PointsNat DEF Ids
<1>4. 0 \in FingerIndex
  BY RingBits DEF FingerIndex
<1>5. fingerTable \in [FingerIndex -> [host : Owner \cup New \cup {Mixed}, hash : Host]]
  BY DEF Tables
<1>6. NoRequest.hash = Me /\ NoRequest.op = "none" /\ Me \in Ids
  BY HostsAssumption DEF NoRequest
<1>7. TypeOK
  <2>1. DHT \in [Key -> Owner \cup {Absent, Nameless}]
    OBVIOUS
  <2>2. fileTable \in [Key -> Owner \cup {Absent, Nameless}]
    OBVIOUS
  <2>3. /\ localFiles \in SUBSET Key /\ removed \in SUBSET Key
        /\ ended \in BOOLEAN /\ handed \in BOOLEAN /\ overlapped \in BOOLEAN
        /\ seen \in [Thread -> BOOLEAN]
    OBVIOUS
  <2>4. /\ req \in [Thread -> Request \cup {NoRequest}]
        /\ pc \in [Thread -> Label]
        /\ loaded \in [Thread -> Int]
        /\ at \in [Thread -> FingerIndex \cup Key]
    BY <1>4 DEF Label
  <2> QED BY <1>3, <1>5, <2>1, <2>2, <2>3, <2>4 DEF TypeOK
<1>8. Places
  BY <1>4, <1>6, PointsNat DEF Places
<1> QED BY <1>7, <1>8

\* Every variable holds a value of its type.
THEOREM ThreadsTypeCorrect == Spec => []TypeOK
<1>1. TypeOK /\ Places /\ [Next]_vars => (TypeOK /\ Places)'
  BY TypeStep, PlacesStep
<1> QED BY TypeInit, <1>1, PTL DEF Spec

-----------------------------------------------------------------------------
(* Entries without a host's name.                                          *)

\* A thread that goes on to use an entry has found it, unless it has been
\* removed since.
Ghosts ==
    /\ GhostNeedsRemoval
    /\ \A t \in Thread : pc[t] \in {"first", "second"} =>
          /\ req[t].hash \in Key
          /\ DHT[req[t].hash] # Absent \/ req[t].hash \in removed

\* What is found stays, or its removal is on record.
LEMMA GhostsStep ==
    ASSUME TypeOK, Places, Ghosts, [Next]_vars
    PROVE  Ghosts'
<1> USE DEF At, Goto, shared, threadVars, history,
            TypeOK, Places, Ghosts, GhostNeedsRemoval, Using
<1>1. ASSUME NEW t \in Thread, NEW r \in Request, Spawn(t, r) PROVE Ghosts'
  BY MarksAssumption, <1>1 DEF Spawn, First, Request
<1>2. ASSUME NEW t \in Thread, Test(t) PROVE Ghosts'
  BY MarksAssumption, <1>2 DEF Test
<1>3. ASSUME NEW t \in Thread, Load(t) PROVE Ghosts'
  BY MarksAssumption, <1>3 DEF Load
<1>4. ASSUME NEW t \in Thread, Store(t) PROVE Ghosts'
  BY MarksAssumption, <1>4 DEF Store
<1>5. ASSUME NEW t \in Thread, Compare(t) PROVE Ghosts'
  BY MarksAssumption, <1>5 DEF Compare
<1>6. ASSUME NEW t \in Thread, Find(t) PROVE Ghosts'
  BY MarksAssumption, <1>6 DEF Find, Entry
<1>7. ASSUME NEW t \in Thread, Subscript(t) PROVE Ghosts'
  BY MarksAssumption, <1>7 DEF Subscript
<1>8. ASSUME NEW t \in Thread, Route(t) PROVE Ghosts'
  BY MarksAssumption, <1>8 DEF Route
<1>9. ASSUME NEW t \in Thread, Name(t) PROVE Ghosts'
  BY MarksAssumption, <1>9 DEF Name
<1>10. ASSUME NEW t \in Thread, Count(t) PROVE Ghosts'
  BY MarksAssumption, <1>10 DEF Count
<1>11. ASSUME NEW t \in Thread, Put(t) PROVE Ghosts'
  BY MarksAssumption, HostsAssumption, <1>11 DEF Put, Host, Owner
<1>12. ASSUME NEW t \in Thread, Erase(t) PROVE Ghosts'
  BY MarksAssumption, <1>12 DEF Erase
<1>13. ASSUME NEW t \in Thread, Copy(t) PROVE Ghosts'
  BY MarksAssumption, <1>13 DEF Copy
<1>14. ASSUME NEW t \in Thread, Drop(t) PROVE Ghosts'
  BY MarksAssumption, <1>14 DEF Drop
<1>15. ASSUME NEW t \in Thread, Scanned(t) PROVE Ghosts'
  BY MarksAssumption, <1>15 DEF Scanned
<1>16. ASSUME NEW t \in Thread, SetStart(t) PROVE Ghosts'
  BY MarksAssumption, <1>16 DEF SetStart
<1>17. ASSUME NEW t \in Thread, Near(t) PROVE Ghosts'
  BY MarksAssumption, <1>17 DEF Near, NextEntry
<1>18. ASSUME NEW t \in Thread, SetHost(t) PROVE Ghosts'
  BY MarksAssumption, <1>18 DEF SetHost
<1>19. ASSUME NEW t \in Thread, SetHash(t) PROVE Ghosts'
  BY MarksAssumption, <1>19 DEF SetHash, NextEntry
<1>20. CASE RaceEnds
  BY MarksAssumption, <1>20 DEF RaceEnds
<1>21. CASE UNCHANGED vars
  BY MarksAssumption, <1>21 DEF vars
<1>22. QED BY <1>1, <1>2, <1>3, <1>4, <1>5, <1>6, <1>7, <1>8, <1>9, <1>10, <1>11,
            <1>12, <1>13, <1>14, <1>15, <1>16, <1>17, <1>18, <1>19, <1>20, <1>21
         DEF Next, LookupStep, IndexStep, HelpStep, UpdateStep

\* An entry without a name is a key that was removed while it was used.
THEOREM NoGhostOfItself == Spec => []GhostNeedsRemoval
<1>1. Init => Ghosts
  BY HostsAssumption, MarksAssumption DEF Init, Ghosts, GhostNeedsRemoval, Owner, Host
<1>2. TypeOK /\ Places /\ Ghosts /\ [Next]_vars => Ghosts'
  BY GhostsStep
<1>3. TypeOK /\ Places /\ [Next]_vars => (TypeOK /\ Places)'
  BY TypeStep, PlacesStep
<1>4. Ghosts => GhostNeedsRemoval
  BY DEF Ghosts
<1> QED BY <1>1, <1>2, <1>3, <1>4, TypeInit, PTL DEF Spec

-----------------------------------------------------------------------------
(* The finger table.                                                       *)

\* A thread that writes an entry has found the new host beyond its point.
Fingers ==
    /\ TornFingersReach
    /\ \A t \in Thread : req[t].op = "update" /\ pc[t] \in {"host", "hash"} =>
          Reaches(at[t], req[t].hash)

\* Whoever writes half of an entry last, the half reaches its point.
LEMMA FingersStep ==
    ASSUME TypeOK, Places, Fingers, [Next]_vars
    PROVE  Fingers'
<1> USE DEF At, Goto, shared, threadVars, history,
            TypeOK, Places, Fingers, TornFingersReach
<1>1. ASSUME NEW t \in Thread, NEW r \in Request, Spawn(t, r) PROVE Fingers'
  BY <1>1 DEF Spawn, First, Request
<1>2. ASSUME NEW t \in Thread, Test(t) PROVE Fingers'
  BY <1>2 DEF Test
<1>3. ASSUME NEW t \in Thread, Load(t) PROVE Fingers'
  BY <1>3 DEF Load
<1>4. ASSUME NEW t \in Thread, Store(t) PROVE Fingers'
  BY <1>4 DEF Store
<1>5. ASSUME NEW t \in Thread, Compare(t) PROVE Fingers'
  BY <1>5 DEF Compare
<1>6. ASSUME NEW t \in Thread, Find(t) PROVE Fingers'
  BY <1>6 DEF Find
<1>7. ASSUME NEW t \in Thread, Subscript(t) PROVE Fingers'
  BY <1>7 DEF Subscript
<1>8. ASSUME NEW t \in Thread, Route(t) PROVE Fingers'
  BY <1>8 DEF Route
<1>9. ASSUME NEW t \in Thread, Name(t) PROVE Fingers'
  BY <1>9 DEF Name
<1>10. ASSUME NEW t \in Thread, Count(t) PROVE Fingers'
  BY <1>10 DEF Count
<1>11. ASSUME NEW t \in Thread, Put(t) PROVE Fingers'
  BY <1>11 DEF Put
<1>12. ASSUME NEW t \in Thread, Erase(t) PROVE Fingers'
  BY <1>12 DEF Erase
<1>13. ASSUME NEW t \in Thread, Copy(t) PROVE Fingers'
  BY <1>13 DEF Copy
<1>14. ASSUME NEW t \in Thread, Drop(t) PROVE Fingers'
  BY <1>14 DEF Drop
<1>15. ASSUME NEW t \in Thread, Scanned(t) PROVE Fingers'
  BY <1>15 DEF Scanned
<1>16. ASSUME NEW t \in Thread, SetStart(t) PROVE Fingers'
  BY <1>16 DEF SetStart
<1>17. ASSUME NEW t \in Thread, Near(t) PROVE Fingers'
  <2>1. at[t] \in FingerIndex /\ req[t].op = "update"
    BY <1>17 DEF Near
  <2>2. /\ pc'[t] = "host" => Reaches(at[t], req[t].hash) /\ at'[t] = at[t]
        /\ pc'[t] # "hash"
    BY <1>17, <2>1 DEF Near, NextEntry, Nearer, Reaches
  <2>3. \A u \in Thread \ {t} : at'[u] = at[u] /\ pc'[u] = pc[u]
    BY <1>17 DEF Near, NextEntry
  <2>4. TornFingersReach'
    BY <1>17, <2>1 DEF Near
  <2> QED BY <2>1, <2>2, <2>3, <2>4, <1>17 DEF Near
<1>18. ASSUME NEW t \in Thread, SetHost(t) PROVE Fingers'
  BY <1>18 DEF SetHost
<1>19. ASSUME NEW t \in Thread, SetHash(t) PROVE Fingers'
  <2>1. at[t] \in FingerIndex /\ req[t].op = "update"
    BY <1>19 DEF SetHash
  <2>2. /\ pc'[t] = "host" => Reaches(at[t], req[t].hash) /\ at'[t] = at[t]
        /\ pc'[t] # "hash"
    BY <1>19, <2>1 DEF SetHash, NextEntry, Nearer, Reaches
  <2>3. \A u \in Thread \ {t} : at'[u] = at[u] /\ pc'[u] = pc[u]
    BY <1>19 DEF SetHash, NextEntry
  <2>4. TornFingersReach'
    BY <1>19, <2>1 DEF SetHash
  <2> QED BY <2>1, <2>2, <2>3, <2>4, <1>19 DEF SetHash
<1>20. CASE RaceEnds
  BY <1>20 DEF RaceEnds
<1>21. CASE UNCHANGED vars
  BY <1>21 DEF vars
<1>22. QED BY <1>1, <1>2, <1>3, <1>4, <1>5, <1>6, <1>7, <1>8, <1>9, <1>10, <1>11,
            <1>12, <1>13, <1>14, <1>15, <1>16, <1>17, <1>18, <1>19, <1>20, <1>21
         DEF Next, LookupStep, IndexStep, HelpStep, UpdateStep

\* Torn or not, no entry falls short of the point it stands for.
THEOREM FingersNeverShort == Spec => []TornFingersReach
<1>1. Init => Fingers
  BY DEF Init, Fingers, TornFingersReach, NoRequest
<1>2. TypeOK /\ Places /\ Fingers /\ [Next]_vars => Fingers'
  BY FingersStep
<1>3. TypeOK /\ Places /\ [Next]_vars => (TypeOK /\ Places)'
  BY TypeStep, PlacesStep
<1>4. Fingers => TornFingersReach
  BY DEF Fingers
<1> QED BY <1>1, <1>2, <1>3, <1>4, TypeInit, PTL DEF Spec

-----------------------------------------------------------------------------
(* local_start.                                                            *)

\* Where the host's range starts on the circle unrolled below my_hash.
Lowest == Unrolled(lastStart, Me)

\* The handover happens once, to a host of the range.
Handover ==
    /\ \A t, u \in Thread : req[t].op = "help" /\ req[u].op = "help" => t = u
    /\ \A t \in Thread : req[t].op = "help" /\ pc[t] # "done" =>
          ~handed /\ Responsible(lastStart, Me, req[t].hash)
    /\ handed => \E t \in Thread : req[t].op = "help"
    /\ \A t \in Thread : seen[t] => handed

\* local_start is what it was set to, or not above the start of the range; what
\* is stored next is not above it either.
NotAbove ==
    /\ localStart = lastStart \/ localStart <= Lowest
    /\ \A t \in Thread :
          /\ pc[t] = "store" => loaded[t] - TotalHashPoints <= Lowest
          /\ pc[t] = "compare" /\ seen[t] = handed => localStart <= Lowest

\* Without overlap one thread at most subtracts, once, from what was set.
Exact ==
    ~overlapped =>
        /\ localStart \in {lastStart, Lowest}
        /\ \A t \in Thread : Subtracting(t) =>
              /\ localStart = lastStart /\ localStart > Me
              /\ pc[t] = "store" => loaded[t] = lastStart
              /\ \A u \in Thread : Subtracting(u) => t = u

\* The range on the unrolled circle.
LEMMA LowestRange ==
    ASSUME TypeOK
    PROVE  /\ Lowest \in Int /\ Lowest <= Me /\ Lowest <= lastStart
           /\ lastStart \in Int /\ Me \in Int /\ localStart \in Int
           /\ lastStart - TotalHashPoints <= Lowest
           /\ lastStart > Me => Lowest = lastStart - TotalHashPoints
           /\ lastStart <= Me => Lowest = lastStart
BY HostsAssumption, PointsNat DEF Lowest, Unrolled, TypeOK, Ids, Host

\* A handover moves the start of the range up.
LEMMA StartMovesUp ==
    ASSUME NEW s \in Ids, NEW me \in Ids, NEW h \in Ids, h # me,
           Responsible(s, me, h)
    PROVE  Unrolled(s, me) <= Unrolled(HashValueAdd(h, 1), me)
BY PointsNat DEF Responsible, Unrolled, HashValueAdd, Ids

\* The host is helped once.
LEMMA HandoverStep ==
    ASSUME TypeOK, Places, Handover, [Next]_vars
    PROVE  Handover'
<1> USE DEF At, Goto, shared, threadVars, history,
            TypeOK, Places, Handover
<1>1. ASSUME NEW t \in Thread, NEW r \in Request, Spawn(t, r) PROVE Handover'
  <2>1. \A u \in Thread : u # t => pc'[u] = pc[u] /\ req'[u] = req[u]
    BY <1>1, Spawned
  <2>2. req'[t] = r /\ handed' = handed /\ lastStart' = lastStart
    BY <1>1, Spawned DEF Spawn
  <2>3. r.op = "help" => /\ Responsible(lastStart, Me, r.hash)
                         /\ \A u \in Thread : req[u].op # "help"
    BY <1>1 DEF Spawn
  <2>4. \A u \in Thread : seen'[u] => handed'
    BY <1>1 DEF Spawn
  <2>5. r.op = "help" => ~handed
    BY <2>3
  <2>6. \A u, v \in Thread : req'[u].op = "help" /\ req'[v].op = "help" => u = v
    BY <2>1, <2>2, <2>3
  <2>7. \A u \in Thread : req'[u].op = "help" /\ pc'[u] # "done" =>
           ~handed' /\ Responsible(lastStart', Me, req'[u].hash)
    BY <2>1, <2>2, <2>3, <2>5
  <2>8. ASSUME handed' PROVE \E u \in Thread : req'[u].op = "help"
    <3>1. PICK u \in Thread : req[u].op = "help"
      BY <2>2, <2>8
    <3> QED BY <3>1, <2>1, <2>2, <2>3, <2>5, <2>8, <1>1 DEF Spawn
  <2> QED BY <2>4, <2>6, <2>7, <2>8
<1>2. ASSUME NEW t \in Thread, Test(t) PROVE Handover'
  BY <1>2 DEF Test
<1>3. ASSUME NEW t \in Thread, Load(t) PROVE Handover'
  BY <1>3 DEF Load
<1>4. ASSUME NEW t \in Thread, Store(t) PROVE Handover'
  BY <1>4 DEF Store
<1>5. ASSUME NEW t \in Thread, Compare(t) PROVE Handover'
  BY <1>5 DEF Compare
<1>6. ASSUME NEW t \in Thread, Find(t) PROVE Handover'
  BY <1>6 DEF Find
<1>7. ASSUME NEW t \in Thread, Subscript(t) PROVE Handover'
  BY <1>7 DEF Subscript
<1>8. ASSUME NEW t \in Thread, Route(t) PROVE Handover'
  BY <1>8 DEF Route
<1>9. ASSUME NEW t \in Thread, Name(t) PROVE Handover'
  BY <1>9 DEF Name
<1>10. ASSUME NEW t \in Thread, Count(t) PROVE Handover'
  BY <1>10 DEF Count
<1>11. ASSUME NEW t \in Thread, Put(t) PROVE Handover'
  BY <1>11 DEF Put
<1>12. ASSUME NEW t \in Thread, Erase(t) PROVE Handover'
  BY <1>12 DEF Erase
<1>13. ASSUME NEW t \in Thread, Copy(t) PROVE Handover'
  BY <1>13 DEF Copy
<1>14. ASSUME NEW t \in Thread, Drop(t) PROVE Handover'
  BY <1>14 DEF Drop
<1>15. ASSUME NEW t \in Thread, Scanned(t) PROVE Handover'
  BY <1>15 DEF Scanned
<1>16. ASSUME NEW t \in Thread, SetStart(t) PROVE Handover'
  BY <1>16 DEF SetStart
<1>17. ASSUME NEW t \in Thread, Near(t) PROVE Handover'
  BY <1>17 DEF Near, NextEntry
<1>18. ASSUME NEW t \in Thread, SetHost(t) PROVE Handover'
  BY <1>18 DEF SetHost
<1>19. ASSUME NEW t \in Thread, SetHash(t) PROVE Handover'
  BY <1>19 DEF SetHash, NextEntry
<1>20. CASE RaceEnds
  BY <1>20 DEF RaceEnds
<1>21. CASE UNCHANGED vars
  BY <1>21 DEF vars
<1>22. QED BY <1>1, <1>2, <1>3, <1>4, <1>5, <1>6, <1>7, <1>8, <1>9, <1>10, <1>11,
            <1>12, <1>13, <1>14, <1>15, <1>16, <1>17, <1>18, <1>19, <1>20, <1>21
         DEF Next, LookupStep, IndexStep, HelpStep, UpdateStep

\* local_start only moves down, until a handover moves the range up.
LEMMA NotAboveStep ==
    ASSUME TypeOK, Places, Handover, NotAbove, [Next]_vars
    PROVE  NotAbove'
<1> USE DEF At, Goto, shared, threadVars, history,
            TypeOK, Places, Handover, NotAbove
<1>0. /\ Lowest \in Int /\ Lowest <= Me /\ Lowest <= lastStart
      /\ lastStart \in Int /\ Me \in Int /\ localStart \in Int
      /\ lastStart - TotalHashPoints <= Lowest /\ TotalHashPoints \in Nat
      /\ lastStart > Me => Lowest = lastStart - TotalHashPoints
      /\ lastStart <= Me => Lowest = lastStart
  BY LowestRange, PointsNat
<1>00. lastStart' = lastStart => Lowest' = Lowest
  BY DEF Lowest
<1>1. ASSUME NEW t \in Thread, NEW r \in Request, Spawn(t, r) PROVE NotAbove'
  BY <1>0, <1>00, <1>1 DEF Spawn, First, Request
<1>2. ASSUME NEW t \in Thread, Test(t) PROVE NotAbove'
  BY <1>0, <1>00, <1>2 DEF Test
<1>3. ASSUME NEW t \in Thread, Load(t) PROVE NotAbove'
  BY <1>0, <1>00, <1>3 DEF Load
<1>4. ASSUME NEW t \in Thread, Store(t) PROVE NotAbove'
  <2>1. localStart' <= Lowest
    BY <1>0, <1>00, <1>4 DEF Store
  <2> QED BY <2>1, <1>0, <1>00, <1>4 DEF Store
<1>5. ASSUME NEW t \in Thread, Compare(t) PROVE NotAbove'
  BY <1>0, <1>00, <1>5 DEF Compare
<1>6. ASSUME NEW t \in Thread, Find(t) PROVE NotAbove'
  BY <1>0, <1>00, <1>6 DEF Find
<1>7. ASSUME NEW t \in Thread, Subscript(t) PROVE NotAbove'
  BY <1>0, <1>00, <1>7 DEF Subscript
<1>8. ASSUME NEW t \in Thread, Route(t) PROVE NotAbove'
  BY <1>0, <1>00, <1>8 DEF Route
<1>9. ASSUME NEW t \in Thread, Name(t) PROVE NotAbove'
  BY <1>0, <1>00, <1>9 DEF Name
<1>10. ASSUME NEW t \in Thread, Count(t) PROVE NotAbove'
  BY <1>0, <1>00, <1>10 DEF Count
<1>11. ASSUME NEW t \in Thread, Put(t) PROVE NotAbove'
  BY <1>0, <1>00, <1>11 DEF Put
<1>12. ASSUME NEW t \in Thread, Erase(t) PROVE NotAbove'
  BY <1>0, <1>00, <1>12 DEF Erase
<1>13. ASSUME NEW t \in Thread, Copy(t) PROVE NotAbove'
  BY <1>0, <1>00, <1>13 DEF Copy
<1>14. ASSUME NEW t \in Thread, Drop(t) PROVE NotAbove'
  BY <1>0, <1>00, <1>14 DEF Drop
<1>15. ASSUME NEW t \in Thread, Scanned(t) PROVE NotAbove'
  BY <1>0, <1>00, <1>15 DEF Scanned
<1>16. ASSUME NEW t \in Thread, SetStart(t) PROVE NotAbove'
  <2>1. Me \in Ids /\ req[t].hash \in Ids /\ req[t].hash # Me /\ lastStart \in Ids
    BY <1>16, HostsAssumption DEF SetStart, Host
  <2>2. Responsible(lastStart, Me, req[t].hash) /\ ~handed /\ handed'
    BY <1>16 DEF SetStart
  <2>3. Lowest <= Unrolled(lastStart', Me)
    BY <2>1, <2>2, <1>16, StartMovesUp DEF SetStart, Lowest
  <2>4. HashValueAdd(req[t].hash, 1) \in Ids
    BY <2>1, AddRange, PointsNat
  <2>5. Lowest' \in Int /\ Lowest <= Lowest'
    BY <2>1, <2>3, <2>4, <1>16, PointsNat DEF SetStart, Lowest, Unrolled, Ids
  <2>6. localStart' = lastStart'
    BY <1>16 DEF SetStart
  <2>7. ASSUME NEW u \in Thread, pc'[u] = "store"
        PROVE  loaded'[u] - TotalHashPoints <= Lowest'
    <3>1. pc[u] = "store" /\ loaded'[u] = loaded[u] /\ loaded[u] \in Int
      BY <2>7, <1>16 DEF SetStart
    <3> QED BY <3>1, <2>5, PointsNat, <1>0
  <2>8. ASSUME NEW u \in Thread, pc'[u] = "compare", seen'[u] = handed'
        PROVE  FALSE
    BY <2>8, <2>2, <1>16 DEF SetStart
  <2> QED BY <2>6, <2>7, <2>8
<1>17. ASSUME NEW t \in Thread, Near(t) PROVE NotAbove'
  BY <1>0, <1>00, <1>17 DEF Near, NextEntry
<1>18. ASSUME NEW t \in Thread, SetHost(t) PROVE NotAbove'
  BY <1>0, <1>00, <1>18 DEF SetHost
<1>19. ASSUME NEW t \in Thread, SetHash(t) PROVE NotAbove'
  BY <1>0, <1>00, <1>19 DEF SetHash, NextEntry
<1>20. CASE RaceEnds
  BY <1>0, <1>00, <1>20 DEF RaceEnds
<1>21. CASE UNCHANGED vars
  BY <1>0, <1>00, <1>21 DEF vars
<1>22. QED BY <1>1, <1>2, <1>3, <1>4, <1>5, <1>6, <1>7, <1>8, <1>9, <1>10, <1>11,
            <1>12, <1>13, <1>14, <1>15, <1>16, <1>17, <1>18, <1>19, <1>20, <1>21
         DEF Next, LookupStep, IndexStep, HelpStep, UpdateStep

\* One subtraction brings local_start to the start of the range.
LEMMA ExactStep ==
    ASSUME TypeOK, Places, Handover, Exact, [Next]_vars
    PROVE  Exact'
<1> USE DEF At, Goto, shared, threadVars, history,
            TypeOK, Places, Handover, Exact, Subtracting
<1>0. /\ Lowest \in Int /\ Lowest <= Me /\ Lowest <= lastStart
      /\ lastStart \in Int /\ Me \in Int /\ localStart \in Int /\ TotalHashPoints \in Nat
      /\ lastStart > Me => Lowest = lastStart - TotalHashPoints
      /\ lastStart <= Me => Lowest = lastStart
  BY LowestRange, PointsNat
<1>00. lastStart' = lastStart => Lowest' = Lowest
  BY DEF Lowest
<1>1. ASSUME NEW t \in Thread, NEW r \in Request, Spawn(t, r) PROVE Exact'
  <2>1. pc'[t] \notin {"load", "store"}
    BY <1>1, Spawned
  <2>2. \A u \in Thread \ {t} : pc'[u] = pc[u]
    BY <1>1, Spawned
  <2>3. /\ localStart' = localStart /\ lastStart' = lastStart
        /\ loaded' = loaded /\ overlapped' = overlapped /\ Lowest' = Lowest
    BY <1>00, <1>1 DEF Spawn
  <2>4. \A u \in Thread : pc'[u] \in {"load", "store"} => pc'[u] = pc[u]
    BY <2>1, <2>2
  <2>5. \A u \in Thread : ~overlapped /\ pc'[u] \in {"load", "store"} =>
           /\ localStart' = lastStart' /\ localStart' > Me
           /\ pc'[u] = "store" => loaded'[u] = lastStart'
    BY <2>3, <2>4
  <2>6. \A u, v \in Thread : ~overlapped /\ pc'[u] \in {"load", "store"}
                                         /\ pc'[v] \in {"load", "store"} => u = v
    BY <2>4
  <2>7. ~overlapped => localStart' \in {lastStart', Lowest'}
    BY <2>3
  <2> QED BY <2>3, <2>5, <2>6, <2>7
<1>2. ASSUME NEW t \in Thread, Test(t) PROVE Exact'
  <2>1. /\ localStart' = localStart /\ lastStart' = lastStart
        /\ loaded' = loaded /\ Lowest' = Lowest /\ pc[t] = "test"
        /\ \A u \in Thread \ {t} : pc'[u] = pc[u]
        /\ pc'[t] = IF localStart > Me THEN "load" ELSE "compare"
    BY <1>00, <1>2 DEF Test
  <2>2. ~overlapped' => /\ ~overlapped
                        /\ localStart > Me => ~OthersSubtract(t)
    BY <1>2 DEF Test
  <2>3. CASE localStart > Me
    <3>1. ~overlapped => localStart = lastStart
      BY <2>3, <1>0
    <3>2. ~overlapped' => \A u \in Thread : pc'[u] \in {"load", "store"} => u = t
      BY <2>1, <2>2, <2>3 DEF OthersSubtract
    <3>3. pc'[t] = "load"
      BY <2>1, <2>3
    <3> QED BY <2>1, <2>2, <2>3, <3>1, <3>2, <3>3
  <2>4. CASE ~(localStart > Me)
    <3>1. \A u \in Thread : pc'[u] \in {"load", "store"} => pc'[u] = pc[u]
      BY <2>1, <2>4
    <3> QED BY <2>1, <2>2, <3>1
  <2> QED BY <2>3, <2>4
<1>3. ASSUME NEW t \in Thread, Load(t) PROVE Exact'
  BY <1>0, <1>00, <1>3 DEF Load
<1>4. ASSUME NEW t \in Thread, Store(t) PROVE Exact'
  BY <1>0, <1>00, <1>4 DEF Store
<1>5. ASSUME NEW t \in Thread, Compare(t) PROVE Exact'
  BY <1>0, <1>00, <1>5 DEF Compare
<1>6. ASSUME NEW t \in Thread, Find(t) PROVE Exact'
  BY <1>0, <1>00, <1>6 DEF Find
<1>7. ASSUME NEW t \in Thread, Subscript(t) PROVE Exact'
  BY <1>0, <1>00, <1>7 DEF Subscript
<1>8. ASSUME NEW t \in Thread, Route(t) PROVE Exact'
  BY <1>0, <1>00, <1>8 DEF Route
<1>9. ASSUME NEW t \in Thread, Name(t) PROVE Exact'
  BY <1>0, <1>00, <1>9 DEF Name
<1>10. ASSUME NEW t \in Thread, Count(t) PROVE Exact'
  BY <1>0, <1>00, <1>10 DEF Count
<1>11. ASSUME NEW t \in Thread, Put(t) PROVE Exact'
  BY <1>0, <1>00, <1>11 DEF Put
<1>12. ASSUME NEW t \in Thread, Erase(t) PROVE Exact'
  BY <1>0, <1>00, <1>12 DEF Erase
<1>13. ASSUME NEW t \in Thread, Copy(t) PROVE Exact'
  BY <1>0, <1>00, <1>13 DEF Copy
<1>14. ASSUME NEW t \in Thread, Drop(t) PROVE Exact'
  BY <1>0, <1>00, <1>14 DEF Drop
<1>15. ASSUME NEW t \in Thread, Scanned(t) PROVE Exact'
  BY <1>0, <1>00, <1>15 DEF Scanned
<1>16. ASSUME NEW t \in Thread, SetStart(t) PROVE Exact'
  BY <1>0, <1>00, <1>16 DEF SetStart, OthersSubtract
<1>17. ASSUME NEW t \in Thread, Near(t) PROVE Exact'
  BY <1>0, <1>00, <1>17 DEF Near, NextEntry
<1>18. ASSUME NEW t \in Thread, SetHost(t) PROVE Exact'
  BY <1>0, <1>00, <1>18 DEF SetHost
<1>19. ASSUME NEW t \in Thread, SetHash(t) PROVE Exact'
  BY <1>0, <1>00, <1>19 DEF SetHash, NextEntry
<1>20. CASE RaceEnds
  BY <1>0, <1>00, <1>20 DEF RaceEnds
<1>21. CASE UNCHANGED vars
  BY <1>0, <1>00, <1>21 DEF vars
<1>22. QED BY <1>1, <1>2, <1>3, <1>4, <1>5, <1>6, <1>7, <1>8, <1>9, <1>10, <1>11,
            <1>12, <1>13, <1>14, <1>15, <1>16, <1>17, <1>18, <1>19, <1>20, <1>21
         DEF Next, LookupStep, IndexStep, HelpStep, UpdateStep

\* local_start starts as what it is set to.
LEMMA StartInit == Init => Handover /\ NotAbove /\ Exact
BY DEF Init, Handover, NotAbove, Exact, Subtracting, NoRequest

StartInv == TypeOK /\ Places /\ Handover /\ NotAbove /\ Exact

LEMMA StartInvariant == Spec => []StartInv
<1>1. Init => StartInv
  BY TypeInit, StartInit DEF StartInv
<1>2. StartInv /\ [Next]_vars => StartInv'
  BY TypeStep, PlacesStep, HandoverStep, NotAboveStep, ExactStep DEF StartInv
<1> QED BY <1>1, <1>2, PTL DEF Spec

\* A step from the comparison to what follows it is the comparison.
LEMMA CompareMoves ==
    ASSUME TypeOK, NEW t \in Thread, [Next]_vars,
           pc[t] = "compare", pc'[t] \in {"find", "route"}
    PROVE  pc'[t] = (IF Claims(t) THEN "find" ELSE "route")
<1> SUFFICES ~Compare(t) => FALSE
  BY DEF Compare, Goto, TypeOK
<1> SUFFICES ASSUME ~Compare(t) PROVE FALSE
  OBVIOUS
<1> USE DEF At, Goto, TypeOK
<1>1. ASSUME NEW u \in Thread, NEW r \in Request, Spawn(u, r) PROVE FALSE
  BY <1>1 DEF Spawn, First, Request
<1>2. ASSUME NEW u \in Thread, Test(u) PROVE FALSE
  BY <1>2 DEF Test
<1>3. ASSUME NEW u \in Thread, Load(u) PROVE FALSE
  BY <1>3 DEF Load
<1>4. ASSUME NEW u \in Thread, Store(u) PROVE FALSE
  BY <1>4 DEF Store
<1>5. ASSUME NEW u \in Thread, Compare(u) PROVE FALSE
  BY <1>5 DEF Compare
<1>6. ASSUME NEW u \in Thread, Find(u) PROVE FALSE
  BY <1>6 DEF Find
<1>7. ASSUME NEW u \in Thread, Subscript(u) PROVE FALSE
  BY <1>7 DEF Subscript
<1>8. ASSUME NEW u \in Thread, Route(u) PROVE FALSE
  BY <1>8 DEF Route
<1>9. ASSUME NEW u \in Thread, Name(u) PROVE FALSE
  BY <1>9 DEF Name
<1>10. ASSUME NEW u \in Thread, Count(u) PROVE FALSE
  BY <1>10 DEF Count
<1>11. ASSUME NEW u \in Thread, Put(u) PROVE FALSE
  BY <1>11 DEF Put
<1>12. ASSUME NEW u \in Thread, Erase(u) PROVE FALSE
  BY <1>12 DEF Erase
<1>13. ASSUME NEW u \in Thread, Copy(u) PROVE FALSE
  BY <1>13 DEF Copy
<1>14. ASSUME NEW u \in Thread, Drop(u) PROVE FALSE
  BY <1>14 DEF Drop
<1>15. ASSUME NEW u \in Thread, Scanned(u) PROVE FALSE
  BY <1>15 DEF Scanned
<1>16. ASSUME NEW u \in Thread, SetStart(u) PROVE FALSE
  BY <1>16 DEF SetStart
<1>17. ASSUME NEW u \in Thread, Near(u) PROVE FALSE
  BY <1>17 DEF Near, NextEntry
<1>18. ASSUME NEW u \in Thread, SetHost(u) PROVE FALSE
  BY <1>18 DEF SetHost
<1>19. ASSUME NEW u \in Thread, SetHash(u) PROVE FALSE
  BY <1>19 DEF SetHash, NextEntry
<1>20. CASE RaceEnds
  BY <1>20 DEF RaceEnds
<1>21. CASE UNCHANGED vars
  BY <1>21 DEF vars
<1>22. QED BY <1>1, <1>2, <1>3, <1>4, <1>5, <1>6, <1>7, <1>8, <1>9, <1>10, <1>11,
            <1>12, <1>13, <1>14, <1>15, <1>16, <1>17, <1>18, <1>19, <1>20, <1>21
         DEF Next, LookupStep, IndexStep, HelpStep, UpdateStep

\* is_responsible_to refuses no hash of this host, whatever the other threads
\* of the host do between its accesses to local_start.
THEOREM NoneRefused == Spec => RefusesNoneOfItsOwn
<1>1. ASSUME StartInv, [Next]_vars, NEW t \in Thread,
             pc[t] = "compare", pc'[t] = "route", seen[t] = handed,
             Responsible(lastStart, Me, req[t].hash)
      PROVE  FALSE
  <2>1. ~Claims(t)
    BY <1>1, CompareMoves DEF StartInv
  <2>2. localStart <= Lowest /\ localStart \in Int /\ Lowest \in Int
    BY <1>1, LowestRange DEF StartInv, NotAbove
  <2>3. Unrolled(req[t].hash, Me) \in Lowest .. Me
    BY <1>1 DEF Responsible, Lowest
  <2>4. Unrolled(req[t].hash, Me) >= localStart
    BY <2>2, <2>3
  <2> QED BY <2>1, <2>4 DEF Claims
<1>2. StartInv /\ [Next]_vars =>
        [\A t \in Thread :
            pc[t] = "compare" /\ pc'[t] = "route" /\ seen[t] = handed =>
                ~Responsible(lastStart, Me, req[t].hash)]_vars
  BY <1>1
<1> QED BY <1>2, StartInvariant, PTL DEF Spec, RefusesNoneOfItsOwn

\* ... and claims none of others', as long as subtractions do not overlap.
THEOREM NoneClaimed == Spec => ClaimsNoneOfOthers
<1>1. ASSUME StartInv, [Next]_vars, NEW t \in Thread,
             pc[t] = "compare", pc'[t] = "find", seen[t] = handed, ~overlapped
      PROVE  Responsible(lastStart, Me, req[t].hash)
  <2>1. Claims(t)
    BY <1>1, CompareMoves DEF StartInv
  <2>2. localStart \in Int /\ Lowest \in Int /\ Lowest <= localStart
    BY <1>1, LowestRange DEF StartInv, Exact
  <2>3. req[t].hash \in Ids /\ Me \in Ids
    BY <1>1, HostsAssumption DEF StartInv, Places, Host
  <2>4. /\ Unrolled(req[t].hash, Me) \in Int
        /\ Unrolled(req[t].hash, Me) <= Me
    BY <2>3, PointsNat DEF Unrolled, Ids
  <2>5. Unrolled(req[t].hash, Me) >= localStart
    BY <2>1 DEF Claims
  <2>6. Unrolled(req[t].hash, Me) \in Lowest .. Me
    BY <2>2, <2>3, <2>4, <2>5 DEF Ids
  <2> QED BY <2>6 DEF Responsible, Lowest
<1>2. StartInv /\ [Next]_vars =>
        [\A t \in Thread :
            pc[t] = "compare" /\ pc'[t] = "find" /\ seen[t] = handed /\ ~overlapped =>
                Responsible(lastStart, Me, req[t].hash)]_vars
  BY <1>1
<1> QED BY <1>2, StartInvariant, PTL DEF Spec, ClaimsNoneOfOthers
=============================================================================
