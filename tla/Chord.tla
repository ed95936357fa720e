-------------------------------- MODULE Chord --------------------------------
(***************************************************************************)
(* The whole program on a set of hosts: joins, lookups and the shared      *)
(* index, interleaved, and what can be said about them.                    *)
(***************************************************************************)
EXTENDS ChordJoin, ChordFiles

\* A thread inside lookup(), here or on the hosts its request visits.
LookupStep == \E t \in Thread : LookupCall(t) \/ LookupReqHandle(t)

\* What the operating system schedules: every thread of every live process.
ThreadStep == LookupStep \/ JoinStep \/ FileStep

Next == StartHost \/ UserStep \/ ThreadStep

Spec == Init /\ [][Next]_vars

\* A live thread that can go on does go on: the operating system schedules
\* every thread, a request sent to a live host is accepted, read and given a
\* thread of its own.  Starting hosts and entering commands is up to people.
FairSpec == Spec /\ WF_vars(ThreadStep)

-----------------------------------------------------------------------------
(***************************************************************************)
(* What a circle should look like, from the hosts that have joined.        *)
(***************************************************************************)

\* No process has ended: neither "Node exit" nor a crash.
Intact == \A n \in Node : phase[n] # "dead"

UpHashes == { myHash[x] : x \in Up }

\* The host a hash belongs to: the first one met clockwise.
Owner(h) == CHOOSE x \in Up : myHash[x] = SuccessorIn(UpHashes, h)

\* The hash of the host before n (its own when n is alone).
Predecessor(n) == PredecessorIn(UpHashes, myHash[n])

\* local_start, whichever representative is_responsible_to has left in it.
Start(n) == localStart[n] % TotalHashPoints

\* No host sits exactly on the point that an entry of another one stands for.
\* When one does, get_distance makes the joining host its own finger.
Spaced ==
    \A a, b \in Started : \A i \in FingerIndex : Steps(myHash[a], myHash[b]) # 2^i

\* All hosts lie in one half of the circle.
Clustered == \E a \in Up : \A b \in Up : Steps(myHash[a], myHash[b]) < 2^(M - 1)

\* Every entry is the successor of the point it stands for.
FingersExact ==
    \A n \in Up, i \in FingerIndex : fingerTable[n][i] = Owner(EntryHash(n, i))

-----------------------------------------------------------------------------
(***************************************************************************)
(* Safety at any pace, with hosts dying.                                   *)
(***************************************************************************)

Request ==
    [type : {"join", "help", "update"}, to : Node, new : Node]
      \cup [type : {"updated"}, to : Node, cur : Node, next : Host]
      \cup [type : {"add", "delete"}, to : Node, key : Key, src : Node,
            id : 0..MaxCommands]

LookupState == [st : {"idle", "call", "fwd", "done"}, src : Host, hash : Ids,
                at : Host, succ : Host, owner : Host]

HelpState == [pc : {"idle", "entry", "furthest", "files", "start", "done"},
              host : Host, i : FingerIndex, table : [FingerIndex -> Host],
              prev : Host, files : [Key -> Host]]

Command == [op : {"add", "delete", "search"}, key : Key]

\* Every member of Node holds a value of its type; local_start may be one
\* whole circle below the identifiers.
TypeOK ==
    /\ phase \in [Node -> Phase]
    /\ myHash \in [Node -> Ids]
    /\ fingerTable \in [Node -> [FingerIndex -> Host]]
    /\ localStart \in [Node -> -TotalHashPoints .. TotalHashPoints - 1]
    /\ DHT \in [Node -> [Key -> Host]]
    /\ localFiles \in [Node -> [Key -> {"none", "named", "blank"}]]
    /\ requests \subseteq Request
    /\ lookup \in [Thread -> LookupState]
    /\ help \in [Node -> HelpState]
    /\ walk \in [Node -> Host]
    /\ cmd \in [Node -> Command \cup {NoCommand}]
    /\ answer \in [Node -> [key : Ids, exists : BOOLEAN]]
    /\ entered \in 0..MaxCommands

\* Entry i of a finger table, once set, names a host at least 2^i clockwise of
\* its holder, a whole circle when that is the holder itself: a request that is
\* forwarded along it does not overshoot into the span of a lower entry
\* (get_next_hop_info, help_join_req_handle, handle_update_route_req).
FingerReach ==
    \A n \in Node, i \in FingerIndex :
        LET f == fingerTable[n][i]
        IN  f # NoNode => GetDistance(myHash[n], myHash[f]) >= 2^i

\* However joins overlap and whoever dies, no host that is routed to has an empty
\* finger table of its own, where get_next_hop_info would answer the empty
\* hostname.  The one exception is a host that was itself the contact node of
\* another before it had a table (only at the free pace): its server answers with
\* a local_start of 0, so it is asked to help, and names itself.
RoutedHostsReady ==
    \A n \in Node, i \in FingerIndex :
        LET f == fingerTable[n][i]
        IN  f # NoNode /\ fingerTable[f] = EmptyTable =>
                Pacing = "free" /\ \E x \in Node : help[x].host = f

\* The live copies of the index entry of k: in a DHT, or in a FileTable message
\* on its way to a joining host.
Copies(k) ==
    { DHT[n][k] : n \in { x \in Node : Alive(x) } }
      \cup { help[n].files[k] : n \in { x \in Node : /\ phase[x] \in Joining
                                                   /\ help[x].pc \in {"start", "done"} } }

Indexed(k) == Copies(k) # {NoNode} /\ Copies(k) # {}

\* A file stays indexed while hosts join and move the entry about: it is lost
\* only by a handled DeleteFileRequest, with a process that ends, or in a
\* FileTable written to the connection of a joining host that has ended.
IndexKept ==
    [][ \A k \in Key :
          Indexed(k) /\ ~Indexed(k)' =>
              \/ \E m \in requests \ requests' : m.type = "delete" /\ m.key = k
              \/ \E n \in Node : Alive(n) /\ phase'[n] = "dead"
              \/ \E n \in Node : ~Alive(n) /\ help[n].pc = "files" /\ help'[n].pc = "start" ]_vars

-----------------------------------------------------------------------------
(***************************************************************************)
(* Safety at a quiet pace.                                                 *)
(***************************************************************************)

\* node.h: local_start "should equals to its predecessor's hash + 1".
StartFollowsPredecessor ==
    Quiet /\ Intact => \A n \in Up : Start(n) = HashValueAdd(Predecessor(n), 1)

\* After any sequence of joins, one after another, the responsibilities cut the circle at the hosts
\* and the first fingers link them into one ring, if the hosts are Spaced.
RingConsistent ==
    Quiet /\ Intact /\ Spaced =>
        \A n \in Up : /\ Start(n) = HashValueAdd(Predecessor(n), 1)
                      /\ fingerTable[n][0] = Owner(HashValueAdd(myHash[n], 1))

\* join_chord "notifies other node in chord circle to update their finger
\* table": every entry of every host is exact after any sequence of joins, if
\* the hosts are Spaced and lie in one half circle.
TablesExactInCluster == Quiet /\ Intact /\ Spaced /\ Clustered => FingersExact

\* The hosts of a circle S, and the one of them a hash belongs to.
OwnerIn(S, h) ==
    CHOOSE x \in S : myHash[x] = SuccessorIn({ myHash[y] : y \in S }, h)

\* Hosts between the first line of join_chord and the last of the helper.
Entering ==
    { n \in Node : phase[n] \in Joining \/ (phase[n] = "up" /\ help[n].pc = "start") }

Answered(t) == lookup[t].st # "done" /\ lookup'[t].st = "done"

\* t's lookup names the right host, each host that is entering counted or not.
NamesOwner(t) ==
    \E S \in SUBSET Entering :
        lookup'[t].succ = OwnerIn((Up \ Entering) \cup S, lookup'[t].hash)

\* A lookup that runs while another host joins is answered as if the join had
\* happened before or after it ("lookup_successor() gets the successor of the
\* hash value").
LookupDuringJoin ==
    [][ Intact /\ Spaced =>
          \A t \in Thread : Answered(t) => NamesOwner(t) ]_vars

\* That is so of every answer but those of a host that is already routed to and
\* has not yet set its local_start.
LookupAtomic ==
    [][ Intact /\ Spaced =>
          \A t \in Thread :
              Answered(t) /\ phase[lookup'[t].succ] \in {"files", "up"} => NamesOwner(t) ]_vars

\* node.h: the DHT holds the "Files that are responsible by current node".  A
\* file whose hash is the hash of a host is excepted: it stays with the helper
\* when that host joins.
IndexPlacedOffHosts ==
    Quiet /\ Intact /\ Spaced =>
        \A n \in Up, k \in Key \ UpHashes : DHT[n][k] # NoNode => n = Owner(k)

\* Who a search names as the owner has the file under its name, and a download
\* finds it: localFiles of one host and the DHT of another stay in step.
OwnersServe ==
    Quiet /\ Intact /\ Spaced => \A n \in Up, k \in Key :
        n = Owner(k) /\ DHT[n][k] \in Up => localFiles[DHT[n][k]][k] = "named"

\* When people take turns, nothing but the user's own doing ends the first
\* process: "Node exit", or the deletion of a file that has just been looked up
\* and that nobody has.
FirstDeathOwnDoing ==
    [][ Intact =>
          \A n \in Node : phase[n] # "dead" /\ phase'[n] = "dead" =>
              \/ UserExit(n)
              \/ cmd[n].op = "delete" /\ Returned(<<"ui", n>>)
                 /\ lookup[<<"ui", n>>].owner = NoNode ]_vars

\* At a quiet pace the DHTs of all hosts together are one index on which the
\* menu commands act at once.  An entry is where its copies say, or lost.
IndexEntry(k) ==
    IF Indexed(k) THEN CHOOSE o \in Copies(k) \ {NoNode} : TRUE ELSE NoNode

Index == INSTANCE SharedIndex WITH
            members <- { n \in Node : Alive(n) },
            ended   <- { n \in Node : phase[n] = "dead" },
            index   <- [k \in Key |-> IndexEntry(k)]

ImplementsSharedIndex == Index!Spec

-----------------------------------------------------------------------------
(***************************************************************************)
(* Liveness, under FairSpec.                                               *)
(***************************************************************************)

\* As long as no process ends, a menu command returns to the menu ("Your
\* request has been completed! What else can we do?").
CommandsEnd ==
    \A n \in Node : cmd[n] # NoCommand ~> cmd[n] = NoCommand \/ ~Intact

\* As long as no process ends, a host that begins to join succeeds.
JoinsEnd == \A n \in Node : phase[n] \in Joining ~> phase[n] = "up" \/ ~Intact
=============================================================================
