----------------------------- MODULE ChordState -----------------------------
(***************************************************************************)
(* The state of a set of peers running the program: the members of class   *)
(* Node on every host, where its main thread stands, the detached threads  *)
(* it has spawned, and the protobuf messages between hosts.                *)
(*                                                                         *)
(* A contactInfo_t paired with a hash always describes one host, so a      *)
(* finger, an owner or a successor is a member of Node; the port of a      *)
(* reply is the thread that waits for it.                                  *)
(***************************************************************************)
EXTENDS Ring, FiniteSets

CONSTANTS
    Node,       \* hosts
    NoNode,     \* "no host": an entry of the empty finger table, no owner
    First,      \* the host started with contact node "0.0.0.0"
    Positions,  \* the values get_hash may give a hostname (BOUND on placements)
    Key,        \* hashes of the files users name (BOUND)
    Commands,   \* the menu entries users choose from
    MaxCommands,\* BOUND: commands entered in a behaviour
    Pacing      \* when people start a host or enter a command, see Ready

ASSUME NodeAssumption == First \in Node /\ NoNode \notin Node
ASSUME HashAssumption == Positions \subseteq Ids /\ Key \subseteq Ids
ASSUME UserAssumption ==
    /\ Commands \subseteq {"add", "delete", "search", "exit"}
    /\ MaxCommands \in Nat
    /\ Pacing \in {"quiet", "serial", "free"}

Host == Node \cup {NoNode}

\* The threads that call lookup(): the main thread of a host (its menu) and,
\* for every joining host, the detached threads of join_req_handle and
\* help_join_req_handle that serve it.
Thread == {"ui", "join", "help"} \X Node

VARIABLES
    phase,       \* where the main thread of a host stands, or off, or dead
    myHash,      \* my_hash
    fingerTable, \* fingerTable (the host of each entry)
    localStart,  \* local_start
    DHT,         \* DHT: key -> owner, NoNode when the key is absent
    localFiles,  \* localFiles: key -> "none", a file "named", or "blank"
    requests,    \* requests sent and not yet taken by a handler thread
    lookup,      \* thread -> the lookup() it is executing
    help,        \* joining host -> the help_join_req_handle thread serving it
    walk,        \* joining host -> update_node_hostname of its while loop
    cmd,         \* host -> the menu command being executed
    answer,      \* host -> what the last "search" printed
    entered      \* number of commands entered so far (numbers the messages)

vars == << phase, myHash, fingerTable, localStart, DHT, localFiles, requests,
           lookup, help, walk, cmd, answer, entered >>

joinVars == << fingerTable, help, walk >>
fileVars == << DHT, localFiles >>
uiVars   == << cmd, answer, entered >>

Joining == {"helpjoin", "table", "prev", "walk", "wait", "files"}
Phase   == {"off", "up", "dead"} \cup Joining

\* run_server is accepting connections: from the start of main() to the exit.
Alive(x) == x \in Node /\ phase[x] \notin {"off", "dead"}
Started == { x \in Node : phase[x] # "off" }
Up == { x \in Node : phase[x] = "up" }

EmptyTable == [i \in FingerIndex |-> NoNode]
NoFiles == [k \in Key |-> NoNode]

\* A thread that is not inside lookup().
NoLookup == [st |-> "idle", src |-> NoNode, hash |-> 0, at |-> NoNode,
             succ |-> NoNode, owner |-> NoNode]
\* lookup(hash) entered by a thread of host src.
Lookup(src, hash) == [NoLookup EXCEPT !.st = "call", !.src = src, !.hash = hash]

NoHelp == [pc |-> "idle", host |-> NoNode, i |-> 0, table |-> EmptyTable,
           prev |-> NoNode, files |-> NoFiles]
NoCommand == [op |-> "none", key |-> 0]
NoAnswer == [key |-> 0, exists |-> FALSE]

\* exit(), an uncaught exception, or sendMesgTo on the nullptr of a refused
\* connection: the whole process is gone and nothing more is sent.
Crash(x) ==
    /\ phase' = [phase EXCEPT ![x] = "dead"]
    /\ UNCHANGED << myHash, localStart, requests, lookup >>
    /\ UNCHANGED << joinVars, fileVars, uiVars >>

\* No host is joining, and the helper of the last one to join has finished.
NoJoin == \A n \in Node : phase[n] \notin Joining /\ help[n].pc \in {"idle", "done"}

\* Nothing is going on anywhere: no thread but the accept loops and the menus.
Quiet == NoJoin /\ requests = {} /\ \A t \in Thread : lookup[t].st = "idle"

\* The pace of the people at the terminals: when they start a host ("start")
\* or enter a command ("command").
\*   quiet    one activity at a time, begun when the last has ended everywhere
\*   serial   hosts are started one after another, commands at any time
\*   free     either at any time
Ready(act) ==
    CASE Pacing = "quiet"  -> Quiet
      [] Pacing = "serial" -> act = "command" \/ NoJoin
      [] OTHER             -> TRUE

Init ==
    /\ phase = [n \in Node |-> "off"]
    /\ myHash = [n \in Node |-> 0]
    /\ fingerTable = [n \in Node |-> EmptyTable]
    /\ localStart = [n \in Node |-> 0]
    /\ DHT = [n \in Node |-> NoFiles]
    /\ localFiles = [n \in Node |-> [k \in Key |-> "none"]]
    /\ requests = {}
    /\ lookup = [t \in Thread |-> NoLookup]
    /\ help = [n \in Node |-> NoHelp]
    /\ walk = [n \in Node |-> NoNode]
    /\ cmd = [n \in Node |-> NoCommand]
    /\ answer = [n \in Node |-> NoAnswer]
    /\ entered = 0
=============================================================================
