----------------------------- MODULE ChordFiles ------------------------------
(***************************************************************************)
(* node.cpp: the menu of the user interface thread and the shared index.   *)
(* A command looks up the key (the menu waits for the answer), then acts   *)
(* on it; the AddFileRequest or DeleteFileRequest it sends is handled by a *)
(* detached thread of the responsible host and is never acknowledged.      *)
(*                                                                         *)
(* Downloading (menu entry 4) looks up like "search" and then opens a      *)
(* byte stream between two hosts; it changes nothing that is kept here.    *)
(***************************************************************************)
EXTENDS ChordLookup

\* Menu entries 1 to 3 up to the call of lookup(); add_file has found the file
\* in ./shared_file (without it, it only prints a message).
EnterCommand(n, op, k) ==
    /\ op \in Commands \ {"exit"}
    /\ phase[n] = "up" /\ cmd[n] = NoCommand
    /\ Ready("command") /\ entered < MaxCommands
    /\ entered' = entered + 1
    /\ cmd' = [cmd EXCEPT ![n] = [op |-> op, key |-> k]]
    /\ lookup' = [lookup EXCEPT ![<<"ui", n>>] = Lookup(n, k)]
    /\ UNCHANGED << phase, myHash, localStart, requests, joinVars, fileVars, answer >>

\* Menu entry 5: exit(EXIT_SUCCESS), nothing is handed over.
UserExit(n) ==
    /\ "exit" \in Commands
    /\ phase[n] = "up" /\ cmd[n] = NoCommand /\ Ready("command")
    /\ Crash(n)

\* The lookup of n's command has returned: the menu is free again.
CommandEnds(n) ==
    /\ Returned(<<"ui", n>>)
    /\ cmd' = [cmd EXCEPT ![n] = NoCommand]
    /\ lookup' = [lookup EXCEPT ![<<"ui", n>>] = NoLookup]

\* add_file: the file is local, and the successor is told.
AddReturn(n) ==
    LET l == lookup[<<"ui", n>>]
        k == cmd[n].key
    IN  /\ cmd[n].op = "add" /\ Returned(<<"ui", n>>)
        /\ \/ /\ Alive(l.succ) /\ CommandEnds(n)
              /\ localFiles' = [localFiles EXCEPT ![n][k] = "named"]
              /\ requests' = requests \cup {[type |-> "add", to |-> l.succ,
                                    key |-> k, src |-> n, id |-> entered]}
              /\ UNCHANGED << phase, myHash, localStart, DHT, joinVars, answer, entered >>
           \/ /\ ~Alive(l.succ)
              /\ Crash(n)

\* delete_file: exits when the index has no such file; only the owner acts.
DeleteReturn(n) ==
    LET l == lookup[<<"ui", n>>]
        k == cmd[n].key
    IN  /\ cmd[n].op = "delete" /\ Returned(<<"ui", n>>)
        /\ \/ /\ l.owner \notin {NoNode, n} /\ CommandEnds(n)
              /\ UNCHANGED << phase, myHash, localStart, requests, fileVars, joinVars,
                              answer, entered >>
           \/ /\ l.owner = n /\ Alive(l.succ) /\ CommandEnds(n)
              /\ localFiles' = [localFiles EXCEPT ![n][k] = "none"]
              /\ requests' = requests \cup {[type |-> "delete", to |-> l.succ,
                                    key |-> k, src |-> n, id |-> entered]}
              /\ UNCHANGED << phase, myHash, localStart, DHT, joinVars, answer, entered >>
           \/ /\ l.owner = NoNode \/ (l.owner = n /\ ~Alive(l.succ))
              /\ Crash(n)

\* "Search if a file exists" prints the answer.
SearchReturn(n) ==
    LET l == lookup[<<"ui", n>>]
        k == cmd[n].key
    IN  /\ cmd[n].op = "search" /\ CommandEnds(n)
        /\ answer' = [answer EXCEPT ![n] = [key |-> k, exists |-> l.owner # NoNode]]
        /\ UNCHANGED << phase, myHash, localStart, requests, fileVars, joinVars, entered >>

\* FAULT: operator[] assigned to, so that the owner's own entry is blanked.
AddFileReqBlanks(m) ==
    /\ m.type = "add" /\ Alive(m.to)
    /\ requests' = requests \ {m}
    /\ localFiles' = [localFiles EXCEPT ![m.to][m.key] = "blank"]
    /\ DHT' = [DHT EXCEPT ![m.to][m.key] = IF @ = NoNode THEN m.src ELSE @]
    /\ UNCHANGED << phase, myHash, localStart, lookup, joinVars, uiVars >>

\* FAULT: the last uploader becomes the owner.
AddFileReqReplaces(m) ==
    /\ m.type = "add" /\ Alive(m.to)
    /\ requests' = requests \ {m}
    /\ localFiles' = [localFiles EXCEPT
                        ![m.to][m.key] = IF @ = "none" THEN "blank" ELSE @]
    /\ DHT' = [DHT EXCEPT ![m.to][m.key] = m.src]
    /\ UNCHANGED << phase, myHash, localStart, lookup, joinVars, uiVars >>

\* add_file_req_handle: the sender becomes the owner unless there is one.  The
\* test that precedes it, file_exist(localFiles[hash]), is about THIS host: it
\* inserts an empty name for an unknown key and then finds the directory
\* ./shared_file itself, so it passes and leaves the entry "blank" behind.
AddFileReqHandle(m) ==
    /\ m.type = "add" /\ Alive(m.to)
    /\ requests' = requests \ {m}
    /\ localFiles' = [localFiles EXCEPT
                        ![m.to][m.key] = IF @ = "none" THEN "blank" ELSE @]
    /\ DHT' = [DHT EXCEPT ![m.to][m.key] = IF @ = NoNode THEN m.src ELSE @]
    /\ UNCHANGED << phase, myHash, localStart, lookup, joinVars, uiVars >>

\* del_file_req_handle: a key that is not in the DHT ends the process.
DelFileReqHandle(m) ==
    /\ m.type = "delete" /\ Alive(m.to)
    /\ \/ /\ DHT[m.to][m.key] # NoNode
          /\ requests' = requests \ {m}
          /\ DHT' = [DHT EXCEPT ![m.to][m.key] = NoNode]
          /\ UNCHANGED << phase, myHash, localStart, localFiles, lookup, joinVars, uiVars >>
       \/ /\ DHT[m.to][m.key] = NoNode
          /\ Crash(m.to)

\* What users do ...
UserStep ==
    \E n \in Node :
        \/ \E op \in Commands, k \in Key : EnterCommand(n, op, k)
        \/ UserExit(n)

\* ... and what the program does about it.
FileStep ==
    \/ \E n \in Node : AddReturn(n) \/ DeleteReturn(n) \/ SearchReturn(n)
    \/ \E m \in requests : AddFileReqHandle(m) \/ DelFileReqHandle(m)
=============================================================================
