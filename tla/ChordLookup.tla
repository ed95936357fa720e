---------------------------- MODULE ChordLookup -----------------------------
(***************************************************************************)
(* lookup.cpp: finding the host responsible for a hash.  lookup() runs in  *)
(* the calling thread and either answers at once or sends a                *)
(* LookupFileRequest along the finger table; lookup_req_handle runs in a   *)
(* detached thread of each host on the path and answers the SOURCE host or *)
(* forwards.  A thread has one lookup at a time, so its request is the     *)
(* thread's record: "call" (entered), "fwd" (the request is at host "at"), *)
(* "done" (the response arrived).  There is no timeout anywhere.           *)
(***************************************************************************)
EXTENDS ChordState

\* is_responsible_to, called at x.
IsResponsibleTo(x, hash) == Responsible(localStart[x], myHash[x], hash)

\* Its side effect: local_start is unrolled in place, at every call.
UnrollStart(x) ==
    localStart' = [localStart EXCEPT ![x] = Unrolled(@, myHash[x])]

\* get_next_hop_info, called at x.
NextHop(x, hash) ==
    IF hash = myHash[x] THEN x ELSE fingerTable[x][HopIndex(myHash[x], hash)]

\* What host x answers for a hash it believes to be its own.
Answer(l, x) ==
    [l EXCEPT !.st = "done", !.at = NoNode, !.succ = x,
              !.owner = IF l.hash \in Key THEN DHT[x][l.hash] ELSE NoNode]

\* lookup(), up to the answer or the sent request.
LookupCall(t) ==
    LET l   == lookup[t]
        hop == NextHop(l.src, l.hash)
    IN  /\ l.st = "call" /\ Alive(l.src)
        /\ \/ /\ IsResponsibleTo(l.src, l.hash)
              /\ lookup' = [lookup EXCEPT ![t] = Answer(l, l.src)]
              /\ UnrollStart(l.src)
              /\ UNCHANGED << phase, myHash, requests, joinVars, fileVars, uiVars >>
           \/ /\ ~IsResponsibleTo(l.src, l.hash) /\ Alive(hop)
              /\ lookup' = [lookup EXCEPT ![t].st = "fwd", ![t].at = hop]
              /\ UnrollStart(l.src)
              /\ UNCHANGED << phase, myHash, requests, joinVars, fileVars, uiVars >>
           \/ /\ ~IsResponsibleTo(l.src, l.hash) /\ ~Alive(hop)
              /\ Crash(l.src)

\* lookup_req_handle at the host the request has reached.
LookupReqHandle(t) ==
    LET l    == lookup[t]
        mine == IsResponsibleTo(l.at, l.hash)
        dest == IF mine THEN l.src ELSE NextHop(l.at, l.hash)
    IN  /\ l.st = "fwd" /\ Alive(l.at)
        /\ \/ /\ Alive(dest)
              /\ lookup' = [lookup EXCEPT
                              ![t] = IF mine THEN Answer(l, l.at)
                                             ELSE [l EXCEPT !.at = dest]]
              /\ UnrollStart(l.at)
              /\ UNCHANGED << phase, myHash, requests, joinVars, fileVars, uiVars >>
           \/ /\ ~Alive(dest)
              /\ Crash(l.at)

\* lookup() has returned to the thread, which goes on.
Returned(t) == lookup[t].st = "done" /\ Alive(lookup[t].src)
=============================================================================
