---------------------------- MODULE SharedIndex -----------------------------
(***************************************************************************)
(* What the peers together promise their users: one index from the hashes  *)
(* of files to the hosts that own them.  Uploading, deleting and searching *)
(* act on that index at once; where its entries are stored, and how they   *)
(* move when a host joins, does not show.                                  *)
(***************************************************************************)
CONSTANTS Node, NoNode, Key

VARIABLES
    members,    \* hosts whose process runs
    ended,      \* hosts whose process has ended
    index,      \* key -> owner, or NoNode
    answer      \* host -> what its last search printed

vars == << members, ended, index, answer >>

Init ==
    /\ members = {} /\ ended = {}
    /\ index = [k \in Key |-> NoNode]
    /\ answer = [n \in Node |-> [key |-> 0, exists |-> FALSE]]

Enter(n) ==
    /\ n \notin members \cup ended
    /\ members' = members \cup {n}
    /\ UNCHANGED << ended, index, answer >>

\* The first host to upload a file owns it.
Upload(n, k) ==
    /\ n \in members /\ index[k] = NoNode
    /\ index' = [index EXCEPT ![k] = n]
    /\ UNCHANGED << members, ended, answer >>

\* Only the owner removes a file.
Remove(n, k) ==
    /\ n \in members /\ index[k] = n
    /\ index' = [index EXCEPT ![k] = NoNode]
    /\ UNCHANGED << members, ended, answer >>

Search(n, k) ==
    /\ n \in members
    /\ answer' = [answer EXCEPT ![n] = [key |-> k, exists |-> index[k] # NoNode]]
    /\ UNCHANGED << members, ended, index >>

\* Entries are lost; nothing else happens to them.
Losing ==
    index' \in { f \in [Key -> {index[k] : k \in Key} \cup {NoNode}] :
                      \A k \in Key : f[k] \in {index[k], NoNode} }

\* A process ends and takes the entries it stores with it.
End(n) ==
    /\ n \in members
    /\ members' = members \ {n} /\ ended' = ended \cup {n}
    /\ Losing
    /\ UNCHANGED answer

\* A host that joins thereafter may take more of them along when it ends.
Lose ==
    /\ ended # {}
    /\ Losing
    /\ UNCHANGED << members, ended, answer >>

Next ==
    \/ Lose
    \/ \E n \in Node :
          \/ Enter(n) \/ End(n)
          \/ \E k \in Key : Upload(n, k) \/ Remove(n, k) \/ Search(n, k)

Spec == Init /\ [][Next]_vars
=============================================================================
