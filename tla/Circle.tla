------------------------------- MODULE Circle -------------------------------
(***************************************************************************)
(* The arithmetic of module Ring against its reference definitions, for    *)
(* every set of hosts on a small circle.  The set grows one host at a time *)
(* only to have TLC visit all of them.                                     *)
(***************************************************************************)
EXTENDS Ring, FiniteSets

CONSTANT MaxHosts   \* BOUND on the hosts of a circle

VARIABLE hosts

Init == hosts \in { {h} : h \in Ids }
Next ==
    /\ Cardinality(hosts) < MaxHosts
    /\ \E h \in Ids \ hosts : hosts' = hosts \cup {h}
Spec == Init /\ [][Next]_hosts

\* is_responsible_to at host s whose local_start is its predecessor's hash + 1.
ResponsibleAt(s, h) ==
    Responsible(HashValueAdd(PredecessorIn(hosts, s), 1), s, h)

\* Where a request for h goes from host s when every finger is the successor of
\* the point it stands for; a request that has arrived stays.
Forward(s, h) ==
    IF ResponsibleAt(s, h) THEN s
    ELSE SuccessorIn(hosts, HashValueAdd(s, 2^HopIndex(s, h)))

\* Exactly one host is responsible for each hash, its successor: no hash falls
\* between two hosts and none is claimed twice, also across zero
\* (is_responsible_to, get_distance, hash_value_add).
OneResponsible ==
    \A h \in Ids : { s \in hosts : ResponsibleAt(s, h) } = { SuccessorIn(hosts, h) }

\* With exact fingers a lookup needs no more forwards than a hash has bits, so
\* get_next_hop_info never sends it round the circle.
ShortRoutes ==
    \A s \in hosts, h \in Ids :
        LET at[n \in 0..M] == IF n = 0 THEN s ELSE Forward(at[n - 1], h)
        IN  at[M] = SuccessorIn(hosts, h)
=============================================================================
