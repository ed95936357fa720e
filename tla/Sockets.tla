------------------------------- MODULE Sockets -------------------------------
(***************************************************************************)
(* The listening sockets of one host, as util/socket.cpp and util/proto.cpp *)
(* use the kernel's: a port listens for one thread at a time, connections  *)
(* that are made to it wait in its backlog until that thread accepts them, *)
(* and are reset when the port is closed before.  No connection is refused *)
(* for want of room: listen asks for 100 places.                           *)
(***************************************************************************)
EXTENDS Naturals, Sequences

CONSTANTS
    Thread,  \* threads of the host
    Port,    \* its ports (BOUND)
    NoOne    \* no thread

VARIABLES
    listener, \* port -> the thread that listens on it
    backlog   \* port -> connections not accepted yet

sockets == << listener, backlog >>

NoSockets ==
    /\ listener = [p \in Port |-> NoOne]
    /\ backlog = [p \in Port |-> << >>]

IsOpen(p) == listener[p] # NoOne

\* bind succeeds on a port nobody listens on.
InitializeServer(t, p) ==
    /\ ~IsOpen(p)
    /\ listener' = [listener EXCEPT ![p] = t]
    /\ UNCHANGED backlog

\* connect succeeds on a port somebody listens on.
ClientRequestConnection(p, c) ==
    /\ IsOpen(p)
    /\ backlog' = [backlog EXCEPT ![p] = Append(@, c)]
    /\ UNCHANGED listener

\* accept waits for a connection; this one is c.
ServerAcceptConnection(p, c) ==
    /\ backlog[p] # << >> /\ c = Head(backlog[p])
    /\ backlog' = [backlog EXCEPT ![p] = Tail(@)]
    /\ UNCHANGED listener

\* FAULT: the accepted connection is closed and the port is not.
ForgetListeningSocket(p) == UNCHANGED sockets

CloseListeningSocket(p) ==
    /\ listener' = [listener EXCEPT ![p] = NoOne]
    /\ backlog' = [backlog EXCEPT ![p] = << >>]

\* The process ends.
CloseAllSockets ==
    /\ listener' = [p \in Port |-> NoOne]
    /\ backlog' = [p \in Port |-> << >>]
=============================================================================
