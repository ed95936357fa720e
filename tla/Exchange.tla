------------------------------ MODULE Exchange ------------------------------
(***************************************************************************)
(* How an answer finds its way back: the calls of Node::lookup and the     *)
(* transfer of Node::download, seen from one host, Me, and the peers that  *)
(* answer it.  A caller sends its request on a connection of its own,      *)
(* THEN opens the port it has named in it, accepts ONE connection there,   *)
(* reads, and closes both.  Whoever answers connects to that port.         *)
(*                                                                         *)
(* Module Chord says who answers and what; here any peer may, with any     *)
(* answer.  There, a message is there or it is not; here it is a           *)
(* connection, with ports, hosts that end at any moment, and threads of    *)
(* one host that draw the same port.                                       *)
(***************************************************************************)
EXTENDS Integers, FiniteSets, Sequences

CONSTANTS
    Me,        \* the host whose calls these are
    Peer,      \* the other hosts
    Ui,        \* its terminal thread ...
    Worker,    \* ... and handler threads that look something up
    UiPort,    \* user_interface_port_num
    RandomPort,\* what get_random_port draws from (BOUND)
    MaxCalls,  \* calls the threads make between them in a behaviour (BOUND)
    Size,      \* sizes a shared file may have (BOUND)
    IntWidth,  \* bits of an int
    MaxLength, \* MAX_LENGTH
    Absent,    \* the answer "no such file"
    None       \* no request, nobody, nothing

Caller == Worker \cup {Ui}
Host == Peer \cup {Me}
Port == RandomPort \cup {UiPort}
Request == (Caller \X (1 .. MaxCalls) \X {"lookup"}) \cup ({Ui} \X (1 .. MaxCalls) \X {"download"})

\* What a process is doing when it ends.
Cause == {"exit", "early", "sending", "binding", "connecting", "reading"}

ASSUME ExchangeAssumption ==
    /\ Me \notin Peer /\ Ui \notin Worker /\ UiPort \notin RandomPort
    /\ None \notin Host \cup Caller \cup Request \cup Int \cup Cause \cup {Absent}
    /\ Absent \notin Host \cup Int /\ (Host \cap Int) = {}
    /\ MaxCalls \in Nat /\ IsFiniteSet(Worker) /\ Size \subseteq Nat
    /\ IntWidth \in Nat \ {0} /\ MaxLength \in Nat \ {0}

\* The facts about powers of two that the proofs use (see PowersOfTwo in Ring).
ASSUME IntPowers ==
    2^(IntWidth - 1) \in Nat \ {0} /\ 2^IntWidth = 2 * 2^(IntWidth - 1)

VARIABLES
    up,       \* hosts whose process runs
    pc,       \* caller -> what it does next
    call,     \* caller -> how many calls it has begun
    port,     \* caller -> the port of its call
    accepted, \* caller -> the connection it has accepted
    owner,    \* download: owner.first
    length,   \* download: length
    disk,     \* the file in download_file: bytes it has, and should have
    listener, backlog,
    phase,    \* request -> how far the peer that handles it is
    server,   \* request -> that peer, until the handler returns
    replyTo,  \* request -> the port it names
    size,     \* request -> bytes of the file
    toSend,   \* request -> bytes its handler has still to send
    header,   \* request -> the answer, or the length, on its way
    unread    \* request -> bytes of the file on their way

\* History, read by properties only.
VARIABLES
    doubtful, \* ports drawn while another answer might still come to them
    cause     \* why the first process ended

callerVars == << pc, call, port, accepted, owner, length, disk >>
socketVars == << listener, backlog >>
peerVars == << phase, server, replyTo, size, toSend, header, unread >>
vars == << up, callerVars, socketVars, peerVars, doubtful, cause >>

Sock == INSTANCE Sockets WITH Thread <- Caller, NoOne <- None

Kind(t) == IF pc[t] \in {"ask", "listen2", "accept2", "header", "body"}
           THEN "download" ELSE "lookup"
Current(t) == << t, call[t], Kind(t) >>

CallsLeft ==
    Cardinality({ c \in Caller \X (1 .. MaxCalls) : c[2] <= call[c[1]] }) < MaxCalls

NoFile == [has |-> 0, of |-> None]

Init ==
    /\ up = Host
    /\ pc = [t \in Caller |-> "idle"] /\ call = [t \in Caller |-> 0]
    /\ port = [t \in Caller |-> UiPort]
    /\ accepted = [t \in Caller |-> None]
    /\ owner = None /\ length = 0 /\ disk = NoFile
    /\ Sock!NoSockets
    /\ phase = [r \in Request |-> "none"] /\ server = [r \in Request |-> None]
    /\ replyTo = [r \in Request |-> UiPort]
    /\ size = [r \in Request |-> 0] /\ toSend = [r \in Request |-> 0]
    /\ header = [r \in Request |-> None] /\ unread = [r \in Request |-> 0]
    /\ doubtful = {} /\ cause = None

Goto(t, l) == pc' = [pc EXCEPT ![t] = l]
Running(t, l) == pc[t] = l /\ Me \in up

\* A process ends.  A peer's connections are closed with it, and so are the
\* ports of Me; nothing else is told.
Ends(h, why) ==
    /\ up' = up \ {h}
    /\ cause' = IF cause = None THEN why ELSE cause
    /\ IF h = Me THEN Sock!CloseAllSockets ELSE UNCHANGED socketVars
    /\ UNCHANGED << callerVars, peerVars, doubtful >>

\* A number as an int holds it.
AsInt(n) == LET half == 2^(IntWidth - 1) IN ((n + half) % 2^IntWidth) - half

Least(m, n) == IF m < n THEN m ELSE n

-----------------------------------------------------------------------------
(***************************************************************************)
(* The caller.                                                             *)
(***************************************************************************)

\* Somebody waits for an answer at p, or one may still be sent there.
Awaited(p) ==
    \/ \E t \in Caller : pc[t] # "idle" /\ port[t] = p
    \/ \E r \in Request : /\ phase[r] \in {"asked", "routed"} /\ server[r] \in up
                          /\ replyTo[r] = p

\* The handler of request r starts at peer s.
Ask(r, s, p) ==
    /\ phase' = [phase EXCEPT ![r] = "asked"]
    /\ server' = [server EXCEPT ![r] = s]
    /\ replyTo' = [replyTo EXCEPT ![r] = p]
    /\ UNCHANGED << size, toSend, header, unread >>

\* FAULT: get_random_port may draw the menu's port.
AnyPort(t) == Port

\* The menu's calls name user_interface_port_num, the others draw one.
PortsOf(t) == IF t = Ui THEN {UiPort} ELSE RandomPort

\* lookup sends its request; the connection it was sent on is closed again.
SendLookup(t, p, s) ==
    /\ Running(t, "idle") /\ CallsLeft
    /\ p \in PortsOf(t)
    /\ s \in up
    /\ call' = [call EXCEPT ![t] = @ + 1]
    /\ port' = [port EXCEPT ![t] = p]
    /\ doubtful' = IF Awaited(p) THEN doubtful \cup {p} ELSE doubtful
    /\ Ask(<< t, call[t] + 1, "lookup" >>, s, p)
    /\ Goto(t, "listen")
    /\ UNCHANGED << up, accepted, owner, length, disk, socketVars, cause >>

\* download finds the owner in the host's own DHT.
FindHere ==
    /\ Running(Ui, "idle") /\ CallsLeft
    /\ owner' \in Peer
    /\ call' = [call EXCEPT ![Ui] = @ + 1]
    /\ Goto(Ui, "ask")
    /\ UNCHANGED << up, port, accepted, length, disk, socketVars, peerVars, doubtful, cause >>

SendDownload ==
    /\ Running(Ui, "ask") /\ owner \in up
    /\ Ask(Current(Ui), owner, UiPort)
    /\ port' = [port EXCEPT ![Ui] = UiPort]
    /\ Goto(Ui, "listen2")
    /\ owner' = None
    /\ UNCHANGED << up, call, accepted, length, disk, socketVars, doubtful, cause >>

\* The next hop, or the owner, has gone: get_proto_out returns no stream, and
\* sendMesgTo uses it.
SendNowhere(t) ==
    /\ \/ Running(t, "idle") /\ CallsLeft /\ ~(Peer \subseteq up)
       \/ Running(t, "ask") /\ owner \notin up
    /\ Ends(Me, "sending")

Listen(t) ==
    /\ Running(t, "listen") \/ Running(t, "listen2")
    /\ Sock!InitializeServer(t, port[t])
    /\ Goto(t, IF pc[t] = "listen" THEN "accept" ELSE "accept2")
    /\ UNCHANGED << up, call, port, accepted, owner, length, disk, peerVars, doubtful, cause >>

\* bind fails: no stream, or an exception nobody catches.
CannotListen(t) ==
    /\ Running(t, "listen") \/ Running(t, "listen2")
    /\ Sock!IsOpen(port[t])
    /\ Ends(Me, "binding")

Accept(t) ==
    /\ Running(t, "accept") \/ Running(t, "accept2")
    /\ \E c \in Request : /\ Sock!ServerAcceptConnection(port[t], c)
                          /\ accepted' = [accepted EXCEPT ![t] = c]
    /\ Goto(t, IF pc[t] = "accept" THEN "read" ELSE "header")
    /\ UNCHANGED << up, call, port, owner, length, disk, peerVars, doubtful, cause >>

\* Nothing more comes on connection c.
AtEnd(c) == phase[c] = "closed" \/ server[c] \notin up

\* Both sockets are closed, what has not been read is lost.
HangUp(t) ==
    /\ Sock!CloseListeningSocket(port[t])
    /\ accepted' = [accepted EXCEPT ![t] = None]
    /\ header' = [header EXCEPT ![accepted[t]] = None]
    /\ UNCHANGED << phase, server, replyTo, size, toSend >>

\* The answer: a menu thread that wants a peer's file goes on to ask for it.
ReadAnswer(t) ==
    LET answer == header[accepted[t]]
    IN  /\ Running(t, "read") /\ answer # None
        /\ HangUp(t)
        /\ \/ Goto(t, "idle") /\ UNCHANGED owner
           \/ t = Ui /\ answer \in Peer /\ owner' = answer /\ Goto(t, "ask")
        /\ UNCHANGED << up, call, port, length, disk, unread, doubtful, cause >>

\* The connection ends before an answer: recvMesgFrom fails, nobody looks, the
\* type is 0 and lookup returns without setting its results.  The uninitialized
\* does_exist is false, and the command ends ...
ReadNothing(t) ==
    /\ Running(t, "read") /\ header[accepted[t]] = None /\ AtEnd(accepted[t])
    /\ HangUp(t) /\ Goto(t, "idle")
    /\ UNCHANGED << up, call, port, owner, length, disk, unread, doubtful, cause >>

\* ... or it is true and a message is sent to the host with the empty name.
BelieveNothing(t) ==
    /\ Running(t, "read") /\ header[accepted[t]] = None /\ AtEnd(accepted[t])
    /\ Ends(Me, "sending")

\* recv gives no length, or zero: an error is printed.
NoLength ==
    LET c == accepted[Ui]
    IN  /\ Running(Ui, "header")
        /\ header[c] = 0 \/ (header[c] = None /\ AtEnd(c))
        /\ HangUp(Ui) /\ Goto(Ui, "idle")
        /\ UNCHANGED << up, call, port, owner, length, disk, unread, doubtful, cause >>

\* Any other length: the old file is truncated.  A negative one needs no byte.
OpenFile ==
    LET c == accepted[Ui]
    IN  /\ Running(Ui, "header") /\ header[c] \notin {None, 0}
        /\ length' = header[c]
        /\ disk' = [has |-> 0, of |-> size[c]]
        /\ IF length' > 0 THEN Goto(Ui, "body") /\ UNCHANGED << accepted, socketVars, peerVars >>
                          ELSE Goto(Ui, "idle") /\ HangUp(Ui) /\ UNCHANGED unread
        /\ UNCHANGED << up, call, port, owner, doubtful, cause >>

\* recv gives what has come, at most a buffer of it.
ReadBlock ==
    LET c == accepted[Ui]
    IN  /\ Running(Ui, "body")
        /\ \E k \in 1 .. Least(MaxLength, unread[c]) :
              /\ unread' = [unread EXCEPT ![c] = @ - k]
              /\ disk' = [disk EXCEPT !.has = @ + k]
              /\ length' = length - k
        /\ IF length' > 0
           THEN UNCHANGED << pc, accepted, socketVars, phase, server, replyTo, size, toSend, header >>
           ELSE Goto(Ui, "idle") /\ HangUp(Ui)
        /\ UNCHANGED << up, call, port, owner, doubtful, cause >>

\* FAULT: the end of the connection taken for the end of the file.
StopAtEnd ==
    /\ Running(Ui, "body") /\ unread[accepted[Ui]] = 0 /\ AtEnd(accepted[Ui])
    /\ HangUp(Ui) /\ Goto(Ui, "idle")
    /\ UNCHANGED << up, call, port, owner, length, disk, unread, doubtful, cause >>

\* The connection ends before the file: the exception passes Node::main, whose
\* listening thread is still joinable.
FileBreaksOff ==
    /\ Running(Ui, "body") /\ unread[accepted[Ui]] = 0 /\ AtEnd(accepted[Ui])
    /\ Ends(Me, "reading")

CallerStep(t) ==
    \/ Listen(t) \/ CannotListen(t) \/ Accept(t)
    \/ ReadAnswer(t) \/ ReadNothing(t) \/ BelieveNothing(t)
    \/ t = Ui /\ (SendDownload \/ NoLength \/ OpenFile \/ ReadBlock \/ FileBreaksOff)
    \/ pc[t] = "ask" /\ SendNowhere(t)

-----------------------------------------------------------------------------
(***************************************************************************)
(* The peers: lookup_req_handle and download_req_handle.                   *)
(***************************************************************************)

At(r, l) == phase[r] \in l /\ server[r] \in up
IsLookup(r) == r[3] = "lookup"

\* Not responsible: the request goes on.  How far is module Chord's business
\* (BOUND: one hop).
Forward(r, s) ==
    /\ At(r, {"asked"}) /\ IsLookup(r) /\ s \in up \ {Me, server[r]}
    /\ phase' = [phase EXCEPT ![r] = "routed"]
    /\ server' = [server EXCEPT ![r] = s]
    /\ UNCHANGED << up, callerVars, socketVars, replyTo, size, toSend, header, unread,
                    doubtful, cause >>

\* ... to a host that has gone.
ForwardNowhere(r) ==
    /\ At(r, {"asked"}) /\ IsLookup(r) /\ ~(Peer \subseteq up)
    /\ Ends(server[r], "sending")

\* The handler closes its connection and returns.
Returns(r) ==
    /\ phase' = [phase EXCEPT ![r] = "closed"]
    /\ server' = [server EXCEPT ![r] = None]

\* The connection to the asking host, for an answer or for a file of n bytes.
Connect(r) ==
    /\ At(r, {"asked", "routed"})
    /\ Sock!ClientRequestConnection(replyTo[r], r)
    /\ \E n \in IF IsLookup(r) THEN {0} ELSE Size :
          /\ size' = [size EXCEPT ![r] = n]
          /\ toSend' = [toSend EXCEPT ![r] = AsInt(n)]
    /\ phase' = [phase EXCEPT ![r] = "open"]
    /\ UNCHANGED << up, callerVars, server, replyTo, header, unread, doubtful, cause >>

\* FAULT: who asks for a file that is not there is told nothing.
ReturnSilently(r) ==
    /\ At(r, {"asked"}) /\ ~IsLookup(r)
    /\ Returns(r)
    /\ UNCHANGED << up, callerVars, socketVars, replyTo, size, toSend, header, unread,
                    doubtful, cause >>

\* The file is not in localFiles, or not in its directory: the connection is
\* made, and closed.
ConnectAndClose(r) ==
    /\ At(r, {"asked"}) /\ ~IsLookup(r)
    /\ Sock!ClientRequestConnection(replyTo[r], r)
    /\ Returns(r)
    /\ UNCHANGED << up, callerVars, replyTo, size, toSend, header, unread, doubtful, cause >>

\* Its own port is not open yet.
Early(r) == \E t \in Caller : r = Current(t) /\ Me \in up
                               /\ pc[t] \in {"listen", "listen2"}

\* Nobody listens: no stream, or an exception nobody catches.
ConnectNowhere(r) ==
    /\ At(r, {"asked", "routed"}) /\ ~Sock!IsOpen(replyTo[r])
    /\ Ends(server[r], IF Early(r) THEN "early" ELSE "connecting")

\* The whole answer, and the end of the connection.
SendAnswer(r) ==
    /\ At(r, {"open"}) /\ IsLookup(r)
    /\ \E answer \in Host \cup {Absent} : header' = [header EXCEPT ![r] = answer]
    /\ Returns(r)
    /\ UNCHANGED << up, callerVars, socketVars, replyTo, size, toSend, unread, doubtful,
                    cause >>

SendLength(r) ==
    /\ At(r, {"open"}) /\ ~IsLookup(r)
    /\ header' = [header EXCEPT ![r] = AsInt(size[r])]
    /\ phase' = [phase EXCEPT ![r] = "sending"]
    /\ UNCHANGED << up, callerVars, socketVars, server, replyTo, size, toSend, unread,
                    doubtful, cause >>

\* FAULT: the last block is sent as a whole buffer.
SendWholeBuffer(r) ==
    /\ At(r, {"sending"}) /\ toSend[r] > 0
    /\ unread' = [unread EXCEPT ![r] = @ + MaxLength]
    /\ toSend' = [toSend EXCEPT ![r] = @ - Least(MaxLength, @)]
    /\ UNCHANGED << up, callerVars, socketVars, phase, server, replyTo, size, header,
                    doubtful, cause >>

SendBlock(r) ==
    LET k == Least(MaxLength, toSend[r])
    IN  /\ At(r, {"sending"}) /\ toSend[r] > 0
        /\ unread' = [unread EXCEPT ![r] = @ + k]
        /\ toSend' = [toSend EXCEPT ![r] = @ - k]
        /\ UNCHANGED << up, callerVars, socketVars, phase, server, replyTo, size, header,
                        doubtful, cause >>

CloseFile(r) ==
    /\ At(r, {"sending"}) /\ toSend[r] <= 0
    /\ Returns(r)
    /\ UNCHANGED << up, callerVars, socketVars, replyTo, size, toSend, header, unread,
                    doubtful, cause >>

\* Me has ended: sooner or later a send of the file fails.
SendBreaksOff(r) ==
    /\ At(r, {"open", "sending"}) /\ ~IsLookup(r) /\ Me \notin up
    /\ Ends(server[r], "sending")

PeerStep(r) ==
    \/ Connect(r) \/ ConnectAndClose(r) \/ ConnectNowhere(r)
    \/ SendAnswer(r) \/ SendLength(r) \/ SendBlock(r) \/ CloseFile(r) \/ SendBreaksOff(r)

-----------------------------------------------------------------------------
\* "5 Node exit", when the menu is read; the other threads end with it.
UserExit(h) ==
    /\ h \in up /\ (h = Me => pc[Ui] = "idle")
    /\ Ends(h, "exit")

Next ==
    \/ \E t \in Caller :
          \/ CallerStep(t) \/ SendNowhere(t)
          \/ \E p \in Port, s \in Peer : SendLookup(t, p, s)
    \/ FindHere
    \/ \E r \in Request :
          PeerStep(r) \/ ForwardNowhere(r) \/ \E s \in Peer : Forward(r, s)
    \/ \E h \in Host : UserExit(h)

Spec == Init /\ [][Next]_vars

\* A call that has begun goes on, and so does every handler; calls and exits
\* need not happen.
FairSpec ==
    /\ Spec
    /\ \A t \in Caller : WF_vars(CallerStep(t))
    /\ \A r \in Request : WF_vars(PeerStep(r))

-----------------------------------------------------------------------------
CallerTypes ==
    /\ up \subseteq Host
    /\ pc \in [Caller -> {"idle", "listen", "accept", "read", "ask", "listen2", "accept2",
                          "header", "body"}]
    /\ call \in [Caller -> 0 .. MaxCalls] /\ port \in [Caller -> Port]
    /\ accepted \in [Caller -> Request \cup {None}]
    /\ owner \in Peer \cup {None} /\ length \in Int
    /\ disk \in [has : Nat, of : Size \cup {None}]
    /\ doubtful \subseteq Port
    /\ cause \in Cause \cup {None}

SocketTypes ==
    listener \in [Port -> Caller \cup {None}] /\ backlog \in [Port -> Seq(Request)]

PeerTypes ==
    /\ phase \in [Request -> {"none", "asked", "routed", "open", "sending", "closed"}]
    /\ server \in [Request -> Peer \cup {None}] /\ replyTo \in [Request -> Port]
    /\ size \in [Request -> Size \cup {0}]
    /\ toSend \in [Request -> Int] /\ unread \in [Request -> Nat]
    /\ \A r \in Request : unread[r] + toSend[r] <= size[r]
    /\ header \in [Request -> Host \cup {Absent, None} \cup Int]

\* Every variable holds a value of its type: in particular no handler sends more
\* than its file, or than an int can count.
TypeOK == CallerTypes /\ SocketTypes /\ PeerTypes

\* A caller never takes another call's answer for its own, unless its port was
\* drawn while another answer might still come to it; that never happens to
\* the menu's port (get_random_port draws from 10000 on, "8889").
OwnAnswer ==
    /\ UiPort \notin doubtful
    /\ \A t \in Caller :
          accepted[t] # None /\ port[t] \notin doubtful => accepted[t] = Current(t)

\* What the receiver is told of a file of n bytes, as bytes to expect: n itself if
\* that fits an int, nothing if it has become negative.
Announced(n) == IF AsInt(n) > 0 THEN AsInt(n) ELSE 0

\* Neither loop of a download drops a byte, however recv cuts the file up and
\* whoever ends: what is in download_file is all that was announced, or the
\* thread that writes it is in its loop, or ended in it, and every byte that is
\* missing is on the connection or has not been sent.  A handler that has closed
\* the connection has sent them all.  So nothing but the end of a process in the
\* middle leaves a part of a file, and nothing but the width of an int makes a
\* download complete without all of it.
DiskWhole ==
    disk.of # None /\ disk.has # Announced(disk.of) =>
        LET c == accepted[Ui]
        IN  /\ pc[Ui] = "body"
            /\ disk.has + unread[c] + toSend[c] = Announced(disk.of)
            /\ phase[c] = "closed" => toSend[c] = 0

\* What can bring the first process down, when no port is in doubt: its user, or
\* an answer that is quicker than the thread that opens the port for it.
FirstEnd == doubtful = {} => cause \in {None, "exit", "early"}

\* A call that has begun ends, if no process does and no port is in doubt:
\* nobody waits for an answer that went elsewhere.
CallsEnd ==
    \A t \in Caller : pc[t] # "idle" ~> pc[t] = "idle" \/ cause # None \/ doubtful # {}
=============================================================================
