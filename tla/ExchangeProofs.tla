---------------------------- MODULE ExchangeProofs ----------------------------
(***************************************************************************)
(* Answers find their calls and files arrive whole, for any threads, ports,*)
(* hosts, sizes and width of an int: the invariants of Exchange.           *)
(*                                                                         *)
(* A port says nothing of who sends to it, so the argument (Routes) goes   *)
(* by who may still use one: two calls have the same port only if it is in *)
(* doubt, a handler that may still answer has a caller that waits for just *)
(* that answer, and a connection waits only where its caller listens.      *)
(* Headers relates what a handler has sent to what it has still to send;   *)
(* with Routes, what the menu has written (Disk) is the rest of the file.  *)
(* Who ends first (FirstEnd) also needs that all of them run until then    *)
(* (Alive), that a port stays open while its caller reads (Listening) and  *)
(* that nobody else reads the answer (Heard).                              *)
(***************************************************************************)
EXTENDS Exchange, FiniteSetTheorems, TLAPS

-----------------------------------------------------------------------------
(* Numbers.                                                                *)

\* An int holds a size as it is, or as something smaller.
LEMMA AsIntRange ==
    ASSUME NEW n \in Nat
    PROVE  /\ AsInt(n) \in Int /\ AsInt(n) <= n
           /\ n < 2^(IntWidth - 1) => AsInt(n) = n
<1> DEFINE half == 2^(IntWidth - 1)
<1>1. half \in Nat \ {0} /\ 2^IntWidth = half + half
  BY IntPowers
<1> HIDE DEF half
<1>2. ((n + half) % (half + half)) \in 0 .. (half + half - 1)
  BY <1>1
<1>3. ((n + half) % (half + half)) <= n + half
  BY <1>1
<1>4. n < half => ((n + half) % (half + half)) = n + half
  BY <1>1
<1>5. AsInt(n) = ((n + half) % (half + half)) - half
  BY <1>1 DEF AsInt, half
<1> QED BY <1>1, <1>2, <1>3, <1>4, <1>5 DEF half

\* The smaller of two numbers.
LEMMA LeastRange ==
    ASSUME NEW m \in Nat, NEW n \in Int, n > 0, m > 0
    PROVE  Least(m, n) \in 1 .. n
BY DEF Least

\* The bound on the calls bounds those of each thread.
LEMMA CallsBound ==
    ASSUME NEW t \in Caller, call \in [Caller -> 0 .. MaxCalls], CallsLeft
    PROVE  call[t] + 1 \in 1 .. MaxCalls
<1> DEFINE Made == { c \in Caller \X (1 .. MaxCalls) : c[2] <= call[c[1]] }
           Row == { << t, i >> : i \in 1 .. MaxCalls }
<1> SUFFICES ASSUME call[t] = MaxCalls PROVE FALSE
  BY ExchangeAssumption
<1>1. IsFiniteSet(Caller) /\ IsFiniteSet(1 .. MaxCalls)
  BY ExchangeAssumption, FS_AddElement, FS_Interval DEF Caller
<1>2. IsFiniteSet(Caller \X (1 .. MaxCalls))
  BY <1>1, FS_Product
<1>3. Made \subseteq Caller \X (1 .. MaxCalls) /\ IsFiniteSet(Made)
  BY <1>2, FS_Subset
<1>4. Row \subseteq Made
  BY ExchangeAssumption
<1>5. Cardinality(1 .. MaxCalls) = MaxCalls
  BY FS_Interval, ExchangeAssumption
<1>6. Row = {t} \X (1 .. MaxCalls)
  OBVIOUS
<1>7. Cardinality(Row) = MaxCalls
  <2>1. IsFiniteSet({t}) /\ Cardinality({t}) = 1
    BY FS_Singleton
  <2>2. Cardinality({t} \X (1 .. MaxCalls)) = 1 * MaxCalls
    BY <2>1, <1>1, <1>5, FS_Product
  <2>3. MaxCalls \in Nat
    BY ExchangeAssumption
  <2>4. 1 * MaxCalls = MaxCalls
    BY <2>3
  <2>5. Cardinality({t} \X (1 .. MaxCalls)) = MaxCalls
    BY <2>2, <2>4, Zenon
  <2> QED BY <2>5, <1>6, Zenon
<1>8. MaxCalls <= Cardinality(Made)
  BY <1>3, <1>4, <1>7, FS_Subset
<1>9. Cardinality(Made) \in Nat /\ Cardinality(Made) < MaxCalls
  BY <1>3, FS_CardinalityType DEF CallsLeft
<1> QED BY <1>8, <1>9, ExchangeAssumption
-----------------------------------------------------------------------------
(* The invariant.                                                          *)

\* How far a handler is that has made its connection.
Answering == {"open", "sending", "closed"}
Busy(t) == pc[t] # "idle"
Reading(t) == pc[t] \in {"read", "header", "body"}
\* A connection waits at port p.
Waits(p, r) == \E i \in 1 .. Len(backlog[p]) : backlog[p][i] = r

\* The menu has the port that nobody draws; two calls have one port only when
\* it is in doubt.
Ports ==
    /\ UiPort \notin doubtful /\ port[Ui] = UiPort
    /\ \A t \in Worker : pc[t] \in {"idle", "listen", "accept", "read"}
    /\ \A t \in Worker : Busy(t) => port[t] \in RandomPort
    /\ \A t, u \in Caller : Busy(t) /\ Busy(u) /\ port[t] = port[u] =>
                               t = u \/ port[t] \in doubtful

\* Nothing is known of a request before it is sent.
Fresh ==
    /\ \A r \in Request : r[2] > call[r[1]] => phase[r] = "none"
    /\ \A r \in Request : r[1] = Ui /\ r[2] = call[Ui] /\ r[3] = "download"
                          /\ pc[Ui] \in {"listen", "accept", "read", "ask"} => phase[r] = "none"

\* A connection waits on the port it was made to, and its caller listens there.
Connections ==
    /\ \A p \in Port, r \in Request : Waits(p, r) =>
          replyTo[r] = p /\ phase[r] \in Answering /\ listener[p] # None
    /\ \A p \in Port : backlog[p] # << >> => listener[p] # None
    /\ \A p \in Port, t \in Caller : listener[p] = t =>
          port[t] = p /\ (pc[t] \in {"accept", "accept2"} \/ Reading(t))

\* A caller has accepted a connection exactly while it reads.
Accepted ==
    \A t \in Caller : /\ accepted[t] # None <=> Reading(t)
                      /\ accepted[t] # None => /\ phase[accepted[t]] \in Answering
                                               /\ replyTo[accepted[t]] = port[t]

\* An answer that is still to come, or that waits to be accepted, is the one its
\* caller waits for.
Pending ==
    \A r \in Request :
        /\ \/ phase[r] \in {"asked", "routed"} /\ server[r] \in up
           \/ \E p \in Port : Waits(p, r)
        /\ replyTo[r] \notin doubtful
        => Busy(r[1]) /\ port[r[1]] = replyTo[r] /\ r = Current(r[1])

\* Answers find their way.
Routes == Ports /\ Fresh /\ Connections /\ Accepted /\ Pending /\ OwnAnswer

\* What is on its way over a connection: a length, and as many bytes as that.
Header(r) ==
    /\ phase[r] \in {"none", "asked", "routed"} =>
          unread[r] = 0 /\ header[r] = None /\ toSend[r] = 0
    /\ phase[r] = "open" => /\ unread[r] = 0 /\ header[r] = None
                            /\ toSend[r] = AsInt(size[r])
                            /\ r[3] = "download" => size[r] \in Size
    /\ phase[r] = "closed" => toSend[r] <= 0
    /\ r[3] = "lookup" => /\ header[r] \in Host \cup {Absent, None} /\ toSend[r] <= 0
                          /\ phase[r] # "sending"
    /\ r[3] = "download" /\ header[r] # None =>
          /\ header[r] = AsInt(size[r]) /\ size[r] \in Size
          /\ \/ header[r] <= 0 \/ (pc[Ui] = "body" /\ accepted[Ui] = r)
             \/ toSend[r] >= 0 /\ unread[r] + toSend[r] = header[r]

Headers == \A r \in Request : Header(r)

\* A request is a call of a caller.
LEMMA RequestParts ==
    ASSUME NEW r \in Request
    PROVE  /\ r[1] \in Caller /\ r[2] \in 1 .. MaxCalls /\ r[3] \in {"lookup", "download"}
           /\ r[3] = "download" => r[1] = Ui
           /\ r = << r[1], r[2], r[3] >> /\ r # None
BY ExchangeAssumption DEF Request, Caller

\* The types at one request.
LEMMA PeerFacts ==
    ASSUME PeerTypes, NEW r \in Request
    PROVE  /\ unread[r] \in Nat /\ toSend[r] \in Int /\ size[r] \in Nat
           /\ unread[r] + toSend[r] <= size[r]
<1>1. unread[r] \in Nat /\ toSend[r] \in Int /\ unread[r] + toSend[r] <= size[r]
  BY DEF PeerTypes
<1>2. size[r] \in Size \cup {0}
  BY DEF PeerTypes
<1>3. \A n \in Size \cup {0} : n \in Nat
  BY ExchangeAssumption
<1>4. size[r] \in Nat
  BY <1>2, <1>3
<1> QED BY <1>1, <1>4

\* A process that ends changes none of them but what it closes.
LEMMA EndsType ==
    ASSUME TypeOK, NEW h \in Host, NEW why \in Cause,
           Ends(h, why)
    PROVE  TypeOK'
<1> USE DEF TypeOK, Ends, callerVars, peerVars, socketVars
<1>1. CallerTypes'
  BY DEF CallerTypes
<1>2. SocketTypes'
  <2>1. << >> \in Seq(Request)
    OBVIOUS
  <2>2. /\ [p \in Port |-> None] \in [Port -> Caller \cup {None}]
        /\ [p \in Port |-> << >>] \in [Port -> Seq(Request)]
    BY <2>1
  <2> QED BY <2>2 DEF SocketTypes, Sock!CloseAllSockets
<1>3. PeerTypes'
  BY DEF PeerTypes
<1> QED BY <1>1, <1>2, <1>3

\* Hanging up closes what is open.
LEMMA HangUpType ==
    ASSUME TypeOK, Accepted, NEW t \in Caller, Reading(t), HangUp(t)
    PROVE  /\ SocketTypes' /\ accepted' \in [Caller -> Request \cup {None}]
           /\ accepted[t] \in Request
           /\ unread' \in [Request -> Nat]
              /\ (\A r \in Request : unread'[r] <= unread[r]) => PeerTypes'
<1> USE DEF TypeOK, HangUp, Sock!CloseListeningSocket
<1>1. accepted[t] \in Request
  BY DEF Accepted, CallerTypes
<1>2. SocketTypes'
  BY DEF SocketTypes, CallerTypes
<1>3. accepted' \in [Caller -> Request \cup {None}]
  BY DEF CallerTypes
<1>4. header' \in [Request -> Host \cup {Absent, None} \cup Int]
  BY DEF PeerTypes
<1>5. ASSUME unread' \in [Request -> Nat], \A r \in Request : unread'[r] <= unread[r]
      PROVE  PeerTypes'
  <2>1. \A r \in Request : unread'[r] + toSend'[r] <= size'[r]
    <3>1. ASSUME NEW r \in Request PROVE unread'[r] + toSend[r] <= size[r]
      <4>1. unread'[r] \in Nat /\ unread'[r] <= unread[r]
        BY <1>5
      <4> QED BY <4>1, PeerFacts
    <3> QED BY <3>1
  <2> QED BY <1>4, <1>5, <2>1 DEF PeerTypes
<1> QED BY <1>1, <1>2, <1>3, <1>5

\* The menu reads the answer to its own call.
LEMMA MenuReads ==
    ASSUME OwnAnswer, Accepted, Ports, Reading(Ui)
    PROVE  /\ accepted[Ui] = Current(Ui)
           /\ pc[Ui] \in {"header", "body"} => accepted[Ui][3] = "download"
<1>1. Ui \in Caller
  BY DEF Caller
<1>2. accepted[Ui] = Current(Ui)
  BY <1>1 DEF OwnAnswer, Accepted, Ports
<1>3. Current(Ui)[3] = Kind(Ui)
  BY DEF Current
<1> QED BY <1>2, <1>3 DEF Kind

\* Types are kept.
LEMMA TypeStep ==
    ASSUME TypeOK, Routes, Headers, [Next]_vars
    PROVE  TypeOK'
<1> USE DEF TypeOK, Goto, Running, callerVars, peerVars, socketVars
<1>1. ASSUME NEW t \in Caller, NEW p \in Port, NEW s \in Peer, SendLookup(t, p, s) PROVE TypeOK'
  <2>1. CallerTypes'
    BY <1>1, CallsBound DEF SendLookup, CallerTypes
  <2>2. SocketTypes'
    BY <1>1 DEF SendLookup, SocketTypes
  <2>3. PeerTypes'
    BY <1>1, CallsBound DEF SendLookup, PeerTypes, Ask, CallerTypes
  <2> QED BY <2>1, <2>2, <2>3
<1>2. ASSUME FindHere PROVE TypeOK'
  <2>1. CallerTypes'
    BY <1>2, CallsBound DEF FindHere, CallerTypes, Caller
  <2>2. SocketTypes'
    BY <1>2 DEF FindHere, SocketTypes
  <2>3. PeerTypes'
    BY <1>2 DEF FindHere, PeerTypes
  <2> QED BY <2>1, <2>2, <2>3
<1>3. ASSUME SendDownload PROVE TypeOK'
  <2>1. CallerTypes'
    BY <1>3 DEF SendDownload, CallerTypes, Port
  <2>2. SocketTypes'
    BY <1>3 DEF SendDownload, SocketTypes
  <2>3. PeerTypes'
    <3>1. owner \in Peer
      BY <1>3, ExchangeAssumption DEF SendDownload, CallerTypes, Host
    <3>2. UiPort \in Port
      BY DEF Port
    <3> QED BY <3>1, <3>2, <1>3 DEF SendDownload, PeerTypes, Ask
  <2> QED BY <2>1, <2>2, <2>3
<1>4. ASSUME NEW t \in Caller, SendNowhere(t) PROVE TypeOK'
  BY <1>4, EndsType DEF SendNowhere, Host, At, CallerTypes, Cause
<1>5. ASSUME NEW t \in Caller, Listen(t) PROVE TypeOK'
  <2>1. CallerTypes'
    BY <1>5 DEF Listen, CallerTypes
  <2>2. SocketTypes'
    BY <1>5 DEF Listen, SocketTypes, Sock!InitializeServer
  <2>3. PeerTypes'
    BY <1>5 DEF Listen, PeerTypes
  <2> QED BY <2>1, <2>2, <2>3
<1>6. ASSUME NEW t \in Caller, CannotListen(t) PROVE TypeOK'
  BY <1>6, EndsType DEF CannotListen, Host, At, CallerTypes, Cause
<1>7. ASSUME NEW t \in Caller, Accept(t) PROVE TypeOK'
  <2>1. CallerTypes'
    BY <1>7 DEF Accept, CallerTypes
  <2>2. SocketTypes'
    BY <1>7 DEF Accept, SocketTypes, Sock!ServerAcceptConnection, CallerTypes
  <2>3. PeerTypes'
    BY <1>7 DEF Accept, PeerTypes
  <2> QED BY <2>1, <2>2, <2>3
<1>8. ASSUME NEW t \in Caller, ReadAnswer(t) PROVE TypeOK'
  <2>0. Reading(t) /\ HangUp(t) /\ Accepted
    BY <1>8 DEF ReadAnswer, Reading, Routes
  <2>1. CallerTypes'
    BY <1>8, <2>0, HangUpType DEF ReadAnswer, CallerTypes
  <2>2. SocketTypes' /\ PeerTypes'
    <3>1. unread' = unread
      BY <1>8 DEF ReadAnswer
    <3> QED BY <3>1, <2>0, HangUpType DEF PeerTypes
  <2> QED BY <2>1, <2>2
<1>9. ASSUME NEW t \in Caller, ReadNothing(t) PROVE TypeOK'
  <2>0. Reading(t) /\ HangUp(t) /\ Accepted
    BY <1>9 DEF ReadNothing, Reading, Routes
  <2>1. CallerTypes'
    BY <1>9, <2>0, HangUpType DEF ReadNothing, CallerTypes
  <2>2. SocketTypes' /\ PeerTypes'
    <3>1. unread' = unread
      BY <1>9 DEF ReadNothing
    <3> QED BY <3>1, <2>0, HangUpType DEF PeerTypes
  <2> QED BY <2>1, <2>2
<1>10. ASSUME NEW t \in Caller, BelieveNothing(t) PROVE TypeOK'
  BY <1>10, EndsType DEF BelieveNothing, Host, At, CallerTypes, Cause
<1>11. ASSUME NoLength PROVE TypeOK'
  <2>0. Reading(Ui) /\ HangUp(Ui) /\ Accepted
    BY <1>11 DEF NoLength, Reading, Routes, Caller
  <2>1. CallerTypes'
    BY <1>11, <2>0, HangUpType DEF NoLength, Caller, CallerTypes
  <2>2. SocketTypes' /\ PeerTypes'
    <3>1. unread' = unread
      BY <1>11 DEF NoLength
    <3> QED BY <3>1, <2>0, HangUpType DEF PeerTypes, Caller
  <2> QED BY <2>1, <2>2
<1>12. ASSUME OpenFile PROVE TypeOK'
  <2> DEFINE c == accepted[Ui]
  <2>0. Reading(Ui) /\ Accepted /\ c \in Request /\ Ui \in Caller
    BY <1>12 DEF OpenFile, Reading, Routes, Accepted, CallerTypes, Caller
  <2>1. header[c] \in Int /\ size[c] \in Size
    <3>1. c[3] = "download"
      BY <1>12, <2>0, MenuReads DEF OpenFile, Routes
    <3> QED BY <2>0, <3>1, <1>12, AsIntRange, ExchangeAssumption DEF OpenFile, Headers, Header
  <2>2. length' = header[c] /\ disk' = [has |-> 0, of |-> size[c]]
    BY <1>12 DEF OpenFile
  <2>3. CASE length' > 0
    <3>1. /\ Goto(Ui, "body") /\ UNCHANGED << accepted, socketVars, peerVars >>
          /\ UNCHANGED << up, call, port, owner, doubtful, cause >>
      BY <1>12, <2>3 DEF OpenFile
    <3>2. CallerTypes'
      BY <2>1, <2>2, <3>1 DEF CallerTypes
    <3> QED BY <3>1, <3>2 DEF SocketTypes, PeerTypes
  <2>4. CASE ~(length' > 0)
    <3>1. /\ Goto(Ui, "idle") /\ HangUp(Ui) /\ UNCHANGED unread
          /\ UNCHANGED << up, call, port, owner, doubtful, cause >>
      BY <1>12, <2>4 DEF OpenFile
    <3>2. accepted' \in [Caller -> Request \cup {None}] /\ SocketTypes' /\ PeerTypes'
      BY <2>0, <3>1, HangUpType DEF PeerTypes
    <3>3. CallerTypes'
      BY <2>1, <2>2, <3>1, <3>2 DEF CallerTypes
    <3> QED BY <3>2, <3>3
  <2> QED BY <2>3, <2>4
<1>13. ASSUME ReadBlock PROVE TypeOK'
  <2> DEFINE c == accepted[Ui]
  <2>0. Reading(Ui) /\ Accepted /\ c \in Request /\ Ui \in Caller
    BY <1>13 DEF ReadBlock, Reading, Routes, Accepted, CallerTypes, Caller
  <2>1. PICK k \in 1 .. Least(MaxLength, unread[c]) :
              /\ unread' = [unread EXCEPT ![c] = @ - k]
              /\ disk' = [disk EXCEPT !.has = @ + k]
              /\ length' = length - k
    BY <1>13 DEF ReadBlock
  <2>2. k \in Nat /\ k <= unread[c] /\ unread[c] \in Nat
    BY <2>0, <2>1, ExchangeAssumption DEF Least, PeerTypes
  <2>3. /\ unread' \in [Request -> Nat]
        /\ \A r \in Request : unread'[r] <= unread[r]
    BY <2>0, <2>1, <2>2 DEF PeerTypes
  <2>4. length' \in Int /\ disk' \in [has : Nat, of : Size \cup {None}]
    BY <2>1, <2>2 DEF CallerTypes
  <2>5. CASE length' > 0
    <3>1. /\ UNCHANGED << pc, accepted, socketVars, phase, server, replyTo, size, toSend,
                          header >>
          /\ UNCHANGED << up, call, port, owner, doubtful, cause >>
      BY <1>13, <2>5 DEF ReadBlock
    <3>2. CallerTypes' /\ SocketTypes'
      BY <2>4, <3>1 DEF CallerTypes, SocketTypes
    <3>3. \A r \in Request : unread'[r] + toSend'[r] <= size'[r]
      <4>1. ASSUME NEW r \in Request PROVE unread'[r] + toSend[r] <= size[r]
        <5>1. unread'[r] \in Nat /\ unread'[r] <= unread[r]
          BY <2>3
        <5> QED BY <5>1, PeerFacts
      <4> QED BY <3>1, <4>1
    <3> QED BY <2>3, <3>1, <3>2, <3>3 DEF PeerTypes
  <2>6. CASE ~(length' > 0)
    <3>1. /\ Goto(Ui, "idle") /\ HangUp(Ui)
          /\ UNCHANGED << up, call, port, owner, doubtful, cause >>
      BY <1>13, <2>6 DEF ReadBlock
    <3>2. accepted' \in [Caller -> Request \cup {None}] /\ SocketTypes' /\ PeerTypes'
      BY <2>0, <2>3, <3>1, HangUpType
    <3>3. CallerTypes'
      BY <2>4, <3>1, <3>2 DEF CallerTypes
    <3> QED BY <3>2, <3>3
  <2> QED BY <2>5, <2>6
<1>14. ASSUME FileBreaksOff PROVE TypeOK'
  BY <1>14, EndsType DEF FileBreaksOff, Host, At, CallerTypes, Cause
<1>15. ASSUME NEW r \in Request, NEW s \in Peer, Forward(r, s) PROVE TypeOK'
  <2>1. CallerTypes'
    BY <1>15 DEF Forward, CallerTypes
  <2>2. SocketTypes'
    BY <1>15 DEF Forward, SocketTypes, Sock!ClientRequestConnection, PeerTypes
  <2>3. PeerTypes'
    BY <1>15 DEF Forward, PeerTypes, At, Returns
  <2> QED BY <2>1, <2>2, <2>3
<1>16. ASSUME NEW r \in Request, ForwardNowhere(r) PROVE TypeOK'
  BY <1>16, EndsType DEF ForwardNowhere, Host, At, CallerTypes, Cause
<1>17. ASSUME NEW r \in Request, Connect(r) PROVE TypeOK'
  <2>1. CallerTypes'
    BY <1>17 DEF Connect, CallerTypes
  <2>2. SocketTypes'
    BY <1>17 DEF Connect, SocketTypes, Sock!ClientRequestConnection, PeerTypes
  <2>3. PeerTypes'
    <3>1. PICK n \in IF IsLookup(r) THEN {0} ELSE Size :
                  /\ size' = [size EXCEPT ![r] = n]
                  /\ toSend' = [toSend EXCEPT ![r] = AsInt(n)]
      BY <1>17 DEF Connect
    <3>2. n \in Nat /\ n \in Size \cup {0}
      BY ExchangeAssumption
    <3>3. AsInt(n) \in Int /\ AsInt(n) <= n
      BY <3>2, AsIntRange
    <3>4. unread' = unread /\ unread[r] = 0
      BY <1>17 DEF Connect, At, Headers, Header
    <3>5. \A q \in Request : unread'[q] + toSend'[q] <= size'[q]
      BY <3>1, <3>2, <3>3, <3>4 DEF PeerTypes
    <3> QED BY <3>1, <3>2, <3>3, <3>5, <1>17 DEF Connect, PeerTypes
  <2> QED BY <2>1, <2>2, <2>3
<1>18. ASSUME NEW r \in Request, ConnectAndClose(r) PROVE TypeOK'
  <2>1. CallerTypes'
    BY <1>18 DEF ConnectAndClose, CallerTypes
  <2>2. SocketTypes'
    BY <1>18 DEF ConnectAndClose, SocketTypes, Sock!ClientRequestConnection, PeerTypes
  <2>3. PeerTypes'
    BY <1>18 DEF ConnectAndClose, PeerTypes, At, Returns
  <2> QED BY <2>1, <2>2, <2>3
<1>19. ASSUME NEW r \in Request, ConnectNowhere(r) PROVE TypeOK'
  BY <1>19, EndsType DEF ConnectNowhere, Host, At, CallerTypes, Cause
<1>20. ASSUME NEW r \in Request, SendAnswer(r) PROVE TypeOK'
  <2>1. CallerTypes'
    BY <1>20 DEF SendAnswer, CallerTypes
  <2>2. SocketTypes'
    BY <1>20 DEF SendAnswer, SocketTypes, Sock!ClientRequestConnection, PeerTypes
  <2>3. PeerTypes'
    BY <1>20 DEF SendAnswer, PeerTypes, At, Returns
  <2> QED BY <2>1, <2>2, <2>3
<1>21. ASSUME NEW r \in Request, SendLength(r) PROVE TypeOK'
  <2>1. CallerTypes'
    BY <1>21 DEF SendLength, CallerTypes
  <2>2. SocketTypes'
    BY <1>21 DEF SendLength, SocketTypes
  <2>3. PeerTypes'
    BY <1>21, AsIntRange, ExchangeAssumption DEF SendLength, PeerTypes, At
  <2> QED BY <2>1, <2>2, <2>3
<1>22. ASSUME NEW r \in Request, SendBlock(r) PROVE TypeOK'
  <2>1. CallerTypes'
    BY <1>22 DEF SendBlock, CallerTypes
  <2>2. SocketTypes'
    BY <1>22 DEF SendBlock, SocketTypes
  <2>3. PeerTypes'
    <3> DEFINE k == Least(MaxLength, toSend[r])
    <3>1. toSend[r] \in Int /\ toSend[r] > 0 /\ unread[r] \in Nat
      BY <1>22 DEF SendBlock, PeerTypes
    <3>2. k \in Nat
      BY <3>1, LeastRange, ExchangeAssumption
    <3>3. /\ unread' = [unread EXCEPT ![r] = @ + k]
          /\ toSend' = [toSend EXCEPT ![r] = @ - k]
          /\ UNCHANGED << phase, server, replyTo, size, header >>
      BY <1>22 DEF SendBlock
    <3> HIDE DEF k
    <3>4. unread'[r] \in Nat /\ toSend'[r] \in Int
          /\ unread'[r] + toSend'[r] = unread[r] + toSend[r]
      BY <3>1, <3>2, <3>3 DEF PeerTypes
    <3>5. \A q \in Request : unread'[q] + toSend'[q] <= size'[q]
      BY <3>3, <3>4 DEF PeerTypes
    <3> QED BY <3>3, <3>4, <3>5 DEF PeerTypes
  <2> QED BY <2>1, <2>2, <2>3
<1>23. ASSUME NEW r \in Request, CloseFile(r) PROVE TypeOK'
  <2>1. CallerTypes'
    BY <1>23 DEF CloseFile, CallerTypes
  <2>2. SocketTypes'
    BY <1>23 DEF CloseFile, SocketTypes, Sock!ClientRequestConnection, PeerTypes
  <2>3. PeerTypes'
    BY <1>23 DEF CloseFile, PeerTypes, At, Returns
  <2> QED BY <2>1, <2>2, <2>3
<1>24. ASSUME NEW r \in Request, SendBreaksOff(r) PROVE TypeOK'
  BY <1>24, EndsType DEF SendBreaksOff, Host, At, CallerTypes, Cause
<1>25. ASSUME NEW h \in Host, UserExit(h) PROVE TypeOK'
  BY <1>25, EndsType DEF UserExit, Host, At, CallerTypes, Cause
<1>26. CASE UNCHANGED vars
  <2>1. CallerTypes'
    BY <1>26 DEF vars, CallerTypes
  <2>2. SocketTypes'
    BY <1>26 DEF vars, SocketTypes
  <2>3. PeerTypes'
    BY <1>26 DEF vars, PeerTypes
  <2> QED BY <2>1, <2>2, <2>3
<1> QED BY <1>1, <1>2, <1>3, <1>4, <1>5, <1>6, <1>7, <1>8, <1>9, <1>10, <1>11,
           <1>12, <1>13, <1>14, <1>15, <1>16, <1>17, <1>18, <1>19, <1>20, <1>21, <1>22,
           <1>23, <1>24, <1>25, <1>26
        DEF Next, CallerStep, PeerStep

-----------------------------------------------------------------------------
(* Whose answer is accepted.  The actions fall into a few kinds of step.   *)

\* A call ends, or goes on to ask for the file.
Finishes(t) ==
    /\ Reading(t) /\ HangUp(t)
    /\ \/ Goto(t, "idle")
       \/ t = Ui /\ pc[Ui] = "read" /\ Goto(Ui, "ask")
    /\ UNCHANGED << up, call, port, doubtful >>

\* The menu reads on.
ReadsOn ==
    /\ pc[Ui] \in {"header", "body"} /\ pc' = [pc EXCEPT ![Ui] = "body"]
    /\ UNCHANGED << up, call, port, accepted, socketVars, phase, server, replyTo, doubtful >>

\* A peer makes the connection to the asking host.
Connects(r) ==
    /\ phase[r] \in {"asked", "routed"} /\ server[r] \in up
    /\ Sock!ClientRequestConnection(replyTo[r], r)
    /\ \E l \in Answering : phase' = [phase EXCEPT ![r] = l]
    /\ server' = server \/ server' = [server EXCEPT ![r] = None]
    /\ UNCHANGED << up, pc, call, port, accepted, replyTo, doubtful >>

\* A peer sends on a connection it has made.
Serves(r) ==
    /\ phase[r] \in Answering
    /\ phase' = phase \/ \E l \in Answering : phase' = [phase EXCEPT ![r] = l]
    /\ server' = server \/ server' = [server EXCEPT ![r] = None]
    /\ UNCHANGED << up, pc, call, port, accepted, socketVars, replyTo, doubtful >>

\* A process ends, with the ports of this host or without them.
Stops ==
    /\ \E h \in Host : up' = up \ {h}
    /\ UNCHANGED socketVars \/ Sock!CloseAllSockets
    /\ UNCHANGED << pc, call, port, accepted, phase, server, replyTo, doubtful >>

\* The kinds of steps that routes depend on.
RouteStep ==
    \/ \E t \in Caller : \/ \E p \in Port, s \in Peer : SendLookup(t, p, s)
                         \/ Listen(t) \/ Accept(t) \/ Finishes(t)
    \/ FindHere \/ SendDownload \/ ReadsOn
    \/ \E r \in Request : \/ \E s \in Peer : Forward(r, s)
                          \/ Connects(r) \/ Serves(r)
    \/ Stops
    \/ UNCHANGED vars

\* A process that ends stops, and nothing else happens.
LEMMA EndsStop ==
    ASSUME NEW h \in Host, NEW why, Ends(h, why)
    PROVE  Stops
BY DEF Ends, Stops, callerVars, peerVars

\* Every step is of one of these kinds, as far as answers find their way.
LEMMA RouteSteps ==
    ASSUME TypeOK, [Next]_vars
    PROVE  RouteStep
<1> USE DEF RouteStep, callerVars, peerVars, socketVars, Running, Answering
<1>0. Ui \in Caller
  BY DEF Caller
<1>1. ASSUME NEW t \in Caller, NEW p \in Port, NEW s \in Peer, SendLookup(t, p, s) PROVE RouteStep
  BY <1>1
<1>2. ASSUME FindHere PROVE RouteStep
  BY <1>2
<1>3. ASSUME SendDownload PROVE RouteStep
  BY <1>3
<1>4. ASSUME NEW t \in Caller, SendNowhere(t) PROVE RouteStep
  <2>1. Stops
    BY <1>4, EndsStop DEF SendNowhere, Host, At, TypeOK, CallerTypes
  <2> QED BY <2>1
<1>5. ASSUME NEW t \in Caller, Listen(t) PROVE RouteStep
  BY <1>5
<1>6. ASSUME NEW t \in Caller, CannotListen(t) PROVE RouteStep
  <2>1. Stops
    BY <1>6, EndsStop DEF CannotListen, Host, At, TypeOK, CallerTypes
  <2> QED BY <2>1
<1>7. ASSUME NEW t \in Caller, Accept(t) PROVE RouteStep
  BY <1>7
<1>8. ASSUME NEW t \in Caller, ReadAnswer(t) PROVE RouteStep
  <2>1. Finishes(t)
    BY <1>8, <1>0 DEF ReadAnswer, Finishes, Reading, HangUp
  <2> QED BY <2>1, <1>0
<1>9. ASSUME NEW t \in Caller, ReadNothing(t) PROVE RouteStep
  <2>1. Finishes(t)
    BY <1>9, <1>0 DEF ReadNothing, Finishes, Reading, HangUp
  <2> QED BY <2>1, <1>0
<1>10. ASSUME NEW t \in Caller, BelieveNothing(t) PROVE RouteStep
  <2>1. Stops
    BY <1>10, EndsStop DEF BelieveNothing, Host, At, TypeOK, CallerTypes
  <2> QED BY <2>1
<1>11. ASSUME NoLength PROVE RouteStep
  <2>1. Finishes(Ui)
    BY <1>11, <1>0 DEF NoLength, Finishes, Reading, HangUp
  <2> QED BY <2>1, <1>0
<1>12. ASSUME OpenFile PROVE RouteStep
  <2>1. CASE length' > 0
    <3>1. ReadsOn
      BY <1>12, <2>1 DEF OpenFile, ReadsOn, Goto
    <3> QED BY <3>1
  <2>2. CASE ~(length' > 0)
    <3>1. Finishes(Ui)
      BY <1>12, <2>2 DEF OpenFile, Finishes, Reading, HangUp
    <3> QED BY <3>1, <1>0
  <2> QED BY <2>1, <2>2
<1>13. ASSUME ReadBlock PROVE RouteStep
  <2>1. CASE length' > 0
    <3>1. ReadsOn
      <4>1. pc' = [pc EXCEPT ![Ui] = "body"]
        BY <1>13, <2>1, <1>0 DEF ReadBlock, TypeOK, CallerTypes
      <4> QED BY <1>13, <2>1, <4>1 DEF ReadBlock, ReadsOn
    <3> QED BY <3>1
  <2>2. CASE ~(length' > 0)
    <3>1. Finishes(Ui)
      BY <1>13, <2>2 DEF ReadBlock, Finishes, Reading, HangUp
    <3> QED BY <3>1, <1>0
  <2> QED BY <2>1, <2>2
<1>14. ASSUME FileBreaksOff PROVE RouteStep
  <2>1. Stops
    BY <1>14, EndsStop DEF FileBreaksOff, Host, At, TypeOK, CallerTypes
  <2> QED BY <2>1
<1>15. ASSUME NEW r \in Request, NEW s \in Peer, Forward(r, s) PROVE RouteStep
  BY <1>15
<1>16. ASSUME NEW r \in Request, ForwardNowhere(r) PROVE RouteStep
  <2>1. Stops
    BY <1>16, EndsStop DEF ForwardNowhere, Host, At, TypeOK, CallerTypes
  <2> QED BY <2>1
<1>17. ASSUME NEW r \in Request, Connect(r) PROVE RouteStep
  <2>1. Connects(r)
    BY <1>17 DEF Connect, Connects, At, Returns
  <2> QED BY <2>1
<1>18. ASSUME NEW r \in Request, ConnectAndClose(r) PROVE RouteStep
  <2>1. Connects(r)
    BY <1>18 DEF ConnectAndClose, Connects, At, Returns
  <2> QED BY <2>1
<1>19. ASSUME NEW r \in Request, ConnectNowhere(r) PROVE RouteStep
  <2>1. Stops
    BY <1>19, EndsStop DEF ConnectNowhere, Host, At, TypeOK, CallerTypes
  <2> QED BY <2>1
<1>20. ASSUME NEW r \in Request, SendAnswer(r) PROVE RouteStep
  <2>1. Serves(r)
    BY <1>20 DEF SendAnswer, Serves, At, Returns
  <2> QED BY <2>1
<1>21. ASSUME NEW r \in Request, SendLength(r) PROVE RouteStep
  <2>1. Serves(r)
    BY <1>21 DEF SendLength, Serves, At, Returns
  <2> QED BY <2>1
<1>22. ASSUME NEW r \in Request, SendBlock(r) PROVE RouteStep
  <2>1. Serves(r)
    BY <1>22 DEF SendBlock, Serves, At, Returns
  <2> QED BY <2>1
<1>23. ASSUME NEW r \in Request, CloseFile(r) PROVE RouteStep
  <2>1. Serves(r)
    BY <1>23 DEF CloseFile, Serves, At, Returns
  <2> QED BY <2>1
<1>24. ASSUME NEW r \in Request, SendBreaksOff(r) PROVE RouteStep
  <2>1. Stops
    BY <1>24, EndsStop DEF SendBreaksOff, Host, At, TypeOK, CallerTypes
  <2> QED BY <2>1
<1>25. ASSUME NEW h \in Host, UserExit(h) PROVE RouteStep
  <2>1. Stops
    BY <1>25, EndsStop DEF UserExit, Host, At, TypeOK, CallerTypes
  <2> QED BY <2>1
<1>26. CASE UNCHANGED vars
  BY <1>26
<1> QED BY <1>1, <1>2, <1>3, <1>4, <1>5, <1>6, <1>7, <1>8, <1>9, <1>10, <1>11,
           <1>12, <1>13, <1>14, <1>15, <1>16, <1>17, <1>18, <1>19, <1>20, <1>21, <1>22,
           <1>23, <1>24, <1>25, <1>26
        DEF Next, CallerStep, PeerStep

-----------------------------------------------------------------------------
\* What the steps do to the backlogs.
LEMMA AppendedWait ==
    ASSUME TypeOK, NEW r \in Request, NEW p \in Port, Sock!ClientRequestConnection(p, r),
           NEW q \in Port, NEW c \in Request, Waits(q, c)'
    PROVE  Waits(q, c) \/ (q = p /\ c = r)
<1>1. PICK i \in 1 .. Len(backlog'[q]) : backlog'[q][i] = c
  BY DEF Waits
<1>2. CASE q # p
  BY <1>1, <1>2 DEF Waits, Sock!ClientRequestConnection, TypeOK, SocketTypes
<1>3. CASE q = p
  <2>1. backlog'[q] = Append(backlog[q], r) /\ backlog[q] \in Seq(Request)
    BY <1>3 DEF Sock!ClientRequestConnection, TypeOK, SocketTypes
  <2>2. i \in 1 .. Len(backlog[q]) + 1
    BY <1>1, <2>1
  <2>3. CASE i = Len(backlog[q]) + 1
    BY <1>1, <1>3, <2>1, <2>3
  <2>4. CASE i \in 1 .. Len(backlog[q])
    BY <1>1, <2>1, <2>4 DEF Waits
  <2> QED BY <2>1, <2>2, <2>3, <2>4
<1> QED BY <1>2, <1>3

\* Accepting takes a connection out of its port's backlog, and no other.
LEMMA AcceptedWait ==
    ASSUME TypeOK, NEW p \in Port, NEW r \in Request, Sock!ServerAcceptConnection(p, r)
    PROVE  /\ Waits(p, r)
           /\ \A q \in Port, c \in Request : Waits(q, c)' => Waits(q, c)
           /\ \A q \in Port : backlog'[q] # << >> => backlog[q] # << >>
<1> USE DEF Sock!ServerAcceptConnection, TypeOK, SocketTypes
<1>1. backlog[p] \in Seq(Request) /\ backlog[p] # << >> /\ r = Head(backlog[p])
  OBVIOUS
<1>2. Waits(p, r)
  <2>1. 1 \in 1 .. Len(backlog[p]) /\ backlog[p][1] = r
    BY <1>1
  <2> QED BY <2>1 DEF Waits
<1>3. ASSUME NEW q \in Port, NEW c \in Request, Waits(q, c)' PROVE Waits(q, c)
  <2>1. PICK i \in 1 .. Len(backlog'[q]) : backlog'[q][i] = c
    BY <1>3 DEF Waits
  <2>2. CASE q # p
    BY <2>1, <2>2 DEF Waits
  <2>3. CASE q = p
    <3>1. backlog'[p] = Tail(backlog[p])
      OBVIOUS
    <3>2. i + 1 \in 1 .. Len(backlog[p]) /\ backlog[p][i + 1] = c
      BY <1>1, <2>1, <2>3, <3>1
    <3> QED BY <2>3, <3>2 DEF Waits
  <2> QED BY <2>2, <2>3
<1>4. \A q \in Port : backlog'[q] # << >> => backlog[q] # << >>
  BY <1>1
<1> QED BY <1>2, <1>3, <1>4

\* Hanging up empties the backlog of the port.
LEMMA ClosedWait ==
    ASSUME TypeOK, NEW p \in Port, Sock!CloseListeningSocket(p),
           NEW q \in Port, NEW c \in Request, Waits(q, c)'
    PROVE  Waits(q, c) /\ q # p
<1>1. PICK i \in 1 .. Len(backlog'[q]) : backlog'[q][i] = c
  BY DEF Waits
<1>2. q # p
  BY <1>1 DEF Sock!CloseListeningSocket, TypeOK, SocketTypes
<1> QED BY <1>1, <1>2 DEF Waits, Sock!CloseListeningSocket, TypeOK, SocketTypes

\* What is not touched waits as before.
LEMMA SameWaits ==
    ASSUME UNCHANGED backlog
    PROVE  \A q \in Port, c \in Request : Waits(q, c)' <=> Waits(q, c)
BY DEF Waits

\* When processes end no connection begins to wait.
LEMMA StoppedWait ==
    ASSUME Stops, NEW q \in Port, NEW c \in Request, Waits(q, c)'
    PROVE  Waits(q, c)
BY DEF Waits, Stops, socketVars, Sock!CloseAllSockets

-----------------------------------------------------------------------------
\* What the steps do at one caller and one request, and what they leave alone.
OtherCallers(t) ==
    \A u \in Caller \ {t} : /\ pc'[u] = pc[u] /\ call'[u] = call[u]
                            /\ port'[u] = port[u] /\ accepted'[u] = accepted[u]
OtherRequests(r) ==
    \A q \in Request \ {r} : /\ phase'[q] = phase[q] /\ server'[q] = server[q]
                             /\ replyTo'[q] = replyTo[q]

\* Nothing uses the port p, or will.
Unused(p) ==
    /\ \A u \in Caller : Busy(u) => port[u] # p
    /\ \A r \in Request : phase[r] \in {"asked", "routed"} /\ server[r] \in up => replyTo[r] # p
    /\ \A r \in Request : ~Waits(p, r)

\* The requests the next call makes.
NewLookup(t) == << t, call[t] + 1, "lookup" >>
NewDownload == << Ui, call[Ui], "download" >>

\* A request that is sent is a new one, on a port that is used or in doubt.
LEMMA SendLookupFacts ==
    ASSUME TypeOK, Routes, NEW t \in Caller, NEW p \in Port, NEW s \in Peer,
           SendLookup(t, p, s)
    PROVE  /\ NewLookup(t) \in Request /\ phase[NewLookup(t)] = "none" /\ NewLookup(t)[1] = t /\ NewLookup(t)[2] = call[t] + 1
           /\ NewLookup(t)[3] = "lookup"
           /\ OtherCallers(t) /\ OtherRequests(NewLookup(t))
           /\ pc[t] = "idle" /\ pc'[t] = "listen" /\ port'[t] = p
           /\ call[t] \in Nat /\ call'[t] = call[t] + 1 /\ accepted'[t] = accepted[t]
           /\ phase'[NewLookup(t)] = "asked" /\ server'[NewLookup(t)] = s /\ replyTo'[NewLookup(t)] = p
           /\ UNCHANGED << listener, backlog, up >>
           /\ doubtful \subseteq doubtful' /\ doubtful' \subseteq doubtful \cup {p}
           /\ p \notin doubtful' => p \notin doubtful /\ Unused(p)
           /\ p = UiPort => t = Ui
           /\ t = Ui => p = UiPort
           /\ t # Ui => p \in RandomPort
<1> DEFINE r0 == << t, call[t] + 1, "lookup" >>
<1> USE DEF SendLookup, TypeOK, Running, callerVars, peerVars, socketVars
<1>1. call[t] + 1 \in 1 .. MaxCalls /\ call[t] \in Nat /\ call[t] + 1 > call[t]
  BY CallsBound DEF CallerTypes
<1>2. r0 \in Request /\ r0[1] = t /\ r0[2] = call[t] + 1 /\ r0[3] = "lookup"
  BY <1>1 DEF Request
<1>3. phase[r0] = "none"
  BY <1>1, <1>2 DEF Routes, Fresh
<1>4. OtherCallers(t) /\ OtherRequests(r0)
  BY <1>2 DEF OtherCallers, OtherRequests, CallerTypes, PeerTypes, Ask, Goto
<1>5. /\ pc[t] = "idle" /\ pc'[t] = "listen" /\ port'[t] = p
      /\ call'[t] = call[t] + 1 /\ accepted'[t] = accepted[t]
      /\ UNCHANGED << listener, backlog, up >>
  BY DEF CallerTypes, Goto
<1>6. phase'[r0] = "asked" /\ server'[r0] = s /\ replyTo'[r0] = p
  BY <1>2 DEF PeerTypes, Ask
<1>7. doubtful \subseteq doubtful' /\ doubtful' \subseteq doubtful \cup {p}
  OBVIOUS
<1>8. ASSUME p \notin doubtful'
      PROVE  p \notin doubtful /\ Unused(p)
  <2>1. p \notin doubtful /\ ~Awaited(p)
    BY <1>8
  <2>2. \A u \in Caller : Busy(u) => port[u] # p
    BY <2>1 DEF Awaited, Busy
  <2>3. \A r \in Request : phase[r] \in {"asked", "routed"} /\ server[r] \in up => replyTo[r] # p
    BY <2>1 DEF Awaited
  <2>4. ASSUME NEW r \in Request, Waits(p, r) PROVE FALSE
    <3>1. replyTo[r] = p
      BY <2>4 DEF Routes, Connections
    <3>2. Busy(r[1]) /\ port[r[1]] = p
      BY <2>1, <2>4, <3>1 DEF Routes, Pending
    <3> QED BY <2>2, <3>2, RequestParts
  <2> QED BY <2>1, <2>2, <2>3, <2>4 DEF Unused
<1>9. /\ p = UiPort => t = Ui
      /\ t = Ui => p = UiPort
      /\ t # Ui => p \in RandomPort
  BY ExchangeAssumption DEF PortsOf
<1> QED BY <1>1, <1>2, <1>3, <1>4, <1>5, <1>6, <1>7, <1>8, <1>9 DEF NewLookup

\* The menu asks for a file: a fresh request on the menu's port.
LEMMA SendDownloadFacts ==
    ASSUME TypeOK, Routes, SendDownload
    PROVE  /\ OtherCallers(Ui) /\ OtherRequests(NewDownload)
           /\ NewDownload[1] = Ui /\ NewDownload[2] = call[Ui] /\ NewDownload[3] = "download"
           /\ pc[Ui] = "ask" /\ pc'[Ui] = "listen2" /\ port'[Ui] = UiPort
           /\ call'[Ui] = call[Ui] /\ accepted'[Ui] = accepted[Ui]
           /\ NewDownload \in Request =>
                 /\ phase[NewDownload] = "none" /\ phase'[NewDownload] = "asked" /\ replyTo'[NewDownload] = UiPort
           /\ UNCHANGED << listener, backlog, up, doubtful >>
<1> DEFINE r0 == << Ui, call[Ui], "download" >>
<1> USE DEF SendDownload, TypeOK, Running, callerVars, peerVars, socketVars
<1>1. Ui \in Caller
  BY DEF Caller
<1>2. r0 = Current(Ui)
  BY DEF Current, Kind
<1>3. OtherCallers(Ui) /\ OtherRequests(r0)
  BY <1>1, <1>2 DEF OtherCallers, OtherRequests, CallerTypes, PeerTypes, Ask, Goto
<1>4. /\ pc[Ui] = "ask" /\ pc'[Ui] = "listen2" /\ port'[Ui] = UiPort
      /\ call'[Ui] = call[Ui] /\ accepted'[Ui] = accepted[Ui]
      /\ UNCHANGED << listener, backlog, up, doubtful >>
  BY <1>1 DEF CallerTypes, Goto
<1>5. ASSUME r0 \in Request
      PROVE  phase[r0] = "none" /\ phase'[r0] = "asked" /\ replyTo'[r0] = UiPort
  <2>1. phase'[r0] = "asked" /\ replyTo'[r0] = UiPort
    BY <1>2, <1>5 DEF PeerTypes, Ask
  <2>2. r0[1] = Ui /\ r0[2] = call[Ui] /\ r0[3] = "download"
    OBVIOUS
  <2>3. phase[r0] = "none"
    BY <1>4, <1>5, <2>2 DEF Routes, Fresh
  <2> QED BY <2>1, <2>3
<1> QED BY <1>3, <1>4, <1>5 DEF NewDownload

\* The menu begins a call without a request.
LEMMA FindHereFacts ==
    ASSUME TypeOK, FindHere
    PROVE  /\ OtherCallers(Ui)
           /\ pc[Ui] = "idle" /\ pc'[Ui] = "ask" /\ port'[Ui] = port[Ui]
           /\ call[Ui] \in Nat /\ call'[Ui] = call[Ui] + 1 /\ accepted'[Ui] = accepted[Ui]
           /\ UNCHANGED << listener, backlog, up, doubtful, phase, server, replyTo >>
<1>1. Ui \in Caller
  BY DEF Caller
<1> QED BY <1>1 DEF FindHere, OtherCallers, CallerTypes, TypeOK, Running, Goto, callerVars,
                    peerVars, socketVars

\* A caller opens its port, which was closed.
LEMMA ListenFacts ==
    ASSUME TypeOK, NEW t \in Caller, Listen(t)
    PROVE  /\ OtherCallers(t) /\ port[t] \in Port
           /\ pc[t] \in {"listen", "listen2"}
           /\ pc'[t] = IF pc[t] = "listen" THEN "accept" ELSE "accept2"
           /\ call'[t] = call[t] /\ port'[t] = port[t] /\ accepted'[t] = accepted[t]
           /\ listener[port[t]] = None /\ listener'[port[t]] = t
           /\ \A p \in Port \ {port[t]} : listener'[p] = listener[p]
           /\ UNCHANGED << backlog, up, doubtful, phase, server, replyTo >>
BY DEF Listen, OtherCallers, CallerTypes, SocketTypes, TypeOK, Running, Goto, callerVars,
       peerVars, socketVars, Sock!InitializeServer, Sock!IsOpen

\* A caller accepts a connection that waited at its port.
LEMMA AcceptFacts ==
    ASSUME TypeOK, NEW t \in Caller, Accept(t)
    PROVE  /\ OtherCallers(t) /\ port[t] \in Port
           /\ pc[t] \in {"accept", "accept2"}
           /\ pc'[t] = IF pc[t] = "accept" THEN "read" ELSE "header"
           /\ call'[t] = call[t] /\ port'[t] = port[t]
           /\ accepted'[t] \in Request /\ Waits(port[t], accepted'[t])
           /\ \A q \in Port, c \in Request : Waits(q, c)' => Waits(q, c)
           /\ \A q \in Port : backlog'[q] # << >> => backlog[q] # << >>
           /\ UNCHANGED << listener, up, doubtful, phase, server, replyTo >>
<1> USE DEF Accept, TypeOK, Running, Goto, callerVars, peerVars, socketVars
<1>1. PICK c \in Request : /\ Sock!ServerAcceptConnection(port[t], c)
                           /\ accepted' = [accepted EXCEPT ![t] = c]
  OBVIOUS
<1>2. port[t] \in Port /\ accepted'[t] = c
  BY <1>1 DEF CallerTypes
<1>3. /\ Waits(port[t], c)
      /\ \A q \in Port, d \in Request : Waits(q, d)' => Waits(q, d)
      /\ \A q \in Port : backlog'[q] # << >> => backlog[q] # << >>
  BY <1>1, <1>2, AcceptedWait
<1>4. OtherCallers(t)
  BY <1>1 DEF OtherCallers, CallerTypes
<1>5. /\ pc[t] \in {"accept", "accept2"}
      /\ pc'[t] = IF pc[t] = "accept" THEN "read" ELSE "header"
      /\ call'[t] = call[t] /\ port'[t] = port[t]
      /\ UNCHANGED << up, doubtful, phase, server, replyTo >>
  BY DEF CallerTypes
<1>6. listener' = listener
  BY <1>1 DEF Sock!ServerAcceptConnection
<1> QED BY <1>2, <1>3, <1>4, <1>5, <1>6

\* A caller hangs up: its port is closed and what it had accepted is gone.
LEMMA FinishFacts ==
    ASSUME TypeOK, Accepted, NEW t \in Caller, Finishes(t)
    PROVE  /\ OtherCallers(t) /\ port[t] \in Port /\ Reading(t)
           /\ accepted[t] \in Request /\ accepted'[t] = None
           /\ \/ pc'[t] = "idle"
              \/ t = Ui /\ pc[t] = "read" /\ pc'[t] = "ask"
           /\ call'[t] = call[t] /\ port'[t] = port[t]
           /\ listener'[port[t]] = None /\ backlog'[port[t]] = << >>
           /\ \A p \in Port \ {port[t]} : listener'[p] = listener[p] /\ backlog'[p] = backlog[p]
           /\ \A q \in Port, c \in Request : Waits(q, c)' => Waits(q, c) /\ q # port[t]
           /\ UNCHANGED << up, doubtful, phase, server, replyTo >>
<1> USE DEF Finishes, HangUp, TypeOK, Goto
<1>1. port[t] \in Port /\ accepted[t] \in Request
  BY DEF Accepted, CallerTypes
<1>2. \A q \in Port, c \in Request : Waits(q, c)' => Waits(q, c) /\ q # port[t]
  BY <1>1, ClosedWait
<1>3. /\ listener'[port[t]] = None /\ backlog'[port[t]] = << >>
      /\ \A p \in Port \ {port[t]} : listener'[p] = listener[p] /\ backlog'[p] = backlog[p]
  BY <1>1 DEF Sock!CloseListeningSocket, SocketTypes
<1>4. /\ OtherCallers(t) /\ accepted'[t] = None /\ call'[t] = call[t] /\ port'[t] = port[t]
      /\ \/ pc'[t] = "idle"
         \/ t = Ui /\ pc[t] = "read" /\ pc'[t] = "ask"
  BY DEF OtherCallers, CallerTypes
<1> QED BY <1>1, <1>2, <1>3, <1>4

\* The menu reads on: nothing moves but the file.
LEMMA ReadsOnFacts ==
    ASSUME TypeOK, ReadsOn
    PROVE  /\ OtherCallers(Ui)
           /\ pc[Ui] \in {"header", "body"} /\ pc'[Ui] = "body"
           /\ UNCHANGED << call, port, accepted, listener, backlog, up, doubtful, phase,
                           server, replyTo >>
BY DEF ReadsOn, OtherCallers, TypeOK, CallerTypes, Caller, socketVars

\* A request goes on to another peer.
LEMMA ForwardFacts ==
    ASSUME TypeOK, NEW r \in Request, NEW s \in Peer, Forward(r, s)
    PROVE  /\ OtherRequests(r)
           /\ phase[r] = "asked" /\ phase'[r] = "routed" /\ server[r] \in up
           /\ replyTo'[r] = replyTo[r]
           /\ UNCHANGED << pc, call, port, accepted, listener, backlog, up, doubtful >>
BY DEF Forward, At, OtherRequests, TypeOK, PeerTypes, callerVars, socketVars

\* A connection waits at the port the request names, where somebody listens.
LEMMA ConnectsFacts ==
    ASSUME TypeOK, NEW r \in Request, Connects(r)
    PROVE  /\ OtherRequests(r)
           /\ phase[r] \in {"asked", "routed"} /\ server[r] \in up
           /\ phase'[r] \in Answering /\ replyTo'[r] = replyTo[r]
           /\ replyTo[r] \in Port /\ listener[replyTo[r]] # None
           /\ \A q \in Port, c \in Request :
                 Waits(q, c)' => Waits(q, c) \/ (q = replyTo[r] /\ c = r)
           /\ \A q \in Port \ {replyTo[r]} : backlog'[q] = backlog[q]
           /\ UNCHANGED << pc, call, port, accepted, listener, up, doubtful >>
<1> USE DEF Connects, TypeOK
<1>1. replyTo[r] \in Port
  BY DEF PeerTypes
<1>2. \A q \in Port, c \in Request :
         Waits(q, c)' => Waits(q, c) \/ (q = replyTo[r] /\ c = r)
  BY <1>1, AppendedWait
<1>3. /\ listener[replyTo[r]] # None /\ listener' = listener
      /\ \A q \in Port \ {replyTo[r]} : backlog'[q] = backlog[q]
  BY <1>1 DEF Sock!ClientRequestConnection, Sock!IsOpen, SocketTypes
<1>4. OtherRequests(r) /\ phase'[r] \in Answering /\ replyTo'[r] = replyTo[r]
  BY DEF OtherRequests, PeerTypes
<1> QED BY <1>1, <1>2, <1>3, <1>4

\* A peer sends on its connection, or closes it.
LEMMA ServesFacts ==
    ASSUME TypeOK, NEW r \in Request, Serves(r)
    PROVE  /\ OtherRequests(r)
           /\ phase[r] \in Answering /\ phase'[r] \in Answering
           /\ replyTo'[r] = replyTo[r]
           /\ UNCHANGED << pc, call, port, accepted, listener, backlog, up, doubtful >>
BY DEF Serves, OtherRequests, TypeOK, PeerTypes, socketVars

\* A process ends: no port is opened, no connection is made.
LEMMA StopsFacts ==
    ASSUME TypeOK, Stops
    PROVE  /\ up' \subseteq up
           /\ \A q \in Port, c \in Request : Waits(q, c)' => Waits(q, c)
           /\ \A p \in Port : backlog'[p] # << >> => /\ backlog[p] # << >>
                                                     /\ listener'[p] = listener[p]
           /\ \A q \in Port, c \in Request : Waits(q, c)' => listener'[q] = listener[q]
           /\ \A p \in Port : listener'[p] \in {None, listener[p]}
           /\ UNCHANGED << pc, call, port, accepted, phase, server, replyTo, doubtful >>
<1>1. \A q \in Port, c \in Request : Waits(q, c)' => Waits(q, c)
  BY StoppedWait
<1>2. \A q \in Port, c \in Request : Waits(q, c)' => listener'[q] = listener[q]
  BY DEF Stops, Sock!CloseAllSockets, socketVars, Waits
<1> QED BY <1>1, <1>2 DEF Stops, Sock!CloseAllSockets, socketVars

\* Two calls have one port only when it is in doubt, whatever step is taken.
LEMMA PortsStep ==
    ASSUME TypeOK, Routes, RouteStep
    PROVE  Ports'
<1> USE DEF Routes, Ports, Busy, OtherCallers, Caller
<1>1. ASSUME NEW t \in Caller, NEW p \in Port, NEW s \in Peer, SendLookup(t, p, s) PROVE Ports'
  <2>1. /\ \A u \in Caller \ {t} : pc'[u] = pc[u] /\ port'[u] = port[u]
        /\ pc'[t] = "listen" /\ port'[t] = p
        /\ doubtful \subseteq doubtful' /\ doubtful' \subseteq doubtful \cup {p}
        /\ p \notin doubtful' => p \notin doubtful /\ Unused(p)
    BY <1>1, SendLookupFacts
  <2>2. p = UiPort <=> t = Ui
    BY <1>1, SendLookupFacts
  <2>3. t # Ui => p \in RandomPort
    BY <1>1, SendLookupFacts
  <2>4. t = Ui => UiPort \notin doubtful'
    <3>1. ASSUME t = Ui PROVE ~Awaited(UiPort)
      <4>1. \A u \in Caller : Busy(u) => port[u] # UiPort
        <5>1. ~Busy(Ui)
          BY <3>1, <1>1 DEF SendLookup, Running
        <5> QED BY <5>1, ExchangeAssumption
      <4>2. ASSUME NEW r \in Request, phase[r] \in {"asked", "routed"}, server[r] \in up,
                   replyTo[r] = UiPort
            PROVE  FALSE
        <5>1. Busy(r[1]) /\ port[r[1]] = UiPort /\ r[1] \in Caller
          BY <4>2, RequestParts DEF Pending
        <5> QED BY <4>1, <5>1
      <4> QED BY <4>1, <4>2 DEF Awaited
    <3> QED BY <2>2, <3>1, <1>1 DEF SendLookup
  <2>5. UiPort \notin doubtful' /\ port'[Ui] = UiPort
    BY <2>1, <2>2, <2>4
  <2>6. \A u \in Worker : /\ pc'[u] \in {"idle", "listen", "accept", "read"}
                          /\ pc'[u] # "idle" => port'[u] \in RandomPort
    BY <2>1, <2>3, ExchangeAssumption
  <2>7. ASSUME NEW u \in Caller \ {t}, pc'[u] # "idle", port'[u] = p
        PROVE  p \in doubtful'
    BY <2>1, <2>7 DEF Unused
  <2>8. \A u, v \in Caller : pc'[u] # "idle" /\ pc'[v] # "idle" /\ port'[u] = port'[v] =>
                                u = v \/ port'[u] \in doubtful'
    BY <2>1, <2>7
  <2> QED BY <2>5, <2>6, <2>8
<1>2. ASSUME NEW t \in Caller, Listen(t) PROVE Ports'
  BY <1>2, ListenFacts, ExchangeAssumption
<1>3. ASSUME NEW t \in Caller, Accept(t) PROVE Ports'
  BY <1>3, AcceptFacts, ExchangeAssumption
<1>4. ASSUME NEW t \in Caller, Finishes(t) PROVE Ports'
  BY <1>4, FinishFacts, ExchangeAssumption
<1>5. ASSUME FindHere PROVE Ports'
  BY <1>5, FindHereFacts, ExchangeAssumption
<1>6. ASSUME SendDownload PROVE Ports'
  BY <1>6, SendDownloadFacts, ExchangeAssumption
<1>7. ASSUME ReadsOn PROVE Ports'
  BY <1>7, ReadsOnFacts, ExchangeAssumption
<1>8. ASSUME NEW r \in Request, NEW s \in Peer, Forward(r, s) PROVE Ports'
  BY <1>8, ForwardFacts, ExchangeAssumption
<1>9. ASSUME NEW r \in Request, Connects(r) PROVE Ports'
  BY <1>9, ConnectsFacts, ExchangeAssumption
<1>10. ASSUME NEW r \in Request, Serves(r) PROVE Ports'
  BY <1>10, ServesFacts, ExchangeAssumption
<1>11. ASSUME Stops PROVE Ports'
  BY <1>11, StopsFacts, ExchangeAssumption
<1>12. CASE UNCHANGED vars
  BY <1>12 DEF vars, callerVars, socketVars, peerVars
<1> QED BY <1>1, <1>2, <1>3, <1>4, <1>5, <1>6, <1>7, <1>8, <1>9, <1>10, <1>11, <1>12 DEF RouteStep

\* Only a call's own request is asked, and only when the call is made.
LEMMA FreshStep ==
    ASSUME TypeOK, Routes, RouteStep
    PROVE  Fresh'
<1> USE DEF Routes, Fresh, OtherCallers, OtherRequests, Caller, Reading, Answering
<1>1. ASSUME NEW t \in Caller, NEW p \in Port, NEW s \in Peer, SendLookup(t, p, s) PROVE Fresh'
  <2> DEFINE r0 == NewLookup(t)
  <2>1. /\ \A u \in Caller \ {t} : call'[u] = call[u] /\ pc'[u] = pc[u]
        /\ call[t] \in Nat /\ call'[t] = call[t] + 1
        /\ \A q \in Request \ {r0} : phase'[q] = phase[q]
        /\ r0[1] = t /\ r0[2] = call[t] + 1 /\ r0[3] = "lookup"
    BY <1>1, SendLookupFacts
  <2> HIDE DEF r0
  <2>2. ASSUME NEW r \in Request, r[2] > call'[r[1]] PROVE phase'[r] = "none"
    <3>1. r # r0 /\ r[1] \in Caller /\ r[2] \in Int
      BY <2>1, <2>2, RequestParts
    <3>2. r[2] > call[r[1]]
      BY <2>1, <2>2, <3>1
    <3> QED BY <2>1, <3>1, <3>2
  <2>3. ASSUME NEW r \in Request, r[1] = Ui, r[2] = call'[Ui], r[3] = "download",
               pc'[Ui] \in {"listen", "accept", "read", "ask"}
        PROVE  phase'[r] = "none"
    <3>1. r # r0
      BY <2>1, <2>3
    <3>2. CASE t = Ui
      <4>1. r[2] > call[r[1]]
        BY <2>1, <2>3, <3>2
      <4> QED BY <2>1, <3>1, <4>1
    <3>3. CASE t # Ui
      BY <2>1, <2>3, <3>1, <3>3
    <3> QED BY <3>2, <3>3
  <2> QED BY <2>2, <2>3
<1>2. ASSUME NEW t \in Caller, Listen(t) PROVE Fresh'
  BY <1>2, ListenFacts, RequestParts
<1>3. ASSUME NEW t \in Caller, Accept(t) PROVE Fresh'
  BY <1>3, AcceptFacts, RequestParts
<1>4. ASSUME NEW t \in Caller, Finishes(t) PROVE Fresh'
  BY <1>4, FinishFacts, RequestParts
<1>5. ASSUME FindHere PROVE Fresh'
  BY <1>5, FindHereFacts, RequestParts
<1>6. ASSUME SendDownload PROVE Fresh'
  BY <1>6, SendDownloadFacts, RequestParts
<1>7. ASSUME ReadsOn PROVE Fresh'
  BY <1>7, ReadsOnFacts, RequestParts
<1>8. ASSUME NEW r \in Request, NEW s \in Peer, Forward(r, s) PROVE Fresh'
  BY <1>8, ForwardFacts, RequestParts
<1>9. ASSUME NEW r \in Request, Connects(r) PROVE Fresh'
  BY <1>9, ConnectsFacts, RequestParts
<1>10. ASSUME NEW r \in Request, Serves(r) PROVE Fresh'
  BY <1>10, ServesFacts, RequestParts
<1>11. ASSUME Stops PROVE Fresh'
  BY <1>11, StopsFacts, RequestParts
<1>12. CASE UNCHANGED vars
  BY <1>12 DEF vars, callerVars, socketVars, peerVars
<1> QED BY <1>1, <1>2, <1>3, <1>4, <1>5, <1>6, <1>7, <1>8, <1>9, <1>10, <1>11, <1>12 DEF RouteStep

\* Callers hold a connection exactly while they read.
LEMMA AcceptedStep ==
    ASSUME TypeOK, Routes, RouteStep
    PROVE  Accepted'
<1> USE DEF Routes, Accepted, OtherCallers, OtherRequests, Caller, Reading, Connections, Answering, TypeOK, CallerTypes
<1>1. ASSUME NEW t \in Caller, NEW p \in Port, NEW s \in Peer, SendLookup(t, p, s) PROVE Accepted'
  <2> HIDE DEF TypeOK
  <2>1. /\ \A u \in Caller \ {t} : pc'[u] = pc[u] /\ accepted'[u] = accepted[u]
        /\ pc[t] = "idle" /\ pc'[t] = "listen" /\ accepted'[t] = accepted[t]
        /\ \A u \in Caller \ {t} : port'[u] = port[u]
        /\ \A q \in Request \ {NewLookup(t)} : phase'[q] = phase[q] /\ replyTo'[q] = replyTo[q]
        /\ phase[NewLookup(t)] = "none"
    BY <1>1, SendLookupFacts
  <2>2. \A u \in Caller : accepted[u] # None => accepted[u] \in Request
    BY DEF TypeOK
  <2>3. \A u \in Caller : accepted[u] # None => accepted[u] # NewLookup(t)
    BY <2>1
  <2> QED BY <2>1, <2>2, <2>3
<1>2. ASSUME NEW t \in Caller, Listen(t) PROVE Accepted'
  BY <1>2, ListenFacts, RequestParts
<1>3. ASSUME NEW t \in Caller, Accept(t) PROVE Accepted'
  BY <1>3, AcceptFacts, RequestParts
<1>4. ASSUME NEW t \in Caller, Finishes(t) PROVE Accepted'
  BY <1>4, FinishFacts, RequestParts
<1>5. ASSUME FindHere PROVE Accepted'
  BY <1>5, FindHereFacts, RequestParts
<1>6. ASSUME SendDownload PROVE Accepted'
  BY <1>6, SendDownloadFacts, RequestParts
<1>7. ASSUME ReadsOn PROVE Accepted'
  BY <1>7, ReadsOnFacts, RequestParts
<1>8. ASSUME NEW r \in Request, NEW s \in Peer, Forward(r, s) PROVE Accepted'
  BY <1>8, ForwardFacts, RequestParts
<1>9. ASSUME NEW r \in Request, Connects(r) PROVE Accepted'
  BY <1>9, ConnectsFacts, RequestParts
<1>10. ASSUME NEW r \in Request, Serves(r) PROVE Accepted'
  BY <1>10, ServesFacts, RequestParts
<1>11. ASSUME Stops PROVE Accepted'
  BY <1>11, StopsFacts, RequestParts
<1>12. CASE UNCHANGED vars
  BY <1>12 DEF vars, callerVars, socketVars, peerVars
<1> QED BY <1>1, <1>2, <1>3, <1>4, <1>5, <1>6, <1>7, <1>8, <1>9, <1>10, <1>11, <1>12 DEF RouteStep

\* Connections wait where they were made to.
LEMMA ConnectionsStep ==
    ASSUME TypeOK, Routes, RouteStep
    PROVE  Connections'
<1> USE DEF Routes, Connections, OtherCallers, OtherRequests, Caller, Reading, Answering
<1>1. ASSUME NEW t \in Caller, NEW p \in Port, NEW s \in Peer, SendLookup(t, p, s) PROVE Connections'
  BY <1>1, SendLookupFacts, SameWaits, ExchangeAssumption
<1>2. ASSUME NEW t \in Caller, Listen(t) PROVE Connections'
  BY <1>2, ListenFacts, SameWaits, ExchangeAssumption
<1>3. ASSUME NEW t \in Caller, Accept(t) PROVE Connections'
  BY <1>3, AcceptFacts, SameWaits, ExchangeAssumption
<1>4. ASSUME NEW t \in Caller, Finishes(t) PROVE Connections'
  BY <1>4, FinishFacts, SameWaits, ExchangeAssumption
<1>5. ASSUME FindHere PROVE Connections'
  BY <1>5, FindHereFacts, SameWaits, ExchangeAssumption
<1>6. ASSUME SendDownload PROVE Connections'
  BY <1>6, SendDownloadFacts, SameWaits, ExchangeAssumption
<1>7. ASSUME ReadsOn PROVE Connections'
  BY <1>7, ReadsOnFacts, SameWaits, ExchangeAssumption
<1>8. ASSUME NEW r \in Request, NEW s \in Peer, Forward(r, s) PROVE Connections'
  BY <1>8, ForwardFacts, SameWaits, ExchangeAssumption
<1>9. ASSUME NEW r \in Request, Connects(r) PROVE Connections'
  BY <1>9, ConnectsFacts, SameWaits, ExchangeAssumption
<1>10. ASSUME NEW r \in Request, Serves(r) PROVE Connections'
  BY <1>10, ServesFacts, SameWaits, ExchangeAssumption
<1>11. ASSUME Stops PROVE Connections'
  BY <1>11, StopsFacts, SameWaits, ExchangeAssumption
<1>12. CASE UNCHANGED vars
  BY <1>12, SameWaits DEF vars, callerVars, socketVars, peerVars
<1> QED BY <1>1, <1>2, <1>3, <1>4, <1>5, <1>6, <1>7, <1>8, <1>9, <1>10, <1>11, <1>12 DEF RouteStep

\* Answers on their way are awaited.
LEMMA PendingStep ==
    ASSUME TypeOK, Routes, RouteStep
    PROVE  Pending'
<1> USE DEF Routes, Pending, OtherCallers, OtherRequests, Caller, Busy, Current, Kind
<1>1. ASSUME NEW t \in Caller, NEW p \in Port, NEW s \in Peer, SendLookup(t, p, s) PROVE Pending'
  BY <1>1, SendLookupFacts, SameWaits, RequestParts
<1>2. ASSUME NEW t \in Caller, Listen(t) PROVE Pending'
  BY <1>2, ListenFacts, SameWaits, RequestParts
<1>3. ASSUME NEW t \in Caller, Accept(t) PROVE Pending'
  BY <1>3, AcceptFacts, SameWaits, RequestParts
<1>4. ASSUME NEW t \in Caller, Finishes(t) PROVE Pending'
  <2> SUFFICES ASSUME NEW r \in Request,
                      \/ phase'[r] \in {"asked", "routed"} /\ server'[r] \in up'
                      \/ \E p \in Port : Waits(p, r)',
                      replyTo'[r] \notin doubtful'
               PROVE  pc'[r[1]] # "idle" /\ port'[r[1]] = replyTo'[r] /\ r = Current(r[1])'
    OBVIOUS
  <2>1. /\ phase[r] \in {"asked", "routed"} \/ \E p \in Port : Waits(p, r) /\ p # port[t]
        /\ Busy(r[1]) /\ port[r[1]] = replyTo[r] /\ r = Current(r[1]) /\ replyTo[r] \notin doubtful
    BY <1>4, FinishFacts
  <2>2. r[1] # t
    <3>1. ASSUME r[1] = t PROVE FALSE
      <4>1. accepted[t] = r /\ phase[r] \in Answering
        BY <2>1, <3>1, <1>4, FinishFacts, ExchangeAssumption DEF OwnAnswer, Accepted
      <4>2. PICK p \in Port : Waits(p, r) /\ p # port[t]
        BY <2>1, <4>1 DEF Answering
      <4>3. replyTo[r] = p
        BY <4>2 DEF Connections
      <4> QED BY <2>1, <3>1, <4>2, <4>3
    <3> QED BY <3>1
  <2> QED BY <2>1, <2>2, <1>4, FinishFacts, RequestParts
<1>5. ASSUME FindHere PROVE Pending'
  BY <1>5, FindHereFacts, SameWaits, RequestParts
<1>6. ASSUME SendDownload PROVE Pending'
  BY <1>6, SendDownloadFacts, SameWaits, RequestParts DEF NewDownload
<1>7. ASSUME ReadsOn PROVE Pending'
  BY <1>7, ReadsOnFacts, SameWaits, RequestParts
<1>8. ASSUME NEW r \in Request, NEW s \in Peer, Forward(r, s) PROVE Pending'
  BY <1>8, ForwardFacts, SameWaits, RequestParts
<1>9. ASSUME NEW r \in Request, Connects(r) PROVE Pending'
  BY <1>9, ConnectsFacts, SameWaits, RequestParts
<1>10. ASSUME NEW r \in Request, Serves(r) PROVE Pending'
  BY <1>10, ServesFacts, SameWaits, RequestParts DEF Answering
<1>11. ASSUME Stops PROVE Pending'
  BY <1>11, StopsFacts, SameWaits, RequestParts
<1>12. CASE UNCHANGED vars
  BY <1>12, SameWaits DEF vars, callerVars, socketVars, peerVars
<1> QED BY <1>1, <1>2, <1>3, <1>4, <1>5, <1>6, <1>7, <1>8, <1>9, <1>10, <1>11, <1>12 DEF RouteStep

\* What a caller accepts is what Pending says of what waits at its port.
LEMMA OwnAnswerStep ==
    ASSUME TypeOK, Routes, RouteStep
    PROVE  OwnAnswer'
<1> USE DEF Routes, OwnAnswer, OtherCallers, OtherRequests, Caller, Current, Kind, Accepted, Reading
<1>1. ASSUME NEW t \in Caller, NEW p \in Port, NEW s \in Peer, SendLookup(t, p, s) PROVE OwnAnswer'
  BY <1>1, SendLookupFacts, PortsStep DEF Ports
<1>2. ASSUME NEW t \in Caller, Listen(t) PROVE OwnAnswer'
  BY <1>2, ListenFacts, RequestParts
<1>3. ASSUME NEW t \in Caller, Accept(t) PROVE OwnAnswer'
  <2> DEFINE c == accepted'[t]
  <2>1. c \in Request /\ Waits(port[t], c) /\ port[t] \in Port /\ Busy(t)
    BY <1>3, AcceptFacts DEF Busy
  <2>2. ASSUME port[t] \notin doubtful PROVE c = Current(t)
    <3>1. replyTo[c] = port[t]
      BY <2>1 DEF Connections
    <3>2. Busy(c[1]) /\ port[c[1]] = port[t] /\ c = Current(c[1])
      BY <2>1, <2>2, <3>1 DEF Pending
    <3>3. c[1] = t
      BY <2>1, <2>2, <3>2, RequestParts DEF Ports
    <3> QED BY <3>2, <3>3
  <2>3. Current(t)' = Current(t)
    BY <1>3, AcceptFacts
  <2> HIDE DEF c
  <2> QED BY <2>2, <2>3, <1>3, AcceptFacts DEF c
<1>4. ASSUME NEW t \in Caller, Finishes(t) PROVE OwnAnswer'
  BY <1>4, FinishFacts, RequestParts
<1>5. ASSUME FindHere PROVE OwnAnswer'
  BY <1>5, FindHereFacts, RequestParts
<1>6. ASSUME SendDownload PROVE OwnAnswer'
  BY <1>6, SendDownloadFacts, RequestParts
<1>7. ASSUME ReadsOn PROVE OwnAnswer'
  BY <1>7, ReadsOnFacts, RequestParts
<1>8. ASSUME NEW r \in Request, NEW s \in Peer, Forward(r, s) PROVE OwnAnswer'
  BY <1>8, ForwardFacts, RequestParts
<1>9. ASSUME NEW r \in Request, Connects(r) PROVE OwnAnswer'
  BY <1>9, ConnectsFacts, RequestParts
<1>10. ASSUME NEW r \in Request, Serves(r) PROVE OwnAnswer'
  BY <1>10, ServesFacts, RequestParts
<1>11. ASSUME Stops PROVE OwnAnswer'
  BY <1>11, StopsFacts, RequestParts
<1>12. CASE UNCHANGED vars
  BY <1>12 DEF vars, callerVars, socketVars, peerVars
<1> QED BY <1>1, <1>2, <1>3, <1>4, <1>5, <1>6, <1>7, <1>8, <1>9, <1>10, <1>11, <1>12 DEF RouteStep

-----------------------------------------------------------------------------
(* What is on its way.                                                     *)

\* The end of a process sends nothing.
LEMMA EndsKeepHeaders ==
    ASSUME Headers, NEW h \in Host, NEW why, Ends(h, why)
    PROVE  Headers'
BY DEF Headers, Header, Ends, callerVars, peerVars

\* A request whose connection is left alone.
Still(q) == /\ phase'[q] = phase[q] /\ unread'[q] = unread[q] /\ header'[q] = header[q]
            /\ toSend'[q] = toSend[q] /\ size'[q] = size[q]
Menu == pc'[Ui] = pc[Ui] /\ accepted'[Ui] = accepted[Ui]

\* A connection that is left alone keeps its header.
LEMMA StillHeader ==
    ASSUME NEW q \in Request, Header(q), Still(q),
           Menu \/ pc[Ui] # "body" \/ accepted[Ui] # q
    PROVE  Header(q)'
BY DEF Header, Still, Menu

\* A handler sends what is left, and no more than its header says.
LEMMA HeadersStep ==
    ASSUME TypeOK, Routes, Headers, [Next]_vars
    PROVE  Headers'
<1> USE DEF Headers
<1>1. ASSUME NEW t \in Caller, NEW p \in Port, NEW s \in Peer, SendLookup(t, p, s) PROVE Headers'
  <2>1. NewLookup(t) \in Request /\ phase[NewLookup(t)] = "none"
    BY <1>1, SendLookupFacts
  <2>2. \A q \in Request \ {NewLookup(t)} : Still(q)
    BY <1>1 DEF SendLookup, Ask, NewLookup, Still, TypeOK, PeerTypes
  <2>3. /\ phase'[NewLookup(t)] = "asked"
        /\ UNCHANGED << unread, header, toSend, size, accepted >>
    BY <1>1, SendLookupFacts DEF SendLookup, Ask
  <2>4. pc[Ui] # "body" \/ Menu
    BY <1>1 DEF SendLookup, Running, Goto, Menu, TypeOK, CallerTypes
  <2>5. ASSUME NEW q \in Request, q = NewLookup(t) PROVE Header(q)'
    BY <2>1, <2>3, <2>5 DEF Header
  <2>6. ASSUME NEW q \in Request, q # NewLookup(t) PROVE Header(q)'
    BY <2>2, <2>4, <2>6, StillHeader
  <2> QED BY <2>5, <2>6
<1>2. ASSUME FindHere PROVE Headers'
  BY <1>2, ExchangeAssumption DEF FindHere, Header, Goto, Running, At, Returns, HangUp, TypeOK, PeerTypes, CallerTypes, callerVars, peerVars, socketVars
<1>3. ASSUME SendDownload PROVE Headers'
  <2>1. NewDownload \in Request => phase[NewDownload] = "none" /\ phase'[NewDownload] = "asked"
    BY <1>3, SendDownloadFacts
  <2>2. \A q \in Request \ {NewDownload} : Still(q)
    BY <1>3 DEF SendDownload, Ask, NewDownload, Current, Kind, Running, Still, TypeOK, PeerTypes
  <2>3. UNCHANGED << unread, header, toSend, size, accepted >> /\ pc[Ui] # "body"
    BY <1>3 DEF SendDownload, Ask, Running
  <2>5. ASSUME NEW q \in Request, q = NewDownload PROVE Header(q)'
    BY <2>1, <2>3, <2>5 DEF Header
  <2>6. ASSUME NEW q \in Request, q # NewDownload PROVE Header(q)'
    BY <2>2, <2>3, <2>6, StillHeader
  <2> QED BY <2>5, <2>6
<1>4. ASSUME NEW t \in Caller, SendNowhere(t) PROVE Headers'
  BY <1>4, EndsKeepHeaders DEF SendNowhere, Host, At, CallerTypes, TypeOK, Cause
<1>5. ASSUME NEW t \in Caller, Listen(t) PROVE Headers'
  BY <1>5, ExchangeAssumption DEF Listen, Header, Goto, Running, At, Returns, HangUp, TypeOK, PeerTypes, CallerTypes, callerVars, peerVars, socketVars
<1>6. ASSUME NEW t \in Caller, CannotListen(t) PROVE Headers'
  BY <1>6, EndsKeepHeaders DEF CannotListen, Host, At, CallerTypes, TypeOK, Cause
<1>7. ASSUME NEW t \in Caller, Accept(t) PROVE Headers'
  BY <1>7, ExchangeAssumption DEF Accept, Header, Goto, Running, At, Returns, HangUp, TypeOK, PeerTypes, CallerTypes, callerVars, peerVars, socketVars
<1>8. ASSUME NEW t \in Caller, ReadAnswer(t) PROVE Headers'
  <2>1. \A q \in Request : Still(q) \/ (q = accepted[t] /\ header'[q] = None)
    BY <1>8 DEF ReadAnswer, HangUp, Still, TypeOK, PeerTypes
  <2>2. Menu \/ pc[Ui] = "read"
    BY <1>8 DEF ReadAnswer, HangUp, Menu, Goto, Running, TypeOK, CallerTypes, Caller
  <2>3. ASSUME NEW q \in Request, q = accepted[t], header'[q] = None PROVE Header(q)'
    BY <1>8, <2>3 DEF ReadAnswer, HangUp, Header
  <2>4. ASSUME NEW q \in Request, Still(q) PROVE Header(q)'
    BY <2>2, <2>4, StillHeader
  <2> QED BY <2>1, <2>3, <2>4
<1>9. ASSUME NEW t \in Caller, ReadNothing(t) PROVE Headers'
  BY <1>9, ExchangeAssumption DEF ReadNothing, Header, Goto, Running, At, Returns, HangUp, TypeOK, PeerTypes, CallerTypes, callerVars, peerVars, socketVars
<1>10. ASSUME NEW t \in Caller, BelieveNothing(t) PROVE Headers'
  BY <1>10, EndsKeepHeaders DEF BelieveNothing, Host, At, CallerTypes, TypeOK, Cause
<1>11. ASSUME NoLength PROVE Headers'
  BY <1>11, ExchangeAssumption DEF NoLength, Header, Goto, Running, At, Returns, HangUp, TypeOK, PeerTypes, CallerTypes, callerVars, peerVars, socketVars
<1>12. ASSUME OpenFile PROVE Headers'
  BY <1>12, ExchangeAssumption DEF OpenFile, Header, Goto, Running, At, Returns, HangUp, TypeOK, PeerTypes, CallerTypes, callerVars, peerVars, socketVars
<1>13. ASSUME ReadBlock PROVE Headers'
  <2>1. /\ \A q \in Request : q = accepted[Ui] \/ Still(q)
        /\ phase' = phase /\ toSend' = toSend /\ size' = size /\ pc[Ui] = "body"
    BY <1>13 DEF ReadBlock, HangUp, Still, Running, TypeOK, PeerTypes, peerVars
  <2>2. ASSUME NEW q \in Request, q # accepted[Ui] PROVE Header(q)'
    BY <2>1, <2>2, StillHeader
  <2>3. ASSUME NEW c \in Request, c = accepted[Ui] PROVE Header(c)'
    <3>1. phase[c] \in Answering /\ (phase[c] = "open" => unread[c] = 0)
      BY <2>1, <2>3, ExchangeAssumption DEF Routes, Accepted, Reading, Header, Caller
    <3>2. phase[c] # "open"
      BY <1>13, <2>3, <3>1, ExchangeAssumption DEF ReadBlock, Least
    <3>3. CASE length' > 0
      <4>1. header' = header /\ pc'[Ui] = "body" /\ accepted'[Ui] = c
        BY <1>13, <2>1, <2>3, <3>3 DEF ReadBlock
      <4> QED BY <2>1, <2>3, <3>1, <3>2, <4>1 DEF Header, Answering
    <3>4. CASE ~(length' > 0)
      <4>1. header'[c] = None
        BY <1>13, <2>3, <3>4 DEF ReadBlock, HangUp, TypeOK, PeerTypes
      <4> QED BY <2>1, <2>3, <3>1, <3>2, <4>1 DEF Header, Answering
    <3> QED BY <3>3, <3>4
  <2> QED BY <2>2, <2>3
<1>14. ASSUME FileBreaksOff PROVE Headers'
  BY <1>14, EndsKeepHeaders DEF FileBreaksOff, Host, At, CallerTypes, TypeOK, Cause
<1>15. ASSUME NEW r \in Request, NEW s \in Peer, Forward(r, s) PROVE Headers'
  BY <1>15, ExchangeAssumption DEF Forward, Header, Goto, Running, At, Returns, HangUp, TypeOK, PeerTypes, CallerTypes, callerVars, peerVars, socketVars
<1>16. ASSUME NEW r \in Request, ForwardNowhere(r) PROVE Headers'
  BY <1>16, EndsKeepHeaders DEF ForwardNowhere, Host, At, CallerTypes, TypeOK, Cause
<1>17. ASSUME NEW r \in Request, Connect(r) PROVE Headers'
  <2>1. \A q \in Request \ {r} : Still(q)
    BY <1>17 DEF Connect, Still, Returns, TypeOK, PeerTypes, peerVars
  <2>2. Menu
    BY <1>17 DEF Connect, Menu, callerVars
  <2>3. \A q \in Request \ {r} : Header(q)'
    BY <2>1, <2>2, StillHeader
  <2>4. Header(r)'
    <3>1. PICK n \in IF IsLookup(r) THEN {0} ELSE Size :
                  /\ size' = [size EXCEPT ![r] = n]
                  /\ toSend' = [toSend EXCEPT ![r] = AsInt(n)]
      BY <1>17 DEF Connect
    <3>2. /\ phase[r] \in {"asked", "routed"} /\ phase'[r] = "open"
          /\ unread'[r] = unread[r] /\ header'[r] = header[r]
          /\ size'[r] = n /\ toSend'[r] = AsInt(n)
      BY <3>1, <1>17 DEF Connect, At, TypeOK, PeerTypes
    <3>3. IsLookup(r) => AsInt(n) <= 0
      BY <3>1, AsIntRange
    <3>4. /\ r[3] = "lookup" => AsInt(n) <= 0
          /\ r[3] = "download" => n \in Size
      BY <3>1, <3>3 DEF IsLookup
    <3> QED BY <3>2, <3>4 DEF Header
  <2> QED BY <2>3, <2>4
<1>18. ASSUME NEW r \in Request, ConnectAndClose(r) PROVE Headers'
  BY <1>18, ExchangeAssumption DEF ConnectAndClose, Header, Goto, Running, At, Returns, HangUp, TypeOK, PeerTypes, CallerTypes, callerVars, peerVars, socketVars
<1>19. ASSUME NEW r \in Request, ConnectNowhere(r) PROVE Headers'
  BY <1>19, EndsKeepHeaders DEF ConnectNowhere, Host, At, CallerTypes, TypeOK, Cause
<1>20. ASSUME NEW r \in Request, SendAnswer(r) PROVE Headers'
  <2>1. \A q \in Request \ {r} : Still(q)
    BY <1>20 DEF SendAnswer, Still, Returns, TypeOK, PeerTypes, peerVars
  <2>2. Menu
    BY <1>20 DEF SendAnswer, Menu, callerVars
  <2>3. \A q \in Request \ {r} : Header(q)'
    BY <2>1, <2>2, StillHeader
  <2>4. Header(r)'
    <3>1. /\ r[3] = "lookup" /\ phase'[r] = "closed" /\ toSend'[r] = toSend[r]
          /\ header'[r] \in Host \cup {Absent}
      BY <1>20 DEF SendAnswer, At, Returns, IsLookup, TypeOK, PeerTypes
    <3> QED BY <3>1 DEF Header
  <2> QED BY <2>3, <2>4
<1>21. ASSUME NEW r \in Request, SendLength(r) PROVE Headers'
  <2>1. \A q \in Request \ {r} : Still(q)
    BY <1>21 DEF SendLength, Still, Returns, TypeOK, PeerTypes, peerVars
  <2>2. Menu
    BY <1>21 DEF SendLength, Menu, callerVars
  <2>3. \A q \in Request \ {r} : Header(q)'
    BY <2>1, <2>2, StillHeader
  <2>4. Header(r)'
    <3>1. /\ r[3] = "download" /\ phase[r] = "open" /\ phase'[r] = "sending"
          /\ unread'[r] = unread[r] /\ toSend'[r] = toSend[r] /\ size'[r] = size[r]
          /\ header'[r] = AsInt(size[r])
      BY <1>21, RequestParts DEF SendLength, At, IsLookup, TypeOK, PeerTypes
    <3>2. size[r] \in Size /\ unread[r] = 0 /\ toSend[r] = AsInt(size[r])
      BY <3>1 DEF Header
    <3>3. AsInt(size[r]) \in Int
      BY <3>2, AsIntRange, ExchangeAssumption
    <3> QED BY <3>1, <3>2, <3>3 DEF Header
  <2> QED BY <2>3, <2>4
<1>22. ASSUME NEW r \in Request, SendBlock(r) PROVE Headers'
  <2>1. \A q \in Request \ {r} : Still(q)
    BY <1>22 DEF SendBlock, Still, Returns, TypeOK, PeerTypes, peerVars
  <2>2. Menu
    BY <1>22 DEF SendBlock, Menu, callerVars
  <2>3. \A q \in Request \ {r} : Header(q)'
    BY <2>1, <2>2, StillHeader
  <2>4. Header(r)'
    <3> DEFINE k == Least(MaxLength, toSend[r])
    <3>1. /\ phase[r] = "sending" /\ phase'[r] = "sending" /\ header'[r] = header[r]
          /\ unread'[r] = unread[r] + k /\ toSend'[r] = toSend[r] - k /\ size'[r] = size[r]
          /\ toSend[r] > 0 /\ toSend[r] \in Int /\ unread[r] \in Nat
      BY <1>22 DEF SendBlock, At, TypeOK, PeerTypes
    <3>2. k \in Nat /\ k <= toSend[r]
      BY <3>1, LeastRange, ExchangeAssumption
    <3> HIDE DEF k
    <3> QED BY <3>1, <3>2, <2>2 DEF Header, Menu
  <2> QED BY <2>3, <2>4
<1>23. ASSUME NEW r \in Request, CloseFile(r) PROVE Headers'
  BY <1>23, ExchangeAssumption DEF CloseFile, Header, Goto, Running, At, Returns, HangUp, TypeOK, PeerTypes, CallerTypes, callerVars, peerVars, socketVars
<1>24. ASSUME NEW r \in Request, SendBreaksOff(r) PROVE Headers'
  BY <1>24, EndsKeepHeaders DEF SendBreaksOff, Host, At, CallerTypes, TypeOK, Cause
<1>25. ASSUME NEW h \in Host, UserExit(h) PROVE Headers'
  BY <1>25, EndsKeepHeaders DEF UserExit, Host, At, CallerTypes, TypeOK, Cause
<1>26. CASE UNCHANGED vars
  BY <1>26 DEF vars, callerVars, peerVars, Header
<1> QED BY <1>1, <1>2, <1>3, <1>4, <1>5, <1>6, <1>7, <1>8, <1>9, <1>10, <1>11,
           <1>12, <1>13, <1>14, <1>15, <1>16, <1>17, <1>18, <1>19, <1>20, <1>21, <1>22,
           <1>23, <1>24, <1>25, <1>26
        DEF Next, CallerStep, PeerStep

-----------------------------------------------------------------------------
(* The file.                                                               *)

\* Out of the loop that writes it the file is all that was announced.
WholeBetween == pc[Ui] # "body" /\ disk.of # None => disk.has = Announced(disk.of)

\* While the file is read, what has come and what is still to come make it up.
Disk ==
    /\ WholeBetween
    /\ pc[Ui] = "body" =>
          LET c == accepted[Ui]
          IN  /\ header[c] # None /\ length > 0
              /\ disk.of = size[c] /\ disk.has + length = header[c]
              /\ toSend[c] >= 0 /\ length = unread[c] + toSend[c]

\* The menu, and what it reads, are left alone.
Undisturbed ==
    /\ disk' = disk /\ length' = length /\ up' \subseteq up
    /\ pc[Ui] = "body" <=> pc'[Ui] = "body"
    /\ pc[Ui] = "body" =>
          /\ accepted'[Ui] = accepted[Ui]
          /\ \A c \in Request : c = accepted[Ui] =>
                /\ header'[c] = header[c] /\ unread'[c] = unread[c]
                /\ toSend'[c] = toSend[c] /\ size'[c] = size[c]

\* What the menu reads a file from is the connection of its own request.
LEMMA MenuConnection ==
    ASSUME TypeOK, Routes, Headers, Disk, pc[Ui] = "body"
    PROVE  /\ accepted[Ui] \in Request /\ accepted[Ui] = Current(Ui)
           /\ accepted[Ui][3] = "download"
           /\ phase[accepted[Ui]] \in {"sending", "closed"}
           /\ replyTo[accepted[Ui]] = UiPort
           /\ \A t \in Caller : t # Ui /\ Reading(t) => accepted[t] # accepted[Ui]
<1>1. Ui \in Caller /\ Reading(Ui)
  BY DEF Caller, Reading
<1>2. accepted[Ui] \in Request /\ accepted[Ui] # None
  BY <1>1 DEF Routes, Accepted, TypeOK, CallerTypes
<1>3. accepted[Ui] = Current(Ui) /\ accepted[Ui][3] = "download"
  BY <1>1, MenuReads DEF Routes
<1>4. phase[accepted[Ui]] \in Answering /\ replyTo[accepted[Ui]] = UiPort
  BY <1>1, <1>2 DEF Routes, Accepted, Ports
<1>5. phase[accepted[Ui]] # "open"
  BY <1>2 DEF Disk, Headers, Header
<1>6. ASSUME NEW t \in Caller, t # Ui, Reading(t), accepted[t] = accepted[Ui] PROVE FALSE
  <2>1. port[t] = UiPort
    BY <1>2, <1>4, <1>6 DEF Routes, Accepted
  <2>2. port[t] \in RandomPort
    BY <1>6 DEF Routes, Ports, Caller, Busy, Reading
  <2> QED BY <2>1, <2>2, ExchangeAssumption
<1> QED BY <1>2, <1>3, <1>4, <1>5, <1>6 DEF Answering

\* Who leaves the menu and its connection alone leaves the file alone.
LEMMA UndisturbedDisk ==
    ASSUME TypeOK, Routes, Headers, Disk, Undisturbed
    PROVE  Disk'
<1>1. WholeBetween'
  BY DEF Disk, WholeBetween, Undisturbed
<1>2. pc[Ui] = "body" => accepted[Ui] \in Request
  BY MenuConnection
<1> QED BY <1>1, <1>2 DEF Disk, Undisturbed

\* The end of a process writes nothing.
LEMMA EndsKeepDisk ==
    ASSUME TypeOK, Routes, Headers, Disk, NEW h \in Host, NEW why, Ends(h, why)
    PROVE  Disk'
BY UndisturbedDisk DEF Ends, Undisturbed, callerVars, peerVars

\* A byte goes from what is to be sent, over the connection, to the file.
LEMMA DiskStep ==
    ASSUME TypeOK, Routes, Headers, Disk, [Next]_vars
    PROVE  Disk'
<1> USE DEF TypeOK
<1>1. ASSUME NEW t \in Caller, NEW p \in Port, NEW s \in Peer, SendLookup(t, p, s) PROVE Disk'
  <2>1. Undisturbed
    BY <1>1 DEF SendLookup, Undisturbed, Goto, Running, At, Returns, HangUp, TypeOK, PeerTypes, CallerTypes, Caller, callerVars, peerVars, socketVars, Ask
  <2> QED BY <2>1, UndisturbedDisk
<1>2. ASSUME FindHere PROVE Disk'
  <2>1. Undisturbed
    BY <1>2 DEF FindHere, Undisturbed, Goto, Running, At, Returns, HangUp, TypeOK, PeerTypes, CallerTypes, Caller, callerVars, peerVars, socketVars
  <2> QED BY <2>1, UndisturbedDisk
<1>3. ASSUME SendDownload PROVE Disk'
  <2>1. Undisturbed
    BY <1>3 DEF SendDownload, Undisturbed, Goto, Running, At, Returns, HangUp, TypeOK, PeerTypes, CallerTypes, Caller, callerVars, peerVars, socketVars, Ask
  <2> QED BY <2>1, UndisturbedDisk
<1>4. ASSUME NEW t \in Caller, SendNowhere(t) PROVE Disk'
  BY <1>4, EndsKeepDisk DEF SendNowhere, Host, At, CallerTypes, TypeOK, Cause
<1>5. ASSUME NEW t \in Caller, Listen(t) PROVE Disk'
  <2>1. Undisturbed
    BY <1>5 DEF Listen, Undisturbed, Goto, Running, At, Returns, HangUp, TypeOK, PeerTypes, CallerTypes, Caller, callerVars, peerVars, socketVars
  <2> QED BY <2>1, UndisturbedDisk
<1>6. ASSUME NEW t \in Caller, CannotListen(t) PROVE Disk'
  BY <1>6, EndsKeepDisk DEF CannotListen, Host, At, CallerTypes, TypeOK, Cause
<1>7. ASSUME NEW t \in Caller, Accept(t) PROVE Disk'
  <2>1. Undisturbed
    BY <1>7 DEF Accept, Undisturbed, Goto, Running, At, Returns, HangUp, TypeOK, PeerTypes, CallerTypes, Caller, callerVars, peerVars, socketVars
  <2> QED BY <2>1, UndisturbedDisk
<1>8. ASSUME NEW t \in Caller, ReadAnswer(t) PROVE Disk'
  <2>1. Undisturbed
    BY <1>8, MenuConnection DEF ReadAnswer, Undisturbed, Goto, Running, At, Returns, HangUp, TypeOK, PeerTypes, CallerTypes, Caller, callerVars, peerVars, socketVars, Reading
  <2> QED BY <2>1, UndisturbedDisk
<1>9. ASSUME NEW t \in Caller, ReadNothing(t) PROVE Disk'
  <2>1. Undisturbed
    BY <1>9, MenuConnection DEF ReadNothing, Undisturbed, Goto, Running, At, Returns, HangUp, TypeOK, PeerTypes, CallerTypes, Caller, callerVars, peerVars, socketVars, Reading
  <2> QED BY <2>1, UndisturbedDisk
<1>10. ASSUME NEW t \in Caller, BelieveNothing(t) PROVE Disk'
  BY <1>10, EndsKeepDisk DEF BelieveNothing, Host, At, CallerTypes, TypeOK, Cause
<1>11. ASSUME NoLength PROVE Disk'
  <2>1. Undisturbed
    BY <1>11 DEF NoLength, Undisturbed, Goto, Running, At, Returns, HangUp, TypeOK, PeerTypes, CallerTypes, Caller, callerVars, peerVars, socketVars
  <2> QED BY <2>1, UndisturbedDisk
<1>12. ASSUME OpenFile PROVE Disk'
  <2>0. /\ Reading(Ui) /\ Ui \in Caller /\ pc[Ui] = "header"
        /\ length' = header[accepted[Ui]] /\ length' # 0 /\ header[accepted[Ui]] # None
        /\ disk' = [has |-> 0, of |-> size[accepted[Ui]]]
    BY <1>12 DEF OpenFile, Running, Reading, Caller
  <2>1. PICK c \in Request : c = accepted[Ui]
    BY <2>0 DEF Routes, Accepted, TypeOK, CallerTypes
  <2>2. c[3] = "download"
    BY <2>0, <2>1, MenuReads DEF Routes
  <2>3. /\ header[c] = AsInt(size[c]) /\ size[c] \in Size
        /\ header[c] <= 0 \/ (toSend[c] >= 0 /\ unread[c] + toSend[c] = header[c])
    BY <2>0, <2>1, <2>2 DEF Headers, Header
  <2>4. size[c] \in Nat /\ header[c] \in Int
    BY <2>3, AsIntRange, ExchangeAssumption
  <2>5. CASE length' > 0
    <3>1. /\ pc'[Ui] = "body" /\ accepted' = accepted
          /\ UNCHANGED << header, unread, toSend, size >>
      BY <1>12, <2>0, <2>5 DEF OpenFile, Goto, TypeOK, CallerTypes, peerVars
    <3>2. ~(header[c] <= 0)
      BY <2>0, <2>1, <2>4, <2>5
    <3> QED BY <2>0, <2>1, <2>3, <2>4, <2>5, <3>1, <3>2 DEF Disk, WholeBetween
  <2>6. CASE ~(length' > 0)
    <3>1. pc'[Ui] = "idle"
      BY <1>12, <2>0, <2>6 DEF OpenFile, Goto, TypeOK, CallerTypes
    <3>2. header[c] < 0
      BY <2>0, <2>1, <2>4, <2>6
    <3>3. Announced(size[c]) = 0
      BY <2>3, <2>4, <3>2 DEF Announced
    <3> QED BY <2>0, <2>1, <3>1, <3>3 DEF Disk, WholeBetween
  <2> QED BY <2>5, <2>6
<1>13. ASSUME ReadBlock PROVE Disk'
  <2>0. pc[Ui] = "body" /\ Ui \in Caller
    BY <1>13 DEF ReadBlock, Running, Caller
  <2>1. PICK c \in Request : c = accepted[Ui]
    BY <2>0, MenuConnection
  <2>2. /\ header[c] # None /\ length > 0 /\ c[3] = "download"
        /\ disk.of = size[c] /\ disk.has + length = header[c]
        /\ toSend[c] >= 0 /\ length = unread[c] + toSend[c]
    BY <2>0, <2>1, MenuConnection DEF Disk
  <2>3. PICK k \in 1 .. Least(MaxLength, unread[c]) :
              /\ unread' = [unread EXCEPT ![c] = @ - k]
              /\ disk' = [disk EXCEPT !.has = @ + k]
              /\ length' = length - k
    BY <2>1, <1>13 DEF ReadBlock
  <2>4. /\ unread[c] \in Nat /\ toSend[c] \in Int /\ length \in Int /\ disk.has \in Nat
        /\ disk'.has = disk.has + k /\ disk'.of = disk.of /\ unread'[c] = unread[c] - k
    BY <2>3 DEF TypeOK, PeerTypes, CallerTypes
  <2>5. k \in Nat /\ k <= unread[c] /\ k > 0
    BY <2>3, <2>4, ExchangeAssumption DEF Least
  <2>6. header[c] = AsInt(size[c]) /\ size[c] \in Nat /\ header[c] \in Int
    BY <2>2, AsIntRange, ExchangeAssumption DEF Headers, Header
  <2>7. size'[c] = size[c] /\ toSend'[c] = toSend[c]
    BY <1>13 DEF ReadBlock, HangUp
  <2>8. disk'.has + length' = header[c] /\ length' = unread'[c] + toSend'[c]
    BY <2>2, <2>3, <2>4, <2>5, <2>6, <2>7
  <2>9. CASE length' > 0
    <3>1. pc'[Ui] = "body" /\ accepted'[Ui] = c /\ header' = header
      BY <1>13, <2>0, <2>1, <2>9 DEF ReadBlock
    <3> QED BY <2>2, <2>4, <2>7, <2>8, <2>9, <3>1 DEF Disk, WholeBetween
  <2>10. CASE ~(length' > 0)
    <3>1. pc'[Ui] = "idle"
      BY <1>13, <2>0, <2>10 DEF ReadBlock, Goto, TypeOK, CallerTypes
    <3>2. length' = 0
      BY <2>2, <2>3, <2>4, <2>5, <2>7, <2>8, <2>10
    <3>3. disk'.has = AsInt(size[c])
      BY <2>4, <2>5, <2>6, <2>8, <3>2
    <3>4. disk'.has = Announced(disk'.of)
      BY <2>2, <2>4, <2>5, <2>6, <3>3 DEF Announced
    <3> QED BY <2>2, <2>4, <3>1, <3>4 DEF Disk, WholeBetween
  <2> QED BY <2>9, <2>10
<1>14. ASSUME FileBreaksOff PROVE Disk'
  BY <1>14, EndsKeepDisk DEF FileBreaksOff, Host, At, CallerTypes, TypeOK, Cause
<1>15. ASSUME NEW r \in Request, NEW s \in Peer, Forward(r, s) PROVE Disk'
  <2>1. Undisturbed
    BY <1>15 DEF Forward, Undisturbed, Goto, Running, At, Returns, HangUp, TypeOK, PeerTypes, CallerTypes, Caller, callerVars, peerVars, socketVars
  <2> QED BY <2>1, UndisturbedDisk
<1>16. ASSUME NEW r \in Request, ForwardNowhere(r) PROVE Disk'
  BY <1>16, EndsKeepDisk DEF ForwardNowhere, Host, At, CallerTypes, TypeOK, Cause
<1>17. ASSUME NEW r \in Request, Connect(r) PROVE Disk'
  <2>1. Undisturbed
    BY <1>17, MenuConnection DEF Connect, Undisturbed, Goto, Running, At, Returns, HangUp, TypeOK, PeerTypes, CallerTypes, Caller, callerVars, peerVars, socketVars, IsLookup
  <2> QED BY <2>1, UndisturbedDisk
<1>18. ASSUME NEW r \in Request, ConnectAndClose(r) PROVE Disk'
  <2>1. Undisturbed
    BY <1>18 DEF ConnectAndClose, Undisturbed, Goto, Running, At, Returns, HangUp, TypeOK, PeerTypes, CallerTypes, Caller, callerVars, peerVars, socketVars
  <2> QED BY <2>1, UndisturbedDisk
<1>19. ASSUME NEW r \in Request, ConnectNowhere(r) PROVE Disk'
  BY <1>19, EndsKeepDisk DEF ConnectNowhere, Host, At, CallerTypes, TypeOK, Cause
<1>20. ASSUME NEW r \in Request, SendAnswer(r) PROVE Disk'
  <2>1. Undisturbed
    BY <1>20, MenuConnection DEF SendAnswer, Undisturbed, Goto, Running, At, Returns, HangUp, TypeOK, PeerTypes, CallerTypes, Caller, callerVars, peerVars, socketVars, IsLookup
  <2> QED BY <2>1, UndisturbedDisk
<1>21. ASSUME NEW r \in Request, SendLength(r) PROVE Disk'
  <2>1. pc[Ui] = "body" => accepted[Ui] # r
    BY <1>21, MenuConnection DEF SendLength, At
  <2>2. Undisturbed
    BY <1>21, <2>1 DEF SendLength, Undisturbed, TypeOK, PeerTypes, callerVars
  <2> QED BY <2>2, UndisturbedDisk
<1>22. ASSUME NEW r \in Request, SendBlock(r) PROVE Disk'
  <2> DEFINE k == Least(MaxLength, toSend[r])
  <2>1. CASE pc[Ui] = "body" /\ accepted[Ui] = r
    <3>1. /\ unread'[r] = unread[r] + k /\ toSend'[r] = toSend[r] - k
          /\ toSend[r] > 0 /\ toSend[r] \in Int /\ unread[r] \in Nat
          /\ UNCHANGED << up, pc, accepted, disk, length, header, size >>
      BY <1>22 DEF SendBlock, TypeOK, PeerTypes, callerVars
    <3>2. k \in Nat /\ k <= toSend[r]
      BY <3>1, LeastRange, ExchangeAssumption
    <3> HIDE DEF k
    <3>3. WholeBetween'
      BY <3>1 DEF Disk, WholeBetween
    <3>4. /\ toSend'[r] >= 0 /\ length' = unread'[r] + toSend'[r]
          /\ header'[r] # None /\ length' > 0
          /\ disk'.of = size'[r] /\ disk'.has + length' = header'[r]
      BY <2>1, <3>1, <3>2 DEF Disk
    <3> QED BY <2>1, <3>1, <3>3, <3>4 DEF Disk
  <2>2. CASE ~(pc[Ui] = "body" /\ accepted[Ui] = r)
    <3>1. Undisturbed
      BY <1>22, <2>2 DEF SendBlock, Undisturbed, TypeOK, PeerTypes, callerVars
    <3> QED BY <3>1, UndisturbedDisk
  <2> QED BY <2>1, <2>2
<1>23. ASSUME NEW r \in Request, CloseFile(r) PROVE Disk'
  <2>1. Undisturbed
    BY <1>23 DEF CloseFile, Undisturbed, Goto, Running, At, Returns, HangUp, TypeOK, PeerTypes, CallerTypes, Caller, callerVars, peerVars, socketVars
  <2> QED BY <2>1, UndisturbedDisk
<1>24. ASSUME NEW r \in Request, SendBreaksOff(r) PROVE Disk'
  BY <1>24, EndsKeepDisk DEF SendBreaksOff, Host, At, CallerTypes, TypeOK, Cause
<1>25. ASSUME NEW h \in Host, UserExit(h) PROVE Disk'
  BY <1>25, EndsKeepDisk DEF UserExit, Host, At, CallerTypes, TypeOK, Cause
<1>26. CASE UNCHANGED vars
  <2>1. Undisturbed
    BY <1>26 DEF vars, Undisturbed, callerVars, peerVars
  <2> QED BY <2>1, UndisturbedDisk
<1> QED BY <1>1, <1>2, <1>3, <1>4, <1>5, <1>6, <1>7, <1>8, <1>9, <1>10, <1>11,
           <1>12, <1>13, <1>14, <1>15, <1>16, <1>17, <1>18, <1>19, <1>20, <1>21, <1>22,
           <1>23, <1>24, <1>25, <1>26
        DEF Next, CallerStep, PeerStep

-----------------------------------------------------------------------------
(* What ends a process.                                                    *)

\* Who handles a request runs until the first process ends.
Alive ==
    /\ cause = None => up = Host
    /\ \A r \in Request : phase[r] \in {"asked", "routed", "open", "sending"} => server[r] \in Peer
    /\ pc[Ui] = "ask" => owner \in Peer

\* A caller listens until it hangs up.
Listening ==
    Me \in up => \A t \in Caller : pc[t] \in {"accept", "accept2"} \/ Reading(t) =>
                    listener[port[t]] = t

\* An answer is there until its caller has read it.
Heard ==
    doubtful = {} => \A r \in Request :
        /\ r[3] = "lookup" /\ phase[r] = "closed"
        /\ r = Current(r[1]) /\ pc[r[1]] \in {"listen", "accept", "read"}
        => header[r] # None

\* None is none of the others.
LEMMA NoneApart ==
    /\ None \notin Host /\ None \notin Caller /\ None \notin Cause /\ None # Absent
    /\ Me \notin Peer /\ Me \in Host /\ Ui \in Caller
BY ExchangeAssumption DEF Host, Caller

\* Once a process has ended Alive says nothing more.
LEMMA EndsKeepAlive ==
    ASSUME Alive, NEW h \in Host, NEW why \in Cause, Ends(h, why)
    PROVE  Alive'
BY NoneApart DEF Alive, Ends, callerVars, peerVars

\* A handler is started at, and forwards to, hosts that run.
LEMMA AliveStep ==
    ASSUME TypeOK, Routes, Alive, [Next]_vars
    PROVE  Alive'
<1> USE DEF Alive
<1>1. ASSUME NEW t \in Caller, NEW p \in Port, NEW s \in Peer, SendLookup(t, p, s) PROVE Alive'
  BY <1>1, ExchangeAssumption DEF SendLookup, Goto, Running, Ask, At, Returns, HangUp, TypeOK, PeerTypes, CallerTypes, Caller, callerVars, peerVars, socketVars
<1>2. ASSUME FindHere PROVE Alive'
  BY <1>2, ExchangeAssumption DEF FindHere, Goto, Running, Ask, At, Returns, HangUp, TypeOK, PeerTypes, CallerTypes, Caller, callerVars, peerVars, socketVars
<1>3. ASSUME SendDownload PROVE Alive'
  BY <1>3, ExchangeAssumption DEF SendDownload, Goto, Running, Ask, At, Returns, HangUp, TypeOK, PeerTypes, CallerTypes, Caller, callerVars, peerVars, socketVars
<1>4. ASSUME NEW t \in Caller, SendNowhere(t) PROVE Alive'
  BY <1>4, EndsKeepAlive DEF SendNowhere, Host, At, CallerTypes, TypeOK, Cause
<1>5. ASSUME NEW t \in Caller, Listen(t) PROVE Alive'
  BY <1>5, ExchangeAssumption DEF Listen, Goto, Running, Ask, At, Returns, HangUp, TypeOK, PeerTypes, CallerTypes, Caller, callerVars, peerVars, socketVars
<1>6. ASSUME NEW t \in Caller, CannotListen(t) PROVE Alive'
  BY <1>6, EndsKeepAlive DEF CannotListen, Host, At, CallerTypes, TypeOK, Cause
<1>7. ASSUME NEW t \in Caller, Accept(t) PROVE Alive'
  BY <1>7, ExchangeAssumption DEF Accept, Goto, Running, Ask, At, Returns, HangUp, TypeOK, PeerTypes, CallerTypes, Caller, callerVars, peerVars, socketVars
<1>8. ASSUME NEW t \in Caller, ReadAnswer(t) PROVE Alive'
  BY <1>8, ExchangeAssumption DEF ReadAnswer, Goto, Running, Ask, At, Returns, HangUp, TypeOK, PeerTypes, CallerTypes, Caller, callerVars, peerVars, socketVars
<1>9. ASSUME NEW t \in Caller, ReadNothing(t) PROVE Alive'
  BY <1>9, ExchangeAssumption DEF ReadNothing, Goto, Running, Ask, At, Returns, HangUp, TypeOK, PeerTypes, CallerTypes, Caller, callerVars, peerVars, socketVars
<1>10. ASSUME NEW t \in Caller, BelieveNothing(t) PROVE Alive'
  BY <1>10, EndsKeepAlive DEF BelieveNothing, Host, At, CallerTypes, TypeOK, Cause
<1>11. ASSUME NoLength PROVE Alive'
  BY <1>11, ExchangeAssumption DEF NoLength, Goto, Running, Ask, At, Returns, HangUp, TypeOK, PeerTypes, CallerTypes, Caller, callerVars, peerVars, socketVars
<1>12. ASSUME OpenFile PROVE Alive'
  BY <1>12, ExchangeAssumption DEF OpenFile, Goto, Running, Ask, At, Returns, HangUp, TypeOK, PeerTypes, CallerTypes, Caller, callerVars, peerVars, socketVars
<1>13. ASSUME ReadBlock PROVE Alive'
  BY <1>13, ExchangeAssumption DEF ReadBlock, Goto, Running, Ask, At, Returns, HangUp, TypeOK, PeerTypes, CallerTypes, Caller, callerVars, peerVars, socketVars
<1>14. ASSUME FileBreaksOff PROVE Alive'
  BY <1>14, EndsKeepAlive DEF FileBreaksOff, Host, At, CallerTypes, TypeOK, Cause
<1>15. ASSUME NEW r \in Request, NEW s \in Peer, Forward(r, s) PROVE Alive'
  BY <1>15, ExchangeAssumption DEF Forward, Goto, Running, Ask, At, Returns, HangUp, TypeOK, PeerTypes, CallerTypes, Caller, callerVars, peerVars, socketVars
<1>16. ASSUME NEW r \in Request, ForwardNowhere(r) PROVE Alive'
  BY <1>16, EndsKeepAlive DEF ForwardNowhere, Host, At, CallerTypes, TypeOK, Cause
<1>17. ASSUME NEW r \in Request, Connect(r) PROVE Alive'
  BY <1>17, ExchangeAssumption DEF Connect, Goto, Running, Ask, At, Returns, HangUp, TypeOK, PeerTypes, CallerTypes, Caller, callerVars, peerVars, socketVars
<1>18. ASSUME NEW r \in Request, ConnectAndClose(r) PROVE Alive'
  BY <1>18, ExchangeAssumption DEF ConnectAndClose, Goto, Running, Ask, At, Returns, HangUp, TypeOK, PeerTypes, CallerTypes, Caller, callerVars, peerVars, socketVars
<1>19. ASSUME NEW r \in Request, ConnectNowhere(r) PROVE Alive'
  BY <1>19, EndsKeepAlive DEF ConnectNowhere, Host, At, CallerTypes, TypeOK, Cause
<1>20. ASSUME NEW r \in Request, SendAnswer(r) PROVE Alive'
  BY <1>20, ExchangeAssumption DEF SendAnswer, Goto, Running, Ask, At, Returns, HangUp, TypeOK, PeerTypes, CallerTypes, Caller, callerVars, peerVars, socketVars
<1>21. ASSUME NEW r \in Request, SendLength(r) PROVE Alive'
  BY <1>21, ExchangeAssumption DEF SendLength, Goto, Running, Ask, At, Returns, HangUp, TypeOK, PeerTypes, CallerTypes, Caller, callerVars, peerVars, socketVars
<1>22. ASSUME NEW r \in Request, SendBlock(r) PROVE Alive'
  BY <1>22, ExchangeAssumption DEF SendBlock, Goto, Running, Ask, At, Returns, HangUp, TypeOK, PeerTypes, CallerTypes, Caller, callerVars, peerVars, socketVars
<1>23. ASSUME NEW r \in Request, CloseFile(r) PROVE Alive'
  BY <1>23, ExchangeAssumption DEF CloseFile, Goto, Running, Ask, At, Returns, HangUp, TypeOK, PeerTypes, CallerTypes, Caller, callerVars, peerVars, socketVars
<1>24. ASSUME NEW r \in Request, SendBreaksOff(r) PROVE Alive'
  BY <1>24, EndsKeepAlive DEF SendBreaksOff, Host, At, CallerTypes, TypeOK, Cause
<1>25. ASSUME NEW h \in Host, UserExit(h) PROVE Alive'
  BY <1>25, EndsKeepAlive DEF UserExit, Host, At, CallerTypes, TypeOK, Cause
<1>26. CASE UNCHANGED vars
  BY <1>26 DEF vars, callerVars, peerVars
<1> QED BY <1>1, <1>2, <1>3, <1>4, <1>5, <1>6, <1>7, <1>8, <1>9, <1>10, <1>11,
           <1>12, <1>13, <1>14, <1>15, <1>16, <1>17, <1>18, <1>19, <1>20, <1>21, <1>22,
           <1>23, <1>24, <1>25, <1>26
        DEF Next, CallerStep, PeerStep

\* Only the end of Me closes ports, and then nobody listens.
LEMMA EndsKeepListening ==
    ASSUME Listening, NEW h \in Host, NEW why \in Cause, Ends(h, why)
    PROVE  Listening'
BY NoneApart DEF Listening, Reading, Ends, callerVars, socketVars

\* One caller hangs up, the others listen on.
LEMMA FinishesListening ==
    ASSUME TypeOK, Routes, Listening, NEW t \in Caller, Finishes(t)
    PROVE  Listening'
<1>1. Accepted /\ Connections
  BY DEF Routes
<1>2. /\ pc'[t] \in {"idle", "ask"} /\ Reading(t)
      /\ \A u \in Caller \ {t} : pc'[u] = pc[u] /\ port'[u] = port[u]
      /\ \A p \in Port \ {port[t]} : listener'[p] = listener[p]
      /\ up' = up /\ \A u \in Caller : port[u] \in Port
  BY <1>1, FinishFacts DEF OtherCallers, TypeOK, CallerTypes
<1>3. ASSUME Me \in up, NEW u \in Caller \ {t}, listener[port[u]] = u PROVE port[u] # port[t]
  BY <1>2, <1>3 DEF Listening
<1> QED BY <1>2, <1>3 DEF Listening, Reading

\* A port stays open until its caller hangs up.
LEMMA ListeningStep ==
    ASSUME TypeOK, Routes, Listening, [Next]_vars
    PROVE  Listening'
<1> USE DEF socketVars
<1>1. ASSUME NEW t \in Caller, NEW p \in Port, NEW s \in Peer, SendLookup(t, p, s) PROVE Listening'
  BY <1>1, SendLookupFacts, NoneApart DEF OtherCallers, Listening, Reading
<1>2. ASSUME FindHere PROVE Listening'
  BY <1>2, FindHereFacts, NoneApart DEF OtherCallers, Listening, Reading
<1>3. ASSUME SendDownload PROVE Listening'
  BY <1>3, SendDownloadFacts, NoneApart DEF OtherCallers, Listening, Reading
<1>4. ASSUME NEW t \in Caller, SendNowhere(t) PROVE Listening'
  BY <1>4, EndsKeepListening DEF SendNowhere, Host, At, CallerTypes, TypeOK, Cause
<1>5. ASSUME NEW t \in Caller, Listen(t) PROVE Listening'
  <2>1. /\ pc[t] \in {"listen", "listen2"} /\ pc'[t] \in {"accept", "accept2"}
        /\ port'[t] = port[t] /\ listener[port[t]] = None /\ listener'[port[t]] = t
        /\ \A u \in Caller \ {t} : pc'[u] = pc[u] /\ port'[u] = port[u]
        /\ \A p \in Port \ {port[t]} : listener'[p] = listener[p]
        /\ up' = up /\ \A u \in Caller : port[u] \in Port
    BY <1>5, ListenFacts DEF OtherCallers, TypeOK, CallerTypes
  <2>2. ASSUME NEW u \in Caller, listener[port[u]] = u PROVE port[u] # port[t]
    BY <2>1, <2>2, NoneApart
  <2> QED BY <2>1, <2>2 DEF Listening, Reading
<1>6. ASSUME NEW t \in Caller, CannotListen(t) PROVE Listening'
  BY <1>6, EndsKeepListening DEF CannotListen, Host, At, CallerTypes, TypeOK, Cause
<1>7. ASSUME NEW t \in Caller, Accept(t) PROVE Listening'
  BY <1>7, AcceptFacts, NoneApart DEF OtherCallers, Listening, Reading
<1>8. ASSUME NEW t \in Caller, ReadAnswer(t) PROVE Listening'
  <2>1. Finishes(t)
    BY <1>8 DEF ReadAnswer, Finishes, HangUp, Reading, Running
  <2> QED BY <2>1, FinishesListening, NoneApart
<1>9. ASSUME NEW t \in Caller, ReadNothing(t) PROVE Listening'
  <2>1. Finishes(t)
    BY <1>9 DEF ReadNothing, Finishes, HangUp, Reading, Running
  <2> QED BY <2>1, FinishesListening, NoneApart
<1>10. ASSUME NEW t \in Caller, BelieveNothing(t) PROVE Listening'
  BY <1>10, EndsKeepListening DEF BelieveNothing, Host, At, CallerTypes, TypeOK, Cause
<1>11. ASSUME NoLength PROVE Listening'
  <2>1. Finishes(Ui)
    BY <1>11 DEF NoLength, Finishes, HangUp, Reading, Running
  <2> QED BY <2>1, FinishesListening, NoneApart
<1>12. ASSUME OpenFile PROVE Listening'
  <2>1. CASE length' > 0
    <3>1. ReadsOn
      BY <1>12, <2>1 DEF OpenFile, ReadsOn, Goto, Running, TypeOK, CallerTypes, peerVars
    <3>2. header' = header
      BY <1>12, <2>1 DEF OpenFile, peerVars
    <3> QED BY <3>1, <3>2, ReadsOnFacts DEF OtherCallers, Listening, Reading
  <2>2. CASE ~(length' > 0)
    <3>1. Finishes(Ui)
      BY <1>12, <2>2 DEF OpenFile, Finishes, HangUp, Reading, Running
    <3> QED BY <3>1, FinishesListening, NoneApart
  <2> QED BY <2>1, <2>2
<1>13. ASSUME ReadBlock PROVE Listening'
  <2>1. CASE length' > 0
    <3>1. ReadsOn
      BY <1>13, <2>1 DEF ReadBlock, ReadsOn, Goto, Running, TypeOK, CallerTypes, peerVars
    <3>2. header' = header
      BY <1>13, <2>1 DEF ReadBlock, peerVars
    <3> QED BY <3>1, <3>2, ReadsOnFacts DEF OtherCallers, Listening, Reading
  <2>2. CASE ~(length' > 0)
    <3>1. Finishes(Ui)
      BY <1>13, <2>2 DEF ReadBlock, Finishes, HangUp, Reading, Running
    <3> QED BY <3>1, FinishesListening, NoneApart
  <2> QED BY <2>1, <2>2
<1>14. ASSUME FileBreaksOff PROVE Listening'
  BY <1>14, EndsKeepListening DEF FileBreaksOff, Host, At, CallerTypes, TypeOK, Cause
<1>15. ASSUME NEW r \in Request, NEW s \in Peer, Forward(r, s) PROVE Listening'
  BY <1>15 DEF Forward, Sock!ClientRequestConnection, callerVars, socketVars, Listening, Reading
<1>16. ASSUME NEW r \in Request, ForwardNowhere(r) PROVE Listening'
  BY <1>16, EndsKeepListening DEF ForwardNowhere, Host, At, CallerTypes, TypeOK, Cause
<1>17. ASSUME NEW r \in Request, Connect(r) PROVE Listening'
  BY <1>17 DEF Connect, Sock!ClientRequestConnection, callerVars, socketVars, Listening, Reading
<1>18. ASSUME NEW r \in Request, ConnectAndClose(r) PROVE Listening'
  BY <1>18 DEF ConnectAndClose, Sock!ClientRequestConnection, callerVars, socketVars, Listening, Reading
<1>19. ASSUME NEW r \in Request, ConnectNowhere(r) PROVE Listening'
  BY <1>19, EndsKeepListening DEF ConnectNowhere, Host, At, CallerTypes, TypeOK, Cause
<1>20. ASSUME NEW r \in Request, SendAnswer(r) PROVE Listening'
  BY <1>20 DEF SendAnswer, Sock!ClientRequestConnection, callerVars, socketVars, Listening, Reading
<1>21. ASSUME NEW r \in Request, SendLength(r) PROVE Listening'
  BY <1>21 DEF SendLength, Sock!ClientRequestConnection, callerVars, socketVars, Listening, Reading
<1>22. ASSUME NEW r \in Request, SendBlock(r) PROVE Listening'
  BY <1>22 DEF SendBlock, Sock!ClientRequestConnection, callerVars, socketVars, Listening, Reading
<1>23. ASSUME NEW r \in Request, CloseFile(r) PROVE Listening'
  BY <1>23 DEF CloseFile, Sock!ClientRequestConnection, callerVars, socketVars, Listening, Reading
<1>24. ASSUME NEW r \in Request, SendBreaksOff(r) PROVE Listening'
  BY <1>24, EndsKeepListening DEF SendBreaksOff, Host, At, CallerTypes, TypeOK, Cause
<1>25. ASSUME NEW h \in Host, UserExit(h) PROVE Listening'
  BY <1>25, EndsKeepListening DEF UserExit, Host, At, CallerTypes, TypeOK, Cause
<1>26. CASE UNCHANGED vars
  BY <1>26 DEF vars, callerVars, socketVars, Listening, Reading
<1> QED BY <1>1, <1>2, <1>3, <1>4, <1>5, <1>6, <1>7, <1>8, <1>9, <1>10, <1>11,
           <1>12, <1>13, <1>14, <1>15, <1>16, <1>17, <1>18, <1>19, <1>20, <1>21, <1>22,
           <1>23, <1>24, <1>25, <1>26
        DEF Next, CallerStep, PeerStep

\* The end of a process loses no answer.
LEMMA EndsKeepHeard ==
    ASSUME Heard, NEW h \in Host, NEW why \in Cause, Ends(h, why)
    PROVE  Heard'
BY DEF Heard, Current, Kind, Ends, callerVars, peerVars

\* What one caller hangs up is its own answer, unless its port is in doubt.
LEMMA FinishesHeard ==
    ASSUME TypeOK, Routes, Heard, NEW t \in Caller, Finishes(t)
    PROVE  Heard'
<1>1. Accepted /\ OwnAnswer
  BY DEF Routes
<1>2. /\ pc'[t] \in {"idle", "ask"} /\ accepted[t] \in Request /\ accepted[t] # None
      /\ \A u \in Caller \ {t} : pc'[u] = pc[u] /\ call'[u] = call[u]
      /\ UNCHANGED << phase, doubtful >>
  BY <1>1, FinishFacts DEF OtherCallers, Accepted
<1>3. \A r \in Request : r # accepted[t] => header'[r] = header[r]
  BY <1>2 DEF Finishes, HangUp, TypeOK, PeerTypes
<1>4. doubtful = {} => accepted[t][1] = t
  BY <1>1, <1>2 DEF OwnAnswer, Current
<1> QED BY <1>2, <1>3, <1>4, RequestParts DEF Heard, Current, Kind

\* Reading on touches no answer that its own caller still waits for.
LEMMA ReadsOnHeard ==
    ASSUME TypeOK, Heard, ReadsOn, header' = header
    PROVE  Heard'
<1> SUFFICES ASSUME doubtful' = {}, NEW r \in Request, r[3] = "lookup", phase'[r] = "closed",
                    r = Current(r[1])', pc'[r[1]] \in {"listen", "accept", "read"}
             PROVE  header'[r] # None
  BY DEF Heard
<1>1. doubtful' = doubtful /\ phase' = phase /\ call' = call /\ pc'[Ui] = "body"
  BY ReadsOnFacts
<1>2. \A u \in Caller \ {Ui} : pc'[u] = pc[u]
  BY ReadsOnFacts DEF OtherCallers
<1>3. r[1] \in Caller /\ r[1] # Ui
  BY <1>1, RequestParts
<1>4. pc'[r[1]] = pc[r[1]]
  BY <1>2, <1>3
<1>5. r = Current(r[1])
  BY <1>1, <1>4 DEF Current, Kind
<1> QED BY <1>1, <1>4, <1>5 DEF Heard

\* An answer that was sent is read by nobody but its caller.
LEMMA HeardStep ==
    ASSUME TypeOK, Routes, Headers, Heard, [Next]_vars
    PROVE  Heard'
<1> USE DEF socketVars
<1>1. ASSUME NEW t \in Caller, NEW p \in Port, NEW s \in Peer, SendLookup(t, p, s) PROVE Heard'
  BY <1>1, RequestParts, NoneApart DEF SendLookup, Goto, Running, Ask, At, Returns, IsLookup, TypeOK, PeerTypes, CallerTypes, callerVars, peerVars, socketVars, Headers, Header, Heard, Current, Kind
<1>2. ASSUME FindHere PROVE Heard'
  BY <1>2, RequestParts, NoneApart DEF FindHere, Goto, Running, Ask, At, Returns, IsLookup, TypeOK, PeerTypes, CallerTypes, callerVars, peerVars, socketVars, Headers, Header, Heard, Current, Kind
<1>3. ASSUME SendDownload PROVE Heard'
  BY <1>3, RequestParts, NoneApart DEF SendDownload, Goto, Running, Ask, At, Returns, IsLookup, TypeOK, PeerTypes, CallerTypes, callerVars, peerVars, socketVars, Headers, Header, Heard, Current, Kind
<1>4. ASSUME NEW t \in Caller, SendNowhere(t) PROVE Heard'
  BY <1>4, EndsKeepHeard DEF SendNowhere, Host, At, CallerTypes, TypeOK, Cause
<1>5. ASSUME NEW t \in Caller, Listen(t) PROVE Heard'
  BY <1>5, RequestParts, NoneApart DEF Listen, Goto, Running, Ask, At, Returns, IsLookup, TypeOK, PeerTypes, CallerTypes, callerVars, peerVars, socketVars, Headers, Header, Heard, Current, Kind
<1>6. ASSUME NEW t \in Caller, CannotListen(t) PROVE Heard'
  BY <1>6, EndsKeepHeard DEF CannotListen, Host, At, CallerTypes, TypeOK, Cause
<1>7. ASSUME NEW t \in Caller, Accept(t) PROVE Heard'
  BY <1>7, RequestParts, NoneApart DEF Accept, Goto, Running, Ask, At, Returns, IsLookup, TypeOK, PeerTypes, CallerTypes, callerVars, peerVars, socketVars, Headers, Header, Heard, Current, Kind
<1>8. ASSUME NEW t \in Caller, ReadAnswer(t) PROVE Heard'
  <2>1. Finishes(t)
    BY <1>8 DEF ReadAnswer, Finishes, HangUp, Reading, Running
  <2> QED BY <2>1, FinishesHeard, NoneApart
<1>9. ASSUME NEW t \in Caller, ReadNothing(t) PROVE Heard'
  <2>1. Finishes(t)
    BY <1>9 DEF ReadNothing, Finishes, HangUp, Reading, Running
  <2> QED BY <2>1, FinishesHeard, NoneApart
<1>10. ASSUME NEW t \in Caller, BelieveNothing(t) PROVE Heard'
  BY <1>10, EndsKeepHeard DEF BelieveNothing, Host, At, CallerTypes, TypeOK, Cause
<1>11. ASSUME NoLength PROVE Heard'
  <2>1. Finishes(Ui)
    BY <1>11 DEF NoLength, Finishes, HangUp, Reading, Running
  <2> QED BY <2>1, FinishesHeard, NoneApart
<1>12. ASSUME OpenFile PROVE Heard'
  <2>1. CASE length' > 0
    <3>1. ReadsOn
      BY <1>12, <2>1 DEF OpenFile, ReadsOn, Goto, Running, TypeOK, CallerTypes, peerVars
    <3>2. header' = header
      BY <1>12, <2>1 DEF OpenFile, peerVars
    <3> QED BY <3>1, <3>2, ReadsOnHeard
  <2>2. CASE ~(length' > 0)
    <3>1. Finishes(Ui)
      BY <1>12, <2>2 DEF OpenFile, Finishes, HangUp, Reading, Running
    <3> QED BY <3>1, FinishesHeard, NoneApart
  <2> QED BY <2>1, <2>2
<1>13. ASSUME ReadBlock PROVE Heard'
  <2>1. CASE length' > 0
    <3>1. ReadsOn
      BY <1>13, <2>1 DEF ReadBlock, ReadsOn, Goto, Running, TypeOK, CallerTypes, peerVars
    <3>2. header' = header
      BY <1>13, <2>1 DEF ReadBlock, peerVars
    <3> QED BY <3>1, <3>2, ReadsOnHeard
  <2>2. CASE ~(length' > 0)
    <3>1. Finishes(Ui)
      BY <1>13, <2>2 DEF ReadBlock, Finishes, HangUp, Reading, Running
    <3> QED BY <3>1, FinishesHeard, NoneApart
  <2> QED BY <2>1, <2>2
<1>14. ASSUME FileBreaksOff PROVE Heard'
  BY <1>14, EndsKeepHeard DEF FileBreaksOff, Host, At, CallerTypes, TypeOK, Cause
<1>15. ASSUME NEW r \in Request, NEW s \in Peer, Forward(r, s) PROVE Heard'
  BY <1>15, RequestParts, NoneApart DEF Forward, Goto, Running, Ask, At, Returns, IsLookup, TypeOK, PeerTypes, CallerTypes, callerVars, peerVars, socketVars, Headers, Header, Heard, Current, Kind
<1>16. ASSUME NEW r \in Request, ForwardNowhere(r) PROVE Heard'
  BY <1>16, EndsKeepHeard DEF ForwardNowhere, Host, At, CallerTypes, TypeOK, Cause
<1>17. ASSUME NEW r \in Request, Connect(r) PROVE Heard'
  BY <1>17, RequestParts, NoneApart DEF Connect, Goto, Running, Ask, At, Returns, IsLookup, TypeOK, PeerTypes, CallerTypes, callerVars, peerVars, socketVars, Headers, Header, Heard, Current, Kind
<1>18. ASSUME NEW r \in Request, ConnectAndClose(r) PROVE Heard'
  BY <1>18, RequestParts, NoneApart DEF ConnectAndClose, Goto, Running, Ask, At, Returns, IsLookup, TypeOK, PeerTypes, CallerTypes, callerVars, peerVars, socketVars, Headers, Header, Heard, Current, Kind
<1>19. ASSUME NEW r \in Request, ConnectNowhere(r) PROVE Heard'
  BY <1>19, EndsKeepHeard DEF ConnectNowhere, Host, At, CallerTypes, TypeOK, Cause
<1>20. ASSUME NEW r \in Request, SendAnswer(r) PROVE Heard'
  BY <1>20, RequestParts, NoneApart DEF SendAnswer, Goto, Running, Ask, At, Returns, IsLookup, TypeOK, PeerTypes, CallerTypes, callerVars, peerVars, socketVars, Headers, Header, Heard, Current, Kind
<1>21. ASSUME NEW r \in Request, SendLength(r) PROVE Heard'
  BY <1>21, RequestParts, NoneApart DEF SendLength, Goto, Running, Ask, At, Returns, IsLookup, TypeOK, PeerTypes, CallerTypes, callerVars, peerVars, socketVars, Headers, Header, Heard, Current, Kind
<1>22. ASSUME NEW r \in Request, SendBlock(r) PROVE Heard'
  BY <1>22, RequestParts, NoneApart DEF SendBlock, Goto, Running, Ask, At, Returns, IsLookup, TypeOK, PeerTypes, CallerTypes, callerVars, peerVars, socketVars, Headers, Header, Heard, Current, Kind
<1>23. ASSUME NEW r \in Request, CloseFile(r) PROVE Heard'
  BY <1>23, RequestParts, NoneApart DEF CloseFile, Goto, Running, Ask, At, Returns, IsLookup, TypeOK, PeerTypes, CallerTypes, callerVars, peerVars, socketVars, Headers, Header, Heard, Current, Kind
<1>24. ASSUME NEW r \in Request, SendBreaksOff(r) PROVE Heard'
  BY <1>24, EndsKeepHeard DEF SendBreaksOff, Host, At, CallerTypes, TypeOK, Cause
<1>25. ASSUME NEW h \in Host, UserExit(h) PROVE Heard'
  BY <1>25, EndsKeepHeard DEF UserExit, Host, At, CallerTypes, TypeOK, Cause
<1>26. CASE UNCHANGED vars
  BY <1>26 DEF vars, callerVars, peerVars, Heard, Current, Kind
<1> QED BY <1>1, <1>2, <1>3, <1>4, <1>5, <1>6, <1>7, <1>8, <1>9, <1>10, <1>11,
           <1>12, <1>13, <1>14, <1>15, <1>16, <1>17, <1>18, <1>19, <1>20, <1>21, <1>22,
           <1>23, <1>24, <1>25, <1>26
        DEF Next, CallerStep, PeerStep

\* Which process may end first, and of what.
LEMMA FirstEndStep ==
    ASSUME TypeOK, Routes, Headers, Disk, Alive, Listening, Heard, FirstEnd, [Next]_vars
    PROVE  FirstEnd'
<1> SUFFICES ASSUME doubtful' = {}, cause' \notin {None, "exit", "early"} PROVE FALSE
  BY DEF FirstEnd
<1> DEFINE Fails(why) == cause' = IF cause = None THEN why ELSE cause
<1>0. ASSUME doubtful' = doubtful, NEW why, Fails(why)
      PROVE  cause = None /\ doubtful = {} /\ why \notin {"exit", "early"} /\ up = Host
  BY <1>0 DEF FirstEnd, Alive
<1> HIDE DEF Fails
<1> USE DEF Ends, Running, callerVars, peerVars
<1>1. ASSUME NEW t \in Caller, NEW p \in Port, NEW s \in Peer, SendLookup(t, p, s) PROVE FALSE
  <2>1. cause' = cause /\ doubtful \subseteq doubtful'
    BY <1>1 DEF SendLookup
  <2> QED BY <2>1 DEF FirstEnd
<1>2. ASSUME FindHere PROVE FALSE
  <2>1. cause' = cause /\ doubtful \subseteq doubtful'
    BY <1>2 DEF FindHere
  <2> QED BY <2>1 DEF FirstEnd
<1>3. ASSUME SendDownload PROVE FALSE
  <2>1. cause' = cause /\ doubtful \subseteq doubtful'
    BY <1>3 DEF SendDownload
  <2> QED BY <2>1 DEF FirstEnd
<1>4. ASSUME NEW t \in Caller, SendNowhere(t) PROVE FALSE
  <2>1. doubtful' = doubtful /\ Fails("sending")
    BY <1>4 DEF SendNowhere, Fails
  <2>2. cause = None /\ doubtful = {} /\ up = Host
    BY <2>1, <1>0
  <2>3. Peer \subseteq up /\ (pc[t] = "ask" => t = Ui)
    BY <2>2, NoneApart DEF Host, Routes, Ports, Caller
  <2> QED BY <1>4, <2>2, <2>3 DEF SendNowhere, Alive
<1>5. ASSUME NEW t \in Caller, Listen(t) PROVE FALSE
  <2>1. cause' = cause /\ doubtful \subseteq doubtful'
    BY <1>5 DEF Listen
  <2> QED BY <2>1 DEF FirstEnd
<1>6. ASSUME NEW t \in Caller, CannotListen(t) PROVE FALSE
  <2>1. doubtful' = doubtful /\ Fails("binding")
    BY <1>6 DEF CannotListen, Fails
  <2>2. cause = None /\ doubtful = {} /\ up = Host
    BY <2>1, <1>0
  <2>3. port[t] \in Port /\ listener[port[t]] # None
    BY <1>6 DEF CannotListen, Sock!IsOpen, TypeOK, CallerTypes
  <2>4. PICK u \in Caller : listener[port[t]] = u
    BY <2>3 DEF TypeOK, SocketTypes
  <2>5. port[u] = port[t] /\ u # t /\ Busy(u) /\ Busy(t)
    BY <1>6, <2>3, <2>4 DEF CannotListen, Routes, Connections, Reading, Busy
  <2> QED BY <2>2, <2>5 DEF Routes, Ports
<1>7. ASSUME NEW t \in Caller, Accept(t) PROVE FALSE
  <2>1. cause' = cause /\ doubtful \subseteq doubtful'
    BY <1>7 DEF Accept
  <2> QED BY <2>1 DEF FirstEnd
<1>8. ASSUME NEW t \in Caller, ReadAnswer(t) PROVE FALSE
  <2>1. cause' = cause /\ doubtful \subseteq doubtful'
    BY <1>8 DEF ReadAnswer
  <2> QED BY <2>1 DEF FirstEnd
<1>9. ASSUME NEW t \in Caller, ReadNothing(t) PROVE FALSE
  <2>1. cause' = cause /\ doubtful \subseteq doubtful'
    BY <1>9 DEF ReadNothing
  <2> QED BY <2>1 DEF FirstEnd
<1>10. ASSUME NEW t \in Caller, BelieveNothing(t) PROVE FALSE
  <2>1. doubtful' = doubtful /\ Fails("sending")
    BY <1>10 DEF BelieveNothing, Fails
  <2>2. cause = None /\ doubtful = {} /\ up = Host
    BY <2>1, <1>0
  <2>3. /\ accepted[t] \in Request /\ accepted[t] = Current(t) /\ pc[t] = "read"
        /\ header[accepted[t]] = None /\ AtEnd(accepted[t])
        /\ phase[accepted[t]] \in Answering
    BY <1>10, <2>2 DEF BelieveNothing, Reading, Routes, Accepted, OwnAnswer, TypeOK, CallerTypes
  <2>4. phase[accepted[t]] = "closed"
    BY <2>2, <2>3 DEF AtEnd, Alive, Answering, Host
  <2>5. accepted[t][1] = t /\ accepted[t][3] = "lookup"
    BY <2>3 DEF Current, Kind
  <2> QED BY <2>2, <2>3, <2>4, <2>5 DEF Heard
<1>11. ASSUME NoLength PROVE FALSE
  <2>1. cause' = cause /\ doubtful \subseteq doubtful'
    BY <1>11 DEF NoLength
  <2> QED BY <2>1 DEF FirstEnd
<1>12. ASSUME OpenFile PROVE FALSE
  <2>1. cause' = cause /\ doubtful \subseteq doubtful'
    BY <1>12 DEF OpenFile
  <2> QED BY <2>1 DEF FirstEnd
<1>13. ASSUME ReadBlock PROVE FALSE
  <2>1. cause' = cause /\ doubtful \subseteq doubtful'
    BY <1>13 DEF ReadBlock
  <2> QED BY <2>1 DEF FirstEnd
<1>14. ASSUME FileBreaksOff PROVE FALSE
  <2>1. doubtful' = doubtful /\ Fails("reading")
    BY <1>14 DEF FileBreaksOff, Fails
  <2>2. cause = None /\ doubtful = {} /\ up = Host
    BY <2>1, <1>0
  <2>3. PICK c \in Request : c = accepted[Ui] /\ phase[c] \in {"sending", "closed"}
    BY <1>14, MenuConnection DEF FileBreaksOff
  <2>4. /\ length > 0 /\ toSend[c] >= 0 /\ length = unread[c] + toSend[c]
        /\ unread[c] = 0 /\ toSend[c] \in Int /\ AtEnd(c)
    BY <1>14, <2>3 DEF FileBreaksOff, Disk, TypeOK, PeerTypes
  <2>5. phase[c] = "closed"
    BY <2>2, <2>3, <2>4 DEF AtEnd, Alive, Host
  <2>6. toSend[c] <= 0
    BY <2>5 DEF Headers, Header
  <2> QED BY <2>4, <2>6
<1>15. ASSUME NEW r \in Request, NEW s \in Peer, Forward(r, s) PROVE FALSE
  <2>1. cause' = cause /\ doubtful \subseteq doubtful'
    BY <1>15 DEF Forward
  <2> QED BY <2>1 DEF FirstEnd
<1>16. ASSUME NEW r \in Request, ForwardNowhere(r) PROVE FALSE
  <2>1. doubtful' = doubtful /\ Fails("sending")
    BY <1>16 DEF ForwardNowhere, Fails
  <2>2. cause = None /\ doubtful = {} /\ up = Host
    BY <2>1, <1>0
  <2> QED BY <1>16, <2>2 DEF ForwardNowhere, Host
<1>17. ASSUME NEW r \in Request, Connect(r) PROVE FALSE
  <2>1. cause' = cause /\ doubtful \subseteq doubtful'
    BY <1>17 DEF Connect
  <2> QED BY <2>1 DEF FirstEnd
<1>18. ASSUME NEW r \in Request, ConnectAndClose(r) PROVE FALSE
  <2>1. cause' = cause /\ doubtful \subseteq doubtful'
    BY <1>18 DEF ConnectAndClose
  <2> QED BY <2>1 DEF FirstEnd
<1>19. ASSUME NEW r \in Request, ConnectNowhere(r) PROVE FALSE
  <2> DEFINE why == IF Early(r) THEN "early" ELSE "connecting"
  <2>1. doubtful' = doubtful /\ Fails(why)
    BY <1>19 DEF ConnectNowhere, Fails
  <2>2. cause = None /\ doubtful = {} /\ up = Host /\ ~Early(r)
    BY <2>1, <1>0
  <2> DEFINE t == r[1]
  <2>3. /\ phase[r] \in {"asked", "routed"} /\ server[r] \in up
        /\ replyTo[r] \in Port /\ listener[replyTo[r]] = None
    BY <1>19 DEF ConnectNowhere, At, Sock!IsOpen, TypeOK, PeerTypes
  <2>4. t \in Caller /\ Busy(t) /\ port[t] = replyTo[r] /\ r = Current(t)
    BY <2>2, <2>3, RequestParts DEF Routes, Pending
  <2>5. pc[t] \notin {"accept", "accept2"} /\ ~Reading(t)
    BY <2>2, <2>3, <2>4, NoneApart DEF Listening
  <2>6. pc[t] \in {"listen", "listen2", "ask"}
    BY <2>4, <2>5 DEF Busy, Reading, TypeOK, CallerTypes
  <2>7. pc[t] # "ask"
    <3>1. ASSUME pc[t] = "ask" PROVE FALSE
      <4>1. t = Ui
        BY <2>4, <3>1 DEF Routes, Ports, Caller
      <4>2. r[1] = Ui /\ r[2] = call[Ui] /\ r[3] = "download"
        BY <2>4, <3>1, <4>1 DEF Current, Kind
      <4> QED BY <2>3, <3>1, <4>1, <4>2 DEF Routes, Fresh
    <3> QED BY <3>1
  <2> QED BY <2>2, <2>4, <2>6, <2>7, NoneApart DEF Early
<1>20. ASSUME NEW r \in Request, SendAnswer(r) PROVE FALSE
  <2>1. cause' = cause /\ doubtful \subseteq doubtful'
    BY <1>20 DEF SendAnswer
  <2> QED BY <2>1 DEF FirstEnd
<1>21. ASSUME NEW r \in Request, SendLength(r) PROVE FALSE
  <2>1. cause' = cause /\ doubtful \subseteq doubtful'
    BY <1>21 DEF SendLength
  <2> QED BY <2>1 DEF FirstEnd
<1>22. ASSUME NEW r \in Request, SendBlock(r) PROVE FALSE
  <2>1. cause' = cause /\ doubtful \subseteq doubtful'
    BY <1>22 DEF SendBlock
  <2> QED BY <2>1 DEF FirstEnd
<1>23. ASSUME NEW r \in Request, CloseFile(r) PROVE FALSE
  <2>1. cause' = cause /\ doubtful \subseteq doubtful'
    BY <1>23 DEF CloseFile
  <2> QED BY <2>1 DEF FirstEnd
<1>24. ASSUME NEW r \in Request, SendBreaksOff(r) PROVE FALSE
  <2>1. doubtful' = doubtful /\ Fails("sending")
    BY <1>24 DEF SendBreaksOff, Fails
  <2>2. cause = None /\ doubtful = {} /\ up = Host
    BY <2>1, <1>0
  <2> QED BY <1>24, <2>2, NoneApart DEF SendBreaksOff
<1>25. ASSUME NEW h \in Host, UserExit(h) PROVE FALSE
  <2>1. doubtful' = doubtful /\ Fails("exit")
    BY <1>25 DEF UserExit, Fails
  <2> QED BY <2>1, <1>0
<1>26. CASE UNCHANGED vars
  <2>1. cause' = cause /\ doubtful \subseteq doubtful'
    BY <1>26 DEF vars
  <2> QED BY <2>1 DEF FirstEnd
<1> QED BY <1>1, <1>2, <1>3, <1>4, <1>5, <1>6, <1>7, <1>8, <1>9, <1>10, <1>11,
           <1>12, <1>13, <1>14, <1>15, <1>16, <1>17, <1>18, <1>19, <1>20, <1>21, <1>22,
           <1>23, <1>24, <1>25, <1>26
        DEF Next, CallerStep, PeerStep

-----------------------------------------------------------------------------
(* The theorems.                                                           *)

\* All of it.
ExchangeInv ==
    TypeOK /\ Routes /\ Headers /\ Disk /\ Alive /\ Listening /\ Heard /\ FirstEnd

\* The invariant holds before the first call.
LEMMA ExchangeInit == Init => ExchangeInv
<1> SUFFICES ASSUME Init PROVE ExchangeInv
  OBVIOUS
<1> USE DEF Init, Sock!NoSockets, NoFile
<1>0. UiPort \in Port /\ Ui \in Caller
  BY DEF Port, Caller
<1>1. TypeOK
  <2>1. CallerTypes
    BY <1>0, ExchangeAssumption DEF CallerTypes
  <2>2. << >> \in Seq(Request)
    OBVIOUS
  <2>3. SocketTypes
    BY <2>2 DEF SocketTypes
  <2>4. PeerTypes
    BY <1>0 DEF PeerTypes
  <2> QED BY <2>1, <2>3, <2>4 DEF TypeOK
<1>2. \A p \in Port, r \in Request : ~Waits(p, r)
  BY DEF Waits
<1>3. Ports /\ Accepted /\ OwnAnswer
  BY <1>0 DEF Ports, Accepted, OwnAnswer, Busy, Reading, Caller
<1>4. Fresh
  BY DEF Fresh
<1>5. Connections
  BY <1>2, NoneApart DEF Connections
<1>6. Pending
  BY <1>2 DEF Pending
<1>7. Headers
  BY NoneApart, RequestParts DEF Headers, Header
<1>8. Disk /\ Alive /\ Listening /\ Heard /\ FirstEnd
  BY <1>0 DEF Disk, WholeBetween, Alive, Listening, Heard, FirstEnd, Reading
<1> QED BY <1>1, <1>3, <1>4, <1>5, <1>6, <1>7, <1>8 DEF ExchangeInv, Routes

\* The invariant holds in every state.
LEMMA ExchangeInvariant == Spec => []ExchangeInv
<1>1. ExchangeInv /\ [Next]_vars => ExchangeInv'
  <2> SUFFICES ASSUME ExchangeInv, [Next]_vars PROVE ExchangeInv'
    OBVIOUS
  <2> USE DEF ExchangeInv
  <2>1. RouteStep
    BY RouteSteps
  <2>2. Routes'
    BY <2>1, PortsStep, FreshStep, AcceptedStep, ConnectionsStep, PendingStep, OwnAnswerStep
       DEF Routes
  <2>3. TypeOK' /\ Headers' /\ Disk' /\ Alive' /\ Listening' /\ Heard' /\ FirstEnd'
    BY TypeStep, HeadersStep, DiskStep, AliveStep, ListeningStep, HeardStep, FirstEndStep
  <2> QED BY <2>2, <2>3
<1> QED BY ExchangeInit, <1>1, PTL DEF Spec

\* Every variable holds a value of its type, whatever the peers answer and
\* whoever ends.
THEOREM ExchangeTypeCorrect == Spec => []TypeOK
<1>1. ExchangeInv => TypeOK
  BY DEF ExchangeInv
<1> QED BY ExchangeInvariant, <1>1, PTL

\* For any number of handler threads, peers and calls a caller accepts the answer
\* to its own call, unless its port was drawn while another answer was due there.
THEOREM AnswersReachTheirCalls == Spec => []OwnAnswer
<1>1. ExchangeInv => OwnAnswer
  BY DEF ExchangeInv, Routes
<1> QED BY ExchangeInvariant, <1>1, PTL

\* DiskWhole: for any sizes and any width of an int, whoever ends, a file that
\* fits is whole, or its writer is, or ended, in the middle of it and the rest
\* is on the connection or not sent yet.
THEOREM DownloadsAreWhole == Spec => []DiskWhole
<1>1. ExchangeInv => DiskWhole
  <2> SUFFICES ASSUME ExchangeInv, disk.of # None, disk.has # Announced(disk.of)
               PROVE  LET c == accepted[Ui]
                      IN  /\ pc[Ui] = "body"
                          /\ disk.has + unread[c] + toSend[c] = Announced(disk.of)
                          /\ phase[c] = "closed" => toSend[c] = 0
    BY DEF DiskWhole
  <2>1. TypeOK /\ Routes /\ Headers /\ Disk
    BY DEF ExchangeInv
  <2>2. pc[Ui] = "body"
    BY <2>1 DEF Disk, WholeBetween
  <2>3. PICK c \in Request : c = accepted[Ui]
    BY <2>1, <2>2, MenuConnection
  <2>4. /\ c[3] = "download" /\ header[c] # None /\ disk.of = size[c]
        /\ disk.has + length = header[c] /\ length = unread[c] + toSend[c] /\ toSend[c] >= 0
    BY <2>1, <2>2, <2>3, MenuConnection DEF Disk
  <2>5. /\ header[c] = AsInt(size[c]) /\ size[c] \in Size
        /\ phase[c] = "closed" => toSend[c] <= 0
    BY <2>1, <2>4 DEF Headers, Header
  <2>6. header[c] \in Int
    BY <2>5, AsIntRange, ExchangeAssumption
  <2>7. disk.has \in Nat /\ unread[c] \in Nat /\ toSend[c] \in Int /\ length > 0
    BY <2>1, <2>2 DEF TypeOK, CallerTypes, PeerTypes, Disk
  <2>8. disk.has + unread[c] + toSend[c] = Announced(disk.of)
    BY <2>4, <2>5, <2>6, <2>7 DEF Announced
  <2>9. phase[c] = "closed" => toSend[c] = 0
    BY <2>4, <2>5, <2>7
  <2> QED BY <2>2, <2>3, <2>8, <2>9
<1> QED BY ExchangeInvariant, <1>1, PTL

\* With no port in doubt the first process to end is ended by its user, or has
\* answered before the caller listened.
THEOREM OnlyEarlyAnswersEnd == Spec => []FirstEnd
<1>1. ExchangeInv => FirstEnd
  BY DEF ExchangeInv
<1> QED BY ExchangeInvariant, <1>1, PTL
=============================================================================
