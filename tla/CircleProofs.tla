---------------------------- MODULE CircleProofs ----------------------------
(***************************************************************************)
(* The rule of is_responsible_to cuts a circle of any size into one arc    *)
(* per host, and the fingers of get_next_hop_info at least halve the way   *)
(* that is left to a hash until its owner is reached.                      *)
(***************************************************************************)
EXTENDS Circle, RingProofs

\* Hosts are points of the circle, and there is one.
Hosts == hosts \subseteq Ids /\ hosts # {}

LEMMA SomeHosts == Spec => []Hosts
<1>1. Init => Hosts
  BY DEF Init, Hosts
<1>2. Hosts /\ [Next]_hosts => Hosts'
  BY DEF Next, Hosts
<1> QED BY <1>1, <1>2, PTL DEF Spec

\* For every set of hosts on a circle of any size, exactly one host is
\* responsible for a hash, and it is the hash's successor (is_responsible_to,
\* with local_start one past the predecessor).
THEOREM OneResponsibleHost == Spec => []OneResponsible
<1>1. Hosts => OneResponsible
  <2> SUFFICES ASSUME Hosts, NEW h \in Ids
               PROVE  { s \in hosts : ResponsibleAt(s, h) } = { SuccessorIn(hosts, h) }
    BY DEF OneResponsible
  <2>1. SuccessorIn(hosts, h) \in hosts
    BY SuccessorExists DEF Hosts
  <2>2. \A s \in hosts : ResponsibleAt(s, h) <=> s = SuccessorIn(hosts, h)
    BY ArcOfSuccessor DEF ResponsibleAt, Hosts
  <2> QED BY <2>1, <2>2
<1> QED BY <1>1, SomeHosts, PTL

-----------------------------------------------------------------------------
(* One forward.                                                            *)

\* A host on the hash itself is the hash's successor.
LEMMA SuccessorOfHost ==
    ASSUME Hosts, NEW h \in Ids, NEW x \in hosts, Steps(x, h) = 0
    PROVE  x = SuccessorIn(hosts, h)
<1> DEFINE t == SuccessorIn(hosts, h)
<1>1. t \in hosts /\ \A z \in hosts : Steps(h, t) <= Steps(h, z)
  BY SuccessorExists DEF Hosts
<1>2. x \in Ids /\ t \in Ids
  BY <1>1 DEF Hosts
<1>3. x = h
  <2>1. Steps(x, h) = IF h >= x THEN h - x ELSE h - x + TotalHashPoints
    BY <1>2, StepsRange
  <2> QED BY <1>2, <2>1, PointsNat DEF Ids
<1>4. Steps(h, h) = 0
  BY <1>3
<1>5. Steps(h, t) = Steps(h, x)
  <2>1. Steps(h, t) \in Nat
    BY <1>2, StepsRange, PointsNat
  <2> QED BY <1>1, <1>3, <1>4, <2>1
<1> HIDE DEF t
<1>6. x = t
  BY <1>2, <1>5, StepsApart
<1> QED BY <1>6 DEF t

\* The first host from a point p before h is h's successor, or is no farther
\* from h than p is.
LEMMA FirstFrom ==
    ASSUME Hosts, NEW h \in Ids, NEW p \in Ids,
           SuccessorIn(hosts, p) # SuccessorIn(hosts, h)
    PROVE  Steps(SuccessorIn(hosts, p), h) <= Steps(p, h)
<1> DEFINE t == SuccessorIn(hosts, h)
           y == SuccessorIn(hosts, p)
<1>1. /\ t \in hosts /\ \A z \in hosts : Steps(h, t) <= Steps(h, z)
      /\ y \in hosts /\ \A z \in hosts : Steps(p, y) <= Steps(p, z)
  BY SuccessorExists DEF Hosts
<1>2. t \in Ids /\ y \in Ids
  BY <1>1 DEF Hosts
<1>3. Steps(h, t) <= Steps(h, y) /\ Steps(p, y) <= Steps(p, t) /\ y # t
  BY <1>1
<1> HIDE DEF t, y
<1>4. /\ Steps(p, h) \in 0 .. TotalHashPoints - 1
      /\ Steps(p, y) \in 0 .. TotalHashPoints - 1
      /\ Steps(p, t) \in 0 .. TotalHashPoints - 1
  BY <1>2, StepsRange
<1>5. /\ Steps(y, h) = IF Steps(p, h) >= Steps(p, y) THEN Steps(p, h) - Steps(p, y)
                       ELSE Steps(p, h) - Steps(p, y) + TotalHashPoints
      /\ Steps(h, y) = IF Steps(p, y) >= Steps(p, h) THEN Steps(p, y) - Steps(p, h)
                       ELSE Steps(p, y) - Steps(p, h) + TotalHashPoints
      /\ Steps(h, t) = IF Steps(p, t) >= Steps(p, h) THEN Steps(p, t) - Steps(p, h)
                       ELSE Steps(p, t) - Steps(p, h) + TotalHashPoints
  BY <1>2, StepsFrom
<1>6. Steps(p, y) # Steps(p, t)
  BY <1>2, <1>3, StepsApart
<1>7. Steps(y, h) <= Steps(p, h)
  BY <1>3, <1>4, <1>5, <1>6, PointsNat
<1> QED BY <1>7 DEF y

\* A forward reaches the owner, or takes one bit off the way that is left.
LEMMA ForwardNearer ==
    ASSUME Hosts, NEW h \in Ids, NEW x \in hosts, x # SuccessorIn(hosts, h),
           NEW k \in 1 .. M, Steps(x, h) < 2^k
    PROVE  /\ Forward(x, h) \in hosts
           /\ Forward(x, h) # SuccessorIn(hosts, h) => Steps(Forward(x, h), h) < 2^(k - 1)
<1> DEFINE d == Steps(x, h)
           i == HopIndex(x, h)
           p == HashValueAdd(x, 2^i)
           y == SuccessorIn(hosts, p)
<1>1. x \in Ids
  BY DEF Hosts
<1>2. d \in 1 .. TotalHashPoints - 1
  <2>1. d # 0
    BY SuccessorOfHost
  <2> QED BY <1>1, <2>1, StepsRange, PointsNat
<1>3. i = Log2(d)
  <2>1. d = (IF h < x THEN h + TotalHashPoints ELSE h) - x
    <3>1. d = IF h >= x THEN h - x ELSE h - x + TotalHashPoints
      BY <1>1, StepsRange
    <3> HIDE DEF d
    <3> QED BY <1>1, <3>1, PointsNat DEF Ids
  <2> QED BY <2>1 DEF HopIndex
<1>4. i \in FingerIndex /\ 2^i <= d /\ d < 2^(i + 1)
  BY <1>2, <1>3, Log2Range
<1>5. 2^i \in 1 .. TotalHashPoints - 1 /\ 2^(i + 1) = 2 * 2^i
  BY <1>4, EntrySpan, PowersOfTwo
<1>6. 2^i <= 2^(k - 1)
  <2>1. i \in 0..M /\ k \in 0..M /\ k - 1 \in 0..M /\ i \in Int
    BY <1>4, RingBits DEF FingerIndex
  <2>2. 2^i \in Nat /\ 2^k \in Nat /\ 2^(k - 1) \in Nat
    BY <2>1, PowersNat
  <2>3. 2^i < 2^k
    BY <1>2, <1>4, <2>2, PointsNat
  <2>4. ~(k <= i)
    BY <2>1, <2>2, <2>3, PowersGrow
  <2>5. i = k - 1 \/ i < k - 1
    BY <2>1, <2>4
  <2> QED BY <2>1, <2>2, <2>5, PowersGrow
<1>7. p \in Ids /\ Steps(x, p) = 2^i
  <2>1. /\ p \in Ids
        /\ Steps(x, p) = IF Steps(x, x) + 2^i < TotalHashPoints THEN Steps(x, x) + 2^i
                         ELSE Steps(x, x) + 2^i - TotalHashPoints
    BY <1>1, <1>5, StepsToPoint
  <2>2. Steps(x, x) = 0
    <3>1. x \in Int
      BY <1>1, PointsNat DEF Ids
    <3>2. Steps(x, x) = IF x >= x THEN x - x ELSE x - x + TotalHashPoints
      BY <1>1, StepsRange
    <3> QED BY <3>1, <3>2
  <2> QED BY <1>5, <2>1, <2>2, PointsNat
<1>8. Steps(p, h) = d - 2^i
  <2>1. Steps(p, h) = IF d >= Steps(x, p) THEN d - Steps(x, p)
                      ELSE d - Steps(x, p) + TotalHashPoints
    BY <1>1, <1>7, StepsFrom
  <2> HIDE DEF d, p
  <2> QED BY <1>2, <1>4, <1>5, <1>7, <2>1, PointsNat
<1>9. Forward(x, h) = y /\ y \in hosts
  <2>1. ~ResponsibleAt(x, h)
    BY ArcOfSuccessor DEF ResponsibleAt, Hosts
  <2> QED BY <1>7, <2>1, SuccessorExists DEF Forward, Hosts
<1>10. ASSUME y # SuccessorIn(hosts, h)
       PROVE  Steps(y, h) < 2^(k - 1)
  <2>1. Steps(y, h) <= Steps(p, h)
    BY <1>7, <1>10, FirstFrom
  <2>2. y \in Ids
    BY <1>9 DEF Hosts
  <2>3. Steps(y, h) \in Int
    BY <2>2, StepsRange, PointsNat
  <2>4. k - 1 \in 0..M
    BY RingBits
  <2>5. 2^(k - 1) \in Nat
    BY <2>4, PowersNat
  <2> HIDE DEF y, d, i, p
  <2> QED BY <1>2, <1>4, <1>5, <1>6, <1>8, <2>1, <2>3, <2>5, PointsNat
<1> QED BY <1>9, <1>10

-----------------------------------------------------------------------------
(* All the forwards of a request.                                          *)

\* f is the way of a request for h from s, as far as k forwards.
IsRoute(f, k, s, h) == f = [n \in 0..k |-> IF n = 0 THEN s ELSE Forward(f[n - 1], h)]

\* There is such a way: the definition by recursion defines something.
LEMMA RouteExists ==
    ASSUME NEW s, NEW h
    PROVE  \A k \in 0..M : \E f : IsRoute(f, k, s, h)
<1> DEFINE Bad == { k \in 0..M : ~ \E f : IsRoute(f, k, s, h) }
<1>1. ASSUME Bad # {} PROVE FALSE
  <2>1. Bad \subseteq Nat
    BY RingBits
  <2>2. PICK k \in Bad : \A j \in Bad : k <= j
    BY <1>1, <2>1, LeastNatural
  <2>3. k \in 0..M /\ k \in Nat /\ \A f : ~IsRoute(f, k, s, h)
    BY <2>1, <2>2
  <2>4. k # 0
    <3> DEFINE f == [n \in 0..0 |-> s]
    <3>1. f = [n \in 0..0 |-> IF n = 0 THEN s ELSE Forward(f[n - 1], h)]
      OBVIOUS
    <3> HIDE DEF f
    <3>2. IsRoute(f, 0, s, h)
      BY <3>1 DEF IsRoute
    <3> QED BY <2>3, <3>2
  <2>5. k - 1 \in 0..M /\ k - 1 \notin Bad
    BY <2>2, <2>3, <2>4, RingBits
  <2>6. PICK f : IsRoute(f, k - 1, s, h)
    BY <2>5
  <2> DEFINE g == [n \in 0..k |-> IF n = k THEN Forward(f[k - 1], h) ELSE f[n]]
             b == [n \in 0..k |-> IF n = 0 THEN s ELSE Forward(g[n - 1], h)]
  <2>7. ASSUME NEW n \in 0..k PROVE g[n] = IF n = 0 THEN s ELSE Forward(g[n - 1], h)
    <3>1. \A m \in 0..(k - 1) : f[m] = IF m = 0 THEN s ELSE Forward(f[m - 1], h)
      BY <2>6 DEF IsRoute
    <3>2. CASE n = k
      <4>1. k - 1 \in 0..k /\ k - 1 # k
        BY <2>3, <2>4
      <4> QED BY <2>4, <3>2, <4>1
    <3>3. CASE n # k
      <4>1. n \in 0..(k - 1)
        BY <2>3, <3>3
      <4>2. n # 0 => n - 1 \in 0..k /\ n - 1 # k
        BY <2>3, <3>3
      <4> QED BY <3>1, <3>3, <4>1, <4>2
    <3> QED BY <3>2, <3>3
  <2>8. g = b
    BY <2>7
  <2> HIDE DEF g
  <2>9. IsRoute(g, k, s, h)
    BY <2>8 DEF IsRoute
  <2> QED BY <2>3, <2>9
<1> QED BY <1>1

\* ShortRoutes for every set of hosts on a circle of any size: M forwards along
\* exact fingers bring a request from any host to the owner of any hash, where
\* it stays (get_next_hop_info, is_responsible_to, lookup).
THEOREM RoutesAreShort == Spec => []ShortRoutes
<1>1. Hosts => ShortRoutes
  <2> SUFFICES ASSUME Hosts, NEW s \in hosts, NEW h \in Ids
               PROVE  LET at[n \in 0..M] == IF n = 0 THEN s ELSE Forward(at[n - 1], h)
                      IN  at[M] = SuccessorIn(hosts, h)
    BY DEF ShortRoutes
  <2> DEFINE at[n \in 0..M] == IF n = 0 THEN s ELSE Forward(at[n - 1], h)
             t == SuccessorIn(hosts, h)
             Near(n) == at[n] \in hosts /\ (at[n] # t => Steps(at[n], h) < 2^(M - n))
             Bad == { n \in 0..M : ~Near(n) }
  <2>1. M \in 0..M
    BY RingBits
  <2>2. at[0] = s /\ \A n \in 0..M : n # 0 => at[n] = Forward(at[n - 1], h)
    <3>1. PICK f : IsRoute(f, M, s, h)
      BY <2>1, RouteExists
    <3>2. f = [n \in 0..M |-> IF n = 0 THEN s ELSE Forward(f[n - 1], h)]
      BY <3>1 DEF IsRoute
    <3>3. at = [n \in 0..M |-> IF n = 0 THEN s ELSE Forward(at[n - 1], h)]
      BY <3>2
    <3> HIDE DEF at
    <3>4. \A n \in 0..M : at[n] = IF n = 0 THEN s ELSE Forward(at[n - 1], h)
      BY <3>3
    <3> QED BY <3>4, RingBits
  <2> HIDE DEF at
  <2>3. s \in Ids /\ t \in hosts
    BY SuccessorExists DEF Hosts
  <2>4. Near(0)
    <3>1. Steps(s, h) \in 0 .. TotalHashPoints - 1 /\ M - 0 = M
      BY <2>3, StepsRange, RingBits
    <3>2. Steps(s, h) < 2^M
      BY <3>1, PointsNat DEF TotalHashPoints
    <3> QED BY <2>2, <3>1, <3>2
  <2>5. ASSUME NEW n \in 0..M, n # 0, Near(n - 1) PROVE Near(n)
    <3>1. at[n] = Forward(at[n - 1], h) /\ M - (n - 1) \in 1..M /\ (M - (n - 1)) - 1 = M - n
      BY <2>2, <2>5, RingBits
    <3>2. CASE at[n - 1] = t
      <4>1. ResponsibleAt(t, h)
        BY <2>3, ArcOfSuccessor DEF ResponsibleAt, Hosts
      <4> QED BY <2>3, <3>1, <3>2, <4>1 DEF Forward
    <3>3. CASE at[n - 1] # t
      BY <2>5, <3>1, <3>3, ForwardNearer
    <3> QED BY <3>2, <3>3
  <2> HIDE DEF Near
  <2>6. ASSUME Bad # {} PROVE FALSE
    <3>1. Bad \subseteq Nat
      BY RingBits
    <3>2. PICK n \in Bad : \A m \in Bad : n <= m
      BY <2>6, <3>1, LeastNatural
    <3>3. n # 0 /\ n - 1 \in 0..M /\ n - 1 \notin Bad
      BY <2>4, <3>1, <3>2, RingBits
    <3> QED BY <2>5, <3>2, <3>3
  <2>7. Near(M)
    BY <2>1, <2>6
  <2>8. at[M] = t
    <3>1. M - M = 0 /\ 2^(M - M) = 1
      BY RingBits, PowersOfTwo
    <3>2. ASSUME at[M] # t PROVE FALSE
      <4>1. at[M] \in hosts /\ at[M] \in Ids /\ Steps(at[M], h) < 1
        BY <2>7, <3>1, <3>2 DEF Near, Hosts
      <4>2. Steps(at[M], h) = 0
        BY <4>1, StepsRange, PointsNat
      <4> QED BY <3>2, <4>1, <4>2, SuccessorOfHost
    <3> QED BY <3>2
  <2> QED BY <2>8 DEF at
<1> QED BY <1>1, SomeHosts, PTL
=============================================================================
