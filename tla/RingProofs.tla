----------------------------- MODULE RingProofs -----------------------------
(***************************************************************************)
(* Facts about the identifier circle, for every number M of bits: what the *)
(* helpers of util.cpp and the decisions of lookup.cpp return.             *)
(***************************************************************************)
EXTENDS Ring, WellFoundedInduction, TLAPS

-----------------------------------------------------------------------------
(* Minima: the natural numbers are well-founded.                           *)

LEMMA LeastNatural ==
    ASSUME NEW S, S \subseteq Nat, S # {}
    PROVE  \E x \in S : \A y \in S : x <= y
<1>1. \E x \in S : \A y \in S : << y, x >> \notin OpToRel(<, Nat)
  BY NatLessThanWellFounded, WFMin
<1>2. PICK x \in S : \A y \in S : << y, x >> \notin OpToRel(<, Nat)
  BY <1>1
<1>3. ASSUME NEW y \in S PROVE x <= y
  <2>1. ~(y < x)
    BY <1>2 DEF OpToRel
  <2> QED BY <2>1
<1> QED BY <1>3

-----------------------------------------------------------------------------
(* Powers of two, by the least exponent for which a claim would fail.      *)

\* A power of two is a natural number.
LEMMA PowersNat == \A i \in 0..M : 2^i \in Nat \ {0}
<1> DEFINE Bad == { i \in 0..M : 2^i \notin Nat \ {0} }
<1>1. ASSUME Bad # {} PROVE FALSE
  <2>1. Bad \subseteq Nat
    BY RingBits
  <2>2. PICK i \in Bad : \A j \in Bad : i <= j
    BY <1>1, <2>1, LeastNatural
  <2>3. i # 0
    <3>1. 2^i \notin Nat \ {0} /\ 2^0 \in Nat \ {0}
      BY <2>2, PowersOfTwo
    <3> QED BY <3>1
  <2>4. i - 1 \in FingerIndex /\ i - 1 \in 0..M /\ (i - 1) + 1 = i
    BY <2>2, <2>3, RingBits DEF FingerIndex
  <2>5. 2^(i - 1) \in Nat \ {0}
    <3>1. i - 1 \notin Bad
      BY <2>2, <2>4
    <3> QED BY <2>4, <3>1
  <2>6. 2^i = 2 * 2^(i - 1)
    BY <2>4, PowersOfTwo
  <2> QED BY <2>2, <2>5, <2>6
<1> QED BY <1>1

\* Powers of two grow.
LEMMA PowersGrow == \A i, j \in 0..M : i < j => 2^i < 2^j
<1> SUFFICES ASSUME NEW i \in 0..M PROVE \A j \in 0..M : i < j => 2^i < 2^j
  OBVIOUS
<1> DEFINE Bad == { j \in 0..M : i < j /\ ~(2^i < 2^j) }
<1>1. ASSUME Bad # {} PROVE FALSE
  <2>1. Bad \subseteq Nat
    BY RingBits
  <2>2. PICK j \in Bad : \A k \in Bad : j <= k
    BY <1>1, <2>1, LeastNatural
  <2>3. j - 1 \in FingerIndex /\ j - 1 \in 0..M /\ (j - 1) + 1 = j /\ i <= j - 1
    BY <2>2, RingBits DEF FingerIndex
  <2>4. 2^i <= 2^(j - 1)
    <3>1. CASE i = j - 1
      BY <3>1, PowersNat
    <3>2. CASE i # j - 1
      <4>1. j - 1 \notin Bad
        BY <2>2, <2>3
      <4>2. 2^i < 2^(j - 1)
        BY <2>3, <3>2, <4>1
      <4> QED BY <2>3, <4>2, PowersNat
    <3> QED BY <3>1, <3>2
  <2>5. 2^j = 2 * 2^(j - 1)
    BY <2>3, PowersOfTwo
  <2>6. 2^j \in Nat \ {0} /\ 2^i \in Nat \ {0} /\ 2^(j - 1) \in Nat \ {0} /\ ~(2^i < 2^j)
    BY <2>2, <2>3, PowersNat
  <2> QED BY <2>4, <2>5, <2>6
<1> QED BY <1>1

\* The circle is two halves.
LEMMA HalfPower ==
    /\ 2^(M - 1) \in Nat \ {0}
    /\ 2^M = 2 * 2^(M - 1)
    /\ \A i \in FingerIndex : 2^i <= 2^(M - 1)
<1>1. M - 1 \in FingerIndex /\ M - 1 \in 0..M /\ (M - 1) + 1 = M
  BY RingBits DEF FingerIndex
<1>2. \A i \in FingerIndex : i \in 0..M /\ (i = M - 1 \/ i < M - 1)
  BY RingBits DEF FingerIndex
<1>3. \A i \in FingerIndex : 2^i <= 2^(M - 1)
  BY <1>1, <1>2, PowersNat, PowersGrow
<1> QED BY <1>1, <1>3, PowersNat, PowersOfTwo

-----------------------------------------------------------------------------
(* Ranges of the helpers of util.cpp.                                      *)

\* The circle has a whole number of points, at least one.
LEMMA PointsNat == TotalHashPoints \in Nat \ {0}
BY RingBits, PowersNat DEF TotalHashPoints

\* The point of an entry is less than a circle away.
LEMMA EntryNat ==
    ASSUME NEW i \in FingerIndex
    PROVE  /\ 2^i \in Nat \ {0}
           /\ 2^i < TotalHashPoints
BY RingBits, PowersNat, PowersGrow DEF FingerIndex, TotalHashPoints

\* hash_value_add returns an identifier, however far it goes in one circle.
LEMMA AddRange ==
    ASSUME NEW h \in Ids, NEW d \in -TotalHashPoints .. TotalHashPoints
    PROVE  HashValueAdd(h, d) \in Ids
BY PointsNat DEF HashValueAdd, Ids

\* get_distance is at least one and at most a whole circle.
LEMMA DistanceRange ==
    ASSUME NEW a \in Ids, NEW b \in Ids
    PROVE  GetDistance(a, b) \in 1 .. TotalHashPoints
BY PointsNat DEF GetDistance, Ids

\* A point is a whole circle away from itself, and only from itself.
LEMMA DistanceWhole ==
    ASSUME NEW a \in Ids, NEW b \in Ids
    PROVE  GetDistance(a, b) = TotalHashPoints <=> a = b
BY PointsNat DEF GetDistance, Ids

\* Two points at the same distance from a third are one point.
LEMMA DistanceInjective ==
    ASSUME NEW a \in Ids, NEW b \in Ids, NEW c \in Ids,
           GetDistance(a, b) = GetDistance(a, c)
    PROVE  b = c
BY PointsNat DEF GetDistance, Ids

\* The representative of local_start that is_responsible_to stores.
LEMMA UnrolledRange ==
    ASSUME NEW s \in -TotalHashPoints .. TotalHashPoints - 1, NEW me \in Ids
    PROVE  Unrolled(s, me) \in -TotalHashPoints .. TotalHashPoints - 1
BY PointsNat DEF Unrolled, Ids

-----------------------------------------------------------------------------
(* The finger that is followed.                                            *)

\* The finger that get_next_hop_info picks exists: a distance of less than a
\* circle lies between two consecutive powers of two.
LEMMA Log2Range ==
    ASSUME NEW d \in 1 .. TotalHashPoints - 1
    PROVE  /\ Log2(d) \in FingerIndex
           /\ 2^Log2(d) <= d
           /\ d < 2^(Log2(d) + 1)
<1> DEFINE Above == { i \in 0..M : d < 2^i }
<1>1. M \in Above
  BY RingBits, PointsNat DEF TotalHashPoints
<1>2. Above \subseteq Nat
  BY RingBits
<1>3. PICK i \in Above : \A j \in Above : i <= j
  BY <1>1, <1>2, LeastNatural
<1>4. i \in 0..M /\ d < 2^i
  OBVIOUS
<1>5. i # 0
  <2>1. d \in Nat /\ ~(d < 1)
    BY PointsNat
  <2>2. ~(d < 2^0)
    BY <2>1, PowersOfTwo
  <2> QED BY <1>4, <2>2
<1>6. i - 1 \in 0..M /\ i - 1 \in FingerIndex /\ (i - 1) + 1 = i
  BY <1>4, <1>5, RingBits DEF FingerIndex
<1>7. 2^(i - 1) <= d
  <2>1. i - 1 \notin Above
    BY <1>3, <1>4, <1>6
  <2>2. ~(d < 2^(i - 1))
    BY <2>1, <1>6
  <2>3. 2^(i - 1) \in Nat
    BY <1>6, PowersNat
  <2> QED BY <2>2, <2>3
<1>8. \E j \in FingerIndex : 2^j <= d /\ d < 2^(j + 1)
  BY <1>4, <1>6, <1>7
<1> QED BY <1>8 DEF Log2

\* ... so the finger that is followed to another hash is an entry of the table,
\* and the point it stands for is not beyond that hash.
LEMMA HopRange ==
    ASSUME NEW me \in Ids, NEW h \in Ids, h # me
    PROVE  /\ HopIndex(me, h) \in FingerIndex
           /\ 2^HopIndex(me, h) <= GetDistance(me, h)
<1> DEFINE d == (IF h < me THEN h + TotalHashPoints ELSE h) - me
<1>1. d \in 1 .. TotalHashPoints - 1 /\ d = GetDistance(me, h)
  BY PointsNat DEF Ids, GetDistance
<1>2. Log2(d) \in FingerIndex /\ 2^Log2(d) <= d
  BY <1>1, Log2Range
<1> QED BY <1>1, <1>2 DEF HopIndex

-----------------------------------------------------------------------------
(* Which hosts are fingers of which.                                       *)

\* The comparison in help_join_req_handle: a looked up host that is not beyond
\* the new host, seen from the point of entry i, is at least 2^i away from it.
LEMMA EntryReach ==
    ASSUME NEW n \in Ids, NEW r \in Ids, NEW i \in FingerIndex,
           GetDistance(HashValueAdd(n, 2^i), r) <= GetDistance(HashValueAdd(n, 2^i), n)
    PROVE  GetDistance(n, r) >= 2^i
BY PointsNat, EntryNat DEF GetDistance, HashValueAdd, Ids

\* The new host itself is a whole circle away, beyond every entry's point.
LEMMA SelfReach ==
    ASSUME NEW n \in Ids, NEW i \in FingerIndex
    PROVE  GetDistance(n, n) >= 2^i
BY PointsNat, EntryNat DEF GetDistance, Ids

-----------------------------------------------------------------------------
(* Responsibility.                                                         *)

\* is_responsible_to at "me", with local_start the point after p, is membership
\* in the arc from p, excluded, to me, included: also across zero, and for the
\* whole circle when p is me.
LEMMA ResponsibleArc ==
    ASSUME NEW p \in Ids, NEW me \in Ids, NEW h \in Ids
    PROVE  Responsible(HashValueAdd(p, 1), me, h)
              <=> GetDistance(p, h) <= GetDistance(p, me)
BY PointsNat DEF Responsible, Unrolled, HashValueAdd, GetDistance, Ids

\* The side effect of is_responsible_to does not change its answers.
LEMMA UnrolledSame ==
    ASSUME NEW s \in -TotalHashPoints .. TotalHashPoints - 1, NEW me \in Ids,
           NEW h \in Ids
    PROVE  Responsible(Unrolled(s, me), me, h) <=> Responsible(s, me, h)
BY PointsNat DEF Responsible, Unrolled, Ids

\* The last host strictly before h exists.
LEMMA PredecessorExists ==
    ASSUME NEW S, S \subseteq Ids, S # {}, NEW h \in Ids
    PROVE  /\ PredecessorIn(S, h) \in S
           /\ \A x \in S : GetDistance(PredecessorIn(S, h), h) <= GetDistance(x, h)
<1> DEFINE D == { GetDistance(x, h) : x \in S }
<1>1. D \subseteq Nat /\ D # {}
  BY DistanceRange, PointsNat
<1>2. PICK d \in D : \A e \in D : d <= e
  BY <1>1, LeastNatural
<1>3. \E s \in S : \A x \in S : GetDistance(s, h) <= GetDistance(x, h)
  BY <1>2
<1> QED BY <1>3 DEF PredecessorIn

\* Steps, the distance that is zero from a point to itself, without the modulus.
LEMMA StepsRange ==
    ASSUME NEW a \in Ids, NEW b \in Ids
    PROVE  /\ Steps(a, b) \in 0 .. TotalHashPoints - 1
           /\ Steps(a, b) = IF b >= a THEN b - a ELSE b - a + TotalHashPoints
BY PointsNat DEF Steps, Ids

\* The first host met from h exists.
LEMMA SuccessorExists ==
    ASSUME NEW S, S \subseteq Ids, S # {}, NEW h \in Ids
    PROVE  /\ SuccessorIn(S, h) \in S
           /\ \A x \in S : Steps(h, SuccessorIn(S, h)) <= Steps(h, x)
<1> DEFINE D == { Steps(h, x) : x \in S }
<1>1. D \subseteq Nat /\ D # {}
  BY StepsRange, PointsNat
<1>2. PICK d \in D : \A e \in D : d <= e
  BY <1>1, LeastNatural
<1>3. \E s \in S : \A x \in S : Steps(h, s) <= Steps(h, x)
  BY <1>2
<1> QED BY <1>3 DEF SuccessorIn

\* A host met from h not later than p is reached from p not before h.
LEMMA NotBefore ==
    ASSUME NEW p \in Ids, NEW s \in Ids, NEW h \in Ids,
           Steps(h, s) <= Steps(h, p)
    PROVE  GetDistance(p, h) <= GetDistance(p, s)
<1>1. Steps(h, s) = IF s >= h THEN s - h ELSE s - h + TotalHashPoints
  BY StepsRange
<1>2. Steps(h, p) = IF p >= h THEN p - h ELSE p - h + TotalHashPoints
  BY StepsRange
<1> QED BY <1>1, <1>2, PointsNat DEF GetDistance, Ids

\* A host met from h before s is between p and s when h is.
LEMMA Between ==
    ASSUME NEW p \in Ids, NEW s \in Ids, NEW h \in Ids, NEW q \in Ids, s # q,
           Steps(h, q) <= Steps(h, s),
           GetDistance(p, h) <= GetDistance(p, s)
    PROVE  GetDistance(q, s) < GetDistance(p, s)
<1>1. Steps(h, s) = IF s >= h THEN s - h ELSE s - h + TotalHashPoints
  BY StepsRange
<1>2. Steps(h, q) = IF q >= h THEN q - h ELSE q - h + TotalHashPoints
  BY StepsRange
<1> QED BY <1>1, <1>2, PointsNat DEF GetDistance, Ids

\* The arc of a host is the set of hashes whose successor it is.
LEMMA ArcOfSuccessor ==
    ASSUME NEW S, S \subseteq Ids, S # {}, NEW s \in S, NEW h \in Ids
    PROVE  Responsible(HashValueAdd(PredecessorIn(S, s), 1), s, h)
              <=> s = SuccessorIn(S, h)
<1> DEFINE p == PredecessorIn(S, s)
           q == SuccessorIn(S, h)
<1>1. s \in Ids /\ p \in Ids /\ q \in Ids /\ p \in S /\ q \in S
  BY PredecessorExists, SuccessorExists
<1>2. GetDistance(p, s) <= GetDistance(q, s)
  BY <1>1, PredecessorExists
<1>3. Steps(h, q) <= Steps(h, s) /\ Steps(h, q) <= Steps(h, p)
  BY <1>1, SuccessorExists
<1> HIDE DEF p, q
<1>4. ASSUME GetDistance(p, h) <= GetDistance(p, s), s # q
      PROVE  FALSE
  <2>1. GetDistance(q, s) < GetDistance(p, s)
    BY <1>1, <1>3, <1>4, Between
  <2> QED BY <2>1, <1>1, <1>2, DistanceRange, PointsNat
<1>5. ASSUME s = q
      PROVE  GetDistance(p, h) <= GetDistance(p, s)
  BY <1>1, <1>3, <1>5, NotBefore
<1>6. GetDistance(p, h) <= GetDistance(p, s) <=> s = q
  BY <1>4, <1>5
<1> QED BY <1>1, <1>6, ResponsibleArc DEF p, q

-----------------------------------------------------------------------------
(* Hosts S on the circle: h gives the hash of each.                        *)

\* y is the first of the hosts S after x, x itself coming last.
Follows(h, S, x, y) ==
    y \in S /\ \A z \in S : GetDistance(h[x], h[y]) <= GetDistance(h[x], h[z])

\* p is the last of the hosts S before x, x itself coming first.
Precedes(h, S, p, x) ==
    p \in S /\ \A z \in S : GetDistance(h[p], h[x]) <= GetDistance(h[z], h[x])

\* s is a local_start of x that follows its predecessor.
StartsAfter(h, S, x, s) ==
    \E p \in S : /\ Precedes(h, S, p, x)
                 /\ s \in {HashValueAdd(h[p], 1), Unrolled(HashValueAdd(h[p], 1), h[x])}

\* Hashes of different hosts of S differ.
Distinct(h, S) == \A a, b \in S : h[a] = h[b] => a = b

\* The first host after n has n before it.
LEMMA FollowsPrecedes ==
    ASSUME NEW N, NEW h \in [N -> Ids], NEW S, S \subseteq N, NEW n \in N, NEW r \in S,
           n \notin S, Distinct(h, S \cup {n}),
           \A z \in S : GetDistance(h[n], h[r]) <= GetDistance(h[n], h[z])
    PROVE  Precedes(h, S \cup {n}, n, r)
<1>1. ASSUME NEW z \in S PROVE GetDistance(h[n], h[r]) <= GetDistance(h[z], h[r])
  <2>1. h[n] \in Ids /\ h[r] \in Ids /\ h[z] \in Ids /\ h[n] # h[r] /\ h[n] # h[z]
    BY DEF Distinct
  <2>2. GetDistance(h[n], h[r]) <= GetDistance(h[n], h[z])
    OBVIOUS
  <2>3. \A a, b, c \in Ids : a # b /\ a # c /\ GetDistance(a, b) <= GetDistance(a, c)
                                => GetDistance(a, b) <= GetDistance(c, b)
    BY PointsNat DEF GetDistance, Ids
  <2> QED BY <2>1, <2>2, <2>3
<1> QED BY <1>1, PointsNat DEF Precedes, GetDistance, Ids

\* Any other host keeps the one it had.
LEMMA PrecedesStays ==
    ASSUME NEW N, NEW h \in [N -> Ids], NEW S, S \subseteq N, NEW n \in N, NEW r \in S,
           n \notin S, Distinct(h, S \cup {n}), Follows(h, S, n, r),
           NEW x \in S, x # r, NEW p, Precedes(h, S, p, x)
    PROVE  Precedes(h, S \cup {n}, p, x)
<1>1. h[n] \in Ids /\ h[r] \in Ids /\ h[x] \in Ids /\ h[p] \in Ids /\ p \in S
  BY DEF Precedes
<1>2. h[n] # h[r] /\ h[n] # h[x] /\ h[x] # h[r] /\ h[n] # h[p]
  BY <1>1 DEF Distinct
<1>3. GetDistance(h[n], h[r]) <= GetDistance(h[n], h[x])
  BY DEF Follows
<1>4. GetDistance(h[p], h[x]) <= GetDistance(h[r], h[x])
  BY DEF Precedes
<1>5. \A a, b, c, d \in Ids :
        /\ a # b /\ a # c /\ c # b /\ a # d
        /\ GetDistance(a, b) <= GetDistance(a, c) /\ GetDistance(d, c) <= GetDistance(b, c)
        => GetDistance(d, c) <= GetDistance(a, c)
  BY PointsNat DEF GetDistance, Ids
<1>6. GetDistance(h[p], h[x]) <= GetDistance(h[n], h[x])
  BY <1>1, <1>2, <1>3, <1>4, <1>5
<1> QED BY <1>6 DEF Precedes

\* So giving r the start n + 1 makes all starts right for S and n.
LEMMA StartsGrow ==
    ASSUME NEW N, NEW h \in [N -> Ids], NEW S, S \subseteq N, NEW n \in N, NEW r \in S,
           n \notin S, Distinct(h, S \cup {n}), Follows(h, S, n, r),
           NEW x \in S, NEW s, StartsAfter(h, S, x, s), x # r
    PROVE  StartsAfter(h, S \cup {n}, x, s)
BY PrecedesStays DEF StartsAfter

\* The member after n starts after n, once n is counted.
LEMMA StartOfHelper ==
    ASSUME NEW N, NEW h \in [N -> Ids], NEW S, S \subseteq N, NEW n \in N, NEW r \in S,
           n \notin S, Distinct(h, S \cup {n}), Follows(h, S, n, r)
    PROVE  StartsAfter(h, S \cup {n}, r, HashValueAdd(h[n], 1))
<1>1. Precedes(h, S \cup {n}, n, r)
  BY FollowsPrecedes DEF Follows
<1> QED BY <1>1 DEF StartsAfter

\* The host whose first finger is n precedes it.
LEMMA StartOfNew ==
    ASSUME NEW N, NEW h \in [N -> Ids], NEW S, S \subseteq N, NEW n \in N, NEW p \in S,
           n \notin S, Distinct(h, S \cup {n}), Follows(h, S \cup {n}, p, n)
    PROVE  StartsAfter(h, S \cup {n}, n, HashValueAdd(h[p], 1))
<1>1. ASSUME NEW z \in S PROVE GetDistance(h[p], h[n]) <= GetDistance(h[z], h[n])
  <2>1. h[n] \in Ids /\ h[p] \in Ids /\ h[z] \in Ids /\ h[n] # h[p] /\ h[n] # h[z]
    BY DEF Distinct
  <2>2. GetDistance(h[p], h[n]) <= GetDistance(h[p], h[z])
    BY DEF Follows
  <2>3. \A a, b, c \in Ids : a # b /\ b # c /\ GetDistance(a, b) <= GetDistance(a, c)
                                => GetDistance(a, b) <= GetDistance(c, b)
    BY PointsNat DEF GetDistance, Ids
  <2> QED BY <2>1, <2>2, <2>3
<1>2. GetDistance(h[p], h[n]) <= GetDistance(h[n], h[n])
  BY PointsNat DEF GetDistance, Ids
<1>3. Precedes(h, S \cup {n}, p, n)
  BY <1>1, <1>2 DEF Precedes
<1> QED BY <1>3 DEF StartsAfter

\* A nearer newcomer becomes the first finger, a farther one does not.
LEMMA FollowsNearer ==
    ASSUME NEW h, NEW S, NEW x, NEW y, Follows(h, S, x, y), NEW n,
           GetDistance(h[x], h[n]) < GetDistance(h[x], h[y]),
           \A z \in S \cup {n} : GetDistance(h[x], h[z]) \in Int
    PROVE  Follows(h, S \cup {n}, x, n)
BY DEF Follows

\* Only one host has the newcomer for its first finger.
LEMMA FollowsStays ==
    ASSUME NEW N, NEW h \in [N -> Ids], NEW S, S \subseteq N, NEW n \in N, NEW p \in S,
           n \notin S, Distinct(h, S \cup {n}), Follows(h, S \cup {n}, p, n),
           NEW x \in S, x # p, NEW y, Follows(h, S, x, y)
    PROVE  Follows(h, S \cup {n}, x, y)
<1>1. h[n] \in Ids /\ h[p] \in Ids /\ h[x] \in Ids /\ h[y] \in Ids /\ y \in S
  BY DEF Follows
<1>2. h[n] # h[p] /\ h[n] # h[x] /\ h[x] # h[p] /\ h[n] # h[y]
  BY <1>1 DEF Distinct
<1>3. GetDistance(h[p], h[n]) <= GetDistance(h[p], h[x])
  BY DEF Follows
<1>4. GetDistance(h[x], h[y]) <= GetDistance(h[x], h[p])
  BY DEF Follows
<1>5. \A a, b, c, d \in Ids :
        /\ a # b /\ a # c /\ c # b /\ a # d
        /\ GetDistance(b, a) <= GetDistance(b, c) /\ GetDistance(c, d) <= GetDistance(c, b)
        => GetDistance(c, d) <= GetDistance(c, a)
  BY PointsNat DEF GetDistance, Ids
<1>6. GetDistance(h[x], h[y]) <= GetDistance(h[x], h[n])
  BY <1>1, <1>2, <1>3, <1>4, <1>5
<1> QED BY <1>6 DEF Follows

\* The newcomer's own first finger.
LEMMA FollowsSelf ==
    ASSUME NEW N, NEW h \in [N -> Ids], NEW S, S \subseteq N, NEW n \in N, NEW r,
           Follows(h, S, n, r)
    PROVE  Follows(h, S \cup {n}, n, r)
<1>1. h[n] \in Ids /\ h[r] \in Ids /\ r \in S
  BY DEF Follows
<1>2. GetDistance(h[n], h[r]) <= GetDistance(h[n], h[n])
  BY <1>1, DistanceRange, DistanceWhole
<1> QED BY <1>2 DEF Follows

\* A start and the one that is_responsible_to leaves instead.
LEMMA StartsUnrolled ==
    ASSUME NEW N, NEW h \in [N -> Ids], NEW S, S \subseteq N, NEW x \in N, NEW s,
           StartsAfter(h, S, x, s)
    PROVE  StartsAfter(h, S, x, Unrolled(s, h[x]))
<1>1. PICK p \in S : /\ Precedes(h, S, p, x)
                     /\ s \in {HashValueAdd(h[p], 1), Unrolled(HashValueAdd(h[p], 1), h[x])}
  BY DEF StartsAfter
<1>2. HashValueAdd(h[p], 1) \in Ids
  BY AddRange, PointsNat
<1>3. Unrolled(s, h[x]) \in {HashValueAdd(h[p], 1), Unrolled(HashValueAdd(h[p], 1), h[x])}
  BY <1>1, <1>2, PointsNat DEF Unrolled, Ids
<1> QED BY <1>1, <1>3 DEF StartsAfter

\* Reduced to the circle, it is the point after the predecessor.
LEMMA StartMod ==
    ASSUME NEW s \in Ids, NEW me \in Ids, NEW l \in {s, Unrolled(s, me)}
    PROVE  l % TotalHashPoints = s
<1>1. l \in {s, s - TotalHashPoints}
  BY DEF Unrolled
<1> QED BY <1>1, PointsNat DEF Ids

\* Who answers is the successor of the hash.
LEMMA AnswerIsSuccessor ==
    ASSUME NEW N, NEW h \in [N -> Ids], NEW S, S \subseteq N, NEW x \in S, NEW s,
           StartsAfter(h, S, x, s), NEW v \in Ids, Responsible(s, h[x], v)
    PROVE  h[x] = SuccessorIn({ h[z] : z \in S }, v)
<1> DEFINE H == { h[z] : z \in S }
<1>1. PICK p \in S : /\ Precedes(h, S, p, x)
                     /\ s \in {HashValueAdd(h[p], 1), Unrolled(HashValueAdd(h[p], 1), h[x])}
  BY DEF StartsAfter
<1>2. h[p] \in Ids /\ h[x] \in Ids /\ H \subseteq Ids /\ H # {} /\ h[p] \in H /\ h[x] \in H
  OBVIOUS
<1>3. PredecessorIn(H, h[x]) = h[p]
  <2> DEFINE q == PredecessorIn(H, h[x])
  <2>1. q \in H /\ \A z \in H : GetDistance(q, h[x]) <= GetDistance(z, h[x])
    BY <1>2, PredecessorExists
  <2>2. GetDistance(q, h[x]) <= GetDistance(h[p], h[x])
    BY <2>1, <1>2
  <2>3. GetDistance(h[p], h[x]) <= GetDistance(q, h[x])
    BY <2>1, <1>1 DEF Precedes
  <2>4. q \in Ids
    BY <1>2, <2>1
  <2> HIDE DEF q, H
  <2>5. q = h[p]
    BY <2>2, <2>3, <2>4, <1>2, PointsNat DEF GetDistance, Ids
  <2> QED BY <2>5 DEF q
<1>4. HashValueAdd(h[p], 1) \in Ids
  BY AddRange, PointsNat
<1>5. Responsible(HashValueAdd(h[p], 1), h[x], v)
  BY <1>1, <1>2, <1>4, PointsNat DEF Responsible, Unrolled, Ids
<1> HIDE DEF H
<1>6. h[x] = SuccessorIn(H, v)
  BY <1>2, <1>3, <1>5, ArcOfSuccessor
<1> QED BY <1>6 DEF H

\* Who owns n, or the point after n, comes after n.
LEMMA SuccessorFollows ==
    ASSUME NEW N, NEW h \in [N -> Ids], NEW S, S \subseteq N, NEW x \in S, NEW n \in N,
           n \notin S, Distinct(h, S \cup {n}), NEW v \in {h[n], HashValueAdd(h[n], 1)},
           h[x] = SuccessorIn({ h[z] : z \in S }, v)
    PROVE  Follows(h, S, n, x)
<1> DEFINE H == { h[z] : z \in S }
<1>1. h[n] \in Ids /\ h[x] \in Ids /\ v \in Ids /\ H \subseteq Ids /\ H # {}
  BY AddRange, PointsNat
<1>2. \A z \in H : Steps(v, h[x]) <= Steps(v, z)
  BY <1>1, SuccessorExists
<1>3. ASSUME NEW z \in S PROVE GetDistance(h[n], h[x]) <= GetDistance(h[n], h[z])
  <2>1. Steps(v, h[x]) <= Steps(v, h[z]) /\ h[z] \in Ids /\ h[n] # h[z] /\ h[n] # h[x]
    BY <1>2 DEF Distinct
  <2>2. Steps(v, h[x]) = IF h[x] >= v THEN h[x] - v ELSE h[x] - v + TotalHashPoints
    BY <1>1, StepsRange
  <2>3. Steps(v, h[z]) = IF h[z] >= v THEN h[z] - v ELSE h[z] - v + TotalHashPoints
    BY <1>1, <2>1, StepsRange
  <2> HIDE DEF H
  <2> QED BY <1>1, <2>1, <2>2, <2>3, PointsNat DEF GetDistance, HashValueAdd, Ids
<1> QED BY <1>3 DEF Follows

-----------------------------------------------------------------------------
(* Whose a point is.                                                       *)

\* x owns v among the hosts S.
Owns(h, S, x, v) == x \in S /\ \A z \in S : Steps(v, h[x]) <= Steps(v, h[z])

\* It is one host's.
LEMMA OwnsOne ==
    ASSUME NEW N, NEW h \in [N -> Ids], NEW S, S \subseteq N, Distinct(h, S), NEW v \in Ids,
           NEW x, Owns(h, S, x, v), NEW y, Owns(h, S, y, v)
    PROVE  x = y
<1>1. x \in S /\ y \in S /\ h[x] \in Ids /\ h[y] \in Ids
      /\ Steps(v, h[x]) <= Steps(v, h[y]) /\ Steps(v, h[y]) <= Steps(v, h[x])
  BY DEF Owns
<1>2. \A a, b \in Ids : Steps(v, a) <= Steps(v, b) /\ Steps(v, b) <= Steps(v, a) => a = b
  <2> SUFFICES ASSUME NEW a \in Ids, NEW b \in Ids,
                      Steps(v, a) <= Steps(v, b), Steps(v, b) <= Steps(v, a)
               PROVE  a = b
    OBVIOUS
  <2>1. Steps(v, a) = IF a >= v THEN a - v ELSE a - v + TotalHashPoints
    BY StepsRange
  <2>2. Steps(v, b) = IF b >= v THEN b - v ELSE b - v + TotalHashPoints
    BY StepsRange
  <2> QED BY <2>1, <2>2, PointsNat DEF Ids
<1>3. h[x] = h[y]
  BY <1>1, <1>2
<1> QED BY <1>1, <1>3 DEF Distinct

\* A newcomer n takes nothing from a host but from the one it comes before, and
\* from that one only what lies no farther from n.
LEMMA OwnsKept ==
    ASSUME NEW N, NEW h \in [N -> Ids], NEW S, S \subseteq N, NEW n \in N, n \notin S,
           Distinct(h, S \cup {n}), NEW r, Follows(h, S, n, r),
           NEW v \in Ids, NEW x, Owns(h, S, x, v), v # h[n],
           x = r => GetDistance(v, h[r]) <= GetDistance(h[n], h[r])
    PROVE  Owns(h, S \cup {n}, x, v)
<1>1. /\ x \in S /\ r \in S /\ h[x] \in Ids /\ h[r] \in Ids /\ h[n] \in Ids
      /\ Steps(v, h[x]) <= Steps(v, h[r])
      /\ GetDistance(h[n], h[r]) <= GetDistance(h[n], h[x])
  BY DEF Owns, Follows
<1>2. h[n] # h[x] /\ h[n] # h[r] /\ (x # r => h[x] # h[r])
  BY <1>1 DEF Distinct
<1>3. Steps(v, h[x]) = IF h[x] >= v THEN h[x] - v ELSE h[x] - v + TotalHashPoints
  BY <1>1, StepsRange
<1>4. Steps(v, h[r]) = IF h[r] >= v THEN h[r] - v ELSE h[r] - v + TotalHashPoints
  BY <1>1, StepsRange
<1>5. Steps(v, h[n]) = IF h[n] >= v THEN h[n] - v ELSE h[n] - v + TotalHashPoints
  BY <1>1, StepsRange
<1>6. Steps(v, h[x]) <= Steps(v, h[n])
  <2>1. CASE x = r
    BY <1>1, <1>2, <1>3, <1>5, <2>1, PointsNat DEF GetDistance, Ids
  <2>2. CASE x # r
    BY <1>1, <1>2, <1>3, <1>4, <1>5, <2>2, PointsNat DEF GetDistance, Ids
  <2> QED BY <2>1, <2>2
<1> QED BY <1>1, <1>6 DEF Owns

\* That much is its own from then on.
LEMMA OwnsMoved ==
    ASSUME NEW N, NEW h \in [N -> Ids], NEW S, S \subseteq N, NEW n \in N, n \notin S,
           Distinct(h, S \cup {n}), NEW r, Follows(h, S, n, r),
           NEW v \in Ids, Owns(h, S, r, v), v # h[r],
           GetDistance(v, h[r]) > GetDistance(h[n], h[r])
    PROVE  Owns(h, S \cup {n}, n, v)
<1>1. /\ r \in S /\ h[r] \in Ids /\ h[n] \in Ids
      /\ \A z \in S : Steps(v, h[r]) <= Steps(v, h[z]) /\ h[z] \in Ids
  BY DEF Owns, Follows
<1>2. h[n] # h[r]
  BY <1>1 DEF Distinct
<1>3. Steps(v, h[r]) = IF h[r] >= v THEN h[r] - v ELSE h[r] - v + TotalHashPoints
  BY <1>1, StepsRange
<1>4. Steps(v, h[n]) = IF h[n] >= v THEN h[n] - v ELSE h[n] - v + TotalHashPoints
  BY <1>1, StepsRange
<1>5. Steps(v, h[n]) <= Steps(v, h[r])
  BY <1>1, <1>2, <1>3, <1>4, PointsNat DEF GetDistance, Ids
<1>6. \A z \in S : Steps(v, h[n]) <= Steps(v, h[z])
  <2> TAKE z \in S
  <2>1. Steps(v, h[r]) <= Steps(v, h[z]) /\ h[z] \in Ids
    BY <1>1
  <2>2. Steps(v, h[z]) \in Int /\ Steps(v, h[n]) \in Int /\ Steps(v, h[r]) \in Int
    BY <1>1, <2>1, StepsRange, PointsNat
  <2> QED BY <1>5, <2>1, <2>2
<1>7. Steps(v, h[n]) \in Int
  BY <1>1, StepsRange, PointsNat
<1> QED BY <1>6, <1>7 DEF Owns

-----------------------------------------------------------------------------
(* Steps, seen from a point of the circle.                                 *)

\* From a to b, going by u.
LEMMA StepsFrom ==
    ASSUME NEW a \in Ids, NEW u \in Ids, NEW v \in Ids
    PROVE  Steps(u, v) = IF Steps(a, v) >= Steps(a, u) THEN Steps(a, v) - Steps(a, u)
                         ELSE Steps(a, v) - Steps(a, u) + TotalHashPoints
<1>1. Steps(u, v) = IF v >= u THEN v - u ELSE v - u + TotalHashPoints
  BY StepsRange
<1>2. Steps(a, u) = IF u >= a THEN u - a ELSE u - a + TotalHashPoints
  BY StepsRange
<1>3. Steps(a, v) = IF v >= a THEN v - a ELSE v - a + TotalHashPoints
  BY StepsRange
<1> QED BY <1>1, <1>2, <1>3, PointsNat DEF Ids

\* A point d further.
LEMMA StepsToPoint ==
    ASSUME NEW a \in Ids, NEW x \in Ids, NEW d \in 1 .. TotalHashPoints - 1
    PROVE  /\ HashValueAdd(x, d) \in Ids
           /\ Steps(a, HashValueAdd(x, d)) =
                IF Steps(a, x) + d < TotalHashPoints THEN Steps(a, x) + d
                ELSE Steps(a, x) + d - TotalHashPoints
<1>1. HashValueAdd(x, d) = IF x + d >= TotalHashPoints THEN x + d - TotalHashPoints ELSE x + d
  BY PointsNat DEF HashValueAdd, Ids
<1>2. HashValueAdd(x, d) \in Ids
  BY <1>1, PointsNat DEF Ids
<1>3. Steps(a, x) = IF x >= a THEN x - a ELSE x - a + TotalHashPoints
  BY StepsRange
<1> DEFINE p == HashValueAdd(x, d)
<1>4. Steps(a, p) = IF p >= a THEN p - a ELSE p - a + TotalHashPoints
  BY <1>2, StepsRange
<1> QED BY <1>1, <1>2, <1>3, <1>4, PointsNat DEF Ids

\* Half a circle back.
LEMMA StepsToHalf ==
    ASSUME NEW a \in Ids, NEW x \in Ids, Steps(a, x) < 2^(M - 1)
    PROVE  /\ HashValueAdd(x, -(2^(M - 1))) \in Ids
           /\ Steps(a, HashValueAdd(x, -(2^(M - 1)))) = Steps(a, x) + 2^(M - 1)
<1> DEFINE H == 2^(M - 1)
<1>1. H \in Nat \ {0} /\ TotalHashPoints = 2 * H
  BY RingBits, HalfPower DEF TotalHashPoints
<1> HIDE DEF H
<1>2. HashValueAdd(x, -H) = IF x - H < 0 THEN x - H + TotalHashPoints ELSE x - H
  BY <1>1, PointsNat DEF HashValueAdd, Ids
<1>3. HashValueAdd(x, -H) \in Ids
  BY <1>1, <1>2, PointsNat DEF Ids
<1>4. Steps(a, x) = IF x >= a THEN x - a ELSE x - a + TotalHashPoints
  BY StepsRange
<1> DEFINE p == HashValueAdd(x, -H)
<1>5. Steps(a, p) = IF p >= a THEN p - a ELSE p - a + TotalHashPoints
  BY <1>3, StepsRange
<1>6. Steps(a, x) < H
  BY DEF H
<1>7. Steps(a, p) = Steps(a, x) + H
  BY <1>1, <1>2, <1>3, <1>4, <1>5, <1>6, PointsNat DEF Ids
<1> QED BY <1>3, <1>7 DEF H

\* Steps from the point of an entry are distances from its holder.
LEMMA StepsFromPoint ==
    ASSUME NEW x \in Ids, NEW y \in Ids, NEW d \in 1 .. TotalHashPoints - 1
    PROVE  /\ HashValueAdd(x, d) \in Ids
           /\ Steps(HashValueAdd(x, d), y) =
                IF GetDistance(x, y) >= d THEN GetDistance(x, y) - d
                ELSE GetDistance(x, y) - d + TotalHashPoints
<1>1. HashValueAdd(x, d) = IF x + d >= TotalHashPoints THEN x + d - TotalHashPoints ELSE x + d
  BY PointsNat DEF HashValueAdd, Ids
<1>2. HashValueAdd(x, d) \in Ids
  BY <1>1, PointsNat DEF Ids
<1> DEFINE p == HashValueAdd(x, d)
<1>3. Steps(p, y) = IF y >= p THEN y - p ELSE y - p + TotalHashPoints
  BY <1>2, StepsRange
<1> QED BY <1>1, <1>2, <1>3, PointsNat DEF Ids, GetDistance

\* The span of an entry is less than the circle, and at most half of it.
LEMMA EntrySpan ==
    ASSUME NEW i \in FingerIndex
    PROVE  2^i \in 1 .. TotalHashPoints - 1 /\ 2^i <= 2^(M - 1)
<1>1. 2^i \in Nat \ {0} /\ 2^i < TotalHashPoints
  BY EntryNat
<1> QED BY <1>1, HalfPower, PointsNat

\* Two hosts are not equally far from a point.
LEMMA StepsApart ==
    ASSUME NEW a \in Ids, NEW b \in Ids, NEW c \in Ids, Steps(a, b) = Steps(a, c)
    PROVE  b = c
<1>1. Steps(a, b) = IF b >= a THEN b - a ELSE b - a + TotalHashPoints
  BY StepsRange
<1>2. Steps(a, c) = IF c >= a THEN c - a ELSE c - a + TotalHashPoints
  BY StepsRange
<1>3. (IF b >= a THEN b - a ELSE b - a + TotalHashPoints)
        = IF c >= a THEN c - a ELSE c - a + TotalHashPoints
  BY <1>1, <1>2
<1>4. \A x, y, z \in Int : \A T \in Nat :
        /\ x \in 0 .. T - 1 /\ y \in 0 .. T - 1 /\ z \in 0 .. T - 1
        /\ (IF y >= x THEN y - x ELSE y - x + T) = (IF z >= x THEN z - x ELSE z - x + T)
        => y = z
  OBVIOUS
<1> QED BY <1>3, <1>4, PointsNat DEF Ids

\* Entry 0 stands for the next point.
LEMMA FirstSpan == 0 \in FingerIndex /\ 1 \in 1 .. TotalHashPoints - 1
<1>1. 0 \in FingerIndex
  BY RingBits DEF FingerIndex
<1> QED BY <1>1, EntrySpan, PowersOfTwo

-----------------------------------------------------------------------------
(* Entries of routing tables.                                              *)

\* The comparisons of handle_update_route_req choose the nearer of the newcomer
\* and the host that was entered.
LEMMA UpdateExact ==
    ASSUME NEW N, NEW h \in [N -> Ids], NEW S, S \subseteq N, NEW n \in N, NEW x \in S,
           NEW i \in FingerIndex, NEW f,
           Owns(h, S, f, HashValueAdd(h[x], 2^i)) \/ Owns(h, S \cup {n}, f, HashValueAdd(h[x], 2^i))
    PROVE  Owns(h, S \cup {n},
                IF 2^i <= GetDistance(h[x], h[n]) /\ GetDistance(h[x], h[n]) < GetDistance(h[x], h[f])
                THEN n ELSE f, HashValueAdd(h[x], 2^i))
<1> DEFINE d == 2^i
           p == HashValueAdd(h[x], d)
<1>1. d \in 1 .. TotalHashPoints - 1
  BY EntrySpan
<1> HIDE DEF d
<1>2. h[x] \in Ids /\ h[n] \in Ids /\ f \in N /\ h[f] \in Ids
  BY DEF Owns
<1>3. \A z \in S \cup {n} : Steps(p, h[z]) = IF GetDistance(h[x], h[z]) >= d
                                             THEN GetDistance(h[x], h[z]) - d
                                             ELSE GetDistance(h[x], h[z]) - d + TotalHashPoints
  BY <1>1, <1>2, StepsFromPoint
<1>4. \A z \in S \cup {n} : GetDistance(h[x], h[z]) \in 1 .. TotalHashPoints
  BY <1>2, DistanceRange
<1>5. GetDistance(h[x], h[x]) = TotalHashPoints
  BY <1>2, DistanceWhole
<1>6. f \in S \cup {n} /\ \A z \in S : Steps(p, h[f]) <= Steps(p, h[z])
  BY DEF Owns, d
<1>7. GetDistance(h[x], h[f]) >= d
  <2>1. Steps(p, h[f]) <= TotalHashPoints - d
    BY <1>1, <1>3, <1>4, <1>5, <1>6, PointsNat
  <2> QED BY <1>1, <1>3, <1>4, <1>6, <2>1, PointsNat
<1> DEFINE g == IF d <= GetDistance(h[x], h[n]) /\ GetDistance(h[x], h[n]) < GetDistance(h[x], h[f])
                THEN n ELSE f
<1>8. g \in S \cup {n} /\ Steps(p, h[g]) <= Steps(p, h[f]) /\ Steps(p, h[g]) <= Steps(p, h[n])
  <2>1. CASE g = n
    BY <1>1, <1>3, <1>4, <1>6, <1>7, <2>1, PointsNat
  <2>2. CASE g = f /\ ~(d <= GetDistance(h[x], h[n]) /\ GetDistance(h[x], h[n]) < GetDistance(h[x], h[f]))
    BY <1>1, <1>3, <1>4, <1>6, <1>7, <2>2, PointsNat
  <2> QED BY <2>1, <2>2
<1> HIDE DEF g, p
<1>9. \A z \in S \cup {n} : Steps(p, h[z]) \in Int
  BY <1>1, <1>3, <1>4, PointsNat
<1>10. \A z \in S \cup {n} : Steps(p, h[g]) <= Steps(p, h[z])
  BY <1>6, <1>8, <1>9
<1> QED BY <1>8, <1>10 DEF Owns, g, p, d

\* Between a host and the one it names for the next point there is none.
LEMMA PassedOn ==
    ASSUME NEW N, NEW h \in [N -> Ids], NEW S, S \subseteq N, NEW a \in Ids,
           NEW w \in N, NEW y, Owns(h, S, y, HashValueAdd(h[w], 1)),
           NEW x \in S, Steps(a, h[x]) < Steps(a, h[y])
    PROVE  Steps(a, h[x]) <= Steps(a, h[w])
<1> DEFINE p == HashValueAdd(h[w], 1)
<1>1. 1 \in 1 .. TotalHashPoints - 1
  BY FirstSpan
<1>2. h[w] \in Ids /\ h[x] \in Ids /\ y \in S /\ h[y] \in Ids
  BY DEF Owns
<1>3. /\ p \in Ids
      /\ Steps(a, p) = IF Steps(a, h[w]) + 1 < TotalHashPoints THEN Steps(a, h[w]) + 1
                       ELSE Steps(a, h[w]) + 1 - TotalHashPoints
  BY <1>1, <1>2, StepsToPoint
<1>4. Steps(p, h[y]) <= Steps(p, h[x])
  BY DEF Owns
<1> HIDE DEF p
<1>5. Steps(p, h[y]) = IF Steps(a, h[y]) >= Steps(a, p) THEN Steps(a, h[y]) - Steps(a, p)
                       ELSE Steps(a, h[y]) - Steps(a, p) + TotalHashPoints
  BY <1>2, <1>3, StepsFrom
<1>6. Steps(p, h[x]) = IF Steps(a, h[x]) >= Steps(a, p) THEN Steps(a, h[x]) - Steps(a, p)
                       ELSE Steps(a, h[x]) - Steps(a, p) + TotalHashPoints
  BY <1>2, <1>3, StepsFrom
<1>7. /\ Steps(a, h[x]) \in 0 .. TotalHashPoints - 1 /\ Steps(a, h[y]) \in 0 .. TotalHashPoints - 1
      /\ Steps(a, h[w]) \in 0 .. TotalHashPoints - 1
  BY <1>2, StepsRange
<1> QED BY <1>3, <1>4, <1>5, <1>6, <1>7, PointsNat

\* In one half of the circle, a walk that began at the first host from half a
\* circle back and has come to the one before n has passed every host that n is
\* nearest for.
LEMMA RestExact ==
    ASSUME NEW N, NEW h \in [N -> Ids], NEW S, S \subseteq N, NEW n \in N, n \notin S,
           Distinct(h, S \cup {n}), NEW a \in Ids, \A b \in S \cup {n} : Steps(a, h[b]) < 2^(M - 1),
           NEW prev, Owns(h, S, prev, HashValueAdd(h[n], -(2^(M - 1)))),
           NEW cur \in S, Owns(h, S \cup {n}, n, HashValueAdd(h[cur], 1)),
           NEW x \in S, ~(Steps(h[prev], h[x]) <= Steps(h[prev], h[cur])),
           NEW i \in FingerIndex, NEW f, Owns(h, S, f, HashValueAdd(h[x], 2^i))
    PROVE  Owns(h, S \cup {n}, f, HashValueAdd(h[x], 2^i))
<1> DEFINE H == 2^(M - 1)
           d == 2^i
           C(b) == Steps(a, h[b])
           back == HashValueAdd(h[n], -H)
           next == HashValueAdd(h[cur], 1)
           p == HashValueAdd(h[x], d)
<1>1. H \in Nat \ {0} /\ TotalHashPoints = 2 * H /\ d \in 1 .. TotalHashPoints - 1 /\ d <= H
      /\ 1 \in 1 .. TotalHashPoints - 1
  BY HalfPower, EntrySpan, FirstSpan DEF TotalHashPoints
<1>2. prev \in S /\ f \in S
  BY DEF Owns
<1>3. \A b \in S \cup {n} : h[b] \in Ids /\ C(b) \in 0 .. H - 1
  <2>1. \A b \in S \cup {n} : h[b] \in Ids
    OBVIOUS
  <2>2. \A b \in S \cup {n} : C(b) \in 0 .. TotalHashPoints - 1 /\ C(b) < H
    BY <2>1, StepsRange
  <2> HIDE DEF C, H
  <2> QED BY <1>1, <2>1, <2>2
<1>4. back \in Ids /\ Steps(a, back) = C(n) + H
  BY <1>3, StepsToHalf
<1>5. next \in Ids /\ Steps(a, next) = IF C(cur) + 1 < TotalHashPoints THEN C(cur) + 1
                                       ELSE C(cur) + 1 - TotalHashPoints
  BY <1>1, <1>3, StepsToPoint
<1>6. p \in Ids /\ Steps(a, p) = IF C(x) + d < TotalHashPoints THEN C(x) + d
                                 ELSE C(x) + d - TotalHashPoints
  BY <1>1, <1>3, StepsToPoint
<1>7. \A u \in Ids : \A b \in S \cup {n} :
         Steps(u, h[b]) = IF C(b) >= Steps(a, u) THEN C(b) - Steps(a, u)
                          ELSE C(b) - Steps(a, u) + TotalHashPoints
  BY <1>3, StepsFrom
<1>8. /\ \A z \in S : Steps(back, h[prev]) <= Steps(back, h[z])
      /\ \A z \in S \cup {n} : Steps(next, h[n]) <= Steps(next, h[z])
      /\ \A z \in S : Steps(p, h[f]) <= Steps(p, h[z])
  BY DEF Owns
<1>9. \A b, c \in S \cup {n} : C(b) = C(c) => b = c
  <2>1. \A b, c \in S \cup {n} : C(b) = C(c) => h[b] = h[c]
    <3>1. \A b \in S \cup {n} : C(b) = IF h[b] >= a THEN h[b] - a ELSE h[b] - a + TotalHashPoints
      BY <1>3, StepsRange
    <3> HIDE DEF C
    <3> QED BY <1>3, <3>1, PointsNat DEF Ids
  <2> QED BY <2>1 DEF Distinct
<1> HIDE DEF C, H, d, back, next, p
<1>10. \A z \in S : C(prev) <= C(z)
  <2> SUFFICES ASSUME NEW z \in S PROVE C(prev) <= C(z)
    OBVIOUS
  <2>1. Steps(back, h[prev]) <= Steps(back, h[z])
    BY <1>8
  <2>2. Steps(back, h[prev]) = C(prev) - C(n) - H + TotalHashPoints
    BY <1>1, <1>2, <1>3, <1>4, <1>7
  <2>3. Steps(back, h[z]) = C(z) - C(n) - H + TotalHashPoints
    BY <1>1, <1>2, <1>3, <1>4, <1>7
  <2> QED BY <1>1, <1>2, <1>3, <2>1, <2>2, <2>3
<1>11. C(cur) < C(x)
  <2>1. h[prev] \in Ids /\ ~(Steps(h[prev], h[x]) <= Steps(h[prev], h[cur]))
    BY <1>2, <1>3
  <2>2. Steps(h[prev], h[x]) = C(x) - C(prev) /\ Steps(h[prev], h[cur]) = C(cur) - C(prev)
    BY <1>2, <1>3, <1>7, <1>10, <2>1 DEF C
  <2> QED BY <1>2, <1>3, <2>1, <2>2
<1>12. C(n) < C(x) /\ C(cur) < C(n)
  <2>1. Steps(next, h[n]) <= Steps(next, h[x]) /\ Steps(a, next) = C(cur) + 1
    BY <1>1, <1>3, <1>5, <1>8
  <2>2. Steps(next, h[x]) = C(x) - C(cur) - 1
    BY <1>3, <1>5, <1>7, <1>11, <2>1
  <2>3. Steps(next, h[n]) = IF C(n) >= C(cur) + 1 THEN C(n) - C(cur) - 1
                            ELSE C(n) - C(cur) - 1 + TotalHashPoints
    BY <1>1, <1>3, <1>5, <1>7, <2>1
  <2>4. C(n) # C(x)
    BY <1>9
  <2> QED BY <1>1, <1>3, <2>1, <2>2, <2>3, <2>4
<1>14. Steps(p, h[f]) <= Steps(p, h[n])
  <2>1. Steps(a, p) = C(x) + d /\ C(x) + d < TotalHashPoints
    BY <1>1, <1>3, <1>6
  <2>2. Steps(p, h[cur]) = C(cur) - C(x) - d + TotalHashPoints
    BY <1>1, <1>3, <1>6, <1>7, <1>11, <2>1
  <2>3. Steps(p, h[n]) = C(n) - C(x) - d + TotalHashPoints
    BY <1>1, <1>3, <1>6, <1>7, <1>12, <2>1
  <2>4. Steps(p, h[f]) <= Steps(p, h[cur]) /\ Steps(p, h[f]) \in Int
    BY <1>1, <1>2, <1>3, <1>6, <1>7, <1>8, <2>1
  <2> QED BY <1>1, <1>3, <1>12, <2>2, <2>3, <2>4
<1> QED BY <1>8, <1>14 DEF Owns, p, d
=============================================================================
