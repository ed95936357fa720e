-------------------------------- MODULE Ring --------------------------------
(***************************************************************************)
(* The arithmetic of the identifier circle: the helpers of util/util.cpp   *)
(* and the two pure decisions of lookup.cpp that are made from hash values *)
(* alone, "is this hash mine?" and "which finger do I follow?".            *)
(*                                                                         *)
(* A digest_t is a 64-bit long and the circle has 2^16 points, so nothing  *)
(* here comes near the width of the type; digests are unbounded integers.  *)
(***************************************************************************)
EXTENDS Integers

CONSTANT M      \* finger_table_length: bits of a hash, entries of a table

ASSUME RingBits == M \in Nat \ {0}

TotalHashPoints == 2^M
Ids == 0..(TotalHashPoints - 1)
FingerIndex == 0..(M - 1)

\* What ^ computes for base 2.  TLAPS does not compute exponents; TLC evaluates
\* this assumption for the M of every run.
ASSUME PowersOfTwo ==
    /\ 2^0 = 1
    /\ \A i \in FingerIndex : 2^(i + 1) = 2 * 2^i

\* FAULT: the correction forgotten.
HashValueAddNoWrap(hash, num) == hash + num

\* hash_value_add: one correction by the circle, enough because |num| is
\* smaller than the circle (the assert at the top of the function).
HashValueAdd(hash, num) ==
    LET res == hash + num
    IN  IF res < 0 THEN res + TotalHashPoints
        ELSE IF res >= TotalHashPoints THEN res - TotalHashPoints
        ELSE res

\* get_distance: clockwise steps, where a point is a WHOLE CIRCLE from itself.
GetDistance(base, target) ==
    LET d == target - base
    IN  IF d < 0 THEN d + TotalHashPoints
        ELSE IF d = 0 THEN TotalHashPoints
        ELSE d

\* FAULT: >= for >.
UnrolledAtSelf(hash, me) == IF hash >= me THEN hash - TotalHashPoints ELSE hash

\* The representative of a hash that is not above "me": how
\* is_responsible_to unrolls the circle (for the file's hash and, stored back
\* into the member, for local_start).
Unrolled(hash, me) == IF hash > me THEN hash - TotalHashPoints ELSE hash

\* FAULT: local_start taken for the predecessor's hash.
ResponsibleFromPredecessor(start, me, hash) ==
    Unrolled(hash, me) \in Unrolled(start, me) - 1 .. me

\* is_responsible_to(hash) at a node "me" whose local_start is "start".
Responsible(start, me, hash) ==
    Unrolled(hash, me) \in Unrolled(start, me) .. me

\* FAULT: rounded up.
Log2Ceiling(d) ==
    CHOOSE i \in FingerIndex : (d <= 2^i \/ i = M - 1) /\ (i = 0 \/ d > 2^(i - 1))

\* floor(log2(d)), the cast of get_next_hop_info.
Log2(d) == CHOOSE i \in FingerIndex : 2^i <= d /\ d < 2^(i + 1)

\* The finger get_next_hop_info follows from "me" to a hash other than "me".
HopIndex(me, hash) ==
    Log2((IF hash < me THEN hash + TotalHashPoints ELSE hash) - me)

-----------------------------------------------------------------------------
(***************************************************************************)
(* Reference definitions, used by properties only: what the functions      *)
(* above are for, in the textbook terms of a circle.                       *)
(***************************************************************************)

\* Clockwise steps, zero from a point to itself.
Steps(from, to) == (to - from) % TotalHashPoints

\* The first member of S met clockwise from h, h itself included.
SuccessorIn(S, h) ==
    CHOOSE s \in S : \A x \in S : Steps(h, s) <= Steps(h, x)

\* The last member of S strictly before h (h itself when there is no other).
PredecessorIn(S, h) ==
    CHOOSE s \in S : \A x \in S : GetDistance(s, h) <= GetDistance(x, h)
=============================================================================
