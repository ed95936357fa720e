------------------------------ MODULE MCChord -------------------------------
(***************************************************************************)
(* Chord for TLC.  The .cfg files choose the hosts (model values), where   *)
(* on the circle they may land, the keys, the menu and the pace.           *)
(***************************************************************************)
EXTENDS Chord, TLC

\* The whole circle.
AllPositions == Ids
\* Hosts whose pairwise distances are not powers of two, for M = 4 and M = 5.
SpacedPositions == {0, 3, 6, 9}
SpacedPositions5 == {0, 3, 9, 15, 18, 21}
\* ... and that lie in one half circle, for M = 4.
ClusterPositions == {0, 3, 6}

\* Joining hosts play the same part; First does not.
Joiners == Permutations(Node \ {First})
=============================================================================
