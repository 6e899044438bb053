-------------------------------- MODULE MCSite -------------------------------
(***************************************************************************)
(* Site for TLC: a creator and a fan in two browsers.  In one half of the  *)
(* behaviours two sessions follow or overlap each other and a donation is  *)
(* pressed once; in the other one session presses among three donations.   *)
(* Neither browsers nor tokens differ from one another.                    *)
(***************************************************************************)
EXTENDS Site, TLC

TwoSessions  == [sessions |-> 2, donations |-> 1, presses |-> 1]
ThreeOnAWall == [sessions |-> 1, donations |-> 3, presses |-> 2]

MCBounds == {TwoSessions, ThreeOnAWall}

Symmetry == Permutations(Browsers) \cup Permutations(Tokens)
=============================================================================
