----------------------------- MODULE MCWarMode -----------------------------
(* Two users, one of them with a role; two goroutines. A room that starts   *)
(* from the default record with automatic mode on, or in a level 3 war      *)
(* with or without somebody on the whitelist.                               *)
EXTENDS WarMode, TLC

CONSTANTS u1, u2, h1, h2

Level3 == [defaultWar EXCEPT !.enabled = TRUE, !.until = 1, !.level = 3]

MCInitWar == {[defaultWar EXCEPT !.auto = TRUE], Level3, [Level3 EXCEPT !.whitelist = {u1}]}

MCThreshold == [low |-> 3, medium |-> 2, high |-> 1]

Symmetry == Permutations(Handlers)
=============================================================================
