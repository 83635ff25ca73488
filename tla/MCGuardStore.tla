---------------------------- MODULE MCGuardStore ----------------------------
(* The role store with two users and one bot account in one room, started   *)
(* on no state file or on a hand-written one with overlapping lists. The    *)
(* two users are interchangeable.                                           *)
EXTENDS GuardStore, TLC

CONSTANTS u1, u2, b1, g1

HandWritten(creator, other) ==
    [creators |-> {creator}, owners |-> {creator, other}, admins |-> {other, b1},
     blacklist |-> {other}, bots |-> {},
     gadmins |-> [g \in Groups |-> {creator, other}]]

MCInitFiles == {EmptyState, HandWritten(u1, u2), HandWritten(u2, u1)}

Symmetry == Permutations({u1, u2})
=============================================================================
