---------------------------- MODULE MCGuardEvents ----------------------------
EXTENDS GuardEvents, TLC

CONSTANTS b1, b2, h, u

\* h holds a role, u does not.
MCRoles == {[m \in Users |-> IF m = h THEN r ELSE RoleUser] : r \in {RoleGAdmin, RoleOwner}}

\* Both are in the room, u is outside and on the blacklist, or h is outside (and
\* on the blacklist if it is a GAdmin); a group link is open in the first two.
MCRooms == {[members |-> {b1, b2, h, u}, invitees |-> {}, open |-> TRUE, blacklist |-> {}],
            [members |-> {b1, b2, h}, invitees |-> {}, open |-> TRUE, blacklist |-> {u}],
            [members |-> {b1, b2, u}, invitees |-> {}, open |-> FALSE, blacklist |-> {h}]}

MCRules == {[protection |-> Scopes, war |-> [active |-> FALSE, level |-> 1, locked |-> FALSE]],
            [protection |-> {}, war |-> [active |-> TRUE, level |-> 3, locked |-> FALSE]]}

Symmetry == Permutations(Bots)
==============================================================================
