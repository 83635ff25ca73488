------------------------------- MODULE MCGhosts -------------------------------
EXTENDS Ghosts, TLC

CONSTANTS p1, p2, g, f

Kind(primaries) == [b \in Bots |-> IF b \in primaries THEN "primary" ELSE "reserve"]

Scene(in, out, ghosts, view, ks, who, w, ops, flts) ==
    [inRoom |-> in, invited |-> out, member |-> view, plan |-> ghosts, kinds |-> ks, creator |-> who,
     war |-> w, sent |-> MaxOps - ops, faults |-> MaxFaults - flts]

\* A reserve account waits; a primary bot has become a ghost and is still in the
\* view; the first two bots have been invited; a ghost waits for the only primary
\* bot, in peace and in war.
MCScenes ==
    {Scene({p1, p2}, {g}, {g}, {p1, p2}, Kind({p1, p2}), Boss, FALSE, 2, 1),
     Scene({p1, p2}, {g}, {g}, {p1, p2, g}, Kind({p1, p2, g}), Boss, FALSE, 2, 1),
     Scene({}, {p1, p2}, {}, {}, Kind({p1, p2}), Nobody, FALSE, 1, 1),
     Scene({p1}, {g}, {g}, {p1}, Kind({p1, g}), Boss, FALSE, 2, 0),
     Scene({p1}, {g}, {g}, {p1}, Kind({p1}), Boss, TRUE, 2, 0)}

Symmetry == Permutations({p1, p2})
==============================================================================
