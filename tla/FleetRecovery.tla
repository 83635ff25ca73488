---------------------------- MODULE FleetRecovery ----------------------------
(***************************************************************************)
(* Whether removed bots are recovered: FleetReconcile with a history of    *)
(* what may keep a reconciliation from inviting a missing bot. The history *)
(* restricts no step; it tells the causes apart.                           *)
(***************************************************************************)
EXTENDS FleetReconcile

VARIABLE cause  \* "none", "note" when only notes were lost, "other"

\* The view held no primary: the kick launches the ghosts, a reconciliation
\* ends with an error.
NobodyLeft == member' = {}

\* markPendingInvite set a mark for an invitation that was gone already.
StaleMark == ~((pending' \ pending) \subseteq invited)

\* setMember put a bot back that was removed after it had accepted.
LateMember == ~((member' \ member) \subseteq real)

\* The deferred function deleted the note of a request.
LostNote == \E r \in Workers : Exit(r) /\ fleetDirty

Recorded ==
    cause' = IF cause = "other" \/ NobodyLeft \/ StaleMark \/ LateMember THEN "other"
             ELSE IF LostNote THEN "note" ELSE cause

RecoveryInit == Init /\ cause = "none"

RecoverySpec == RecoveryInit /\ [][Next /\ Recorded]_<<vars, cause>> /\ Fairness

\* Everything that was started has run, no mark is fresh, and a primary is in
\* the room.
Settled == Quiet /\ pending = {} /\ real # {}

Recovered == Primaries \subseteq real \cup invited

\* "When a bot is removed, an eligible bot attempts to remove the attacker first
\* and then recover the missing bot": in a room that has settled every primary
\* is present or invited, also when a request for a reconciliation came in while
\* another one was about to end. Rooms in which one of the other three things
\* happened, or a call failed, are set aside.
LateRequestServed == Settled /\ cause # "other" /\ faults = 0 => Recovered

\* The four causes are all there are: as long as none of them happened and calls
\* succeed, no interleaving of removals, cancellations, accepted invitations,
\* their handlers and the reconciliations forgets a removed bot.
OtherwiseRecovered == Settled /\ cause = "none" /\ faults = 0 => Recovered
==============================================================================
