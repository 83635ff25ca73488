--------------------------- MODULE FleetReconcile ---------------------------
(***************************************************************************)
(* The recovery of the primary bots of one room (guard/engine.go): bots    *)
(* are removed or their invitations cancelled, every bot that sees it asks *)
(* for a reconciliation in a goroutine of its own, and one of these        *)
(* goroutines invites the bots that are missing. Between two critical      *)
(* sections of the engine's mutex any other step may happen.               *)
(*                                                                         *)
(* real and invited are the room on the LINE server, the rest is the       *)
(* engine. Timeouts of an API call are failures of the call; the three     *)
(* seconds of a pending mark end at any time. The removal of the attacker, *)
(* which comes first in handleKick, and the ghost accounts, which take     *)
(* over when no primary is left, are not part of this module. Every kick   *)
(* of a bot is by another user than the last one or ten seconds later, so  *)
(* that no handler drops it as a repeated one (Ghosts has such kicks).     *)
(***************************************************************************)
EXTENDS Naturals, FiniteSets

CONSTANTS
    Primaries,    \* the bots of kind primary
    Workers,      \* goroutines of reconcilePrimaryFleetAsync alive at a time
    None,         \* no worker
    MaxPass,      \* passes of one reconciliation (4 in the code)
    MaxRemovals,  \* kicks and cancellations whose operations are under way at a time
    MaxFaults     \* bound on API calls that fail although they could succeed

ASSUME FleetAssumption ==
    /\ None \notin Workers
    /\ MaxPass \in Nat \ {0}
    /\ MaxRemovals \in Nat \ {0}
    /\ MaxFaults \in Nat

VARIABLES
    real,        \* primaries in the room
    invited,     \* primaries with an invitation to the room
    accepting,   \* primaries that have accepted and not yet called setMember
    member,      \* e.members[group], the true entries
    pending,     \* e.pending[group], the unexpired entries
    ops,         \* operations being handled: who handles what at which phase
    fleetSync, fleetDirty,
    rec,         \* the goroutines of reconcilePrimaryFleet
    faults       \* API calls that have failed so far

room   == <<real, invited, accepting>>
view   == <<member, pending>>
flags  == <<fleetSync, fleetDirty>>
vars   == <<room, view, ops, flags, rec, faults>>

Ops == [id : 1..MaxRemovals, kind : {"kick", "cancel"}, handler : Primaries,
        target : Primaries, phase : {"observe", "dispatch"}]

PCs == {"idle", "start", "candidates", "missing", "invite", "mark", "exit"}

\* ranked: the protectors; todo: the missing bots not yet done with; tried: the
\* protectors that failed to invite the current one.
Goroutine == [pc : PCs, pass : 0..(MaxPass - 1), ranked : SUBSET Primaries,
              todo : SUBSET Primaries, tried : SUBSET Primaries]

Idle == [pc |-> "idle", pass |-> 0, ranked |-> {}, todo |-> {}, tried |-> {}]

\* The bot being invited: the missing bots are taken in a fixed order.
Target(r) == CHOOSE t \in rec[r].todo : TRUE

\* The protectors that may still be asked to invite it, in whatever order the
\* health of the bots ranks them.
Protectors(r) == rec[r].ranked \ (rec[r].tried \cup {Target(r)})

Goto(r, pc) == rec' = [rec EXCEPT ![r].pc = pc]

-----------------------------------------------------------------------------
Init ==
    /\ real = Primaries /\ invited = {} /\ accepting = {}
    /\ member = Primaries /\ pending = {}
    /\ ops = {}
    /\ fleetSync = FALSE /\ fleetDirty = FALSE
    /\ rec = [r \in Workers |-> Idle]
    /\ faults = 0

-----------------------------------------------------------------------------
(* The LINE server and the members of the room.                            *)

\* The operations of one removal share an identifier.
FreshIds == {id \in 1..MaxRemovals : \A op \in ops : op.id # id}

\* Someone removes a bot: every bot that was in the room gets operation 133.
Kicked(b) ==
    /\ b \in real
    /\ real' = real \ {b}
    /\ \E id \in FreshIds :
         ops' = ops \cup [id : {id}, kind : {"kick"}, handler : real,
                             target : {b}, phase : {"observe"}]
    /\ UNCHANGED <<invited, accepting, view, flags, rec, faults>>

\* Someone cancels the invitation of a bot: operation 126. duplicate lets one
\* of the bots in the room handle it.
Cancelled(b, handler) ==
    /\ b \in invited
    /\ handler \in real
    /\ invited' = invited \ {b}
    /\ \E id \in FreshIds :
         ops' = ops \cup {[id |-> id, kind |-> "cancel", handler |-> handler,
                           target |-> b, phase |-> "observe"]}
    /\ UNCHANGED <<real, accepting, view, flags, rec, faults>>

-----------------------------------------------------------------------------
(* The handlers.                                                           *)

\* reconcilePrimaryFleetAsync
Spawn == \E r \in Workers : rec[r].pc = "idle" /\ Goto(r, "start")

\* observeMembership for 133, the loop over the targets for 126: setMember and
\* clearPendingInvite.
Observe(op) ==
    /\ op.phase = "observe"
    /\ member' = member \ {op.target}
    /\ pending' = pending \ {op.target}
    /\ ops' = (ops \ {op}) \cup {[op EXCEPT !.phase = "dispatch"]}
    /\ UNCHANGED <<room, flags, rec, faults>>

\* The end of handleKick and of handleCancellation. A kick that leaves no
\* primary launches the ghosts instead.
Dispatch(op) ==
    /\ op.phase = "dispatch"
    /\ \/ op.kind = "kick" /\ member = {} /\ UNCHANGED rec
       \/ ~(op.kind = "kick" /\ member = {}) /\ Spawn
    /\ ops' = ops \ {op}
    /\ UNCHANGED <<room, view, flags, faults>>

\* handleInvitation of an invited bot: clearPendingInvite, AcceptChatInvitation.
Accept(b) ==
    /\ b \in invited
    /\ pending' = pending \ {b}
    /\ real' = real \cup {b}
    /\ invited' = invited \ {b}
    /\ accepting' = accepting \cup {b}
    /\ UNCHANGED <<member, ops, flags, rec, faults>>

\* The call fails, whether or not the invitation is still there, and the bot
\* asks for a reconciliation.
AcceptFails(b) ==
    /\ faults < MaxFaults
    /\ faults' = faults + 1
    /\ b \in invited
    /\ pending' = pending \ {b}
    /\ invited' \in {invited, invited \ {b}}
    /\ Spawn
    /\ UNCHANGED <<real, accepting, member, ops, flags>>

\* setMember(group, b, true) after the accepted invitation.
SetMember(b) ==
    /\ b \in accepting
    /\ accepting' = accepting \ {b}
    /\ member' = member \cup {b}
    /\ pending' = pending \ {b}
    /\ UNCHANGED <<real, invited, ops, flags, rec, faults>>

\* pendingInviteLocked finds the mark older than three seconds.
PendingExpires(b) ==
    /\ b \in pending
    /\ pending' = pending \ {b}
    /\ UNCHANGED <<room, member, ops, flags, rec, faults>>

-----------------------------------------------------------------------------
(* reconcilePrimaryFleet, one action per critical section or API call.     *)

\* Mutant: the flag is tested and set without leaving when it is set.
EnterUnguarded(r) ==
    /\ rec[r].pc = "start"
    /\ fleetSync' = TRUE
    /\ Goto(r, "candidates")
    /\ UNCHANGED <<room, view, ops, fleetDirty, faults>>

\* Mutant: a request that finds the room taken leaves no note.
EnterForgetful(r) ==
    /\ rec[r].pc = "start"
    /\ fleetSync' = TRUE
    /\ rec' = [rec EXCEPT ![r] = IF fleetSync THEN Idle ELSE [@ EXCEPT !.pc = "candidates"]]
    /\ UNCHANGED <<room, view, ops, fleetDirty, faults>>

Enter(r) ==
    /\ rec[r].pc = "start"
    /\ \/ /\ fleetSync
          /\ fleetDirty' = TRUE
          /\ rec' = [rec EXCEPT ![r] = Idle]
          /\ UNCHANGED fleetSync
       \/ /\ ~fleetSync
          /\ fleetSync' = TRUE
          /\ Goto(r, "candidates")
          /\ UNCHANGED fleetDirty
    /\ UNCHANGED <<room, view, ops, faults>>

\* The note is taken before the members are read. Without a member the
\* reconciliation ends with an error.
FindCandidates(r) ==
    /\ rec[r].pc = "candidates"
    /\ fleetDirty' = FALSE
    /\ \/ member = {} /\ Goto(r, "exit")
       \/ /\ member # {}
          /\ rec' = [rec EXCEPT ![r].pc = "missing", ![r].ranked = member]
    /\ UNCHANGED <<room, view, ops, fleetSync, faults>>

\* Mutant: bots with a fresh invitation are invited again.
FindMissingAll(r) ==
    /\ rec[r].pc = "missing"
    /\ rec' = [rec EXCEPT ![r].pc = "invite", ![r].todo = Primaries \ member]
    /\ UNCHANGED <<room, view, ops, flags, faults>>

FindMissing(r) ==
    /\ rec[r].pc = "missing"
    /\ rec' = [rec EXCEPT ![r].pc = "invite",
                          ![r].todo = Primaries \ (member \cup pending)]
    /\ UNCHANGED <<room, view, ops, flags, faults>>

Inviting(r) == rec[r].pc = "invite" /\ rec[r].todo # {}

\* InviteIntoChat succeeds: the loop over the protectors ends.
Invite(r, p) ==
    /\ Inviting(r) /\ p \in Protectors(r)
    /\ p \in real
    /\ invited' = invited \cup ({Target(r)} \ real)
    /\ Goto(r, "mark")
    /\ UNCHANGED <<real, accepting, view, ops, flags, faults>>

\* The protector is no longer in the room: setMember(group, p, false).
InviteNotMember(r, p) ==
    /\ Inviting(r) /\ p \in Protectors(r)
    /\ p \notin real
    /\ member' = member \ {p}
    /\ rec' = [rec EXCEPT ![r].tried = @ \cup {p}]
    /\ UNCHANGED <<room, pending, ops, flags, faults>>

\* The call fails for another reason, a timeout for example.
InviteFails(r, p) ==
    /\ faults < MaxFaults
    /\ faults' = faults + 1
    /\ Inviting(r) /\ p \in Protectors(r)
    /\ rec' = [rec EXCEPT ![r].tried = @ \cup {p}]
    /\ UNCHANGED <<room, view, ops, flags>>

\* No protector is left for this bot.
GiveUp(r) ==
    /\ Inviting(r) /\ Protectors(r) = {}
    /\ rec' = [rec EXCEPT ![r].todo = @ \ {Target(r)}, ![r].tried = {}]
    /\ UNCHANGED <<room, view, ops, flags, faults>>

\* markPendingInvite, after the call that sent the invitation.
MarkPending(r) ==
    /\ rec[r].pc = "mark"
    /\ pending' = pending \cup {Target(r)}
    /\ rec' = [rec EXCEPT ![r].pc = "invite", ![r].todo = @ \ {Target(r)}, ![r].tried = {}]
    /\ UNCHANGED <<room, member, ops, flags, faults>>

\* Mutant: the number of passes is not limited.
CheckDirtyForever(r) ==
    /\ rec[r].pc = "invite" /\ rec[r].todo = {}
    /\ rec' = [rec EXCEPT ![r] = [Idle EXCEPT !.pc = IF fleetDirty THEN "candidates" ELSE "exit"]]
    /\ UNCHANGED <<room, view, ops, flags, faults>>

\* Mutant: one pass too many.
CheckDirtyOneMore(r) ==
    /\ rec[r].pc = "invite" /\ rec[r].todo = {}
    /\ \/ /\ fleetDirty /\ rec[r].pass < MaxPass
          /\ rec' = [rec EXCEPT ![r] = [Idle EXCEPT !.pc = "candidates", !.pass = rec[r].pass + 1]]
       \/ /\ ~(fleetDirty /\ rec[r].pass < MaxPass)
          /\ rec' = [rec EXCEPT ![r] = [Idle EXCEPT !.pc = "exit"]]
    /\ UNCHANGED <<room, view, ops, flags, faults>>

\* After the last missing bot: another pass if a request came in meanwhile.
CheckDirty(r) ==
    /\ rec[r].pc = "invite" /\ rec[r].todo = {}
    /\ \/ /\ fleetDirty /\ rec[r].pass + 1 < MaxPass
          /\ rec' = [rec EXCEPT ![r] = [Idle EXCEPT !.pc = "candidates", !.pass = rec[r].pass + 1]]
       \/ /\ ~(fleetDirty /\ rec[r].pass + 1 < MaxPass)
          /\ rec' = [rec EXCEPT ![r] = [Idle EXCEPT !.pc = "exit"]]
    /\ UNCHANGED <<room, view, ops, flags, faults>>

\* Mutant: the note survives the reconciliation.
ExitKeepsNote(r) ==
    /\ rec[r].pc = "exit"
    /\ fleetSync' = FALSE
    /\ rec' = [rec EXCEPT ![r] = Idle]
    /\ UNCHANGED <<room, view, ops, fleetDirty, faults>>

\* The deferred function clears both flags.
Exit(r) ==
    /\ rec[r].pc = "exit"
    /\ fleetSync' = FALSE
    /\ fleetDirty' = FALSE
    /\ rec' = [rec EXCEPT ![r] = Idle]
    /\ UNCHANGED <<room, view, ops, faults>>

Step(r) ==
    \/ Enter(r)
    \/ FindCandidates(r)
    \/ FindMissing(r)
    \/ \E p \in Primaries : Invite(r, p) \/ InviteNotMember(r, p) \/ InviteFails(r, p)
    \/ GiveUp(r)
    \/ MarkPending(r)
    \/ CheckDirty(r)
    \/ Exit(r)

Handle == \E op \in ops : Observe(op) \/ Dispatch(op)

Environment ==
    \/ \E b \in Primaries : Kicked(b) \/ \E h \in Primaries : Cancelled(b, h)
    \/ \E b \in Primaries : Accept(b) \/ AcceptFails(b) \/ SetMember(b)
    \/ \E b \in Primaries : PendingExpires(b)

Next == Environment \/ Handle \/ \E r \in Workers : Step(r)

\* Goroutines run and operations are handled; nothing else is promised.
Fairness == WF_vars(Handle) /\ \A r \in Workers : WF_vars(Step(r))

Spec == Init /\ [][Next]_vars /\ Fairness

-----------------------------------------------------------------------------
TypeOK ==
    /\ real \subseteq Primaries /\ invited \subseteq Primaries
    /\ accepting \subseteq Primaries
    /\ member \subseteq Primaries /\ pending \subseteq Primaries
    /\ ops \subseteq Ops
    /\ fleetSync \in BOOLEAN /\ fleetDirty \in BOOLEAN
    /\ rec \in [Workers -> Goroutine]
    /\ faults \in 0..MaxFaults

Inside(r) == rec[r].pc \notin {"idle", "start"}

\* fleetSync is set exactly while a goroutine is reconciling the room, and
\* never are there two of them.
OneReconciler ==
    /\ \A r, s \in Workers : Inside(r) /\ Inside(s) => r = s
    /\ fleetSync <=> \E r \in Workers : Inside(r)

\* A bot whose recovery invitation is still fresh is not invited again, by the
\* same or by another reconciliation: the mark is set after the call returned
\* and is read in a different critical section.
NoRepeatedInvite ==
    [][\A r \in Workers, p \in Primaries : Invite(r, p) => Target(r) \notin pending]_vars

\* A storm of removals cannot keep the room locked: every reconciliation ends.
ReconcilerLeaves == fleetSync ~> ~fleetSync

\* The goroutine that holds the room, for the abstract specification.
Runner == IF \E r \in Workers : Inside(r) THEN CHOOSE r \in Workers : Inside(r) ELSE None

SF == INSTANCE SingleFlight WITH runner <- Runner, note <- fleetDirty

\* The flags implement the promise of SingleFlight.
ImplementsSingleFlight == SF!Spec

\* Nothing is left to run: no operation is being handled, no goroutine is alive.
Quiet == ops = {} /\ accepting = {} /\ \A r \in Workers : rec[r].pc = "idle"
=============================================================================
