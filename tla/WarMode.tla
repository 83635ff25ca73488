------------------------------ MODULE WarMode ------------------------------
(***************************************************************************)
(* War mode of one room (guard/war.go): the commands of an Owner or a      *)
(* Creator, the automatic activation and the removal of users who join,    *)
(* as the goroutines of the bots run them against each other. Every action *)
(* is one critical section of the store's or of the engine's mutex.        *)
(*                                                                         *)
(* war is the WarState the store keeps, quarantine and suspects the        *)
(* warRuntime the engine keeps. Scores and counters are reported only and  *)
(* are left out, as is CooldownSec, which nothing reads. Time is a clock   *)
(* of ticks. Whether a save succeeds is a choice, and what is on disk is   *)
(* the subject of GuardStore.                                              *)
(***************************************************************************)
EXTENDS Naturals, Sequences, FiniteSets

CONSTANTS
    Users,          \* those who join, kick, invite
    Guarded,        \* the bots and the holders of a role among them
    Handlers,       \* goroutines that handle operations
    InitWar,        \* the WarStates a state file may hold
    Threshold,      \* events that start a war, by sensitivity (3, 5, 8)
    Window,         \* ticks in which they have to happen (10 s)
    Durations,      \* what "war on" accepts (30 s to 24 h)
    AutoDuration,   \* of an automatic war (5 min)
    QuarantineTime, \* of a quarantine (10 min)
    MaxAudit,       \* events the audit keeps (200)
    MaxTime,        \* bound on the clock
    MaxOps,         \* bound on the operations that arrive
    MaxCommands     \* bound on the commands that are given

Sensitivities == {"low", "medium", "high"}

WarState == [enabled : BOOLEAN, until : Nat, level : 1..3, locked : BOOLEAN,
             auto : BOOLEAN, sensitivity : Sensitivities, dryrun : BOOLEAN,
             whitelist : SUBSET Users]

ASSUME WarAssumption ==
    /\ Users # {} /\ Guarded \subseteq Users
    /\ InitWar \subseteq WarState
    /\ Threshold \in [Sensitivities -> Nat \ {0}]
    /\ Durations \subseteq Nat \ {0}
    /\ {Window, MaxAudit, MaxTime, MaxOps, MaxCommands} \subseteq Nat
    /\ {AutoDuration, QuarantineTime} \subseteq Nat \ {0}
    /\ \A s \in Sensitivities : Threshold[s] <= MaxAudit

VARIABLES
    now,
    war,         \* room.War
    quarantine,  \* when the quarantine of a user ends, 0 without one
    suspects,    \* users with a risk score
    audit,       \* e.audit[group]: the times of the latest events
    audited,     \* operations that are in the audit, or were
    ops,         \* how many operations have arrived
    hs,          \* the handlers
    commands,    \* how many commands have been given
    fresh        \* history: events audited since a command or an expiry last
                 \* changed what automatic detection depends on

store   == <<war>>
runtime == <<quarantine, suspects>>
trail   == <<audit, audited>>
vars    == <<now, store, runtime, trail, ops, hs, commands, fresh>>

defaultWar == [enabled |-> FALSE, until |-> 0, level |-> 2, locked |-> FALSE, auto |-> FALSE,
               sensitivity |-> "medium", dryrun |-> FALSE, whitelist |-> {}]

PCs == {"idle", "audit", "watch", "count", "activate", "resetAuto", "resetOn", "war",
        "expire", "quarantine", "protected", "risk", "kick"}

\* w and until are what a handler has read; exempt is history: the user was
\* excluded from war targets when the operation arrived and has been since.
Handler == [pc : PCs, kind : {"none", "join", "attack"}, op : 0..MaxOps, at : 0..MaxTime,
            user : Users, w : WarState, until : Nat, exempt : BOOLEAN]

NoOp == [pc |-> "idle", kind |-> "none", op |-> 0, at |-> 0, user |-> CHOOSE u \in Users : TRUE,
         w |-> defaultWar, until |-> 0, exempt |-> FALSE]

Goto(h, pc) == hs' = [hs EXCEPT ![h].pc = pc]

Finish(h) == hs' = [hs EXCEPT ![h] = NoOp]

Init ==
    /\ now = 0
    /\ war \in InitWar
    /\ quarantine = [u \in Users |-> 0]
    /\ suspects = {}
    /\ audit = <<>> /\ audited = {}
    /\ ops = 0
    /\ hs = [h \in Handlers |-> NoOp]
    /\ commands = 0
    /\ fresh = 0

-----------------------------------------------------------------------------
(* Time and the operations of the room.                                    *)

Tick ==
    /\ now < MaxTime
    /\ now' = now + 1
    /\ UNCHANGED <<store, runtime, trail, ops, hs, commands, fresh>>

\* Someone joins, or someone kicks, invites or cancels: the bots H get the
\* operation.
Arrive(H, kind, u) ==
    /\ ops < MaxOps
    /\ ops' = ops + 1
    /\ \A h \in H : hs[h].pc = "idle"
    /\ hs' = [h \in Handlers |->
                IF h \in H
                THEN [NoOp EXCEPT !.pc = "audit", !.kind = kind, !.op = ops + 1, !.at = now,
                                  !.user = u, !.exempt = u \in Guarded \cup war.whitelist]
                ELSE hs[h]]
    /\ UNCHANGED <<now, store, runtime, trail, commands, fresh>>

-----------------------------------------------------------------------------
(* The commands of executeWar. UpdateWar changes the record under the lock *)
(* of the store; the actor is an Owner or a Creator.                       *)

Command ==
    /\ commands < MaxCommands
    /\ commands' = commands + 1
    /\ UNCHANGED <<now, trail, ops>>

UpdateWar(w) == Command /\ war' = w

\* "war on": the runtime is reset in a second critical section, and only if
\* the record was saved.
WarOn(h, d) ==
    /\ hs[h].pc = "idle"
    /\ UpdateWar([war EXCEPT !.enabled = TRUE, !.until = now + d])
    /\ Goto(h, "resetOn") \/ UNCHANGED hs
    /\ fresh' = 0
    /\ UNCHANGED runtime

WarOff ==
    /\ UpdateWar([war EXCEPT !.enabled = FALSE, !.locked = FALSE])
    /\ fresh' = 0
    /\ UNCHANGED <<runtime, hs>>

\* The level is the last character of the command, a digit.
WarLevel(creator, level) ==
    /\ level \in 1..3
    /\ level = 3 => creator
    /\ UpdateWar([war EXCEPT !.level = level])
    /\ UNCHANGED <<runtime, hs, fresh>>

WarLock(on) == UpdateWar([war EXCEPT !.locked = on]) /\ UNCHANGED <<runtime, hs, fresh>>

WarAuto(on) == UpdateWar([war EXCEPT !.auto = on]) /\ fresh' = 0 /\ UNCHANGED <<runtime, hs>>

WarSensitivity(s) ==
    UpdateWar([war EXCEPT !.sensitivity = s]) /\ fresh' = 0 /\ UNCHANGED <<runtime, hs>>

WarDryRun(on) == UpdateWar([war EXCEPT !.dryrun = on]) /\ UNCHANGED <<runtime, hs, fresh>>

WarWhitelistAdd(u) ==
    UpdateWar([war EXCEPT !.whitelist = @ \cup {u}]) /\ UNCHANGED <<runtime, hs, fresh>>

WarWhitelistDel(u) ==
    /\ UpdateWar([war EXCEPT !.whitelist = @ \ {u}])
    /\ hs' = [h \in Handlers |-> [hs[h] EXCEPT !.exempt = @ /\ (hs[h].user # u \/ u \in Guarded)]]
    /\ UNCHANGED <<runtime, fresh>>

WarPardon(u) ==
    /\ Command
    /\ quarantine' = [quarantine EXCEPT ![u] = 0]
    /\ suspects' = suspects \ {u}
    /\ UNCHANGED <<store, hs, fresh>>

WarQuarantine(u) ==
    /\ Command
    /\ quarantine' = [quarantine EXCEPT ![u] = now + QuarantineTime]
    /\ UNCHANGED <<store, suspects, hs, fresh>>

resetWarRuntime == quarantine' = [u \in Users |-> 0] /\ suspects' = {}

WarClear == Command /\ resetWarRuntime /\ UNCHANGED <<store, hs, fresh>>

ResetOn(h) ==
    /\ hs[h].pc = "resetOn"
    /\ resetWarRuntime
    /\ Finish(h)
    /\ UNCHANGED <<now, store, trail, ops, commands, fresh>>

-----------------------------------------------------------------------------
(* The beginning of Handle: observeAudit and observeWarAuto.               *)

\* duplicate lets one of the bots record the event.
ObserveAudit(h) ==
    /\ hs[h].pc = "audit"
    /\ \/ hs[h].op \in audited /\ UNCHANGED <<trail, fresh>>
       \/ /\ hs[h].op \notin audited
          /\ audited' = audited \cup {hs[h].op}
          /\ audit' = LET a == Append(audit, hs[h].at)
                      IN  IF Len(a) > MaxAudit THEN Tail(a) ELSE a
          /\ fresh' = fresh + 1
    /\ Goto(h, "watch")
    /\ UNCHANGED <<now, store, runtime, ops, commands>>

\* The record is read; without automatic mode, or in a war, that is all.
WatchAuto(h) ==
    /\ hs[h].pc = "watch"
    /\ hs' = [hs EXCEPT ![h].w = war,
                        ![h].pc = IF ~war.auto \/ war.enabled THEN "war" ELSE "count"]
    /\ UNCHANGED <<now, store, runtime, trail, ops, commands, fresh>>

Recent(i) == now <= audit[i] + Window

\* The events of a part of the audit that are within the window.
EventsIn(S) == Cardinality({i \in S : Recent(i)})

\* Mutant: one event more than the threshold is needed.
CountEventsMore(h) ==
    /\ hs[h].pc = "count"
    /\ Goto(h, IF EventsIn(DOMAIN audit) > Threshold[hs[h].w.sensitivity]
               THEN "activate" ELSE "war")
    /\ UNCHANGED <<now, store, runtime, trail, ops, commands, fresh>>

CountEvents(h) ==
    /\ hs[h].pc = "count"
    /\ Goto(h, IF EventsIn(DOMAIN audit) >= Threshold[hs[h].w.sensitivity]
               THEN "activate" ELSE "war")
    /\ UNCHANGED <<now, store, runtime, trail, ops, commands, fresh>>

\* Mutant: the record that was read before is trusted.
ActivateWarAutoStale(h) ==
    /\ hs[h].pc = "activate"
    /\ war' = [war EXCEPT !.enabled = TRUE, !.until = now + AutoDuration]
    /\ Goto(h, "resetAuto") \/ Goto(h, "war")
    /\ UNCHANGED <<now, runtime, trail, ops, commands, fresh>>

\* activateWarAuto decides again under the lock. It returns no error either
\* when there was nothing to do, and the caller resets the runtime then too.
ActivateWarAuto(h) ==
    /\ hs[h].pc = "activate"
    /\ \/ (~war.auto \/ war.enabled) /\ UNCHANGED war /\ Goto(h, "resetAuto")
       \/ /\ war.auto /\ ~war.enabled
          /\ war' = [war EXCEPT !.enabled = TRUE, !.until = now + AutoDuration]
          /\ Goto(h, "resetAuto") \/ Goto(h, "war")
    /\ UNCHANGED <<now, runtime, trail, ops, commands, fresh>>

ResetAuto(h) ==
    /\ hs[h].pc = "resetAuto"
    /\ resetWarRuntime
    /\ Goto(h, "war")
    /\ UNCHANGED <<now, store, trail, ops, commands, fresh>>

-----------------------------------------------------------------------------
(* The handlers of the operations, as far as the war goes.                 *)

\* warActive, first half.
ReadWar(h) ==
    /\ hs[h].pc = "war"
    /\ \/ /\ war.enabled /\ war.until > 0 /\ now >= war.until
          /\ Goto(h, "expire")
       \/ ~war.enabled /\ Finish(h)
       \/ /\ war.enabled /\ ~(war.until > 0 /\ now >= war.until)
          /\ \/ hs[h].kind = "none" /\ Finish(h)
             \/ /\ hs[h].kind # "none"
                /\ hs' = [hs EXCEPT ![h].w = war,
                                    ![h].pc = IF hs[h].kind = "join" THEN "quarantine" ELSE "protected"]
    /\ UNCHANGED <<now, store, runtime, trail, ops, commands, fresh>>

\* warActive, second half: expireWar, whatever the record has become.
ExpireWar(h) ==
    /\ hs[h].pc = "expire"
    /\ \/ /\ war.enabled
          /\ war' = [war EXCEPT !.enabled = FALSE, !.locked = FALSE]
          /\ fresh' = 0
       \/ ~war.enabled /\ UNCHANGED <<war, fresh>>
    /\ Finish(h)
    /\ UNCHANGED <<now, runtime, trail, ops, commands>>

\* warJoinAction looks the quarantine up, then the whitelist.
ReadQuarantine(h) ==
    /\ hs[h].pc = "quarantine"
    /\ hs' = [hs EXCEPT ![h].until = quarantine[hs[h].user], ![h].pc = "protected"]
    /\ UNCHANGED <<now, store, runtime, trail, ops, commands, fresh>>

warProtected(u) == u \in Guarded \/ u \in war.whitelist

\* Mutant: only the whitelist of the record read before exempts from removal.
DecideWhitelistOnly(h) ==
    /\ hs[h].pc = "protected"
    /\ \/ hs[h].user \in hs[h].w.whitelist /\ Finish(h)
       \/ /\ hs[h].user \notin hs[h].w.whitelist
          /\ \/ hs[h].kind = "attack" /\ Goto(h, "risk")
             \/ /\ hs[h].kind = "join"
                /\ IF (hs[h].w.level >= 3 \/ now < hs[h].until) /\ ~hs[h].w.dryrun
                   THEN Goto(h, "risk") ELSE Finish(h)
    /\ UNCHANGED <<now, store, runtime, trail, ops, commands, fresh>>

\* Level and dry run are those of the record that warActive returned.
Decide(h) ==
    /\ hs[h].pc = "protected"
    /\ \/ warProtected(hs[h].user) /\ Finish(h)
       \/ /\ ~warProtected(hs[h].user)
          /\ \/ hs[h].kind = "attack" /\ Goto(h, "risk")
             \/ /\ hs[h].kind = "join"
                /\ IF (hs[h].w.level >= 3 \/ now < hs[h].until) /\ ~hs[h].w.dryrun
                   THEN Goto(h, "risk") ELSE Finish(h)
    /\ UNCHANGED <<now, store, runtime, trail, ops, commands, fresh>>

AddWarRisk(h) ==
    /\ hs[h].pc = "risk"
    /\ suspects' = suspects \cup {hs[h].user}
    /\ \/ hs[h].kind = "join" /\ Goto(h, "kick")
       \/ hs[h].kind = "attack" /\ Finish(h)
    /\ UNCHANGED <<now, store, quarantine, trail, ops, commands, fresh>>

\* The removal; recordWarAction then asks warActive once more.
Kick(h) ==
    /\ hs[h].pc = "kick"
    /\ hs' = [hs EXCEPT ![h] = [NoOp EXCEPT !.pc = "war"]]
    /\ UNCHANGED <<now, store, runtime, trail, ops, commands, fresh>>

-----------------------------------------------------------------------------
Step(h) ==
    \/ ObserveAudit(h) \/ WatchAuto(h) \/ CountEvents(h) \/ ActivateWarAuto(h) \/ ResetAuto(h)
    \/ ReadWar(h) \/ ExpireWar(h) \/ ReadQuarantine(h) \/ Decide(h) \/ AddWarRisk(h) \/ Kick(h)
    \/ ResetOn(h)

Commands ==
    \/ \E h \in Handlers, d \in Durations : WarOn(h, d)
    \/ WarOff
    \/ \E creator \in BOOLEAN, level \in 0..9 : WarLevel(creator, level)
    \/ \E on \in BOOLEAN : WarLock(on) \/ WarAuto(on) \/ WarDryRun(on)
    \/ \E s \in Sensitivities : WarSensitivity(s)
    \/ \E u \in Users : WarWhitelistAdd(u) \/ WarWhitelistDel(u) \/ WarPardon(u) \/ WarQuarantine(u)
    \/ WarClear

Next ==
    \/ Tick
    \/ \E H \in SUBSET Handlers \ {{}}, kind \in {"join", "attack"}, u \in Users : Arrive(H, kind, u)
    \/ Commands
    \/ \E h \in Handlers : Step(h)

Spec == Init /\ [][Next]_vars

-----------------------------------------------------------------------------
TypeOK ==
    /\ now \in 0..MaxTime
    /\ war \in WarState
    /\ quarantine \in [Users -> Nat]
    /\ suspects \subseteq Users
    /\ audit \in Seq(0..MaxTime) /\ Len(audit) <= MaxAudit
    /\ audited \subseteq 1..MaxOps
    /\ ops \in 0..MaxOps /\ commands \in 0..MaxCommands /\ fresh \in 0..MaxOps
    /\ hs \in [Handlers -> Handler]

\* The automatic mode decides on a record it read three critical sections
\* before. All the same it never moves the end of a war under way and never
\* starts one after "war auto off": only "war on" does.
AutoActivationIsFresh ==
    [][war'.enabled /\ (~war.enabled \/ war'.until # war.until) =>
          (war.auto /\ ~war.enabled) \/ \E h \in Handlers, d \in Durations : WarOn(h, d)]_vars

\* A user who was a bot, held a role or was on the war whitelist when the join
\* arrived, and stayed there, is not removed for it, whatever the commands do
\* to the record while the handlers are at work.
ExemptNeverRemoved == [][\A h \in Handlers : Kick(h) => ~hs[h].exempt]_vars

Latest(n) == {i \in DOMAIN audit : i + n > Len(audit)}

Quiet == \A h \in Handlers : hs[h].pc = "idle"

\* With automatic mode on, a burst of events is never overlooked because its
\* operations were handled in parallel: when the handlers are done, as many
\* events as the threshold within the window mean war, unless a command or an
\* expiry intervened.
AttackDetected ==
    Quiet /\ war.auto /\ EventsIn(Latest(fresh)) >= Threshold[war.sensitivity]
        => war.enabled

\* "war on" enables war mode for the specified duration: before that, only
\* "war off" ends it.
WarLastsItsDuration == [][war.enabled /\ now < war.until /\ ~war'.enabled => WarOff]_vars

\* A quarantine lasts: before its end only "war pardon" and "war clear" lift it.
QuarantineLasts ==
    [][\A u \in Users : now < quarantine[u] /\ quarantine'[u] = 0 => WarPardon(u) \/ WarClear]_vars
=============================================================================
