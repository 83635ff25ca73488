---------------------------- MODULE WarModeProofs ----------------------------
(***************************************************************************)
(* The safety theorems of WarMode, for any users, handlers, thresholds and *)
(* bounds.                                                                 *)
(*                                                                         *)
(* A handler decides from what it read before. That it removes no exempt   *)
(* user follows since it looks the whitelist up after the operation came   *)
(* in; that no attack is overlooked, since a handler that puts an event in *)
(* the audit counts later, and whoever counts sees all that was put there. *)
(***************************************************************************)
EXTENDS WarMode, FiniteSetTheorems, SequenceTheorems, TLAPS

\* Events are audited once each, and those that are fresh are among them.
Counted ==
    /\ audited \subseteq 1 .. ops /\ fresh <= Cardinality(audited)
    /\ \A h \in Handlers : hs[h].pc = "audit" => hs[h].op \in 1 .. ops

\* A user who is exempt still is when a handler looks, and no handler goes on to
\* remove one.
Exempted ==
    \A h \in Handlers : /\ hs[h].exempt => warProtected(hs[h].user)
                        /\ hs[h].pc \in {"risk", "kick"} => ~hs[h].exempt

\* A handler that will count, or has counted, by the sensitivity that holds.
Attentive(h) ==
    \/ hs[h].pc \in {"watch", "activate"}
    \/ hs[h].pc = "count" /\ hs[h].w.sensitivity = war.sensitivity

\* While there are enough events for a war, some handler has yet to start it.
Attended ==
    war.auto /\ ~war.enabled /\ EventsIn(Latest(fresh)) >= Threshold[war.sensitivity]
        => \E h \in Handlers : Attentive(h)

IInv == TypeOK /\ Counted /\ Exempted /\ Attended

-----------------------------------------------------------------------------
(* Lemmas about the records.                                               *)

LEMMA Idle ==
    /\ NoOp \in Handler /\ NoOp.pc = "idle" /\ NoOp.exempt = FALSE /\ defaultWar \in WarState
  <1>1. defaultWar \in WarState
    BY DEF defaultWar, WarState, Sensitivities
  <1>2. (CHOOSE u \in Users : TRUE) \in Users
    BY WarAssumption
  <1>3. 0 \in 0 .. MaxOps /\ 0 \in 0 .. MaxTime
    BY WarAssumption
  <1> QED BY <1>1, <1>2, <1>3 DEF NoOp, Handler, PCs

\* A handler that goes on changes nothing but its place.
LEMMA GoesOn ==
    ASSUME TypeOK, NEW h \in Handlers, NEW p \in PCs, Goto(h, p)
    PROVE  /\ hs' \in [Handlers -> Handler]
           /\ \A g \in Handlers \ {h} : hs'[g] = hs[g]
           /\ hs'[h].pc = p /\ hs'[h].user = hs[h].user /\ hs'[h].exempt = hs[h].exempt
           /\ hs'[h].w = hs[h].w /\ hs'[h].op = hs[h].op
  <1>1. hs \in [Handlers -> Handler] /\ hs' = [hs EXCEPT ![h].pc = p]
    BY DEF TypeOK, Goto
  <1>2. hs'[h] = [hs[h] EXCEPT !.pc = p] /\ \A g \in Handlers \ {h} : hs'[g] = hs[g]
    BY <1>1
  <1>3. hs'[h] \in Handler
    BY <1>1, <1>2 DEF Handler
  <1>4. /\ hs'[h].pc = p /\ hs'[h].user = hs[h].user
        /\ hs'[h].w = hs[h].w /\ hs'[h].op = hs[h].op
    BY <1>1, <1>2 DEF Handler
  <1>5. hs'[h].exempt = hs[h].exempt
    BY <1>1, <1>2 DEF Handler
  <1> QED BY <1>1, <1>2, <1>3, <1>4, <1>5

LEMMA Finishes ==
    ASSUME TypeOK, NEW h \in Handlers, NEW g \in Handler, hs' = [hs EXCEPT ![h] = g]
    PROVE  /\ hs' \in [Handlers -> Handler] /\ hs'[h] = g
           /\ \A k \in Handlers \ {h} : hs'[k] = hs[k]
  BY DEF TypeOK

\* What a step of a handler does to the handlers.
LEMMA StepChanges ==
    ASSUME TypeOK, NEW h \in Handlers, Step(h)
    PROVE  /\ hs' \in [Handlers -> Handler]
           /\ \A g \in Handlers \ {h} : hs'[g] = hs[g]
           /\ hs'[h].exempt => hs[h].exempt /\ hs'[h].user = hs[h].user
           /\ hs'[h].pc \in {"risk", "kick"} =>
                hs[h].pc = "risk" \/ (hs[h].pc = "protected" /\ ~warProtected(hs[h].user))
           /\ hs'[h].pc # "audit"
           /\ UNCHANGED <<now, ops, commands>>
  <1>1. hs[h] \in Handler /\ UNCHANGED <<now, ops, commands>>
    BY DEF TypeOK, Step, ObserveAudit, WatchAuto, CountEvents, ActivateWarAuto, ResetAuto, ReadWar,
           ExpireWar, ReadQuarantine, Decide, AddWarRisk, Kick, ResetOn
  <1>2. CASE Finish(h)
    BY <1>1, <1>2, Finishes, Idle DEF Finish
  <1>3. CASE \E p \in {"watch", "activate", "war", "resetAuto", "expire", "quarantine"} : Goto(h, p)
    <2>1. PICK p \in {"watch", "activate", "war", "resetAuto", "expire", "quarantine"} : Goto(h, p)
      BY <1>3
    <2>2. p \in PCs
      BY DEF PCs
    <2> QED BY <1>1, <2>1, <2>2, GoesOn
  <1>4. CASE /\ Goto(h, "risk") \/ Goto(h, "kick")
             /\ hs[h].pc = "risk" \/ (hs[h].pc = "protected" /\ ~warProtected(hs[h].user))
    <2>1. "risk" \in PCs /\ "kick" \in PCs
      BY DEF PCs
    <2> QED BY <1>1, <1>4, <2>1, GoesOn
  <1>5. CASE WatchAuto(h) \/ ReadWar(h)
    <2>1. \/ Finish(h) \/ Goto(h, "expire")
          \/ \E p \in {"war", "count", "quarantine", "protected"} :
               hs' = [hs EXCEPT ![h].w = war, ![h].pc = p]
      BY <1>5 DEF WatchAuto, ReadWar
    <2>2. ASSUME NEW p \in {"war", "count", "quarantine", "protected"},
                 hs' = [hs EXCEPT ![h].w = war, ![h].pc = p]
          PROVE  /\ hs' \in [Handlers -> Handler]
                 /\ \A g \in Handlers \ {h} : hs'[g] = hs[g]
                 /\ hs'[h].exempt = hs[h].exempt /\ hs'[h].user = hs[h].user /\ hs'[h].pc = p
      <3>1. hs \in [Handlers -> Handler] /\ war \in WarState
        BY DEF TypeOK
      <3>2. hs'[h] = [hs[h] EXCEPT !.w = war, !.pc = p] /\ \A g \in Handlers \ {h} : hs'[g] = hs[g]
        BY <2>2, <3>1
      <3>3. hs'[h] \in Handler
        BY <1>1, <3>1, <3>2 DEF Handler, PCs
      <3>4. hs'[h].user = hs[h].user /\ hs'[h].pc = p
        BY <1>1, <3>2 DEF Handler
      <3>5. hs'[h].exempt = hs[h].exempt
        BY <1>1, <3>2 DEF Handler
      <3> QED BY <2>2, <3>1, <3>2, <3>3, <3>4, <3>5
    <2> QED BY <1>1, <1>2, <1>3, <2>1, <2>2
  <1>6. CASE ReadQuarantine(h)
    <2> DEFINE q == quarantine[hs[h].user]
    <2>1. hs' = [hs EXCEPT ![h].until = q, ![h].pc = "protected"] /\ hs \in [Handlers -> Handler]
      BY <1>6 DEF ReadQuarantine, TypeOK
    <2>2. q \in Nat
      BY <1>1 DEF TypeOK, Handler
    <2> HIDE DEF q
    <2>3. /\ hs'[h] = [hs[h] EXCEPT !.until = q, !.pc = "protected"]
          /\ \A g \in Handlers \ {h} : hs'[g] = hs[g]
      BY <2>1
    <2>4. hs'[h] \in Handler
      BY <1>1, <2>2, <2>3 DEF Handler, PCs
    <2>5. hs'[h].user = hs[h].user /\ hs'[h].pc = "protected"
      BY <1>1, <2>3 DEF Handler
    <2>6. hs'[h].exempt = hs[h].exempt
      BY <1>1, <2>3 DEF Handler
    <2>7. hs' \in [Handlers -> Handler]
      BY <2>1, <2>4
    <2> QED BY <1>1, <2>3, <2>5, <2>6, <2>7
  <1>7. CASE Kick(h)
    <2> DEFINE g == [NoOp EXCEPT !.pc = "war"]
    <2>1. g \in Handler
      BY Idle DEF Handler, PCs
    <2>2. g.exempt = FALSE
      BY Idle DEF Handler
    <2>3. g.pc = "war"
      BY Idle DEF Handler
    <2>4. hs' = [hs EXCEPT ![h] = g]
      BY <1>7 DEF Kick
    <2> HIDE DEF g
    <2> QED BY <1>1, <2>1, <2>2, <2>3, <2>4, Finishes
  <1> QED BY <1>2, <1>3, <1>4, <1>5, <1>6, <1>7
          DEF Step, ObserveAudit, CountEvents, ActivateWarAuto, ResetAuto, ExpireWar, Decide, AddWarRisk,
              ResetOn

-----------------------------------------------------------------------------
(* The commands.                                                           *)

\* A command that touches what the automatic mode depends on makes the events so
\* far stale, or starts a war.
LEMMA RecordChanges ==
    ASSUME TypeOK, Commands
    PROVE  /\ war' \in WarState
           /\ \/ fresh' = 0
              \/ fresh' = fresh /\ war'.auto = war.auto /\ war'.enabled = war.enabled
                                /\ war'.sensitivity = war.sensitivity
           /\ war'.enabled => (\E h \in Handlers, d \in Durations : WarOn(h, d))
                                 \/ (war.enabled /\ war'.until = war.until)
  <1>1. war \in WarState
    BY DEF TypeOK
  <1>2. CASE \E h \in Handlers, d \in Durations : WarOn(h, d)
    <2>1. PICK h \in Handlers, d \in Durations : WarOn(h, d)
      BY <1>2
    <2> DEFINE e == now + d
    <2>2. war' = [war EXCEPT !.enabled = TRUE, !.until = e] /\ fresh' = 0
      BY <2>1 DEF WarOn, UpdateWar
    <2>3. e \in Nat
      BY WarAssumption DEF TypeOK
    <2> HIDE DEF e
    <2>4. war' \in WarState
      BY <1>1, <2>2, <2>3 DEF WarState
    <2> QED BY <1>2, <2>2, <2>4
  <1>3. CASE WarOff
    <2>1. war' = [war EXCEPT !.enabled = FALSE, !.locked = FALSE] /\ fresh' = 0
      BY <1>3 DEF WarOff, UpdateWar
    <2>2. war' \in WarState
      BY <1>1, <2>1 DEF WarState
    <2>3. war'.enabled = FALSE
      BY <1>1, <2>1 DEF WarState
    <2> QED BY <2>1, <2>2, <2>3
  <1>4. ASSUME NEW creator \in BOOLEAN, NEW level \in 0 .. 9, WarLevel(creator, level)
        PROVE  /\ war' \in WarState /\ fresh' = fresh /\ war'.auto = war.auto /\ war'.enabled = war.enabled
               /\ war'.sensitivity = war.sensitivity /\ war'.until = war.until
    <2>1. war' = [war EXCEPT !.level = level] /\ fresh' = fresh /\ level \in 1 .. 3
      BY <1>4 DEF WarLevel, UpdateWar
    <2>2. war' \in WarState /\ war'.sensitivity = war.sensitivity /\ war'.until = war.until
      BY <1>1, <2>1 DEF WarState
    <2>3. war'.auto = war.auto
      BY <1>1, <2>1 DEF WarState
    <2>4. war'.enabled = war.enabled
      BY <1>1, <2>1 DEF WarState
    <2> QED BY <2>1, <2>2, <2>3, <2>4
  <1>5. ASSUME NEW on \in BOOLEAN, WarLock(on) \/ WarDryRun(on)
        PROVE  /\ war' \in WarState /\ fresh' = fresh /\ war'.auto = war.auto /\ war'.enabled = war.enabled
               /\ war'.sensitivity = war.sensitivity /\ war'.until = war.until
    <2>1. /\ war' = [war EXCEPT !.locked = on] \/ war' = [war EXCEPT !.dryrun = on]
          /\ fresh' = fresh
      BY <1>5 DEF WarLock, WarDryRun, UpdateWar
    <2>2. war' \in WarState
      BY <1>1, <2>1 DEF WarState
    <2>3. war'.sensitivity = war.sensitivity /\ war'.until = war.until
      BY <1>1, <2>1 DEF WarState
    <2>4. war'.auto = war.auto
      BY <1>1, <2>1 DEF WarState
    <2>5. war'.enabled = war.enabled
      BY <1>1, <2>1 DEF WarState
    <2> QED BY <2>1, <2>2, <2>3, <2>4, <2>5
  <1>6. ASSUME NEW on \in BOOLEAN, WarAuto(on)
        PROVE  war' \in WarState /\ fresh' = 0 /\ war'.enabled = war.enabled /\ war'.until = war.until
    <2>1. war' = [war EXCEPT !.auto = on] /\ fresh' = 0
      BY <1>6 DEF WarAuto, UpdateWar
    <2>2. war' \in WarState /\ war'.until = war.until
      BY <1>1, <2>1 DEF WarState
    <2>3. war'.enabled = war.enabled
      BY <1>1, <2>1 DEF WarState
    <2> QED BY <2>1, <2>2, <2>3
  <1>7. ASSUME NEW s \in Sensitivities, WarSensitivity(s)
        PROVE  war' \in WarState /\ fresh' = 0 /\ war'.enabled = war.enabled /\ war'.until = war.until
    <2>1. war' = [war EXCEPT !.sensitivity = s] /\ fresh' = 0
      BY <1>7 DEF WarSensitivity, UpdateWar
    <2>2. war' \in WarState /\ war'.until = war.until
      BY <1>1, <2>1 DEF WarState
    <2>3. war'.enabled = war.enabled
      BY <1>1, <2>1 DEF WarState
    <2> QED BY <2>1, <2>2, <2>3
  <1>8. ASSUME NEW u \in Users, WarWhitelistAdd(u) \/ WarWhitelistDel(u)
        PROVE  /\ war' \in WarState /\ fresh' = fresh /\ war'.auto = war.auto /\ war'.enabled = war.enabled
               /\ war'.sensitivity = war.sensitivity /\ war'.until = war.until
    <2>1. PICK S \in SUBSET Users : war' = [war EXCEPT !.whitelist = S] /\ fresh' = fresh
      BY <1>1, <1>8 DEF WarWhitelistAdd, WarWhitelistDel, UpdateWar, WarState
    <2>2. war' \in WarState /\ war'.sensitivity = war.sensitivity /\ war'.until = war.until
      BY <1>1, <2>1 DEF WarState
    <2>3. war'.auto = war.auto
      BY <1>1, <2>1 DEF WarState
    <2>4. war'.enabled = war.enabled
      BY <1>1, <2>1 DEF WarState
    <2> QED BY <2>1, <2>2, <2>3, <2>4
  <1>9. CASE UNCHANGED <<war, fresh>>
    BY <1>1, <1>9
  <1> QED BY <1>2, <1>3, <1>4, <1>5, <1>6, <1>7, <1>8, <1>9
          DEF Commands, WarPardon, WarQuarantine, WarClear, store

\* Nor does a command turn a user who was not exempt into one, or the other way
\* round unless it takes the user from the whitelist.
LEMMA CommandChanges ==
    ASSUME TypeOK, Commands
    PROVE  /\ hs' \in [Handlers -> Handler]
           /\ \A h \in Handlers :
                /\ hs'[h].pc = hs[h].pc \/ (hs[h].pc = "idle" /\ hs'[h].pc = "resetOn")
                /\ hs'[h].user = hs[h].user /\ hs'[h].op = hs[h].op /\ hs'[h].w = hs[h].w
                /\ hs'[h].exempt => hs[h].exempt /\ (warProtected(hs[h].user) => warProtected(hs[h].user)')
           /\ quarantine' \in [Users -> Nat] /\ suspects' \subseteq Users
           /\ commands' \in 0 .. MaxCommands /\ UNCHANGED <<now, trail, ops>>
  <1>1. /\ hs \in [Handlers -> Handler] /\ war \in WarState /\ quarantine \in [Users -> Nat]
        /\ suspects \subseteq Users /\ commands \in 0 .. MaxCommands /\ now \in Nat
    BY WarAssumption DEF TypeOK
  <1>2. Command
    BY DEF Commands, WarOn, WarOff, WarLevel, WarLock, WarAuto, WarSensitivity, WarDryRun,
           WarWhitelistAdd, WarWhitelistDel, WarPardon, WarQuarantine, WarClear, UpdateWar
  <1>3. commands' \in 0 .. MaxCommands /\ UNCHANGED <<now, trail, ops>>
    BY <1>1, <1>2, WarAssumption DEF Command
  <1>4. quarantine' \in [Users -> Nat] /\ suspects' \subseteq Users
    <2>1. ASSUME NEW u \in Users, WarQuarantine(u)
          PROVE  quarantine' \in [Users -> Nat] /\ suspects' \subseteq Users
      BY <1>1, <2>1, WarAssumption DEF WarQuarantine
    <2>2. ASSUME NEW u \in Users, WarPardon(u)
          PROVE  quarantine' \in [Users -> Nat] /\ suspects' \subseteq Users
      BY <1>1, <2>2 DEF WarPardon
    <2>3. CASE resetWarRuntime
      BY <2>3 DEF resetWarRuntime
    <2>4. CASE UNCHANGED runtime
      BY <1>1, <2>4 DEF runtime
    <2> QED BY <2>1, <2>2, <2>3, <2>4
            DEF Commands, WarOn, WarOff, WarLevel, WarLock, WarAuto, WarSensitivity, WarDryRun,
                WarWhitelistAdd, WarWhitelistDel, WarClear
  <1>5. \/ war.whitelist = war'.whitelist
        \/ \E u \in Users : WarWhitelistAdd(u) \/ WarWhitelistDel(u)
    <2>1. ASSUME NEW h \in Handlers, NEW d \in Durations, WarOn(h, d)
          PROVE  war.whitelist = war'.whitelist
      BY <1>1, <2>1 DEF WarOn, UpdateWar, WarState
    <2> QED BY <1>1, <2>1
          DEF Commands, WarOff, WarLevel, WarLock, WarAuto, WarSensitivity, WarDryRun,
              WarPardon, WarQuarantine, WarClear, UpdateWar, WarState, store
  <1>6. ASSUME NEW u \in Users, WarWhitelistAdd(u)
        PROVE  war.whitelist \subseteq war'.whitelist
    BY <1>1, <1>6 DEF WarWhitelistAdd, UpdateWar, WarState
  <1>7. ASSUME NEW u \in Users, WarWhitelistDel(u)
        PROVE  /\ hs' \in [Handlers -> Handler]
               /\ \A h \in Handlers :
                    /\ hs'[h].pc = hs[h].pc /\ hs'[h].user = hs[h].user /\ hs'[h].op = hs[h].op
                    /\ hs'[h].w = hs[h].w
                    /\ hs'[h].exempt => hs[h].exempt /\ (hs[h].user # u \/ u \in Guarded)
               /\ war'.whitelist = war.whitelist \ {u}
    <2>1. hs' = [h \in Handlers |-> [hs[h] EXCEPT !.exempt = @ /\ (hs[h].user # u \/ u \in Guarded)]]
      BY <1>7 DEF WarWhitelistDel
    <2>2. ASSUME NEW h \in Handlers
          PROVE  /\ hs'[h] \in Handler
                 /\ hs'[h].pc = hs[h].pc /\ hs'[h].user = hs[h].user /\ hs'[h].op = hs[h].op
                 /\ hs'[h].w = hs[h].w
                 /\ hs'[h].exempt => hs[h].exempt /\ (hs[h].user # u \/ u \in Guarded)
      <3> DEFINE e == hs[h].exempt /\ (hs[h].user # u \/ u \in Guarded)
      <3>1. hs'[h] = [hs[h] EXCEPT !.exempt = e] /\ hs[h] \in Handler /\ e \in BOOLEAN
        BY <1>1, <2>1 DEF Handler
      <3>2. e => hs[h].exempt /\ (hs[h].user # u \/ u \in Guarded)
        OBVIOUS
      <3> HIDE DEF e
      <3>3. hs'[h] \in Handler
        BY <3>1 DEF Handler
      <3>4. /\ hs'[h].pc = hs[h].pc /\ hs'[h].user = hs[h].user /\ hs'[h].op = hs[h].op
            /\ hs'[h].w = hs[h].w
        BY <3>1 DEF Handler
      <3>5. hs'[h].exempt = e
        BY <3>1 DEF Handler
      <3> QED BY <3>2, <3>3, <3>4, <3>5
    <2>3. war'.whitelist = war.whitelist \ {u}
      BY <1>1, <1>7 DEF WarWhitelistDel, UpdateWar, WarState
    <2>4. hs' \in [Handlers -> Handler]
      BY <2>1, <2>2
    <2> QED BY <2>2, <2>3, <2>4
  <1>8. CASE \E u \in Users : WarWhitelistDel(u)
    BY <1>3, <1>4, <1>7, <1>8 DEF warProtected
  <1>9. CASE ~\E u \in Users : WarWhitelistDel(u)
    <2>1. \A u \in Users : warProtected(u) => warProtected(u)'
      BY <1>5, <1>6, <1>9 DEF warProtected
    <2>2. UNCHANGED hs \/ \E h \in Handlers : hs[h].pc = "idle" /\ Goto(h, "resetOn")
      BY <1>9 DEF Commands, WarOn, WarOff, WarLevel, WarLock, WarAuto, WarSensitivity, WarDryRun,
                  WarWhitelistAdd, WarPardon, WarQuarantine, WarClear
    <2>3. \A h \in Handlers : hs[h].user \in Users
      BY <1>1 DEF Handler
    <2>4. CASE UNCHANGED hs
      BY <1>1, <1>3, <1>4, <2>1, <2>3, <2>4
    <2>5. CASE \E h \in Handlers : hs[h].pc = "idle" /\ Goto(h, "resetOn")
      <3>1. PICK h \in Handlers : hs[h].pc = "idle" /\ Goto(h, "resetOn")
        BY <2>5
      <3>2. "resetOn" \in PCs
        BY DEF PCs
      <3> QED BY <1>3, <1>4, <2>1, <2>3, <3>1, <3>2, GoesOn
    <2> QED BY <2>2, <2>4, <2>5
  <1> QED BY <1>8, <1>9

-----------------------------------------------------------------------------
(* The operations that arrive.                                             *)

LEMMA ArriveChanges ==
    ASSUME TypeOK, NEW H \in SUBSET Handlers, NEW kind \in {"join", "attack"}, NEW u \in Users,
           Arrive(H, kind, u)
    PROVE  /\ hs' \in [Handlers -> Handler] /\ ops' = ops + 1 /\ ops' \in 0 .. MaxOps
           /\ \A h \in Handlers :
                \/ hs'[h] = hs[h]
                \/ /\ hs[h].pc = "idle" /\ hs'[h].pc = "audit" /\ hs'[h].op = ops'
                   /\ hs'[h].exempt => warProtected(hs'[h].user)
           /\ UNCHANGED <<now, store, runtime, trail, commands, fresh>>
  <1>1. /\ hs \in [Handlers -> Handler] /\ ops \in 0 .. MaxOps /\ now \in 0 .. MaxTime
    BY DEF TypeOK
  <1>2. ops' = ops + 1 /\ ops' \in 0 .. MaxOps
    BY <1>1, WarAssumption DEF Arrive
  <1> DEFINE n == ops + 1
             e == u \in Guarded \cup war.whitelist
             new == [NoOp EXCEPT !.pc = "audit", !.kind = kind, !.op = n, !.at = now, !.user = u,
                                 !.exempt = e]
  <1>3. hs' = [h \in Handlers |-> IF h \in H THEN new ELSE hs[h]] /\ \A h \in H : hs[h].pc = "idle"
    BY DEF Arrive
  <1>4. n \in 0 .. MaxOps /\ n = ops' /\ e \in BOOLEAN
    BY <1>2
  <1>5. e => warProtected(u)
    BY DEF warProtected
  <1> HIDE DEF n, e
  <1>6. new \in Handler
    BY <1>1, <1>4, Idle DEF Handler, PCs
  <1>7. new.pc = "audit" /\ new.op = n /\ new.user = u
    BY Idle DEF Handler
  <1>8. new.exempt = e
    BY Idle DEF Handler
  <1> HIDE DEF new
  <1>9. hs' \in [Handlers -> Handler]
    BY <1>1, <1>3, <1>6
  <1>10. ASSUME NEW h \in Handlers
         PROVE  \/ hs'[h] = hs[h]
                \/ /\ hs[h].pc = "idle" /\ hs'[h].pc = "audit" /\ hs'[h].op = ops'
                   /\ hs'[h].exempt => warProtected(hs'[h].user)
    BY <1>3, <1>4, <1>5, <1>7, <1>8
  <1>11. UNCHANGED <<now, store, runtime, trail, commands, fresh>>
    BY DEF Arrive
  <1> QED BY <1>2, <1>9, <1>10, <1>11

-----------------------------------------------------------------------------
(* Types and the count of the events.                                      *)

LEMMA StepRecord ==
    ASSUME TypeOK, NEW h \in Handlers, Step(h)
    PROVE  /\ war' \in WarState
           /\ quarantine' \in [Users -> Nat] /\ suspects' \subseteq Users
           /\ war' # war => \/ war.auto /\ ~war.enabled /\ hs[h].pc = "activate" /\ war'.enabled
                               /\ fresh' = fresh /\ war'.whitelist = war.whitelist
                            \/ hs[h].pc = "expire" /\ fresh' = 0 /\ ~war'.enabled
                               /\ war'.whitelist = war.whitelist
  <1>1. /\ war \in WarState /\ now \in Nat /\ hs[h] \in Handler
        /\ quarantine \in [Users -> Nat] /\ suspects \subseteq Users
    BY WarAssumption DEF TypeOK
  <1>2. CASE ActivateWarAuto(h)
    <2>1. CASE UNCHANGED war
      BY <1>1, <1>2, <2>1 DEF ActivateWarAuto, runtime
    <2>2. CASE ~UNCHANGED war
      <3> DEFINE e == now + AutoDuration
      <3>1. war' = [war EXCEPT !.enabled = TRUE, !.until = e] /\ war.auto /\ ~war.enabled /\ fresh' = fresh
        BY <1>2, <2>2 DEF ActivateWarAuto
      <3>2. e \in Nat
        BY <1>1, WarAssumption
      <3> HIDE DEF e
      <3>3. war' \in WarState /\ war'.whitelist = war.whitelist
        BY <1>1, <3>1, <3>2 DEF WarState
      <3>4. war'.enabled
        BY <1>1, <3>1 DEF WarState
      <3> QED BY <1>1, <1>2, <3>1, <3>3, <3>4 DEF ActivateWarAuto, runtime
    <2> QED BY <2>1, <2>2
  <1>3. CASE ExpireWar(h)
    <2>1. CASE UNCHANGED war
      BY <1>1, <1>3, <2>1 DEF ExpireWar, runtime
    <2>2. CASE ~UNCHANGED war
      <3>1. war' = [war EXCEPT !.enabled = FALSE, !.locked = FALSE] /\ fresh' = 0
        BY <1>3, <2>2 DEF ExpireWar
      <3>2. war' \in WarState /\ war'.whitelist = war.whitelist
        BY <1>1, <3>1 DEF WarState
      <3>3. ~war'.enabled
        BY <1>1, <3>1 DEF WarState
      <3> QED BY <1>1, <1>3, <3>1, <3>2, <3>3 DEF ExpireWar, runtime
    <2> QED BY <2>1, <2>2
  <1>4. CASE ResetAuto(h) \/ ResetOn(h)
    BY <1>1, <1>4 DEF ResetAuto, ResetOn, resetWarRuntime, store
  <1>5. CASE AddWarRisk(h)
    BY <1>1, <1>5 DEF AddWarRisk, store, Handler
  <1>6. CASE UNCHANGED <<store, runtime>>
    BY <1>1, <1>6 DEF store, runtime
  <1> QED BY <1>2, <1>3, <1>4, <1>5, <1>6
          DEF Step, ObserveAudit, WatchAuto, CountEvents, ReadWar, ReadQuarantine, Decide, Kick

\* The audit as a handler leaves it.
LEMMA StepAudits ==
    ASSUME TypeOK, Counted, NEW h \in Handlers, Step(h)
    PROVE  /\ audit' \in Seq(0 .. MaxTime) /\ Len(audit') <= MaxAudit
           /\ audited' \subseteq 1 .. ops /\ fresh' \in Nat /\ fresh' <= Cardinality(audited')
           /\ UNCHANGED <<audit, fresh>> \/ (UNCHANGED audit /\ fresh' = 0) \/ hs'[h].pc = "watch"
  <1>1. /\ audit \in Seq(0 .. MaxTime) /\ Len(audit) <= MaxAudit /\ hs[h] \in Handler /\ hs[h].at \in 0 .. MaxTime
        /\ fresh \in Nat /\ ops \in Nat /\ MaxAudit \in Nat /\ audited \subseteq 1 .. ops
        /\ fresh <= Cardinality(audited)
    BY WarAssumption DEF TypeOK, Counted, Handler
  <1>2. IsFiniteSet(audited) /\ Cardinality(audited) \in Nat
    <2>1. IsFiniteSet(1 .. ops)
      BY <1>1, FS_Interval
    <2> QED BY <1>1, <2>1, FS_Subset, FS_CardinalityType
  <1>3. CASE ObserveAudit(h)
    <2>1. hs'[h].pc = "watch"
      BY <1>3, GoesOn DEF ObserveAudit, PCs
    <2>2. CASE UNCHANGED <<trail, fresh>>
      BY <1>1, <2>1, <2>2 DEF trail
    <2>3. CASE ~UNCHANGED <<trail, fresh>>
      <3> DEFINE a == Append(audit, hs[h].at)
      <3>1. /\ hs[h].op \notin audited /\ audited' = audited \cup {hs[h].op} /\ fresh' = fresh + 1
            /\ audit' = IF Len(a) > MaxAudit THEN Tail(a) ELSE a
        BY <1>3, <2>3 DEF ObserveAudit
      <3>2. a \in Seq(0 .. MaxTime) /\ Len(a) = Len(audit) + 1 /\ Len(audit) \in Nat
        BY <1>1
      <3> HIDE DEF a
      <3>3. a # <<>>
        BY <3>2
      <3>4. Tail(a) \in Seq(0 .. MaxTime) /\ Len(Tail(a)) = Len(a) - 1
        BY <3>2, <3>3
      <3>5. audit' \in Seq(0 .. MaxTime) /\ Len(audit') <= MaxAudit
        <4>1. CASE Len(a) > MaxAudit
          <5>1. audit' = Tail(a)
            BY <3>1, <4>1
          <5> QED BY <1>1, <3>2, <3>4, <5>1
        <4>2. CASE ~(Len(a) > MaxAudit)
          <5>1. audit' = a
            BY <3>1, <4>2
          <5> QED BY <1>1, <3>2, <4>2, <5>1
        <4> QED BY <4>1, <4>2
      <3>6. Cardinality(audited') = Cardinality(audited) + 1
        BY <1>2, <3>1, FS_AddElement
      <3>7. hs[h].op \in 1 .. ops
        BY <1>3 DEF ObserveAudit, Counted
      <3>8. audited' \subseteq 1 .. ops
        BY <1>1, <3>1, <3>7
      <3>9. fresh' \in Nat /\ fresh' <= Cardinality(audited')
        BY <1>1, <1>2, <3>1, <3>6
      <3> QED BY <2>1, <3>5, <3>8, <3>9
    <2> QED BY <2>2, <2>3
  <1>4. CASE UNCHANGED trail /\ fresh' \in {0, fresh}
    BY <1>1, <1>2, <1>4 DEF trail
  <1> QED BY <1>3, <1>4
          DEF Step, WatchAuto, CountEvents, ActivateWarAuto, ResetAuto, ReadWar, ExpireWar,
              ReadQuarantine, Decide, AddWarRisk, Kick, ResetOn

\* No more events are audited than arrived.
LEMMA FewFresh ==
    ASSUME ops \in 0 .. MaxOps, audited \subseteq 1 .. ops, fresh \in Nat, fresh <= Cardinality(audited)
    PROVE  audited \subseteq 1 .. MaxOps /\ fresh \in 0 .. MaxOps
  <1>1. MaxOps \in Nat /\ ops \in Nat
    BY WarAssumption
  <1>2. IsFiniteSet(1 .. ops) /\ Cardinality(1 .. ops) = ops
    BY <1>1, FS_Interval
  <1>3. Cardinality(audited) \in Nat /\ Cardinality(audited) <= ops
    BY <1>2, FS_Subset, FS_CardinalityType
  <1> QED BY <1>1, <1>3

LEMMA NextTypes ==
    ASSUME TypeOK, Counted, [Next]_vars
    PROVE  TypeOK' /\ Counted'
  <1>1. /\ now \in 0 .. MaxTime /\ fresh \in Nat /\ ops \in 0 .. MaxOps
        /\ audited \subseteq 1 .. ops /\ fresh <= Cardinality(audited)
        /\ audit \in Seq(0 .. MaxTime) /\ Len(audit) <= MaxAudit
        /\ hs \in [Handlers -> Handler] /\ commands \in 0 .. MaxCommands
    BY DEF TypeOK, Counted
  <1>2. CASE UNCHANGED vars
    BY <1>2 DEF vars, store, runtime, trail, TypeOK, Counted
  <1>3. CASE Tick
    <2>1. now' \in 0 .. MaxTime
      BY <1>1, <1>3, WarAssumption DEF Tick
    <2> QED BY <1>3, <2>1 DEF Tick, store, runtime, trail, TypeOK, Counted
  <1>4. ASSUME NEW H \in SUBSET Handlers, NEW kind \in {"join", "attack"}, NEW u \in Users,
               Arrive(H, kind, u)
        PROVE  TypeOK' /\ Counted'
    <2>1. /\ hs' \in [Handlers -> Handler] /\ ops' = ops + 1 /\ ops' \in 0 .. MaxOps
          /\ \A h \in Handlers : hs'[h] = hs[h] \/ hs'[h].op = ops'
          /\ UNCHANGED <<now, war, quarantine, suspects, audit, audited, commands, fresh>>
      BY <1>4, ArriveChanges DEF store, runtime, trail
    <2>2. 1 .. ops \subseteq 1 .. ops' /\ ops' \in 1 .. ops'
      BY <1>1, <2>1
    <2>3. \A h \in Handlers : hs'[h].pc = "audit" => hs'[h].op \in 1 .. ops'
      BY <2>1, <2>2 DEF Counted
    <2> QED BY <2>1, <2>2, <2>3 DEF TypeOK, Counted
  <1>5. CASE Commands
    <2>1. UNCHANGED <<now, audit, audited, ops>> /\ fresh' \in {0, fresh}
      BY <1>5, RecordChanges, CommandChanges DEF trail
    <2>2. fresh' \in Nat /\ fresh' <= Cardinality(audited')
      <3>1. IsFiniteSet(1 .. ops)
        BY <1>1, WarAssumption, FS_Interval
      <3>2. Cardinality(audited) \in Nat
        BY <1>1, <3>1, FS_Subset, FS_CardinalityType
      <3> QED BY <1>1, <2>1, <3>2
    <2>3. audited' \subseteq 1 .. MaxOps /\ fresh' \in 0 .. MaxOps
      BY <1>1, <2>1, <2>2, FewFresh, WarAssumption DEF TypeOK
    <2>4. \A h \in Handlers : hs'[h].pc = "audit" => hs'[h].op \in 1 .. ops'
      BY <1>5, <2>1, CommandChanges DEF Counted
    <2> QED BY <1>1, <1>5, <2>1, <2>2, <2>3, <2>4, RecordChanges, CommandChanges DEF TypeOK, Counted
  <1>6. ASSUME NEW h \in Handlers, Step(h)
        PROVE  TypeOK' /\ Counted'
    <2>1. /\ audit' \in Seq(0 .. MaxTime) /\ Len(audit') <= MaxAudit
          /\ audited' \subseteq 1 .. ops' /\ fresh' \in Nat /\ fresh' <= Cardinality(audited')
          /\ UNCHANGED <<now, ops, commands>>
      BY <1>6, StepAudits, StepChanges
    <2>2. audited' \subseteq 1 .. MaxOps /\ fresh' \in 0 .. MaxOps
      <3>1. ops' \in Nat /\ MaxOps \in Nat /\ ops' <= MaxOps
        BY <1>1, <2>1, WarAssumption
      <3>2. IsFiniteSet(1 .. ops') /\ Cardinality(1 .. ops') = ops'
        BY <3>1, FS_Interval
      <3>3. Cardinality(audited') \in Nat /\ Cardinality(audited') <= ops'
        BY <2>1, <3>2, FS_Subset, FS_CardinalityType
      <3> QED BY <2>1, <3>1, <3>3
    <2>3. \A g \in Handlers : hs'[g].pc = "audit" => hs'[g].op \in 1 .. ops'
      BY <1>6, <2>1, StepChanges DEF Counted
    <2> QED BY <1>1, <1>6, <2>1, <2>2, <2>3, StepChanges, StepRecord DEF TypeOK, Counted
  <1> QED BY <1>2, <1>3, <1>4, <1>5, <1>6 DEF Next

-----------------------------------------------------------------------------
(* Who is exempt.                                                          *)

LEMMA ExemptedNext ==
    ASSUME TypeOK, Exempted, [Next]_vars
    PROVE  Exempted'
  <1>1. CASE UNCHANGED vars \/ Tick
    BY <1>1 DEF vars, Tick, store, Exempted, warProtected
  <1>2. ASSUME NEW H \in SUBSET Handlers, NEW kind \in {"join", "attack"}, NEW u \in Users,
               Arrive(H, kind, u)
        PROVE  Exempted'
    <2>1. /\ UNCHANGED war
          /\ \A h \in Handlers : \/ hs'[h] = hs[h]
                                 \/ /\ hs'[h].pc = "audit"
                                    /\ hs'[h].exempt => warProtected(hs'[h].user)
      BY <1>2, ArriveChanges DEF store
    <2> QED BY <2>1 DEF Exempted, warProtected
  <1>3. CASE Commands
    <2> SUFFICES ASSUME NEW h \in Handlers
                 PROVE  /\ hs'[h].exempt => hs'[h].user \in Guarded \cup war'.whitelist
                        /\ hs'[h].pc \in {"risk", "kick"} => ~hs'[h].exempt
      BY DEF Exempted, warProtected
    <2>1. /\ hs'[h].pc = hs[h].pc \/ hs'[h].pc = "resetOn"
          /\ hs'[h].user = hs[h].user
          /\ hs'[h].exempt => hs[h].exempt /\ (warProtected(hs[h].user) => warProtected(hs[h].user)')
      BY <1>3, CommandChanges
    <2> QED BY <2>1 DEF Exempted, warProtected
  <1>4. ASSUME NEW h \in Handlers, Step(h)
        PROVE  Exempted'
    <2>1. war'.whitelist = war.whitelist
      BY <1>4, StepRecord
    <2>2. /\ \A g \in Handlers \ {h} : hs'[g] = hs[g]
          /\ hs'[h].exempt => hs[h].exempt /\ hs'[h].user = hs[h].user
          /\ hs'[h].pc \in {"risk", "kick"} =>
               hs[h].pc = "risk" \/ (hs[h].pc = "protected" /\ ~warProtected(hs[h].user))
      BY <1>4, StepChanges
    <2> SUFFICES ASSUME NEW g \in Handlers
                 PROVE  /\ hs'[g].exempt => hs'[g].user \in Guarded \cup war'.whitelist
                        /\ hs'[g].pc \in {"risk", "kick"} => ~hs'[g].exempt
      BY DEF Exempted, warProtected
    <2>3. CASE g = h
      BY <2>1, <2>2, <2>3 DEF Exempted, warProtected
    <2>4. CASE g # h
      BY <2>1, <2>2, <2>4 DEF Exempted, warProtected
    <2> QED BY <2>3, <2>4
  <1> QED BY <1>1, <1>2, <1>3, <1>4 DEF Next

-----------------------------------------------------------------------------
(* That somebody attends to an attack.                                     *)

\* Events that are counted are counted again in a larger part of the audit.
LEMMA MoreEvents ==
    ASSUME TypeOK, NEW S, NEW T, S \subseteq T, T \subseteq DOMAIN audit
    PROVE  EventsIn(S) \in Nat /\ EventsIn(T) \in Nat /\ EventsIn(S) <= EventsIn(T)
  <1>1. DOMAIN audit = 1 .. Len(audit) /\ Len(audit) \in Nat
    BY DEF TypeOK
  <1>2. IsFiniteSet(DOMAIN audit)
    BY <1>1, FS_Interval
  <1>3. IsFiniteSet({i \in T : Recent(i)})
    BY <1>2, FS_Subset
  <1>4. {i \in S : Recent(i)} \subseteq {i \in T : Recent(i)}
    OBVIOUS
  <1> QED BY <1>3, <1>4, FS_Subset, FS_CardinalityType DEF EventsIn

\* No event is fresh after a command that matters.
LEMMA NoneFresh ==
    ASSUME TypeOK
    PROVE  EventsIn(Latest(0)) = 0 /\ \A s \in Sensitivities : EventsIn(Latest(0)) < Threshold[s]
  <1>1. Latest(0) = {}
    BY DEF TypeOK, Latest
  <1>2. {i \in Latest(0) : Recent(i)} = {}
    BY <1>1
  <1>3. EventsIn(Latest(0)) = 0
    BY <1>2, FS_EmptySet DEF EventsIn
  <1> QED BY <1>3, WarAssumption

\* What a handler that is attentive does: it stays so, or war begins, or there is
\* nothing it has to see.
LEMMA AttentiveGoesOn ==
    ASSUME TypeOK, NEW h \in Handlers, Step(h), Attentive(h), UNCHANGED <<audit, fresh>>,
           war.auto, EventsIn(Latest(fresh)) >= Threshold[war.sensitivity]
    PROVE  Attentive(h)' \/ war'.enabled \/ war.enabled
  <1>1. war \in WarState /\ hs[h] \in Handler /\ Threshold[war.sensitivity] \in Nat
    BY WarAssumption DEF TypeOK, WarState
  <1>2. CASE WatchAuto(h)
    <2>1. CASE war.enabled
      BY <2>1
    <2>2. CASE ~war.enabled
      <3>1. hs' = [hs EXCEPT ![h].w = war, ![h].pc = "count"] /\ hs \in [Handlers -> Handler]
            /\ war' = war
        BY <1>2, <2>2 DEF WatchAuto, TypeOK, store
      <3>2. hs'[h] = [hs[h] EXCEPT !.w = war, !.pc = "count"]
        BY <3>1
      <3>3. hs'[h].pc = "count" /\ hs'[h].w = war
        BY <1>1, <3>2 DEF Handler
      <3> QED BY <3>1, <3>3 DEF Attentive
    <2> QED BY <2>1, <2>2
  <1>3. CASE CountEvents(h)
    <2>1. hs[h].w.sensitivity = war.sensitivity
      BY <1>3 DEF Attentive, CountEvents
    <2>2. Latest(fresh) \subseteq DOMAIN audit
      BY DEF Latest
    <2>3. /\ EventsIn(Latest(fresh)) \in Nat /\ EventsIn(DOMAIN audit) \in Nat
          /\ EventsIn(Latest(fresh)) <= EventsIn(DOMAIN audit)
      BY <2>2, MoreEvents
    <2>4. EventsIn(DOMAIN audit) >= Threshold[hs[h].w.sensitivity]
      BY <1>1, <2>1, <2>3
    <2>5. Goto(h, "activate")
      BY <1>3, <2>4 DEF CountEvents
    <2>6. hs'[h].pc = "activate"
      BY <2>5, GoesOn DEF PCs
    <2> QED BY <2>6 DEF Attentive
  <1>4. CASE ActivateWarAuto(h)
    <2>1. CASE war.enabled
      BY <2>1
    <2>2. CASE ~war.enabled
      <3>1. war' # war \/ war'.enabled
        <4> DEFINE e == now + AutoDuration
        <4>1. war' = [war EXCEPT !.enabled = TRUE, !.until = e]
          BY <1>4, <2>2 DEF ActivateWarAuto
        <4> HIDE DEF e
        <4>2. war'.enabled
          BY <1>1, <4>1 DEF WarState
        <4> QED BY <4>2
      <3> QED BY <1>4, <2>2, <3>1, StepRecord DEF ActivateWarAuto
    <2> QED BY <2>1, <2>2
  <1> QED BY <1>2, <1>3, <1>4
          DEF Attentive, Step, ObserveAudit, ResetAuto, ReadWar, ExpireWar, ReadQuarantine, Decide,
              AddWarRisk, Kick, ResetOn

LEMMA AttendedNext ==
    ASSUME TypeOK, Attended, [Next]_vars
    PROVE  Attended'
  <1> SUFFICES ASSUME war'.auto, ~war'.enabled,
                      EventsIn(Latest(fresh))' >= Threshold[war'.sensitivity]
               PROVE  \E h \in Handlers : Attentive(h)'
    BY DEF Attended
  <1>1. /\ war \in WarState /\ war.sensitivity \in Sensitivities /\ now \in Nat /\ Window \in Nat
        /\ audit \in Seq(0 .. MaxTime) /\ Threshold \in [Sensitivities -> Nat]
    BY WarAssumption DEF TypeOK, WarState
  <1>2. CASE UNCHANGED vars
    <2>1. Attended'
      BY <1>2 DEF Attended, vars, store, trail, EventsIn, Latest, Recent, Attentive
    <2> QED BY <2>1 DEF Attended
  <1>3. CASE Tick
    <2>1. now' = now + 1 /\ UNCHANGED <<war, audit, fresh, hs>>
      BY <1>3 DEF Tick, store, trail
    <2>2. EventsIn(Latest(fresh))' <= EventsIn(Latest(fresh))
      <3> DEFINE S == {i \in Latest(fresh) : Recent(i)}
                 T == {i \in Latest(fresh)' : Recent(i)'}
      <3>1. Latest(fresh)' = Latest(fresh) /\ Latest(fresh) \subseteq 1 .. Len(audit)
        BY <1>1, <2>1 DEF Latest
      <3>2. \A i \in 1 .. Len(audit) : audit[i] \in Nat
        <4>1. 0 .. MaxTime \subseteq Nat
          BY WarAssumption
        <4>2. \A i \in 1 .. Len(audit) : audit[i] \in 0 .. MaxTime
          BY <1>1, ElementOfSeq
        <4> QED BY <4>1, <4>2
      <3>3. T \subseteq S
        BY <1>1, <2>1, <3>1, <3>2 DEF Recent
      <3>4. IsFiniteSet(1 .. Len(audit))
        BY <1>1, FS_Interval
      <3>5. IsFiniteSet(S)
        BY <3>1, <3>4, FS_Subset
      <3>6. Cardinality(T) <= Cardinality(S)
        BY <3>3, <3>5, FS_Subset
      <3> QED BY <3>6 DEF EventsIn
    <2>3. Latest(fresh) \subseteq DOMAIN audit /\ Latest(fresh)' \subseteq DOMAIN audit'
      BY DEF Latest
    <2>4. EventsIn(Latest(fresh)) \in Nat
      BY <2>3, MoreEvents
    <2>5. EventsIn(Latest(fresh)) >= Threshold[war.sensitivity]
      <3>1. EventsIn(Latest(fresh))' \in Nat
        <4> DEFINE T == {i \in Latest(fresh)' : Recent(i)'}
        <4>1. IsFiniteSet(1 .. Len(audit))
          BY <1>1, FS_Interval
        <4>2. T \subseteq 1 .. Len(audit)
          BY <1>1, <2>1 DEF Latest
        <4>3. Cardinality(T) \in Nat
          BY <4>1, <4>2, FS_Subset, FS_CardinalityType
        <4> QED BY <4>3 DEF EventsIn
      <3> QED BY <1>1, <2>1, <2>2, <2>4, <3>1
    <2>6. \E h \in Handlers : Attentive(h)
      BY <2>1, <2>5 DEF Attended
    <2> QED BY <2>1, <2>6 DEF Attentive
  <1>4. ASSUME NEW H \in SUBSET Handlers, NEW kind \in {"join", "attack"}, NEW u \in Users,
               Arrive(H, kind, u)
        PROVE  \E h \in Handlers : Attentive(h)'
    <2>1. /\ UNCHANGED <<now, war, audit, fresh>>
          /\ \A h \in Handlers : hs'[h] = hs[h] \/ hs[h].pc = "idle"
      BY <1>4, ArriveChanges DEF store, trail
    <2>2. PICK h \in Handlers : Attentive(h)
      BY <2>1 DEF Attended, EventsIn, Latest, Recent
    <2>3. Attentive(h)'
      BY <2>1, <2>2 DEF Attentive
    <2> QED BY <2>3
  <1>5. CASE Commands
    <2>1. /\ UNCHANGED <<now, audit>>
          /\ \A h \in Handlers : /\ hs'[h].pc = hs[h].pc \/ hs[h].pc = "idle"
                                 /\ hs'[h].w = hs[h].w
      BY <1>5, CommandChanges DEF trail
    <2>2. /\ war' \in WarState
          /\ \/ fresh' = 0
             \/ fresh' = fresh /\ war'.auto = war.auto /\ war'.enabled = war.enabled
                               /\ war'.sensitivity = war.sensitivity
      BY <1>5, RecordChanges
    <2>3. fresh' # 0
      <3> SUFFICES ASSUME fresh' = 0
                   PROVE  FALSE
        OBVIOUS
      <3>1. EventsIn(Latest(fresh))' = EventsIn(Latest(0))
        BY <2>1 DEF EventsIn, Latest, Recent
      <3>2. war'.sensitivity \in Sensitivities
        BY <2>2 DEF WarState
      <3> QED BY <1>1, <3>1, <3>2, NoneFresh
    <2>4. EventsIn(Latest(fresh))' = EventsIn(Latest(fresh))
      BY <2>1, <2>2, <2>3 DEF EventsIn, Latest, Recent
    <2>5. PICK h \in Handlers : Attentive(h)
      BY <2>2, <2>3, <2>4 DEF Attended
    <2>6. Attentive(h)'
      BY <2>1, <2>2, <2>3, <2>5 DEF Attentive
    <2> QED BY <2>6
  <1>6. ASSUME NEW h \in Handlers, Step(h)
        PROVE  \E g \in Handlers : Attentive(g)'
    <2>1. UNCHANGED now /\ \A g \in Handlers \ {h} : hs'[g] = hs[g]
      BY <1>6, StepChanges
    <2>2. /\ war' \in WarState
          /\ war' # war => (war.auto /\ ~war.enabled /\ war'.enabled) \/ (~war'.enabled /\ fresh' = 0)
      BY <1>6, StepRecord
    <2>3. CASE ObserveAudit(h)
      <3>1. hs'[h].pc = "watch"
        BY <2>3, GoesOn DEF ObserveAudit, PCs
      <3> QED BY <3>1 DEF Attentive
    <2>4. CASE ~ObserveAudit(h)
      <3>1. UNCHANGED audit /\ fresh' \in {0, fresh} /\ (war' # war /\ ~war'.enabled => fresh' = 0)
        BY <1>6, <2>2, <2>4
           DEF Step, WatchAuto, CountEvents, ActivateWarAuto, ResetAuto, ReadWar, ExpireWar,
               ReadQuarantine, Decide, AddWarRisk, Kick, ResetOn, trail
      <3>2. fresh' # 0
        <4> SUFFICES ASSUME fresh' = 0
                     PROVE  FALSE
          OBVIOUS
        <4>1. EventsIn(Latest(fresh))' = EventsIn(Latest(0))
          BY <2>1, <3>1 DEF EventsIn, Latest, Recent
        <4>2. war'.sensitivity \in Sensitivities
          BY <2>2 DEF WarState
        <4> QED BY <1>1, <4>1, <4>2, NoneFresh
      <3>3. UNCHANGED <<war, fresh>>
        BY <2>2, <3>1, <3>2
      <3>4. EventsIn(Latest(fresh))' = EventsIn(Latest(fresh))
        BY <2>1, <3>1, <3>3 DEF EventsIn, Latest, Recent
      <3>5. PICK g \in Handlers : Attentive(g)
        BY <3>3, <3>4 DEF Attended
      <3>6. CASE g = h
        BY <1>6, <3>1, <3>3, <3>4, <3>5, <3>6, AttentiveGoesOn
      <3>7. CASE g # h
        BY <2>1, <3>3, <3>5, <3>7 DEF Attentive
      <3> QED BY <3>6, <3>7
    <2> QED BY <2>3, <2>4
  <1> QED BY <1>2, <1>3, <1>4, <1>5, <1>6 DEF Next

-----------------------------------------------------------------------------
(* The theorems.                                                           *)

LEMMA InitInvariant == Init => IInv
  <1> SUFFICES ASSUME Init
               PROVE  IInv
    OBVIOUS
  <1>1. TypeOK
    <2>1. audit \in Seq(0 .. MaxTime) /\ Len(audit) <= MaxAudit
      BY WarAssumption DEF Init
    <2>2. /\ now \in 0 .. MaxTime /\ ops \in 0 .. MaxOps /\ commands \in 0 .. MaxCommands
          /\ fresh \in 0 .. MaxOps
      BY WarAssumption DEF Init
    <2> QED BY <2>1, <2>2, Idle, WarAssumption DEF Init, TypeOK
  <1>2. Counted
    BY FS_EmptySet, Idle DEF Init, Counted
  <1>3. Exempted
    BY Idle DEF Init, Exempted
  <1>4. Attended
    <2>1. fresh = 0 /\ war.sensitivity \in Sensitivities
      BY <1>1 DEF Init, TypeOK, WarState
    <2>2. EventsIn(Latest(fresh)) = 0 /\ Threshold[war.sensitivity] \in Nat \ {0}
      BY <1>1, <2>1, NoneFresh, WarAssumption
    <2> QED BY <2>2 DEF Attended
  <1> QED BY <1>1, <1>2, <1>3, <1>4 DEF IInv

\* Events are audited once each, a handler on its way to remove somebody has seen
\* that the user is not exempt, and whenever there are enough events for a war
\* that has not begun, some handler is on its way to begin it.
THEOREM Invariant == Spec => []IInv
  <1>1. IInv /\ [Next]_vars => IInv'
    BY NextTypes, ExemptedNext, AttendedNext DEF IInv
  <1> QED BY InitInvariant, <1>1, PTL DEF Spec

\* The record, the runtime, the audit and the handlers are what the code's types
\* admit, and the audit keeps no more events than its limit.
THEOREM TypeCorrect == Spec => []TypeOK
  <1>1. IInv => TypeOK
    BY DEF IInv
  <1> QED BY Invariant, <1>1, PTL

\* A burst of events is never overlooked because several bots handled its
\* operations at the same time (observeWarAuto): when all of them are done, war
\* mode is on.
THEOREM AttacksAreDetected == Spec => []AttackDetected
  <1>1. IInv => AttackDetected
    BY DEF IInv, Attended, AttackDetected, Quiet, Attentive
  <1> QED BY Invariant, <1>1, PTL

\* No bot removes a user who was exempt when the join came in and still is
\* (warJoinAction, warProtected), whatever commands change the record meanwhile.
THEOREM ExemptAreNotRemoved == Spec => ExemptNeverRemoved
  <1>1. IInv => \A h \in Handlers : Kick(h) => ~hs[h].exempt
    BY DEF IInv, Exempted, Kick
  <1> QED BY Invariant, <1>1, PTL DEF ExemptNeverRemoved

\* The automatic mode begins a war only where automatic mode is on and there is
\* none, and moves the end of none (activateWarAuto looks again under the lock).
THEOREM ActivationIsFresh == Spec => AutoActivationIsFresh
  <1> DEFINE A == war'.enabled /\ (~war.enabled \/ war'.until # war.until) =>
                    (war.auto /\ ~war.enabled) \/ \E h \in Handlers, d \in Durations : WarOn(h, d)
  <1>1. TypeOK /\ [Next]_vars => [A]_vars
    <2> SUFFICES ASSUME TypeOK, [Next]_vars
                 PROVE  A
      OBVIOUS
    <2>1. CASE UNCHANGED war
      BY <2>1
    <2>2. CASE Commands
      BY <2>2, RecordChanges
    <2>3. ASSUME NEW h \in Handlers, Step(h)
          PROVE  A
      BY <2>3, StepRecord
    <2> QED BY <2>1, <2>2, <2>3 DEF Next, Tick, Arrive, store, vars
  <1> QED BY TypeCorrect, <1>1, PTL DEF Spec, AutoActivationIsFresh
==============================================================================
