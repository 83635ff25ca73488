-------------------------- MODULE GuardEventsProofs --------------------------
(***************************************************************************)
(* The theorems of GuardEvents, for any number of bots, users and          *)
(* operations.                                                             *)
(*                                                                         *)
(* A debt is carried by the handlers: until it is paid, some task is on    *)
(* its way to pay it, or one of the named causes has occurred. The same    *)
(* holds for a user of the blacklist who is in the room. That one bot and  *)
(* no other reacts follows from the keys in seen: as long as a handler of  *)
(* an operation has not looked, the key of the one that reacted is there.  *)
(***************************************************************************)
EXTENDS GuardEvents, TLAPS

\* What is true of a task by its step.
TaskOK(t) ==
    /\ t.op.id <= sent
    /\ t.pc = "start" => t = NewTask(t.op, t.bot)
    /\ t.pc \in {"defend", "strike", "struck"} <=> BotKicked(t.op) /\ t.pc # "start"
    /\ t.pc = "sweep" <=> t.op.type = "join" /\ t.pc # "start"
    /\ t.pc \in {"defend", "strike", "struck"} => t.bot # t.op.target
    /\ t.pc \in {"cancel", "close", "eject", "retry", "ejected", "reinvite"} => t.by \in Bots
    /\ t.pc \in {"cancel", "close"} => t.next \in {"end", "eject"}
    /\ t.pc = "close" => t.next = "eject"
    /\ t.pc \in {"eject", "retry", "ejected"} => t.next \in {"end", "reinvite"}
    /\ t.next = "mark" => t.pc = "struck"
    /\ t.op.type \in {"invite", "cancel", "kick"} => t.op.target \in Mids
    /\ t.pc = "cancel" => t.op.type = "invite"
    /\ t.pc = "close" => t.op.type = "qr"
    /\ "reinvite" \in {t.pc, t.next} => t.op.type = "kick"
    /\ t.next = "reinvite" => t.pc \in {"eject", "retry", "ejected"}

\* Operations are told apart by their number; a bot that was removed or not yet
\* in the room does not handle the operation that says so.
OpsOK ==
    /\ \A t, u \in tasks : t.op.id = u.op.id => t.op = u.op
    /\ \A t \in tasks : t.op.type \in {"kick", "cancel"} => t.op.target \notin inRoom \cap Bots
    /\ \A t \in tasks : t.op.type = "cancel" => t.op.target # t.bot

\* The view of the room holds every bot in it; Admins and above are not on the
\* blacklist.
RoomOK ==
    /\ inRoom \cap invitees = {}
    /\ inRoom \cap Bots \subseteq member
    /\ \A m \in blacklist : roles[m] < RoleAdmin

\* seen and defended speak of operations that happened; a handler that defends a
\* bot has the key of its own.
SeenOK ==
    /\ \A entry \in seen : entry[2] \in 1..sent
    /\ \A id \in defended : id <= sent
    /\ \A t \in tasks : t.pc = "start" /\ BotKicked(t.op) => <<DedupeKey(t), t.op.id>> \notin seen

Basics == TypeOK /\ (\A t \in tasks : TaskOK(t)) /\ OpsOK /\ RoomOK /\ SeenOK

\* Once a bot has reacted, the key of the operation keeps the others from it.
Reacted ==
    /\ \A r \in reacted : r[1] \in 1..sent
    /\ "late" \notin causes =>
         \A r \in reacted : \A t \in tasks :
            t.op.id = r[1] /\ t.pc = "start" => Known(DedupeKey(t))

\* The handler is going to remove the user, not for a bot that was removed.
Aims(t) ==
    \/ t.pc \in {"eject", "retry", "sweep"}
    \/ t.pc \in {"cancel", "close"} /\ t.next = "eject"

\* The user of the operation may be removed for it.
Removable(op) ==
    \/ Role(op.actor) = RoleUser
    \/ Role(op.actor) = RoleGAdmin /\ op.type = "invite" /\ IsBot(op.target)
    \/ Role(op.actor) = RoleGAdmin /\ op.type = "join" /\ op.actor \in blacklist

Exempt == \A t \in tasks : Aims(t) => Removable(t.op)

\* The first handler of an operation has yet to look.
Waiting(t) == t.pc = "start" /\ <<DedupeKey(t), t.op.id>> \notin seen

\* The handler is on its way to remove the user of its operation.
Pursues(t) ==
    \/ t.pc \in {"eject", "retry"}
    \/ BotKicked(t.op) /\ t \in Defenders(t.op)

\* The handler is on its way to pay the debt.
Carries(t, d) ==
    \/ d = Removal(t.op.actor) /\ (Pursues(t) \/ (t.pc \in {"cancel", "close"} /\ t.next = "eject"))
    \/ d = Cancellation(t.op.target) /\ t.pc = "cancel"
    \/ d = Closing /\ t.pc = "close"
    \/ d = Reinvitation(t.op.target) /\ "reinvite" \in {t.pc, t.next}
    \/ d \in Debt(t.op) /\ Waiting(t) /\ ~BotKicked(t.op)

\* A debt still stands, and some handler carries it.
Owed ==
    /\ owed = Standing(owed, inRoom, invitees, qrOpen)
    /\ "nobody" \notin causes /\ tasks # {} => inRoom \cap Bots # {}
    /\ "accepted" \notin causes => \A m \in inRoom : Cancellation(m) \notin owed
    /\ causes \subseteq {"late", "returned"} => \A d \in owed : \E t \in tasks : Carries(t, d)

\* The handler is on its way to remove the user, who is on the blacklist.
Ousts(t, m) ==
    /\ t.op.actor = m
    /\ Pursues(t) \/ t.pc = "sweep" \/ (t.op.type = "join" /\ Waiting(t))

Ousted ==
    causes \subseteq {"late", "accepted", "settings"} =>
        \A m \in blacklist \cap inRoom : \E t \in tasks : Ousts(t, m)

IInv == Basics /\ Reacted /\ OneReaction /\ Exempt /\ Owed /\ Ousted

-----------------------------------------------------------------------------
(* A step of a handler.                                                    *)

\* The handler ends or goes on with the operation; it does not begin anew.
Advances(t) ==
    \/ tasks' = tasks \ {t}
    \/ \E u \in Tasks : /\ u.op = t.op /\ u.bot = t.bot /\ u.pc # "start"
                        /\ TaskOK(u)
                        /\ tasks' = (tasks \ {t}) \cup {u}

\* A ranking leaves somebody unless there was nobody.
LEMMA RankedIsSome ==
    ASSUME NEW S, NEW cool
    PROVE  /\ Ranked(S, cool) \subseteq S
           /\ S # {} => Ranked(S, cool) # {}
  BY DEF Ranked

\* The protector is a bot, unless the handler itself was removed and the view
\* holds no other bot.
LEMMA ProtectorsAreBots ==
    ASSUME NEW view, view \subseteq Bots, NEW excluded, NEW fallback \in Bots
    PROVE  /\ Protectors(view, excluded, fallback) \subseteq Bots \cup {Nobody}
           /\ fallback # excluded => Protectors(view, excluded, fallback) \subseteq Bots
  BY RankedIsSome DEF Protectors

\* A handler that proceeds.
LEMMA ProceedAdvances ==
    ASSUME NEW t \in tasks, tasks \subseteq Tasks, TaskOK(t), t.pc = "start", EventsAssumption,
           NEW p \in Bots \cup {Nobody}, NEW pc \in {"cancel", "close", "eject", "reinvite"},
           NEW next \in {"end", "eject", "reinvite"},
           pc = "cancel" => next \in {"end", "eject"},
           pc = "close" => next = "eject",
           pc = "eject" => next \in {"end", "reinvite"},
           ~BotKicked(t.op), t.op.type # "join",
           pc = "cancel" => t.op.type = "invite",
           pc = "close" => t.op.type = "qr",
           "reinvite" \in {pc, next} => t.op.type = "kick",
           next = "reinvite" => pc = "eject",
           Proceed(t, p, pc, next)
    PROVE  Advances(t)
  <1>1. CASE p = Nobody
    BY <1>1 DEF Proceed, Nothing, End, Advances
  <1>2. CASE p # Nobody
    <2> DEFINE u == [t EXCEPT !.pc = pc, !.by = p, !.next = next]
    <2>1. tasks' = (tasks \ {t}) \cup {u}
      BY <1>2 DEF Proceed, Become
    <2>2. p \in Bots
      BY <1>2
    <2>3. t = NewTask(t.op, t.bot) /\ t \in Tasks
      BY DEF TaskOK
    <2>4. /\ u.op = t.op /\ u.bot = t.bot /\ u.pc = pc /\ u.by = p /\ u.next = next
          /\ u \in Tasks
      BY <2>2, <2>3 DEF Tasks, PCs
    <2>5. TaskOK(u)
      BY <2>2, <2>4 DEF TaskOK
    <2> QED BY <2>1, <2>4, <2>5 DEF Advances
  <1> QED BY <1>1, <1>2

\* What a handler decides by the kind of its operation.
LEMMA TakenDecides ==
    ASSUME NEW t, Taken(t)
    PROVE  /\ t.op.type = "invite" => DecideInvite(t)
           /\ t.op.type = "cancel" => DecideCancel(t, Observed(t.op))
           /\ t.op.type = "qr" => DecideQR(t)
           /\ BotKicked(t.op) => DecideDefense(t, Observed(t.op))
           /\ t.op.type = "kick" /\ ~BotKicked(t.op) => DecideKick(t)
           /\ t.op.type = "join" => Become(t, [t EXCEPT !.pc = "sweep"]) /\ UNCHANGED reacted
  <1>1. CASE t.op.type = "invite"
    BY <1>1 DEF Taken, BotKicked
  <1>2. CASE t.op.type = "cancel"
    BY <1>2 DEF Taken, BotKicked
  <1>3. CASE t.op.type = "qr"
    BY <1>3 DEF Taken, BotKicked
  <1>4. CASE BotKicked(t.op)
    BY <1>4 DEF Taken, BotKicked
  <1>5. CASE t.op.type = "kick" /\ ~BotKicked(t.op)
    BY <1>5 DEF Taken
  <1>6. CASE t.op.type = "join"
    BY <1>6 DEF Taken, BotKicked
  <1> QED BY <1>1, <1>2, <1>3, <1>4, <1>5, <1>6 DEF BotKicked

\* The beginning of a handler advances it.
LEMMA BeginAdvances ==
    ASSUME TypeOK, EventsAssumption, NEW t \in tasks, TaskOK(t), Begin(t)
    PROVE  Advances(t)
  <1>1. /\ t \in Tasks /\ t.pc = "start" /\ t = NewTask(t.op, t.bot)
        /\ t.bot \in Bots /\ t.op \in Ops /\ tasks \subseteq Tasks
        /\ member \subseteq Bots /\ Observed(t.op) \subseteq Bots
    BY DEF Begin, TaskOK, TypeOK, Tasks, Observed
  <1>2. ASSUME NEW u, u = [t EXCEPT !.pc = u.pc], u.pc \in {"defend", "sweep"},
               u.pc = "defend" => BotKicked(t.op) /\ t.bot # t.op.target,
               u.pc = "sweep" => t.op.type = "join",
               tasks' = (tasks \ {t}) \cup {u}
        PROVE  Advances(t)
    <2>1. /\ u \in Tasks /\ u.op = t.op /\ u.bot = t.bot /\ u.next = "end"
          /\ u.pc # "start"
      BY <1>1, <1>2 DEF Tasks, PCs, NewTask
    <2>2. TaskOK(u)
      BY <1>2, <2>1 DEF TaskOK, BotKicked
    <2> QED BY <1>2, <2>1, <2>2 DEF Advances
  <1>3. CASE tasks' = tasks \ {t}
    BY <1>3 DEF Advances
  <1>4. CASE Dropped(t)
    <2>1. CASE t.op.type = "join" /\ tasks' # tasks \ {t}
      BY <1>4, <2>1, <1>1, <1>2 DEF Dropped, AfterJoin, Become, End, NewTask
    <2>2. CASE t.op.type # "join"
      BY <1>4, <2>2 DEF Dropped, Nothing, End, Advances
    <2> QED BY <1>3, <2>1, <2>2
  <1>5. CASE Taken(t)
    <2>1. CASE t.op.type = "invite"
      <3>1. PICK p \in Protectors(member, Nobody, t.bot) :
               \/ tasks' = tasks \ {t}
               \/ \E next \in {"end", "eject"} : Proceed(t, p, "cancel", next)
        BY <1>5, <2>1, TakenDecides DEF DecideInvite, Nothing, End
      <3>2. p \in Bots \cup {Nobody}
        BY <1>1, ProtectorsAreBots
      <3> QED BY <1>1, <1>3, <2>1, <3>1, <3>2, ProceedAdvances DEF BotKicked
    <2>2. CASE t.op.type = "cancel"
      <3>1. PICK p \in Protectors(Observed(t.op), t.op.target, t.bot) :
               tasks' = tasks \ {t} \/ Proceed(t, p, "eject", "end")
        BY <1>5, <2>2, TakenDecides DEF DecideCancel, Nothing, End
      <3>2. p \in Bots \cup {Nobody}
        BY <1>1, ProtectorsAreBots
      <3> QED BY <1>1, <1>3, <2>2, <3>1, <3>2, ProceedAdvances DEF BotKicked
    <2>3. CASE t.op.type = "qr"
      <3>1. PICK p \in Protectors(member, Nobody, t.bot) :
               tasks' = tasks \ {t} \/ Proceed(t, p, "close", "eject")
        BY <1>5, <2>3, TakenDecides DEF DecideQR, Nothing, End
      <3>2. p \in Bots \cup {Nobody}
        BY <1>1, ProtectorsAreBots
      <3> QED BY <1>1, <1>3, <2>3, <3>1, <3>2, ProceedAdvances DEF BotKicked
    <2>4. CASE BotKicked(t.op)
      <3>1. DecideDefense(t, Observed(t.op))
        BY <1>5, <2>4, TakenDecides
      <3> QED BY <1>1, <1>2, <1>3, <2>4, <3>1 DEF DecideDefense, Become, End, NewTask
    <2>5. CASE t.op.type = "kick" /\ ~BotKicked(t.op)
      <3>1. DecideKick(t)
        BY <1>5, <2>5, TakenDecides
      <3>2. PICK p \in Protectors(member, t.op.target, t.bot) :
               \/ tasks' = tasks \ {t}
               \/ \E next \in {"end", "reinvite"} : Proceed(t, p, "eject", next)
               \/ Proceed(t, p, "reinvite", "end")
        BY <3>1 DEF DecideKick, Nothing, End
      <3>3. p \in Bots \cup {Nobody}
        BY <1>1, ProtectorsAreBots
      <3> QED BY <1>1, <1>3, <2>5, <3>2, <3>3, ProceedAdvances
    <2>6. CASE t.op.type = "join"
      <3>1. tasks' = (tasks \ {t}) \cup {[t EXCEPT !.pc = "sweep"]}
        BY <1>5, <2>6, TakenDecides DEF Become
      <3> QED BY <1>1, <1>2, <2>6, <3>1 DEF NewTask
    <2> QED BY <1>1, <2>1, <2>2, <2>3, <2>4, <2>5, <2>6 DEF Tasks, Ops, OpTypes
  <1> QED BY <1>4, <1>5 DEF Begin

\* So does every other step of a handler.
LEMMA StepAdvances ==
    ASSUME TypeOK, EventsAssumption, NEW t \in tasks, TaskOK(t), Step(t)
    PROVE  Advances(t)
  <1>1. t \in Tasks /\ tasks \subseteq Tasks
    BY DEF TypeOK
  <1>2. CASE tasks' = tasks \ {t}
    BY <1>2 DEF Advances
  <1>3. CASE Eject(t)
    <2>1. \/ tasks' = (tasks \ {t}) \cup {[t EXCEPT !.pc = "ejected"]}
          \/ LET others == Alternatives(t.by, member', cooling')
             IN  tasks' = (tasks \ {t})
                   \cup {[t EXCEPT !.pc = IF others = {} THEN "ejected" ELSE "retry", !.left = others]}
      BY <1>3 DEF Eject, Become
    <2>2. member' \subseteq Bots
      BY <1>1, <1>3 DEF Eject, Confirm, TypeOK, TaskOK
    <2>3. Alternatives(t.by, member', cooling') \subseteq Bots
      BY <2>2, RankedIsSome DEF Alternatives
    <2>4. PICK pc \in {"ejected", "retry"}, left \in SUBSET Bots :
             tasks' = (tasks \ {t}) \cup {[t EXCEPT !.pc = pc, !.left = left]}
      <3>1. CASE tasks' = (tasks \ {t}) \cup {[t EXCEPT !.pc = "ejected"]}
        <4>1. [t EXCEPT !.pc = "ejected"] = [t EXCEPT !.pc = "ejected", !.left = t.left]
              /\ t.left \in SUBSET Bots
          BY <1>1 DEF Tasks
        <4> QED BY <3>1, <4>1
      <3> QED BY <2>1, <2>3, <3>1
    <2> DEFINE u == [t EXCEPT !.pc = pc, !.left = left]
    <2>5. /\ u \in Tasks /\ u.op = t.op /\ u.bot = t.bot /\ u.by = t.by /\ u.pc = pc
          /\ u.next = t.next
      BY <1>1 DEF Tasks, PCs
    <2>6. TaskOK(u)
      BY <1>3, <2>5 DEF TaskOK, Eject
    <2> QED BY <2>4, <2>5, <2>6 DEF Advances
  <1>4. ASSUME NEW p \in Bots, Retry(t, p) PROVE Advances(t)
    <2>1. PICK pc \in {"ejected", "retry"}, left \in SUBSET Bots :
             tasks' = (tasks \ {t}) \cup {[t EXCEPT !.pc = pc, !.left = left]}
      <3>1. t.left \in SUBSET Bots /\ {} \in SUBSET Bots /\ t.left \ {p} \in SUBSET Bots
        BY <1>1 DEF Tasks
      <3>2. \/ tasks' = (tasks \ {t}) \cup {[t EXCEPT !.pc = "ejected", !.left = {}]}
            \/ tasks' = (tasks \ {t}) \cup
                 {[t EXCEPT !.pc = IF t.left = {p} THEN "ejected" ELSE "retry", !.left = t.left \ {p}]}
        BY <1>4 DEF Retry, Become
      <3> QED BY <3>1, <3>2
    <2> DEFINE u == [t EXCEPT !.pc = pc, !.left = left]
    <2>2. /\ u \in Tasks /\ u.op = t.op /\ u.bot = t.bot /\ u.by = t.by /\ u.pc = pc
          /\ u.next = t.next
      BY <1>1 DEF Tasks, PCs
    <2>3. TaskOK(u)
      BY <1>4, <2>2 DEF TaskOK, Retry
    <2> QED BY <2>1, <2>2, <2>3 DEF Advances
  <1>5. CASE AutoBlacklist(t)
    <2> DEFINE u == [t EXCEPT !.saved = TRUE]
    <2>1. /\ u \in Tasks /\ u.op = t.op /\ u.bot = t.bot /\ u.by = t.by /\ u.pc = t.pc
          /\ u.next = t.next
      BY <1>1 DEF Tasks
    <2>2. TaskOK(u) /\ u.pc # "start"
      BY <1>5, <2>1 DEF TaskOK, AutoBlacklist
    <2>3. tasks' = (tasks \ {t}) \cup {u}
      BY <1>5 DEF AutoBlacklist, Become
    <2> QED BY <2>1, <2>2, <2>3 DEF Advances
  <1>6. ASSUME NEW pc \in {"eject", "reinvite"},
               tasks' = (tasks \ {t}) \cup {[t EXCEPT !.pc = pc, !.next = "end"]},
               t.pc \in {"ejected", "cancel", "close"}, pc = "reinvite" => t.next = "reinvite"
        PROVE  Advances(t)
    <2> DEFINE u == [t EXCEPT !.pc = pc, !.next = "end"]
    <2>1. /\ u \in Tasks /\ u.op = t.op /\ u.bot = t.bot /\ u.by = t.by /\ u.pc = pc
          /\ u.next = "end"
      BY <1>1 DEF Tasks, PCs
    <2>2. TaskOK(u)
      BY <1>6, <2>1 DEF TaskOK
    <2> QED BY <1>6, <2>1, <2>2 DEF Advances
  <1>7. ASSUME NEW pc \in {"strike", "struck"}, NEW next \in {t.next, "mark"},
               tasks' = (tasks \ {t}) \cup {[t EXCEPT !.pc = pc, !.next = next]},
               pc = "strike" => next = t.next, t.pc \in {"defend", "strike"}
        PROVE  Advances(t)
    <2> DEFINE u == [t EXCEPT !.pc = pc, !.next = next]
    <2>1. /\ u \in Tasks /\ u.op = t.op /\ u.bot = t.bot /\ u.by = t.by /\ u.pc = pc
          /\ u.next = next
      BY <1>1 DEF Tasks, PCs
    <2>2. TaskOK(u)
      BY <1>7, <2>1 DEF TaskOK
    <2> QED BY <1>7, <2>1, <2>2 DEF Advances
  <1>8. CASE Ejected(t)
    BY <1>2, <1>6, <1>8 DEF Ejected, Become, End
  <1>9. CASE Defend(t)
    <2>1. [t EXCEPT !.pc = "strike"] = [t EXCEPT !.pc = "strike", !.next = t.next]
      BY <1>1 DEF Tasks
    <2> QED BY <1>2, <1>7, <1>9, <2>1 DEF Defend, Become, End
  <1>10. CASE Strike(t)
    <2>1. [t EXCEPT !.pc = "struck"] = [t EXCEPT !.pc = "struck", !.next = t.next]
      BY <1>1 DEF Tasks
    <2> QED BY <1>7, <1>10, <2>1 DEF Strike, Become
  <1>11. CASE Struck(t)
    BY <1>2, <1>11 DEF Struck, End
  <1>12. CASE Cancel(t)
    BY <1>2, <1>6, <1>12 DEF Cancel, Become, End
  <1>13. CASE Close(t)
    BY <1>2, <1>6, <1>13 DEF Close, Become, End
  <1>14. CASE Reinvite(t)
    BY <1>2, <1>14 DEF Reinvite, End
  <1>15. CASE Sweep(t)
    BY <1>2, <1>15 DEF Sweep, End
  <1> QED BY <1>3, <1>4, <1>5, <1>8, <1>9, <1>10, <1>11, <1>12, <1>13, <1>14, <1>15,
             BeginAdvances DEF Step

\* What a step of a handler may change.
Changes(t) ==
    /\ UNCHANGED <<settings, sent>>
    /\ inRoom' \in {inRoom, inRoom \ {t.op.actor}}
    /\ \/ invitees' \in {invitees, invitees \ {t.op.target}}
       \/ t.op.target \in Mids /\ invitees' = invitees \cup ({t.op.target} \ inRoom)
          /\ inRoom' = inRoom
    /\ qrOpen' \in BOOLEAN
    /\ blacklist' = blacklist
         \/ (Role(t.op.actor) = RoleUser /\ blacklist' = blacklist \cup {t.op.actor})
    /\ member' \subseteq Bots /\ cooling' \subseteq Bots
    /\ inRoom \cap Bots \subseteq member => inRoom \cap Bots \subseteq member'
    /\ faults' \in 0..MaxFaults
    /\ defended' \subseteq defended \cup {t.op.id}
    /\ owed' \subseteq owed
    /\ causes \subseteq causes'
    /\ causes' \subseteq causes \cup {"repeat", "fault", "absent", "deferred", "returned"}

LEMMA StepChanges ==
    ASSUME TypeOK, EventsAssumption, NEW t \in tasks, TaskOK(t), Step(t),
           t.op.type \in {"kick", "cancel"} => t.op.target \notin inRoom \cap Bots
    PROVE  Changes(t)
  <1>1. /\ t \in Tasks /\ t.op.actor \in Users /\ t.bot \in Bots /\ t.left \subseteq Bots
        /\ t.op.actor \notin Bots /\ t.op.type \in OpTypes
    BY DEF TypeOK, Tasks, Ops, EventsAssumption
  <1>2. CASE Begin(t)
    <2>1. /\ UNCHANGED <<inRoom, invitees, qrOpen, roles, blacklist, protection, war, defended>>
          /\ UNCHANGED <<cooling, sent, faults, owed>>
      BY <1>2 DEF Begin, room, store, settings, counts
    <2>2. member' \in {member, member \ {t.op.target}}
          /\ (member' # member => t.op.type \in {"kick", "cancel"})
      BY <1>2 DEF Begin, Dropped, Taken, Observed
    <2>3. causes \subseteq causes' /\ causes' \subseteq causes \cup {"repeat", "deferred"}
      <3>1. CASE Dropped(t)
        BY <3>1 DEF Dropped
      <3>2. CASE Taken(t) /\ ~BotKicked(t.op)
        BY <3>2 DEF Taken
      <3>3. CASE Taken(t) /\ BotKicked(t.op)
        BY <3>3, TakenDecides DEF DecideDefense, Deferred
      <3> QED BY <1>2, <3>1, <3>2, <3>3 DEF Begin
    <2> QED BY <2>1, <2>2, <2>3 DEF Changes, settings, TypeOK
  <1>3. CASE Eject(t)
    <2>1. t.by \in Bots
      BY <1>3 DEF Eject, TaskOK
    <2> QED BY <1>1, <1>3, <2>1 DEF Eject, Confirm, KickWorks, KickFails, Fault, RoomBecomes, Standing,
            room, store, settings, TypeOK, Changes
  <1>4. ASSUME NEW p \in Bots, Retry(t, p) PROVE Changes(t)
    BY <1>1, <1>4 DEF Retry, Confirm, KickWorks, KickFails, Fault, RoomBecomes, Standing,
       room, store, settings, TypeOK, Changes
  <1>5. CASE AutoBlacklist(t)
    BY <1>1, <1>5 DEF AutoBlacklist, room, engine, counts, settings, TypeOK, Changes
  <1>6. CASE Ejected(t)
    BY <1>1, <1>6 DEF Ejected, room, engine, counts, history, store, settings, TypeOK, Changes
  <1>7. CASE Defend(t)
    BY <1>1, <1>7 DEF Defend, Deferred, room, engine, counts, store, settings, TypeOK, Changes
  <1>8. CASE Strike(t)
    BY <1>1, <1>8 DEF Strike, KickWorks, KickFails, Fault, RoomBecomes, Standing,
       room, store, settings, TypeOK, Changes
  <1>9. CASE Struck(t)
    BY <1>1, <1>9 DEF Struck, room, counts, history, store, settings, TypeOK, Changes
  <1>10. CASE Cancel(t)
    <2>1. t.by \in Bots
      BY <1>10 DEF Cancel, TaskOK
    <2> QED BY <1>1, <1>10, <2>1 DEF Cancel, Confirm, Fault, RoomBecomes, Standing,
            room, store, settings, TypeOK, Changes
  <1>11. CASE Close(t)
    <2>1. UNCHANGED <<store, engine, sent>> /\ inRoom' = inRoom /\ invitees' = invitees
      BY <1>11 DEF Close, RoomBecomes, room
    <2>2. /\ qrOpen' \in BOOLEAN /\ owed' \subseteq owed /\ faults' \in 0..MaxFaults
          /\ causes \subseteq causes' /\ causes' \subseteq causes \cup {"absent", "fault"}
      <3>1. faults \in 0..MaxFaults /\ MaxFaults \in Nat /\ qrOpen \in BOOLEAN
        BY DEF TypeOK, EventsAssumption
      <3>2. CASE RoomBecomes(inRoom, invitees, FALSE) /\ UNCHANGED <<faults, causes>>
        BY <3>1, <3>2 DEF RoomBecomes, Standing
      <3>3. CASE Fault /\ UNCHANGED <<room, owed>>
        BY <3>1, <3>3 DEF Fault, room
      <3>4. CASE causes' = causes \cup {"absent"} /\ UNCHANGED faults /\ UNCHANGED <<room, owed>>
        BY <3>1, <3>4 DEF room
      <3> QED BY <1>11, <3>2, <3>3, <3>4 DEF Close
    <2> QED BY <2>1, <2>2 DEF store, settings, engine, TypeOK, Changes
  <1>12. CASE Reinvite(t)
    <2>1. t.by \in Bots /\ t.op.target \in Mids
      BY <1>12 DEF Reinvite, TaskOK
    <2> QED BY <1>1, <1>12, <2>1 DEF Reinvite, Confirm, Fault, RoomBecomes, Standing,
            room, store, settings, TypeOK, Changes
  <1>13. CASE Sweep(t)
    BY <1>1, <1>13 DEF Sweep, Confirm, KickWorks, KickFails, Fault, RoomBecomes, Standing,
       room, store, settings, TypeOK, Changes
  <1> QED BY <1>2, <1>3, <1>4, <1>5, <1>6, <1>7, <1>8, <1>9, <1>10, <1>11, <1>12, <1>13 DEF Step

\* Only at its beginning a handler changes seen and reacted.
LEMMA StepSees ==
    ASSUME NEW t, Step(t)
    PROVE  \/ UNCHANGED <<seen, reacted>>
           \/ Begin(t) /\ seen' \subseteq seen \cup {<<DedupeKey(t), t.op.id>>}
  BY DEF Step, Begin, Dropped, Taken, Eject, Retry, AutoBlacklist, Ejected, Defend, Strike, Struck,
     Cancel, Close, Reinvite, Sweep, engine, history

\* A step of a handler preserves what is known of the tasks, the room and seen.
LEMMA StepBasics ==
    ASSUME Basics, EventsAssumption, NEW t \in tasks, Step(t)
    PROVE  Basics'
  <1>1. /\ TypeOK /\ OpsOK /\ RoomOK /\ SeenOK /\ TaskOK(t)
        /\ t \in Tasks /\ t.op.actor \in Users /\ t.op.actor \notin Bots
        /\ \A w \in tasks : TaskOK(w) /\ w \in Tasks
    BY DEF Basics, TypeOK, Tasks, Ops, EventsAssumption
  <1>2. Advances(t) /\ Changes(t)
    BY <1>1, StepAdvances, StepChanges DEF OpsOK
  <1>3. sent' = sent /\ UNCHANGED settings
    BY <1>2 DEF Changes
  <1>4. \A w : TaskOK(w)' <=> TaskOK(w)
    BY <1>3 DEF TaskOK, NewTask, BotKicked
  <1>5. \A w \in tasks' : w \in tasks \/ (w \in Tasks /\ TaskOK(w) /\ w.pc # "start" /\ w.op = t.op /\ w.bot = t.bot)
    BY <1>2 DEF Advances
  <1>6. \A w \in tasks' : TaskOK(w)' /\ w \in Tasks
    BY <1>1, <1>4, <1>5
  <1>7. TypeOK'
    <2>1. inRoom' \subseteq Mids /\ invitees' \subseteq Mids
      BY <1>1, <1>2 DEF Changes, TypeOK
    <2>2. defended' \subseteq 1..MaxOps /\ blacklist' \subseteq Users
      BY <1>1, <1>2 DEF Changes, TypeOK, Tasks, Ops
    <2>3. causes' \subseteq {"settings", "repeat", "late", "nobody", "accepted", "fault", "absent",
                  "deferred", "returned"}
      BY <1>1, <1>2 DEF Changes, TypeOK
    <2> QED BY <1>1, <1>2, <1>6, <2>1, <2>2, <2>3 DEF Changes, TypeOK, settings
  <1>8. OpsOK'
    <2>1. inRoom' \cap Bots \subseteq inRoom \cap Bots
      BY <1>2 DEF Changes
    <2>2. \A w \in tasks' : \E v \in tasks : w.op = v.op /\ w.bot = v.bot
      BY <1>5
    <2> QED BY <1>1, <2>1, <2>2 DEF OpsOK
  <1>9. RoomOK'
    <2>1. inRoom' \cap invitees' = {}
      BY <1>1, <1>2 DEF Changes, RoomOK
    <2>2. inRoom' \cap Bots \subseteq member'
      BY <1>1, <1>2 DEF Changes, RoomOK
    <2>3. \A m \in blacklist' : roles'[m] < RoleAdmin
      BY <1>1, <1>2 DEF Changes, RoomOK, settings, Role, RoleUser, RoleAdmin
    <2> QED BY <2>1, <2>2, <2>3 DEF RoomOK
  <1>10. SeenOK'
    <2>1. \A entry \in seen' : entry \in seen \/ entry = <<DedupeKey(t), t.op.id>>
      BY StepSees
    <2>2. \A entry \in seen' : entry[2] \in 1..sent'
      BY <1>1, <1>3, <2>1 DEF SeenOK, TaskOK, Tasks, Ops, TypeOK
    <2>3. \A id \in defended' : id <= sent'
      BY <1>1, <1>2, <1>3 DEF SeenOK, TaskOK, Changes
    <2>4. ASSUME NEW w \in tasks', w.pc = "start", BotKicked(w.op)
          PROVE  <<DedupeKey(w), w.op.id>> \notin seen'
      <3>1. w \in tasks
        BY <1>5, <2>4
      <3>2. CASE <<DedupeKey(w), w.op.id>> = <<DedupeKey(t), t.op.id>> /\ Begin(t)
        <4>1. w.op = t.op
          BY <1>1, <3>1, <3>2 DEF OpsOK
        <4>2. w.bot = t.bot
          BY <2>4, <3>2, <4>1 DEF DedupeKey
        <4>3. w = t
          BY <1>1, <2>4, <3>1, <3>2, <4>1, <4>2 DEF Begin, TaskOK
        <4>4. t \notin tasks'
          BY <1>2, <3>2 DEF Advances, Begin
        <4> QED BY <4>3, <4>4
      <3>3. CASE <<DedupeKey(w), w.op.id>> # <<DedupeKey(t), t.op.id>> \/ UNCHANGED seen
        BY <1>1, <2>1, <2>4, <3>1, <3>3 DEF SeenOK
      <3> QED BY <3>2, <3>3, StepSees
    <2>5. \A w : (DedupeKey(w)' = DedupeKey(w)) /\ (BotKicked(w.op)' <=> BotKicked(w.op))
      BY DEF DedupeKey, BotKicked, eventKey
    <2> QED BY <2>2, <2>3, <2>4, <2>5 DEF SeenOK
  <1> QED BY <1>6, <1>7, <1>8, <1>9, <1>10 DEF Basics

-----------------------------------------------------------------------------
(* What users do, commands and the time.                                   *)

\* An operation of a user, and the room after it.
Event(op, members, invited, open) ==
    /\ Happens(op, members, invited, open)
    /\ op \in Ops /\ op.id = sent + 1
    /\ members \subseteq Mids /\ invited \subseteq Mids /\ open \in BOOLEAN
    /\ \/ /\ op.type = "kick" /\ op.actor \in inRoom /\ op.target \in inRoom \ {op.actor}
          /\ members = inRoom \ {op.target} /\ invited = invitees /\ open = qrOpen
       \/ /\ op.type = "invite" /\ op.actor \in inRoom
          /\ op.target \in Mids \ (inRoom \cup invitees)
          /\ members = inRoom /\ invited = invitees \cup {op.target} /\ open = qrOpen
       \/ /\ op.type = "cancel" /\ op.actor \in inRoom /\ op.target \in invitees
          /\ members = inRoom /\ invited = invitees \ {op.target} /\ open = qrOpen
       \/ /\ op.type = "qr" /\ op.actor \in inRoom
          /\ members = inRoom /\ invited = invitees /\ open = TRUE
       \/ /\ op.type = "join" /\ op.actor \in Users \ inRoom
          /\ members = inRoom \cup {op.actor} /\ invited = invitees \ {op.actor} /\ open = qrOpen

LEMMA UserActsAreEvents ==
    ASSUME TypeOK, EventsAssumption, UserActs
    PROVE  \E op, members, invited, open : Event(op, members, invited, open)
  <1>1. sent + 1 \in 1..MaxOps
    <2>1. sent < MaxOps
      BY DEF UserActs, UserKicks, UserInvites, UserCancels, UserOpensQR, UserJoins, Happens
    <2> QED BY <2>1 DEF TypeOK, EventsAssumption
  <1>2. /\ inRoom \subseteq Mids /\ invitees \subseteq Mids /\ qrOpen \in BOOLEAN /\ Users \subseteq Mids
    BY DEF TypeOK, Mids
  <1>3. \A type \in OpTypes, a \in Users, m \in Mids \cup {Nobody} :
           LET op == Op(type, a, m)
           IN  /\ op \in Ops /\ op.id = sent + 1 /\ op.type = type /\ op.actor = a /\ op.target = m
    BY <1>1 DEF Op, Ops
  <1>4. ASSUME NEW a \in Users \cap inRoom, NEW m \in Mids, UserKicks(a, m)
        PROVE  Event(Op("kick", a, m), inRoom \ {m}, invitees, qrOpen)
    BY <1>2, <1>3, <1>4 DEF UserKicks, Event, OpTypes
  <1>5. ASSUME NEW a \in Users \cap inRoom, NEW m \in Mids, UserInvites(a, m)
        PROVE  Event(Op("invite", a, m), inRoom, invitees \cup {m}, qrOpen)
    BY <1>2, <1>3, <1>5 DEF UserInvites, Event, OpTypes
  <1>6. ASSUME NEW a \in Users \cap inRoom, NEW m \in Mids, UserCancels(a, m)
        PROVE  Event(Op("cancel", a, m), inRoom, invitees \ {m}, qrOpen)
    BY <1>2, <1>3, <1>6 DEF UserCancels, Event, OpTypes
  <1>7. ASSUME NEW a \in Users \cap inRoom, UserOpensQR(a)
        PROVE  Event(Op("qr", a, Nobody), inRoom, invitees, TRUE)
    <2> DEFINE op == Op("qr", a, Nobody)
    <2>1. op \in Ops /\ op.id = sent + 1 /\ op.type = "qr" /\ op.actor = a /\ op.target = Nobody
      BY <1>3 DEF OpTypes
    <2>2. Happens(op, inRoom, invitees, TRUE)
      BY <1>7 DEF UserOpensQR
    <2> HIDE DEF op
    <2>3. Event(op, inRoom, invitees, TRUE)
      BY <1>2, <2>1, <2>2 DEF Event
    <2> QED BY <2>3 DEF op
  <1>8. ASSUME NEW u \in Users, UserJoins(u)
        PROVE  Event(Op("join", u, Nobody), inRoom \cup {u}, invitees \ {u}, qrOpen)
    BY <1>2, <1>3, <1>8 DEF UserJoins, Event, OpTypes
  <1> QED BY <1>4, <1>5, <1>6, <1>7, <1>8 DEF UserActs

\* A new operation starts a handler for every bot of the room.
LEMMA EventBasics ==
    ASSUME Basics, EventsAssumption, NEW op, NEW members, NEW invited, NEW open,
           Event(op, members, invited, open)
    PROVE  Basics'
  <1>1. /\ TypeOK /\ OpsOK /\ RoomOK /\ SeenOK
        /\ \A w \in tasks : TaskOK(w) /\ w \in Tasks
        /\ op \in Ops /\ op.id = sent + 1 /\ op.actor \notin Bots /\ op.actor \in Users
        /\ sent' = sent + 1 /\ sent \in Nat /\ sent' \in 0..MaxOps
    BY DEF Basics, Event, Happens, TypeOK, Ops, EventsAssumption
  <1>2. /\ tasks' = tasks \cup {NewTask(op, b) : b \in inRoom \cap Bots}
        /\ UNCHANGED <<roles, protection, war, blacklist, member, seen, defended, cooling, faults, reacted>>
        /\ inRoom' = members /\ invitees' = invited /\ qrOpen' = open
    BY DEF Event, Happens, store, settings, engine
  <1>3. members \cap Bots \subseteq inRoom \cap Bots /\ members \cap invited = {}
    BY <1>1 DEF Event, RoomOK
  <1>4. \A b \in Bots : /\ NewTask(op, b) \in Tasks /\ NewTask(op, b).op = op /\ NewTask(op, b).bot = b
                        /\ NewTask(op, b).pc = "start" /\ NewTask(op, b).next = "end"
    BY <1>1 DEF NewTask, Tasks, PCs
  <1>5. \A w \in tasks' : w \in tasks \/ (w.op = op /\ w.bot \in inRoom \cap Bots /\ w = NewTask(op, w.bot))
    BY <1>2, <1>4
  <1>6. \A w \in tasks' : w \in Tasks
    BY <1>1, <1>4, <1>5
  <1>7. \A w \in tasks : w.op.id \in Nat /\ w.op.id <= sent
    BY <1>1 DEF TaskOK, Tasks, Ops
  <1>8. \A w \in tasks' : TaskOK(w)'
    <2>1. ASSUME NEW w \in tasks PROVE TaskOK(w)'
      BY <1>1, <1>7 DEF TaskOK, NewTask, BotKicked
    <2>2. ASSUME NEW b \in inRoom \cap Bots PROVE TaskOK(NewTask(op, b))'
      <3>1. op.type \in {"invite", "cancel", "kick"} => op.target \in Mids
        BY <1>1 DEF Event, TypeOK
      <3> QED BY <1>1, <1>4, <3>1 DEF TaskOK, NewTask
    <2> QED BY <1>5, <2>1, <2>2
  <1>9. TypeOK'
    <2>1. owed' \subseteq Debts
      <3>1. Role(op.target) \in Nat /\ Role(op.actor) \in Nat
        BY <1>1 DEF TypeOK, Role, RoleUser, RoleCreator
      <3>2. Debt(op) \subseteq Debts
        <4>1. op.actor \in Mids /\ op.target \in Mids \cup {Nobody}
          BY <1>1 DEF Ops, Mids
        <4>2. /\ Removal(op.actor) \in Debts /\ Cancellation(op.target) \in Debts /\ Closing \in Debts
              /\ Reinvitation(op.target) \in Debts
          BY <4>1 DEF Debts, Removal, Cancellation, Closing, Reinvitation
        <4> QED BY <4>2 DEF Debt
      <3> QED BY <1>1, <3>2 DEF Event, Happens, Standing, TypeOK
    <2>2. causes' \subseteq {"settings", "repeat", "late", "nobody", "accepted", "fault", "absent",
                  "deferred", "returned"}
      BY <1>1 DEF Event, Happens, TypeOK
    <2> QED BY <1>1, <1>2, <1>6, <2>1, <2>2 DEF TypeOK, Event
  <1>10. OpsOK'
    <2>1. \A t, u \in tasks' : t.op.id = u.op.id => t.op = u.op
      BY <1>1, <1>5, <1>7 DEF OpsOK
    <2>2. \A t \in tasks' : t.op.type \in {"kick", "cancel"} => t.op.target \notin inRoom' \cap Bots
      BY <1>1, <1>2, <1>3, <1>5 DEF OpsOK, Event, RoomOK
    <2>3. \A t \in tasks' : t.op.type = "cancel" => t.op.target # t.bot
      BY <1>1, <1>5 DEF OpsOK, Event, RoomOK
    <2> QED BY <2>1, <2>2, <2>3 DEF OpsOK
  <1>11. RoomOK'
    BY <1>1, <1>2, <1>3 DEF RoomOK
  <1>12. SeenOK'
    <2>1. \A entry \in seen' : entry[2] \in 1..sent /\ entry[2] \in 1..sent'
      BY <1>1, <1>2 DEF SeenOK
    <2>2. \A id \in defended' : id <= sent'
      BY <1>1, <1>2 DEF SeenOK, TypeOK
    <2>3. \A w : DedupeKey(w)' = DedupeKey(w) /\ (BotKicked(w.op)' <=> BotKicked(w.op))
      BY DEF DedupeKey, BotKicked, eventKey
    <2>4. ASSUME NEW w \in tasks', w.pc = "start", BotKicked(w.op)
          PROVE  <<DedupeKey(w), w.op.id>> \notin seen
      <3>1. CASE w \in tasks
        BY <1>1, <2>4, <3>1 DEF SeenOK
      <3>2. CASE w.op = op
        BY <1>1, <2>1, <1>2, <3>2
      <3> QED BY <1>5, <3>1, <3>2
    <2> QED BY <1>2, <2>1, <2>2, <2>3, <2>4 DEF SeenOK
  <1> QED BY <1>8, <1>9, <1>10, <1>11, <1>12 DEF Basics

\* Time and commands change neither the tasks nor the room.
LEMMA OtherChanges ==
    ASSUME TypeOK, EventsAssumption, TimePasses \/ Commands
    PROVE  /\ UNCHANGED <<room, tasks, roles, war, blacklist, member, defended, owed, reacted>>
           /\ seen' \subseteq seen
           /\ sent' \in {sent, sent + 1} /\ sent' \in 0..MaxOps /\ faults' \in 0..MaxFaults
           /\ cooling' \subseteq cooling /\ protection' \subseteq Scopes
           /\ causes \subseteq causes' /\ causes' \subseteq causes \cup {"late", "settings"}
  <1>1. ASSUME NEW entry \in seen, Forget(entry) \/ ForgetEarly(entry)
        PROVE  /\ UNCHANGED <<room, tasks, store, member, defended, cooling, sent, owed, reacted>>
               /\ seen' \subseteq seen /\ faults' \in 0..MaxFaults
               /\ causes' \in {causes, causes \cup {"late"}}
    BY <1>1 DEF Forget, ForgetEarly, counts, history, TypeOK, EventsAssumption
  <1>2. ASSUME NEW b \in Bots, CoolsDown(b)
        PROVE  /\ UNCHANGED <<room, tasks, store, member, seen, defended, sent, faults, owed, reacted, causes>>
               /\ cooling' \subseteq cooling
    BY <1>2 DEF CoolsDown, counts, history
  <1>3. ASSUME NEW a \in Users, NEW on \in BOOLEAN, SetProtection(a, Scopes, on)
        PROVE  /\ UNCHANGED <<room, tasks, roles, war, blacklist, engine, faults, owed, reacted>>
               /\ sent' = sent + 1 /\ sent' \in 0..MaxOps /\ protection' \subseteq Scopes
               /\ causes' \in {causes, causes \cup {"settings"}}
    BY <1>3 DEF SetProtection, TypeOK, EventsAssumption
  <1> QED BY <1>1, <1>2, <1>3 DEF TimePasses, Commands, store, settings, engine, TypeOK

LEMMA OtherBasics ==
    ASSUME Basics, EventsAssumption, TimePasses \/ Commands
    PROVE  Basics'
  <1>1. /\ TypeOK /\ OpsOK /\ RoomOK /\ SeenOK
        /\ \A w \in tasks : TaskOK(w) /\ w \in Tasks
    BY DEF Basics, TypeOK
  <1>2. /\ UNCHANGED <<room, tasks, roles, war, blacklist, member, defended, owed, reacted>>
        /\ seen' \subseteq seen
        /\ sent' \in {sent, sent + 1} /\ sent' \in 0..MaxOps /\ faults' \in 0..MaxFaults
        /\ cooling' \subseteq cooling /\ protection' \subseteq Scopes
        /\ causes \subseteq causes' /\ causes' \subseteq causes \cup {"late", "settings"}
    BY <1>1, OtherChanges
  <1>3. TypeOK'
    BY <1>1, <1>2 DEF TypeOK, room
  <1>4. \A w \in tasks' : TaskOK(w)'
    BY <1>1, <1>2 DEF TaskOK, NewTask, BotKicked, Tasks, Ops, TypeOK
  <1>5. OpsOK' /\ RoomOK'
    BY <1>1, <1>2 DEF OpsOK, RoomOK, room
  <1>6. SeenOK'
    <2>1. \A entry \in seen' : entry[2] \in 1..sent'
      BY <1>1, <1>2 DEF SeenOK, TypeOK
    <2>2. \A id \in defended' : id <= sent'
      BY <1>1, <1>2 DEF SeenOK, TypeOK
    <2>3. \A w : DedupeKey(w)' = DedupeKey(w) /\ (BotKicked(w.op)' <=> BotKicked(w.op))
      BY DEF DedupeKey, BotKicked, eventKey
    <2> QED BY <1>1, <1>2, <2>1, <2>2, <2>3 DEF SeenOK
  <1> QED BY <1>3, <1>4, <1>5, <1>6 DEF Basics

LEMMA InitBasics ==
    ASSUME Init, EventsAssumption
    PROVE  Basics
  <1>1. PICK r \in InitRooms :
           /\ inRoom = r.members /\ invitees = r.invitees /\ qrOpen = r.open
           /\ blacklist = {u \in r.blacklist : roles[u] < RoleAdmin}
           /\ member = r.members \cap Bots
    BY DEF Init
  <1>2. /\ r.members \subseteq Mids /\ r.invitees \subseteq Mids /\ r.open \in BOOLEAN
        /\ r.blacklist \subseteq Users /\ r.members \cap (r.invitees \cup r.blacklist) = {}
    BY DEF EventsAssumption, Rooms
  <1>3. protection \subseteq Scopes /\ war \in WarStates
    BY DEF Init, EventsAssumption, Rules
  <1>4. 0 \in 0..MaxOps /\ 0 \in 0..MaxFaults
    BY DEF EventsAssumption
  <1>5. TypeOK
    BY <1>1, <1>2, <1>3, <1>4 DEF Init, TypeOK, EventsAssumption
  <1> QED BY <1>1, <1>2, <1>5 DEF Init, Basics, OpsOK, RoomOK, SeenOK

\* The four kinds of steps.
LEMMA NextBasics ==
    ASSUME Basics, EventsAssumption, [Next]_vars
    PROVE  Basics'
  <1>1. CASE UserActs
    BY <1>1, UserActsAreEvents, EventBasics DEF Basics
  <1>2. CASE TimePasses \/ Commands
    BY <1>2, OtherBasics
  <1>3. ASSUME NEW t \in tasks, Step(t) PROVE Basics'
    BY <1>3, StepBasics
  <1>4. CASE UNCHANGED vars
    BY <1>4 DEF vars, room, store, settings, engine, counts, history, Basics, TypeOK, TaskOK, NewTask,
       BotKicked, OpsOK, RoomOK, SeenOK, DedupeKey, eventKey
  <1> QED BY <1>1, <1>2, <1>3, <1>4 DEF Next

\* The variables keep their types: in particular every task is that of a bot,
\* with a protector and alternatives that are bots, and the bounds hold.
THEOREM TypeCorrect == Spec => []TypeOK
  <1>1. Init => Basics
    BY InitBasics, EventsAssumption
  <1>2. Basics /\ [Next]_vars => Basics'
    BY NextBasics, EventsAssumption
  <1>3. Basics => TypeOK
    BY DEF Basics
  <1> QED BY <1>1, <1>2, <1>3, PTL DEF Spec

-----------------------------------------------------------------------------
(* One reaction to an operation.                                           *)

\* A handler reacts only to an operation whose key was not there, and leaves the
\* key that every other bot will look up.
LEMMA StepReacts ==
    ASSUME NEW t, t.op.type \in OpTypes, Step(t)
    PROVE  /\ seen \subseteq seen'
           /\ \/ reacted' = reacted
              \/ /\ reacted' = reacted \cup {<<t.op.id, t.bot>>}
                 /\ t.pc = "start" /\ ~BotKicked(t.op) /\ ~Known(DedupeKey(t))
                 /\ <<DedupeKey(t), t.op.id>> \in seen'
  <1>1. CASE UNCHANGED <<seen, reacted>>
    BY <1>1
  <1>2. CASE Dropped(t)
    BY <1>2 DEF Dropped, AfterJoin, Nothing
  <1>3. CASE Taken(t) /\ Begin(t)
    <2>1. seen' = seen \cup {<<DedupeKey(t), t.op.id>>} /\ ~Known(DedupeKey(t)) /\ t.pc = "start"
      BY <1>3 DEF Taken, Begin
    <2>2. CASE BotKicked(t.op) \/ t.op.type = "join"
      BY <1>3, <2>1, <2>2, TakenDecides DEF DecideDefense
    <2>3. CASE ~BotKicked(t.op) /\ t.op.type # "join"
      <3>1. \A p, pc, next : Nothing(t) \/ Proceed(t, p, pc, next) =>
               \/ reacted' = reacted
               \/ reacted' = reacted \cup {<<t.op.id, t.bot>>}
        BY DEF Nothing, Proceed
      <3>2. \/ DecideInvite(t) \/ DecideCancel(t, Observed(t.op)) \/ DecideQR(t) \/ DecideKick(t)
        BY <1>3, <2>3, TakenDecides DEF OpTypes
      <3>3. \/ reacted' = reacted
            \/ reacted' = reacted \cup {<<t.op.id, t.bot>>}
        BY <3>1, <3>2 DEF DecideInvite, DecideCancel, DecideQR, DecideKick
      <3> QED BY <2>1, <2>3, <3>3
    <2> QED BY <2>2, <2>3
  <1> QED BY <1>1, <1>2, <1>3, StepSees DEF Begin

LEMMA ReactedStep ==
    ASSUME Basics, Reacted, OneReaction, EventsAssumption, NEW t \in tasks, Step(t)
    PROVE  Reacted' /\ OneReaction'
  <1>1. /\ TypeOK /\ OpsOK /\ TaskOK(t) /\ t.op.id \in 1..sent
        /\ t.op.type \in OpTypes
        /\ \A w \in tasks : TaskOK(w)
    BY DEF Basics, TaskOK, TypeOK, Tasks, Ops
  <1>2. Advances(t) /\ Changes(t)
    BY <1>1, StepAdvances, StepChanges DEF OpsOK
  <1>3. \A w \in tasks' : w.pc = "start" => w \in tasks
    BY <1>2 DEF Advances
  <1>4. sent' = sent /\ causes \subseteq causes'
    BY <1>2 DEF Changes
  <1>5. \A w : DedupeKey(w)' = DedupeKey(w)
    BY DEF DedupeKey, BotKicked, eventKey
  <1>6. \A key : Known(key) => Known(key)'
    BY <1>1, StepReacts DEF Known
  <1>7. CASE reacted' = reacted
    <2>1. Reacted'
      BY <1>3, <1>4, <1>5, <1>6, <1>7 DEF Reacted
    <2> QED BY <1>4, <1>7, <2>1 DEF OneReaction
  <1>8. CASE /\ reacted' = reacted \cup {<<t.op.id, t.bot>>}
             /\ t.pc = "start" /\ ~BotKicked(t.op) /\ ~Known(DedupeKey(t))
             /\ <<DedupeKey(t), t.op.id>> \in seen'
    <2>1. Known(DedupeKey(t))'
      BY <1>5, <1>8 DEF Known
    <2>2. \A r \in reacted' : r[1] \in 1..sent'
      BY <1>1, <1>4, <1>8 DEF Reacted
    <2>3. ASSUME "late" \notin causes', NEW r \in reacted', NEW w \in tasks',
                 w.op.id = r[1], w.pc = "start"
          PROVE  Known(DedupeKey(w))'
      <3>1. CASE r \in reacted
        BY <1>3, <1>4, <1>5, <1>6, <2>3, <3>1 DEF Reacted
      <3>2. CASE r = <<t.op.id, t.bot>>
        <4>1. w.op = t.op
          BY <1>1, <1>3, <2>3, <3>2 DEF OpsOK
        <4>2. DedupeKey(w) = DedupeKey(t)
          BY <1>8, <4>1 DEF DedupeKey
        <4> QED BY <1>5, <2>1, <4>2
      <3> QED BY <1>8, <2>3, <3>1, <3>2
    <2>4. "late" \notin causes' => \A r \in reacted : r[1] # t.op.id
      BY <1>4, <1>8 DEF Reacted
    <2>5. OneReaction'
      BY <1>4, <1>8, <2>4 DEF OneReaction
    <2> QED BY <2>2, <2>3, <2>5 DEF Reacted
  <1> QED BY <1>1, <1>7, <1>8, StepReacts

LEMMA ReactedNext ==
    ASSUME Basics, Reacted, OneReaction, EventsAssumption, [Next]_vars
    PROVE  Reacted' /\ OneReaction'
  <1>1. \A w : DedupeKey(w)' = DedupeKey(w)
    BY DEF DedupeKey, BotKicked, eventKey
  <1>2. /\ TypeOK /\ sent \in Nat /\ \A w \in tasks : TaskOK(w) /\ w \in Tasks
    BY DEF Basics, TypeOK
  <1>3. ASSUME NEW t \in tasks, Step(t) PROVE Reacted' /\ OneReaction'
    BY <1>3, ReactedStep
  <1>4. CASE UserActs
    <2>1. PICK op, members, invited, open : Event(op, members, invited, open)
      BY <1>2, <1>4, UserActsAreEvents
    <2>2. /\ sent' = sent + 1 /\ UNCHANGED <<seen, reacted>> /\ op.id = sent + 1 /\ causes \subseteq causes'
          /\ tasks' = tasks \cup {NewTask(op, b) : b \in inRoom \cap Bots}
      BY <2>1 DEF Event, Happens, engine
    <2>3. \A w \in tasks' : w \in tasks \/ w.op.id = sent + 1
      BY <2>2 DEF NewTask
    <2>4. \A r \in reacted' : r[1] \in 1..sent /\ r[1] \in 1..sent'
      BY <1>2, <2>2 DEF Reacted
    <2>5. \A key : Known(key)' <=> Known(key)
      BY <2>2 DEF Known
    <2>6. Reacted'
      BY <1>1, <1>2, <2>2, <2>3, <2>4, <2>5 DEF Reacted
    <2> QED BY <2>2, <2>6 DEF OneReaction
  <1>5. CASE TimePasses \/ Commands
    <2>1. /\ UNCHANGED <<tasks, reacted>> /\ sent' \in {sent, sent + 1} /\ causes \subseteq causes'
      BY <1>2, <1>5, OtherChanges
    <2>2. "late" \notin causes' => \A w \in tasks : w.pc = "start" /\ Known(DedupeKey(w)) => Known(DedupeKey(w))'
      <3>1. CASE UNCHANGED seen
        BY <3>1, <1>1 DEF Known
      <3>2. ASSUME NEW entry \in seen, Forget(entry)
            PROVE  \A w \in tasks : w.pc = "start" /\ Known(DedupeKey(w)) => Known(DedupeKey(w))'
        BY <3>2, <1>1 DEF Forget, Known
      <3>3. ASSUME NEW entry \in seen, ForgetEarly(entry) PROVE "late" \in causes'
        BY <3>3 DEF ForgetEarly
      <3> QED BY <1>5, <3>1, <3>2, <3>3 DEF TimePasses, Commands, CoolsDown, SetProtection, engine
    <2>3. Reacted'
      BY <1>1, <1>2, <2>1, <2>2 DEF Reacted
    <2> QED BY <2>1, <2>3 DEF OneReaction
  <1>6. CASE UNCHANGED vars
    <2>1. \A key : Known(key)' <=> Known(key)
      BY <1>6 DEF vars, engine, Known
    <2> QED BY <1>1, <1>6, <2>1 DEF vars, counts, history, Reacted, OneReaction
  <1> QED BY <1>3, <1>4, <1>5, <1>6 DEF Next

\* One bot, and no other, reacts to an operation, unless one comes to it more than
\* ten seconds after the first: the map seen of duplicate decides.
THEOREM OneBotReacts == Spec => []OneReaction
  <1>1. Init => Basics /\ Reacted /\ OneReaction
    <2>1. Init => Reacted /\ OneReaction
      BY DEF Init, Reacted, OneReaction
    <2> QED BY <2>1, InitBasics, EventsAssumption
  <1>2. Basics /\ Reacted /\ OneReaction /\ [Next]_vars => (Basics /\ Reacted /\ OneReaction)'
    BY NextBasics, ReactedNext, EventsAssumption
  <1> QED BY <1>1, <1>2, PTL DEF Spec

-----------------------------------------------------------------------------
(* Whom the handlers remove.                                               *)

\* Where a handler is that has just decided.
LEMMA ProceedsTo ==
    ASSUME NEW t \in tasks, t = NewTask(t.op, t.bot), NEW w \in tasks' \ tasks
    PROVE  /\ ~Nothing(t)
           /\ \A p, pc, next : Proceed(t, p, pc, next) =>
                w.pc = pc /\ w.next = next /\ w.by = p
  <1>1. ~Nothing(t)
    BY DEF Nothing, End
  <1>2. ASSUME NEW p, NEW pc, NEW next, Proceed(t, p, pc, next)
        PROVE  w.pc = pc /\ w.next = next /\ w.by = p
    <2>1. w = [t EXCEPT !.pc = pc, !.by = p, !.next = next]
      BY <1>1, <1>2 DEF Proceed, Become
    <2> QED BY <2>1 DEF NewTask
  <1> QED BY <1>1, <1>2

\* A handler that begins aims at a user only if the role allows it.
LEMMA BeginExempts ==
    ASSUME Basics, EventsAssumption, NEW t \in tasks, Begin(t), NEW w \in tasks' \ tasks, Aims(w)
    PROVE  Removable(t.op)
  <1>1. /\ TypeOK /\ RoomOK /\ TaskOK(t) /\ t.op.actor \in Users
        /\ t.op.type \in OpTypes /\ t = NewTask(t.op, t.bot) /\ t.pc = "start"
    BY DEF Basics, TypeOK, Tasks, Ops, TaskOK, Begin
  <1>2. Role(t.op.actor) \in RoleUser..RoleCreator
    BY <1>1 DEF TypeOK, Role
  <1>3. CASE Dropped(t)
    BY <1>3 DEF Dropped, AfterJoin, Nothing, End, Become, Removable
  <1>4. CASE Taken(t)
    <2>1. CASE t.op.type = "invite"
      <3>1. PICK p, next : /\ Nothing(t) \/ Proceed(t, p, "cancel", next)
                           /\ InviteAllowed(t.op) => next = "end"
        BY <1>4, <2>1, TakenDecides DEF DecideInvite
      <3>2. w.pc = "cancel" /\ w.next = next
        BY <1>1, <3>1, ProceedsTo
      <3>3. ~InviteAllowed(t.op)
        BY <3>1, <3>2 DEF Aims
      <3> QED BY <1>2, <2>1, <3>3 DEF InviteAllowed, Removable, RoleGAdmin, RoleUser, RoleCreator
    <2>2. CASE t.op.type = "cancel"
      BY <1>1, <1>4, <2>2, TakenDecides DEF DecideCancel, Nothing, End, Proceed, Become, Removable
    <2>3. CASE t.op.type = "qr"
      BY <1>1, <1>4, <2>3, TakenDecides DEF DecideQR, Proceed, Nothing, End, Become, Removable
    <2>4. CASE BotKicked(t.op)
      <3>1. tasks' = tasks \ {t} \/ tasks' = (tasks \ {t}) \cup {[t EXCEPT !.pc = "defend"]}
        BY <1>4, <2>4, TakenDecides DEF DecideDefense, Become, End
      <3>2. w = [t EXCEPT !.pc = "defend"] /\ w.pc = "defend"
        BY <1>1, <3>1 DEF NewTask
      <3> QED BY <3>2 DEF Aims
    <2>5. CASE t.op.type = "kick" /\ ~BotKicked(t.op)
      <3>1. DecideKick(t)
        BY <1>4, <2>5, TakenDecides
      <3>2. \/ ~KickExempt(t.op) /\ Role(t.op.actor) = RoleUser
            \/ Role(t.op.actor) = RoleUser
            \/ w.pc = "reinvite"
        BY <1>1, <3>1, ProceedsTo DEF DecideKick, KickExempt
      <3> QED BY <3>2 DEF Aims, Removable
    <2>6. CASE t.op.type = "join"
      <3>1. t.op.actor \in blacklist
        BY <1>4, <2>6 DEF Taken, Deduped
      <3>2. roles[t.op.actor] < RoleAdmin
        BY <1>1, <3>1 DEF RoomOK
      <3> QED BY <1>1, <1>2, <2>6, <3>1, <3>2 DEF Removable, Role, RoleAdmin, RoleGAdmin, RoleUser, RoleCreator
    <2> QED BY <1>1, <2>1, <2>2, <2>3, <2>4, <2>5, <2>6 DEF OpTypes
  <1> QED BY <1>3, <1>4 DEF Begin

\* Later it aims at nobody it did not aim at before.
LEMMA StepExempts ==
    ASSUME Basics, EventsAssumption, NEW t \in tasks, Step(t), ~Begin(t),
           NEW w \in tasks' \ tasks, Aims(w)
    PROVE  Aims(t)
  <1>1. TaskOK(t) /\ t \in Tasks
    BY DEF Basics, TypeOK
  <1>2. CASE Eject(t) \/ \E p \in Bots : Retry(t, p)
    BY <1>2 DEF Eject, Retry, Aims
  <1>3. CASE AutoBlacklist(t)
    <2>1. w = [t EXCEPT !.saved = TRUE]
      BY <1>3 DEF AutoBlacklist, Become
    <2>2. w.pc = t.pc /\ w.next = t.next
      BY <1>1, <2>1 DEF Tasks
    <2> QED BY <2>2 DEF Aims
  <1>4. CASE Ejected(t)
    <2>1. w = [t EXCEPT !.pc = "reinvite", !.next = "end"]
      BY <1>4 DEF Ejected, Become, End
    <2> QED BY <1>1, <2>1 DEF Aims, Tasks
  <1>5. CASE Defend(t) \/ Strike(t) \/ Struck(t)
    <2>1. w \in {[t EXCEPT !.pc = "strike"], [t EXCEPT !.pc = "struck"], [t EXCEPT !.pc = "struck", !.next = "mark"]}
      BY <1>5 DEF Defend, Strike, Struck, Become, End
    <2> QED BY <1>1, <2>1 DEF Aims, Tasks
  <1>6. CASE Cancel(t)
    <2>1. t.pc = "cancel" /\ (t.next = "eject" \/ tasks' = tasks \ {t})
      BY <1>6 DEF Cancel, End
    <2> QED BY <2>1 DEF Aims
  <1>7. CASE Close(t)
    <2>1. t.pc = "close"
      BY <1>7 DEF Close
    <2>2. t.next = "eject"
      BY <1>1, <2>1 DEF TaskOK
    <2> QED BY <2>1, <2>2 DEF Aims
  <1>8. CASE Reinvite(t) \/ Sweep(t)
    BY <1>8 DEF Reinvite, Sweep, End
  <1> QED BY <1>2, <1>3, <1>4, <1>5, <1>6, <1>7, <1>8 DEF Step

LEMMA ExemptNext ==
    ASSUME Basics, Exempt, EventsAssumption, [Next]_vars
    PROVE  Exempt'
  <1>1. /\ TypeOK /\ OpsOK /\ \A w \in tasks : TaskOK(w) /\ w \in Tasks
    BY DEF Basics, TypeOK
  <1>2. CASE roles' = roles /\ tasks' = tasks /\ blacklist' = blacklist
    BY <1>2 DEF Exempt, Removable, Role, Aims
  <1>3. CASE UserActs
    <2>1. PICK op, members, invited, open : Event(op, members, invited, open)
      BY <1>1, <1>3, UserActsAreEvents
    <2>2. /\ UNCHANGED <<roles, blacklist>>
          /\ tasks' = tasks \cup {NewTask(op, b) : b \in inRoom \cap Bots}
      BY <2>1 DEF Event, Happens, store, settings
    <2>3. \A w \in tasks' : w \in tasks \/ w.pc = "start"
      BY <2>2 DEF NewTask
    <2> QED BY <2>2, <2>3 DEF Exempt, Removable, Role, Aims
  <1>4. ASSUME NEW t \in tasks, Step(t) PROVE Exempt'
    <2>1. Advances(t) /\ Changes(t)
      BY <1>1, <1>4, StepAdvances, StepChanges DEF OpsOK
    <2>2. \A op : Removable(op) => Removable(op)'
      BY <2>1 DEF Removable, Changes, settings, Role
    <2>3. \A w \in tasks' : w \in tasks \/ w.op = t.op
      BY <2>1 DEF Advances
    <2>4. \A w \in tasks' \ tasks : Aims(w) => Removable(t.op)
      BY <1>4, BeginExempts, StepExempts DEF Exempt
    <2>5. \A w : Aims(w)' <=> Aims(w)
      BY DEF Aims
    <2> QED BY <2>2, <2>3, <2>4, <2>5 DEF Exempt
  <1> QED BY <1>1, <1>2, <1>3, <1>4, OtherChanges DEF Next, vars, store, settings

\* Who is removed by a handler.
LEMMA StepRemoves ==
    ASSUME Basics, Exempt, EventsAssumption, NEW t \in tasks, Step(t), inRoom' # inRoom
    PROVE  /\ inRoom' = inRoom \ {t.op.actor}
           /\ BotKicked(t.op) \/ Removable(t.op)
  <1>1. TypeOK /\ TaskOK(t) /\ OpsOK
    BY DEF Basics
  <1>2. Changes(t)
    BY <1>1, StepChanges DEF OpsOK
  <1>3. t.pc \in {"eject", "retry", "strike", "sweep"}
    BY DEF Step, Begin, Eject, Retry, AutoBlacklist, Ejected, Defend, Strike, Struck, Cancel, Close,
       Reinvite, Sweep, RoomBecomes, room
  <1>4. t.pc = "strike" => BotKicked(t.op)
    BY <1>1 DEF TaskOK
  <1> QED BY <1>2, <1>3, <1>4 DEF Changes, Exempt, Aims

\* Holders of a role are exempt: a handler removes one only for removing a bot,
\* and a GAdmin for inviting one or for joining while on the blacklist. This is
\* about every step, whenever settings and the blacklist change meanwhile.
THEOREM ExemptAreSafe == Spec => RoleHoldersExempt
  <1> DEFINE Allowed ==
        \A m \in Users \cap (inRoom \ inRoom') :
           sent' = sent /\ Role(m) # RoleUser =>
             \E t \in tasks :
                /\ t.op.actor = m
                /\ \/ BotKicked(t.op)
                   \/ t.op.type = "invite" /\ IsBot(t.op.target) /\ Role(m) = RoleGAdmin
                   \/ t.op.type = "join" /\ m \in blacklist /\ Role(m) = RoleGAdmin
  <1>1. Init => Basics /\ Exempt
    <2>1. Init => Exempt
      BY DEF Init, Exempt
    <2> QED BY <2>1, InitBasics, EventsAssumption
  <1>2. Basics /\ Exempt /\ [Next]_vars => (Basics /\ Exempt)'
    BY NextBasics, ExemptNext, EventsAssumption
  <1>3. ASSUME Basics, Exempt, [Next]_vars
        PROVE  [Allowed]_vars
    <2>1. CASE UserActs
      <3>1. PICK op, members, invited, open : Event(op, members, invited, open)
        BY <1>3, <2>1, UserActsAreEvents, EventsAssumption DEF Basics
      <3>2. sent' = sent + 1 /\ sent \in Nat
        BY <1>3, <3>1 DEF Event, Happens, Basics, TypeOK
      <3> QED BY <3>2
    <2>2. CASE TimePasses \/ Commands
      BY <1>3, <2>2, OtherChanges, EventsAssumption DEF Basics, room
    <2>3. ASSUME NEW t \in tasks, Step(t) PROVE Allowed
      <3>1. CASE inRoom' = inRoom
        BY <3>1
      <3>2. CASE inRoom' # inRoom
        BY <1>3, <2>3, <3>2, StepRemoves, EventsAssumption DEF Removable
      <3> QED BY <3>1, <3>2
    <2> QED BY <1>3, <2>1, <2>2, <2>3 DEF Next
  <1> QED BY <1>1, <1>2, <1>3, PTL DEF Spec, RoleHoldersExempt

-----------------------------------------------------------------------------
(* A handler in pursuit of a user does not give up while the user stays.   *)

\* A defence is done only when the user is gone.
LEMMA DefenceIsDone ==
    ASSUME Basics, EventsAssumption, NEW t \in tasks, Step(t), NEW id, Defended(id)'
    PROVE  Defended(id) \/ (t.op.id = id /\ t.op.actor \notin inRoom')
  <1>1. /\ TypeOK /\ TaskOK(t) /\ t \in Tasks
    BY DEF Basics, TypeOK
  <1>2. CASE id \in defended' /\ id \notin defended
    <2>1. Struck(t)
      BY <1>2 DEF Step, Begin, Eject, Retry, AutoBlacklist, Ejected, Defend, Strike, Cancel, Close,
         Reinvite, Sweep, engine
    <2>2. t.pc = "struck" /\ t.next = "mark" /\ id = t.op.id
      BY <1>2, <2>1 DEF Struck
    <2> QED BY <2>2 DEF Defended
  <1>3. ASSUME NEW w \in tasks' \ tasks, w.op.id = id, w.pc = "struck", w.next = "mark"
        PROVE  Defended(id) \/ (t.op.id = id /\ t.op.actor \notin inRoom')
    <2>1. CASE AutoBlacklist(t)
      <3>1. w = [t EXCEPT !.saved = TRUE]
        BY <2>1 DEF AutoBlacklist, Become
      <3>2. w.pc = t.pc /\ w.next = t.next /\ w.op = t.op
        BY <1>1, <3>1 DEF Tasks
      <3> QED BY <1>3, <3>2 DEF Defended
    <2>2. CASE Strike(t)
      <3>1. CASE KickWorks(t, t.bot) /\ tasks' = (tasks \ {t}) \cup {[t EXCEPT !.pc = "struck", !.next = "mark"]}
        <4>1. w.op = t.op /\ t.op.actor \notin inRoom'
          BY <1>1, <3>1 DEF KickWorks, RoomBecomes, Tasks
        <4> QED BY <1>3, <4>1
      <3>2. CASE tasks' = (tasks \ {t}) \cup {[t EXCEPT !.pc = "struck"]}
        <4>1. w.next = t.next /\ t.pc = "strike"
          BY <1>1, <2>2, <3>2 DEF Strike, Tasks
        <4> QED BY <1>1, <1>3, <4>1 DEF TaskOK
      <3> QED BY <2>2, <3>1, <3>2 DEF Strike, Become
    <2>3. CASE Begin(t)
      <3>1. w.pc # "struck"
        <4>1. t = NewTask(t.op, t.bot)
          BY <1>1, <2>3 DEF Begin, TaskOK
        <4>2. \A p, pc, next : Proceed(t, p, pc, next) => w.pc = pc
          BY <4>1, ProceedsTo
        <4>3. CASE Dropped(t)
          BY <1>1, <4>3, <4>1, ProceedsTo DEF Dropped, AfterJoin, Become, End, Tasks
        <4>4. CASE Taken(t)
          <5>1. t.op.type \in OpTypes
            BY <1>1 DEF Tasks, Ops
          <5>2. CASE BotKicked(t.op)
            BY <1>1, <4>4, <5>2, TakenDecides DEF DecideDefense, Become, End, Tasks
          <5>3. CASE t.op.type = "join"
            BY <1>1, <4>4, <5>3, TakenDecides DEF Become, Tasks
          <5>4. CASE ~BotKicked(t.op) /\ t.op.type # "join"
            BY <4>1, <4>2, <4>4, <5>1, <5>4, ProceedsTo, TakenDecides DEF OpTypes, DecideInvite,
               DecideCancel, DecideQR, DecideKick
          <5> QED BY <5>2, <5>3, <5>4
        <4> QED BY <2>3, <4>3, <4>4 DEF Begin
      <3> QED BY <1>3, <3>1
    <2>4. CASE Eject(t)
      <3>1. \/ w = [t EXCEPT !.pc = "ejected"]
            \/ w = LET others == Alternatives(t.by, member', cooling')
                   IN  [t EXCEPT !.pc = IF others = {} THEN "ejected" ELSE "retry", !.left = others]
        BY <2>4 DEF Eject, Become
      <3>2. w.pc # "struck"
        BY <1>1, <3>1 DEF Tasks
      <3> QED BY <1>3, <3>2
    <2>7. ASSUME NEW p \in Bots, Retry(t, p) PROVE FALSE
      <3>1. \/ w = [t EXCEPT !.pc = "ejected", !.left = {}]
            \/ w = [t EXCEPT !.pc = IF t.left = {p} THEN "ejected" ELSE "retry", !.left = @ \ {p}]
        BY <2>7 DEF Retry, Become
      <3>2. w.pc # "struck"
        BY <1>1, <3>1 DEF Tasks
      <3> QED BY <1>3, <3>2
    <2>5. CASE Ejected(t) \/ Defend(t) \/ Cancel(t) \/ Close(t)
      <3>1. w \in {[t EXCEPT !.pc = "reinvite", !.next = "end"], [t EXCEPT !.pc = "strike"],
                   [t EXCEPT !.pc = "eject", !.next = "end"]}
        BY <2>5 DEF Ejected, Defend, Cancel, Close, Become, End
      <3> QED BY <1>1, <1>3, <3>1 DEF Tasks
    <2>6. CASE Struck(t) \/ Reinvite(t) \/ Sweep(t)
      BY <2>6 DEF Struck, Reinvite, Sweep, End
    <2> QED BY <2>1, <2>2, <2>3, <2>4, <2>5, <2>6, <2>7 DEF Step
  <1> QED BY <1>2, <1>3 DEF Defended

\* The step of one handler does not stop another.
LEMMA OthersPursue ==
    ASSUME Basics, EventsAssumption, NEW t \in tasks, Step(t),
           NEW w \in tasks, w # t, Pursues(w), w.op.actor \in inRoom'
    PROVE  w \in tasks' /\ Pursues(w)'
  <1>1. TypeOK /\ TaskOK(t) /\ OpsOK
    BY DEF Basics
  <1>2. w \in tasks'
    BY <1>1, StepAdvances DEF Advances
  <1>3. CASE w.pc \in {"eject", "retry"}
    BY <1>2, <1>3 DEF Pursues
  <1>4. CASE BotKicked(w.op) /\ w \in Defenders(w.op)
    <2>1. Defended(w.op.id)' => Defended(w.op.id)
      BY <1>1, DefenceIsDone DEF OpsOK
    <2>2. w \in Defenders(w.op)'
      BY <1>2, <1>4, <2>1 DEF Defenders
    <2> QED BY <1>2, <1>4, <2>2 DEF Pursues, BotKicked
  <1> QED BY <1>3, <1>4 DEF Pursues

\* A defender that leaves others behind.
LEMMA OthersDefend ==
    ASSUME Basics, EventsAssumption, NEW t \in tasks, Step(t), BotKicked(t.op),
           t \in Defenders(t.op), Defenders(t.op) # {t}, t.op.actor \in inRoom'
    PROVE  \E w \in tasks' : w.op = t.op /\ Pursues(w)'
  <1>1. PICK w \in Defenders(t.op) : w # t
    OBVIOUS
  <1>2. w \in tasks /\ w.op = t.op /\ Pursues(w)
    BY <1>1 DEF Defenders, Pursues
  <1> QED BY <1>1, <1>2, OthersPursue

\* A defender that goes on.
LEMMA GoesOnDefending ==
    ASSUME Basics, EventsAssumption, NEW t \in tasks, Step(t), BotKicked(t.op),
           t \in Defenders(t.op), t.op.actor \in inRoom',
           NEW w \in tasks', w.op = t.op, w.bot = t.bot,
           w.pc = "strike" \/ (w.pc = "defend" /\ t.pc # "strike")
    PROVE  w.op = t.op /\ Pursues(w)'
  <1>1. t.bot # t.op.target
    BY DEF Defenders
  <1>2. CASE w.pc = "strike"
    BY <1>1, <1>2 DEF Pursues, Defenders, BotKicked
  <1>3. CASE w.pc = "defend" /\ t.pc # "strike"
    <2>1. ~Defended(t.op.id)
      BY <1>3 DEF Defenders
    <2>2. ~Defended(t.op.id)'
      BY <2>1, DefenceIsDone
    <2> QED BY <1>1, <1>3, <2>2 DEF Pursues, Defenders, BotKicked
  <1> QED BY <1>2, <1>3

\* Some handler goes on with the pursuit, unless something went wrong.
LEMMA PursuitGoesOn ==
    ASSUME Basics, EventsAssumption, NEW t \in tasks, Step(t), Pursues(t),
           t.op.actor \in inRoom', inRoom \cap Bots # {},
           causes' \cap {"fault", "absent", "deferred", "repeat"} = {}
    PROVE  \E w \in tasks' : /\ w.op = t.op /\ Pursues(w)'
                             /\ t.pc \in {"eject", "retry"} => w.next = t.next
  <1>1. /\ TypeOK /\ OpsOK /\ RoomOK /\ SeenOK /\ TaskOK(t) /\ t \in Tasks
        /\ t.op.actor \in Users /\ t.op.actor \in Mids /\ t.op.actor \notin Bots
    BY DEF Basics, TypeOK, Tasks, Ops, EventsAssumption, Mids
  <1>2. Advances(t) /\ Changes(t)
    BY <1>1, StepAdvances, StepChanges DEF OpsOK
  <1>3. t.op.actor \in inRoom
    BY <1>2 DEF Changes
  <1>4. CASE Begin(t)
    <2>1. /\ t.pc = "start" /\ BotKicked(t.op) /\ t \in Defenders(t.op)
      BY <1>4 DEF Begin, Pursues
    <2>2. ~Dropped(t)
      BY <1>1, <2>1 DEF Dropped, Deduped, SeenOK, BotKicked
    <2>3. DecideDefense(t, Observed(t.op))
      BY <1>4, <2>1, <2>2, TakenDecides DEF Begin
    <2>4. CASE tasks' = (tasks \ {t}) \cup {[t EXCEPT !.pc = "defend"]}
      <3> DEFINE w == [t EXCEPT !.pc = "defend"]
      <3>1. w \in tasks' /\ w.op = t.op /\ w.bot = t.bot /\ w.pc = "defend"
        BY <1>1, <2>4 DEF Tasks
      <3> QED BY <2>1, <3>1, GoesOnDefending
    <2>5. CASE Deferred(t)
      <3>1. Defenders(t.op) # {t}
        BY <1>3, <2>5 DEF Deferred, LeavesIt
      <3> QED BY <2>1, <3>1, OthersDefend
    <2> QED BY <2>3, <2>4, <2>5 DEF DecideDefense, Become
  <1>5. CASE Defend(t)
    <2>1. /\ t.pc = "defend" /\ BotKicked(t.op) /\ t \in Defenders(t.op)
      BY <1>5 DEF Defend, Pursues
    <2>2. CASE tasks' = (tasks \ {t}) \cup {[t EXCEPT !.pc = "strike"]}
      <3> DEFINE w == [t EXCEPT !.pc = "strike"]
      <3>1. w \in tasks' /\ w.op = t.op /\ w.bot = t.bot /\ w.pc = "strike"
        BY <1>1, <2>2 DEF Tasks
      <3> QED BY <2>1, <3>1, GoesOnDefending
    <2>3. CASE Deferred(t)
      <3>1. Defenders(t.op) # {t}
        BY <1>3, <2>3 DEF Deferred, LeavesIt
      <3> QED BY <2>1, <3>1, OthersDefend
    <2> QED BY <1>5, <2>2, <2>3 DEF Defend, Become
  <1>6. CASE Strike(t)
    <2>1. /\ t.pc = "strike" /\ BotKicked(t.op) /\ t \in Defenders(t.op)
      BY <1>6 DEF Strike, Pursues
    <2>2. ~KickWorks(t, t.bot)
      BY DEF KickWorks, RoomBecomes
    <2>3. KickFails(t, t.bot, Defenders(t.op) = {t})
      BY <1>6, <2>2 DEF Strike
    <2>4. Defenders(t.op) # {t}
      BY <1>3, <2>3 DEF KickFails, Fault
    <2> QED BY <2>1, <2>4, OthersDefend
  <1>7. CASE Eject(t)
    <2>1. ~KickWorks(t, t.by) /\ t.pc = "eject"
      BY <1>7 DEF KickWorks, RoomBecomes, Eject
    <2>2. KickFails(t, t.by, FALSE) /\ Confirm(t.by)
      BY <1>7, <2>1 DEF Eject
    <2>3. t.by \notin inRoom
      BY <1>3, <2>2 DEF KickFails, Fault
    <2> DEFINE others == Alternatives(t.by, member', cooling')
    <2>4. inRoom \cap Bots \subseteq member' \ {t.by}
      BY <1>1, <2>2, <2>3 DEF Confirm, RoomOK
    <2>5. others # {}
      BY <2>4, RankedIsSome DEF Alternatives
    <2> HIDE DEF others
    <2> DEFINE w == [t EXCEPT !.pc = "retry", !.left = others]
    <2>6. w \in tasks'
      BY <1>7, <2>1, <2>5 DEF Eject, Become, others
    <2>7. w.op = t.op /\ w.pc = "retry" /\ w.next = t.next
      BY <1>1 DEF Tasks
    <2> QED BY <2>6, <2>7 DEF Pursues
  <1>8. ASSUME NEW p \in Bots, Retry(t, p)
        PROVE  \E w \in tasks' : w.op = t.op /\ Pursues(w)' /\ w.next = t.next
    <2>1. ~KickWorks(t, p)
      BY DEF KickWorks, RoomBecomes
    <2>2. KickFails(t, p, t.left = {p})
      BY <1>8, <2>1 DEF Retry
    <2>3. t.left # {p}
      BY <1>3, <2>2 DEF KickFails, Fault
    <2> DEFINE w == [t EXCEPT !.pc = "retry", !.left = t.left \ {p}]
    <2>4. w \in tasks'
      BY <1>8, <2>1, <2>3 DEF Retry, Become
    <2>5. w.op = t.op /\ w.pc = "retry" /\ w.next = t.next
      BY <1>1 DEF Tasks
    <2> QED BY <2>4, <2>5 DEF Pursues
  <1>9. CASE AutoBlacklist(t)
    <2> DEFINE w == [t EXCEPT !.saved = TRUE]
    <2>1. w \in tasks'
      BY <1>9 DEF AutoBlacklist, Become
    <2>2. w.op = t.op /\ w.bot = t.bot /\ w.pc = t.pc /\ w.next = t.next
      BY <1>1 DEF Tasks
    <2>3. CASE t.pc \in {"eject", "retry"}
      BY <2>1, <2>2, <2>3 DEF Pursues
    <2>4. CASE BotKicked(t.op) /\ t \in Defenders(t.op)
      <3>1. t.pc = "strike"
        BY <1>9, <2>4 DEF AutoBlacklist, Defenders
      <3> QED BY <2>1, <2>2, <2>4, <3>1, GoesOnDefending
    <2> QED BY <2>3, <2>4 DEF Pursues
  <1>10. CASE Ejected(t) \/ Struck(t) \/ Cancel(t) \/ Close(t) \/ Reinvite(t) \/ Sweep(t)
    BY <1>10 DEF Pursues, Defenders, Ejected, Struck, Cancel, Close, Reinvite, Sweep
  <1> QED BY <1>4, <1>5, <1>6, <1>7, <1>8, <1>9, <1>10, StepSees DEF Step, Begin, Defend, Strike

-----------------------------------------------------------------------------
(* A handler takes on the debts of its operation.                          *)

\* What is owed for an operation, by its kind.
LEMMA DebtsByKind ==
    ASSUME NEW op, TypeOK, EventsAssumption
    PROVE  /\ op.type = "invite" => \A d \in Debt(op) :
                /\ InviteGuarded /\ ~InviteAllowed(op) /\ CreatorCanKick(op.actor)
                /\ d \in {Removal(op.actor), Cancellation(op.target)}
           /\ op.type = "cancel" => \A d \in Debt(op) :
                CancelGuarded /\ Role(op.actor) = RoleUser /\ d = Removal(op.actor)
           /\ op.type = "qr" => \A d \in Debt(op) :
                QRGuarded /\ Role(op.actor) = RoleUser /\ d \in {Removal(op.actor), Closing}
           /\ BotKicked(op) => Debt(op) = {Removal(op.actor)}
           /\ op.type = "kick" /\ ~BotKicked(op) => \A d \in Debt(op) :
                \/ /\ Role(op.target) < RoleOwner /\ ~KickExempt(op) /\ d = Removal(op.actor)
                \/ /\ ~(Role(op.target) < RoleOwner) /\ Role(op.actor) # RoleCreator
                   /\ \/ d = Reinvitation(op.target)
                      \/ d = Removal(op.actor) /\ Role(op.actor) = RoleUser /\ "kick" \in protection
           /\ op.type = "join" => Debt(op) = {}
  <1>1. Role(op.actor) \in RoleUser..RoleCreator /\ Role(op.target) \in RoleUser..RoleCreator
    BY DEF TypeOK, Role, RoleUser, RoleCreator
  <1>2. CASE op.type = "invite"
    BY <1>1, <1>2 DEF Debt, BotKicked, InviteAllowed, CreatorCanKick, RoleUser, RoleGAdmin, RoleCreator
  <1>3. CASE op.type = "cancel"
    BY <1>3 DEF Debt, BotKicked
  <1>4. CASE op.type = "qr"
    BY <1>4 DEF Debt, BotKicked
  <1>5. CASE BotKicked(op)
    <2>1. op.target \notin Users /\ op.type = "kick"
      BY <1>5 DEF BotKicked, IsBot, EventsAssumption
    <2>2. Role(op.target) < RoleOwner
      BY <2>1 DEF Role, RoleUser, RoleOwner
    <2> QED BY <1>1, <1>5, <2>1, <2>2 DEF Debt, RoleOwner, RoleUser, RoleCreator
  <1>6. CASE op.type = "kick" /\ ~BotKicked(op)
    BY <1>1, <1>6 DEF Debt, KickExempt, RoleUser, RoleOwner, RoleCreator
  <1>7. CASE op.type = "join"
    BY <1>7 DEF Debt, BotKicked
  <1> QED BY <1>2, <1>3, <1>4, <1>5, <1>6, <1>7 DEF BotKicked

\* What a handler does that proceeds with a bot.
LEMMA ProceedsWithBot ==
    ASSUME NEW t \in tasks, t = NewTask(t.op, t.bot), EventsAssumption,
           NEW p \in Bots, NEW pc, NEW next, Proceed(t, p, pc, next)
    PROVE  \E w \in tasks' : w.op = t.op /\ w.pc = pc /\ w.next = next
  <1> DEFINE w == [t EXCEPT !.pc = pc, !.by = p, !.next = next]
  <1>1. w \in tasks'
    BY DEF Proceed, Become, EventsAssumption, Mids
  <1>2. w.op = t.op /\ w.pc = pc /\ w.next = next
    BY DEF NewTask
  <1> QED BY <1>1, <1>2

\* The first handler of an operation takes on what is owed for it.
LEMMA BeginTakesOn ==
    ASSUME Basics, EventsAssumption, NEW t \in tasks, Begin(t), Waiting(t), ~BotKicked(t.op),
           NEW d \in Debt(t.op), "repeat" \notin causes'
    PROVE  \E w \in tasks' : Carries(w, d)'
  <1>1. /\ TypeOK /\ OpsOK /\ TaskOK(t) /\ t \in Tasks /\ t.pc = "start" /\ t = NewTask(t.op, t.bot)
        /\ t.bot \in Bots /\ member \subseteq Bots /\ Observed(t.op) \subseteq Bots
        /\ t.op.type \in OpTypes
    BY DEF Basics, TypeOK, Begin, TaskOK, Tasks, Ops, Observed
  <1>2. ~Dropped(t)
    <2>1. Deduped(t.op)
      BY <1>1, DebtsByKind DEF Deduped
    <2> QED BY <2>1 DEF Dropped, Waiting
  <1>3. Taken(t)
    BY <1>2 DEF Begin
  <1>4. ASSUME NEW w,
               \/ d = Removal(w.op.actor) /\ (w.pc = "eject" \/ (w.pc \in {"cancel", "close"} /\ w.next = "eject"))
               \/ d = Cancellation(w.op.target) /\ w.pc = "cancel"
               \/ d = Closing /\ w.pc = "close"
               \/ d = Reinvitation(w.op.target) /\ "reinvite" \in {w.pc, w.next}
        PROVE  Carries(w, d)'
    BY <1>4 DEF Carries, Pursues, Removal, Cancellation, Closing, Reinvitation
  <1>5. CASE t.op.type = "invite"
    <2>1. /\ InviteGuarded /\ ~InviteAllowed(t.op) /\ CreatorCanKick(t.op.actor)
          /\ d \in {Removal(t.op.actor), Cancellation(t.op.target)}
      BY <1>1, <1>5, DebtsByKind
    <2>2. PICK p \in Protectors(member, Nobody, t.bot) : Proceed(t, p, "cancel", "eject")
      BY <1>3, <1>5, <2>1, TakenDecides DEF DecideInvite
    <2>3. p \in Bots
      BY <1>1, ProtectorsAreBots DEF EventsAssumption, Mids
    <2>4. PICK w \in tasks' : w.op = t.op /\ w.pc = "cancel" /\ w.next = "eject"
      BY <1>1, <2>2, <2>3, ProceedsWithBot
    <2> QED BY <1>4, <2>1, <2>4
  <1>6. CASE t.op.type = "cancel"
    <2>1. CancelGuarded /\ Role(t.op.actor) = RoleUser /\ d = Removal(t.op.actor)
      BY <1>1, <1>6, DebtsByKind
    <2>2. PICK p \in Protectors(Observed(t.op), t.op.target, t.bot) : Proceed(t, p, "eject", "end")
      BY <1>3, <1>6, <2>1, TakenDecides DEF DecideCancel
    <2>3. p \in Bots
      BY <1>1, <1>6, ProtectorsAreBots DEF OpsOK
    <2>4. PICK w \in tasks' : w.op = t.op /\ w.pc = "eject"
      BY <1>1, <2>2, <2>3, ProceedsWithBot
    <2> QED BY <1>4, <2>1, <2>4
  <1>7. CASE t.op.type = "qr"
    <2>1. Role(t.op.actor) = RoleUser /\ d \in {Removal(t.op.actor), Closing}
      BY <1>1, <1>7, DebtsByKind
    <2>2. PICK p \in Protectors(member, Nobody, t.bot) : Proceed(t, p, "close", "eject")
      BY <1>3, <1>7, <2>1, TakenDecides DEF DecideQR
    <2>3. p \in Bots
      BY <1>1, ProtectorsAreBots DEF EventsAssumption, Mids
    <2>4. PICK w \in tasks' : w.op = t.op /\ w.pc = "close" /\ w.next = "eject"
      BY <1>1, <2>2, <2>3, ProceedsWithBot
    <2> QED BY <1>4, <2>1, <2>4
  <1>8. CASE t.op.type = "kick"
    <2>1. DecideKick(t) /\ t.bot # t.op.target
      BY <1>1, <1>3, <1>8, TakenDecides DEF BotKicked, IsBot
    <2>2. PICK p \in Protectors(member, t.op.target, t.bot) :
            IF Role(t.op.target) < RoleOwner
            THEN IF KickExempt(t.op) THEN Nothing(t) ELSE Proceed(t, p, "eject", "end")
            ELSE IF Role(t.op.actor) = RoleCreator THEN Nothing(t)
            ELSE IF Role(t.op.actor) = RoleUser /\ "kick" \in protection
            THEN Proceed(t, p, "eject", "reinvite") ELSE Proceed(t, p, "reinvite", "end")
      BY <2>1 DEF DecideKick
    <2>3. p \in Bots
      BY <1>1, <2>1, ProtectorsAreBots
    <2>4. CASE Role(t.op.target) < RoleOwner
      <3>1. d = Removal(t.op.actor) /\ ~KickExempt(t.op)
        BY <1>1, <1>8, <2>4, DebtsByKind
      <3>2. PICK w \in tasks' : w.op = t.op /\ w.pc = "eject"
        BY <1>1, <2>2, <2>3, <2>4, <3>1, ProceedsWithBot
      <3> QED BY <1>4, <3>1, <3>2
    <2>5. CASE ~(Role(t.op.target) < RoleOwner)
      <3>1. /\ Role(t.op.actor) # RoleCreator
            /\ \/ d = Reinvitation(t.op.target)
               \/ d = Removal(t.op.actor) /\ Role(t.op.actor) = RoleUser /\ "kick" \in protection
        BY <1>1, <1>8, <2>5, DebtsByKind
      <3>2. CASE Role(t.op.actor) = RoleUser /\ "kick" \in protection
        <4>1. PICK w \in tasks' : w.op = t.op /\ w.pc = "eject" /\ w.next = "reinvite"
          BY <1>1, <2>2, <2>3, <2>5, <3>1, <3>2, ProceedsWithBot
        <4> QED BY <1>4, <3>1, <4>1
      <3>3. CASE ~(Role(t.op.actor) = RoleUser /\ "kick" \in protection)
        <4>1. PICK w \in tasks' : w.op = t.op /\ w.pc = "reinvite"
          BY <1>1, <2>2, <2>3, <2>5, <3>1, <3>3, ProceedsWithBot
        <4> QED BY <1>4, <3>1, <3>3, <4>1
      <3> QED BY <3>2, <3>3
    <2> QED BY <2>4, <2>5
  <1>9. CASE t.op.type = "join"
    BY <1>1, <1>9, DebtsByKind
  <1> QED BY <1>1, <1>5, <1>6, <1>7, <1>8, <1>9 DEF OpTypes

-----------------------------------------------------------------------------
(* Until it is paid, a debt is carried.                                    *)

\* What it means for the room that a debt stands.
LEMMA WhatStands ==
    ASSUME NEW debts, NEW members, NEW invited, NEW open,
           debts = Standing(debts, members, invited, open)
    PROVE  /\ \A m : Removal(m) \in debts => m \in members
           /\ \A m : Cancellation(m) \in debts => m \in members \cup invited
           /\ Closing \in debts => open
           /\ \A m : Reinvitation(m) \in debts => m \notin members \cup invited
  <1>1. \A d \in debts : \/ d.what = "remove" /\ d.who \in members
                         \/ d.what = "cancel" /\ d.who \in members \cup invited
                         \/ d.what = "close" /\ open
                         \/ d.what = "reinvite" /\ d.who \notin members \cup invited
    BY DEF Standing
  <1>2. \A m : /\ Removal(m).what = "remove" /\ Removal(m).who = m
               /\ Cancellation(m).what = "cancel" /\ Cancellation(m).who = m
               /\ Reinvitation(m).what = "reinvite" /\ Reinvitation(m).who = m
    BY DEF Removal, Cancellation, Reinvitation
  <1>3. Closing.what = "close"
    BY DEF Closing
  <1> QED BY <1>1, <1>2, <1>3

\* A handler that changes the room reckons anew what is owed.
LEMMA StepReckons ==
    ASSUME NEW t, Step(t)
    PROVE  \/ UNCHANGED <<inRoom, invitees, qrOpen, owed>>
           \/ owed' = Standing(owed, inRoom', invitees', qrOpen')
  <1>1. \A members, invited, open : RoomBecomes(members, invited, open) =>
          owed' = Standing(owed, inRoom', invitees', qrOpen')
    BY DEF RoomBecomes
  <1>2. CASE Begin(t) \/ AutoBlacklist(t) \/ Ejected(t) \/ Defend(t) \/ Struck(t)
    BY <1>2 DEF Begin, AutoBlacklist, Ejected, Defend, Struck, room, history
  <1>3. CASE Eject(t) \/ Strike(t) \/ Sweep(t) \/ \E p \in Bots : Retry(t, p)
    BY <1>1, <1>3 DEF Eject, Strike, Sweep, Retry, KickWorks, KickFails, room
  <1>4. CASE Cancel(t) \/ Close(t) \/ Reinvite(t)
    BY <1>1, <1>4 DEF Cancel, Close, Reinvite, room
  <1> QED BY <1>2, <1>3, <1>4 DEF Step

\* The debts that a handler carries are paid or carried on.
LEMMA CarriesOn ==
    ASSUME Basics, EventsAssumption, Owed, NEW t \in tasks, Step(t),
           owed' = Standing(owed', inRoom', invitees', qrOpen'), owed' \subseteq owed,
           causes \subseteq causes', causes' \subseteq {"late", "returned"},
           NEW d \in owed', Carries(t, d)
    PROVE  \E w \in tasks' : Carries(w, d)'
  <1>1. /\ TypeOK /\ OpsOK /\ TaskOK(t) /\ t \in Tasks
    BY DEF Basics, TypeOK
  <1>2. /\ Changes(t) /\ inRoom' \subseteq inRoom
    BY <1>1, StepChanges DEF OpsOK, Changes
  <1>3. /\ \A m : Removal(m) \in owed' => m \in inRoom'
        /\ \A m : Cancellation(m) \in owed' => m \in inRoom' \cup invitees'
        /\ Closing \in owed' => qrOpen'
        /\ \A m : Reinvitation(m) \in owed' => m \notin inRoom' \cup invitees'
    <2> DEFINE debts == owed'  members == inRoom'  invited == invitees'  open == qrOpen'
    <2>1. debts = Standing(debts, members, invited, open)
      OBVIOUS
    <2> HIDE DEF debts, members, invited, open
    <2>2. /\ \A m : Removal(m) \in debts => m \in members
          /\ \A m : Cancellation(m) \in debts => m \in members \cup invited
          /\ Closing \in debts => open
          /\ \A m : Reinvitation(m) \in debts => m \notin members \cup invited
      BY <2>1, WhatStands
    <2> QED BY <2>2 DEF debts, members, invited, open
  <1>4. inRoom \cap Bots # {} /\ \A m \in inRoom : Cancellation(m) \notin owed
    BY DEF Owed
  <1>5. \A m : Cancellation(m) \in owed => m \in invitees
    BY <1>4, WhatStands DEF Owed
  <1>6. /\ \A m : Removal(m)' = Removal(m) /\ Cancellation(m)' = Cancellation(m)
                  /\ Reinvitation(m)' = Reinvitation(m)
        /\ Closing' = Closing
    BY DEF Removal, Cancellation, Reinvitation, Closing
  <1>7. CASE d = Removal(t.op.actor) /\ Pursues(t)
    <2>1. t.op.actor \in inRoom'
      BY <1>3, <1>7
    <2>2. PICK w \in tasks' : w.op = t.op /\ Pursues(w)'
      BY <1>4, <1>7, <2>1, PursuitGoesOn
    <2> QED BY <1>6, <1>7, <2>2 DEF Carries
  <1>8. ASSUME tasks' = (tasks \ {t}) \cup {[t EXCEPT !.pc = "eject", !.next = "end"]},
               d = Removal(t.op.actor)
        PROVE  \E w \in tasks' : Carries(w, d)'
    <2> DEFINE w == [t EXCEPT !.pc = "eject", !.next = "end"]
    <2>1. w \in tasks' /\ w.op = t.op /\ w.pc = "eject"
      BY <1>1, <1>8 DEF Tasks
    <2> QED BY <1>6, <1>8, <2>1 DEF Carries, Pursues
  <1>9. CASE t.pc = "cancel"
    <2>1. Cancel(t)
      BY <1>9 DEF Step, Begin, Eject, Retry, AutoBlacklist, Ejected, Defend, Strike, Struck, Close,
         Reinvite, Sweep
    <2>2. CASE d = Removal(t.op.actor) /\ t.next = "eject"
      BY <1>8, <2>1, <2>2 DEF Cancel, Become
    <2>3. d # Cancellation(t.op.target)
      <3>1. SUFFICES ASSUME d = Cancellation(t.op.target) PROVE FALSE
        OBVIOUS
      <3>2. t.op.target \in invitees /\ t.op.target \notin inRoom /\ t.op.target \in inRoom' \cup invitees'
        BY <1>3, <1>4, <1>5, <3>1
      <3>3. t.op.target \in invitees'
        BY <1>2, <3>2
      <3> QED BY <2>1, <3>2, <3>3 DEF Cancel, RoomBecomes, Fault
    <2>4. t.next # "reinvite" /\ ~Waiting(t) /\ ~Pursues(t)
      BY <1>1, <1>9 DEF TaskOK, Waiting, Pursues, Defenders
    <2> QED BY <1>9, <2>2, <2>3, <2>4 DEF Carries
  <1>10. CASE t.pc = "close"
    <2>1. Close(t)
      BY <1>10 DEF Step, Begin, Eject, Retry, AutoBlacklist, Ejected, Defend, Strike, Struck, Cancel,
         Reinvite, Sweep
    <2>2. RoomBecomes(inRoom, invitees, FALSE) /\ Become(t, [t EXCEPT !.pc = "eject", !.next = "end"])
      <3>1. ~Fault /\ causes' # causes \cup {"absent"}
        BY DEF Fault
      <3> QED BY <2>1, <3>1 DEF Close
    <2>3. CASE d = Removal(t.op.actor)
      BY <1>8, <2>2, <2>3 DEF Become
    <2>4. d # Closing
      BY <1>3, <2>2 DEF RoomBecomes
    <2>5. t.next # "reinvite" /\ ~Waiting(t)
      BY <1>1, <1>10 DEF TaskOK, Waiting
    <2> QED BY <1>10, <2>3, <2>4, <2>5 DEF Carries
  <1>11. CASE t.pc = "reinvite" /\ d = Reinvitation(t.op.target)
    <2>1. Reinvite(t)
      BY <1>11 DEF Step, Begin, Eject, Retry, AutoBlacklist, Ejected, Defend, Strike, Struck, Cancel,
         Close, Sweep
    <2>2. RoomBecomes(inRoom, invitees \cup ({t.op.target} \ inRoom), qrOpen)
      BY <2>1 DEF Reinvite, Fault
    <2>3. t.op.target \in inRoom' \cup invitees'
      BY <2>2 DEF RoomBecomes
    <2> QED BY <1>3, <1>11, <2>3
  <1>12. CASE t.next = "reinvite" /\ d = Reinvitation(t.op.target)
    <2>1. t.pc \in {"eject", "retry", "ejected"}
      BY <1>1, <1>12 DEF TaskOK
    <2>2. Eject(t) \/ (\E p \in Bots : Retry(t, p)) \/ AutoBlacklist(t) \/ Ejected(t)
      BY <2>1 DEF Step, Begin, Defend, Strike, Struck, Cancel, Close, Reinvite, Sweep
    <2>3. PICK w \in tasks' : w.op = t.op /\ "reinvite" \in {w.pc, w.next}
      <3>1. CASE Eject(t)
        <4>1. PICK w \in tasks' : \/ w = [t EXCEPT !.pc = "ejected"]
                                  \/ \E pc, left : w = [t EXCEPT !.pc = pc, !.left = left]
          BY <3>1 DEF Eject, Become
        <4> QED BY <1>1, <1>12, <4>1 DEF Tasks
      <3>2. ASSUME NEW p \in Bots, Retry(t, p)
            PROVE  \E w \in tasks' : w.op = t.op /\ "reinvite" \in {w.pc, w.next}
        <4>1. PICK w \in tasks' :
                \/ w = [t EXCEPT !.pc = "ejected", !.left = {}]
                \/ w = [t EXCEPT !.pc = IF t.left = {p} THEN "ejected" ELSE "retry", !.left = @ \ {p}]
          BY <3>2 DEF Retry, Become
        <4> QED BY <1>1, <1>12, <4>1 DEF Tasks
      <3>3. CASE AutoBlacklist(t)
        <4>1. PICK w \in tasks' : w = [t EXCEPT !.saved = TRUE]
          BY <3>3 DEF AutoBlacklist, Become
        <4> QED BY <1>1, <1>12, <4>1 DEF Tasks
      <3>4. CASE Ejected(t)
        <4>1. PICK w \in tasks' : w = [t EXCEPT !.pc = "reinvite", !.next = "end"]
          BY <1>12, <3>4 DEF Ejected, Become
        <4> QED BY <1>1, <4>1 DEF Tasks
      <3> QED BY <2>2, <3>1, <3>2, <3>3, <3>4
    <2> QED BY <1>6, <1>12, <2>3 DEF Carries
  <1>13. CASE d \in Debt(t.op) /\ Waiting(t) /\ ~BotKicked(t.op)
    <2>1. Begin(t)
      BY <1>13 DEF Waiting, Step, Eject, Retry, AutoBlacklist, Ejected, Defend, Strike, Struck, Cancel,
         Close, Reinvite, Sweep
    <2> QED BY <1>13, <2>1, BeginTakesOn
  <1> QED BY <1>7, <1>9, <1>10, <1>11, <1>12, <1>13 DEF Carries

\* The step of one handler takes a wait from another only if both wait with the
\* same operation.
LEMMA OthersWait ==
    ASSUME Basics, EventsAssumption, NEW t \in tasks, Step(t),
           NEW w \in tasks, w # t, Waiting(w), ~BotKicked(w.op)
    PROVE  /\ w \in tasks'
           /\ Waiting(w)' \/ (Begin(t) /\ Waiting(t) /\ t.op = w.op)
  <1>1. TypeOK /\ TaskOK(t) /\ OpsOK
    BY DEF Basics
  <1>2. w \in tasks'
    BY <1>1, StepAdvances DEF Advances
  <1>3. \A v : DedupeKey(v)' = DedupeKey(v)
    BY DEF DedupeKey, BotKicked, eventKey
  <1>4. CASE <<DedupeKey(w), w.op.id>> \notin seen'
    BY <1>2, <1>3, <1>4 DEF Waiting
  <1>5. CASE <<DedupeKey(w), w.op.id>> \in seen'
    <2>1. Begin(t) /\ <<DedupeKey(w), w.op.id>> = <<DedupeKey(t), t.op.id>>
      BY <1>5, StepSees DEF Waiting
    <2>2. t.op = w.op
      BY <1>1, <2>1 DEF OpsOK
    <2>3. Waiting(t)
      BY <2>1 DEF Waiting, Begin
    <2> QED BY <1>2, <2>1, <2>2, <2>3
  <1> QED BY <1>4, <1>5

\* What is owed for an operation does not depend on what the handlers do.
LEMMA DebtsStay ==
    ASSUME UNCHANGED settings, NEW op
    PROVE  Debt(op)' = Debt(op)
  BY DEF settings, Debt, Role, BotKicked, InviteGuarded, CancelGuarded, QRGuarded, KickGuarded,
     Removal, Cancellation, Closing, Reinvitation

LEMMA OwedStep ==
    ASSUME Basics, EventsAssumption, Owed, NEW t \in tasks, Step(t)
    PROVE  Owed'
  <1>1. /\ TypeOK /\ OpsOK /\ TaskOK(t) /\ t \in Tasks /\ t.op.actor \notin Bots
    BY DEF Basics, TypeOK, Tasks, Ops, EventsAssumption
  <1>2. /\ Changes(t) /\ Advances(t) /\ inRoom' \subseteq inRoom /\ owed' \subseteq owed
        /\ causes \subseteq causes' /\ UNCHANGED settings
        /\ inRoom' \cap Bots = inRoom \cap Bots
    BY <1>1, StepAdvances, StepChanges DEF OpsOK, Changes
  <1>3. owed' = Standing(owed', inRoom', invitees', qrOpen')
    BY StepReckons DEF Owed, Standing
  <1>4. "nobody" \notin causes' /\ tasks' # {} => inRoom' \cap Bots # {}
    BY <1>2 DEF Owed
  <1>5. \A m : Cancellation(m)' = Cancellation(m) /\ Removal(m)' = Removal(m) /\ Reinvitation(m)' = Reinvitation(m)
    BY DEF Cancellation, Removal, Reinvitation
  <1>6. "accepted" \notin causes' => \A m \in inRoom' : Cancellation(m)' \notin owed'
    BY <1>2, <1>5 DEF Owed
  <1>7. ASSUME causes' \subseteq {"late", "returned"}, NEW d \in owed'
        PROVE  \E w \in tasks' : Carries(w, d)'
    <2>1. PICK w \in tasks : Carries(w, d)
      BY <1>2, <1>7 DEF Owed
    <2>2. CASE w = t
      BY <1>2, <1>3, <1>7, <2>1, <2>2, CarriesOn
    <2>3. CASE w # t
      <3>1. w \in tasks'
        BY <1>2, <2>3 DEF Advances
      <3>2. CASE d = Removal(w.op.actor) /\ Pursues(w)
        <4>1. w.op.actor \in inRoom'
          <5> DEFINE debts == owed'  members == inRoom'  invited == invitees'  open == qrOpen'
          <5>1. debts = Standing(debts, members, invited, open)
            BY <1>3
          <5> HIDE DEF debts, members, invited, open
          <5>2. \A m : Removal(m) \in debts => m \in members
            BY <5>1, WhatStands
          <5> QED BY <1>7, <3>2, <5>2 DEF debts, members
        <4>2. Pursues(w)'
          BY <2>3, <3>2, <4>1, OthersPursue
        <4> QED BY <1>5, <3>1, <3>2, <4>2 DEF Carries
      <3>3. CASE d \in Debt(w.op) /\ Waiting(w) /\ ~BotKicked(w.op)
        <4>1. CASE Waiting(w)'
          BY <1>2, <3>1, <3>3, <4>1, DebtsStay DEF Carries, BotKicked
        <4>2. CASE Begin(t) /\ Waiting(t) /\ t.op = w.op
          BY <1>7, <3>3, <4>2, BeginTakesOn
        <4> QED BY <2>3, <3>3, <4>1, <4>2, OthersWait
      <3>4. CASE \/ d = Removal(w.op.actor) /\ w.pc \in {"cancel", "close"} /\ w.next = "eject"
                 \/ d = Cancellation(w.op.target) /\ w.pc = "cancel"
                 \/ d = Closing /\ w.pc = "close"
                 \/ d = Reinvitation(w.op.target) /\ "reinvite" \in {w.pc, w.next}
        BY <1>5, <3>1, <3>4 DEF Carries, Closing
      <3> QED BY <2>1, <3>2, <3>3, <3>4 DEF Carries
    <2> QED BY <2>2, <2>3
  <1> QED BY <1>3, <1>4, <1>6, <1>7 DEF Owed

\* A handler goes on as before while operations arrive.
LEMMA TasksGoOn ==
    ASSUME UNCHANGED <<defended, settings>>, seen' \subseteq seen, NEW w \in tasks, tasks \subseteq tasks',
           \A u \in tasks' \ tasks : u.pc = "start"
    PROVE  /\ Pursues(w) => Pursues(w)'
           /\ Waiting(w) => Waiting(w)'
           /\ \A d : Carries(w, d) => Carries(w, d)'
  <1>1. \A id : Defended(id)' => Defended(id)
    BY DEF Defended
  <1>2. Pursues(w) => Pursues(w)'
    BY <1>1 DEF Pursues, Defenders, BotKicked
  <1>3. Waiting(w) => Waiting(w)'
    <2>1. DedupeKey(w)' = DedupeKey(w)
      BY DEF DedupeKey, BotKicked, eventKey
    <2> QED BY <2>1 DEF Waiting
  <1>4. ASSUME NEW d, Carries(w, d) PROVE Carries(w, d)'
    <2>1. /\ \A m : Cancellation(m)' = Cancellation(m) /\ Removal(m)' = Removal(m) /\ Reinvitation(m)' = Reinvitation(m)
          /\ Closing' = Closing /\ Debt(w.op)' = Debt(w.op) /\ (BotKicked(w.op)' <=> BotKicked(w.op))
      BY DebtsStay DEF Cancellation, Removal, Reinvitation, Closing, BotKicked
    <2> QED BY <1>2, <1>3, <1>4, <2>1 DEF Carries
  <1> QED BY <1>2, <1>3, <1>4

\* A new operation finds a handler that will look at it.
LEMMA EventIsHandled ==
    ASSUME Basics, EventsAssumption, NEW op, NEW members, NEW invited, NEW open,
           Event(op, members, invited, open), members \cap Bots # {}
    PROVE  \E w \in tasks' : /\ w.op = op /\ Waiting(w)'
                             /\ BotKicked(op) => Pursues(w)'
  <1>1. /\ TypeOK /\ SeenOK /\ \A w \in tasks : TaskOK(w) /\ w \in Tasks
    BY DEF Basics, TypeOK
  <1>2. /\ tasks' = tasks \cup {NewTask(op, b) : b \in inRoom \cap Bots}
        /\ UNCHANGED <<seen, defended>> /\ op.id = sent + 1 /\ sent \in Nat
    BY <1>1 DEF Event, Happens, engine, TypeOK
  <1>3. PICK b \in members \cap Bots : TRUE
    OBVIOUS
  <1>4. b \in inRoom
    BY <1>3 DEF Event, EventsAssumption, Ops
  <1> DEFINE w == NewTask(op, b)
  <1>5. w \in tasks' /\ w.op = op /\ w.bot = b /\ w.pc = "start"
    BY <1>2, <1>3, <1>4 DEF NewTask
  <1> HIDE DEF w
  <1>6. \A entry \in seen : entry[2] # sent + 1
    BY <1>1, <1>2 DEF SeenOK
  <1>7. Waiting(w)'
    BY <1>2, <1>5, <1>6 DEF Waiting
  <1>8. ASSUME BotKicked(op) PROVE Pursues(w)'
    <2>1. b # op.target
      BY <1>3, <1>8 DEF BotKicked, Event
    <2>2. ~(sent + 1 \in defended)
      BY <1>1, <1>2 DEF SeenOK, TypeOK
    <2>3. \A u \in tasks' : u.op.id = sent + 1 => u.pc = "start"
      BY <1>1, <1>2 DEF TaskOK, NewTask, Tasks, Ops
    <2>4. ~Defended(op.id)'
      BY <1>2, <2>2, <2>3 DEF Defended
    <2> QED BY <1>5, <1>8, <2>1, <2>4 DEF Pursues, Defenders, BotKicked
  <1> QED BY <1>5, <1>7, <1>8

LEMMA OwedEvent ==
    ASSUME Basics, EventsAssumption, Owed, NEW op, NEW members, NEW invited, NEW open,
           Event(op, members, invited, open)
    PROVE  Owed'
  <1>1. /\ TypeOK /\ RoomOK
    BY DEF Basics
  <1>2. /\ inRoom' = members /\ invitees' = invited /\ qrOpen' = open
        /\ owed' = Standing(owed \cup Debt(op), members, invited, open)
        /\ causes' = causes \cup (IF members \cap Bots = {} THEN {"nobody"} ELSE {})
                            \cup (IF Cancellation(op.actor) \in owed THEN {"accepted"} ELSE {})
        /\ UNCHANGED <<settings, seen, defended>>
        /\ tasks' = tasks \cup {NewTask(op, b) : b \in inRoom \cap Bots}
    BY DEF Event, Happens, store, engine
  <1>3. owed' = Standing(owed', inRoom', invitees', qrOpen')
    BY <1>2 DEF Standing
  <1>4. "nobody" \notin causes' => inRoom' \cap Bots # {}
    BY <1>2
  <1>5. /\ \A m : Cancellation(m)' = Cancellation(m) /\ Removal(m)' = Removal(m)
                  /\ Cancellation(m).what = "cancel" /\ Cancellation(m).who = m
                  /\ Removal(m).what = "remove" /\ Reinvitation(m).what = "reinvite"
        /\ Closing.what = "close"
    BY DEF Cancellation, Removal, Closing, Reinvitation
  <1>6. ASSUME "accepted" \notin causes', NEW m \in inRoom' PROVE Cancellation(m)' \notin owed'
    <2>1. Cancellation(m) \notin owed
      <3>1. CASE m \in inRoom
        BY <1>2, <1>6, <3>1 DEF Owed
      <3>2. CASE m = op.actor
        BY <1>2, <1>6, <3>2
      <3> QED BY <1>2, <3>1, <3>2 DEF Event
    <2>2. ASSUME Cancellation(m) \in Debt(op) PROVE FALSE
      <3>1. op.type = "invite"
        <4>1. op.type \in OpTypes
          BY DEF Event, Ops
        <4>2. \A u : Cancellation(m) \notin {Removal(u), Closing, Reinvitation(u)}
          BY <1>5
        <4> QED BY <1>1, <1>5, <2>2, <4>1, <4>2, DebtsByKind DEF OpTypes
      <3>2. Cancellation(m) \in {Removal(op.actor), Cancellation(op.target)}
        BY <1>1, <2>2, <3>1, DebtsByKind
      <3>3. m = op.target
        BY <1>5, <3>2
      <3> QED BY <1>2, <1>6, <3>1, <3>3 DEF Event
    <2> QED BY <1>2, <1>5, <2>1, <2>2 DEF Standing
  <1>7. ASSUME causes' \subseteq {"late", "returned"}, NEW d \in owed'
        PROVE  \E w \in tasks' : Carries(w, d)'
    <2>1. d \in owed \/ d \in Debt(op)
      BY <1>2 DEF Standing
    <2>2. CASE d \in owed
      <3>1. PICK w \in tasks : Carries(w, d)
        BY <1>2, <1>7, <2>2 DEF Owed
      <3>2. w \in tasks' /\ tasks \subseteq tasks' /\ \A u \in tasks' \ tasks : u.pc = "start"
        BY <1>2 DEF NewTask
      <3> QED BY <1>2, <3>1, <3>2, TasksGoOn
    <2>3. CASE d \in Debt(op)
      <3>1. members \cap Bots # {}
        BY <1>2, <1>7
      <3>2. PICK w \in tasks' : w.op = op /\ Waiting(w)' /\ (BotKicked(op) => Pursues(w)')
        BY <3>1, EventIsHandled
      <3>3. CASE BotKicked(op)
        <4>1. d = Removal(op.actor)
          BY <1>1, <2>3, <3>3, DebtsByKind
        <4> QED BY <1>5, <3>2, <3>3, <4>1 DEF Carries
      <3>4. CASE ~BotKicked(op)
        <4>1. Debt(op)' = Debt(op)
          BY <1>2, DebtsStay
        <4> QED BY <2>3, <3>2, <3>4, <4>1 DEF Carries, BotKicked
      <3> QED BY <3>3, <3>4
    <2> QED BY <2>1, <2>2, <2>3
  <1> QED BY <1>3, <1>4, <1>6, <1>7 DEF Owed

LEMMA OwedNext ==
    ASSUME Basics, EventsAssumption, Owed, [Next]_vars
    PROVE  Owed'
  <1>1. TypeOK
    BY DEF Basics
  <1>2. CASE UserActs
    BY <1>1, <1>2, UserActsAreEvents, OwedEvent
  <1>3. ASSUME NEW t \in tasks, Step(t) PROVE Owed'
    BY <1>3, OwedStep
  <1>4. ASSUME UNCHANGED <<room, tasks, owed>>, causes \subseteq causes',
               ASSUME causes' \subseteq {"late", "returned"}, NEW d \in owed
               PROVE  \E w \in tasks : Carries(w, d)'
        PROVE  Owed'
    <2>1. \A m : Cancellation(m)' = Cancellation(m)
      BY DEF Cancellation
    <2>2. owed' = Standing(owed', inRoom', invitees', qrOpen')
      BY <1>4 DEF Owed, room
    <2>3. "nobody" \notin causes' /\ tasks' # {} => inRoom' \cap Bots # {}
      BY <1>4 DEF Owed, room
    <2>4. "accepted" \notin causes' => \A m \in inRoom' : Cancellation(m)' \notin owed'
      BY <1>4, <2>1 DEF Owed, room
    <2> QED BY <1>4, <2>2, <2>3, <2>4 DEF Owed
  <1>5. CASE TimePasses
    <2>1. /\ UNCHANGED <<room, tasks, owed, defended, settings>> /\ seen' \subseteq seen /\ causes \subseteq causes'
      BY <1>5, <1>1, OtherChanges DEF TimePasses, Forget, ForgetEarly, CoolsDown, store, settings
    <2>2. ASSUME causes' \subseteq {"late", "returned"}, NEW d \in owed
          PROVE  \E w \in tasks : Carries(w, d)'
      BY <2>1, <2>2, TasksGoOn DEF Owed
    <2> QED BY <1>4, <2>1, <2>2
  <1>6. CASE Commands
    <2>1. PICK a \in Users, on \in BOOLEAN : SetProtection(a, Scopes, on)
      BY <1>6 DEF Commands
    <2>2. /\ UNCHANGED <<room, tasks, owed>> /\ causes \subseteq causes'
          /\ tasks # {} => "settings" \in causes'
      BY <2>1 DEF SetProtection
    <2>3. ASSUME causes' \subseteq {"late", "returned"}, NEW d \in owed
          PROVE  \E w \in tasks : Carries(w, d)'
      BY <2>2, <2>3 DEF Owed
    <2> QED BY <1>4, <2>2, <2>3
  <1>7. CASE UNCHANGED vars
    <2>1. UNCHANGED <<room, tasks, owed, defended, settings, seen, causes>>
      BY <1>7 DEF vars, store, engine, history
    <2>2. ASSUME causes' \subseteq {"late", "returned"}, NEW d \in owed
          PROVE  \E w \in tasks : Carries(w, d)'
      BY <2>1, <2>2, TasksGoOn DEF Owed
    <2> QED BY <1>4, <2>1, <2>2
  <1> QED BY <1>2, <1>3, <1>5, <1>6, <1>7 DEF Next

\* When every handler has returned the room is as the protection promises, with
\* the exceptions that causes names: until a debt is paid, some handler carries it.
THEOREM ProtectionKept == Spec => []DebtsPaid
  <1>1. Init => Basics /\ Owed
    <2>1. Init => Owed
      BY DEF Init, Owed, Standing
    <2> QED BY <2>1, InitBasics, EventsAssumption
  <1>2. Basics /\ Owed /\ [Next]_vars => (Basics /\ Owed)'
    BY NextBasics, OwedNext, EventsAssumption
  <1>3. Owed => DebtsPaid
    BY DEF Owed, DebtsPaid
  <1> QED BY <1>1, <1>2, <1>3, PTL DEF Spec

-----------------------------------------------------------------------------
(* Users of the blacklist do not stay.                                     *)

\* The steps of a handler: somebody still has every user of the blacklist in
\* sight, the one who is added to it included.
LEMMA OustedStep ==
    ASSUME Basics, EventsAssumption, Owed, Ousted, NEW t \in tasks, Step(t)
    PROVE  Ousted'
  <1>1. /\ TypeOK /\ OpsOK /\ TaskOK(t) /\ t \in Tasks
        /\ \A w \in tasks : TaskOK(w)
    BY DEF Basics, TypeOK
  <1>2. /\ Changes(t) /\ Advances(t) /\ inRoom' \subseteq inRoom /\ causes \subseteq causes'
    BY <1>1, StepAdvances, StepChanges DEF OpsOK, Changes
  <1> SUFFICES ASSUME causes' \subseteq {"late", "accepted", "settings"},
                      NEW m \in blacklist', m \in inRoom'
               PROVE  \E w \in tasks' : Ousts(w, m)'
    BY DEF Ousted
  <1>3. inRoom \cap Bots # {}
    BY <1>2 DEF Owed
  <1>4. ASSUME Pursues(t), t.op.actor = m
        PROVE  \E w \in tasks' : Ousts(w, m)'
    BY <1>3, <1>4, PursuitGoesOn DEF Ousts
  <1>5. ASSUME t.pc = "sweep", t.op.actor = m PROVE FALSE
    <2>1. Sweep(t)
      BY <1>5 DEF Step, Begin, Eject, Retry, AutoBlacklist, Ejected, Defend, Strike, Struck, Cancel,
         Close, Reinvite
    <2>2. ~KickWorks(t, t.bot)
      BY <1>5 DEF KickWorks, RoomBecomes
    <2>3. t.op.actor \in inRoom
      BY <1>2, <1>5
    <2>4. ~(t.bot \in inRoom /\ KickFails(t, t.bot, TRUE))
      BY <2>3 DEF KickFails, Fault
    <2>5. causes' # causes \cup {"absent"}
      OBVIOUS
    <2> QED BY <2>1, <2>2, <2>4, <2>5 DEF Sweep
  <1>6. ASSUME Begin(t), Waiting(t), t.op.type = "join", t.op.actor = m, m \in blacklist
        PROVE  \E w \in tasks' : Ousts(w, m)'
    <2>1. ~Dropped(t)
      BY <1>6 DEF Dropped, Deduped, Waiting
    <2>2. tasks' = (tasks \ {t}) \cup {[t EXCEPT !.pc = "sweep"]}
      BY <1>6, <2>1, TakenDecides DEF Begin, Become
    <2> DEFINE w == [t EXCEPT !.pc = "sweep"]
    <2>3. w \in tasks' /\ w.op = t.op /\ w.pc = "sweep"
      BY <1>1, <2>2 DEF Tasks
    <2> QED BY <1>6, <2>3 DEF Ousts
  <1>7. CASE m \in blacklist
    <2>1. PICK w \in tasks : Ousts(w, m)
      BY <1>2, <1>7 DEF Ousted
    <2>2. CASE w = t
      <3>1. CASE t.op.type = "join" /\ Waiting(t)
        <4>1. Begin(t)
          BY <3>1 DEF Waiting, Step, Eject, Retry, AutoBlacklist, Ejected, Defend, Strike, Struck,
             Cancel, Close, Reinvite, Sweep
        <4> QED BY <1>6, <1>7, <2>1, <2>2, <3>1, <4>1 DEF Ousts
      <3> QED BY <1>4, <1>5, <2>1, <2>2, <3>1 DEF Ousts
    <2>3. CASE w # t
      <3>1. w \in tasks'
        BY <1>2, <2>3 DEF Advances
      <3>2. CASE Pursues(w)
        <4>1. Pursues(w)'
          BY <2>1, <2>3, <3>2, OthersPursue DEF Ousts
        <4> QED BY <2>1, <3>1, <4>1 DEF Ousts
      <3>3. CASE w.pc = "sweep"
        BY <2>1, <3>1, <3>3 DEF Ousts
      <3>4. CASE w.op.type = "join" /\ Waiting(w)
        <4>1. Waiting(w)' \/ (Begin(t) /\ Waiting(t) /\ t.op = w.op)
          BY <2>3, <3>4, OthersWait DEF BotKicked
        <4>2. CASE Waiting(w)'
          BY <2>1, <3>1, <3>4, <4>2 DEF Ousts
        <4>3. CASE Begin(t) /\ Waiting(t) /\ t.op = w.op
          BY <1>6, <1>7, <2>1, <3>4, <4>3 DEF Ousts
        <4> QED BY <4>1, <4>2, <4>3
      <3> QED BY <2>1, <3>2, <3>3, <3>4 DEF Ousts
    <2> QED BY <2>2, <2>3
  <1>8. CASE m \notin blacklist
    <2>1. m = t.op.actor
      BY <1>2, <1>8 DEF Changes
    <2>2. AutoBlacklist(t)
      BY <1>8 DEF Step, Begin, Eject, Retry, Ejected, Defend, Strike, Struck, Cancel, Close, Reinvite,
         Sweep, store
    <2>3. t.pc \in {"strike", "eject", "retry"}
      BY <1>2, <2>1, <2>2 DEF AutoBlacklist
    <2>4. Pursues(t)
      BY <1>1, <2>3 DEF Pursues, Defenders, TaskOK
    <2> QED BY <1>4, <2>1, <2>4
  <1> QED BY <1>7, <1>8

LEMMA OustedNext ==
    ASSUME Basics, EventsAssumption, Owed, Ousted, [Next]_vars
    PROVE  Ousted'
  <1>1. TypeOK
    BY DEF Basics
  <1>2. ASSUME UNCHANGED <<defended, settings, blacklist>>, seen' \subseteq seen, tasks \subseteq tasks',
               \A u \in tasks' \ tasks : u.pc = "start", NEW w \in tasks, NEW m, Ousts(w, m)
        PROVE  w \in tasks' /\ Ousts(w, m)'
    BY <1>2, TasksGoOn DEF Ousts
  <1>3. CASE UserActs
    <2>1. PICK op, members, invited, open : Event(op, members, invited, open)
      BY <1>1, <1>3, UserActsAreEvents
    <2>2. /\ inRoom' = members /\ causes \subseteq causes'
          /\ members \cap Bots = {} => "nobody" \in causes'
          /\ UNCHANGED <<settings, blacklist, seen, defended>>
          /\ tasks' = tasks \cup {NewTask(op, b) : b \in inRoom \cap Bots}
      BY <2>1 DEF Event, Happens, store, engine
    <2>3. \A u \in tasks' \ tasks : u.pc = "start"
      BY <2>2 DEF NewTask
    <2>4. ASSUME causes' \subseteq {"late", "accepted", "settings"}, NEW m \in blacklist', m \in inRoom'
          PROVE  \E w \in tasks' : Ousts(w, m)'
      <3>1. CASE m \in inRoom
        BY <1>2, <2>2, <2>3, <2>4, <3>1 DEF Ousted
      <3>2. CASE m \notin inRoom
        <4>1. op.type = "join" /\ m = op.actor
          BY <2>1, <2>2, <2>4, <3>2 DEF Event
        <4>2. members \cap Bots # {}
          BY <2>2, <2>4
        <4>3. PICK w \in tasks' : w.op = op /\ Waiting(w)'
          BY <2>1, <4>2, EventIsHandled
        <4> QED BY <4>1, <4>3 DEF Ousts
      <3> QED BY <3>1, <3>2
    <2> QED BY <2>4 DEF Ousted
  <1>4. ASSUME NEW t \in tasks, Step(t) PROVE Ousted'
    BY <1>4, OustedStep
  <1>5. CASE TimePasses
    <2>1. /\ UNCHANGED <<room, tasks, blacklist, defended, settings>> /\ seen' \subseteq seen
          /\ causes \subseteq causes'
      BY <1>1, <1>5, OtherChanges DEF TimePasses, Forget, ForgetEarly, CoolsDown, store, settings
    <2> QED BY <1>2, <2>1 DEF Ousted, room
  <1>6. CASE Commands
    <2>1. UNCHANGED <<room, tasks, blacklist, defended, seen>> /\ causes \subseteq causes'
      BY <1>6 DEF Commands, SetProtection, engine
    <2>2. ASSUME NEW w \in tasks, NEW m, Ousts(w, m) PROVE Ousts(w, m)'
      <3>1. Pursues(w) => Pursues(w)'
        BY <2>1 DEF Pursues, Defenders, Defended, BotKicked
      <3>2. Waiting(w) => Waiting(w)'
        BY <2>1 DEF Waiting, DedupeKey, BotKicked, eventKey
      <3> QED BY <2>2, <3>1, <3>2 DEF Ousts
    <2> QED BY <2>1, <2>2 DEF Ousted, room
  <1>7. CASE UNCHANGED vars
    <2>1. UNCHANGED <<room, tasks, blacklist, defended, settings, seen, causes>>
      BY <1>7 DEF vars, store, engine, history
    <2> QED BY <1>2, <2>1 DEF Ousted, room
  <1> QED BY <1>3, <1>4, <1>5, <1>6, <1>7 DEF Next

LEMMA InitInvariant ==
    ASSUME Init, EventsAssumption
    PROVE  IInv
  <1>1. Reacted /\ OneReaction /\ Exempt /\ Owed
    BY DEF Init, Reacted, OneReaction, Exempt, Owed, Standing
  <1>2. blacklist \cap inRoom = {}
    BY DEF Init, EventsAssumption
  <1> QED BY <1>1, <1>2, InitBasics DEF IInv, Ousted

\* The whole of it is inductive.
THEOREM Invariant == Spec => []IInv
  <1>1. Init => IInv
    BY InitInvariant, EventsAssumption
  <1>2. IInv /\ [Next]_vars => IInv'
    BY NextBasics, ReactedNext, ExemptNext, OwedNext, OustedNext, EventsAssumption DEF IInv
  <1> QED BY <1>1, <1>2, PTL DEF Spec

\* Nobody on the blacklist is in the room when the handlers have returned, with
\* the exceptions that causes names: some handler is always on its way to remove
\* such a user.
THEOREM BlacklistedAreOut == Spec => []BlacklistedOut
  <1>1. IInv => BlacklistedOut
    BY DEF IInv, Ousted, BlacklistedOut
  <1> QED BY <1>1, Invariant, PTL

==============================================================================
