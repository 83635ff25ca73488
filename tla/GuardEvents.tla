----------------------------- MODULE GuardEvents -----------------------------
(***************************************************************************)
(* The protection of one room (guard/engine.go: handleInvitation,          *)
(* handleCancellation, handleChatUpdate, handleKick and handleJoin).       *)
(* Every bot in the room receives every operation and handles it in a      *)
(* goroutine of its own, in any order; the map seen is to let one of them  *)
(* act, and any bot of the fleet may be chosen to do so.                   *)
(*                                                                         *)
(* inRoom, invitees and qrOpen are the room on the LINE server. A task is  *)
(* a bot at work on an operation; it takes one step per critical section   *)
(* or API call, and the membership check before a call is part of it. Keys *)
(* of seen and cooldowns end at any time; marks of defended outlast the    *)
(* handlers that look for them. How removed bots come back is the subject  *)
(* of FleetReconcile and Ghosts, how war mode changes that of WarMode.     *)
(* There is a Creator, who is not in this room. Operations that the bots   *)
(* themselves cause have no effect in these handlers and are left out.     *)
(* owed, reacted and causes are history and restrict nothing.              *)
(***************************************************************************)
EXTENDS Naturals, FiniteSets

CONSTANTS
    Bots,        \* the primary bots
    Users,
    Nobody,      \* no bot, no user
    InitRoles,   \* the roles the users may have
    InitRooms,   \* the members, invitees and blacklists to start with
    InitRules,   \* the protection and the war record in force
    MaxOps,      \* bound on the operations of the users
    MaxFaults    \* bound on API calls that fail although they could succeed, and
                 \* on operations handled more than ten seconds late

RoleUser == 0
RoleGAdmin == 1
RoleAdmin == 2
RoleOwner == 3
RoleCreator == 4

Mids == Bots \cup Users
Scopes == {"invite", "cancel", "kick", "qr"}
WarStates == [active : BOOLEAN, level : 1..3, locked : BOOLEAN]
Rules == [protection : SUBSET Scopes, war : WarStates]
Rooms == [members : SUBSET Mids, invitees : SUBSET Mids, open : BOOLEAN, blacklist : SUBSET Users]

ASSUME EventsAssumption ==
    /\ Bots \cap Users = {} /\ Nobody \notin Mids
    /\ InitRoles \subseteq [Users -> RoleUser..RoleCreator]
    /\ InitRooms \subseteq Rooms
    \* An invitee is not a member, and the sweep at the start is over.
    /\ \A r \in InitRooms : r.members \cap (r.invitees \cup r.blacklist) = {}
    /\ InitRules \subseteq Rules
    /\ {MaxOps, MaxFaults} \subseteq Nat

VARIABLES
    inRoom, invitees, qrOpen,
    roles, blacklist, protection, war,      \* the store
    member, seen, defended, cooling,        \* the engine and its health pool
    tasks,
    sent, faults,
    owed, reacted, causes

room     == <<inRoom, invitees, qrOpen>>
settings == <<roles, protection, war>>
store    == <<settings, blacklist>>
engine   == <<member, seen, defended, cooling>>
counts   == <<sent, faults>>
history  == <<owed, reacted, causes>>
vars     == <<room, store, engine, tasks, counts, history>>

OpTypes == {"invite", "cancel", "kick", "qr", "join"}
Ops == [id : 1..MaxOps, type : OpTypes, actor : Users, target : Mids \cup {Nobody}]

PCs == {"start", "defend", "strike", "struck", "cancel", "close",
        "eject", "retry", "ejected", "reinvite", "sweep"}

\* by: the protector; left: alternatives to it; saved: AutoBlacklist has
\* returned; next: what follows.
Tasks == [op : Ops, bot : Bots, pc : PCs, by : Bots \cup {Nobody}, left : SUBSET Bots,
          saved : BOOLEAN, next : {"end", "eject", "reinvite", "mark"}]

NewTask(op, b) == [op |-> op, bot |-> b, pc |-> "start", by |-> Nobody, left |-> {},
                   saved |-> FALSE, next |-> "end"]

Role(m) == IF m \in Users THEN roles[m] ELSE RoleUser

IsBot(m) == m \in Bots

BotKicked(op) == op.type = "kick" /\ IsBot(op.target)

\* CanKick of a Creator.
CreatorCanKick(m) == IsBot(m) \/ Role(m) < RoleCreator

eventKey(op) == <<op.type, op.actor, op.target>>

Known(key) == \E entry \in seen : entry[1] = key

\* health.rank: bots whose cooldown runs are left out unless all of them cool
\* down. The order of the others depends on their load, here on nothing.
Ranked(S, cool) == IF S \subseteq cool THEN S ELSE S \ cool

\* protectorFor: the first of the bots in the view, else the handler itself.
Protectors(view, excluded, fallback) ==
    IF view \ {excluded} # {} THEN Ranked(view \ {excluded}, cooling)
    ELSE IF fallback # excluded THEN {fallback} ELSE {Nobody}

InviteGuarded == "invite" \in protection \/ war.active \/ war.locked
CancelGuarded == "cancel" \in protection \/ war.active
QRGuarded     == "qr" \in protection \/ war.active \/ war.locked
KickGuarded   == "kick" \in protection \/ (war.active /\ war.level >= 2)

Become(t, u) == tasks' = (tasks \ {t}) \cup {u}
End(t) == tasks' = tasks \ {t}

-----------------------------------------------------------------------------
\* normalizeLocked keeps Admins and above off the blacklist of the start.
Init ==
    /\ roles \in InitRoles
    /\ \E r \in InitRooms : /\ inRoom = r.members
                            /\ invitees = r.invitees
                            /\ qrOpen = r.open
                            /\ blacklist = {u \in r.blacklist : roles[u] < RoleAdmin}
                            /\ member = r.members \cap Bots
    /\ \E rules \in InitRules : protection = rules.protection /\ war = rules.war
    /\ seen = {} /\ defended = {} /\ cooling = {}
    /\ tasks = {}
    /\ sent = 0 /\ faults = 0
    /\ owed = {} /\ reacted = {} /\ causes = {}

-----------------------------------------------------------------------------
(* What the users of the room do, and what the guard then owes the room.   *)

Debts == [what : {"remove", "cancel", "close", "reinvite"}, who : Mids \cup {Nobody}]
Removal(u) == [what |-> "remove", who |-> u]
Cancellation(u) == [what |-> "cancel", who |-> u]
Closing == [what |-> "close", who |-> Nobody]
Reinvitation(u) == [what |-> "reinvite", who |-> u]

\* The protection as documented: an invitation is cancelled, a group link is
\* closed, and the user who was not allowed to is removed. Holders of a role are
\* exempt, except a GAdmin who invites a bot. Who removes a bot is removed. An
\* Owner or a Creator who was removed is invited again.
Debt(op) ==
    LET user == Role(op.actor) = RoleUser
    IN  CASE op.type = "invite" /\ InviteGuarded
                 /\ (user \/ (Role(op.actor) = RoleGAdmin /\ IsBot(op.target))) ->
               {Removal(op.actor), Cancellation(op.target)}
          [] op.type = "cancel" /\ CancelGuarded /\ user -> {Removal(op.actor)}
          [] op.type = "qr" /\ QRGuarded /\ user -> {Removal(op.actor), Closing}
          [] BotKicked(op) -> {Removal(op.actor)}
          [] op.type = "kick" /\ Role(op.target) < RoleOwner /\ KickGuarded /\ user ->
               {Removal(op.actor)}
          [] op.type = "kick" /\ Role(op.target) >= RoleOwner /\ Role(op.actor) # RoleCreator ->
               {Reinvitation(op.target)}
                 \cup (IF user /\ "kick" \in protection THEN {Removal(op.actor)} ELSE {})
          [] OTHER -> {}

\* Debts that no longer stand once the room looks like this.
Standing(debts, members, invited, open) ==
    {d \in debts : \/ d.what = "remove" /\ d.who \in members
                   \/ d.what = "cancel" /\ d.who \in members \cup invited
                   \/ d.what = "close" /\ open
                   \/ d.what = "reinvite" /\ d.who \notin members \cup invited}

Happens(op, members, invited, open) ==
    /\ sent < MaxOps
    /\ sent' = sent + 1
    /\ inRoom' = members /\ invitees' = invited /\ qrOpen' = open
    /\ tasks' = tasks \cup {NewTask(op, b) : b \in inRoom \cap Bots}
    /\ owed' = Standing(owed \cup Debt(op), members, invited, open)
    /\ causes' = causes \cup (IF members \cap Bots = {} THEN {"nobody"} ELSE {})
                        \cup (IF Cancellation(op.actor) \in owed THEN {"accepted"} ELSE {})
    /\ UNCHANGED <<store, engine, faults, reacted>>

Op(type, actor, target) == [id |-> sent + 1, type |-> type, actor |-> actor, target |-> target]

UserKicks(a, m) ==
    /\ m \in inRoom \ {a}
    /\ Happens(Op("kick", a, m), inRoom \ {m}, invitees, qrOpen)

UserInvites(a, m) ==
    /\ m \notin inRoom \cup invitees
    /\ Happens(Op("invite", a, m), inRoom, invitees \cup {m}, qrOpen)

UserCancels(a, m) ==
    /\ m \in invitees
    /\ Happens(Op("cancel", a, m), inRoom, invitees \ {m}, qrOpen)

UserOpensQR(a) == Happens(Op("qr", a, Nobody), inRoom, invitees, TRUE)

UserJoins(u) ==
    /\ u \in Users \ inRoom
    /\ u \in invitees \/ qrOpen
    /\ Happens(Op("join", u, Nobody), inRoom \cup {u}, invitees \ {u}, qrOpen)

\* SetProtection, the command of an Admin or above. Protection that changes
\* while an event is handled is a cause of its own.
SetProtection(a, scopes, enabled) ==
    /\ sent < MaxOps
    /\ sent' = sent + 1
    /\ Role(a) >= RoleAdmin
    /\ protection' = IF enabled THEN protection \cup scopes ELSE protection \ scopes
    /\ causes' = causes \cup (IF tasks # {} THEN {"settings"} ELSE {})
    /\ UNCHANGED <<room, roles, war, blacklist, engine, tasks, faults, owed, reacted>>

-----------------------------------------------------------------------------
(* The beginning of a handler.                                             *)

\* Mutant: the key names the handling bot too.
DedupeKeyPerBot(t) == <<eventKey(t.op), t.bot>>

\* duplicate: a key of the operation alone, except that every bot defends
\* another one once.
DedupeKey(t) ==
    IF BotKicked(t.op) THEN <<eventKey(t.op), t.bot>>
    ELSE <<eventKey(t.op), Nobody>>

\* Mutant: a join is never looked up in the blacklist.
DedupedNoJoin(op) == op.type # "join" /\ (op.type = "qr" => QRGuarded)

\* Joins of users who are not on the blacklist, and link changes nobody
\* guards, do not get as far as the map.
Deduped(op) ==
    CASE op.type = "join" -> op.actor \in blacklist
      [] op.type = "qr" -> QRGuarded
      [] OTHER -> TRUE

\* Ten seconds are over and every bot has got past the key.
Forget(entry) ==
    /\ entry \in seen
    /\ \A t \in tasks : t.pc = "start" => DedupeKey(t) # entry[1]
    /\ seen' = seen \ {entry}
    /\ UNCHANGED <<room, store, member, defended, cooling, tasks, counts, history>>

\* Ten seconds are over for a bot that has yet to look: it comes late.
ForgetEarly(entry) ==
    /\ entry \in seen
    /\ \E t \in tasks : t.pc = "start" /\ DedupeKey(t) = entry[1]
    /\ faults < MaxFaults
    /\ faults' = faults + 1
    /\ seen' = seen \ {entry}
    /\ causes' = causes \cup {"late"}
    /\ UNCHANGED <<room, store, member, defended, cooling, tasks, sent, owed, reacted>>

CoolsDown(b) ==
    /\ b \in cooling
    /\ cooling' = cooling \ {b}
    /\ UNCHANGED <<room, store, member, seen, defended, tasks, counts, history>>

-----------------------------------------------------------------------------
(* What a handler decides to do once it got past the map.                  *)

\* The handler leaves with or without an error: nothing to do, or nobody to do it.
Nothing(t) == End(t) /\ UNCHANGED reacted

\* p starts with step pc, and after that comes step next.
Proceed(t, p, pc, next) ==
    IF p = Nobody THEN Nothing(t)
    ELSE /\ Become(t, [t EXCEPT !.pc = pc, !.by = p, !.next = next])
         /\ reacted' = reacted \cup {<<t.op.id, t.bot>>}

InviteAllowed(op) == Role(op.actor) > RoleGAdmin \/ (Role(op.actor) = RoleGAdmin /\ ~IsBot(op.target))

DecideInvite(t) ==
    \E p \in Protectors(member, Nobody, t.bot) :
        IF ~InviteGuarded THEN Nothing(t)
        ELSE IF ~InviteAllowed(t.op)
        THEN Proceed(t, p, "cancel", IF CreatorCanKick(t.op.actor) THEN "eject" ELSE "end")
        ELSE IF t.op.target \in blacklist THEN Proceed(t, p, "cancel", "end") ELSE Nothing(t)

DecideCancel(t, view) ==
    \E p \in Protectors(view, t.op.target, t.bot) :
        IF CancelGuarded /\ Role(t.op.actor) = RoleUser
        THEN Proceed(t, p, "eject", "end") ELSE Nothing(t)

DecideQR(t) ==
    \E p \in Protectors(member, Nobody, t.bot) :
        IF Role(t.op.actor) = RoleUser THEN Proceed(t, p, "close", "eject") ELSE Nothing(t)

\* Mutant: holders of a role are removed too.
KickExemptNobody(op) == ~KickGuarded

\* The early returns of handleKick for a target without a high role.
KickExempt(op) ==
    \/ Role(op.actor) > Role(op.target)
    \/ Role(op.actor) # RoleUser
    \/ ~KickGuarded

DecideKick(t) ==
    \E p \in Protectors(member, t.op.target, t.bot) :
        IF Role(t.op.target) < RoleOwner
        THEN IF KickExempt(t.op) THEN Nothing(t) ELSE Proceed(t, p, "eject", "end")
        ELSE IF Role(t.op.actor) = RoleCreator THEN Nothing(t)
        ELSE IF Role(t.op.actor) = RoleUser /\ "kick" \in protection
        THEN Proceed(t, p, "eject", "reinvite") ELSE Proceed(t, p, "reinvite", "end")

\* Some bot has removed the user, and marks the defence as done.
Defended(id) ==
    \/ id \in defended
    \/ \E t \in tasks : t.op.id = id /\ t.pc = "struck" /\ t.next = "mark"

\* The handlers that may still remove the user who removed a bot.
Defenders(op) ==
    {t \in tasks : /\ t.op = op /\ t.bot # op.target
                   /\ \/ t.pc = "strike"
                      \/ t.pc \in {"start", "defend"} /\ ~Defended(op.id)}

\* The last of them leaves, and the user is still there: the others were out of
\* the room, or left it to this one when a cooldown kept them out of the ranking.
LeavesIt(t) == Defenders(t.op) = {t} /\ t.op.actor \in inRoom

Deferred(t) == causes' = causes \cup (IF LeavesIt(t) THEN {"deferred"} ELSE {})

\* A bot was removed: every other bot of the view defends it, unless a cooldown
\* keeps it out of the ranking. The delay by rank only orders them.
DecideDefense(t, view) ==
    /\ IF t.bot # t.op.target /\ t.bot \in Ranked(view, cooling)
       THEN Become(t, [t EXCEPT !.pc = "defend"]) /\ UNCHANGED causes
       ELSE End(t) /\ Deferred(t)
    /\ UNCHANGED reacted

\* A user who joins a level 3 war is removed by every bot that sees it.
AfterJoin(t) ==
    /\ IF war.active /\ war.level = 3 /\ Role(t.op.actor) = RoleUser
       THEN Become(t, [t EXCEPT !.pc = "sweep"]) ELSE End(t)
    /\ UNCHANGED reacted

\* observeMembership for a kick, the loop over the targets for a cancellation.
Observed(op) == IF op.type \in {"kick", "cancel"} THEN member \ {op.target} ELSE member

\* The operation is not the first with its key, or needs no key.
Dropped(t) ==
    /\ \/ ~Deduped(t.op) /\ UNCHANGED causes
       \/ /\ Deduped(t.op) /\ Known(DedupeKey(t))
          /\ causes' = causes \cup
               (IF <<DedupeKey(t), t.op.id>> \in seen THEN {} ELSE {"repeat"})
    /\ member' = IF t.op.type = "kick" THEN Observed(t.op) ELSE member
    /\ IF t.op.type = "join" THEN AfterJoin(t) ELSE Nothing(t)
    /\ UNCHANGED seen

\* The operation is the first with its key.
Taken(t) ==
    /\ Deduped(t.op) /\ ~Known(DedupeKey(t))
    /\ seen' = seen \cup {<<DedupeKey(t), t.op.id>>}
    /\ member' = Observed(t.op)
    /\ CASE t.op.type = "invite" -> DecideInvite(t)
         [] t.op.type = "cancel" -> DecideCancel(t, Observed(t.op))
         [] t.op.type = "qr" -> DecideQR(t)
         [] BotKicked(t.op) -> DecideDefense(t, Observed(t.op))
         [] t.op.type = "kick" /\ ~BotKicked(t.op) -> DecideKick(t)
         [] t.op.type = "join" -> Become(t, [t EXCEPT !.pc = "sweep"]) /\ UNCHANGED reacted
    /\ ~BotKicked(t.op) => UNCHANGED causes

\* A bot begins to handle an operation: observeMembership, duplicate, and what
\* it reads in the store and in the view then.
Begin(t) ==
    /\ t.pc = "start"
    /\ Dropped(t) \/ Taken(t)
    /\ UNCHANGED <<room, store, defended, cooling, counts, owed>>

-----------------------------------------------------------------------------
(* The API calls of a handler.                                             *)

RoomBecomes(members, invited, open) ==
    /\ inRoom' = members /\ invitees' = invited /\ qrOpen' = open
    /\ owed' = Standing(owed, members, invited, open)

\* A call that could succeed fails all the same.
Fault == faults < MaxFaults /\ faults' = faults + 1 /\ causes' = causes \cup {"fault"}

\* confirmGroupMembership corrects the view before the call.
Confirm(p) == member' = IF p \in inRoom THEN member \cup {p} ELSE member \ {p}

KickWorks(t, p) ==
    /\ p \in inRoom /\ t.op.actor \in inRoom
    /\ RoomBecomes(inRoom \ {t.op.actor}, invitees, qrOpen)
    /\ UNCHANGED <<cooling, faults, causes>>

\* The bot is not in the room, the user is gone, or the call fails. A call that
\* was made starts a cooldown. The last bot to try may be one that has left.
KickFails(t, p, last) ==
    /\ \/ /\ p \notin inRoom
          /\ causes' = causes \cup (IF last /\ t.op.actor \in inRoom THEN {"absent"} ELSE {})
          /\ UNCHANGED <<cooling, faults>>
       \/ /\ p \in inRoom /\ t.op.actor \notin inRoom
          /\ cooling' = cooling \cup {p}
          /\ UNCHANGED <<faults, causes>>
       \/ /\ p \in inRoom /\ t.op.actor \in inRoom
          /\ cooling' = cooling \cup {p}
          /\ Fault
    /\ UNCHANGED <<room, owed>>

\* Mutant: no other bot is asked.
AlternativesNone(p, view, cool) == {}

\* The bots ejectAndBlacklist asks when the first kick has failed.
Alternatives(p, view, cool) == Ranked(view \ {p}, cool)

\* ejectAndBlacklist: the protector first.
Eject(t) ==
    /\ t.pc = "eject"
    /\ Confirm(t.by)
    /\ \/ KickWorks(t, t.by) /\ Become(t, [t EXCEPT !.pc = "ejected"])
       \/ /\ KickFails(t, t.by, FALSE)
          /\ LET others == Alternatives(t.by, member', cooling')
             IN  Become(t, [t EXCEPT !.pc = IF others = {} THEN "ejected" ELSE "retry",
                                     !.left = others])
    /\ UNCHANGED <<store, seen, defended, sent, reacted>>

Retry(t, p) ==
    /\ t.pc = "retry" /\ p \in t.left
    /\ Confirm(p)
    /\ \/ KickWorks(t, p) /\ Become(t, [t EXCEPT !.pc = "ejected", !.left = {}])
       \/ /\ KickFails(t, p, t.left = {p})
          /\ Become(t, [t EXCEPT !.pc = IF t.left = {p} THEN "ejected" ELSE "retry",
                                 !.left = @ \ {p}])
    /\ UNCHANGED <<store, seen, defended, sent, reacted>>

\* AutoBlacklist runs beside the kicks and refuses holders of a role. A user
\* who was removed and came back before it is on the list and in the room.
AutoBlacklist(t) ==
    /\ t.pc \in {"strike", "struck", "eject", "retry", "ejected"} /\ ~t.saved
    /\ blacklist' = IF Role(t.op.actor) = RoleUser THEN blacklist \cup {t.op.actor} ELSE blacklist
    /\ Become(t, [t EXCEPT !.saved = TRUE])
    /\ causes' = causes \cup (IF t.pc \in {"struck", "ejected"} /\ t.op.actor \in inRoom
                              THEN {"returned"} ELSE {})
    /\ UNCHANGED <<room, settings, engine, counts, owed, reacted>>

\* ejectAndBlacklist waits for it.
Ejected(t) ==
    /\ t.pc = "ejected" /\ t.saved
    /\ IF t.next = "reinvite" THEN Become(t, [t EXCEPT !.pc = "reinvite", !.next = "end"])
       ELSE End(t)
    /\ UNCHANGED <<room, store, engine, counts, history>>

\* defenseCompleted and the membership check of fastBotDefenseKick.
Defend(t) ==
    /\ t.pc = "defend"
    /\ IF t.op.id \notin defended /\ t.bot \in member
       THEN Become(t, [t EXCEPT !.pc = "strike"]) /\ UNCHANGED causes
       ELSE End(t) /\ Deferred(t)
    /\ UNCHANGED <<room, store, engine, counts, owed, reacted>>

\* KickFromChat of fastBotDefenseKick; no other bot is asked.
Strike(t) ==
    /\ t.pc = "strike"
    /\ \/ KickWorks(t, t.bot) /\ Become(t, [t EXCEPT !.pc = "struck", !.next = "mark"])
       \/ KickFails(t, t.bot, Defenders(t.op) = {t}) /\ Become(t, [t EXCEPT !.pc = "struck"])
    /\ UNCHANGED <<store, member, seen, defended, sent, reacted>>

\* The defence is marked as done if the kick and the blacklisting succeeded.
Struck(t) ==
    /\ t.pc = "struck" /\ t.saved
    /\ defended' = IF t.next = "mark" /\ Role(t.op.actor) = RoleUser
                   THEN defended \cup {t.op.id} ELSE defended
    /\ End(t)
    /\ UNCHANGED <<room, store, member, seen, cooling, counts, history>>

\* e.cancel of the invitation. Whatever comes of it, the ejection is next.
Cancel(t) ==
    /\ t.pc = "cancel"
    /\ Confirm(t.by)
    /\ \/ /\ t.by \in inRoom /\ t.op.target \in invitees
          /\ RoomBecomes(inRoom, invitees \ {t.op.target}, qrOpen)
          /\ UNCHANGED <<cooling, faults, causes>>
       \/ /\ t.by \in inRoom
          /\ cooling' = cooling \cup {t.by}
          /\ IF t.op.target \in invitees THEN Fault ELSE UNCHANGED <<faults, causes>>
          /\ UNCHANGED <<room, owed>>
       \/ /\ t.by \notin inRoom
          /\ causes' = causes \cup {"absent"}
          /\ UNCHANGED <<room, owed, cooling, faults>>
    /\ IF t.next = "eject" THEN Become(t, [t EXCEPT !.pc = "eject", !.next = "end"]) ELSE End(t)
    /\ UNCHANGED <<store, seen, defended, sent, reacted>>

\* CloseChatTicket by the protector. Without it there is no ejection.
Close(t) ==
    /\ t.pc = "close"
    /\ \/ /\ t.by \in inRoom
          /\ RoomBecomes(inRoom, invitees, FALSE)
          /\ Become(t, [t EXCEPT !.pc = "eject", !.next = "end"])
          /\ UNCHANGED <<faults, causes>>
       \/ /\ IF t.by \in inRoom THEN Fault ELSE causes' = causes \cup {"absent"} /\ UNCHANGED faults
          /\ End(t)
          /\ UNCHANGED <<room, owed>>
    /\ UNCHANGED <<store, engine, sent, reacted>>

\* reinvitePrivileged by the protector.
Reinvite(t) ==
    /\ t.pc = "reinvite"
    /\ Confirm(t.by)
    /\ \/ /\ t.by \in inRoom
          /\ RoomBecomes(inRoom, invitees \cup ({t.op.target} \ inRoom), qrOpen)
          /\ UNCHANGED <<cooling, faults, causes>>
       \/ /\ t.by \in inRoom
          /\ cooling' = cooling \cup {t.by}
          /\ Fault
          /\ UNCHANGED <<room, owed>>
       \/ /\ t.by \notin inRoom
          /\ causes' = causes \cup {"absent"}
          /\ UNCHANGED <<room, owed, cooling, faults>>
    /\ End(t)
    /\ UNCHANGED <<store, seen, defended, sent, reacted>>

\* handleJoin removes a user of the blacklist, warJoinAction one who joins a
\* war, with the bot that handles the operation and no other.
Sweep(t) ==
    /\ t.pc = "sweep"
    /\ Confirm(t.bot)
    /\ \/ KickWorks(t, t.bot)
       \/ t.bot \in inRoom /\ KickFails(t, t.bot, TRUE)
       \/ /\ t.bot \notin inRoom
          /\ causes' = causes \cup {"absent"}
          /\ UNCHANGED <<room, cooling, faults, owed>>
    /\ End(t)
    /\ UNCHANGED <<store, seen, defended, sent, reacted>>

-----------------------------------------------------------------------------
UserActs ==
    \/ \E a \in Users \cap inRoom, m \in Mids :
          UserKicks(a, m) \/ UserInvites(a, m) \/ UserCancels(a, m)
    \/ \E a \in Users \cap inRoom : UserOpensQR(a)
    \/ \E u \in Users : UserJoins(u)

TimePasses == (\E entry \in seen : Forget(entry) \/ ForgetEarly(entry)) \/ (\E b \in Bots : CoolsDown(b))

Step(t) ==
    \/ Begin(t)
    \/ Eject(t) \/ (\E p \in Bots : Retry(t, p)) \/ AutoBlacklist(t) \/ Ejected(t)
    \/ Defend(t) \/ Strike(t) \/ Struck(t)
    \/ Cancel(t) \/ Close(t) \/ Reinvite(t) \/ Sweep(t)

Commands == \E a \in Users, on \in BOOLEAN : SetProtection(a, Scopes, on)

Next == UserActs \/ TimePasses \/ Commands \/ \E t \in tasks : Step(t)

Spec == Init /\ [][Next]_vars

-----------------------------------------------------------------------------
TypeOK ==
    /\ inRoom \subseteq Mids /\ invitees \subseteq Mids /\ qrOpen \in BOOLEAN
    /\ roles \in [Users -> RoleUser..RoleCreator]
    /\ blacklist \subseteq Users /\ protection \subseteq Scopes /\ war \in WarStates
    /\ member \subseteq Bots /\ cooling \subseteq Bots
    /\ defended \subseteq 1..MaxOps
    /\ tasks \subseteq Tasks
    /\ sent \in 0..MaxOps /\ faults \in 0..MaxFaults
    /\ owed \subseteq Debts
    /\ causes \subseteq {"settings", "repeat", "late", "nobody", "accepted", "fault", "absent",
                  "deferred", "returned"}

\* One bot, and no other, reacts to an operation that all of them receive:
\* duplicate lets the first through. Only a bot that handles the operation more
\* than ten seconds after the first one reacts again.
OneReaction ==
    "late" \notin causes =>
        \A r, s \in reacted : r[1] = s[1] => r[2] = s[2]

\* "Creators, Owners, Admins, GAdmins, and registered guard accounts are
\* exempt": whatever the handlers find in the store when they get there, a
\* holder of a role is removed only for removing a bot, and a GAdmin for
\* inviting one or for joining while on the blacklist (an Admin may put it there).
RoleHoldersExempt ==
    [][\A m \in Users \cap (inRoom \ inRoom') :
         sent' = sent /\ Role(m) # RoleUser =>
             \E t \in tasks :
                /\ t.op.actor = m
                /\ \/ BotKicked(t.op)
                   \/ t.op.type = "invite" /\ IsBot(t.op.target) /\ Role(m) = RoleGAdmin
                   \/ t.op.type = "join" /\ m \in blacklist /\ Role(m) = RoleGAdmin]_vars

\* When every handler has returned, the room is as the protection promises:
\* intruders are out, their invitations are cancelled, the link is closed,
\* removed Owners are invited again. The exceptions are all there are: a failed
\* call, the same event within ten seconds of the first, a protector that has
\* left and whom nobody stands in for, defenders who leave it to each other (each
\* in the cooldown of a failed call when it looked), an invitee who was faster, a
\* setting changed meanwhile, no bot left.
DebtsPaid ==
    tasks = {} /\ causes \subseteq {"late", "returned"}
        => owed = {}

\* Nobody on the blacklist is in the room when the handlers have returned,
\* except for the same reasons and for users who came back between the kick
\* and the entry in the list.
BlacklistedOut ==
    tasks = {} /\ causes \subseteq {"late", "accepted", "settings"}
        => blacklist \cap inRoom = {}
==============================================================================
