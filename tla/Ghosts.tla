-------------------------------- MODULE Ghosts --------------------------------
(***************************************************************************)
(* Ghost accounts and group tickets (guard/engine.go: configureReserves,   *)
(* launchRecovery, parkReserves, admitPrimaryFleetByGroupTicket,           *)
(* ReconcileStartup, leaveBotFleet and the handlers that start them).      *)
(* Ghosts are bots that wait in the invitation list of a room and come in  *)
(* when the last primary bot was removed.                                  *)
(*                                                                         *)
(* inRoom, invited, foes and ticket are the room on the LINE server:       *)
(* bots inside and bots invited, users inside who attack it, and whether   *)
(* joining by group ticket is enabled. Boss is a user who stays. A task is *)
(* a goroutine; it takes one step per critical section or API call, a call *)
(* and the setMember that follows it being one step (FleetReconcile has    *)
(* them apart). A reconciliation of the fleet is one step as well; its     *)
(* interleavings are in FleetReconcile too. causes is history.             *)
(***************************************************************************)
EXTENDS Naturals, FiniteSets

CONSTANTS
    Bots, Foes, Boss,
    Nobody,
    InitScenes,    \* where the bots are, which of them are ghosts, who is Creator,
                   \* and how much of the next two bounds is used up
    MaxOps,        \* bound on commands, attacks and restarts
    MaxFaults      \* bound on API calls that fail although they could succeed

Users == Foes \cup {Boss}
Kinds == [Bots -> {"primary", "reserve"}]
Scenes == [inRoom : SUBSET Bots, invited : SUBSET Bots, member : SUBSET Bots,
           plan : SUBSET Bots, kinds : Kinds,
           creator : Users \cup {Nobody}, war : BOOLEAN, sent : 0..MaxOps, faults : 0..MaxFaults]

ASSUME GhostsAssumption ==
    /\ Bots \cap Users = {} /\ Boss \notin Foes /\ Nobody \notin Bots \cup Users
    /\ InitScenes \subseteq Scenes
    /\ \A s \in InitScenes :
          /\ s.plan \subseteq s.invited \ s.inRoom
          /\ s.inRoom = {} => s.plan = {}
          /\ s.creator = Nobody => s.inRoom = {}
    /\ {MaxOps, MaxFaults} \subseteq Nat

VARIABLES
    inRoom, invited, foes, ticket,
    creator, blacklist, plan,           \* the store: BootstrapCreator, AutoBlacklist, ReservePlan
    kinds, war, member, seen,           \* the engine
    tasks,
    sent, faults, causes

room   == <<inRoom, invited, foes, ticket>>
store  == <<creator, blacklist, plan>>
engine == <<kinds, war, member, seen>>
vars   == <<room, store, engine, tasks, sent, faults, causes>>

PCs == {"kick", "tail", "cancel", "join", "echo", "park", "repark", "invited", "accept", "reconcile",
        "recover", "enter", "sweep", "call", "ticket", "admit", "close", "rejoin", "depart", "leave"}

\* who: the bot the operation is about, or the one that leads; from: who did it;
\* left: the bots still to see to; old: the plan before; next: what follows.
Tasks == [pc : PCs, id : 0..MaxOps, bot : Bots \cup {Nobody}, who : Bots \cup {Nobody},
          from : Bots \cup Users \cup {Nobody}, left : SUBSET Bots, old : SUBSET Bots,
          next : {"end", "call", "ticket", "reconcile"}]

Task(pc, id, b, who, from) ==
    [pc |-> pc, id |-> id, bot |-> b, who |-> who, from |-> from,
     left |-> {}, old |-> {}, next |-> "end"]

Async(pc) == Task(pc, 0, Nobody, Nobody, Nobody)
InvitedTasks(S, inviter) == {Task("invited", 0, b, b, inviter) : b \in S}
JoinTasks(b, members) == {[Task("join", 0, Nobody, b, Nobody) EXCEPT !.left = members]}

Primary == {b \in Bots : kinds[b] = "primary"}

\* primaryCount(group) > 0
PrimaryInView == member \cap Primary # {}

\* Primary bots that are in the room and no ghosts.
Regulars == (inRoom \cap Primary) \ plan

\* Ghosts that are neither in the room nor invited.
Lost == plan \ (inRoom \cup invited)

\* The report of its own removal that bot b has yet to handle.
OwnReport(t, b) == t.pc = "kick" /\ t.bot = b /\ t.who = b

\* Bots that count as present although they have left, and no handler will see it.
Miscounted(view) == {b \in (view \cap Primary) \ inRoom : \A t \in tasks : ~OwnReport(t, b)}

Become(t, u, more) == tasks' = (tasks \ {t}) \cup {u} \cup more
End(t, more) == tasks' = (tasks \ {t}) \cup more

-----------------------------------------------------------------------------
\* Bots that are invited and no ghosts have yet to hear of it.
Init ==
    /\ \E s \in InitScenes :
          /\ inRoom = s.inRoom /\ member = s.member
          /\ invited = s.invited /\ plan = s.plan
          /\ kinds = s.kinds /\ creator = s.creator /\ war = s.war
          /\ sent = s.sent /\ faults = s.faults
          /\ tasks = InvitedTasks(s.invited \ s.plan, Boss)
    /\ foes = Foes /\ ticket = FALSE
    /\ blacklist = {} /\ seen = {}
    /\ causes = {}

-----------------------------------------------------------------------------
(* What users do. Every bot in the room hears of it.                       *)

Happens == sent < MaxOps /\ sent' = sent + 1

Heard(pc, b, f) == {Task(pc, sent + 1, c, b, f) : c \in inRoom}

FoeKicks(f, b) ==
    /\ Happens /\ f \in foes /\ b \in inRoom
    /\ inRoom' = inRoom \ {b}
    /\ tasks' = tasks \cup Heard("kick", b, f)
    /\ causes' = causes \cup (IF b \in plan /\ kinds[b] = "reserve" THEN {"dismissed"} ELSE {})
    /\ UNCHANGED <<invited, foes, ticket, store, engine, faults>>

FoeCancels(f, b) ==
    /\ Happens /\ f \in foes /\ b \in invited
    /\ invited' = invited \ {b}
    /\ tasks' = tasks \cup Heard("cancel", b, f)
    /\ causes' = causes \cup (IF b \in plan THEN {"dismissed"} ELSE {})
    /\ UNCHANGED <<inRoom, foes, ticket, store, engine, faults>>

\* A foe's invitation makes a difference before there is a Creator.
UserInvites(u, b) ==
    /\ Happens
    /\ u = Boss \/ (u \in foes /\ creator = Nobody)
    /\ b \notin inRoom \cup invited
    /\ invited' = invited \cup {b}
    /\ tasks' = tasks \cup InvitedTasks({b}, u)
    /\ UNCHANGED <<inRoom, foes, ticket, store, engine, faults, causes>>

-----------------------------------------------------------------------------
(* API calls.                                                              *)

\* A call that could succeed fails all the same.
Fault == faults < MaxFaults /\ faults' = faults + 1 /\ causes' = causes \cup {"fault"}

NoFault == UNCHANGED <<faults, causes>>

Because(c, cause) == causes' = causes \cup (IF c THEN {cause} ELSE {})

\* Nobody is left to invite the ghosts that are lost.
Abandons(c) == Because(c /\ Lost # {}, "uninvited")

\* Bot b enters; the bots in the room hear of it and setMember follows.
Enters(b) ==
    /\ inRoom' = inRoom \cup {b}
    /\ invited' = invited \ {b}
    /\ member' = member \cup {b}

Leaves(b) ==
    /\ inRoom' = inRoom \ {b}
    /\ UNCHANGED invited

\* confirmGroupMembership corrects the view of the bot that is about to act.
Confirmed(b) == IF b \in inRoom THEN member \cup {b} ELSE member \ {b}

\* Those of S that an invitation reaches.
Reached(S) == S \ (inRoom \cup invited)

-----------------------------------------------------------------------------
(* handleKick, handleCancellation and the reconciliation they ask for.     *)

\* Mutant: the bots are counted before the removal is observed.
TailEarly(t, view) ==
    IF t.who \in Primary /\ (view \cup {t.who}) \cap Primary = {}
    THEN End(t, IF war THEN {} ELSE {Async("recover")}) /\ Because(war, "war")
    ELSE End(t, {Async("reconcile")}) /\ UNCHANGED causes

\* The end of handleKick: ghosts are called when the view shows no primary bot
\* and there is no war. A bot that has left and is still in the view counts.
Tail(t, view) ==
    IF t.who \in Primary /\ view \cap Primary = {}
    THEN End(t, IF war THEN {} ELSE {Async("recover")}) /\ Because(war, "war")
    ELSE /\ End(t, {Async("reconcile")})
         /\ causes' = causes \cup (IF Miscounted(view) # {} THEN {"counted"} ELSE {})
                             \cup (IF t.who \notin Primary THEN {"reserve"} ELSE {})

\* observeMembership, duplicate with a key per bot, and fastBotDefenseKick: a
\* primary bot of the view, not the one that was removed, removes the actor, who
\* goes on the blacklist without a role. The end of the handler waits for it.
HandleKick(t) ==
    LET key == <<"kick", t.from, t.who, t.bot>>
        view == member \ {t.who}
    IN  /\ t.pc = "kick"
        /\ member' = view
        /\ \/ /\ creator = Nobody \/ key \in seen
              /\ End(t, {}) /\ Because(creator # Nobody, "repeat")
              /\ UNCHANGED <<seen, foes, blacklist, faults>>
           \/ /\ creator # Nobody /\ key \notin seen /\ t.bot \notin view \cap Primary
              /\ seen' = seen \cup {key}
              /\ Tail(t, view)
              /\ UNCHANGED <<foes, blacklist, faults>>
           \/ /\ creator # Nobody /\ key \notin seen /\ t.bot \in view \cap Primary
              /\ seen' = seen \cup {key}
              /\ Become(t, [t EXCEPT !.pc = "tail"], {})
              /\ blacklist' = IF t.from # creator THEN blacklist \cup {t.from} ELSE blacklist
              /\ \/ foes' = (IF t.bot \in inRoom THEN foes \ {t.from} ELSE foes) /\ NoFault
                 \/ t.bot \in inRoom /\ t.from \in foes /\ Fault /\ UNCHANGED foes
        /\ UNCHANGED <<inRoom, invited, ticket, creator, plan, kinds, war, sent>>

HandleKickTail(t) ==
    /\ t.pc = "tail"
    /\ Tail(t, member)
    /\ UNCHANGED <<room, store, engine, sent, faults>>

HandleCancellation(t) ==
    LET key == <<"cancel", t.from, t.who>>
    IN  /\ t.pc = "cancel"
        /\ seen' = seen \cup {key}
        /\ IF key \notin seen /\ t.who \in Primary
           THEN member' = member \ {t.who} /\ End(t, {Async("reconcile")})
           ELSE End(t, {}) /\ UNCHANGED member
        /\ UNCHANGED <<room, store, kinds, war, sent, faults, causes>>

\* reconcilePrimaryFleet: the primary bots of the view invite the missing ones.
\* A bot that is found not to be in the room goes from the view; when all of
\* them do, nobody is invited and no ghost is called.
Reconcile(t) ==
    LET candidates == member \cap Primary
        missing == Primary \ member
    IN  /\ t.pc = "reconcile"
        /\ IF missing = {} THEN End(t, {}) /\ NoFault /\ UNCHANGED <<member, invited>>
           ELSE IF candidates \cap inRoom = {}
           THEN /\ member' = member \ candidates
                /\ End(t, {}) /\ Abandons(TRUE) /\ UNCHANGED <<invited, faults>>
           ELSE /\ \E stale \in SUBSET (candidates \ inRoom) : member' = member \ stale
                /\ \E p \in candidates \cap inRoom, S \in SUBSET Reached(missing) :
                      /\ IF S = Reached(missing) THEN NoFault ELSE Fault
                      /\ invited' = invited \cup S
                      /\ End(t, InvitedTasks(S, p))
        /\ UNCHANGED <<inRoom, foes, ticket, store, kinds, war, seen, sent>>

-----------------------------------------------------------------------------
(* handleInvitation of the bot that is invited.                            *)

Waits(t) == t.bot \in plan /\ PrimaryInView

\* Mutant: a Creator that cannot be saved is given up, and the bot goes on.
BootstrapCreatorLogged(t) ==
    \/ /\ creator' = IF creator = Nobody THEN t.from ELSE creator
       /\ Become(t, [t EXCEPT !.pc = "accept"], {}) /\ NoFault
    \/ creator = Nobody /\ Fault /\ Become(t, [t EXCEPT !.pc = "accept"], {}) /\ UNCHANGED creator

\* Without a Creator, the inviter becomes it. When that cannot be saved the
\* handler returns, and memory has it all the same.
BootstrapCreator(t) ==
    /\ creator' = IF creator = Nobody THEN t.from ELSE creator
    /\ \/ Become(t, [t EXCEPT !.pc = "accept"], {}) /\ NoFault
       \/ creator = Nobody /\ Fault /\ End(t, {})

\* A ghost waits while the view shows a primary bot.
HandleInvitation(t) ==
    /\ t.pc = "invited"
    /\ \/ Waits(t) /\ End(t, {}) /\ NoFault /\ UNCHANGED creator
       \/ ~Waits(t) /\ BootstrapCreator(t)
    /\ UNCHANGED <<room, blacklist, plan, engine, sent>>

\* An invitation by a Creator lets the whole fleet in by ticket.
Accept(t) ==
    /\ t.pc = "accept"
    /\ \/ /\ t.bot \in invited
          /\ Enters(t.bot)
          /\ Because(t.bot \in plan /\ Regulars # {}, "overtaken") /\ UNCHANGED faults
          /\ IF t.from \in Users /\ t.from = creator
             THEN Become(t, [t EXCEPT !.pc = "ticket", !.next = "reconcile"], JoinTasks(t.bot, inRoom'))
             ELSE End(t, JoinTasks(t.bot, inRoom'))
       \/ /\ IF t.bot \in invited THEN Fault ELSE NoFault
          /\ End(t, {Async("reconcile")})
          /\ UNCHANGED <<inRoom, invited, member>>
    /\ UNCHANGED <<foes, ticket, store, kinds, war, seen, sent>>

-----------------------------------------------------------------------------
(* admitPrimaryFleetByGroupTicket, led by t.bot. t.next is what the caller *)
(* does after an error.                                                    *)

\* What follows an error.
Fallback(t) == IF t.next = "reconcile" THEN {Async("reconcile")} ELSE {}

\* ReissueChatTicket and OpenChatTicket. Every primary bot outside is to join, a
\* waiting ghost too.
OpenTicket(t) ==
    LET joining == Primary \ (inRoom \cup {t.bot})
    IN  /\ t.pc = "ticket"
        /\ \/ /\ t.bot \in inRoom /\ joining = {}
              /\ End(t, {}) /\ NoFault /\ UNCHANGED ticket
           \/ /\ t.bot \in inRoom /\ joining # {}
              /\ ticket' = TRUE
              /\ Become(t, [t EXCEPT !.pc = "admit", !.left = joining], {}) /\ NoFault
           \/ /\ IF t.bot \in inRoom THEN Fault ELSE NoFault
              /\ End(t, Fallback(t)) /\ UNCHANGED ticket
        /\ UNCHANGED <<inRoom, invited, foes, store, engine, sent>>

\* Mutant: an error leaves the function before the deferred call is set up.
AfterAdmitReturn(t, rest, failed) ==
    IF failed THEN Fallback(t)
    ELSE {[t EXCEPT !.pc = IF rest = {} THEN "close" ELSE "admit", !.left = rest]}

\* The loop goes on after an error; the deferred CloseChatTicket comes last.
AfterAdmit(t, rest, failed) ==
    {[t EXCEPT !.pc = IF rest = {} THEN "close" ELSE "admit", !.left = rest,
               !.old = IF failed THEN @ \cup {t.bot} ELSE @]}

\* AcceptChatInvitationByTicket of one bot.
Admit(t, b) ==
    /\ t.pc = "admit" /\ b \in t.left
    /\ \/ /\ ticket /\ b \notin inRoom
          /\ Enters(b)
          /\ Because(b \in plan, "admitted") /\ UNCHANGED faults
          /\ End(t, AfterAdmit(t, t.left \ {b}, FALSE) \cup JoinTasks(b, inRoom'))
       \/ /\ IF ticket /\ b \notin inRoom THEN Fault ELSE NoFault
          /\ End(t, AfterAdmit(t, t.left \ {b}, TRUE))
          /\ UNCHANGED <<inRoom, invited, member>>
    /\ UNCHANGED <<foes, ticket, store, kinds, war, seen, sent>>

\* The deferred CloseChatTicket of the leader.
CloseTicket(t) ==
    /\ t.pc = "close"
    /\ \/ /\ t.bot \in inRoom
          /\ ticket' = FALSE /\ NoFault
          /\ End(t, IF t.old = {} THEN {} ELSE Fallback(t))
       \/ /\ IF t.bot \in inRoom THEN Fault ELSE Because(TRUE, "leaderGone") /\ UNCHANGED faults
          /\ End(t, Fallback(t)) /\ UNCHANGED ticket
    /\ UNCHANGED <<inRoom, invited, foes, store, engine, sent>>

-----------------------------------------------------------------------------
(* launchRecovery: the ghosts come in, remove whoever is on the blacklist  *)
(* and invite the primary bots.                                            *)

LaunchRecovery(t) ==
    /\ t.pc = "recover"
    /\ IF plan = {} \/ <<"recovery">> \in seen
       THEN /\ End(t, {})
            /\ Because(plan # {}, "recent")
            /\ UNCHANGED seen
       ELSE /\ seen' = seen \cup {<<"recovery">>}
            /\ Become(t, [t EXCEPT !.pc = "enter", !.left = plan, !.next = "call"], {})
            /\ UNCHANGED causes
    /\ UNCHANGED <<room, store, kinds, war, member, sent, faults>>

\* The first ghost to get in is the rescuer.
AfterEnter(t, rest, rescuer) ==
    IF rest # {} THEN {[t EXCEPT !.left = rest, !.bot = rescuer]}
    ELSE IF rescuer = Nobody THEN {}
    ELSE {[t EXCEPT !.pc = "sweep", !.left = {}, !.bot = rescuer]}

GhostEnters(t, g) ==
    /\ t.pc = "enter" /\ g \in t.left
    /\ \/ /\ g \in invited
          /\ Enters(g)
          /\ Because(Regulars # {}, "overtaken") /\ UNCHANGED faults
          /\ End(t, AfterEnter(t, t.left \ {g}, IF t.bot = Nobody THEN g ELSE t.bot)
                      \cup JoinTasks(g, inRoom'))
       \/ /\ IF g \in invited THEN Fault
             ELSE Abandons(t.left = {g} /\ t.bot = Nobody) /\ UNCHANGED faults
          /\ End(t, AfterEnter(t, t.left \ {g}, t.bot))
          /\ UNCHANGED <<inRoom, invited, member>>
    /\ UNCHANGED <<foes, ticket, store, kinds, war, seen, sent>>

\* GetChats, then one kick per member on the blacklist, whose errors are logged.
\* A start goes on to the ticket only if a primary bot that is no ghost is missing.
Sweep(t) ==
    /\ t.pc = "sweep"
    /\ IF t.bot \in inRoom
       THEN /\ \E S \in SUBSET (foes \cap blacklist) :
                  /\ foes' = foes \ S
                  /\ IF S = foes \cap blacklist THEN NoFault ELSE Fault
            /\ IF t.next = "ticket" /\ Primary \subseteq inRoom \cup plan THEN End(t, {})
               ELSE Become(t, [t EXCEPT !.pc = t.next, !.next = "end"], {})
       ELSE End(t, {}) /\ Abandons(TRUE) /\ UNCHANGED <<foes, faults>>
    /\ UNCHANGED <<inRoom, invited, ticket, store, engine, sent>>

CallPrimaries(t) ==
    /\ t.pc = "call"
    /\ IF t.bot \in inRoom
       THEN \E S \in SUBSET Reached(Primary) :
               /\ IF S = Reached(Primary) THEN NoFault ELSE Fault
               /\ invited' = invited \cup S
               /\ End(t, InvitedTasks(S, t.bot))
       ELSE End(t, {}) /\ Abandons(TRUE) /\ UNCHANGED <<invited, faults>>
    /\ member' = Confirmed(t.bot)
    /\ UNCHANGED <<inRoom, foes, ticket, store, kinds, war, seen, sent>>

-----------------------------------------------------------------------------
(* handleJoin: a primary bot is back, the ghosts leave and are invited     *)
(* again by the bot that handles the operation.                            *)

\* observeMembership, and parkReserves as far as the map. The first bot to
\* handle the operation is c. For the others observeMembership remains, which
\* may come late: one echo stands for them.
HandleJoin(t, c) ==
    LET echo == IF t.left = {c} THEN {} ELSE {Task("echo", 0, Nobody, t.who, Nobody)}
    IN  /\ t.pc = "join" /\ c \in t.left
        /\ member' = member \cup {t.who}
        /\ IF t.who \in Primary \ plan /\ plan # {} /\ <<"park">> \notin seen
           THEN /\ seen' = seen \cup {<<"park">>}
                /\ Become(t, [t EXCEPT !.pc = "park", !.bot = c, !.left = plan], echo)
                /\ Because(t.who \notin inRoom, "echo")
           ELSE /\ End(t, echo) /\ UNCHANGED seen
                /\ causes' = causes
                     \cup (IF t.who \notin inRoom THEN {"echo"} ELSE {})
                     \cup (IF t.who \in Primary \ plan /\ plan \cap inRoom # {} THEN {"recent"} ELSE {})
        /\ UNCHANGED <<room, store, kinds, war, sent, faults>>

Echo(t) ==
    /\ t.pc = "echo"
    /\ member' = member \cup {t.who}
    /\ Because(t.who \notin inRoom, "echo")
    /\ End(t, {})
    /\ UNCHANGED <<room, store, kinds, war, seen, sent, faults>>

Rest(t, rest) == IF rest = {} THEN {} ELSE {[t EXCEPT !.pc = "park", !.left = rest]}

\* Mutant: a ghost that leaves is not invited again.
ParkOnly(t, g) ==
    /\ t.pc = "park" /\ g \in t.left
    /\ IF g \in member \cap inRoom
       THEN Leaves(g) /\ member' = member \ {g} ELSE UNCHANGED <<inRoom, invited, member>>
    /\ End(t, Rest(t, t.left \ {g})) /\ NoFault
    /\ UNCHANGED <<foes, ticket, store, kinds, war, seen, sent>>

\* LeaveChat of one ghost of the view; an error ends the loop.
Park(t, g) ==
    /\ t.pc = "park" /\ g \in t.left
    /\ \/ /\ g \notin member
          /\ End(t, Rest(t, t.left \ {g})) /\ Because(g \in inRoom, "viewStale")
          /\ UNCHANGED <<inRoom, invited, member, faults>>
       \/ /\ g \in member \cap inRoom
          /\ Leaves(g) /\ member' = member \ {g} /\ NoFault
          /\ Become(t, [t EXCEPT !.pc = "repark", !.who = g, !.left = @ \ {g}], {})
       \/ /\ g \in member
          /\ IF g \in inRoom THEN Fault ELSE Because(TRUE, "viewStale") /\ UNCHANGED faults
          /\ End(t, {}) /\ UNCHANGED <<inRoom, invited, member>>
    /\ UNCHANGED <<foes, ticket, store, kinds, war, seen, sent>>

\* e.invite by the handling bot, which may be the ghost that has just left.
Repark(t) ==
    /\ t.pc = "repark"
    /\ member' = Confirmed(t.bot)
    /\ \/ /\ t.bot \in inRoom
          /\ invited' = invited \cup Reached({t.who})
          /\ End(t, Rest(t, t.left) \cup InvitedTasks(Reached({t.who}), t.bot)) /\ NoFault
       \/ /\ IF t.bot \in inRoom THEN Fault ELSE Because(TRUE, "inviterGone") /\ UNCHANGED faults
          /\ End(t, {}) /\ UNCHANGED invited
    /\ UNCHANGED <<inRoom, foes, ticket, store, kinds, war, seen, sent>>

-----------------------------------------------------------------------------
(* Commands of the Creator, executed by bot c.                             *)

\* ghost 0, 1 or 2: configureReserves up to SetReservePlan. Ghosts of the old
\* plan come first, then bots in the room, never the bot that executes.
ConfigureReserves(c, count) ==
    LET old == plan \ {c}
        candidates == old \cup (inRoom \ {c})
    IN  /\ Happens /\ creator = Boss /\ c \in inRoom
        /\ \E S \in SUBSET candidates :
              /\ Cardinality(S) = count
              /\ old \subseteq S \/ S \subseteq old
              /\ plan' = S
              /\ tasks' = tasks \cup
                   {[Task("rejoin", sent + 1, c, Nobody, Boss)
                       EXCEPT !.left = S \cap inRoom, !.old = plan]}
        /\ UNCHANGED <<room, creator, blacklist, engine, faults, causes>>

\* AcceptChatInvitation of a former ghost; whatever comes of it, the loop goes on.
Rejoin(t) ==
    LET former == (t.old \ plan) \cap invited
    IN  /\ t.pc = "rejoin"
        /\ \E S \in SUBSET former :
              /\ IF S = former THEN NoFault ELSE Fault
              /\ inRoom' = inRoom \cup S /\ invited' = invited \ S
              /\ End(t, (IF t.left = {} THEN {} ELSE {[t EXCEPT !.pc = "depart"]})
                          \cup UNION {JoinTasks(b, inRoom') : b \in S})
        /\ UNCHANGED <<foes, ticket, store, engine, sent>>

\* A ghost that was in the room leaves; its entry in the view stays. It is
\* invited only if it was not in the old plan: "may already be pending".
Depart(t, g) ==
    LET rest == IF t.left = {g} THEN {} ELSE {[t EXCEPT !.left = @ \ {g}]}
        asked == IF g \in t.old THEN {} ELSE {g} \ invited
    IN  /\ t.pc = "depart" /\ g \in t.left
        /\ \/ /\ g \in inRoom
              /\ inRoom' = inRoom \ {g}
              /\ member' = IF asked = {} THEN member ELSE Confirmed(t.bot)
              /\ IF t.bot \in inRoom
                 THEN /\ invited' = invited \cup asked
                      /\ End(t, rest \cup InvitedTasks(asked, t.bot))
                      /\ Because(g \in t.old, "uninvited")
                 ELSE /\ End(t, rest) /\ UNCHANGED invited
                      /\ Because(TRUE, "inviterGone")
              /\ UNCHANGED faults
           \/ /\ IF g \in inRoom THEN Fault ELSE Because(TRUE, "viewStale") /\ UNCHANGED faults
              /\ End(t, {}) /\ UNCHANGED <<inRoom, invited, member>>
        /\ UNCHANGED <<foes, ticket, store, kinds, war, seen, sent>>

\* bye: leaveBotFleet.
Bye(c) ==
    /\ Happens /\ creator = Boss /\ c \in inRoom
    /\ tasks' = tasks \cup {[Task("leave", sent + 1, c, Nobody, Boss) EXCEPT !.left = inRoom]}
    /\ causes' = causes \cup {"bye"}
    /\ UNCHANGED <<room, store, engine, faults>>

Leave(t, b) ==
    /\ t.pc = "leave" /\ b \in t.left
    /\ \/ b \in inRoom /\ Leaves(b) /\ member' = member \ {b} /\ NoFault
       \/ (IF b \in inRoom THEN Fault ELSE NoFault) /\ UNCHANGED <<inRoom, invited, member>>
    /\ End(t, IF t.left = {b} THEN {} ELSE {[t EXCEPT !.left = @ \ {b}]})
    /\ UNCHANGED <<foes, ticket, store, kinds, war, seen, sent>>

-----------------------------------------------------------------------------
(* The process dies and starts again: RegisterClient of the last account   *)
(* calls ReconcileStartup. A room with a bot is swept and, when a primary  *)
(* bot is missing, the fleet comes in by ticket; a room without one is     *)
(* entered by its ghosts first.                                            *)

\* Causes that end with the process.
Volatile == {"war", "counted", "reserve", "recent", "repeat", "viewStale", "echo"}

Restart ==
    LET start == [Async("sweep") EXCEPT !.next = "ticket"]
    IN  /\ Happens
        /\ member' = inRoom /\ seen' = {}
        /\ causes' = (causes \ Volatile)
             \cup (IF tasks # {} THEN {"crash"} ELSE {})
             \cup (IF causes \cap Volatile # {} /\ Lost \cup (plan \cap inRoom) # {}
                   THEN {"unparked"} ELSE {})
        /\ IF inRoom = {} /\ plan # {}
           THEN tasks' = {[start EXCEPT !.pc = "enter", !.left = plan]}
           ELSE \/ inRoom = {} /\ tasks' = {}
                \/ \E leader \in inRoom : tasks' = {[start EXCEPT !.bot = leader]}
        /\ UNCHANGED <<room, store, kinds, war, faults>>

-----------------------------------------------------------------------------
\* Ten seconds are over: the keys of seen outlive the goroutines they belong to,
\* which end after six.
Forget ==
    /\ tasks = {} /\ seen # {}
    /\ seen' = {}
    /\ UNCHANGED <<room, store, kinds, war, member, tasks, sent, faults, causes>>

UserActs ==
    \/ \E f \in Foes, b \in Bots : FoeKicks(f, b) \/ FoeCancels(f, b)
    \/ \E u \in Users, b \in Bots : UserInvites(u, b)
    \/ \E c \in Bots : Bye(c) \/ \E count \in 0..2 : ConfigureReserves(c, count)

Step(t) ==
    \/ HandleKick(t) \/ HandleKickTail(t) \/ HandleCancellation(t) \/ Reconcile(t)
    \/ HandleInvitation(t) \/ Accept(t)
    \/ OpenTicket(t) \/ (\E b \in Bots : Admit(t, b)) \/ CloseTicket(t)
    \/ LaunchRecovery(t) \/ (\E g \in Bots : GhostEnters(t, g)) \/ Sweep(t) \/ CallPrimaries(t)
    \/ (\E c \in Bots : HandleJoin(t, c)) \/ Echo(t)
    \/ (\E g \in Bots : Park(t, g)) \/ Repark(t)
    \/ Rejoin(t) \/ (\E g \in Bots : Depart(t, g)) \/ (\E b \in Bots : Leave(t, b))

Next == UserActs \/ Restart \/ Forget \/ \E t \in tasks : Step(t)

Spec == Init /\ [][Next]_vars

-----------------------------------------------------------------------------
TicketCauses == {"fault", "leaderGone", "crash"}

RescueCauses == {"fault", "war", "counted", "echo", "reserve", "recent", "repeat", "bye",
                 "inviterGone"}

PendingCauses == {"fault", "crash", "war", "dismissed", "inviterGone", "viewStale", "echo",
                  "recent", "repeat", "admitted", "overtaken", "uninvited", "unparked", "bye"}

TypeOK ==
    /\ inRoom \subseteq Bots /\ invited \subseteq Bots /\ foes \subseteq Foes /\ ticket \in BOOLEAN
    /\ creator \in Users \cup Bots \cup {Nobody} /\ blacklist \subseteq Foes /\ plan \subseteq Bots
    /\ kinds \in Kinds /\ war \in BOOLEAN /\ member \subseteq Bots
    /\ tasks \subseteq Tasks
    /\ sent \in 0..MaxOps /\ faults \in 0..MaxFaults

\* BootstrapCreator makes whoever invites first the Creator, and bots invite
\* bots when they recover each other. No bot becomes the Creator all the same:
\* none is in a room before the first inviter is registered, because the handler
\* registers it before it accepts and gives up when that cannot be saved.
CreatorIsAUser == creator \notin Bots

\* A group ticket that lets the fleet in is closed when all goroutines have
\* returned, also when bots could not join, when two rollouts overlapped, and
\* when bots were removed meanwhile. It stays open if the call fails, if the
\* leader that would close it was removed, and after a crash: nothing closes it
\* at the next start.
TicketClosed ==
    tasks = {} /\ ticket => causes \cap TicketCauses # {}

\* "If no primary bot remains, an invited ghost can enter": no room is left
\* without bots while a ghost waits in its invitations. The exceptions: a failed
\* call; a war; a ghost that has left and still counts as present, since
\* configureReserves does not clear its membership; a late report of a join that
\* makes a removed bot count; a reserve account that was the last bot; a rescue
\* or the same removal less than ten seconds ago; bots that left on command.
Rescued ==
    tasks = {} /\ inRoom = {} /\ plan \cap invited # {}
        => causes \cap RescueCauses # {}

\* "Keeps one bot pending as a rescue account": with a primary bot in the room
\* the ghosts wait in the invitations, also after they came to the rescue. The
\* exceptions: a failed call or a crash; an invitation that a user cancelled; an
\* inviter that has gone, as the ghost itself when it handles the operation that
\* sends it out; a view that was wrong; a second return of a bot within ten
\* seconds; a rollout that admits ghosts too; a primary bot that was faster.
GhostsPending ==
    tasks = {} /\ Regulars # {} /\ ~(plan \subseteq invited)
        => causes \cap PendingCauses # {}
==============================================================================
