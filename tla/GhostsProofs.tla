----------------------------- MODULE GhostsProofs -----------------------------
(***************************************************************************)
(* The safety theorems of Ghosts, for any bots, rooms and bounds.          *)
(***************************************************************************)
EXTENDS Ghosts, TLAPS

\* Before there is a Creator no bot is in the room, and users invite the first.
NoCreatorYet ==
    creator = Nobody =>
        inRoom = {} /\ plan = {} /\ \A t \in tasks : t.pc = "invited" /\ t.from \in Users

\* What the fields of a task are good for.
Shape(t) ==
    /\ t.pc \in {"kick", "cancel"} => t.bot \in Bots /\ t.who \in Bots /\ t.from \in Foes
    /\ t.pc \in {"invited", "accept"} => t.bot \in Bots /\ t.from \in Users \cup Bots
    /\ t.pc \in {"join", "echo", "repark"} => t.who \in Bots
    /\ t.pc \in {"ticket", "admit"} => t.bot \in Bots
    /\ t.pc \in {"enter", "sweep"} => t.next \in {"call", "ticket"}
    /\ t.pc \in {"rejoin", "depart"} => t.bot \notin t.left

Shaped == {t \in Tasks : Shape(t)}

TasksOK ==
    /\ tasks \subseteq Shaped
    /\ \A t \in tasks : t.pc = "leave" => "bye" \in causes

\* An open ticket has a task that closes it.
Tickets ==
    ticket => \/ causes \cap TicketCauses # {}
              \/ \E t \in tasks : t.pc \in {"admit", "close"}

\* The last bot was removed, and it has yet to hear of it or has left its post.
Unnoticed(t) == t.pc = "repark" \/ \E b \in Bots : OwnReport(t, b)

\* The task will bring a bot into the empty room.
Rescues(t, g) ==
    \/ Unnoticed(t)
    \/ t.pc = "recover"
    \/ t.pc = "enter" /\ g \in t.left
    \/ t.pc \in {"invited", "accept"} /\ t.bot = g

RescueInv ==
    inRoom = {} /\ causes \cap RescueCauses = {} =>
        /\ \A g \in plan \cap invited : \E t \in tasks : Rescues(t, g)
        /\ PrimaryInView /\ plan # {} => \E t \in tasks : Unnoticed(t)

\* The task will send the ghost out of the room.
SendsOut(t, g) ==
    \/ t.pc = "join" /\ t.who \in Primary \ plan
    \/ t.pc \in {"park", "repark", "rejoin", "depart"} /\ g \in t.left

\* The task will invite the ghost that is lost.
Invites(t, g) ==
    \/ t.pc = "repark" /\ t.who = g
    \/ /\ g \in Primary
       /\ \/ OwnReport(t, g)
          \/ t.pc = "reconcile" /\ g \notin member
          \/ t.pc \in {"recover", "call"}
          \/ t.pc \in {"enter", "sweep"} /\ t.next = "call"

PendingInv ==
    causes \cap PendingCauses = {} =>
        /\ Regulars # {} => \A g \in plan \cap inRoom : \E t \in tasks : SendsOut(t, g)
        /\ \A g \in Lost : \E t \in tasks : Invites(t, g)

IInv == TypeOK /\ CreatorIsAUser /\ NoCreatorYet /\ TasksOK /\ Tickets /\ RescueInv /\ PendingInv

-----------------------------------------------------------------------------
(* New tasks.                                                              *)

LEMMA NewTask ==
    ASSUME NEW pc \in PCs, NEW id \in 0 .. MaxOps, NEW b \in Bots \cup {Nobody},
           NEW who \in Bots \cup {Nobody}, NEW from \in Bots \cup Users \cup {Nobody}
    PROVE  /\ Task(pc, id, b, who, from) \in Tasks
           /\ Task(pc, id, b, who, from).pc = pc
           /\ Task(pc, id, b, who, from).bot = b
           /\ Task(pc, id, b, who, from).who = who
           /\ Task(pc, id, b, who, from).from = from
           /\ Task(pc, id, b, who, from).left = {}
           /\ Task(pc, id, b, who, from).next = "end"
  BY DEF Task, Tasks

\* Tasks of these kinds.
Kin(N, pcs) == N \subseteq {u \in Shaped : u.pc \in pcs}

LEMMA Invitations ==
    ASSUME NEW S \in SUBSET Bots, NEW f \in Bots \cup Users, GhostsAssumption
    PROVE  /\ Kin(InvitedTasks(S, f), {"invited"})
           /\ \A b \in S : \E u \in InvitedTasks(S, f) : u.pc = "invited" /\ u.bot = b
  <1>1. \A b \in S : /\ Task("invited", 0, b, b, f) \in Tasks
                     /\ Task("invited", 0, b, b, f).pc = "invited"
                     /\ Task("invited", 0, b, b, f).bot = b
                     /\ Task("invited", 0, b, b, f).from = f
    <2> TAKE b \in S
    <2>1. 0 \in 0 .. MaxOps
      BY DEF GhostsAssumption
    <2> QED BY <2>1, NewTask DEF PCs
  <1> QED BY <1>1 DEF InvitedTasks, Shaped, Shape, Kin

LEMMA Joins ==
    ASSUME NEW b \in Bots, NEW S \in SUBSET Bots, GhostsAssumption
    PROVE  /\ Kin(JoinTasks(b, S), {"join"})
           /\ \E u \in JoinTasks(b, S) : u.pc = "join" /\ u.who = b
  BY DEF GhostsAssumption, JoinTasks, Task, Tasks, PCs, Shaped, Shape, Kin

LEMMA AsyncTask ==
    ASSUME GhostsAssumption
    PROVE  /\ Kin({Async("recover")}, {"recover"}) /\ Kin({Async("reconcile")}, {"reconcile"})
           /\ \A pc \in PCs : /\ Async(pc) \in Tasks /\ Async(pc).pc = pc
                              /\ Async(pc).bot = Nobody /\ Async(pc).left = {}
  <1>1. \A pc \in PCs : /\ Async(pc) \in Tasks /\ Async(pc).pc = pc
                        /\ Async(pc).bot = Nobody /\ Async(pc).left = {}
    BY NewTask DEF GhostsAssumption, Async
  <1> QED BY <1>1 DEF Shaped, Shape, PCs, Kin

LEMMA Kindred ==
    ASSUME NEW N, NEW pcs, Kin(N, pcs), NEW more, pcs \subseteq more
    PROVE  Kin(N, more)
  BY DEF Kin

LEMMA Together ==
    ASSUME NEW N, NEW M, NEW pcs, Kin(N, pcs), Kin(M, pcs)
    PROVE  Kin(N \cup M, pcs)
  BY DEF Kin

-----------------------------------------------------------------------------
(* What follows a task. The other tasks stay, and what is new is one of    *)
(* these.                                                                  *)

Goes(t, pcs) == tasks \ {t} \subseteq tasks' /\ Kin(tasks' \ (tasks \ {t}), pcs)

\* There is a task of this kind now.
Now(pc) == \E u \in tasks' : u.pc = pc

LEMMA Replaced ==
    ASSUME NEW t, NEW N, NEW pcs, Kin(N, pcs), End(t, N)
    PROVE  Goes(t, pcs) /\ N \subseteq tasks'
  BY DEF End, Goes, Kin

LEMMA Ended ==
    ASSUME NEW t, NEW pcs, End(t, {})
    PROVE  Goes(t, pcs)
  BY DEF End, Goes, Kin

LEMMA Became ==
    ASSUME NEW t, NEW u \in Shaped, NEW N, NEW pcs, u.pc \in pcs, Kin(N, pcs), Become(t, u, N)
    PROVE  Goes(t, pcs) /\ u \in tasks' /\ N \subseteq tasks'
  BY DEF Become, Goes, Kin

LEMMA GoesFar ==
    ASSUME NEW t, NEW pcs, Goes(t, pcs), NEW more, pcs \subseteq more
    PROVE  Goes(t, more)
  BY DEF Goes, Kin

LEMMA NoTasks == \A pcs : Kin({}, pcs)
  BY DEF Kin

LEMMA TailTasks ==
    ASSUME GhostsAssumption, NEW t, NEW view, Tail(t, view)
    PROVE  /\ Goes(t, {"recover", "reconcile"})
           /\ causes \subseteq causes'
           /\ IF t.who \in Primary /\ view \cap Primary = {}
              THEN "war" \in causes' \/ Now("recover")
              ELSE /\ Now("reconcile")
                   /\ t.who \notin Primary => "reserve" \in causes'
                   /\ Miscounted(view) # {} => "counted" \in causes'
  <1>1. /\ Kin({Async("recover")}, {"recover"}) /\ Kin({Async("reconcile")}, {"reconcile"})
        /\ Async("recover").pc = "recover" /\ Async("reconcile").pc = "reconcile"
    BY AsyncTask DEF PCs
  <1>2. CASE t.who \in Primary /\ view \cap Primary = {}
    <2>1. CASE war
      BY <1>2, <2>1, Ended DEF Tail, Because
    <2>2. CASE ~war
      <3>1. End(t, {Async("recover")}) /\ causes \subseteq causes'
        BY <1>2, <2>2 DEF Tail, Because
      <3>2. Goes(t, {"recover"}) /\ Now("recover")
        BY <1>1, <3>1, Replaced DEF Now
      <3> QED BY <1>2, <3>1, <3>2, GoesFar
    <2> QED BY <2>1, <2>2
  <1>3. CASE ~(t.who \in Primary /\ view \cap Primary = {})
    <2>1. /\ End(t, {Async("reconcile")}) /\ causes \subseteq causes'
          /\ t.who \notin Primary => "reserve" \in causes'
          /\ Miscounted(view) # {} => "counted" \in causes'
      BY <1>3 DEF Tail
    <2>2. Goes(t, {"reconcile"}) /\ Now("reconcile")
      BY <1>1, <2>1, Replaced DEF Now
    <2> QED BY <1>3, <2>1, <2>2, GoesFar
  <1> QED BY <1>2, <1>3

LEMMA HandleKickTasks ==
    ASSUME GhostsAssumption, TypeOK, TasksOK, NEW t \in tasks, HandleKick(t)
    PROVE  t.pc = "kick" /\ Goes(t, {"tail", "recover", "reconcile"})
  <1>1. t.pc = "kick" /\ t \in Tasks
    BY DEF HandleKick, TypeOK
  <1>2. CASE End(t, {})
    BY <1>1, <1>2, Ended
  <1>3. CASE Tail(t, member \ {t.who})
    <2>1. Goes(t, {"recover", "reconcile"})
      BY <1>3, TailTasks
    <2> QED BY <1>1, <2>1, GoesFar
  <1>4. CASE Become(t, [t EXCEPT !.pc = "tail"], {})
    <2>1. PICK u : u = [t EXCEPT !.pc = "tail"]
      OBVIOUS
    <2>2. u \in Shaped /\ u.pc = "tail"
      BY <1>1, <2>1 DEF Shaped, Shape, Tasks, PCs
    <2>3. Become(t, u, {})
      BY <1>4, <2>1
    <2> QED BY <1>1, <2>2, <2>3, Became, NoTasks
  <1> QED BY <1>2, <1>3, <1>4 DEF HandleKick

LEMMA HandleKickTailTasks ==
    ASSUME GhostsAssumption, NEW t \in tasks, HandleKickTail(t)
    PROVE  t.pc = "tail" /\ Goes(t, {"recover", "reconcile"})
  BY TailTasks DEF HandleKickTail

LEMMA HandleCancellationTasks ==
    ASSUME GhostsAssumption, NEW t \in tasks, HandleCancellation(t)
    PROVE  t.pc = "cancel" /\ Goes(t, {"reconcile"})
  BY AsyncTask, Ended, Replaced DEF HandleCancellation

LEMMA ReconcileTasks ==
    ASSUME GhostsAssumption, TypeOK, NEW t \in tasks, Reconcile(t)
    PROVE  t.pc = "reconcile" /\ Goes(t, {"invited"})
  <1>1. CASE End(t, {})
    BY <1>1, Ended DEF Reconcile
  <1>2. ASSUME NEW p \in member \cap Primary, NEW S \in SUBSET Reached(Primary \ member),
               End(t, InvitedTasks(S, p))
        PROVE  Goes(t, {"invited"})
    <2>1. S \in SUBSET Bots /\ p \in Bots \cup Users
      BY <1>2 DEF Reached, Primary
    <2>2. Kin(InvitedTasks(S, p), {"invited"})
      BY <2>1, Invitations
    <2> QED BY <1>2, <2>2, Replaced
  <1> QED BY <1>1, <1>2 DEF Reconcile

LEMMA HandleInvitationTasks ==
    ASSUME GhostsAssumption, TypeOK, TasksOK, NEW t \in tasks, HandleInvitation(t)
    PROVE  /\ t.pc = "invited" /\ Goes(t, {"accept"})
           /\ \/ Waits(t)
              \/ "fault" \in causes'
              \/ \E u \in tasks' : u.pc = "accept" /\ u.bot = t.bot
  <1>1. t.pc = "invited" /\ t \in Tasks /\ Shape(t)
    BY DEF HandleInvitation, TypeOK, TasksOK, Shaped
  <1>2. CASE Waits(t) /\ End(t, {})
    BY <1>1, <1>2, Ended
  <1>3. CASE Fault /\ End(t, {})
    BY <1>1, <1>3, Ended DEF Fault
  <1>4. CASE Become(t, [t EXCEPT !.pc = "accept"], {})
    <2>1. PICK u : u = [t EXCEPT !.pc = "accept"]
      OBVIOUS
    <2>2. u \in Shaped /\ u.pc = "accept" /\ u.bot = t.bot
      BY <1>1, <2>1 DEF Shaped, Shape, Tasks, PCs
    <2>3. Become(t, u, {})
      BY <1>4, <2>1
    <2>4. Goes(t, {"accept"}) /\ u \in tasks'
      BY <2>2, <2>3, Became, NoTasks
    <2> QED BY <1>1, <2>2, <2>4
  <1> QED BY <1>2, <1>3, <1>4 DEF HandleInvitation, BootstrapCreator

LEMMA AcceptTasks ==
    ASSUME GhostsAssumption, TypeOK, TasksOK, NEW t \in tasks, Accept(t)
    PROVE  /\ t.pc = "accept" /\ Goes(t, {"ticket", "join", "reconcile"})
           /\ \/ UNCHANGED <<inRoom, invited, member>>
              \/ /\ Enters(t.bot) /\ t.bot \in Bots
                 /\ \E u \in tasks' : u.pc = "join" /\ u.who = t.bot
  <1>1. t.pc = "accept" /\ t \in Tasks /\ Shape(t)
    BY DEF Accept, TypeOK, TasksOK, Shaped
  <1>2. CASE /\ Enters(t.bot)
             /\ \/ Become(t, [t EXCEPT !.pc = "ticket", !.next = "reconcile"], JoinTasks(t.bot, inRoom'))
                \/ End(t, JoinTasks(t.bot, inRoom'))
    <2>1. t.bot \in Bots /\ inRoom' \in SUBSET Bots
      BY <1>1, <1>2 DEF TypeOK, Enters, Shape
    <2>2. /\ Kin(JoinTasks(t.bot, inRoom'), {"join"})
          /\ \E u \in JoinTasks(t.bot, inRoom') : u.pc = "join" /\ u.who = t.bot
      BY <2>1, Joins
    <2>3. PICK v : v = [t EXCEPT !.pc = "ticket", !.next = "reconcile"]
      OBVIOUS
    <2>4. v \in Shaped /\ v.pc = "ticket"
      BY <1>1, <2>3 DEF Shaped, Shape, Tasks, PCs
    <2>5. Kin(JoinTasks(t.bot, inRoom'), {"ticket", "join", "reconcile"})
      BY <2>2, Kindred
    <2>6. CASE Become(t, v, JoinTasks(t.bot, inRoom'))
      <3>1. Goes(t, {"ticket", "join", "reconcile"}) /\ JoinTasks(t.bot, inRoom') \subseteq tasks'
        BY <2>4, <2>5, <2>6, Became
      <3> QED BY <1>1, <1>2, <2>1, <2>2, <3>1
    <2>7. CASE End(t, JoinTasks(t.bot, inRoom'))
      <3>1. Goes(t, {"ticket", "join", "reconcile"}) /\ JoinTasks(t.bot, inRoom') \subseteq tasks'
        BY <2>5, <2>7, Replaced
      <3> QED BY <1>1, <1>2, <2>1, <2>2, <3>1
    <2> QED BY <1>2, <2>3, <2>6, <2>7
  <1>3. CASE End(t, {Async("reconcile")}) /\ UNCHANGED <<inRoom, invited, member>>
    <2>1. Goes(t, {"reconcile"})
      BY <1>3, AsyncTask, Replaced
    <2> QED BY <1>1, <1>3, <2>1, GoesFar
  <1>4. \/ End(t, {Async("reconcile")}) /\ UNCHANGED <<inRoom, invited, member>>
        \/ /\ Enters(t.bot)
           /\ \/ Become(t, [t EXCEPT !.pc = "ticket", !.next = "reconcile"], JoinTasks(t.bot, inRoom'))
              \/ End(t, JoinTasks(t.bot, inRoom'))
    BY DEF Accept
  <1> QED BY <1>2, <1>3, <1>4

LEMMA FallbackTasks ==
    ASSUME GhostsAssumption, NEW t
    PROVE  Kin(Fallback(t), {"reconcile"})
  BY AsyncTask, NoTasks DEF Fallback

LEMMA OpenTicketTasks ==
    ASSUME GhostsAssumption, TypeOK, TasksOK, NEW t \in tasks, OpenTicket(t)
    PROVE  /\ t.pc = "ticket" /\ Goes(t, {"admit", "reconcile"})
           /\ UNCHANGED ticket \/ Now("admit")
  <1>1. t.pc = "ticket" /\ t \in Tasks /\ t.bot \in Bots
    BY DEF OpenTicket, TypeOK, TasksOK, Shaped, Shape
  <1>2. CASE End(t, {}) /\ UNCHANGED ticket
    BY <1>1, <1>2, Ended
  <1>3. ASSUME NEW S \in SUBSET Bots, Become(t, [t EXCEPT !.pc = "admit", !.left = S], {})
        PROVE  Goes(t, {"admit", "reconcile"}) /\ Now("admit")
    <2>1. PICK u : u = [t EXCEPT !.pc = "admit", !.left = S]
      OBVIOUS
    <2>2. u \in Shaped /\ u.pc = "admit"
      BY <1>1, <2>1 DEF Shaped, Shape, Tasks, PCs
    <2>3. Become(t, u, {})
      BY <1>3, <2>1
    <2> QED BY <2>2, <2>3, Became, NoTasks DEF Now
  <1>4. CASE End(t, Fallback(t)) /\ UNCHANGED ticket
    <2>1. Goes(t, {"reconcile"})
      BY <1>4, FallbackTasks, Replaced
    <2> QED BY <1>1, <1>4, <2>1, GoesFar
  <1>5. Primary \ (inRoom \cup {t.bot}) \in SUBSET Bots
    BY DEF Primary
  <1> QED BY <1>1, <1>2, <1>3, <1>4, <1>5 DEF OpenTicket

LEMMA AdmitTasks ==
    ASSUME GhostsAssumption, TypeOK, TasksOK, NEW t \in tasks, NEW b \in Bots, Admit(t, b)
    PROVE  /\ t.pc = "admit" /\ Goes(t, {"admit", "close", "join"})
           /\ Now("admit") \/ Now("close")
           /\ \/ UNCHANGED inRoom
              \/ Enters(b) /\ \E u \in tasks' : u.pc = "join" /\ u.who = b
  <1>1. t.pc = "admit" /\ t \in Tasks /\ t.bot \in Bots
    BY DEF Admit, TypeOK, TasksOK, Shaped, Shape
  <1>2. ASSUME NEW failed \in BOOLEAN
        PROVE  \E u : /\ AfterAdmit(t, t.left \ {b}, failed) = {u} /\ u \in Shaped
                      /\ u.pc \in {"admit", "close"}
    <2>1. PICK u : u = [t EXCEPT !.pc = IF t.left \ {b} = {} THEN "close" ELSE "admit",
                                 !.left = t.left \ {b},
                                 !.old = IF failed THEN @ \cup {t.bot} ELSE @]
      OBVIOUS
    <2>2. u.pc \in {"admit", "close"} /\ AfterAdmit(t, t.left \ {b}, failed) = {u}
      BY <1>1, <2>1 DEF AfterAdmit, Tasks
    <2>3. u \in Tasks
      BY <1>1, <2>1 DEF Tasks, PCs
    <2>4. u.bot = t.bot
      BY <1>1, <2>1 DEF Tasks
    <2> QED BY <1>1, <2>2, <2>3, <2>4 DEF Shaped, Shape
  <1>3. CASE Enters(b) /\ End(t, AfterAdmit(t, t.left \ {b}, FALSE) \cup JoinTasks(b, inRoom'))
    <2>1. inRoom' \in SUBSET Bots
      BY <1>3 DEF TypeOK, Enters
    <2>2. /\ Kin(JoinTasks(b, inRoom'), {"join"})
          /\ \E u \in JoinTasks(b, inRoom') : u.pc = "join" /\ u.who = b
      BY <2>1, Joins
    <2>3. PICK u : /\ AfterAdmit(t, t.left \ {b}, FALSE) = {u} /\ u \in Shaped
                   /\ u.pc \in {"admit", "close"}
      BY <1>2
    <2>4. Kin({u} \cup JoinTasks(b, inRoom'), {"admit", "close", "join"})
      BY <2>2, <2>3 DEF Kin
    <2>5. Goes(t, {"admit", "close", "join"}) /\ {u} \cup JoinTasks(b, inRoom') \subseteq tasks'
      BY <1>3, <2>3, <2>4, Replaced
    <2> QED BY <1>1, <1>3, <2>2, <2>3, <2>5 DEF Now
  <1>4. CASE UNCHANGED inRoom /\ End(t, AfterAdmit(t, t.left \ {b}, TRUE))
    <2>1. PICK u : /\ AfterAdmit(t, t.left \ {b}, TRUE) = {u} /\ u \in Shaped
                   /\ u.pc \in {"admit", "close"}
      BY <1>2
    <2>2. Kin({u}, {"admit", "close", "join"})
      BY <2>1 DEF Kin
    <2>3. Goes(t, {"admit", "close", "join"}) /\ u \in tasks'
      BY <1>4, <2>1, <2>2, Replaced
    <2> QED BY <1>1, <1>4, <2>1, <2>3 DEF Now
  <1> QED BY <1>3, <1>4 DEF Admit

LEMMA CloseTicketTasks ==
    ASSUME GhostsAssumption, NEW t \in tasks, CloseTicket(t)
    PROVE  t.pc = "close" /\ Goes(t, {"reconcile"})
  BY FallbackTasks, Ended, Replaced DEF CloseTicket

LEMMA LaunchRecoveryTasks ==
    ASSUME GhostsAssumption, TypeOK, TasksOK, NEW t \in tasks, LaunchRecovery(t)
    PROVE  /\ t.pc = "recover" /\ Goes(t, {"enter"})
           /\ \/ plan = {}
              \/ "recent" \in causes'
              \/ \E u \in tasks' : u.pc = "enter" /\ u.left = plan /\ u.next = "call"
  <1>1. t.pc = "recover" /\ t \in Tasks
    BY DEF LaunchRecovery, TypeOK
  <1>2. CASE plan = {} \/ <<"recovery">> \in seen
    BY <1>1, <1>2, Ended DEF LaunchRecovery, Because
  <1>3. CASE ~(plan = {} \/ <<"recovery">> \in seen)
    <2>1. PICK u : u = [t EXCEPT !.pc = "enter", !.left = plan, !.next = "call"]
      OBVIOUS
    <2>2. u \in Tasks /\ u.pc = "enter" /\ u.left = plan /\ u.next = "call"
      BY <1>1, <2>1 DEF Tasks, PCs, TypeOK
    <2>3. Become(t, u, {})
      BY <1>3, <2>1 DEF LaunchRecovery
    <2>4. Goes(t, {"enter"}) /\ u \in tasks'
      BY <2>2, <2>3, Became, NoTasks DEF Shaped, Shape
    <2> QED BY <1>1, <2>2, <2>4
  <1> QED BY <1>2, <1>3

\* What remains of a rescue.
LEMMA AfterEnterTasks ==
    ASSUME NEW t \in Shaped, t.pc = "enter", NEW rest \in SUBSET Bots,
           NEW rescuer \in Bots \cup {Nobody}
    PROVE  /\ Kin(AfterEnter(t, rest, rescuer), {"enter", "sweep"})
           /\ rest # {} => \E u \in AfterEnter(t, rest, rescuer) :
                              u.pc = "enter" /\ u.left = rest /\ u.next = t.next
           /\ rescuer # Nobody => \E u \in AfterEnter(t, rest, rescuer) :
                                     u.pc \in {"enter", "sweep"} /\ u.next = t.next
  <1>1. t \in Tasks /\ t.next \in {"call", "ticket"}
    BY DEF Shaped, Shape
  <1>2. CASE rest # {}
    <2>1. PICK u : u = [t EXCEPT !.left = rest, !.bot = rescuer]
      OBVIOUS
    <2>2. u \in Tasks /\ u.pc = "enter" /\ u.left = rest /\ u.next = t.next
      BY <1>1, <2>1 DEF Tasks
    <2>3. AfterEnter(t, rest, rescuer) = {u}
      BY <1>2, <2>1 DEF AfterEnter
    <2> QED BY <1>1, <1>2, <2>2, <2>3 DEF Kin, Shaped, Shape
  <1>3. CASE rest = {} /\ rescuer = Nobody
    BY <1>3, NoTasks DEF AfterEnter
  <1>4. CASE rest = {} /\ rescuer # Nobody
    <2>1. PICK u : u = [t EXCEPT !.pc = "sweep", !.left = {}, !.bot = rescuer]
      OBVIOUS
    <2>2. u \in Tasks /\ u.pc = "sweep" /\ u.next = t.next
      BY <1>1, <2>1 DEF Tasks, PCs
    <2>3. AfterEnter(t, rest, rescuer) = {u}
      BY <1>4, <2>1 DEF AfterEnter
    <2> QED BY <1>1, <1>4, <2>2, <2>3 DEF Kin, Shaped, Shape
  <1> QED BY <1>2, <1>3, <1>4

LEMMA GhostEntersTasks ==
    ASSUME GhostsAssumption, TypeOK, TasksOK, NEW t \in tasks, NEW g \in Bots, GhostEnters(t, g)
    PROVE  /\ t.pc = "enter" /\ Goes(t, {"enter", "sweep", "join"})
           /\ \/ /\ UNCHANGED <<inRoom, invited>>
                 /\ t.left # {g} => \E u \in tasks' :
                                       u.pc = "enter" /\ u.left = t.left \ {g} /\ u.next = t.next
                 /\ t.bot # Nobody => \E u \in tasks' : u.pc \in {"enter", "sweep"} /\ u.next = t.next
              \/ /\ Enters(g)
                 /\ \E u \in tasks' : u.pc = "join" /\ u.who = g
                 /\ \E u \in tasks' : u.pc \in {"enter", "sweep"} /\ u.next = t.next
  <1>1. /\ t.pc = "enter" /\ t \in Shaped /\ g \in t.left
        /\ t.left \ {g} \in SUBSET Bots /\ t.bot \in Bots \cup {Nobody} /\ Nobody \notin Bots
    BY DEF GhostEnters, TypeOK, TasksOK, Tasks, GhostsAssumption
  <1>2. CASE /\ Enters(g)
             /\ End(t, AfterEnter(t, t.left \ {g}, IF t.bot = Nobody THEN g ELSE t.bot)
                         \cup JoinTasks(g, inRoom'))
    <2>1. inRoom' \in SUBSET Bots
      BY <1>2 DEF TypeOK, Enters
    <2>2. /\ Kin(JoinTasks(g, inRoom'), {"join"})
          /\ \E u \in JoinTasks(g, inRoom') : u.pc = "join" /\ u.who = g
      BY <2>1, Joins
    <2>3. PICK N : N = AfterEnter(t, t.left \ {g}, IF t.bot = Nobody THEN g ELSE t.bot)
      OBVIOUS
    <2>4. PICK r \in Bots : r = IF t.bot = Nobody THEN g ELSE t.bot
      BY <1>1
    <2>5. Kin(N, {"enter", "sweep"}) /\ \E u \in N : u.pc \in {"enter", "sweep"} /\ u.next = t.next
      BY <1>1, <2>3, <2>4, AfterEnterTasks
    <2>6. Kin(N \cup JoinTasks(g, inRoom'), {"enter", "sweep", "join"})
      BY <2>2, <2>5 DEF Kin
    <2>7. Goes(t, {"enter", "sweep", "join"}) /\ N \cup JoinTasks(g, inRoom') \subseteq tasks'
      BY <1>2, <2>3, <2>6, Replaced
    <2> QED BY <1>1, <1>2, <2>2, <2>5, <2>7
  <1>3. CASE UNCHANGED <<inRoom, invited>> /\ End(t, AfterEnter(t, t.left \ {g}, t.bot))
    <2>1. PICK N : N = AfterEnter(t, t.left \ {g}, t.bot)
      OBVIOUS
    <2>2. /\ Kin(N, {"enter", "sweep"})
          /\ t.left \ {g} # {} => \E u \in N :
                               u.pc = "enter" /\ u.left = t.left \ {g} /\ u.next = t.next
          /\ t.bot # Nobody => \E u \in N : u.pc \in {"enter", "sweep"} /\ u.next = t.next
      BY <1>1, <2>1, AfterEnterTasks
    <2>3. Goes(t, {"enter", "sweep", "join"}) /\ N \subseteq tasks'
      BY <1>3, <2>1, <2>2, Replaced, GoesFar
    <2> QED BY <1>1, <1>3, <2>2, <2>3
  <1> QED BY <1>2, <1>3 DEF GhostEnters

LEMMA SweepTasks ==
    ASSUME GhostsAssumption, TypeOK, TasksOK, NEW t \in tasks, Sweep(t)
    PROVE  /\ t.pc = "sweep" /\ Goes(t, {"call", "ticket"})
           /\ \/ t.bot \notin inRoom /\ (Lost # {} => "uninvited" \in causes')
              \/ t.next = "call" => Now("call")
  <1>1. t.pc = "sweep" /\ t \in Tasks /\ t.next \in {"call", "ticket"}
    BY DEF Sweep, TypeOK, TasksOK, Shaped, Shape
  <1>2. CASE End(t, {}) /\ t.bot \notin inRoom
    BY <1>1, <1>2, Ended DEF Sweep, Abandons, Because
  <1>3. CASE End(t, {}) /\ t.next = "ticket"
    BY <1>1, <1>3, Ended
  <1>4. CASE t.bot \in inRoom /\ Become(t, [t EXCEPT !.pc = t.next, !.next = "end"], {})
    <2>0. t.bot \in Bots
      BY <1>4 DEF TypeOK
    <2>1. PICK u : u = [t EXCEPT !.pc = t.next, !.next = "end"]
      OBVIOUS
    <2>2. u \in Shaped /\ u.pc = t.next
      BY <1>1, <2>0, <2>1 DEF Tasks, PCs, Shaped, Shape
    <2>3. Become(t, u, {})
      BY <1>4, <2>1
    <2>4. Goes(t, {"call", "ticket"}) /\ u \in tasks'
      BY <1>1, <2>2, <2>3, Became, NoTasks
    <2> QED BY <1>1, <2>2, <2>4 DEF Now
  <1> QED BY <1>2, <1>3, <1>4 DEF Sweep

LEMMA CallPrimariesTasks ==
    ASSUME GhostsAssumption, TypeOK, NEW t \in tasks, CallPrimaries(t)
    PROVE  t.pc = "call" /\ Goes(t, {"invited"})
  <1>1. CASE End(t, {})
    BY <1>1, Ended DEF CallPrimaries
  <1>2. ASSUME NEW S \in SUBSET Reached(Primary), t.bot \in inRoom, End(t, InvitedTasks(S, t.bot))
        PROVE  Goes(t, {"invited"})
    <2>1. S \in SUBSET Bots /\ t.bot \in Bots \cup Users
      BY <1>2 DEF Reached, Primary, TypeOK
    <2>2. Kin(InvitedTasks(S, t.bot), {"invited"})
      BY <2>1, Invitations
    <2> QED BY <1>2, <2>2, Replaced
  <1> QED BY <1>1, <1>2 DEF CallPrimaries

LEMMA HandleJoinTasks ==
    ASSUME GhostsAssumption, TypeOK, TasksOK, NEW t \in tasks, NEW c \in Bots, HandleJoin(t, c)
    PROVE  /\ t.pc = "join" /\ Goes(t, {"park", "echo"})
           /\ t.who \notin inRoom => "echo" \in causes'
           /\ t.who \in Primary \ plan =>
                 \/ plan \cap inRoom = {}
                 \/ "recent" \in causes'
                 \/ \E u \in tasks' : u.pc = "park" /\ u.left = plan
  <1>1. t.pc = "join" /\ t \in Tasks /\ t.who \in Bots /\ plan \in SUBSET Bots
    BY DEF HandleJoin, TypeOK, TasksOK, Shaped, Shape
  <1>2. PICK echo : echo = IF t.left = {c} THEN {} ELSE {Task("echo", 0, Nobody, t.who, Nobody)}
    OBVIOUS
  <1>3. Kin(echo, {"park", "echo"})
    <2>1. /\ 0 \in 0 .. MaxOps /\ "echo" \in PCs /\ t.who \in Bots \cup {Nobody}
          /\ Nobody \in Bots \cup {Nobody} /\ Nobody \in Bots \cup Users \cup {Nobody}
      BY <1>1 DEF GhostsAssumption, PCs
    <2>2. /\ Task("echo", 0, Nobody, t.who, Nobody) \in Tasks
          /\ Task("echo", 0, Nobody, t.who, Nobody).pc = "echo"
          /\ Task("echo", 0, Nobody, t.who, Nobody).who = t.who
      BY <2>1, NewTask
    <2> QED BY <1>1, <1>2, <2>2 DEF Kin, Shaped, Shape
  <1>4. CASE t.who \in Primary \ plan /\ plan # {} /\ <<"park">> \notin seen
    <2>1. PICK u : u = [t EXCEPT !.pc = "park", !.bot = c, !.left = plan]
      OBVIOUS
    <2>2. u \in Tasks /\ u.pc = "park" /\ u.left = plan
      BY <1>1, <2>1 DEF Tasks, PCs
    <2>3. u \in Shaped
      BY <2>2 DEF Shaped, Shape
    <2>4. Become(t, u, echo) /\ Because(t.who \notin inRoom, "echo")
      BY <1>2, <1>4, <2>1 DEF HandleJoin
    <2>5. Goes(t, {"park", "echo"}) /\ u \in tasks'
      BY <1>3, <2>2, <2>3, <2>4, Became
    <2> QED BY <1>1, <2>2, <2>4, <2>5 DEF Because
  <1>5. CASE ~(t.who \in Primary \ plan /\ plan # {} /\ <<"park">> \notin seen)
    <2>1. End(t, echo) /\ causes' = causes
                     \cup (IF t.who \notin inRoom THEN {"echo"} ELSE {})
                     \cup (IF t.who \in Primary \ plan /\ plan \cap inRoom # {} THEN {"recent"} ELSE {})
      BY <1>2, <1>5 DEF HandleJoin
    <2>2. Goes(t, {"park", "echo"})
      BY <1>3, <2>1, Replaced
    <2> QED BY <1>1, <2>1, <2>2
  <1> QED BY <1>4, <1>5

LEMMA EchoTasks ==
    ASSUME NEW t \in tasks, Echo(t)
    PROVE  t.pc = "echo" /\ Goes(t, {}) /\ (t.who \notin inRoom => "echo" \in causes')
  BY Ended DEF Echo, Because

\* The ghosts that are still to be sent out.
LEMMA RestTasks ==
    ASSUME NEW t \in Tasks, NEW rest \in SUBSET Bots
    PROVE  /\ Kin(Rest(t, rest), {"park"})
           /\ rest # {} => \E u \in Rest(t, rest) : u.pc = "park" /\ u.left = rest
  <1>1. PICK u : u = [t EXCEPT !.pc = "park", !.left = rest]
    OBVIOUS
  <1>2. u \in Tasks /\ u.pc = "park" /\ u.left = rest
    BY <1>1 DEF Tasks, PCs
  <1>3. Rest(t, rest) = IF rest = {} THEN {} ELSE {u}
    BY <1>1 DEF Rest
  <1> QED BY <1>2, <1>3 DEF Kin, Shaped, Shape

LEMMA ParkTasks ==
    ASSUME GhostsAssumption, TypeOK, TasksOK, NEW t \in tasks, NEW g \in Bots, Park(t, g)
    PROVE  /\ t.pc = "park" /\ Goes(t, {"park", "repark"})
           /\ \/ /\ UNCHANGED <<inRoom, invited, member>>
                 /\ g \in inRoom => "viewStale" \in causes'
                 /\ t.left # {g} => \E u \in tasks' : u.pc = "park" /\ u.left = t.left \ {g}
              \/ /\ inRoom' = inRoom \ {g}
                 /\ \E u \in tasks' : u.pc = "repark" /\ u.who = g /\ u.left = t.left \ {g}
              \/ /\ UNCHANGED <<inRoom, invited, member>>
                 /\ causes' \cap {"fault", "viewStale"} # {}
  <1>1. t.pc = "park" /\ t \in Tasks /\ g \in t.left /\ t.left \ {g} \in SUBSET Bots
    BY DEF Park, TypeOK, Tasks
  <1>2. CASE End(t, Rest(t, t.left \ {g})) /\ Because(g \in inRoom, "viewStale")
             /\ UNCHANGED <<inRoom, invited, member>>
    <2>1. PICK N : N = Rest(t, t.left \ {g})
      OBVIOUS
    <2>2. /\ Kin(N, {"park"})
          /\ t.left \ {g} # {} => \E u \in N : u.pc = "park" /\ u.left = t.left \ {g}
      BY <1>1, <2>1, RestTasks
    <2>3. Goes(t, {"park", "repark"}) /\ N \subseteq tasks'
      BY <1>2, <2>1, <2>2, Replaced, GoesFar
    <2> QED BY <1>1, <1>2, <2>2, <2>3 DEF Because
  <1>3. CASE Leaves(g) /\ Become(t, [t EXCEPT !.pc = "repark", !.who = g, !.left = @ \ {g}], {})
    <2>1. PICK u : u = [t EXCEPT !.pc = "repark", !.who = g, !.left = @ \ {g}]
      OBVIOUS
    <2>2. u \in Tasks /\ u.pc = "repark" /\ u.who = g /\ u.left = t.left \ {g}
      BY <1>1, <2>1 DEF Tasks, PCs
    <2>3. u \in Shaped
      BY <2>2 DEF Shaped, Shape
    <2>4. Become(t, u, {}) /\ inRoom' = inRoom \ {g}
      BY <1>3, <2>1 DEF Leaves
    <2>5. Goes(t, {"park", "repark"}) /\ u \in tasks'
      BY <2>2, <2>3, <2>4, Became, NoTasks
    <2> QED BY <1>1, <2>2, <2>4, <2>5
  <1>4. CASE End(t, {}) /\ UNCHANGED <<inRoom, invited, member>> /\ (Fault \/ Because(TRUE, "viewStale"))
    BY <1>1, <1>4, Ended DEF Fault, Because
  <1> QED BY <1>2, <1>3, <1>4 DEF Park

LEMMA ReparkTasks ==
    ASSUME GhostsAssumption, TypeOK, TasksOK, NEW t \in tasks, Repark(t)
    PROVE  /\ t.pc = "repark" /\ Goes(t, {"park", "invited"})
           /\ \/ /\ t.bot \in inRoom
                 /\ t.left # {} => \E u \in tasks' : u.pc = "park" /\ u.left = t.left
              \/ "fault" \in causes'
              \/ "inviterGone" \in causes' /\ t.bot \notin inRoom /\ UNCHANGED invited
  <1>1. t.pc = "repark" /\ t \in Tasks /\ t.who \in Bots /\ t.left \in SUBSET Bots
    BY DEF Repark, TypeOK, TasksOK, Shaped, Shape, Tasks
  <1>2. CASE t.bot \in inRoom /\ End(t, Rest(t, t.left) \cup InvitedTasks(Reached({t.who}), t.bot))
    <2>1. Reached({t.who}) \in SUBSET Bots /\ t.bot \in Bots \cup Users
      BY <1>1, <1>2 DEF Reached, TypeOK
    <2>2. Kin(InvitedTasks(Reached({t.who}), t.bot), {"invited"})
      BY <2>1, Invitations
    <2>3. PICK N : N = Rest(t, t.left)
      OBVIOUS
    <2>4. Kin(N, {"park"}) /\ (t.left # {} => \E u \in N : u.pc = "park" /\ u.left = t.left)
      BY <1>1, <2>3, RestTasks
    <2>5. Kin(N \cup InvitedTasks(Reached({t.who}), t.bot), {"park", "invited"})
      BY <2>2, <2>4 DEF Kin
    <2>6. Goes(t, {"park", "invited"}) /\ N \cup InvitedTasks(Reached({t.who}), t.bot) \subseteq tasks'
      BY <1>2, <2>3, <2>5, Replaced
    <2> QED BY <1>1, <1>2, <2>4, <2>6
  <1>3. CASE /\ End(t, {}) /\ UNCHANGED invited
             /\ IF t.bot \in inRoom THEN Fault ELSE Because(TRUE, "inviterGone") /\ UNCHANGED faults
    BY <1>1, <1>3, Ended DEF Fault, Because
  <1> QED BY <1>2, <1>3 DEF Repark

LEMMA RejoinTasks ==
    ASSUME GhostsAssumption, TypeOK, TasksOK, NEW t \in tasks, Rejoin(t)
    PROVE  /\ t.pc = "rejoin" /\ Goes(t, {"depart", "join"})
           /\ t.left # {} => \E u \in tasks' : u.pc = "depart" /\ u.left = t.left
           /\ \A b \in inRoom' \ inRoom : \E u \in tasks' : u.pc = "join" /\ u.who = b
           /\ inRoom \subseteq inRoom'
  <1>1. t.pc = "rejoin" /\ t \in Tasks /\ t.left \in SUBSET Bots /\ t.bot \notin t.left
    BY DEF Rejoin, TypeOK, TasksOK, Shaped, Shape, Tasks
  <1>2. PICK S \in SUBSET ((t.old \ plan) \cap invited) :
           /\ inRoom' = inRoom \cup S
           /\ End(t, (IF t.left = {} THEN {} ELSE {[t EXCEPT !.pc = "depart"]})
                       \cup UNION {JoinTasks(b, inRoom') : b \in S})
    BY DEF Rejoin
  <1>3. PICK u : u = [t EXCEPT !.pc = "depart"]
    OBVIOUS
  <1>4. u \in Tasks /\ u.pc = "depart" /\ u.left = t.left /\ u.bot = t.bot
    BY <1>1, <1>3 DEF Tasks, PCs
  <1>5. Kin(IF t.left = {} THEN {} ELSE {u}, {"depart", "join"})
    BY <1>1, <1>4 DEF Kin, Shaped, Shape
  <1>6. inRoom' \in SUBSET Bots /\ S \subseteq Bots
    BY <1>2 DEF TypeOK
  <1>7. \A b \in S : /\ Kin(JoinTasks(b, inRoom'), {"join"})
                     /\ \E v \in JoinTasks(b, inRoom') : v.pc = "join" /\ v.who = b
    BY <1>6, Joins
  <1>8. Kin(UNION {JoinTasks(b, inRoom') : b \in S}, {"depart", "join"})
    BY <1>7 DEF Kin
  <1>9. /\ Goes(t, {"depart", "join"})
        /\ (IF t.left = {} THEN {} ELSE {u}) \cup UNION {JoinTasks(b, inRoom') : b \in S}
             \subseteq tasks'
    BY <1>2, <1>3, <1>5, <1>8, Together, Replaced
  <1>10. \A b \in inRoom' \ inRoom : \E v \in tasks' : v.pc = "join" /\ v.who = b
    <2> TAKE b \in inRoom' \ inRoom
    <2>1. b \in S
      BY <1>2
    <2>2. PICK v \in JoinTasks(b, inRoom') : v.pc = "join" /\ v.who = b
      BY <1>7, <2>1
    <2>3. v \in UNION {JoinTasks(c, inRoom') : c \in S}
      BY <2>1, <2>2
    <2> QED BY <1>9, <2>2, <2>3
  <1> QED BY <1>1, <1>2, <1>4, <1>9, <1>10

LEMMA DepartTasks ==
    ASSUME GhostsAssumption, TypeOK, TasksOK, NEW t \in tasks, NEW g \in Bots, Depart(t, g)
    PROVE  /\ t.pc = "depart" /\ Goes(t, {"depart", "invited"}) /\ t.bot # g
           /\ \/ /\ t.bot \in inRoom /\ inRoom' = inRoom \ {g}
                 /\ g \in t.old => "uninvited" \in causes'
                 /\ g \notin t.old => g \in invited'
                 /\ t.left # {g} => \E u \in tasks' : u.pc = "depart" /\ u.left = t.left \ {g}
              \/ "inviterGone" \in causes'
              \/ causes' \cap {"fault", "viewStale"} # {} /\ UNCHANGED <<inRoom, invited, member>>
  <1>1. /\ t.pc = "depart" /\ t \in Tasks /\ g \in t.left /\ t.left \ {g} \in SUBSET Bots
        /\ t.bot \notin t.left
    BY DEF Depart, TypeOK, TasksOK, Shaped, Shape, Tasks
  <1>2. PICK rest : rest = IF t.left = {g} THEN {} ELSE {[t EXCEPT !.left = @ \ {g}]}
    OBVIOUS
  <1>3. /\ Kin(rest, {"depart", "invited"})
        /\ t.left # {g} => \E u \in rest : u.pc = "depart" /\ u.left = t.left \ {g}
    <2>1. PICK u : u = [t EXCEPT !.left = @ \ {g}]
      OBVIOUS
    <2>2. u \in Tasks /\ u.pc = "depart" /\ u.left = t.left \ {g} /\ u.bot = t.bot
      BY <1>1, <2>1 DEF Tasks
    <2>3. u \in Shaped
      BY <1>1, <2>2 DEF Shaped, Shape
    <2>4. rest = IF t.left = {g} THEN {} ELSE {u}
      BY <1>2, <2>1
    <2> QED BY <2>2, <2>3, <2>4 DEF Kin
  <1>4. PICK asked : asked = IF g \in t.old THEN {} ELSE {g} \ invited
    OBVIOUS
  <1>5. CASE g \in inRoom
    <2>1. CASE t.bot \in inRoom /\ inRoom' = inRoom \ {g} /\ End(t, rest \cup InvitedTasks(asked, t.bot))
               /\ invited' = invited \cup asked /\ Because(g \in t.old, "uninvited")
      <3>1. asked \in SUBSET Bots /\ t.bot \in Bots \cup Users
        BY <1>4, <2>1 DEF TypeOK
      <3>2. Kin(InvitedTasks(asked, t.bot), {"invited"})
        BY <3>1, Invitations
      <3>3. Kin(rest \cup InvitedTasks(asked, t.bot), {"depart", "invited"})
        BY <1>3, <3>2 DEF Kin
      <3>4. Goes(t, {"depart", "invited"}) /\ rest \cup InvitedTasks(asked, t.bot) \subseteq tasks'
        BY <2>1, <3>3, Replaced
      <3> QED BY <1>1, <1>3, <1>4, <2>1, <3>4 DEF Because
    <2>2. CASE End(t, rest) /\ Because(TRUE, "inviterGone")
      <3>1. Goes(t, {"depart", "invited"})
        BY <1>3, <2>2, Replaced
      <3> QED BY <1>1, <2>2, <3>1 DEF Because
    <2>3. CASE End(t, {}) /\ Fault /\ UNCHANGED <<inRoom, invited, member>>
      BY <1>1, <2>3, Ended DEF Fault
    <2> QED BY <1>2, <1>4, <1>5, <2>1, <2>2, <2>3 DEF Depart
  <1>6. CASE g \notin inRoom
    <2>1. End(t, {}) /\ Because(TRUE, "viewStale") /\ UNCHANGED <<inRoom, invited, member>>
      BY <1>6 DEF Depart
    <2> QED BY <1>1, <2>1, Ended DEF Because
  <1> QED BY <1>5, <1>6

LEMMA LeaveTasks ==
    ASSUME GhostsAssumption, TypeOK, TasksOK, NEW t \in tasks, NEW b \in Bots, Leave(t, b)
    PROVE  t.pc = "leave" /\ Goes(t, {"leave"})
  <1>1. t.pc = "leave" /\ t \in Tasks
    BY DEF Leave, TypeOK
  <1>2. PICK u : u = [t EXCEPT !.left = @ \ {b}]
    OBVIOUS
  <1>3. u \in Tasks /\ u.pc = "leave"
    BY <1>1, <1>2 DEF Tasks
  <1>4. Kin(IF t.left = {b} THEN {} ELSE {u}, {"leave"})
    BY <1>3 DEF Kin, Shaped, Shape
  <1>5. End(t, IF t.left = {b} THEN {} ELSE {u})
    BY <1>2 DEF Leave
  <1> QED BY <1>1, <1>4, <1>5, Replaced

LEMMA TasksKept ==
    ASSUME TypeOK, TasksOK, NEW t \in tasks, NEW pcs, Goes(t, pcs),
           t.pc = "leave" \/ "leave" \notin pcs, causes \subseteq causes'
    PROVE  tasks' \subseteq Tasks /\ TasksOK'
  BY DEF TypeOK, TasksOK, Shaped, Goes, Kin

\* What no handler changes, and what it changes within the types.
Quiet ==
    /\ causes \subseteq causes' /\ UNCHANGED <<kinds, plan, war, sent>>
    /\ inRoom' \subseteq Bots /\ invited' \subseteq Bots /\ member' \subseteq Bots
    /\ foes' \subseteq Foes /\ blacklist' \subseteq Foes
    /\ creator' \in Users \cup Bots \cup {Nobody}
    /\ ticket' \in BOOLEAN /\ faults' \in 0 .. MaxFaults

LEMMA StepQuiet ==
    ASSUME GhostsAssumption, TypeOK, TasksOK, NEW t \in tasks, Step(t)
    PROVE  Quiet
  <1>0. t \in Tasks /\ Shape(t) /\ {MaxOps, MaxFaults} \subseteq Nat
    BY DEF TypeOK, TasksOK, Shaped, GhostsAssumption
  <1>1. CASE HandleKick(t)
    BY <1>0, <1>1 DEF Quiet, TypeOK, Shape, HandleKick, Tail, Because, NoFault, Fault, room
  <1>2. CASE HandleKickTail(t)
    BY <1>0, <1>2 DEF Quiet, TypeOK, Shape, HandleKickTail, Tail, Because, room, store, engine
  <1>3. CASE HandleCancellation(t)
    BY <1>0, <1>3 DEF Quiet, TypeOK, Shape, HandleCancellation, room, store
  <1>4. CASE Reconcile(t)
    BY <1>0, <1>4 DEF Quiet, TypeOK, Shape, Reconcile, Abandons, Because, NoFault, Fault, store, Reached, Primary
  <1>5. CASE HandleInvitation(t)
    BY <1>0, <1>5 DEF Quiet, TypeOK, Shape, HandleInvitation, NoFault, Fault, BootstrapCreator, room, engine
  <1>6. CASE Accept(t)
    BY <1>0, <1>6 DEF Quiet, TypeOK, Shape, Accept, NoFault, Fault, Enters, Because, store
  <1>7. CASE OpenTicket(t)
    <2>1. /\ causes \subseteq causes' /\ UNCHANGED <<kinds, plan, war, sent, creator, blacklist, foes>>
          /\ faults' \in 0 .. MaxFaults
      BY <1>0, <1>7 DEF TypeOK, OpenTicket, NoFault, Fault, store, engine
    <2>2. inRoom' \subseteq Bots /\ invited' \subseteq Bots /\ member' \subseteq Bots
      BY <1>0, <1>7 DEF TypeOK, OpenTicket, NoFault, Fault, store, engine
    <2>3. ticket' \in BOOLEAN
      BY <1>0, <1>7 DEF TypeOK, OpenTicket, NoFault, Fault, store, engine
    <2> QED BY <2>1, <2>2, <2>3 DEF Quiet, TypeOK
  <1>8. ASSUME NEW b \in Bots, Admit(t, b) PROVE Quiet
    <2>0. (Because(b \in plan, "admitted") /\ UNCHANGED faults) \/ Fault \/ NoFault
      BY <1>8, Zenon DEF Admit
    <2>1. causes \subseteq causes' /\ faults' \in 0 .. MaxFaults
      BY <1>0, <2>0 DEF TypeOK, NoFault, Fault, Because
    <2>2. UNCHANGED <<kinds, plan, war, sent, creator, blacklist, foes, ticket>>
      BY <1>8, Zenon DEF Admit, store
    <2>3. inRoom' \subseteq Bots /\ invited' \subseteq Bots /\ member' \subseteq Bots
      BY <1>8 DEF TypeOK, Admit, Enters
    <2> QED BY <2>1, <2>2, <2>3 DEF Quiet, TypeOK
  <1>9. CASE CloseTicket(t)
    <2>1. /\ causes \subseteq causes' /\ UNCHANGED <<kinds, plan, war, sent, creator, blacklist, foes>>
          /\ faults' \in 0 .. MaxFaults
      BY <1>0, <1>9 DEF TypeOK, CloseTicket, NoFault, Fault, Because, store, engine
    <2>2. inRoom' \subseteq Bots /\ invited' \subseteq Bots /\ member' \subseteq Bots
      BY <1>0, <1>9 DEF TypeOK, CloseTicket, NoFault, Fault, Because, store, engine
    <2>3. ticket' \in BOOLEAN
      BY <1>0, <1>9 DEF TypeOK, CloseTicket, NoFault, Fault, Because, store, engine
    <2> QED BY <2>1, <2>2, <2>3 DEF Quiet, TypeOK
  <1>10. CASE LaunchRecovery(t)
    BY <1>0, <1>10 DEF Quiet, TypeOK, Shape, LaunchRecovery, Because, room, store
  <1>11. ASSUME NEW g \in Bots, GhostEnters(t, g) PROVE Quiet
    BY <1>0, <1>11 DEF Quiet, TypeOK, Shape, GhostEnters, NoFault, Fault, Enters, Because, Abandons, store
  <1>12. CASE Sweep(t)
    BY <1>0, <1>12 DEF Quiet, TypeOK, Shape, Sweep, NoFault, Fault, Abandons, Because, store, engine
  <1>13. CASE CallPrimaries(t)
    BY <1>0, <1>13 DEF Quiet, TypeOK, Shape, CallPrimaries, NoFault, Fault, Abandons, Because, Confirmed, Reached, store, Primary
  <1>14. ASSUME NEW c \in Bots, HandleJoin(t, c) PROVE Quiet
    BY <1>0, <1>14 DEF Quiet, TypeOK, Shape, HandleJoin, Because, room, store
  <1>15. CASE Echo(t)
    BY <1>0, <1>15 DEF Quiet, TypeOK, Shape, Echo, Because, room, store
  <1>16. ASSUME NEW g \in Bots, Park(t, g) PROVE Quiet
    BY <1>0, <1>16 DEF Quiet, TypeOK, Shape, Park, Leaves, NoFault, Fault, Because, store
  <1>17. CASE Repark(t)
    BY <1>0, <1>17 DEF Quiet, TypeOK, Shape, Repark, NoFault, Fault, Because, Reached, Confirmed, store
  <1>18. CASE Rejoin(t)
    BY <1>0, <1>18 DEF Quiet, TypeOK, Shape, Rejoin, NoFault, Fault, store, engine
  <1>19. ASSUME NEW g \in Bots, Depart(t, g) PROVE Quiet
    BY <1>0, <1>19 DEF Quiet, TypeOK, Shape, Depart, NoFault, Fault, Because, Confirmed, store
  <1>20. ASSUME NEW b \in Bots, Leave(t, b) PROVE Quiet
    BY <1>0, <1>20 DEF Quiet, TypeOK, Shape, Leave, Leaves, NoFault, Fault, store
  <1> QED BY <1>1, <1>2, <1>3, <1>4, <1>5, <1>6, <1>7, <1>8, <1>9, <1>10, <1>11, <1>12, <1>13, <1>14, <1>15, <1>16, <1>17, <1>18, <1>19, <1>20 DEF Step

\* The action that a task takes goes with its pc.
StepOf(t) ==
    \/ t.pc = "kick" /\ HandleKick(t)
    \/ t.pc = "tail" /\ HandleKickTail(t)
    \/ t.pc = "cancel" /\ HandleCancellation(t)
    \/ t.pc = "reconcile" /\ Reconcile(t)
    \/ t.pc = "invited" /\ HandleInvitation(t)
    \/ t.pc = "accept" /\ Accept(t)
    \/ t.pc = "ticket" /\ OpenTicket(t)
    \/ t.pc = "admit" /\ \E b \in Bots : Admit(t, b)
    \/ t.pc = "close" /\ CloseTicket(t)
    \/ t.pc = "recover" /\ LaunchRecovery(t)
    \/ t.pc = "enter" /\ \E g \in Bots : GhostEnters(t, g)
    \/ t.pc = "sweep" /\ Sweep(t)
    \/ t.pc = "call" /\ CallPrimaries(t)
    \/ t.pc = "join" /\ \E c \in Bots : HandleJoin(t, c)
    \/ t.pc = "echo" /\ Echo(t)
    \/ t.pc = "park" /\ \E g \in Bots : Park(t, g)
    \/ t.pc = "repark" /\ Repark(t)
    \/ t.pc = "rejoin" /\ Rejoin(t)
    \/ t.pc = "depart" /\ \E g \in Bots : Depart(t, g)
    \/ t.pc = "leave" /\ \E b \in Bots : Leave(t, b)

LEMMA StepActions ==
    ASSUME GhostsAssumption, TypeOK, TasksOK, NEW t \in tasks, Step(t)
    PROVE  /\ StepOf(t)
           /\ tasks \ {t} \subseteq tasks'
           /\ \E pcs : Goes(t, pcs) /\ (t.pc = "leave" \/ "leave" \notin pcs)
  <1> SUFFICES StepOf(t) /\ \E pcs : Goes(t, pcs) /\ (t.pc = "leave" \/ "leave" \notin pcs)
    BY DEF Goes
  <1>1. CASE HandleKick(t)
    BY <1>1, HandleKickTasks DEF StepOf
  <1>2. CASE HandleKickTail(t)
    BY <1>2, HandleKickTailTasks DEF StepOf
  <1>3. CASE HandleCancellation(t)
    BY <1>3, HandleCancellationTasks DEF StepOf
  <1>4. CASE Reconcile(t)
    BY <1>4, ReconcileTasks DEF StepOf
  <1>5. CASE HandleInvitation(t)
    BY <1>5, HandleInvitationTasks DEF StepOf
  <1>6. CASE Accept(t)
    BY <1>6, AcceptTasks DEF StepOf
  <1>7. CASE OpenTicket(t)
    BY <1>7, OpenTicketTasks DEF StepOf
  <1>8. ASSUME NEW b \in Bots, Admit(t, b)
        PROVE  StepOf(t) /\ \E pcs : Goes(t, pcs) /\ (t.pc = "leave" \/ "leave" \notin pcs)
    BY <1>8, AdmitTasks DEF StepOf
  <1>9. CASE CloseTicket(t)
    BY <1>9, CloseTicketTasks DEF StepOf
  <1>10. CASE LaunchRecovery(t)
    BY <1>10, LaunchRecoveryTasks DEF StepOf
  <1>11. ASSUME NEW g \in Bots, GhostEnters(t, g)
        PROVE  StepOf(t) /\ \E pcs : Goes(t, pcs) /\ (t.pc = "leave" \/ "leave" \notin pcs)
    BY <1>11, GhostEntersTasks DEF StepOf
  <1>12. CASE Sweep(t)
    BY <1>12, SweepTasks DEF StepOf
  <1>13. CASE CallPrimaries(t)
    BY <1>13, CallPrimariesTasks DEF StepOf
  <1>14. ASSUME NEW c \in Bots, HandleJoin(t, c)
        PROVE  StepOf(t) /\ \E pcs : Goes(t, pcs) /\ (t.pc = "leave" \/ "leave" \notin pcs)
    BY <1>14, HandleJoinTasks DEF StepOf
  <1>15. CASE Echo(t)
    BY <1>15, EchoTasks DEF StepOf
  <1>16. ASSUME NEW g \in Bots, Park(t, g)
        PROVE  StepOf(t) /\ \E pcs : Goes(t, pcs) /\ (t.pc = "leave" \/ "leave" \notin pcs)
    BY <1>16, ParkTasks DEF StepOf
  <1>17. CASE Repark(t)
    BY <1>17, ReparkTasks DEF StepOf
  <1>18. CASE Rejoin(t)
    BY <1>18, RejoinTasks DEF StepOf
  <1>19. ASSUME NEW g \in Bots, Depart(t, g)
        PROVE  StepOf(t) /\ \E pcs : Goes(t, pcs) /\ (t.pc = "leave" \/ "leave" \notin pcs)
    BY <1>19, DepartTasks DEF StepOf
  <1>20. ASSUME NEW b \in Bots, Leave(t, b)
        PROVE  StepOf(t) /\ \E pcs : Goes(t, pcs) /\ (t.pc = "leave" \/ "leave" \notin pcs)
    BY <1>20, LeaveTasks DEF StepOf
  <1> QED BY <1>1, <1>2, <1>3, <1>4, <1>5, <1>6, <1>7, <1>8, <1>9, <1>10, <1>11, <1>12, <1>13, <1>14, <1>15, <1>16, <1>17, <1>18, <1>19, <1>20 DEF Step

LEMMA StepTypes ==
    ASSUME GhostsAssumption, TypeOK, TasksOK, NEW t \in tasks, Step(t)
    PROVE  TypeOK' /\ TasksOK'
  <1>1. PICK pcs : Goes(t, pcs) /\ (t.pc = "leave" \/ "leave" \notin pcs)
    BY StepActions
  <1>2. Quiet
    BY StepQuiet
  <1>3. TasksOK' /\ tasks' \subseteq Tasks
    BY <1>1, <1>2, TasksKept DEF Quiet
  <1> QED BY <1>2, <1>3 DEF Quiet, TypeOK

-----------------------------------------------------------------------------
(* The Creator and the ticket.                                             *)

\* The Creator is set by an invitation only, and the ticket by a rollout.
LEMMA Seldom ==
    ASSUME NEW t, Step(t)
    PROVE  /\ HandleInvitation(t) \/ (UNCHANGED creator /\ t.pc # "invited")
           /\ OpenTicket(t) \/ CloseTicket(t) \/ UNCHANGED ticket
  <1>1. ASSUME HandleKick(t) \/ HandleKickTail(t) \/ HandleCancellation(t) \/ Reconcile(t)
        PROVE  UNCHANGED <<creator, ticket>> /\ t.pc # "invited"
    BY <1>1, Zenon DEF HandleKick, HandleKickTail, HandleCancellation, Reconcile, room, store
  <1>2. CASE HandleInvitation(t)
    BY <1>2, Zenon DEF HandleInvitation, room
  <1>3. ASSUME Accept(t) \/ \E b \in Bots : Admit(t, b)
        PROVE  UNCHANGED <<creator, ticket>> /\ t.pc # "invited"
    BY <1>3, Zenon DEF Accept, Admit, store
  <1>4. ASSUME OpenTicket(t) \/ CloseTicket(t)
        PROVE  UNCHANGED creator /\ t.pc # "invited"
    BY <1>4, Zenon DEF OpenTicket, CloseTicket, store
  <1>5. ASSUME LaunchRecovery(t) \/ (\E g \in Bots : GhostEnters(t, g)) \/ Sweep(t) \/ CallPrimaries(t)
        PROVE  UNCHANGED <<creator, ticket>> /\ t.pc # "invited"
    BY <1>5, Zenon DEF LaunchRecovery, GhostEnters, Sweep, CallPrimaries, room, store
  <1>6. ASSUME (\E c \in Bots : HandleJoin(t, c)) \/ Echo(t) \/ (\E g \in Bots : Park(t, g)) \/ Repark(t)
        PROVE  UNCHANGED <<creator, ticket>> /\ t.pc # "invited"
    BY <1>6, Zenon DEF HandleJoin, Echo, Park, Repark, room, store
  <1>7. ASSUME Rejoin(t) \/ (\E g \in Bots : Depart(t, g)) \/ (\E b \in Bots : Leave(t, b))
        PROVE  UNCHANGED <<creator, ticket>> /\ t.pc # "invited"
    BY <1>7, Zenon DEF Rejoin, Depart, Leave, store
  <1> QED BY <1>1, <1>2, <1>3, <1>4, <1>5, <1>6, <1>7 DEF Step

LEMMA StepCreator ==
    ASSUME GhostsAssumption, CreatorIsAUser, NoCreatorYet, NEW t \in tasks, Step(t)
    PROVE  (CreatorIsAUser /\ NoCreatorYet)'
  <1>1. Nobody \notin Bots \cup Users /\ Bots \cap Users = {}
    BY DEF GhostsAssumption
  <1>2. CASE creator # Nobody
    <2>1. UNCHANGED creator
      BY <1>2, Seldom DEF HandleInvitation, BootstrapCreator
    <2> QED BY <1>2, <2>1 DEF CreatorIsAUser, NoCreatorYet
  <1>3. CASE creator = Nobody
    <2>1. plan = {} /\ t.pc = "invited" /\ t.from \in Users
      BY <1>3 DEF NoCreatorYet
    <2>2. HandleInvitation(t)
      BY <2>1, Seldom
    <2>3. creator' = t.from
      BY <1>3, <2>1, <2>2 DEF HandleInvitation, BootstrapCreator, Waits
    <2> QED BY <1>1, <2>1, <2>3 DEF CreatorIsAUser, NoCreatorYet
  <1> QED BY <1>2, <1>3

LEMMA StepTickets ==
    ASSUME GhostsAssumption, TypeOK, TasksOK, Tickets, NEW t \in tasks, Step(t)
    PROVE  Tickets'
  <1>0. causes \subseteq causes'
    BY StepQuiet DEF Quiet
  <1>1. CASE OpenTicket(t)
    <2>1. /\ t.pc = "ticket" /\ tasks \ {t} \subseteq tasks'
          /\ UNCHANGED ticket \/ Now("admit")
      BY <1>1, OpenTicketTasks DEF Goes
    <2> QED BY <1>0, <2>1 DEF Tickets, Now
  <1>2. CASE CloseTicket(t)
    <2>1. ticket' = FALSE \/ causes' \cap TicketCauses # {}
      BY <1>2 DEF CloseTicket, Fault, Because, TicketCauses
    <2> QED BY <2>1 DEF Tickets
  <1>3. CASE \E b \in Bots : Admit(t, b)
    <2>1. Now("admit") \/ Now("close")
      BY <1>3, AdmitTasks
    <2> QED BY <2>1 DEF Tickets, Now
  <1>4. CASE UNCHANGED ticket /\ ~(\E b \in Bots : Admit(t, b)) /\ ~CloseTicket(t)
    <2>1. t.pc \notin {"admit", "close"} /\ tasks \ {t} \subseteq tasks'
      BY <1>4, StepActions DEF StepOf
    <2> QED BY <1>0, <1>4, <2>1 DEF Tickets
  <1> QED BY <1>1, <1>2, <1>3, <1>4, Seldom

-----------------------------------------------------------------------------
(* The rescue.                                                             *)

\* While the room is empty, a step that takes a rescuing task away leaves another.
LEMMA RescueKept ==
    ASSUME RescueInv, UNCHANGED <<kinds, plan>>,
           inRoom' = {} /\ causes' \cap RescueCauses = {} /\ plan # {} =>
              \/ \E u \in tasks' : Unnoticed(u)
              \/ /\ inRoom = {} /\ causes \cap RescueCauses = {}
                 /\ invited' \subseteq invited /\ member' \cap Primary \subseteq member
                 /\ \A u \in tasks \ tasks' : Unnoticed(u) => member' \cap Primary = {}
                 /\ \A u \in tasks \ tasks' : \A g \in plan \cap invited' :
                       Rescues(u, g) => \E v \in tasks' : Rescues(v, g)
    PROVE  RescueInv'
  <1> SUFFICES ASSUME inRoom' = {}, causes' \cap RescueCauses = {}, plan # {}
               PROVE  /\ \A g \in plan \cap invited' : \E u \in tasks' : Rescues(u, g)
                      /\ member' \cap Primary # {} => \E u \in tasks' : Unnoticed(u)
    BY DEF RescueInv, PrimaryInView, Primary, RescueCauses
  <1>1. CASE \E u \in tasks' : Unnoticed(u)
    BY <1>1 DEF Rescues
  <1>2. CASE ~(\E u \in tasks' : Unnoticed(u))
    <2>1. /\ \A g \in plan \cap invited : \E u \in tasks : Rescues(u, g)
          /\ member \cap Primary # {} => \E u \in tasks : Unnoticed(u)
      BY <1>2 DEF RescueInv, PrimaryInView
    <2> QED BY <1>2, <2>1
  <1> QED BY <1>1, <1>2

\* A task that cannot rescue may go if the room and the view stay as they are.
Aside(t) == t.pc \notin {"kick", "recover", "repark", "enter", "invited", "accept"}

LEMMA AsideKept ==
    ASSUME RescueInv, UNCHANGED <<kinds, plan>>, NEW t \in tasks, Aside(t),
           tasks \ {t} \subseteq tasks', causes \subseteq causes',
           inRoom' = {} /\ causes' \cap RescueCauses = {} =>
              inRoom = {} /\ invited' \subseteq invited /\ member' \cap Primary \subseteq member
    PROVE  RescueInv'
  <1>1. ~Unnoticed(t) /\ \A g : ~Rescues(t, g)
    BY DEF Aside, Unnoticed, Rescues, OwnReport
  <1>2. tasks \ tasks' \subseteq {t}
    OBVIOUS
  <1> QED BY <1>1, <1>2, RescueKept

\* The last bot of the room handles the report of its own removal.
LEMMA KickRescue ==
    ASSUME GhostsAssumption, TypeOK, TasksOK, NoCreatorYet, RescueInv,
           NEW t \in tasks, HandleKick(t)
    PROVE  RescueInv'
  <1>1. /\ t.pc = "kick" /\ tasks \ {t} \subseteq tasks' /\ causes \subseteq causes'
        /\ UNCHANGED <<kinds, plan>>
    BY StepQuiet, HandleKickTasks DEF Step, Goes, Quiet
  <1>2. UNCHANGED <<inRoom, invited>> /\ member' = member \ {t.who}
    BY DEF HandleKick
  <1>3. ASSUME inRoom' = {}, causes' \cap RescueCauses = {}, plan # {},
               NEW b \in Bots, OwnReport(t, b)
        PROVE  \/ \E u \in tasks' : Unnoticed(u)
               \/ member' \cap Primary = {} /\ Now("recover")
    <2>1. creator # Nobody /\ t.bot = t.who
      BY <1>3 DEF NoCreatorYet, OwnReport
    <2>2. Tail(t, member') \/ "repeat" \in causes'
      BY <1>2, <2>1 DEF HandleKick, Because
    <2>3. Tail(t, member') /\ {"repeat", "war", "reserve", "counted"} \cap causes' = {}
      BY <1>3, <2>2 DEF RescueCauses
    <2>4. CASE t.who \in Primary /\ member' \cap Primary = {}
      BY <2>3, <2>4, TailTasks
    <2>5. CASE ~(t.who \in Primary /\ member' \cap Primary = {})
      <3>1. t.who \in Primary /\ Miscounted(member') = {}
        BY <2>3, <2>5, TailTasks
      <3>2. PICK q : q \in member' \cap Primary
        BY <2>5, <3>1
      <3>3. PICK u \in tasks : OwnReport(u, q)
        BY <1>2, <1>3, <3>1, <3>2 DEF Miscounted
      <3>4. u # t /\ q \in Bots
        BY <1>2, <3>2, <3>3 DEF OwnReport, Primary
      <3> QED BY <1>1, <3>3, <3>4 DEF Unnoticed
    <2> QED BY <2>4, <2>5
  <1>4. ASSUME NEW g, Rescues(t, g) \/ Unnoticed(t)
        PROVE  \E b \in Bots : OwnReport(t, b)
    BY <1>1, <1>4 DEF Rescues, Unnoticed
  <1>5. \A u \in tasks' : u.pc = "recover" => \A g : Rescues(u, g)
    BY DEF Rescues
  <1>6. ASSUME inRoom' = {}, causes' \cap RescueCauses = {}, plan # {},
               ~ \E u \in tasks' : Unnoticed(u)
        PROVE  /\ \A u \in tasks \ tasks' : Unnoticed(u) => member' \cap Primary = {}
               /\ \A u \in tasks \ tasks' : \A g \in plan \cap invited' :
                     Rescues(u, g) => \E v \in tasks' : Rescues(v, g)
    <2>1. \A u \in tasks \ tasks' : u = t
      BY <1>1
    <2>2. ASSUME NEW g, Rescues(t, g) \/ Unnoticed(t)
          PROVE  member' \cap Primary = {} /\ \E v \in tasks' : Rescues(v, g)
      BY <1>3, <1>4, <1>5, <1>6, <2>2 DEF Now
    <2> QED BY <2>1, <2>2
  <1> QED BY <1>1, <1>2, <1>6, RescueKept

LEMMA InvitedRescue ==
    ASSUME GhostsAssumption, TypeOK, TasksOK, RescueInv, NEW t \in tasks, HandleInvitation(t)
    PROVE  RescueInv'
  <1>1. /\ t.pc = "invited" /\ tasks \ {t} \subseteq tasks' /\ causes \subseteq causes'
        /\ UNCHANGED <<kinds, plan, inRoom, invited, member>>
    BY StepQuiet, HandleInvitationTasks DEF Step, Goes, Quiet, HandleInvitation, room, engine
  <1>2. ASSUME inRoom' = {}, causes' \cap RescueCauses = {},
               ~ \E u \in tasks' : Unnoticed(u)
        PROVE  \A g : Rescues(t, g) => \E v \in tasks' : Rescues(v, g)
    <2>1. ~Waits(t)
      <3>1. ASSUME Waits(t) PROVE \E u \in tasks : Unnoticed(u)
        BY <1>1, <1>2, <3>1 DEF RescueInv, Waits
      <3>2. ~Unnoticed(t)
        BY <1>1 DEF Unnoticed, OwnReport
      <3> QED BY <1>1, <1>2, <3>1, <3>2
    <2>2. PICK v \in tasks' : v.pc = "accept" /\ v.bot = t.bot
      BY <1>2, <2>1, HandleInvitationTasks DEF RescueCauses
    <2>3. \A g : Rescues(t, g) => g = t.bot
      BY <1>1 DEF Rescues, Unnoticed, OwnReport
    <2>4. Rescues(v, t.bot)
      BY <2>2 DEF Rescues
    <2> QED BY <2>2, <2>3, <2>4
  <1>3. ~Unnoticed(t) /\ tasks \ tasks' \subseteq {t}
    BY <1>1 DEF Unnoticed, OwnReport
  <1> QED BY <1>1, <1>2, <1>3, RescueKept

LEMMA AcceptRescue ==
    ASSUME GhostsAssumption, TypeOK, TasksOK, RescueInv, NEW t \in tasks, Accept(t)
    PROVE  RescueInv'
  <1>1. /\ t.pc = "accept" /\ tasks \ {t} \subseteq tasks' /\ causes \subseteq causes'
        /\ UNCHANGED <<kinds, plan>>
    BY StepQuiet, AcceptTasks DEF Step, Goes, Quiet
  <1>2. ASSUME inRoom' = {}, causes' \cap RescueCauses = {}
        PROVE  UNCHANGED <<inRoom, invited, member>> /\ t.bot \notin invited
    BY <1>2 DEF Accept, Enters, Fault, RescueCauses
  <1>3. ~Unnoticed(t) /\ tasks \ tasks' \subseteq {t} /\ \A g : Rescues(t, g) => g = t.bot
    BY <1>1 DEF Unnoticed, OwnReport, Rescues
  <1> QED BY <1>1, <1>2, <1>3, RescueKept

LEMMA RecoverRescue ==
    ASSUME GhostsAssumption, TypeOK, TasksOK, RescueInv, NEW t \in tasks, LaunchRecovery(t)
    PROVE  RescueInv'
  <1>1. /\ t.pc = "recover" /\ tasks \ {t} \subseteq tasks' /\ causes \subseteq causes'
        /\ UNCHANGED <<kinds, plan, inRoom, invited, member>>
    BY StepQuiet, LaunchRecoveryTasks DEF Step, Goes, Quiet, LaunchRecovery, room
  <1>2. ASSUME causes' \cap RescueCauses = {}, plan # {}
        PROVE  \A g \in plan : \E v \in tasks' : Rescues(v, g)
    BY <1>2, LaunchRecoveryTasks DEF RescueCauses, Rescues
  <1>3. ~Unnoticed(t) /\ tasks \ tasks' \subseteq {t}
    BY <1>1 DEF Unnoticed, OwnReport
  <1> QED BY <1>1, <1>2, <1>3, RescueKept

LEMMA EnterRescue ==
    ASSUME GhostsAssumption, TypeOK, TasksOK, RescueInv, NEW t \in tasks,
           NEW h \in Bots, GhostEnters(t, h)
    PROVE  RescueInv'
  <1>1. /\ t.pc = "enter" /\ tasks \ {t} \subseteq tasks' /\ causes \subseteq causes'
        /\ UNCHANGED <<kinds, plan>>
    BY StepQuiet, GhostEntersTasks DEF Step, Goes, Quiet
  <1>2. ASSUME inRoom' = {}, causes' \cap RescueCauses = {}
        PROVE  UNCHANGED <<inRoom, invited, member>> /\ h \notin invited
    BY <1>2 DEF GhostEnters, Enters, Fault, RescueCauses
  <1>3. /\ ~Unnoticed(t) /\ tasks \ tasks' \subseteq {t}
        /\ \A g : Rescues(t, g) => g \in t.left
    BY <1>1 DEF Unnoticed, OwnReport, Rescues
  <1>4. ASSUME inRoom' = {}, causes' \cap RescueCauses = {}, NEW g \in invited', g \in t.left
        PROVE  \E v \in tasks' : Rescues(v, g)
    <2>1. g # h /\ t.left # {h}
      BY <1>2, <1>4
    <2>2. PICK v \in tasks' : v.pc = "enter" /\ v.left = t.left \ {h}
      BY <1>2, <1>4, <2>1, GhostEntersTasks DEF Enters
    <2> QED BY <1>4, <2>1, <2>2 DEF Rescues
  <1> QED BY <1>1, <1>2, <1>3, <1>4, RescueKept

LEMMA StepRescue ==
    ASSUME GhostsAssumption, TypeOK, TasksOK, NoCreatorYet, RescueInv, NEW t \in tasks, Step(t)
    PROVE  RescueInv'
  <1>0. /\ UNCHANGED <<kinds, plan>> /\ causes \subseteq causes' /\ tasks \ {t} \subseteq tasks'
        /\ StepOf(t)
    BY StepQuiet, StepActions DEF Quiet
  <1> DEFINE Harmless == inRoom' = {} /\ causes' \cap RescueCauses = {} =>
                           /\ inRoom = {} /\ invited' \subseteq invited
                           /\ member' \cap Primary \subseteq member
  <1>1. ASSUME Aside(t), Harmless PROVE RescueInv'
    BY <1>0, <1>1, AsideKept
  <1>2. ASSUME t.pc = "tail", HandleKickTail(t) PROVE RescueInv'
    BY <1>1, <1>2 DEF Aside, HandleKickTail, room, engine
  <1>3. ASSUME t.pc = "cancel", HandleCancellation(t) PROVE RescueInv'
    BY <1>1, <1>3 DEF Aside, HandleCancellation, room
  <1>4. ASSUME t.pc = "reconcile", Reconcile(t) PROVE RescueInv'
    BY <1>1, <1>4 DEF Aside, Reconcile
  <1>5. ASSUME t.pc = "ticket", OpenTicket(t) PROVE RescueInv'
    BY <1>1, <1>5 DEF Aside, OpenTicket, engine
  <1>6. ASSUME t.pc = "admit", NEW b \in Bots, Admit(t, b) PROVE RescueInv'
    BY <1>1, <1>6 DEF Aside, Admit, Enters
  <1>7. ASSUME t.pc = "close", CloseTicket(t) PROVE RescueInv'
    BY <1>1, <1>7 DEF Aside, CloseTicket, engine
  <1>8. ASSUME t.pc = "sweep", Sweep(t) PROVE RescueInv'
    BY <1>1, <1>8 DEF Aside, Sweep, engine
  <1>9. ASSUME t.pc = "call", CallPrimaries(t) PROVE RescueInv'
    BY <1>1, <1>9 DEF Aside, CallPrimaries, Confirmed
  <1>10. ASSUME t.pc = "join", NEW c \in Bots, HandleJoin(t, c) PROVE RescueInv'
    <2>1. inRoom' = {} => "echo" \in causes'
      BY <1>10, HandleJoinTasks DEF HandleJoin, room
    <2> QED BY <1>1, <1>10, <2>1 DEF Aside, RescueCauses
  <1>11. ASSUME t.pc = "echo", Echo(t) PROVE RescueInv'
    <2>1. inRoom' = {} => "echo" \in causes'
      BY <1>11, EchoTasks DEF Echo, room
    <2> QED BY <1>1, <1>11, <2>1 DEF Aside, RescueCauses
  <1>12. ASSUME t.pc = "park", NEW g \in Bots, Park(t, g) PROVE RescueInv'
    <2>1. CASE Now("repark")
      BY <1>0, <2>1, RescueKept DEF Now, Unnoticed
    <2>2. CASE ~Now("repark")
      <3>1. UNCHANGED <<inRoom, invited, member>>
        BY <1>12, <2>2, ParkTasks DEF Now
      <3> QED BY <1>1, <1>12, <3>1 DEF Aside
    <2> QED BY <2>1, <2>2
  <1>13. ASSUME t.pc = "repark", Repark(t) PROVE RescueInv'
    <2>1. inRoom' = {} => causes' \cap RescueCauses # {}
      BY <1>13, ReparkTasks DEF Repark, RescueCauses
    <2> QED BY <1>0, <2>1, RescueKept
  <1>14. ASSUME t.pc = "rejoin", Rejoin(t) PROVE RescueInv'
    BY <1>1, <1>14 DEF Aside, Rejoin, engine
  <1>15. ASSUME t.pc = "depart", NEW g \in Bots, Depart(t, g) PROVE RescueInv'
    <2>1. \/ inRoom' # {} \/ causes' \cap RescueCauses # {}
          \/ UNCHANGED <<inRoom, invited, member>>
      BY <1>15, DepartTasks DEF RescueCauses
    <2> QED BY <1>1, <1>15, <2>1 DEF Aside
  <1>16. ASSUME t.pc = "leave" PROVE RescueInv'
    <2>1. "bye" \in causes'
      BY <1>0, <1>16 DEF TasksOK
    <2> QED BY <1>0, <2>1, RescueKept DEF RescueCauses
  <1> QED BY <1>0, <1>2, <1>3, <1>4, <1>5, <1>6, <1>7, <1>8, <1>9, <1>10, <1>11, <1>12, <1>13,
             <1>14, <1>15, <1>16, KickRescue, InvitedRescue, AcceptRescue, RecoverRescue, EnterRescue
          DEF StepOf

-----------------------------------------------------------------------------
(* The ghosts in their place.                                              *)

\* For each ghost a step that takes its task away leaves another.
LEMMA PendingKept ==
    ASSUME PendingInv, UNCHANGED <<kinds, plan>>, causes \subseteq causes',
           causes' \cap PendingCauses = {} =>
              /\ Regulars' # {} => \A g \in plan \cap inRoom' :
                    \/ \E u \in tasks' : SendsOut(u, g)
                    \/ /\ Regulars # {} /\ g \in inRoom
                       /\ \A u \in tasks \ tasks' : ~SendsOut(u, g)
              /\ \A g \in Lost' :
                    \/ \E u \in tasks' : Invites(u, g)'
                    \/ /\ g \in Lost /\ (g \in member' => g \in member)
                       /\ \A u \in tasks \ tasks' : ~Invites(u, g)
    PROVE  PendingInv'
  <1> SUFFICES ASSUME causes' \cap PendingCauses = {}
               PROVE  /\ Regulars' # {} => \A g \in plan \cap inRoom' : \E u \in tasks' : SendsOut(u, g)'
                      /\ \A g \in Lost' : \E u \in tasks' : Invites(u, g)'
    BY DEF PendingInv, PendingCauses
  <1>1. \A u, g : SendsOut(u, g)' <=> SendsOut(u, g)
    BY DEF SendsOut, Primary
  <1>2. ASSUME NEW u, NEW g, Invites(u, g), g \in member' => g \in member
        PROVE  Invites(u, g)'
    BY <1>2 DEF Invites, OwnReport, Primary
  <1>3. ASSUME NEW g \in Lost' PROVE \E u \in tasks' : Invites(u, g)'
    BY <1>2, <1>3 DEF PendingInv
  <1>4. ASSUME Regulars' # {}, NEW g \in plan \cap inRoom' PROVE \E u \in tasks' : SendsOut(u, g)
    BY <1>4 DEF PendingInv
  <1> QED BY <1>1, <1>3, <1>4

\* A task that sees to no ghost.
Apart(t) == t.pc \in {"tail", "cancel", "invited", "accept", "ticket", "admit", "close", "echo"}

LEMMA ApartIsIdle ==
    ASSUME NEW t, Apart(t)
    PROVE  \A g : ~SendsOut(t, g) /\ ~Invites(t, g)
  BY DEF Apart, SendsOut, Invites, OwnReport

\* A task sees to no ghost that is still in the room or lost afterwards, or
\* leaves that to another one.
HandsOver(t) ==
    /\ \A g \in plan \cap inRoom' : SendsOut(t, g) => \E u \in tasks' : SendsOut(u, g)
    /\ \A g \in Lost' : Invites(t, g) => \E u \in tasks' : Invites(u, g)'

\* A step after which the room holds no other bots.
LEMMA SettledKept ==
    ASSUME PendingInv, UNCHANGED <<kinds, plan>>, causes \subseteq causes',
           NEW t \in tasks, tasks \ {t} \subseteq tasks',
           causes' \cap PendingCauses = {} =>
              /\ inRoom' \subseteq inRoom /\ invited \subseteq invited'
              /\ \A g \in inRoom \ inRoom' :
                    g \in Lost' => \E u \in tasks' : Invites(u, g)'
              /\ \A g \in Lost : g \in member' => g \in member
              /\ HandsOver(t)
    PROVE  PendingInv'
  <1> SUFFICES ASSUME causes' \cap PendingCauses = {}
               PROVE  /\ Regulars' # {} => \A g \in plan \cap inRoom' :
                            \/ \E u \in tasks' : SendsOut(u, g)
                            \/ /\ Regulars # {} /\ g \in inRoom
                               /\ \A u \in tasks \ tasks' : ~SendsOut(u, g)
                      /\ \A g \in Lost' :
                            \/ \E u \in tasks' : Invites(u, g)'
                            \/ /\ g \in Lost /\ (g \in member' => g \in member)
                               /\ \A u \in tasks \ tasks' : ~Invites(u, g)
    BY PendingKept
  <1>1. tasks \ tasks' \subseteq {t} /\ Regulars' \subseteq Regulars
    BY DEF Regulars, Primary
  <1>2. ASSUME NEW g \in Lost', g \notin Lost PROVE \E u \in tasks' : Invites(u, g)'
    <2>1. g \in inRoom \ inRoom'
      BY <1>2 DEF Lost
    <2> QED BY <2>1
  <1>3. \A g \in Lost' : Invites(t, g) => \E u \in tasks' : Invites(u, g)'
    BY DEF HandsOver
  <1>4. \A g \in plan \cap inRoom' : SendsOut(t, g) => \E u \in tasks' : SendsOut(u, g)
    BY DEF HandsOver
  <1>5. \A g \in Lost' : \/ \E u \in tasks' : Invites(u, g)'
                         \/ /\ g \in Lost /\ (g \in member' => g \in member)
                            /\ \A u \in tasks \ tasks' : ~Invites(u, g)
    BY <1>1, <1>2, <1>3
  <1>6. Regulars' # {} => \A g \in plan \cap inRoom' :
                            \/ \E u \in tasks' : SendsOut(u, g)
                            \/ /\ Regulars # {} /\ g \in inRoom
                               /\ \A u \in tasks \ tasks' : ~SendsOut(u, g)
    BY <1>1, <1>4
  <1> QED BY <1>5, <1>6

\* A bot comes in: a ghost where there is no regular bot, or a bot whose
\* report makes the ghosts leave.
LEMMA EnteredKept ==
    ASSUME PendingInv, UNCHANGED <<kinds, plan>>, causes \subseteq causes',
           NEW t \in tasks, tasks \ {t} \subseteq tasks',
           causes' \cap PendingCauses = {} =>
              /\ \E S : /\ inRoom' = inRoom \cup S
                        /\ invited \subseteq invited' \cup inRoom' /\ member' \subseteq member \cup S
                        /\ S \cap plan # {} => Regulars = {} /\ S \subseteq plan
                        /\ \A b \in S : \E u \in tasks' : u.pc = "join" /\ u.who = b
              /\ HandsOver(t)
    PROVE  PendingInv'
  <1> SUFFICES ASSUME causes' \cap PendingCauses = {}
               PROVE  /\ Regulars' # {} => \A g \in plan \cap inRoom' :
                            \/ \E u \in tasks' : SendsOut(u, g)
                            \/ /\ Regulars # {} /\ g \in inRoom
                               /\ \A u \in tasks \ tasks' : ~SendsOut(u, g)
                      /\ \A g \in Lost' :
                            \/ \E u \in tasks' : Invites(u, g)'
                            \/ /\ g \in Lost /\ (g \in member' => g \in member)
                               /\ \A u \in tasks \ tasks' : ~Invites(u, g)
    BY PendingKept
  <1>0. PICK S : /\ inRoom' = inRoom \cup S
                 /\ invited \subseteq invited' \cup inRoom' /\ member' \subseteq member \cup S
                 /\ S \cap plan # {} => Regulars = {} /\ S \subseteq plan
                 /\ \A b \in S : \E u \in tasks' : u.pc = "join" /\ u.who = b
    OBVIOUS
  <1>1. tasks \ tasks' \subseteq {t} /\ Lost' \subseteq Lost /\ Lost' \cap S = {}
    BY <1>0 DEF Lost
  <1>2. Regulars' = Regulars \cup ((S \cap Primary) \ plan)
    BY <1>0 DEF Regulars, Primary
  <1>3. \A g \in Lost' : Invites(t, g) => \E u \in tasks' : Invites(u, g)'
    BY DEF HandsOver
  <1>4. \A g \in plan \cap inRoom' : SendsOut(t, g) => \E u \in tasks' : SendsOut(u, g)
    BY DEF HandsOver
  <1>5. \A g \in Lost' : \/ \E u \in tasks' : Invites(u, g)'
                         \/ /\ g \in Lost /\ (g \in member' => g \in member)
                            /\ \A u \in tasks \ tasks' : ~Invites(u, g)
    BY <1>0, <1>1, <1>3
  <1>6. ASSUME Regulars' # {}, NEW g \in plan \cap inRoom'
        PROVE  \/ \E u \in tasks' : SendsOut(u, g)
               \/ /\ Regulars # {} /\ g \in inRoom
                  /\ \A u \in tasks \ tasks' : ~SendsOut(u, g)
    <2>1. CASE (S \cap Primary) \ plan # {}
      BY <1>0, <2>1 DEF SendsOut
    <2>2. CASE (S \cap Primary) \ plan = {}
      <3>1. Regulars # {} /\ g \in inRoom
        BY <1>0, <1>2, <1>6, <2>2
      <3> QED BY <1>1, <1>4, <3>1
    <2> QED BY <2>1, <2>2
  <1> QED BY <1>5, <1>6


\* The same for a single bot.
LEMMA EntersKept ==
    ASSUME PendingInv, UNCHANGED <<kinds, plan>>, causes \subseteq causes',
           NEW t \in tasks, tasks \ {t} \subseteq tasks', NEW b, Enters(b),
           \E u \in tasks' : u.pc = "join" /\ u.who = b,
           causes' \cap PendingCauses = {} =>
              (b \in plan => Regulars = {}) /\ HandsOver(t)
    PROVE  PendingInv'
  <1>1. PICK S : S = {b}
    OBVIOUS
  <1>2. causes' \cap PendingCauses = {} =>
              /\ inRoom' = inRoom \cup S
              /\ invited \subseteq invited' \cup inRoom' /\ member' \subseteq member \cup S
              /\ S \cap plan # {} => Regulars = {} /\ S \subseteq plan
              /\ \A c \in S : \E u \in tasks' : u.pc = "join" /\ u.who = c
    BY <1>1 DEF Enters
  <1> QED BY <1>2, EnteredKept

LEMMA KickPending ==
    ASSUME GhostsAssumption, TypeOK, TasksOK, NoCreatorYet, PendingInv,
           NEW t \in tasks, HandleKick(t)
    PROVE  PendingInv'
  <1>1. /\ t.pc = "kick" /\ tasks \ {t} \subseteq tasks' /\ causes \subseteq causes'
        /\ UNCHANGED <<kinds, plan, inRoom, invited>> /\ member' = member \ {t.who}
    BY StepQuiet, HandleKickTasks DEF Step, Goes, Quiet, HandleKick
  <1>2. ASSUME causes' \cap PendingCauses = {}, NEW g \in Lost', Invites(t, g)
        PROVE  \E u \in tasks' : Invites(u, g)'
    <2>1. g \in Primary /\ t.bot = g /\ t.who = g /\ g \in plan
      BY <1>1, <1>2 DEF Invites, OwnReport, Lost
    <2>2. creator # Nobody
      BY <2>1 DEF NoCreatorYet
    <2>3. Tail(t, member \ {g})
      BY <1>2, <2>1, <2>2 DEF HandleKick, Because, PendingCauses
    <2>4. Now("recover") \/ Now("reconcile")
      BY <1>2, <2>3, TailTasks DEF PendingCauses
    <2> QED BY <1>1, <2>1, <2>4 DEF Now, Invites, Primary
  <1>3. \A g : ~SendsOut(t, g)
    BY <1>1 DEF SendsOut
  <1> QED BY <1>1, <1>2, <1>3, SettledKept DEF HandsOver

LEMMA ReconcilePending ==
    ASSUME GhostsAssumption, TypeOK, TasksOK, PendingInv, NEW t \in tasks, Reconcile(t)
    PROVE  PendingInv'
  <1>1. /\ t.pc = "reconcile" /\ tasks \ {t} \subseteq tasks' /\ causes \subseteq causes'
        /\ UNCHANGED <<kinds, plan, inRoom>> /\ member' \subseteq member /\ invited \subseteq invited'
    BY StepQuiet, ReconcileTasks DEF Step, Goes, Quiet, Reconcile
  <1>2. ASSUME causes' \cap PendingCauses = {}, NEW g \in Lost' PROVE ~Invites(t, g)
    <2>1. SUFFICES ASSUME g \in Primary, g \notin member PROVE FALSE
      BY <1>1 DEF Invites, OwnReport
    <2>2. g \in Lost /\ g \in Reached(Primary \ member)
      BY <1>1, <1>2, <2>1 DEF Lost, Reached
    <2>3. CASE Abandons(TRUE)
      BY <1>2, <2>2, <2>3 DEF Abandons, Because, PendingCauses
    <2>4. CASE invited' = invited \cup Reached(Primary \ member)
      BY <1>2, <2>2, <2>4 DEF Lost
    <2>5. CASE Fault
      BY <1>2, <2>5 DEF Fault, PendingCauses
    <2> QED BY <2>1, <2>3, <2>4, <2>5 DEF Reconcile
  <1>3. \A g : ~SendsOut(t, g)
    BY <1>1 DEF SendsOut
  <1> QED BY <1>1, <1>2, <1>3, SettledKept DEF HandsOver

LEMMA AcceptPending ==
    ASSUME GhostsAssumption, TypeOK, TasksOK, PendingInv, NEW t \in tasks, Accept(t)
    PROVE  PendingInv'
  <1>1. /\ t.pc = "accept" /\ tasks \ {t} \subseteq tasks' /\ causes \subseteq causes'
        /\ UNCHANGED <<kinds, plan>>
    BY StepQuiet, AcceptTasks DEF Step, Goes, Quiet
  <1>2. HandsOver(t)
    BY <1>1, ApartIsIdle DEF Apart, HandsOver
  <1>3. CASE /\ ~UNCHANGED <<inRoom, invited, member>>
             /\ Enters(t.bot) /\ Because(t.bot \in plan /\ Regulars # {}, "overtaken")
    <2>1. \E u \in tasks' : u.pc = "join" /\ u.who = t.bot
      BY <1>3, AcceptTasks
    <2>2. causes' \cap PendingCauses = {} => (t.bot \in plan => Regulars = {})
      BY <1>3 DEF Because, PendingCauses
    <2> QED BY <1>1, <1>2, <1>3, <2>1, <2>2, EntersKept
  <1>4. CASE UNCHANGED <<inRoom, invited, member>>
    BY <1>1, <1>2, <1>4, SettledKept
  <1> QED BY <1>3, <1>4 DEF Accept

LEMMA AdmitPending ==
    ASSUME GhostsAssumption, TypeOK, TasksOK, PendingInv, NEW t \in tasks,
           NEW b \in Bots, Admit(t, b)
    PROVE  PendingInv'
  <1>1. /\ t.pc = "admit" /\ tasks \ {t} \subseteq tasks' /\ causes \subseteq causes'
        /\ UNCHANGED <<kinds, plan>>
    BY StepQuiet, AdmitTasks DEF Step, Goes, Quiet
  <1>2. HandsOver(t)
    BY <1>1, ApartIsIdle DEF Apart, HandsOver
  <1>3. CASE b \notin inRoom /\ Enters(b) /\ Because(b \in plan, "admitted")
    <2>1. \E u \in tasks' : u.pc = "join" /\ u.who = b
      BY <1>3, AdmitTasks DEF Enters
    <2>2. causes' \cap PendingCauses = {} => b \notin plan
      BY <1>3 DEF Because, PendingCauses
    <2> QED BY <1>1, <1>2, <1>3, <2>1, <2>2, EntersKept
  <1>4. CASE UNCHANGED <<inRoom, invited, member>>
    BY <1>1, <1>2, <1>4, SettledKept
  <1> QED BY <1>3, <1>4, Zenon DEF Admit

LEMMA RecoverPending ==
    ASSUME GhostsAssumption, TypeOK, TasksOK, PendingInv, NEW t \in tasks, LaunchRecovery(t)
    PROVE  PendingInv'
  <1>1. /\ t.pc = "recover" /\ tasks \ {t} \subseteq tasks' /\ causes \subseteq causes'
        /\ UNCHANGED <<kinds, plan, inRoom, invited, member>>
    BY StepQuiet, LaunchRecoveryTasks DEF Step, Goes, Quiet, LaunchRecovery, room
  <1>2. ASSUME causes' \cap PendingCauses = {}, NEW g \in Lost', Invites(t, g)
        PROVE  \E u \in tasks' : Invites(u, g)'
    <2>1. plan # {} /\ "recent" \notin causes'
      BY <1>1, <1>2 DEF Lost, PendingCauses
    <2>2. PICK u \in tasks' : u.pc = "enter" /\ u.next = "call"
      BY <2>1, LaunchRecoveryTasks
    <2> QED BY <1>1, <1>2, <2>2 DEF Invites, OwnReport, Primary
  <1>3. \A g : ~SendsOut(t, g)
    BY <1>1 DEF SendsOut
  <1> QED BY <1>1, <1>2, <1>3, SettledKept DEF HandsOver

LEMMA EnterPending ==
    ASSUME GhostsAssumption, TypeOK, TasksOK, PendingInv, NEW t \in tasks,
           NEW h \in Bots, GhostEnters(t, h)
    PROVE  PendingInv'
  <1>1. /\ t.pc = "enter" /\ tasks \ {t} \subseteq tasks' /\ causes \subseteq causes'
        /\ UNCHANGED <<kinds, plan>>
    BY StepQuiet, GhostEntersTasks DEF Step, Goes, Quiet
  <1>2. \A g : ~SendsOut(t, g) /\ (Invites(t, g) => g \in Primary /\ t.next = "call")
    BY <1>1 DEF SendsOut, Invites, OwnReport
  <1>3. ASSUME NEW u \in tasks', u.pc \in {"enter", "sweep"}, u.next = t.next
        PROVE  HandsOver(t)
    BY <1>1, <1>2, <1>3 DEF HandsOver, Invites, Primary
  <1>4. CASE h \in invited /\ Enters(h) /\ Because(Regulars # {}, "overtaken")
    <2>1. ~UNCHANGED <<inRoom, invited>>
      BY <1>4 DEF Enters
    <2>2. HandsOver(t) /\ \E u \in tasks' : u.pc = "join" /\ u.who = h
      BY <1>3, <2>1, GhostEntersTasks
    <2>3. causes' \cap PendingCauses = {} => Regulars = {}
      BY <1>4 DEF Because, PendingCauses
    <2> QED BY <1>1, <1>4, <2>2, <2>3, EntersKept
  <1>5. CASE /\ UNCHANGED <<inRoom, invited, member>>
             /\ IF h \in invited THEN Fault
                ELSE Abandons(t.left = {h} /\ t.bot = Nobody) /\ UNCHANGED faults
    <2>1. ASSUME causes' \cap PendingCauses = {}, NEW g \in Lost', Invites(t, g)
          PROVE  HandsOver(t)
      <3>1. t.left # {h} \/ t.bot # Nobody
        BY <1>1, <1>5, <2>1 DEF Fault, Abandons, Because, PendingCauses, Lost
      <3>2. \E u \in tasks' : u.pc \in {"enter", "sweep"} /\ u.next = t.next
        BY <1>5, <3>1, GhostEntersTasks DEF Enters
      <3> QED BY <1>3, <3>2
    <2>2. causes' \cap PendingCauses = {} => HandsOver(t)
      BY <1>2, <2>1 DEF HandsOver
    <2> QED BY <1>1, <1>5, <2>2, SettledKept
  <1> QED BY <1>4, <1>5 DEF GhostEnters

LEMMA SweepPending ==
    ASSUME GhostsAssumption, TypeOK, TasksOK, PendingInv, NEW t \in tasks, Sweep(t)
    PROVE  PendingInv'
  <1>1. /\ t.pc = "sweep" /\ tasks \ {t} \subseteq tasks' /\ causes \subseteq causes'
        /\ UNCHANGED <<kinds, plan, inRoom, invited, member>>
    BY StepQuiet, SweepTasks DEF Step, Goes, Quiet, Sweep, engine
  <1>2. ASSUME causes' \cap PendingCauses = {}, NEW g \in Lost', Invites(t, g)
        PROVE  \E u \in tasks' : Invites(u, g)'
    <2>1. g \in Primary /\ t.next = "call" /\ Lost # {}
      BY <1>1, <1>2 DEF Invites, OwnReport, Lost
    <2>2. Now("call")
      BY <1>2, <2>1, SweepTasks DEF PendingCauses
    <2> QED BY <1>1, <2>1, <2>2 DEF Now, Invites, Primary
  <1>3. \A g : ~SendsOut(t, g)
    BY <1>1 DEF SendsOut
  <1> QED BY <1>1, <1>2, <1>3, SettledKept DEF HandsOver

LEMMA CallPending ==
    ASSUME GhostsAssumption, TypeOK, TasksOK, PendingInv, NEW t \in tasks, CallPrimaries(t)
    PROVE  PendingInv'
  <1>1. /\ t.pc = "call" /\ tasks \ {t} \subseteq tasks' /\ causes \subseteq causes'
        /\ UNCHANGED <<kinds, plan, inRoom>> /\ invited \subseteq invited'
    BY StepQuiet, CallPrimariesTasks DEF Step, Goes, Quiet, CallPrimaries
  <1>2. ASSUME causes' \cap PendingCauses = {} PROVE /\ \A g \in Lost' : ~Invites(t, g)
                                                     /\ \A g \in Lost : g \in member' => g \in member
    <2>1. CASE t.bot \notin inRoom
      <3>1. Lost = {}
        BY <1>2, <2>1 DEF CallPrimaries, Abandons, Because, PendingCauses
      <3> QED BY <1>1, <3>1 DEF Lost
    <2>2. CASE t.bot \in inRoom
      <3>1. invited' = invited \cup Reached(Primary)
        BY <1>2, <2>2 DEF CallPrimaries, Fault, PendingCauses
      <3>2. member' = member \cup {t.bot}
        BY <2>2 DEF CallPrimaries, Confirmed
      <3> QED BY <1>1, <2>2, <3>1, <3>2 DEF Lost, Reached, Invites, OwnReport
    <2> QED BY <2>1, <2>2
  <1>3. \A g : ~SendsOut(t, g)
    BY <1>1 DEF SendsOut
  <1> QED BY <1>1, <1>2, <1>3, SettledKept DEF HandsOver

LEMMA JoinPending ==
    ASSUME GhostsAssumption, TypeOK, TasksOK, PendingInv, NEW t \in tasks,
           NEW c \in Bots, HandleJoin(t, c)
    PROVE  PendingInv'
  <1>1. /\ t.pc = "join" /\ tasks \ {t} \subseteq tasks' /\ causes \subseteq causes'
        /\ UNCHANGED <<kinds, plan, inRoom, invited>> /\ member' = member \cup {t.who}
    BY StepQuiet, HandleJoinTasks DEF Step, Goes, Quiet, HandleJoin, room
  <1>2. ASSUME causes' \cap PendingCauses = {}, NEW g \in plan \cap inRoom', SendsOut(t, g)
        PROVE  \E u \in tasks' : SendsOut(u, g)
    <2>1. t.who \in Primary \ plan /\ plan \cap inRoom # {} /\ "recent" \notin causes'
      BY <1>1, <1>2 DEF SendsOut, PendingCauses
    <2>2. PICK u \in tasks' : u.pc = "park" /\ u.left = plan
      BY <2>1, HandleJoinTasks
    <2> QED BY <1>2, <2>2 DEF SendsOut
  <1>3. \A g : ~Invites(t, g)
    BY <1>1 DEF Invites, OwnReport
  <1>4. causes' \cap PendingCauses = {} => t.who \in inRoom
    BY HandleJoinTasks DEF PendingCauses
  <1>5. causes' \cap PendingCauses = {} => \A g \in Lost : g \in member' => g \in member
    BY <1>1, <1>4 DEF Lost
  <1> QED BY <1>1, <1>2, <1>3, <1>5, SettledKept DEF HandsOver

LEMMA EchoPending ==
    ASSUME GhostsAssumption, TypeOK, TasksOK, PendingInv, NEW t \in tasks, Echo(t)
    PROVE  PendingInv'
  <1>1. /\ t.pc = "echo" /\ tasks \ {t} \subseteq tasks' /\ causes \subseteq causes'
        /\ UNCHANGED <<kinds, plan, inRoom, invited>> /\ member' = member \cup {t.who}
    BY StepQuiet, EchoTasks DEF Step, Goes, Quiet, Echo, room
  <1>2. HandsOver(t)
    BY <1>1, ApartIsIdle DEF Apart, HandsOver
  <1>3. causes' \cap PendingCauses = {} => t.who \in inRoom
    BY EchoTasks DEF PendingCauses
  <1>4. causes' \cap PendingCauses = {} => \A g \in Lost : g \in member' => g \in member
    BY <1>1, <1>3 DEF Lost
  <1> QED BY <1>1, <1>2, <1>4, SettledKept

LEMMA ParkPending ==
    ASSUME GhostsAssumption, TypeOK, TasksOK, PendingInv, NEW t \in tasks,
           NEW h \in Bots, Park(t, h)
    PROVE  PendingInv'
  <1>1. /\ t.pc = "park" /\ tasks \ {t} \subseteq tasks' /\ causes \subseteq causes'
        /\ UNCHANGED <<kinds, plan>>
    BY StepQuiet, ParkTasks DEF Step, Goes, Quiet
  <1>2. \A g : ~Invites(t, g) /\ (SendsOut(t, g) => g \in t.left)
    BY <1>1 DEF SendsOut, Invites, OwnReport
  <1>3. inRoom' \subseteq inRoom /\ invited \subseteq invited' /\ member' \subseteq member
    BY DEF Park, Leaves
  <1>4. ASSUME causes' \cap PendingCauses = {}
        PROVE  /\ \A g \in inRoom \ inRoom' : \E u \in tasks' : Invites(u, g)'
               /\ \A g \in plan \cap inRoom' : SendsOut(t, g) => \E u \in tasks' : SendsOut(u, g)
    <2>1. CASE /\ UNCHANGED inRoom
               /\ h \in inRoom => "viewStale" \in causes'
               /\ t.left # {h} => \E u \in tasks' : u.pc = "park" /\ u.left = t.left \ {h}
      <3>1. h \notin inRoom
        BY <1>4, <2>1 DEF PendingCauses
      <3> QED BY <1>2, <2>1, <3>1 DEF SendsOut
    <2>2. ASSUME inRoom' = inRoom \ {h},
                 NEW u \in tasks', u.pc = "repark", u.who = h, u.left = t.left \ {h}
          PROVE  /\ \A g \in inRoom \ inRoom' : \E v \in tasks' : Invites(v, g)'
                 /\ \A g \in plan \cap inRoom' : SendsOut(t, g) => \E v \in tasks' : SendsOut(v, g)
      BY <1>2, <2>2 DEF SendsOut, Invites
    <2>3. CASE causes' \cap {"fault", "viewStale"} # {}
      BY <1>4, <2>3 DEF PendingCauses
    <2> QED BY <2>1, <2>2, <2>3, ParkTasks
  <1> QED BY <1>1, <1>2, <1>3, <1>4, SettledKept DEF HandsOver

LEMMA ReparkPending ==
    ASSUME GhostsAssumption, TypeOK, TasksOK, PendingInv, NEW t \in tasks, Repark(t)
    PROVE  PendingInv'
  <1>1. /\ t.pc = "repark" /\ tasks \ {t} \subseteq tasks' /\ causes \subseteq causes'
        /\ UNCHANGED <<kinds, plan, inRoom>>
    BY StepQuiet, ReparkTasks DEF Step, Goes, Quiet, Repark
  <1>2. ASSUME causes' \cap PendingCauses = {}
        PROVE  /\ t.bot \in inRoom
               /\ invited' = invited \cup Reached({t.who})
               /\ t.left # {} => \E u \in tasks' : u.pc = "park" /\ u.left = t.left
    BY <1>2, ReparkTasks DEF Repark, Because, Fault, PendingCauses
  <1>3. ASSUME causes' \cap PendingCauses = {}
        PROVE  /\ invited \subseteq invited'
               /\ \A g \in Lost : g \in member' => g \in member
               /\ HandsOver(t)
    <2>1. \A g : /\ Invites(t, g) => g = t.who
                 /\ SendsOut(t, g) => g \in t.left
      BY <1>1 DEF SendsOut, Invites, OwnReport
    <2>2. t.who \notin Lost'
      BY <1>1, <1>2, <1>3 DEF Lost, Reached
    <2>3. member' = member \cup {t.bot}
      BY <1>2, <1>3 DEF Repark, Confirmed
    <2> QED BY <1>1, <1>2, <1>3, <2>1, <2>2, <2>3 DEF HandsOver, SendsOut, Lost
  <1> QED BY <1>1, <1>3, SettledKept

LEMMA RejoinPending ==
    ASSUME GhostsAssumption, TypeOK, TasksOK, PendingInv, NEW t \in tasks, Rejoin(t)
    PROVE  PendingInv'
  <1>1. /\ t.pc = "rejoin" /\ tasks \ {t} \subseteq tasks' /\ causes \subseteq causes'
        /\ UNCHANGED <<kinds, plan, member>>
    BY StepQuiet, RejoinTasks DEF Step, Goes, Quiet, Rejoin, engine
  <1>2. HandsOver(t)
    <2>1. \A g : ~Invites(t, g) /\ (SendsOut(t, g) => g \in t.left)
      BY <1>1 DEF SendsOut, Invites, OwnReport
    <2>2. t.left # {} => \E u \in tasks' : u.pc = "depart" /\ u.left = t.left
      BY RejoinTasks
    <2> QED BY <2>1, <2>2 DEF HandsOver, SendsOut
  <1>3. PICK S \in SUBSET ((t.old \ plan) \cap invited) :
            inRoom' = inRoom \cup S /\ invited' = invited \ S
    BY DEF Rejoin
  <1>4. PICK R : R = inRoom' \ inRoom
    OBVIOUS
  <1>5. causes' \cap PendingCauses = {} =>
              /\ inRoom' = inRoom \cup R
              /\ invited \subseteq invited' \cup inRoom' /\ member' \subseteq member \cup R
              /\ R \cap plan # {} => Regulars = {} /\ R \subseteq plan
              /\ \A b \in R : \E u \in tasks' : u.pc = "join" /\ u.who = b
    BY <1>1, <1>3, <1>4, RejoinTasks
  <1> QED BY <1>1, <1>2, <1>5, EnteredKept

LEMMA DepartPending ==
    ASSUME GhostsAssumption, TypeOK, TasksOK, PendingInv, NEW t \in tasks,
           NEW h \in Bots, Depart(t, h)
    PROVE  PendingInv'
  <1>1. /\ t.pc = "depart" /\ tasks \ {t} \subseteq tasks' /\ causes \subseteq causes'
        /\ UNCHANGED <<kinds, plan>>
    BY StepQuiet, DepartTasks DEF Step, Goes, Quiet
  <1>2. \A g : ~Invites(t, g) /\ (SendsOut(t, g) => g \in t.left)
    BY <1>1 DEF SendsOut, Invites, OwnReport
  <1>3. ASSUME causes' \cap PendingCauses = {}
        PROVE  /\ t.bot \in inRoom /\ inRoom' = inRoom \ {h} /\ h \in invited'
               /\ t.left # {h} => \E u \in tasks' : u.pc = "depart" /\ u.left = t.left \ {h}
    BY <1>3, DepartTasks DEF PendingCauses
  <1>4. ASSUME causes' \cap PendingCauses = {}
        PROVE  /\ inRoom' \subseteq inRoom /\ invited \subseteq invited'
               /\ \A g \in inRoom \ inRoom' : g \notin Lost'
               /\ \A g \in Lost : g \in member' => g \in member
               /\ HandsOver(t)
    <2>1. invited \subseteq invited' /\ (member' = member \/ member' = Confirmed(t.bot))
      BY <1>3, <1>4 DEF Depart
    <2>2. member' \subseteq member \cup {t.bot}
      BY <1>3, <1>4, <2>1 DEF Confirmed
    <2>3. \A g \in plan \cap inRoom' : SendsOut(t, g) => \E u \in tasks' : SendsOut(u, g)
      BY <1>2, <1>3, <1>4 DEF SendsOut
    <2> QED BY <1>2, <1>3, <1>4, <2>1, <2>2, <2>3 DEF HandsOver, Lost
  <1> QED BY <1>1, <1>4, SettledKept

LEMMA StepPending ==
    ASSUME GhostsAssumption, TypeOK, TasksOK, NoCreatorYet, PendingInv, NEW t \in tasks, Step(t)
    PROVE  PendingInv'
  <1>0. /\ UNCHANGED <<kinds, plan>> /\ causes \subseteq causes' /\ tasks \ {t} \subseteq tasks'
        /\ StepOf(t)
    BY StepQuiet, StepActions DEF Quiet
  <1>1. ASSUME Apart(t), UNCHANGED <<inRoom, invited>>, member' \subseteq member PROVE PendingInv'
    BY <1>0, <1>1, ApartIsIdle, SettledKept DEF HandsOver
  <1>2. ASSUME t.pc = "tail", HandleKickTail(t) PROVE PendingInv'
    BY <1>1, <1>2 DEF Apart, HandleKickTail, room, engine
  <1>3. ASSUME t.pc = "cancel", HandleCancellation(t) PROVE PendingInv'
    BY <1>1, <1>3 DEF Apart, HandleCancellation, room
  <1>4. ASSUME t.pc = "invited", HandleInvitation(t) PROVE PendingInv'
    BY <1>1, <1>4 DEF Apart, HandleInvitation, room, engine
  <1>5. ASSUME t.pc = "ticket", OpenTicket(t) PROVE PendingInv'
    BY <1>1, <1>5 DEF Apart, OpenTicket, engine
  <1>6. ASSUME t.pc = "close", CloseTicket(t) PROVE PendingInv'
    BY <1>1, <1>6 DEF Apart, CloseTicket, engine
  <1>7. ASSUME t.pc = "leave" PROVE PendingInv'
    <2>1. "bye" \in causes'
      BY <1>0, <1>7 DEF TasksOK
    <2> QED BY <2>1 DEF PendingInv, PendingCauses
  <1> QED BY <1>0, <1>2, <1>3, <1>4, <1>5, <1>6, <1>7, KickPending, ReconcilePending, AcceptPending,
             AdmitPending, RecoverPending, EnterPending, SweepPending, CallPending, JoinPending,
             EchoPending, ParkPending, ReparkPending, RejoinPending, DepartPending
          DEF StepOf

-----------------------------------------------------------------------------
(* What users do.                                                          *)

\* The tasks N are new, and the engine goes on as before.
Hears(N, pcs) ==
    /\ Kin(N, pcs) /\ tasks' = tasks \cup N
    /\ "leave" \notin pcs \/ "bye" \in causes'
    /\ causes \subseteq causes'
    /\ UNCHANGED <<foes, ticket, creator, blacklist, kinds, war, member, faults>>
    /\ sent' \in 0 .. MaxOps

LEMMA HeardTasks ==
    ASSUME GhostsAssumption, TypeOK, sent < MaxOps,
           NEW pc \in {"kick", "cancel"}, NEW b \in Bots, NEW f \in Foes
    PROVE  /\ Kin(Heard(pc, b, f), {pc})
           /\ \A c \in inRoom : \E u \in Heard(pc, b, f) : u.pc = pc /\ u.bot = c /\ u.who = b
  <1>1. sent + 1 \in 0 .. MaxOps
    BY DEF GhostsAssumption, TypeOK
  <1>2. \A c \in inRoom : /\ Task(pc, sent + 1, c, b, f) \in Tasks
                          /\ Task(pc, sent + 1, c, b, f).pc = pc
                          /\ Task(pc, sent + 1, c, b, f).bot = c
                          /\ Task(pc, sent + 1, c, b, f).who = b
                          /\ Task(pc, sent + 1, c, b, f).from = f
    <2> TAKE c \in inRoom
    <2>1. pc \in PCs /\ c \in Bots \cup {Nobody} /\ b \in Bots \cup {Nobody}
          /\ f \in Bots \cup Users \cup {Nobody}
      BY DEF PCs, TypeOK, Users
    <2> QED BY <1>1, <2>1, NewTask
  <1> QED BY <1>2 DEF Heard, Kin, Shaped, Shape, TypeOK

LEMMA HearsTypes ==
    ASSUME TypeOK, TasksOK, CreatorIsAUser, Tickets, NEW N, NEW pcs, Hears(N, pcs),
           inRoom' \subseteq Bots, invited' \subseteq Bots, plan' \subseteq Bots
    PROVE  TypeOK' /\ TasksOK' /\ CreatorIsAUser' /\ Tickets'
  <1>1. TypeOK'
    <2>1. tasks' \subseteq Tasks
      BY DEF TypeOK, Hears, Kin, Shaped
    <2>2. /\ foes' \subseteq Foes /\ creator' \in Users \cup Bots \cup {Nobody}
          /\ blacklist' \subseteq Foes /\ kinds' \in Kinds /\ member' \subseteq Bots
          /\ sent' \in 0 .. MaxOps /\ faults' \in 0 .. MaxFaults
      BY DEF TypeOK, Hears
    <2>3. ticket' \in BOOLEAN /\ war' \in BOOLEAN
      BY Zenon DEF TypeOK, Hears
    <2> QED BY <2>1, <2>2, <2>3 DEF TypeOK
  <1>2. TasksOK'
    BY DEF TasksOK, Hears, Kin
  <1>3. CreatorIsAUser'
    BY DEF CreatorIsAUser, Hears
  <1>4. Tickets'
    <2>1. ticket' = ticket /\ causes \subseteq causes' /\ tasks \subseteq tasks'
      BY DEF Hears
    <2> QED BY <2>1 DEF Tickets
  <1> QED BY <1>1, <1>2, <1>3, <1>4

LEMMA KicksInvariant ==
    ASSUME GhostsAssumption, IInv, NEW f \in Foes, NEW b \in Bots, FoeKicks(f, b)
    PROVE  IInv'
  <1>1. /\ sent < MaxOps /\ sent' = sent + 1 /\ b \in inRoom /\ inRoom' = inRoom \ {b}
        /\ tasks' = tasks \cup Heard("kick", b, f) /\ causes \subseteq causes'
        /\ b \in plan /\ kinds[b] = "reserve" => "dismissed" \in causes'
        /\ UNCHANGED <<invited, foes, ticket, creator, blacklist, plan, kinds, war, member, faults>>
    BY DEF FoeKicks, Happens, store, engine
  <1>2. /\ Kin(Heard("kick", b, f), {"kick"})
        /\ \E u \in tasks' : OwnReport(u, b)
    BY <1>1, HeardTasks DEF IInv, OwnReport
  <1>3. Hears(Heard("kick", b, f), {"kick"})
    BY <1>1, <1>2 DEF Hears, IInv, TypeOK, GhostsAssumption
  <1>4. TypeOK' /\ TasksOK' /\ CreatorIsAUser' /\ Tickets'
    BY <1>1, <1>3, HearsTypes DEF IInv, TypeOK
  <1>5. NoCreatorYet'
    BY <1>1 DEF IInv, NoCreatorYet
  <1>6. RescueInv'
    BY <1>1, <1>2, RescueKept DEF IInv, Unnoticed
  <1>7. PendingInv'
    <2>1. ASSUME causes' \cap PendingCauses = {}, NEW g \in Lost', g \notin Lost
          PROVE  \E u \in tasks' : Invites(u, g)'
      <3>1. g = b /\ b \in plan
        BY <1>1, <2>1 DEF Lost
      <3>2. b \in Primary
        BY <1>1, <2>1, <3>1 DEF PendingCauses, Primary, IInv, TypeOK, Kinds
      <3> QED BY <1>1, <1>2, <3>1, <3>2 DEF Invites, OwnReport, Primary
    <2>2. Regulars' \subseteq Regulars /\ tasks \subseteq tasks'
      BY <1>1 DEF Regulars, Primary
    <2> QED BY <1>1, <2>1, <2>2, PendingKept DEF IInv
  <1> QED BY <1>4, <1>5, <1>6, <1>7 DEF IInv

LEMMA CancelsInvariant ==
    ASSUME GhostsAssumption, IInv, NEW f \in Foes, NEW b \in Bots, FoeCancels(f, b)
    PROVE  IInv'
  <1>1. /\ sent < MaxOps /\ sent' = sent + 1 /\ invited' = invited \ {b}
        /\ tasks' = tasks \cup Heard("cancel", b, f) /\ causes \subseteq causes'
        /\ b \in plan => "dismissed" \in causes'
        /\ UNCHANGED <<inRoom, foes, ticket, creator, blacklist, plan, kinds, war, member, faults>>
    BY DEF FoeCancels, Happens, store, engine
  <1>2. Kin(Heard("cancel", b, f), {"cancel"})
    BY <1>1, HeardTasks DEF IInv
  <1>3. Hears(Heard("cancel", b, f), {"cancel"})
    BY <1>1, <1>2 DEF Hears, IInv, TypeOK, GhostsAssumption
  <1>4. TypeOK' /\ TasksOK' /\ CreatorIsAUser' /\ Tickets'
    BY <1>1, <1>3, HearsTypes DEF IInv, TypeOK
  <1>5. NoCreatorYet'
    BY <1>1 DEF IInv, NoCreatorYet, Heard
  <1>6. RescueInv'
    BY <1>1, RescueKept DEF IInv
  <1>7. PendingInv'
    <2>1. causes' \cap PendingCauses = {} => Lost' = Lost /\ Regulars' = Regulars
      BY <1>1 DEF Lost, Regulars, Primary, PendingCauses
    <2> QED BY <1>1, <2>1, PendingKept DEF IInv
  <1> QED BY <1>4, <1>5, <1>6, <1>7 DEF IInv

LEMMA InvitesInvariant ==
    ASSUME GhostsAssumption, IInv, NEW w \in Users, NEW b \in Bots, UserInvites(w, b)
    PROVE  IInv'
  <1>1. /\ sent < MaxOps /\ sent' = sent + 1 /\ invited' = invited \cup {b}
        /\ tasks' = tasks \cup InvitedTasks({b}, w)
        /\ UNCHANGED <<inRoom, foes, ticket, creator, blacklist, plan, kinds, war, member, faults, causes>>
    BY DEF UserInvites, Happens, store, engine
  <1>2. /\ Kin(InvitedTasks({b}, w), {"invited"})
        /\ \A u \in InvitedTasks({b}, w) : u.pc = "invited" /\ u.from = w
        /\ \E u \in tasks' : u.pc = "invited" /\ u.bot = b
    <2>1. {b} \in SUBSET Bots /\ w \in Bots \cup Users
      OBVIOUS
    <2>2. \A u \in InvitedTasks({b}, w) : u.pc = "invited" /\ u.from = w
      BY DEF InvitedTasks, Task
    <2> QED BY <1>1, <2>1, <2>2, Invitations
  <1>3. Hears(InvitedTasks({b}, w), {"invited"})
    BY <1>1, <1>2 DEF Hears, IInv, TypeOK, GhostsAssumption
  <1>4. TypeOK' /\ TasksOK' /\ CreatorIsAUser' /\ Tickets'
    BY <1>1, <1>3, HearsTypes DEF IInv, TypeOK
  <1>5. NoCreatorYet'
    BY <1>1, <1>2 DEF IInv, NoCreatorYet
  <1>6. RescueInv'
    <2>1. ASSUME inRoom = {}, causes \cap RescueCauses = {}, NEW g \in plan \cap invited'
          PROVE  \E u \in tasks' : Rescues(u, g)
      BY <1>1, <1>2, <2>1 DEF IInv, RescueInv, Rescues
    <2>2. PrimaryInView' <=> PrimaryInView
      BY <1>1 DEF PrimaryInView, Primary
    <2>3. \A u, g : Rescues(u, g)' <=> Rescues(u, g)
      BY DEF Rescues, Unnoticed, OwnReport
    <2>4. \A u : Unnoticed(u)' <=> Unnoticed(u)
      BY DEF Unnoticed, OwnReport
    <2> QED BY <1>1, <2>1, <2>2, <2>3, <2>4 DEF IInv, RescueInv
  <1>7. PendingInv'
    <2>1. Lost' \subseteq Lost /\ Regulars' = Regulars
      BY <1>1 DEF Lost, Regulars, Primary
    <2> QED BY <1>1, <2>1, PendingKept DEF IInv
  <1> QED BY <1>4, <1>5, <1>6, <1>7 DEF IInv

LEMMA ConfigureInvariant ==
    ASSUME GhostsAssumption, IInv, NEW c \in Bots, NEW count, ConfigureReserves(c, count)
    PROVE  IInv'
  <1>1. PICK S \in SUBSET ((plan \cup inRoom) \ {c}) :
           /\ plan' = S
           /\ tasks' = tasks \cup {[Task("rejoin", sent + 1, c, Nobody, Boss)
                                       EXCEPT !.left = S \cap inRoom, !.old = plan]}
    BY DEF ConfigureReserves
  <1>2. /\ sent < MaxOps /\ sent' = sent + 1 /\ creator = Boss /\ c \in inRoom
        /\ UNCHANGED <<inRoom, invited, foes, ticket, creator, blacklist, kinds, war, member, faults, causes>>
    BY DEF ConfigureReserves, Happens, room, engine
  <1>3. PICK u : u = [Task("rejoin", sent + 1, c, Nobody, Boss) EXCEPT !.left = S \cap inRoom, !.old = plan]
    OBVIOUS
  <1>4. u \in Shaped /\ u.pc = "rejoin" /\ u.left = S \cap inRoom
    <2>1. sent + 1 \in 0 .. MaxOps
      BY <1>2 DEF GhostsAssumption, IInv, TypeOK
    <2>2. /\ Task("rejoin", sent + 1, c, Nobody, Boss) \in Tasks
          /\ Task("rejoin", sent + 1, c, Nobody, Boss).pc = "rejoin"
          /\ Task("rejoin", sent + 1, c, Nobody, Boss).bot = c
      BY <2>1, NewTask DEF PCs, Users
    <2> QED BY <1>3, <2>2 DEF Shaped, Shape, Tasks, IInv, TypeOK
  <1>5. Hears({u}, {"rejoin"})
    <2>1. Kin({u}, {"rejoin"})
      BY <1>4 DEF Kin
    <2>2. tasks' = tasks \cup {u}
      BY <1>1, <1>3
    <2>3. sent' \in 0 .. MaxOps
      BY <1>2 DEF IInv, TypeOK, GhostsAssumption
    <2> QED BY <1>2, <2>1, <2>2, <2>3 DEF Hears
  <1>6. TypeOK' /\ TasksOK' /\ CreatorIsAUser' /\ Tickets'
    BY <1>1, <1>2, <1>5, HearsTypes DEF IInv, TypeOK
  <1>7. NoCreatorYet' /\ RescueInv'
    BY <1>2 DEF NoCreatorYet, RescueInv, GhostsAssumption, Users
  <1>8. PendingInv'
    <2>1. Lost' \subseteq Lost
      BY <1>1, <1>2 DEF Lost
    <2>2. \A g \in plan' \cap inRoom' : SendsOut(u, g)'
      BY <1>1, <1>2, <1>4 DEF SendsOut
    <2>3. \A v, g : Invites(v, g) => Invites(v, g)'
      BY <1>2 DEF Invites, OwnReport, Primary
    <2>4. u \in tasks' /\ tasks \subseteq tasks'
      BY <1>1, <1>3
    <2> QED BY <1>2, <2>1, <2>2, <2>3, <2>4 DEF IInv, PendingInv
  <1> QED BY <1>6, <1>7, <1>8 DEF IInv

LEMMA ByeInvariant ==
    ASSUME GhostsAssumption, IInv, NEW c \in Bots, Bye(c)
    PROVE  IInv'
  <1>1. /\ sent < MaxOps /\ sent' = sent + 1 /\ creator = Boss /\ causes' = causes \cup {"bye"}
        /\ UNCHANGED <<inRoom, invited, foes, ticket, creator, blacklist, plan, kinds, war, member, faults>>
    BY DEF Bye, Happens, room, store, engine
  <1>2. PICK u : u = [Task("leave", sent + 1, c, Nobody, Boss) EXCEPT !.left = inRoom]
    OBVIOUS
  <1>3. u \in Shaped /\ u.pc = "leave"
    <2>1. sent + 1 \in 0 .. MaxOps
      BY <1>1 DEF GhostsAssumption, IInv, TypeOK
    <2>2. /\ Task("leave", sent + 1, c, Nobody, Boss) \in Tasks
          /\ Task("leave", sent + 1, c, Nobody, Boss).pc = "leave"
      BY <2>1, NewTask DEF PCs, Users
    <2> QED BY <1>2, <2>2 DEF Shaped, Shape, Tasks, IInv, TypeOK
  <1>4. Hears({u}, {"leave"})
    <2>1. Kin({u}, {"leave"})
      BY <1>3 DEF Kin
    <2>2. tasks' = tasks \cup {u}
      BY <1>2 DEF Bye
    <2>3. sent' \in 0 .. MaxOps
      BY <1>1 DEF IInv, TypeOK, GhostsAssumption
    <2> QED BY <1>1, <2>1, <2>2, <2>3 DEF Hears
  <1>5. TypeOK' /\ TasksOK' /\ CreatorIsAUser' /\ Tickets'
    BY <1>1, <1>4, HearsTypes DEF IInv, TypeOK
  <1>6. NoCreatorYet' /\ RescueInv' /\ PendingInv'
    BY <1>1 DEF NoCreatorYet, RescueInv, PendingInv, RescueCauses, PendingCauses, GhostsAssumption, Users
  <1> QED BY <1>5, <1>6 DEF IInv

-----------------------------------------------------------------------------
(* The process starts again.                                               *)

LEMMA StartTasks ==
    ASSUME GhostsAssumption, IInv, Restart
    PROVE  /\ tasks' \subseteq Shaped /\ \A u \in tasks' : u.pc # "leave"
           /\ inRoom = {} /\ plan = {} => tasks' = {}
           /\ inRoom = {} /\ plan # {} => \E u \in tasks' : u.pc = "enter" /\ u.left = plan
  <1>1. PICK start : start = [Async("sweep") EXCEPT !.next = "ticket"]
    OBVIOUS
  <1>2. start \in Tasks /\ start.pc = "sweep" /\ start.next = "ticket"
    <2>1. Async("sweep") \in Tasks /\ Async("sweep").pc = "sweep"
      BY AsyncTask DEF PCs
    <2> QED BY <1>1, <2>1 DEF Tasks
  <1>3. PICK v : v = [start EXCEPT !.pc = "enter", !.left = plan]
    OBVIOUS
  <1>4. v \in Shaped /\ v.pc = "enter" /\ v.left = plan
    BY <1>2, <1>3 DEF Shaped, Shape, Tasks, PCs, IInv, TypeOK
  <1>5. ASSUME NEW leader \in inRoom
        PROVE  [start EXCEPT !.bot = leader] \in Shaped /\ [start EXCEPT !.bot = leader].pc = "sweep"
    <2>1. leader \in Bots
      BY DEF IInv, TypeOK
    <2>2. PICK u : u = [start EXCEPT !.bot = leader]
      OBVIOUS
    <2>3. u \in Shaped /\ u.pc = "sweep"
      BY <1>2, <2>1, <2>2 DEF Shaped, Shape, Tasks
    <2> QED BY <2>2, <2>3
  <1>6. IF inRoom = {} /\ plan # {} THEN tasks' = {v}
        ELSE \/ inRoom = {} /\ tasks' = {}
             \/ \E leader \in inRoom : tasks' = {[start EXCEPT !.bot = leader]}
    BY <1>1, <1>3 DEF Restart
  <1>7. CASE inRoom = {}
    BY <1>4, <1>6, <1>7
  <1>8. CASE inRoom # {}
    <2>1. PICK leader \in inRoom : tasks' = {[start EXCEPT !.bot = leader]}
      BY <1>6, <1>8
    <2> QED BY <1>5, <1>8, <2>1
  <1> QED BY <1>7, <1>8

LEMMA RestartInvariant ==
    ASSUME GhostsAssumption, IInv, Restart
    PROVE  IInv'
  <1>1. /\ sent < MaxOps /\ sent' = sent + 1 /\ member' = inRoom
        /\ UNCHANGED <<inRoom, invited, foes, ticket, creator, blacklist, plan, kinds, war, faults>>
        /\ causes \ Volatile \subseteq causes'
        /\ tasks # {} => "crash" \in causes'
        /\ causes \cap Volatile # {} /\ Lost \cup (plan \cap inRoom) # {} => "unparked" \in causes'
    BY DEF Restart, Happens, room, store
  <1>2. /\ tasks' \subseteq Shaped /\ \A u \in tasks' : u.pc # "leave"
        /\ inRoom = {} /\ plan = {} => tasks' = {}
        /\ inRoom = {} /\ plan # {} => \E u \in tasks' : u.pc = "enter" /\ u.left = plan
    BY StartTasks
  <1>3. TypeOK'
    <2>1. /\ tasks' \subseteq Tasks /\ sent' \in 0 .. MaxOps
          /\ inRoom' \subseteq Bots /\ member' \subseteq Bots /\ invited' \subseteq Bots
          /\ plan' \subseteq Bots
          /\ foes' \subseteq Foes /\ creator' \in Users \cup Bots \cup {Nobody}
          /\ blacklist' \subseteq Foes /\ kinds' \in Kinds /\ faults' \in 0 .. MaxFaults
      BY <1>1, <1>2 DEF IInv, TypeOK, GhostsAssumption, Shaped
    <2>2. ticket' \in BOOLEAN /\ war' \in BOOLEAN
      BY <1>1, Zenon DEF IInv, TypeOK
    <2> QED BY <2>1, <2>2 DEF TypeOK
  <1>4. CreatorIsAUser' /\ NoCreatorYet' /\ TasksOK'
    BY <1>1, <1>2 DEF IInv, CreatorIsAUser, NoCreatorYet, TasksOK
  <1>5. Tickets'
    <2>1. ASSUME ticket PROVE causes' \cap TicketCauses # {}
      BY <1>1, <2>1 DEF IInv, Tickets, TicketCauses, Volatile
    <2>2. ticket' = ticket
      BY <1>1
    <2> QED BY <2>1, <2>2 DEF Tickets
  <1>6. RescueInv'
    BY <1>1, <1>2 DEF RescueInv, Rescues, PrimaryInView
  <1>7. PendingInv'
    <2>1. ASSUME causes' \cap PendingCauses = {} PROVE Lost = {} /\ (Regulars # {} => plan \cap inRoom = {})
      <3>1. tasks = {}
        BY <1>1, <2>1 DEF PendingCauses
      <3>2. CASE causes \cap Volatile # {}
        BY <1>1, <2>1, <3>2 DEF PendingCauses
      <3>3. CASE causes \cap Volatile = {}
        <4>1. causes \cap PendingCauses = {}
          BY <1>1, <2>1, <3>3
        <4> QED BY <3>1, <4>1 DEF IInv, PendingInv
      <3> QED BY <3>2, <3>3
    <2>2. Lost' = Lost /\ Regulars' = Regulars
      BY <1>1 DEF Lost, Regulars, Primary
    <2> QED BY <1>1, <2>1, <2>2 DEF PendingInv
  <1> QED BY <1>3, <1>4, <1>5, <1>6, <1>7 DEF IInv

-----------------------------------------------------------------------------
(* The invariant.                                                          *)

LEMMA InitInvariant == Init => IInv
  <1> SUFFICES ASSUME Init PROVE IInv
    OBVIOUS
  <1> USE GhostsAssumption
  <1>1. PICK s \in InitScenes :
           /\ inRoom = s.inRoom /\ member = s.member /\ invited = s.invited /\ plan = s.plan
           /\ kinds = s.kinds /\ creator = s.creator /\ war = s.war
           /\ sent = s.sent /\ faults = s.faults
           /\ tasks = InvitedTasks(s.invited \ s.plan, Boss)
    BY Zenon DEF Init
  <1>2. /\ s \in Scenes /\ plan \subseteq invited \ inRoom /\ (inRoom = {} => plan = {})
        /\ (creator = Nobody => inRoom = {})
    BY <1>1 DEF GhostsAssumption
  <1>3. foes = Foes /\ blacklist = {} /\ causes = {} /\ ~ticket
    BY DEF Init
  <1>4. /\ Kin(tasks, {"invited"})
        /\ \A t \in tasks : t.from = Boss
    <2>1. s.invited \ s.plan \in SUBSET Bots /\ Boss \in Bots \cup Users
      BY <1>2 DEF Scenes, Users
    <2>2. \A t \in tasks : t.from = Boss
      BY <1>1 DEF InvitedTasks, Task
    <2> QED BY <1>1, <2>1, <2>2, Invitations
  <1>5. TypeOK
    <2>1. /\ inRoom \subseteq Bots /\ invited \subseteq Bots /\ foes \subseteq Foes
          /\ creator \in Users \cup Bots \cup {Nobody} /\ blacklist \subseteq Foes /\ plan \subseteq Bots
          /\ kinds \in Kinds /\ member \subseteq Bots
          /\ sent \in 0..MaxOps /\ faults \in 0..MaxFaults
      BY <1>1, <1>2, <1>3 DEF Scenes
    <2>2. tasks \subseteq Tasks
      BY <1>4 DEF Kin, Shaped
    <2>3. ticket \in BOOLEAN
      BY DEF Init
    <2>4. war \in BOOLEAN
      BY <1>1, <1>2 DEF Scenes
    <2> QED BY <2>1, <2>2, <2>3, <2>4 DEF TypeOK
  <1>6. CreatorIsAUser
    <2>1. creator \in Users \cup {Nobody}
      BY <1>1, <1>2 DEF Scenes
    <2> QED BY <2>1 DEF CreatorIsAUser, GhostsAssumption
  <1>7. NoCreatorYet /\ TasksOK
    BY <1>2, <1>4 DEF NoCreatorYet, TasksOK, Kin, Users
  <1>8. Tickets
    BY <1>3 DEF Tickets
  <1>9. RescueInv /\ PendingInv
    BY <1>2 DEF RescueInv, PendingInv, Lost
  <1> QED BY <1>5, <1>6, <1>7, <1>8, <1>9 DEF IInv

LEMMA NextInvariant == IInv /\ [Next]_vars => IInv'
  <1> SUFFICES ASSUME IInv, [Next]_vars PROVE IInv'
    OBVIOUS
  <1> USE GhostsAssumption
  <1>1. ASSUME NEW t \in tasks, Step(t) PROVE IInv'
    <2>1. TypeOK /\ CreatorIsAUser /\ NoCreatorYet /\ TasksOK /\ Tickets /\ RescueInv /\ PendingInv
      BY DEF IInv
    <2>2. TypeOK' /\ TasksOK'
      BY <1>1, <2>1, StepTypes
    <2>3. CreatorIsAUser' /\ NoCreatorYet'
      BY <1>1, <2>1, StepCreator
    <2>4. Tickets' /\ RescueInv' /\ PendingInv'
      BY <1>1, <2>1, StepTickets, StepRescue, StepPending
    <2> QED BY <2>2, <2>3, <2>4 DEF IInv
  <1>2. CASE UserActs
    BY <1>2, KicksInvariant, CancelsInvariant, InvitesInvariant, ConfigureInvariant, ByeInvariant
       DEF UserActs
  <1>3. CASE Restart
    BY <1>3, RestartInvariant
  <1>4. ASSUME UNCHANGED <<room, store, kinds, war, member, tasks, sent, faults, causes>> PROVE IInv'
    <2>1. UNCHANGED <<inRoom, invited, foes, ticket, creator, blacklist, plan, kinds, war, member,
                      tasks, sent, faults, causes>>
      BY <1>4, Zenon DEF room, store
    <2>2. Lost' = Lost /\ Regulars' = Regulars /\ Primary' = Primary
      BY <2>1, Zenon DEF Lost, Regulars, Primary
    <2>3. PrimaryInView' <=> PrimaryInView
      BY <2>1, <2>2, Zenon DEF PrimaryInView
    <2>4. /\ \A t, g : SendsOut(t, g)' <=> SendsOut(t, g)
          /\ \A t, g : Invites(t, g)' <=> Invites(t, g)
          /\ \A t, g : Rescues(t, g)' <=> Rescues(t, g)
          /\ \A t : Unnoticed(t)' <=> Unnoticed(t)
      BY <2>1, <2>2 DEF SendsOut, Invites, Rescues, Unnoticed, OwnReport
    <2>5. TypeOK'
      BY <2>1, Zenon DEF IInv, TypeOK
    <2>6. CreatorIsAUser' /\ NoCreatorYet' /\ TasksOK'
      BY <2>1 DEF IInv, CreatorIsAUser, NoCreatorYet, TasksOK
    <2>7. Tickets'
      BY <2>1, Zenon DEF IInv, Tickets
    <2>8. RescueInv' /\ PendingInv'
      BY <2>1, <2>2, <2>3, <2>4 DEF IInv, RescueInv, PendingInv
    <2> QED BY <2>5, <2>6, <2>7, <2>8 DEF IInv
  <1>5. CASE Forget
    BY <1>4, <1>5 DEF Forget
  <1>6. CASE UNCHANGED vars
    BY <1>4, <1>6 DEF vars, engine
  <1> QED BY <1>1, <1>2, <1>3, <1>5, <1>6 DEF Next

\* The inductive invariant holds in every state.
THEOREM Invariant == Spec => []IInv
  <1> QED BY InitInvariant, NextInvariant, PTL DEF Spec

\* Every variable keeps its type, whatever the bots, the rooms and the bounds.
THEOREM TypeCorrect == Spec => []TypeOK
  <1>1. IInv => TypeOK
    BY DEF IInv
  <1> QED BY <1>1, Invariant, PTL

\* handleInvitation: whoever invites, a bot never becomes the Creator.
THEOREM CreatorStaysAUser == Spec => []CreatorIsAUser
  <1>1. IInv => CreatorIsAUser
    BY DEF IInv
  <1> QED BY <1>1, Invariant, PTL

\* admitPrimaryFleetByGroupTicket: without a failed call, a removed leader or a
\* crash no group ticket is left open when all goroutines have returned.
THEOREM TicketsAreClosed == Spec => []TicketClosed
  <1>1. IInv => TicketClosed
    BY DEF IInv, Tickets, TicketClosed
  <1> QED BY <1>1, Invariant, PTL

\* launchRecovery: when the last bot of a room was removed, a ghost that waits
\* in its invitations comes in, but for the exceptions of Rescued.
THEOREM GhostsRescue == Spec => []Rescued
  <1>1. IInv => Rescued
    BY DEF IInv, RescueInv, Rescued
  <1> QED BY <1>1, Invariant, PTL

\* parkReserves and configureReserves: where a primary bot is, every ghost waits
\* in the invitations, but for the exceptions of GhostsPending.
THEOREM GhostsWait == Spec => []GhostsPending
  <1>1. IInv => GhostsPending
    BY DEF IInv, PendingInv, GhostsPending, Lost
  <1> QED BY <1>1, Invariant, PTL

=============================================================================
