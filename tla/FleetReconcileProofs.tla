------------------------ MODULE FleetReconcileProofs ------------------------
(***************************************************************************)
(* The theorems of FleetReconcile and FleetRecovery, for any number of     *)
(* bots, goroutines, passes, removals and failing calls.                   *)
(*                                                                         *)
(* That no bot is invited twice is a consequence of mutual exclusion: the  *)
(* list of missing bots is read in one critical section and used after it, *)
(* and it stays disjoint from the pending marks only because nobody but    *)
(* the goroutine that owns the list sets a mark.                           *)
(***************************************************************************)
EXTENDS FleetRecovery, TLAPS

\* The bots a goroutine is about to invite have no fresh invitation.
TodoNotPending ==
    \A r \in Workers : rec[r].pc \in {"invite", "mark"} => rec[r].todo \cap pending = {}

\* A goroutine that marks a bot still has it on its list.
MarkHasTarget == \A r \in Workers : rec[r].pc = "mark" => rec[r].todo # {}

\* The note is set only while somebody runs.
NoteOnlyInside == fleetDirty => fleetSync

IInv == TypeOK /\ OneReconciler /\ TodoNotPending /\ MarkHasTarget /\ NoteOnlyInside

\* The bot being invited is one of the missing ones.
LEMMA TargetInTodo ==
    ASSUME NEW r, rec[r].todo # {}
    PROVE  Target(r) \in rec[r].todo
  BY DEF Target

\* The initial state satisfies the invariant.
LEMMA InitInvariant == Init => IInv
  <1> SUFFICES ASSUME Init PROVE IInv
    OBVIOUS
  <1>1. TypeOK
    <2>1. fleetSync \in BOOLEAN /\ fleetDirty \in BOOLEAN
      BY Zenon DEF Init
    <2>2. rec \in [Workers -> Goroutine]
      BY FleetAssumption DEF Init, Idle, Goroutine, PCs
    <2> QED BY <2>1, <2>2, FleetAssumption DEF Init, TypeOK
  <1>2. OneReconciler
    BY DEF Init, OneReconciler, Inside, Idle
  <1>3. TodoNotPending /\ MarkHasTarget /\ NoteOnlyInside
    BY DEF Init, TodoNotPending, MarkHasTarget, NoteOnlyInside, Idle
  <1> QED BY <1>1, <1>2, <1>3 DEF IInv

\* A step that starts at most one goroutine, takes marks away only and leaves
\* the flags alone preserves everything but the types.
LEMMA SpawnStep ==
    ASSUME IInv, UNCHANGED flags, pending' \subseteq pending,
           Spawn \/ UNCHANGED rec
    PROVE  (OneReconciler /\ TodoNotPending /\ MarkHasTarget /\ NoteOnlyInside)'
  <1> USE DEF IInv, flags
  <1>1. CASE UNCHANGED rec
    BY <1>1 DEF OneReconciler, Inside, TodoNotPending, MarkHasTarget, NoteOnlyInside
  <1>2. CASE Spawn
    <2>1. PICK w \in Workers : rec[w].pc = "idle" /\ rec' = [rec EXCEPT ![w].pc = "start"]
      BY <1>2 DEF Spawn, Goto
    <2>2. rec \in [Workers -> Goroutine]
      BY DEF TypeOK
    <2>3. /\ rec'[w].pc = "start"
          /\ \A r \in Workers \ {w} : rec'[r] = rec[r]
      BY <2>1, <2>2 DEF Goroutine
    <2>4. \A r \in Workers : Inside(r)' <=> Inside(r)
      BY <2>1, <2>3 DEF Inside
    <2> QED BY <2>1, <2>3, <2>4 DEF OneReconciler, TodoNotPending, MarkHasTarget, NoteOnlyInside
  <1> QED BY <1>1, <1>2

\* A goroutine that enters the room, works in it or leaves it: what it must
\* respect for the invariant to hold afterwards.
LEMMA InsideStep ==
    ASSUME IInv, NEW r \in Workers, Inside(r), NEW g \in Goroutine,
           rec' = [rec EXCEPT ![r] = g],
           g.pc \notin {"idle", "start"},
           UNCHANGED fleetSync,
           g.pc \in {"invite", "mark"} => g.todo \cap pending' = {},
           g.pc = "mark" => g.todo # {}
    PROVE  /\ rec' \in [Workers -> Goroutine]
           /\ (OneReconciler /\ TodoNotPending /\ MarkHasTarget /\ NoteOnlyInside)'
  <1> USE DEF IInv
  <1>1. rec \in [Workers -> Goroutine]
    BY DEF TypeOK
  <1>2. rec'[r] = g /\ \A s \in Workers \ {r} : rec'[s] = rec[s]
    BY <1>1
  <1>3. \A s \in Workers \ {r} : ~Inside(s)
    BY DEF OneReconciler
  <1>4. fleetSync
    BY DEF OneReconciler
  <1>5. \A s \in Workers : Inside(s)' <=> s = r
    BY <1>2, <1>3 DEF Inside
  <1>6. OneReconciler'
    BY <1>4, <1>5 DEF OneReconciler
  <1>7. TodoNotPending' /\ MarkHasTarget'
    BY <1>2, <1>3 DEF TodoNotPending, MarkHasTarget, Inside
  <1>8. NoteOnlyInside'
    BY <1>4 DEF NoteOnlyInside
  <1>9. rec' \in [Workers -> Goroutine]
    BY <1>1, <1>2
  <1> QED BY <1>6, <1>7, <1>8, <1>9

\* The steps of a goroutine.
LEMMA WorkerStep ==
    ASSUME IInv, NEW r \in Workers, Step(r)
    PROVE  IInv'
  <1> USE DEF IInv
  <1>1. rec \in [Workers -> Goroutine] /\ rec[r] \in Goroutine
    BY DEF TypeOK
  <1>2. CASE Enter(r)
    <2>1. CASE fleetSync
      <3>1. fleetDirty' = TRUE /\ rec' = [rec EXCEPT ![r] = Idle] /\ UNCHANGED fleetSync
        BY <1>2, <2>1 DEF Enter
      <3>2. Idle \in Goroutine
        BY FleetAssumption DEF Idle, Goroutine, PCs
      <3>3. rec'[r] = Idle /\ \A s \in Workers \ {r} : rec'[s] = rec[s]
        BY <1>1, <3>1
      <3>4. \A s \in Workers : Inside(s)' <=> Inside(s)
        BY <1>2, <3>3 DEF Inside, Idle, Enter
      <3>5. (OneReconciler /\ TodoNotPending /\ MarkHasTarget /\ NoteOnlyInside)'
        BY <1>2, <2>1, <3>1, <3>3, <3>4
           DEF Enter, view, OneReconciler, TodoNotPending, MarkHasTarget, NoteOnlyInside, Idle
      <3>6. (fleetSync \in BOOLEAN /\ fleetDirty \in BOOLEAN)'
        BY <3>1, Zenon DEF TypeOK
      <3>7. TypeOK'
        BY <1>1, <1>2, <3>1, <3>2, <3>6 DEF Enter, TypeOK, room, view
      <3> QED BY <3>5, <3>7
    <2>2. CASE ~fleetSync
      <3>1. /\ fleetSync' = TRUE /\ UNCHANGED fleetDirty
            /\ rec' = [rec EXCEPT ![r].pc = "candidates"]
        BY <1>2, <2>2 DEF Enter, Goto
      <3>2. /\ rec'[r].pc = "candidates" /\ rec'[r] \in Goroutine
            /\ \A s \in Workers \ {r} : rec'[s] = rec[s]
        BY <1>1, <3>1 DEF Goroutine, PCs
      <3>3. \A s \in Workers : Inside(s)' <=> s = r
        BY <2>2, <3>2 DEF Inside, OneReconciler
      <3>4. (OneReconciler /\ TodoNotPending /\ MarkHasTarget /\ NoteOnlyInside)'
        BY <1>2, <3>1, <3>2, <3>3
           DEF Enter, view, OneReconciler, TodoNotPending, MarkHasTarget, NoteOnlyInside
      <3>5. (fleetSync \in BOOLEAN /\ fleetDirty \in BOOLEAN)'
        BY <3>1, Zenon DEF TypeOK
      <3>6. (rec \in [Workers -> Goroutine])'
        BY <1>1, <3>1, <3>2
      <3>7. TypeOK'
        BY <1>2, <3>5, <3>6 DEF Enter, TypeOK, room, view
      <3> QED BY <3>4, <3>7
    <2> QED BY <2>1, <2>2
  <1>3. CASE FindCandidates(r)
    <2> DEFINE g == [rec[r] EXCEPT !.pc = IF member = {} THEN "exit" ELSE "missing",
                                   !.ranked = IF member = {} THEN @ ELSE member]
    <2>1. g \in Goroutine /\ g.pc \in {"exit", "missing"}
      BY <1>1 DEF Goroutine, PCs, TypeOK
    <2>2. rec' = [rec EXCEPT ![r] = g]
      BY <1>1, <1>3 DEF FindCandidates, Goto, Goroutine
    <2>3. Inside(r) /\ UNCHANGED fleetSync
      BY <1>3 DEF FindCandidates, Inside
    <2> HIDE DEF g
    <2>4. /\ rec' \in [Workers -> Goroutine]
          /\ (OneReconciler /\ TodoNotPending /\ MarkHasTarget /\ NoteOnlyInside)'
      BY <2>1, <2>2, <2>3, InsideStep
    <2>5. (fleetDirty \in BOOLEAN)'
      BY <1>3, Zenon DEF FindCandidates
    <2> QED BY <1>3, <2>4, <2>5 DEF FindCandidates, TypeOK, room, view
  <1>4. CASE FindMissing(r)
    <2> DEFINE g == [rec[r] EXCEPT !.pc = "invite", !.todo = Primaries \ (member \cup pending)]
    <2>1. g \in Goroutine /\ g.pc = "invite" /\ g.todo \cap pending = {}
      BY <1>1 DEF Goroutine, PCs
    <2>2. rec' = [rec EXCEPT ![r] = g]
      BY <1>1, <1>4 DEF FindMissing, Goroutine
    <2>3. Inside(r) /\ UNCHANGED <<fleetSync, pending>>
      BY <1>4 DEF FindMissing, Inside, flags, view
    <2> HIDE DEF g
    <2>4. /\ rec' \in [Workers -> Goroutine]
          /\ (OneReconciler /\ TodoNotPending /\ MarkHasTarget /\ NoteOnlyInside)'
      BY <2>1, <2>2, <2>3, InsideStep
    <2> QED BY <1>4, <2>4 DEF FindMissing, TypeOK, room, view, flags
  <1>5. ASSUME NEW q \in Primaries, Invite(r, q)
        PROVE  IInv'
    <2> DEFINE g == [rec[r] EXCEPT !.pc = "mark"]
    <2>1. /\ g \in Goroutine /\ g.pc = "mark" /\ g.todo = rec[r].todo
          /\ rec[r].todo # {} /\ rec[r].todo \cap pending = {}
      BY <1>1, <1>5 DEF Goroutine, PCs, Invite, Inviting, TodoNotPending
    <2>2. rec' = [rec EXCEPT ![r] = g]
      BY <1>1, <1>5 DEF Invite, Goto, Goroutine
    <2>3. Inside(r) /\ UNCHANGED <<fleetSync, pending>>
      BY <1>5 DEF Invite, Inviting, Inside, flags, view
    <2>4. (invited \subseteq Primaries)'
      BY <1>1, <1>5, <2>1, TargetInTodo DEF Invite, TypeOK, Goroutine
    <2> HIDE DEF g
    <2>5. /\ rec' \in [Workers -> Goroutine]
          /\ (OneReconciler /\ TodoNotPending /\ MarkHasTarget /\ NoteOnlyInside)'
      BY <2>1, <2>2, <2>3, InsideStep
    <2> QED BY <1>5, <2>4, <2>5 DEF Invite, TypeOK, room, view, flags
  <1>6. ASSUME NEW q \in Primaries, InviteNotMember(r, q) \/ InviteFails(r, q)
        PROVE  IInv'
    <2> DEFINE g == [rec[r] EXCEPT !.tried = @ \cup {q}]
    <2>1. g \in Goroutine /\ g.pc = "invite" /\ g.todo \cap pending = {}
      BY <1>1, <1>6 DEF Goroutine, PCs, InviteNotMember, InviteFails, Inviting, TodoNotPending
    <2>2. rec' = [rec EXCEPT ![r] = g]
      BY <1>1, <1>6 DEF InviteNotMember, InviteFails, Goroutine
    <2>3. Inside(r) /\ UNCHANGED <<fleetSync, pending>>
      BY <1>6 DEF InviteNotMember, InviteFails, Inviting, Inside, flags, view
    <2> HIDE DEF g
    <2>4. /\ rec' \in [Workers -> Goroutine]
          /\ (OneReconciler /\ TodoNotPending /\ MarkHasTarget /\ NoteOnlyInside)'
      BY <2>1, <2>2, <2>3, InsideStep
    <2>5. (faults \in 0..MaxFaults)'
      BY <1>6, FleetAssumption DEF InviteNotMember, InviteFails, TypeOK
    <2> QED BY <1>6, <2>4, <2>5 DEF InviteNotMember, InviteFails, TypeOK, room, view, flags
  <1>7. CASE GiveUp(r)
    <2> DEFINE g == [rec[r] EXCEPT !.todo = @ \ {Target(r)}, !.tried = {}]
    <2>1. g \in Goroutine /\ g.pc = "invite" /\ g.todo \cap pending = {}
      BY <1>1, <1>7 DEF Goroutine, PCs, GiveUp, Inviting, TodoNotPending
    <2>2. rec' = [rec EXCEPT ![r] = g]
      BY <1>1, <1>7 DEF GiveUp, Goroutine
    <2>3. Inside(r) /\ UNCHANGED <<fleetSync, pending>>
      BY <1>7 DEF GiveUp, Inviting, Inside, flags, view
    <2> HIDE DEF g
    <2>4. /\ rec' \in [Workers -> Goroutine]
          /\ (OneReconciler /\ TodoNotPending /\ MarkHasTarget /\ NoteOnlyInside)'
      BY <2>1, <2>2, <2>3, InsideStep
    <2> QED BY <1>7, <2>4 DEF GiveUp, TypeOK, room, view, flags
  <1>8. CASE MarkPending(r)
    <2> DEFINE g == [rec[r] EXCEPT !.pc = "invite", !.todo = @ \ {Target(r)}, !.tried = {}]
    <2>1. /\ g \in Goroutine /\ g.pc = "invite" /\ g.todo = rec[r].todo \ {Target(r)}
          /\ rec[r].todo \cap pending = {}
      BY <1>1, <1>8 DEF Goroutine, PCs, MarkPending, TodoNotPending
    <2>2. rec' = [rec EXCEPT ![r] = g]
      BY <1>1, <1>8 DEF MarkPending, Goroutine
    <2>3. Inside(r) /\ UNCHANGED fleetSync /\ pending' = pending \cup {Target(r)}
      BY <1>8 DEF MarkPending, Inside, flags
    <2>4. Target(r) \in Primaries
      BY <1>1, <1>8, TargetInTodo DEF MarkPending, MarkHasTarget, Goroutine
    <2> HIDE DEF g
    <2>5. /\ rec' \in [Workers -> Goroutine]
          /\ (OneReconciler /\ TodoNotPending /\ MarkHasTarget /\ NoteOnlyInside)'
      BY <2>1, <2>2, <2>3, InsideStep
    <2> QED BY <1>8, <2>3, <2>4, <2>5 DEF MarkPending, TypeOK, room, flags
  <1>9. CASE CheckDirty(r)
    <2> DEFINE more == fleetDirty /\ rec[r].pass + 1 < MaxPass
    <2> DEFINE g == IF more THEN [Idle EXCEPT !.pc = "candidates", !.pass = rec[r].pass + 1]
                            ELSE [Idle EXCEPT !.pc = "exit"]
    <2>1. g \in Goroutine /\ g.pc \in {"candidates", "exit"}
      <3>1. rec[r].pass \in 0..(MaxPass - 1)
        BY <1>1 DEF Goroutine
      <3>2. ASSUME more
            PROVE  [Idle EXCEPT !.pc = "candidates", !.pass = rec[r].pass + 1] \in Goroutine
        <4>1. rec[r].pass + 1 \in 0..(MaxPass - 1)
          BY <3>1, <3>2, FleetAssumption
        <4> QED BY <4>1 DEF Goroutine, PCs, Idle
      <3>3. [Idle EXCEPT !.pc = "exit"] \in Goroutine
        BY FleetAssumption DEF Goroutine, PCs, Idle
      <3>4. CASE more
        BY <3>2, <3>4 DEF Idle
      <3>5. CASE ~more
        BY <3>3, <3>5 DEF Idle
      <3> QED BY <3>4, <3>5
    <2>2. rec' = [rec EXCEPT ![r] = g]
      BY <1>9 DEF CheckDirty
    <2>3. Inside(r) /\ UNCHANGED fleetSync
      BY <1>9 DEF CheckDirty, Inside, flags
    <2> HIDE DEF g
    <2>4. /\ rec' \in [Workers -> Goroutine]
          /\ (OneReconciler /\ TodoNotPending /\ MarkHasTarget /\ NoteOnlyInside)'
      BY <2>1, <2>2, <2>3, InsideStep
    <2> QED BY <1>9, <2>4 DEF CheckDirty, TypeOK, room, view, flags
  <1>10. CASE Exit(r)
    <2>1. /\ Inside(r) /\ fleetSync' = FALSE /\ fleetDirty' = FALSE
          /\ rec' = [rec EXCEPT ![r] = Idle]
      BY <1>10 DEF Exit, Inside
    <2>2. Idle \in Goroutine
      BY FleetAssumption DEF Idle, Goroutine, PCs
    <2>3. rec'[r] = Idle /\ \A s \in Workers \ {r} : rec'[s] = rec[s] /\ ~Inside(s)
      BY <1>1, <2>1 DEF OneReconciler
    <2>4. \A s \in Workers : ~Inside(s)'
      BY <2>3 DEF Inside, Idle
    <2>5. (OneReconciler /\ TodoNotPending /\ MarkHasTarget /\ NoteOnlyInside)'
      BY <2>1, <2>4 DEF OneReconciler, TodoNotPending, MarkHasTarget, NoteOnlyInside, Inside
    <2>6. (fleetSync \in BOOLEAN /\ fleetDirty \in BOOLEAN)'
      BY <2>1, Zenon
    <2>7. (rec \in [Workers -> Goroutine])'
      BY <1>1, <2>1, <2>2
    <2> QED BY <1>10, <2>5, <2>6, <2>7 DEF Exit, TypeOK, room, view
  <1> QED BY <1>2, <1>3, <1>4, <1>5, <1>6, <1>7, <1>8, <1>9, <1>10 DEF Step

\* The steps of the room and of the handlers.
LEMMA OtherStep ==
    ASSUME IInv, Environment \/ Handle
    PROVE  IInv'
  <1> USE DEF IInv
  <1>1. /\ UNCHANGED flags /\ pending' \subseteq pending
        /\ Spawn \/ UNCHANGED rec
    BY DEF Environment, Handle, Kicked, Cancelled, Observe, Dispatch, Accept, AcceptFails,
           SetMember, PendingExpires, view
  <1>2. (OneReconciler /\ TodoNotPending /\ MarkHasTarget /\ NoteOnlyInside)'
    BY <1>1, SpawnStep
  <1>3. (rec \in [Workers -> Goroutine])'
    <2>1. CASE UNCHANGED rec
      BY <2>1 DEF TypeOK
    <2>2. CASE Spawn
      BY <2>2 DEF Spawn, Goto, TypeOK, Goroutine, PCs
    <2> QED BY <1>1, <2>1, <2>2
  <1>4. (fleetSync \in BOOLEAN /\ fleetDirty \in BOOLEAN)'
    BY <1>1 DEF flags, TypeOK
  <1>5. (ops \subseteq Ops)'
    <2>1. ASSUME NEW b \in Primaries, Kicked(b)
          PROVE  ops' \subseteq Ops
      BY <2>1 DEF Kicked, Ops, FreshIds, TypeOK
    <2>2. ASSUME NEW b \in Primaries, NEW h \in Primaries, Cancelled(b, h)
          PROVE  ops' \subseteq Ops
      BY <2>2 DEF Cancelled, Ops, FreshIds, TypeOK
    <2>3. ASSUME NEW op \in ops, Observe(op)
          PROVE  ops' \subseteq Ops
      <3>1. op \in Ops
        BY DEF TypeOK
      <3>2. [op EXCEPT !.phase = "dispatch"] \in Ops
        BY <3>1 DEF Ops
      <3> QED BY <2>3, <3>2 DEF Observe, TypeOK
    <2>4. ASSUME NEW op \in ops, Dispatch(op)
          PROVE  ops' \subseteq Ops
      BY <2>4 DEF Dispatch, TypeOK
    <2>5. ASSUME NEW b \in Primaries,
                 Accept(b) \/ AcceptFails(b) \/ SetMember(b) \/ PendingExpires(b)
          PROVE  ops' \subseteq Ops
      BY <2>5 DEF Accept, AcceptFails, SetMember, PendingExpires, TypeOK
    <2> QED BY <2>1, <2>2, <2>3, <2>4, <2>5 DEF Environment, Handle
  <1>6. (faults \in 0..MaxFaults)'
    BY FleetAssumption
       DEF Environment, Handle, Kicked, Cancelled, Observe, Dispatch, Accept, AcceptFails,
           SetMember, PendingExpires, TypeOK
  <1>7. (/\ real \subseteq Primaries /\ invited \subseteq Primaries
         /\ accepting \subseteq Primaries
         /\ member \subseteq Primaries /\ pending \subseteq Primaries)'
    BY DEF Environment, Handle, Kicked, Cancelled, Observe, Dispatch, Accept, AcceptFails,
           SetMember, PendingExpires, TypeOK, room, view
  <1> QED BY <1>2, <1>3, <1>4, <1>5, <1>6, <1>7 DEF TypeOK

\* The invariant of the whole specification.
THEOREM FleetInvariant == Spec => []IInv
  <1>1. IInv /\ [Next]_vars => IInv'
    <2> SUFFICES ASSUME IInv, [Next]_vars PROVE IInv'
      OBVIOUS
    <2>1. CASE UNCHANGED vars
      BY <2>1 DEF IInv, vars, room, view, flags, TypeOK, OneReconciler, TodoNotPending,
                  MarkHasTarget, NoteOnlyInside, Inside
    <2>2. CASE Next
      BY <2>2, OtherStep, WorkerStep DEF Next
    <2> QED BY <2>1, <2>2
  <1> QED BY <1>1, InitInvariant, PTL DEF Spec

\* Every variable of the engine and of the room keeps its type; with it, a
\* reconciliation makes at most MaxPass passes.
THEOREM FleetTypeCorrect == Spec => []TypeOK
  <1>1. IInv => TypeOK
    BY DEF IInv
  <1> QED BY <1>1, FleetInvariant, PTL

\* However many goroutines ask for it, at most one of them reconciles the room,
\* and fleetSync tells exactly when.
THEOREM AtMostOneReconciler == Spec => []OneReconciler
  <1>1. IInv => OneReconciler
    BY DEF IInv
  <1> QED BY <1>1, FleetInvariant, PTL

\* No bot is invited while its last recovery invitation is still fresh.
THEOREM NeverInvitedTwice == Spec => NoRepeatedInvite
  <1>1. IInv => (\A r \in Workers, p \in Primaries : Invite(r, p) => Target(r) \notin pending)
    <2> SUFFICES ASSUME IInv, NEW r \in Workers, NEW p \in Primaries, Invite(r, p)
                 PROVE  Target(r) \notin pending
      OBVIOUS
    <2>1. rec[r].pc = "invite" /\ rec[r].todo # {}
      BY DEF Invite, Inviting
    <2> QED BY <2>1, TargetInTodo DEF IInv, TodoNotPending
  <1> QED BY <1>1, FleetInvariant, PTL DEF NoRepeatedInvite

-----------------------------------------------------------------------------
(* The refinement of SingleFlight.                                         *)

\* The goroutine inside is the runner of the abstract specification, before and
\* after a step.
LEMMA RunnerInside ==
    /\ \A r \in Workers : OneReconciler /\ Inside(r) => Runner = r
    /\ \A r \in Workers : OneReconciler' /\ Inside(r)' => Runner' = r
  BY DEF OneReconciler, Runner

\* Without one, nobody runs.
LEMMA RunnerNone ==
    /\ (\A r \in Workers : ~Inside(r)) => Runner = None
    /\ (\A r \in Workers : ~Inside(r)') => Runner' = None
  BY DEF Runner

\* What a goroutine inside does is what the runner may do.
LEMMA RunnerStep ==
    ASSUME IInv, IInv', NEW r \in Workers, Step(r)
    PROVE  [SF!Next]_<<Runner, fleetDirty>>
  <1> USE DEF IInv
  <1>1. rec \in [Workers -> Goroutine]
    BY DEF TypeOK
  <1>2. CASE Enter(r) /\ fleetSync
    <2>1. PICK s \in Workers : Inside(s)
      BY <1>2 DEF OneReconciler
    <2>2. rec'[s] = rec[s]
      BY <1>1, <1>2, <2>1 DEF Enter, Inside
    <2>3. Runner = s /\ Runner' = s
      BY <2>1, <2>2, RunnerInside DEF Inside
    <2>4. Runner # None
      BY <2>1, <2>3, FleetAssumption
    <2>5. fleetDirty' = TRUE
      BY <1>2 DEF Enter
    <2> QED BY <2>3, <2>4, <2>5 DEF SF!Next, SF!LeaveNote
  <1>3. CASE Enter(r) /\ ~fleetSync
    <2>1. Runner = None
      BY <1>3, RunnerNone DEF OneReconciler
    <2>2. rec' = [rec EXCEPT ![r].pc = "candidates"] /\ UNCHANGED fleetDirty
      BY <1>3 DEF Enter, Goto
    <2>3. rec'[r].pc = "candidates"
      BY <1>1, <2>2 DEF Goroutine
    <2>4. Inside(r)'
      BY <2>3 DEF Inside
    <2>5. Runner' = r
      BY <2>4, RunnerInside
    <2> QED BY <2>1, <2>2, <2>5 DEF SF!Next, SF!Begin
  <1>4. CASE Exit(r)
    <2>1. Runner = r /\ Runner # None
      BY <1>4, RunnerInside, FleetAssumption DEF Exit, Inside
    <2>2. fleetSync' = FALSE /\ fleetDirty' = FALSE
      BY <1>4 DEF Exit
    <2>3. Runner' = None
      BY <2>2, RunnerNone DEF OneReconciler
    <2> QED BY <2>1, <2>2, <2>3 DEF SF!Next, SF!Finish
  <1>5. ASSUME Inside(r), Inside(r)', fleetDirty' = FALSE \/ UNCHANGED fleetDirty
        PROVE  [SF!Next]_<<Runner, fleetDirty>>
    <2>1. Runner = r /\ Runner' = r /\ Runner # None
      BY <1>5, RunnerInside, FleetAssumption
    <2> QED BY <1>5, <2>1 DEF SF!Next, SF!TakeNote
  <1>6. CASE FindCandidates(r)
    <2>1. Inside(r) /\ Inside(r)'
      BY <1>1, <1>6 DEF FindCandidates, Goto, Inside, Goroutine
    <2> QED BY <1>5, <1>6, <2>1 DEF FindCandidates
  <1>7. CASE FindMissing(r) \/ GiveUp(r) \/ MarkPending(r)
    <2>1. Inside(r) /\ Inside(r)'
      BY <1>1, <1>7 DEF FindMissing, GiveUp, MarkPending, Inviting, Inside, Goroutine
    <2> QED BY <1>5, <1>7, <2>1 DEF FindMissing, GiveUp, MarkPending, flags
  <1>8. CASE CheckDirty(r)
    <2>1. Inside(r) /\ UNCHANGED fleetDirty
      BY <1>8 DEF CheckDirty, Inside, flags
    <2>2. rec'[r].pc \in {"candidates", "exit"}
      BY <1>1, <1>8 DEF CheckDirty, Idle
    <2> QED BY <1>5, <2>1, <2>2 DEF Inside
  <1>9. ASSUME NEW p \in Primaries,
               Invite(r, p) \/ InviteNotMember(r, p) \/ InviteFails(r, p)
        PROVE  [SF!Next]_<<Runner, fleetDirty>>
    <2>1. Inside(r) /\ Inside(r)'
      BY <1>1, <1>9 DEF Invite, InviteNotMember, InviteFails, Goto, Inviting, Inside, Goroutine
    <2> QED BY <1>5, <1>9, <2>1 DEF Invite, InviteNotMember, InviteFails, flags
  <1> QED BY <1>2, <1>3, <1>4, <1>6, <1>7, <1>8, <1>9 DEF Step

\* The room and the handlers neither enter nor leave the reconciliation.
LEMMA RunnerUnchanged ==
    ASSUME IInv, Environment \/ Handle
    PROVE  UNCHANGED <<Runner, fleetDirty>>
  <1>1. UNCHANGED flags /\ (Spawn \/ UNCHANGED rec)
    BY DEF Environment, Handle, Kicked, Cancelled, Observe, Dispatch, Accept, AcceptFails,
           SetMember, PendingExpires
  <1>2. rec \in [Workers -> Goroutine]
    BY DEF IInv, TypeOK
  <1>3. \A r \in Workers : Inside(r)' <=> Inside(r)
    BY <1>1, <1>2 DEF Spawn, Goto, Inside, Goroutine
  <1>4. CASE \E r \in Workers : Inside(r)
    <2>1. PICK r \in Workers : Inside(r)
      BY <1>4
    <2>2. IInv'
      BY OtherStep
    <2>3. Runner = r /\ Runner' = r
      BY <1>3, <2>1, <2>2, RunnerInside DEF IInv
    <2> QED BY <1>1, <2>3 DEF flags
  <1>5. CASE \A r \in Workers : ~Inside(r)
    <2>1. Runner = None /\ Runner' = None
      BY <1>3, <1>5, RunnerNone
    <2> QED BY <1>1, <2>1 DEF flags
  <1> QED BY <1>4, <1>5

\* The flags fleetSync and fleetDirty implement SingleFlight: the room is taken
\* only when it is free, and only its runner takes notes away.
THEOREM FlagsImplementSingleFlight == Spec => ImplementsSingleFlight
  <1>1. Init => SF!Init
    <2> SUFFICES ASSUME Init PROVE SF!Init
      OBVIOUS
    <2>1. \A r \in Workers : ~Inside(r)
      BY DEF Init, Inside, Idle
    <2> QED BY <2>1, RunnerNone DEF Init, SF!Init
  <1>2. IInv /\ IInv' /\ [Next]_vars => [SF!Next]_<<Runner, fleetDirty>>
    <2> SUFFICES ASSUME IInv, IInv', [Next]_vars PROVE [SF!Next]_<<Runner, fleetDirty>>
      OBVIOUS
    <2>1. CASE UNCHANGED vars
      BY <2>1 DEF vars, flags, Runner, Inside
    <2>2. CASE Next
      BY <2>2, RunnerStep, RunnerUnchanged DEF Next
    <2> QED BY <2>1, <2>2
  <1> QED BY <1>1, <1>2, FleetInvariant, PTL DEF Spec, ImplementsSingleFlight, SF!Spec

-----------------------------------------------------------------------------
(* FleetRecovery: the removed bots are recovered. A bot that is neither in *)
(* the room nor invited always has somebody to see to it: an operation or  *)
(* a request that leads to a reconciliation, a reconciliation that has yet *)
(* to read the view, or one that has the bot on its list. The view can     *)
(* hide the bot only while the operation that corrects the view is under   *)
(* way, and a reconciliation can give the bot up only when a protector it  *)
(* counted on was removed, which brought a request of its own.             *)

\* A reconciliation will be asked for, or was and is noted.
Request == ops # {} \/ fleetDirty \/ \E r \in Workers : rec[r].pc = "start"

\* The bots whose removal or cancellation some handler has yet to observe.
Unobserved == {op.target : op \in {o \in ops : o.phase = "observe"}}

Listed(r, b) ==
    \/ rec[r].pc \in {"candidates", "missing"}
    \/ rec[r].pc = "invite" /\ b \in rec[r].todo
    \/ rec[r].pc = "mark" /\ b \in rec[r].todo \ {Target(r)}

SeenTo ==
    /\ member \ real \subseteq Unobserved /\ pending \ invited \subseteq Unobserved
    /\ \A r \in Workers :
         /\ rec[r].pc \in {"missing", "invite", "mark"} =>
              rec[r].ranked # {} /\ (rec[r].ranked \subseteq real \/ Request)
         /\ rec[r].tried # {} => rec[r].pc \in {"invite", "mark"} /\ Request
    /\ \A b \in Primaries \ (real \cup invited) : Request \/ \E r \in Workers : Listed(r, b)

RecoveryInv == cause = "none" /\ faults = 0 => SeenTo

LEMMA UnobservedIsRequest == Unobserved # {} => Request
  BY DEF Unobserved, Request

\* What users, the server and the handlers do.
LEMMA RoomSeesTo ==
    ASSUME IInv, SeenTo, Environment \/ Handle, member' # {}, ~LateMember, faults' = 0
    PROVE  SeenTo'
  <1>1. rec \in [Workers -> Goroutine] /\ ops \subseteq Ops /\ faults \in Nat
    BY FleetAssumption DEF IInv, TypeOK
  <1>2. UNCHANGED rec \/ Spawn
    BY DEF Environment, Handle, Kicked, Cancelled, Observe, Dispatch, Accept, AcceptFails,
           SetMember, PendingExpires
  <1>3. \A r \in Workers : /\ rec[r].pc # "idle" => rec'[r] = rec[r]
                           /\ rec'[r].tried = rec[r].tried
                           /\ rec'[r].pc \notin {"idle", "start"} => rec'[r] = rec[r]
    BY <1>1, <1>2 DEF Spawn, Goto, Goroutine
  <1>4. ASSUME Request PROVE Request'
    <2>1. UNCHANGED fleetDirty
      BY DEF Environment, Handle, Kicked, Cancelled, Observe, Dispatch, Accept, AcceptFails,
             SetMember, PendingExpires, flags
    <2>2. CASE fleetDirty \/ \E r \in Workers : rec[r].pc = "start"
      BY <1>3, <2>1, <2>2 DEF Request
    <2>3. CASE ops # {}
      <3>1. ASSUME NEW op \in ops, Dispatch(op) PROVE Request'
        <4>1. Spawn
          BY <3>1 DEF Dispatch, view
        <4>2. \E r \in Workers : rec'[r].pc = "start"
          BY <1>1, <4>1 DEF Spawn, Goto, Goroutine
        <4> QED BY <4>2 DEF Request
      <3>2. ASSUME NEW op \in ops, Observe(op) PROVE ops' # {}
        BY <3>2 DEF Observe
      <3>3. ASSUME Environment PROVE ops' # {}
        BY <2>3, <3>3 DEF Environment, Kicked, Cancelled, Accept, AcceptFails, SetMember, PendingExpires
      <3> QED BY <3>1, <3>2, <3>3 DEF Handle, Request
    <2> QED BY <1>4, <2>2, <2>3 DEF Request
  <1>5. ASSUME NEW b \in Primaries, Kicked(b)
        PROVE  /\ ops' # {} /\ ops \subseteq ops' /\ b \in Unobserved'
               /\ real \subseteq real' \cup {b} /\ UNCHANGED <<invited, view>>
    <2>1. b \in real /\ real' = real \ {b} /\ UNCHANGED <<invited, view>>
      BY <1>5 DEF Kicked
    <2>2. PICK id \in FreshIds :
            ops' = ops \cup [id : {id}, kind : {"kick"}, handler : real, target : {b}, phase : {"observe"}]
      BY <1>5 DEF Kicked
    <2> DEFINE op == [id |-> id, kind |-> "kick", handler |-> b, target |-> b, phase |-> "observe"]
    <2>3. op \in ops' /\ op.phase = "observe" /\ op.target = b
      BY <2>1, <2>2
    <2>4. b \in Unobserved'
      BY <2>3 DEF Unobserved
    <2> QED BY <2>1, <2>2, <2>3, <2>4
  <1>6. ASSUME NEW b \in Primaries, NEW h \in Primaries, Cancelled(b, h)
        PROVE  /\ ops' # {} /\ ops \subseteq ops' /\ b \in Unobserved'
               /\ invited \subseteq invited' \cup {b} /\ UNCHANGED <<real, view>>
    <2>1. invited' = invited \ {b} /\ UNCHANGED <<real, view>>
      BY <1>6 DEF Cancelled
    <2>2. PICK id \in FreshIds :
            ops' = ops \cup {[id |-> id, kind |-> "cancel", handler |-> h, target |-> b, phase |-> "observe"]}
      BY <1>6 DEF Cancelled
    <2> DEFINE op == [id |-> id, kind |-> "cancel", handler |-> h, target |-> b, phase |-> "observe"]
    <2>3. op \in ops' /\ op.phase = "observe" /\ op.target = b
      BY <2>2
    <2>4. b \in Unobserved'
      BY <2>3 DEF Unobserved
    <2> QED BY <2>1, <2>2, <2>3, <2>4
  <1>7. ASSUME ops \subseteq ops' PROVE Unobserved \subseteq Unobserved'
    BY <1>7 DEF Unobserved
  <1>8. ASSUME NEW op \in ops, Observe(op)
        PROVE  /\ Unobserved \subseteq Unobserved' \cup {op.target}
               /\ member' = member \ {op.target} /\ pending' = pending \ {op.target}
               /\ UNCHANGED <<real, invited>>
    BY <1>8 DEF Observe, Unobserved, room
  <1>9. ASSUME NEW op \in ops, Dispatch(op)
        PROVE  Unobserved' = Unobserved /\ UNCHANGED <<real, invited, view>>
    BY <1>9 DEF Dispatch, Unobserved, room
  <1>10. ASSUME NEW b \in Primaries, Accept(b) \/ AcceptFails(b) \/ SetMember(b) \/ PendingExpires(b)
         PROVE  /\ UNCHANGED ops
                /\ real \subseteq real' /\ real \cup invited \subseteq real' \cup invited'
                /\ member' \ real' \subseteq member \ real
                /\ pending' \ invited' \subseteq pending \ invited
    <2>1. ~AcceptFails(b)
      BY <1>1 DEF AcceptFails
    <2> QED BY <1>10, <2>1 DEF Accept, SetMember, PendingExpires, LateMember, view, room
  <1>11. (member \ real \subseteq Unobserved /\ pending \ invited \subseteq Unobserved)'
    BY <1>5, <1>6, <1>7, <1>8, <1>9, <1>10 DEF Environment, Handle, SeenTo, view
  <1>12. Request' \/ (real \subseteq real' /\ real \cup invited \subseteq real' \cup invited')
    BY <1>5, <1>6, <1>8, <1>9, <1>10 DEF Environment, Handle, Request
  <1>13. (\A r \in Workers :
            /\ rec[r].pc \in {"missing", "invite", "mark"} =>
                 rec[r].ranked # {} /\ (rec[r].ranked \subseteq real \/ Request)
            /\ rec[r].tried # {} => rec[r].pc \in {"invite", "mark"} /\ Request)'
    BY <1>3, <1>4, <1>12 DEF SeenTo
  <1>14. ASSUME NEW b \in Primaries, b \notin real' \cup invited', ~Request'
         PROVE  \E r \in Workers : Listed(r, b)'
    <2>1. PICK r \in Workers : Listed(r, b)
      BY <1>4, <1>12, <1>14 DEF SeenTo
    <2>2. rec'[r] = rec[r]
      BY <1>3, <2>1 DEF Listed
    <2> QED BY <2>1, <2>2 DEF Listed, Target
  <1> QED BY <1>11, <1>13, <1>14 DEF SeenTo

\* What the reconciliations do.
LEMMA WorkerSeesTo ==
    ASSUME IInv, SeenTo, NEW r \in Workers, Step(r),
           member' # {}, ~StaleMark, ~LostNote, faults' = 0
    PROVE  SeenTo'
  <1>1. rec \in [Workers -> Goroutine] /\ faults \in Nat
    BY FleetAssumption DEF IInv, TypeOK
  <1>2. \A s \in Workers \ {r} : rec'[s] = rec[s]
    BY <1>1 DEF Step, Enter, FindCandidates, FindMissing, Invite, InviteNotMember, InviteFails, GiveUp,
                MarkPending, CheckDirty, Exit, Goto
  <1>3. UNCHANGED <<ops, real>>
    BY DEF Step, Enter, FindCandidates, FindMissing, Invite, InviteNotMember, InviteFails, GiveUp,
           MarkPending, CheckDirty, Exit, Inviting, room
  <1>4. Unobserved' = Unobserved
    BY <1>3 DEF Unobserved
  <1>5. Inside(r) \/ (Enter(r) /\ ~fleetSync) => \A s \in Workers \ {r} : ~Inside(s)
    BY DEF IInv, OneReconciler
  <1>6. \A s \in Workers : ~Inside(s) => rec[s].tried = {} /\ \A b : ~Listed(s, b)
    BY DEF SeenTo, Inside, Listed
  <1>7. CASE Enter(r) /\ fleetSync
    <2>1. /\ fleetDirty' = TRUE /\ rec'[r] = Idle /\ UNCHANGED <<member, pending, invited>>
      BY <1>1, <1>7 DEF Enter, view, room
    <2>2. Request'
      BY <2>1 DEF Request
    <2> QED BY <1>2, <1>3, <1>4, <2>1, <2>2 DEF SeenTo, Idle
  <1>8. CASE Enter(r) /\ ~fleetSync
    <2>1. /\ rec'[r] = [rec[r] EXCEPT !.pc = "candidates"] /\ rec[r].pc = "start"
          /\ UNCHANGED <<member, pending, invited>>
      BY <1>1, <1>8 DEF Enter, Goto, view, room
    <2>2. rec'[r].pc = "candidates" /\ rec'[r].tried = {}
      BY <1>1, <1>6, <2>1 DEF Inside, Goroutine
    <2>3. \A s \in Workers \ {r} : /\ rec'[s].pc \in {"idle", "start"} /\ rec'[s].tried = {}
      BY <1>2, <1>5, <1>6, <1>8 DEF Inside
    <2>4. \A b : Listed(r, b)'
      BY <2>2 DEF Listed
    <2> QED BY <1>3, <1>4, <2>1, <2>2, <2>3, <2>4 DEF SeenTo
  <1>9. CASE FindCandidates(r)
    <2>1. /\ rec'[r] = [rec[r] EXCEPT !.pc = "missing", !.ranked = member] /\ rec[r].pc = "candidates"
          /\ UNCHANGED <<member, pending, invited>> /\ member # {}
      BY <1>1, <1>9 DEF FindCandidates, Goto, view, room
    <2>2. rec'[r].pc = "missing" /\ rec'[r].ranked = member /\ rec'[r].tried = {}
      BY <1>1, <2>1 DEF Goroutine, SeenTo
    <2>3. member \subseteq real \/ Request'
      BY <1>3 DEF SeenTo, Unobserved, Request
    <2>4. \A s \in Workers \ {r} : /\ rec'[s].pc \in {"idle", "start"} /\ rec'[s].tried = {}
      BY <1>2, <1>5, <1>6, <2>1 DEF Inside
    <2>5. \A b : Listed(r, b)'
      BY <2>2 DEF Listed
    <2> QED BY <1>3, <1>4, <2>1, <2>2, <2>3, <2>4, <2>5 DEF SeenTo
  <1>10. ASSUME Inside(r), Inside(r)', UNCHANGED fleetDirty
         PROVE  /\ Request' <=> Request
                /\ \A s \in Workers \ {r} : /\ rec'[s].pc \in {"idle", "start"} /\ rec'[s].tried = {}
                                            /\ \A b : ~Listed(s, b)
    <2>1. Request' <=> Request
      BY <1>2, <1>3, <1>10 DEF Request, Inside
    <2> QED BY <1>2, <1>5, <1>6, <1>10, <2>1 DEF Inside
  <1>11. CASE FindMissing(r)
    <2>1. /\ rec'[r] = [rec[r] EXCEPT !.pc = "invite", !.todo = Primaries \ (member \cup pending)]
          /\ rec[r].pc = "missing" /\ UNCHANGED <<member, pending, invited, fleetDirty>>
      BY <1>1, <1>11 DEF FindMissing, view, room, flags
    <2>2. /\ rec'[r].pc = "invite" /\ rec'[r].ranked = rec[r].ranked /\ rec'[r].tried = {}
          /\ rec'[r].todo = Primaries \ (member \cup pending)
      BY <1>1, <2>1 DEF Goroutine, SeenTo
    <2>3. Inside(r) /\ Inside(r)'
      BY <2>1, <2>2 DEF Inside
    <2>4. ASSUME NEW b \in Primaries, b \notin real \cup invited
          PROVE  Request \/ Listed(r, b)'
      BY <2>2, <2>4, UnobservedIsRequest DEF SeenTo, Listed
    <2>5. (member \ real \subseteq Unobserved /\ pending \ invited \subseteq Unobserved)'
      BY <1>3, <1>4, <2>1 DEF SeenTo
    <2>6. (\A s \in Workers :
              /\ rec[s].pc \in {"missing", "invite", "mark"} =>
                   rec[s].ranked # {} /\ (rec[s].ranked \subseteq real \/ Request)
              /\ rec[s].tried # {} => rec[s].pc \in {"invite", "mark"} /\ Request)'
      <3>1. /\ rec'[r].ranked # {} /\ (rec'[r].ranked \subseteq real' \/ Request')
            /\ rec'[r].tried # {} => Request'
        BY <1>3, <1>10, <2>1, <2>2, <2>3 DEF SeenTo
      <3> QED BY <1>10, <2>1, <2>2, <2>3, <3>1
    <2>7. (\A b \in Primaries \ (real \cup invited) : Request \/ \E s \in Workers : Listed(s, b))'
      BY <1>3, <1>10, <2>1, <2>3, <2>4
    <2> QED BY <2>5, <2>6, <2>7 DEF SeenTo
  <1>12. ASSUME NEW p \in Primaries, Invite(r, p) PROVE SeenTo'
    <2>1. /\ rec'[r] = [rec[r] EXCEPT !.pc = "mark"] /\ rec[r].pc = "invite" /\ rec[r].todo # {}
          /\ UNCHANGED <<member, pending, fleetDirty>>
          /\ invited' = invited \cup ({Target(r)} \ real)
      BY <1>1, <1>12 DEF Invite, Inviting, Goto, view, flags
    <2>2. /\ rec'[r].pc = "mark" /\ rec'[r].ranked = rec[r].ranked /\ rec'[r].tried = rec[r].tried
          /\ rec'[r].todo = rec[r].todo
      BY <1>1, <2>1 DEF Goroutine
    <2>3. Inside(r) /\ Inside(r)' /\ Target(r)' = Target(r)
      BY <2>1, <2>2 DEF Inside, Target
    <2>4. ASSUME NEW b \in Primaries, b \notin real' \cup invited'
          PROVE  Request \/ Listed(r, b)'
      <3>1. b \notin real \cup invited /\ b # Target(r)
        BY <1>3, <2>1, <2>4
      <3>2. Request \/ Listed(r, b)
        BY <1>10, <2>1, <2>3, <3>1 DEF SeenTo
      <3> QED BY <2>1, <2>2, <2>3, <3>1, <3>2 DEF Listed
    <2>5. (member \ real \subseteq Unobserved /\ pending \ invited \subseteq Unobserved)'
      BY <1>3, <1>4, <2>1 DEF SeenTo
    <2>6. (\A s \in Workers :
              /\ rec[s].pc \in {"missing", "invite", "mark"} =>
                   rec[s].ranked # {} /\ (rec[s].ranked \subseteq real \/ Request)
              /\ rec[s].tried # {} => rec[s].pc \in {"invite", "mark"} /\ Request)'
      <3>1. /\ rec'[r].ranked # {} /\ (rec'[r].ranked \subseteq real' \/ Request')
            /\ rec'[r].tried # {} => Request'
        BY <1>3, <1>10, <2>1, <2>2, <2>3 DEF SeenTo
      <3> QED BY <1>10, <2>1, <2>2, <2>3, <3>1
    <2>7. (\A b \in Primaries \ (real \cup invited) : Request \/ \E s \in Workers : Listed(s, b))'
      BY <1>3, <1>10, <2>1, <2>3, <2>4
    <2> QED BY <2>5, <2>6, <2>7 DEF SeenTo
  <1>13. ASSUME NEW p \in Primaries, InviteNotMember(r, p) PROVE SeenTo'
    <2>1. /\ rec'[r] = [rec[r] EXCEPT !.tried = @ \cup {p}] /\ rec[r].pc = "invite"
          /\ member' = member \ {p} /\ UNCHANGED <<pending, invited, fleetDirty>>
          /\ p \in rec[r].ranked /\ p \notin real
      BY <1>1, <1>13 DEF InviteNotMember, Inviting, Protectors, room, flags
    <2>2. /\ rec'[r].pc = "invite" /\ rec'[r].ranked = rec[r].ranked /\ rec'[r].todo = rec[r].todo
      BY <1>1, <2>1 DEF Goroutine
    <2>3. Inside(r) /\ Inside(r)'
      BY <2>1, <2>2 DEF Inside
    <2>4. Request /\ Request'
      BY <1>10, <2>1, <2>3 DEF SeenTo
    <2>5. (member \ real \subseteq Unobserved /\ pending \ invited \subseteq Unobserved)'
      BY <1>3, <1>4, <2>1 DEF SeenTo
    <2>6. (\A s \in Workers :
              /\ rec[s].pc \in {"missing", "invite", "mark"} =>
                   rec[s].ranked # {} /\ (rec[s].ranked \subseteq real \/ Request)
              /\ rec[s].tried # {} => rec[s].pc \in {"invite", "mark"} /\ Request)'
      BY <1>3, <1>4, <1>10, <2>1, <2>2, <2>3, <2>4 DEF SeenTo
    <2>7. (\A b \in Primaries \ (real \cup invited) : Request \/ \E s \in Workers : Listed(s, b))'
      BY <1>3, <1>10, <2>1, <2>3, <2>4
    <2> QED BY <2>5, <2>6, <2>7 DEF SeenTo
  <1>14. ASSUME NEW p \in Primaries PROVE ~InviteFails(r, p)
    BY <1>1 DEF InviteFails
  <1>15. CASE GiveUp(r)
    <2>1. /\ rec'[r] = [rec[r] EXCEPT !.todo = @ \ {Target(r)}, !.tried = {}] /\ rec[r].pc = "invite"
          /\ UNCHANGED <<member, pending, invited, fleetDirty>>
          /\ rec[r].ranked \subseteq rec[r].tried \cup {Target(r)}
      BY <1>1, <1>15 DEF GiveUp, Inviting, Protectors, view, room, flags
    <2>2. /\ rec'[r].pc = "invite" /\ rec'[r].ranked = rec[r].ranked /\ rec'[r].tried = {}
          /\ rec'[r].todo = rec[r].todo \ {Target(r)}
      BY <1>1, <2>1 DEF Goroutine
    <2>3. Inside(r) /\ Inside(r)'
      BY <2>1, <2>2 DEF Inside
    <2>4. ASSUME NEW b \in Primaries, b \notin real \cup invited
          PROVE  Request \/ Listed(r, b)'
      <3>1. Request \/ b \in rec[r].todo
        BY <1>10, <2>1, <2>3, <2>4 DEF SeenTo, Listed
      <3>2. ASSUME b = Target(r) PROVE Request
        <4>1. CASE rec[r].tried # {}
          BY <4>1 DEF SeenTo
        <4>2. CASE rec[r].tried = {}
          BY <2>1, <2>4, <3>2, <4>2 DEF SeenTo
        <4> QED BY <4>1, <4>2
      <3> QED BY <2>2, <3>1, <3>2 DEF Listed
    <2>5. (member \ real \subseteq Unobserved /\ pending \ invited \subseteq Unobserved)'
      BY <1>3, <1>4, <2>1 DEF SeenTo
    <2>6. (\A s \in Workers :
              /\ rec[s].pc \in {"missing", "invite", "mark"} =>
                   rec[s].ranked # {} /\ (rec[s].ranked \subseteq real \/ Request)
              /\ rec[s].tried # {} => rec[s].pc \in {"invite", "mark"} /\ Request)'
      <3>1. /\ rec'[r].ranked # {} /\ (rec'[r].ranked \subseteq real' \/ Request')
            /\ rec'[r].tried # {} => Request'
        BY <1>3, <1>10, <2>1, <2>2, <2>3 DEF SeenTo
      <3> QED BY <1>10, <2>1, <2>2, <2>3, <3>1
    <2>7. (\A b \in Primaries \ (real \cup invited) : Request \/ \E s \in Workers : Listed(s, b))'
      BY <1>3, <1>10, <2>1, <2>3, <2>4
    <2> QED BY <2>5, <2>6, <2>7 DEF SeenTo
  <1>16. CASE MarkPending(r)
    <2>1. /\ rec'[r] = [rec[r] EXCEPT !.pc = "invite", !.todo = @ \ {Target(r)}, !.tried = {}]
          /\ rec[r].pc = "mark" /\ UNCHANGED <<member, invited, fleetDirty>>
          /\ pending' \ pending \subseteq invited
      BY <1>1, <1>16 DEF MarkPending, StaleMark, room, flags
    <2>2. /\ rec'[r].pc = "invite" /\ rec'[r].ranked = rec[r].ranked /\ rec'[r].tried = {}
          /\ rec'[r].todo = rec[r].todo \ {Target(r)}
      BY <1>1, <2>1 DEF Goroutine
    <2>3. Inside(r) /\ Inside(r)'
      BY <2>1, <2>2 DEF Inside
    <2>4. ASSUME NEW b \in Primaries, b \notin real \cup invited
          PROVE  Request \/ Listed(r, b)'
      BY <1>10, <2>1, <2>2, <2>3, <2>4 DEF SeenTo, Listed
    <2>5. (member \ real \subseteq Unobserved /\ pending \ invited \subseteq Unobserved)'
      BY <1>3, <1>4, <2>1 DEF SeenTo
    <2>6. (\A s \in Workers :
              /\ rec[s].pc \in {"missing", "invite", "mark"} =>
                   rec[s].ranked # {} /\ (rec[s].ranked \subseteq real \/ Request)
              /\ rec[s].tried # {} => rec[s].pc \in {"invite", "mark"} /\ Request)'
      <3>1. /\ rec'[r].ranked # {} /\ (rec'[r].ranked \subseteq real' \/ Request')
            /\ rec'[r].tried # {} => Request'
        BY <1>3, <1>10, <2>1, <2>2, <2>3 DEF SeenTo
      <3> QED BY <1>10, <2>1, <2>2, <2>3, <3>1
    <2>7. (\A b \in Primaries \ (real \cup invited) : Request \/ \E s \in Workers : Listed(s, b))'
      BY <1>3, <1>10, <2>1, <2>3, <2>4
    <2> QED BY <2>5, <2>6, <2>7 DEF SeenTo
  <1>17. CASE CheckDirty(r)
    <2>1. /\ rec'[r].pc \in {"candidates", "exit"} /\ rec'[r].tried = {} /\ rec[r].pc = "invite"
          /\ rec[r].todo = {} /\ UNCHANGED <<member, pending, invited, fleetDirty>>
      BY <1>1, <1>17 DEF CheckDirty, Idle, view, room, flags
    <2>2. Inside(r) /\ Inside(r)'
      BY <2>1 DEF Inside
    <2>3. ASSUME NEW b \in Primaries, b \notin real \cup invited
          PROVE  Request
      BY <1>10, <2>1, <2>2, <2>3 DEF SeenTo, Listed
    <2> QED BY <1>3, <1>4, <1>10, <2>1, <2>2, <2>3 DEF SeenTo
  <1>18. CASE Exit(r)
    <2>1. /\ rec'[r].pc = "idle" /\ rec'[r].tried = {} /\ rec[r].pc = "exit" /\ UNCHANGED <<member, pending, invited>>
          /\ ~fleetDirty
      BY <1>1, <1>18 DEF Exit, LostNote, Idle, view, room
    <2>2. \A s \in Workers \ {r} : /\ rec'[s].pc \in {"idle", "start"} /\ rec'[s].tried = {}
                                   /\ \A b : ~Listed(s, b)
      BY <1>2, <1>5, <1>6, <2>1 DEF Inside
    <2>3. Request => Request'
      BY <1>2, <1>3, <2>1 DEF Request
    <2>4. ASSUME NEW b \in Primaries, b \notin real \cup invited
          PROVE  Request
      BY <2>1, <2>2, <2>4 DEF SeenTo, Listed
    <2>5. (member \ real \subseteq Unobserved /\ pending \ invited \subseteq Unobserved)'
      BY <1>3, <1>4, <2>1 DEF SeenTo
    <2>6. (\A s \in Workers :
              /\ rec[s].pc \in {"missing", "invite", "mark"} =>
                   rec[s].ranked # {} /\ (rec[s].ranked \subseteq real \/ Request)
              /\ rec[s].tried # {} => rec[s].pc \in {"invite", "mark"} /\ Request)'
      BY <2>1, <2>2
    <2> QED BY <1>3, <2>1, <2>3, <2>4, <2>5, <2>6 DEF SeenTo
  <1> QED BY <1>7, <1>8, <1>9, <1>11, <1>12, <1>13, <1>14, <1>15, <1>16, <1>17, <1>18 DEF Step

\* The history watches the steps of FleetReconcile and restricts none, so all
\* that was proved of them holds of it.
THEOREM RecoveryReconciles == RecoverySpec => Spec
  <1>1. RecoveryInit => Init
    BY DEF RecoveryInit
  <1>2. [Next /\ Recorded]_<<vars, cause>> => [Next]_vars
    OBVIOUS
  <1> QED BY <1>1, <1>2, PTL DEF RecoverySpec, Spec

\* As long as no note, mark or membership was lost in one of the four ways
\* FleetRecovery names and calls succeed, every missing bot is seen to.
THEOREM MissingIsSeenTo == RecoverySpec => []RecoveryInv
  <1>1. RecoveryInit => RecoveryInv
    <2> SUFFICES ASSUME Init PROVE SeenTo
      BY DEF RecoveryInit, RecoveryInv
    <2> QED BY DEF Init, SeenTo, Idle
  <1>2. IInv /\ RecoveryInv /\ [Next /\ Recorded]_<<vars, cause>> => RecoveryInv'
    <2> SUFFICES ASSUME IInv, RecoveryInv, [Next /\ Recorded]_<<vars, cause>>,
                        cause' = "none", faults' = 0
                 PROVE  SeenTo'
      BY DEF RecoveryInv
    <2>1. CASE UNCHANGED <<vars, cause>>
      BY <2>1 DEF vars, room, view, flags, RecoveryInv, SeenTo, Request, Unobserved, Listed, Target
    <2>2. CASE Next /\ Recorded
      <3>1. cause = "none" /\ member' # {} /\ ~StaleMark /\ ~LateMember /\ ~LostNote
        BY <2>2 DEF Recorded, NobodyLeft
      <3>2. faults = 0
        <4>1. faults \in Nat
          BY FleetAssumption DEF IInv, TypeOK
        <4>2. faults' = faults \/ faults' = faults + 1
          BY <2>2 DEF Next, Environment, Handle, Step, Kicked, Cancelled, Observe, Dispatch, Accept,
                      AcceptFails, SetMember, PendingExpires, Enter, FindCandidates, FindMissing, Invite,
                      InviteNotMember, InviteFails, GiveUp, MarkPending, CheckDirty, Exit
        <4> QED BY <4>1, <4>2
      <3> QED BY <2>2, <3>1, <3>2, RoomSeesTo, WorkerSeesTo DEF RecoveryInv, Next
    <2> QED BY <2>1, <2>2
  <1> QED BY <1>1, <1>2, RecoveryReconciles, FleetInvariant, PTL DEF RecoverySpec

\* No interleaving of removals, cancellations, acceptances, their handlers and
\* the reconciliations forgets a removed bot (handleKick, handleCancellation,
\* reconcilePrimaryFleet), apart from the four causes.
THEOREM RemovedAreRecovered == RecoverySpec => []OtherwiseRecovered
  <1>1. IInv /\ RecoveryInv => OtherwiseRecovered
    <2> SUFFICES ASSUME IInv, RecoveryInv, Quiet, cause = "none", faults = 0
                 PROVE  Recovered
      BY DEF OtherwiseRecovered, Settled
    <2>1. \A r \in Workers : ~Inside(r)
      BY DEF Quiet, Inside
    <2>2. ~fleetDirty
      BY <2>1 DEF IInv, OneReconciler, NoteOnlyInside
    <2>3. ~Request /\ \A r \in Workers, b \in Primaries : ~Listed(r, b)
      BY <2>2 DEF Quiet, Request, Listed
    <2> QED BY <2>3 DEF RecoveryInv, SeenTo, Recovered
  <1> QED BY <1>1, MissingIsSeenTo, RecoveryReconciles, FleetInvariant, PTL
=============================================================================
