-------------------------- MODULE GuardStoreProofs --------------------------
(***************************************************************************)
(* The theorems of GuardStore, for any number of users, bots, rooms and    *)
(* failing writes and for any state file the process is started on.        *)
(*                                                                         *)
(* RolesExclusive and ProtectedNotBlacklisted say together that the state  *)
(* in memory is clean: normalizeLocked would not change it. The two lemmas *)
(* on Normalize reduce every action to one question, whether the state it  *)
(* commits is clean and keeps a Creator, which CommitStep then answers for *)
(* both outcomes of the save.                                              *)
(***************************************************************************)
EXTENDS GuardStore, TLAPS

\* What normalizeLocked establishes, of any state.
Clean(s) ==
    /\ s.creators \cap s.owners = {}
    /\ s.admins \cap (s.creators \cup s.owners) = {}
    /\ s.blacklist \cap Protected(s) = {}
    /\ \A g \in Groups : s.gadmins[g] \cap Protected(s) = {}

\* The inductive invariant.
IInv ==
    /\ TypeOK
    /\ Clean(mem)
    /\ RestartKeepsState
    /\ disk.creators # {} => mem.creators # {}

\* normalizeLocked returns a clean state with the same Creators and bots.
LEMMA NormalizeCleans ==
    ASSUME NEW s \in State
    PROVE  /\ Normalize(s) \in State
           /\ Clean(Normalize(s))
           /\ Normalize(s).creators = s.creators
  <1>1. /\ s.creators \subseteq MIDs /\ s.owners \subseteq MIDs
        /\ s.admins \subseteq MIDs /\ s.blacklist \subseteq MIDs
        /\ s.bots \subseteq MIDs /\ s.gadmins \in [Groups -> SUBSET MIDs]
    BY DEF State
  <1>2. Normalize(s) \in State
    BY <1>1 DEF Normalize, State
  <1>3. Normalize(s).creators = s.creators
    BY DEF Normalize
  <1>4. Clean(Normalize(s))
    BY <1>1 DEF Clean, Normalize, Protected
  <1> QED BY <1>2, <1>3, <1>4

\* normalizeLocked leaves a clean state alone, so loading what was saved
\* gives back what was in memory.
LEMMA NormalizeFixesClean ==
    ASSUME NEW s \in State, Clean(s)
    PROVE  Normalize(s) = s
  <1>1. s = [creators |-> s.creators, owners |-> s.owners, admins |-> s.admins,
             blacklist |-> s.blacklist, bots |-> s.bots, gadmins |-> s.gadmins]
    BY DEF State
  <1>2. /\ s.owners \ s.creators = s.owners
        /\ s.admins \ (s.owners \cup s.creators) = s.admins
        /\ s.blacklist \ Protected(s) = s.blacklist
    BY DEF Clean
  <1>3. s.gadmins = [g \in Groups |-> s.gadmins[g] \ Protected(s)]
    <2>1. s.gadmins \in [Groups -> SUBSET MIDs]
      BY DEF State
    <2>2. \A g \in Groups : s.gadmins[g] \ Protected(s) = s.gadmins[g]
      BY DEF Clean
    <2> QED BY <2>1, <2>2
  <1> QED BY <1>1, <1>2, <1>3 DEF Normalize, Protected

\* Whatever becomes of the save, committing a clean state that keeps a
\* Creator preserves the invariant.
LEMMA CommitStep ==
    ASSUME IInv, NEW s \in State, Clean(s), Commit(s),
           mem.creators # {} => s.creators # {}
    PROVE  IInv'
  <1>1. Normalize(s) = s
    BY NormalizeFixesClean
  <1>2. TypeOK'
    <2>1. (mem \in State /\ disk \in State /\ backup \in SUBSET State)'
      BY DEF IInv, TypeOK, Commit
    <2>2. (failures \in 0..MaxFailures)'
      BY StoreAssumption DEF IInv, TypeOK, Commit
    <2>3. (saved \in BOOLEAN)'
      BY Zenon DEF Commit
    <2> QED BY <2>1, <2>2, <2>3 DEF TypeOK
  <1>3. mem' = s
    BY DEF Commit
  <1>4. Clean(mem)'
    BY <1>3 DEF Clean, Protected
  <1>5. RestartKeepsState'
    BY <1>1, <1>3 DEF RestartKeepsState, Commit
  <1>6. (disk.creators # {} => mem.creators # {})'
    BY <1>3 DEF Commit, IInv
  <1> QED BY <1>2, <1>4, <1>5, <1>6 DEF IInv

\* The same for a state that is normalised before it is committed.
LEMMA CommitNormalizedStep ==
    ASSUME IInv, NEW s \in State, Commit(Normalize(s)),
           mem.creators # {} => s.creators # {}
    PROVE  IInv'
  BY NormalizeCleans, CommitStep

\* The states the role and blacklist commands build are states.
LEMMA ChangedStates ==
    ASSUME mem \in State, NEW m \in MIDs
    PROVE  /\ [mem EXCEPT !.creators = {m}] \in State
           /\ [mem EXCEPT !.creators = @ \cup {m}] \in State
           /\ [mem EXCEPT !.creators = @ \ {m}] \in State
           /\ [mem EXCEPT !.owners = @ \cup {m}] \in State
           /\ [mem EXCEPT !.owners = @ \ {m}] \in State
           /\ [mem EXCEPT !.admins = @ \cup {m}] \in State
           /\ [mem EXCEPT !.admins = @ \ {m}] \in State
           /\ [mem EXCEPT !.bots = @ \cup {m}] \in State
           /\ [mem EXCEPT !.blacklist = @ \cup {m}] \in State
           /\ [mem EXCEPT !.blacklist = @ \ {m}] \in State
           /\ [mem EXCEPT !.blacklist = {}] \in State
           /\ \A g \in Groups :
                /\ [mem EXCEPT !.gadmins[g] = @ \cup {m}] \in State
                /\ [mem EXCEPT !.gadmins[g] = @ \ {m}] \in State
  BY DEF State

\* mutateRole keeps the Creators, whichever list its caller changes.
LEMMA MutateRoleStep ==
    ASSUME IInv, NEW minimum, NEW g, NEW actor, NEW target, NEW changed \in State,
           changed.creators = mem.creators,
           MutateRole(minimum, g, actor, target, changed)
    PROVE  IInv'
  BY CommitNormalizedStep DEF MutateRole

\* Every action preserves the invariant.
LEMMA NextStep ==
    ASSUME IInv, Next
    PROVE  IInv'
  <1> USE DEF IInv, TypeOK
  <1>1. CASE OpenStore
    <2>1. /\ mem' = Normalize(disk) /\ saved' = TRUE
          /\ UNCHANGED <<disk, backup, failures>>
      BY <1>1 DEF OpenStore
    <2>2. /\ Normalize(disk) \in State /\ Clean(Normalize(disk))
          /\ Normalize(disk).creators = disk.creators
      BY NormalizeCleans
    <2>3. TypeOK'
      <3>1. (saved \in BOOLEAN)'
        BY <2>1, Zenon
      <3> QED BY <2>1, <2>2, <3>1
    <2>4. Clean(mem)'
      BY <2>1, <2>2 DEF Clean, Protected
    <2>5. RestartKeepsState'
      BY <2>1 DEF RestartKeepsState
    <2> QED BY <2>1, <2>2, <2>3, <2>4, <2>5
  <1>2. ASSUME NEW m \in MIDs, BootstrapCreator(m)
        PROVE  IInv'
    BY <1>2, ChangedStates, CommitNormalizedStep DEF BootstrapCreator
  <1>3. ASSUME NEW m \in Accounts, RegisterBot(m)
        PROVE  IInv'
    <2>1. m \in MIDs
      BY StoreAssumption
    <2>2. [mem EXCEPT !.bots = @ \cup {m}].creators = mem.creators
      BY DEF State
    <2> QED BY <1>3, <2>1, <2>2, ChangedStates, CommitNormalizedStep DEF RegisterBot
  <1>4. ASSUME NEW actor \in MIDs, NEW target \in MIDs, RoleCommand(actor, target)
        PROVE  IInv'
    <2>1. CASE AddCreator(actor, target)
      <3>1. mem.creators # {} => [mem EXCEPT !.creators = @ \cup {target}].creators # {}
        BY DEF State
      <3> QED BY <2>1, <3>1, ChangedStates, CommitNormalizedStep DEF AddCreator
    <2>2. CASE DelCreator(actor, target)
      <3> DEFINE s == [mem EXCEPT !.creators = @ \ {target}]
      <3>1. s \in State
        BY ChangedStates
      <3>2. actor \in mem.creators
        BY <2>2 DEF DelCreator, Role, RoleUser, RoleGAdmin, RoleAdmin, RoleOwner, RoleCreator
      <3>3. actor \in s.creators
        BY <2>2, <3>2 DEF DelCreator, State
      <3>4. Clean(s)
        BY DEF Clean, Protected, State
      <3>5. Commit(s)
        BY <2>2 DEF DelCreator
      <3> HIDE DEF s
      <3> QED BY <3>1, <3>3, <3>4, <3>5, CommitStep
    <2>3. CASE AddOwner(actor, target)
      BY <2>3, ChangedStates, MutateRoleStep DEF AddOwner, State
    <2>4. CASE DelOwner(actor, target)
      BY <2>4, ChangedStates, MutateRoleStep DEF DelOwner, State
    <2>5. CASE AddAdmin(actor, target)
      BY <2>5, ChangedStates, MutateRoleStep DEF AddAdmin, State
    <2>6. CASE DelAdmin(actor, target)
      BY <2>6, ChangedStates, MutateRoleStep DEF DelAdmin, State
    <2>7. ASSUME NEW g \in Groups, AddGAdmin(g, actor, target)
          PROVE  IInv'
      BY <2>7, ChangedStates, MutateRoleStep DEF AddGAdmin, State
    <2>8. ASSUME NEW g \in Groups, DelGAdmin(g, actor, target)
          PROVE  IInv'
      BY <2>8, ChangedStates, MutateRoleStep DEF DelGAdmin, State
    <2> QED BY <1>4, <2>1, <2>2, <2>3, <2>4, <2>5, <2>6, <2>7, <2>8 DEF RoleCommand
  <1>5. ASSUME NEW g \in Groups, NEW actor \in MIDs, BlacklistCommand(g, actor)
        PROVE  IInv'
    <2>1. ASSUME NEW target \in MIDs, AddBlacklist(g, actor, target)
          PROVE  IInv'
      <3>1. [mem EXCEPT !.blacklist = @ \cup {target}].creators = mem.creators
        BY DEF State
      <3> QED BY <2>1, <3>1, ChangedStates, CommitNormalizedStep DEF AddBlacklist
    <2>2. ASSUME NEW target \in MIDs, Unban(g, actor, target)
          PROVE  IInv'
      <3> DEFINE s == [mem EXCEPT !.blacklist = @ \ {target}]
      <3>1. s \in State /\ s.creators = mem.creators
        BY ChangedStates DEF State
      <3>2. Clean(s)
        BY DEF Clean, Protected, State
      <3>3. Commit(s)
        BY <2>2 DEF Unban
      <3> HIDE DEF s
      <3> QED BY <3>1, <3>2, <3>3, CommitStep
    <2>3. CASE ClearBlacklist(g, actor)
      <3> DEFINE s == [mem EXCEPT !.blacklist = {}]
      <3>1. s \in State /\ s.creators = mem.creators
        BY ChangedStates DEF State
      <3>2. Clean(s)
        BY DEF Clean, Protected, State
      <3>3. Commit(s)
        BY <2>3 DEF ClearBlacklist
      <3> HIDE DEF s
      <3> QED BY <3>1, <3>2, <3>3, CommitStep
    <2> QED BY <1>5, <2>1, <2>2, <2>3 DEF BlacklistCommand
  <1>6. ASSUME NEW g \in Groups, NEW m \in MIDs, AutoBlacklist(g, m)
        PROVE  IInv'
    <2> DEFINE s == [mem EXCEPT !.blacklist = @ \cup {m}]
    <2>1. s \in State /\ s.creators = mem.creators
      BY ChangedStates DEF State
    <2>2. m \notin Protected(mem)
      BY <1>6 DEF AutoBlacklist, Role, Protected, RoleUser, RoleGAdmin, RoleAdmin,
                  RoleOwner, RoleCreator
    <2>3. Clean(s)
      BY <2>2 DEF Clean, Protected, State
    <2>4. Commit(s)
      BY <1>6 DEF AutoBlacklist
    <2> HIDE DEF s
    <2> QED BY <2>1, <2>3, <2>4, CommitStep
  <1>7. ASSUME NEW actor \in MIDs, Backup(actor)
        PROVE  IInv'
    <2>1. UNCHANGED <<mem, disk, saved>>
      BY <1>7 DEF Backup
    <2>2. (backup \in SUBSET State /\ failures \in 0..MaxFailures)'
      BY <1>7, StoreAssumption DEF Backup
    <2> QED BY <2>1, <2>2 DEF Clean, Protected, RestartKeepsState
  <1>8. ASSUME NEW actor \in MIDs, Restore(actor)
        PROVE  IInv'
    BY <1>8, CommitNormalizedStep DEF Restore
  <1> QED BY <1>1, <1>2, <1>3, <1>4, <1>5, <1>6, <1>7, <1>8 DEF Next

\* IInv is an invariant of the role store.
THEOREM StoreInvariant == Spec => []IInv
  <1>1. Init => IInv
    <2> SUFFICES ASSUME Init PROVE IInv
      OBVIOUS
    <2>1. disk \in State /\ mem = Normalize(disk) /\ saved = TRUE
      BY StoreAssumption DEF Init
    <2>2. /\ Normalize(disk) \in State /\ Clean(Normalize(disk))
          /\ Normalize(disk).creators = disk.creators
      BY <2>1, NormalizeCleans
    <2>3. saved \in BOOLEAN
      BY <2>1, Zenon
    <2>4. TypeOK
      BY <2>1, <2>2, <2>3, StoreAssumption DEF Init, TypeOK
    <2>5. RestartKeepsState
      BY <2>1 DEF RestartKeepsState
    <2> QED BY <2>1, <2>2, <2>4, <2>5 DEF IInv
  <1>2. IInv /\ [Next]_vars => IInv'
    <2>1. ASSUME IInv, UNCHANGED vars
          PROVE  IInv'
      BY <2>1 DEF vars, IInv, TypeOK, Clean, Protected, RestartKeepsState
    <2> QED BY <2>1, NextStep
  <1> QED BY <1>1, <1>2, PTL DEF Spec

\* The lists hold MIDs only, whatever the file the process starts on.
THEOREM TypeCorrect == Spec => []TypeOK
  <1>1. IInv => TypeOK
    BY DEF IInv
  <1> QED BY <1>1, StoreInvariant, PTL

\* No MID ever holds two roles.
THEOREM RolesStayExclusive == Spec => []RolesExclusive
  <1>1. IInv => RolesExclusive
    BY DEF IInv, Clean, RolesExclusive
  <1> QED BY <1>1, StoreInvariant, PTL

\* No bot, Creator, Owner or Admin is ever blacklisted.
THEOREM ProtectedNeverBlacklisted == Spec => []ProtectedNotBlacklisted
  <1>1. IInv => ProtectedNotBlacklisted
    BY DEF IInv, Clean, ProtectedNotBlacklisted
  <1> QED BY <1>1, StoreInvariant, PTL

\* Loading the state file after a successful save changes nothing.
THEOREM RestartIsNoOp == Spec => []RestartKeepsState
  <1>1. IInv => RestartKeepsState
    BY DEF IInv
  <1> QED BY <1>1, StoreInvariant, PTL

\* A committed state keeps a Creator in memory and in the file.
LEMMA CommitKeepsCreator ==
    ASSUME NEW s, Commit(s), s.creators # {}
    PROVE  /\ disk.creators # {} => disk'.creators # {}
           /\ mem'.creators # {}
  BY DEF Commit

\* The state committed by a running process has a Creator if there was one.
LEMMA CreatorStep ==
    ASSUME IInv, Next
    PROVE  /\ disk.creators # {} => disk'.creators # {}
           /\ mem.creators # {} => mem'.creators # {} \/ OpenStore
  <1> USE DEF IInv, TypeOK
  <1>1. CASE OpenStore
    BY <1>1 DEF OpenStore
  <1>2. CASE \E actor \in MIDs : Backup(actor)
    BY <1>2 DEF Backup
  <1>3. CASE ~OpenStore /\ ~\E actor \in MIDs : Backup(actor)
    <2>1. CASE mem.creators = {}
      <3>1. disk.creators = {}
        BY <2>1
      <3> QED BY <2>1, <3>1
    <2>2. CASE mem.creators # {}
      <3>1. PICK s \in State : Commit(s) /\ s.creators # {}
        <4>1. ASSUME NEW s \in State, Commit(Normalize(s)), s.creators # {}
              PROVE  \E t \in State : Commit(t) /\ t.creators # {}
          BY <4>1, NormalizeCleans
        <4>2. ASSUME NEW g, NEW actor, NEW target, NEW minimum, NEW s \in State,
                     s.creators = mem.creators, MutateRole(minimum, g, actor, target, s)
              PROVE  \E t \in State : Commit(t) /\ t.creators # {}
          BY <4>2, <4>1, <2>2 DEF MutateRole
        <4>3. ASSUME NEW m \in Accounts, RegisterBot(m)
              PROVE  \E t \in State : Commit(t) /\ t.creators # {}
          <5>1. m \in MIDs
            BY StoreAssumption
          <5>2. [mem EXCEPT !.bots = @ \cup {m}].creators = mem.creators
            BY DEF State
          <5> QED BY <4>3, <5>1, <5>2, <4>1, <2>2, ChangedStates DEF RegisterBot
        <4>4. ASSUME NEW actor \in MIDs, NEW target \in MIDs, RoleCommand(actor, target)
              PROVE  \E t \in State : Commit(t) /\ t.creators # {}
          <5>1. CASE AddCreator(actor, target)
            <6>1. [mem EXCEPT !.creators = @ \cup {target}].creators # {}
              BY DEF State
            <6> QED BY <5>1, <6>1, <4>1, ChangedStates DEF AddCreator
          <5>2. CASE DelCreator(actor, target)
            <6> DEFINE s == [mem EXCEPT !.creators = @ \ {target}]
            <6>1. actor \in mem.creators /\ actor # target
              BY <5>2 DEF DelCreator, Role, RoleUser, RoleGAdmin, RoleAdmin, RoleOwner,
                          RoleCreator
            <6>2. actor \in s.creators
              BY <6>1 DEF State
            <6> QED BY <5>2, <6>2, ChangedStates DEF DelCreator
          <5>3. CASE AddOwner(actor, target)
            BY <5>3, <4>2, ChangedStates DEF AddOwner, State
          <5>4. CASE DelOwner(actor, target)
            BY <5>4, <4>2, ChangedStates DEF DelOwner, State
          <5>5. CASE AddAdmin(actor, target)
            BY <5>5, <4>2, ChangedStates DEF AddAdmin, State
          <5>6. CASE DelAdmin(actor, target)
            BY <5>6, <4>2, ChangedStates DEF DelAdmin, State
          <5>7. ASSUME NEW g \in Groups, AddGAdmin(g, actor, target)
                PROVE  \E t \in State : Commit(t) /\ t.creators # {}
            BY <5>7, <4>2, ChangedStates DEF AddGAdmin, State
          <5>8. ASSUME NEW g \in Groups, DelGAdmin(g, actor, target)
                PROVE  \E t \in State : Commit(t) /\ t.creators # {}
            BY <5>8, <4>2, ChangedStates DEF DelGAdmin, State
          <5> QED BY <4>4, <5>1, <5>2, <5>3, <5>4, <5>5, <5>6, <5>7, <5>8 DEF RoleCommand
        <4>5. ASSUME NEW g \in Groups, NEW actor \in MIDs, BlacklistCommand(g, actor)
              PROVE  \E t \in State : Commit(t) /\ t.creators # {}
          <5>1. ASSUME NEW target \in MIDs, AddBlacklist(g, actor, target)
                PROVE  \E t \in State : Commit(t) /\ t.creators # {}
            <6>1. [mem EXCEPT !.blacklist = @ \cup {target}].creators = mem.creators
              BY DEF State
            <6> QED BY <5>1, <6>1, <4>1, <2>2, ChangedStates DEF AddBlacklist
          <5>2. ASSUME NEW target \in MIDs, Unban(g, actor, target)
                PROVE  \E t \in State : Commit(t) /\ t.creators # {}
            <6>1. [mem EXCEPT !.blacklist = @ \ {target}].creators = mem.creators
              BY DEF State
            <6> QED BY <5>2, <6>1, <2>2, ChangedStates DEF Unban
          <5>3. CASE ClearBlacklist(g, actor)
            <6>1. [mem EXCEPT !.blacklist = {}].creators = mem.creators
              BY DEF State
            <6> QED BY <5>3, <6>1, <2>2, ChangedStates DEF ClearBlacklist
          <5> QED BY <4>5, <5>1, <5>2, <5>3 DEF BlacklistCommand
        <4>6. ASSUME NEW g \in Groups, NEW m \in MIDs, AutoBlacklist(g, m)
              PROVE  \E t \in State : Commit(t) /\ t.creators # {}
          <5>1. [mem EXCEPT !.blacklist = @ \cup {m}].creators = mem.creators
            BY DEF State
          <5> QED BY <4>6, <5>1, <2>2, ChangedStates DEF AutoBlacklist
        <4>7. ASSUME NEW actor \in MIDs, Restore(actor)
              PROVE  \E t \in State : Commit(t) /\ t.creators # {}
          BY <4>7, <4>1 DEF Restore
        <4> QED BY <1>3, <2>2, <4>3, <4>4, <4>5, <4>6, <4>7 DEF Next, BootstrapCreator
      <3> QED BY <3>1, CommitKeepsCreator
    <2> QED BY <2>1, <2>2
  <1> QED BY <1>1, <1>2, <1>3

\* The last Creator is never lost, in memory or in the state file.
THEOREM CreatorAlwaysSurvives == Spec => CreatorSurvives
  <1>1. IInv /\ [Next]_vars =>
          [/\ disk.creators # {} => disk'.creators # {}
           /\ mem.creators # {} => mem'.creators # {} \/ OpenStore]_vars
    BY CreatorStep DEF vars
  <1> QED BY <1>1, StoreInvariant, PTL DEF Spec, CreatorSurvives

\* What mutateRole commits when one of its six callers adds or deletes a role:
\* the roles of everyone but the target stay, and the target's stays below
\* that of the caller.
LEMMA HierarchyStep ==
    ASSUME IInv, NEW actor \in MIDs, NEW target \in MIDs, RoleCommand(actor, target),
           NEW m \in MIDs, NEW g \in Groups, Role(mem', g, m) # Role(mem, g, m)
    PROVE  /\ m = target /\ m # actor
           /\ \/ actor \in mem.creators
              \/ /\ Role(mem, g, actor) > Role(mem, g, m)
                 /\ Role(mem, g, actor) > Role(mem', g, m)
  <1> USE DEF RoleUser, RoleGAdmin, RoleAdmin, RoleOwner, RoleCreator
  <1>1. mem \in State /\ Clean(mem)
    BY DEF IInv, TypeOK
  <1>2. CASE AddCreator(actor, target)
    BY <1>1, <1>2 DEF AddCreator, Commit, Normalize, Role, Clean, Protected, State
  <1>3. CASE DelCreator(actor, target)
    BY <1>1, <1>3 DEF DelCreator, Commit, Role, Clean, Protected, State
  <1>4. CASE AddOwner(actor, target)
    BY <1>1, <1>4, StoreAssumption DEF AddOwner, MutateRole, Commit, Normalize, Role, Clean, Protected, State
  <1>5. CASE DelOwner(actor, target)
    BY <1>1, <1>5, StoreAssumption DEF DelOwner, MutateRole, Commit, Normalize, Role, Clean, Protected, State
  <1>6. CASE AddAdmin(actor, target)
    BY <1>1, <1>6, StoreAssumption DEF AddAdmin, MutateRole, Commit, Normalize, Role, Clean, Protected, State
  <1>7. CASE DelAdmin(actor, target)
    BY <1>1, <1>7, StoreAssumption DEF DelAdmin, MutateRole, Commit, Normalize, Role, Clean, Protected, State
  <1>8. ASSUME NEW h \in Groups, AddGAdmin(h, actor, target)
        PROVE  /\ m = target /\ m # actor
               /\ \/ actor \in mem.creators
                  \/ /\ Role(mem, g, actor) > Role(mem, g, m)
                     /\ Role(mem, g, actor) > Role(mem', g, m)
    BY <1>1, <1>8 DEF AddGAdmin, MutateRole, Commit, Normalize, Role, Clean, Protected, State
  <1>9. ASSUME NEW h \in Groups, DelGAdmin(h, actor, target)
        PROVE  /\ m = target /\ m # actor
               /\ \/ actor \in mem.creators
                  \/ /\ Role(mem, g, actor) > Role(mem, g, m)
                     /\ Role(mem, g, actor) > Role(mem', g, m)
    BY <1>1, <1>9 DEF DelGAdmin, MutateRole, Commit, Normalize, Role, Clean, Protected, State
  <1> QED BY <1>2, <1>3, <1>4, <1>5, <1>6, <1>7, <1>8, <1>9 DEF RoleCommand

\* No role command lets a MID climb past whoever promotes it.
THEOREM HierarchyAlwaysRespected == Spec => HierarchyRespected
  <1>1. IInv /\ [Next]_vars =>
          [\A m \in MIDs, g \in Groups : Role(mem', g, m) # Role(mem, g, m) =>
             \A actor, target \in MIDs : RoleCommand(actor, target) =>
                /\ m = target /\ m # actor
                /\ \/ actor \in mem.creators
                   \/ /\ Role(mem, g, actor) > Role(mem, g, m)
                      /\ Role(mem, g, actor) > Role(mem', g, m)]_vars
    BY HierarchyStep
  <1> QED BY <1>1, StoreInvariant, PTL DEF Spec, HierarchyRespected

=============================================================================
