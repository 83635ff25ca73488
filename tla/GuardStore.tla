----------------------------- MODULE GuardStore -----------------------------
(***************************************************************************)
(* The role store of the guard engine (guard/store.go): who is Creator,    *)
(* Owner, Admin or GAdmin, who is blacklisted, which accounts are bots.    *)
(* Every exported method of Store is one critical section of an RWMutex,   *)
(* so every method is one action. A mutator changes the state in memory    *)
(* and then saves it: when the save fails the method returns the error and *)
(* memory keeps the change, so memory and the file differ until the next   *)
(* successful save or the next start of the process.                       *)
(*                                                                         *)
(* A call the code refuses changes nothing and is a stuttering step. Lists *)
(* without duplicates (unique, appendUnique) are sets. The per-room war    *)
(* record is in WarMode; the other per-room settings (protection, readers, *)
(* reserve plan) and the command aliases, which no role depends on, are    *)
(* left out.                                                               *)
(***************************************************************************)
EXTENDS Naturals

CONSTANTS
    MIDs,        \* the member identifiers of users and bots
    Accounts,    \* the MIDs that the process logs in and registers as bots
    Groups,      \* the rooms
    Blank,       \* the empty string: no MID, and the room of global commands
    InitFiles,   \* the state files the process may be started on
    MaxFailures  \* bound on the number of failing writes

VARIABLES
    mem,      \* Store.state
    disk,     \* the content of the state file, EmptyState when it is absent
    backup,   \* the backup file: {s} when it parses to s, {} when absent or torn
    saved,    \* auxiliary: the last saveLocked succeeded
    failures  \* number of failed writes so far

vars == <<mem, disk, backup, saved, failures>>

State == [creators  : SUBSET MIDs, owners : SUBSET MIDs, admins : SUBSET MIDs,
          blacklist : SUBSET MIDs, bots   : SUBSET MIDs,
          gadmins   : [Groups -> SUBSET MIDs]]

EmptyState == [creators  |-> {}, owners |-> {}, admins |-> {},
               blacklist |-> {}, bots   |-> {},
               gadmins   |-> [g \in Groups |-> {}]]

ASSUME StoreAssumption ==
    /\ Accounts \subseteq MIDs
    /\ Blank \notin Groups \cup MIDs
    /\ InitFiles \subseteq State
    /\ MaxFailures \in Nat

-----------------------------------------------------------------------------
RoleUser    == 0
RoleGAdmin  == 1
RoleAdmin   == 2
RoleOwner   == 3
RoleCreator == 4

\* roleLocked: the first list that holds the MID decides.
Role(s, g, m) ==
    CASE m \in s.creators -> RoleCreator
      [] m \notin s.creators /\ m \in s.owners -> RoleOwner
      [] m \notin s.creators \cup s.owners /\ m \in s.admins -> RoleAdmin
      [] OTHER -> IF g \in Groups /\ m \in s.gadmins[g] THEN RoleGAdmin ELSE RoleUser

Protected(s) == s.bots \cup s.owners \cup s.admins \cup s.creators

\* Mutant: the blacklist is not cleaned of the protected MIDs.
NormalizeKeepBlacklist(s) ==
    LET owners == s.owners \ s.creators
        admins == s.admins \ (owners \cup s.creators)
        protected == s.bots \cup owners \cup admins \cup s.creators
    IN  [s EXCEPT !.owners = owners, !.admins = admins,
                  !.gadmins = [g \in Groups |-> s.gadmins[g] \ protected]]

\* Mutant: GAdmins keep their room role when they get a global one.
NormalizeKeepGAdmins(s) ==
    LET owners == s.owners \ s.creators
        admins == s.admins \ (owners \cup s.creators)
        protected == s.bots \cup owners \cup admins \cup s.creators
    IN  [s EXCEPT !.owners = owners, !.admins = admins,
                  !.blacklist = s.blacklist \ protected]

\* normalizeLocked: each list loses the members of the stronger ones.
Normalize(s) ==
    LET owners == s.owners \ s.creators
        admins == s.admins \ (owners \cup s.creators)
        protected == s.bots \cup owners \cup admins \cup s.creators
    IN  [creators |-> s.creators, owners |-> owners, admins |-> admins,
         blacklist |-> s.blacklist \ protected, bots |-> s.bots,
         gadmins |-> [g \in Groups |-> s.gadmins[g] \ protected]]

\* saveLocked: the temporary file replaces the state file or nothing happens.
Commit(s) ==
    /\ mem' = s
    /\ \/ /\ disk' = s
          /\ saved' = TRUE
          /\ UNCHANGED failures
       \/ /\ failures < MaxFailures
          /\ failures' = failures + 1
          /\ saved' = FALSE
          /\ UNCHANGED disk
    /\ UNCHANGED backup

-----------------------------------------------------------------------------
Init ==
    /\ disk \in InitFiles
    /\ mem = Normalize(disk)
    /\ backup = {}
    /\ saved = TRUE
    /\ failures = 0

\* A crash or a stop of the process, and OpenStore in the next one.
OpenStore ==
    /\ mem' = Normalize(disk)
    /\ saved' = TRUE
    /\ UNCHANGED <<disk, backup, failures>>

\* Mutant: an empty inviter is not refused.
BootstrapCreatorBlank(inviter) ==
    /\ mem.creators = {}
    /\ Commit(Normalize([mem EXCEPT !.creators = {Blank}]))

BootstrapCreator(inviter) ==
    /\ mem.creators = {}
    /\ Commit(Normalize([mem EXCEPT !.creators = {inviter}]))

RegisterBot(mid) ==
    /\ mid \notin mem.bots
    /\ Commit(Normalize([mem EXCEPT !.bots = @ \cup {mid}]))

\* mutateRole: the frame of the six commands that add or delete a role.
MutateRole(minimum, g, actor, target, changed) ==
    /\ Role(mem, g, actor) >= minimum
    /\ target # actor
    /\ target \notin mem.bots \cup mem.creators
    /\ Role(mem, g, target) < Role(mem, g, actor)
    /\ Commit(Normalize(changed))

AddOwner(actor, target) ==
    MutateRole(RoleCreator, Blank, actor, target,
               [mem EXCEPT !.owners = @ \cup {target}])

DelOwner(actor, target) ==
    MutateRole(RoleCreator, Blank, actor, target,
               [mem EXCEPT !.owners = @ \ {target}])

\* Mutant: an Admin may appoint Admins.
AddAdminByAdmin(actor, target) ==
    MutateRole(RoleAdmin, Blank, actor, target,
               [mem EXCEPT !.admins = @ \cup {target}])

AddAdmin(actor, target) ==
    MutateRole(RoleOwner, Blank, actor, target,
               [mem EXCEPT !.admins = @ \cup {target}])

DelAdmin(actor, target) ==
    MutateRole(RoleOwner, Blank, actor, target,
               [mem EXCEPT !.admins = @ \ {target}])

AddGAdmin(g, actor, target) ==
    MutateRole(RoleAdmin, g, actor, target,
               [mem EXCEPT !.gadmins[g] = @ \cup {target}])

DelGAdmin(g, actor, target) ==
    MutateRole(RoleAdmin, g, actor, target,
               [mem EXCEPT !.gadmins[g] = @ \ {target}])

AddCreator(actor, target) ==
    /\ Role(mem, Blank, actor) = RoleCreator
    /\ target \notin mem.bots
    /\ Commit(Normalize([mem EXCEPT !.creators = @ \cup {target}]))

\* Mutant: a Creator may remove itself, the last one included.
DelCreatorSelf(actor, target) ==
    /\ Role(mem, Blank, actor) = RoleCreator
    /\ target \in mem.creators
    /\ Commit([mem EXCEPT !.creators = @ \ {target}])

\* The length test of the code (more than one Creator) follows from the
\* actor and the target being two Creators.
DelCreator(actor, target) ==
    /\ Role(mem, Blank, actor) = RoleCreator
    /\ actor # target
    /\ target \in mem.creators
    /\ Commit([mem EXCEPT !.creators = @ \ {target}])

AddBlacklist(g, actor, target) ==
    /\ Role(mem, g, actor) >= RoleAdmin
    /\ actor # target
    /\ target \notin mem.bots
    /\ Role(mem, g, target) < Role(mem, g, actor)
    /\ Commit(Normalize([mem EXCEPT !.blacklist = @ \cup {target}]))

\* Mutant: only bots are refused.
AutoBlacklistAnyRole(g, target) ==
    /\ target \notin mem.bots
    /\ Commit([mem EXCEPT !.blacklist = @ \cup {target}])

\* Called by the handlers that remove an attacker, without an actor.
AutoBlacklist(g, target) ==
    /\ target \notin mem.bots
    /\ Role(mem, g, target) = RoleUser
    /\ Commit([mem EXCEPT !.blacklist = @ \cup {target}])

Unban(g, actor, target) ==
    /\ Role(mem, g, actor) >= RoleGAdmin
    /\ Commit([mem EXCEPT !.blacklist = @ \ {target}])

ClearBlacklist(g, actor) ==
    /\ Role(mem, g, actor) >= RoleAdmin
    /\ mem.blacklist # {}
    /\ Commit([mem EXCEPT !.blacklist = {}])

\* os.WriteFile truncates the file before it writes: a failed or interrupted
\* write leaves a file that does not parse.
Backup(actor) ==
    /\ Role(mem, Blank, actor) = RoleCreator
    /\ \/ backup' = {mem} /\ UNCHANGED failures
       \/ failures < MaxFailures /\ failures' = failures + 1 /\ backup' = {}
    /\ UNCHANGED <<mem, disk, saved>>

Restore(actor) ==
    /\ Role(mem, Blank, actor) = RoleCreator
    /\ \E r \in backup : actor \in r.creators /\ Commit(Normalize(r))

RoleCommand(actor, target) ==
    \/ AddCreator(actor, target)
    \/ DelCreator(actor, target)
    \/ AddOwner(actor, target)
    \/ DelOwner(actor, target)
    \/ AddAdmin(actor, target)
    \/ DelAdmin(actor, target)
    \/ \E g \in Groups : AddGAdmin(g, actor, target) \/ DelGAdmin(g, actor, target)

BlacklistCommand(g, actor) ==
    \/ \E target \in MIDs : AddBlacklist(g, actor, target) \/ Unban(g, actor, target)
    \/ ClearBlacklist(g, actor)

Next ==
    \/ OpenStore
    \/ \E m \in MIDs : BootstrapCreator(m)
    \/ \E m \in Accounts : RegisterBot(m)
    \/ \E actor, target \in MIDs : RoleCommand(actor, target)
    \/ \E g \in Groups, actor \in MIDs : BlacklistCommand(g, actor)
    \/ \E g \in Groups, m \in MIDs : AutoBlacklist(g, m)
    \/ \E actor \in MIDs : Backup(actor) \/ Restore(actor)

Spec == Init /\ [][Next]_vars

-----------------------------------------------------------------------------
\* Every list holds MIDs, none of them the empty string.
TypeOK ==
    /\ mem \in State
    /\ disk \in State
    /\ backup \in SUBSET State
    /\ saved \in BOOLEAN
    /\ failures \in 0..MaxFailures

\* A MID holds at most one role: the lists that roleLocked searches in order
\* never overlap, although DelCreator and AutoBlacklist skip normalizeLocked.
RolesExclusive ==
    /\ mem.creators \cap mem.owners = {}
    /\ mem.admins \cap (mem.creators \cup mem.owners) = {}
    /\ \A g \in Groups : mem.gadmins[g] \cap Protected(mem) = {}

\* Bots, Creators, Owners and Admins are never blacklisted, so that no sweep
\* of blacklisted members (start, join, recovery) removes one of them.
ProtectedNotBlacklisted == mem.blacklist \cap Protected(mem) = {}

\* A restart after a successful save brings back exactly the state in memory:
\* what normalizeLocked does on load is a no-op on everything saveLocked wrote.
RestartKeepsState == saved => Normalize(disk) = mem

\* Once the state file names a Creator it always names one, whatever fails and
\* whenever the process restarts, and a running process never loses its last.
CreatorSurvives ==
    [][/\ disk.creators # {} => disk'.creators # {}
       /\ mem.creators # {} => mem'.creators # {} \/ OpenStore]_vars

\* A role command changes the role of its target alone, never that of its
\* caller, and the caller outranks both the old and the new role: no sequence of
\* commands lets a MID climb past whoever promotes it. Creators act on Creators.
HierarchyRespected ==
    [][\A m \in MIDs, g \in Groups : Role(mem', g, m) # Role(mem, g, m) =>
         \A actor, target \in MIDs : RoleCommand(actor, target) =>
            /\ m = target /\ m # actor
            /\ \/ actor \in mem.creators
               \/ /\ Role(mem, g, actor) > Role(mem, g, m)
                  /\ Role(mem, g, actor) > Role(mem', g, m)]_vars
=============================================================================
