# A verification project for line-go

line-go is a Go client for the LINE messaging service. On top of the client it
has a *guard*: a fleet of bot accounts in one process that keeps chat rooms
orderly, removes attackers, and brings bots back that were removed. This directory
holds TLA+ models of the parts whose correctness depends on the order of things:
goroutines that share a mutex but not a critical section, requests that fail half
way, files that outlive the process. The models are checked with TLC on small
instances, and the safety properties of most of them are proved with TLAPS for every
instance.

Paths such as `guard/war.go` are relative to the root of the repository.
`PROJECT.json` maps every definition of a module to the lines it models.

## 1. Inventory

| component | state it keeps | operations | interacts with |
| --- | --- | --- | --- |
| role store, `guard/store.go` | Creators, Owners, Admins, GAdmins per room, blacklist, bots; state file, backup file | role and blacklist commands, `BootstrapCreator`, `RegisterBot`, `Backup`, `Restore`, load and save | called by the engine; one RWMutex, one critical section per method |
| room settings, `guard/store.go` | protection switches, lurk, reserve plan, command aliases | setters of the settings | called by the guard commands |
| fleet recovery, `guard/engine.go` | `members`, `pending`, `fleetSync`, `fleetDirty` | `reconcilePrimaryFleet`, `setMember`, `markPendingInvite` | started in a goroutine by every handler that sees a bot missing |
| war mode, `guard/war.go` | the war record in the store; quarantine and suspects in the engine; the audit | `war ...` commands, expiry, automatic activation, removal on join | every operation passes through it |
| event handlers, `guard/engine.go` | `dedupe`, defence races | kick, invitation, cancellation, join, chat update | every bot gets every operation; the dedupe map lets one of them act |
| ghosts and reserves, `guard/engine.go` | reserve plan, parked accounts | `configureReserves`, `launchRecovery`, `parkReserves` | called by commands and by handlers when no primary is left |
| health pool, `guard/health.go` | latency, failures and cooldown of a bot | ranking, success, failure | asked whenever a bot has to be chosen |
| guard commands, `guard/engine.go` | none of its own | parsing, role check, one call of the store or of the service each | store, war mode, reserves |
| listener, `client/client.go` | revision, queues per lane | `SyncOnce`, `Listen`, `BootstrapLatestRevision` | calls the handlers; saves the session |
| token refresh, `client/client.go`, `service/service.go` | tokens in the session, in the service and in the file; `refreshMu` | `call` with one retry, `EnsureAccessToken`, `RefreshAccessToken` | every service call |
| session file, `storage/` | tokens, revision, keys | atomic save, load | listener, token refresh, E2EE |
| manager, `multi/manager.go` | the clients of all accounts, an error channel | `Run`, shutdown | one listener per account |
| E2EE, `e2ee/manager.go`, `client/chats.go` | device keys in the session, group keys and peer keys in caches | key registration, negotiation, encryption, decryption | every message; saves the session |
| phone registration, `registration/` | none that lasts | a script of gateway calls, human verification in Chrome over DevTools | gateway, Chrome; its result goes into the session file |
| QR login, `auth/client.go` | none that lasts | the login step by step | service; session file |
| codecs, `protocol/` | none | Thrift compact and binary encoding | every request |
| transport, service wrappers, command line | none | one request each | |

What is hard to test, and what each part has to guarantee:

* **Role store.** Commands come from rooms in any order, some skip the
  normalisation, writes fail, the process restarts. A MID must hold one role, nobody
  may climb past whoever promotes him, no protected MID may end up on the blacklist
  that is swept automatically, and the Creator must survive.
* **Fleet recovery.** A removal is seen by every bot, each starts a goroutine, and
  these meet further removals, cancellations and late `setMember` calls. One
  reconciliation at a time, no bot invited twice, no endless reconciliation, no
  removed bot forgotten.
* **War mode.** A handler reads the record, the audit and the quarantine in separate
  critical sections, with commands and the clock in between.
* **Listener.** The revision is saved before operations are handled; a crash, a failing
  save or a full queue comes between. No operation twice, none forgotten, order within a
  lane, termination when cancelled.
* **Token refresh.** Many callers fail at once with the same token; the server
  rotates the refresh token, and answers and saves get lost.
* **Event handlers.** Every bot handles every operation in a goroutine of its own, in
  any order. One of them has to act, and only one; when it cannot, another one has to;
  and who is exempt is decided on settings that commands change meanwhile.
* **Ghosts.** Accounts wait in the invitation list and come in when the last primary bot
  is gone. They have to go back afterwards, a ticket that was opened for the fleet has to
  be closed, and the bots that invite each other must not become the Creator.
* **E2EE.** Device keys are replaced, group keys are made by several members at once,
  caches hold old ones, answers are lost after the server has acted. An account must be
  reachable under the key that senders get, and messages must be readable.
* **Registration, login, start.** A call that was answered with a demand for
  verification is made again, answers are lost, a browser hangs, several accounts fail at
  once. Nothing that cannot be taken back may be asked for twice, and everything
  has to end.

## 2. The modules

| module | models | proofs |
| --- | --- | --- |
| `GuardStore` | role store | `GuardStoreProofs` |
| `FleetReconcile`, implementing `SingleFlight`, and `FleetRecovery` | fleet recovery | `FleetReconcileProofs` |
| `WarMode` | war mode | `WarModeProofs` |
| `GuardEvents` | event handlers, protection settings, health pool | `GuardEventsProofs` |
| `Ghosts` | ghosts, group tickets, start of the engine, `bye` | `GhostsProofs` |
| `SyncListener` | listener | `SyncListenerProofs` |
| `TokenRefresh` | token refresh | `TokenRefreshProofs` |
| `E2EEKeys` | E2EE keys and messages | `AccountProofs` |
| `Onboarding`, composed of `Registration`, `QRLogin` and `Accounts` | phone registration, QR login, manager | `AccountProofs` |

`MC*` modules name the model values and bound the instances. An operator whose
comment begins with "Mutant" is a plausible mistake in the definition that follows it. It
is used by no specification; putting it in the place of that definition must break
the property that `PROJECT.json` names with it.

**GuardStore.** `mem` is `Store.state`, `disk` the state file, `backup` the backup
file. Every exported method holds the mutex from start to end, so it is one action.
`Commit` is `saveLocked`: memory changes, and the file follows or the write fails. A call
the code refuses is a stuttering step. Lists without duplicates are sets. Where the
code does not normalise (`DelCreator`, `AutoBlacklist`, `Unban`) the model does not
either. `mutateRole` demands a minimal role and in addition that the caller outranks
the target; `HierarchyRespected` would hold
with the first test alone for the six commands there are; both are modelled.

**FleetReconcile.** `real` and `invited` are the room on the server, `member` and
`pending` what the engine believes. Each removal produces one operation per bot that
sees it; handling is in two steps, `Observe` (`observeMembership`) and `Dispatch` (the
end of the handler), because the code releases the mutex between them.
`reconcilePrimaryFleet` is one action per critical section or API call. Calls fail
because the caller is no longer in the room (`InviteNotMember`, which updates the view) or
for any other reason (`InviteFails`). `SingleFlight` is the abstract promise of the
two flags: one runner, notes left by others, taken by the runner. `FleetRecovery` adds
a history variable to `FleetReconcile`, which records whether a note was lost or one of the
other three events happened after which a missing bot may be overlooked; it restricts no
step. Kicks of a bot by the same user within ten seconds of each other, which a
bot drops (the key `bot-defense:...`), are left to `Ghosts`, where they are the cause *repeat*.

**WarMode.** `war` is the record in the store, `quarantine` and `suspects` the runtime in
the engine, `audit` the times of recent events. A handler moves through `pc` with
what it has read in `w` and `until`; every action is one critical section, so commands
come between any two. `EventsIn` is the loop that counts the events of the window; `fresh`
is history, the number of events since a command or an expiry last changed what the
automatic mode depends on. The clock ticks at any time. Scores, counters and
`CooldownSec`, which nothing in the code reads, are left out.

**GuardEvents.** `inRoom`, `invitees` and `qrOpen` are the room on the server, `member`
is what the engine believes. A task is one bot at work on one operation. `Begin` is the
handler up to its first API call: look in `seen`, read roles and settings, choose a
protector from the view and the health pool. Every call after that is a step (`Eject`,
`Retry`, `AutoBlacklist`, `Strike`, `Cancel`, `Close`, `Reinvite`, `Sweep`). `seen`
keeps its keys for ten seconds: `Forget` drops one when all bots have handled the
operation, `ForgetEarly` before, which is what a bot that lags behind meets. `owed` is
what the protection promises after an operation, computed from roles and settings when
it happened, and `causes` why it may not be done. The initial rooms are those the server
can have (nobody is a member and invited at once, and no member is on the blacklist),
and no Admin or above is on the blacklist, which `normalizeLocked` sees to when the
state file is loaded.

**Ghosts.** The room, the reserve plan and the view, with a task per goroutine and a step
per critical section or call. A call and the `setMember` behind it are one step, and so is a
reconciliation of the fleet, because `FleetReconcile` has both apart. `Restart` is a crash
at any point and `ReconcileStartup` after it. `causes` is history. The initial rooms are in
order: ghosts are invited, not members, and a room without bots has no plan; a plan is made by a
command that a bot executes in the room.

**E2EEKeys.** A key is its id, and encryption is which key opens what: a message carries the
id and the secret it was sealed with, a group key the device key it was wrapped for
per member. `Source`, `OwnKey` and `CanOpen` are `keychain`, `ownKey` and `unwrapGroupKey`.
`Open`, `RegisterSelf` and `Keep` are the start of an account, with the answer or the save lost;
workers send and read messages in steps of one request. Whether a cached key has expired is a
choice. A group has any number of accounts, a direct chat two.

**Registration, QRLogin, Accounts, Onboarding.** `Script` is the order of the calls of
`RegisterPhone`; a call succeeds, fails before or after the gateway has acted, or
demands verification. Verification has three goroutines: `Verify` itself (`Launch`,
`AwaitCommand`, `Select`, `Finish`), the DevTools reader (`Read`, `Put`, `ReadError`,
`Panic`) and Chrome, which is external and does what it likes. `QRLogin` is `LoginQR`
step by step. `Accounts` is `Run` with a goroutine per account, the error channel and
the select. `Onboarding` runs one of the two commands that make a session file, and then
all accounts.

**SyncListener.** `log` is the server. `Fetch`, `SaveRevision` and `Enqueue` are the three
stages of the loop in `Listen`; `Take` and `Done` are a worker. A batch goes kicks
first, then invitations, then the other critical operations, then the rest.
`Enqueue` waits for a full queue, `Stop` is the cancelled context. `SaveElsewhere` stands for the
other parts of the client that save the same session.

**TokenRefresh.** Tokens are numbers in the order of issue. `session`, `talk` and `file`
are the three copies of a token in the client, `lock` is `refreshMu`. A caller moves
through `call`, and the retry is the second round with `retried` set. `mishap` remembers
that an answer of the server was lost or not saved: from then on only a new login can
help, and no property promises more.

## 3. What is checked

| run | instance | what it shows |
| --- | --- | --- |
| `store` | 2 users, 1 bot account, 1 room, 1 failing write; an empty and a hand-written file with overlapping lists | roles are exclusive, protected MIDs are not blacklisted, a restart reproduces memory, a Creator survives, commands respect the hierarchy |
| `fleet` | 2 primaries, 2 goroutines, 2 passes, 1 removal under way at a time, 1 fault | mutual exclusion, no repeated invitation, every reconciliation ends, refinement of `SingleFlight`; without a fault, when the room has settled every primary is present or invited, unless one of the four events of `FleetRecovery` happened |
| `fleet_late_request` | as above, 4 passes, 2 removals under way, no fault | **violated**: with a lost note, and none of the other three events, a removed bot may stay without invitation |
| `war` | 2 users (one protected), 2 handlers, 2 operations, 1 command, clock to 2 | a parallel burst is detected, activation is decided on a fresh record, exempt users are not removed |
| `war_duration` | as above, 2 commands | **violated**: a war may end before its time |
| `war_quarantine` | as above, 2 commands | **violated**: a quarantine may end before its time |
| `sync` | 3 operations, 2 per response, queues of 1, 1 or 2 workers, 1 failure, 1 stop | at most once, nothing forgotten, order in a lane, progress, termination |
| `token` | 3 callers, 3 calls, 1 crash | one refresh per token, the current refresh token, no login after a restart, every call ends |
| `events` | 2 bots, a user with and a user without a role, 2 operations, 1 fault; all protection on or a level 3 war; three rooms | one bot reacts to an operation, holders of a role are exempt, and what the protection promises is done when the handlers have returned, up to the listed causes |
| `ghosts` | 3 bots, 1 attacker, five scenes, 2 operations and 1 fault at most | no bot becomes the Creator, tickets are closed, empty rooms are rescued, ghosts go back to the invitations, up to the listed causes |
| `messages` | 2 accounts (QR login, imported key), 1 user, 2 goroutines, 2 messages, 3 group keys, 4 device keys, 2 events | an account that is up owns its advertised key; whatever cannot be read or sent has one of the listed causes |
| `onboarding` | 3 accounts, event queue of 2, 4 events, 2 challenges | one PIN, one account, one login; the verdict of the page is heard; verifications and failing accounts end; an error is reported |

The bounds are small but reach the cases that matter. Two users give every pair of
caller and target, and the third MID adds what is special about bots. Two goroutines and
two passes are enough for a request to arrive at any point of a reconciliation and for
the limit on passes to be hit. Thresholds of 1, 2 and 3 events with two operations put
the automatic mode below, at and above its limit. Queues of one place are full with one
waiting operation, so a slow lane blocks the loop. Three callers let one hold the lock
while another waits with the same token and a third with a newer one. Two operations are
enough for one to meet the handlers of another in `events` and `ghosts`; the scenes of
`ghosts` start where a ghost waits, has become visible by mistake, or the first bots are
invited, so that two operations reach the rescue and the return. Two messages and three
group keys let a reader that asks for the older key meet a sender that has the newer
one. An event queue of two is full after two events that nobody has read (it holds 64 in
the code). `ghosts` with five operations and `messages` with more events and keys were
simulated on random behaviours without a violation. Every other bound counts faults or
steps of the environment and is named in a guard.

**Fairness.** Goroutines that can run do run (weak fairness of every step of a
goroutine, of the listener's loop and of the workers of a lane). This rests on the Go
scheduler, on handlers that return and on requests that end by an answer or by their
timeout. `refreshMu` is released on every path and Go's mutex does not starve; with a
finite number of calls weak fairness is enough. In `onboarding` the DevTools reader,
`Verify` and the goroutines of `Run` are fair, and so is `Kill`, the runtime's end of
the process of an expired context. Nothing is assumed of Chrome, of the gateway and of
the clock. Nothing is assumed of removals, accepted invitations, expiring marks,
operations or crashes either. Full syncs are not part of the fair actions, so no
liveness depends on the server sending one.

**Deadlock** is not checked where a system comes to rest when nobody does anything any
more: `fleet`, `war`, `token`, `events`, `ghosts`, `messages` and `onboarding`. That no
goroutine of these gets stuck is part of what `ReconcilerLeaves`, `CallsEnd` and `Ends`
say, and `DebtsPaid`, `TicketClosed` and `Rescued` are about the state in which all have
returned. `store` and `sync` check it.

**Properties with causes.** `DebtsPaid`, `BlacklistedOut`, `TicketClosed`, `Rescued`,
`GhostsPending`, `Readable`, `Sends` and `OtherwiseRecovered` promise something unless
one of a list of things happened. A history variable records these things and restricts
no step, so the property says that the list is complete. Each list is short enough to be
read as documentation of the code's limits; what stands behind the less obvious entries
is this:

* *absent* (`DebtsPaid`): the protector that a stale view names has been removed.
  `ejectAndBlacklist` tries others, a cancellation, a closing of the link and a sweep do not.
* *deferred* (`DebtsPaid`): with three bots or more, each of two defenders may be in the
  cooldown of a failed call when it looks at the ranking (`defensePosition`), and leave
  the attacker to the other. The run `events` has two bots and does not reach it; the
  proof for any fleet did.
* *returned* (`BlacklistedOut`): a user is kicked first and blacklisted afterwards, and
  may be back in between.
* *accepted*: an invitee may join before the cancellation arrives.
* *counted* (`Rescued`): a bot that has left counts as a primary in the room, and its own
  report is not under way. `configureReserves` brings this about: it makes a bot leave and does
  not clear its membership. The ghosts are not called.
* *reserve*: the rescue is started for a removed primary only; a reserve account that
  was the last bot in the room is not rescued.
* *war*: in war mode the handler returns before the rescue.
* *recent*: `launchRecovery` and `parkReserves` consume their dedupe keys before they
  succeed.
* *inviterGone* (`GhostsPending`): `parkReserves` sends a ghost out and invites it again
  in two calls, and the bot that does so may be the ghost itself.
* *uninvited*: nobody is left to invite a ghost that is neither inside nor invited. The
  command for ghosts does not invite one that is in the plan already, although it has
  just made it leave (`guard/engine.go:843`); a reconciliation finds that the bots
  of its view are gone; a rescue has no ghost that got in.
* *unparked*: a start parks no ghosts and invites none, so what was out of place for a cause
  that ended with the process stays so.
* *admitted*: a ticket rollout lets in every primary account that is absent, waiting
  ghosts too. `bye` leaves the plan as it is, and a restart lets the ghosts in.
* *crash*, *leaderGone* (`TicketClosed`): a ticket that a crash or the removal of the
  leader left open is not closed by the next start.
* *superseded* (`Sends`, `Readable`): once a QR session has registered a device key,
  `keychain` shows only `DeviceKeys`, while `ownKey(0)` looks for the key its metadata
  names. Nothing can be encrypted from then on.
* a creator's key replaced between `GetLastE2EEPublicKeys` and `RegisterE2EEGroupKey`
  (`Readable`): nobody can unwrap that group key.

`groupKeyByID` replaces a newer cached key by an older one that a reader asked for;
`Readable` and `Sends` show that this does no harm beyond what is listed. A reader that
cannot open a key registers a new one and still fails. `Run` may return nil when all
accounts have failed, since the end of all goroutines can be noticed before their errors
(`ErrorReported`). The reader of DevTools events may panic on the channel that `close`
has closed (`OneAccount` knows it as `doomed`). A verdict that is dropped with a full
queue makes `Verify` wait for its timeout.

### Disagreements found

1. *A removed bot is forgotten* (`fleet_late_request`). `reconcilePrimaryFleet` looks at
   `fleetDirty` a last time and clears both flags in a later critical section
   (`guard/engine.go:692`). A request that comes between the two finds `fleetSync`
   set, leaves its note and returns; the deferred function deletes the note.
   `WAR_COMMANDS.md` says that a removed bot is recovered.

   The other ways a bot is overlooked are set aside in this run; `OtherwiseRecovered` of the
   run `fleet` shows that there are no more of them when calls succeed: a
   mark set after its invitation was cancelled or used (`markPendingInvite` follows the
   call), which hides the bot while it lasts, and nobody asks again when it has expired;
   a `setMember` that follows an accepted invitation but comes after the bot was
   removed again, so that the view shows it as present; and a moment without any primary in the
   view, in which the code turns to the ghosts or gives up with an error. With failing
   calls a bot can of course stay uninvited: the code does not retry.
2. *A new war is ended by the expiry of the old one* (`war_duration`). `warActive` reads
   the record, and `expireWar` ends the war in another critical section without looking
   at its end again (`guard/war.go:58`).
3. *A quarantine is lifted* (`war_quarantine`). Starting a war replaces the runtime in a
   second critical section, and the automatic activation does so even when it found the war on
   already (`guard/war.go:118`, `guard/war.go:279`).

## 4. What is proved

All theorems hold for any constants that satisfy the named assumption of the
component's module. These assumptions say no more than that markers such as `None` are
not names, that the bots among the MIDs and the initial files are well formed, and that
bounds are natural numbers.

* **GuardStoreProofs** (from `StoreAssumption`). `TypeOK`, `RolesExclusive`,
  `ProtectedNotBlacklisted`, `RestartKeepsState`, `CreatorSurvives` and
  `HierarchyRespected`. The invariant says that memory is clean (`Clean`: normalising it
  changes nothing), and that memory has a Creator when the file has. The second part is
  needed because memory and file differ after a failing write. `NormalizeCleans` and
  `NormalizeFixesClean` reduce every action to the question whether the state it commits
  is clean; only the actions that skip `normalizeLocked` need an argument of their own.
* **FleetReconcileProofs** (from `FleetAssumption`). `TypeOK`, `OneReconciler`,
  `NoRepeatedInvite` and `ImplementsSingleFlight`. `NoRepeatedInvite` is not a matter of
  one step: the list of missing bots is read in one critical section and used later. It
  needs `TodoNotPending`, which is preserved only because `OneReconciler` holds and
  nobody but the runner sets a mark. The refinement rests on `NoteOnlyInside`.
* **TokenRefreshProofs** (from `TokenAssumption`). `TypeOK`, `RestartCanRefresh`,
  `RefreshTokenCurrent` and `RefreshedOnce`. The invariant ties the lock to the callers
  between check and update (`LockHeld`), says that what the holder checked is still true
  (`CheckHolds`) and that its answer is the latest (`ReplyIsLatest`), and that session,
  file and server agree otherwise (`Agree`).
* **FleetReconcileProofs, recovery** (from the same assumption). `RecoveryReconciles`:
  the history variable of `FleetRecovery` restricts no step, so everything proved of
  `FleetReconcile` holds there. `RemovedAreRecovered` is `OtherwiseRecovered` for any
  fleet. Its invariant `SeenTo` says that as long as no call failed and none of the four
  events happened, the view errs only about bots whose removal or cancellation is about
  to be observed, and that every missing bot has somebody to see to it: an operation or a
  request that leads to a reconciliation, or a goroutine that has yet to read the view or has
  the bot on its list. The four events are exactly the steps at which the proof breaks down.
* **SyncListenerProofs** (from `ListenerAssumption`). `TypeOK`, `AtMostOnce`,
  `NothingForgotten` and `InOrder`. All three follow from one order (`InSequence`): in a
  lane, handled operations come before queued ones and these before those in the batch;
  all of these are at most the saved revision (`Saved`), and a response is a stretch that
  begins after the revision in memory (`Contiguous`). `Saved` is what makes a crash harmless.
* **WarModeProofs** (from `WarAssumption`). `TypeOK`, `AttackDetected`,
  `AutoActivationIsFresh` and `ExemptNeverRemoved`. `AttackDetected` speaks of the state in
  which all handlers are done; what is preserved is `Attended`: while there are enough fresh
  events for a war that has not begun, some handler is before its count, counts by the
  sensitivity that holds, or is about to start the war. The handler that puts an event in
  the audit becomes one; a handler that counts sees all fresh events because they are a
  part of the audit; and a command that changes what others have read makes no event
  fresh. `Counted` bounds the events, and `Exempted` says that a handler that goes on to
  remove somebody has looked at the whitelist since the join came in.
* **GuardEventsProofs** (from `EventsAssumption`). `TypeOK`, `OneReaction`,
  `RoleHoldersExempt`, `DebtsPaid` and `BlacklistedOut`. A debt is carried: until it is
  paid, some handler is on its way to pay it, or has yet to look and its key is not in
  `seen` (`Owed`). `Ousted` says the same of a member on the blacklist. `Reacted` ties a
  reaction to its key, so that another bot that looks finds it. `Exempt` carries
  the decision of a handler over the calls in between to the one that removes the user. For
  `DebtsPaid` the defence of a bot is the hard case: each defender may leave because
  another one has marked the defence, and the mark has to mean that the user was out.
* **GhostsProofs** (from `GhostsAssumption`). `TypeOK`, `CreatorIsAUser`, `TicketClosed`,
  `Rescued` and `GhostsPending`. All but the first two speak of the state in which the
  goroutines have returned; what is preserved is that whatever is out of place has a task that
  sees to it. An open ticket has a rollout that will close it (`Tickets`). An empty room has a
  bot that has yet to handle the report of its own removal, or a ghost on its way in
  (`RescueInv`): the last bot that handles its report sees no primary bot in the view, since
  every entry of the view that is wrong is about to be corrected or is the cause
  *counted*. A ghost inside beside a regular bot has a join that will send it out, a ghost
  that is neither inside nor invited a task that will invite it (`PendingInv`). A bot becomes
  Creator only through an invitation by a bot, and before there is a Creator no bot is in a room
  (`NoCreatorYet`). `SettledKept` and `EnteredKept` reduce a step of a goroutine to two
  questions: who came in or went, and to which task it hands over what it was to do.
* **AccountProofs, onboarding** (from `OnboardingAssumption` and those of its parts). `AskedOnce`
  and `ErrorReported`, and `ReportsNeverWait`: the error channel has room whenever an
  account reports. While a script has not passed a call, the service has not
  done what the call asks for (`OneAccountInv`, `OneLoginInv`); a call is made again only
  after a refusal. The channel has a place per account and every account that ends
  has reported once at most (`ReportedInv`).
* **AccountProofs, keys** (from `E2EEAssumption`). `TypeOK`, `Reachable`, `Readable` and
  `Sends`. Nothing is forgotten: a device key that the server handed out for an account is
  in its session, or was never kept (`orphans`), belongs to another device (`foreign`) or is
  hidden by a newer keychain (`Superseded`); this is `Held`, and it only grows (`Grows`).
  Whatever a goroutine has read it got from the server or a cache, and all these keys are
  good (`GoodKey`, `TaskOK`), however many others were registered since. A message that
  cannot be opened is therefore one for which a key of the second kind is needed, and
  `Explained` says which. That the key of an account that is up is in its session or
  in `foreign` (`AccountOK`) is what `Sends` needs, since the account asks for it by the
  server's id. `WorkStep` reduces the steps of a goroutine to one question: which task it
  goes on with, and why it failed if it did.

Only model-checked: liveness (`ReconcilerLeaves`, `EveryOperationHandled`,
`CancelledReturns`, `CallsEnd`, `VerdictHeard`, `Ends`), which needs fairness and is out
of the prover's reach; and the type invariant of `Registration`, whose queue is filtered with
`SelectSeq`, a recursive definition (the proofs use the part of it that concerns the
script). The three disagreements are counterexamples.

## 5. What is not modelled

* Text: parsing of commands, replies, mentions, reports; the flood and mention filters,
  `kickall` and `addMe`, which make calls and keep no state that another part reads.
* The lurk list and the command aliases of the store.
* The numbers that are shown and decide nothing: risk scores, counters. Latencies order the
  bots of the health pool; the model allows every order.
* The expiry of the dedupe map in `WarMode` and `FleetReconcile`, which let one bot act
  on an operation; `GuardEvents` and `Ghosts` have it.
* A fresh state file while bots are in rooms already: `Ghosts` starts without a Creator only
  where no bot is in the room, and `CreatorIsAUser` is about these starts.
* Cryptography: the E2EE primitives, the request encryption of the registration, the
  password hash, the key agreement of the QR login. Which key opens what is modelled.
* Thrift encoding, HTTP, the proxy bridge, the wrappers that make one request and extract one
  field, configuration, QR display and examples. They keep no state between calls, or are
  wiring; a model would repeat them line by line.

## 6. Plan

All parts whose behaviour depends on order are modelled, and every invariant that a run checks
is a theorem. The filters on messages and the command aliases, which are left out, would be
worth a model if they came to change state that other parts read.
