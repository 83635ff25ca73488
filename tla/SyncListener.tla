---------------------------- MODULE SyncListener ----------------------------
(***************************************************************************)
(* The SYNC4 listener of one account (client/client.go: SyncOnce, Listen,  *)
(* BootstrapLatestRevision): operations are fetched from a revision on,    *)
(* the new revision is saved to the session file, and the operations are   *)
(* put into bounded queues, one per lane, that pools of workers empty.     *)
(*                                                                         *)
(* Revisions are 1, 2, 3... and log, the operations on the LINE server, is *)
(* external. Waiting between attempts takes no time in the model; only the *)
(* delay of the next wait is kept.                                         *)
(***************************************************************************)
EXTENDS Naturals, Sequences, FiniteSets

CONSTANTS
    Count,        \* operations of one response (100)
    QueueSize,    \* capacity of the queue of a lane (8 or 4 per worker)
    WorkerCount,  \* workers of a lane
    RetryDelay, MaxRetryDelay,
    MaxRevision,  \* bound on the operations on the server
    MaxFailures,  \* bound on failing requests and saves
    MaxStops      \* bound on crashes and cancellations

Lanes == {"kick", "invite", "critical", "other"}

ASSUME ListenerAssumption ==
    /\ Count \in Nat \ {0}
    /\ QueueSize \in [Lanes -> Nat \ {0}]
    /\ WorkerCount \in [Lanes -> Nat \ {0}]
    /\ RetryDelay \in Nat \ {0} /\ MaxRetryDelay \in Nat /\ RetryDelay <= MaxRetryDelay
    /\ {MaxRevision, MaxFailures, MaxStops} \subseteq Nat

VARIABLES
    log,        \* the lane of every operation on the server
    disk,       \* the revision in the session file
    revision,   \* c.Session.SyncState.Revision
    pc,         \* where Listen is
    response,   \* the operations SyncOnce holds and has not saved yet
    batch,      \* the operations Listen has still to put into a queue
    queue,      \* the queues
    busy,       \* operations a handler is working on
    retry,      \* the delay of the next wait
    cancelled,  \* ctx.Done
    started,    \* history: how often an operation was given to the handler
    skipped,    \* history: operations dropped by a failing save, a stop, a
                \* full sync or a start at the latest revision
    failures, stops

session == <<disk, revision>>
work    == <<batch, queue, busy>>
history == <<started, skipped>>
bounds  == <<failures, stops>>
vars    == <<log, session, pc, response, work, retry, cancelled, history, bounds>>

PCs == {"down", "sync", "save", "fullsync", "dispatch", "closing"}

InQueue(r, l) == \E i \in DOMAIN queue[l] : queue[l][i] = r

Queued == {r \in DOMAIN log : \E l \in Lanes : InQueue(r, l)}

Rank == [kick |-> 1, invite |-> 2, critical |-> 3, other |-> 4]

\* Mutant: the latest operation of a lane comes first.
NextOfLatest(ops) ==
    CHOOSE r \in ops : \A s \in ops :
        \/ Rank[log[r]] < Rank[log[s]]
        \/ Rank[log[r]] = Rank[log[s]] /\ r >= s

\* Kicks first, then invitations, then the other critical operations; within a
\* lane in the order of the revisions.
NextOf(ops) ==
    CHOOSE r \in ops : \A s \in ops :
        \/ Rank[log[r]] < Rank[log[s]]
        \/ Rank[log[r]] = Rank[log[s]] /\ r <= s

Init ==
    /\ log = <<>>
    /\ disk = 0 /\ revision = 0
    /\ pc = "down"
    /\ response = {} /\ batch = {} /\ busy = {}
    /\ queue = [l \in Lanes |-> <<>>]
    /\ retry = RetryDelay
    /\ cancelled = FALSE
    /\ started = [r \in 1..MaxRevision |-> 0]
    /\ skipped = {}
    /\ failures = 0 /\ stops = 0

-----------------------------------------------------------------------------
NewOperation(l) ==
    /\ Len(log) < MaxRevision
    /\ log' = Append(log, l)
    /\ UNCHANGED <<session, pc, response, work, retry, cancelled, history, bounds>>

\* The session is loaded and Listen is called.
Start ==
    /\ pc = "down"
    /\ pc' = "sync"
    /\ revision' = disk
    /\ retry' = RetryDelay
    /\ cancelled' = FALSE
    /\ UNCHANGED <<log, disk, response, work, history, bounds>>

\* multi.Manager starts at the latest revision: BootstrapLatestRevision.
StartLatest ==
    /\ pc = "down"
    /\ pc' = "sync"
    /\ revision' = Len(log) /\ disk' = Len(log)
    /\ skipped' = skipped \cup ((disk + 1)..Len(log))
    /\ retry' = RetryDelay
    /\ cancelled' = FALSE
    /\ UNCHANGED <<log, response, work, started, bounds>>

-----------------------------------------------------------------------------
(* SyncOnce.                                                               *)

\* Mutant: the operation right after the revision is left out.
FetchOffByOne ==
    /\ pc = "sync" /\ ~cancelled
    /\ response' = {r \in DOMAIN log : r > revision + 1 /\ r <= revision + Count}
    /\ pc' = "save"
    /\ UNCHANGED <<log, session, work, retry, cancelled, history, bounds>>

\* The request returns what follows the revision.
Fetch ==
    /\ pc = "sync" /\ ~cancelled
    /\ response' = {r \in DOMAIN log : r > revision /\ r <= revision + Count}
    /\ pc' = "save"
    /\ UNCHANGED <<log, session, work, retry, cancelled, history, bounds>>

\* The server answers with a full sync: a revision and no operations.
FetchFullSync ==
    /\ pc = "sync" /\ ~cancelled
    /\ Len(log) > revision
    /\ response' = (revision + 1)..Len(log)
    /\ pc' = "fullsync"
    /\ UNCHANGED <<log, session, work, retry, cancelled, history, bounds>>

\* The new revision; an empty response leaves it as it is.
Reached == IF response = {} THEN revision ELSE CHOOSE r \in response : \A s \in response : s <= r

\* Mutant: the operations are passed on before the revision is saved.
SaveRevisionLater ==
    /\ pc = "save"
    /\ revision' = Reached
    /\ batch' = response /\ response' = {}
    /\ pc' = "dispatch"
    /\ retry' = RetryDelay
    /\ UNCHANGED <<log, disk, queue, busy, cancelled, history, bounds>>

SaveRevision ==
    /\ pc = "save"
    /\ revision' = Reached /\ disk' = Reached
    /\ batch' = response /\ response' = {}
    /\ pc' = "dispatch"
    /\ retry' = RetryDelay
    /\ UNCHANGED <<log, queue, busy, cancelled, history, bounds>>

SaveFullSync ==
    /\ pc = "fullsync"
    /\ revision' = Reached /\ disk' = Reached
    /\ skipped' = skipped \cup response
    /\ response' = {}
    /\ pc' = "dispatch"
    /\ retry' = RetryDelay
    /\ UNCHANGED <<log, work, cancelled, started, bounds>>

Backoff == IF 2 * retry > MaxRetryDelay THEN MaxRetryDelay ELSE 2 * retry

Failure == failures < MaxFailures /\ failures' = failures + 1 /\ UNCHANGED stops

\* The session cannot be saved. The revision in memory has advanced already,
\* and the operations are not returned.
SaveFails ==
    /\ pc \in {"save", "fullsync"}
    /\ Failure
    /\ revision' = Reached
    /\ skipped' = skipped \cup response
    /\ response' = {}
    /\ pc' = "sync"
    /\ retry' = Backoff
    /\ UNCHANGED <<log, disk, work, cancelled, started>>

\* The request fails: a connection error, a GOAWAY or a 410, an error of the
\* service, which ends Listen.
FetchFails ==
    /\ pc = "sync" /\ ~cancelled
    /\ Failure
    /\ \/ retry' = Backoff /\ UNCHANGED pc
       \/ retry' = RetryDelay /\ UNCHANGED pc
       \/ pc' = "closing" /\ UNCHANGED retry
    /\ UNCHANGED <<log, session, response, work, cancelled, history>>

\* Another part of the client, a token refresh for example, saves the session.
SaveElsewhere ==
    /\ pc # "down" /\ disk # revision
    /\ disk' = revision
    /\ UNCHANGED <<log, revision, pc, response, work, retry, cancelled, history, bounds>>

-----------------------------------------------------------------------------
(* Listen and its workers.                                                 *)

\* Mutant: a queue that is full drops the operation.
EnqueueOrDrop ==
    /\ pc = "dispatch" /\ batch # {}
    /\ LET r == NextOf(batch)
           l == log[r]
       IN  /\ queue' = IF Len(queue[l]) < QueueSize[l]
                       THEN [queue EXCEPT ![l] = Append(@, r)] ELSE queue
           /\ batch' = batch \ {r}
    /\ UNCHANGED <<log, session, pc, response, busy, retry, cancelled, history, bounds>>

\* enqueueOperation waits for room in the queue.
Enqueue ==
    /\ pc = "dispatch" /\ batch # {}
    /\ LET r == NextOf(batch)
           l == log[r]
       IN  /\ Len(queue[l]) < QueueSize[l]
           /\ queue' = [queue EXCEPT ![l] = Append(@, r)]
           /\ batch' = batch \ {r}
    /\ UNCHANGED <<log, session, pc, response, busy, retry, cancelled, history, bounds>>

NextRound ==
    /\ pc = "dispatch" /\ batch = {}
    /\ pc' = "sync"
    /\ UNCHANGED <<log, session, response, work, retry, cancelled, history, bounds>>

Cancel ==
    /\ pc # "down" /\ ~cancelled
    /\ stops < MaxStops /\ stops' = stops + 1
    /\ cancelled' = TRUE
    /\ UNCHANGED <<log, session, pc, response, work, retry, history, failures>>

\* Mutant: the end of the context is noticed in the middle of a batch only.
StopInBatch ==
    /\ cancelled /\ pc = "dispatch"
    /\ pc' = "closing"
    /\ skipped' = skipped \cup batch
    /\ batch' = {}
    /\ UNCHANGED <<log, session, response, queue, busy, retry, cancelled, started, bounds>>

\* Listen notices the end of the context before a request or in the middle of
\* a batch, of which the rest is dropped.
Stop ==
    /\ cancelled /\ pc \in {"sync", "dispatch"}
    /\ pc' = "closing"
    /\ skipped' = skipped \cup batch
    /\ batch' = {}
    /\ UNCHANGED <<log, session, response, queue, busy, retry, cancelled, started, bounds>>

\* A worker takes the next operation of its lane, also after the queue was
\* closed.
Take(l) ==
    /\ queue[l] # <<>>
    /\ Cardinality({r \in busy : log[r] = l}) < WorkerCount[l]
    /\ queue' = [queue EXCEPT ![l] = Tail(@)]
    /\ busy' = busy \cup {Head(queue[l])}
    /\ started' = [started EXCEPT ![Head(queue[l])] = @ + 1]
    /\ UNCHANGED <<log, session, pc, response, batch, retry, cancelled, skipped, bounds>>

\* The handler returns; an error is logged.
Done(r) ==
    /\ busy' = busy \ {r}
    /\ UNCHANGED <<log, session, pc, response, batch, queue, retry, cancelled, history, bounds>>

\* workers.Wait: Listen returns when the queues are empty.
Return ==
    /\ pc = "closing"
    /\ Queued = {} /\ busy = {}
    /\ pc' = "down"
    /\ UNCHANGED <<log, session, response, work, retry, cancelled, history, bounds>>

\* The process dies.
Crash ==
    /\ pc # "down"
    /\ stops < MaxStops /\ stops' = stops + 1
    /\ pc' = "down"
    /\ skipped' = skipped \cup batch \cup Queued
    /\ response' = {} /\ batch' = {} /\ busy' = {}
    /\ queue' = [l \in Lanes |-> <<>>]
    /\ UNCHANGED <<log, session, retry, cancelled, started, failures>>

-----------------------------------------------------------------------------
SyncOnce == Fetch \/ SaveRevision \/ SaveFullSync \/ FetchFails \/ SaveFails

Listen == SyncOnce \/ Enqueue \/ NextRound \/ Stop \/ Return

Work(l) == Take(l) \/ \E r \in busy : log[r] = l /\ Done(r)

Next ==
    \/ \E l \in Lanes : NewOperation(l) \/ Work(l)
    \/ Start \/ StartLatest
    \/ Listen \/ FetchFullSync \/ SaveElsewhere
    \/ Cancel \/ Crash

\* The loop of Listen and the workers run, and handlers return.
Fairness == WF_vars(Listen) /\ \A l \in Lanes : WF_vars(Work(l))

Spec == Init /\ [][Next]_vars /\ Fairness

-----------------------------------------------------------------------------
TypeOK ==
    /\ log \in Seq(Lanes) /\ Len(log) <= MaxRevision
    /\ disk \in DOMAIN log \cup {0} /\ revision \in DOMAIN log \cup {0} /\ disk <= revision
    /\ pc \in PCs
    /\ response \subseteq DOMAIN log /\ batch \subseteq DOMAIN log /\ busy \subseteq DOMAIN log
    /\ queue \in [Lanes -> Seq(DOMAIN log)] /\ \A l \in Lanes : Len(queue[l]) <= QueueSize[l]
    /\ retry \in RetryDelay..MaxRetryDelay
    /\ cancelled \in BOOLEAN
    /\ started \in [1..MaxRevision -> Nat]
    /\ skipped \subseteq DOMAIN log
    /\ failures \in 0..MaxFailures /\ stops \in 0..MaxStops

\* The revision is saved before the operations are passed on: no operation is
\* given to the handler twice, across crashes, restarts and failing saves.
AtMostOnce == \A r \in 1..MaxRevision : started[r] <= 1

\* Every operation up to the revision has been handled or is on its way to a
\* handler, through whichever lane, or it was skipped on purpose.
NothingForgotten ==
    \A r \in 1..revision : \/ started[r] > 0
                           \/ r \in response \cup batch \cup Queued \cup skipped

\* The operations of a lane reach the handler in the order of their revisions,
\* whatever happened between the responses that brought them.
InOrder ==
    [][\A l \in Lanes : Take(l) =>
          \A r \in DOMAIN log : log[r] = l /\ started[r] > 0 => r < Head(queue[l])]_vars

\* The full queue of a slow lane delays the listener and never stops it: an
\* operation on the server is handled or skipped unless the listener ends.
EveryOperationHandled ==
    \A r \in 1..MaxRevision :
        r \in DOMAIN log ~> started[r] > 0 \/ r \in skipped \/ pc = "down"

\* A cancelled listener returns, also from a full queue, with its queues empty.
CancelledReturns == cancelled ~> pc = "down"
=============================================================================
