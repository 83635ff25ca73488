------------------------- MODULE SyncListenerProofs -------------------------
(***************************************************************************)
(* The safety theorems of SyncListener, for any log, queue sizes and       *)
(* numbers of workers.                                                     *)
(*                                                                         *)
(* Operations move in the order of their revisions. In a lane, those given *)
(* to the handler come before those in the queue, which come before those  *)
(* in the batch; all of them are at most the saved revision, and a         *)
(* response lies beyond the revision in memory. The three properties       *)
(* follow from this order.                                                 *)
(***************************************************************************)
EXTENDS SyncListener, SequenceTheorems, WellFoundedInduction, TLAPS

\* Where operations can be while Listen is at pc.
Stages ==
    /\ response # {} => pc \in {"save", "fullsync"}
    /\ batch # {} => pc = "dispatch"

\* A response is a stretch of revisions that begins after the one in memory.
Contiguous ==
    /\ \A r \in response : r > revision /\ (revision + 1)..r \subseteq response
    /\ response # {} => \E r \in response : \A s \in response : s <= r

\* What was given to a handler, or is on its way to one, has been saved.
Saved ==
    /\ \A r \in 1..MaxRevision : started[r] > 0 => r <= disk
    /\ \A r \in batch \cup Queued : r <= disk

\* The queue of a lane.
QueueOf(l) == {queue[l][i] : i \in DOMAIN queue[l]}

\* A queue holds operations of its lane, in ascending order.
QueuesSorted ==
    \A l \in Lanes : /\ \A i \in DOMAIN queue[l] : log[queue[l][i]] = l
                     /\ \A i, j \in DOMAIN queue[l] : i < j => queue[l][i] < queue[l][j]

\* The order of a lane: handled, then queued, then in the batch.
InSequence ==
    \A l \in Lanes : \A r, s \in DOMAIN log : log[r] = l /\ log[s] = l =>
        /\ started[r] > 0 /\ s \in batch \cup QueueOf(l) => r < s
        /\ r \in QueueOf(l) /\ s \in batch => r < s

IInv ==
    /\ TypeOK /\ Stages /\ Contiguous /\ Saved /\ QueuesSorted /\ InSequence
    /\ AtMostOnce /\ NothingForgotten

-----------------------------------------------------------------------------
(* Choices of least and greatest elements.                                 *)

\* A set of natural numbers has a least element.
LEMMA LeastElement ==
    ASSUME NEW T, T \subseteq Nat, T # {}
    PROVE  \E x \in T : \A y \in T : x <= y
  <1> DEFINE less == {p \in Nat \X Nat : p[1] < p[2]}
  <1>1. less = OpToRel(<, Nat)
    BY DEF OpToRel
  <1>2. IsWellFoundedOn(less, Nat)
    BY <1>1, NatLessThanWellFounded
  <1>3. \A x, y \in Nat : <<y, x>> \in less <=> y < x
    OBVIOUS
  <1> HIDE DEF less
  <1>4. PICK x \in T : \A y \in T : ~ (<<y, x>> \in less)
    BY <1>2, WFMin
  <1>5. ASSUME NEW y \in T PROVE x <= y
    <2>1. x \in Nat /\ y \in Nat
      OBVIOUS
    <2>2. ~ (y < x)
      BY <1>3, <1>4, <2>1
    <2> QED BY <2>1, <2>2
  <1> QED BY <1>5

\* NextOf is a member of the batch, and the first of its lane.
LEMMA NextOfIsFirst ==
    ASSUME log \in Seq(Lanes), NEW ops, ops \subseteq DOMAIN log, ops # {}
    PROVE  /\ NextOf(ops) \in ops
           /\ \A s \in ops : log[s] = log[NextOf(ops)] => NextOf(ops) <= s
  <1>1. /\ \A r \in ops : r \in Nat /\ log[r] \in Lanes
        /\ \A l \in Lanes : Rank[l] \in Nat
    BY DEF Rank, Lanes
  <1> DEFINE ranks == {Rank[log[r]] : r \in ops}
  <1>2. PICK k \in ranks : \A j \in ranks : k <= j
    BY <1>1, LeastElement
  <1> DEFINE first == {r \in ops : Rank[log[r]] = k}
  <1>3. PICK r \in first : \A s \in first : r <= s
    BY <1>1, <1>2, LeastElement
  <1>4. \A s \in ops : \/ Rank[log[r]] < Rank[log[s]]
                       \/ Rank[log[r]] = Rank[log[s]] /\ r <= s
    <2> SUFFICES ASSUME NEW s \in ops
                 PROVE  \/ Rank[log[r]] < Rank[log[s]]
                        \/ Rank[log[r]] = Rank[log[s]] /\ r <= s
      OBVIOUS
    <2>1. Rank[log[r]] = k /\ Rank[log[s]] \in ranks
      OBVIOUS
    <2>2. k <= Rank[log[s]] /\ k \in Nat /\ Rank[log[s]] \in Nat
      BY <1>1, <1>2, <2>1
    <2>3. CASE k = Rank[log[s]]
      <3>1. s \in first
        BY <2>3
      <3> QED BY <1>3, <2>1, <2>3, <3>1
    <2> QED BY <2>1, <2>2, <2>3
  <1>5. /\ NextOf(ops) \in ops
        /\ \A s \in ops : \/ Rank[log[NextOf(ops)]] < Rank[log[s]]
                          \/ Rank[log[NextOf(ops)]] = Rank[log[s]] /\ NextOf(ops) <= s
    BY <1>3, <1>4 DEF NextOf
  <1> QED BY <1>1, <1>5

\* A response is the stretch from the revision to Reached.
LEMMA ReachedIsLast ==
    ASSUME TypeOK, Contiguous
    PROVE  /\ Reached \in DOMAIN log \cup {0} /\ revision <= Reached
           /\ response = (revision + 1)..Reached
  <1>1. revision \in Nat /\ response \subseteq Nat /\ response \subseteq DOMAIN log
    BY DEF TypeOK
  <1>2. CASE response = {}
    BY <1>1, <1>2 DEF Reached, TypeOK
  <1>3. CASE response # {}
    <2>1. Reached \in response /\ \A s \in response : s <= Reached
      BY <1>3 DEF Contiguous, Reached
    <2>2. Reached > revision /\ (revision + 1)..Reached \subseteq response
      BY <2>1 DEF Contiguous
    <2>3. \A s \in response : s > revision
      BY DEF Contiguous
    <2>4. Reached \in Nat /\ response \subseteq (revision + 1)..Reached
      BY <1>1, <2>1, <2>3
    <2>5. response = (revision + 1)..Reached
      BY <2>2, <2>4
    <2>6. Reached \in DOMAIN log /\ revision <= Reached
      BY <1>1, <2>1, <2>2, <2>4
    <2> QED BY <2>5, <2>6
  <1> QED BY <1>2, <1>3

-----------------------------------------------------------------------------
(* The operations in a queue.                                              *)

\* Queued collects the queues of the lanes.
LEMMA QueuedIsAllQueues ==
    ASSUME TypeOK, NEW r
    PROVE  r \in Queued <=> \E l \in Lanes : r \in QueueOf(l)
  <1>1. \A l \in Lanes : \A i \in DOMAIN queue[l] : queue[l][i] \in DOMAIN log
    BY DEF TypeOK
  <1> QED BY <1>1 DEF Queued, InQueue, QueueOf

\* Appending to a queue adds the operation as its last.
LEMMA AppendToQueue ==
    ASSUME TypeOK, NEW r \in DOMAIN log, NEW l \in Lanes,
           queue' = [queue EXCEPT ![l] = Append(@, r)]
    PROVE  /\ queue' \in [Lanes -> Seq(DOMAIN log)]
           /\ \A k \in Lanes \ {l} : queue'[k] = queue[k]
           /\ Len(queue'[l]) = Len(queue[l]) + 1
           /\ DOMAIN queue'[l] = 1..(Len(queue[l]) + 1)
           /\ \A i \in 1..Len(queue[l]) : queue'[l][i] = queue[l][i]
           /\ queue'[l][Len(queue[l]) + 1] = r
           /\ QueueOf(l)' = QueueOf(l) \cup {r}
  <1>1. queue \in [Lanes -> Seq(DOMAIN log)] /\ queue[l] \in Seq(DOMAIN log)
    BY DEF TypeOK
  <1>2. queue'[l] = Append(queue[l], r) /\ \A k \in Lanes \ {l} : queue'[k] = queue[k]
    BY <1>1
  <1>3. Len(queue[l]) \in Nat /\ DOMAIN queue[l] = 1..Len(queue[l])
    BY <1>1
  <1>4. /\ Append(queue[l], r) \in Seq(DOMAIN log)
        /\ Len(Append(queue[l], r)) = Len(queue[l]) + 1
        /\ \A i \in 1..Len(queue[l]) : Append(queue[l], r)[i] = queue[l][i]
        /\ Append(queue[l], r)[Len(queue[l]) + 1] = r
    BY <1>1
  <1>5. DOMAIN queue'[l] = 1..(Len(queue[l]) + 1)
    BY <1>2, <1>4, LenProperties
  <1>6. queue' \in [Lanes -> Seq(DOMAIN log)]
    BY <1>1, <1>4
  <1>7. QueueOf(l)' = QueueOf(l) \cup {r}
    <2>1. QueueOf(l)' = {queue'[l][i] : i \in 1..(Len(queue[l]) + 1)}
      BY <1>5 DEF QueueOf
    <2>2. QueueOf(l) = {queue[l][i] : i \in 1..Len(queue[l])}
      BY <1>3 DEF QueueOf
    <2>3. \A i \in 1..(Len(queue[l]) + 1) : i \in 1..Len(queue[l]) \/ i = Len(queue[l]) + 1
      BY <1>3
    <2>4. 1..Len(queue[l]) \subseteq 1..(Len(queue[l]) + 1)
          /\ Len(queue[l]) + 1 \in 1..(Len(queue[l]) + 1)
      BY <1>3
    <2> QED BY <1>2, <1>4, <2>1, <2>2, <2>3, <2>4
  <1> QED BY <1>2, <1>4, <1>5, <1>6, <1>7

\* Taking from a queue removes its first operation.
LEMMA TakeFromQueue ==
    ASSUME TypeOK, NEW l \in Lanes, queue[l] # <<>>,
           queue' = [queue EXCEPT ![l] = Tail(@)]
    PROVE  /\ queue' \in [Lanes -> Seq(DOMAIN log)]
           /\ \A k \in Lanes \ {l} : queue'[k] = queue[k]
           /\ Len(queue[l]) \in Nat \ {0} /\ Len(queue'[l]) = Len(queue[l]) - 1
           /\ DOMAIN queue[l] = 1..Len(queue[l])
           /\ DOMAIN queue'[l] = 1..(Len(queue[l]) - 1)
           /\ \A i \in 1..(Len(queue[l]) - 1) : queue'[l][i] = queue[l][i + 1]
           /\ Head(queue[l]) = queue[l][1] /\ Head(queue[l]) \in DOMAIN log
           /\ QueueOf(l) = QueueOf(l)' \cup {Head(queue[l])}
  <1>1. queue \in [Lanes -> Seq(DOMAIN log)] /\ queue[l] \in Seq(DOMAIN log)
    BY DEF TypeOK
  <1>2. queue'[l] = Tail(queue[l]) /\ \A k \in Lanes \ {l} : queue'[k] = queue[k]
    BY <1>1
  <1>3. Len(queue[l]) \in Nat \ {0} /\ DOMAIN queue[l] = 1..Len(queue[l])
    BY <1>1, EmptySeq
  <1>4. /\ Tail(queue[l]) \in Seq(DOMAIN log)
        /\ Len(Tail(queue[l])) = Len(queue[l]) - 1
        /\ \A i \in 1..(Len(queue[l]) - 1) : Tail(queue[l])[i] = queue[l][i + 1]
        /\ Head(queue[l]) \in DOMAIN log
    BY <1>1, HeadTailProperties
  <1>5. DOMAIN queue'[l] = 1..(Len(queue[l]) - 1)
    BY <1>2, <1>4, LenProperties
  <1>6. queue' \in [Lanes -> Seq(DOMAIN log)]
    BY <1>1, <1>4
  <1>7. Head(queue[l]) = queue[l][1]
    BY <1>1, <1>3
  <1>8. QueueOf(l) = QueueOf(l)' \cup {Head(queue[l])}
    <2>1. QueueOf(l)' = {queue'[l][i] : i \in 1..(Len(queue[l]) - 1)}
      BY <1>5 DEF QueueOf
    <2>2. QueueOf(l) = {queue[l][i] : i \in 1..Len(queue[l])}
      BY <1>3 DEF QueueOf
    <2>3. \A i \in 1..(Len(queue[l]) - 1) : i + 1 \in 1..Len(queue[l])
      BY <1>3
    <2>4. \A i \in 1..Len(queue[l]) : i = 1 \/ (i - 1 \in 1..(Len(queue[l]) - 1) /\ (i - 1) + 1 = i)
      BY <1>3
    <2>5. 1 \in 1..Len(queue[l])
      BY <1>3
    <2>6. QueueOf(l) \subseteq QueueOf(l)' \cup {Head(queue[l])}
      <3> SUFFICES ASSUME NEW i \in 1..Len(queue[l]), i # 1
                   PROVE  queue[l][i] \in QueueOf(l)'
        BY <1>7, <2>2
      <3>1. i - 1 \in 1..(Len(queue[l]) - 1) /\ (i - 1) + 1 = i
        BY <2>4
      <3> QED BY <1>2, <1>4, <2>1, <3>1
    <2>7. QueueOf(l)' \cup {Head(queue[l])} \subseteq QueueOf(l)
      BY <1>2, <1>4, <1>7, <2>1, <2>2, <2>3, <2>5
    <2> QED BY <2>6, <2>7
  <1> QED BY <1>2, <1>3, <1>4, <1>5, <1>6, <1>7, <1>8

-----------------------------------------------------------------------------
(* The invariant is inductive.                                             *)

\* The initial state satisfies the invariant.
LEMMA InitInvariant == Init => IInv
  <1> SUFFICES ASSUME Init PROVE IInv
    OBVIOUS
  <1>1. TypeOK
    <2>1. log \in Seq(Lanes) /\ Len(log) = 0
      BY DEF Init
    <2>2. queue \in [Lanes -> Seq(DOMAIN log)] /\ \A l \in Lanes : Len(queue[l]) <= QueueSize[l]
      BY ListenerAssumption DEF Init
    <2>3. started \in [1..MaxRevision -> Nat]
      BY DEF Init
    <2>4. {MaxRevision, MaxFailures, MaxStops} \subseteq Nat /\ retry \in RetryDelay..MaxRetryDelay
      BY ListenerAssumption DEF Init
    <2>5. /\ response \subseteq DOMAIN log /\ batch \subseteq DOMAIN log /\ busy \subseteq DOMAIN log
          /\ skipped \subseteq DOMAIN log
      BY DEF Init
    <2>6. failures \in 0..MaxFailures /\ stops \in 0..MaxStops /\ Len(log) <= MaxRevision
      BY <2>1, <2>4 DEF Init
    <2>7. disk \in DOMAIN log \cup {0} /\ revision \in DOMAIN log \cup {0} /\ disk <= revision
      BY DEF Init
    <2>8. pc \in PCs /\ cancelled \in BOOLEAN
      BY DEF Init, PCs
    <2> QED BY <2>1, <2>2, <2>3, <2>4, <2>5, <2>6, <2>7, <2>8 DEF TypeOK
  <1>2. DOMAIN log = {} /\ Queued = {}
    BY DEF Init, Queued
  <1>3. Stages /\ Contiguous /\ Saved
    BY <1>2 DEF Init, Stages, Contiguous, Saved
  <1>4. QueuesSorted
    BY DEF Init, QueuesSorted
  <1>5. InSequence /\ AtMostOnce /\ NothingForgotten
    BY <1>2 DEF Init, InSequence, AtMostOnce, NothingForgotten
  <1> QED BY <1>1, <1>3, <1>4, <1>5 DEF IInv

\* The parts of the invariant about the way of an operation hold after a step
\* that gives nothing to a lane or a handler.
LEMMA QuietStep ==
    ASSUME IInv, UNCHANGED <<log, started, queue>>,
           batch' \subseteq batch, disk' \in Nat, disk <= disk'
    PROVE  (Saved /\ QueuesSorted /\ InSequence /\ AtMostOnce)' /\ Queued' = Queued
  <1> USE DEF IInv
  <1>1. Queued' = Queued /\ \A l \in Lanes : QueueOf(l)' = QueueOf(l)
    BY DEF Queued, InQueue, QueueOf
  <1>2. Saved'
    <2>1. /\ disk \in Nat /\ started \in [1..MaxRevision -> Nat]
          /\ \A r \in batch \cup Queued : r \in Nat
      BY DEF TypeOK, Queued
    <2>2. \A r \in 1..MaxRevision : started'[r] > 0 => r <= disk'
      BY <2>1 DEF Saved
    <2>3. \A r \in batch' \cup Queued' : r <= disk'
      BY <1>1, <2>1 DEF Saved
    <2> QED BY <2>2, <2>3 DEF Saved
  <1>3. QueuesSorted'
    BY DEF QueuesSorted
  <1>4. InSequence'
    BY <1>1 DEF InSequence
  <1>5. AtMostOnce'
    BY DEF AtMostOnce
  <1> QED BY <1>1, <1>2, <1>3, <1>4, <1>5

\* The steps of Listen outside of its queues, and those around it.
LEMMA QuietSteps ==
    ASSUME IInv,
           \/ Start \/ StartLatest \/ Fetch \/ FetchFullSync \/ FetchFails
           \/ SaveFullSync \/ SaveFails \/ SaveElsewhere
           \/ NextRound \/ Cancel \/ Stop \/ Return \/ \E r \in busy : Done(r)
    PROVE  IInv'
  <1> USE DEF IInv
  <1>1. /\ Len(log) \in Nat /\ DOMAIN log = 1..Len(log)
        /\ disk \in Nat /\ revision \in Nat /\ disk <= revision /\ revision <= Len(log)
    BY DEF TypeOK
  <1>2. /\ Reached \in DOMAIN log \cup {0} /\ revision <= Reached
        /\ response = (revision + 1)..Reached
    BY ReachedIsLast
  <1>3. ASSUME UNCHANGED <<log, started, queue>>,
               batch' \subseteq batch, disk' \in Nat, disk <= disk',
               TypeOK', Stages', Contiguous',
               \A r \in 1..revision' : \/ r \in 1..revision /\ r \notin response \cup batch
                                      \/ r \in response' \cup batch' \cup skipped'
                                      \/ started[r] > 0,
               skipped \subseteq skipped'
        PROVE  IInv'
    <2>1. (Saved /\ QueuesSorted /\ InSequence /\ AtMostOnce)' /\ Queued' = Queued
      BY <1>3, QuietStep
    <2>2. NothingForgotten'
      BY <1>3, <2>1 DEF NothingForgotten
    <2> QED BY <1>3, <2>1, <2>2
  <1>4. Backoff \in RetryDelay..MaxRetryDelay /\ RetryDelay \in RetryDelay..MaxRetryDelay
    BY ListenerAssumption DEF Backoff, TypeOK
  <1>5. Failure => UNCHANGED stops /\ failures' \in 0..MaxFailures
    BY ListenerAssumption DEF Failure, TypeOK
  <1>6. CASE Start
    <2>1. TypeOK'
      <3>1. revision' = disk /\ pc' = "sync" /\ retry' = RetryDelay /\ cancelled' \in BOOLEAN
            /\ UNCHANGED <<log, disk, response, batch, queue, busy, started, skipped, failures, stops>>
        BY <1>6 DEF Start, work, history, bounds
      <3> QED BY <1>1, <1>4, <3>1 DEF TypeOK, PCs
    <2>2. response = {} /\ batch = {}
      BY <1>6 DEF Start, Stages
    <2>3. Stages' /\ Contiguous'
      BY <1>6, <2>2 DEF Start, Stages, Contiguous, work
    <2> QED BY <1>1, <1>3, <1>6, <2>1, <2>2, <2>3 DEF Start, work, history
  <1>7. CASE StartLatest
    <2>1. response = {} /\ batch = {}
      BY <1>7 DEF StartLatest, Stages
    <2>2. TypeOK'
      <3>1. /\ revision' = Len(log) /\ disk' = Len(log)
            /\ skipped' = skipped \cup ((disk + 1)..Len(log))
            /\ pc' = "sync" /\ retry' = RetryDelay /\ cancelled' \in BOOLEAN
            /\ UNCHANGED <<log, response, batch, queue, busy, started, failures, stops>>
        BY <1>7 DEF StartLatest, work, bounds
      <3>2. Len(log) \in DOMAIN log \cup {0} /\ (disk + 1)..Len(log) \subseteq DOMAIN log
        BY <1>1
      <3> QED BY <1>1, <1>4, <3>1, <3>2 DEF TypeOK, PCs
    <2>3. Stages' /\ Contiguous'
      BY <1>7, <2>1 DEF StartLatest, Stages, Contiguous, work
    <2>4. \A r \in 1..revision' : r \in 1..revision \/ r \in skipped'
      BY <1>1, <1>7 DEF StartLatest
    <2> QED BY <1>1, <1>3, <1>7, <2>1, <2>2, <2>3, <2>4 DEF StartLatest, work
  <1>8. CASE Fetch
    <2>1. /\ response' = {r \in DOMAIN log : r > revision /\ r <= revision + Count}
          /\ pc = "sync" /\ pc' = "save"
          /\ UNCHANGED <<log, disk, revision, batch, queue, busy, retry, cancelled,
                         started, skipped, failures, stops>>
      BY <1>8 DEF Fetch, session, work, history, bounds
    <2>2. TypeOK'
      BY <2>1 DEF TypeOK, PCs
    <2>3. response = {} /\ batch = {}
      BY <2>1 DEF Stages
    <2>4. Stages'
      BY <2>1, <2>3 DEF Stages
    <2>5. Contiguous'
      <3>1. \A r \in response' : r > revision' /\ (revision' + 1)..r \subseteq response'
        BY <1>1, <2>1, ListenerAssumption
      <3>2. ASSUME response' # {} PROVE \E r \in response' : \A s \in response' : s <= r
        <4> DEFINE last == IF revision + Count <= Len(log) THEN revision + Count ELSE Len(log)
        <4>1. revision < Len(log)
          BY <1>1, <2>1, <3>2
        <4>2. last \in response' /\ \A s \in response' : s <= last
          BY <1>1, <2>1, <4>1, ListenerAssumption
        <4> QED BY <4>2
      <3> QED BY <3>1, <3>2 DEF Contiguous
    <2> QED BY <1>1, <1>3, <2>1, <2>2, <2>3, <2>4, <2>5
  <1>9. CASE FetchFullSync
    <2>1. /\ response' = (revision + 1)..Len(log) /\ Len(log) > revision
          /\ pc = "sync" /\ pc' = "fullsync"
          /\ UNCHANGED <<log, disk, revision, batch, queue, busy, retry, cancelled,
                         started, skipped, failures, stops>>
      BY <1>9 DEF FetchFullSync, session, work, history, bounds
    <2>2. TypeOK'
      BY <1>1, <2>1 DEF TypeOK, PCs
    <2>3. response = {} /\ batch = {}
      BY <2>1 DEF Stages
    <2>4. Stages'
      BY <2>1, <2>3 DEF Stages
    <2>5. Contiguous'
      BY <1>1, <2>1 DEF Contiguous
    <2> QED BY <1>1, <1>3, <2>1, <2>2, <2>3, <2>4, <2>5
  <1>10. CASE FetchFails
    <2>1. /\ pc = "sync" /\ pc' \in {"sync", "closing"}
          /\ retry' \in RetryDelay..MaxRetryDelay
          /\ UNCHANGED <<log, disk, revision, response, batch, queue, busy, cancelled,
                         started, skipped>>
      BY <1>4, <1>10 DEF FetchFails, session, work, history, TypeOK
    <2>2. TypeOK'
      BY <1>5, <1>10, <2>1 DEF FetchFails, TypeOK, PCs
    <2>3. Stages' /\ Contiguous' /\ response = {} /\ batch = {}
      BY <2>1 DEF Stages, Contiguous
    <2> QED BY <1>1, <1>3, <2>1, <2>2, <2>3
  <1>11. CASE SaveFullSync
    <2>1. /\ revision' = Reached /\ disk' = Reached /\ skipped' = skipped \cup response
          /\ response' = {} /\ pc = "fullsync" /\ pc' = "dispatch" /\ retry' = RetryDelay
          /\ UNCHANGED <<log, batch, queue, busy, cancelled, started, failures, stops>>
      BY <1>11 DEF SaveFullSync, work, bounds
    <2>2. Reached \in Nat /\ disk <= Reached
      BY <1>1, <1>2
    <2>3. TypeOK'
      BY <1>2, <1>4, <2>1, <2>2 DEF TypeOK, PCs
    <2>4. Stages' /\ Contiguous' /\ batch = {}
      BY <2>1 DEF Stages, Contiguous
    <2>5. \A r \in 1..revision' : (r \in 1..revision /\ r \notin response) \/ r \in skipped'
      BY <1>1, <1>2, <2>1, <2>2
    <2> QED BY <1>3, <2>1, <2>2, <2>3, <2>4, <2>5
  <1>12. CASE SaveFails
    <2>1. /\ revision' = Reached /\ skipped' = skipped \cup response
          /\ response' = {} /\ pc \in {"save", "fullsync"} /\ pc' = "sync" /\ retry' = Backoff
          /\ UNCHANGED <<log, disk, batch, queue, busy, cancelled, started>>
      BY <1>12 DEF SaveFails, work
    <2>2. Reached \in Nat /\ disk <= Reached
      BY <1>1, <1>2
    <2>3. TypeOK'
      BY <1>2, <1>4, <1>5, <1>12, <2>1, <2>2 DEF SaveFails, TypeOK, PCs
    <2>4. Stages' /\ Contiguous' /\ batch = {}
      BY <2>1 DEF Stages, Contiguous
    <2>5. \A r \in 1..revision' : (r \in 1..revision /\ r \notin response) \/ r \in skipped'
      BY <1>1, <1>2, <2>1, <2>2
    <2> QED BY <1>1, <1>3, <2>1, <2>2, <2>3, <2>4, <2>5
  <1>13. CASE SaveElsewhere
    <2>1. /\ disk' = revision
          /\ UNCHANGED <<log, revision, pc, response, batch, queue, busy, retry, cancelled,
                         started, skipped, failures, stops>>
      BY <1>13 DEF SaveElsewhere, work, history, bounds
    <2>2. TypeOK' /\ Stages' /\ Contiguous'
      BY <1>1, <2>1 DEF TypeOK, Stages, Contiguous
    <2>3. \A r \in 1..revision' : \/ started[r] > 0
                                  \/ r \notin response \cup batch
                                  \/ r \in response' \cup batch' \cup skipped'
      BY <2>1
    <2> QED BY <1>1, <1>3, <2>1, <2>2, <2>3
  <1>14. CASE NextRound \/ Cancel \/ Return \/ \E r \in busy : Done(r)
    <2>1. UNCHANGED <<log, disk, revision, response, batch, queue, retry, started, skipped, failures>>
      BY <1>14 DEF NextRound, Cancel, Return, Done, session, work, history, bounds
    <2>2. busy' \subseteq busy /\ cancelled' \in BOOLEAN
      BY <1>14 DEF NextRound, Cancel, Return, Done, work, TypeOK
    <2>3. stops' \in 0..MaxStops
      <3>1. stops' = stops \/ (stops < MaxStops /\ stops' = stops + 1)
        BY <1>14 DEF NextRound, Cancel, Return, Done, bounds
      <3>2. stops \in 0..MaxStops /\ MaxStops \in Nat
        BY ListenerAssumption DEF TypeOK
      <3> QED BY <3>1, <3>2
    <2>4. \/ pc' = pc
          \/ pc' \in {"sync", "down"} /\ response = {} /\ batch = {}
      BY <1>14 DEF NextRound, Cancel, Return, Done, Stages
    <2>5. TypeOK' /\ Stages' /\ Contiguous'
      BY <2>1, <2>2, <2>3, <2>4 DEF TypeOK, PCs, Stages, Contiguous
    <2> QED BY <1>1, <1>3, <2>1, <2>5
  <1>15. CASE Stop
    <2>1. /\ pc \in {"sync", "dispatch"} /\ pc' = "closing"
          /\ skipped' = skipped \cup batch /\ batch' = {}
          /\ UNCHANGED <<log, disk, revision, response, queue, busy, retry, cancelled,
                         started, failures, stops>>
      BY <1>15 DEF Stop, session, bounds
    <2>2. TypeOK' /\ Stages' /\ Contiguous'
      BY <2>1 DEF TypeOK, PCs, Stages, Contiguous
    <2> QED BY <1>1, <1>3, <2>1, <2>2
  <1> QED
    BY <1>6, <1>7, <1>8, <1>9, <1>10, <1>11, <1>12, <1>13, <1>14, <1>15

\* An operation arrives at the server: it lies beyond everything known here.
LEMMA NewOperationStep ==
    ASSUME IInv, NEW l \in Lanes, NewOperation(l)
    PROVE  IInv'
  <1> USE DEF IInv
  <1>1. /\ log' = Append(log, l) /\ Len(log) < MaxRevision
        /\ UNCHANGED <<disk, revision, pc, response, batch, queue, busy, retry, cancelled,
                       started, skipped, failures, stops>>
    BY DEF NewOperation, session, work, history, bounds
  <1>2. /\ log \in Seq(Lanes) /\ Len(log) \in Nat /\ DOMAIN log = 1..Len(log)
        /\ disk \in Nat /\ revision \in Nat /\ disk <= revision /\ revision <= Len(log)
    BY DEF TypeOK
  <1>3. /\ log' \in Seq(Lanes) /\ Len(log') = Len(log) + 1 /\ DOMAIN log' = 1..(Len(log) + 1)
        /\ \A r \in DOMAIN log : log'[r] = log[r]
    <2>1. Append(log, l) \in Seq(Lanes) /\ Len(Append(log, l)) = Len(log) + 1
      BY <1>2
    <2>2. \A r \in 1..Len(log) : Append(log, l)[r] = log[r]
      BY <1>2
    <2> QED BY <1>1, <1>2, <2>1, <2>2, LenProperties
  <1>4. DOMAIN log \subseteq DOMAIN log'
    BY <1>2, <1>3
  <1>5. \A k \in Lanes : queue[k] \in Seq(DOMAIN log) /\ queue[k] \in Seq(DOMAIN log')
    BY <1>4, SeqMonotonic DEF TypeOK
  <1>6. TypeOK'
    <2>1. queue' \in [Lanes -> Seq(DOMAIN log')]
      BY <1>1, <1>5 DEF TypeOK
    <2>2. Len(log') <= MaxRevision
      BY <1>1, <1>2, <1>3, ListenerAssumption
    <2> QED BY <1>1, <1>3, <1>4, <2>1, <2>2 DEF TypeOK
  <1>7. \A k \in Lanes : QueueOf(k)' = QueueOf(k) /\ QueueOf(k) \subseteq DOMAIN log
    BY <1>1, <1>5 DEF QueueOf
  <1>8. Queued' = Queued
    <2>1. \A k \in Lanes : \A i \in DOMAIN queue[k] : queue[k][i] \in DOMAIN log
      BY <1>5
    <2> QED BY <1>1, <1>4, <2>1 DEF Queued, InQueue
  <1>9. Stages' /\ Contiguous' /\ AtMostOnce'
    BY <1>1 DEF Stages, Contiguous, AtMostOnce
  <1>10. Saved' /\ NothingForgotten'
    BY <1>1, <1>8 DEF Saved, NothingForgotten
  <1>11. QueuesSorted'
    <2>1. \A k \in Lanes : \A i \in DOMAIN queue[k] : log'[queue[k][i]] = log[queue[k][i]]
      BY <1>3, <1>5
    <2> QED BY <1>1, <2>1 DEF QueuesSorted
  <1>12. InSequence'
    <2>1. \A r \in DOMAIN log : r \in Nat /\ log[r] \in Lanes
      BY <1>2
    <2>2. \A r \in DOMAIN log' : r \notin DOMAIN log => r > disk /\ r \in 1..MaxRevision
      BY <1>1, <1>2, <1>3, ListenerAssumption
    <2>3. \A r \in DOMAIN log' : started[r] > 0 => r \in DOMAIN log
      BY <1>2, <2>1, <2>2 DEF Saved
    <2>4. batch \subseteq DOMAIN log /\ \A k \in Lanes : QueueOf(k)' \subseteq DOMAIN log
      BY <1>7 DEF TypeOK
    <2> SUFFICES ASSUME NEW k \in Lanes, NEW r \in DOMAIN log', NEW s \in DOMAIN log',
                        log'[r] = k, log'[s] = k
                 PROVE  /\ started[r] > 0 /\ s \in batch \cup QueueOf(k) => r < s
                        /\ r \in QueueOf(k) /\ s \in batch => r < s
      BY <1>1, <1>7 DEF InSequence
    <2> QED BY <1>3, <1>7, <2>3, <2>4 DEF InSequence
  <1> QED BY <1>6, <1>9, <1>10, <1>11, <1>12

\* The response becomes the batch: it lies beyond everything saved before.
LEMMA SaveRevisionStep ==
    ASSUME IInv, SaveRevision
    PROVE  IInv'
  <1> USE DEF IInv
  <1>1. /\ revision' = Reached /\ disk' = Reached /\ batch' = response /\ response' = {}
        /\ pc = "save" /\ pc' = "dispatch" /\ retry' = RetryDelay
        /\ UNCHANGED <<log, queue, busy, cancelled, started, skipped, failures, stops>>
    BY DEF SaveRevision, history, bounds
  <1>2. /\ log \in Seq(Lanes) /\ Len(log) \in Nat /\ DOMAIN log = 1..Len(log)
        /\ disk \in Nat /\ revision \in Nat /\ disk <= revision
        /\ Len(log) <= MaxRevision
    BY DEF TypeOK
  <1>3. /\ Reached \in DOMAIN log \cup {0} /\ revision <= Reached
        /\ response = (revision + 1)..Reached
    BY ReachedIsLast
  <1>4. Reached \in Nat /\ disk <= Reached /\ batch = {}
    BY <1>1, <1>2, <1>3 DEF Stages
  <1>5. TypeOK'
    <2>1. RetryDelay \in RetryDelay..MaxRetryDelay
      BY ListenerAssumption
    <2> QED BY <1>1, <1>3, <1>4, <2>1 DEF TypeOK, PCs
  <1>6. Queued' = Queued /\ \A l \in Lanes : QueueOf(l)' = QueueOf(l)
    BY <1>1 DEF Queued, InQueue, QueueOf
  <1>7. \A r \in Queued : r \in Nat /\ r <= disk
    BY <1>2 DEF Saved, Queued
  <1>8. Stages' /\ Contiguous' /\ QueuesSorted' /\ AtMostOnce'
    BY <1>1 DEF Stages, Contiguous, QueuesSorted, AtMostOnce
  <1>9. Saved'
    <2>1. \A r \in 1..MaxRevision : started'[r] > 0 => r <= disk'
      BY <1>1, <1>2, <1>4 DEF Saved
    <2>2. \A r \in response \cup Queued : r <= Reached
      BY <1>2, <1>3, <1>4, <1>7
    <2> QED BY <1>1, <1>6, <2>1, <2>2 DEF Saved
  <1>10. InSequence'
    <2>1. \A r \in DOMAIN log : r \in Nat /\ r \in 1..MaxRevision /\ log[r] \in Lanes
      BY <1>2, ListenerAssumption
    <2>2. \A s \in response : s \in Nat /\ s > disk
      BY <1>2, <1>3
    <2>3. \A l \in Lanes : \A r \in QueueOf(l) : r \in Queued
      BY QueuedIsAllQueues
    <2>4. \A l \in Lanes : \A r \in DOMAIN log : started[r] > 0 \/ r \in QueueOf(l) => r <= disk
      BY <1>7, <2>1, <2>3 DEF Saved
    <2> SUFFICES ASSUME NEW l \in Lanes, NEW r \in DOMAIN log, NEW s \in DOMAIN log,
                        log[r] = l, log[s] = l
                 PROVE  /\ started[r] > 0 /\ s \in response \cup QueueOf(l) => r < s
                        /\ r \in QueueOf(l) /\ s \in response => r < s
      BY <1>1, <1>6 DEF InSequence
    <2>5. s \in response /\ (started[r] > 0 \/ r \in QueueOf(l)) => r < s
      BY <1>2, <2>1, <2>2, <2>4
    <2>6. started[r] > 0 /\ s \in QueueOf(l) => r < s
      BY DEF InSequence
    <2> QED BY <2>5, <2>6
  <1>11. NothingForgotten'
    <2>1. \A r \in 1..Reached : r \in 1..revision \/ r \in response
      BY <1>2, <1>3, <1>4
    <2> QED BY <1>1, <1>4, <1>6, <2>1 DEF NothingForgotten
  <1> QED BY <1>5, <1>8, <1>9, <1>10, <1>11

\* The next operation of the batch enters the queue of its lane: it follows
\* those in the queue and precedes the rest of the batch.
LEMMA EnqueueStep ==
    ASSUME IInv, Enqueue
    PROVE  IInv'
  <1> USE DEF IInv
  <1>1. /\ log \in Seq(Lanes) /\ Len(log) \in Nat /\ DOMAIN log = 1..Len(log)
        /\ batch \subseteq DOMAIN log /\ Len(log) <= MaxRevision /\ batch # {}
    BY DEF TypeOK, Enqueue
  <1>2. NextOf(batch) \in batch /\ \A s \in batch : log[s] = log[NextOf(batch)] => NextOf(batch) <= s
    BY <1>1, NextOfIsFirst
  <1>3. PICK r \in DOMAIN log, l \in Lanes : r = NextOf(batch) /\ l = log[r]
    BY <1>1, <1>2
  <1>4. /\ pc = "dispatch" /\ Len(queue[l]) < QueueSize[l]
        /\ queue' = [queue EXCEPT ![l] = Append(@, r)] /\ batch' = batch \ {r}
        /\ UNCHANGED <<log, disk, revision, pc, response, busy, retry, cancelled,
                       started, skipped, failures, stops>>
    BY <1>3 DEF Enqueue, session, history, bounds
  <1>5. /\ queue' \in [Lanes -> Seq(DOMAIN log)]
        /\ \A k \in Lanes \ {l} : queue'[k] = queue[k]
        /\ Len(queue'[l]) = Len(queue[l]) + 1
        /\ DOMAIN queue'[l] = 1..(Len(queue[l]) + 1)
        /\ \A i \in 1..Len(queue[l]) : queue'[l][i] = queue[l][i]
        /\ queue'[l][Len(queue[l]) + 1] = r
        /\ QueueOf(l)' = QueueOf(l) \cup {r}
    BY <1>4, AppendToQueue
  <1>6. Len(queue[l]) \in Nat /\ DOMAIN queue[l] = 1..Len(queue[l])
    BY DEF TypeOK
  <1>7. TypeOK'
    <2>1. \A k \in Lanes : Len(queue'[k]) <= QueueSize[k]
      BY <1>4, <1>5, <1>6, ListenerAssumption DEF TypeOK
    <2> QED BY <1>4, <1>5, <2>1 DEF TypeOK
  <1>8. Stages' /\ Contiguous' /\ AtMostOnce'
    BY <1>1, <1>4 DEF Stages, Contiguous, AtMostOnce
  <1>9. \A k \in Lanes \ {l} : QueueOf(k)' = QueueOf(k)
    BY <1>5 DEF QueueOf
  <1>10. \A s : s \in Queued' <=> s \in Queued \cup {r}
    <2>1. \A s : s \in Queued' <=> \E k \in Lanes : s \in QueueOf(k)'
      <3>1. \A k \in Lanes : \A i \in DOMAIN queue'[k] : queue'[k][i] \in DOMAIN log'
        BY <1>7 DEF TypeOK
      <3> QED BY <3>1 DEF Queued, InQueue, QueueOf
    <2> QED BY <1>5, <1>9, <2>1, QueuedIsAllQueues
  <1>11. Saved' /\ NothingForgotten'
    BY <1>2, <1>3, <1>4, <1>10 DEF Saved, NothingForgotten
  <1>12. QueuesSorted'
    <2>1. \A i \in 1..Len(queue[l]) : queue[l][i] < r
      <3> SUFFICES ASSUME NEW i \in 1..Len(queue[l]) PROVE queue[l][i] < r
        OBVIOUS
      <3>1. queue[l][i] \in DOMAIN log
        BY <1>6 DEF TypeOK
      <3>2. log[queue[l][i]] = l /\ queue[l][i] \in QueueOf(l)
        BY <1>6 DEF QueuesSorted, QueueOf
      <3> QED BY <1>2, <1>3, <3>1, <3>2 DEF InSequence
    <2>2. \A i \in DOMAIN queue'[l] : log[queue'[l][i]] = l
      <3>1. \A i \in 1..Len(queue[l]) : log[queue[l][i]] = l
        BY <1>6 DEF QueuesSorted
      <3>2. \A i \in DOMAIN queue'[l] : i \in 1..Len(queue[l]) \/ i = Len(queue[l]) + 1
        BY <1>5, <1>6
      <3>3. \A i \in 1..Len(queue[l]) : log[queue'[l][i]] = l
        BY <1>5, <3>1
      <3>4. log[queue'[l][Len(queue[l]) + 1]] = l
        BY <1>3, <1>5
      <3> QED BY <3>2, <3>3, <3>4
    <2>3. \A i, j \in DOMAIN queue'[l] : i < j => queue'[l][i] < queue'[l][j]
      <3> SUFFICES ASSUME NEW i \in 1..(Len(queue[l]) + 1), NEW j \in 1..(Len(queue[l]) + 1), i < j
                   PROVE  queue'[l][i] < queue'[l][j]
        BY <1>5
      <3>1. i \in 1..Len(queue[l])
        BY <1>6
      <3>2. CASE j \in 1..Len(queue[l])
        BY <1>5, <1>6, <3>1, <3>2 DEF QueuesSorted
      <3>3. CASE j = Len(queue[l]) + 1
        BY <1>5, <2>1, <3>1, <3>3
      <3> QED BY <1>6, <3>2, <3>3
    <2> QED BY <1>4, <1>5, <2>2, <2>3 DEF QueuesSorted
  <1>13. InSequence'
    <2> SUFFICES ASSUME NEW k \in Lanes, NEW a \in DOMAIN log, NEW b \in DOMAIN log,
                        log[a] = k, log[b] = k
                 PROVE  /\ started[a] > 0 /\ b \in batch' \cup QueueOf(k)' => a < b
                        /\ a \in QueueOf(k)' /\ b \in batch' => a < b
      BY <1>4 DEF InSequence
    <2>1. a \in Nat /\ b \in Nat /\ r \in Nat
      BY <1>1
    <2>2. k = l /\ b \in batch' => r < b
      BY <1>2, <1>3, <1>4, <2>1
    <2> QED BY <1>2, <1>3, <1>4, <1>5, <1>9, <2>1, <2>2 DEF InSequence
  <1> QED BY <1>7, <1>8, <1>11, <1>12, <1>13

\* A worker takes the first operation of a queue: none of its lane that is
\* still on its way comes before it, and it was never taken before.
LEMMA TakeStep ==
    ASSUME IInv, NEW l \in Lanes, Take(l)
    PROVE  /\ IInv'
           /\ \A r \in DOMAIN log : log[r] = l /\ started[r] > 0 => r < Head(queue[l])
  <1> USE DEF IInv
  <1>1. /\ queue[l] # <<>> /\ queue' = [queue EXCEPT ![l] = Tail(@)]
        /\ UNCHANGED <<log, disk, revision, pc, response, batch, retry, cancelled, skipped,
                       failures, stops>>
    BY DEF Take, session, bounds
  <1>2. /\ queue' \in [Lanes -> Seq(DOMAIN log)]
        /\ \A k \in Lanes \ {l} : queue'[k] = queue[k]
        /\ Len(queue[l]) \in Nat \ {0} /\ Len(queue'[l]) = Len(queue[l]) - 1
        /\ DOMAIN queue[l] = 1..Len(queue[l])
        /\ DOMAIN queue'[l] = 1..(Len(queue[l]) - 1)
        /\ \A i \in 1..(Len(queue[l]) - 1) : queue'[l][i] = queue[l][i + 1]
        /\ Head(queue[l]) = queue[l][1] /\ Head(queue[l]) \in DOMAIN log
        /\ QueueOf(l) = QueueOf(l)' \cup {Head(queue[l])}
    BY <1>1, TakeFromQueue
  <1>3. PICK r \in DOMAIN log : r = Head(queue[l]) /\ r = queue[l][1]
    BY <1>2
  <1>4. busy' = busy \cup {r} /\ started' = [started EXCEPT ![r] = @ + 1]
    BY <1>3 DEF Take
  <1>5. /\ log \in Seq(Lanes) /\ Len(log) \in Nat /\ DOMAIN log = 1..Len(log)
        /\ Len(log) <= MaxRevision /\ MaxRevision \in Nat
    BY ListenerAssumption DEF TypeOK
  <1>6. /\ r \in Nat /\ r \in 1..MaxRevision
        /\ started'[r] = started[r] + 1 /\ started[r] \in Nat
        /\ \A s \in 1..MaxRevision \ {r} : started'[s] = started[s]
    BY <1>4, <1>5 DEF TypeOK
  <1>7. TypeOK'
    <2>1. \A k \in Lanes : Len(queue'[k]) <= QueueSize[k]
      BY <1>1, <1>2, ListenerAssumption DEF TypeOK
    <2>2. started' \in [1..MaxRevision -> Nat]
      BY <1>4, <1>6 DEF TypeOK
    <2> QED BY <1>1, <1>2, <1>4, <2>1, <2>2 DEF TypeOK
  <1>8. \A k \in Lanes \ {l} : QueueOf(k)' = QueueOf(k)
    BY <1>2 DEF QueueOf
  <1>9. \A s : s \in Queued => s \in Queued' \cup {r}
    <2>1. \A s : s \in Queued' <=> \E k \in Lanes : s \in QueueOf(k)'
      <3>1. \A k \in Lanes : \A i \in DOMAIN queue'[k] : queue'[k][i] \in DOMAIN log'
        BY <1>7 DEF TypeOK
      <3> QED BY <3>1 DEF Queued, InQueue, QueueOf
    <2> QED BY <1>2, <1>3, <1>8, <2>1, QueuedIsAllQueues
  <1>10. r \in QueueOf(l) /\ log[r] = l
    BY <1>2, <1>3 DEF QueuesSorted, QueueOf
  <1>11. Queued' \subseteq Queued /\ r \in Queued
    <2>1. \A k \in Lanes : QueueOf(k)' \subseteq QueueOf(k)
      BY <1>2, <1>8
    <2>2. \A s \in Queued' : \E k \in Lanes : s \in QueueOf(k)'
      BY DEF Queued, InQueue, QueueOf
    <2> QED BY <1>10, <2>1, <2>2, QueuedIsAllQueues
  <1>12. \A s \in DOMAIN log : log[s] = l /\ started[s] > 0 => s < r
    BY <1>10 DEF InSequence
  <1>13. started[r] = 0
    BY <1>6, <1>10, <1>12
  <1>14. \A s \in QueueOf(l)' \cup batch : s \in DOMAIN log /\ log[s] = l => r < s
    <2>1. \A i \in 1..(Len(queue[l]) - 1) : r < queue'[l][i]
      <3> SUFFICES ASSUME NEW i \in 1..(Len(queue[l]) - 1) PROVE r < queue[l][i + 1]
        BY <1>2
      <3>1. 1 \in DOMAIN queue[l] /\ i + 1 \in DOMAIN queue[l] /\ 1 < i + 1
        BY <1>2
      <3> QED BY <1>3, <3>1 DEF QueuesSorted
    <2>2. \A s \in QueueOf(l)' : r < s
      BY <1>2, <2>1 DEF QueueOf
    <2>3. \A s \in batch : s \in DOMAIN log /\ log[s] = l => r < s
      BY <1>10 DEF InSequence
    <2> QED BY <2>2, <2>3
  <1>15. Stages' /\ Contiguous'
    BY <1>1 DEF Stages, Contiguous
  <1>16. Saved'
    BY <1>1, <1>6, <1>11 DEF Saved
  <1>17. QueuesSorted'
    <2>1. \A i \in DOMAIN queue'[l] : log[queue'[l][i]] = l
      BY <1>2 DEF QueuesSorted
    <2>2. \A i, j \in DOMAIN queue'[l] : i < j => queue'[l][i] < queue'[l][j]
      <3> SUFFICES ASSUME NEW i \in 1..(Len(queue[l]) - 1), NEW j \in 1..(Len(queue[l]) - 1), i < j
                   PROVE  queue'[l][i] < queue'[l][j]
        BY <1>2
      <3>1. i + 1 \in DOMAIN queue[l] /\ j + 1 \in DOMAIN queue[l] /\ i + 1 < j + 1
        BY <1>2
      <3>2. queue[l][i + 1] < queue[l][j + 1]
        BY <3>1 DEF QueuesSorted
      <3> QED BY <1>2, <3>2
    <2> QED BY <1>1, <1>2, <2>1, <2>2 DEF QueuesSorted
  <1>18. InSequence'
    <2> SUFFICES ASSUME NEW k \in Lanes, NEW a \in DOMAIN log, NEW b \in DOMAIN log,
                        log[a] = k, log[b] = k
                 PROVE  /\ started'[a] > 0 /\ b \in batch \cup QueueOf(k)' => a < b
                        /\ a \in QueueOf(k)' /\ b \in batch => a < b
      BY <1>1 DEF InSequence
    <2>1. a \in 1..MaxRevision /\ (a # r => started'[a] = started[a])
      BY <1>5, <1>6
    <2>2. QueueOf(k)' \subseteq QueueOf(k)
      BY <1>2, <1>8
    <2> QED BY <1>10, <1>14, <2>1, <2>2 DEF InSequence
  <1>19. AtMostOnce'
    BY <1>6, <1>13 DEF AtMostOnce
  <1>20. NothingForgotten'
    <2> SUFFICES ASSUME NEW s \in 1..revision
                 PROVE  started'[s] > 0 \/ s \in response \cup batch \cup Queued' \cup skipped
      BY <1>1 DEF NothingForgotten
    <2>1. s \in 1..MaxRevision
      BY <1>5 DEF TypeOK
    <2> QED BY <1>6, <1>9, <2>1 DEF NothingForgotten
  <1> QED BY <1>3, <1>7, <1>12, <1>15, <1>16, <1>17, <1>18, <1>19, <1>20

\* What a crash destroys is accounted for as skipped.
LEMMA CrashStep ==
    ASSUME IInv, Crash
    PROVE  IInv'
  <1> USE DEF IInv
  <1>1. /\ pc' = "down" /\ skipped' = skipped \cup batch \cup Queued
        /\ response' = {} /\ batch' = {} /\ busy' = {} /\ queue' = [l \in Lanes |-> <<>>]
        /\ UNCHANGED <<log, disk, revision, retry, cancelled, started, failures>>
    BY DEF Crash, session
  <1>2. \A l \in Lanes : queue'[l] = <<>> /\ QueueOf(l)' = {}
    BY <1>1 DEF QueueOf
  <1>3. Queued' = {}
    BY <1>2 DEF Queued, InQueue
  <1>4. TypeOK'
    <2>1. stops' \in 0..MaxStops
      BY ListenerAssumption DEF Crash, TypeOK
    <2>2. queue' \in [Lanes -> Seq(DOMAIN log)] /\ \A l \in Lanes : Len(queue'[l]) <= QueueSize[l]
      BY <1>1, ListenerAssumption
    <2>3. Queued \subseteq DOMAIN log
      BY DEF Queued
    <2> QED BY <1>1, <2>1, <2>2, <2>3 DEF TypeOK, PCs
  <1>5. Stages' /\ Contiguous' /\ AtMostOnce'
    BY <1>1 DEF Stages, Contiguous, AtMostOnce
  <1>6. Saved' /\ QueuesSorted' /\ InSequence'
    BY <1>1, <1>2, <1>3 DEF Saved, QueuesSorted, InSequence
  <1>7. NothingForgotten'
    <2>1. \A r \in 1..revision : r \notin response
      BY DEF Contiguous, TypeOK
    <2> QED BY <1>1, <2>1 DEF NothingForgotten
  <1> QED BY <1>4, <1>5, <1>6, <1>7

\* Every step preserves the invariant.
LEMMA NextInvariant == IInv /\ [Next]_vars => IInv'
  <1> SUFFICES ASSUME IInv, [Next]_vars PROVE IInv'
    OBVIOUS
  <1>1. CASE \E l \in Lanes : NewOperation(l)
    BY <1>1, NewOperationStep
  <1>2. CASE \E l \in Lanes : Work(l)
    BY <1>2, TakeStep, QuietSteps DEF Work
  <1>3. CASE Start \/ StartLatest \/ FetchFullSync \/ SaveElsewhere \/ Cancel
    BY <1>3, QuietSteps
  <1>4. CASE Listen
    BY <1>4, QuietSteps, SaveRevisionStep, EnqueueStep DEF Listen, SyncOnce
  <1>5. CASE Crash
    BY <1>5, CrashStep
  <1>6. CASE UNCHANGED vars
    <2>1. UNCHANGED <<log, disk, revision, pc, response, batch, queue, busy, retry, cancelled,
                      started, skipped, failures, stops>>
      BY <1>6 DEF vars, session, work, history, bounds
    <2>2. (TypeOK /\ Stages /\ Contiguous)'
      BY <2>1 DEF IInv, TypeOK, Stages, Contiguous
    <2>3. (Saved /\ QueuesSorted /\ InSequence /\ AtMostOnce)' /\ Queued' = Queued
      BY <2>1, QuietStep DEF IInv, TypeOK
    <2>4. NothingForgotten'
      BY <2>1, <2>3 DEF IInv, NothingForgotten
    <2> QED BY <2>2, <2>3, <2>4 DEF IInv
  <1> QED BY <1>1, <1>2, <1>3, <1>4, <1>5, <1>6 DEF Next

-----------------------------------------------------------------------------
(* The theorems.                                                           *)

\* The invariant holds in every state the listener reaches.
THEOREM Invariant == Spec => []IInv
  <1>1. Init => IInv
    BY InitInvariant
  <1>2. IInv /\ [Next]_vars => IInv'
    BY NextInvariant
  <1> QED BY <1>1, <1>2, PTL DEF Spec

\* The state keeps its types; the saved revision never passes the one in
\* memory, and no queue outgrows its capacity.
THEOREM TypeCorrect == Spec => []TypeOK
  <1>1. IInv => TypeOK
    BY DEF IInv
  <1> QED BY <1>1, Invariant, PTL

\* No operation is given to the handler twice, across crashes, restarts and
\* failing saves.
THEOREM HandledAtMostOnce == Spec => []AtMostOnce
  <1>1. IInv => AtMostOnce
    BY DEF IInv
  <1> QED BY <1>1, Invariant, PTL

\* Every operation up to the revision was handled, is on its way to a handler
\* or was skipped by one of the steps that may skip.
THEOREM NoneForgotten == Spec => []NothingForgotten
  <1>1. IInv => NothingForgotten
    BY DEF IInv
  <1> QED BY <1>1, Invariant, PTL

\* The workers of a lane are given its operations in the order of the
\* revisions.
THEOREM LanesInOrder == Spec => InOrder
  <1> DEFINE Ordered == \A l \in Lanes : Take(l) =>
                           \A r \in DOMAIN log : log[r] = l /\ started[r] > 0 => r < Head(queue[l])
  <1>1. IInv => Ordered
    BY TakeStep
  <1>2. IInv /\ [Next]_vars => [Ordered]_vars
    BY <1>1
  <1> QED BY <1>2, Invariant, PTL DEF Spec, InOrder
=============================================================================
