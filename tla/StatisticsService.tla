-------------------------- MODULE StatisticsService --------------------------
(***************************************************************************)
(* statistics-service: the events of account-service on their way through  *)
(* statistics.event.queue to AccountEventConsumer, its retries, the dead   *)
(* letters, and the saves and reads of StatisticsController beside it.     *)
(*                                                                         *)
(* Every node runs one listener thread of each queue.  consume is          *)
(* @Transactional under REPEATABLE READ: its first select fixes what it    *)
(* reads of data_point, its write waits for and holds the row lock, and    *)
(* only Commit makes it visible.  The same save called by PUT /{account}   *)
(* commits statement by statement.                                         *)
(*                                                                         *)
(* save writes the row of today only, so data_point is one row for each    *)
(* account here; what it holds is named by the event or PUT that wrote it. *)
(***************************************************************************)
EXTENDS Naturals, Sequences

CONSTANTS Events,       \* event ids
          Puts,         \* PUT /statistics/{account} requests
          Readers,      \* GET /statistics/{account} requests
          Accounts,     \* account names
          Nodes,        \* instances of statistics-service
          NoEntry,      \* a cache miss
          NoOne,        \* owner of a free row, author of a missing row
          AccountOf,    \* AccountOf[x]: the account an event or request is about
          NodeOf,       \* NodeOf[x]: the node the gateway routes a request to
          ItemEvents,   \* ITEM_ADDED and ITEM_DELETED events; the others save nothing
          Poison,       \* item events whose snapshot save cannot add up
          MaxAttempts,  \* account.event.retry.max-attempts
          MaxCopies,    \* bound: MaxCopies[e], copies of e the broker is sent
          MaxFaults     \* bound: calls that throw and nodes that crash

VARIABLES sent,         \* copies of each event published so far
          queue,        \* statistics.event.queue
          inbox,        \* messages delivered to the listener of a node, unacked
          dlq,          \* the dead-letter queue
          burial,       \* the dead letter the DLQ listener of a node works on
          processed,    \* rows of processed_event
          point,        \* rows of data_point
          rowLock,      \* the node whose transaction has written the row
          pc,           \* where each thread is
          seen,         \* the data_point row a writer has read
          tried,        \* failed attempts at the message a listener works on
          view,         \* the row a reader has read
          l1, l2,       \* the "statistics" cache
          faults,       \* faults so far
          applied,      \* history: saves of each account in commit order
          unrecorded,   \* history: dead letters whose tombstone could not be written
          raced         \* history: accounts read and written at the same time

INSTANCE TwoLevelCache WITH Keys <- Accounts

cacheVars == <<l1, l2>>
broker    == <<sent, queue, inbox, dlq, burial>>
tables    == <<processed, point, rowLock>>
history   == <<applied, unrecorded, raced>>
vars == <<sent, queue, inbox, dlq, burial, processed, point, rowLock, pc, seen, tried,
          view, l1, l2, faults, applied, unrecorded, raced>>

-----------------------------------------------------------------------------
(* Types *)

Writers == Nodes \cup Puts

Threads == Writers \cup Readers

Records == {"none", "processed", "dead"}

Point == [version : Nat, by : Events \cup Puts \cup {NoOne}]

NoPoint == [version |-> 0, by |-> NoOne]

Labels == {"idle", "save", "evictL2", "evictL1", "record", "ack", "reject",
           "start", "getL2", "load", "putL2", "putL1", "backfill", "done",
           "failed", "crashed"}

ASSUME StatisticsAssumption ==
  /\ NoOne \notin Events \cup Puts \cup Nodes
  /\ NoEntry \notin Point
  /\ Nodes \cap (Puts \cup Readers \cup Events) = {}
  /\ Puts \cap (Readers \cup Events) = {}
  /\ AccountOf \in [Events \cup Puts \cup Readers -> Accounts]
  /\ NodeOf \in [Puts \cup Readers -> Nodes]
  /\ Poison \subseteq ItemEvents /\ ItemEvents \subseteq Events
  /\ MaxAttempts \in Nat \ {0} /\ MaxFaults \in Nat
  /\ MaxCopies \in [Events -> Nat]

TypeOK ==
  /\ sent \in [Events -> Nat] /\ \A e \in Events : sent[e] <= MaxCopies[e]
  /\ queue \in Seq(Events)
  /\ inbox \in [Nodes -> Seq(Events)]
  /\ dlq \in Seq(Events)
  /\ burial \in [Nodes -> Events \cup {NoOne}]
  /\ processed \in [Events -> Records]
  /\ point \in [Accounts -> Point]
  /\ rowLock \in [Accounts -> Nodes \cup {NoOne}]
  /\ pc \in [Threads -> Labels]
  /\ seen \in [Writers -> Point]
  /\ tried \in [Nodes -> 0..(MaxAttempts - 1)]
  /\ view \in [Readers -> Point]
  /\ CacheTypeOK(Point)
  /\ faults \in 0..MaxFaults
  /\ applied \in [Accounts -> Seq(Events \cup Puts)]
  /\ unrecorded \subseteq Events
  /\ raced \subseteq Accounts

-----------------------------------------------------------------------------
(* Vocabulary *)

\* The message a listener works on, from its first attempt to its ack.
Message(m) == inbox[m][1]

\* What a write of thread w is the work of: its message, or the PUT itself.
Author(w) == IF w \in Nodes THEN Message(w) ELSE w

Account(w) == AccountOf[Author(w)]

HomeOf(t) == IF t \in Nodes THEN t ELSE NodeOf[t]

Goto(t, from, to) == pc[t] = from /\ pc' = [pc EXCEPT ![t] = to]

\* The transaction of node m has evicted the Redis entry and has not committed.
HasEvicted(m) == m # NoOne /\ pc[m] \in {"evictL1", "record"}

\* A reader has read a row and has not put it into Redis.
Filling(r) == pc[r] = "putL2"

-----------------------------------------------------------------------------
(* The decisions of the code.  Variants whose name ends in _F are faults the     *)
(* properties below are known to notice; nothing uses them.                      *)

OneTry_F(m) == FALSE

OneMoreTry_F(m) == tried[m] < MaxAttempts

WithoutVersion_F(w) == TRUE

Upsert_F(e) == "dead"

\* consume has not seen the event in processed_event.
NotProcessed(m) == processed[Message(m)] = "none"

\* The retry interceptor goes for another attempt.
AnotherAttempt(m) == tried[m] + 1 < MaxAttempts

\* The WHERE of updateById: the version as it was read.
VersionMatches(w) == point[Account(w)].version = seen[w].version

\* What the broker queues again of what m had not acked: at its old place.
Requeued(m) == inbox[m] \o queue

\* What the row of e holds after the insert of a tombstone was tried.
Tombstone(e) == IF processed[e] = "none" THEN "dead" ELSE processed[e]

\* Nobody else's transaction holds the row of w's account.
RowFree(w) == rowLock[Account(w)] \in {NoOne, w}

-----------------------------------------------------------------------------
Init ==
  /\ sent = [e \in Events |-> 0]
  /\ queue = <<>>
  /\ inbox = [m \in Nodes |-> <<>>]
  /\ dlq = <<>>
  /\ burial = [m \in Nodes |-> NoOne]
  /\ processed = [e \in Events |-> "none"]
  /\ point = [a \in Accounts |-> NoPoint]
  /\ rowLock = [a \in Accounts |-> NoOne]
  /\ pc = [t \in Threads |-> IF t \in Nodes THEN "idle" ELSE "start"]
  /\ seen = [w \in Writers |-> NoPoint]
  /\ tried = [m \in Nodes |-> 0]
  /\ view = [r \in Readers |-> NoPoint]
  /\ CacheInit
  /\ faults = 0
  /\ applied = [a \in Accounts |-> <<>>]
  /\ unrecorded = {}
  /\ raced = {}

-----------------------------------------------------------------------------
(* The broker *)

\* account-service publishes an event, or the network repeats it.
Publish(e) ==
  /\ sent[e] < MaxCopies[e]
  /\ sent' = [sent EXCEPT ![e] = @ + 1]
  /\ queue' = Append(queue, e)
  /\ UNCHANGED <<inbox, dlq, burial, tables, pc, seen, tried, view, cacheVars, faults,
                 history>>

\* The broker pushes ahead of the acks (prefetch), to any node.
Deliver(m) ==
  /\ queue # <<>>
  /\ queue' = Tail(queue)
  /\ inbox' = [inbox EXCEPT ![m] = Append(@, queue[1])]
  /\ UNCHANGED <<sent, dlq, burial, tables, pc, seen, tried, view, cacheVars, faults,
                 history>>

-----------------------------------------------------------------------------
(* consume and save *)

\* The attempt throws: the transaction rolls back, the interceptor tries again or
\* lets the container reject the message.
FailAttempt(m) ==
  /\ rowLock' = [a \in Accounts |-> IF rowLock[a] = m THEN NoOne ELSE rowLock[a]]
  /\ IF AnotherAttempt(m)
     THEN tried' = [tried EXCEPT ![m] = @ + 1] /\ pc' = [pc EXCEPT ![m] = "idle"]
     ELSE tried' = [tried EXCEPT ![m] = 0] /\ pc' = [pc EXCEPT ![m] = "reject"]

\* One row written by w becomes what everyone reads.
Install(w) ==
  /\ point' = [point EXCEPT ![Account(w)] =
                 [version |-> IF seen[w] = NoPoint THEN 0 ELSE seen[w].version + 1,
                  by |-> Author(w)]]
  /\ applied' = [applied EXCEPT ![Account(w)] = Append(@, Author(w))]
  /\ raced' = IF \E r \in Readers : AccountOf[r] = Account(w) /\ Filling(r)
              THEN raced \cup {Account(w)} ELSE raced

\* selectCount on processed_event.  It opens the snapshot of the transaction, so
\* it decides what the selectOne of save is going to read, too.
Count(m) ==
  /\ pc[m] = "idle" /\ inbox[m] # <<>>
  /\ \/ /\ ~NotProcessed(m)
        /\ Goto(m, "idle", "ack")
        /\ UNCHANGED <<seen, tried, rowLock>>
     \/ /\ NotProcessed(m) /\ Message(m) \notin ItemEvents
        /\ Goto(m, "idle", "record")
        /\ UNCHANGED <<seen, tried, rowLock>>
     \/ /\ NotProcessed(m) /\ Message(m) \in ItemEvents \ Poison
        /\ Goto(m, "idle", "save")
        /\ seen' = [seen EXCEPT ![m] = point[Account(m)]]
        /\ UNCHANGED <<tried, rowLock>>
     \/ /\ NotProcessed(m) /\ Message(m) \in Poison
        /\ FailAttempt(m) /\ UNCHANGED seen
  /\ UNCHANGED <<broker, processed, point, view, cacheVars, faults, history>>

\* The selectOne of a save outside any transaction.
SelectPoint(p) ==
  /\ Goto(p, "start", "save")
  /\ seen' = [seen EXCEPT ![p] = point[Account(p)]]
  /\ UNCHANGED <<broker, tables, tried, view, cacheVars, faults, history>>

\* consume without @Transactional.
WithoutTransaction_F(w) ==
  Goto(w, "save", "evictL2") /\ Install(w) /\ UNCHANGED <<rowLock, tried>>

\* What insert or updateById does to the row: a transaction locks it until Commit,
\* a PUT commits at once.
Write(w) ==
  /\ Goto(w, "save", "evictL2")
  /\ \/ /\ w \in Nodes
        /\ rowLock' = [rowLock EXCEPT ![Account(w)] = w]
        /\ UNCHANGED <<point, applied, raced>>
     \/ w \in Puts /\ Install(w) /\ UNCHANGED rowLock
  /\ UNCHANGED tried

\* uk_data_point_account_date: somebody inserted the row after w looked for it.
DuplicatePoint(w) ==
  /\ \/ w \in Nodes /\ FailAttempt(w)
     \/ w \in Puts /\ Goto(w, "save", "failed") /\ UNCHANGED <<tried, rowLock>>
  /\ UNCHANGED <<point, applied, raced>>

InsertPoint(w) ==
  /\ pc[w] = "save" /\ seen[w] = NoPoint /\ RowFree(w)
  /\ \/ point[Account(w)] = NoPoint /\ Write(w)
     \/ point[Account(w)] # NoPoint /\ DuplicatePoint(w)
  /\ UNCHANGED <<broker, processed, seen, view, cacheVars, faults, unrecorded>>

\* The number of rows updateById returns is not looked at.
UpdatePoint(w) ==
  /\ pc[w] = "save" /\ seen[w] # NoPoint /\ RowFree(w)
  /\ \/ VersionMatches(w) /\ Write(w)
     \/ /\ ~VersionMatches(w)
        /\ Goto(w, "save", "evictL2")
        /\ UNCHANGED <<point, rowLock, tried, applied, raced>>
  /\ UNCHANGED <<broker, processed, seen, view, cacheVars, faults, unrecorded>>

EvictsLocalOnly_F(w) ==
  /\ Goto(w, "evictL2", "evictL1")
  /\ UNCHANGED <<broker, tables, seen, tried, view, cacheVars, faults, history>>

\* @CacheEvict of save, inside the transaction of consume: Redis, then Caffeine.
EvictShared(w) ==
  /\ Goto(w, "evictL2", "evictL1")
  /\ EvictL2(Account(w))
  /\ UNCHANGED <<broker, tables, seen, tried, view, faults, history>>

EvictLocal(w) ==
  /\ Goto(w, "evictL1", IF w \in Nodes THEN "record" ELSE "done")
  /\ EvictL1(HomeOf(w), Account(w))
  /\ UNCHANGED <<broker, tables, seen, tried, view, faults, history>>

\* The insert into processed_event and the commit; two transactions with the same
\* event wait for each other at the insert, so that it decides with the commit.
CommitRows(m) ==
  /\ processed[Message(m)] = "none"
  /\ processed' = [processed EXCEPT ![Message(m)] = "processed"]
  /\ IF rowLock[Account(m)] = m THEN Install(m) ELSE UNCHANGED <<point, applied, raced>>

Commit(m) ==
  /\ pc[m] = "record"
  /\ \/ /\ CommitRows(m)
        /\ rowLock' = [a \in Accounts |-> IF rowLock[a] = m THEN NoOne ELSE rowLock[a]]
        /\ Goto(m, "record", "ack")
        /\ UNCHANGED tried
     \/ /\ processed[Message(m)] # "none"      \* uk_processed_event_event_id
        /\ FailAttempt(m)
        /\ UNCHANGED <<processed, point, applied, raced>>
  /\ UNCHANGED <<broker, seen, view, cacheVars, faults, unrecorded>>

\* AUTO acknowledgement after the listener returned.
Ack(m) ==
  /\ Goto(m, "ack", "idle")
  /\ inbox' = [inbox EXCEPT ![m] = Tail(@)]
  /\ tried' = [tried EXCEPT ![m] = 0]
  /\ UNCHANGED <<sent, queue, dlq, burial, tables, seen, view, cacheVars, faults, history>>

Requeues_F(m) ==
  /\ Goto(m, "reject", "idle")
  /\ UNCHANGED <<broker, tables, seen, tried, view, cacheVars, faults, history>>

\* A queue declared without deadLetterExchange.
NoDeadLetterExchange_F(m) ==
  /\ Goto(m, "reject", "idle")
  /\ inbox' = [inbox EXCEPT ![m] = Tail(@)]
  /\ UNCHANGED <<sent, queue, dlq, burial, tables, seen, tried, view, cacheVars, faults,
                 history>>

\* RejectAndDontRequeueRecoverer: the broker moves the message to the DLQ.
Reject(m) ==
  /\ Goto(m, "reject", "idle")
  /\ inbox' = [inbox EXCEPT ![m] = Tail(@)]
  /\ dlq' = Append(dlq, Message(m))
  /\ UNCHANGED <<sent, queue, burial, tables, seen, tried, view, cacheVars, faults, history>>

-----------------------------------------------------------------------------
(* onDeadLetter *)

TakeDeadLetter(m) ==
  /\ dlq # <<>> /\ burial[m] = NoOne
  /\ burial' = [burial EXCEPT ![m] = dlq[1]]
  /\ dlq' = Tail(dlq)
  /\ UNCHANGED <<sent, queue, inbox, tables, pc, seen, tried, view, cacheVars, faults,
                 history>>

\* The tombstone, unless the event has a row already (the duplicate key is caught),
\* then the ack.  A crash between the two repeats both, to the same effect.
Entomb(m) ==
  /\ burial[m] # NoOne
  /\ burial' = [burial EXCEPT ![m] = NoOne]
  /\ processed' = [processed EXCEPT ![burial[m]] = Tombstone(burial[m])]
  /\ UNCHANGED <<sent, queue, inbox, dlq, point, rowLock, pc, seen, tried, view,
                 cacheVars, faults, history>>

\* The insert throws; the catch block logs it and the message is acked all the same.
EntombFails(m) ==
  /\ burial[m] # NoOne /\ faults < MaxFaults
  /\ burial' = [burial EXCEPT ![m] = NoOne]
  /\ unrecorded' = unrecorded \cup {burial[m]}
  /\ faults' = faults + 1
  /\ UNCHANGED <<sent, queue, inbox, dlq, tables, pc, seen, tried, view, cacheVars,
                 applied, raced>>

-----------------------------------------------------------------------------
(* findByAccountName, @Cacheable *)

GetLocal(r) ==
  /\ \/ l1[NodeOf[r]][AccountOf[r]] # NoEntry /\ Goto(r, "start", "done")
     \/ l1[NodeOf[r]][AccountOf[r]] = NoEntry /\ Goto(r, "start", "getL2")
  /\ UNCHANGED <<broker, tables, seen, tried, view, cacheVars, faults, history>>

GetShared(r) ==
  /\ \/ /\ l2[AccountOf[r]] # NoEntry
        /\ Goto(r, "getL2", "backfill")
        /\ view' = [view EXCEPT ![r] = l2[AccountOf[r]]]
     \/ l2[AccountOf[r]] = NoEntry /\ Goto(r, "getL2", "load") /\ UNCHANGED view
  /\ UNCHANGED <<broker, tables, seen, tried, cacheVars, faults, history>>

LoadPoints(r) ==
  /\ Goto(r, "load", "putL2")
  /\ view' = [view EXCEPT ![r] = point[AccountOf[r]]]
  /\ UNCHANGED <<broker, tables, seen, tried, cacheVars, faults, history>>

FillShared(r) ==
  /\ Goto(r, "putL2", "putL1")
  /\ PutL2(AccountOf[r], view[r])
  /\ raced' = IF HasEvicted(rowLock[AccountOf[r]]) THEN raced \cup {AccountOf[r]} ELSE raced
  /\ UNCHANGED <<broker, tables, seen, tried, view, faults, applied, unrecorded>>

FillLocal(r) ==
  /\ pc[r] \in {"putL1", "backfill"}
  /\ pc' = [pc EXCEPT ![r] = "done"]
  /\ PutL1(NodeOf[r], AccountOf[r], view[r])
  /\ UNCHANGED <<broker, tables, seen, tried, view, faults, history>>

-----------------------------------------------------------------------------
(* Faults *)

\* A call of consume to MySQL or Redis throws.
AttemptFails(m) ==
  /\ faults < MaxFaults
  /\ pc[m] \in {"save", "evictL2", "record"} \/ (pc[m] = "idle" /\ inbox[m] # <<>>)
  /\ FailAttempt(m)
  /\ faults' = faults + 1
  /\ UNCHANGED <<broker, processed, point, seen, view, cacheVars, history>>

\* The commit takes effect and its acknowledgement is lost.
CommitLost(m) ==
  /\ faults < MaxFaults /\ pc[m] = "record"
  /\ CommitRows(m)
  /\ FailAttempt(m)
  /\ faults' = faults + 1
  /\ UNCHANGED <<broker, seen, view, cacheVars, unrecorded>>

\* A call of a PUT or GET throws: a 500.
RequestFails(x) ==
  /\ faults < MaxFaults
  /\ pc[x] \in {"save", "evictL2", "getL2", "load", "putL2"} \/ (pc[x] = "start" /\ x \in Puts)
  /\ pc' = [pc EXCEPT ![x] = "failed"]
  /\ faults' = faults + 1
  /\ UNCHANGED <<broker, tables, seen, tried, view, cacheVars, history>>

\* A node dies: its transaction rolls back, the broker takes back what it had not
\* acked, and the requests it served are gone.
Crash(m) ==
  /\ faults < MaxFaults
  /\ faults' = faults + 1
  /\ queue' = Requeued(m)
  /\ inbox' = [inbox EXCEPT ![m] = <<>>]
  /\ dlq' = IF burial[m] = NoOne THEN dlq ELSE <<burial[m]>> \o dlq
  /\ burial' = [burial EXCEPT ![m] = NoOne]
  /\ rowLock' = [a \in Accounts |-> IF rowLock[a] = m THEN NoOne ELSE rowLock[a]]
  /\ pc' = [t \in Threads |->
              CASE t = m -> "idle"
                [] t # m /\ HomeOf(t) = m /\ pc[t] \notin {"start", "done", "failed"} -> "crashed"
                [] OTHER -> pc[t]]
  /\ tried' = [tried EXCEPT ![m] = 0]
  /\ RestartL1(m)
  /\ UNCHANGED <<sent, processed, point, seen, view, history>>

CacheEntryExpires ==
  /\ CacheExpires
  /\ UNCHANGED <<broker, tables, pc, seen, tried, view, faults, history>>

-----------------------------------------------------------------------------
Save(w) == InsertPoint(w) \/ UpdatePoint(w) \/ EvictShared(w) \/ EvictLocal(w)

Consume(m) == Count(m) \/ Save(m) \/ Commit(m) \/ Ack(m) \/ Reject(m)

Bury(m) == TakeDeadLetter(m) \/ Entomb(m)

PutStatistics(p) == SelectPoint(p) \/ Save(p)

Find(r) == \/ GetLocal(r) \/ GetShared(r) \/ LoadPoints(r)
           \/ FillShared(r) \/ FillLocal(r)

Fault == \/ \E m \in Nodes : AttemptFails(m) \/ CommitLost(m) \/ EntombFails(m) \/ Crash(m)
         \/ \E x \in Puts \cup Readers : RequestFails(x)

Next == \/ \E e \in Events : Publish(e)
        \/ \E m \in Nodes : Deliver(m) \/ Consume(m) \/ Bury(m)
        \/ \E p \in Puts : PutStatistics(p)
        \/ \E r \in Readers : Find(r)
        \/ Fault \/ CacheEntryExpires

\* The broker delivers while a listener is connected, and listener and servlet
\* threads run; nobody owes an event, a fault or an expiry.
Fairness == /\ WF_vars(\E m \in Nodes : Deliver(m))
            /\ \A m \in Nodes : WF_vars(Consume(m)) /\ WF_vars(Bury(m))
            /\ \A p \in Puts : WF_vars(PutStatistics(p))
            /\ \A r \in Readers : WF_vars(Find(r))

Spec == Init /\ [][Next]_vars /\ Fairness

-----------------------------------------------------------------------------
(* Properties *)

\* The places a writer has in the saves of its account.
Effects(x) == {k \in 1..Len(applied[AccountOf[x]]) : applied[AccountOf[x]][k] = x}

\* The pipeline does what ExactlyOnce says: whatever the broker repeats, whichever
\* node dies and however the retries go, an event is settled once, for good, and
\* its save becomes visible in the step that records it.
Pipeline == INSTANCE ExactlyOnce WITH
  state  <- [e \in Events |-> CASE processed[e] # "none" -> processed[e]
                                [] processed[e] = "none" /\ sent[e] > 0 -> "pending"
                                [] OTHER -> "unsent"],
  effect <- [e \in Events |-> Effects(e)]

SettledOnce == Pipeline!Spec

\* Spec B2, story 3: no event is counted twice, and none is counted that the tables
\* do not show as processed: not one that was given up as dead either.
CountedOnceIfProcessed ==
  \A e \in Events : /\ \A j, k \in Effects(e) : j = k
                    /\ Effects(e) # {} => processed[e] = "processed"

\* An event leaves the broker only when processed_event has a row for it, or when
\* the tombstone of its dead letter could not be written and onDeadLetter swallowed
\* the exception.
NothingVanishes ==
  \A e \in Events :
    sent[e] > 0 /\ processed[e] = "none" /\ e \notin unrecorded =>
      \/ \E k \in 1..Len(queue) : queue[k] = e
      \/ \E k \in 1..Len(dlq) : dlq[k] = e
      \/ \E m \in Nodes : burial[m] = e \/ (\E k \in 1..Len(inbox[m]) : inbox[m][k] = e)

\* Only a poisonous snapshot or a failing dependency sends a message to the DLQ:
\* two nodes and a PUT that meet at the unique keys never use up the retries.
DeadLettersNeedFaults ==
  \A e \in Events \ Poison :
    faults = 0 => /\ \A k \in 1..Len(dlq) : dlq[k] # e
                  /\ \A m \in Nodes : /\ burial[m] # e
                                      /\ pc[m] = "reject" => Message(m) # e

\* A row holds the save that committed last, and its version counts the commits:
\* no save overwrites one it has not read (@Version on data_point).
PointIsLastSave ==
  \A a \in Accounts :
    IF applied[a] = <<>> THEN point[a] = NoPoint
    ELSE point[a] = [version |-> Len(applied[a]) - 1, by |-> applied[a][Len(applied[a])]]

\* L2 is stale only by a race the code leaves open: a reader was between select and
\* put when a save committed, or it put what it had read while a consumer, which
\* evicts before it commits, had not committed.
StaleOnlyByRace ==
  \A a \in Accounts :
    faults = 0 /\ a \notin raced /\ l2[a] \notin {NoEntry, point[a]}
      => \E p \in Puts : AccountOf[p] = a /\ pc[p] = "evictL2"

\* The comment of AccountEventConsumer: the data point and processed_event are
\* written together.  An item event is processed only with its data point saved.
ProcessedMeansSaved ==
  \A e \in ItemEvents : processed[e] = "processed" => Effects(e) # {}

\* Every event that was sent is settled in the end, although it may be repeated,
\* poisoned, or held by a node that dies.
EventSettles ==
  \A e \in Events : sent[e] > 0 ~> processed[e] # "none" \/ e \in unrecorded
=============================================================================
