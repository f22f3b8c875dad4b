----------------------- MODULE StatisticsService_proofs -----------------------
(***************************************************************************)
(* Theorems of StatisticsService about the rows and the cache, for every   *)
(* set of events, requests, accounts and nodes: types, data_point under    *)
(* its optimistic lock, and the freshness of Redis.                        *)
(*                                                                         *)
(* OnCourse ties the label of a listener to the message it works on.  Types*)
(* and every later invariant need it: the author of a write is the first   *)
(* message of the inbox, which must be there.                              *)
(***************************************************************************)
EXTENDS StatisticsService, SequenceTheorems, TLAPS

USE StatisticsAssumption DEF StatisticsAssumption

\* The bookkeeping definitions that every step expands.
USE DEF cacheVars, broker, tables, history, Goto

-----------------------------------------------------------------------------
(* A thread is at a call of its own kind, and a listener past "idle" has a      *)
(* message that brought it there.                                               *)

\* The labels of the three kinds of thread.
ListenerCalls == {"idle", "save", "evictL2", "evictL1", "record", "ack", "reject"}

PutCalls == {"start", "save", "evictL2", "evictL1", "done", "failed", "crashed"}

ReaderCalls == {"start", "getL2", "load", "putL2", "putL1", "backfill", "done", "failed",
                "crashed"}

\* What the label of listener m says of its message.
MessageFits(m) ==
  /\ pc[m] # "idle" => inbox[m] # <<>>
  /\ pc[m] = "idle" /\ inbox[m] = <<>> => tried[m] = 0
  /\ pc[m] \in {"save", "evictL2", "evictL1"} => Message(m) \in ItemEvents \ Poison
  /\ pc[m] = "record" => Message(m) \notin Poison
  /\ pc[m] = "ack" => processed[Message(m)] # "none"
  /\ pc[m] = "reject" => tried[m] = 0

OnCourse ==
  /\ \A m \in Nodes : pc[m] \in ListenerCalls
  /\ \A p \in Puts : pc[p] \in PutCalls
  /\ \A r \in Readers : pc[r] \in ReaderCalls
  /\ \A m \in Nodes : MessageFits(m)

Typed == TypeOK /\ OnCourse

-----------------------------------------------------------------------------
(* Lemmas about sequences and messages *)

\* What arrives behind others leaves the first one where it is, and is the last.
LEMMA AppendKeepsFirst ==
  ASSUME NEW S, NEW s \in Seq(S), NEW x \in S
  PROVE  /\ Append(s, x) \in Seq(S)
         /\ Append(s, x) # <<>>
         /\ s # <<>> => Append(s, x)[1] = s[1]
         /\ Len(Append(s, x)) = Len(s) + 1
         /\ Append(s, x)[Len(s) + 1] = x
  <1>1. s # <<>> => 1 \in 1..Len(s)
    OBVIOUS
  <1> QED BY <1>1, AppendProperties

\* The message of a listener that has one is an event, its account an account.
LEMMA MessageIsEvent ==
  ASSUME TypeOK, NEW m \in Nodes, inbox[m] # <<>>
  PROVE  Message(m) \in Events
  <1>1. inbox[m] \in Seq(Events)
    BY DEF TypeOK
  <1> HIDE DEF StatisticsAssumption
  <1> QED BY <1>1 DEF Message

\* A writer at work has an author and an account.
LEMMA AuthorKnown ==
  ASSUME Typed, NEW w \in Writers, w \in Nodes => inbox[w] # <<>>
  PROVE  Author(w) \in Events \cup Puts /\ Account(w) \in Accounts
  BY MessageIsEvent DEF Typed, Author, Account, Writers

-----------------------------------------------------------------------------
(* Types *)

LEMMA TypedInit == Init => Typed
  <1> SUFFICES ASSUME Init PROVE Typed
    OBVIOUS
  <1>1. TypeOK
    BY DEF Init, TypeOK, Point, NoPoint, Labels, Records, Threads, Writers, CacheInit,
           CacheTypeOK, EmptyL1
  <1>2. /\ \A m \in Nodes : pc[m] = "idle" /\ inbox[m] = <<>> /\ tried[m] = 0
        /\ \A t \in Puts \cup Readers : pc[t] = "start"
    BY DEF Init, Threads, Writers
  <1>3. OnCourse
    BY <1>2 DEF OnCourse, ListenerCalls, PutCalls, ReaderCalls, MessageFits
  <1> QED BY <1>1, <1>3 DEF Typed

\* A failed attempt keeps the types of what it resets.
LEMMA TypeFailAttempt ==
  ASSUME TypeOK, NEW m \in Nodes, FailAttempt(m)
  PROVE  /\ rowLock' \in [Accounts -> Nodes \cup {NoOne}]
         /\ tried' \in [Nodes -> 0..(MaxAttempts - 1)]
         /\ pc' \in [Threads -> Labels]
  <1>1. rowLock' \in [Accounts -> Nodes \cup {NoOne}]
    BY DEF TypeOK, FailAttempt
  <1>2. tried' \in [Nodes -> 0..(MaxAttempts - 1)]
    <2>1. tried \in [Nodes -> 0..(MaxAttempts - 1)]
      BY DEF TypeOK
    <2>2. CASE AnotherAttempt(m)
      <3>1. tried[m] + 1 \in 0..(MaxAttempts - 1)
        BY <2>1, <2>2 DEF AnotherAttempt
      <3>2. tried' = [tried EXCEPT ![m] = tried[m] + 1]
        BY <2>2 DEF FailAttempt
      <3> QED BY <2>1, <3>1, <3>2
    <2>3. CASE ~AnotherAttempt(m)
      BY <2>1, <2>3 DEF FailAttempt
    <2> QED BY <2>2, <2>3
  <1>3. pc' \in [Threads -> Labels]
    BY DEF TypeOK, FailAttempt, Threads, Writers, Labels
  <1> QED BY <1>1, <1>2, <1>3

\* What a writer installs is a row.
LEMMA TypeInstall ==
  ASSUME Typed, NEW w \in Writers, w \in Nodes => inbox[w] # <<>>, Install(w)
  PROVE  /\ point' \in [Accounts -> Point]
         /\ applied' \in [Accounts -> Seq(Events \cup Puts)]
         /\ raced' \subseteq Accounts
  <1>1. Author(w) \in Events \cup Puts /\ Account(w) \in Accounts
    BY AuthorKnown
  <1>2. seen[w] \in Point
    BY DEF Typed, TypeOK
  <1> DEFINE row == [version |-> IF seen[w] = NoPoint THEN 0 ELSE seen[w].version + 1,
                     by |-> Author(w)]
  <1>3. row \in Point
    BY <1>1, <1>2 DEF Point
  <1>4. point' = [point EXCEPT ![Account(w)] = row]
    BY DEF Install
  <1> HIDE DEF row
  <1>5. point' \in [Accounts -> Point]
    BY <1>3, <1>4 DEF Typed, TypeOK
  <1>6. Append(applied[Account(w)], Author(w)) \in Seq(Events \cup Puts)
    BY <1>1 DEF Typed, TypeOK
  <1>7. applied' \in [Accounts -> Seq(Events \cup Puts)]
    BY <1>6 DEF Typed, TypeOK, Install
  <1>8. raced' \subseteq Accounts
    BY <1>1 DEF Typed, TypeOK, Install
  <1> QED BY <1>5, <1>7, <1>8

LEMMA TypeSave ==
  ASSUME Typed, NEW w \in Writers, Save(w)
  PROVE  TypeOK'
  <1>0. w \in Nodes => inbox[w] # <<>>
    BY DEF Typed, OnCourse, MessageFits, Save, InsertPoint, UpdatePoint, EvictShared, EvictLocal,
           Writers
  <1>1. Author(w) \in Events \cup Puts /\ Account(w) \in Accounts /\ HomeOf(w) \in Nodes
    BY <1>0, AuthorKnown DEF HomeOf, Writers
  <1>2. ASSUME Write(w), UNCHANGED <<broker, processed, seen, view, cacheVars, faults, unrecorded>>
        PROVE  TypeOK'
    <2>1. CASE w \in Nodes
      BY <1>1, <1>2, <2>1 DEF Write, Typed, TypeOK, CacheTypeOK, Labels, Threads, Writers
    <2>2. CASE w \in Puts
      <3>1. Install(w) /\ UNCHANGED <<rowLock, tried>>
        BY <1>2, <2>2 DEF Write
      <3>2. /\ point' \in [Accounts -> Point]
            /\ applied' \in [Accounts -> Seq(Events \cup Puts)]
            /\ raced' \subseteq Accounts
        BY <1>0, <3>1, TypeInstall
      <3>3. pc' \in [Threads -> Labels]
        BY <1>2 DEF Write, Typed, TypeOK, Labels
      <3> QED BY <1>2, <3>1, <3>2, <3>3 DEF Typed, TypeOK, CacheTypeOK
    <2> QED BY <2>1, <2>2 DEF Writers
  <1>3. CASE InsertPoint(w)
    <2>1. CASE Write(w)
      BY <1>2, <1>3, <2>1 DEF InsertPoint
    <2>2. CASE DuplicatePoint(w)
      <3>1. CASE w \in Nodes /\ FailAttempt(w)
        BY <1>3, <2>2, <3>1, TypeFailAttempt DEF InsertPoint, DuplicatePoint, Typed, TypeOK, CacheTypeOK
      <3>2. CASE Goto(w, "save", "failed") /\ UNCHANGED <<tried, rowLock>>
        BY <1>3, <2>2, <3>2 DEF InsertPoint, DuplicatePoint, Typed, TypeOK, CacheTypeOK, Labels
      <3> QED BY <2>2, <3>1, <3>2 DEF DuplicatePoint
    <2> QED BY <1>3, <2>1, <2>2 DEF InsertPoint
  <1>4. CASE UpdatePoint(w)
    <2>1. CASE Write(w)
      BY <1>2, <1>4, <2>1 DEF UpdatePoint
    <2>2. CASE ~Write(w)
      BY <1>4, <2>2 DEF UpdatePoint, Typed, TypeOK, CacheTypeOK, Labels
    <2> QED BY <2>1, <2>2
  <1>5. CASE EvictShared(w)
    BY <1>1, <1>5 DEF EvictShared, EvictL2, PutL2, Typed, TypeOK, CacheTypeOK, Labels
  <1>6. CASE EvictLocal(w)
    BY <1>1, <1>6 DEF EvictLocal, EvictL1, PutL1, Typed, TypeOK, CacheTypeOK, Labels
  <1> QED BY <1>3, <1>4, <1>5, <1>6 DEF Save

LEMMA TypeCommitRows ==
  ASSUME Typed, NEW m \in Nodes, pc[m] = "record", CommitRows(m)
  PROVE  /\ processed' \in [Events -> Records]
         /\ point' \in [Accounts -> Point]
         /\ applied' \in [Accounts -> Seq(Events \cup Puts)]
         /\ raced' \subseteq Accounts
  <1>1. inbox[m] # <<>>
    BY DEF Typed, OnCourse, MessageFits
  <1>2. processed' \in [Events -> Records]
    BY DEF CommitRows, Typed, TypeOK, Records
  <1>3. CASE Install(m)
    BY <1>1, <1>2, <1>3, TypeInstall DEF Writers
  <1>4. CASE UNCHANGED <<point, applied, raced>>
    BY <1>2, <1>4 DEF Typed, TypeOK
  <1> QED BY <1>3, <1>4 DEF CommitRows

LEMMA TypeConsume ==
  ASSUME Typed, NEW m \in Nodes, Consume(m)
  PROVE  TypeOK'
  <1>1. CASE Count(m)
    <2>1. Message(m) \in Events
      BY <1>1, MessageIsEvent DEF Count, Typed
    <2>2. Account(m) \in Accounts
      BY <2>1 DEF Account, Author
    <2>3. CASE FailAttempt(m) /\ UNCHANGED seen
      BY <1>1, <2>3, TypeFailAttempt DEF Count, Typed, TypeOK, CacheTypeOK
    <2>4. CASE /\ \E l \in {"ack", "record", "save"} : Goto(m, "idle", l)
               /\ seen' = [seen EXCEPT ![m] = point[Account(m)]] \/ UNCHANGED seen
               /\ UNCHANGED <<tried, rowLock>>
      <3>1. seen' \in [Writers -> Point] /\ pc' \in [Threads -> Labels]
        BY <2>2, <2>4 DEF Typed, TypeOK, Labels, Writers
      <3> QED BY <1>1, <2>4, <3>1 DEF Count, Typed, TypeOK, CacheTypeOK
    <2> QED BY <1>1, <2>3, <2>4 DEF Count
  <1>2. CASE Save(m)
    BY <1>2, TypeSave DEF Writers
  <1>3. CASE Commit(m)
    <2>1. CASE CommitRows(m)
      <3>1. /\ processed' \in [Events -> Records]
            /\ point' \in [Accounts -> Point]
            /\ applied' \in [Accounts -> Seq(Events \cup Puts)]
            /\ raced' \subseteq Accounts
        BY <1>3, <2>1, TypeCommitRows DEF Commit
      <3>2. /\ rowLock' = [a \in Accounts |-> IF rowLock[a] = m THEN NoOne ELSE rowLock[a]]
            /\ Goto(m, "record", "ack")
            /\ UNCHANGED tried
        BY <1>3, <2>1 DEF Commit, CommitRows
      <3>3. /\ rowLock' \in [Accounts -> Nodes \cup {NoOne}]
            /\ pc' \in [Threads -> Labels]
        BY <3>2 DEF Typed, TypeOK, Labels
      <3>4. UNCHANGED <<broker, seen, tried, view, cacheVars, faults, unrecorded>>
        BY <1>3, <3>2 DEF Commit
      <3> HIDE DEF Goto
      <3> QED BY <3>1, <3>3, <3>4 DEF Typed, TypeOK, CacheTypeOK
    <2>2. CASE FailAttempt(m) /\ UNCHANGED <<processed, point, applied, raced>>
      BY <1>3, <2>2, TypeFailAttempt DEF Commit, Typed, TypeOK, CacheTypeOK
    <2> QED BY <1>3, <2>1, <2>2 DEF Commit
  <1>4. CASE Ack(m)
    <2>1. inbox[m] # <<>>
      BY <1>4 DEF Ack, Typed, OnCourse, MessageFits
    <2>2. Tail(inbox[m]) \in Seq(Events)
      BY <2>1 DEF Typed, TypeOK
    <2>3. inbox' \in [Nodes -> Seq(Events)] /\ pc' \in [Threads -> Labels]
      BY <1>4, <2>2 DEF Ack, Typed, TypeOK, Labels
    <2>4. 0 \in 0..(MaxAttempts - 1)
      OBVIOUS
    <2>5. tried' \in [Nodes -> 0..(MaxAttempts - 1)]
      BY <1>4, <2>4 DEF Ack, Typed, TypeOK
    <2> QED BY <1>4, <2>3, <2>5 DEF Ack, Typed, TypeOK, CacheTypeOK
  <1>5. CASE Reject(m)
    <2>1. inbox[m] # <<>>
      BY <1>5 DEF Reject, Typed, OnCourse, MessageFits
    <2>2. Message(m) \in Events
      BY <2>1, MessageIsEvent DEF Typed
    <2>3. Tail(inbox[m]) \in Seq(Events) /\ Append(dlq, Message(m)) \in Seq(Events)
      BY <2>1, <2>2 DEF Typed, TypeOK
    <2> QED BY <1>5, <2>3 DEF Reject, Typed, TypeOK, CacheTypeOK, Labels
  <1> QED BY <1>1, <1>2, <1>3, <1>4, <1>5 DEF Consume

LEMMA TypeDeadLetter ==
  ASSUME TypeOK, NEW m \in Nodes, Bury(m) \/ EntombFails(m)
  PROVE  TypeOK'
  <1>1. CASE TakeDeadLetter(m)
    <2>1. dlq[1] \in Events /\ Tail(dlq) \in Seq(Events)
      BY <1>1 DEF TakeDeadLetter, TypeOK
    <2> QED BY <1>1, <2>1 DEF TakeDeadLetter, TypeOK, CacheTypeOK
  <1>2. CASE Entomb(m)
    <2>1. burial[m] \in Events
      BY <1>2 DEF Entomb, TypeOK
    <2>2. Tombstone(burial[m]) \in Records
      BY <2>1 DEF Tombstone, Records, TypeOK
    <2> QED BY <1>2, <2>2 DEF Entomb, TypeOK, CacheTypeOK
  <1>3. CASE EntombFails(m)
    BY <1>3 DEF EntombFails, TypeOK, CacheTypeOK
  <1> QED BY <1>1, <1>2, <1>3 DEF Bury

LEMMA TypeFind ==
  ASSUME TypeOK, NEW r \in Readers, Find(r)
  PROVE  TypeOK'
  <1> USE DEF TypeOK, CacheTypeOK, Labels
  <1>1. CASE GetLocal(r)
    BY <1>1 DEF GetLocal
  <1>2. CASE GetShared(r)
    BY <1>2 DEF GetShared
  <1>3. CASE LoadPoints(r)
    BY <1>3 DEF LoadPoints
  <1>4. CASE FillShared(r)
    <2>1. l2' \in [Accounts -> Point \cup {NoEntry}] /\ raced' \subseteq Accounts
      BY <1>4 DEF FillShared, PutL2
    <2> QED BY <1>4, <2>1 DEF FillShared, PutL2
  <1>5. CASE FillLocal(r)
    BY <1>5 DEF FillLocal, PutL1
  <1> QED BY <1>1, <1>2, <1>3, <1>4, <1>5 DEF Find

LEMMA TypeFault ==
  ASSUME Typed, Fault
  PROVE  TypeOK'
  <1>1. ASSUME NEW m \in Nodes, AttemptFails(m)
        PROVE  TypeOK'
    BY <1>1, TypeFailAttempt DEF AttemptFails, Typed, TypeOK, CacheTypeOK
  <1>2. ASSUME NEW m \in Nodes, CommitLost(m)
        PROVE  TypeOK'
    <2>1. /\ rowLock' \in [Accounts -> Nodes \cup {NoOne}]
          /\ tried' \in [Nodes -> 0..(MaxAttempts - 1)]
          /\ pc' \in [Threads -> Labels]
      BY <1>2, TypeFailAttempt DEF CommitLost, Typed
    <2>2. /\ processed' \in [Events -> Records]
          /\ point' \in [Accounts -> Point]
          /\ applied' \in [Accounts -> Seq(Events \cup Puts)]
          /\ raced' \subseteq Accounts
      BY <1>2, TypeCommitRows DEF CommitLost
    <2>3. /\ UNCHANGED <<broker, seen, view, cacheVars, unrecorded>>
          /\ faults' \in 0..MaxFaults
      BY <1>2 DEF CommitLost, Typed, TypeOK
    <2> QED BY <2>1, <2>2, <2>3 DEF Typed, TypeOK, CacheTypeOK
  <1>3. ASSUME NEW m \in Nodes, EntombFails(m)
        PROVE  TypeOK'
    BY <1>3, TypeDeadLetter DEF Typed
  <1>4. ASSUME NEW m \in Nodes, Crash(m)
        PROVE  TypeOK'
    <2>1. queue' \in Seq(Events)
      BY <1>4 DEF Crash, Requeued, Typed, TypeOK
    <2>2. dlq' \in Seq(Events)
      <3>1. CASE burial[m] = NoOne
        BY <1>4, <3>1 DEF Crash, Typed, TypeOK
      <3>2. CASE burial[m] # NoOne
        <4>1. <<burial[m]>> \in Seq(Events)
          BY <3>2 DEF Typed, TypeOK
        <4> QED BY <1>4, <3>2, <4>1 DEF Crash, Typed, TypeOK
      <3> QED BY <3>1, <3>2
    <2>3. /\ inbox' \in [Nodes -> Seq(Events)]
          /\ burial' \in [Nodes -> Events \cup {NoOne}]
          /\ rowLock' \in [Accounts -> Nodes \cup {NoOne}]
          /\ faults' \in 0..MaxFaults
      BY <1>4 DEF Crash, Typed, TypeOK
    <2>4. pc' \in [Threads -> Labels]
      BY <1>4 DEF Crash, Typed, TypeOK, Labels
    <2>5. tried' \in [Nodes -> 0..(MaxAttempts - 1)]
      <3>1. 0 \in 0..(MaxAttempts - 1)
        OBVIOUS
      <3> QED BY <1>4, <3>1 DEF Crash, Typed, TypeOK
    <2>6. CacheTypeOK(Point)'
      BY <1>4 DEF Crash, RestartL1, EmptyL1, Typed, TypeOK, CacheTypeOK
    <2> QED BY <1>4, <2>1, <2>2, <2>3, <2>4, <2>5, <2>6 DEF Crash, Typed, TypeOK
  <1>5. ASSUME NEW x \in Puts \cup Readers, RequestFails(x)
        PROVE  TypeOK'
    <2>1. pc' \in [Threads -> Labels]
      BY <1>5 DEF RequestFails, Typed, TypeOK, Labels
    <2>2. faults' \in 0..MaxFaults
      BY <1>5 DEF RequestFails, Typed, TypeOK
    <2> QED BY <1>5, <2>1, <2>2 DEF RequestFails, Typed, TypeOK, CacheTypeOK
  <1> QED BY <1>1, <1>2, <1>3, <1>4, <1>5 DEF Fault

LEMMA TypeNext ==
  ASSUME Typed, [Next]_vars
  PROVE  TypeOK'
  <1>1. ASSUME NEW e \in Events, Publish(e)
        PROVE  TypeOK'
    BY <1>1 DEF Publish, Typed, TypeOK, CacheTypeOK
  <1>2. ASSUME NEW m \in Nodes, Deliver(m)
        PROVE  TypeOK'
    <2>1. queue[1] \in Events /\ Tail(queue) \in Seq(Events)
      BY <1>2 DEF Deliver, Typed, TypeOK
    <2>2. Append(inbox[m], queue[1]) \in Seq(Events)
      BY <2>1 DEF Typed, TypeOK
    <2> QED BY <1>2, <2>1, <2>2 DEF Deliver, Typed, TypeOK, CacheTypeOK
  <1>3. ASSUME NEW m \in Nodes, Consume(m)
        PROVE  TypeOK'
    BY <1>3, TypeConsume
  <1>4. ASSUME NEW m \in Nodes, Bury(m)
        PROVE  TypeOK'
    BY <1>4, TypeDeadLetter DEF Typed
  <1>5. ASSUME NEW p \in Puts, PutStatistics(p)
        PROVE  TypeOK'
    <2>1. CASE SelectPoint(p)
      BY <2>1 DEF SelectPoint, Account, Author, Writers, Typed, TypeOK, CacheTypeOK, Labels
    <2>2. CASE Save(p)
      BY <2>2, TypeSave DEF Writers
    <2> QED BY <1>5, <2>1, <2>2 DEF PutStatistics
  <1>6. ASSUME NEW r \in Readers, Find(r)
        PROVE  TypeOK'
    BY <1>6, TypeFind DEF Typed
  <1>7. CASE Fault
    BY <1>7, TypeFault
  <1>8. CASE CacheEntryExpires
    <2>1. CacheTypeOK(Point)'
      <3>1. ASSUME NEW m \in Nodes, NEW k \in Accounts, ExpireL1(m, k)
            PROVE  CacheTypeOK(Point)'
        BY <3>1 DEF ExpireL1, EvictL1, PutL1, Typed, TypeOK, CacheTypeOK
      <3>2. ASSUME NEW k \in Accounts, ExpireL2(k)
            PROVE  CacheTypeOK(Point)'
        BY <3>2 DEF ExpireL2, EvictL2, PutL2, Typed, TypeOK, CacheTypeOK
      <3> QED BY <1>8, <3>1, <3>2 DEF CacheEntryExpires, CacheExpires
    <2> QED BY <1>8, <2>1 DEF CacheEntryExpires, Typed, TypeOK
  <1>9. CASE UNCHANGED vars
    BY <1>9 DEF vars, Typed, TypeOK, CacheTypeOK
  <1> QED BY <1>1, <1>2, <1>3, <1>4, <1>5, <1>6, <1>7, <1>8, <1>9 DEF Next

-----------------------------------------------------------------------------
(* The course of the threads *)

\* processed_event has a row for an event for good, and never changes it.
LEMMA ProcessedStays ==
  ASSUME TypeOK, [Next]_vars, NEW e \in Events, processed[e] # "none"
  PROVE  processed'[e] = processed[e]
  <1>1. ASSUME NEW m \in Nodes, CommitRows(m)
        PROVE  processed'[e] = processed[e]
    BY <1>1 DEF CommitRows, TypeOK
  <1>2. ASSUME NEW w \in Writers, Save(w)
        PROVE  UNCHANGED processed
    BY <1>2 DEF Save, InsertPoint, UpdatePoint, EvictShared, EvictLocal
  <1>3. ASSUME NEW m \in Nodes, Consume(m)
        PROVE  processed'[e] = processed[e]
    BY <1>1, <1>2, <1>3 DEF Consume, Count, Commit, Ack, Reject, Writers
  <1>4. ASSUME NEW m \in Nodes, Bury(m)
        PROVE  processed'[e] = processed[e]
    BY <1>4 DEF Bury, TakeDeadLetter, Entomb, Tombstone, TypeOK
  <1>5. ASSUME NEW p \in Puts, PutStatistics(p)
        PROVE  UNCHANGED processed
    BY <1>2, <1>5 DEF PutStatistics, SelectPoint, Writers
  <1>6. ASSUME NEW r \in Readers, Find(r)
        PROVE  UNCHANGED processed
    BY <1>6 DEF Find, GetLocal, GetShared, LoadPoints, FillShared, FillLocal
  <1>7. CASE Fault
    BY <1>1, <1>7 DEF Fault, AttemptFails, CommitLost, EntombFails, Crash, RequestFails
  <1> QED BY <1>3, <1>4, <1>5, <1>6, <1>7 DEF Next, Publish, Deliver, CacheEntryExpires, vars

\* The three kinds of thread keep to their own calls.
LEMMA CallsNext ==
  ASSUME Typed, [Next]_vars
  PROVE  /\ \A m \in Nodes : pc'[m] \in ListenerCalls
         /\ \A p \in Puts : pc'[p] \in PutCalls
         /\ \A r \in Readers : pc'[r] \in ReaderCalls
  <1> DEFINE Fine(t, l) == /\ t \in Nodes => l \in ListenerCalls
                           /\ t \in Puts => l \in PutCalls
                           /\ t \in Readers => l \in ReaderCalls
  <1> SUFFICES ASSUME NEW q \in Threads
               PROVE  Fine(q, pc'[q])
    BY DEF Threads, Writers
  <1>0. Fine(q, pc[q]) /\ pc \in [Threads -> Labels]
    BY DEF Typed, TypeOK, OnCourse
  <1> USE DEF ListenerCalls, PutCalls, ReaderCalls
  <1>1. ASSUME NEW m \in Nodes, FailAttempt(m)
        PROVE  Fine(q, pc'[q])
    BY <1>0, <1>1 DEF FailAttempt, Threads, Writers
  <1>2. ASSUME NEW w \in Writers, Save(w)
        PROVE  Fine(q, pc'[q])
    <2>1. CASE InsertPoint(w)
      BY <1>0, <1>1, <2>1 DEF InsertPoint, Write, DuplicatePoint, Writers
    <2>2. CASE UpdatePoint(w)
      BY <1>0, <2>2 DEF UpdatePoint, Write, Writers
    <2>3. CASE EvictShared(w)
      BY <1>0, <2>3 DEF EvictShared, Writers
    <2>4. CASE EvictLocal(w)
      BY <1>0, <2>4 DEF EvictLocal, Writers
    <2> QED BY <1>2, <2>1, <2>2, <2>3, <2>4 DEF Save
  <1>3. ASSUME NEW m \in Nodes, Consume(m)
        PROVE  Fine(q, pc'[q])
    <2>1. CASE Count(m)
      BY <1>0, <1>1, <2>1 DEF Count
    <2>2. CASE Save(m)
      BY <1>2, <2>2 DEF Writers
    <2>3. CASE Commit(m)
      BY <1>0, <1>1, <2>3 DEF Commit
    <2>4. CASE Ack(m) \/ Reject(m)
      BY <1>0, <2>4 DEF Ack, Reject
    <2> QED BY <1>3, <2>1, <2>2, <2>3, <2>4 DEF Consume
  <1>4. ASSUME NEW p \in Puts, PutStatistics(p)
        PROVE  Fine(q, pc'[q])
    BY <1>0, <1>2, <1>4 DEF PutStatistics, SelectPoint, Writers
  <1>5. ASSUME NEW r \in Readers, Find(r)
        PROVE  Fine(q, pc'[q])
    BY <1>0, <1>5 DEF Find, GetLocal, GetShared, LoadPoints, FillShared, FillLocal
  <1>6. CASE Fault
    <2>1. ASSUME NEW m \in Nodes, AttemptFails(m) \/ CommitLost(m)
          PROVE  Fine(q, pc'[q])
      BY <1>1, <2>1 DEF AttemptFails, CommitLost
    <2>2. ASSUME NEW m \in Nodes, EntombFails(m)
          PROVE  Fine(q, pc'[q])
      BY <1>0, <2>2 DEF EntombFails
    <2>3. ASSUME NEW m \in Nodes, Crash(m)
          PROVE  Fine(q, pc'[q])
      BY <1>0, <2>3 DEF Crash, HomeOf
    <2>4. ASSUME NEW x \in Puts \cup Readers, RequestFails(x)
          PROVE  Fine(q, pc'[q])
      BY <1>0, <2>4 DEF RequestFails
    <2> QED BY <1>6, <2>1, <2>2, <2>3, <2>4 DEF Fault
  <1> QED BY <1>0, <1>3, <1>4, <1>5, <1>6 DEF Next, Publish, Deliver, Bury, TakeDeadLetter,
             Entomb, CacheEntryExpires, vars

\* A step that leaves the listener, its inbox and its attempts alone keeps it on course.
LEMMA UntouchedFits ==
  ASSUME Typed, [Next]_vars, NEW q \in Nodes, MessageFits(q),
         pc'[q] = pc[q], inbox'[q] = inbox[q], tried'[q] = tried[q]
  PROVE  MessageFits(q)'
  <1>1. Message(q)' = Message(q)
    BY DEF Message
  <1>2. ASSUME pc[q] = "ack"
        PROVE  processed'[Message(q)] # "none"
    BY <1>2, MessageIsEvent, ProcessedStays DEF MessageFits, Typed
  <1> QED BY <1>1, <1>2 DEF MessageFits

\* A failed attempt leaves the listener with its message, to try again or to reject.
LEMMA FailedFits ==
  ASSUME TypeOK, NEW m \in Nodes, inbox[m] # <<>>, FailAttempt(m), UNCHANGED inbox
  PROVE  MessageFits(m)'
  <1>1. pc'[m] = "idle" \/ (pc'[m] = "reject" /\ tried'[m] = 0)
    BY DEF FailAttempt, TypeOK, Threads, Writers
  <1> QED BY <1>1 DEF MessageFits

LEMMA FitsConsume ==
  ASSUME Typed, NEW m \in Nodes, Consume(m)
  PROVE  MessageFits(m)'
  <1>0. /\ pc \in [Threads -> Labels] /\ m \in Threads /\ MessageFits(m)
        /\ inbox \in [Nodes -> Seq(Events)] /\ tried \in [Nodes -> 0..(MaxAttempts - 1)]
    BY DEF Typed, TypeOK, OnCourse, Threads, Writers
  <1>1. CASE Count(m)
    <2>1. Message(m)' = Message(m)
      BY <1>1 DEF Count, Message
    <2>2. CASE FailAttempt(m)
      BY <1>1, <2>2, FailedFits DEF Count, Typed
    <2>3. CASE ~FailAttempt(m)
      BY <1>0, <1>1, <2>1, <2>3 DEF Count, MessageFits, NotProcessed
    <2> QED BY <2>2, <2>3
  <1>2. CASE Save(m)
    <2>1. UNCHANGED <<inbox, processed>> /\ Message(m)' = Message(m) /\ inbox[m] # <<>>
      BY <1>0, <1>2 DEF Save, InsertPoint, UpdatePoint, EvictShared, EvictLocal, Message,
                        MessageFits
    <2>2. CASE FailAttempt(m)
      BY <2>1, <2>2, FailedFits DEF Typed
    <2>3. CASE ~FailAttempt(m)
      <3>1. \/ pc[m] = "save" /\ pc'[m] = "evictL2"
            \/ pc[m] = "evictL2" /\ pc'[m] = "evictL1"
            \/ pc[m] = "evictL1" /\ pc'[m] = "record"
        BY <1>0, <1>2, <2>3 DEF Save, InsertPoint, UpdatePoint, EvictShared, EvictLocal, Write,
                                DuplicatePoint
      <3> QED BY <1>0, <2>1, <3>1 DEF MessageFits
    <2> QED BY <2>2, <2>3
  <1>3. CASE Commit(m)
    <2>1. inbox[m] # <<>> /\ UNCHANGED inbox /\ Message(m)' = Message(m)
      BY <1>0, <1>3 DEF Commit, Message, MessageFits
    <2>2. CASE FailAttempt(m)
      BY <2>1, <2>2, FailedFits DEF Typed
    <2>3. CASE CommitRows(m) /\ Goto(m, "record", "ack")
      <3>1. processed'[Message(m)] = "processed"
        BY <2>1, <2>3, MessageIsEvent DEF CommitRows, Typed, TypeOK
      <3> QED BY <1>0, <2>1, <2>3, <3>1 DEF MessageFits
    <2> QED BY <1>3, <2>2, <2>3 DEF Commit
  <1>4. CASE Ack(m)
    <2>1. pc'[m] = "idle" /\ tried'[m] = 0
      BY <1>0, <1>4 DEF Ack
    <2> QED BY <2>1 DEF MessageFits
  <1>5. CASE Reject(m)
    BY <1>0, <1>5 DEF Reject, MessageFits
  <1> QED BY <1>1, <1>2, <1>3, <1>4, <1>5 DEF Consume


LEMMA CourseNext ==
  ASSUME Typed, [Next]_vars
  PROVE  OnCourse'
  <1> SUFFICES ASSUME NEW q \in Nodes
               PROVE  MessageFits(q)'
    BY CallsNext DEF OnCourse
  <1>0. /\ MessageFits(q) /\ q \in Threads /\ q \notin Puts \cup Readers
        /\ pc \in [Threads -> Labels] /\ tried \in [Nodes -> 0..(MaxAttempts - 1)]
        /\ inbox \in [Nodes -> Seq(Events)]
    BY DEF Typed, TypeOK, OnCourse, Threads, Writers
  <1>1. CASE pc'[q] = pc[q] /\ inbox'[q] = inbox[q] /\ tried'[q] = tried[q]
    BY <1>0, <1>1, UntouchedFits
  <1>2. ASSUME NEW m \in Nodes, m # q, FailAttempt(m)
        PROVE  pc'[q] = pc[q] /\ tried'[q] = tried[q]
    BY <1>0, <1>2 DEF FailAttempt
  <1>3. ASSUME NEW w \in Writers, w # q, Save(w)
        PROVE  MessageFits(q)'
    BY <1>0, <1>1, <1>2, <1>3 DEF Save, InsertPoint, UpdatePoint, EvictShared, EvictLocal, Write,
                                  DuplicatePoint
  <1>4. ASSUME NEW m \in Nodes, Deliver(m)
        PROVE  MessageFits(q)'
    <2>1. queue[1] \in Events /\ inbox[m] \in Seq(Events)
      BY <1>4 DEF Deliver, Typed, TypeOK
    <2>2. /\ Append(inbox[m], queue[1]) # <<>>
          /\ inbox[m] # <<>> => Append(inbox[m], queue[1])[1] = inbox[m][1]
      BY <2>1, AppendKeepsFirst
    <2>3. CASE m = q
      <3>1. inbox'[q] = Append(inbox[q], queue[1]) /\ UNCHANGED <<pc, tried, processed>>
        BY <1>0, <1>4, <2>3 DEF Deliver
      <3> QED BY <1>0, <2>2, <2>3, <3>1 DEF MessageFits, Message
    <2>4. CASE m # q
      BY <1>0, <1>1, <1>4, <2>4 DEF Deliver
    <2> QED BY <2>3, <2>4
  <1>5. ASSUME NEW m \in Nodes, Consume(m)
        PROVE  MessageFits(q)'
    <2>1. CASE m = q
      BY <1>5, <2>1, FitsConsume
    <2>2. CASE m # q
      <3>1. CASE Save(m)
        BY <1>3, <2>2, <3>1 DEF Writers
      <3>2. CASE ~Save(m)
        BY <1>0, <1>1, <1>2, <1>5, <2>2, <3>2 DEF Consume, Count, Commit, Ack, Reject
      <3> QED BY <3>1, <3>2
    <2> QED BY <2>1, <2>2
  <1>6. ASSUME NEW m \in Nodes, Bury(m)
        PROVE  MessageFits(q)'
    BY <1>1, <1>6 DEF Bury, TakeDeadLetter, Entomb
  <1>7. ASSUME NEW p \in Puts, PutStatistics(p)
        PROVE  MessageFits(q)'
    BY <1>0, <1>1, <1>3, <1>7 DEF PutStatistics, SelectPoint, Writers
  <1>8. ASSUME NEW r \in Readers, Find(r)
        PROVE  MessageFits(q)'
    BY <1>0, <1>1, <1>8 DEF Find, GetLocal, GetShared, LoadPoints, FillShared, FillLocal
  <1>9. CASE Fault
    <2>1. ASSUME NEW m \in Nodes, AttemptFails(m) \/ CommitLost(m)
          PROVE  MessageFits(q)'
      <3>1. CASE m = q
        <4>1. inbox[q] # <<>> /\ FailAttempt(q) /\ UNCHANGED inbox
          BY <1>0, <2>1, <3>1 DEF AttemptFails, CommitLost, MessageFits
        <4> QED BY <4>1, FailedFits DEF Typed
      <3>2. CASE m # q
        BY <1>1, <1>2, <2>1, <3>2 DEF AttemptFails, CommitLost
      <3> QED BY <3>1, <3>2
    <2>2. ASSUME NEW m \in Nodes, EntombFails(m)
          PROVE  MessageFits(q)'
      BY <1>1, <2>2 DEF EntombFails
    <2>3. ASSUME NEW m \in Nodes, Crash(m)
          PROVE  MessageFits(q)'
      <3>1. CASE m = q
        <4>1. pc'[q] = "idle" /\ tried'[q] = 0
          BY <1>0, <2>3, <3>1 DEF Crash
        <4> QED BY <4>1 DEF MessageFits
      <3>2. CASE m # q
        <4>1. pc'[q] = pc[q] /\ inbox'[q] = inbox[q] /\ tried'[q] = tried[q]
          BY <1>0, <2>3, <3>2 DEF Crash, HomeOf
        <4> QED BY <1>1, <4>1
      <3> QED BY <3>1, <3>2
    <2>4. ASSUME NEW x \in Puts \cup Readers, RequestFails(x)
          PROVE  MessageFits(q)'
      BY <1>0, <1>1, <2>4 DEF RequestFails
    <2> QED BY <1>9, <2>1, <2>2, <2>3, <2>4 DEF Fault
  <1> QED BY <1>1, <1>4, <1>5, <1>6, <1>7, <1>8, <1>9 DEF Next, Publish, CacheEntryExpires, vars

LEMMA AlwaysTyped == Spec => []Typed
  <1>1. Typed /\ [Next]_vars => Typed'
    BY TypeNext, CourseNext DEF Typed
  <1> QED BY <1>1, TypedInit, PTL DEF Spec

\* The types of the tables, the queues and the cache, for every set of events, requests
\* and nodes.
THEOREM TypeCorrect == Spec => []TypeOK
  <1>1. Typed => TypeOK
    BY DEF Typed
  <1> QED BY <1>1, AlwaysTyped, PTL


-----------------------------------------------------------------------------
(* The rows of data_point.  PointIsLastSave is not inductive: that a save may   *)
(* overwrite the row rests on the lock its transaction holds since it compared  *)
(* the versions, and on version 0 of a row never being taken for no row at all. *)

\* Two reads of a row found the same: none, or the same version of it.
SameRow(p, q) == (p = NoPoint <=> q = NoPoint) /\ p.version = q.version

\* A row that a writer has read is still there when it writes.
SeenExists(w) == pc[w] = "save" /\ seen[w] # NoPoint => point[Account(w)] # NoPoint

\* A transaction holds the lock of the row of its own event, has written it and has
\* not committed, and nobody has changed the row since it was read.
LockFits(a, m) ==
  rowLock[a] = m => /\ pc[m] \in {"evictL2", "evictL1", "record"}
                    /\ Account(m) = a
                    /\ SameRow(seen[m], point[a])

Rows ==
  /\ PointIsLastSave
  /\ \A w \in Writers : SeenExists(w)
  /\ \A a \in Accounts : \A m \in Nodes : LockFits(a, m)

\* A row is there exactly when a save of its account has committed.
LEMMA RowIffSaved ==
  ASSUME TypeOK, PointIsLastSave, NEW a \in Accounts
  PROVE  point[a] = NoPoint <=> applied[a] = <<>>
  <1>1. CASE applied[a] = <<>>
    BY <1>1 DEF PointIsLastSave
  <1>2. CASE applied[a] # <<>>
    <2>1. applied[a][Len(applied[a])] \in Events \cup Puts
      BY <1>2 DEF TypeOK
    <2>2. point[a].by = applied[a][Len(applied[a])]
      <3>1. point[a] = [version |-> Len(applied[a]) - 1, by |-> applied[a][Len(applied[a])]]
        BY <1>2 DEF PointIsLastSave
      <3> QED BY <3>1
    <2>3. point[a].by # NoPoint.by
      BY <2>1, <2>2 DEF NoPoint
    <2> QED BY <1>2, <2>3
  <1> QED BY <1>1, <1>2

\* A write over the row that was read adds the next save, and touches no other row.
LEMMA InstallNext ==
  ASSUME Typed, PointIsLastSave, NEW w \in Writers, w \in Nodes => inbox[w] # <<>>,
         SameRow(seen[w], point[Account(w)]), Install(w)
  PROVE  /\ PointIsLastSave'
         /\ point'[Account(w)] # NoPoint
         /\ \A a \in Accounts \ {Account(w)} : point'[a] = point[a]
  <1> DEFINE h == Account(w)
             s == applied[h]
  <1>1. h \in Accounts /\ Author(w) \in Events \cup Puts
    BY AuthorKnown
  <1>2. s \in Seq(Events \cup Puts) /\ seen[w] \in Point /\ point \in [Accounts -> Point]
        /\ applied \in [Accounts -> Seq(Events \cup Puts)]
    BY <1>1 DEF Typed, TypeOK
  <1>3. point'[h] = [version |-> IF seen[w] = NoPoint THEN 0 ELSE seen[w].version + 1,
                     by |-> Author(w)]
    BY <1>1, <1>2 DEF Install
  <1>4. applied'[h] = Append(s, Author(w))
    BY <1>1, <1>2 DEF Install
  <1>5. \A a \in Accounts \ {h} : point'[a] = point[a] /\ applied'[a] = applied[a]
    BY <1>1, <1>2 DEF Install
  <1>6. (IF seen[w] = NoPoint THEN 0 ELSE seen[w].version + 1) = Len(s)
    <2>1. CASE seen[w] = NoPoint
      <3>1. s = <<>>
        BY <1>1, <2>1, RowIffSaved DEF SameRow, Typed
      <3> QED BY <2>1, <3>1
    <2>2. CASE seen[w] # NoPoint
      <3>1. s # <<>>
        BY <1>1, <2>2, RowIffSaved DEF SameRow, Typed
      <3>2. point[h].version = Len(s) - 1
        <4>1. point[h] = [version |-> Len(s) - 1, by |-> s[Len(s)]]
          BY <1>1, <3>1 DEF PointIsLastSave
        <4> HIDE DEF h, s
        <4> QED BY <4>1
      <3> QED BY <1>2, <2>2, <3>1, <3>2 DEF SameRow
    <2> QED BY <2>1, <2>2
  <1>7. Append(s, Author(w)) # <<>> /\ Len(Append(s, Author(w))) = Len(s) + 1
        /\ Append(s, Author(w))[Len(s) + 1] = Author(w)
    <2>1. s \in Seq(Events \cup Puts) /\ Author(w) \in Events \cup Puts
      BY <1>1, <1>2
    <2> HIDE DEF s
    <2> QED BY <2>1, AppendKeepsFirst
  <1>8. point'[h] = [version |-> Len(applied'[h]) - 1, by |-> applied'[h][Len(applied'[h])]]
    <2>1. Len(applied'[h]) - 1 = Len(s)
      BY <1>2, <1>4, <1>7
    <2> HIDE DEF s, h
    <2> QED BY <1>3, <1>4, <1>6, <1>7, <2>1
  <1>9. \A a \in Accounts : IF applied'[a] = <<>> THEN point'[a] = NoPoint
          ELSE point'[a] = [version |-> Len(applied'[a]) - 1, by |-> applied'[a][Len(applied'[a])]]
    <2> TAKE a \in Accounts
    <2>1. CASE a = h
      BY <1>4, <1>7, <1>8, <2>1
    <2>2. CASE a # h
      <3>1. point'[a] = point[a] /\ applied'[a] = applied[a]
        BY <1>5, <2>2
      <3> QED BY <3>1 DEF PointIsLastSave
    <2> QED BY <2>1, <2>2
  <1>10. point'[h] # NoPoint
    BY <1>1, <1>3 DEF NoPoint
  <1> QED BY <1>5, <1>9, <1>10 DEF PointIsLastSave

\* Steps that read and write no row, at most give up a lock, and leave every writer that
\* needs the row with its message.
LEMMA RowsKept ==
  ASSUME Rows, UNCHANGED <<point, applied, seen>>,
         \A q \in Writers : pc'[q] = "save" => pc[q] = "save" /\ Author(q)' = Author(q),
         \A a \in Accounts : \A m \in Nodes :
           rowLock'[a] = m => /\ rowLock[a] = m
                              /\ pc'[m] \in {"evictL2", "evictL1", "record"}
                              /\ Author(m)' = Author(m)
  PROVE  Rows'
  <1>1. PointIsLastSave'
    BY DEF Rows, PointIsLastSave
  <1>2. \A w \in Writers : SeenExists(w)'
    BY DEF Rows, SeenExists, Account
  <1>3. \A a \in Accounts : \A m \in Nodes : LockFits(a, m)'
    BY DEF Rows, LockFits, Account, SameRow
  <1> QED BY <1>1, <1>2, <1>3 DEF Rows


\* Authors only depend on the inboxes.
LEMMA AuthorsStay ==
  ASSUME UNCHANGED inbox
  PROVE  \A w \in Writers : Author(w)' = Author(w) /\ Account(w)' = Account(w)
  BY DEF Author, Account, Message

\* A transaction that rolls back gives up its locks and has written nothing.
LEMMA RowsFail ==
  ASSUME Typed, Rows, NEW m \in Nodes, FailAttempt(m), UNCHANGED <<point, applied, seen, inbox>>
  PROVE  Rows'
  <1>0. pc \in [Threads -> Labels] /\ Writers \subseteq Threads /\ Nodes \subseteq Writers
    BY DEF Typed, TypeOK, Threads, Writers
  <1>1. \A q \in Writers : pc'[q] = "save" => pc[q] = "save" /\ Author(q)' = Author(q)
    BY <1>0, AuthorsStay DEF FailAttempt
  <1>2. \A a \in Accounts : \A n \in Nodes :
           rowLock'[a] = n => /\ rowLock[a] = n
                              /\ pc'[n] \in {"evictL2", "evictL1", "record"}
                              /\ Author(n)' = Author(n)
    BY <1>0, AuthorsStay DEF FailAttempt, Rows, LockFits
  <1> QED BY <1>1, <1>2, RowsKept

\* The write of a row that is as it was read: locked by a transaction, seen by everyone
\* when a PUT writes it.
LEMMA RowsWrite ==
  ASSUME Typed, Rows, NEW w \in Writers, Write(w), RowFree(w),
         SameRow(seen[w], point[Account(w)]), UNCHANGED <<seen, inbox>>
  PROVE  Rows'
  <1>0. /\ pc \in [Threads -> Labels] /\ Writers \subseteq Threads /\ Nodes \subseteq Writers
        /\ rowLock \in [Accounts -> Nodes \cup {NoOne}]
        /\ pc[w] = "save" /\ pc' = [pc EXCEPT ![w] = "evictL2"]
        /\ w \in Nodes => inbox[w] # <<>>
    BY DEF Typed, TypeOK, OnCourse, MessageFits, Threads, Writers, Write
  <1>1. Account(w) \in Accounts
    BY <1>0, AuthorKnown
  <1>2. CASE w \in Nodes
    <2>1. UNCHANGED <<point, applied>> /\ rowLock' = [rowLock EXCEPT ![Account(w)] = w]
      BY <1>2 DEF Write
    <2>2. \A q \in Writers : SeenExists(q)'
      BY <1>0, <2>1, AuthorsStay DEF Rows, SeenExists
    <2>3. ASSUME NEW a \in Accounts, NEW m \in Nodes, rowLock'[a] = m
          PROVE  /\ pc'[m] \in {"evictL2", "evictL1", "record"}
                 /\ Account(m)' = a
                 /\ SameRow(seen[m], point[a])
      <3>1. CASE a = Account(w)
        <4>1. m = w
          BY <1>0, <1>1, <2>1, <2>3, <3>1
        <4> QED BY <1>0, <3>1, <4>1, AuthorsStay
      <3>2. CASE a # Account(w)
        <4>1. rowLock[a] = m
          BY <1>0, <1>1, <2>1, <2>3, <3>2
        <4>2. LockFits(a, m)
          BY DEF Rows
        <4> QED BY <1>0, <4>1, <4>2, AuthorsStay DEF LockFits
      <3> QED BY <3>1, <3>2
    <2>4. \A a \in Accounts : \A m \in Nodes : LockFits(a, m)'
      BY <2>1, <2>3 DEF LockFits, SameRow
    <2>5. PointIsLastSave'
      BY <2>1 DEF Rows, PointIsLastSave
    <2> QED BY <2>2, <2>4, <2>5 DEF Rows
  <1>3. CASE w \in Puts
    <2>1. Install(w) /\ UNCHANGED rowLock
      BY <1>3 DEF Write
    <2>2. /\ PointIsLastSave'
          /\ point'[Account(w)] # NoPoint
          /\ \A a \in Accounts \ {Account(w)} : point'[a] = point[a]
      BY <1>0, <2>1, InstallNext DEF Rows
    <2>3. ASSUME NEW q \in Writers, pc'[q] = "save", seen[q] # NoPoint
          PROVE  point'[Account(q)] # NoPoint
      <3>1. pc[q] = "save" /\ (q \in Nodes => inbox[q] # <<>>)
        BY <1>0, <2>3 DEF Typed, OnCourse, MessageFits
      <3>2. Account(q) \in Accounts /\ point[Account(q)] # NoPoint
        BY <2>3, <3>1, AuthorKnown DEF Rows, SeenExists
      <3> QED BY <2>2, <3>2
    <2>4. \A q \in Writers : SeenExists(q)'
      BY <2>3, AuthorsStay DEF SeenExists
    <2>5. ASSUME NEW a \in Accounts, NEW m \in Nodes, rowLock[a] = m
          PROVE  LockFits(a, m)'
      <3>1. a # Account(w) /\ m # w
        BY <1>3, <2>5 DEF RowFree
      <3>2. point'[a] = point[a] /\ pc'[m] = pc[m] /\ LockFits(a, m)
        BY <1>0, <2>2, <3>1 DEF Rows
      <3> QED BY <1>0, <2>1, <2>5, <3>2, AuthorsStay DEF LockFits, SameRow
    <2>6. \A a \in Accounts : \A m \in Nodes : LockFits(a, m)'
      BY <2>1, <2>5 DEF LockFits
    <2> QED BY <2>2, <2>4, <2>6 DEF Rows
  <1> QED BY <1>2, <1>3 DEF Writers

LEMMA RowsSave ==
  ASSUME Typed, Rows, NEW w \in Writers, Save(w)
  PROVE  Rows'
  <1>0. /\ pc \in [Threads -> Labels] /\ Writers \subseteq Threads /\ Nodes \subseteq Writers
        /\ UNCHANGED <<seen, inbox>>
    BY DEF Typed, TypeOK, Threads, Writers, Save, InsertPoint, UpdatePoint, EvictShared,
           EvictLocal
  <1>1. ASSUME NEW l \in Labels, pc' = [pc EXCEPT ![w] = l], UNCHANGED <<point, applied, rowLock>>,
               l # "save", pc[w] \in {"evictL2", "evictL1"} /\ w \in Nodes =>
                             l \in {"evictL1", "record"}
        PROVE  Rows'
    <2>1. \A q \in Writers : pc'[q] = "save" => pc[q] = "save" /\ Author(q)' = Author(q)
      BY <1>0, <1>1, AuthorsStay
    <2>2. ASSUME NEW a \in Accounts, NEW m \in Nodes, rowLock'[a] = m
          PROVE  rowLock[a] = m /\ pc'[m] \in {"evictL2", "evictL1", "record"}
                 /\ Author(m)' = Author(m)
      <3>1. LockFits(a, m) /\ rowLock[a] = m
        BY <1>1, <2>2 DEF Rows
      <3>2. pc[m] \in {"evictL2", "evictL1", "record"}
        BY <3>1 DEF LockFits
      <3>3. m = w => pc[w] # "record"
        BY DEF Save, InsertPoint, UpdatePoint, EvictShared, EvictLocal
      <3> QED BY <1>0, <1>1, <3>1, <3>2, <3>3, AuthorsStay
    <2> QED BY <1>0, <1>1, <2>1, <2>2, RowsKept
  <1>2. CASE InsertPoint(w)
    <2>1. CASE point[Account(w)] = NoPoint /\ Write(w)
      BY <1>0, <1>2, <2>1, RowsWrite DEF InsertPoint, SameRow
    <2>2. CASE DuplicatePoint(w) /\ w \in Nodes /\ FailAttempt(w)
      BY <1>0, <2>2, RowsFail DEF DuplicatePoint
    <2>3. CASE DuplicatePoint(w) /\ Goto(w, "save", "failed") /\ UNCHANGED rowLock
      BY <1>0, <1>1, <2>3 DEF DuplicatePoint, Labels
    <2> QED BY <1>2, <2>1, <2>2, <2>3 DEF InsertPoint, DuplicatePoint
  <1>3. CASE UpdatePoint(w)
    <2>1. CASE VersionMatches(w) /\ Write(w)
      <3>1. SeenExists(w)
        BY DEF Rows
      <3>2. SameRow(seen[w], point[Account(w)])
        BY <1>3, <2>1, <3>1 DEF UpdatePoint, VersionMatches, SeenExists, SameRow
      <3> QED BY <1>0, <1>3, <2>1, <3>2, RowsWrite DEF UpdatePoint
    <2>2. CASE Goto(w, "save", "evictL2") /\ UNCHANGED <<point, rowLock, applied>>
      BY <1>1, <2>2 DEF Labels
    <2> QED BY <1>3, <2>1, <2>2 DEF UpdatePoint
  <1>4. CASE EvictShared(w)
    BY <1>1, <1>4 DEF EvictShared, Labels
  <1>5. CASE EvictLocal(w)
    BY <1>1, <1>5 DEF EvictLocal, Labels
  <1> QED BY <1>2, <1>3, <1>4, <1>5 DEF Save

\* The commit of a transaction: its row over the one it has locked.
LEMMA RowsCommit ==
  ASSUME Typed, Rows, NEW m \in Nodes, pc[m] = "record", CommitRows(m), UNCHANGED <<seen, inbox>>,
         rowLock' = [a \in Accounts |-> IF rowLock[a] = m THEN NoOne ELSE rowLock[a]],
         NEW l \in Labels \ {"save"}, pc' = [pc EXCEPT ![m] = l]
  PROVE  Rows'
  <1>0. /\ pc \in [Threads -> Labels] /\ Writers \subseteq Threads /\ Nodes \subseteq Writers
        /\ inbox[m] # <<>>
    BY DEF Typed, TypeOK, OnCourse, MessageFits, Threads, Writers
  <1>1. Account(m) \in Accounts
    BY <1>0, AuthorKnown
  <1>2. /\ PointIsLastSave'
        /\ \A a \in Accounts : point[a] # NoPoint => point'[a] # NoPoint
        /\ \A a \in Accounts : point'[a] = point[a] \/ (a = Account(m) /\ rowLock[a] = m)
    <2>1. CASE rowLock[Account(m)] = m
      <3>1. Install(m)
        BY <2>1 DEF CommitRows
      <3>2. SameRow(seen[m], point[Account(m)])
        BY <1>1, <2>1 DEF Rows, LockFits
      <3>3. /\ PointIsLastSave'
            /\ point'[Account(m)] # NoPoint
            /\ \A a \in Accounts \ {Account(m)} : point'[a] = point[a]
        BY <1>0, <3>1, <3>2, InstallNext DEF Rows
      <3> QED BY <2>1, <3>3
    <2>2. CASE rowLock[Account(m)] # m
      BY <2>2 DEF CommitRows, Rows, PointIsLastSave
    <2> QED BY <2>1, <2>2
  <1>3. ASSUME NEW q \in Writers, pc'[q] = "save", seen[q] # NoPoint
        PROVE  point'[Account(q)] # NoPoint
    <2>1. pc[q] = "save" /\ (q \in Nodes => inbox[q] # <<>>)
      BY <1>0, <1>3 DEF Typed, OnCourse, MessageFits
    <2>2. Account(q) \in Accounts /\ point[Account(q)] # NoPoint
      BY <1>3, <2>1, AuthorKnown DEF Rows, SeenExists
    <2> QED BY <1>2, <2>2
  <1>4. \A q \in Writers : SeenExists(q)'
    BY <1>3, AuthorsStay DEF SeenExists
  <1>5. ASSUME NEW a \in Accounts, NEW n \in Nodes, rowLock'[a] = n
        PROVE  LockFits(a, n)'
    <2>1. rowLock[a] = n /\ n # m
      BY <1>5
    <2>2. point'[a] = point[a] /\ pc'[n] = pc[n] /\ LockFits(a, n)
      BY <1>0, <1>2, <2>1 DEF Rows
    <2> QED BY <2>1, <2>2, AuthorsStay, <1>0 DEF LockFits, SameRow
  <1>6. \A a \in Accounts : \A n \in Nodes : LockFits(a, n)'
    BY <1>5 DEF LockFits
  <1> QED BY <1>2, <1>4, <1>6 DEF Rows


LEMMA RowsConsume ==
  ASSUME Typed, Rows, NEW m \in Nodes, Consume(m)
  PROVE  Rows'
  <1>0. /\ pc \in [Threads -> Labels] /\ Writers \subseteq Threads /\ Nodes \subseteq Writers
        /\ inbox \in [Nodes -> Seq(Events)] /\ seen \in [Writers -> Point]
    BY DEF Typed, TypeOK, Threads, Writers
  <1>1. ASSUME UNCHANGED <<point, applied, rowLock, seen>>, pc[m] \in {"idle", "ack", "reject"},
               pc' = [pc EXCEPT ![m] = pc'[m]], pc'[m] # "save",
               \A q \in Nodes \ {m} : inbox'[q] = inbox[q]
        PROVE  Rows'
    <2>1. \A q \in Writers \ {m} : Author(q)' = Author(q) /\ pc'[q] = pc[q]
      BY <1>0, <1>1 DEF Author, Message
    <2>2. \A q \in Writers : pc'[q] = "save" => pc[q] = "save" /\ Author(q)' = Author(q)
      BY <1>1, <2>1
    <2>3. ASSUME NEW a \in Accounts, NEW n \in Nodes, rowLock'[a] = n
          PROVE  rowLock[a] = n /\ pc'[n] \in {"evictL2", "evictL1", "record"}
                 /\ Author(n)' = Author(n)
      <3>1. LockFits(a, n) /\ rowLock[a] = n
        BY <1>1, <2>3 DEF Rows
      <3>2. n # m
        BY <1>1, <3>1 DEF LockFits
      <3> QED BY <1>0, <2>1, <3>1, <3>2 DEF LockFits
    <2> QED BY <1>1, <2>2, <2>3, RowsKept
  <1>2. CASE Count(m)
    <2>0. UNCHANGED <<point, applied, inbox>> /\ inbox[m] # <<>>
      BY <1>2 DEF Count
    <2>1. CASE FailAttempt(m) /\ UNCHANGED seen
      BY <2>0, <2>1, RowsFail
    <2>2. CASE UNCHANGED <<seen, rowLock>> /\ (Goto(m, "idle", "ack") \/ Goto(m, "idle", "record"))
      BY <1>0, <1>1, <2>0, <2>2
    <2>3. CASE /\ Goto(m, "idle", "save")
               /\ seen' = [seen EXCEPT ![m] = point[Account(m)]]
               /\ UNCHANGED rowLock
      <3>1. PointIsLastSave'
        BY <2>0 DEF Rows, PointIsLastSave
      <3>2. ASSUME NEW q \in Writers
            PROVE  SeenExists(q)'
        <4>1. CASE q = m
          BY <1>0, <2>0, <2>3, <4>1, AuthorsStay DEF SeenExists
        <4>2. CASE q # m
          BY <1>0, <2>0, <2>3, <4>2, AuthorsStay DEF Rows, SeenExists
        <4> QED BY <4>1, <4>2
      <3>3. ASSUME NEW a \in Accounts, NEW n \in Nodes
            PROVE  LockFits(a, n)'
        <4>1. LockFits(a, n)
          BY DEF Rows
        <4>2. CASE n = m
          <5>1. rowLock[a] # m
            BY <2>3, <4>1, <4>2 DEF LockFits
          <5> QED BY <2>3, <4>2, <5>1 DEF LockFits
        <4>3. CASE n # m
          BY <1>0, <2>0, <2>3, <4>1, <4>3, AuthorsStay DEF LockFits, SameRow
        <4> QED BY <4>2, <4>3
      <3> QED BY <3>1, <3>2, <3>3 DEF Rows
    <2> QED BY <1>2, <2>1, <2>2, <2>3 DEF Count
  <1>3. CASE Save(m)
    BY <1>0, <1>3, RowsSave
  <1>4. CASE Commit(m)
    <2>1. CASE CommitRows(m) /\ Goto(m, "record", "ack")
               /\ rowLock' = [a \in Accounts |-> IF rowLock[a] = m THEN NoOne ELSE rowLock[a]]
      BY <1>4, <2>1, RowsCommit DEF Commit, Labels
    <2>2. CASE FailAttempt(m) /\ UNCHANGED <<processed, point, applied, raced>>
      BY <1>4, <2>2, RowsFail DEF Commit
    <2> QED BY <1>4, <2>1, <2>2 DEF Commit
  <1>5. CASE Ack(m)
    BY <1>0, <1>1, <1>5 DEF Ack
  <1>6. CASE Reject(m)
    BY <1>0, <1>1, <1>6 DEF Reject
  <1> QED BY <1>2, <1>3, <1>4, <1>5, <1>6 DEF Consume

LEMMA RowsNext ==
  ASSUME Typed, Rows, [Next]_vars
  PROVE  Rows'
  <1>0. /\ pc \in [Threads -> Labels] /\ Writers \subseteq Threads /\ Nodes \subseteq Writers
        /\ inbox \in [Nodes -> Seq(Events)] /\ seen \in [Writers -> Point]
        /\ Writers \cap Readers = {} /\ rowLock \in [Accounts -> Nodes \cup {NoOne}]
    BY DEF Typed, TypeOK, Threads, Writers
  <1>1. ASSUME UNCHANGED <<point, applied, seen, rowLock, inbox>>,
               \A q \in Writers : pc'[q] = pc[q]
        PROVE  Rows'
    <2>1. \A a \in Accounts : \A m \in Nodes : rowLock[a] = m => pc[m] \in {"evictL2", "evictL1", "record"}
      BY DEF Rows, LockFits
    <2> QED BY <1>0, <1>1, <2>1, AuthorsStay, RowsKept
  <1>2. ASSUME NEW m \in Nodes, Deliver(m)
        PROVE  Rows'
    <2>1. queue[1] \in Events /\ inbox[m] \in Seq(Events)
      BY <1>2 DEF Deliver, Typed, TypeOK
    <2>2. inbox[m] # <<>> => Append(inbox[m], queue[1])[1] = inbox[m][1]
      BY <2>1, AppendKeepsFirst
    <2>3. ASSUME NEW q \in Writers, q \in Nodes => inbox[q] # <<>>
          PROVE  Author(q)' = Author(q)
      <3>1. CASE q = m
        <4>1. inbox'[m] = Append(inbox[m], queue[1])
          BY <1>0, <1>2 DEF Deliver
        <4> QED BY <2>2, <2>3, <3>1, <4>1 DEF Author, Message
      <3>2. CASE q # m
        BY <1>0, <1>2, <3>2 DEF Deliver, Author, Message
      <3> QED BY <3>1, <3>2
    <2>4. \A q \in Nodes : pc[q] # "idle" => inbox[q] # <<>>
      BY DEF Typed, OnCourse, MessageFits
    <2>5. UNCHANGED <<point, applied, seen, rowLock, pc>>
      BY <1>2 DEF Deliver
    <2>6. \A q \in Writers : pc'[q] = "save" => pc[q] = "save" /\ Author(q)' = Author(q)
      BY <2>3, <2>4, <2>5
    <2>7. ASSUME NEW a \in Accounts, NEW n \in Nodes, rowLock'[a] = n
          PROVE  rowLock[a] = n /\ pc'[n] \in {"evictL2", "evictL1", "record"}
                 /\ Author(n)' = Author(n)
      <3>1. pc[n] \in {"evictL2", "evictL1", "record"}
        BY <2>5, <2>7 DEF Rows, LockFits
      <3> QED BY <1>0, <2>3, <2>4, <2>5, <2>7, <3>1
    <2> QED BY <2>5, <2>6, <2>7, RowsKept
  <1>3. ASSUME NEW m \in Nodes, Consume(m)
        PROVE  Rows'
    BY <1>3, RowsConsume
  <1>4. ASSUME NEW m \in Nodes, Bury(m)
        PROVE  Rows'
    BY <1>1, <1>4 DEF Bury, TakeDeadLetter, Entomb
  <1>5. ASSUME NEW p \in Puts, PutStatistics(p)
        PROVE  Rows'
    <2>1. CASE SelectPoint(p)
      <3>0. /\ UNCHANGED <<point, applied, rowLock, inbox>> /\ p \in Writers \ Nodes
            /\ seen' = [seen EXCEPT ![p] = point[Account(p)]]
            /\ pc' = [pc EXCEPT ![p] = "save"]
        BY <2>1 DEF SelectPoint, Writers
      <3>1. PointIsLastSave'
        BY <3>0 DEF Rows, PointIsLastSave
      <3>2. ASSUME NEW q \in Writers
            PROVE  SeenExists(q)'
        <4>1. CASE q = p
          BY <1>0, <3>0, <4>1, AuthorsStay DEF SeenExists
        <4>2. CASE q # p
          BY <1>0, <3>0, <4>2, AuthorsStay DEF Rows, SeenExists
        <4> QED BY <4>1, <4>2
      <3>3. ASSUME NEW a \in Accounts, NEW n \in Nodes
            PROVE  LockFits(a, n)'
        <4>1. LockFits(a, n) /\ n # p
          BY <3>0 DEF Rows
        <4> QED BY <1>0, <3>0, <4>1, AuthorsStay DEF LockFits, SameRow
      <3> QED BY <3>1, <3>2, <3>3 DEF Rows
    <2>2. CASE Save(p)
      BY <2>2, RowsSave DEF Writers
    <2> QED BY <1>5, <2>1, <2>2 DEF PutStatistics
  <1>6. ASSUME NEW r \in Readers, Find(r)
        PROVE  Rows'
    BY <1>0, <1>1, <1>6 DEF Find, GetLocal, GetShared, LoadPoints, FillShared, FillLocal
  <1>7. CASE Fault
    <2>1. ASSUME NEW m \in Nodes, AttemptFails(m)
          PROVE  Rows'
      BY <2>1, RowsFail DEF AttemptFails
    <2>2. ASSUME NEW m \in Nodes, CommitLost(m)
          PROVE  Rows'
      <3>1. \E l \in {"idle", "reject"} : pc' = [pc EXCEPT ![m] = l]
        BY <2>2 DEF CommitLost, FailAttempt
      <3>2. rowLock' = [a \in Accounts |-> IF rowLock[a] = m THEN NoOne ELSE rowLock[a]]
        BY <2>2 DEF CommitLost, FailAttempt
      <3> QED BY <2>2, <3>1, <3>2, RowsCommit DEF CommitLost, Labels
    <2>3. ASSUME NEW m \in Nodes, EntombFails(m)
          PROVE  Rows'
      BY <1>1, <2>3 DEF EntombFails
    <2>4. ASSUME NEW m \in Nodes, Crash(m)
          PROVE  Rows'
      <3>0. UNCHANGED <<point, applied, seen>>
        BY <2>4 DEF Crash
      <3>1. \A q \in Writers \ {m} : Author(q)' = Author(q) /\ pc'[q] \in {pc[q], "crashed"}
        BY <1>0, <2>4 DEF Crash, Author, Message
      <3>2. pc'[m] = "idle"
        BY <1>0, <2>4 DEF Crash
      <3>3. \A q \in Writers : pc'[q] = "save" => pc[q] = "save" /\ Author(q)' = Author(q)
        BY <3>1, <3>2
      <3>4. ASSUME NEW a \in Accounts, NEW n \in Nodes, rowLock'[a] = n
            PROVE  rowLock[a] = n /\ pc'[n] \in {"evictL2", "evictL1", "record"}
                   /\ Author(n)' = Author(n)
        <4>1. rowLock[a] = n /\ n # m
          BY <2>4, <3>4 DEF Crash
        <4>2. pc[n] \in {"evictL2", "evictL1", "record"}
          BY <4>1 DEF Rows, LockFits
        <4>3. pc'[n] = pc[n]
          BY <1>0, <2>4, <4>1 DEF Crash, HomeOf
        <4> QED BY <1>0, <3>1, <4>1, <4>2, <4>3
      <3> QED BY <3>0, <3>3, <3>4, RowsKept
    <2>5. ASSUME NEW x \in Puts \cup Readers, RequestFails(x)
          PROVE  Rows'
      <3>0. UNCHANGED <<point, applied, seen, rowLock, inbox>> /\ pc' = [pc EXCEPT ![x] = "failed"]
            /\ x \notin Nodes
        BY <2>5 DEF RequestFails
      <3>1. \A q \in Writers : pc'[q] = "save" => pc[q] = "save" /\ Author(q)' = Author(q)
        BY <1>0, <3>0, AuthorsStay
      <3>2. \A a \in Accounts : \A n \in Nodes :
               rowLock'[a] = n => rowLock[a] = n /\ pc'[n] \in {"evictL2", "evictL1", "record"}
                                  /\ Author(n)' = Author(n)
        BY <1>0, <3>0, AuthorsStay DEF Rows, LockFits
      <3> QED BY <3>0, <3>1, <3>2, RowsKept
    <2> QED BY <1>7, <2>1, <2>2, <2>3, <2>4, <2>5 DEF Fault
  <1>8. CASE UNCHANGED <<point, applied, seen, rowLock, inbox, pc>>
    BY <1>1, <1>8
  <1> QED BY <1>2, <1>3, <1>4, <1>5, <1>6, <1>7, <1>8 DEF Next, Publish, CacheEntryExpires, vars


LEMMA AlwaysRows == Spec => []Rows
  <1>1. Init => Rows
    BY DEF Init, Rows, PointIsLastSave, SeenExists, LockFits
  <1>2. Typed /\ Rows /\ [Next]_vars => Rows'
    BY RowsNext
  <1> QED BY <1>1, <1>2, AlwaysTyped, PTL DEF Spec

\* Every row holds the save that committed last, and its version counts the commits: the
\* optimistic lock loses no save, whichever listeners and PUTs meet at the row.
THEOREM LastSaveIsKept == Spec => []PointIsLastSave
  <1>1. Rows => PointIsLastSave
    BY DEF Rows
  <1> QED BY <1>1, AlwaysRows, PTL

-----------------------------------------------------------------------------
(* Redis.  An account that no reader has raced is stale only between the commit *)
(* of a PUT and its eviction.                                                   *)

FreshAt(a) ==
  /\ \A r \in Readers : AccountOf[r] = a /\ Filling(r) => view[r] = point[a]
  /\ HasEvicted(rowLock[a]) => l2[a] = NoEntry
  /\ l2[a] \notin {NoEntry, point[a]} => \E p \in Puts : AccountOf[p] = a /\ pc[p] = "evictL2"

Fresh == faults = 0 => \A a \in Accounts \ raced : FreshAt(a)

\* Steps that at most evict the entry, and that start no read of the row.
LEMMA FreshKept ==
  ASSUME NEW a \in Accounts, FreshAt(a), point'[a] = point[a], UNCHANGED view,
         l2'[a] \in {l2[a], NoEntry},
         \A r \in Readers : Filling(r)' => Filling(r),
         HasEvicted(rowLock[a])' => HasEvicted(rowLock[a]) \/ l2'[a] = NoEntry,
         \A p \in Puts : AccountOf[p] = a /\ pc[p] = "evictL2" =>
                          pc'[p] = "evictL2" \/ l2'[a] = NoEntry
  PROVE  FreshAt(a)'
  BY DEF FreshAt

\* Who holds the lock of a row that a failed attempt does not give up is not the one
\* that failed.
LEMMA FreshFail ==
  ASSUME Typed, NEW a \in Accounts, FreshAt(a), NEW m \in Nodes, FailAttempt(m),
         UNCHANGED <<point, view, l2>>
  PROVE  FreshAt(a)'
  <1>0. pc \in [Threads -> Labels] /\ rowLock \in [Accounts -> Nodes \cup {NoOne}]
    BY DEF Typed, TypeOK
  <1>1. \A t \in Threads \ {m} : pc'[t] = pc[t]
    BY <1>0 DEF FailAttempt
  <1>2. HasEvicted(rowLock[a])' => HasEvicted(rowLock[a])
    BY <1>0, <1>1 DEF FailAttempt, HasEvicted, Threads, Writers
  <1>3. Puts \cup Readers \subseteq Threads \ {m}
    BY DEF Threads, Writers
  <1> QED BY <1>1, <1>2, <1>3, FreshKept DEF Filling

LEMMA FreshSave ==
  ASSUME Typed, Rows, NEW w \in Writers, Save(w), NEW a \in Accounts, FreshAt(a), a \notin raced'
  PROVE  FreshAt(a)'
  <1>0. /\ pc \in [Threads -> Labels] /\ rowLock \in [Accounts -> Nodes \cup {NoOne}]
        /\ Writers \cup Readers \subseteq Threads /\ w \notin Readers /\ UNCHANGED view
        /\ Nodes \subseteq Writers /\ l2 \in [Accounts -> Point \cup {NoEntry}]
    BY DEF Typed, TypeOK, CacheTypeOK, Threads, Writers, Save, InsertPoint, UpdatePoint, EvictShared,
           EvictLocal
  <1>1. \A m \in Nodes : rowLock[a] = m => /\ pc[m] \in {"evictL2", "evictL1", "record"}
                                           /\ Account(m) = a
    BY DEF Rows, LockFits
  <1>2. w \in Puts => Account(w) = AccountOf[w] /\ w \notin Nodes
    BY DEF Account, Author
  <1>3. ASSUME point'[a] = point[a], l2'[a] = l2[a], UNCHANGED rowLock,
               Goto(w, "save", "evictL2")
        PROVE  FreshAt(a)'
    <2>1. HasEvicted(rowLock[a])' => HasEvicted(rowLock[a])
      BY <1>0, <1>3 DEF HasEvicted
    <2> QED BY <1>0, <1>3, <2>1, FreshKept DEF Filling, Writers
  <1>4. ASSUME Write(w), RowFree(w), UNCHANGED cacheVars
        PROVE  FreshAt(a)'
    <2>1. CASE w \in Nodes
      <3>1. UNCHANGED point /\ rowLock' = [rowLock EXCEPT ![Account(w)] = w]
            /\ pc[w] = "save" /\ pc' = [pc EXCEPT ![w] = "evictL2"]
        BY <1>4, <2>1 DEF Write
      <3>2. HasEvicted(rowLock[a])' => HasEvicted(rowLock[a])
        BY <1>0, <3>1 DEF HasEvicted
      <3> QED BY <1>0, <1>4, <3>1, <3>2, FreshKept DEF Filling, Writers
    <2>2. CASE w \in Puts /\ Account(w) # a
      <3>1. point'[a] = point[a]
        BY <1>4, <2>2, <1>2 DEF Write, Install, Typed, TypeOK
      <3> QED BY <1>2, <1>3, <1>4, <2>2, <3>1 DEF Write
    <2>3. CASE w \in Puts /\ Account(w) = a
      <3>1. Install(w) /\ UNCHANGED rowLock /\ pc' = [pc EXCEPT ![w] = "evictL2"]
        BY <1>2, <1>4, <2>3 DEF Write
      <3>2. \A r \in Readers : ~(AccountOf[r] = a /\ Filling(r)')
        BY <1>0, <2>3, <3>1 DEF Install, Filling
      <3>3. ~HasEvicted(rowLock[a])'
        BY <1>0, <1>2, <1>4, <2>3, <3>1 DEF RowFree, HasEvicted
      <3>4. pc'[w] = "evictL2"
        BY <1>0, <3>1
      <3> QED BY <1>2, <2>3, <3>2, <3>3, <3>4 DEF FreshAt
    <2> QED BY <2>1, <2>2, <2>3 DEF Writers
  <1>5. CASE InsertPoint(w)
    <2>1. CASE Write(w)
      BY <1>4, <1>5, <2>1 DEF InsertPoint
    <2>2. CASE DuplicatePoint(w) /\ w \in Nodes /\ FailAttempt(w)
      BY <1>0, <1>5, <2>2, FreshFail DEF InsertPoint, DuplicatePoint
    <2>3. CASE DuplicatePoint(w) /\ Goto(w, "save", "failed") /\ UNCHANGED rowLock
      <3>1. HasEvicted(rowLock[a])' => HasEvicted(rowLock[a])
        BY <1>0, <2>3 DEF HasEvicted
      <3> QED BY <1>0, <1>5, <2>3, <3>1, FreshKept DEF InsertPoint, DuplicatePoint, Filling, Writers
    <2> QED BY <1>5, <2>1, <2>2, <2>3 DEF InsertPoint, DuplicatePoint
  <1>6. CASE UpdatePoint(w)
    <2>1. CASE Write(w)
      BY <1>4, <1>6, <2>1 DEF UpdatePoint
    <2>2. CASE Goto(w, "save", "evictL2") /\ UNCHANGED <<point, rowLock>>
      BY <1>3, <1>6, <2>2 DEF UpdatePoint
    <2> QED BY <1>6, <2>1, <2>2 DEF UpdatePoint
  <1>7. CASE EvictShared(w)
    <2>1. /\ pc[w] = "evictL2" /\ pc' = [pc EXCEPT ![w] = "evictL1"]
          /\ l2' = [l2 EXCEPT ![Account(w)] = NoEntry] /\ UNCHANGED <<point, rowLock>>
      BY <1>7 DEF EvictShared, EvictL2, PutL2
    <2>2. CASE Account(w) = a
      <3>1. l2'[a] = NoEntry
        BY <1>0, <2>1, <2>2
      <3> QED BY <1>0, <2>1, <3>1, FreshKept DEF Filling
    <2>3. CASE Account(w) # a
      <3>1. l2'[a] = l2[a]
        BY <1>0, <2>1, <2>3
      <3>2. HasEvicted(rowLock[a])' => HasEvicted(rowLock[a])
        BY <1>0, <1>1, <2>1, <2>3 DEF HasEvicted
      <3>3. \A p \in Puts : AccountOf[p] = a /\ pc[p] = "evictL2" => pc'[p] = "evictL2"
        BY <1>0, <1>2, <2>1, <2>3 DEF Writers
      <3> QED BY <1>0, <2>1, <3>1, <3>2, <3>3, FreshKept DEF Filling
    <2> QED BY <2>2, <2>3
  <1>8. CASE EvictLocal(w)
    <2>1. UNCHANGED <<point, rowLock, l2>> /\ pc[w] = "evictL1"
          /\ pc' = [pc EXCEPT ![w] = IF w \in Nodes THEN "record" ELSE "done"]
      BY <1>8 DEF EvictLocal, EvictL1, PutL1
    <2>2. HasEvicted(rowLock[a])' => HasEvicted(rowLock[a])
      BY <1>0, <2>1 DEF HasEvicted
    <2> QED BY <1>0, <2>1, <2>2, FreshKept DEF Filling, Writers
  <1> QED BY <1>5, <1>6, <1>7, <1>8 DEF Save

\* A consumer has evicted before it commits: what readers put meanwhile counts as raced.
LEMMA FreshCommit ==
  ASSUME Typed, Rows, NEW m \in Nodes, Commit(m), NEW a \in Accounts, FreshAt(a), a \notin raced'
  PROVE  FreshAt(a)'
  <1>0. /\ pc \in [Threads -> Labels] /\ rowLock \in [Accounts -> Nodes \cup {NoOne}]
        /\ Writers \cup Readers \subseteq Threads /\ m \notin Readers \cup Puts
        /\ UNCHANGED <<view, l2>> /\ Nodes \subseteq Writers /\ pc[m] = "record"
        /\ inbox[m] # <<>>
    BY DEF Typed, TypeOK, OnCourse, MessageFits, Threads, Writers, Commit
  <1>1. CASE FailAttempt(m) /\ UNCHANGED <<processed, point, applied, raced>>
    BY <1>0, <1>1, FreshFail
  <1>2. CASE CommitRows(m) /\ Goto(m, "record", "ack")
             /\ rowLock' = [b \in Accounts |-> IF rowLock[b] = m THEN NoOne ELSE rowLock[b]]
    <2>1. HasEvicted(rowLock[a])' => HasEvicted(rowLock[a]) /\ rowLock[a] # m
      BY <1>0, <1>2 DEF HasEvicted
    <2>2. CASE Account(m) = a /\ rowLock[a] = m
      <3>1. Install(m)
        BY <1>2, <2>2 DEF CommitRows
      <3>2. \A r \in Readers : ~(AccountOf[r] = a /\ Filling(r)')
        BY <1>0, <1>2, <2>2, <3>1 DEF Install, Filling
      <3>3. l2'[a] = NoEntry
        BY <1>0, <2>2 DEF FreshAt, HasEvicted
      <3> QED BY <3>2, <3>3 DEF FreshAt
    <2>3. CASE Account(m) # a \/ rowLock[a] # m
      <3>1. point'[a] = point[a]
        BY <1>2, <2>3 DEF CommitRows, Install, Typed, TypeOK
      <3> QED BY <1>0, <1>2, <2>1, <3>1, FreshKept DEF Filling
    <2> QED BY <2>2, <2>3
  <1> QED BY <1>1, <1>2, Commit(m) DEF Commit

LEMMA FreshFind ==
  ASSUME Typed, NEW r \in Readers, Find(r), NEW a \in Accounts, FreshAt(a), a \notin raced'
  PROVE  FreshAt(a)'
  <1>0. /\ pc \in [Threads -> Labels] /\ rowLock \in [Accounts -> Nodes \cup {NoOne}]
        /\ Writers \cup Readers \subseteq Threads /\ r \notin Writers
        /\ view \in [Readers -> Point] /\ l2 \in [Accounts -> Point \cup {NoEntry}]
        /\ Nodes \cup Puts = Writers /\ UNCHANGED <<point, rowLock>>
    BY DEF Typed, TypeOK, CacheTypeOK, Threads, Writers, Find, GetLocal, GetShared, LoadPoints,
           FillShared, FillLocal
  <1>1. pc' = [pc EXCEPT ![r] = pc'[r]]
    BY <1>0 DEF Find, GetLocal, GetShared, LoadPoints, FillShared, FillLocal
  <1>2. HasEvicted(rowLock[a])' => HasEvicted(rowLock[a])
    BY <1>0, <1>1 DEF HasEvicted
  <1>3. \A p \in Puts : pc'[p] = pc[p]
    BY <1>0, <1>1
  <1>4. \A q \in Readers \ {r} : Filling(q)' = Filling(q)
    BY <1>0, <1>1 DEF Filling
  <1>5. CASE GetLocal(r) \/ FillLocal(r)
    <2>1. UNCHANGED <<view, l2>> /\ ~Filling(r)'
      BY <1>0, <1>5 DEF GetLocal, FillLocal, PutL1, Filling
    <2> QED BY <1>0, <1>2, <1>3, <1>4, <2>1, FreshKept
  <1>6. CASE GetShared(r)
    <2>1. UNCHANGED l2 /\ ~Filling(r)' /\ \A q \in Readers \ {r} : view'[q] = view[q]
      BY <1>0, <1>6 DEF GetShared, Filling
    <2> QED BY <1>0, <1>2, <1>3, <1>4, <2>1 DEF FreshAt
  <1>7. CASE LoadPoints(r)
    <2>1. /\ UNCHANGED l2 /\ view'[r] = point[AccountOf[r]]
          /\ \A q \in Readers \ {r} : view'[q] = view[q]
      BY <1>0, <1>7 DEF LoadPoints
    <2> QED BY <1>0, <1>2, <1>3, <1>4, <2>1 DEF FreshAt
  <1>8. CASE FillShared(r)
    <2>1. /\ UNCHANGED view /\ Filling(r) /\ ~Filling(r)'
          /\ l2' = [l2 EXCEPT ![AccountOf[r]] = view[r]]
      BY <1>0, <1>8 DEF FillShared, PutL2, Filling
    <2>2. CASE AccountOf[r] = a
      <3>1. l2'[a] = point[a]
        BY <1>0, <2>1, <2>2 DEF FreshAt
      <3>2. ~HasEvicted(rowLock[a])
        BY <1>8, <2>2 DEF FillShared
      <3> QED BY <1>0, <1>2, <1>4, <2>1, <3>1, <3>2 DEF FreshAt
    <2>3. CASE AccountOf[r] # a
      <3>1. l2'[a] = l2[a]
        BY <1>0, <2>1, <2>3
      <3> QED BY <1>0, <1>2, <1>3, <1>4, <2>1, <3>1, FreshKept
    <2> QED BY <2>2, <2>3
  <1> QED BY <1>5, <1>6, <1>7, <1>8 DEF Find


LEMMA FreshNext ==
  ASSUME Typed, Rows, Fresh, [Next]_vars
  PROVE  Fresh'
  <1> SUFFICES ASSUME faults' = 0, NEW a \in Accounts, a \notin raced'
               PROVE  FreshAt(a)'
    BY DEF Fresh
  <1>0. /\ pc \in [Threads -> Labels] /\ rowLock \in [Accounts -> Nodes \cup {NoOne}]
        /\ Writers \cup Readers \subseteq Threads /\ faults \in Nat
        /\ Nodes \cup Puts = Writers /\ l2 \in [Accounts -> Point \cup {NoEntry}]
    BY DEF Typed, TypeOK, CacheTypeOK, Threads, Writers
  <1>1. ~Fault
    <2>1. Fault => faults' = faults + 1
      BY DEF Fault, AttemptFails, CommitLost, EntombFails, Crash, RequestFails
    <2> QED BY <1>0, <2>1
  <1>2. faults = 0 /\ a \notin raced
    <2>1. \A w \in Writers : Save(w) => faults' = faults /\ raced \subseteq raced'
      BY DEF Save, InsertPoint, UpdatePoint, EvictShared, EvictLocal, Write, DuplicatePoint, Install
    <2> QED BY <1>0, <1>1, <2>1 DEF Next, Publish, Deliver, Consume, Count, Commit, CommitRows,
               Install, Ack, Reject, Bury, TakeDeadLetter, Entomb, PutStatistics, SelectPoint,
               Find, GetLocal, GetShared, LoadPoints, FillShared, FillLocal, CacheEntryExpires, vars
  <1>3. FreshAt(a)
    BY <1>2 DEF Fresh
  <1>4. CASE UNCHANGED <<point, rowLock, view, pc, l2>>
    BY <1>3, <1>4 DEF FreshAt, HasEvicted, Filling
  <1>5. ASSUME NEW m \in Nodes, Consume(m)
        PROVE  FreshAt(a)'
    <2>1. CASE Count(m)
      <3>0. UNCHANGED <<point, view, l2>> /\ pc[m] = "idle"
        BY <2>1 DEF Count
      <3>1. CASE FailAttempt(m)
        BY <1>3, <3>0, <3>1, FreshFail
      <3>2. CASE UNCHANGED rowLock /\ pc' = [pc EXCEPT ![m] = pc'[m]]
        <4>1. rowLock[a] # m
          BY <3>0 DEF Rows, LockFits
        <4>2. HasEvicted(rowLock[a])' => HasEvicted(rowLock[a])
          BY <1>0, <3>2, <4>1 DEF HasEvicted
        <4> QED BY <1>0, <1>3, <3>0, <3>2, <4>2, FreshKept DEF Filling
      <3> QED BY <1>0, <2>1, <3>1, <3>2 DEF Count
    <2>2. CASE Save(m)
      BY <1>0, <1>3, <2>2, FreshSave
    <2>3. CASE Commit(m)
      BY <1>3, <2>3, FreshCommit
    <2>4. CASE Ack(m) \/ Reject(m)
      <3>1. /\ UNCHANGED <<point, view, l2, rowLock>> /\ pc[m] \in {"ack", "reject"}
            /\ pc' = [pc EXCEPT ![m] = "idle"]
        BY <2>4 DEF Ack, Reject
      <3>2. HasEvicted(rowLock[a])' => HasEvicted(rowLock[a])
        BY <1>0, <3>1 DEF HasEvicted
      <3> QED BY <1>0, <1>3, <3>1, <3>2, FreshKept DEF Filling
    <2> QED BY <1>5, <2>1, <2>2, <2>3, <2>4 DEF Consume
  <1>6. ASSUME NEW p \in Puts, PutStatistics(p)
        PROVE  FreshAt(a)'
    <2>1. CASE SelectPoint(p)
      <3>1. /\ UNCHANGED <<point, view, l2, rowLock>> /\ pc[p] = "start"
            /\ pc' = [pc EXCEPT ![p] = "save"]
        BY <2>1 DEF SelectPoint
      <3>2. HasEvicted(rowLock[a])' => HasEvicted(rowLock[a])
        BY <1>0, <3>1 DEF HasEvicted
      <3> QED BY <1>0, <1>3, <3>1, <3>2, FreshKept DEF Filling
    <2>2. CASE Save(p)
      BY <1>0, <1>3, <2>2, FreshSave
    <2> QED BY <1>6, <2>1, <2>2 DEF PutStatistics
  <1>7. ASSUME NEW r \in Readers, Find(r)
        PROVE  FreshAt(a)'
    BY <1>3, <1>7, FreshFind
  <1>8. CASE CacheEntryExpires
    <2>1. UNCHANGED <<point, rowLock, view, pc>> /\ l2'[a] \in {l2[a], NoEntry}
      BY <1>0, <1>8 DEF CacheEntryExpires, CacheExpires, ExpireL1, ExpireL2, EvictL1, EvictL2,
                        PutL1, PutL2
    <2> QED BY <1>3, <2>1, FreshKept DEF HasEvicted, Filling
  <1> QED BY <1>1, <1>4, <1>5, <1>6, <1>7, <1>8 DEF Next, Publish, Deliver, Bury,
             TakeDeadLetter, Entomb, vars

\* Without faults Redis answers something else than the row only when a reader and a save
\* of the account have met, or in the moment between a PUT's commit and its eviction.
THEOREM StaleNeedsRace == Spec => []StaleOnlyByRace
  <1>1. Init => Fresh
    BY DEF Init, Fresh, FreshAt, HasEvicted, Filling, CacheInit, EmptyL1, Threads, Writers
  <1>2. Typed /\ Rows /\ Fresh /\ [Next]_vars => Fresh'
    BY FreshNext
  <1>3. Fresh => StaleOnlyByRace
    BY DEF Fresh, FreshAt, StaleOnlyByRace
  <1> QED BY <1>1, <1>2, <1>3, AlwaysTyped, AlwaysRows, PTL DEF Spec

===============================================================================
