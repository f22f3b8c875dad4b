---------------------- MODULE StatisticsPipeline_proofs ----------------------
(***************************************************************************)
(* Theorems of StatisticsService about the way of an event, for every set  *)
(* of events, copies, nodes, retries and faults: the pipeline implements   *)
(* ExactlyOnce, no event is counted twice or vanishes unrecorded, and only *)
(* a poisonous event or a fault makes a dead letter.                       *)
(***************************************************************************)
EXTENDS StatisticsService_proofs

USE StatisticsAssumption DEF StatisticsAssumption, cacheVars, broker, tables, history, Goto

-----------------------------------------------------------------------------
(* Where the broker holds an event *)

Has(s, x) == \E k \in 1..Len(s) : s[k] = x

\* A copy of e is in a queue, with a listener, or with the dead-letter listener.
Held(e) == \/ Has(queue, e) \/ Has(dlq, e)
           \/ \E m \in Nodes : burial[m] = e \/ Has(inbox[m], e)

LEMMA HasAppend ==
  ASSUME NEW S, NEW s \in Seq(S), NEW y \in S, NEW x
  PROVE  Has(Append(s, y), x) <=> Has(s, x) \/ x = y
  <1>1. /\ Len(Append(s, y)) = Len(s) + 1 /\ Append(s, y)[Len(s) + 1] = y
        /\ \A i \in 1..Len(s) : Append(s, y)[i] = s[i]
        /\ Len(s) \in Nat
    BY AppendProperties, LenProperties
  <1> DEFINE t == Append(s, y)
  <1> HIDE DEF t
  <1>2. 1..(Len(s) + 1) = (1..Len(s)) \cup {Len(s) + 1}
    BY <1>1
  <1> QED BY <1>1, <1>2 DEF Has, t

LEMMA HasTail ==
  ASSUME NEW S, NEW s \in Seq(S), s # <<>>, NEW x
  PROVE  Has(s, x) <=> Has(Tail(s), x) \/ x = s[1]
  <1> DEFINE t == Tail(s)
  <1>1. /\ Len(s) \in Nat \ {0}
        /\ Len(t) = Len(s) - 1
        /\ \A i \in 1..Len(t) : t[i] = s[i + 1]
    BY EmptySeq, HeadTailProperties
  <1> HIDE DEF t
  <1>2. ASSUME NEW k \in 1..Len(s), s[k] = x, x # s[1]
        PROVE  Has(t, x)
    <2>1. k - 1 \in 1..Len(t) /\ t[k - 1] = s[k]
      BY <1>1, <1>2
    <2> QED BY <1>2, <2>1 DEF Has
  <1>3. ASSUME NEW i \in 1..Len(t), t[i] = x
        PROVE  Has(s, x)
    <2>1. i + 1 \in 1..Len(s) /\ s[i + 1] = x
      BY <1>1, <1>3
    <2> QED BY <2>1 DEF Has
  <1>4. Has(s, s[1])
    BY <1>1 DEF Has
  <1> QED BY <1>2, <1>3, <1>4 DEF Has, t

LEMMA HasConcat ==
  ASSUME NEW S, NEW s \in Seq(S), NEW t \in Seq(S), NEW x
  PROVE  Has(s \o t, x) <=> Has(s, x) \/ Has(t, x)
  <1> DEFINE u == s \o t
  <1>1. /\ Len(s) \in Nat /\ Len(t) \in Nat /\ Len(u) = Len(s) + Len(t)
        /\ \A i \in 1..(Len(s) + Len(t)) : u[i] = IF i <= Len(s) THEN s[i] ELSE t[i - Len(s)]
    BY ConcatProperties, LenProperties
  <1> HIDE DEF u
  <1>2. ASSUME NEW k \in 1..Len(u), u[k] = x
        PROVE  Has(s, x) \/ Has(t, x)
    <2>1. CASE k <= Len(s)
      <3>1. k \in 1..Len(s) /\ s[k] = x
        BY <1>1, <1>2, <2>1
      <3> QED BY <3>1 DEF Has
    <2>2. CASE ~(k <= Len(s))
      <3>1. k - Len(s) \in 1..Len(t) /\ t[k - Len(s)] = x
        BY <1>1, <1>2, <2>2
      <3> QED BY <3>1 DEF Has
    <2> QED BY <2>1, <2>2
  <1>3. ASSUME NEW k \in 1..Len(s), s[k] = x
        PROVE  Has(u, x)
    <2>1. k \in 1..Len(u) /\ u[k] = x
      BY <1>1, <1>3
    <2> QED BY <2>1 DEF Has
  <1>4. ASSUME NEW k \in 1..Len(t), t[k] = x
        PROVE  Has(u, x)
    <2>1. k + Len(s) \in 1..Len(u) /\ ~(k + Len(s) <= Len(s)) /\ (k + Len(s)) - Len(s) = k
      BY <1>1
    <2>2. u[k + Len(s)] = t[(k + Len(s)) - Len(s)]
      BY <1>1, <2>1
    <2>3. u[k + Len(s)] = x
      BY <1>4, <2>1, <2>2
    <2> QED BY <2>1, <2>3 DEF Has
  <1> QED BY <1>2, <1>3, <1>4 DEF Has, u


-----------------------------------------------------------------------------
(* What a step does to an event.  No call is left out: each action of Next is    *)
(* quiet for the event, publishes it, records it or buries it.                  *)

\* The first message of a listener, and of the dead-letter queue, is held.
LEMMA FirstIsHeld ==
  ASSUME TypeOK
  PROVE  /\ \A m \in Nodes : inbox[m] # <<>> => Held(Message(m))
         /\ queue # <<>> => Held(queue[1])
         /\ dlq # <<>> => Held(dlq[1])
  <1>1. ASSUME NEW s \in Seq(Events), s # <<>>
        PROVE  Has(s, s[1])
    BY <1>1, EmptySeq DEF Has
  <1> QED BY <1>1 DEF TypeOK, Held, Message

\* No step loses an event of the broker without a record of it, and nothing but a
\* publication brings one in.
LEMMA HeldNext ==
  ASSUME Typed, [Next]_vars, NEW e \in Events
  PROVE  /\ Held(e)' => Held(e) \/ Publish(e)
         /\ Held(e) => Held(e)' \/ processed'[e] # "none" \/ e \in unrecorded'
         /\ Publish(e) => Held(e)'
  <1> DEFINE Good == /\ Held(e)' => Held(e) \/ Publish(e)
                     /\ Held(e) => Held(e)' \/ processed'[e] # "none" \/ e \in unrecorded'
                     /\ Publish(e) => Held(e)'
  <1>0. /\ queue \in Seq(Events) /\ dlq \in Seq(Events) /\ inbox \in [Nodes -> Seq(Events)]
        /\ burial \in [Nodes -> Events \cup {NoOne}] /\ processed \in [Events -> Records]
        /\ sent \in [Events -> Nat]
    BY DEF Typed, TypeOK
  <1>a. ASSUME UNCHANGED <<queue, dlq, inbox, burial>>
        PROVE  Held(e)' <=> Held(e)
    BY <1>a DEF Held, Has
  <1>b. ASSUME sent' = sent
        PROVE  ~Publish(e)
    BY <1>0, <1>b DEF Publish
  <1>1. ASSUME NEW x \in Events, Publish(x)
        PROVE  Good
    <2>1. Has(queue', e) <=> Has(queue, e) \/ e = x
      BY <1>0, <1>1, HasAppend DEF Publish
    <2>2. UNCHANGED <<dlq, inbox, burial>>
      BY <1>1 DEF Publish
    <2>3. Publish(e) => e = x
      BY <1>0, <1>1 DEF Publish
    <2> QED BY <1>1, <2>1, <2>2, <2>3 DEF Held
  <1>2. ASSUME NEW m \in Nodes, Deliver(m)
        PROVE  Good
    <2>1. queue # <<>> /\ queue[1] \in Events
      BY <1>0, <1>2 DEF Deliver
    <2>2. Has(queue, e) <=> Has(queue', e) \/ e = queue[1]
      BY <1>0, <1>2, <2>1, HasTail DEF Deliver
    <2>3. inbox'[m] = Append(inbox[m], queue[1]) /\ \A n \in Nodes \ {m} : inbox'[n] = inbox[n]
      BY <1>0, <1>2 DEF Deliver
    <2>4. Has(inbox'[m], e) <=> Has(inbox[m], e) \/ e = queue[1]
      BY <1>0, <2>1, <2>3, HasAppend
    <2>5. UNCHANGED <<dlq, burial, sent>>
      BY <1>2 DEF Deliver
    <2> QED BY <1>b, <2>2, <2>3, <2>4, <2>5 DEF Held
  <1>3. ASSUME NEW m \in Nodes, inbox[m] # <<>>, inbox' = [inbox EXCEPT ![m] = Tail(@)],
               UNCHANGED <<queue, burial, sent>>,
               dlq' = Append(dlq, Message(m)) \/ (dlq' = dlq /\ processed'[Message(m)] # "none")
        PROVE  Good
    <2>1. /\ \A n \in Nodes \ {m} : inbox'[n] = inbox[n]
          /\ Has(inbox[m], e) <=> Has(inbox'[m], e) \/ e = Message(m)
      BY <1>0, <1>3, HasTail DEF Message
    <2>2. Message(m) \in Events
      BY <1>3, MessageIsEvent DEF Typed
    <2>3. CASE dlq' = Append(dlq, Message(m))
      <3>1. Has(dlq', e) <=> Has(dlq, e) \/ e = Message(m)
        BY <1>0, <2>2, <2>3, HasAppend
      <3> QED BY <1>3, <1>b, <2>1, <3>1 DEF Held
    <2>4. CASE dlq' = dlq /\ processed'[Message(m)] # "none"
      BY <1>3, <1>b, <2>1, <2>4 DEF Held
    <2> QED BY <1>3, <2>3, <2>4
  <1>4. ASSUME NEW m \in Nodes, Consume(m)
        PROVE  Good
    <2>1. CASE Ack(m)
      <3>1. inbox[m] # <<>> /\ processed[Message(m)] # "none"
        BY <2>1 DEF Ack, Typed, OnCourse, MessageFits
      <3> QED BY <1>3, <2>1, <3>1 DEF Ack
    <2>2. CASE Reject(m)
      <3>1. inbox[m] # <<>>
        BY <2>2 DEF Reject, Typed, OnCourse, MessageFits
      <3> QED BY <1>3, <2>2, <3>1 DEF Reject
    <2>3. CASE ~Ack(m) /\ ~Reject(m)
      BY <1>4, <1>a, <1>b, <2>3 DEF Consume, Count, Save, InsertPoint, UpdatePoint, EvictShared,
         EvictLocal, Commit
    <2> QED BY <2>1, <2>2, <2>3
  <1>5. ASSUME NEW m \in Nodes, Bury(m) \/ EntombFails(m)
        PROVE  Good
    <2>1. CASE TakeDeadLetter(m)
      <3>1. /\ Has(dlq, e) <=> Has(dlq', e) \/ e = dlq[1]
        BY <1>0, <2>1, HasTail DEF TakeDeadLetter
      <3>2. /\ burial'[m] = dlq[1] /\ burial[m] = NoOne
            /\ \A n \in Nodes \ {m} : burial'[n] = burial[n]
            /\ UNCHANGED <<queue, inbox, sent>>
        BY <1>0, <2>1 DEF TakeDeadLetter
      <3> QED BY <1>b, <3>1, <3>2 DEF Held
    <2>2. CASE Entomb(m) \/ EntombFails(m)
      <3>1. /\ burial[m] \in Events
            /\ burial' = [burial EXCEPT ![m] = NoOne] /\ UNCHANGED <<queue, dlq, inbox, sent>>
        BY <1>0, <2>2 DEF Entomb, EntombFails
      <3>2. processed'[burial[m]] # "none" \/ burial[m] \in unrecorded'
        BY <1>0, <2>2, <3>1 DEF Entomb, EntombFails, Tombstone
      <3>3. burial'[m] = NoOne /\ \A n \in Nodes \ {m} : burial'[n] = burial[n]
        BY <1>0, <3>1
      <3> QED BY <1>b, <3>1, <3>2, <3>3 DEF Held
    <2> QED BY <1>5, <2>1, <2>2 DEF Bury
  <1>6. ASSUME NEW p \in Puts, PutStatistics(p)
        PROVE  Good
    BY <1>6, <1>a, <1>b DEF PutStatistics, SelectPoint, Save, InsertPoint, UpdatePoint, EvictShared,
       EvictLocal
  <1>7. ASSUME NEW r \in Readers, Find(r)
        PROVE  Good
    BY <1>7, <1>a, <1>b DEF Find, GetLocal, GetShared, LoadPoints, FillShared, FillLocal
  <1>8. CASE Fault
    <2>1. ASSUME NEW m \in Nodes, Crash(m)
          PROVE  Good
      <3>1. Has(queue', e) <=> Has(inbox[m], e) \/ Has(queue, e)
        BY <1>0, <2>1, HasConcat DEF Crash, Requeued
      <3>2. Has(dlq', e) <=> Has(dlq, e) \/ e = burial[m]
        <4>1. CASE burial[m] = NoOne
          BY <2>1, <4>1 DEF Crash
        <4>2. CASE burial[m] # NoOne
          <5>1. <<burial[m]>> \in Seq(Events) /\ (Has(<<burial[m]>>, e) <=> e = burial[m])
            BY <1>0, <4>2 DEF Has
          <5>2. dlq' = <<burial[m]>> \o dlq
            BY <2>1, <4>2 DEF Crash
          <5> QED BY <1>0, <5>1, <5>2, HasConcat
        <4> QED BY <4>1, <4>2
      <3>3. /\ inbox'[m] = <<>> /\ burial'[m] = NoOne /\ UNCHANGED sent
            /\ \A n \in Nodes \ {m} : inbox'[n] = inbox[n] /\ burial'[n] = burial[n]
        BY <1>0, <2>1 DEF Crash
      <3>4. ~Has(<<>>, e)
        BY DEF Has
      <3> QED BY <1>b, <3>1, <3>2, <3>3, <3>4 DEF Held
    <2>2. ASSUME NEW m \in Nodes, AttemptFails(m) \/ CommitLost(m)
          PROVE  Good
      BY <1>a, <1>b, <2>2 DEF AttemptFails, CommitLost
    <2>3. ASSUME NEW x \in Puts \cup Readers, RequestFails(x)
          PROVE  Good
      BY <1>a, <1>b, <2>3 DEF RequestFails
    <2> QED BY <1>8, <1>5, <2>1, <2>2, <2>3 DEF Fault
  <1>9. CASE CacheEntryExpires \/ UNCHANGED vars
    BY <1>9, <1>a, <1>b DEF CacheEntryExpires, vars
  <1> QED BY <1>1, <1>2, <1>4, <1>5, <1>6, <1>7, <1>8, <1>9 DEF Next


\* unrecorded only grows.
LEMMA UnrecordedStays ==
  ASSUME [Next]_vars
  PROVE  unrecorded \subseteq unrecorded'
  <1>1. \A w : Save(w) => UNCHANGED unrecorded
    BY DEF Save, InsertPoint, UpdatePoint, EvictShared, EvictLocal
  <1>2. Fault => unrecorded \subseteq unrecorded'
    BY DEF Fault, AttemptFails, CommitLost, EntombFails, Crash, RequestFails
  <1> QED BY <1>1, <1>2 DEF Next, Publish, Deliver, Consume, Count, Commit, Ack, Reject, Bury,
             TakeDeadLetter, Entomb, PutStatistics, SelectPoint, Find, GetLocal, GetShared,
             LoadPoints, FillShared, FillLocal, CacheEntryExpires, vars

\* Nothing but a publication counts as one.
LEMMA OnlyPublish ==
  ASSUME [Next]_vars
  PROVE  sent' = sent \/ \E x \in Events : Publish(x)
  <1>1. \A w : Save(w) => UNCHANGED sent
    BY DEF Save, InsertPoint, UpdatePoint, EvictShared, EvictLocal
  <1>2. Fault => UNCHANGED sent
    BY DEF Fault, AttemptFails, CommitLost, EntombFails, Crash, RequestFails
  <1> QED BY <1>1, <1>2 DEF Next, Deliver, Consume, Count, Commit, Ack, Reject, Bury,
             TakeDeadLetter, Entomb, PutStatistics, SelectPoint, Find, GetLocal, GetShared,
             LoadPoints, FillShared, FillLocal, CacheEntryExpires, vars

\* sent counts the publications.
LEMMA SentNext ==
  ASSUME TypeOK, [Next]_vars, NEW e \in Events
  PROVE  sent'[e] > 0 <=> sent[e] > 0 \/ Publish(e)
  <1>0. sent \in [Events -> Nat]
    BY DEF TypeOK
  <1>1. ASSUME NEW x \in Events, Publish(x)
        PROVE  sent' = [sent EXCEPT ![x] = sent[x] + 1]
    BY <1>1 DEF Publish
  <1>2. CASE \E x \in Events : Publish(x)
    <2>1. PICK x \in Events : Publish(x)
      BY <1>2
    <2>2. Publish(e) => sent' = [sent EXCEPT ![e] = sent[e] + 1]
      BY <1>1
    <2> QED BY <1>0, <1>1, <2>1, <2>2
  <1>3. CASE ~\E x \in Events : Publish(x)
    <2>1. sent' = sent
      BY <1>3, OnlyPublish
    <2> QED BY <1>3, <2>1
  <1> QED BY <1>2, <1>3

-----------------------------------------------------------------------------
(* Nothing is made up and nothing vanishes.  NothingVanishes is inductive with   *)
(* the help of OnCourse: a listener acks only what processed_event has a row for.*)

\* What was never published is in no queue and has no row.
FromPublisher == \A e \in Events : sent[e] = 0 => processed[e] = "none" /\ ~Held(e)

\* Who writes a row of processed_event, and of which event.
LEMMA RecordedWasHeld ==
  ASSUME Typed, [Next]_vars, NEW e \in Events, processed'[e] # processed[e]
  PROVE  Held(e)
  <1>0. processed \in [Events -> Records]
    BY DEF Typed, TypeOK
  <1>1. ASSUME NEW m \in Nodes, CommitRows(m), pc[m] = "record"
        PROVE  Held(e)
    <2>1. inbox[m] # <<>>
      BY <1>1 DEF Typed, OnCourse, MessageFits
    <2>2. e = Message(m)
      BY <1>0, <1>1 DEF CommitRows
    <2> QED BY <2>1, <2>2, FirstIsHeld DEF Typed
  <1>2. ASSUME NEW m \in Nodes, Entomb(m)
        PROVE  Held(e)
    BY <1>0, <1>2 DEF Entomb, Held
  <1>3. \A w \in Writers : Save(w) => UNCHANGED processed
    BY DEF Save, InsertPoint, UpdatePoint, EvictShared, EvictLocal
  <1>4. Fault => Held(e)
    BY <1>1 DEF Fault, AttemptFails, CommitLost, EntombFails, Crash, RequestFails
  <1>5. ASSUME NEW m \in Nodes, Consume(m)
        PROVE  Held(e)
    BY <1>1, <1>3, <1>5 DEF Consume, Count, Commit, Ack, Reject, Writers
  <1> QED BY <1>2, <1>3, <1>4, <1>5 DEF Next, Publish, Deliver, Bury, TakeDeadLetter,
             PutStatistics, SelectPoint, Find, GetLocal, GetShared, LoadPoints, FillShared,
             FillLocal, CacheEntryExpires, vars, Writers

LEMMA FromPublisherNext ==
  ASSUME Typed, FromPublisher, [Next]_vars
  PROVE  FromPublisher'
  <1> SUFFICES ASSUME NEW e \in Events, sent'[e] = 0
               PROVE  processed'[e] = "none" /\ ~Held(e)'
    BY DEF FromPublisher
  <1>1. sent[e] = 0 /\ ~Publish(e)
    <2>1. sent[e] \in Nat /\ (sent'[e] > 0 <=> sent[e] > 0 \/ Publish(e))
      BY SentNext DEF Typed, TypeOK
    <2> QED BY <2>1
  <1>2. processed[e] = "none" /\ ~Held(e)
    BY <1>1 DEF FromPublisher
  <1> QED BY <1>1, <1>2, HeldNext, RecordedWasHeld

LEMMA AlwaysFromPublisher == Spec => []FromPublisher
  <1>1. Init => FromPublisher
    BY DEF Init, FromPublisher, Held, Has
  <1>2. Typed /\ FromPublisher /\ [Next]_vars => FromPublisher'
    BY FromPublisherNext
  <1> QED BY <1>1, <1>2, AlwaysTyped, PTL DEF Spec

LEMMA VanishesNext ==
  ASSUME Typed, NothingVanishes, [Next]_vars
  PROVE  NothingVanishes'
  <1>1. \A e \in Events : sent[e] > 0 /\ processed[e] = "none" /\ e \notin unrecorded => Held(e)
    BY DEF NothingVanishes, Held, Has
  <1>2. ASSUME NEW e \in Events, sent'[e] > 0, processed'[e] = "none", e \notin unrecorded'
        PROVE  Held(e)'
    <2>1. processed[e] = "none"
      BY <1>2, ProcessedStays DEF Typed
    <2>2. e \notin unrecorded
      BY <1>2, UnrecordedStays
    <2>3. sent[e] > 0 \/ Publish(e)
      BY <1>2, SentNext DEF Typed
    <2> QED BY <1>1, <1>2, <2>1, <2>2, <2>3, HeldNext
  <1> QED BY <1>2 DEF NothingVanishes, Held, Has

\* No crash, retry, rejection or redelivery loses an event: it is in a queue or in the
\* tables, unless the catch block of onDeadLetter swallowed the failure of its tombstone.
THEOREM NoEventVanishes == Spec => []NothingVanishes
  <1>1. Init => NothingVanishes
    BY DEF Init, NothingVanishes
  <1>2. Typed /\ NothingVanishes /\ [Next]_vars => NothingVanishes'
    BY VanishesNext
  <1> QED BY <1>1, <1>2, AlwaysTyped, PTL DEF Spec


-----------------------------------------------------------------------------
(* Exactly once *)

\* A write adds one place to the saves of its own event, and none to those of others.
LEMMA EffectsInstall ==
  ASSUME Typed, NEW w \in Writers, w \in Nodes => inbox[w] # <<>>, Install(w), NEW e \in Events
  PROVE  Effects(e)' = IF e = Author(w) THEN Effects(e) \cup {Len(applied[AccountOf[e]]) + 1}
                                        ELSE Effects(e)
  <1> DEFINE a == AccountOf[e]
             s == applied[a]
  <1>0. /\ a \in Accounts /\ applied \in [Accounts -> Seq(Events \cup Puts)]
        /\ s \in Seq(Events \cup Puts)
    BY DEF Typed, TypeOK
  <1>1. Author(w) \in Events \cup Puts /\ Account(w) \in Accounts
    BY AuthorKnown
  <1>2. applied' = [applied EXCEPT ![Account(w)] = Append(applied[Account(w)], Author(w))]
    BY DEF Install
  <1>3. CASE Account(w) # a
    <2>1. applied'[a] = s
      BY <1>0, <1>2, <1>3
    <2>2. e # Author(w)
      BY <1>3 DEF Account
    <2> QED BY <2>1, <2>2 DEF Effects
  <1>4. CASE Account(w) = a
    <2>1. applied'[a] = Append(s, Author(w))
      BY <1>0, <1>2, <1>4
    <2> DEFINE t == Append(s, Author(w))
    <2>2. /\ Len(s) \in Nat /\ Len(t) = Len(s) + 1 /\ t[Len(s) + 1] = Author(w)
          /\ \A i \in 1..Len(s) : t[i] = s[i]
      <3> HIDE DEF s
      <3> QED BY <1>0, <1>1, AppendProperties, LenProperties
    <2>3. /\ Effects(e) = {k \in 1..Len(s) : s[k] = e}
          /\ Effects(e)' = {k \in 1..Len(t) : t[k] = e}
      BY <2>1 DEF Effects
    <2> HIDE DEF s, t
    <2>4. 1..(Len(s) + 1) = (1..Len(s)) \cup {Len(s) + 1} /\ Len(s) + 1 \notin 1..Len(s)
      BY <2>2
    <2>5. {k \in 1..Len(t) : t[k] = e}
            = IF e = Author(w) THEN {k \in 1..Len(s) : s[k] = e} \cup {Len(s) + 1}
                               ELSE {k \in 1..Len(s) : s[k] = e}
      BY <2>2, <2>4
    <2> QED BY <2>3, <2>5 DEF s, a
  <1> QED BY <1>3, <1>4

\* e's place in the saves does not change.
SameEffects(e) == Effects(e)' = Effects(e)

\* The event x is processed, and takes effect at most once in this very step.
Processes(x) ==
  /\ processed[x] = "none"
  /\ processed' = [processed EXCEPT ![x] = "processed"]
  /\ \A e \in Events \ {x} : SameEffects(e)
  /\ SameEffects(x) \/ \E k : Effects(x)' = Effects(x) \cup {k}

\* The event x is given up.
GivesUp(x) ==
  /\ processed[x] = "none"
  /\ processed' = [processed EXCEPT ![x] = "dead"]
  /\ \A e \in Events : SameEffects(e)

\* Every step processes one event, gives one up, or changes nothing of either kind.
LEMMA SettlingStep ==
  ASSUME Typed, [Next]_vars
  PROVE  \/ \E x \in Events : Processes(x)
         \/ \E x \in Events : GivesUp(x)
         \/ UNCHANGED processed /\ \A e \in Events : SameEffects(e)
  <1> DEFINE Quiet == UNCHANGED processed /\ \A e \in Events : SameEffects(e)
             Good == \/ \E x \in Events : Processes(x)
                     \/ \E x \in Events : GivesUp(x)
                     \/ Quiet
  <1>0. processed \in [Events -> Records] /\ Nodes \subseteq Writers /\ Puts \subseteq Writers
    BY DEF Typed, TypeOK, Writers
  <1>1. ASSUME UNCHANGED <<processed, applied>>
        PROVE  Quiet
    BY <1>1 DEF SameEffects, Effects
  <1>2. ASSUME NEW m \in Nodes, CommitRows(m), pc[m] = "record"
        PROVE  Good
    <2>1. inbox[m] # <<>>
      BY <1>2 DEF Typed, OnCourse, MessageFits
    <2>2. PICK x \in Events : x = Message(m) /\ x = Author(m)
      BY <2>1, MessageIsEvent DEF Typed, Author
    <2>3. CASE Install(m)
      <3>1. \A e \in Events \ {x} : SameEffects(e)
        BY <1>0, <2>1, <2>2, <2>3, EffectsInstall DEF SameEffects
      <3>2. Effects(x)' = Effects(x) \cup {Len(applied[AccountOf[x]]) + 1}
        BY <1>0, <2>1, <2>2, <2>3, EffectsInstall
      <3> QED BY <1>2, <2>2, <3>1, <3>2 DEF CommitRows, Processes
    <2>4. CASE UNCHANGED applied
      <3>1. \A e \in Events : SameEffects(e)
        BY <2>4 DEF SameEffects, Effects
      <3> QED BY <1>2, <2>2, <3>1 DEF CommitRows, Processes
    <2> QED BY <1>2, <2>3, <2>4 DEF CommitRows
  <1>3. ASSUME NEW w \in Writers, Save(w)
        PROVE  Quiet
    <2>1. UNCHANGED processed
      BY <1>3 DEF Save, InsertPoint, UpdatePoint, EvictShared, EvictLocal
    <2>2. CASE UNCHANGED applied
      BY <1>1, <2>1, <2>2
    <2>3. CASE applied' # applied
      <3>1. w \in Puts /\ Install(w)
        BY <1>3, <2>3 DEF Save, InsertPoint, UpdatePoint, EvictShared, EvictLocal, Write,
                          DuplicatePoint, Writers
      <3>2. w \notin Nodes /\ Author(w) = w /\ w \notin Events
        BY <3>1 DEF Author
      <3>3. \A e \in Events : SameEffects(e)
        BY <3>1, <3>2, EffectsInstall DEF SameEffects
      <3> QED BY <2>1, <3>3
    <2> QED BY <2>2, <2>3
  <1>4. ASSUME NEW m \in Nodes, Consume(m)
        PROVE  Good
    <2>1. CASE Save(m)
      BY <1>0, <1>3, <2>1
    <2>2. CASE Commit(m)
      BY <1>1, <1>2, <2>2 DEF Commit
    <2>3. CASE Count(m) \/ Ack(m) \/ Reject(m)
      BY <1>1, <2>3 DEF Count, Ack, Reject
    <2> QED BY <1>4, <2>1, <2>2, <2>3 DEF Consume
  <1>5. ASSUME NEW m \in Nodes, Bury(m)
        PROVE  Good
    <2>1. CASE TakeDeadLetter(m)
      BY <1>1, <2>1 DEF TakeDeadLetter
    <2>2. CASE Entomb(m)
      <3>1. burial[m] \in Events /\ UNCHANGED applied
        BY <2>2 DEF Entomb, Typed, TypeOK
      <3>2. \A e \in Events : SameEffects(e)
        BY <3>1 DEF SameEffects, Effects
      <3>3. CASE processed[burial[m]] = "none"
        BY <2>2, <3>1, <3>2, <3>3 DEF Entomb, Tombstone, GivesUp
      <3>4. CASE processed[burial[m]] # "none"
        BY <1>0, <2>2, <3>1, <3>2, <3>4 DEF Entomb, Tombstone
      <3> QED BY <3>3, <3>4
    <2> QED BY <1>5, <2>1, <2>2 DEF Bury
  <1>6. ASSUME NEW p \in Puts, PutStatistics(p)
        PROVE  Quiet
    BY <1>0, <1>1, <1>3, <1>6 DEF PutStatistics, SelectPoint
  <1>7. ASSUME NEW r \in Readers, Find(r)
        PROVE  Quiet
    BY <1>1, <1>7 DEF Find, GetLocal, GetShared, LoadPoints, FillShared, FillLocal
  <1>8. CASE Fault
    BY <1>1, <1>2, <1>8 DEF Fault, AttemptFails, CommitLost, EntombFails, Crash, RequestFails
  <1>9. CASE (\E e \in Events : Publish(e)) \/ (\E m \in Nodes : Deliver(m))
               \/ CacheEntryExpires \/ UNCHANGED vars
    BY <1>1, <1>9 DEF Publish, Deliver, CacheEntryExpires, vars
  <1> QED BY <1>4, <1>5, <1>6, <1>7, <1>8, <1>9 DEF Next

LEMMA CountedNext ==
  ASSUME Typed, CountedOnceIfProcessed, [Next]_vars
  PROVE  CountedOnceIfProcessed'
  <1>0. processed \in [Events -> Records]
    BY DEF Typed, TypeOK
  <1> SUFFICES ASSUME NEW e \in Events
               PROVE  /\ \A j, k \in Effects(e)' : j = k
                      /\ Effects(e)' # {} => processed'[e] = "processed"
    BY DEF CountedOnceIfProcessed
  <1>1. /\ \A j, k \in Effects(e) : j = k
        /\ Effects(e) # {} => processed[e] = "processed"
    BY DEF CountedOnceIfProcessed
  <1>2. ASSUME NEW x \in Events, Processes(x)
        PROVE  /\ \A j, k \in Effects(e)' : j = k
               /\ Effects(e)' # {} => processed'[e] = "processed"
    <2>1. CASE e = x
      <3>1. Effects(e) = {} /\ processed'[e] = "processed"
        BY <1>0, <1>1, <1>2, <2>1 DEF Processes
      <3>2. Effects(e)' = {} \/ \E k : Effects(e)' = {k}
        BY <1>2, <2>1, <3>1 DEF Processes, SameEffects
      <3> QED BY <3>1, <3>2
    <2>2. CASE e # x
      BY <1>0, <1>1, <1>2, <2>2 DEF Processes, SameEffects
    <2> QED BY <2>1, <2>2
  <1>3. ASSUME NEW x \in Events, GivesUp(x)
        PROVE  /\ \A j, k \in Effects(e)' : j = k
               /\ Effects(e)' # {} => processed'[e] = "processed"
    BY <1>0, <1>1, <1>3 DEF GivesUp, SameEffects
  <1>4. CASE UNCHANGED processed /\ \A x \in Events : SameEffects(x)
    BY <1>1, <1>4 DEF SameEffects
  <1> QED BY <1>2, <1>3, <1>4, SettlingStep

\* However often an event is delivered and however its attempts end, its save is among
\* the committed ones at most once, and only if processed_event says so.
THEOREM EventsCountOnce == Spec => []CountedOnceIfProcessed
  <1>1. Init => CountedOnceIfProcessed
    <2> SUFFICES ASSUME Init, NEW e \in Events
                 PROVE  Effects(e) = {}
      BY DEF CountedOnceIfProcessed
    <2>1. applied[AccountOf[e]] = <<>>
      BY DEF Init
    <2> QED BY <2>1 DEF Effects
  <1>2. Typed /\ CountedOnceIfProcessed /\ [Next]_vars => CountedOnceIfProcessed'
    BY CountedNext
  <1> QED BY <1>1, <1>2, AlwaysTyped, PTL DEF Spec


-----------------------------------------------------------------------------
(* The refinement of ExactlyOnce: a step of the tables maps to Process or Bury,  *)
(* the first publication to Send, every other step to a stutter.                *)

\* What the mapping makes of an event.
StateOf(e) == CASE processed[e] # "none" -> processed[e]
                [] processed[e] = "none" /\ sent[e] > 0 -> "pending"
                [] OTHER -> "unsent"

StateMap == [e \in Events |-> StateOf(e)]

EffectMap == [e \in Events |-> Effects(e)]

LEMMA PipelineInit == Init => Pipeline!Init
  <1> SUFFICES ASSUME Init PROVE Pipeline!Init
    OBVIOUS
  <1>1. ASSUME NEW e \in Events
        PROVE  StateOf(e) = "unsent" /\ Effects(e) = {}
    <2>1. applied[AccountOf[e]] = <<>> /\ processed[e] = "none" /\ sent[e] = 0
      BY DEF Init
    <2> QED BY <2>1 DEF StateOf, Effects
  <1> QED BY <1>1 DEF Pipeline!Init, StateOf

LEMMA PipelineNext ==
  ASSUME Typed, CountedOnceIfProcessed, FromPublisher, [Next]_vars
  PROVE  [Pipeline!Next]_<<StateMap, EffectMap>>
  <1>0. processed \in [Events -> Records] /\ sent \in [Events -> Nat]
    BY DEF Typed, TypeOK
  <1>1. \A e \in Events : sent'[e] > 0 <=> sent[e] > 0 \/ Publish(e)
    BY SentNext DEF Typed
  <1>2. ASSUME NEW e \in Events, SameEffects(e)
        PROVE  EffectMap'[e] = EffectMap[e]
    BY <1>2 DEF EffectMap, SameEffects
  <1>3. ASSUME NEW x \in Events, sent' = sent, processed[x] = "none",
               NEW v \in {"processed", "dead"}, processed' = [processed EXCEPT ![x] = v], Held(x)
        PROVE  StateMap[x] = "pending" /\ StateMap' = [StateMap EXCEPT ![x] = v]
    <2>1. sent[x] > 0
      BY <1>0, <1>3 DEF FromPublisher
    <2>2. StateOf(x) = "pending"
      BY <1>3, <2>1 DEF StateOf
    <2>3. StateOf(x)' = v
      BY <1>0, <1>3 DEF StateOf
    <2>4. \A e \in Events \ {x} : StateOf(e)' = StateOf(e)
      BY <1>0, <1>3 DEF StateOf
    <2> QED BY <2>2, <2>3, <2>4 DEF StateMap
  <1>4. (\E x \in Events : Publish(x)) => UNCHANGED <<processed, applied>>
    BY DEF Publish
  <1>5. sent' = sent \/ \E x \in Events : Publish(x)
    BY OnlyPublish
  <1>6. ASSUME NEW x \in Events, Processes(x)
        PROVE  Pipeline!Process(x)
    <2>1. sent' = sent /\ Held(x)
      BY <1>0, <1>4, <1>5, <1>6, RecordedWasHeld DEF Processes
    <2>2. StateMap[x] = "pending" /\ StateMap' = [StateMap EXCEPT ![x] = "processed"]
      BY <1>3, <1>6, <2>1 DEF Processes
    <2>3. Effects(x) = {}
      BY <1>6 DEF CountedOnceIfProcessed, Processes
    <2>4. \A j, k \in Effects(x)' : j = k
      BY <1>6, <2>3 DEF Processes, SameEffects
    <2>5. EffectMap' = [EffectMap EXCEPT ![x] = EffectMap'[x]]
      BY <1>6 DEF Processes, SameEffects, EffectMap
    <2> QED BY <2>2, <2>4, <2>5 DEF Pipeline!Process, StateMap, StateOf, EffectMap
  <1>7. ASSUME NEW x \in Events, GivesUp(x)
        PROVE  Pipeline!Bury(x)
    <2>1. sent' = sent /\ Held(x)
      BY <1>0, <1>4, <1>5, <1>7, RecordedWasHeld DEF GivesUp
    <2>2. StateMap[x] = "pending" /\ StateMap' = [StateMap EXCEPT ![x] = "dead"]
      BY <1>3, <1>7, <2>1 DEF GivesUp
    <2>3. EffectMap' = EffectMap
      BY <1>7 DEF GivesUp, SameEffects, EffectMap
    <2> QED BY <2>2, <2>3 DEF Pipeline!Bury, StateMap, StateOf, EffectMap
  <1>8. CASE UNCHANGED processed /\ \A e \in Events : SameEffects(e)
    <2>1. EffectMap' = EffectMap
      BY <1>8 DEF SameEffects, EffectMap
    <2>2. CASE sent' = sent
      BY <1>8, <2>1, <2>2 DEF StateMap, StateOf
    <2>3. ASSUME NEW x \in Events, Publish(x)
          PROVE  Pipeline!Send(x) \/ StateMap' = StateMap
      <3>1. sent' = [sent EXCEPT ![x] = sent[x] + 1]
        BY <2>3 DEF Publish
      <3>2. \A e \in Events \ {x} : StateOf(e)' = StateOf(e)
        BY <1>0, <1>8, <3>1 DEF StateOf
      <3>3. CASE sent[x] = 0
        <4>1. StateOf(x) = "unsent" /\ StateOf(x)' = "pending"
          BY <1>0, <1>8, <3>1, <3>3 DEF StateOf, FromPublisher
        <4>2. StateMap[x] = "unsent" /\ StateMap' = [StateMap EXCEPT ![x] = "pending"]
          BY <3>2, <4>1 DEF StateMap
        <4> QED BY <2>1, <4>2 DEF Pipeline!Send, StateMap, StateOf, EffectMap
      <3>4. CASE sent[x] # 0
        <4>1. StateOf(x)' = StateOf(x)
          BY <1>0, <1>8, <3>1, <3>4 DEF StateOf
        <4> QED BY <3>2, <4>1 DEF StateMap
      <3> QED BY <3>3, <3>4
    <2> QED BY <1>5, <2>1, <2>2, <2>3 DEF Pipeline!Next
  <1> QED BY <1>6, <1>7, <1>8, SettlingStep DEF Pipeline!Next

\* StatisticsService implements ExactlyOnce: under every duplication, crash, retry and
\* interleaving an event is settled once, for good, and takes effect in that step or never.
THEOREM PipelineIsExactlyOnce == Spec => SettledOnce
  <1>1. Init => Pipeline!Init
    BY PipelineInit
  <1>2. Typed /\ CountedOnceIfProcessed /\ FromPublisher /\ [Next]_vars
          => [Pipeline!Next]_<<[e \in Events |-> CASE processed[e] # "none" -> processed[e]
                                [] processed[e] = "none" /\ sent[e] > 0 -> "pending"
                                [] OTHER -> "unsent"], [e \in Events |-> Effects(e)]>>
    BY PipelineNext DEF StateMap, StateOf, EffectMap
  <1> QED BY <1>1, <1>2, AlwaysTyped, EventsCountOnce, AlwaysFromPublisher, PTL
       DEF Spec, SettledOnce, Pipeline!Spec


-----------------------------------------------------------------------------
(* Dead letters.  Without faults an attempt at a sound event fails for one of    *)
(* two reasons, a duplicate data_point or a duplicate processed_event, and each *)
(* at most once: the second attempt finds the row, the third finds the event    *)
(* processed.  Three attempts are enough, which is the default of the code.     *)

\* The attempts that listener m has used up at an event that can be saved.
AttemptsFit(m) ==
  /\ pc[m] # "reject"
  /\ pc[m] = "idle" => \/ tried[m] = 0
                       \/ tried[m] = 1 /\ point[Account(m)] # NoPoint
                       \/ tried[m] <= 2 /\ processed[Message(m)] # "none"
  /\ pc[m] = "save" => tried[m] = 0 \/ (tried[m] = 1 /\ seen[m] # NoPoint)
  /\ pc[m] \in {"evictL2", "evictL1", "record"} => tried[m] <= 1

AttemptsLast ==
  faults = 0 =>
    /\ \A e \in Events \ Poison : ~Has(dlq, e) /\ \A m \in Nodes : burial[m] # e
    /\ \A m \in Nodes : inbox[m] # <<>> /\ Message(m) \notin Poison => AttemptsFit(m)

\* A row of data_point, once there, is there for good.
LEMMA PointStays ==
  ASSUME Typed, [Next]_vars, NEW a \in Accounts, point[a] # NoPoint
  PROVE  point'[a] # NoPoint
  <1>0. point \in [Accounts -> Point] /\ Nodes \subseteq Writers /\ Puts \subseteq Writers
    BY DEF Typed, TypeOK, Writers
  <1>1. ASSUME NEW w \in Writers, w \in Nodes => inbox[w] # <<>>, Install(w)
        PROVE  point'[a] # NoPoint
    <2> DEFINE row == [version |-> IF seen[w] = NoPoint THEN 0 ELSE seen[w].version + 1,
                       by |-> Author(w)]
    <2>1. Author(w) \in Events \cup Puts
      BY <1>1, AuthorKnown
    <2>2. row.by # NoPoint.by
      BY <2>1 DEF NoPoint
    <2>3. point' = [point EXCEPT ![Account(w)] = row]
      BY <1>1 DEF Install
    <2> HIDE DEF row
    <2>4. row # NoPoint
      BY <2>2
    <2> QED BY <1>0, <2>3, <2>4
  <1>2. ASSUME NEW w \in Writers, Save(w)
        PROVE  point'[a] # NoPoint
    <2>1. CASE UNCHANGED point
      BY <2>1
    <2>2. CASE w \in Puts /\ Install(w)
      BY <1>1, <2>2
    <2> QED BY <1>2, <2>1, <2>2 DEF Save, InsertPoint, UpdatePoint, EvictShared, EvictLocal, Write,
               DuplicatePoint, Writers
  <1>3. ASSUME NEW m \in Nodes, CommitRows(m), pc[m] = "record"
        PROVE  point'[a] # NoPoint
    <2>1. inbox[m] # <<>>
      BY <1>3 DEF Typed, OnCourse, MessageFits
    <2> QED BY <1>0, <1>1, <1>3, <2>1 DEF CommitRows
  <1>4. ASSUME NEW m \in Nodes, Consume(m)
        PROVE  point'[a] # NoPoint
    BY <1>0, <1>2, <1>3, <1>4 DEF Consume, Count, Commit, Ack, Reject
  <1>5. ASSUME NEW p \in Puts, PutStatistics(p)
        PROVE  point'[a] # NoPoint
    BY <1>0, <1>2, <1>5 DEF PutStatistics, SelectPoint
  <1>6. CASE Fault
    BY <1>3, <1>6 DEF Fault, AttemptFails, CommitLost, EntombFails, Crash, RequestFails
  <1> QED BY <1>4, <1>5, <1>6 DEF Next, Publish, Deliver, Bury, TakeDeadLetter, Entomb, Find,
             GetLocal, GetShared, LoadPoints, FillShared, FillLocal, CacheEntryExpires, vars

\* The steps of others leave what a listener has used up enough.
LEMMA AttemptsKept ==
  ASSUME Typed, [Next]_vars, NEW q \in Nodes, inbox[q] # <<>>, AttemptsFit(q),
         pc'[q] = pc[q], tried'[q] = tried[q], seen'[q] = seen[q], Message(q)' = Message(q)
  PROVE  AttemptsFit(q)'
  <1>1. Message(q) \in Events
    BY MessageIsEvent DEF Typed
  <1>2. Account(q)' = Account(q) /\ Account(q) \in Accounts
    BY <1>1 DEF Account, Author
  <1>3. point[Account(q)] # NoPoint => point'[Account(q)] # NoPoint
    BY <1>2, PointStays
  <1>4. processed[Message(q)] # "none" => processed'[Message(q)] # "none"
    BY <1>1, ProcessedStays DEF Typed
  <1> QED BY <1>2, <1>3, <1>4 DEF AttemptsFit

\* A listener's own steps.
LEMMA AttemptsConsume ==
  ASSUME Typed, NEW m \in Nodes, Consume(m), MaxAttempts >= 3, inbox'[m] # <<>>,
         Message(m)' \notin Poison,
         inbox[m] # <<>> /\ Message(m) \notin Poison => AttemptsFit(m)
  PROVE  AttemptsFit(m)'
  <1>0. /\ pc \in [Threads -> Labels] /\ m \in Threads /\ MessageFits(m)
        /\ tried \in [Nodes -> 0..(MaxAttempts - 1)] /\ seen \in [Writers -> Point]
        /\ m \in Writers
    BY DEF Typed, TypeOK, OnCourse, Threads, Writers
  <1>1. ASSUME FailAttempt(m), tried[m] + 1 < MaxAttempts
        PROVE  pc'[m] = "idle" /\ tried'[m] = tried[m] + 1
    BY <1>0, <1>1 DEF FailAttempt, AnotherAttempt
  <1>2. CASE Count(m)
    <2>1. /\ UNCHANGED <<inbox, processed, point>> /\ Message(m)' = Message(m)
          /\ Account(m)' = Account(m) /\ inbox[m] # <<>> /\ pc[m] = "idle"
      BY <1>2 DEF Count, Message, Account, Author
    <2>2. AttemptsFit(m) /\ Message(m) \notin Poison
      BY <2>1
    <2>3. CASE Goto(m, "idle", "ack")
      BY <1>0, <2>3 DEF AttemptsFit
    <2>a. ASSUME NotProcessed(m)
          PROVE  tried[m] = 0 \/ (tried[m] = 1 /\ point[Account(m)] # NoPoint)
      BY <2>1, <2>2, <2>a DEF AttemptsFit, NotProcessed
    <2>4. CASE NotProcessed(m) /\ Goto(m, "idle", "record") /\ UNCHANGED tried
      <3>1. pc'[m] = "record" /\ tried'[m] <= 1
        BY <1>0, <2>a, <2>4
      <3> QED BY <3>1 DEF AttemptsFit
    <2>5. CASE /\ NotProcessed(m) /\ Goto(m, "idle", "save") /\ UNCHANGED tried
               /\ seen' = [seen EXCEPT ![m] = point[Account(m)]]
      <3>1. pc'[m] = "save" /\ seen'[m] = point[Account(m)] /\ tried'[m] = tried[m]
        BY <1>0, <2>5
      <3> QED BY <2>a, <2>5, <3>1 DEF AttemptsFit
    <2> QED BY <1>2, <2>2, <2>3, <2>4, <2>5 DEF Count
  <1>3. CASE Save(m)
    <2>1. /\ UNCHANGED <<inbox, processed, seen>> /\ Message(m)' = Message(m)
          /\ Account(m)' = Account(m) /\ inbox[m] # <<>>
      BY <1>0, <1>3 DEF Save, InsertPoint, UpdatePoint, EvictShared, EvictLocal, Message, Account,
                        Author, MessageFits
    <2>2. AttemptsFit(m)
      BY <2>1
    <2>3. CASE InsertPoint(m) /\ DuplicatePoint(m)
      <3>1. FailAttempt(m) /\ UNCHANGED point
        BY <2>3 DEF DuplicatePoint
      <3>2. pc[m] = "save" /\ seen[m] = NoPoint /\ tried[m] = 0
        BY <2>2, <2>3 DEF InsertPoint, AttemptsFit
      <3>3. point[Account(m)] # NoPoint
        BY <1>0, <2>3 DEF InsertPoint, DuplicatePoint, Write, FailAttempt
      <3> QED BY <1>1, <2>1, <3>1, <3>2, <3>3 DEF AttemptsFit
    <2>4. ASSUME pc[m] \in {"save", "evictL2", "evictL1"}, tried' = tried,
                 pc'[m] \in {"evictL2", "evictL1", "record"}
          PROVE  AttemptsFit(m)'
      <3>1. tried'[m] <= 1
        BY <1>0, <2>2, <2>4 DEF AttemptsFit
      <3>2. pc'[m] # "reject" /\ pc'[m] # "idle" /\ pc'[m] # "save"
        BY <2>4
      <3> QED BY <3>1, <3>2 DEF AttemptsFit
    <2>5. CASE InsertPoint(m) /\ Write(m)
      <3>1. pc[m] = "save" /\ tried' = tried /\ pc'[m] = "evictL2"
        BY <1>0, <2>5 DEF Write
      <3> QED BY <2>4, <3>1
    <2>6. CASE UpdatePoint(m)
      <3>1. pc[m] = "save" /\ tried' = tried /\ pc'[m] = "evictL2"
        BY <1>0, <2>6 DEF UpdatePoint, Write
      <3> QED BY <2>4, <3>1
    <2>7. CASE EvictShared(m) \/ EvictLocal(m)
      <3>1. /\ pc[m] \in {"evictL2", "evictL1"} /\ tried' = tried
            /\ pc'[m] \in {"evictL1", "record"}
        BY <1>0, <2>7 DEF EvictShared, EvictLocal
      <3> QED BY <2>4, <3>1
    <2> QED BY <1>3, <2>3, <2>5, <2>6, <2>7 DEF Save, InsertPoint
  <1>4. CASE Commit(m)
    <2>1. /\ inbox[m] # <<>> /\ UNCHANGED inbox /\ Message(m)' = Message(m) /\ pc[m] = "record"
      BY <1>0, <1>4 DEF Commit, Message, MessageFits
    <2>2. tried[m] <= 1
      BY <2>1 DEF AttemptsFit
    <2>3. CASE Goto(m, "record", "ack")
      BY <1>0, <2>3 DEF AttemptsFit
    <2>4. CASE processed[Message(m)] # "none" /\ FailAttempt(m) /\ UNCHANGED processed
      <3>1. tried[m] \in Nat /\ tried[m] + 1 <= 2 /\ tried[m] + 1 < MaxAttempts
        BY <1>0, <2>2
      <3> QED BY <1>1, <2>1, <2>4, <3>1 DEF AttemptsFit
    <2> QED BY <1>4, <2>3, <2>4 DEF Commit
  <1>5. CASE Ack(m) \/ Reject(m)
    <2>1. pc'[m] = "idle" /\ tried'[m] = 0
      BY <1>0, <1>5 DEF Ack, Reject, MessageFits
    <2> QED BY <2>1 DEF AttemptsFit
  <1> QED BY <1>2, <1>3, <1>4, <1>5 DEF Consume

LEMMA AttemptsNext ==
  ASSUME MaxAttempts >= 3, Typed, AttemptsLast, [Next]_vars
  PROVE  AttemptsLast'
  <1>0. /\ pc \in [Threads -> Labels] /\ Writers \subseteq Threads /\ faults \in Nat
        /\ tried \in [Nodes -> 0..(MaxAttempts - 1)] /\ seen \in [Writers -> Point]
        /\ Nodes \cup Puts = Writers /\ inbox \in [Nodes -> Seq(Events)]
        /\ queue \in Seq(Events) /\ dlq \in Seq(Events)
        /\ burial \in [Nodes -> Events \cup {NoOne}]
    BY DEF Typed, TypeOK, Threads, Writers
  <1> SUFFICES ASSUME faults' = 0
               PROVE  /\ \A e \in Events \ Poison : ~Has(dlq, e)' /\ \A m \in Nodes : burial'[m] # e
                      /\ \A m \in Nodes : inbox'[m] # <<>> /\ Message(m)' \notin Poison
                                            => AttemptsFit(m)'
    BY DEF AttemptsLast
  <1>1. ~Fault
    <2>1. Fault => faults' = faults + 1
      BY DEF Fault, AttemptFails, CommitLost, EntombFails, Crash, RequestFails
    <2> QED BY <1>0, <2>1
  <1>2. /\ \A e \in Events \ Poison : ~Has(dlq, e) /\ \A m \in Nodes : burial[m] # e
        /\ \A m \in Nodes : inbox[m] # <<>> /\ Message(m) \notin Poison => AttemptsFit(m)
    <2>1. \A w : Save(w) => UNCHANGED faults
      BY DEF Save, InsertPoint, UpdatePoint, EvictShared, EvictLocal
    <2>2. faults = 0
      BY <1>1, <2>1 DEF Next, Publish, Deliver, Consume, Count, Commit, Ack, Reject, Bury,
             TakeDeadLetter, Entomb, PutStatistics, SelectPoint, Find, GetLocal, GetShared,
             LoadPoints, FillShared, FillLocal, CacheEntryExpires, vars
    <2> QED BY <2>2 DEF AttemptsLast
  <1>3. ASSUME NEW e \in Events \ Poison
        PROVE  ~Has(dlq, e)' /\ \A m \in Nodes : burial'[m] # e
    <2>1. ASSUME UNCHANGED <<dlq, burial>>
          PROVE  ~Has(dlq, e)' /\ \A m \in Nodes : burial'[m] # e
      BY <1>2, <2>1 DEF Has
    <2>2. ASSUME NEW m \in Nodes, Reject(m)
          PROVE  ~Has(dlq, e)' /\ \A n \in Nodes : burial'[n] # e
      <3>1. inbox[m] # <<>>
        BY <2>2 DEF Reject, Typed, OnCourse, MessageFits
      <3>2. Message(m) \in Poison /\ Message(m) \in Events
        BY <1>2, <2>2, <3>1, MessageIsEvent DEF Reject, AttemptsFit, Typed
      <3>3. dlq' = Append(dlq, Message(m)) /\ burial' = burial
        BY <2>2 DEF Reject
      <3>4. Has(Append(dlq, Message(m)), e) <=> Has(dlq, e) \/ e = Message(m)
        BY <1>0, <3>2, HasAppend
      <3> QED BY <1>2, <3>2, <3>3, <3>4 DEF Has
    <2>3. ASSUME NEW m \in Nodes, TakeDeadLetter(m)
          PROVE  ~Has(dlq, e)' /\ \A n \in Nodes : burial'[n] # e
      <3>1. /\ dlq # <<>> /\ dlq' = Tail(dlq) /\ burial' = [burial EXCEPT ![m] = dlq[1]]
        BY <2>3 DEF TakeDeadLetter
      <3>2. Has(dlq, e) <=> Has(Tail(dlq), e) \/ e = dlq[1]
        BY <1>0, <3>1, HasTail
      <3> QED BY <1>0, <1>2, <3>1, <3>2 DEF Has
    <2>4. ASSUME NEW m \in Nodes, Entomb(m)
          PROVE  ~Has(dlq, e)' /\ \A n \in Nodes : burial'[n] # e
      BY <1>0, <1>2, <2>4 DEF Entomb, Has
    <2>5. ASSUME NEW w, Save(w)
          PROVE  UNCHANGED <<dlq, burial>>
      BY <2>5 DEF Save, InsertPoint, UpdatePoint, EvictShared, EvictLocal
    <2>6. ASSUME NEW m \in Nodes, Consume(m)
          PROVE  ~Has(dlq, e)' /\ \A n \in Nodes : burial'[n] # e
      BY <2>1, <2>2, <2>5, <2>6 DEF Consume, Count, Commit, Ack
    <2> QED BY <1>1, <2>1, <2>3, <2>4, <2>5, <2>6 DEF Next, Publish, Deliver, Bury,
               PutStatistics, SelectPoint, Find, GetLocal, GetShared, LoadPoints, FillShared,
               FillLocal, CacheEntryExpires, vars
  <1>4. ASSUME NEW q \in Nodes, inbox'[q] # <<>>, Message(q)' \notin Poison
        PROVE  AttemptsFit(q)'
    <2>1. ASSUME pc'[q] = pc[q], tried'[q] = tried[q], seen'[q] = seen[q], inbox'[q] = inbox[q]
          PROVE  AttemptsFit(q)'
      BY <1>2, <1>4, <2>1, AttemptsKept DEF Message
    <2>2. ASSUME NEW m \in Nodes, Deliver(m)
          PROVE  AttemptsFit(q)'
      <3>1. CASE q # m
        BY <1>0, <2>1, <2>2, <3>1 DEF Deliver
      <3>2. CASE q = m
        <4>0. /\ queue[1] \in Events /\ UNCHANGED <<pc, tried, seen>>
              /\ inbox'[q] = Append(inbox[q], queue[1]) /\ inbox[q] \in Seq(Events)
          BY <1>0, <2>2, <3>2 DEF Deliver
        <4>1. CASE inbox[q] = <<>>
          <5>1. pc[q] = "idle" /\ tried[q] = 0
            BY <4>1 DEF Typed, OnCourse, MessageFits
          <5> QED BY <4>0, <5>1 DEF AttemptsFit
        <4>2. CASE inbox[q] # <<>>
          <5>1. Append(inbox[q], queue[1])[1] = inbox[q][1]
            BY <4>0, <4>2, AppendKeepsFirst
          <5>2. Message(q)' = Message(q)
            BY <4>0, <5>1 DEF Message
          <5> QED BY <1>2, <1>4, <4>0, <4>2, <5>2, AttemptsKept
        <4> QED BY <4>1, <4>2
      <3> QED BY <3>1, <3>2
    <2>3. ASSUME NEW w \in Writers \ {q}, Save(w)
          PROVE  AttemptsFit(q)'
      <3>1. ASSUME w \in Nodes, FailAttempt(w)
            PROVE  pc'[q] = pc[q] /\ tried'[q] = tried[q]
        BY <1>0, <3>1, <2>3 DEF FailAttempt
      <3>2. pc'[q] = pc[q] /\ tried'[q] = tried[q]
        BY <1>0, <2>3, <3>1 DEF Save, InsertPoint, UpdatePoint, EvictShared, EvictLocal, Write,
                                DuplicatePoint
      <3>3. UNCHANGED <<seen, inbox>>
        BY <2>3 DEF Save, InsertPoint, UpdatePoint, EvictShared, EvictLocal
      <3> QED BY <2>1, <3>2, <3>3
    <2>4. ASSUME NEW m \in Nodes, Consume(m)
          PROVE  AttemptsFit(q)'
      <3>1. CASE m = q
        BY <1>2, <1>4, <2>4, <3>1, AttemptsConsume
      <3>2. CASE m # q /\ Save(m)
        BY <1>0, <2>3, <3>2
      <3>3. CASE m # q /\ ~Save(m)
        <4>1. FailAttempt(m) => pc'[q] = pc[q] /\ tried'[q] = tried[q]
          BY <1>0, <3>3 DEF FailAttempt
        <4>2. pc'[q] = pc[q] /\ tried'[q] = tried[q]
          BY <1>0, <2>4, <3>3, <4>1 DEF Consume, Count, Commit, CommitRows, Ack, Reject
        <4>3. seen'[q] = seen[q] /\ inbox'[q] = inbox[q]
          BY <1>0, <2>4, <3>3 DEF Consume, Count, Commit, CommitRows, Ack, Reject
        <4> QED BY <2>1, <4>2, <4>3
      <3> QED BY <3>1, <3>2, <3>3
    <2>5. ASSUME NEW p \in Puts, PutStatistics(p)
          PROVE  AttemptsFit(q)'
      <3>1. CASE SelectPoint(p)
        BY <1>0, <2>1, <3>1 DEF SelectPoint
      <3>2. CASE Save(p)
        BY <1>0, <2>3, <3>2
      <3> QED BY <2>5, <3>1, <3>2 DEF PutStatistics
    <2>6. ASSUME NEW r \in Readers, Find(r)
          PROVE  AttemptsFit(q)'
      BY <1>0, <2>1, <2>6 DEF Find, GetLocal, GetShared, LoadPoints, FillShared, FillLocal
    <2>7. CASE UNCHANGED <<pc, tried, seen, inbox>>
      BY <2>1, <2>7
    <2> QED BY <1>1, <2>2, <2>4, <2>5, <2>6, <2>7 DEF Next, Publish, Bury, TakeDeadLetter, Entomb,
               CacheEntryExpires, vars
  <1> QED BY <1>3, <1>4

\* With the default of three attempts or more, an event whose snapshot can be saved is
\* rejected only after a fault: two nodes and a PUT that meet at the unique keys never
\* use the attempts up.
THEOREM DeadLettersAreExplained ==
  ASSUME MaxAttempts >= 3
  PROVE  Spec => []DeadLettersNeedFaults
  <1>1. Init => AttemptsLast
    BY DEF Init, AttemptsLast, Has
  <1>2. Typed /\ AttemptsLast /\ [Next]_vars => AttemptsLast'
    BY AttemptsNext
  <1>3. Typed /\ AttemptsLast => DeadLettersNeedFaults
    <2> SUFFICES ASSUME Typed, AttemptsLast, NEW e \in Events \ Poison, faults = 0
                 PROVE  /\ \A k \in 1..Len(dlq) : dlq[k] # e
                        /\ \A m \in Nodes : burial[m] # e /\ (pc[m] = "reject" => Message(m) # e)
      BY DEF DeadLettersNeedFaults
    <2>1. \A m \in Nodes : pc[m] = "reject" => inbox[m] # <<>>
      BY DEF Typed, OnCourse, MessageFits
    <2> QED BY <2>1 DEF AttemptsLast, AttemptsFit, Has
  <1> QED BY <1>1, <1>2, <1>3, AlwaysTyped, PTL DEF Spec

===============================================================================
