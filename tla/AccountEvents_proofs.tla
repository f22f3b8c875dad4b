------------------------- MODULE AccountEvents_proofs -------------------------
(***************************************************************************)
(* What account-service shows to others: the events it publishes, the      *)
(* views it caches and the saving row of every account it has created.     *)
(***************************************************************************)
EXTENDS AccountAnswers_proofs

USE DEF tables, locals, history, cacheVars, Step, Reply

-----------------------------------------------------------------------------
(* Which call leads to which, and which calls change what.                        *)

\* q has just come to its present call: the call it made before that.
CameBy(q) ==
  /\ pc'[q] # "start"
  /\ pc'[q] \in {"insertItem", "deleteAccount"} => LoadAccount(q)
  /\ pc'[q] = "deleteItems" => DeleteAccount(q)
  /\ pc'[q] = "deleteSaving" => DeleteItems(q)
  /\ pc'[q] = "deleteItem" => SelectItem(q)
  /\ pc'[q] = "snapshot" => \/ InsertSaving(q) \/ UpdateRow(q) \/ DeleteSaving(q)
                            \/ InsertItem(q) \/ DeleteItem(q)
  /\ pc'[q] = "send" => Snapshot(q)
  /\ pc'[q] = "findItems" => FindLoad(q) \/ Send(q)
  /\ pc'[q] = "findSaving" => FindItems(q)
  /\ pc'[q] = "putL2" => FindSaving(q)
  /\ pc'[q] = "putL1" => FillShared(q)
  /\ pc'[q] = "backfill" => GetShared(q)

LEMMA Entering ==
  ASSUME Typed, [Next]_vars, NEW q \in Requests, pc'[q] # pc[q]
  PROVE  CameBy(q)
  <1> USE DEF CameBy
  <1>0. pc \in [Requests -> Labels] /\ Calls(req[q].kind, pc[q])
    BY DEF Typed, TypeOK, OnCourse
  <1>1. CASE Create(q)
    BY <1>0, <1>1 DEF Create, CheckName, InsertAccount, InsertSaving
  <1>2. CASE Update(q)
    BY <1>0, <1>2 DEF Update, AcquireLock, LockTimeout, Reload, UpdateRow, AfterUpdate,
                      UpdateConflict, AfterThrow, Unlock
  <1>3. CASE Delete(q)
    BY <1>0, <1>3 DEF Delete, DeleteAccount, DeleteItems, DeleteSaving
  <1>4. CASE Items(q)
    BY <1>0, <1>4 DEF Items, Validate, InsertItem, SelectItem, DeleteItem
  <1>5. CASE Find(q)
    BY <1>0, <1>5 DEF Find, GetLocal, GetShared, FindLoad, FindItems, FindSaving,
                      FillShared, FillLocal
  <1>6. CASE Shared(q)
    <2>1. CASE LoadAccount(q)
      BY <1>0, <2>1 DEF LoadAccount, FirstCall
    <2>2. CASE Send(q)
      BY <1>0, <2>2 DEF Send, AfterSend
    <2>3. CASE Snapshot(q) \/ EvictShared(q) \/ EvictLocal(q)
      BY <1>0, <2>3 DEF Snapshot, EvictShared, EvictLocal
    <2> QED BY <1>6, <2>1, <2>2, <2>3 DEF Shared
  <1>7. CASE CallFails(q)
    BY <1>0, <1>7 DEF CallFails, AfterThrow
  <1>8. ASSUME NEW m \in Nodes, Crash(m)
        PROVE  CameBy(q)
    BY <1>0, <1>8 DEF Crash
  <1>9. ASSUME NEW r \in Requests, r # q, Serve(r) \/ CallFails(r)
        PROVE  FALSE
    <2>1. CASE Create(r) \/ Update(r) \/ Delete(r) \/ CallFails(r)
      BY <1>0, <1>9, <2>1 DEF Create, CheckName, InsertAccount, InsertSaving,
         Update, AcquireLock, LockTimeout, Reload, UpdateRow, UpdateConflict, Unlock,
         Delete, DeleteAccount, DeleteItems, DeleteSaving, CallFails
    <2>2. CASE Items(r) \/ Find(r) \/ Shared(r)
      BY <1>0, <1>9, <2>2 DEF Items, Validate, InsertItem, SelectItem, DeleteItem,
         Find, GetLocal, GetShared, FindLoad, FindItems, FindSaving, FillShared, FillLocal,
         Shared, LoadAccount, Snapshot, Send, EvictShared, EvictLocal
    <2> QED BY <1>9, <2>1, <2>2 DEF Serve
  <1>10. Next
    BY DEF vars
  <1> QED BY <1>1, <1>2, <1>3, <1>4, <1>5, <1>6, <1>7, <1>8, <1>9, <1>10
          DEF Next, Serve, LeaseExpires, CacheEntryExpires

\* Who writes to which table, queue and local variable.
LEMMA Changing ==
  ASSUME Typed, [Next]_vars
  PROVE  /\ \/ UNCHANGED account
            \/ \E r \in Requests : InsertAccount(r) \/ UpdateRow(r) \/ DeleteAccount(r)
         /\ UNCHANGED saving \/ \E r \in Requests : InsertSaving(r) \/ DeleteSaving(r)
         /\ \/ UNCHANGED item
            \/ \E r \in Requests : InsertItem(r) \/ DeleteItem(r) \/ DeleteItems(r)
         /\ UNCHANGED published \/ \E r \in Requests : Send(r)
         /\ \A q \in Requests : \/ view'[q] = view[q]
                                \/ Snapshot(q) \/ GetShared(q) \/ FindLoad(q)
                                \/ FindItems(q) \/ FindSaving(q)
  <1> DEFINE A == \/ UNCHANGED account
                  \/ \E r \in Requests : InsertAccount(r) \/ UpdateRow(r) \/ DeleteAccount(r)
             B == UNCHANGED saving \/ \E r \in Requests : InsertSaving(r) \/ DeleteSaving(r)
             C == \/ UNCHANGED item
                  \/ \E r \in Requests : InsertItem(r) \/ DeleteItem(r) \/ DeleteItems(r)
             D == UNCHANGED published \/ \E r \in Requests : Send(r)
             E == \A q \in Requests : \/ view'[q] = view[q]
                                      \/ Snapshot(q) \/ GetShared(q) \/ FindLoad(q)
                                      \/ FindItems(q) \/ FindSaving(q)
  <1>0. view \in [Requests -> View]
    BY DEF Typed, TypeOK
  <1>1. ASSUME NEW r \in Requests, Serve(r)
        PROVE  A /\ B /\ C /\ D /\ E
    <2>1. CASE Create(r)
      BY <2>1 DEF Create, CheckName, InsertAccount, InsertSaving
    <2>2. CASE Update(r)
      BY <2>2 DEF Update, AcquireLock, LockTimeout, Reload, UpdateRow, UpdateConflict, Unlock
    <2>3. CASE Delete(r)
      BY <2>3 DEF Delete, DeleteAccount, DeleteItems, DeleteSaving
    <2>4. CASE Items(r)
      BY <2>4 DEF Items, Validate, InsertItem, SelectItem, DeleteItem
    <2>5. CASE Find(r)
      <3>1. A /\ B /\ C /\ D
        BY <2>5 DEF Find, GetLocal, GetShared, FindLoad, FindItems, FindSaving,
                    FillShared, FillLocal
      <3>2. E
        BY <1>0, <2>5 DEF Find, GetLocal, GetShared, FindLoad, FindItems, FindSaving,
                    FillShared, FillLocal
      <3> QED BY <3>1, <3>2
    <2>6. CASE Shared(r)
      <3>1. A /\ B /\ C /\ D
        BY <2>6 DEF Shared, LoadAccount, Snapshot, Send, EvictShared, EvictLocal
      <3>2. E
        BY <1>0, <2>6 DEF Shared, LoadAccount, Snapshot, Send, EvictShared, EvictLocal
      <3> QED BY <3>1, <3>2
    <2> QED BY <1>1, <2>1, <2>2, <2>3, <2>4, <2>5, <2>6 DEF Serve
  <1>2. CASE UNCHANGED <<account, saving, item, published, view>>
    BY <1>2
  <1> QED BY <1>1, <1>2 DEF Next, CallFails, Crash, LeaseExpires, CacheEntryExpires, vars

-----------------------------------------------------------------------------
(* The saving row.  A request that is about to delete it has deleted its account, *)
(* and the create that owes a missing one is named in every state.                *)

Deleting ==
  \A r \in Requests :
    /\ pc[r] = "deleteAccount" => account[Name(r)].status # "absent"
    /\ pc[r] \in {"deleteItems", "deleteSaving"} => account[Name(r)].status = "deleted"

LEMMA DeletingInit == Init => Deleting
  BY DEF Init, Deleting

LEMMA DeletingNext == Typed /\ Deleting /\ [Next]_vars => Deleting'
  <1> SUFFICES ASSUME Typed, Deleting, [Next]_vars, NEW q \in Requests
               PROVE  /\ pc'[q] = "deleteAccount" => account'[Name(q)'].status # "absent"
                      /\ pc'[q] \in {"deleteItems", "deleteSaving"}
                           => account'[Name(q)'].status = "deleted"
    BY DEF Deleting
  <1>0. /\ Forward /\ Name(q) \in Names /\ Name(q)' = Name(q)
        /\ account \in [Names -> AccountRow] /\ pc \in [Requests -> Labels]
    BY ForwardStep DEF Forward, Name, Request, Typed, TypeOK
  <1>1. CASE pc'[q] = pc[q]
    BY <1>0, <1>1 DEF Deleting, Forward
  <1>2. CASE pc'[q] # pc[q]
    <2>0. CameBy(q)
      BY <1>2, Entering
    <2>1. CASE pc'[q] = "deleteAccount"
      BY <1>0, <2>0, <2>1 DEF CameBy, LoadAccount, Live
    <2>2. CASE pc'[q] = "deleteItems"
      <3>1. DeleteAccount(q) /\ pc[q] = "deleteAccount"
        BY <2>0, <2>2 DEF CameBy, DeleteAccount
      <3>2. account[Name(q)].status \in {"live", "deleted"}
        BY <1>0, <3>1 DEF Deleting, AccountRow, Statuses
      <3>3. CASE Live(Name(q))
        <4>1. account' = [account EXCEPT ![Name(q)].status = "deleted"]
          BY <3>1, <3>3 DEF DeleteAccount
        <4>2. account'[Name(q)].status = "deleted"
          BY <1>0, <4>1 DEF AccountRow
        <4> QED BY <1>0, <2>2, <4>2
      <3>4. CASE ~Live(Name(q))
        BY <1>0, <2>2, <3>2, <3>4 DEF Live, Forward
      <3> QED BY <3>3, <3>4
    <2>3. CASE pc'[q] = "deleteSaving"
      <3>1. DeleteItems(q) /\ pc[q] = "deleteItems"
        BY <2>0, <2>3 DEF CameBy, DeleteItems
      <3> QED BY <1>0, <2>3, <3>1 DEF Deleting, Forward
    <2> QED BY <2>1, <2>2, <2>3
  <1> QED BY <1>1, <1>2

\* r has inserted account n and not yet its saving row, or never will.
Owes(r, n) ==
  /\ req[r].kind = "create" /\ Name(r) = n
  /\ \/ pc[r] \in {"insertSaving", "crashed"}
     \/ answer[r] = "500" /\ pc[r] = "done"

SavingOwed ==
  \A n \in Names : Live(n) /\ saving[n] # "live" => \E r \in touched : Owes(r, n)

LEMMA SavingInit == Init => SavingOwed
  BY ServiceAssumption DEF Init, SavingOwed, Live

\* A create goes on owing the row until it inserts it.
LEMMA OwesStep ==
  ASSUME Typed, [Next]_vars, NEW r \in Requests, NEW n \in Names, Owes(r, n),
         ~InsertSaving(r)
  PROVE  Owes(r, n)'
  <1>0. /\ Forward /\ pc \in [Requests -> Labels] /\ answer \in [Requests -> Answers]
        /\ Calls(req[r].kind, pc[r]) /\ req[r].kind = "create" /\ Name(r) = n
        /\ pc[r] \in {"insertSaving", "crashed", "done"}
        /\ pc[r] = "done" => answer[r] = "500"
    BY ForwardStep DEF Owes, Typed, TypeOK, OnCourse
  <1>n. req'[r].kind = "create" /\ Name(r)' = n
    BY <1>0 DEF Forward, Name
  <1> SUFFICES \/ pc'[r] \in {"insertSaving", "crashed"}
               \/ answer'[r] = "500" /\ pc'[r] = "done"
    BY <1>n DEF Owes
  <1>1. ASSUME NEW q \in Requests, Serve(q)
        PROVE  pc'[r] = pc[r] /\ answer'[r] = answer[r]
    <2>1. CASE Create(q)
      BY <1>0, <2>1 DEF Create, CheckName, InsertAccount, InsertSaving
    <2>2. CASE Update(q)
      BY <1>0, <2>2 DEF Update, AcquireLock, LockTimeout, Reload, UpdateRow, UpdateConflict,
                        Unlock
    <2>3. CASE Delete(q) \/ Items(q)
      BY <1>0, <2>3 DEF Delete, DeleteAccount, DeleteItems, DeleteSaving,
                        Items, Validate, InsertItem, SelectItem, DeleteItem
    <2>4. CASE Find(q) \/ Shared(q)
      BY <1>0, <2>4 DEF Find, GetLocal, GetShared, FindLoad, FindItems, FindSaving,
           FillShared, FillLocal, Shared, LoadAccount, Snapshot, Send, EvictShared, EvictLocal
    <2> QED BY <1>1, <2>1, <2>2, <2>3, <2>4 DEF Serve
  <1>2. ASSUME NEW q \in Requests, CallFails(q)
        PROVE  \/ pc'[r] = pc[r] /\ answer'[r] = answer[r]
               \/ pc'[r] = "done" /\ answer'[r] = "500"
    BY <1>0, <1>2 DEF CallFails, CallsOut, Ended, AfterThrow, InsideLock, ThrownAnswer
  <1>3. ASSUME NEW m \in Nodes, Crash(m)
        PROVE  \/ pc'[r] = pc[r] /\ answer'[r] = answer[r]
               \/ pc'[r] = "crashed"
    BY <1>0, <1>3 DEF Crash
  <1>4. CASE UNCHANGED <<pc, answer>>
    BY <1>0, <1>4
  <1> QED BY <1>0, <1>1, <1>2, <1>3, <1>4 DEF Next, LeaseExpires, CacheEntryExpires, vars

LEMMA SavingNext == Typed /\ Deleting /\ SavingOwed /\ [Next]_vars => SavingOwed'
  <1> SUFFICES ASSUME Typed, Deleting, SavingOwed, [Next]_vars, NEW n \in Names,
                      Live(n)', saving'[n] # "live"
               PROVE  \E r \in touched' : Owes(r, n)'
    BY DEF SavingOwed
  <1>0. /\ Forward /\ saving \in [Names -> Statuses] /\ account \in [Names -> AccountRow]
        /\ touched \subseteq Requests
        /\ \A q \in Requests : Name(q) \in Names /\ Calls(req[q].kind, pc[q])
    BY ForwardStep DEF Typed, TypeOK, OnCourse, Name, Request
  <1>1. CASE Live(n) /\ saving[n] # "live"
    <2>1. PICK r \in touched : Owes(r, n)
      BY <1>1 DEF SavingOwed
    <2>2. ~InsertSaving(r)
      BY <1>0, <2>1 DEF InsertSaving, Owes
    <2>3. r \in Requests /\ r \in touched'
      BY <1>0, <2>1 DEF Forward
    <2>4. Owes(r, n)'
      BY <2>1, <2>2, <2>3, OwesStep
    <2> QED BY <2>3, <2>4
  <1>2. CASE Live(n) /\ saving[n] = "live"
    <2>1. PICK r \in Requests : InsertSaving(r) \/ DeleteSaving(r)
      BY <1>2, Changing
    <2>2. DeleteSaving(r) /\ Name(r) = n
      BY <1>0, <1>2, <2>1 DEF InsertSaving, DeleteSaving
    <2>3. account[n].status = "deleted" /\ account' = account
      BY <2>2 DEF DeleteSaving, Deleting
    <2> QED BY <1>2, <2>3 DEF Live
  <1>3. CASE ~Live(n)
    <2>1. PICK r \in Requests : InsertAccount(r) \/ UpdateRow(r) \/ DeleteAccount(r)
      BY <1>3, Changing DEF Live
    <2>2. ~DeleteAccount(r)
      <3>1. SUFFICES ASSUME DeleteAccount(r)
                     PROVE  FALSE
        OBVIOUS
      <3>2. CASE Live(Name(r))
        <4>1. account' = [account EXCEPT ![Name(r)].status = "deleted"] /\ n # Name(r)
          BY <1>3, <3>1, <3>2 DEF DeleteAccount
        <4> QED BY <1>0, <1>3, <4>1 DEF Live
      <3>3. CASE ~Live(Name(r))
        BY <1>3, <3>1, <3>3 DEF DeleteAccount, Live
      <3> QED BY <3>2, <3>3
    <2>3. ~UpdateRow(r)
      BY <1>0, <1>3 DEF UpdateRow, RowMatches, Live
    <2>4. InsertAccount(r)
      BY <2>1, <2>2, <2>3
    <2>5. Name(r) = n /\ ~NameTaken(r)
      BY <1>0, <1>3, <2>4 DEF InsertAccount, Live
    <2>6. /\ req[r].kind = "create" /\ req' = req
          /\ pc' = [pc EXCEPT ![r] = "insertSaving"] /\ touched' = touched \cup {r}
      BY <1>0, <2>4, <2>5 DEF InsertAccount, Calls
    <2>7. pc'[r] = "insertSaving"
      BY <2>6 DEF Typed, TypeOK
    <2> QED BY <2>5, <2>6, <2>7 DEF Owes, Name
  <1> QED BY <1>1, <1>2, <1>3

\* In every reachable state a live account without a saving row is owed one by a
\* create that is between its two inserts or failed or died there.
THEOREM LiveAccountsHaveSavings == Spec => []LiveAccountHasSaving
  <1>1. Init => Typed /\ Deleting /\ SavingOwed
    BY TypedInit, DeletingInit, SavingInit
  <1>2. (Typed /\ Deleting /\ SavingOwed) /\ [Next]_vars => (Typed /\ Deleting /\ SavingOwed)'
    BY TypedNext, DeletingNext, SavingNext
  <1>3. SavingOwed => LiveAccountHasSaving
    BY DEF SavingOwed, Owes, LiveAccountHasSaving
  <1> QED BY <1>1, <1>2, <1>3, PTL DEF Spec


-----------------------------------------------------------------------------
(* Events.  A request sends once: what it has published is behind it.             *)

Sent == {"unlock", "evictL2", "evictL1", "findItems", "findSaving", "done", "crashed"}

SentOnce ==
  /\ \A k \in 1..Len(published) :
       /\ pc[published[k].by] \in Sent /\ req[published[k].by].kind # "find"
       /\ published[k].arrived \/ faults > 0
  /\ SuccessIsPublishedOnce

\* A request for which an event is out stays among those.
LEMMA SentStays ==
  ASSUME Typed, [Next]_vars, NEW r \in Requests, pc[r] \in Sent, req[r].kind # "find"
  PROVE  pc'[r] \in Sent
  <1>0. /\ pc \in [Requests -> Labels] /\ Calls(req[r].kind, pc[r])
    BY DEF Typed, TypeOK, OnCourse
  <1> USE DEF Sent
  <1>1. ASSUME NEW q \in Requests, Serve(q)
        PROVE  pc'[r] \in Sent
    <2>1. CASE Create(q)
      BY <1>0, <2>1 DEF Create, CheckName, InsertAccount, InsertSaving
    <2>2. CASE Update(q)
      BY <1>0, <2>2 DEF Update, AcquireLock, LockTimeout, Reload, UpdateRow, UpdateConflict,
                        Unlock
    <2>3. CASE Delete(q) \/ Items(q)
      BY <1>0, <2>3 DEF Delete, DeleteAccount, DeleteItems, DeleteSaving,
                        Items, Validate, InsertItem, SelectItem, DeleteItem
    <2>4. CASE Find(q)
      BY <1>0, <2>4 DEF Find, GetLocal, GetShared, FindLoad, FindItems, FindSaving,
                        FillShared, FillLocal, Calls
    <2>5. CASE Shared(q)
      BY <1>0, <2>5 DEF Shared, LoadAccount, Snapshot, Send, EvictShared, EvictLocal
    <2> QED BY <1>1, <2>1, <2>2, <2>3, <2>4, <2>5 DEF Serve
  <1>2. ASSUME NEW q \in Requests, CallFails(q)
        PROVE  pc'[r] \in Sent
    BY <1>0, <1>2 DEF CallFails, AfterThrow
  <1>3. ASSUME NEW m \in Nodes, Crash(m)
        PROVE  pc'[r] \in Sent
    BY <1>0, <1>3 DEF Crash
  <1>4. CASE UNCHANGED pc
    BY <1>4
  <1> QED BY <1>1, <1>2, <1>3, <1>4 DEF Next, LeaseExpires, CacheEntryExpires, vars

\* Only Send, and the last step of a find, answer 200.
LEMMA SuccessStep ==
  ASSUME Typed, [Next]_vars, NEW r \in Requests, answer'[r] = "200", req[r].kind # "find"
  PROVE  answer[r] = "200" \/ Send(r)
  <1>0. answer \in [Requests -> Answers] /\ Calls(req[r].kind, pc[r])
    BY DEF Typed, TypeOK, OnCourse
  <1>1. ASSUME NEW q \in Requests, Serve(q)
        PROVE  answer[r] = "200" \/ Send(r)
    <2>1. CASE Create(q) \/ Update(q) \/ Delete(q)
      BY <1>0, <2>1 DEF Create, CheckName, InsertAccount, InsertSaving,
         Update, AcquireLock, LockTimeout, Reload, UpdateRow, UpdateConflict, Unlock,
         Delete, DeleteAccount, DeleteItems, DeleteSaving
    <2>2. CASE Items(q) \/ Shared(q)
      BY <1>0, <2>2 DEF Items, Validate, InsertItem, SelectItem, DeleteItem,
         Shared, LoadAccount, Snapshot, Send, EvictShared, EvictLocal
    <2>3. CASE Find(q)
      BY <1>0, <2>3 DEF Find, GetLocal, GetShared, FindLoad, FindItems, FindSaving,
                        FillShared, FillLocal, Calls
    <2> QED BY <1>1, <2>1, <2>2, <2>3 DEF Serve
  <1>2. ASSUME NEW q \in Requests, CallFails(q)
        PROVE  answer[r] = "200"
    BY <1>0, <1>2 DEF CallFails, ThrownAnswer
  <1>3. CASE UNCHANGED answer
    BY <1>3
  <1> QED BY <1>1, <1>2, <1>3 DEF Next, Crash, LeaseExpires, CacheEntryExpires, vars

\* The event r sends; a says whether it arrives.
EventOf(r, a) == [eventType |-> EventTypeOf(r), name |-> Name(r), items |-> view[r].items,
                  by |-> r, arrived |-> a]

LEMMA SendStep ==
  ASSUME Typed, NEW r \in Requests, Send(r)
  PROVE  LET n == Len(published)
         IN  /\ n \in Nat /\ Len(published') = n + 1
             /\ \A k \in 1..n : published'[k] = published[k]
             /\ published'[n + 1].by = r /\ published'[n + 1].name = Name(r)
             /\ published'[n + 1].items = view[r].items
             /\ published'[n + 1].arrived \/ faults' > 0
             /\ pc[r] = "send" /\ req[r].kind # "find" /\ pc'[r] \in Sent
             /\ \A k \in 1..n : published[k].by \in Requests
  <1>1. /\ published \in Seq(AccountEvent) /\ pc \in [Requests -> Labels]
        /\ Calls(req[r].kind, pc[r]) /\ faults \in Nat
    BY ServiceAssumption DEF Typed, TypeOK, OnCourse
  <1>2. PICK a \in BOOLEAN : /\ published' = Append(published, EventOf(r, a))
                            /\ faults' = IF a THEN faults ELSE faults + 1
    BY DEF Send, EventOf
  <1>3. EventOf(r, a) \in AccountEvent
    <2>1. EventTypeOf(r) \in EventTypes
      BY DEF Send, Typed, TypeOK, OnCourse, Calls, EventTypeOf, EventTypes, Request, Kinds
    <2>2. Name(r) \in Names /\ view[r].items \in SUBSET Requests
      BY DEF Name, Request, View, Typed, TypeOK
    <2> QED BY Zenon, <2>1, <2>2 DEF EventOf, AccountEvent
  <1>4. \A k \in 1..Len(published) : published[k].by \in Requests
    <2>1. \A k \in 1..Len(published) : published[k] \in AccountEvent
      BY <1>1
    <2> QED BY <2>1 DEF AccountEvent
  <1>5. pc[r] = "send" /\ req[r].kind # "find" /\ pc'[r] \in Sent
    BY <1>1 DEF Send, AfterSend, Sent, Calls
  <1>6. /\ EventOf(r, a).by = r /\ EventOf(r, a).name = Name(r)
        /\ EventOf(r, a).items = view[r].items /\ EventOf(r, a).arrived = a
    BY DEF EventOf
  <1>7. a \/ faults' > 0
    BY <1>1, <1>2
  <1>8. /\ Len(published') = Len(published) + 1 /\ Len(published) \in Nat
        /\ \A k \in 1..Len(published) : published'[k] = published[k]
        /\ published'[Len(published) + 1] = EventOf(r, a)
    BY <1>1, <1>2, <1>3
  <1> QED BY <1>4, <1>5, <1>6, <1>7, <1>8

LEMMA SentNext == Typed /\ SentOnce /\ [Next]_vars => SentOnce'
  <1> SUFFICES ASSUME Typed, SentOnce, [Next]_vars
               PROVE  SentOnce'
    OBVIOUS
  <1> DEFINE n == Len(published)
  <1>0. /\ req' = req /\ faults \in Nat /\ faults' \in Nat /\ faults' >= faults
        /\ published \in Seq(AccountEvent) /\ n \in Nat
        /\ \A k \in 1..n : /\ published[k].by \in Requests /\ req[published[k].by].kind # "find"
                           /\ pc[published[k].by] \in Sent
    <2>1. published \in Seq(AccountEvent)
      BY DEF Typed, TypeOK
    <2>2. \A k \in 1..n : published[k] \in AccountEvent
      BY <2>1
    <2>3. faults \in Nat /\ faults' \in Nat
      BY TypedNext, ServiceAssumption DEF Typed, TypeOK
    <2> QED BY <2>1, <2>2, <2>3, ForwardStep DEF Forward, AccountEvent, SentOnce
  <1>1. \A k \in 1..n : pc'[published[k].by] \in Sent
    BY <1>0, SentStays
  <1>2. \A r \in Requests : /\ answer'[r] = "200" /\ req[r].kind # "find"
                            => Send(r) \/ \E k \in 1..n : published[k].by = r
    BY SuccessStep DEF SentOnce, SuccessIsPublishedOnce
  <1>3. /\ \A j, k \in 1..n : published[j].by = published[k].by => j = k
        /\ \A k \in 1..n : published[k].arrived \/ faults' > 0
    BY <1>0 DEF SentOnce, SuccessIsPublishedOnce
  <1>4. CASE \E r \in Requests : Send(r)
    <2>1. PICK r \in Requests : Send(r)
      BY <1>4
    <2>0. PICK last \in Nat : last = n + 1
      BY <1>0
    <2>s. /\ Len(published') = last
          /\ \A k \in 1..n : published'[k] = published[k]
          /\ published'[last].by = r
          /\ pc[r] = "send" /\ req[r].kind # "find" /\ pc'[r] \in Sent
      BY <2>0, <2>1, SendStep
    <2>a. published'[last].arrived \/ faults' > 0
      BY <2>0, <2>1, SendStep
    <2>2. /\ Len(published') = last /\ last \in 1..Len(published')
          /\ \A k \in 1..n : published'[k] = published[k] /\ k \in 1..Len(published')
          /\ published'[last].by = r
          /\ pc[r] = "send" /\ req[r].kind # "find" /\ pc'[r] \in Sent
          /\ req'[r].kind # "find"
      BY <1>0, <2>0, <2>s
    <2>3. \A k \in 1..n : published[k].by # r
      BY <1>0, <2>2 DEF Sent
    <2>4. \A k \in 1..Len(published') : k \in 1..n \/ k = last
      BY <1>0, <2>0, <2>s
    <2>u. \A q \in Requests : Send(q) => q = r
      <3> SUFFICES ASSUME NEW q \in Requests, Send(q)
                   PROVE  q = r
        OBVIOUS
      <3>1. published'[last].by = q
        BY <2>0, SendStep
      <3> QED BY <2>2, <3>1
    <2> HIDE DEF n
    <2>5. ASSUME NEW k \in 1..Len(published')
          PROVE  /\ pc'[published'[k].by] \in Sent /\ req'[published'[k].by].kind # "find"
                 /\ published'[k].arrived \/ faults' > 0
      <3>1. CASE k \in 1..n
        <4>1. published'[k] = published[k]
          BY <2>2, <3>1
        <4>2. pc'[published[k].by] \in Sent /\ req'[published[k].by].kind # "find"
          BY <1>0, <1>1, <3>1
        <4>3. published[k].arrived \/ faults' > 0
          BY <1>3, <3>1
        <4> QED BY Zenon, <4>1, <4>2, <4>3
      <3>2. CASE k = last
        BY Zenon, <2>2, <2>a, <3>2
      <3> QED BY <2>4, <3>1, <3>2
    <2>6. ASSUME NEW q \in Requests, answer'[q] = "200", req'[q].kind # "find"
          PROVE  \E k \in 1..Len(published') : /\ published'[k].by = q
                                               /\ published'[k].arrived \/ faults' > 0
      <3>1. Send(q) => q = r
        BY <2>u
      <3>2. CASE q = r
        BY Zenon, <2>2, <2>a, <3>2
      <3>3. CASE q # r
        <4>1. PICK k \in 1..n : published[k].by = q
          BY <1>0, <1>2, <2>6, <3>1, <3>3
        <4>2. k \in 1..Len(published') /\ published'[k] = published[k]
          BY <2>2, <4>1
        <4>3. published'[k].by = q
          BY <4>1, <4>2
        <4> QED BY Zenon, <2>5, <4>2, <4>3
      <3> QED BY <3>2, <3>3
    <2>7. ASSUME NEW j \in 1..Len(published'), NEW k \in 1..Len(published'),
                 published'[j].by = published'[k].by
          PROVE  j = k
      <3>1. CASE j \in 1..n /\ k \in 1..n
        BY <1>3, <2>2, <2>7, <3>1
      <3>2. CASE j = last /\ k = last
        BY <3>2
      <3>3. CASE j \in 1..n /\ k = last
        <4>1. published[j].by = r
          BY <2>2, <2>7, <3>3
        <4> QED BY <2>3, <3>3, <4>1
      <3>4. CASE j = last /\ k \in 1..n
        <4>1. published[k].by = r
          BY <2>2, <2>7, <3>4
        <4> QED BY <2>3, <3>4, <4>1
      <3> QED BY <2>4, <3>1, <3>2, <3>3, <3>4
    <2> QED BY <2>5, <2>6, <2>7 DEF SentOnce, SuccessIsPublishedOnce
  <1>5. CASE ~\E r \in Requests : Send(r)
    <2>1. published' = published
      BY <1>5, Changing
    <2>2. ASSUME NEW q \in Requests, answer'[q] = "200", req'[q].kind # "find"
          PROVE  \E k \in 1..n : published[k].by = q /\ (published[k].arrived \/ faults' > 0)
      BY <1>0, <1>2, <1>3, <1>5, <2>2
    <2> QED BY <1>0, <1>1, <1>3, <2>1, <2>2 DEF SentOnce, SuccessIsPublishedOnce
  <1> QED BY <1>4, <1>5

\* In every reachable state a write answered 200 has handed its event to the broker,
\* no request has handed over two, and without a fault every one has arrived.
THEOREM SuccessesArePublishedOnce == Spec => []SuccessIsPublishedOnce
  <1>1. Init => Typed /\ SentOnce
    BY TypedInit DEF Init, SentOnce, SuccessIsPublishedOnce
  <1>2. (Typed /\ SentOnce) /\ [Next]_vars => (Typed /\ SentOnce)'
    BY TypedNext, SentNext
  <1>3. SentOnce => SuccessIsPublishedOnce
    BY DEF SentOnce
  <1> QED BY <1>1, <1>2, <1>3, PTL DEF Spec


-----------------------------------------------------------------------------
(* Rows of `transaction`.  An item is inserted by its own request, once, and what *)
(* is deleted stays deleted.                                                      *)

InsertedByOwner == \A r \in Requests : pc[r] \in {"start", "insertItem"} => item[r] = "absent"

ItemsForward ==
  \A i \in Requests : \/ item'[i] = item[i]
                      \/ item[i] = "live" /\ item'[i] = "deleted"
                      \/ item[i] = "absent" /\ item'[i] = "live" /\ InsertItem(i)

LEMMA ItemsStep ==
  ASSUME Typed, InsertedByOwner, [Next]_vars
  PROVE  ItemsForward
  <1>0. /\ item \in [Requests -> Statuses] /\ pc \in [Requests -> Labels]
    BY DEF Typed, TypeOK
  <1> SUFFICES ASSUME NEW i \in Requests, item'[i] # item[i]
               PROVE  \/ item[i] = "live" /\ item'[i] = "deleted"
                      \/ item[i] = "absent" /\ item'[i] = "live" /\ InsertItem(i)
    BY DEF ItemsForward
  <1>1. PICK r \in Requests : InsertItem(r) \/ DeleteItem(r) \/ DeleteItems(r)
    BY Changing
  <1>2. CASE InsertItem(r)
    BY <1>0, <1>2 DEF InsertItem, InsertedByOwner
  <1>3. CASE DeleteItem(r)
    BY <1>0, <1>3 DEF DeleteItem
  <1>4. CASE DeleteItems(r)
    BY <1>0, <1>4 DEF DeleteItems, LiveItems
  <1> QED BY <1>1, <1>2, <1>3, <1>4

LEMMA OwnerNext == Typed /\ InsertedByOwner /\ [Next]_vars => InsertedByOwner'
  <1> SUFFICES ASSUME Typed, InsertedByOwner, [Next]_vars, NEW q \in Requests,
                      pc'[q] \in {"start", "insertItem"}
               PROVE  item'[q] = "absent"
    BY DEF InsertedByOwner
  <1>1. ItemsForward
    BY ItemsStep
  <1>2. item[q] = "absent"
    <2>1. CASE pc'[q] = pc[q]
      BY <2>1 DEF InsertedByOwner
    <2>2. CASE pc'[q] # pc[q]
      <3>1. CameBy(q)
        BY <2>2, Entering
      <3> QED BY <3>1 DEF CameBy, LoadAccount, InsertedByOwner
    <2> QED BY <2>1, <2>2
  <1>3. ~InsertItem(q)
    BY DEF InsertItem, Typed, TypeOK
  <1> QED BY <1>1, <1>2, <1>3 DEF ItemsForward

-----------------------------------------------------------------------------
(* Snapshots.  What an event has to show is true of the view of a request that is *)
(* about to send, since its own change came before its snapshot.                  *)

OwnItems(I, n) == \A i \in I : Name(i) = n /\ item[i] # "absent"

ShowsChange(r, I) ==
  /\ req[r].kind = "addItem" => r \in I \/ item[r] = "deleted"
  /\ req[r].kind = "deleteItem" => req[r].target \notin I

\* The change r announces has been made, or another request has made it.
ChangeMade(r) ==
  /\ req[r].kind = "addItem" => item[r] # "absent"
  /\ req[r].kind = "deleteItem" => item[req[r].target] = "deleted"

Preparing(r) ==
  /\ pc[r] = "deleteItem" => item[req[r].target] # "absent"
  /\ pc[r] \in {"deleteItem", "snapshot"} /\ req[r].kind = "deleteItem"
       => req[r].target \in Requests
  /\ pc[r] = "snapshot" => ChangeMade(r)
  /\ pc[r] = "send" => OwnItems(view[r].items, Name(r)) /\ ShowsChange(r, view[r].items)

SnapshotInv == \A r \in Requests : Preparing(r)

\* Nothing that a snapshot shows is undone later.
LEMMA ShownStays ==
  ASSUME ItemsForward, Forward, NEW I \in SUBSET Requests, NEW r \in Requests, NEW n
  PROVE  /\ OwnItems(I, n) => OwnItems(I, n)'
         /\ ShowsChange(r, I) => ShowsChange(r, I)'
  BY DEF ItemsForward, Forward, OwnItems, ShowsChange, Name

LEMMA SnapshotNext == Typed /\ InsertedByOwner /\ SnapshotInv /\ [Next]_vars => SnapshotInv'
  <1> SUFFICES ASSUME Typed, InsertedByOwner, SnapshotInv, [Next]_vars, NEW q \in Requests
               PROVE  Preparing(q)'
    BY DEF SnapshotInv
  <1>0. /\ Preparing(q) /\ ItemsForward /\ Forward /\ Calls(req[q].kind, pc[q])
        /\ pc \in [Requests -> Labels] /\ view \in [Requests -> View]
        /\ item \in [Requests -> Statuses] /\ Name(q) \in Names
        /\ view[q].items \in SUBSET Requests
    BY ItemsStep, ForwardStep DEF SnapshotInv, Typed, TypeOK, OnCourse, Name, Request, View
  <1>n. req' = req /\ Name(q)' = Name(q)
    BY <1>0 DEF Forward, Name
  <1>1. CASE pc'[q] = pc[q]
    <2>1. pc[q] = "deleteItem" => item'[req[q].target] # "absent"
      BY <1>0 DEF Preparing, ItemsForward, Calls
    <2>2. pc[q] = "snapshot" => ChangeMade(q)'
      BY <1>0, <1>n DEF Preparing, ChangeMade, ItemsForward
    <2>3. pc[q] = "send" => view'[q] = view[q]
      BY <1>1, <1>0, Changing DEF Snapshot, GetShared, FindLoad, FindItems, FindSaving
    <2>4. ASSUME pc[q] = "send"
          PROVE  /\ OwnItems(view[q].items, Name(q))'
                 /\ ShowsChange(q, view[q].items)'
      <3>1. PICK I \in SUBSET Requests : I = view[q].items
        BY <1>0
      <3>2. view'[q].items = I
        BY <2>3, <2>4, <3>1
      <3>3. OwnItems(I, Name(q)) /\ ShowsChange(q, I)
        BY <1>0, <2>4, <3>1 DEF Preparing
      <3>4. OwnItems(I, Name(q))'
        BY <1>0, <1>n, <3>3 DEF OwnItems, ItemsForward, Name
      <3>5. ShowsChange(q, I)'
        BY <1>0, <3>3, ShownStays
      <3> QED BY <3>2, <3>4, <3>5 DEF OwnItems, ShowsChange
    <2> QED BY <1>0, <1>1, <1>n, <2>1, <2>2, <2>4 DEF Preparing
  <1>2. CASE pc'[q] # pc[q]
    <2>0. CameBy(q)
      BY <1>2, Entering
    <2>1. CASE pc'[q] = "deleteItem"
      <3>1. SelectItem(q)
        BY <2>0, <2>1 DEF CameBy
      <3>2. req[q].target \in LiveItems(Name(q)) /\ item' = item
        BY <1>0, <2>1, <3>1 DEF SelectItem
      <3> QED BY <1>n, <2>1, <3>2 DEF Preparing, LiveItems
    <2>2. CASE pc'[q] = "snapshot"
      <3>1. \/ InsertSaving(q) \/ UpdateRow(q) \/ DeleteSaving(q)
            \/ InsertItem(q) \/ DeleteItem(q)
        BY <2>0, <2>2 DEF CameBy
      <3>2. CASE InsertSaving(q) \/ UpdateRow(q) \/ DeleteSaving(q)
        BY <1>0, <1>n, <2>2, <3>2 DEF InsertSaving, UpdateRow, DeleteSaving, Calls, Preparing,
                                      ChangeMade
      <3>3. CASE InsertItem(q)
        BY <1>0, <1>n, <2>2, <3>3 DEF InsertItem, Calls, Preparing, ChangeMade
      <3>4. CASE DeleteItem(q)
        <4>1. /\ req[q].kind = "deleteItem" /\ req[q].target \in Requests
              /\ item[req[q].target] \in {"live", "deleted"}
          BY <1>0, <3>4 DEF DeleteItem, Calls, Preparing, Statuses
        <4>2. item'[req[q].target] = "deleted"
          BY <1>0, <3>4, <4>1 DEF DeleteItem
        <4> QED BY <1>n, <2>2, <4>1, <4>2 DEF Preparing, ChangeMade
      <3> QED BY <3>1, <3>2, <3>3, <3>4
    <2>3. CASE pc'[q] = "send"
      <3>1. Snapshot(q)
        BY <2>0, <2>3 DEF CameBy
      <3>2. /\ view' = [view EXCEPT ![q].items = LiveItems(Name(q))] /\ item' = item
            /\ ChangeMade(q)
        BY <1>0, <3>1 DEF Snapshot, Preparing
      <3>3. view'[q].items = LiveItems(Name(q))
        BY <1>0, <3>2 DEF View
      <3>4. OwnItems(view[q].items, Name(q))'
        BY <1>n, <3>2, <3>3 DEF OwnItems, LiveItems, Name
      <3>5. ShowsChange(q, view[q].items)'
        BY <1>0, <1>n, <3>2, <3>3 DEF ShowsChange, ChangeMade, LiveItems, Statuses
      <3> QED BY <2>3, <3>4, <3>5 DEF Preparing
    <2> QED BY <2>1, <2>2, <2>3 DEF Preparing
  <1> QED BY <1>1, <1>2

LEMMA ShowsNext ==
  Typed /\ InsertedByOwner /\ SnapshotInv /\ EventShowsChange /\ [Next]_vars
    => EventShowsChange'
  <1> SUFFICES ASSUME Typed, InsertedByOwner, SnapshotInv, EventShowsChange, [Next]_vars
               PROVE  EventShowsChange'
    OBVIOUS
  <1> DEFINE n == Len(published)
             Fine(e) == OwnItems(e.items, e.name) /\ ShowsChange(e.by, e.items)
  <1>0. /\ ItemsForward /\ Forward /\ n \in Nat
        /\ \A k \in 1..n : published[k] \in AccountEvent
    BY ItemsStep, ForwardStep DEF Typed, TypeOK
  <1>1. \A k \in 1..n : Fine(published[k])
    BY DEF EventShowsChange, OwnItems, ShowsChange
  <1>2. ASSUME \A k \in 1..Len(published') :
                 /\ \A i \in published'[k].items : /\ Name(i)' = published'[k].name
                                                   /\ item'[i] # "absent"
                 /\ ShowsChange(published[k].by, published[k].items)'
        PROVE  EventShowsChange'
    BY <1>2 DEF EventShowsChange, ShowsChange
  <1>3. ASSUME NEW k \in 1..n, published'[k] = published[k]
        PROVE  /\ \A i \in published'[k].items : /\ Name(i)' = published'[k].name
                                                 /\ item'[i] # "absent"
               /\ ShowsChange(published[k].by, published[k].items)'
    <2>1. /\ published[k].items \in SUBSET Requests /\ published[k].by \in Requests
      BY <1>0 DEF AccountEvent
    <2>2. PICK I \in SUBSET Requests, r \in Requests : I = published[k].items /\ r = published[k].by
      BY <2>1
    <2>3. ShowsChange(r, I)'
      BY <1>0, <1>1, <2>2, ShownStays
    <2>4. ShowsChange(published[k].by, published[k].items)'
      BY <1>3, <2>2, <2>3 DEF ShowsChange
    <2>5. \A i \in I : Name(i) = published[k].name /\ item[i] # "absent"
      BY <1>1, <2>2 DEF OwnItems
    <2>6. \A i \in I : Name(i)' = published[k].name /\ item'[i] # "absent"
      BY <1>0, <2>2, <2>5 DEF ItemsForward, Forward, Name
    <2> QED BY <1>3, <2>2, <2>4, <2>6
  <1>4. CASE \E r \in Requests : Send(r)
    <2>1. PICK r \in Requests : Send(r)
      BY <1>4
    <2>2. /\ Len(published') = n + 1
          /\ \A k \in 1..n : published'[k] = published[k]
          /\ published'[n + 1].by = r /\ published'[n + 1].name = Name(r)
          /\ published'[n + 1].items = view[r].items
          /\ pc[r] = "send"
      BY <2>1, SendStep
    <2>3. UNCHANGED <<item, req>>
      BY <2>1 DEF Send
    <2>4. OwnItems(view[r].items, Name(r)) /\ ShowsChange(r, view[r].items)
      BY <2>2 DEF SnapshotInv, Preparing
    <2>5. PICK last \in Nat : last = n + 1
      BY <1>0
    <2>6. \A i \in published'[last].items : Name(i)' = published'[last].name /\ item'[i] # "absent"
      BY <2>2, <2>3, <2>4, <2>5 DEF OwnItems, Name
    <2>7. ShowsChange(published[last].by, published[last].items)'
      BY <2>2, <2>3, <2>4, <2>5 DEF ShowsChange
    <2>8. \A k \in 1..Len(published') : k \in 1..n \/ k = last
      BY <1>0, <2>2, <2>5
    <2> QED BY <1>2, <1>3, <2>2, <2>6, <2>7, <2>8
  <1>5. CASE ~\E r \in Requests : Send(r)
    <2>1. published' = published
      BY <1>5, Changing
    <2> QED BY <1>2, <1>3, <2>1
  <1> QED BY <1>4, <1>5

\* In every reachable state every published event shows items of its own account
\* only, and the change it announces, unless that has been undone before the
\* snapshot.
THEOREM EventsShowTheirChange == Spec => []EventShowsChange
  <1> DEFINE Inv == Typed /\ InsertedByOwner /\ SnapshotInv /\ EventShowsChange
  <1>1. Init => Inv
    BY TypedInit DEF Init, InsertedByOwner, SnapshotInv, Preparing, EventShowsChange
  <1>2. Inv /\ [Next]_vars => Inv'
    BY TypedNext, OwnerNext, SnapshotNext, ShowsNext
  <1>3. Inv => EventShowsChange
    OBVIOUS
  <1> QED BY <1>1, <1>2, <1>3, PTL DEF Spec


-----------------------------------------------------------------------------
(* Cached views.  What the tables hold is in their history, and the history only  *)
(* grows: what a find has read stays a part of it on the way into the caches.     *)

Kept ==
  \A n \in Names : /\ account[n].status # "absent" => account[n].currency \in past[n].currency
                   /\ LiveItems(n) \in past[n].items
                   /\ (saving[n] = "live") \in past[n].saving

PastGrows ==
  \A n \in Names : /\ past[n].currency \subseteq past'[n].currency
                   /\ past[n].items \subseteq past'[n].items
                   /\ past[n].saving \subseteq past'[n].saving

LEMMA KeptInit == Init => Kept
  <1> SUFFICES ASSUME Init, NEW n \in Names
               PROVE  /\ account[n].status # "absent" => account[n].currency \in past[n].currency
                      /\ LiveItems(n) \in past[n].items
                      /\ (saving[n] = "live") \in past[n].saving
    BY DEF Kept
  <1>1. /\ past[n].currency = HeldCurrency(n) /\ past[n].items = {{}}
        /\ past[n].saving = {saving[n] = "live"}
    BY DEF Init
  <1>2. LiveItems(n) = {}
    BY DEF Init, LiveItems
  <1>4. /\ LiveItems(n) \in past[n].items
        /\ account[n].status # "absent" => account[n].currency \in past[n].currency
    BY <1>1, <1>2 DEF HeldCurrency
  <1>5. (saving[n] = "live") \in past[n].saving
    BY Zenon, <1>1
  <1> QED BY <1>4, <1>5

\* A step writes the history or no table.
LEMMA Remembering ==
  ASSUME Typed, [Next]_vars
  PROVE  Remember \/ UNCHANGED <<account, saving, item, req, past>>
  <1> DEFINE Goal == Remember \/ UNCHANGED <<account, saving, item, req, past>>
  <1>1. ASSUME NEW r \in Requests, Serve(r)
        PROVE  Goal
    <2>1. CASE Create(r)
      BY <2>1 DEF Create, CheckName, InsertAccount, InsertSaving
    <2>2. CASE Update(r)
      BY <2>2 DEF Update, AcquireLock, LockTimeout, Reload, UpdateRow, UpdateConflict, Unlock
    <2>3. CASE Delete(r)
      BY <2>3 DEF Delete, DeleteAccount, DeleteItems, DeleteSaving
    <2>4. CASE Items(r)
      BY <2>4 DEF Items, Validate, InsertItem, SelectItem, DeleteItem
    <2>5. CASE Find(r)
      BY <2>5 DEF Find, GetLocal, GetShared, FindLoad, FindItems, FindSaving,
                  FillShared, FillLocal
    <2>6. CASE Shared(r)
      BY <2>6 DEF Shared, LoadAccount, Snapshot, Send, EvictShared, EvictLocal
    <2> QED BY <1>1, <2>1, <2>2, <2>3, <2>4, <2>5, <2>6 DEF Serve
  <1>2. CASE UNCHANGED <<account, saving, item, req, past>>
    BY <1>2
  <1> QED BY <1>1, <1>2 DEF Next, CallFails, Crash, LeaseExpires, CacheEntryExpires, vars

LEMMA KeptNext ==
  ASSUME Typed, Kept, [Next]_vars
  PROVE  Kept' /\ PastGrows
  <1>1. CASE Remember
    <2> SUFFICES ASSUME NEW n \in Names
                 PROVE  /\ account'[n].status # "absent"
                             => account'[n].currency \in past'[n].currency
                        /\ LiveItems(n)' \in past'[n].items
                        /\ (saving'[n] = "live") \in past'[n].saving
                        /\ past[n].currency \subseteq past'[n].currency
                        /\ past[n].items \subseteq past'[n].items
                        /\ past[n].saving \subseteq past'[n].saving
      BY DEF Kept, PastGrows
    <2>1. /\ past'[n].currency = past[n].currency \cup HeldCurrency(n)'
          /\ past'[n].items = past[n].items \cup {LiveItems(n)'}
          /\ past'[n].saving = past[n].saving \cup {saving'[n] = "live"}
      BY <1>1 DEF Remember
    <2>2. account'[n].status # "absent" => account'[n].currency \in HeldCurrency(n)'
      BY DEF HeldCurrency
    <2> QED BY Zenon, <2>1, <2>2
  <1>2. CASE UNCHANGED <<account, saving, item, req, past>>
    BY <1>2 DEF Kept, PastGrows, LiveItems, Name
  <1> QED BY <1>1, <1>2, Remembering

\* Each part of v is one that account n once had.
Shown(n, v) == /\ v.currency \in past[n].currency
               /\ v.items \in past[n].items
               /\ v.saving \in past[n].saving

\* What a find has read so far.
Reading(r) ==
  req[r].kind = "find" =>
    /\ pc[r] \in {"findItems", "findSaving", "putL2", "putL1", "backfill"}
         => view[r].currency \in past[Name(r)].currency
    /\ pc[r] \in {"findSaving", "putL2", "putL1", "backfill"}
         => view[r].items \in past[Name(r)].items
    /\ pc[r] \in {"putL2", "putL1", "backfill"} => view[r].saving \in past[Name(r)].saving

ViewsCommitted == \A r \in Requests : Reading(r)

CachesCommitted ==
  \A n \in Names :
    /\ l2[n] # NoEntry => Shown(n, l2[n])
    /\ \A m \in Nodes : l1[m][n] # NoEntry => Shown(n, l1[m][n])

LEMMA ShownForward ==
  ASSUME PastGrows, NEW n \in Names, NEW v, Shown(n, v)
  PROVE  Shown(n, v)'
  BY DEF Shown, PastGrows

LEMMA ReadingNext ==
  ASSUME Typed, Kept, ViewsCommitted, CachesCommitted, [Next]_vars
  PROVE  ViewsCommitted'
  <1> SUFFICES ASSUME NEW q \in Requests, req[q].kind = "find"
               PROVE  Reading(q)'
    BY ForwardStep DEF ViewsCommitted, Reading, Forward
  <1>0. /\ Reading(q) /\ PastGrows /\ Forward /\ Calls(req[q].kind, pc[q])
        /\ pc \in [Requests -> Labels] /\ view \in [Requests -> View]
        /\ l2 \in [Names -> View \cup {NoEntry}] /\ view[q] \in View
    <2>1. /\ pc \in [Requests -> Labels] /\ view \in [Requests -> View]
          /\ l2 \in [Names -> View \cup {NoEntry}] /\ Calls(req[q].kind, pc[q])
      BY DEF Typed, TypeOK, OnCourse, CacheTypeOK
    <2> QED BY <2>1, KeptNext, ForwardStep DEF ViewsCommitted
  <1>n. PICK n \in Names : n = Name(q) /\ n = Name(q)'
    BY <1>0 DEF Forward, Name, Request, Typed, TypeOK
  <1>v. PICK v \in View : v = view'[q]
    BY TypedNext DEF Typed, TypeOK
  <1> DEFINE Rest == {"findSaving", "putL2", "putL1", "backfill"}
  <1>c. SUFFICES /\ pc'[q] \in {"findItems"} \cup Rest => v.currency \in past[n].currency
                 /\ pc'[q] \in Rest => v.items \in past[n].items
                 /\ pc'[q] \in Rest \ {"findSaving"} => v.saving \in past[n].saving
    BY <1>0, <1>n, <1>v DEF Reading, PastGrows
  <1>1. CASE pc'[q] = pc[q]
    <2>1. CASE pc[q] \in {"findItems"} \cup Rest
      <3>1. view'[q] = view[q]
        BY <1>0, <1>1, <2>1, Changing DEF Snapshot, GetShared, FindLoad, FindItems, FindSaving
      <3> QED BY <1>0, <1>1, <1>n, <1>v, <2>1, <3>1 DEF Reading
    <2>2. CASE pc[q] \notin {"findItems"} \cup Rest
      BY <1>1, <2>2
    <2> QED BY <2>1, <2>2
  <1>2. CASE pc'[q] # pc[q]
    <2>0. CameBy(q)
      BY <1>2, Entering
    <2>1. CASE pc'[q] = "findItems"
      <3>1. FindLoad(q)
        BY <1>0, <2>0, <2>1 DEF CameBy, Send, Calls
      <3>2. Live(n) /\ view' = [view EXCEPT ![q].currency = account[n].currency]
        BY <1>0, <1>n, <2>1, <3>1 DEF FindLoad
      <3>3. v.currency = account[n].currency
        BY <1>0, <1>v, <3>2 DEF View
      <3> QED BY <2>1, <3>2, <3>3 DEF Kept, Live
    <2>2. CASE pc'[q] = "findSaving"
      <3>1. FindItems(q) /\ pc[q] = "findItems"
        BY <2>0, <2>2 DEF CameBy, FindItems
      <3>2. view' = [view EXCEPT ![q].items = LiveItems(n)]
        BY <1>n, <3>1 DEF FindItems
      <3>3. v.items = LiveItems(n) /\ v.currency = view[q].currency
        BY <1>0, <1>v, <3>2 DEF View
      <3> QED BY <1>0, <1>n, <2>2, <3>1, <3>3 DEF Reading, Kept
    <2>3. CASE pc'[q] = "putL2"
      <3>1. FindSaving(q) /\ pc[q] = "findSaving"
        BY <2>0, <2>3 DEF CameBy, FindSaving
      <3>2. view' = [view EXCEPT ![q].saving = (saving[n] = "live")]
        BY <1>n, <3>1 DEF FindSaving
      <3>3. /\ v.items = view[q].items /\ v.currency = view[q].currency
            /\ v.saving = (saving[n] = "live")
        BY <1>0, <1>v, <3>2 DEF View
      <3> QED BY Zenon, <1>0, <1>n, <3>1, <3>3 DEF Reading, Kept
    <2>4. CASE pc'[q] = "putL1"
      <3>1. FillShared(q) /\ pc[q] = "putL2" /\ view' = view
        BY <2>0, <2>4 DEF CameBy, FillShared
      <3> QED BY <1>0, <1>n, <1>v, <3>1 DEF Reading
    <2>5. CASE pc'[q] = "backfill"
      <3>1. l2[n] # NoEntry /\ view' = [view EXCEPT ![q] = l2[n]]
        BY <1>0, <1>n, <2>0, <2>5 DEF CameBy, GetShared
      <3>2. v = l2[n]
        BY <1>0, <1>v, <3>1
      <3> QED BY <3>1, <3>2 DEF CachesCommitted, Shown
    <2> QED BY <2>1, <2>2, <2>3, <2>4, <2>5
  <1> QED BY <1>1, <1>2

\* What a cache holds was there before, or is the view of a find that fills it now.
LEMMA CacheStep ==
  ASSUME Typed, [Next]_vars, NEW n \in Names
  PROVE  /\ \/ l2'[n] \in {l2[n], NoEntry}
            \/ \E r \in Requests : FillShared(r) /\ Name(r) = n /\ l2'[n] = view[r]
         /\ \A m \in Nodes :
              \/ l1'[m][n] \in {l1[m][n], NoEntry}
              \/ \E r \in Requests : FillLocal(r) /\ Name(r) = n /\ l1'[m][n] = view[r]
  <1> DEFINE A == \/ l2'[n] \in {l2[n], NoEntry}
                  \/ \E r \in Requests : FillShared(r) /\ Name(r) = n /\ l2'[n] = view[r]
             B == \A m \in Nodes :
                    \/ l1'[m][n] \in {l1[m][n], NoEntry}
                    \/ \E r \in Requests : FillLocal(r) /\ Name(r) = n /\ l1'[m][n] = view[r]
  <1>0. /\ l1 \in [Nodes -> [Names -> View \cup {NoEntry}]]
        /\ l2 \in [Names -> View \cup {NoEntry}]
        /\ \A q \in Requests : Name(q) \in Names /\ NodeOf[q] \in Nodes
    BY ServiceAssumption DEF Typed, TypeOK, CacheTypeOK, Name, Request
  <1>1. ASSUME NEW r \in Requests, Serve(r)
        PROVE  A /\ B
    <2>1. CASE FillShared(r)
      BY <1>0, <2>1 DEF FillShared, PutL2
    <2>2. CASE FillLocal(r)
      BY <1>0, <2>2 DEF FillLocal, PutL1
    <2>3. CASE EvictShared(r)
      BY <1>0, <2>3 DEF EvictShared, EvictL2, PutL2
    <2>4. CASE EvictLocal(r)
      BY <1>0, <2>4 DEF EvictLocal, EvictL1, PutL1
    <2>5. CASE UNCHANGED <<l1, l2>>
      BY <2>5
    <2> QED BY <1>1, <2>1, <2>2, <2>3, <2>4, <2>5 DEF Serve,
           Create, CheckName, InsertAccount, InsertSaving,
           Update, AcquireLock, LockTimeout, Reload, UpdateRow, UpdateConflict, Unlock,
           Delete, DeleteAccount, DeleteItems, DeleteSaving,
           Items, Validate, InsertItem, SelectItem, DeleteItem,
           Find, GetLocal, GetShared, FindLoad, FindItems, FindSaving,
           Shared, LoadAccount, Snapshot, Send
  <1>2. ASSUME NEW x \in Nodes, Crash(x)
        PROVE  A /\ B
    BY <1>0, <1>2 DEF Crash, RestartL1, EmptyL1
  <1>3. CASE CacheEntryExpires
    <2>1. ASSUME NEW x \in Nodes, NEW k \in Names, ExpireL1(x, k)
          PROVE  A /\ B
      BY <1>0, <2>1 DEF ExpireL1, EvictL1, PutL1
    <2>2. ASSUME NEW k \in Names, ExpireL2(k)
          PROVE  A /\ B
      BY <1>0, <2>2 DEF ExpireL2, EvictL2, PutL2
    <2> QED BY <1>3, <2>1, <2>2 DEF CacheEntryExpires, CacheExpires
  <1>4. CASE UNCHANGED <<l1, l2>>
    BY <1>4
  <1> QED BY <1>1, <1>2, <1>3, <1>4 DEF Next, CallFails, LeaseExpires, vars

LEMMA CachesNext ==
  ASSUME Typed, Kept, ViewsCommitted, CachesCommitted, [Next]_vars
  PROVE  CachesCommitted'
  <1> SUFFICES ASSUME NEW n \in Names
               PROVE  /\ l2'[n] # NoEntry => Shown(n, l2[n])'
                      /\ \A m \in Nodes : l1'[m][n] # NoEntry => Shown(n, l1[m][n])'
    BY DEF CachesCommitted
  <1>0. /\ l1 \in [Nodes -> [Names -> View \cup {NoEntry}]]
        /\ l2 \in [Names -> View \cup {NoEntry}] /\ view \in [Requests -> View]
    BY DEF Typed, TypeOK, CacheTypeOK
  <1>1. \A v \in View : Shown(n, v) => Shown(n, v)'
    BY KeptNext, ShownForward
  <1>2. ASSUME NEW r \in Requests, FillShared(r) \/ FillLocal(r), Name(r) = n
        PROVE  Shown(n, view[r])
    BY <1>2 DEF FillShared, FillLocal, ViewsCommitted, Reading, Shown, Typed, OnCourse, Calls
  <1>3. ASSUME l2'[n] # NoEntry
        PROVE  \E v \in View : v = l2'[n] /\ Shown(n, v)
    BY <1>0, <1>2, <1>3, CacheStep DEF CachesCommitted
  <1>4. ASSUME NEW m \in Nodes, l1'[m][n] # NoEntry
        PROVE  \E v \in View : v = l1'[m][n] /\ Shown(n, v)
    BY <1>0, <1>2, <1>4, CacheStep DEF CachesCommitted
  <1>5. l2'[n] # NoEntry => Shown(n, l2[n])'
    BY <1>1, <1>3 DEF Shown
  <1>6. \A m \in Nodes : l1'[m][n] # NoEntry => Shown(n, l1[m][n])'
    BY <1>1, <1>4 DEF Shown
  <1> QED BY <1>5, <1>6

\* In every reachable state each of currency, items and saving in a response of either
\* cache level is one the tables once held for its account; an account that never was
\* is not cached.
THEOREM CachesShowCommitted == Spec => []CachedViewsWereCommitted
  <1> DEFINE Inv == Typed /\ Kept /\ ViewsCommitted /\ CachesCommitted
  <1>1. Init => Inv
    <2>1. Init => ViewsCommitted
      BY DEF Init, ViewsCommitted, Reading
    <2>2. Init => CachesCommitted
      BY DEF Init, CachesCommitted, CacheInit, EmptyL1
    <2> QED BY <2>1, <2>2, TypedInit, KeptInit
  <1>2. Inv /\ [Next]_vars => Inv'
    BY TypedNext, KeptNext, ReadingNext, CachesNext
  <1>3. Inv => CachedViewsWereCommitted
    BY DEF CachesCommitted, Shown, CachedViewsWereCommitted
  <1> QED BY <1>1, <1>2, <1>3, PTL DEF Spec

===============================================================================
