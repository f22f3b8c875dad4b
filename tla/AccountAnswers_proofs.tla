------------------------ MODULE AccountAnswers_proofs ------------------------
(***************************************************************************)
(* What the answers of account-service say about the tables, and what the  *)
(* account lock guarantees although its leases run out.                    *)
(***************************************************************************)
EXTENDS AccountService_proofs

USE DEF tables, locals, history, cacheVars, Step, Reply

-----------------------------------------------------------------------------
(* Answers.  A request that has changed a row is past the calls that may still    *)
(* answer 400, 404 or 409, and has no answer before it gets to the last ones.     *)

Assembling == {"findItems", "findSaving", "putL2", "putL1"}

AfterAnswer == {"unlock", "evictL2", "evictL1", "done", "crashed"} \cup Assembling

AfterChange == {"insertSaving", "deleteItems", "deleteSaving", "snapshot", "send"}
               \cup AfterAnswer

Answering(r) ==
  /\ pc[r] \notin AfterAnswer => answer[r] = "none"
  /\ pc[r] \in Assembling => answer[r] \in {"none", "200"}
  /\ r \in touched => pc[r] \in AfterChange /\ answer[r] \notin {"400", "404", "409"}

AnswerInv == \A r \in Requests : Answering(r)

LEMMA AnswerInit == Init => AnswerInv
  BY DEF Init, AnswerInv, Answering, Assembling

LEMMA AnswerNext == Typed /\ AnswerInv /\ [Next]_vars => AnswerInv'
  <1> SUFFICES ASSUME Typed, AnswerInv, [Next]_vars, NEW q \in Requests
               PROVE  Answering(q)'
    BY DEF AnswerInv
  <1> USE DEF Answering, Assembling, AfterAnswer, AfterChange
  <1>0. /\ Answering(q)
        /\ pc \in [Requests -> Labels] /\ answer \in [Requests -> Answers]
    BY DEF AnswerInv, Typed, TypeOK
  <1>1. ASSUME NEW r \in Requests, Serve(r)
        PROVE  Answering(q)'
    <2>1. CASE Create(r)
      BY <1>0, <2>1 DEF Create, CheckName, InsertAccount, InsertSaving
    <2>2. CASE Update(r)
      BY <1>0, <2>2 DEF Update, AcquireLock, LockTimeout, Reload, UpdateRow, AfterUpdate,
                        UpdateConflict, Unlock, AfterThrow
    <2>3. CASE Delete(r)
      BY <1>0, <2>3 DEF Delete, DeleteAccount, DeleteItems, DeleteSaving
    <2>4. CASE Items(r)
      BY <1>0, <2>4 DEF Items, Validate, InsertItem, SelectItem, DeleteItem
    <2>5. CASE Find(r)
      BY <1>0, <2>5 DEF Find, GetLocal, GetShared, FindLoad, FindItems, FindSaving,
                        FillShared, FillLocal
    <2>6. CASE Shared(r)
      BY <1>0, <2>6 DEF Shared, LoadAccount, FirstCall, Snapshot, Send, AfterSend,
                        EvictShared, EvictLocal
    <2> QED BY <1>1, <2>1, <2>2, <2>3, <2>4, <2>5, <2>6 DEF Serve
  <1>2. ASSUME NEW r \in Requests, CallFails(r)
        PROVE  Answering(q)'
    BY <1>0, <1>2 DEF CallFails, AfterThrow, ThrownAnswer
  <1>3. ASSUME NEW m \in Nodes, Crash(m)
        PROVE  Answering(q)'
    BY <1>0, <1>3 DEF Crash
  <1>4. CASE UNCHANGED <<pc, answer, touched>>
    BY <1>0, <1>4
  <1> QED BY <1>1, <1>2, <1>3, <1>4 DEF Next, vars, LeaseExpires, CacheEntryExpires

\* In every reachable state an answer of 400, 404 or 409 means that the request has
\* changed nothing.
THEOREM ClientErrorsAreClean == Spec => []ClientErrorChangesNothing
  <1>1. Init => Typed /\ AnswerInv
    BY TypedInit, AnswerInit
  <1>2. (Typed /\ AnswerInv) /\ [Next]_vars => (Typed /\ AnswerInv)'
    BY TypedNext, AnswerNext
  <1>3. Typed /\ AnswerInv => ClientErrorChangesNothing
    BY DEF AnswerInv, Answering, ClientErrorChangesNothing
  <1> QED BY <1>1, <1>2, <1>3, PTL DEF Spec

-----------------------------------------------------------------------------
(* The lock.  A request inside withAccountLock owns the lock of its account until *)
(* its lease runs out, and a lock is only ever owned by a request for its account.*)

Held == \A r \in Requests : InsideLock(r) => r \in expired \/ lock[Name(r)] = r

Owned == \A n \in Names : lock[n] # NoOne => Name(lock[n]) = n

LockInv == Held /\ Owned /\ LockReleased

LEMMA LockInit == Init => LockInv
  BY DEF Init, LockInv, Held, Owned, LockReleased, InsideLock

\* Steps that leave the locks alone, take nobody into withAccountLock or out of it
\* but by a crash, and leave a request that has ended as it is.
LEMMA LockFrame ==
  ASSUME LockInv, Typed, UNCHANGED <<lock, req, expired>>, threw \subseteq threw',
         \A q \in Requests :
           /\ InsideLock(q)' => InsideLock(q)
           /\ InsideLock(q) => InsideLock(q)' \/ pc'[q] = "crashed"
           /\ pc[q] = "crashed" => pc'[q] = "crashed"
  PROVE  LockInv'
  BY DEF LockInv, Held, Owned, LockReleased, Name, Typed, TypeOK

LEMMA LockUpdate ==
  ASSUME Typed, AnswerInv, LockInv, NEW r \in Requests, Update(r)
  PROVE  LockInv'
  <1> DEFINE n == Name(r)
  <1>0. /\ n \in Names /\ Calls(req[r].kind, pc[r]) /\ NoOne \notin Requests
        /\ pc \in [Requests -> Labels] /\ lock \in [Names -> Requests \cup {NoOne}]
        /\ answer \in [Requests -> Answers] /\ expired \subseteq Requests
    BY ServiceAssumption DEF Name, Request, Typed, TypeOK, OnCourse
  <1>1. Answering(r) /\ Held /\ Owned /\ LockReleased
    BY DEF AnswerInv, LockInv
  <1> USE DEF InsideLock, Calls
  <1>2. CASE AcquireLock(r)
    <2>1. /\ lock' = [lock EXCEPT ![n] = r] /\ lock[n] = NoOne
          /\ pc' = [pc EXCEPT ![r] = "reload"] /\ req[r].kind = "update"
          /\ UNCHANGED <<req, threw, expired>>
      BY <1>0, <1>2 DEF AcquireLock, LockFree
    <2>2. Held'
      BY <1>0, <1>1, <2>1 DEF Held, Name
    <2>3. Owned'
      BY <1>0, <1>1, <2>1 DEF Owned, Name
    <2>4. LockReleased'
      BY <1>0, <1>1, <2>1 DEF LockReleased
    <2> QED BY <2>2, <2>3, <2>4 DEF LockInv
  <1>3. CASE LockTimeout(r)
    <2>1. /\ pc[r] = "lock" /\ pc' = [pc EXCEPT ![r] = "done"] /\ answer[r] = "none"
          /\ answer' = [answer EXCEPT ![r] = "409"]
          /\ UNCHANGED <<lock, req, threw, expired>>
      BY <1>1, <1>3 DEF LockTimeout, Answering, AfterAnswer, Assembling
    <2>2. Held' /\ Owned'
      BY <1>0, <1>1, <2>1 DEF Held, Owned, Name
    <2>3. LockReleased'
      BY <1>0, <1>1, <2>1 DEF LockReleased
    <2> QED BY <2>2, <2>3 DEF LockInv
  <1>4. CASE Reload(r) \/ UpdateRow(r) \/ UpdateConflict(r)
    <2>1. /\ InsideLock(r) /\ req[r].kind = "update" /\ answer[r] = "none"
          /\ pc'[r] \in {"reload", "write", "snapshot", "unlock"}
          /\ \A q \in Requests \ {r} : pc'[q] = pc[q] /\ answer'[q] = answer[q]
          /\ UNCHANGED <<lock, req, threw, expired>>
      BY <1>0, <1>1, <1>4 DEF Reload, UpdateRow, UpdateConflict, AfterUpdate, AfterThrow,
                              Answering, AfterAnswer, Assembling
    <2>2. Held' /\ Owned'
      BY <1>0, <1>1, <2>1 DEF Held, Owned, Name
    <2>3. LockReleased'
      BY <1>0, <1>1, <2>1 DEF LockReleased
    <2> QED BY <2>2, <2>3 DEF LockInv
  <1>5. CASE Unlock(r)
    <2>1. /\ pc[r] = "unlock" /\ req[r].kind = "update"
          /\ pc'[r] \in {"done", "evictL2"}
          /\ \A q \in Requests \ {r} : pc'[q] = pc[q] /\ answer'[q] = answer[q]
          /\ UNCHANGED <<req, threw, expired>>
          /\ \/ lock[n] = r /\ lock' = [lock EXCEPT ![n] = NoOne]
             \/ lock[n] # r /\ lock' = lock
      BY <1>0, <1>5 DEF Unlock
    <2>2. ASSUME NEW q \in Requests, InsideLock(q)', q \notin expired
          PROVE  lock'[Name(q)] = q
      <3>1. q # r /\ InsideLock(q)
        BY <2>1, <2>2
      <3>2. lock[Name(q)] = q
        BY <1>1, <2>2, <3>1 DEF Held
      <3>3. Name(q) \in Names
        BY DEF Name, Request, Typed, TypeOK
      <3> QED BY <1>0, <2>1, <3>1, <3>2, <3>3
    <2>3. Held' /\ Owned'
      BY <1>0, <1>1, <2>1, <2>2 DEF Held, Owned, Name
    <2>4. LockReleased'
      BY <1>0, <1>1, <2>1 DEF LockReleased, Owned
    <2> QED BY <2>3, <2>4 DEF LockInv
  <1> QED BY <1>2, <1>3, <1>4, <1>5 DEF Update

LEMMA LockNext == Typed /\ AnswerInv /\ LockInv /\ [Next]_vars => LockInv'
  <1> SUFFICES ASSUME Typed, AnswerInv, LockInv, [Next]_vars
               PROVE  LockInv'
    OBVIOUS
  <1> DEFINE Frame ==
        /\ UNCHANGED <<lock, req, expired>> /\ threw \subseteq threw'
        /\ \A q \in Requests :
             /\ InsideLock(q)' => InsideLock(q)
             /\ InsideLock(q) => InsideLock(q)' \/ pc'[q] = "crashed"
             /\ pc[q] = "crashed" => pc'[q] = "crashed"
  <1>0. /\ pc \in [Requests -> Labels] /\ answer \in [Requests -> Answers]
        /\ \A q \in Requests : Calls(req[q].kind, pc[q]) /\ Answering(q)
    BY ServiceAssumption DEF Typed, TypeOK, OnCourse, AnswerInv
  <1>f. Frame => LockInv'
    BY <1>0, LockFrame
  <1> USE DEF InsideLock
  <1>1. ASSUME NEW r \in Requests, Serve(r)
        PROVE  LockInv'
    <2>0. Calls(req[r].kind, pc[r]) /\ Answering(r)
      BY <1>0
    <2>1. CASE Create(r)
      <3>1. Frame
        BY <1>0, <2>0, <2>1 DEF Create, CheckName, InsertAccount, InsertSaving, Calls,
                                Answering, AfterAnswer, Assembling
      <3> QED BY <1>f, <3>1
    <2>2. CASE Update(r)
      BY <2>2, LockUpdate
    <2>3. CASE Delete(r)
      <3>1. Frame
        BY <1>0, <2>0, <2>3 DEF Delete, DeleteAccount, DeleteItems, DeleteSaving, Calls
      <3> QED BY <1>f, <3>1
    <2>4. CASE Items(r)
      <3>1. Frame
        BY <1>0, <2>0, <2>4 DEF Items, Validate, InsertItem, SelectItem, DeleteItem, Calls,
                                Answering, AfterAnswer, Assembling
      <3> QED BY <1>f, <3>1
    <2>5. CASE Find(r)
      <3>1. Frame
        BY <1>0, <2>0, <2>5 DEF Find, GetLocal, GetShared, FindLoad, FindItems, FindSaving,
                                FillShared, FillLocal, Calls, Answering, AfterAnswer, Assembling
      <3> QED BY <1>f, <3>1
    <2>6. CASE Shared(r)
      <3>1. Frame
        BY <1>0, <2>0, <2>6 DEF Shared, LoadAccount, FirstCall, Snapshot, Send, AfterSend,
                                EvictShared, EvictLocal, Calls, Answering, AfterAnswer, Assembling
      <3> QED BY <1>f, <3>1
    <2> QED BY <1>1, <2>1, <2>2, <2>3, <2>4, <2>5, <2>6 DEF Serve
  <1>2. ASSUME NEW r \in Requests, CallFails(r)
        PROVE  LockInv'
    <2>1. CASE pc[r] = "unlock"
      <3>1. /\ pc'[r] = "done" /\ threw' = threw \cup {<<r, "unlock">>}
            /\ \A q \in Requests \ {r} : pc'[q] = pc[q]
            /\ UNCHANGED <<lock, req, expired>>
        BY <1>0, <1>2, <2>1 DEF CallFails, AfterThrow, ThrownAnswer
      <3>2. \A q \in Requests : InsideLock(q)' => InsideLock(q)
        BY <3>1
      <3>3. Held' /\ Owned'
        BY <3>1, <3>2 DEF LockInv, Held, Owned, Name
      <3>4. ASSUME NEW n \in Names, lock[n] # NoOne
            PROVE  \/ InsideLock(lock[n])' \/ pc'[lock[n]] = "crashed"
                   \/ <<lock[n], "unlock">> \in threw'
        <4>1. lock[n] \in Requests
          BY <3>4 DEF Typed, TypeOK
        <4>2. CASE lock[n] = r
          BY <1>0, <3>1, <4>2
        <4>3. CASE lock[n] # r
          BY <1>0, <3>1, <3>4, <4>1, <4>3 DEF LockInv, LockReleased
        <4> QED BY <4>2, <4>3
      <3> QED BY <3>1, <3>3, <3>4 DEF LockInv, LockReleased
    <2>2. CASE pc[r] # "unlock"
      <3>1. Frame
        BY <1>0, <1>2, <2>2 DEF CallFails, AfterThrow, ThrownAnswer, CallsOut, Ended
      <3> QED BY <1>f, <3>1
    <2> QED BY <2>1, <2>2
  <1>3. ASSUME NEW m \in Nodes, Crash(m)
        PROVE  LockInv'
    <2>1. Frame
      BY <1>0, <1>3 DEF Crash
    <2> QED BY <1>f, <2>1
  <1>4. ASSUME NEW n \in Names, LeaseExpires(n)
        PROVE  LockInv'
    <2>1. lock \in [Names -> Requests \cup {NoOne}]
      BY DEF Typed, TypeOK
    <2>2. Held' /\ Owned'
      BY <1>4, <2>1 DEF LeaseExpires, LockInv, Held, Owned, Name
    <2>3. LockReleased'
      BY <1>4, <2>1 DEF LeaseExpires, LockInv, LockReleased
    <2> QED BY <2>2, <2>3 DEF LockInv
  <1>5. CASE UNCHANGED <<lock, req, expired, threw, pc>>
    BY <1>0, <1>5, <1>f
  <1> QED BY <1>1, <1>2, <1>3, <1>4, <1>5 DEF Next, vars, CacheEntryExpires

\* In every reachable state two updates inside the lock of one account mean that one
\* of them has lost its lease.
THEOREM LockIsExclusive == Spec => []LockExcludes
  <1>1. Init => Typed /\ AnswerInv /\ LockInv
    BY TypedInit, AnswerInit, LockInit
  <1>2. (Typed /\ AnswerInv /\ LockInv) /\ [Next]_vars
          => (Typed /\ AnswerInv /\ LockInv)'
    BY TypedNext, AnswerNext, LockNext
  <1>3. Typed /\ AnswerInv /\ LockInv => LockExcludes
    BY DEF LockInv, Held, LockExcludes
  <1> QED BY <1>1, <1>2, <1>3, PTL DEF Spec

\* In every reachable state the owner of an account lock is inside withAccountLock,
\* died there, or met an unlock that threw.
THEOREM LocksAreReleased == Spec => []LockReleased
  <1>1. Init => Typed /\ AnswerInv /\ LockInv
    BY TypedInit, AnswerInit, LockInit
  <1>2. (Typed /\ AnswerInv /\ LockInv) /\ [Next]_vars
          => (Typed /\ AnswerInv /\ LockInv)'
    BY TypedNext, AnswerNext, LockNext
  <1>3. LockInv => LockReleased
    BY DEF LockInv
  <1> QED BY <1>1, <1>2, <1>3, PTL DEF Spec

-----------------------------------------------------------------------------
(* Creation.  A row of account never goes away again, so that the unique key lets *)
(* one create through per name.                                                   *)

CreatorInv ==
  /\ \A n \in Existing : account[n].status # "absent"
  /\ \A q \in touched : req[q].kind = "create" => account[Name(q)].status # "absent"
  /\ OneCreator

LEMMA CreatorInit == Init => CreatorInv
  BY ServiceAssumption DEF Init, CreatorInv, OneCreator

\* Steps that remove no row of account and let no new create succeed.
LEMMA CreatorFrame ==
  ASSUME Typed, CreatorInv, UNCHANGED req,
         \A n \in Names : account[n].status # "absent" => account'[n].status # "absent",
         \A q \in touched' : q \in touched \/ req[q].kind # "create"
  PROVE  CreatorInv'
  BY ServiceAssumption DEF CreatorInv, OneCreator, Name, Typed, TypeOK, Request

LEMMA CreatorNext == Typed /\ CreatorInv /\ [Next]_vars => CreatorInv'
  <1> SUFFICES ASSUME Typed, CreatorInv, [Next]_vars
               PROVE  CreatorInv'
    OBVIOUS
  <1>0. /\ account \in [Names -> AccountRow] /\ touched \subseteq Requests
        /\ \A q \in Requests : Calls(req[q].kind, pc[q]) /\ Name(q) \in Names
    BY DEF Typed, TypeOK, OnCourse, Name, Request
  <1>1. ASSUME NEW r \in Requests, Serve(r)
        PROVE  CreatorInv'
    <2>0. Calls(req[r].kind, pc[r]) /\ Name(r) \in Names
      BY <1>0
    <2>1. CASE InsertAccount(r)
      <3>1. CASE NameTaken(r)
        BY <2>1, <3>1, CreatorFrame DEF InsertAccount
      <3>2. CASE ~NameTaken(r)
        <4>1. /\ account[Name(r)].status = "absent" /\ req' = req
              /\ touched' = touched \cup {r}
              /\ account'[Name(r)].status = "live"
              /\ \A n \in Names \ {Name(r)} : account'[n] = account[n]
          BY <1>0, <2>0, <2>1, <3>2 DEF InsertAccount, NameTaken
        <4>2. \A q \in touched : req[q].kind = "create" => Name(q) # Name(r)
          BY <4>1 DEF CreatorInv
        <4>3. Name(r) \notin Existing
          BY <4>1 DEF CreatorInv
        <4> QED BY <1>0, <4>1, <4>2, <4>3, ServiceAssumption DEF CreatorInv, OneCreator, Name
      <3> QED BY <3>1, <3>2
    <2>2. CASE UpdateRow(r)
      <3>1. /\ account'[Name(r)].status = "live" /\ req' = req
            /\ \A n \in Names \ {Name(r)} : account'[n] = account[n]
            /\ touched' = touched \cup {r} /\ req[r].kind = "update"
        BY <1>0, <2>0, <2>2 DEF UpdateRow, Updated, Calls
      <3> QED BY <3>1, CreatorFrame
    <2>3. CASE DeleteAccount(r)
      <3>1. CASE Live(Name(r))
        <4>1. /\ account' = [account EXCEPT ![Name(r)].status = "deleted"]
              /\ touched' = touched \cup {r} /\ req[r].kind = "delete" /\ req' = req
          BY <2>0, <2>3, <3>1 DEF DeleteAccount, Calls
        <4>2. account'[Name(r)].status = "deleted"
          BY <1>0, <2>0, <4>1 DEF AccountRow
        <4>3. \A n \in Names \ {Name(r)} : account'[n] = account[n]
          BY <1>0, <2>0, <4>1
        <4> QED BY <4>1, <4>2, <4>3, CreatorFrame
      <3>2. CASE ~Live(Name(r))
        BY <2>3, <3>2, CreatorFrame DEF DeleteAccount
      <3> QED BY <3>1, <3>2
    <2>4. CASE InsertItem(r) \/ DeleteItem(r)
      <3>1. /\ UNCHANGED <<account, req>> /\ touched' \subseteq touched \cup {r}
            /\ req[r].kind # "create"
        BY <2>0, <2>4 DEF InsertItem, DeleteItem, Calls
      <3> QED BY <3>1, CreatorFrame
    <2>5. CASE UNCHANGED <<account, touched, req>>
      BY <2>5, CreatorFrame
    <2> QED BY <1>1, <2>1, <2>2, <2>3, <2>4, <2>5 DEF Serve, Create, CheckName, InsertSaving,
           Update, AcquireLock, LockTimeout, Reload, UpdateConflict, Unlock,
           Delete, DeleteItems, DeleteSaving, Items, Validate, SelectItem,
           Find, GetLocal, GetShared, FindLoad, FindItems, FindSaving, FillShared, FillLocal,
           Shared, LoadAccount, Snapshot, Send, EvictShared, EvictLocal
  <1>2. CASE UNCHANGED <<account, touched, req>>
    BY <1>2, CreatorFrame
  <1> QED BY <1>1, <1>2 DEF Next, CallFails, Crash, LeaseExpires, CacheEntryExpires, vars

\* In every reachable state at most one create request has inserted the account of a
\* name, and none if it existed from the start.
THEOREM NamesAreCreatedOnce == Spec => []OneCreator
  <1>1. Init => Typed /\ CreatorInv
    BY TypedInit, CreatorInit
  <1>2. (Typed /\ CreatorInv) /\ [Next]_vars => (Typed /\ CreatorInv)'
    BY TypedNext, CreatorNext
  <1>3. Typed /\ CreatorInv => OneCreator
    BY DEF CreatorInv
  <1> QED BY <1>1, <1>2, <1>3, PTL DEF Spec

-----------------------------------------------------------------------------
(* Deletion. *)

DeletedStays == \A n \in Names : account[n].status = "deleted" => account'[n] = account[n]

LEMMA DeletedStep == Typed /\ [Next]_vars => [DeletedStays]_vars
  <1> SUFFICES ASSUME Typed, Next
               PROVE  DeletedStays
    BY DEF DeletedStays
  <1>0. /\ account \in [Names -> AccountRow]
        /\ \A q \in Requests : Name(q) \in Names
    BY DEF Typed, TypeOK, Name, Request
  <1>1. ASSUME NEW r \in Requests, InsertAccount(r)
        PROVE  DeletedStays
    BY <1>0, <1>1 DEF InsertAccount, NameTaken, DeletedStays
  <1>2. ASSUME NEW r \in Requests, UpdateRow(r)
        PROVE  DeletedStays
    BY <1>0, <1>2 DEF UpdateRow, RowMatches, Live, DeletedStays
  <1>3. ASSUME NEW r \in Requests, DeleteAccount(r)
        PROVE  DeletedStays
    BY <1>0, <1>3 DEF DeleteAccount, Live, DeletedStays
  <1>4. CASE UNCHANGED account
    BY <1>4 DEF DeletedStays
  <1> QED BY <1>1, <1>2, <1>3, <1>4 DEF Next, CallFails, Crash, LeaseExpires,
         CacheEntryExpires, Serve, Create, CheckName, InsertSaving,
         Update, AcquireLock, LockTimeout, Reload, UpdateConflict, Unlock,
         Delete, DeleteItems, DeleteSaving, Items, Validate, InsertItem, SelectItem, DeleteItem,
         Find, GetLocal, GetShared, FindLoad, FindItems, FindSaving, FillShared, FillLocal,
         Shared, LoadAccount, Snapshot, Send, EvictShared, EvictLocal

\* No step of any behaviour changes the row of a logically deleted account.
THEOREM DeletedAccountsStay == Spec => DeletedIsFinal
  <1>1. Init => Typed
    BY TypedInit
  <1>2. Typed /\ [Next]_vars => Typed'
    BY TypedNext
  <1>3. Typed /\ [Next]_vars => [DeletedStays]_vars
    BY DeletedStep
  <1> QED BY <1>1, <1>2, <1>3, PTL DEF Spec, DeletedIsFinal, DeletedStays

-----------------------------------------------------------------------------
(* What never goes back: requests, their changes, expired leases, calls that threw *)
(* and faults are only added to, a row of account never goes away and a deleted one*)
(* stays so.                                                                       *)

Forward ==
  /\ req' = req
  /\ touched \subseteq touched' /\ expired \subseteq expired' /\ threw \subseteq threw'
  /\ faults' >= faults
  /\ \A n \in Names :
       /\ account[n].status # "absent" => account'[n].status # "absent"
       /\ account[n].status = "deleted" => account'[n].status = "deleted"

LEMMA ForwardStep == Typed /\ [Next]_vars => Forward
  <1> SUFFICES ASSUME Typed, [Next]_vars
               PROVE  Forward
    OBVIOUS
  <1>0. /\ account \in [Names -> AccountRow] /\ faults \in Nat
        /\ \A q \in Requests : Name(q) \in Names
    BY ServiceAssumption DEF Typed, TypeOK, Name, Request
  <1> DEFINE Rest == /\ req' = req
                     /\ touched \subseteq touched' /\ expired \subseteq expired'
                     /\ threw \subseteq threw' /\ faults' >= faults
  <1>1. ASSUME NEW r \in Requests, InsertAccount(r)
        PROVE  Forward
    BY <1>0, <1>1 DEF InsertAccount, NameTaken, Forward
  <1>2. ASSUME NEW r \in Requests, UpdateRow(r)
        PROVE  Forward
    BY <1>0, <1>2 DEF UpdateRow, RowMatches, Live, Updated, Forward
  <1>3. ASSUME NEW r \in Requests, DeleteAccount(r)
        PROVE  Forward
    <2>1. CASE Live(Name(r))
      <3>1. account' = [account EXCEPT ![Name(r)].status = "deleted"] /\ Rest
        BY <1>0, <1>3, <2>1 DEF DeleteAccount
      <3>2. account'[Name(r)].status = "deleted"
        BY <1>0, <3>1 DEF AccountRow
      <3>3. \A n \in Names \ {Name(r)} : account'[n] = account[n]
        BY <1>0, <3>1
      <3> QED BY <3>1, <3>2, <3>3 DEF Forward
    <2>2. CASE ~Live(Name(r))
      BY <1>0, <1>3, <2>2 DEF DeleteAccount, Forward
    <2> QED BY <2>1, <2>2
  <1>4. ASSUME account' = account, Rest
        PROVE  Forward
    BY <1>4 DEF Forward
  <1>5. CASE \E r \in Requests : CallFails(r)
    BY <1>0, <1>4, <1>5 DEF CallFails
  <1>6. CASE \E m \in Nodes : Crash(m)
    BY <1>0, <1>4, <1>6 DEF Crash
  <1>7. CASE (\E n \in Names : LeaseExpires(n)) \/ CacheEntryExpires \/ UNCHANGED vars
    BY <1>0, <1>4, <1>7 DEF LeaseExpires, CacheEntryExpires, vars
  <1>8. ASSUME NEW r \in Requests, Serve(r)
        PROVE  Forward
    <2>1. CASE \/ CheckName(r) \/ InsertSaving(r) \/ AcquireLock(r) \/ LockTimeout(r)
               \/ Reload(r) \/ UpdateConflict(r) \/ Unlock(r) \/ DeleteItems(r)
               \/ DeleteSaving(r)
      BY <1>0, <1>4, <2>1 DEF CheckName, InsertSaving, AcquireLock, LockTimeout, Reload,
                              UpdateConflict, Unlock, DeleteItems, DeleteSaving
    <2>2. CASE Items(r) \/ Find(r)
      BY <1>0, <1>4, <2>2 DEF Items, Validate, InsertItem, SelectItem, DeleteItem,
            Find, GetLocal, GetShared, FindLoad, FindItems, FindSaving, FillShared,
            FillLocal
    <2>3. CASE LoadAccount(r) \/ Snapshot(r) \/ EvictShared(r) \/ EvictLocal(r)
      BY <1>0, <1>4, <2>3 DEF LoadAccount, Snapshot, EvictShared, EvictLocal
    <2>4. CASE Send(r)
      <3>1. faults' \in {faults, faults + 1}
        BY <2>4 DEF Send
      <3> QED BY <1>0, <1>4, <2>4, <3>1 DEF Send
    <2> QED BY <1>1, <1>2, <1>3, <1>8, <2>1, <2>2, <2>3, <2>4
            DEF Serve, Create, Update, Delete, Shared
  <1> QED BY <1>5, <1>6, <1>7, <1>8 DEF Next

-----------------------------------------------------------------------------
(* Server errors.  The formula is inductive beside the lock invariant: unlock      *)
(* throws only for a request whose lease has run out.                              *)

LEMMA ErrorNext ==
  Typed /\ LockInv /\ ServerErrorExplained /\ [Next]_vars => ServerErrorExplained'
  <1> SUFFICES ASSUME Typed, LockInv, ServerErrorExplained, [Next]_vars,
                      NEW q \in Requests, answer'[q] = "500"
               PROVE  \/ \E l \in Labels : <<q, l>> \in threw'
                      \/ q \in expired'
                      \/ req'[q].kind = "create" /\ account'[Name(q)'].status # "absent"
    BY DEF ServerErrorExplained
  <1>0. /\ Forward /\ Name(q) \in Names /\ Name(q)' = Name(q)
        /\ answer \in [Requests -> Answers] /\ pc \in [Requests -> Labels]
        /\ Calls(req[q].kind, pc[q])
    <2>1. Forward
      BY ForwardStep
    <2>2. Name(q)' = Name(q)
      BY <2>1 DEF Forward, Name
    <2> QED BY <2>1, <2>2 DEF Name, Request, Typed, TypeOK, OnCourse
  <1>1. CASE answer[q] = "500"
    BY <1>0, <1>1 DEF ServerErrorExplained, Forward
  <1>2. CASE answer[q] # "500"
    <2>1. CASE InsertAccount(q)
      BY <1>0, <1>2, <2>1 DEF InsertAccount, NameTaken, Calls
    <2>2. CASE Unlock(q)
      <3>1. lock[Name(q)] # q /\ InsideLock(q) /\ expired' = expired
        BY <1>0, <1>2, <2>2 DEF Unlock, InsideLock, Calls
      <3> QED BY <3>1 DEF LockInv, Held
    <2>3. ASSUME NEW r \in Requests, CallFails(r)
          PROVE  <<q, pc[q]>> \in threw'
      BY <1>0, <1>2, <2>3 DEF CallFails
    <2>4. ASSUME NEW r \in Requests, Serve(r), ~InsertAccount(q), ~Unlock(q)
          PROVE  FALSE
      <3>1. CASE Create(r) \/ Update(r) \/ Delete(r)
        BY <1>0, <1>2, <2>4, <3>1 DEF Create, CheckName, InsertAccount, InsertSaving,
           Update, AcquireLock, LockTimeout, Reload, UpdateRow, UpdateConflict, Unlock,
           Delete, DeleteAccount, DeleteItems, DeleteSaving
      <3>2. CASE Items(r) \/ Find(r) \/ Shared(r)
        BY <1>0, <1>2, <2>4, <3>2 DEF Items, Validate, InsertItem, SelectItem, DeleteItem,
           Find, GetLocal, GetShared, FindLoad, FindItems, FindSaving, FillShared, FillLocal,
           Shared, LoadAccount, Snapshot, Send, EvictShared, EvictLocal
      <3> QED BY <2>4, <3>1, <3>2 DEF Serve
    <2>5. CASE UNCHANGED answer
      BY <1>2, <2>5
    <2>6. pc[q] \in Labels
      BY <1>0
    <2> QED BY <2>1, <2>2, <2>3, <2>4, <2>5, <2>6
        DEF Next, Crash, LeaseExpires, CacheEntryExpires, vars
  <1> QED BY <1>1, <1>2

\* In every reachable state a 500 is the work of a call of this request that threw,
\* of a lease that ran out before unlock or of two creates that race for one name.
THEOREM ServerErrorsAreExplained == Spec => []ServerErrorExplained
  <1>1. Init => Typed /\ AnswerInv /\ LockInv /\ ServerErrorExplained
    BY TypedInit, AnswerInit, LockInit DEF Init, ServerErrorExplained
  <1>2. (Typed /\ AnswerInv /\ LockInv /\ ServerErrorExplained) /\ [Next]_vars
          => (Typed /\ AnswerInv /\ LockInv /\ ServerErrorExplained)'
    BY TypedNext, AnswerNext, LockNext, ErrorNext
  <1> QED BY <1>1, <1>2, PTL DEF Spec

-----------------------------------------------------------------------------
(* Retries.  What updateById will find is decided when the row is loaded: inside   *)
(* the lock the loaded row stays current, unless some lease of the account runs    *)
(* out or the account is deleted.                                                  *)

Excused(n) == \/ \E q \in expired : Name(q) = n
              \/ account[n].status = "deleted"

RowIsCurrent ==
  \A r \in Requests :
    pc[r] = "write" => \/ row[r].version = account[Name(r)].version
                       \/ Excused(Name(r))

RetryInv == RowIsCurrent /\ RetryNeedsExpiry

\* Only Reload loads a row and leads to the write, only UpdateConflict retries.
LEMMA LoadStep ==
  ASSUME Typed, [Next]_vars, NEW q \in Requests
  PROVE  /\ ~Reload(q) => row'[q] = row[q] /\ (pc'[q] = "write" => pc[q] = "write")
         /\ ~UpdateConflict(q) => attempt'[q] = attempt[q]
  <1> DEFINE Goal == /\ ~Reload(q) => row'[q] = row[q] /\ (pc'[q] = "write" => pc[q] = "write")
                     /\ ~UpdateConflict(q) => attempt'[q] = attempt[q]
  <1>0. /\ row \in [Requests -> AccountRow] /\ pc \in [Requests -> Labels]
        /\ attempt \in [Requests -> 1..MaxRetries]
    BY DEF Typed, TypeOK
  <1>1. ASSUME NEW r \in Requests, Serve(r)
        PROVE  Goal
    <2>1. CASE Create(r)
      BY <1>0, <2>1 DEF Create, CheckName, InsertAccount, InsertSaving
    <2>2. CASE \/ AcquireLock(r) \/ LockTimeout(r) \/ UpdateRow(r) \/ Unlock(r)
      BY <1>0, <2>2 DEF AcquireLock, LockTimeout, UpdateRow, AfterUpdate, Unlock
    <2>3. CASE Reload(r)
      BY <1>0, <2>3 DEF Reload
    <2>4. CASE UpdateConflict(r)
      BY <1>0, <2>4 DEF UpdateConflict, AfterThrow
    <2>5. CASE Delete(r)
      BY <1>0, <2>5 DEF Delete, DeleteAccount, DeleteItems, DeleteSaving
    <2>6. CASE Items(r)
      BY <1>0, <2>6 DEF Items, Validate, InsertItem, SelectItem, DeleteItem
    <2>7. CASE Find(r)
      BY <1>0, <2>7 DEF Find, GetLocal, GetShared, FindLoad, FindItems, FindSaving,
                        FillShared, FillLocal
    <2>8. CASE Shared(r)
      BY <1>0, <2>8 DEF Shared, LoadAccount, FirstCall, Snapshot, Send, AfterSend,
                        EvictShared, EvictLocal
    <2> QED BY <1>1, <2>1, <2>2, <2>3, <2>4, <2>5, <2>6, <2>7, <2>8 DEF Serve, Update
  <1>2. ASSUME NEW r \in Requests, CallFails(r)
        PROVE  Goal
    BY <1>0, <1>2 DEF CallFails, AfterThrow
  <1>3. ASSUME NEW m \in Nodes, Crash(m)
        PROVE  Goal
    BY <1>0, <1>3 DEF Crash
  <1>4. CASE UNCHANGED <<row, attempt, pc>>
    BY <1>4
  <1> QED BY <1>1, <1>2, <1>3, <1>4 DEF Next, LeaseExpires, CacheEntryExpires, vars

LEMMA RetryNext ==
  Typed /\ UpdateInv /\ LockInv /\ RetryInv /\ [Next]_vars => RetryInv'
  <1> SUFFICES ASSUME Typed, UpdateInv, LockInv, RetryInv, [Next]_vars
               PROVE  RetryInv'
    OBVIOUS
  <1>0. /\ Forward /\ account \in [Names -> AccountRow] /\ row \in [Requests -> AccountRow]
        /\ pc \in [Requests -> Labels] /\ attempt \in [Requests -> 1..MaxRetries]
        /\ expired \subseteq Requests
        /\ \A q \in Requests : Name(q) \in Names /\ Calls(req[q].kind, pc[q])
    BY ForwardStep DEF Typed, TypeOK, OnCourse, Name, Request
  <1>n. \A q \in Requests : Name(q)' = Name(q)
    BY <1>0 DEF Forward, Name
  <1>e. \A q \in Requests : Excused(Name(q)) => Excused(Name(q))'
    BY <1>0, <1>n DEF Excused, Forward
  <1>1. ASSUME NEW q \in Requests, pc'[q] = "write"
        PROVE  row'[q].version = account'[Name(q)].version \/ Excused(Name(q))'
    <2>1. CASE pc[q] # "write"
      <3>1. Reload(q)
        BY <1>1, <2>1, LoadStep
      <3> QED BY <1>0, <1>1, <3>1 DEF Reload, AfterThrow
    <2>2. CASE pc[q] = "write"
      <3>1. /\ account[Name(q)].status # "absent" /\ Name(q) \in Names
            /\ row[q].version = account[Name(q)].version \/ Excused(Name(q))
        BY <1>0, <2>2 DEF UpdateInv, Loaded, RetryInv, RowIsCurrent
      <3>2. row'[q] = row[q]
        BY <2>2, LoadStep DEF Reload
      <3>3. CASE \E r \in Requests : UpdateRow(r)
        <4>1. PICK r \in Requests : UpdateRow(r)
          BY <3>3
        <4>2. r # q
          BY <1>0, <1>1, <4>1 DEF UpdateRow, AfterUpdate
        <4>3. CASE Name(r) = Name(q)
          <5>1. InsideLock(q) /\ InsideLock(r)
            BY <1>0, <2>2, <4>1 DEF InsideLock, UpdateRow, Calls
          <5>2. q \in expired \/ r \in expired
            BY <4>2, <4>3, <5>1 DEF LockInv, Held
          <5>3. Excused(Name(q))
            BY <4>3, <5>2 DEF Excused
          <5> QED BY <1>e, <3>1, <5>3
        <4>4. CASE Name(r) # Name(q)
          BY <1>0, <1>e, <3>1, <3>2, <4>1, <4>4 DEF UpdateRow
        <4> QED BY <4>3, <4>4
      <3>4. CASE \E r \in Requests : DeleteAccount(r)
        <4>1. PICK r \in Requests : DeleteAccount(r)
          BY <3>4
        <4>2. CASE Live(Name(r))
          <5>1. account' = [account EXCEPT ![Name(r)].status = "deleted"]
            BY <4>1, <4>2 DEF DeleteAccount
          <5>2. account'[Name(r)].status = "deleted"
            BY <1>0, <5>1 DEF AccountRow
          <5>3. Excused(Name(r))'
            BY <1>n, <5>2 DEF Excused
          <5> QED BY <1>0, <1>e, <3>1, <3>2, <5>1, <5>3
        <4>3. CASE ~Live(Name(r))
          BY <1>e, <3>1, <3>2, <4>1, <4>3 DEF DeleteAccount
        <4> QED BY <4>2, <4>3
      <3>5. CASE \E r \in Requests : InsertAccount(r)
        BY <1>0, <1>e, <3>1, <3>2, <3>5 DEF InsertAccount, NameTaken
      <3>6. CASE UNCHANGED account
        BY <1>e, <3>1, <3>2, <3>6
      <3> QED BY <3>3, <3>4, <3>5, <3>6 DEF Next, vars, CallFails, Crash, LeaseExpires,
           CacheEntryExpires, Serve, Create, CheckName, InsertSaving,
           Update, AcquireLock, LockTimeout, Reload, UpdateConflict,
           Unlock, Delete, DeleteItems, DeleteSaving,
           Items, Validate, InsertItem, SelectItem, DeleteItem,
           Find, GetLocal, GetShared, FindLoad, FindItems, FindSaving, FillShared, FillLocal,
           Shared, LoadAccount, Snapshot, Send, EvictShared, EvictLocal
    <2> QED BY <2>1, <2>2
  <1>2. ASSUME NEW q \in Requests, attempt'[q] > 1
        PROVE  Excused(Name(q))'
    <2>1. CASE attempt[q] > 1
      <3>1. Excused(Name(q))
        BY <2>1 DEF RetryInv, RetryNeedsExpiry, Excused
      <3> QED BY <1>0, <1>e, <3>1
    <2>2. CASE ~(attempt[q] > 1)
      <3>1. UpdateConflict(q) /\ pc[q] = "write"
        BY <1>2, <2>2, LoadStep DEF UpdateConflict
      <3>2. ~Live(Name(q)) \/ row[q].version # account[Name(q)].version
        BY <3>1 DEF UpdateConflict, RowMatches
      <3>3. /\ account[Name(q)].status \in {"live", "deleted"}
            /\ row[q].version = account[Name(q)].version \/ Excused(Name(q))
        BY <1>0, <3>1 DEF UpdateInv, Loaded, RetryInv, RowIsCurrent, AccountRow, Statuses
      <3>4. Excused(Name(q))
        BY <3>2, <3>3 DEF Excused, Live
      <3> QED BY <1>0, <1>e, <3>4
    <2> QED BY <2>1, <2>2
  <1>3. RowIsCurrent'
    BY <1>1, <1>n DEF RowIsCurrent, Excused
  <1>4. RetryNeedsExpiry'
    BY <1>2, <1>n DEF RetryNeedsExpiry, Excused
  <1> QED BY <1>3, <1>4 DEF RetryInv

\* In every reachable state an update in its second or a later attempt is one whose
\* account has seen a lease run out or has been deleted.
THEOREM RetriesAreExplained == Spec => []RetryNeedsExpiry
  <1>1. Init => Typed /\ UpdateInv /\ AnswerInv /\ LockInv /\ RetryInv
    BY TypedInit, UpdateInit, AnswerInit, LockInit
       DEF Init, RetryInv, RowIsCurrent, RetryNeedsExpiry
  <1>2. (Typed /\ UpdateInv /\ AnswerInv /\ LockInv /\ RetryInv) /\ [Next]_vars
          => (Typed /\ UpdateInv /\ AnswerInv /\ LockInv /\ RetryInv)'
    BY TypedNext, UpdateNext, AnswerNext, LockNext, RetryNext
  <1>3. RetryInv => RetryNeedsExpiry
    BY DEF RetryInv
  <1> QED BY <1>1, <1>2, <1>3, PTL DEF Spec

===============================================================================
