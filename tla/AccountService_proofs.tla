------------------------ MODULE AccountService_proofs ------------------------
(***************************************************************************)
(* Theorems of AccountService, for every set of requests, names and nodes. *)
(*                                                                         *)
(* Every invariant is proved from the same scheme: it holds in Init, each  *)
(* action of Next preserves it, and temporal logic does the rest.          *)
(***************************************************************************)
EXTENDS AccountService, TLAPS

\* The bookkeeping definitions that every step expands.
USE DEF tables, locals, history, cacheVars, Step, Reply

-----------------------------------------------------------------------------
(* A request is only ever at a call of its own operation. *)

\* l is a call, or an end, of an operation of kind k.
Calls(k, l) ==
  /\ l \in {"insertAccount", "insertSaving"} => k = "create"
  /\ l \in {"lock", "reload", "write", "unlock"} => k = "update"
  /\ l \in {"deleteAccount", "deleteItems", "deleteSaving"} => k = "delete"
  /\ l = "insertItem" => k = "addItem"
  /\ l \in {"selectItem", "deleteItem"} => k = "deleteItem"
  /\ l \in {"getL2", "backfill", "findLoad", "putL2", "putL1"} => k = "find"
  /\ l \in {"findItems", "findSaving"} => k \in {"find", "create"}
  /\ l \in {"snapshot", "send"} => k # "find"
  /\ l \in {"evictL2", "evictL1"} => k \notin {"find", "create"}

OnCourse == \A r \in Requests : Calls(req[r].kind, pc[r])

LEMMA CourseNext ==
  ASSUME pc \in [Requests -> Labels], OnCourse, [Next]_vars
  PROVE  OnCourse'
  <1> SUFFICES ASSUME NEW q \in Requests
               PROVE  Calls(req'[q].kind, pc'[q])
    BY DEF OnCourse
  <1>0. Calls(req[q].kind, pc[q])
    BY DEF OnCourse
  <1>1. ASSUME NEW r \in Requests, Serve(r)
        PROVE  Calls(req'[q].kind, pc'[q])
    <2>1. CASE Create(r)
      BY <1>0, <2>1 DEF Create, CheckName, InsertAccount, InsertSaving, Calls
    <2>2. CASE Update(r)
      BY <1>0, <2>2 DEF Update, AcquireLock, LockTimeout, Reload, UpdateRow, AfterUpdate, UpdateConflict, Unlock, AfterThrow, Calls
    <2>3. CASE Delete(r)
      BY <1>0, <2>3 DEF Delete, DeleteAccount, DeleteItems, DeleteSaving, Calls
    <2>4. CASE Items(r)
      BY <1>0, <2>4 DEF Items, Validate, InsertItem, SelectItem, DeleteItem, Calls
    <2>5. CASE Find(r)
      BY <1>0, <2>5 DEF Find, GetLocal, GetShared, FindLoad, FindItems, FindSaving, FillShared, FillLocal, Calls
    <2>6. CASE Shared(r)
      BY <1>0, <2>6 DEF Shared, LoadAccount, FirstCall, Snapshot, Send, AfterSend, EvictShared, EvictLocal, Calls
    <2> QED BY <1>1, <2>1, <2>2, <2>3, <2>4, <2>5, <2>6 DEF Serve
  <1>2. ASSUME NEW r \in Requests, CallFails(r)
        PROVE  Calls(req'[q].kind, pc'[q])
    BY <1>0, <1>2 DEF CallFails, AfterThrow, InsideLock, Calls
  <1>3. ASSUME NEW m \in Nodes, Crash(m)
        PROVE  Calls(req'[q].kind, pc'[q])
    BY <1>0, <1>3 DEF Crash, Calls
  <1>4. CASE UNCHANGED <<req, pc>>
    BY <1>0, <1>4
  <1> QED BY <1>1, <1>2, <1>3, <1>4 DEF Next, vars, LeaseExpires, CacheEntryExpires

-----------------------------------------------------------------------------
(* Types.  The type of an event is chosen by the kind of its request, so that   *)
(* type correctness needs OnCourse.                                             *)

Typed == TypeOK /\ OnCourse

\* Record updates keep their type.
LEMMA RowDeleted ==
  ASSUME NEW a \in AccountRow
  PROVE  [a EXCEPT !.status = "deleted"] \in AccountRow
  BY DEF AccountRow, Statuses

LEMMA ViewCurrency ==
  ASSUME NEW v \in View, NEW c \in Currencies \cup {Blank}
  PROVE  [v EXCEPT !.currency = c] \in View
  BY DEF View

LEMMA ViewSaving ==
  ASSUME NEW v \in View, NEW b \in BOOLEAN
  PROVE  [v EXCEPT !.saving = b] \in View
  BY Zenon DEF View

LEMMA PastRecord ==
  ASSUME NEW A \in SUBSET (Currencies \cup {Blank}), NEW B \in SUBSET (SUBSET Requests),
         NEW C \in SUBSET BOOLEAN
  PROVE  [currency |-> A, items |-> B, saving |-> C] \in Past
  BY Zenon DEF Past

\* A statement that leaves the rows of account well typed keeps the history so.
LEMMA PastTyped ==
  ASSUME past \in [Names -> Past], account' \in [Names -> AccountRow], Remember
  PROVE  past' \in [Names -> Past]
  <1> SUFFICES ASSUME NEW n \in Names
               PROVE  [currency |-> past[n].currency \cup HeldCurrency(n)',
                       items    |-> past[n].items \cup {LiveItems(n)'},
                       saving   |-> past[n].saving \cup {saving'[n] = "live"}] \in Past
    BY DEF Remember
  <1>1. HeldCurrency(n)' \subseteq Currencies \cup {Blank}
    BY DEF AccountRow, HeldCurrency
  <1>2. LiveItems(n)' \subseteq Requests
    BY DEF LiveItems
  <1>3. (saving'[n] = "live") \in BOOLEAN
    OBVIOUS
  <1>4. /\ past[n].currency \subseteq Currencies \cup {Blank}
        /\ past[n].items \subseteq SUBSET Requests
        /\ past[n].saving \subseteq BOOLEAN
    BY DEF Past
  <1>5. past[n].saving \cup {saving'[n] = "live"} \in SUBSET BOOLEAN
    BY Zenon, <1>3, <1>4
  <1>6. past[n].currency \cup HeldCurrency(n)' \in SUBSET (Currencies \cup {Blank})
    BY Zenon, <1>1, <1>4
  <1>7. past[n].items \cup {LiveItems(n)'} \in SUBSET (SUBSET Requests)
    BY Zenon, <1>2, <1>4
  <1> QED BY Zenon, <1>5, <1>6, <1>7, PastRecord

LEMMA TypedInit == Init => Typed
  <1> SUFFICES ASSUME Init
               PROVE  Typed
    OBVIOUS
  <1>1. past \in [Names -> Past]
    <2> SUFFICES ASSUME NEW n \in Names
                 PROVE  [currency |-> HeldCurrency(n), items |-> {{}},
                         saving |-> {saving[n] = "live"}] \in Past
      BY DEF Init
    <2>1. HeldCurrency(n) \subseteq Currencies \cup {Blank}
      BY DEF Init, NoRow, HeldCurrency
    <2>2. {saving[n] = "live"} \in SUBSET BOOLEAN
      BY Zenon
    <2>3. {{}} \in SUBSET (SUBSET Requests)
      OBVIOUS
    <2> QED BY Zenon, <2>1, <2>2, <2>3, PastRecord
  <1>2. OnCourse
    BY DEF Init, OnCourse, Calls
  <1>3. CacheTypeOK(View)
    BY DEF Init, CacheInit, CacheTypeOK, EmptyL1
  <1>4. /\ account \in [Names -> AccountRow] /\ saving \in [Names -> Statuses]
        /\ item \in [Requests -> Statuses] /\ row \in [Requests -> AccountRow]
        /\ view \in [Requests -> View]
    BY DEF Init, NoRow, NoView, AccountRow, Statuses, View
  <1>5. /\ lock \in [Names -> Requests \cup {NoOne}] /\ req \in [Requests -> Request]
        /\ pc \in [Requests -> Labels] /\ attempt \in [Requests -> 1..MaxRetries]
        /\ answer \in [Requests -> Answers] /\ faults \in 0..MaxFaults
    BY ServiceAssumption DEF Init, Labels, Answers
  <1>6. /\ published \in Seq(AccountEvent) /\ writes \in [Names -> Seq(Requests)]
        /\ touched \subseteq Requests /\ expired \subseteq Requests
        /\ threw \subseteq Requests \X Labels
    BY DEF Init
  <1> QED BY <1>1, <1>2, <1>3, <1>4, <1>5, <1>6 DEF Typed, TypeOK

LEMMA TypeCreate ==
  ASSUME TypeOK, NEW r \in Requests, Create(r)
  PROVE  TypeOK'
  <1> USE DEF TypeOK, CacheTypeOK, Labels, Answers
  <1>0. Name(r) \in Names
    BY DEF Name, Request
  <1>1. CASE CheckName(r)
    BY <1>1 DEF CheckName
  <1>2. CASE InsertAccount(r)
    <2> DEFINE new == [status |-> "live", version |-> 0, currency |-> req[r].currency]
    <2>1. new \in AccountRow
      BY DEF AccountRow, Statuses, Request
    <2>2. CASE NameTaken(r)
      <3>1. past' \in [Names -> Past]
        BY <1>2, <2>2, PastTyped DEF InsertAccount
      <3> QED BY <1>2, <2>2, <3>1 DEF InsertAccount
    <2>3. CASE ~NameTaken(r)
      <3>1. account' = [account EXCEPT ![Name(r)] = new] /\ touched' = touched \cup {r}
        BY <1>2, <2>3 DEF InsertAccount
      <3> HIDE DEF new
      <3>2. account' \in [Names -> AccountRow]
        BY <2>1, <3>1
      <3>3. past' \in [Names -> Past]
        BY <1>2, <3>2, PastTyped DEF InsertAccount
      <3> QED BY <1>2, <2>3, <3>1, <3>2, <3>3 DEF InsertAccount
    <2> QED BY <2>2, <2>3
  <1>3. CASE InsertSaving(r)
    <2>1. past' \in [Names -> Past]
      BY <1>3, PastTyped DEF InsertSaving
    <2> QED BY <1>3, <2>1 DEF InsertSaving, Statuses
  <1> QED BY <1>1, <1>2, <1>3 DEF Create

LEMMA TypeUpdate ==
  ASSUME TypeOK, NEW r \in Requests, Update(r)
  PROVE  TypeOK'
  <1> USE DEF TypeOK, CacheTypeOK, Labels, Answers
  <1>0. Name(r) \in Names
    BY DEF Name, Request
  <1>1. CASE AcquireLock(r)
    BY <1>0, <1>1 DEF AcquireLock
  <1>2. CASE LockTimeout(r)
    BY <1>2 DEF LockTimeout
  <1>3. CASE Reload(r)
    BY <1>0, <1>3 DEF Reload, AfterThrow
  <1>4. CASE UpdateRow(r)
    <2>1. Updated(r) \in AccountRow
      BY DEF Updated, AccountRow, Statuses, Request
    <2>2. Append(writes[Name(r)], r) \in Seq(Requests)
      BY <1>0
    <2>3. account' \in [Names -> AccountRow]
      BY <1>4, <2>1 DEF UpdateRow
    <2>4. past' \in [Names -> Past]
      BY <1>4, <2>3, PastTyped DEF UpdateRow
    <2> QED BY <1>0, <1>4, <2>2, <2>3, <2>4 DEF UpdateRow, AfterUpdate
  <1>5. CASE UpdateConflict(r)
    <2>1. attempt' \in [Requests -> 1..MaxRetries]
      <3>1. attempt[r] < MaxRetries => attempt[r] + 1 \in 1..MaxRetries
        BY ServiceAssumption
      <3> QED BY <1>5, <3>1 DEF UpdateConflict, MoreAttempts
    <2>2. pc' \in [Requests -> Labels] /\ answer' \in [Requests -> Answers]
      BY <1>5 DEF UpdateConflict, AfterThrow
    <2> QED BY <1>5, <2>1, <2>2 DEF UpdateConflict
  <1>6. CASE Unlock(r)
    BY <1>0, <1>6 DEF Unlock
  <1> QED BY <1>1, <1>2, <1>3, <1>4, <1>5, <1>6 DEF Update

LEMMA TypeDelete ==
  ASSUME TypeOK, NEW r \in Requests, Delete(r)
  PROVE  TypeOK'
  <1> USE DEF TypeOK, CacheTypeOK, Labels, Answers
  <1>1. CASE DeleteAccount(r)
    <2>0. Name(r) \in Names
      BY DEF Name, Request
    <2>1. [account[Name(r)] EXCEPT !.status = "deleted"] \in AccountRow
      BY <2>0, RowDeleted
    <2>2. account' \in [Names -> AccountRow]
      BY <1>1, <2>0, <2>1 DEF DeleteAccount
    <2>3. past' \in [Names -> Past]
      BY <1>1, <2>2, PastTyped DEF DeleteAccount
    <2> QED BY <1>1, <2>2, <2>3 DEF DeleteAccount
  <1>2. CASE DeleteItems(r)
    <2>1. past' \in [Names -> Past]
      BY <1>2, PastTyped DEF DeleteItems
    <2> QED BY <1>2, <2>1 DEF DeleteItems, Statuses
  <1>3. CASE DeleteSaving(r)
    <2>1. past' \in [Names -> Past]
      BY <1>3, PastTyped DEF DeleteSaving
    <2> QED BY <1>3, <2>1 DEF DeleteSaving, Statuses
  <1> QED BY <1>1, <1>2, <1>3 DEF Delete

LEMMA TypeItems ==
  ASSUME TypeOK, NEW r \in Requests, Items(r)
  PROVE  TypeOK'
  <1> USE DEF TypeOK, CacheTypeOK, Labels, Answers
  <1>1. CASE Validate(r)
    BY <1>1 DEF Validate
  <1>2. CASE InsertItem(r)
    <2>1. past' \in [Names -> Past]
      BY <1>2, PastTyped DEF InsertItem
    <2> QED BY <1>2, <2>1 DEF InsertItem, Statuses
  <1>3. CASE SelectItem(r)
    BY <1>3 DEF SelectItem
  <1>4. CASE DeleteItem(r)
    <2>0. past' \in [Names -> Past]
      BY <1>4, PastTyped DEF DeleteItem
    <2>1. CASE item[req[r].target] = "live"
      <3>1. /\ item' = [item EXCEPT ![req[r].target] = "deleted"]
            /\ touched' = touched \cup {r}
        BY <1>4, <2>1 DEF DeleteItem
      <3>2. item' \in [Requests -> Statuses]
        BY <3>1 DEF Statuses
      <3> QED BY <1>4, <2>0, <3>1, <3>2 DEF DeleteItem
    <2>2. CASE item[req[r].target] # "live"
      BY <1>4, <2>0, <2>2 DEF DeleteItem
    <2> QED BY <2>1, <2>2
  <1> QED BY <1>1, <1>2, <1>3, <1>4 DEF Items

LEMMA TypeFind ==
  ASSUME TypeOK, NEW r \in Requests, Find(r)
  PROVE  TypeOK'
  <1> USE DEF TypeOK, CacheTypeOK, Labels, Answers
  <1>0. Name(r) \in Names
    BY DEF Name, Request
  <1>1. CASE GetLocal(r)
    BY <1>1 DEF GetLocal
  <1>2. CASE GetShared(r)
    BY <1>0, <1>2 DEF GetShared
  <1>3. CASE FindLoad(r)
    <2>1. account[Name(r)].currency \in Currencies \cup {Blank}
      BY <1>0 DEF AccountRow
    <2>2. [view[r] EXCEPT !.currency = account[Name(r)].currency] \in View
      BY <2>1, ViewCurrency
    <2>3. CASE Live(Name(r))
      BY <1>3, <2>2, <2>3 DEF FindLoad
    <2>4. CASE ~Live(Name(r))
      BY <1>3, <2>4 DEF FindLoad
    <2> QED BY <2>3, <2>4
  <1>4. CASE FindItems(r)
    BY <1>4 DEF FindItems, View, LiveItems
  <1>5. CASE FindSaving(r)
    <2>1. (saving[Name(r)] = "live") \in BOOLEAN
      OBVIOUS
    <2> QED BY <1>5, <2>1, ViewSaving DEF FindSaving
  <1>6. CASE FillShared(r)
    BY <1>6 DEF FillShared, PutL2
  <1>7. CASE FillLocal(r)
    BY <1>7 DEF FillLocal, PutL1
  <1> QED BY <1>1, <1>2, <1>3, <1>4, <1>5, <1>6, <1>7 DEF Find

LEMMA TypeShared ==
  ASSUME Typed, NEW r \in Requests, Shared(r)
  PROVE  TypeOK'
  <1> USE DEF Typed, TypeOK, CacheTypeOK, Labels, Answers
  <1>1. CASE LoadAccount(r)
    BY <1>1 DEF LoadAccount, FirstCall
  <1>2. CASE Snapshot(r)
    BY <1>2 DEF Snapshot, View, LiveItems
  <1>3. CASE Send(r)
    <2>1. EventTypeOf(r) \in EventTypes
      BY <1>3 DEF Send, OnCourse, Calls, EventTypeOf, EventTypes, Request, Kinds
    <2>2. PICK a \in BOOLEAN :
            /\ a \/ faults < MaxFaults
            /\ published' = Append(published, [eventType |-> EventTypeOf(r), name |-> Name(r),
                                    items |-> view[r].items, by |-> r, arrived |-> a])
            /\ faults' = IF a THEN faults ELSE faults + 1
      BY <1>3 DEF Send
    <2> DEFINE e == [eventType |-> EventTypeOf(r), name |-> Name(r), items |-> view[r].items,
                     by |-> r, arrived |-> a]
    <2>3. e \in AccountEvent
      <3>1. Name(r) \in Names /\ view[r].items \subseteq Requests
        BY DEF Name, Request, View
      <3> QED BY Zenon, <2>1, <3>1 DEF AccountEvent
    <2> HIDE DEF e
    <2>4. published' \in Seq(AccountEvent)
      BY <2>2, <2>3 DEF e
    <2>5. faults' \in 0..MaxFaults
      BY <2>2, ServiceAssumption
    <2> QED BY <1>3, <2>4, <2>5 DEF Send, AfterSend
  <1>4. CASE EvictShared(r)
    BY <1>4 DEF EvictShared, EvictL2, PutL2
  <1>5. CASE EvictLocal(r)
    BY <1>5 DEF EvictLocal, EvictL1, PutL1
  <1> QED BY <1>1, <1>2, <1>3, <1>4, <1>5 DEF Shared

LEMMA TypeNext ==
  ASSUME Typed, [Next]_vars
  PROVE  TypeOK'
  <1> USE DEF TypeOK, CacheTypeOK, Labels, Answers
  <1>1. ASSUME NEW r \in Requests, Serve(r)
        PROVE  TypeOK'
    BY <1>1, TypeCreate, TypeUpdate, TypeDelete, TypeItems, TypeFind, TypeShared
       DEF Serve, Typed
  <1>2. ASSUME NEW r \in Requests, CallFails(r)
        PROVE  TypeOK'
    BY <1>2, ServiceAssumption DEF CallFails, AfterThrow, ThrownAnswer, Typed
  <1>3. ASSUME NEW m \in Nodes, Crash(m)
        PROVE  TypeOK'
    BY <1>3, ServiceAssumption DEF Crash, RestartL1, EmptyL1, Typed
  <1>4. ASSUME NEW n \in Names, LeaseExpires(n)
        PROVE  TypeOK'
    BY <1>4 DEF LeaseExpires, Typed
  <1>5. CASE CacheEntryExpires
    <2>1. CacheTypeOK(View)'
      <3>1. ASSUME NEW m \in Nodes, NEW n \in Names, ExpireL1(m, n)
            PROVE  CacheTypeOK(View)'
        BY <3>1 DEF ExpireL1, EvictL1, PutL1, Typed
      <3>2. ASSUME NEW n \in Names, ExpireL2(n)
            PROVE  CacheTypeOK(View)'
        BY <3>2 DEF ExpireL2, EvictL2, PutL2, Typed
      <3> QED BY <1>5, <3>1, <3>2 DEF CacheEntryExpires, CacheExpires
    <2> QED BY <1>5, <2>1 DEF CacheEntryExpires, Typed
  <1>6. CASE UNCHANGED vars
    BY <1>6 DEF vars, Typed
  <1> QED BY <1>1, <1>2, <1>3, <1>4, <1>5, <1>6 DEF Next

LEMMA TypedNext == Typed /\ [Next]_vars => Typed'
  BY TypeNext, CourseNext DEF Typed, TypeOK

\* Every reachable state is well typed.
THEOREM TypeCorrect == Spec => []TypeOK
  <1>1. Init => Typed
    BY TypedInit
  <1>2. Typed /\ [Next]_vars => Typed'
    BY TypedNext
  <1>3. Typed => TypeOK
    BY DEF Typed
  <1> QED BY <1>1, <1>2, <1>3, PTL DEF Spec

-----------------------------------------------------------------------------
(* No lost update.  NoLostUpdate is not inductive: it says nothing of the rows   *)
(* that requests have loaded and are about to write back.  Loaded does: a loaded *)
(* row is never ahead of the table, and one of the same version is the same row, *)
(* so that the version test of updateById lets no stale currency through.        *)

Loaded ==
  \A r \in Requests :
    pc[r] = "write" =>
      /\ account[Name(r)].status # "absent"
      /\ row[r].version <= account[Name(r)].version
      /\ row[r].version = account[Name(r)].version
           => row[r].currency = account[Name(r)].currency

Unborn == \A n \in Names : account[n].status = "absent" => account[n].version = 0

UpdateInv == Loaded /\ Unborn /\ NoLostUpdate

LEMMA UpdateInit == Init => UpdateInv
  BY DEF Init, UpdateInv, Loaded, Unborn, NoLostUpdate, NoRow

\* Steps that neither load nor change a row of account.
LEMMA UpdateFrame ==
  ASSUME UpdateInv, UNCHANGED <<account, writes, row, req>>,
         \A q \in Requests : pc'[q] = "write" => pc[q] = "write"
  PROVE  UpdateInv'
  BY DEF UpdateInv, Loaded, Unborn, NoLostUpdate, Name

LEMMA UpdateReload ==
  ASSUME Typed, UpdateInv, NEW r \in Requests, Reload(r)
  PROVE  UpdateInv'
  <1>1. Loaded'
    BY DEF Reload, UpdateInv, Loaded, Live, Name, Typed, TypeOK, AccountRow, AfterThrow,
           Request
  <1> QED BY <1>1 DEF Reload, UpdateInv, Unborn, NoLostUpdate

LEMMA UpdateUpdateRow ==
  ASSUME Typed, UpdateInv, NEW r \in Requests, UpdateRow(r)
  PROVE  UpdateInv'
  <1> DEFINE n == Name(r)
             w == writes[n]
  <1>0. /\ n \in Names
        /\ w \in Seq(Requests)
        /\ account \in [Names -> AccountRow] /\ writes \in [Names -> Seq(Requests)]
        /\ account[n].version \in Nat
        /\ row[r].version = account[n].version
        /\ row[r].currency = account[n].currency
        /\ account' = [account EXCEPT ![n] = Updated(r)]
        /\ writes' = [writes EXCEPT ![n] = Append(w, r)]
        /\ Updated(r).version = account[n].version + 1
        /\ Updated(r).status = "live"
        /\ req' = req /\ row' = row
    BY DEF UpdateRow, RowMatches, Updated, UpdateInv, Loaded, Name, Typed, TypeOK,
           Request, AccountRow
  <1>1. Loaded'
    BY <1>0 DEF UpdateInv, Loaded, UpdateRow, AfterUpdate, Typed, TypeOK, Name, Request,
                AccountRow
  <1>2. Unborn'
    BY <1>0 DEF UpdateInv, Unborn
  <1>3. NoLostUpdate'
    <2> SUFFICES ASSUME NEW k \in Names
                 PROVE  /\ account'[k].version = Len(writes'[k])
                        /\ \A i \in 1..Len(writes'[k]) :
                             /\ req[writes'[k][i]].currency # Blank
                             /\ \A j \in (i+1)..Len(writes'[k]) :
                                  req[writes'[k][j]].currency = Blank
                             => account'[k].currency = req[writes'[k][i]].currency
      <3>1. req' = req
        BY <1>0
      <3> QED BY Zenon, <3>1 DEF NoLostUpdate
    <2>1. CASE k # n
      BY <1>0, <2>1 DEF UpdateInv, NoLostUpdate
    <2>2. CASE k = n
      <3>1. writes'[k] = Append(w, r) /\ account'[k] = Updated(r)
        BY <1>0, <2>2
      <3>2. Len(Append(w, r)) = Len(w) + 1 /\ Append(w, r)[Len(w) + 1] = r
        BY <1>0
      <3>3. \A i \in 1..Len(w) : Append(w, r)[i] = w[i]
        BY <1>0
      <3>4. account'[k].version = Len(writes'[k])
        BY <1>0, <3>1, <3>2 DEF UpdateInv, NoLostUpdate
      <3>5. ASSUME NEW i \in 1..(Len(w) + 1),
                   req[Append(w, r)[i]].currency # Blank,
                   \A j \in (i+1)..(Len(w) + 1) : req[Append(w, r)[j]].currency = Blank
            PROVE  Updated(r).currency = req[Append(w, r)[i]].currency
        <4>1. CASE i = Len(w) + 1
          BY <3>2, <3>5, <4>1 DEF Updated
        <4>2. CASE i # Len(w) + 1
          <5>1. i \in 1..Len(w) /\ Len(w) + 1 \in (i+1)..(Len(w) + 1) /\ Len(w) \in Nat
            BY <1>0, <4>2
          <5>2. req[r].currency = Blank
            BY <3>2, <3>5, <5>1
          <5>3. Updated(r).currency = account[n].currency
            BY <1>0, <5>2 DEF Updated
          <5>4. req[w[i]].currency # Blank
            BY <3>3, <3>5, <5>1
          <5>5. \A j \in (i+1)..Len(w) : req[w[j]].currency = Blank
            BY <3>3, <3>5, <5>1
          <5> QED BY <1>0, <3>3, <5>1, <5>3, <5>4, <5>5 DEF UpdateInv, NoLostUpdate
        <4> QED BY <4>1, <4>2
      <3> QED BY <3>1, <3>2, <3>4, <3>5
    <2> QED BY <2>1, <2>2
  <1> QED BY <1>1, <1>2, <1>3 DEF UpdateInv

LEMMA UpdateInsertAccount ==
  ASSUME Typed, UpdateInv, NEW r \in Requests, InsertAccount(r)
  PROVE  UpdateInv'
  <1>1. CASE NameTaken(r)
    BY <1>1, UpdateFrame DEF InsertAccount, Typed, TypeOK
  <1>2. CASE ~NameTaken(r)
    <2> DEFINE n == Name(r)
    <2>0. /\ n \in Names /\ account[n].status = "absent"
          /\ account' = [account EXCEPT ![n] = [status |-> "live", version |-> 0,
                                                currency |-> req[r].currency]]
          /\ UNCHANGED <<row, req, writes>>
          /\ account \in [Names -> AccountRow]
          /\ \A q \in Requests : pc'[q] = "write" => pc[q] = "write"
      BY <1>2 DEF InsertAccount, NameTaken, Name, Typed, TypeOK, Request
    <2>1. \A k \in Names : k # n => account'[k] = account[k]
      BY <2>0
    <2>2. account'[n].status = "live" /\ account'[n].version = 0
      BY <2>0
    <2>3. Loaded'
      BY <2>0, <2>1 DEF UpdateInv, Loaded, Name, Typed, TypeOK, Request
    <2>4. Unborn'
      BY <2>1, <2>2 DEF UpdateInv, Unborn
    <2>5. NoLostUpdate'
      <3>1. Len(writes[n]) = 0
        BY <2>0 DEF UpdateInv, Unborn, NoLostUpdate
      <3> QED BY <2>0, <2>1, <2>2, <3>1 DEF UpdateInv, NoLostUpdate
    <2> QED BY <2>3, <2>4, <2>5 DEF UpdateInv
  <1> QED BY <1>1, <1>2

LEMMA UpdateDeleteAccount ==
  ASSUME Typed, UpdateInv, NEW r \in Requests, DeleteAccount(r)
  PROVE  UpdateInv'
  <1>1. CASE Live(Name(r))
    <2>1. \A k \in Names : /\ account'[k].version = account[k].version
                           /\ account'[k].currency = account[k].currency
                           /\ account'[k].status = "absent" => account[k].status = "absent"
      <3>1. account' = [account EXCEPT ![Name(r)] = [@ EXCEPT !.status = "deleted"]]
        BY <1>1 DEF DeleteAccount
      <3>2. account \in [Names -> AccountRow]
        BY DEF Typed, TypeOK
      <3>3. ASSUME NEW a \in AccountRow
            PROVE  LET b == [a EXCEPT !.status = "deleted"]
                   IN  /\ b.version = a.version /\ b.currency = a.currency
                       /\ b.status = "deleted"
        BY DEF AccountRow
      <3> QED BY <3>1, <3>2, <3>3
    <2>2. /\ UNCHANGED <<row, req, writes>>
          /\ \A q \in Requests : pc'[q] = "write" => pc[q] = "write"
      BY DEF DeleteAccount, Typed, TypeOK
    <2>3. Loaded'
      BY <2>1, <2>2 DEF UpdateInv, Loaded, Name, Typed, TypeOK, Request
    <2>4. Unborn' /\ NoLostUpdate'
      BY <2>1, <2>2 DEF UpdateInv, Unborn, NoLostUpdate
    <2> QED BY <2>3, <2>4 DEF UpdateInv
  <1>2. CASE ~Live(Name(r))
    BY <1>2, UpdateFrame DEF DeleteAccount, Typed, TypeOK
  <1> QED BY <1>1, <1>2

LEMMA UpdateNext == Typed /\ UpdateInv /\ [Next]_vars => UpdateInv'
  <1> SUFFICES ASSUME Typed, UpdateInv, [Next]_vars
               PROVE  UpdateInv'
    OBVIOUS
  <1> DEFINE Frame == /\ UNCHANGED <<account, writes, row, req>>
                      /\ \A q \in Requests : pc'[q] = "write" => pc[q] = "write"
  <1>0. pc \in [Requests -> Labels]
    BY DEF Typed, TypeOK
  <1>1. ASSUME NEW r \in Requests, Serve(r)
        PROVE  UpdateInv'
    <2>1. CASE Create(r)
      <3>1. CheckName(r) \/ InsertSaving(r) => Frame
        BY <1>0 DEF CheckName, InsertSaving
      <3> QED BY <2>1, <3>1, UpdateFrame, UpdateInsertAccount DEF Create
    <2>2. CASE Update(r)
      <3>1. AcquireLock(r) \/ LockTimeout(r) \/ UpdateConflict(r) \/ Unlock(r) => Frame
        BY <1>0 DEF AcquireLock, LockTimeout, UpdateConflict, Unlock, AfterThrow
      <3> QED BY <2>2, <3>1, UpdateFrame, UpdateReload, UpdateUpdateRow DEF Update
    <2>3. CASE Delete(r)
      <3>1. DeleteItems(r) \/ DeleteSaving(r) => Frame
        BY <1>0 DEF DeleteItems, DeleteSaving
      <3> QED BY <2>3, <3>1, UpdateFrame, UpdateDeleteAccount DEF Delete
    <2>4. CASE Items(r)
      <3>1. Frame
        BY <1>0, <2>4 DEF Items, Validate, InsertItem, SelectItem, DeleteItem
      <3> QED BY <3>1, UpdateFrame
    <2>5. CASE Find(r)
      <3>1. Frame
        BY <1>0, <2>5 DEF Find, GetLocal, GetShared, FindLoad, FindItems, FindSaving,
                          FillShared, FillLocal
      <3> QED BY <3>1, UpdateFrame
    <2>6. CASE Shared(r)
      <3>1. Frame
        BY <1>0, <2>6 DEF Shared, LoadAccount, FirstCall, Snapshot, Send, AfterSend,
                          EvictShared, EvictLocal
      <3> QED BY <3>1, UpdateFrame
    <2> QED BY <1>1, <2>1, <2>2, <2>3, <2>4, <2>5, <2>6 DEF Serve
  <1>2. ASSUME NEW r \in Requests, CallFails(r)
        PROVE  UpdateInv'
    <2>1. Frame
      BY <1>0, <1>2 DEF CallFails, AfterThrow
    <2> QED BY <2>1, UpdateFrame
  <1>3. ASSUME NEW m \in Nodes, Crash(m)
        PROVE  UpdateInv'
    <2>1. Frame
      BY <1>3 DEF Crash
    <2> QED BY <2>1, UpdateFrame
  <1>4. CASE UNCHANGED <<account, writes, row, req, pc>>
    BY <1>4, UpdateFrame
  <1> QED BY <1>1, <1>2, <1>3, <1>4 DEF Next, vars, LeaseExpires, CacheEntryExpires

\* In every reachable state the version of an account counts its committed updates
\* and its currency is the last one an update asked for.
THEOREM NoUpdateIsLost == Spec => []NoLostUpdate
  <1>1. Init => Typed /\ UpdateInv
    BY TypedInit, UpdateInit
  <1>2. (Typed /\ UpdateInv) /\ [Next]_vars => (Typed /\ UpdateInv)'
    BY TypedNext, UpdateNext
  <1>3. Typed /\ UpdateInv => NoLostUpdate
    BY DEF UpdateInv
  <1> QED BY <1>1, <1>2, <1>3, PTL DEF Spec
=============================================================================
