--------------------------- MODULE AccountService ---------------------------
(***************************************************************************)
(* account-service: the requests AccountServiceImpl serves, each one split *)
(* into its calls to MySQL, Redis and RabbitMQ, over the tables account,   *)
(* `transaction` and saving, the Redisson lock of every account and the    *)
(* "accounts" cache.                                                       *)
(*                                                                         *)
(* No method is @Transactional: every statement commits by itself, so every*)
(* call is an action and requests interleave between any two of them.      *)
(* A call may throw (CallFails), a node may die with the requests it serves*)
(* (Crash), and a lock lease may run out (LeaseExpires).                   *)
(*                                                                         *)
(* uk_account_name also covers logically deleted rows, so a name has one   *)
(* row for ever and account, saving and lock are indexed by name.  An      *)
(* addItem request inserts one row, whose id is the request itself.        *)
(***************************************************************************)
EXTENDS Naturals, Sequences

CONSTANTS Requests,    \* request identities, also the ids of the items they add
          Names,       \* account names
          Nodes,       \* instances of account-service
          Currencies,  \* currencies a client may ask for
          Blank,       \* the null or blank currency of an update
          NoEntry,     \* a cache miss
          NoOne,       \* owner of a free lock
          Inputs,      \* Inputs[r]: what the client behind r may ask for
          NodeOf,      \* NodeOf[r]: the node the gateway routes r to
          Existing,    \* names whose account and saving rows exist at start
          MaxRetries,  \* MAX_OPTIMISTIC_RETRIES
          MaxFaults    \* bound: calls that throw, events lost and nodes that crash

VARIABLES account,     \* rows of table account
          saving,      \* status of the row of table saving, by account
          item,        \* status of the row of table `transaction`, by id
          lock,        \* lock:account:{id}: the owner, or NoOne
          req,         \* the request each identity carries
          pc,          \* the next call of each request
          row,         \* the AccountEntity a request loaded last
          view,        \* the transactions, currency and saving it has read
          attempt,     \* attempt of the optimistic-retry loop
          answer,      \* the HTTP status decided for a request
          published,   \* the events handed to the broker, in order
          l1, l2,      \* the "accounts" cache
          faults,      \* faults so far
          writes,      \* history: update requests in the order they committed
          touched,     \* history: requests that changed a row
          expired,     \* history: requests that lost the lock to its lease
          threw,       \* history: the calls that threw, as <<request, call>>
          past         \* history: what the tables have held for each account

INSTANCE TwoLevelCache WITH Keys <- Names

cacheVars == <<l1, l2>>
tables  == <<account, saving, item>>
locals  == <<row, view, attempt>>
history == <<writes, touched, expired, threw, past>>
vars == <<account, saving, item, lock, req, pc, row, view, attempt, answer,
          published, l1, l2, faults, writes, touched, expired, threw, past>>

-----------------------------------------------------------------------------
(* Types *)

Kinds == {"create", "update", "delete", "addItem", "deleteItem", "find"}

\* currency is used by create and update, target by deleteItem; valid says that
\* category and type of an addItem belong to the fixed sets of the service.
Request == [kind : Kinds, name : Names, currency : Currencies \cup {Blank},
            target : Requests \cup {NoOne}, valid : BOOLEAN]

Statuses == {"absent", "live", "deleted"}

AccountRow == [status : Statuses, currency : Currencies \cup {Blank}, version : Nat]

\* What assemble() and snapshotOf() read of an account.
View == [currency : Currencies \cup {Blank}, items : SUBSET Requests, saving : BOOLEAN]

EventTypes == {"ACCOUNT_CREATED", "ACCOUNT_UPDATED", "ACCOUNT_DELETED",
               "ITEM_ADDED", "ITEM_DELETED"}

\* eventId is the position in published; by is the request behind the event;
\* arrived says that the exchange has it.
AccountEvent == [eventType : EventTypes, name : Names, items : SUBSET Requests,
                 by : Requests, arrived : BOOLEAN]

\* The values each table has held for an account.
Past == [currency : SUBSET (Currencies \cup {Blank}),
         items : SUBSET (SUBSET Requests), saving : SUBSET BOOLEAN]

Answers == {"none", "200", "400", "404", "409", "500"}

Labels == {"start", "insertAccount", "insertSaving", "lock", "reload", "write",
           "deleteAccount", "deleteItems", "deleteSaving", "insertItem",
           "selectItem", "deleteItem", "snapshot", "send", "unlock",
           "evictL2", "evictL1", "getL2", "backfill", "findLoad", "findItems",
           "findSaving", "putL2", "putL1", "done", "crashed"}

ASSUME ServiceAssumption ==
  /\ NoOne \notin Requests
  /\ Blank \notin Currencies
  /\ NoEntry \notin View
  /\ Inputs \in [Requests -> SUBSET Request]
  /\ \A r \in Requests : \A i \in Inputs[r] :
       /\ i.kind = "create" => i.currency # Blank        \* @NotBlank
       /\ i.kind = "deleteItem" => i.target \in Requests
  /\ NodeOf \in [Requests -> Nodes]
  /\ Existing \subseteq Names
  /\ MaxRetries \in Nat \ {0}
  /\ MaxFaults \in Nat

TypeOK ==
  /\ account \in [Names -> AccountRow]
  /\ saving \in [Names -> Statuses]
  /\ item \in [Requests -> Statuses]
  /\ lock \in [Names -> Requests \cup {NoOne}]
  /\ req \in [Requests -> Request]
  /\ pc \in [Requests -> Labels]
  /\ row \in [Requests -> AccountRow]
  /\ view \in [Requests -> View]
  /\ attempt \in [Requests -> 1..MaxRetries]
  /\ answer \in [Requests -> Answers]
  /\ published \in Seq(AccountEvent)
  /\ CacheTypeOK(View)
  /\ faults \in 0..MaxFaults
  /\ writes \in [Names -> Seq(Requests)]
  /\ touched \subseteq Requests
  /\ expired \subseteq Requests
  /\ threw \subseteq Requests \X Labels
  /\ past \in [Names -> Past]

-----------------------------------------------------------------------------
(* Vocabulary *)

Name(r) == req[r].name

Live(n) == account[n].status = "live"

Ended(r) == pc[r] \in {"done", "crashed"}

InFlight(r) == pc[r] # "start" /\ ~Ended(r)

\* The part of update that runs inside try { ... } finally { lock.unlock(); }.
InsideLock(r) == /\ req[r].kind = "update"
                 /\ pc[r] \in {"reload", "write", "snapshot", "send", "unlock"}

\* r makes the call labelled from and goes on with the call labelled to.
Step(r, from, to) == pc[r] = from /\ pc' = [pc EXCEPT ![r] = to]

\* The answer is decided; r goes on with the call labelled to.
Reply(r, status, to) == /\ pc' = [pc EXCEPT ![r] = to]
                        /\ answer' = [answer EXCEPT ![r] = status]

-----------------------------------------------------------------------------
(* The decisions of the code, one operator each.  Variants whose name ends in _F *)
(* are faults the properties below are known to notice; nothing uses them.       *)

ItemsWithDeleted_F(n) == {i \in Requests : item[i] # "absent" /\ Name(i) = n}

ForgetsAccountRow_F(r) == CASE req[r].kind = "update"     -> "lock"
                            [] req[r].kind = "delete"     -> "deleteItems"
                            [] req[r].kind = "addItem"    -> "insertItem"
                            [] req[r].kind = "deleteItem" -> "selectItem"

IgnoresTryLock_F(r) == TRUE

WithoutVersion_F(r) == Live(Name(r))

WithoutTableLogic_F(r) == account[Name(r)].version = row[r].version

OneTooMany_F(r) == attempt[r] <= MaxRetries

NoFinally_F(r) == IF InsideLock(r) /\ pc[r] \in {"reload", "write"} THEN "unlock" ELSE "done"

UniqueWhileLive_F(r) == Live(Name(r))

SwallowsPublish_F(r) == IF pc[r] = "send" THEN "200" ELSE "500"

WaitsForEver_F(r) == FALSE

StaysInLoop_F(r) == "reload"

\* @TableLogic hides deleted rows; selects ask for one account_id.
LiveItems(n) == {i \in Requests : item[i] = "live" /\ Name(i) = n}

\* What the methods call once loadAccount has found the account.
FirstCall(r) == CASE req[r].kind = "update"     -> "lock"
                  [] req[r].kind = "delete"     -> "deleteAccount"
                  [] req[r].kind = "addItem"    -> "insertItem"
                  [] req[r].kind = "deleteItem" -> "selectItem"

\* tryLock gets the lock.
LockFree(r) == lock[Name(r)] = NoOne

\* tryLock gives up: somebody else has held the lock for the 5 s it waits.
GivesUp(r) == ~LockFree(r)

\* A row matched: publish and return out of the loop.
AfterUpdate(r) == "snapshot"

\* The WHERE of updateById: not deleted, and the version as it was loaded.
RowMatches(r) == Live(Name(r)) /\ account[Name(r)].version = row[r].version

\* attempt <= MAX_OPTIMISTIC_RETRIES of the for loop, after attempt++.
MoreAttempts(r) == attempt[r] < MaxRetries

\* An exception inside the try block of withAccountLock goes through finally;
\* one that unlock itself throws, or any other, ends the request.
AfterThrow(r) == IF InsideLock(r) /\ pc[r] # "unlock" THEN "unlock" ELSE "done"

\* uk_account_name finds a row with this name, deleted or not.
NameTaken(r) == account[Name(r)].status # "absent"

\* Every remote exception becomes a 500: nobody catches what publish throws.
ThrownAnswer(r) == "500"

-----------------------------------------------------------------------------
\* What the history keeps of the row of account n.
HeldCurrency(n) == IF account[n].status = "absent" THEN {} ELSE {account[n].currency}

NoRow == [status |-> "absent", currency |-> Blank, version |-> 0]

NoView == [currency |-> Blank, items |-> {}, saving |-> FALSE]

Init ==
  /\ account \in {a \in [Names -> {NoRow} \cup
                          [status : {"live"}, currency : Currencies, version : {0}]] :
                    \A n \in Names : a[n].status = "live" <=> n \in Existing}
  /\ saving = [n \in Names |-> IF n \in Existing THEN "live" ELSE "absent"]
  /\ item = [i \in Requests |-> "absent"]
  /\ lock = [n \in Names |-> NoOne]
  /\ req \in {q \in [Requests -> UNION {Inputs[r] : r \in Requests}] :
               \A r \in Requests : q[r] \in Inputs[r]}
  /\ pc = [r \in Requests |-> "start"]
  /\ row = [r \in Requests |-> NoRow]
  /\ view = [r \in Requests |-> NoView]
  /\ attempt = [r \in Requests |-> 1]
  /\ answer = [r \in Requests |-> "none"]
  /\ published = <<>>
  /\ CacheInit
  /\ faults = 0
  /\ writes = [n \in Names |-> <<>>]
  /\ touched = {}
  /\ expired = {}
  /\ threw = {}
  /\ past = [n \in Names |-> [currency |-> HeldCurrency(n), items |-> {{}},
                              saving |-> {saving[n] = "live"}]]

-----------------------------------------------------------------------------
(* What several operations share *)

\* Every statement that writes a table leaves its result in the history.
Remember ==
  past' = [n \in Names |->
             [currency |-> past[n].currency \cup HeldCurrency(n)',
              items    |-> past[n].items \cup {LiveItems(n)'},
              saving   |-> past[n].saving \cup {saving'[n] = "live"}]]

\* addItem refuses an unknown category or type before it touches anything.
Validate(r) ==
  /\ pc[r] = "start" /\ req[r].kind = "addItem" /\ ~req[r].valid
  /\ Reply(r, "400", "done")
  /\ UNCHANGED <<tables, lock, req, locals, published, cacheVars, faults, history>>

\* The loadAccount that opens update, delete, addItem and deleteItem.
LoadAccount(r) ==
  /\ pc[r] = "start" /\ req[r].kind \in {"update", "delete", "addItem", "deleteItem"}
  /\ req[r].kind = "addItem" => req[r].valid
  /\ \/ /\ Live(Name(r))
        /\ Step(r, "start", FirstCall(r))
        /\ UNCHANGED answer
     \/ ~Live(Name(r)) /\ Reply(r, "404", "done")
  /\ UNCHANGED <<tables, lock, req, locals, published, cacheVars, faults, history>>

\* snapshotOf: the transactions of the account as they are now.  The saving row
\* it also reads is written by create only, always with amount zero.
Snapshot(r) ==
  /\ Step(r, "snapshot", "send")
  /\ view' = [view EXCEPT ![r].items = LiveItems(Name(r))]
  /\ UNCHANGED <<tables, lock, req, row, attempt, answer, published, cacheVars,
                 faults, history>>

EventTypeOf(r) == CASE req[r].kind = "create"     -> "ACCOUNT_CREATED"
                    [] req[r].kind = "update"     -> "ACCOUNT_UPDATED"
                    [] req[r].kind = "delete"     -> "ACCOUNT_DELETED"
                    [] req[r].kind = "addItem"    -> "ITEM_ADDED"
                    [] req[r].kind = "deleteItem" -> "ITEM_DELETED"

AfterSend(r) == CASE req[r].kind = "update" -> "unlock"
                  [] req[r].kind = "create" -> "findItems"
                  [] OTHER -> "evictL2"

\* convertAndSend returns, and the operation is a success.  Without publisher
\* confirms and on a channel that is not transacted it may return although the
\* event never gets to the fanout exchange.
Send(r) ==
  /\ pc[r] = "send"
  /\ \E arrived \in BOOLEAN :
       /\ arrived \/ faults < MaxFaults
       /\ published' = Append(published, [eventType |-> EventTypeOf(r),
                                          name |-> Name(r), items |-> view[r].items,
                                          by |-> r, arrived |-> arrived])
       /\ faults' = IF arrived THEN faults ELSE faults + 1
  /\ Reply(r, "200", AfterSend(r))
  /\ UNCHANGED <<tables, lock, req, locals, cacheVars, history>>

\* @CacheEvict runs after the method returned normally: Redis, then Caffeine.
EvictShared(r) ==
  /\ Step(r, "evictL2", "evictL1")
  /\ EvictL2(Name(r))
  /\ UNCHANGED <<tables, lock, req, locals, answer, published, faults, history>>

EvictLocal(r) ==
  /\ Step(r, "evictL1", "done")
  /\ EvictL1(NodeOf[r], Name(r))
  /\ UNCHANGED <<tables, lock, req, locals, answer, published, faults, history>>

-----------------------------------------------------------------------------
(* create *)

\* selectOne by name sees live rows only.
CheckName(r) ==
  /\ pc[r] = "start" /\ req[r].kind = "create"
  /\ \/ Live(Name(r)) /\ Reply(r, "409", "done")
     \/ ~Live(Name(r)) /\ Step(r, "start", "insertAccount") /\ UNCHANGED answer
  /\ UNCHANGED <<tables, lock, req, locals, published, cacheVars, faults, history>>

\* DuplicateKeyException is nobody's business exception: a 500.
InsertAccount(r) ==
  /\ pc[r] = "insertAccount"
  /\ \/ /\ ~NameTaken(r)
        /\ Step(r, "insertAccount", "insertSaving")
        /\ account' = [account EXCEPT ![Name(r)] = [status |-> "live", version |-> 0,
                                                    currency |-> req[r].currency]]
        /\ touched' = touched \cup {r}
        /\ UNCHANGED answer
     \/ NameTaken(r) /\ Reply(r, "500", "done") /\ UNCHANGED <<account, touched>>
  /\ UNCHANGED <<saving, item, lock, req, locals, published, cacheVars, faults, writes,
                 expired, threw>>
  /\ Remember

InsertSaving(r) ==
  /\ Step(r, "insertSaving", "snapshot")
  /\ saving' = [saving EXCEPT ![Name(r)] = "live"]
  /\ UNCHANGED <<account, item, lock, req, locals, answer, published, cacheVars,
                 faults, writes, touched, expired, threw>>
  /\ Remember

-----------------------------------------------------------------------------
(* update *)

\* tryLock(5, 10, SECONDS): the lock, or a conflict when 5 s pass without it.
AcquireLock(r) ==
  /\ Step(r, "lock", "reload")
  /\ LockFree(r)
  /\ lock' = [lock EXCEPT ![Name(r)] = r]
  /\ UNCHANGED <<tables, req, locals, answer, published, cacheVars, faults, history>>

LockTimeout(r) ==
  /\ pc[r] = "lock"
  /\ GivesUp(r)
  /\ Reply(r, "409", "done")
  /\ UNCHANGED <<tables, lock, req, locals, published, cacheVars, faults, history>>

\* loadAccount at the head of every attempt.
Reload(r) ==
  /\ pc[r] = "reload"
  /\ \/ /\ Live(Name(r))
        /\ Step(r, "reload", "write")
        /\ row' = [row EXCEPT ![r] = account[Name(r)]]
        /\ UNCHANGED answer
     \/ ~Live(Name(r)) /\ Reply(r, "404", AfterThrow(r)) /\ UNCHANGED row
  /\ UNCHANGED <<tables, lock, req, view, attempt, published, cacheVars, faults, history>>

\* The entity updateById writes: the loaded row, with the new currency if given.
Updated(r) == [status |-> "live", version |-> row[r].version + 1,
               currency |-> IF req[r].currency = Blank THEN row[r].currency
                                                       ELSE req[r].currency]

UpdateRow(r) ==
  /\ Step(r, "write", AfterUpdate(r))
  /\ RowMatches(r)
  /\ account' = [account EXCEPT ![Name(r)] = Updated(r)]
  /\ writes' = [writes EXCEPT ![Name(r)] = Append(@, r)]
  /\ touched' = touched \cup {r}
  /\ UNCHANGED <<saving, item, lock, req, locals, answer, published, cacheVars, faults,
                 expired, threw>>
  /\ Remember

\* No row matched: the next attempt, or a conflict after the last one.
UpdateConflict(r) ==
  /\ pc[r] = "write"
  /\ ~RowMatches(r)
  /\ \/ /\ MoreAttempts(r)
        /\ Step(r, "write", "reload")
        /\ attempt' = [attempt EXCEPT ![r] = @ + 1]
        /\ UNCHANGED answer
     \/ ~MoreAttempts(r) /\ Reply(r, "409", AfterThrow(r)) /\ UNCHANGED attempt
  /\ UNCHANGED <<tables, lock, req, row, view, published, cacheVars, faults, history>>

\* The finally block.  Unlocking a lock whose lease ran out throws
\* IllegalMonitorStateException, which replaces whatever update had to answer.
Unlock(r) ==
  /\ pc[r] = "unlock"
  /\ \/ /\ lock[Name(r)] = r
        /\ lock' = [lock EXCEPT ![Name(r)] = NoOne]
        /\ Step(r, "unlock", IF answer[r] = "200" THEN "evictL2" ELSE "done")
        /\ UNCHANGED answer
     \/ lock[Name(r)] # r /\ Reply(r, "500", "done") /\ UNCHANGED lock
  /\ UNCHANGED <<tables, req, locals, published, cacheVars, faults, history>>

-----------------------------------------------------------------------------
(* delete: logical, and without the account lock *)

DeleteAccount(r) ==
  /\ Step(r, "deleteAccount", "deleteItems")
  /\ IF Live(Name(r))
     THEN /\ account' = [account EXCEPT ![Name(r)].status = "deleted"]
          /\ touched' = touched \cup {r}
     ELSE UNCHANGED <<account, touched>>
  /\ UNCHANGED <<saving, item, lock, req, locals, answer, published, cacheVars,
                 faults, writes, expired, threw>>
  /\ Remember

DeleteItems(r) ==
  /\ Step(r, "deleteItems", "deleteSaving")
  /\ item' = [i \in Requests |-> IF i \in LiveItems(Name(r)) THEN "deleted" ELSE item[i]]
  /\ UNCHANGED <<account, saving, lock, req, locals, answer, published, cacheVars,
                 faults, writes, touched, expired, threw>>
  /\ Remember

DeleteSaving(r) ==
  /\ Step(r, "deleteSaving", "snapshot")
  /\ saving' = [saving EXCEPT ![Name(r)] = IF @ = "live" THEN "deleted" ELSE @]
  /\ UNCHANGED <<account, item, lock, req, locals, answer, published, cacheVars,
                 faults, writes, touched, expired, threw>>
  /\ Remember

-----------------------------------------------------------------------------
(* addItem and deleteItem: no lock, no version *)

InsertItem(r) ==
  /\ Step(r, "insertItem", "snapshot")
  /\ item' = [item EXCEPT ![r] = "live"]
  /\ touched' = touched \cup {r}
  /\ UNCHANGED <<account, saving, lock, req, locals, answer, published, cacheVars,
                 faults, writes, expired, threw>>
  /\ Remember

\* selectById: the row must exist, undeleted, and belong to this account.
SelectItem(r) ==
  /\ pc[r] = "selectItem"
  /\ \/ req[r].target \in LiveItems(Name(r)) /\ Step(r, "selectItem", "deleteItem")
                                             /\ UNCHANGED answer
     \/ req[r].target \notin LiveItems(Name(r)) /\ Reply(r, "404", "done")
  /\ UNCHANGED <<tables, lock, req, locals, published, cacheVars, faults, history>>

\* deleteById; a row another request deleted meanwhile matches nothing.
DeleteItem(r) ==
  /\ Step(r, "deleteItem", "snapshot")
  /\ IF item[req[r].target] = "live"
     THEN item' = [item EXCEPT ![req[r].target] = "deleted"] /\ touched' = touched \cup {r}
     ELSE UNCHANGED <<item, touched>>
  /\ UNCHANGED <<account, saving, lock, req, locals, answer, published, cacheVars,
                 faults, writes, expired, threw>>
  /\ Remember

-----------------------------------------------------------------------------
(* findByName, @Cacheable: L1, L2, then three selects and two puts.  FindItems *)
(* and FindSaving are assemble(), which create answers with too.               *)

GetLocal(r) ==
  /\ pc[r] = "start" /\ req[r].kind = "find"
  /\ \/ l1[NodeOf[r]][Name(r)] # NoEntry /\ Reply(r, "200", "done")
     \/ l1[NodeOf[r]][Name(r)] = NoEntry /\ Step(r, "start", "getL2") /\ UNCHANGED answer
  /\ UNCHANGED <<tables, lock, req, locals, published, cacheVars, faults, history>>

GetShared(r) ==
  /\ \/ /\ l2[Name(r)] # NoEntry
        /\ Step(r, "getL2", "backfill")
        /\ view' = [view EXCEPT ![r] = l2[Name(r)]]
     \/ l2[Name(r)] = NoEntry /\ Step(r, "getL2", "findLoad") /\ UNCHANGED view
  /\ UNCHANGED <<tables, lock, req, row, attempt, answer, published, cacheVars,
                 faults, history>>

CachesAbsence_F(r) ==
  /\ Step(r, "findLoad", IF Live(Name(r)) THEN "findItems" ELSE "putL2")
  /\ view' = [view EXCEPT ![r].currency = account[Name(r)].currency]
  /\ UNCHANGED <<tables, lock, req, row, attempt, answer, published, cacheVars,
                 faults, history>>

FindLoad(r) ==
  /\ pc[r] = "findLoad"
  /\ \/ /\ Live(Name(r))
        /\ Step(r, "findLoad", "findItems")
        /\ view' = [view EXCEPT ![r].currency = account[Name(r)].currency]
        /\ UNCHANGED answer
     \/ ~Live(Name(r)) /\ Reply(r, "404", "done") /\ UNCHANGED view
  /\ UNCHANGED <<tables, lock, req, row, attempt, published, cacheVars, faults, history>>

FindItems(r) ==
  /\ Step(r, "findItems", "findSaving")
  /\ view' = [view EXCEPT ![r].items = LiveItems(Name(r))]
  /\ UNCHANGED <<tables, lock, req, row, attempt, answer, published, cacheVars,
                 faults, history>>

FindSaving(r) ==
  /\ Step(r, "findSaving", IF req[r].kind = "create" THEN "done" ELSE "putL2")
  /\ view' = [view EXCEPT ![r].saving = (saving[Name(r)] = "live")]
  /\ UNCHANGED <<tables, lock, req, row, attempt, answer, published, cacheVars,
                 faults, history>>

FillShared(r) ==
  /\ Step(r, "putL2", "putL1")
  /\ PutL2(Name(r), view[r])
  /\ UNCHANGED <<tables, lock, req, locals, answer, published, faults, history>>

\* The last step of a miss (put) and of an L2 hit (backfill).
FillLocal(r) ==
  /\ pc[r] \in {"putL1", "backfill"}
  /\ PutL1(NodeOf[r], Name(r), view[r])
  /\ Reply(r, "200", "done")
  /\ UNCHANGED <<tables, lock, req, locals, published, faults, history>>

-----------------------------------------------------------------------------
(* The environment *)

\* Validation and Caffeine stay inside the JVM; every other call goes out.
CallsOut(r) ==
  /\ ~Ended(r) /\ pc[r] \notin {"evictL1", "putL1", "backfill"}
  /\ pc[r] = "start" => req[r].kind # "find" /\ req[r].valid

\* The call r is about to make throws.
CallFails(r) ==
  /\ CallsOut(r) /\ faults < MaxFaults
  /\ Reply(r, ThrownAnswer(r), AfterThrow(r))
  /\ faults' = faults + 1
  /\ threw' = threw \cup {<<r, pc[r]>>}
  /\ UNCHANGED <<tables, lock, req, locals, published, cacheVars, writes, touched,
                 expired, past>>

\* A node dies with the requests it serves; its locks stay until their lease ends.
Crash(m) ==
  /\ faults < MaxFaults
  /\ pc' = [r \in Requests |-> IF InFlight(r) /\ NodeOf[r] = m THEN "crashed" ELSE pc[r]]
  /\ RestartL1(m)
  /\ faults' = faults + 1
  /\ UNCHANGED <<tables, lock, req, locals, answer, published, history>>

\* 10 s after tryLock: an explicit lease disables Redisson's watchdog.
LeaseExpires(n) ==
  /\ lock[n] # NoOne
  /\ lock' = [lock EXCEPT ![n] = NoOne]
  /\ expired' = expired \cup {lock[n]}
  /\ UNCHANGED <<tables, req, pc, locals, answer, published, cacheVars, faults,
                 writes, touched, threw, past>>

CacheEntryExpires ==
  /\ CacheExpires
  /\ UNCHANGED <<tables, lock, req, pc, locals, answer, published, faults, history>>

-----------------------------------------------------------------------------
Create(r) == CheckName(r) \/ InsertAccount(r) \/ InsertSaving(r)

Update(r) == \/ AcquireLock(r) \/ LockTimeout(r) \/ Reload(r)
             \/ UpdateRow(r) \/ UpdateConflict(r) \/ Unlock(r)

Delete(r) == DeleteAccount(r) \/ DeleteItems(r) \/ DeleteSaving(r)

Items(r) == Validate(r) \/ InsertItem(r) \/ SelectItem(r) \/ DeleteItem(r)

Find(r) == \/ GetLocal(r) \/ GetShared(r) \/ FindLoad(r) \/ FindItems(r)
           \/ FindSaving(r) \/ FillShared(r) \/ FillLocal(r)

Shared(r) == \/ LoadAccount(r) \/ Snapshot(r) \/ Send(r)
             \/ EvictShared(r) \/ EvictLocal(r)

Serve(r) == Create(r) \/ Update(r) \/ Delete(r) \/ Items(r) \/ Find(r) \/ Shared(r)

Next == \/ \E r \in Requests : Serve(r) \/ CallFails(r)
        \/ \E m \in Nodes : Crash(m)
        \/ \E n \in Names : LeaseExpires(n)
        \/ CacheEntryExpires

\* The servlet container schedules every request; faults, crashes, lease and
\* cache expiry are never owed.
Spec == Init /\ [][Next]_vars /\ \A r \in Requests : WF_vars(Serve(r))

-----------------------------------------------------------------------------
(* Properties *)

\* No update is lost: the version counts the updates that committed, and the
\* currency is the one the last of them that gave a currency asked for, although
\* every update writes back the whole row it loaded and leases run out between
\* load and write (updateById with @Version, inside the retry loop of update).
NoLostUpdate ==
  \A n \in Names :
    /\ account[n].version = Len(writes[n])
    /\ \A i \in 1..Len(writes[n]) :
         /\ req[writes[n][i]].currency # Blank
         /\ \A j \in (i+1)..Len(writes[n]) : req[writes[n][j]].currency = Blank
         => account[n].currency = req[writes[n][i]].currency

\* The account lock excludes everyone whose lease has not run out: of two updates
\* of one account inside withAccountLock, one has lost its lease.
LockExcludes ==
  \A q, r \in Requests :
    q # r /\ Name(q) = Name(r) /\ InsideLock(q) /\ InsideLock(r)
      => q \in expired \/ r \in expired

\* The optimistic retry is needed only when the lock has failed: an update goes
\* into a second attempt only if some lease of that account ran out, or the
\* account was deleted, which takes no lock.
RetryNeedsExpiry ==
  \A r \in Requests :
    attempt[r] > 1 => \/ \E q \in expired : Name(q) = Name(r)
                      \/ account[Name(r)].status = "deleted"

\* finally releases the lock on every path, that of an exception in any call of the
\* try block too: a request that is out of withAccountLock still owns an account
\* lock only if its node died or its own call to unlock threw.
LockReleased ==
  \A n \in Names : lock[n] # NoOne => \/ InsideLock(lock[n])
                                      \/ pc[lock[n]] = "crashed"
                                      \/ <<lock[n], "unlock">> \in threw

\* An answer that blames the client (400, 404, 409) comes from a request that has
\* changed no row, whatever attempts it has made before it gave up.
ClientErrorChangesNothing ==
  \A r \in Requests : answer[r] \in {"400", "404", "409"} => r \notin touched

\* A 500 is never the service's own doing, but for the two races the code leaves
\* open: unless one of its own calls threw, the request met a lease that ran out
\* before unlock, or is a create that met a row its first select did not show.
ServerErrorExplained ==
  \A r \in Requests :
    answer[r] = "500" => \/ \E l \in Labels : <<r, l>> \in threw
                         \/ r \in expired
                         \/ req[r].kind = "create" /\ account[Name(r)].status # "absent"

\* Of all the create requests for a name one at most inserts the account, however
\* their selects and inserts interleave, and none when the name was taken.
OneCreator ==
  \A q, r \in touched :
    /\ req[q].kind = "create" => Name(q) \notin Existing
    /\ req[q].kind = "create" /\ req[r].kind = "create" /\ Name(q) = Name(r) => q = r

\* A live account without a saving row is one whose create has not got that far:
\* it is still running, or it failed or died between its two inserts.  No delete
\* takes the saving row away from a live account.
LiveAccountHasSaving ==
  \A n \in Names :
    Live(n) /\ saving[n] # "live"
      => \E r \in touched : /\ req[r].kind = "create" /\ Name(r) = n
                            /\ pc[r] \in {"insertSaving", "crashed"} \/ answer[r] = "500"

\* Every write answered 200 has handed exactly one event to the broker, and every
\* other one at most: no retry publishes twice.  Where no fault has happened the
\* event of every success is at the exchange; a success may go unannounced only
\* because convertAndSend returned and the event was lost behind it.
SuccessIsPublishedOnce ==
  /\ \A r \in Requests : answer[r] = "200" /\ req[r].kind # "find"
                           => \E k \in 1..Len(published) :
                                /\ published[k].by = r
                                /\ published[k].arrived \/ faults > 0
  /\ \A j, k \in 1..Len(published) : published[j].by = published[k].by => j = k

\* The snapshot in an event is taken after the change it announces and holds rows
\* of its own account only: an added item is in it unless deleted since, a deleted
\* one is not.
EventShowsChange ==
  \A k \in 1..Len(published) :
    LET e == published[k]
        r == e.by
    IN /\ \A i \in e.items : Name(i) = e.name /\ item[i] # "absent"
       /\ req[r].kind = "addItem" => r \in e.items \/ item[r] = "deleted"
       /\ req[r].kind = "deleteItem" => req[r].target \notin e.items

\* Each part of a cached response is one its table has held for this account: the
\* currency, the whole set of items and the saving, although find reads them in
\* three statements beside creates, updates and deletes, and an account that was
\* never created is in no cache.  The three need not be of one moment, and none
\* need be of now (see CachesAreCurrent).
CachedViewsWereCommitted ==
  \A n \in Names :
    \A v \in ({l2[n]} \cup {l1[m][n] : m \in Nodes}) \ {NoEntry} :
      /\ v.currency \in past[n].currency
      /\ v.items \in past[n].items
      /\ v.saving \in past[n].saving

\* What the documents promise and the code does not keep (see the README).

\* Spec 005 asks for Redisson mutual exclusion with watchdog renewal: two updates
\* of one account are never inside withAccountLock together.
AccountLockMutex ==
  \A q, r \in Requests :
    InsideLock(q) /\ InsideLock(r) /\ Name(q) = Name(r) => q = r

\* Spec 005: an update answers 409 only once its optimistic retries are exhausted.
ConflictMeansRetriesExhausted ==
  \A r \in Requests :
    req[r].kind = "update" /\ answer[r] = "409" => attempt[r] = MaxRetries

\* Spec 005: @CacheEvict on the write path keeps both levels consistent.  Once
\* every request has ended well, what is cached is what the tables hold.
CachesAreCurrent ==
  (\A r \in Requests : pc[r] = "done") /\ faults = 0 /\ expired = {} =>
    \A n \in Names :
      \A v \in ({l2[n]} \cup {l1[m][n] : m \in Nodes}) \ {NoEntry} :
        /\ Live(n)
        /\ v = [currency |-> account[n].currency, items |-> LiveItems(n),
                saving |-> saving[n] = "live"]

\* A logically deleted account stays deleted and is not written any more, even by
\* an update that loaded it before.
DeletedIsFinal ==
  [][\A n \in Names : account[n].status = "deleted" => account'[n] = account[n]]_vars

\* Every request that was started is answered, unless its node dies: waiting for a
\* lock whose owner crashed ends by itself, and so do the retries.
EveryRequestAnswered ==
  \A r \in Requests : InFlight(r) ~> Ended(r)
=============================================================================
