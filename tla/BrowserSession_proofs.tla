----------------------- MODULE BrowserSession_proofs -----------------------
(***************************************************************************)
(* Theorems of BrowserSession, for every number of tabs, users and items.  *)
(*                                                                         *)
(* First, a page is always in order (Sound), action by action.  Then, what *)
(* pages send: nothing of the demo, and nothing of another account or with *)
(* another token unless those of the page were mixed up first (Whose).     *)
(***************************************************************************)
EXTENDS BrowserSession, TLAPS

USE SessionAssumption DEF SessionAssumption

-----------------------------------------------------------------------------
(* Items. *)

\* Putting one set of items over another gives a set of items.
LEMMA OverType ==
  ASSUME NEW f \in ItemSets, NEW g \in ItemSets
  PROVE  Over(f, g) \in ItemSets
  <1>1. PICK F \in SUBSET Slots : f \in [F -> Users \cup {Demo}]
    BY DEF ItemSets
  <1>2. PICK G \in SUBSET Slots : g \in [G -> Users \cup {Demo}]
    BY DEF ItemSets
  <1>3. Over(f, g) \in [F \cup G -> Users \cup {Demo}]
    BY <1>1, <1>2 DEF Over
  <1> QED BY <1>3 DEF ItemSets

\* Every item of the result was in one of them.
LEMMA OverParts ==
  ASSUME NEW f, NEW g, NEW key \in DOMAIN Over(f, g)
  PROVE  \/ key \in DOMAIN f /\ Over(f, g)[key] = f[key]
         \/ key \in DOMAIN g /\ Over(f, g)[key] = g[key]
  BY DEF Over

\* No items are a set of items, and so are one new item and those of an answer.
LEMMA SomeItems ==
  ASSUME NEW user \in Users \cup {Demo}
  PROVE  /\ ItemsOf(user) \subseteq ItemSets
         /\ \A key \in Slots : [k \in {key} |-> user] \in ItemSets
  <1>1. ASSUME NEW keys \in SUBSET Slots
        PROVE  [keys -> {user}] \subseteq [keys -> Users \cup {Demo}]
    OBVIOUS
  <1>2. \A key \in Slots : [k \in {key} |-> user] \in [{key} -> {user}] /\ {key} \in SUBSET Slots
    OBVIOUS
  <1>3. ItemsOf(user) \subseteq ItemSets
    BY <1>1 DEF ItemsOf, ItemSets
  <1>4. ASSUME NEW key \in Slots
        PROVE  [k \in {key} |-> user] \in ItemsOf(user)
    <2>1. [{key} -> {user}] \subseteq ItemsOf(user)
      BY <1>2, Zenon DEF ItemsOf
    <2> QED BY <1>2, <2>1
  <1> QED BY <1>3, <1>4

LEMMA NothingIsItems == NoItems \in ItemSets /\ DOMAIN NoItems = {}
  <1>1. NoItems \in [{} -> Users \cup {Demo}] /\ DOMAIN NoItems = {}
    BY DEF NoItems
  <1> QED BY <1>1 DEF ItemSets

-----------------------------------------------------------------------------
(* Pages in order. *)

\* A page that shows, will show or goes back to an account has one, and asks for
\* somebody's.
Sound(page) ==
  /\ page \in TabType
  /\ page.stage \in {"app", "waiting", "mail"} => page.shown # None
  /\ page.back \in {"app", "waiting", "mail"} => page.shown # None
  /\ page.greeting => page.shown # None
  /\ page.stage \in {"loading", "entering", "fetching"} => page.asked \in Users

AllSound == \A t \in Tabs : Sound(tab[t])

\* The history is what TypeOK says.
PastType == [crossed : [Tabs -> BOOLEAN], again : [Tabs -> BOOLEAN]]

Inv ==
  /\ token \in Users \cup {None}
  /\ tab \in [Tabs -> TabType] /\ AllSound
  /\ put \in PutType
  /\ visits \in 0..MaxVisits
  /\ past \in PastType

\* A page that nothing is known of.
LEMMA ClosedSound == Sound(ClosedTab)
  BY NothingIsItems DEF Sound, ClosedTab, TabType, Stages, IdleStages

\* initAccount leaves a page in order that has an account.
LEMMA InitAccountSound ==
  ASSUME NEW page, Sound(page), NEW user \in Users \cup {Demo}, NEW items \in ItemsOf(user)
  PROVE  /\ Sound(InitAccount(page, user, items))
         /\ InitAccount(page, user, items).shown = user /\ user # None
  <1>1. page \in TabType
    BY DEF Sound
  <1>2. Over(items, page.items) \in ItemSets
    BY <1>1, SomeItems, OverType DEF TabType
  <1>3. InitAccount(page, user, items) \in TabType
    BY <1>1, <1>2 DEF InitAccount, TabType
  <1> QED BY <1>1, <1>3 DEF InitAccount, Sound, TabType

\* After a request the page is back where it was, or where it has an account for.
LEMMA AnsweredSound ==
  ASSUME NEW page, Sound(page), NEW stage \in Stages \ {"loading", "entering", "fetching"},
         stage \in {"app", "waiting", "mail"} => page.shown # None
  PROVE  Sound(Answered(page, stage))
  BY DEF Sound, Answered, TabType, Stages, IdleStages

\* One tab changes.
LEMMA OneTab ==
  ASSUME Inv, NEW t \in Tabs, NEW page, tab' = [tab EXCEPT ![t] = page], Sound(page)
  PROVE  tab' \in [Tabs -> TabType] /\ AllSound'
  <1>1. page \in TabType
    BY DEF Sound
  <1>2. \A u \in Tabs : tab'[u] = IF u = t THEN page ELSE tab[u]
    BY DEF Inv
  <1>3. \A u \in Tabs : Sound(tab[u])
    BY DEF Inv, AllSound
  <1> QED BY <1>1, <1>2, <1>3 DEF Inv, AllSound

\* What a change of the token leaves in the history, and a second account.
LEMMA HistoryType ==
  ASSUME Inv, NEW t \in Tabs
  PROVE  /\ Crossed(t) \in [Tabs -> BOOLEAN]
         /\ [past EXCEPT !.crossed = Crossed(t)] \in PastType
         /\ [past EXCEPT !.crossed = [Crossed(t) EXCEPT ![t] = FALSE]] \in PastType
         /\ [past EXCEPT !.crossed = [Crossed(t) EXCEPT ![t] = FALSE], !.again[t] = FALSE] \in PastType
         /\ [past EXCEPT !.crossed[t] = FALSE, !.again[t] = FALSE] \in PastType
         /\ Again(t) \in PastType
  BY DEF Inv, PastType, Crossed, Again

LEMMA VisitType == ASSUME Inv, Visit PROVE visits' \in 0..MaxVisits
  BY DEF Visit, Inv

-----------------------------------------------------------------------------
(* Every action keeps pages in order. *)

\* Opening, loading and leaving a page.
LEMMA PageNext ==
  ASSUME Inv, NEW t \in Tabs,
         \/ Open(t) \/ LoadAnswer(t) \/ LoadThrows(t) \/ LoadError(t) \/ InitGreetingPage(t)
         \/ AvatarError(t) \/ LeaveMail(t) \/ Logout(t) \/ Close(t)
  PROVE  Inv'
  <1>0. Sound(tab[t]) /\ tab[t] \in TabType
    BY DEF Inv, AllSound, Sound
  <1>c. Sound(ClosedTab)
    BY ClosedSound
  <1>1. CASE Open(t)
    <2>1. Sound([ClosedTab EXCEPT !.stage = "form"])
      BY <1>c DEF Sound, ClosedTab, TabType, Stages, IdleStages
    <2>2. token # None => Sound([ClosedTab EXCEPT !.stage = "loading", !.asked = token])
      BY <1>c DEF Inv, Sound, ClosedTab, TabType, Stages, IdleStages
    <2>3. tab' \in [Tabs -> TabType] /\ AllSound'
      BY <1>1, <2>1, <2>2, OneTab DEF Open
    <2> QED BY <1>1, <2>3, VisitType DEF Open, Inv
  <1>2. CASE LoadAnswer(t)
    <2>1. tab[t].asked \in Users
      BY <1>0, <1>2 DEF LoadAnswer, Sound
    <2>2. PICK items \in ItemsOf(tab[t].asked) :
            tab' = [tab EXCEPT ![t] = [InitAccount(tab[t], tab[t].asked, items)
                      EXCEPT !.stage = "waiting", !.asked = None, !.greeting = TRUE]]
      BY <1>2 DEF LoadAnswer
    <2> DEFINE page == InitAccount(tab[t], tab[t].asked, items)
    <2>3. Sound(page) /\ page.shown # None
      BY <1>0, <2>1, InitAccountSound
    <2>4. tab' = [tab EXCEPT ![t] = [page EXCEPT !.stage = "waiting", !.asked = None, !.greeting = TRUE]]
      BY <2>2
    <2> HIDE DEF page
    <2>5. Sound([page EXCEPT !.stage = "waiting", !.asked = None, !.greeting = TRUE])
      BY <2>3 DEF Sound, TabType, Stages, IdleStages
    <2>6. tab' \in [Tabs -> TabType] /\ AllSound'
      BY <2>4, <2>5, OneTab
    <2> QED BY <1>2, <2>6 DEF LoadAnswer, Inv
  <1>3. CASE LoadThrows(t) \/ LoadError(t)
    <2>1. PICK stage \in {"blank", "form"} : tab' = [tab EXCEPT ![t] = Answered(tab[t], stage)]
      BY <1>3 DEF LoadThrows, LoadError, Inv
    <2>2. Sound(Answered(tab[t], stage))
      BY <1>0, <2>1, AnsweredSound DEF Stages
    <2>3. tab' \in [Tabs -> TabType] /\ AllSound'
      BY <2>1, <2>2, OneTab
    <2>4. past' \in PastType
      BY <1>3, HistoryType DEF LoadThrows, LoadError, Inv
    <2> QED BY <1>3, <2>3, <2>4 DEF LoadThrows, LoadError, Inv
  <1>4. CASE InitGreetingPage(t)
    <2> DEFINE page == [tab[t] EXCEPT !.stage = "app", !.greeting = FALSE]
    <2>1. Sound(page)
      BY <1>0, <1>4 DEF InitGreetingPage, Sound, TabType, Stages, IdleStages
    <2>2. tab' = [tab EXCEPT ![t] = page]
      BY <1>4 DEF InitGreetingPage, Inv
    <2>3. tab' \in [Tabs -> TabType] /\ AllSound'
      BY <2>1, <2>2, OneTab
    <2> QED BY <1>4, <2>3 DEF InitGreetingPage, Inv
  <1>5. CASE AvatarError(t) \/ LeaveMail(t)
    <2>1. PICK greeting \in BOOLEAN :
            /\ tab' = [tab EXCEPT ![t].greeting = greeting]
            /\ greeting => tab[t].shown # None
      BY <1>0, <1>5 DEF AvatarError, LeaveMail, Sound
    <2> DEFINE page == [tab[t] EXCEPT !.greeting = greeting]
    <2>2. Sound(page)
      BY <1>0, <2>1 DEF Sound, TabType
    <2>3. tab' = [tab EXCEPT ![t] = page]
      BY <2>1 DEF Inv
    <2>4. tab' \in [Tabs -> TabType] /\ AllSound'
      BY <2>2, <2>3, OneTab
    <2> QED BY <1>5, <2>4 DEF AvatarError, LeaveMail, Inv
  <1>6. CASE Logout(t) \/ Close(t)
    <2>1. tab' \in [Tabs -> TabType] /\ AllSound'
      BY <1>6, <1>c, OneTab DEF Logout, Close
    <2>2. past' \in PastType
      BY <1>6, HistoryType DEF Logout, Close
    <2> QED BY <1>6, <2>1, <2>2 DEF Logout, Close, Inv
  <1> QED BY <1>1, <1>2, <1>3, <1>4, <1>5, <1>6

\* Asking for an account, and the answers.
LEMMA SignInNext ==
  ASSUME Inv, NEW t \in Tabs,
         \/ \E user \in Users : Login(t, user) \/ Signup(t, user)
         \/ SignupAnswer(t) \/ SignupError(t) \/ TokenAnswer(t) \/ TokenError(t)
         \/ FetchAnswer(t) \/ FetchError(t) \/ ClickDemo(t)
  PROVE  Inv'
  <1>0. Sound(tab[t]) /\ tab[t] \in TabType
    BY DEF Inv, AllSound, Sound
  <1>1. ASSUME NEW user \in Users, Login(t, user)
        PROVE  Inv'
    <2> DEFINE page == [tab[t] EXCEPT !.stage = "entering", !.asked = user, !.back = "form",
                                      !.via = "login"]
    <2>1. Sound(page)
      BY <1>0 DEF Sound, TabType, Stages, IdleStages
    <2>2. tab' = [tab EXCEPT ![t] = page]
      BY <1>1 DEF Login, Inv
    <2>3. tab' \in [Tabs -> TabType] /\ AllSound'
      BY <2>1, <2>2, OneTab
    <2>4. past' \in PastType
      BY <1>1, HistoryType DEF Login
    <2> QED BY <1>1, <2>3, <2>4, VisitType DEF Login, Inv
  <1>2. ASSUME NEW user, user \in Users \cup {None}, tab' = [tab EXCEPT ![t].posting = user],
               UNCHANGED <<token, put, past>>, visits' \in 0..MaxVisits
        PROVE  Inv'
    <2> DEFINE page == [tab[t] EXCEPT !.posting = user]
    <2>1. Sound(page)
      BY <1>0, <1>2 DEF Sound, TabType
    <2>2. tab' = [tab EXCEPT ![t] = page]
      BY <1>2 DEF Inv
    <2>3. tab' \in [Tabs -> TabType] /\ AllSound'
      BY <2>1, <2>2, OneTab
    <2> QED BY <1>2, <2>3 DEF Inv
  <1>3. CASE SignupAnswer(t)
    <2> DEFINE page == [tab[t] EXCEPT !.stage = "entering", !.asked = tab[t].posting,
                          !.posting = None, !.back = tab[t].stage, !.via = "signup"]
    <2>1. tab[t].posting \in Users
      BY <1>0, <1>3 DEF SignupAnswer, TabType
    <2>2. Sound(page)
      BY <1>0, <1>3, <2>1 DEF SignupAnswer, Idle, Sound, TabType, Stages, IdleStages
    <2>3. tab' = [tab EXCEPT ![t] = page]
      BY <1>3 DEF SignupAnswer, Inv
    <2>4. tab' \in [Tabs -> TabType] /\ AllSound'
      BY <2>2, <2>3, OneTab
    <2>5. past' \in PastType
      BY <1>3, HistoryType DEF SignupAnswer
    <2> QED BY <1>3, <2>4, <2>5 DEF SignupAnswer, Inv
  <1>4. CASE SignupError(t)
    BY <1>2, <1>4 DEF SignupError, Inv
  <1>5. CASE TokenAnswer(t)
    <2> DEFINE page == [tab[t] EXCEPT !.stage = "fetching"]
    <2>1. Sound(page) /\ tab[t].asked \in Users
      BY <1>0, <1>5 DEF TokenAnswer, Sound, TabType, Stages, IdleStages
    <2>2. tab' = [tab EXCEPT ![t] = page]
      BY <1>5 DEF TokenAnswer, Inv
    <2>3. tab' \in [Tabs -> TabType] /\ AllSound'
      BY <2>1, <2>2, OneTab
    <2>4. past' \in PastType /\ token' \in Users
      BY <1>5, <2>1, HistoryType DEF TokenAnswer
    <2> QED BY <1>5, <2>3, <2>4 DEF TokenAnswer, Inv
  <1>6. CASE TokenError(t) \/ FetchError(t)
    <2>1. tab[t].back \in Stages \ {"loading", "entering", "fetching"}
      BY <1>0 DEF TabType, Stages, IdleStages
    <2>2. Sound(Answered(tab[t], tab[t].back))
      BY <1>0, <2>1, AnsweredSound DEF Sound
    <2>3. tab' = [tab EXCEPT ![t] = Answered(tab[t], tab[t].back)]
      BY <1>6 DEF TokenError, FetchError, Inv
    <2>4. tab' \in [Tabs -> TabType] /\ AllSound'
      BY <2>2, <2>3, OneTab
    <2>5. past' \in PastType /\ token' \in Users \cup {None}
      BY <1>6, HistoryType DEF TokenError, FetchError, Inv
    <2> QED BY <1>6, <2>4, <2>5 DEF TokenError, FetchError, Inv
  <1>7. CASE FetchAnswer(t)
    <2>1. tab[t].asked \in Users
      BY <1>0, <1>7 DEF FetchAnswer, Sound
    <2> DEFINE Taken(items) == InitAccount(tab[t], tab[t].asked, items)
               After(page) == IF page.via = "login" THEN [Answered(page, "form") EXCEPT !.greeting = TRUE]
                             ELSE Answered(page, IF page.back = "app" THEN "app" ELSE "mail")
    <2>2. PICK items \in ItemsOf(tab[t].asked) : tab' = [tab EXCEPT ![t] = After(Taken(items))]
      BY <1>7 DEF FetchAnswer
    <2> DEFINE page == Taken(items)
    <2>3. Sound(page) /\ page.shown # None
      BY <1>0, <2>1, InitAccountSound
    <2>4. tab' = [tab EXCEPT ![t] = After(page)]
      BY <2>2
    <2> HIDE DEF page
    <2>5. Sound(Answered(page, "form"))
      BY <2>3, AnsweredSound DEF Stages
    <2>6. Answered(page, "form").shown # None
      BY <2>3 DEF Answered, Sound, TabType
    <2>7. Sound([Answered(page, "form") EXCEPT !.greeting = TRUE])
      BY <2>5, <2>6 DEF Sound, TabType
    <2>8. Sound(Answered(page, "app")) /\ Sound(Answered(page, "mail"))
      BY <2>3, AnsweredSound DEF Stages
    <2>9. Sound(After(page))
      BY <2>7, <2>8
    <2> HIDE DEF After
    <2>10. tab' \in [Tabs -> TabType] /\ AllSound'
      BY <2>4, <2>9, OneTab
    <2> QED BY <1>7, <2>10 DEF FetchAnswer, Inv
  <1>8. CASE ClickDemo(t)
    <2> DEFINE page == [tab[t] EXCEPT !.savePermit = FALSE]
    <2>1. Sound(page)
      BY <1>0 DEF Sound, TabType
    <2>2. \/ \E items \in ItemsOf(Demo) :
               tab' = [tab EXCEPT ![t] = [InitAccount(page, Demo, items) EXCEPT !.greeting = TRUE]]
          \/ tab' = [tab EXCEPT ![t] = page]
      BY <1>8 DEF ClickDemo
    <2> HIDE DEF page
    <2>3. ASSUME NEW items \in ItemsOf(Demo)
          PROVE  Sound([InitAccount(page, Demo, items) EXCEPT !.greeting = TRUE])
      <3> DEFINE next == InitAccount(page, Demo, items)
      <3>1. Sound(next) /\ next.shown # None
        BY <2>1, InitAccountSound
      <3> HIDE DEF next
      <3>2. Sound([next EXCEPT !.greeting = TRUE])
        BY <3>1 DEF Sound, TabType
      <3> QED BY <3>2 DEF next
    <2>4. tab' \in [Tabs -> TabType] /\ AllSound'
      BY <2>1, <2>2, <2>3, OneTab
    <2>5. past' \in PastType
      BY <1>8, HistoryType DEF ClickDemo
    <2> QED BY <1>8, <2>4, <2>5, VisitType DEF ClickDemo, Inv
  <1>9. ASSUME NEW user \in Users, Signup(t, user)
        PROVE  Inv'
    BY <1>2, <1>9, VisitType DEF Signup
  <1> QED BY <1>1, <1>3, <1>4, <1>5, <1>6, <1>7, <1>8, <1>9

\* Changing items and saving them.
LEMMA SavingNext ==
  ASSUME Inv, NEW t \in Tabs, Save(t) \/ \E key \in Slots : ChangeItem(t, key)
  PROVE  Inv'
  <1>0. Sound(tab[t]) /\ tab[t] \in TabType /\ tab[t].stage = "app" /\ tab[t].shown # None
    BY DEF Inv, AllSound, Sound, Save, ChangeItem
  \* jsonDataSave of a page in order.
  <1>s. ASSUME NEW page \in TabType, JsonDataSave(t, page)
        PROVE  put' \in PutType
    <2>1. CASE page.savePermit
      <3>1. past.crossed[t] \in BOOLEAN /\ past.again[t] \in BOOLEAN
        BY DEF Inv, PastType
      <3>2. put' = [sent |-> TRUE, user |-> token, items |-> page.items, shown |-> page.shown,
                    crossed |-> past.crossed[t], again |-> past.again[t]]
        BY <1>s, <2>1 DEF JsonDataSave
      <3>3. token \in Users \cup {None} /\ page.items \in ItemSets
            /\ page.shown \in Users \cup {Demo, None}
        BY <1>s DEF Inv, TabType
      <3> QED BY <3>1, <3>2, <3>3, Zenon DEF PutType
    <2>2. CASE ~page.savePermit
      BY <1>s, <2>2 DEF JsonDataSave, Inv
    <2> QED BY <2>1, <2>2
  <1>1. CASE Save(t)
    BY <1>0, <1>1, <1>s DEF Save, Inv, AllSound
  <1>2. ASSUME NEW key \in Slots, ChangeItem(t, key)
        PROVE  Inv'
    <2> DEFINE items == Over([k \in {key} |-> tab[t].shown], tab[t].items)
               page == [tab[t] EXCEPT !.items = items]
    <2>1. items \in ItemSets
      BY <1>0, SomeItems, OverType DEF TabType
    <2>2. tab' = [tab EXCEPT ![t] = page] /\ (JsonDataSave(t, page) \/ put' = put)
      BY <1>2 DEF ChangeItem
    <2> HIDE DEF items
    <2>3. Sound(page) /\ page \in TabType
      BY <1>0, <2>1 DEF Sound, TabType
    <2> HIDE DEF page
    <2>4. tab' \in [Tabs -> TabType] /\ AllSound'
      BY <2>2, <2>3, OneTab
    <2>5. put' \in PutType
      BY <1>s, <2>2, <2>3 DEF Inv
    <2> QED BY <1>2, <2>4, <2>5 DEF ChangeItem, Inv
  <1> QED BY <1>1, <1>2

\* Init is in order, and every step keeps it.
LEMMA InvInit == Init => Inv
  <1> SUFFICES ASSUME Init PROVE Inv
    OBVIOUS
  <1>1. tab \in [Tabs -> TabType] /\ AllSound
    BY ClosedSound DEF Init, AllSound, Sound
  <1>2. put \in PutType /\ past \in PastType
    BY NothingIsItems DEF Init, NoPut, PutType, PastType
  <1> QED BY <1>1, <1>2 DEF Init, Inv

LEMMA InvNext == Inv /\ [Next]_vars => Inv'
  <1> SUFFICES ASSUME Inv, [Next]_vars PROVE Inv'
    OBVIOUS
  <1>1. CASE UNCHANGED vars
    BY <1>1 DEF vars, Inv, AllSound
  <1>2. CASE Next
    BY <1>2, PageNext, SignInNext, SavingNext DEF Next
  <1> QED BY <1>1, <1>2

LEMMA InvType == Inv => TypeOK
  BY DEF Inv, TypeOK, AllSound, Sound, PastType

\* Every variable keeps its values, and a page that is open shows an account,
\* for every number of tabs, users and items.
THEOREM SessionTypeCorrect == Spec => []TypeOK
  BY InvInit, InvNext, InvType, PTL DEF Spec

-----------------------------------------------------------------------------
(* Whose items are where. *)

NoDemo(items) == \A key \in DOMAIN items : items[key] # Demo
By(items, user) == \A key \in DOMAIN items : items[key] = user

\* What a page holds, with the token and its part of the history: a page that may
\* save shows no demo; one that never asked twice holds the items of the account
\* it shows, and if no other tab changed the token, the token is that account's.
Clean(page, tok, crossed, again) ==
  /\ page.savePermit => page.shown # Demo /\ NoDemo(page.items)
  /\ page.stage = "closed" => page.shown = None
  /\ page.stage \in {"loading", "fetching"} /\ ~crossed => tok = page.asked
  /\ page.stage \in {"loading", "entering", "fetching"} /\ ~again => page.shown = None
  /\ ~again /\ page.shown = None => DOMAIN page.items = {}
  /\ ~again => By(page.items, page.shown)
  /\ ~again /\ ~crossed /\ page.savePermit /\ page.shown # None => tok = page.shown

AllClean == \A t \in Tabs : Clean(tab[t], token, past.crossed[t], past.again[t])

Whose == NoDemo(put.items) /\ AccountsStayApart /\ AllClean

\* Items of one owner, put over items of one owner, are of one owner.
LEMMA OverOwners ==
  ASSUME NEW f, NEW g
  PROVE  /\ NoDemo(f) /\ NoDemo(g) => NoDemo(Over(f, g))
         /\ \A u : By(f, u) /\ By(g, u) => By(Over(f, g), u)
  BY OverParts DEF NoDemo, By

LEMMA AnswersBy ==
  ASSUME NEW user, NEW items \in ItemsOf(user)
  PROVE  By(items, user) /\ (user # Demo => NoDemo(items))
  BY DEF ItemsOf, By, NoDemo

LEMMA ClosedClean ==
  ASSUME NEW tok, NEW crossed \in BOOLEAN, NEW again \in BOOLEAN
  PROVE  Clean(ClosedTab, tok, crossed, again)
  <1>1. ClosedTab.stage = "closed" /\ ClosedTab.shown = None /\ DOMAIN ClosedTab.items = {}
    BY NothingIsItems DEF ClosedTab
  <1>2. NoDemo(ClosedTab.items) /\ \A u : By(ClosedTab.items, u)
    BY <1>1 DEF NoDemo, By
  <1> QED BY <1>1, <1>2 DEF Clean

\* An account is taken into a page that asked for it.
LEMMA TakeAccount ==
  ASSUME NEW page \in TabType, NEW crossed \in BOOLEAN, NEW again \in BOOLEAN,
         NEW user \in Users, user = page.asked, NEW items \in ItemsOf(user),
         Clean(page, token, crossed, again), page.stage \in {"loading", "fetching"},
         NEW next, next.shown = user, next.savePermit = page.savePermit,
         next.items = Over(items, page.items),
         next.stage \in {"form", "app", "mail", "waiting"}
  PROVE  Clean(next, token, crossed, again)
  <1>1. By(items, user) /\ NoDemo(items)
    BY AnswersBy
  <1>2. next.savePermit => next.shown # Demo /\ NoDemo(next.items)
    <2>1. page.savePermit => NoDemo(page.items)
      BY DEF Clean
    <2>2. NoDemo(page.items) => NoDemo(next.items)
      BY <1>1, OverOwners
    <2>3. next.shown # Demo
      OBVIOUS
    <2> QED BY <2>1, <2>2, <2>3
  <1>3. ~again => DOMAIN page.items = {}
    BY DEF Clean
  <1>4. ~again => By(page.items, user)
    BY <1>3 DEF By
  <1>5. ~again => By(next.items, user)
    BY <1>1, <1>4, OverOwners
  <1>6. ~crossed => token = user
    BY DEF Clean
  <1>7. next.shown # None /\ next.stage \notin {"closed", "loading", "entering", "fetching"}
    OBVIOUS
  <1> QED BY <1>2, <1>5, <1>6, <1>7 DEF Clean

\* The other tabs, if the token stays.
LEMMA OthersKept ==
  ASSUME Inv, AllClean, NEW t \in Tabs, NEW u \in Tabs \ {t},
         tab'[u] = tab[u], token' = token, past'.crossed[u] = past.crossed[u],
         past'.again[u] = past.again[u]
  PROVE  Clean(tab[u], token, past.crossed[u], past.again[u])'
  BY DEF AllClean, Clean

\* The other tabs, if the token changes: those with a page are crossed.
LEMMA OthersCrossed ==
  ASSUME Inv, AllClean, NEW t \in Tabs, NEW u \in Tabs \ {t},
         tab'[u] = tab[u], past'.crossed[u] = Crossed(t)[u], past'.again[u] = past.again[u]
  PROVE  Clean(tab[u], token, past.crossed[u], past.again[u])'
  <1>1. tab[u].stage = "closed" \/ past'.crossed[u]
    BY DEF Crossed
  <1>2. Clean(tab[u], token, past.crossed[u], past.again[u])
    BY DEF AllClean
  <1> QED BY <1>1, <1>2 DEF Clean

-----------------------------------------------------------------------------
(* Every action keeps items where they belong. *)

\* A step of tab t leaves every page clean, if it leaves that of t so, and the
\* token to the other tabs or crosses them.
LEMMA PageStep ==
  ASSUME Inv, AllClean, NEW t \in Tabs, NEW page, tab' = [tab EXCEPT ![t] = page],
         Clean(page, token', past'.crossed[t], past'.again[t]),
         \A u \in Tabs \ {t} :
            /\ past'.again[u] = past.again[u]
            /\ \/ token' = token /\ past'.crossed[u] = past.crossed[u]
               \/ past'.crossed[u] = Crossed(t)[u]
  PROVE  AllClean'
  <1>1. \A u \in Tabs : tab'[u] = IF u = t THEN page ELSE tab[u]
    BY DEF Inv
  <1>2. ASSUME NEW u \in Tabs
        PROVE  Clean(tab[u], token, past.crossed[u], past.again[u])'
    <2>1. CASE u = t
      BY <1>1, <2>1
    <2>2. CASE u # t
      BY <1>1, <2>2, OthersKept, OthersCrossed
    <2> QED BY <2>1, <2>2
  <1> QED BY <1>2 DEF AllClean

\* The record of history after its assignments.
LEMMA PastAfter ==
  ASSUME Inv, NEW t \in Tabs
  PROVE  /\ \A u \in Tabs : Crossed(t)[u] \in BOOLEAN /\ past.crossed[u] \in BOOLEAN
                            /\ past.again[u] \in BOOLEAN
         /\ LET h == [past EXCEPT !.crossed = Crossed(t)]
            IN  h.again = past.again /\ h.crossed = Crossed(t)
         /\ LET h == [past EXCEPT !.crossed = [Crossed(t) EXCEPT ![t] = FALSE]]
            IN  h.again = past.again /\ h.crossed = [Crossed(t) EXCEPT ![t] = FALSE]
         /\ LET h == [past EXCEPT !.crossed = [Crossed(t) EXCEPT ![t] = FALSE], !.again[t] = FALSE]
            IN  h.again = [past.again EXCEPT ![t] = FALSE]
                /\ h.crossed = [Crossed(t) EXCEPT ![t] = FALSE]
         /\ LET h == [past EXCEPT !.crossed[t] = FALSE, !.again[t] = FALSE]
            IN  h.again = [past.again EXCEPT ![t] = FALSE]
                /\ h.crossed = [past.crossed EXCEPT ![t] = FALSE]
         /\ Again(t).crossed = past.crossed
         /\ Again(t).again = [past.again EXCEPT ![t] = @ \/ tab[t].shown # None]
  BY DEF Inv, PastType, Crossed, Again

\* Opening, loading and leaving a page.
LEMMA PageWhose ==
  ASSUME Inv, AllClean, NEW t \in Tabs,
         \/ Open(t) \/ LoadAnswer(t) \/ LoadThrows(t) \/ LoadError(t) \/ InitGreetingPage(t)
         \/ AvatarError(t) \/ LeaveMail(t) \/ Logout(t) \/ Close(t)
  PROVE  AllClean'
  <1>0. /\ tab[t] \in TabType /\ Sound(tab[t]) /\ past \in PastType
        /\ Clean(tab[t], token, past.crossed[t], past.again[t])
        /\ past.crossed[t] \in BOOLEAN /\ past.again[t] \in BOOLEAN
    BY DEF Inv, AllClean, PastType, AllSound
  <1>1. CASE Open(t)
    <2>1. \/ tab' = [tab EXCEPT ![t] = [ClosedTab EXCEPT !.stage = "form"]]
          \/ tab' = [tab EXCEPT ![t] = [ClosedTab EXCEPT !.stage = "loading", !.asked = token]]
      BY <1>1 DEF Open
    <2>2. Clean(ClosedTab, token, past.crossed[t], past.again[t])
      BY <1>0, ClosedClean
    <2>3. /\ Clean([ClosedTab EXCEPT !.stage = "form"], token, past.crossed[t], past.again[t])
          /\ Clean([ClosedTab EXCEPT !.stage = "loading", !.asked = token], token,
                   past.crossed[t], past.again[t])
      BY <2>2 DEF Clean, ClosedTab
    <2> QED BY <1>0, <1>1, <2>1, <2>3, PageStep DEF Open
  <1>2. CASE LoadAnswer(t)
    <2>1. tab[t].asked \in Users
      BY <1>0, <1>2 DEF LoadAnswer, Sound
    <2> DEFINE After(items) == [InitAccount(tab[t], tab[t].asked, items)
                                 EXCEPT !.stage = "waiting", !.asked = None, !.greeting = TRUE]
    <2>2. PICK items \in ItemsOf(tab[t].asked) : tab' = [tab EXCEPT ![t] = After(items)]
      BY <1>2 DEF LoadAnswer
    <2> DEFINE next == After(items)
    <2>3. /\ next.shown = tab[t].asked /\ next.savePermit = tab[t].savePermit
          /\ next.items = Over(items, tab[t].items) /\ next.stage = "waiting"
      BY <1>0 DEF InitAccount, TabType
    <2>4. tab' = [tab EXCEPT ![t] = next]
      BY <2>2
    <2> HIDE DEF next, After
    <2>5. Clean(next, token, past.crossed[t], past.again[t])
      BY <1>0, <1>2, <2>1, <2>3, TakeAccount DEF LoadAnswer
    <2> QED BY <1>0, <1>2, <2>4, <2>5, PageStep DEF LoadAnswer
  <1>3. CASE LoadThrows(t)
    <2> DEFINE page == Answered(tab[t], "blank")
    <2>1. tab' = [tab EXCEPT ![t] = page]
      BY <1>3 DEF LoadThrows, Inv
    <2>2. Clean(page, token, past.crossed[t], past.again[t])
      BY <1>0, <1>3 DEF LoadThrows, Clean, Answered, TabType
    <2> HIDE DEF page
    <2> QED BY <1>0, <1>3, <2>1, <2>2, PageStep DEF LoadThrows
  <1>4. CASE LoadError(t)
    <2> DEFINE page == Answered(tab[t], "form")
    <2>1. tab' = [tab EXCEPT ![t] = page]
      BY <1>4 DEF LoadError, Inv
    <2>2. Clean(page, token', Crossed(t)[t], past.again[t])
      BY <1>0, <1>4 DEF LoadError, Clean, Answered, TabType
    <2> HIDE DEF page
    <2> QED BY <1>0, <1>4, <2>1, <2>2, PastAfter, PageStep DEF LoadError
  <1>5. CASE InitGreetingPage(t)
    <2> DEFINE page == [tab[t] EXCEPT !.stage = "app", !.greeting = FALSE]
    <2>1. tab' = [tab EXCEPT ![t] = page]
      BY <1>5 DEF InitGreetingPage, Inv
    <2>2. Clean(page, token, past.crossed[t], past.again[t])
      BY <1>0, <1>5 DEF InitGreetingPage, Clean, TabType
    <2> HIDE DEF page
    <2> QED BY <1>0, <1>5, <2>1, <2>2, PageStep DEF InitGreetingPage
  <1>6. CASE AvatarError(t) \/ LeaveMail(t)
    <2>1. PICK greeting \in BOOLEAN : tab' = [tab EXCEPT ![t] = [@ EXCEPT !.greeting = greeting]]
      BY <1>6 DEF AvatarError, LeaveMail
    <2> DEFINE page == [tab[t] EXCEPT !.greeting = greeting]
    <2>2. Clean(page, token, past.crossed[t], past.again[t])
      BY <1>0 DEF Clean, TabType
    <2>3. tab' = [tab EXCEPT ![t] = page]
      BY <2>1 DEF Inv
    <2> HIDE DEF page
    <2> QED BY <1>0, <1>6, <2>2, <2>3, PageStep DEF AvatarError, LeaveMail
  <1>7. CASE Logout(t)
    <2>1. Clean(ClosedTab, token', FALSE, FALSE)
      BY ClosedClean
    <2>2. /\ past'.crossed = [Crossed(t) EXCEPT ![t] = FALSE]
          /\ past'.again = [past.again EXCEPT ![t] = FALSE]
      BY <1>7, PastAfter DEF Logout
    <2>3. /\ past'.crossed[t] = FALSE /\ past'.again[t] = FALSE
          /\ \A u \in Tabs \ {t} : past'.again[u] = past.again[u] /\ past'.crossed[u] = Crossed(t)[u]
      <3>1. Crossed(t) \in [Tabs -> BOOLEAN]
        BY HistoryType
      <3>2. past.again \in [Tabs -> BOOLEAN]
        BY <1>0 DEF PastType
      <3> QED BY <2>2, <3>1, <3>2
    <2>4. tab' = [tab EXCEPT ![t] = ClosedTab]
      BY <1>7 DEF Logout
    <2> QED BY <1>0, <2>1, <2>3, <2>4, PageStep
  <1>8. CASE Close(t)
    <2>1. Clean(ClosedTab, token', FALSE, FALSE)
      BY ClosedClean
    <2> QED BY <1>0, <1>8, <2>1, PastAfter, PageStep DEF Close, PastType
  <1> QED BY <1>1, <1>2, <1>3, <1>4, <1>5, <1>6, <1>7, <1>8

\* Asking for an account, and the answers.
LEMMA SignInWhose ==
  ASSUME Inv, AllClean, NEW t \in Tabs,
         \/ \E user \in Users : Login(t, user) \/ Signup(t, user)
         \/ SignupAnswer(t) \/ SignupError(t) \/ TokenAnswer(t) \/ TokenError(t)
         \/ FetchAnswer(t) \/ FetchError(t) \/ ClickDemo(t)
  PROVE  AllClean'
  <1>0. /\ tab[t] \in TabType /\ Sound(tab[t]) /\ past \in PastType
        /\ Clean(tab[t], token, past.crossed[t], past.again[t])
        /\ past.crossed[t] \in BOOLEAN /\ past.again[t] \in BOOLEAN
    BY DEF Inv, AllClean, PastType, AllSound
  \* A second account is asked for: the others are as they were.
  <1>a. ASSUME past' = Again(t)
        PROVE  /\ \A u \in Tabs : past'.crossed[u] = past.crossed[u]
               /\ \A u \in Tabs \ {t} : past'.again[u] = past.again[u]
               /\ past'.again[t] = (past.again[t] \/ tab[t].shown # None)
    <2>1. past.again \in [Tabs -> BOOLEAN]
      BY <1>0 DEF PastType
    <2> QED BY <1>a, <2>1, PastAfter
  <1>1. ASSUME NEW user \in Users, Login(t, user)
        PROVE  AllClean'
    <2> DEFINE page == [tab[t] EXCEPT !.stage = "entering", !.asked = user, !.back = "form",
                                      !.via = "login"]
    <2>1. tab' = [tab EXCEPT ![t] = page]
      BY <1>1 DEF Login, Inv
    <2>2. Clean(page, token, past.crossed[t], past.again[t] \/ tab[t].shown # None)
      BY <1>0 DEF Clean, TabType
    <2> HIDE DEF page
    <2>3. past' = Again(t) /\ token' = token
      BY <1>1 DEF Login
    <2> QED BY <1>0, <1>a, <2>1, <2>2, <2>3, PageStep
  <1>2. ASSUME NEW user, tab' = [tab EXCEPT ![t].posting = user], UNCHANGED <<token, past>>
        PROVE  AllClean'
    <2> DEFINE page == [tab[t] EXCEPT !.posting = user]
    <2>1. tab' = [tab EXCEPT ![t] = page]
      BY <1>2 DEF Inv
    <2>2. Clean(page, token, past.crossed[t], past.again[t])
      BY <1>0 DEF Clean, TabType
    <2> HIDE DEF page
    <2> QED BY <1>0, <1>2, <2>1, <2>2, PageStep
  <1>3. CASE SignupAnswer(t)
    <2> DEFINE page == [tab[t] EXCEPT !.stage = "entering", !.asked = tab[t].posting,
                          !.posting = None, !.back = tab[t].stage, !.via = "signup"]
    <2>1. tab' = [tab EXCEPT ![t] = page]
      BY <1>3 DEF SignupAnswer, Inv
    <2>2. Clean(page, token, past.crossed[t], past.again[t] \/ tab[t].shown # None)
      BY <1>0 DEF Clean, TabType
    <2> HIDE DEF page
    <2>3. past' = Again(t) /\ token' = token
      BY <1>3 DEF SignupAnswer
    <2> QED BY <1>0, <1>a, <2>1, <2>2, <2>3, PageStep
  <1>4. CASE SignupError(t)
    BY <1>2, <1>4 DEF SignupError
  <1>5. CASE TokenAnswer(t)
    <2> DEFINE page == [tab[t] EXCEPT !.stage = "fetching"]
    <2>1. tab' = [tab EXCEPT ![t] = page]
      BY <1>5 DEF TokenAnswer, Inv
    <2>2. Clean(page, tab[t].asked, FALSE, past.again[t])
      BY <1>0, <1>5 DEF TokenAnswer, Clean, TabType
    <2> HIDE DEF page
    <2>3. /\ token' = tab[t].asked /\ past'.crossed = [Crossed(t) EXCEPT ![t] = FALSE]
          /\ past'.again = past.again
      BY <1>5, PastAfter DEF TokenAnswer
    <2>4. past'.crossed[t] = FALSE /\ \A u \in Tabs \ {t} : past'.crossed[u] = Crossed(t)[u]
      BY <2>3, HistoryType
    <2> QED BY <1>0, <2>1, <2>2, <2>3, <2>4, PageStep
  <1>6. CASE TokenError(t) \/ FetchError(t)
    <2> DEFINE page == Answered(tab[t], tab[t].back)
    <2>1. tab' = [tab EXCEPT ![t] = page]
      BY <1>6 DEF TokenError, FetchError, Inv
    <2>2. /\ past'.again = past.again
          /\ \/ token' = None /\ past'.crossed = Crossed(t)
             \/ token' = token /\ past'.crossed = past.crossed
      BY <1>6, PastAfter DEF TokenError, FetchError
    <2>3. tab[t].stage \in {"entering", "fetching"} /\ tab[t].back \in IdleStages
      BY <1>0, <1>6 DEF TokenError, FetchError, TabType
    <2>4. /\ Clean(page, None, Crossed(t)[t], past.again[t])
          /\ Clean(page, token, past.crossed[t], past.again[t])
      BY <1>0, <2>3, PastAfter DEF Clean, Answered, TabType, IdleStages
    <2> HIDE DEF page
    <2> QED BY <1>0, <2>1, <2>2, <2>4, PageStep
  <1>7. CASE FetchAnswer(t)
    <2>1. tab[t].asked \in Users
      BY <1>0, <1>7 DEF FetchAnswer, Sound
    <2> DEFINE Taken(items) == InitAccount(tab[t], tab[t].asked, items)
               After(page) == IF page.via = "login" THEN [Answered(page, "form") EXCEPT !.greeting = TRUE]
                             ELSE Answered(page, IF page.back = "app" THEN "app" ELSE "mail")
    <2>2. PICK items \in ItemsOf(tab[t].asked) : tab' = [tab EXCEPT ![t] = After(Taken(items))]
      BY <1>7 DEF FetchAnswer
    <2> DEFINE page == Taken(items)
               next == After(page)
    <2>3. /\ page.shown = tab[t].asked /\ page.savePermit = tab[t].savePermit
          /\ page.items = Over(items, tab[t].items)
          /\ page = [tab[t] EXCEPT !.shown = page.shown, !.items = page.items]
      BY <1>0 DEF InitAccount, TabType
    <2>4. /\ next.shown = page.shown /\ next.savePermit = page.savePermit
          /\ next.items = page.items /\ next.stage \in {"form", "app", "mail"}
      BY <1>0, <2>3 DEF Answered, TabType
    <2>5. tab' = [tab EXCEPT ![t] = next]
      BY <2>2
    <2> HIDE DEF next, page, After, Taken
    <2>s. /\ tab[t].stage \in {"loading", "fetching"} /\ next.shown = tab[t].asked
          /\ next.savePermit = tab[t].savePermit /\ next.items = Over(items, tab[t].items)
          /\ next.stage \in {"form", "app", "mail", "waiting"}
      BY <1>7, <2>3, <2>4 DEF FetchAnswer
    <2>6. Clean(next, token, past.crossed[t], past.again[t])
      BY <1>0, <2>1, <2>2, <2>s, TakeAccount
    <2> QED BY <1>0, <1>7, <2>5, <2>6, PageStep DEF FetchAnswer
  <1>8. CASE ClickDemo(t)
    <2>1. PICK page :
            /\ tab' = [tab EXCEPT ![t] = page] /\ page.savePermit = FALSE /\ page.stage = "form"
            /\ \/ page.shown = Demo /\ \E items \in ItemsOf(Demo) : page.items = Over(items, tab[t].items)
               \/ page.shown = tab[t].shown /\ page.items = tab[t].items
      <3> DEFINE plain == [tab[t] EXCEPT !.savePermit = FALSE]
                 Demoed(items) == [InitAccount(plain, Demo, items) EXCEPT !.greeting = TRUE]
      <3>1. CASE \E items \in ItemsOf(Demo) : tab' = [tab EXCEPT ![t] = Demoed(items)]
        <4>1. PICK items \in ItemsOf(Demo) : tab' = [tab EXCEPT ![t] = Demoed(items)]
          BY <3>1
        <4>2. /\ Demoed(items).savePermit = FALSE /\ Demoed(items).stage = "form"
              /\ Demoed(items).shown = Demo /\ Demoed(items).items = Over(items, tab[t].items)
          BY <1>0, <1>8 DEF ClickDemo, InitAccount, TabType
        <4> QED BY <4>1, <4>2
      <3>2. CASE tab' = [tab EXCEPT ![t] = plain]
        <4>1. /\ plain.savePermit = FALSE /\ plain.stage = "form"
              /\ plain.shown = tab[t].shown /\ plain.items = tab[t].items
          BY <1>0, <1>8 DEF ClickDemo, TabType
        <4> QED BY <3>2, <4>1
      <3> QED BY <1>8, <3>1, <3>2 DEF ClickDemo
    <2>2. past' = Again(t) /\ token' = token
      BY <1>8 DEF ClickDemo
    <2>3. Clean(page, token, past.crossed[t], past.again[t] \/ tab[t].shown # None)
      <3>1. ~past.again[t] /\ tab[t].shown = None => DOMAIN tab[t].items = {}
        BY <1>0 DEF Clean
      <3>2. DOMAIN tab[t].items = {} => \A u : By(tab[t].items, u)
        BY DEF By
      <3>3. ~past.again[t] /\ tab[t].shown = None => By(page.items, page.shown)
        BY <2>1, <3>1, <3>2, AnswersBy, OverOwners
      <3>4. ~past.again[t] /\ tab[t].shown = None /\ page.shown = None => DOMAIN page.items = {}
        BY <2>1, <3>1
      <3> QED BY <2>1, <3>3, <3>4 DEF Clean
    <2> QED BY <1>0, <1>a, <2>1, <2>2, <2>3, PageStep
  <1>9. ASSUME NEW user \in Users, Signup(t, user)
        PROVE  AllClean'
    BY <1>2, <1>9 DEF Signup
  <1> QED BY <1>1, <1>3, <1>4, <1>5, <1>6, <1>7, <1>8, <1>9

\* jsonDataSave of a page that is open: "page" is the tab with its items changed.
LEMMA SaveWhose ==
  ASSUME Inv, Whose, NEW t \in Tabs, NEW page \in TabType,
         Clean(page, token, past.crossed[t], past.again[t]),
         page.shown # None, JsonDataSave(t, page)
  PROVE  NoDemo(put'.items) /\ AccountsStayApart'
  <1>0. past.crossed[t] \in BOOLEAN /\ past.again[t] \in BOOLEAN
    BY DEF Inv, PastType
  <1>1. CASE ~page.savePermit
    BY <1>1 DEF JsonDataSave, Whose, AccountsStayApart
  <1>2. CASE page.savePermit
    <2>1. /\ put'.user = token /\ put'.items = page.items /\ put'.shown = page.shown
          /\ put'.crossed = past.crossed[t] /\ put'.again = past.again[t]
      BY <1>2 DEF JsonDataSave
    <2>2. /\ NoDemo(page.items)
          /\ ~past.again[t] => By(page.items, page.shown)
          /\ ~past.again[t] /\ ~past.crossed[t] => token = page.shown
      BY <1>2 DEF Clean
    <2> QED BY <1>0, <2>1, <2>2 DEF By, AccountsStayApart
  <1> QED BY <1>1, <1>2 DEF TabType

\* Changing items and saving them.
LEMMA SavingWhose ==
  ASSUME Inv, Whose, NEW t \in Tabs, Save(t) \/ \E key \in Slots : ChangeItem(t, key)
  PROVE  Whose'
  <1>0. /\ tab \in [Tabs -> TabType] /\ tab[t] \in TabType /\ AllClean
        /\ tab[t].shown # None /\ tab[t].stage = "app"
        /\ Clean(tab[t], token, past.crossed[t], past.again[t])
    BY DEF Inv, Whose, AllClean, AllSound, Sound, Save, ChangeItem
  <1>1. CASE Save(t)
    <2>1. NoDemo(put'.items) /\ AccountsStayApart'
      BY <1>0, <1>1, SaveWhose DEF Save
    <2>2. AllClean'
      BY <1>0, <1>1 DEF Save, AllClean
    <2> QED BY <2>1, <2>2 DEF Whose
  <1>2. ASSUME NEW key \in Slots, ChangeItem(t, key)
        PROVE  Whose'
    <2> DEFINE one == [k \in {key} |-> tab[t].shown]
               page == [tab[t] EXCEPT !.items = Over(one, @)]
    <2>1. tab' = [tab EXCEPT ![t] = page] /\ (JsonDataSave(t, page) \/ put' = put)
          /\ UNCHANGED <<token, past>>
      BY <1>2 DEF ChangeItem
    <2>2. Over(one, tab[t].items) \in ItemSets
      BY <1>0, SomeItems, OverType DEF TabType
    <2>3. By(one, tab[t].shown) /\ (tab[t].shown # Demo => NoDemo(one))
      BY DEF By, NoDemo
    <2> HIDE DEF one
    <2>4. page \in TabType
      BY <1>0, <2>2 DEF TabType
    <2>5. /\ page.shown = tab[t].shown /\ page.stage = "app"
          /\ page.savePermit = tab[t].savePermit /\ page.asked = tab[t].asked
          /\ page.items = Over(one, tab[t].items)
      BY <1>0 DEF TabType
    <2> HIDE DEF page
    <2>6. Clean(page, token, past.crossed[t], past.again[t])
      <3>1. page.savePermit => page.shown # Demo /\ NoDemo(page.items)
        BY <1>0, <2>3, <2>5, OverOwners DEF Clean
      <3>2. ~past.again[t] => By(page.items, page.shown)
        BY <1>0, <2>3, <2>5, OverOwners DEF Clean
      <3> QED BY <1>0, <2>5, <3>1, <3>2 DEF Clean
    <2>7. AllClean'
      BY <1>0, <2>1, <2>6, PageStep
    <2>8. CASE JsonDataSave(t, page)
      BY <1>0, <2>4, <2>5, <2>6, <2>7, <2>8, SaveWhose DEF Whose
    <2>9. CASE put' = put
      BY <2>7, <2>9 DEF Whose, AccountsStayApart
    <2> QED BY <2>1, <2>8, <2>9
  <1> QED BY <1>1, <1>2

LEMMA WhoseInit == Init => Whose
  <1> SUFFICES ASSUME Init PROVE Whose
    OBVIOUS
  <1>1. AllClean
    BY ClosedClean DEF Init, AllClean
  <1>2. NoDemo(put.items) /\ AccountsStayApart
    BY NothingIsItems DEF Init, NoPut, NoDemo, AccountsStayApart
  <1> QED BY <1>1, <1>2 DEF Whose

LEMMA WhoseNext == Inv /\ Whose /\ [Next]_vars => Whose'
  <1> SUFFICES ASSUME Inv, Whose, [Next]_vars PROVE Whose'
    OBVIOUS
  <1>1. CASE UNCHANGED vars
    BY <1>1 DEF vars, Whose, AllClean, AccountsStayApart
  <1>2. ASSUME put' = put, AllClean'
        PROVE  Whose'
    BY <1>2 DEF Whose, AccountsStayApart
  <1>3. ASSUME NEW t \in Tabs,
               \/ Open(t) \/ LoadAnswer(t) \/ LoadThrows(t) \/ LoadError(t) \/ InitGreetingPage(t)
               \/ AvatarError(t) \/ LeaveMail(t) \/ Logout(t) \/ Close(t)
        PROVE  Whose'
    <2>1. put' = put
      BY <1>3 DEF Open, LoadAnswer, LoadThrows, LoadError, InitGreetingPage, AvatarError, LeaveMail,
                  Logout, Close
    <2> QED BY <1>2, <1>3, <2>1, PageWhose DEF Whose
  <1>4. ASSUME NEW t \in Tabs,
               \/ \E user \in Users : Login(t, user) \/ Signup(t, user)
               \/ SignupAnswer(t) \/ SignupError(t) \/ TokenAnswer(t) \/ TokenError(t)
               \/ FetchAnswer(t) \/ FetchError(t) \/ ClickDemo(t)
        PROVE  Whose'
    <2>1. put' = put
      BY <1>4 DEF Login, Signup, SignupAnswer, SignupError, TokenAnswer, TokenError, FetchAnswer,
                  FetchError, ClickDemo
    <2> QED BY <1>2, <1>4, <2>1, SignInWhose DEF Whose
  <1>5. CASE Next
    BY <1>3, <1>4, <1>5, SavingWhose DEF Next
  <1> QED BY <1>1, <1>5

LEMMA WhoseAlways == Spec => [](Inv /\ Whose)
  BY InvInit, InvNext, WhoseInit, WhoseNext, PTL DEF Spec

-----------------------------------------------------------------------------
(* Theorems. *)

\* No PUT of any page has an item of the demo, whatever account is taken into the
\* page before or after it, and whatever token other tabs put in place.
THEOREM DemoStaysLocal == Spec => []DemoNeverSaved
  <1>1. Whose => DemoNeverSaved
    BY DEF Whose, NoDemo, DemoNeverSaved
  <1> QED BY <1>1, WhoseAlways, PTL

\* A PUT carries the token of the account its page shows, unless another tab
\* signed in or out since or the page asked for a second account, and items of
\* that account alone, unless the page did.
THEOREM SavesStayApart == Spec => []AccountsStayApart
  <1>1. Whose => AccountsStayApart
    BY DEF Whose
  <1> QED BY <1>1, WhoseAlways, PTL

=============================================================================
