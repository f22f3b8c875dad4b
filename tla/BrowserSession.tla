--------------------------- MODULE BrowserSession ---------------------------
(***************************************************************************)
(* Sessions of the browser client: signing in, up and out, the demo, and   *)
(* the PUTs that save the account (launch.js, login.js, main.js).          *)
(*                                                                         *)
(* A user has several tabs.  They share the token in localStorage; the     *)
(* account a tab shows, and its permission to save, are the tab's own and  *)
(* live until it is reloaded.  A request with async: false blocks its tab, *)
(* and no other.                                                           *)
(*                                                                         *)
(* The module is about what the client sends, whoever is served by it: any *)
(* answer may come to any request.  No answer to a PUT changes anything    *)
(* here (main.js:888-896), so that the latest PUT sent is all there is to  *)
(* know of them.                                                           *)
(***************************************************************************)
EXTENDS Integers

CONSTANTS
  Tabs,         \* tabs of the browser
  Users,        \* names of users
  Demo,         \* the owner of the demo account
  None,         \* no token, no user
  Slots,        \* keys of the items in a page's memory
  MaxVisits     \* bound: pages opened, accounts asked for

ASSUME SessionAssumption ==
  /\ Demo \notin Users /\ None \notin Users \cup {Demo}
  /\ MaxVisits \in Nat

VARIABLES
  token,      \* localStorage: whose token it is
  tab,        \* what each tab is and knows
  put,        \* the latest PUT of an account, by whichever tab
  visits,     \* so far
  past        \* history: see TypeOK

vars == <<token, tab, put, visits, past>>

\* Of an item only this is told: the user whose account the tab showed when it
\* came or was entered.
ItemSets == UNION {[keys -> Users \cup {Demo}] : keys \in SUBSET Slots}
NoItems == [key \in {} |-> None]

\* The items an answer may have: any, of the account that was asked for.
ItemsOf(user) == UNION {[keys -> {user}] : keys \in SUBSET Slots}

\* The pairs of f, and those of g under other keys.
Over(f, g) == [key \in DOMAIN f \cup DOMAIN g |-> IF key \in DOMAIN f THEN f[key] ELSE g[key]]

Stages == {"closed",     \* no page
           "loading",    \* getCurrentAccount of the page that loads
          "blank",      \* its answer was an exception to initAccount
           "form",       \* login and registration forms
           "entering",   \* requestOauthToken
           "fetching",   \* getCurrentAccount after it
           "mail",       \* e-mail form of a new user
           "waiting",    \* an account, not yet its page
           "app"}

ClosedTab ==
  [stage |-> "closed", asked |-> None, back |-> "form", via |-> "login", posting |-> None,
   shown |-> None, items |-> NoItems, savePermit |-> TRUE, greeting |-> FALSE]

\* A user who opens a page or asks for an account.
Visit == visits < MaxVisits /\ visits' = visits + 1

\* The page has no request open that blocks it.
IdleStages == {"form", "mail", "waiting", "app"}
Idle(t) == tab[t].stage \in IdleStages

\* The token changes in tab t, unknown to every other page.
Crossed(t) == [u \in Tabs |-> past.crossed[u] \/ (u # t /\ tab[u].stage # "closed")]

NoPut == [sent |-> FALSE, user |-> None, items |-> NoItems, shown |-> None,
          crossed |-> FALSE, again |-> FALSE]

Init ==
  /\ token \in Users \cup {None}
  /\ tab = [t \in Tabs |-> ClosedTab]
  /\ put = NoPut
  /\ visits = 0
  /\ past = [crossed |-> [t \in Tabs |-> FALSE], again |-> [t \in Tabs |-> FALSE]]

-----------------------------------------------------------------------------
(* Loading the page. *)

\* The load event: a token in localStorage is tried.
Open(t) ==
  /\ tab[t].stage = "closed" /\ Visit
  /\ tab' = [tab EXCEPT ![t] =
       IF token = None THEN [ClosedTab EXCEPT !.stage = "form"]
       ELSE [ClosedTab EXCEPT !.stage = "loading", !.asked = token]]
  /\ UNCHANGED <<token, put, past>>

\* A request that blocked the tab is over.
Answered(page, stage) ==
  [page EXCEPT !.stage = stage, !.asked = None, !.back = "form", !.via = "login"]

\* initAccount: items of the account replace those under their numbers, and
\* leave the others that are in memory.
InitAccount(page, user, items) ==
  [page EXCEPT !.shown = user, !.items = Over(items, page.items)]

\* getCurrentAccount of the page is answered: showGreetingPage.
LoadAnswer(t) ==
  /\ tab[t].stage = "loading"
  /\ \E items \in ItemsOf(tab[t].asked) :
       tab' = [tab EXCEPT ![t] =
         [InitAccount(tab[t], tab[t].asked, items)
            EXCEPT !.stage = "waiting", !.asked = None, !.greeting = TRUE]]
  /\ UNCHANGED <<token, put, visits, past>>

\* An account without a saving is an exception to the first line of initAccount:
\* neither the page nor the forms are shown.
LoadThrows(t) ==
  /\ tab[t].stage = "loading"
  /\ tab' = [tab EXCEPT ![t] = Answered(@, "blank")]
  /\ UNCHANGED <<token, put, visits, past>>

\* It fails: whatever token there is now is removed.
LoadError(t) ==
  /\ tab[t].stage = "loading"
  /\ token' = None
  /\ past' = [past EXCEPT !.crossed = Crossed(t)]
  /\ tab' = [tab EXCEPT ![t] = Answered(@, "form")]
  /\ UNCHANGED <<put, visits>>

\* initGreetingPage, of a timer.
InitGreetingPage(t) ==
  /\ Idle(t) /\ tab[t].greeting
  /\ tab' = [tab EXCEPT ![t].stage = "app", ![t].greeting = FALSE]
  /\ UNCHANGED <<token, put, visits, past>>

\* The picture that starts the timer does not load: the page never opens.
AvatarError(t) ==
  /\ Idle(t) /\ tab[t].greeting /\ tab[t].stage # "mail"
  /\ tab' = [tab EXCEPT ![t].greeting = FALSE]
  /\ UNCHANGED <<token, put, visits, past>>

-----------------------------------------------------------------------------
(* Signing in and up. *)

\* A second account is asked for in a page that has one.
Again(t) == [past EXCEPT !.again[t] = @ \/ tab[t].shown # None]

\* login asks for a token.
Login(t, user) ==
  /\ tab[t].stage = "form" /\ Visit
  /\ tab' = [tab EXCEPT ![t].stage = "entering", ![t].asked = user, ![t].back = "form",
                        ![t].via = "login"]
  /\ past' = Again(t)
  /\ UNCHANGED <<token, put>>

\* The registration form is sent; its request does not block the tab.
Signup(t, user) ==
  /\ tab[t].stage = "form" /\ tab[t].posting = None /\ Visit
  /\ tab' = [tab EXCEPT ![t].posting = user]
  /\ UNCHANGED <<token, put, past>>

\* It is answered, whatever the page does by then, and a token is asked for.
SignupAnswer(t) ==
  LET user == tab[t].posting
  IN  /\ Idle(t) /\ user # None
      /\ tab' = [tab EXCEPT ![t].stage = "entering", ![t].asked = user, ![t].posting = None,
                            ![t].back = tab[t].stage, ![t].via = "signup"]
      /\ past' = Again(t)
      /\ UNCHANGED <<token, put, visits>>

\* It fails, or its answer is lost.
SignupError(t) ==
  /\ Idle(t) /\ tab[t].posting # None
  /\ tab' = [tab EXCEPT ![t].posting = None]
  /\ UNCHANGED <<token, put, visits, past>>

\* requestOauthToken is answered: the token is kept, getCurrentAccount reads it.
TokenAnswer(t) ==
  /\ tab[t].stage = "entering"
  /\ token' = tab[t].asked
  /\ past' = [past EXCEPT !.crossed = [Crossed(t) EXCEPT ![t] = FALSE]]
  /\ tab' = [tab EXCEPT ![t].stage = "fetching"]
  /\ UNCHANGED <<put, visits>>

\* The fault: signup goes on to the e-mail form without an account.
TokenError_F(t) ==
  /\ tab[t].stage = "entering"
  /\ token' = None
  /\ past' = [past EXCEPT !.crossed = Crossed(t)]
  /\ tab' = [tab EXCEPT ![t] = Answered(@, IF tab[t].via = "signup" THEN "mail" ELSE @.back)]
  /\ UNCHANGED <<put, visits>>

\* It fails: the token is removed.  login stays on the form; signup goes on to
\* an account that is null, and to an exception.
TokenError(t) ==
  /\ tab[t].stage = "entering"
  /\ token' = None
  /\ past' = [past EXCEPT !.crossed = Crossed(t)]
  /\ tab' = [tab EXCEPT ![t] = Answered(@, tab[t].back)]
  /\ UNCHANGED <<put, visits>>

\* getCurrentAccount is answered.  login waits for the picture of the page;
\* signup shows the e-mail form, unseen if the page is open.
FetchAnswer(t) ==
  /\ tab[t].stage = "fetching"
  /\ \E items \in ItemsOf(tab[t].asked) :
       LET page == InitAccount(tab[t], tab[t].asked, items)
       IN  tab' = [tab EXCEPT ![t] =
             IF page.via = "login" THEN [Answered(page, "form") EXCEPT !.greeting = TRUE]
             ELSE Answered(page, IF page.back = "app" THEN "app" ELSE "mail")]
  /\ UNCHANGED <<token, put, visits, past>>

\* It fails and the token is removed, or it has no saving: initAccount throws.
FetchError(t) ==
  /\ tab[t].stage = "fetching"
  /\ \/ token' = None /\ past' = [past EXCEPT !.crossed = Crossed(t)]
     \/ UNCHANGED <<token, past>>
  /\ tab' = [tab EXCEPT ![t] = Answered(@, tab[t].back)]
  /\ UNCHANGED <<put, visits>>

\* The e-mail form is skipped, or its address accepted.
LeaveMail(t) ==
  /\ tab[t].stage = "mail" /\ ~tab[t].greeting
  /\ tab' = [tab EXCEPT ![t].greeting = TRUE]
  /\ UNCHANGED <<token, put, visits, past>>

\* The fault: the demo leaves the permission to save.
ClickDemo_F(t) ==
  /\ tab[t].stage = "form" /\ Visit
  /\ \E items \in ItemsOf(Demo) :
       tab' = [tab EXCEPT ![t] = [InitAccount(tab[t], Demo, items) EXCEPT !.greeting = TRUE]]
  /\ past' = Again(t)
  /\ UNCHANGED <<token, put>>

\* The demo button: the permission to save is gone until the page is reloaded,
\* also when the answer is an exception to initAccount.
ClickDemo(t) ==
  /\ tab[t].stage = "form" /\ Visit
  /\ LET page == [tab[t] EXCEPT !.savePermit = FALSE] IN
     \/ \E items \in ItemsOf(Demo) :
          tab' = [tab EXCEPT ![t] = [InitAccount(page, Demo, items) EXCEPT !.greeting = TRUE]]
     \/ tab' = [tab EXCEPT ![t] = page]
  /\ past' = Again(t)
  /\ UNCHANGED <<token, put>>

-----------------------------------------------------------------------------
(* Saving. *)

\* jsonDataSave, with the token of the moment; "page" is the tab as it is now.
JsonDataSave(t, page) ==
  IF page.savePermit
    THEN put' = [sent |-> TRUE, user |-> token, items |-> page.items, shown |-> page.shown,
                 crossed |-> past.crossed[t], again |-> past.again[t]]
    ELSE put' = put

\* A change of an item saves the account, unless its debounce drops the call
\* (module ItemEditor).
ChangeItem(t, key) ==
  LET page == [tab[t] EXCEPT !.items = Over([k \in {key} |-> tab[t].shown], @)]
  IN  /\ tab[t].stage = "app"
      /\ tab' = [tab EXCEPT ![t] = page]
      /\ JsonDataSave(t, page) \/ UNCHANGED put
      /\ UNCHANGED <<token, visits, past>>

\* launchStatistic saves what there is.
Save(t) ==
  /\ tab[t].stage = "app"
  /\ JsonDataSave(t, tab[t])
  /\ UNCHANGED <<token, tab, visits, past>>

-----------------------------------------------------------------------------
(* Leaving. *)

\* The fault: the forms are shown again and the page is not reloaded.
Logout_F(t) ==
  /\ tab[t].stage = "app"
  /\ token' = None
  /\ tab' = [tab EXCEPT ![t].stage = "form", ![t].shown = None]
  /\ past' = [past EXCEPT !.crossed = Crossed(t)]
  /\ UNCHANGED <<put, visits>>

\* logout removes the token and reloads the page.
Logout(t) ==
  /\ tab[t].stage = "app"
  /\ token' = None
  /\ tab' = [tab EXCEPT ![t] = ClosedTab]
  /\ past' = [past EXCEPT !.crossed = [Crossed(t) EXCEPT ![t] = FALSE], !.again[t] = FALSE]
  /\ UNCHANGED <<put, visits>>

\* The user closes the tab or reloads the page.
Close(t) ==
  /\ tab[t].stage # "closed"
  /\ tab' = [tab EXCEPT ![t] = ClosedTab]
  /\ past' = [past EXCEPT !.crossed[t] = FALSE, !.again[t] = FALSE]
  /\ UNCHANGED <<token, put, visits>>

Next ==
  \E t \in Tabs :
    \/ Open(t) \/ LoadAnswer(t) \/ LoadThrows(t) \/ LoadError(t)
    \/ InitGreetingPage(t) \/ AvatarError(t)
    \/ \E user \in Users : Login(t, user) \/ Signup(t, user)
    \/ SignupAnswer(t) \/ SignupError(t) \/ TokenAnswer(t) \/ TokenError(t)
    \/ FetchAnswer(t) \/ FetchError(t) \/ LeaveMail(t) \/ ClickDemo(t)
    \/ \E key \in Slots : ChangeItem(t, key)
    \/ Save(t) \/ Logout(t) \/ Close(t)

Spec == Init /\ [][Next]_vars

-----------------------------------------------------------------------------
(* Properties. *)

PutType ==
  [sent : BOOLEAN, user : Users \cup {None}, items : ItemSets,
   shown : Users \cup {Demo, None},         \* history: the account of the page,
   crossed : BOOLEAN, again : BOOLEAN]      \* and its past

TabType ==
  [stage : Stages, asked : Users \cup {None}, back : IdleStages, via : {"login", "signup"},
   posting : Users \cup {None}, shown : Users \cup {Demo, None}, items : ItemSets,
   savePermit : BOOLEAN, greeting : BOOLEAN]

\* Every variable has the values its declaration names, and a page that is open
\* shows an account: no order of answers opens one on nothing.
TypeOK ==
  /\ token \in Users \cup {None}
  /\ tab \in [Tabs -> TabType]
  /\ \A t \in Tabs : tab[t].stage \in {"app", "waiting", "mail"} => tab[t].shown # None
  /\ put \in PutType
  /\ visits \in 0..MaxVisits
  /\ past.crossed \in [Tabs -> BOOLEAN]  \* another tab changed the token this page relies on
  /\ past.again \in [Tabs -> BOOLEAN]    \* a second account was asked for in this page

\* A PUT carries the token of the user whose account its page shows, and items of
\* that account alone.  The token is another one only after another tab signed in
\* or out (main.js:875 reads the token of the moment) or this page asked for a
\* second account; items are another's only after it did (initAccount does not
\* clear those in memory, main.js:6-21).
AccountsStayApart ==
  put.sent =>
    /\ put.user = put.shown \/ put.crossed \/ put.again
    /\ (\A key \in DOMAIN put.items : put.items[key] = put.shown) \/ put.again

\* No PUT has an item of the demo, whatever account is taken into the page before
\* or after, and whatever token other tabs put in place (login.js, main.js:869).
DemoNeverSaved == \A key \in DOMAIN put.items : put.items[key] # Demo

=============================================================================
