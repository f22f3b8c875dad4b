----------------------------- MODULE ItemEditor -----------------------------
(***************************************************************************)
(* The settings page of the browser client (static/js/main.js): two        *)
(* columns of items, the dialog that adds, edits and removes them, the     *)
(* sliding lists, the way to page 4 and the save of the whole account.     *)
(*                                                                         *)
(* The page has one thread; what makes it hard are its timers.  Handlers   *)
(* run at any moment between timer callbacks, a closed dialog stays        *)
(* clickable while it fades, and debounced functions drop calls.           *)
(***************************************************************************)
EXTENDS Integers, Sequences, FiniteSets, SequencesExt

CONSTANTS
  Values,        \* what the fields of an item may hold (title, amount, icon, ...)
  Blank,         \* fields checkModalFields refuses: amount 0 or no title
  InitItems,     \* the columns of the account the page was opened with
  Frame,         \* items the frame of a column shows: 4 in the code
  MaxClicks      \* bound: clicks of the user

Columns == {"income", "expense"}

ASSUME EditorAssumption ==
  /\ Blank \notin Values
  /\ Frame \in Nat \ {0}
  /\ MaxClicks \in Nat
  /\ InitItems \in [Columns -> Seq(Values)]

MaxId == MaxClicks + Len(InitItems["income"]) + Len(InitItems["expense"])
Ids == 1..MaxId
None == 0   \* jQuery data that was never set

VARIABLES
  items,      \* the objects incomes and expenses: column -> id -> values
  list,       \* the children of a column's slider div, in DOM order
  arrows,     \* per column: up and down buttons shown, slider position:absolute
  empty,      \* per column: the big "add item" sign is shown
  shift,      \* per column: translateY of the slider, in item heights
  dialog,     \* the add-modal window, its fields and its target
  conv,       \* the columns as runConvert saw them last
  first, second,  \* data("firstitem") per column, data("seconditem") of expenses
  page,       \* "settings" or "statistic"
  timers,     \* pending setTimeouts and transitions, in the order they will fire
  gates,      \* debounced functions that drop calls at present
  sent,       \* the columns in the body of the latest PUT, or as they were loaded
  unsent,     \* history: the latest save was dropped by its debounce
  late,       \* history: a button of a fading dialog has changed an item
  clicks      \* how often the user has clicked

shown == <<list, arrows, empty>>
sums  == <<conv, first, second>>
net   == <<sent, unsent>>
vars  == <<items, shown, shift, dialog, sums, page, timers, gates, net, late, clicks>>

Columned(S) == [Columns -> S]
Div         == [id : Ids, val : Values]

-----------------------------------------------------------------------------
(* Timers.  Delay is the second argument of setTimeout, or the length of a  *)
(* CSS transition.  Transitions start with the next frame, which "fade"     *)
(* accounts for.                                                            *)

\* The fault: the sums are converted after the overlay has gone.
LateConvert_F == 330

ConvertDelay  == 230
Delay == [reset |-> 200, convert |-> ConvertDelay, slide |-> 250, remove |-> 300, up |-> 300,
          Up |-> 300, Down |-> 300, fade |-> 316,
          save |-> 1800, fadeStatistic |-> 1900, launchStatistic |-> 2400]
Debounced == {"Up", "Down", "save", "fadeStatistic", "launchStatistic"}

Timer(job)            == [job |-> job, col |-> "none", id |-> None]
TimerOf(job, c)       == [job |-> job, col |-> c, id |-> None]
TimerForItem(job, c, i) == [job |-> job, col |-> c, id |-> i]
Pending(job)          == \E k \in DOMAIN timers : timers[k].job = job
PendingFor(job, c)    == \E k \in DOMAIN timers : timers[k].job = job /\ timers[k].col = c

\* Where a new timer may stand: behind every one that was set before it with
\* no longer a delay; how it meets longer ones depends on the time gone by.
Placed(q, t) == {InsertAt(q, k, t) : k \in {j \in 1..Len(q) + 1 :
                     \A i \in j..Len(q) : Delay[q[i].job] > Delay[t.job]}}

\* One handler sets the timers ts, the shortest first, while q are pending.
SetTimers(q, ts) == FoldLeft(LAMBDA Q, t : UNION {Placed(p, t) : p \in Q}, {q}, ts)

-----------------------------------------------------------------------------
(* Vocabulary. *)

\* The fault: the overlay lets clicks through as soon as the dialog is closed.
Covered_F == dialog.open

\* The overlay catches every click until it has faded; so does the dialog.
Covered == dialog.open \/ Pending("fade")

\* The user needs longer to type than any short timer takes.
Settled == \A k \in DOMAIN timers : timers[k].job \in {"save", "fadeStatistic", "launchStatistic"}

User == clicks < MaxClicks /\ clicks' = clicks + 1
OnSettings == page = "settings" /\ ~Covered

SetMin(S) == CHOOSE m \in S : \A n \in S : m <= n
SetMax(S) == CHOOSE m \in S : \A n \in S : n <= m

\* Top edge of a slider: its bottom is anchored when it is longer than the frame.
Top(c) == shift[c] - (IF arrows[c] THEN Len(list[c]) - Frame ELSE 0)

\* The fault: the frame is taken to hold one item more.
ItemsPosition_F(l) == [c \in Columns |-> Len(l[c]) > Frame + 1]

\* itemsPosition for both columns, from the children l the sliders have now.
ItemsPosition(l) == [c \in Columns |-> Len(l[c]) > Frame]
CheckSlidersLength(l) == [c \in Columns |-> l[c] = <<>>]

Put(c, i, v) == [items EXCEPT ![c] = [j \in DOMAIN @ \cup {i} |-> IF j = i THEN v ELSE @[j]]]
Without(c, i) == [items EXCEPT ![c] = [j \in DOMAIN @ \ {i} |-> @[j]]]

\* turnOffModal: the window fades unless it does already; the fields are reset later.
TurnOff == [dialog EXCEPT !.open = FALSE]
Fading  == IF dialog.open THEN <<Timer("fade")>> ELSE <<>>

-----------------------------------------------------------------------------
(* jsonDataSave, debounced: of the timers its caller sets, "before" are     *)
(* shorter and "after" longer than its own.  No answer changes anything here. *)
SaveAnd(its, before, after, closed) ==
  IF "save" \in gates
    THEN /\ unsent' = TRUE /\ sent' = sent
         /\ gates' = gates \cup closed
         /\ timers' \in SetTimers(timers, before \o after)
    ELSE /\ unsent' = FALSE /\ sent' = its
         /\ gates' = gates \cup closed \cup {"save"}
         /\ timers' \in SetTimers(timers, before \o <<Timer("save")>> \o after)

\* The fault: a removal is kept in the browser only.
NoSave_F(its, before) ==
  /\ timers' \in SetTimers(timers, before)
  /\ UNCHANGED <<gates, net>>

Save(its, before) == SaveAnd(its, before, <<>>, {})

-----------------------------------------------------------------------------
(* Sliding a column. *)

\* Divs whose item is gone: they shrink until the remove timer takes them away.
\* As a rule the overlay outlasts them.
Ghosts(c) == {list[c][k].id : k \in DOMAIN list[c]} \ DOMAIN items[c]

\* The top edge is not at a multiple of an item's height.
Moving(c) == PendingFor("slide", c) \/ Ghosts(c) # {}

\* The fault: Up slides on below the last item.
CallUpPastEnd_F(c, q) ==
  IF "Up" \in gates
    THEN timers' = q /\ UNCHANGED <<gates, shift>>
    ELSE /\ shift' = [shift EXCEPT ![c] = @ - 1]
         /\ gates' = gates \cup {"Up"}
         /\ timers' \in SetTimers(q, <<TimerOf("slide", c), Timer("Up")>>)

\* Up and Down, debounced; q are the timers pending besides.
CallDown(c, q) ==
  IF "Down" \in gates
    THEN timers' = q /\ UNCHANGED <<gates, shift>>
    ELSE LET moves == ~Moving(c) /\ Top(c) < 0
         IN  /\ shift' = [shift EXCEPT ![c] = IF moves THEN @ + 1 ELSE @]
             /\ gates' = gates \cup {"Down"}
             /\ timers' \in SetTimers(q, (IF moves THEN <<TimerOf("slide", c)>> ELSE <<>>)
                                           \o <<Timer("Down")>>)

CallUp(c, q) ==
  IF "Up" \in gates
    THEN timers' = q /\ UNCHANGED <<gates, shift>>
    ELSE LET moves == ~Moving(c) /\ Top(c) > Frame - Len(list[c])
         IN  /\ shift' = [shift EXCEPT ![c] = IF moves THEN @ - 1 ELSE @]
             /\ gates' = gates \cup {"Up"}
             /\ timers' \in SetTimers(q, (IF moves THEN <<TimerOf("slide", c)>> ELSE <<>>)
                                           \o <<Timer("Up")>>)

\* Mouse wheel, swipe or arrow button over a column.
ScrollUp(c) ==
  /\ User /\ OnSettings
  /\ CallUp(c, timers)
  /\ UNCHANGED <<items, shown, dialog, sums, page, net>>

ScrollDown(c) ==
  /\ User /\ OnSettings
  /\ CallDown(c, timers)
  /\ UNCHANGED <<items, shown, dialog, sums, page, net>>

-----------------------------------------------------------------------------
(* The dialog. *)

\* A plus button or the big sign of an empty column.  The fields still hold
\* what they held when a reset of the dialog closed before has not run yet.
OpenAdd(c) ==
  /\ User /\ OnSettings
  /\ dialog' = [dialog EXCEPT !.open = TRUE, !.mode = "add", !.col = c, !.visible = TRUE]
  /\ UNCHANGED <<items, shown, shift, sums, page, timers, gates, net>>

\* itemClick: the dialog shows the data of the div, and binds saveOldItem and
\* deleteItem to its column and id.
ItemClick(c, k) ==
  /\ User /\ OnSettings
  /\ dialog' = [open |-> TRUE, mode |-> "edit", col |-> c, id |-> list[c][k].id,
                val |-> list[c][k].val, visible |-> TRUE]
  /\ UNCHANGED <<items, shown, shift, sums, page, timers, gates, net>>

\* The user fills in the fields, unless a late reset has hidden them.
TypeFields(v) ==
  /\ dialog.open /\ dialog.visible /\ Settled
  /\ dialog.val # v
  /\ dialog' = [dialog EXCEPT !.val = v]
  /\ UNCHANGED <<items, shown, shift, sums, page, timers, gates, net, clicks>>

\* The fault: the next id is the number of items, as on a fresh page.
NewIdByLength_F(c) == 1 + Cardinality(DOMAIN items[c])

NewId(c) == 1 + SetMax({None} \cup DOMAIN items[c])

\* addNewItem and the save behind it.  Valid fields add the item and close the
\* dialog; the save runs for refused fields too.
AddNewItem ==
  LET c     == dialog.col
      valid == dialog.val # Blank
      id    == NewId(c)
  IN  /\ items' = IF valid THEN Put(c, id, dialog.val) ELSE items
      /\ list' = IF valid THEN [list EXCEPT ![c] = Append(@, [id |-> id, val |-> dialog.val])]
                          ELSE list
      /\ arrows' = ItemsPosition(list') /\ empty' = CheckSlidersLength(list')
      /\ dialog' = IF valid THEN TurnOff ELSE dialog
      /\ Save(items', IF valid THEN <<Timer("reset"), Timer("convert")>> \o Fading
                               ELSE <<Timer("convert")>>)

\* saveOldItem and the save behind it.  When the item is gone the write throws,
\* and neither the rest of the handler nor jsonDataSave runs.
SaveOldItem ==
  LET c       == dialog.col
      valid   == dialog.val # Blank
      renew(d) == IF d.id = dialog.id THEN [d EXCEPT !.val = dialog.val] ELSE d
  IN  IF valid /\ dialog.id \notin DOMAIN items[c]
        THEN UNCHANGED <<items, shown, dialog, timers, gates, net>>
        ELSE /\ items' = IF valid THEN Put(c, dialog.id, dialog.val) ELSE items
             /\ list' = IF valid THEN [list EXCEPT ![c] = [k \in DOMAIN @ |-> renew(@[k])]]
                                 ELSE list
             /\ arrows' = ItemsPosition(list') /\ empty' = CheckSlidersLength(list')
             /\ dialog' = IF valid THEN TurnOff ELSE dialog
             /\ Save(items', IF valid THEN <<Timer("reset"), Timer("convert")>> \o Fading
                                      ELSE <<Timer("convert")>>)

\* addOrSaveItems: the save button or Enter in a field.  The button works until
\* the closed dialog has faded, so a double click runs the handler twice.
ClickSave ==
  /\ User /\ Covered
  /\ IF dialog.mode = "add" THEN AddNewItem ELSE SaveOldItem
  /\ UNCHANGED <<shift, sums, page>>

\* The fault: the list stays where it is when an item is removed.
NearHead_F(c) == FALSE

\* The first items are no further down than one row: the list has to follow
\* the removal.  A shrinking div has moved the edge already.
NearHead(c) == Top(c) + Cardinality(Ghosts(c)) > -1

\* Of the user, and of no line of the code: the pointer's way from an item to the
\* delete button takes longer than a slide, 250 ms.  By then the Up of the dialog
\* before has run as well, also after a second click on its button, which hides
\* after 200 ms: 200 + 300 < 316 + 250.
PointerArrived == ~PendingFor("slide", dialog.col) /\ (dialog.open => ~Pending("up"))

\* deleteItem; the button hides together with the fields.
ClickDelete ==
  /\ User /\ Covered
  /\ dialog.mode = "edit" /\ dialog.visible
  /\ PointerArrived
  /\ LET c == dialog.col IN
       /\ items' = Without(c, dialog.id)
       /\ arrows' = ItemsPosition(list)
       /\ dialog' = TurnOff
       /\ Save(items', <<Timer("reset"), Timer("convert"), TimerForItem("remove", c, dialog.id)>>
                       \o (IF NearHead(c) /\ Len(list[c]) > Frame THEN <<TimerOf("up", c)>>
                                                                  ELSE <<>>)
                       \o Fading)
  /\ UNCHANGED <<list, empty, shift, sums, page>>

\* turnOffModal by the cross or the overlay, which both stay until they have faded.
ClickAway ==
  /\ User /\ Covered
  /\ dialog' = TurnOff
  /\ timers' \in SetTimers(timers, <<Timer("reset")>> \o Fading)
  /\ UNCHANGED <<items, shown, shift, sums, page, gates, net>>

-----------------------------------------------------------------------------
(* Timer callbacks. *)
Fires(job) == timers # <<>> /\ Head(timers).job = job

ResetFields ==
  /\ Fires("reset")
  /\ dialog' = [dialog EXCEPT !.val = Blank, !.visible = FALSE]
  /\ timers' = Tail(timers)
  /\ UNCHANGED <<items, shown, shift, sums, page, gates, net, clicks>>

\* The fault: data("seconditem") keeps the item it was set to first.
SecondItem_F == LET D == DOMAIN items["expense"] IN
  IF second = None /\ Cardinality(D) > 1 THEN SetMin(D \ {SetMin(D)}) ELSE second

\* The data("seconditem") of the expenses: set when there is a second one, and
\* never cleared.
SecondItem == LET D == DOMAIN items["expense"] IN
  IF Cardinality(D) > 1 THEN SetMin(D \ {SetMin(D)}) ELSE second

\* runConvert: sums, first and second items of page 4, from the data of now.
RunConvert ==
  /\ Fires("convert")
  /\ conv' = items
  /\ first' = [c \in Columns |-> IF items[c] = <<>> THEN first[c] ELSE SetMin(DOMAIN items[c])]
  /\ second' = SecondItem
  /\ timers' = Tail(timers)
  /\ UNCHANGED <<items, shown, shift, dialog, page, gates, net, clicks>>

\* The first div with this DOM id is removed.
RemoveDiv ==
  /\ Fires("remove")
  /\ LET t  == Head(timers)
         ks == {k \in DOMAIN list[t.col] : list[t.col][k].id = t.id}
     IN  list' = [list EXCEPT ![t.col] = IF ks = {} THEN @ ELSE RemoveAt(@, SetMin(ks))]
  /\ empty' = CheckSlidersLength(list')
  /\ timers' = Tail(timers)
  /\ UNCHANGED <<items, arrows, shift, dialog, sums, page, gates, net, clicks>>

\* The Up that follows a removal, through the debounce like any other.
FollowRemoval ==
  /\ Fires("up")
  /\ CallUp(Head(timers).col, Tail(timers))
  /\ UNCHANGED <<items, shown, dialog, sums, page, net, clicks>>

\* A transition ends, or a debounced function takes calls again.
TimePasses ==
  /\ \E job \in Debounced \cup {"slide", "fade"} : Fires(job) /\ gates' = gates \ {job}
  /\ timers' = Tail(timers)
  /\ UNCHANGED <<items, shown, shift, dialog, sums, page, net, clicks>>

-----------------------------------------------------------------------------
(* Page 4. *)

\* initStatisticPage passes an undefined item to initCircle, which throws.
InitThrows ==
  /\ \A c \in Columns : first[c] \in DOMAIN items[c]
  /\ second # None
  /\ second \notin DOMAIN items["expense"]

\* launchStatistic, debounced: page 4 opens, or an alert asks for items; the
\* save runs in both cases.  When initStatisticPage throws nothing of it is
\* left: no page, no save, and the debounce does not close.
LaunchStatistic ==
  /\ User /\ OnSettings
  /\ LET full == \A c \in Columns : list[c] # <<>> IN
     IF "launchStatistic" \in gates \/ (full /\ InitThrows)
       THEN UNCHANGED <<page, timers, gates, net>>
       ELSE /\ page' = IF full THEN "statistic" ELSE page
            /\ SaveAnd(items, <<>>, <<Timer("launchStatistic")>>, {"launchStatistic"})
  /\ UNCHANGED <<items, shown, shift, dialog, sums>>

\* fadeStatistic, debounced.
FadeStatistic ==
  /\ User /\ page = "statistic"
  /\ IF "fadeStatistic" \in gates
       THEN UNCHANGED <<page, timers, gates>>
       ELSE /\ page' = "settings"
            /\ gates' = gates \cup {"fadeStatistic"}
            /\ timers' \in SetTimers(timers, <<Timer("fadeStatistic")>>)
  /\ UNCHANGED <<items, shown, shift, dialog, sums, net>>

-----------------------------------------------------------------------------
\* The page after addItems and the first getConverted, scrolled anywhere.
Init ==
  /\ items = InitItems
  /\ list = [c \in Columns |-> [k \in DOMAIN InitItems[c] |->
                                  [id |-> k, val |-> InitItems[c][k]]]]
  /\ arrows = ItemsPosition(list)
  /\ empty = CheckSlidersLength(list)
  /\ shift \in [Columns -> 0..MaxId]
  /\ \A c \in Columns : shift[c] <= SetMax({0, Len(list[c]) - Frame})
  /\ dialog = [open |-> FALSE, mode |-> "add", col |-> "income", id |-> None,
               val |-> Blank, visible |-> FALSE]
  /\ conv = InitItems
  /\ first = [c \in Columns |-> IF InitItems[c] = <<>> THEN None ELSE 1]
  /\ second = IF Cardinality(DOMAIN InitItems["expense"]) > 1 THEN 2 ELSE None
  /\ page = "settings"
  /\ timers = <<>> /\ gates = {}
  /\ sent = InitItems
  /\ unsent = FALSE /\ late = FALSE
  /\ clicks = 0

OpensDialog == \E c \in Columns : OpenAdd(c) \/ \E k \in DOMAIN list[c] : ItemClick(c, k)

UserActs ==
  /\ \/ \E c \in Columns : ScrollUp(c) \/ ScrollDown(c)
     \/ OpensDialog
     \/ \E v \in Values \cup {Blank} : TypeFields(v)
     \/ ClickSave \/ ClickDelete \/ ClickAway
     \/ LaunchStatistic \/ FadeStatistic
  /\ late' = (late \/ (~dialog.open /\ items' # items))

Callback ==
  /\ ResetFields \/ RunConvert \/ RemoveDiv \/ FollowRemoval \/ TimePasses
  /\ UNCHANGED late

Next == UserActs \/ Callback

\* The event loop runs every timer that is due.  Nobody has to click or to type.
Spec == Init /\ [][Next]_vars /\ WF_vars(Callback)

-----------------------------------------------------------------------------
(* Properties. *)

\* Every variable has its type; a slider is never pulled below its last item.
TypeOK ==
  /\ \A c \in Columns : DOMAIN items[c] \subseteq Ids /\ \A i \in DOMAIN items[c] : items[c][i] \in Values
  /\ \A c \in Columns : DOMAIN conv[c] \subseteq Ids
  /\ \A c \in Columns : list[c] \in Seq(Div)
  /\ arrows \in Columned(BOOLEAN) /\ empty \in Columned(BOOLEAN)
  /\ shift \in Columned(Nat)
  /\ dialog \in [open : BOOLEAN, mode : {"add", "edit"}, col : Columns, id : Ids \cup {None},
                 val : Values \cup {Blank}, visible : BOOLEAN]
  /\ first \in Columned(Ids \cup {None}) /\ second \in Ids \cup {None}
  /\ page \in {"settings", "statistic"}
  /\ timers \in Seq([job : DOMAIN Delay, col : Columns \cup {"none"}, id : Ids \cup {None}])
  /\ gates \subseteq Debounced
  /\ clicks \in 0..MaxClicks
  /\ unsent \in BOOLEAN /\ late \in BOOLEAN

\* A column shows every item of its object exactly once and with its present
\* values, and apart from these only divs whose removal is due (addNewDiv,
\* editOldDiv and deleteItem keep the DOM and the data together).
DomIsData ==
  \A c \in Columns :
    /\ \A j, k \in DOMAIN list[c] : list[c][j].id = list[c][k].id => j = k
    /\ DOMAIN items[c] \subseteq {list[c][k].id : k \in DOMAIN list[c]}
    /\ \A k \in DOMAIN list[c] :
         \/ list[c][k].id \in DOMAIN items[c] /\ list[c][k].val = items[c][list[c][k].id]
         \/ \E t \in DOMAIN timers : timers[t] = TimerForItem("remove", c, list[c][k].id)

\* Once a removal is over, the list leaves no gap in its frame: whoever clicks
\* and scrolls, also twice, while the div shrinks and the list has to follow it
\* (deleteItem, Up and its debounce).  A scroll during the removal of a fading
\* dialog closes the debounce in the wrong moment, and the gap stays.
ListFillsFrame ==
  \A c \in Columns : ~PendingFor("remove", c) /\ ~PendingFor("up", c) /\ ~late =>
    shift[c] <= SetMax({0, Len(list[c]) - Frame})

\* The signs agree with the list: without arrows everything is in the frame, and
\* the big sign stands exactly in an empty column (itemsPosition runs before a
\* removed div is gone, checkSlidersLength again after it).
SignsMatchList ==
  \A c \in Columns : /\ ~arrows[c] => Len(list[c]) <= Frame
                     /\ empty[c] <=> list[c] = <<>>

\* A dialog that is open for an item has one, unless a button of a dialog that
\* was fading already removed it: only then can the user reach a shrinking div
\* (the overlay outlasts the removal of deleteItem), and saveOldItem throws.
OpenDialogHasItem ==
  dialog.open /\ dialog.mode = "edit" /\ ~late => dialog.id \in DOMAIN items[dialog.col]

\* Page 4 shows the sums of the items as they are: runConvert is late by 230 ms,
\* and the overlay of the dialog keeps the user from page 4 until it has run,
\* again unless the change came from a dialog that was fading.
PageFourIsCurrent == page = "statistic" /\ ~late => conv = items

\* With an item in each column page 4 opens with all its circles, save for one
\* case: a single expense is left and the second of an earlier conversion is
\* gone, which data("seconditem") still names (initStatisticPage).
LaunchFailsOnlyAfterRemoval ==
  OnSettings /\ ~late /\ (\A c \in Columns : items[c] # <<>>) =>
    /\ \A c \in Columns : first[c] \in DOMAIN items[c]
    /\ InitThrows => Cardinality(DOMAIN items["expense"]) = 1

\* When the items are not those of the latest PUT sent, the debounce of
\* jsonDataSave dropped the latest save: no other path of the editor changes an
\* item without sending it, not a dialog that fades, a launch that throws or the
\* timers; and whichever save goes through next sends all that was dropped.
UnsavedIsExplained == sent # items => unsent

=============================================================================
