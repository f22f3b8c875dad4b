--------------------------- MODULE StatisticsPage ---------------------------
(***************************************************************************)
(* Page 4 of the browser client (static/js/dashboard.js) and its controls  *)
(* on the settings page (main.js): conversion of items and savings between *)
(* currencies, the sums, the forecast of the savings and its slider.       *)
(*                                                                         *)
(* Exchange rates are 0 until the request for them is answered, and the    *)
(* function that converts the savings is debounced.  The forecast is drawn *)
(* by timers and slides, and each draw has a timer of its own for the      *)
(* year-end number.  Amounts of money are integers in thousandths, for     *)
(* toFixed(3); Broken is JavaScript's Infinity or NaN.  The items          *)
(* themselves change in module ItemEditor.                                 *)
(***************************************************************************)
EXTENDS Integers, Sequences, FiniteSets, FiniteSetsExt, Functions, SequencesExt

CONSTANTS
  Rates,        \* what the request for exchange rates answers: roubles per EUR, USD
  Accounts,     \* the columns the user may come to have: [income, expense : id -> item]
  FreeMoney,    \* savings of the account, in its currency
  Percent,      \* interest of the deposit per year, in whole percents
  Stops,        \* positions of the savings slider the user drags it to, in percent
  MaxClicks     \* bound: clicks of the user

Currencies == {"RUB", "EUR", "USD"}
Periods    == {"HOUR", "DAY", "MONTH", "QUARTER", "YEAR"}
Items      == [amount : Nat \ {0}, currency : Currencies, period : Periods]

ASSUME PageAssumption ==
  /\ Rates \in [{"EUR", "USD"} -> Nat \ {0}]
  /\ \A a \in Accounts : \A column \in {a.income, a.expense} :
       /\ DOMAIN column # {} /\ IsFiniteSet(DOMAIN column)
       /\ \A i \in DOMAIN column : column[i] \in Items
  /\ Stops \subseteq {5 * n : n \in 0..20}
  /\ FreeMoney \in Nat /\ Percent \in Nat /\ MaxClicks \in Nat

Broken == -1000000007   \* no amount of the model comes near it

VARIABLES
  known,     \* global.eur and global.usd have been set
  columns,   \* incomes and expenses
  checked,   \* user.checkedCurr, the currency that is selected
  last,      \* user.lastCurr, the currency savings.freeMoney is in
  money,     \* savings.freeMoney
  field,     \* the number the savings field of the settings page shows
  sums,      \* incomesSumMonth and expensesSumMonth, and whether rates were known
  label,     \* the currency page 4 names behind its amounts
  boxes,     \* the deposit and capitalization boxes of the settings page
  plan,      \* savings.deposit and savings.capitalization
  share,     \* checkedPercent of the savings slider, in percent
  drawn,     \* what the forecast on page 4 was last computed from
  yearEnd,   \* what the number it shows for the end of the year was computed from
  writes,    \* timers that will write that number, in the order they were set
  overtook,  \* history: the last draw was set to end before an older one
  due,       \* timers that will draw the forecast again
  settling,  \* initStatisticPage is debounced and drops calls
  page,      \* "settings" or "statistic"
  sent,      \* the savings in the latest PUT of the account
  trace,     \* history of the savings: see TypeOK
  clicks     \* how often the user has clicked

controls == <<checked, boxes, plan, share, page>>
saving == <<last, money, field, trace>>
drawing == <<drawn, yearEnd, writes, overtook>>
vars == <<known, columns, controls, saving, sums, label, drawing, due, settling, sent, clicks>>

-----------------------------------------------------------------------------
(* Arithmetic. *)
Abs(n) == IF n < 0 THEN -n ELSE n

\* Division rounded to the nearest, halves up: toFixed and Math.round.
RoundDiv(a, b) == (2 * a + b) \div (2 * b)

\* The fault: the amount is kept in place of its part of the whole.
PercentOf_F(v, d) == v

\* Math.round(100 * v / (d + 0.001)): the thousandth keeps halves from rounding up.
PercentOf(v, d) == (200 * v + d - 1) \div (2 * d)

RateWhen(k, c) == IF c = "RUB" THEN 1 ELSE IF k THEN Rates[c] ELSE 0

\* Money in currency "from", in currency "to".
Exchange(k, m, from, to) ==
  IF m = Broken \/ RateWhen(k, to) = 0 THEN Broken
  ELSE RoundDiv(m * RateWhen(k, from), RateWhen(k, to))

\* 30.41666667 days a month are 365/12.
PerMonth(m, period) ==
  CASE period = "HOUR"    -> m * 730
    [] period = "DAY"     -> RoundDiv(m * 365, 12)
    [] period = "MONTH"   -> m
    [] period = "QUARTER" -> RoundDiv(m, 3)
    [] period = "YEAR"    -> RoundDiv(m, 12)

\* item.converted: to roubles, to a month, to the currency that is selected.
Converted(k, item, to) ==
  Exchange(k, PerMonth(1000 * item.amount * RateWhen(k, item.currency), item.period), "RUB", to)

Total(k, column, to) ==
  LET parts == [i \in DOMAIN column |-> Converted(k, column[i], to)]
  IN  IF Broken \in Range(parts) THEN Broken
      ELSE MapThenSumSet(LAMBDA i : RoundDiv(parts[i], 1000), DOMAIN column)

\* A difference below 10 counts as none.
Snap(inc, exp) == IF Abs(inc - exp) < 10 THEN inc ELSE exp

\* The fault: the sums are never snapped together.
SumsOf_F(k, cols, to) ==
  LET inc == Total(k, cols.income, to)
      exp == Total(k, cols.expense, to)
  IN  IF Broken \in {inc, exp} THEN [inc |-> Broken, exp |-> Broken, known |-> k]
      ELSE [inc |-> inc, exp |-> exp, known |-> k]

\* runConvert: getConverted for the incomes and then for the expenses.  The snap
\* is applied after both, so that a small sum of incomes is taken for the start
\* of the sum of expenses.
SumsOf(k, cols, to) ==
  LET inc   == Total(k, cols.income, to)
      start == Snap(inc, 0)
      exp   == Total(k, cols.expense, to)
  IN  IF Broken \in {inc, exp} THEN [inc |-> Broken, exp |-> Broken, known |-> k]
      ELSE [inc |-> inc, exp |-> Snap(inc, start + exp), known |-> k]

-----------------------------------------------------------------------------
(* The forecast, in 1200ths: with shares in percent and 1/1200 of the yearly *)
(* percent a month, it is a sum of integers.                                *)

\* parseInt
Whole(x) == IF x >= 0 THEN (x \div 1200) * 1200 ELSE -(((-x) \div 1200) * 1200)

\* Without a deposit the spare money, or the loss, adds up.
PlainYear(f) ==
  LET m[k \in 0..12] == IF k = 0 THEN f.money * 1200 ELSE Whole(m[k - 1]) + f.delta * 1200
  IN  m

\* Interest every month on what is deposited; the rest adds up beside it.
CapitalizedYear(f) ==
  LET dep == 12 * f.delta * f.share
      rest == 12 * f.delta * (100 - f.share)
      d[k \in 0..12] == IF k = 0 THEN f.money * 1200
                        ELSE LET before == Whole(d[k - 1])
                             IN  dep + before + (before \div 1200) * Percent
  IN  [k \in 0..12 |-> d[k] + k * rest]

\* The fault: the part of the money that stays at home is left out of the year.
SimpleYear_F(f) ==
  LET dep == 12 * f.delta * f.share
      m[k \in 0..12] ==
        IF k = 0 THEN f.money * 1200
        ELSE IF k < 12 THEN Whole(m[k - 1]) + dep
        ELSE f.money * (1200 + 12 * Percent) + 12 * dep + (f.delta * f.share * Percent * 66) \div 100
  IN  m

\* Interest in the last month only: that of the savings for a year, that of the
\* deposit of month j for the months left, 66 months in all.
SimpleYear(f) ==
  LET dep == 12 * f.delta * f.share
      rest == 12 * f.delta * (100 - f.share)
      m[k \in 0..12] ==
        IF k = 0 THEN f.money * 1200
        ELSE IF k < 12 THEN Whole(m[k - 1]) + dep
        ELSE f.money * (1200 + 12 * Percent) + 12 * dep + 12 * rest
                + (f.delta * f.share * Percent * 66) \div 100
  IN  m

Year(f) ==
  IF f.delta < 0 \/ ~f.plan.deposit THEN PlainYear(f)
  ELSE IF f.plan.capitalization THEN CapitalizedYear(f) ELSE SimpleYear(f)

-----------------------------------------------------------------------------
(* The page. *)
NotNumbers(s) == s.inc = Broken

Delta == IF NotNumbers(sums) THEN Broken ELSE sums.inc - sums.exp

\* What initSavingsCircles computes the year from.
Forecast(percent) ==
  [money |-> IF money = Broken THEN Broken ELSE money \div 1000,
   delta |-> Delta, share |-> percent, plan |-> plan]

Forecasts == [money : Nat \cup {Broken}, delta : Int, share : 0..100,
              plan : [deposit : BOOLEAN, capitalization : BOOLEAN]]

\* The fault: the timer is given the value of before.
InitSavingsCircles_F(percent, animatetime) ==
  /\ drawn' = Forecast(percent)
  /\ writes' = Append(writes, [of |-> drawn, time |-> animatetime])
  /\ overtook' = \E k \in DOMAIN writes : writes[k].time > animatetime
  /\ UNCHANGED yearEnd

\* initSavingsCircles: the months are drawn at once.  The number of the end of the
\* year is animated and then set by a timer, which keeps the value it was given.
InitSavingsCircles(percent, animatetime) ==
  /\ drawn' = Forecast(percent)
  /\ writes' = Append(writes, [of |-> drawn', time |-> animatetime])
  /\ overtook' = \E k \in DOMAIN writes : writes[k].time > animatetime
  /\ UNCHANGED yearEnd

\* The fault: user.lastCurr is left as it was.
ChangeCurrency_F(c) ==
  LET converts == c # last
  IN  /\ money' = IF converts THEN Exchange(known, money, last, c) ELSE money
      /\ last' = last
      /\ trace' = [trace EXCEPT !.conversions = @ + (IF converts THEN 1 ELSE 0),
                                !.early = @ \/ (converts /\ ~known), !.skipped = FALSE]

\* changeCurrency, with "c" the currency that is selected.
ChangeCurrency(c) ==
  LET converts == c # last
  IN  /\ money' = IF converts THEN Exchange(known, money, last, c) ELSE money
      /\ last' = c
      /\ trace' = [trace EXCEPT !.conversions = @ + (IF converts THEN 1 ELSE 0),
                                !.early = @ \/ (converts /\ ~known), !.skipped = FALSE]

\* The fault: page 4 is labelled and the savings are not converted.
InitStatisticPage_F(c) ==
  IF settling
    THEN /\ trace' = [trace EXCEPT !.skipped = TRUE]
         /\ UNCHANGED <<last, money, label, settling>>
    ELSE /\ trace' = [trace EXCEPT !.skipped = FALSE]
         /\ label' = c /\ settling' = TRUE
         /\ UNCHANGED <<last, money>>

\* initStatisticPage: its debounce drops a call less than 900 ms after the last.
InitStatisticPage(c) ==
  IF settling
    THEN /\ trace' = [trace EXCEPT !.skipped = TRUE]
         /\ UNCHANGED <<last, money, label, settling>>
    ELSE ChangeCurrency(c) /\ label' = c /\ settling' = TRUE

\* checkedPercent once the slider is told to stand at a percentage of delta; it
\* goes in steps of a twentieth.  Without spare money the range is empty.
SliderAt(percent, d) ==
  IF d <= 0 THEN 0 ELSE PercentOf(RoundDiv(d * 5 * RoundDiv(percent, 5), 100), d)

\* noUiSlider rebuilt: a range that is not a number is an exception.
RebuildSlider(s) ==
  share' = IF NotNumbers(s) THEN share ELSE SliderAt(share, s.inc - s.exp)

\* jsonDataSave
Put(cur) ==
  sent' = [amount |-> IF money' = Broken THEN Broken ELSE (money' + 999) \div 1000,
           currency |-> cur, unit |-> last', skipped |-> trace'.skipped]

Click == clicks < MaxClicks /\ clicks' = clicks + 1

Nothing == [amount |-> 0, currency |-> "RUB", unit |-> "RUB", skipped |-> FALSE]

\* initAccount and initGreetingPage, for a page that could be built: with a sum
\* that is not a number initSavingsSlider fails before the items are shown.
Init ==
  /\ known \in BOOLEAN
  /\ columns \in Accounts
  /\ checked \in Currencies /\ last = checked /\ label = checked
  /\ money = 1000 * FreeMoney /\ field = FreeMoney
  /\ sums = SumsOf(known, columns, checked) /\ sums.inc # Broken
  /\ boxes \in [deposit : BOOLEAN, capitalization : BOOLEAN, enabled : {TRUE}]
  /\ plan = [deposit |-> boxes.deposit, capitalization |-> boxes.capitalization]
  /\ share = 100
  /\ drawn = Forecast(100) /\ due = {}
  /\ yearEnd = drawn /\ writes = <<>> /\ overtook = FALSE
  /\ settling = FALSE
  /\ page = "settings"
  /\ sent = Nothing
  /\ trace = [from |-> checked, conversions |-> 0, touches |-> 0, early |-> FALSE,
              skipped |-> FALSE]
  /\ clicks = 0

-----------------------------------------------------------------------------
(* The request for exchange rates, and timers. *)

\* The answer converts nothing again.
RatesArrive ==
  /\ ~known
  /\ known' = TRUE
  /\ UNCHANGED <<columns, controls, saving, sums, label, drawing, due, settling, sent, clicks>>

\* initSavingsCircles of a timer: launchStatistic passes user.checkedPercent,
\* which is 1 for good; a currency button passes the slider's.
Draw(timer) ==
  /\ timer \in due
  /\ due' = due \ {timer}
  /\ InitSavingsCircles(IF timer = "launch" THEN 100 ELSE share, 700)
  /\ UNCHANGED <<known, columns, controls, saving, sums, label, settling, sent, clicks>>

\* The timer of animatetime + 20 ms: a longer one that was set before may still run,
\* and then writes later.
SetPreciseValue(k) ==
  /\ \A j \in 1..(k-1) : writes[j].time > writes[k].time
  /\ yearEnd' = writes[k].of
  /\ writes' = RemoveAt(writes, k)
  /\ UNCHANGED <<known, columns, controls, saving, sums, label, drawn, overtook, due, settling,
                 sent, clicks>>

Settle ==
  /\ settling
  /\ settling' = FALSE
  /\ UNCHANGED <<known, columns, controls, saving, sums, label, drawing, due, sent, clicks>>

-----------------------------------------------------------------------------
(* Settings page. *)

\* The change of an item: runConvert and a save, but no changeCurrency.
EditItems ==
  /\ page = "settings" /\ Click
  /\ columns' \in Accounts \ {columns}
  /\ sums' = SumsOf(known, columns', checked)
  /\ UNCHANGED saving
  /\ Put(checked)
  /\ UNCHANGED <<known, controls, label, drawing, due, settling>>

\* The currency sign.  The slider takes the sums of before; if those are not
\* numbers it fails, and runConvert is not reached.  Of a loss the slider's
\* range is negative, and the handle ends at its end.
ClickSign ==
  LET next == CASE checked = "RUB" -> "EUR" [] checked = "EUR" -> "USD" [] checked = "USD" -> "RUB"
  IN  /\ page = "settings" /\ Click
      /\ checked' = next
      /\ ChangeCurrency(next)
      /\ field' = IF money' = Broken THEN field ELSE RoundDiv(money', 1000)
      /\ IF NotNumbers(sums)
           THEN UNCHANGED <<sums, share>>
           ELSE /\ sums' = SumsOf(known, columns, next)
                /\ share' = IF Delta < 0 THEN 100 ELSE SliderAt(share, Delta)
      /\ UNCHANGED <<known, columns, label, boxes, plan, drawing, due, settling, page, sent>>

\* A click or a key in the savings field takes the number it shows.
TouchField ==
  /\ page = "settings" /\ Click
  /\ money' = 1000 * field
  /\ trace' = [trace EXCEPT !.touches = @ + 1]
  /\ UNCHANGED <<known, columns, controls, last, field, sums, label, drawing, due, settling, sent>>

ToggleDeposit ==
  /\ page = "settings" /\ Click
  /\ boxes' = IF boxes.deposit
                THEN [deposit |-> FALSE, capitalization |-> FALSE, enabled |-> FALSE]
                ELSE [boxes EXCEPT !.deposit = TRUE, !.enabled = TRUE]
  /\ UNCHANGED <<known, columns, checked, plan, share, page, saving, sums, label, drawing, due,
                 settling, sent>>

ToggleCapitalization ==
  /\ page = "settings" /\ boxes.enabled /\ Click
  /\ boxes' = [boxes EXCEPT !.capitalization = ~@]
  /\ UNCHANGED <<known, columns, checked, plan, share, page, saving, sums, label, drawing, due,
                 settling, sent>>

\* launchStatistic.  A failing slider keeps the account from being saved.
Launch ==
  /\ page = "settings" /\ "launch" \notin due /\ Click
  /\ page' = "statistic"
  /\ plan' = [deposit |-> boxes.deposit, capitalization |-> boxes.capitalization]
  /\ InitStatisticPage(checked)
  /\ due' = due \cup {"launch"}
  /\ RebuildSlider(sums)
  /\ IF NotNumbers(sums) THEN UNCHANGED sent ELSE Put(checked)
  /\ UNCHANGED <<known, columns, checked, boxes, field, sums, drawing>>

-----------------------------------------------------------------------------
(* Statistics page. *)

\* A currency button of page 4.
ClickCurrency(c) ==
  /\ page = "statistic" /\ Click
  /\ checked' = c
  /\ sums' = SumsOf(known, columns, c)
  /\ InitStatisticPage(c)
  /\ due' = due \cup {"button"}
  /\ RebuildSlider(sums')
  /\ UNCHANGED <<known, columns, boxes, plan, field, drawing, page, sent>>

\* A slide takes 200 ms while the last draw came to less than 99999.
AnimateTime == IF drawn.money # Broken /\ Year(drawn)[12] < 99999 * 1200 THEN 200 ELSE 700

\* The slider takes part while the forecast on display has a deposit and spare
\* money; each slide draws at once.
Slide(percent) ==
  /\ page = "statistic" /\ Click
  /\ drawn.plan.deposit /\ drawn.delta > 0 /\ Delta > 0
  /\ share' = SliderAt(percent, Delta)
  /\ InitSavingsCircles(share', AnimateTime)
  /\ UNCHANGED <<known, columns, checked, boxes, plan, saving, sums, label, due, settling, page,
                 sent>>

\* fadeStatistic: the field shows the savings in whole units.
Back ==
  /\ page = "statistic" /\ Click
  /\ page' = "settings"
  /\ field' = IF money = Broken THEN field ELSE RoundDiv(money, 1000)
  /\ UNCHANGED <<known, columns, checked, boxes, plan, share, last, money, trace, sums, label,
                 drawing, due, settling, sent>>

Next ==
  \/ RatesArrive \/ Settle
  \/ \E timer \in {"launch", "button"} : Draw(timer)
  \/ \E k \in DOMAIN writes : SetPreciseValue(k)
  \/ EditItems \/ ClickSign \/ TouchField \/ ToggleDeposit \/ ToggleCapitalization \/ Launch
  \/ \E c \in Currencies : ClickCurrency(c)
  \/ \E percent \in Stops : Slide(percent)
  \/ Back

\* Timers fire; users and the server of the rates owe nothing.
Spec == Init /\ [][Next]_vars

-----------------------------------------------------------------------------
(* Properties. *)

\* Every variable has the values its declaration names, and percentages stay
\* between 0 and 100 whatever the slider is told (dashboard.js:656).
TypeOK ==
  /\ known \in BOOLEAN /\ settling \in BOOLEAN
  /\ columns \in Accounts
  /\ {checked, last, label} \subseteq Currencies
  /\ money \in Nat \cup {Broken} /\ field \in Nat
  /\ sums \in [inc : Nat \cup {Broken}, exp : Nat \cup {Broken}, known : BOOLEAN]
  /\ (sums.inc = Broken) = (sums.exp = Broken)
  /\ boxes \in [deposit : BOOLEAN, capitalization : BOOLEAN, enabled : BOOLEAN]
  /\ plan \in [deposit : BOOLEAN, capitalization : BOOLEAN]
  /\ share \in 0..100
  /\ {drawn, yearEnd} \subseteq Forecasts
  /\ writes \in Seq([of : Forecasts, time : {200, 700}])
  /\ overtook \in BOOLEAN
  /\ due \subseteq {"launch", "button"}
  /\ page \in {"settings", "statistic"}
  /\ sent.currency \in Currencies
  /\ trace \in [from : Currencies,        \* the currency the account came in
                conversions : Nat,        \* of the savings
                touches : Nat,            \* of the field that shows them
                early : BOOLEAN,          \* one conversion had no rates
                skipped : BOOLEAN]        \* a call of initStatisticPage was dropped
  /\ clicks \in 0..MaxClicks

\* Switching currencies to and fro, on either page and with calls dropped in
\* between, loses at most the rounding to thousandths of each conversion and to
\* whole units of each touch of the field: unless one of them had no rates yet.
MoneySurvivesSwitching ==
  LET roubles(m, c) == m * RateWhen(TRUE, c)
      largest == Max({1, Rates["EUR"], Rates["USD"]})
  IN  trace.early
      \/ /\ money # Broken
         /\ Abs(roubles(money, last) - roubles(1000 * FreeMoney, trace.from))
              <= largest * (trace.conversions + 500 * trace.touches)

\* A save names the currency its amount is in, unless the last change of the
\* currency on page 4 fell to the debounce of initStatisticPage (main.js:313);
\* and it saves a number unless a conversion had no rates (dashboard.js:121-140).
SavedMoneyIsLabelled ==
  /\ sent.currency = sent.unit \/ sent.skipped
  /\ sent.amount # Broken \/ trace.early

\* What the months' sums should be.
TrueSums ==
  LET inc == Total(TRUE, columns.income, checked)
      exp == Total(TRUE, columns.expense, checked)
  IN  [inc |-> inc, exp |-> IF Abs(inc - exp) < 10 THEN inc ELSE exp, known |-> TRUE]

\* Page 4 shows the items of the account in the currency it names: the sums are
\* theirs, if the rates were known when they were computed and the incomes are
\* not so small that the snap of dashboard.js:112 counts them twice; the label is
\* that of the selected currency, unless a call of initStatisticPage was dropped.
PageFourAgrees ==
  /\ sums.known => (sums = TrueSums \/ sums.inc \in 1..9)
  /\ page = "statistic" => (label = checked \/ trace.skipped)

\* Once all timers have fired the months of the forecast on page 4 are of the sums,
\* the savings and the deposit that the page shows, for the slider or for its right
\* end, however launches, buttons and slides interleaved with the timers; and so is
\* its year-end number, unless the last draw is a short one that overtook a longer.
ForecastIsCurrent ==
  page = "statistic" /\ due = {} /\ writes = <<>> =>
    /\ drawn \in {Forecast(share), Forecast(100)}
    /\ yearEnd = drawn \/ overtook

\* "Set precision value" (dashboard.js:404): when the last timer of the forecast has
\* set its value, the year-end number is that of the forecast drawn last.  It is not:
\* the timer of an older and longer draw sets it after that of a slide.
YearEndIsPrecise ==
  page = "statistic" /\ due = {} /\ writes = <<>> /\ money # Broken /\ Delta # Broken =>
    Year(yearEnd)[12] = Year(drawn)[12]

\* In the forecast a deposit never leaves less than the same money kept at home,
\* but for a unit a month that is cut off; and capitalization never pays less over
\* the year than interest at its end, but for those units and what they would have
\* earned in the 66 months left to them.  Excepted are the months before the last of
\* a deposit without capitalization, which leave out what is not deposited
\* (dashboard.js:312-315).
DepositPays ==
  LET f == drawn
      year == Year(f)
      home == [k \in 0..12 |-> (f.money + k * f.delta) * 1200]
  IN  (f.money # Broken /\ f.delta # Broken /\ f.delta >= 0) =>
        /\ \A k \in 0..12 :
             \/ year[k] >= home[k] - k * 1200
             \/ f.plan.deposit /\ ~f.plan.capitalization /\ f.share < 100 /\ k \in 1..11
        /\ CapitalizedYear(f)[12] >= SimpleYear(f)[12] - 12 * 1200 - 66 * Percent

=============================================================================
