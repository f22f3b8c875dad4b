-------------------------- MODULE MCStatisticsPage --------------------------
(* StatisticsPage with three sets of items: incomes below the snap, items of *)
(* every currency and period, and sums that are snapped together.            *)
EXTENDS StatisticsPage, TLC

Item(a, c, p) == [amount |-> a, currency |-> c, period |-> p]

Small == [income |-> (1 :> Item(5, "RUB", "MONTH")), expense |-> (1 :> Item(50, "RUB", "MONTH"))]
Mixed == [income  |-> (1 :> Item(3000, "RUB", "MONTH")) @@ (2 :> Item(2, "EUR", "DAY"))
                       @@ (3 :> Item(1, "RUB", "HOUR")),
          expense |-> (1 :> Item(300, "RUB", "QUARTER")) @@ (2 :> Item(24, "USD", "YEAR"))]
Even  == [income |-> (1 :> Item(100, "RUB", "MONTH")), expense |-> (1 :> Item(95, "RUB", "MONTH"))]

ThreeAccounts == {Small, Mixed, Even}
TwoRates == ("EUR" :> 80) @@ ("USD" :> 64)

=============================================================================
