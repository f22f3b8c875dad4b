-------------------------- MODULE MCAccountService --------------------------
(* Instances of AccountService for TLC. *)
EXTENDS AccountService, TLC

CONSTANTS r1, r2, r3, n1, m1, m2, cny, usd

\* r1 is served by the first node, everything else by the second.
TwoNodes == r1 :> m1 @@ r2 :> m2 @@ r3 :> m2

OneNode == [r \in Requests |-> m1]

Ask(kind, c) == [kind |-> kind, name |-> n1, currency |-> c, target |-> NoOne,
                 valid |-> TRUE]

DeleteOf(i) == [Ask("deleteItem", Blank) EXCEPT !.target = i]

\* Three updates, some of which leave the currency alone; the first may be a
\* delete, which goes around the lock.
UpdateInputs == r1 :> {Ask("update", Blank), Ask("delete", Blank)}
                @@ [r \in {r2, r3} |-> {Ask("update", usd), Ask("update", Blank)}]

\* r2 and r3 send the same requests to the same node.
Twins == Permutations({r2, r3})

\* The life of one account: created (twice, perhaps), filled, changed, emptied,
\* deleted, and read on both nodes.
LifeInputs ==
  r1 :> {Ask("create", cny), Ask("addItem", Blank), Ask("find", Blank)}
  @@ r2 :> {Ask("create", cny), Ask("delete", Blank), Ask("update", usd), Ask("find", Blank)}
  @@ r3 :> {Ask("create", cny), Ask("update", cny), DeleteOf(r1),
            [Ask("addItem", Blank) EXCEPT !.valid = FALSE]}

\* Two plain updates, for the two documented promises about the lock.
TwoUpdates == [r \in Requests |-> {Ask("update", usd)}]

\* One writer and one reader on one node.
WriteAndRead == r1 :> {Ask("addItem", Blank)} @@ r2 :> {Ask("find", Blank)}
=============================================================================
