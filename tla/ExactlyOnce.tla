----------------------------- MODULE ExactlyOnce -----------------------------
(***************************************************************************)
(* What Spec B2 asks of the account-event pipeline, without queues, copies,*)
(* retries or crashes: an event that was sent is settled once and for all, *)
(* either processed or given up as dead, and it takes effect in the step   *)
(* that settles it or never.                                               *)
(***************************************************************************)
CONSTANT Events

VARIABLES state,    \* what the consumer has recorded of each event
          effect    \* the places the event's effect has in the history of saves

States == {"unsent", "pending", "processed", "dead"}

Init == /\ state = [e \in Events |-> "unsent"]
        /\ effect = [e \in Events |-> {}]

Send(e) == /\ state[e] = "unsent"
           /\ state' = [state EXCEPT ![e] = "pending"]
           /\ UNCHANGED effect

\* Processing records the event and, in the same step, takes effect once at most.
Process(e) == /\ state[e] = "pending"
              /\ state' = [state EXCEPT ![e] = "processed"]
              /\ effect' = [effect EXCEPT ![e] = effect'[e]]
              /\ \A j, k \in effect'[e] : j = k

Bury(e) == /\ state[e] = "pending"
           /\ state' = [state EXCEPT ![e] = "dead"]
           /\ UNCHANGED effect

Next == \E e \in Events : Send(e) \/ Process(e) \/ Bury(e)

Spec == Init /\ [][Next]_<<state, effect>>
=============================================================================
