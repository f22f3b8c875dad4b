---------------------------- MODULE MCItemEditor ----------------------------
(* Instance of ItemEditor for TLC. *)
EXTENDS ItemEditor, TLC

CONSTANTS v1, v2

\* One income, and expenses that need one row more than the frame has.
OneAndThree == [c \in Columns |-> IF c = "income" THEN <<v1>> ELSE <<v1, v1, v1>>]
=============================================================================
