------------------------------ MODULE FlowControl ------------------------------
(***************************************************************************)
(* What one direction of a channel-bus channel promises its receiver: the  *)
(* sender starts with InitialCredit frames, every data frame spends one,   *)
(* only a grant adds more, and nothing is ever spent that was not granted. *)
(* A sender that breaks this is killed by the host, so it is the contract  *)
(* that internal/transport/credit.go exists to keep.                       *)
(***************************************************************************)
EXTENDS Integers

CONSTANT InitialCredit

VARIABLES budget,   \* credit ever handed to the sender, the initial window included
          spent     \* data frames the sender has put on the wire

Init == budget = InitialCredit /\ spent = 0

Spend == spent < budget /\ spent' = spent + 1 /\ UNCHANGED budget

Grant == budget' \in Nat /\ budget' > budget /\ UNCHANGED spent

Next == Spend \/ Grant

Spec == Init /\ [][Next]_<<budget, spent>>
================================================================================
