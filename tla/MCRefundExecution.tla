-------------------------- MODULE MCRefundExecution ---------------------------
(* Instances of RefundExecution for TLC.                                     *)
EXTENDS RefundExecution

CONSTANTS r1, r2, p1

OneRequest  == {r1}
TwoRequests == {r1, r2}
OnePayment  == {p1}

SamePayment == [r \in Requests |-> p1]
===============================================================================
