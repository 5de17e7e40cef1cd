--------------------------- MODULE MCSignedMutations ---------------------------
(* Instances of SignedMutations for TLC.                                     *)
EXTENDS SignedMutations, TLC

CONSTANTS u1, u2, u3, r1, r2

Ask(u, op, r) == [user |-> u, op |-> op, request |-> r, approvers |-> {}]
Settle(u, a) == [user |-> u, op |-> "settings", request |-> NoRequest, approvers |-> a]

(* A request, its approval and its cancellation, and the approver replaced.  *)
Desk == {Ask(u1, "create", NoRequest), Ask(u2, "approve", r1), Ask(u1, "cancel", r1),
         Settle(u3, {u3})}

(* Two requests after one another, decided by an approver with an alert.     *)
Retries == {Ask(u1, "create", NoRequest), Ask(u2, "approve", r1), Ask(u2, "reject", r1),
            Ask(u2, "acknowledge", NoRequest)}

(* The administrator replaces the approver and takes it back.                *)
Settings == {Settle(u3, {u2}), Settle(u3, {u3})}

CallSymmetry == Permutations(Calls)
===============================================================================
